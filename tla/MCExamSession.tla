--------------------------- MODULE MCExamSession ---------------------------
(* Instances of ExamSession for TLC.                                        *)
EXTENDS ExamSession
CONSTANTS p1, p2, p3
ProcsAlike == Permutations({p1, p2, p3})
=============================================================================
