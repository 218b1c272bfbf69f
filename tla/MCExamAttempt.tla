--------------------------- MODULE MCExamAttempt ---------------------------
(* Instances of ExamAttempt for TLC; the .cfg files choose among them.      *)
EXTENDS ExamAttempt
CONSTANTS q1, q2, c1, s1, s2, sub1, sub2, force1, sweep1, w1, w2, j1, j2
=============================================================================
