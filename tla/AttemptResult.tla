--------------------------- MODULE AttemptResult ---------------------------
(***************************************************************************)
(* What a finished attempt promises to whoever reads its result: it is     *)
(* open, then finalized with its grading pending or graded, and it never   *)
(* goes back; and from the moment it is finalized the published total is   *)
(* the sum of the marks on record, however often they are computed again.  *)
(* Marks and total are functions on the questions, as in ExamAttempt.      *)
(***************************************************************************)
CONSTANTS Questions, Versions

VARIABLES phase, marks, total

vars == <<phase, marks, total>>

Init ==
    /\ phase = "open"
    /\ marks = [q \in Questions |-> 0]
    /\ total = [q \in Questions |-> 0]

Publish ==
    /\ marks' \in [Questions -> Versions]
    /\ total' = marks'

\* submit_exam, force_submit or the sweeper commits.
Finalize == phase = "open" /\ phase' \in {"pending", "graded"} /\ Publish

\* The judge, or a second finalizer, commits after that.
Rescore == phase # "open" /\ phase' \in {phase, "graded"} /\ Publish

Next == Finalize \/ Rescore

Spec == Init /\ [][Next]_vars
=============================================================================
