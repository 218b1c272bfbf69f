----------------------------- MODULE MCCodeRun -----------------------------
(* Instances of CodeRun for TLC.                                            *)
EXTENDS CodeRun
CONSTANTS r1, r2, w1, w2, s1, s2, s3, h1, h2

TwoEditions == <<<<s1, h1, s2>>, <<s3, h2>>>>
Weights == (s1 :> 1) @@ (s2 :> 3) @@ (s3 :> 1) @@ (h1 :> 2) @@ (h2 :> 1)

Outcome(exit, elapsed, output) == [exit |-> exit, elapsed |-> elapsed, output |-> output]

\* Right, and output that is not JSON.
TwoOutcomes == {Outcome(0, 50, "right"), Outcome(0, 50, "garbled")}
=============================================================================
