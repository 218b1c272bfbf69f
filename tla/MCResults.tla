----------------------------- MODULE MCResults -----------------------------
(* Instances of Results for TLC.                                           *)
EXTENDS Results
CONSTANTS s1, s2, s3, q1, q3, c1, c2, A, B

\* Two sections; marks and penalties of a question's own, or of its section.  The marks of
\* the coding question are not a multiple of what its cases weigh.
Paper ==
    [section  |-> q1 :> A @@ q3 :> B,
     marks    |-> q1 :> None @@ q3 :> 30000,
     negative |-> q1 :> 2500 @@ q3 :> None,
     default  |-> A :> [marks |-> 10000, negative |-> 5000] @@ B :> [marks |-> 10000, negative |-> 0]]

OnePaper    == {Paper}
TwoWeights  == c1 :> 3 @@ c2 :> 4
Sizes       == {0, 5}
StudentsAlike == Permutations({s1, s2, s3})
=============================================================================
