-------------------------- MODULE MCExamAuthoring --------------------------
(* Instances of ExamAuthoring for TLC.                                     *)
EXTENDS ExamAuthoring
CONSTANTS a1, a2, st1, s1, s2, g1, q1, q2, q3, q4

\* A section with two questions and a group of two, the group in the middle; and an empty exam.
Ready4 ==
    [sections  |-> {s1},
     groups    |-> g1 :> GroupRow(s1, 1),
     questions |-> LET R(g, i) == QuestionRow(s1, g, i, {0})
                   IN q1 :> R(None, 0) @@ q2 :> R(g1, 1) @@ q3 :> R(g1, 2) @@ q4 :> None]

Empty ==
    [sections |-> {}, groups |-> g1 :> None, questions |-> [q \in {q1, q2, q3, q4} |-> None]]

StartPapers == {Ready4, Empty}
AdminsAlike == Permutations({a1, a2})
=============================================================================
