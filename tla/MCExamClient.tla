---------------------------- MODULE MCExamClient ----------------------------
(* Instances of ExamClient for TLC; the .cfg files choose among them.       *)
EXTENDS ExamClient
CONSTANTS q1, q2, a, b
=============================================================================
