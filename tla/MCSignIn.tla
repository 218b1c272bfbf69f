------------------------------ MODULE MCSignIn ------------------------------
(* Instances of SignIn for TLC.                                             *)
EXTENDS SignIn, TLC
CONSTANTS p1, p2
ProcsAlike == Permutations({p1, p2})
=============================================================================
