------------------------------ MODULE MCLogins ------------------------------
(* Instances of Logins for TLC.                                            *)
EXTENDS Logins, TLC

Symmetric == Permutations(Test) \cup Permutations(Password)
=============================================================================
