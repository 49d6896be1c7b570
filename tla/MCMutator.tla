------------------------------ MODULE MCMutator ------------------------------
(* Instances of Mutator for TLC.                                           *)
EXTENDS Mutator, TLC

CONSTANTS h1, p1, p2

\* Two attempts at one removal, with the files and without.
SomeRequests == {[action |-> "remove", hash |-> h1, par |-> p1],
                 [action |-> "remove", hash |-> h1, par |-> p2]}

\* One request that must not run twice.
OneRequest == {[action |-> "remove", hash |-> h1, par |-> p1]}

Symmetric == Permutations(Thread) \cup Permutations(Ref)
=============================================================================
