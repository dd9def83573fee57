------------------------------ MODULE MCPairing ------------------------------
(* Pairing on a small instance. *)
EXTENDS Pairing, TLC

\* The devices that scan the code are interchangeable.
Sym == Permutations(Target)
=============================================================================
