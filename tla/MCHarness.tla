------------------------------ MODULE MCHarness ------------------------------
(* Harness on small instances. *)
EXTENDS Harness, TLC

\* Agents are interchangeable, and so are channels.
Sym == Permutations(Agent) \cup Permutations(Channel)
=============================================================================
