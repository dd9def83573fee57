------------------------------ MODULE MCHuddle ------------------------------
(* Huddle on a small instance: two clients at one pod, one at the other. *)
EXTENDS Huddle, TLC

CONSTANTS p1, p2, c1, c2, c3, c4

Near == [c \in Conns |-> IF c = c3 THEN p2 ELSE p1]

\* The clients of the first pod are interchangeable.
Sym == Permutations({c1, c2, c4} \cap Conns)

\* One late renewer, late join or failing call; and a drain, alone or with the first.
FewFaults ==
    LET joinsAndCalls == (MaxSlowJoins - slow) + (MaxErrors - errors)
    IN  /\ (MaxStalls - stalls) + joinsAndCalls <= 1
        /\ (\E p \in Pods : is_draining(p)) => joinsAndCalls = 0
=============================================================================
