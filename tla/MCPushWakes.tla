----------------------------- MODULE MCPushWakes -----------------------------
(* PushWakes for TLC: what the author publishes, and symmetry. *)
EXTENDS PushWakes, TLC

CONSTANTS i1, i2, a

On(i, order, generation, endpoint) ==
    [install |-> i, order |-> order, generation |-> generation, active |-> TRUE,
     endpoint |-> endpoint]
Off(i, order, generation) ==
    [On(i, order, generation, None) EXCEPT !.active = FALSE]

(* A registration, and its renewal or revocation. *)
OneDevice == {On(i1, 1, 1, a), On(i1, 2, 2, a), Off(i1, 2, 2)}

(* A registration, its renewal, and a second device that wants the same    *)
(* endpoint.                                                               *)
TwoDevices == {On(i1, 1, 1, a), On(i1, 2, 2, a), On(i2, 1, 1, a)}

Symmetry == Permutations(Matchers) \cup Permutations(Workers)
=============================================================================
