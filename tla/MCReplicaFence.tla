-------------------------- MODULE MCReplicaFence --------------------------
(* ReplicaFence for TLC: fault plans and symmetry. *)
EXTENDS ReplicaFence, TLC

CONSTANTS p1, p2

Plan(pods, beats, failures, restores) ==
    [pods |-> pods, beats |-> beats, failures |-> failures, restores |-> restores]

(* Two pods; one pod that fails; one undisturbed pod and a restore. *)
Plans == {Plan({p1, p2}, 2, 0, 0)} \cup
         UNION {{Plan({p}, 3, 1, 0), Plan({p}, 3, 0, 1)} : p \in {p1, p2}}

(* One pod whose probe may fail around a restore. *)
FailureAndRestore == {Plan({p1}, 3, 1, 1)}

Symmetry == Permutations(Xacts) \cup Permutations(Pods)
=============================================================================
