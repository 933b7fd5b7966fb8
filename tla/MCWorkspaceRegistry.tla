-------------------------- MODULE MCWorkspaceRegistry --------------------------
(* The finite instances of WorkspaceRegistry that TLC checks. *)
EXTENDS WorkspaceRegistry, TLC

CONSTANT u1

(* All users in one shard, or one of them apart. *)
OneShard == [u \in Users |-> "s1"]
TwoShards == [u \in Users |-> IF u = u1 THEN "s1" ELSE "s2"]

(* Goroutines are interchangeable. *)
Symmetry == Permutations(Threads)
=============================================================================
