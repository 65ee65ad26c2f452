----------------------------- MODULE MCRecovery -----------------------------
(* Small instances of Recovery.                                            *)
EXTENDS Recovery, TLC

CONSTANTS i1, c1

MCAccepted == [ino |-> i1, content |-> c1]

Symmetric == Permutations(Ops) \cup Permutations(Inodes \ {i1})
=============================================================================
