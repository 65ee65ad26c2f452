------------------------- MODULE MCDaemonLifecycle -------------------------
(* Small instances of DaemonLifecycle.                                     *)
EXTENDS DaemonLifecycle, TLC

CONSTANTS INT, TERM

MCSignalExit == [s \in Signals |-> IF s = INT THEN 130 ELSE 143]

Symmetric == Permutations(Daemons) \cup Permutations(Inodes) \cup Permutations(Clients)
=============================================================================
