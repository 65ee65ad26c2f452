------------------------- MODULE MCArtifactLineage -------------------------
(* Small instances of ArtifactLineage.  Every owner's source names the same *)
(* artifact, so that owners meet on one.                                    *)
EXTENDS ArtifactLineage, TLC

CONSTANTS o1, o2, o3, a1

Symmetric ==
  Permutations(Ops) \cup Permutations(Contents) \cup Permutations(Inodes)
    \cup Permutations(Paths)

MCSourceArtifact == [w \in Owners |-> a1]
=============================================================================
