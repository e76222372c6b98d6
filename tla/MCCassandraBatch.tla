--------------------------- MODULE MCCassandraBatch ---------------------------
(***************************************************************************)
(* CassandraBatch for TLC: three nodes, two of which make a quorum.        *)
(***************************************************************************)
EXTENDS CassandraBatch, TLC

CONSTANTS n1, n2, n3, z1, z2

MCNodes == {n1, n2, n3}
MCZones == {z1, z2}
ReplicaSymmetry == Permutations(MCNodes) \cup Permutations(MCZones)

MCQuorums == {Q \in SUBSET MCNodes : Cardinality(Q) = 2}
=============================================================================
