\* Three batches on three replicas; the coordinator may give up one of them.
SPECIFICATION Spec
CONSTANTS
  n1 = n1
  n2 = n2
  n3 = n3
  z1 = z1
  z2 = z2
  Zones <- MCZones
  Total = Total
  Nodes <- MCNodes
  Quorums <- MCQuorums
  MaxEvents = 3
  MaxTimeouts = 1
CHECK_DEADLOCK FALSE
SYMMETRY ReplicaSymmetry
INVARIANTS
  TypeOK
  AckedCounted
  CountsExact
  BatchAtomic
