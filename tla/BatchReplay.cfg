\* A batch times out and is replayed after the next one.
SPECIFICATION Spec
CONSTANTS
  n1 = n1
  n2 = n2
  n3 = n3
  z1 = z1
  z2 = z2
  Zones <- MCZones
  Total = Total
  Nodes <- MCNodes
  Quorums <- MCQuorums
  MaxEvents = 2
  MaxTimeouts = 1
CHECK_DEADLOCK FALSE
INVARIANT
  RowsAgree
