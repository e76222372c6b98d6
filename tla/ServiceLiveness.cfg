\* Liveness, under every kind of failure.
SPECIFICATION FairServiceSpec
CONSTANTS
  p1 = p1
  p2 = p2
  z1 = z1
  None = None
  Garbage = Garbage
  Products = {p1, p2}
  Zones = {z1}
  Orders = {}
  EntityKeys = {}
  EventIds <- MCEventIds
  Events <- MCEvents
  MaxInt = 3
  Consumer = c1
  Consumers = {c1}
  Partitions = {0, 1}
  PartitionOf <- MCPartitionOf
  Faults <- FaultKinds
  MaxFaults = 2
  MaxMessages = 2
PROPERTIES
  EventuallyHandled
  EventuallyCommitted
  LagReported
