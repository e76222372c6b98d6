\* The schema registry does not answer.
SPECIFICATION ServiceSpec
CONSTANTS
  p1 = p1
  p2 = p2
  z1 = z1
  None = None
  Garbage = Garbage
  Products = {p1, p2}
  Zones = {z1}
  Orders = {}
  EntityKeys = {}
  EventIds <- MCEventIds
  Events <- MCEvents
  MaxInt = 3
  Consumer = c1
  Consumers = {c1}
  Partitions = {0, 1}
  PartitionOf <- MCPartitionOf
  Faults = {"deserialize"}
  MaxFaults = 1
  MaxMessages = 2
INVARIANT
  DlqKeepsEvent
