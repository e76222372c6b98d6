\* Two handler threads, three events, any delivery of their messages.
SPECIFICATION Spec
CONSTANTS
  p1 = p1
  p2 = p2
  z1 = z1
  e1 = e1
  e2 = e2
  u1 = u1
  u2 = u2
  u3 = u3
  None = None
  Products = {p1, p2}
  Zones = {z1}
  Orders = {}
  EntityKeys = {}
  EventIds <- MCEventIds
  Events <- MCEvents
  h1 = h1
  h2 = h2
  Handlers <- MCHandlers
  Commands <- MCCommands
  Uuid <- MCUuid
  Times = {1, 3}
  Partitions = {0, 1}
  PartitionOf <- MCPartitionOf
  MaxEvents = 3
  MaxRetransmits = 1
INVARIANTS
  TypeOK
  AcceptedIsPublished
  SequentialInOrder
  RepeatTakesEffectOnce
  BatchPublishesPrefix
SYMMETRY HandlerSymmetry
