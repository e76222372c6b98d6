\* One consumer, as deployed: an order whose completion has another topic key.
SPECIFICATION GroupSpec
CONSTANTS
  SKU_001 = SKU_001
  SKU_002 = SKU_002
  SKU_003 = SKU_003
  SKU_004 = SKU_004
  SKU_006 = SKU_006
  SKU_DLQ = SKU_DLQ
  ZONE_A = ZONE_A
  ZONE_B = ZONE_B
  ORDER_001 = ORDER_001
  c1 = c1
  c2 = c2
  None = None
  Products = {SKU_001, SKU_002, SKU_003, SKU_004, SKU_006, SKU_DLQ}
  Zones = {ZONE_A, ZONE_B}
  Orders = {ORDER_001}
  EntityKeys <- MCEntityKeys
  EventIds <- MCEventIds
  Events <- MCEvents
  MaxInt = 100
  Consumers = {c1}
  Partitions = {0, 1}
  PartitionOf <- MCPartitionOf
  Sent <- SplitOrder
  MaxFailures = 0
INVARIANT
  OrdersComplete
