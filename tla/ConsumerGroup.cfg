\* Two consumers share the demo scenarios; one of them dies or is evicted.
SPECIFICATION GroupSpec
CONSTANTS
  SKU_001 = SKU_001
  SKU_002 = SKU_002
  SKU_003 = SKU_003
  SKU_004 = SKU_004
  SKU_006 = SKU_006
  SKU_DLQ = SKU_DLQ
  ZONE_A = ZONE_A
  ZONE_B = ZONE_B
  ORDER_001 = ORDER_001
  c1 = c1
  c2 = c2
  None = None
  Products = {SKU_001, SKU_002, SKU_003, SKU_004, SKU_006, SKU_DLQ}
  Zones = {ZONE_A, ZONE_B}
  Orders = {ORDER_001}
  EntityKeys <- MCEntityKeys
  EventIds <- MCEventIds
  Events <- MCEvents
  MaxInt = 100
  Consumers <- MCConsumers
  Partitions = {0, 1}
  PartitionOf <- MCPartitionOf
  Sent <- all
  MaxFailures = 1
SYMMETRY ConsumerSymmetry
INVARIANTS
  GroupTypeOK
  GroupCommittedMeansHandled
  OneWriterPerProduct
  GroupTablesAgree
  OrdersComplete
  OrdersClosed
  DemoResult
PROPERTIES
  GroupLedger
