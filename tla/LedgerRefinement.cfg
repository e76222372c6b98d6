\* One consumer process, every delivery order, database failures; the ledger.
SPECIFICATION Spec
CONSTANTS
  p1 = p1
  p2 = p2
  z1 = z1
  z2 = z2
  o1 = o1
  count_p1 = count_p1
  None = None
  Products = {p1, p2}
  Zones = {z1, z2}
  Orders = {o1}
  EntityKeys = {count_p1}
  EventIds <- MCEventIds
  Events <- MCEvents
  Consumers = {c1}
  MaxInt = 3
INVARIANTS
  TypeOK
  TablesAgree
  ViewsAgree
  StockInRange
  TotalNeverShort
  ResultMatchesRecord
  ReservationsAccounted
  StockAccounted
  OrdersCompletable
PROPERTIES
  AppliedOnce
  VersionsMonotonic
  OrderLifecycle
  ConservesStock
  LedgerSpec
