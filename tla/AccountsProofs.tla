--------------------------- MODULE AccountsProofs ---------------------------
(***************************************************************************)
(* The stock is what the history and the orders say it is: the accounts of *)
(* StockAccounts hold for every topic and every size of the tables.  They  *)
(* follow from the ledger: its step says what a batch does to each cell,   *)
(* and the lemmas here what the same event adds to each sum.               *)
(***************************************************************************)
EXTENDS StockAccounts, LedgerProofs

----------------------------------------------------------------------------
(* Sums of quantities. *)

\* Counted(f) counts the units of the lines that have f for quantities.
LEMMA CountedIsUnitsOf ==
  ASSUME NEW S, NEW f, DOMAIN f = S
  PROVE  Ledger!Counted(f) = Cardinality(UnitsOf([x \in S |-> [quantity |-> f[x]]], S))
<1> DEFINE items == [x \in S |-> [quantity |-> f[x]]]
<1>1. \A x \in S : items[x].quantity = f[x]  OBVIOUS
<1> HIDE DEF items
<1>2. {{x} \X (1..f[x]) : x \in DOMAIN f} = {{x} \X (1..items[x].quantity) : x \in S}
  BY <1>1
<1>3. UNION {{x} \X (1..f[x]) : x \in DOMAIN f} = UnitsOf(items, S)
  BY <1>2, Zenon DEF UnitsOf
<1>4. Ledger!Counted(f) = Cardinality(UnitsOf(items, S))
  BY <1>3, SameCardinality, Zenon DEF Ledger!Counted
<1> QED  BY <1>4 DEF items

LEMMA CountedNone ==
  ASSUME NEW f, DOMAIN f = {}
  PROVE  Ledger!Counted(f) = 0
<1>1. UNION {{x} \X (1..f[x]) : x \in DOMAIN f} = {}  OBVIOUS
<1>2. Ledger!Counted(f) = Cardinality({})  BY <1>1, SameCardinality, Zenon DEF Ledger!Counted
<1> QED  BY <1>2, FS_EmptySet

LEMMA CountedType ==
  ASSUME NEW S, IsFiniteSet(S), NEW f, DOMAIN f = S, \A x \in S : f[x] \in Nat
  PROVE  Ledger!Counted(f) \in Nat
<1> DEFINE items == [x \in S |-> [quantity |-> f[x]]]
<1>1. \A x \in S : items[x].quantity \in Nat  OBVIOUS
<1>2. Ledger!Counted(f) = Cardinality(UnitsOf(items, S))  BY CountedIsUnitsOf
<1> HIDE DEF items
<1> QED  BY <1>1, <1>2, UnitsOfFinite, FS_CardinalityType

\* g is f with one more element.
Extends(g, f, x) ==
  /\ IsFiniteSet(DOMAIN f) /\ x \notin DOMAIN f /\ DOMAIN g = DOMAIN f \cup {x}
  /\ \A y \in DOMAIN f : f[y] \in Nat /\ g[y] = f[y]
  /\ g[x] \in Nat

\* A further element adds its quantity.
LEMMA CountedAdd ==
  ASSUME NEW f, NEW g, NEW x, Extends(g, f, x)
  PROVE  Ledger!Counted(g) = Ledger!Counted(f) + g[x]
<1> DEFINE S == DOMAIN f
<1>0. /\ IsFiniteSet(S) /\ x \notin S /\ DOMAIN f = S /\ DOMAIN g = S \cup {x}
      /\ \A y \in S : f[y] \in Nat /\ g[y] = f[y]
      /\ g[x] \in Nat
  BY DEF Extends
<1> HIDE DEF S
<1> DEFINE T == S \cup {x}
           items == [y \in T |-> [quantity |-> g[y]]]
           old == [y \in S |-> [quantity |-> f[y]]]
<1>1. \A y \in S : items[y].quantity = f[y] /\ old[y].quantity = f[y]  BY <1>0
<1>2. items[x].quantity = g[x]  OBVIOUS
<1>3. Ledger!Counted(g) = Cardinality(UnitsOf(items, T))  BY <1>0, CountedIsUnitsOf
<1>4. Ledger!Counted(f) = Cardinality(UnitsOf(old, S))  BY <1>0, CountedIsUnitsOf
<1> HIDE DEF items, old
<1>5. UnitsOf(old, S) = UnitsOf(items, S)
  <2>1. {{y} \X (1..old[y].quantity) : y \in S} = {{y} \X (1..items[y].quantity) : y \in S}
    BY <1>1
  <2> QED  BY <2>1, Zenon DEF UnitsOf
<1>6. (\A y \in S : items[y].quantity \in Nat) /\ items[x].quantity \in Nat  BY <1>0, <1>1, <1>2
<1>7. Cardinality(UnitsOf(items, S \cup {x})) = Cardinality(UnitsOf(items, S)) + items[x].quantity
  BY <1>0, <1>6, UnitsOfAdd
<1> QED  BY <1>2, <1>3, <1>4, <1>5, <1>7

----------------------------------------------------------------------------
(* The units of the events that a history names.                           *)

AppliedIn(history, S) == {e \in S : history[e] = "PROCESSED"}
UnitsIn(history, S) == Ledger!Counted([e \in AppliedIn(history, S) |-> e.quantity])

\* Finitely many events have been recorded, all of them valid.
HistoryOK(history) ==
  /\ history \in [Events -> Optional(Recorded)]
  /\ IsFiniteSet({e \in Events : history[e] # None})
  /\ \A e \in Events : history[e] # None => validate_event(e)

\* Events whose valid ones are about a number of units.
Sized(S) == \A e \in S : e \in Events /\ (validate_event(e) => e.quantity \in Nat)

LEMMA SizedSets ==
  ASSUME NEW p, NEW z
  PROVE  /\ \A type \in {"PRODUCT_RECEIVED", "PRODUCT_SHIPPED", "PRODUCT_RESERVED",
                         "PRODUCT_RELEASED"} : Sized(EventsAt(type, p, z))
         /\ Sized(MovesFrom(p, z)) /\ Sized(MovesTo(p, z))
BY ProductEvent DEF Sized, EventsAt, MovesFrom, MovesTo, IsOrderEvent

LEMMA AppliedFinite ==
  ASSUME NEW h, HistoryOK(h), NEW S, Sized(S)
  PROVE  /\ IsFiniteSet(AppliedIn(h, S))
         /\ \A e \in AppliedIn(h, S) : e.quantity \in Nat
         /\ UnitsIn(h, S) \in Nat
<1> DEFINE A == AppliedIn(h, S)
           f == [e \in A |-> e.quantity]
<1>1. "PROCESSED" # None  BY ValueAssumption DEF Returned, Recorded
<1>2. A \subseteq {e \in Events : h[e] # None}  BY <1>1 DEF AppliedIn, Sized
<1>3. IsFiniteSet(A)  BY <1>2, FS_Subset DEF HistoryOK
<1>4. \A e \in A : e.quantity \in Nat  BY <1>2 DEF AppliedIn, Sized, HistoryOK
<1>5. DOMAIN f = A /\ \A e \in A : f[e] \in Nat  BY <1>4
<1>6. UnitsIn(h, S) = Ledger!Counted(f)  BY DEF UnitsIn
<1> HIDE DEF A, f
<1>7. Ledger!Counted(f) \in Nat  BY <1>3, <1>5, CountedType
<1> QED  BY <1>3, <1>4, <1>6, <1>7 DEF A

LEMMA QuantityAdded ==
  ASSUME NEW A, IsFiniteSet(A), \A x \in A : x.quantity \in Nat,
         NEW e, e \notin A, e.quantity \in Nat
  PROVE  Ledger!Counted([x \in A \cup {e} |-> x.quantity]) =
           Ledger!Counted([x \in A |-> x.quantity]) + e.quantity
<1> DEFINE f == [x \in A |-> x.quantity]
           g == [x \in A \cup {e} |-> x.quantity]
<1>1. Extends(g, f, e) /\ g[e] = e.quantity  BY DEF Extends
<1> HIDE DEF f, g
<1>2. Ledger!Counted(g) = Ledger!Counted(f) + g[e]  BY <1>1, CountedAdd
<1> QED  BY <1>1, <1>2 DEF f, g

\* A record of a new event adds its units if it took effect, and nothing else.
LEMMA UnitsRecorded ==
  ASSUME NEW h, HistoryOK(h), NEW S, Sized(S),
         NEW e \in Events, h[e] = None, validate_event(e),
         NEW r \in Recorded, NEW g, g = [h EXCEPT ![e] = r]
  PROVE  UnitsIn(g, S) =
           UnitsIn(h, S) + (IF r = "PROCESSED" /\ e \in S THEN e.quantity ELSE 0)
<1> DEFINE A == AppliedIn(h, S)
           B == AppliedIn(g, S)
<1>0. "PROCESSED" # None  BY ValueAssumption DEF Returned, Recorded
<1>1. IsFiniteSet(A) /\ (\A x \in A : x.quantity \in Nat) /\ UnitsIn(h, S) \in Nat
  BY AppliedFinite
<1>2. /\ \A x \in S : x \in Events
      /\ \A x \in Events : g[x] = IF x = e THEN r ELSE h[x]
  BY DEF Sized, HistoryOK
<1>3. CASE r = "PROCESSED" /\ e \in S
  <2>1. B = A \cup {e} /\ e \notin A  BY <1>0, <1>2, <1>3 DEF AppliedIn
  <2>2. e.quantity \in Nat  BY <1>3 DEF Sized
  <2>3. /\ UnitsIn(h, S) = Ledger!Counted([x \in A |-> x.quantity])
        /\ UnitsIn(g, S) = Ledger!Counted([x \in A \cup {e} |-> x.quantity])
    BY <2>1 DEF UnitsIn
  <2> HIDE DEF A, B
  <2>4. Ledger!Counted([x \in A \cup {e} |-> x.quantity]) =
          Ledger!Counted([x \in A |-> x.quantity]) + e.quantity
    BY <1>1, <2>1, <2>2, QuantityAdded
  <2> QED  BY <1>3, <2>3, <2>4
<1>4. CASE ~(r = "PROCESSED" /\ e \in S)
  <2>1. B = A  BY <1>0, <1>2, <1>4 DEF AppliedIn
  <2>2. UnitsIn(g, S) = UnitsIn(h, S)  BY <2>1 DEF UnitsIn
  <2> QED  BY <1>1, <1>4, <2>2
<1> QED  BY <1>3, <1>4

LEMMA HistoryRecorded ==
  ASSUME NEW h, HistoryOK(h), NEW e \in Events, validate_event(e), NEW r \in Recorded
  PROVE  HistoryOK([h EXCEPT ![e] = r])
<1> DEFINE g == [h EXCEPT ![e] = r]
           Old == {x \in Events : h[x] # None}
           New == {x \in Events : g[x] # None}
<1>1. g \in [Events -> Optional(Recorded)] /\ \A x \in Events : g[x] = IF x = e THEN r ELSE h[x]
  BY DEF HistoryOK, Optional
<1>2. New \subseteq Old \cup {e}  BY <1>1
<1>3. IsFiniteSet(Old \cup {e})  BY FS_AddElement DEF HistoryOK
<1>4. IsFiniteSet(New)  BY <1>2, <1>3, FS_Subset
<1>5. \A x \in Events : g[x] # None => validate_event(x)  BY <1>1 DEF HistoryOK
<1> QED  BY <1>1, <1>4, <1>5 DEF HistoryOK

----------------------------------------------------------------------------
(* The units of the orders with a status.                                  *)

OrdersIn(table, status) == {o \in Orders : table[o] # None /\ table[o].status = status}
OrderedIn(table, status, p, z) ==
  Ledger!Counted([o \in OrdersIn(table, status) |-> Ledger!Ordered(table[o].items, p, z)])

OrdersOK(table) ==
  /\ table \in [Orders -> Optional(OrderRecord)]
  /\ IsFiniteSet({o \in Orders : table[o] # None})

\* What one order adds to the units of a status.
OneOrdered(record, status, p, z) ==
  IF record # None /\ record.status = status THEN Ledger!Ordered(record.items, p, z) ELSE 0

LEMMA RecordOrdered ==
  ASSUME NEW record \in Optional(OrderRecord), NEW status, NEW p, NEW z
  PROVE  /\ OneOrdered(record, status, p, z) \in Nat
         /\ record # None => Ledger!Ordered(record.items, p, z) \in Nat
<1>1. record # None => record.items \in Seq(OrderLine)  BY DEF Optional, OrderRecord
<1>2. record # None => Ledger!Ordered(record.items, p, z) \in Nat
  BY <1>1, OrderedIsUpto
<1> QED  BY <1>2 DEF OneOrdered

OthersOrdered(table, o, status, p, z) ==
  Ledger!Counted([x \in OrdersIn(table, status) \ {o} |-> Ledger!Ordered(table[x].items, p, z)])

\* The units of a status are those of one order and those of the others.
LEMMA OrderedWithout ==
  ASSUME NEW t, OrdersOK(t), NEW o \in Orders, NEW s, NEW p, NEW z
  PROVE  /\ OthersOrdered(t, o, s, p, z) \in Nat
         /\ OrderedIn(t, s, p, z) = OthersOrdered(t, o, s, p, z) + OneOrdered(t[o], s, p, z)
<1> DEFINE A == OrdersIn(t, s)
           R == A \ {o}
           f == [x \in A |-> Ledger!Ordered(t[x].items, p, z)]
           rest == [x \in R |-> Ledger!Ordered(t[x].items, p, z)]
<1>1. A \subseteq {x \in Orders : t[x] # None}  BY DEF OrdersIn
<1>2. IsFiniteSet(A) /\ IsFiniteSet(R)  BY <1>1, FS_Subset DEF OrdersOK
<1>3. \A x \in A : Ledger!Ordered(t[x].items, p, z) \in Nat
  BY <1>1, RecordOrdered DEF OrdersOK
<1>4. /\ DOMAIN f = A /\ DOMAIN rest = R
      /\ \A x \in A : f[x] = Ledger!Ordered(t[x].items, p, z) /\ f[x] \in Nat
      /\ \A x \in R : rest[x] \in Nat /\ f[x] = rest[x]
  BY <1>3
<1>5. OrderedIn(t, s, p, z) = Ledger!Counted(f)
      /\ OthersOrdered(t, o, s, p, z) = Ledger!Counted(rest)
  BY DEF OrderedIn, OthersOrdered
<1>6. o \in A <=> t[o] # None /\ t[o].status = s  BY DEF OrdersIn
<1>7. R \subseteq A /\ o \notin R /\ (o \in A => A = R \cup {o}) /\ (o \notin A => A = R)
  OBVIOUS
<1>8. o \notin A => f = rest  BY <1>7
<1> HIDE DEF A, R, f, rest
<1>9. Ledger!Counted(rest) \in Nat  BY <1>2, <1>4, CountedType
<1>10. CASE o \in A
  <2>1. Ledger!Counted(f) = Ledger!Counted(rest) + f[o]
    <3>1. Extends(f, rest, o)  BY <1>2, <1>4, <1>7, <1>10 DEF Extends
    <3> QED  BY <3>1, CountedAdd
  <2>2. f[o] = OneOrdered(t[o], s, p, z)  BY <1>4, <1>6, <1>10 DEF OneOrdered
  <2> QED  BY <1>5, <1>9, <2>1, <2>2
<1>11. CASE o \notin A
  <2>1. OneOrdered(t[o], s, p, z) = 0  BY <1>6, <1>11 DEF OneOrdered
  <2> QED  BY <1>5, <1>8, <1>9, <1>11, <2>1
<1> QED  BY <1>10, <1>11

\* Two tables that differ in one order differ in its units alone.
LEMMA OrderReplaced ==
  ASSUME NEW t, OrdersOK(t), NEW g, OrdersOK(g), NEW o \in Orders,
         \A x \in Orders \ {o} : g[x] = t[x], NEW s, NEW p, NEW z
  PROVE  /\ OrderedIn(t, s, p, z) \in Nat /\ OrderedIn(g, s, p, z) \in Nat
         /\ OrderedIn(g, s, p, z) + OneOrdered(t[o], s, p, z) =
              OrderedIn(t, s, p, z) + OneOrdered(g[o], s, p, z)
<1>1. OthersOrdered(g, o, s, p, z) = OthersOrdered(t, o, s, p, z)
  <2> DEFINE R == OrdersIn(t, s) \ {o}
  <2>1. OrdersIn(g, s) \ {o} = R  BY DEF OrdersIn
  <2>2. \A x \in R : g[x] = t[x]  BY DEF OrdersIn
  <2> HIDE DEF R
  <2>3. [x \in R |-> Ledger!Ordered(g[x].items, p, z)] =
        [x \in R |-> Ledger!Ordered(t[x].items, p, z)]
    BY <2>2
  <2> QED  BY <2>1, <2>3 DEF OthersOrdered, R
<1>2. /\ OthersOrdered(t, o, s, p, z) \in Nat
      /\ OrderedIn(t, s, p, z) = OthersOrdered(t, o, s, p, z) + OneOrdered(t[o], s, p, z)
      /\ OrderedIn(g, s, p, z) = OthersOrdered(g, o, s, p, z) + OneOrdered(g[o], s, p, z)
  BY OrderedWithout
<1>3. OneOrdered(t[o], s, p, z) \in Nat /\ OneOrdered(g[o], s, p, z) \in Nat
  BY RecordOrdered DEF OrdersOK
<1> QED  BY <1>1, <1>2, <1>3

LEMMA OrderWritten ==
  ASSUME NEW t, OrdersOK(t), NEW o \in Orders, NEW record \in OrderRecord
  PROVE  /\ OrdersOK([t EXCEPT ![o] = record])
         /\ [t EXCEPT ![o] = record][o] = record
         /\ \A x \in Orders \ {o} : [t EXCEPT ![o] = record][x] = t[x]
<1> DEFINE g == [t EXCEPT ![o] = record]
<1>1. /\ g \in [Orders -> Optional(OrderRecord)]
      /\ \A x \in Orders : g[x] = IF x = o THEN record ELSE t[x]
  BY DEF OrdersOK, Optional
<1>2. {x \in Orders : g[x] # None} \subseteq {x \in Orders : t[x] # None} \cup {o}
  BY <1>1
<1>3. IsFiniteSet({x \in Orders : t[x] # None} \cup {o})  BY FS_AddElement DEF OrdersOK
<1>4. IsFiniteSet({x \in Orders : g[x] # None})  BY <1>2, <1>3, FS_Subset
<1> QED  BY <1>1, <1>4 DEF OrdersOK

----------------------------------------------------------------------------
(* What the ledger's acceptance of an event does to a cell, in the terms   *)
(* of the accounts.                                                        *)

Adds(e, S) == IF e \in S THEN e.quantity ELSE 0

\* The units of the cell that the event's order holds from now on, and those
\* it stops to hold.
Takes(e, p, z) ==
  IF e.event_type = "ORDER_CREATED" THEN Ledger!Ordered(e.items, p, z) ELSE 0
Ships(e, p, z) ==
  IF e.event_type = "ORDER_COMPLETED"
  THEN Ledger!Ordered(orders_by_id[e.order_id].items, p, z) ELSE 0

\* The event may be accepted next.
Acceptable(e) ==
  /\ e \in Events /\ validate_event(e)
  /\ Ledger!OrderAllows(e)

LEMMA OrderUnits ==
  ASSUME TypeOK, NEW e, Acceptable(e), NEW p, NEW z
  PROVE  /\ Takes(e, p, z) \in Nat /\ Ships(e, p, z) \in Nat
         /\ e.event_type \in {"ORDER_CREATED", "ORDER_COMPLETED"} => e.order_id \in Orders
<1>1. e.event_type \in {"ORDER_CREATED", "ORDER_COMPLETED"} => e.order_id \in Orders
  BY EventsAssumption
  DEF Acceptable, validate_event, require_order_items, require_field, WarehouseEvent, Optional
<1>2. Takes(e, p, z) \in Nat
  BY ValidItems, OrderedIsUpto DEF Acceptable, Takes
<1>3. Ships(e, p, z) \in Nat
  <2>1. CASE e.event_type = "ORDER_COMPLETED"
    <3>1. orders_by_id[e.order_id] \in OrderRecord
      BY <1>1, <2>1 DEF TypeOK, Acceptable, Ledger!OrderAllows, Optional
    <3>2. orders_by_id[e.order_id].items \in Seq(OrderLine)  BY <3>1 DEF OrderRecord
    <3> QED  BY <2>1, <3>2, OrderedIsUpto DEF Ships
  <2> QED  BY <2>1 DEF Ships
<1> QED  BY <1>1, <1>2, <1>3

\* The types of the events, one by one.
LEMMA TypesOfEvents ==
  ASSUME NEW e \in Events, validate_event(e)
  PROVE  /\ e.event_type \in EventType
         /\ e.event_type \notin {"INVENTORY_COUNTED", "ORDER_CREATED", "ORDER_COMPLETED"}
              => e.quantity \in Nat
         /\ e.event_type = "PRODUCT_MOVED" => e.from_zone_id # e.to_zone_id
<1>1. e.event_type \in EventType  BY EventsAssumption DEF WarehouseEvent
<1> QED  BY <1>1, ProductEvent DEF IsOrderEvent

LEMMA ReservedMoves ==
  ASSUME TypeOK, NEW e, Acceptable(e), NEW p, NEW z, NEW row \in Row
  PROVE  Ledger!Reserved(e, p, z, row) =
           row.reserved + Adds(e, EventsAt("PRODUCT_RESERVED", p, z))
             - Adds(e, EventsAt("PRODUCT_RELEASED", p, z))
             + Takes(e, p, z) - Ships(e, p, z)
<1> DEFINE old == row.reserved
           new == Ledger!Reserved(e, p, z, row)
           res == Adds(e, EventsAt("PRODUCT_RESERVED", p, z))
           rel == Adds(e, EventsAt("PRODUCT_RELEASED", p, z))
           take == Takes(e, p, z)
           ship == Ships(e, p, z)
<1>1. old \in Nat /\ take \in Nat /\ ship \in Nat  BY OrderUnits DEF Row
<1>2. /\ res = IF e.event_type = "PRODUCT_RESERVED" /\ e.product_id = p /\ e.zone_id = z
              THEN e.quantity ELSE 0
      /\ rel = IF e.event_type = "PRODUCT_RELEASED" /\ e.product_id = p /\ e.zone_id = z
              THEN e.quantity ELSE 0
  BY DEF Adds, EventsAt, Acceptable
<1>3. e.event_type \in {"PRODUCT_RESERVED", "PRODUCT_RELEASED"} => e.quantity \in Nat
  BY TypesOfEvents DEF Acceptable
<1>4. CASE e.event_type = "PRODUCT_RESERVED"
  <2>1. new = old + res /\ rel = 0 /\ take = 0 /\ ship = 0 /\ res \in Nat
    BY <1>2, <1>3, <1>4 DEF Ledger!Reserved, Ledger!Units, Takes, Ships
  <2> QED  BY <1>1, <2>1
<1>5. CASE e.event_type = "PRODUCT_RELEASED"
  <2>1. new = old - rel /\ res = 0 /\ take = 0 /\ ship = 0 /\ rel \in Nat
    BY <1>2, <1>3, <1>5 DEF Ledger!Reserved, Ledger!Units, Takes, Ships
  <2> QED  BY <1>1, <2>1
<1>6. CASE e.event_type = "ORDER_CREATED"
  <2>1. new = old + take /\ res = 0 /\ rel = 0 /\ ship = 0
    BY <1>2, <1>6 DEF Ledger!Reserved, Takes, Ships
  <2> QED  BY <1>1, <2>1
<1>7. CASE e.event_type = "ORDER_COMPLETED"
  <2>1. new = old - ship /\ res = 0 /\ rel = 0 /\ take = 0
    BY <1>2, <1>7 DEF Ledger!Reserved, Takes, Ships
  <2> QED  BY <1>1, <2>1
<1>8. CASE e.event_type \notin {"PRODUCT_RESERVED", "PRODUCT_RELEASED", "ORDER_CREATED",
                                "ORDER_COMPLETED"}
  <2>1. new = old /\ res = 0 /\ rel = 0 /\ take = 0 /\ ship = 0
    BY <1>2, <1>8 DEF Ledger!Reserved, Takes, Ships
  <2> QED  BY <1>1, <2>1
<1> QED  BY <1>4, <1>5, <1>6, <1>7, <1>8

LEMMA OnHandMoves ==
  ASSUME TypeOK, NEW e, Acceptable(e), NEW p, NEW z, NEW row \in Row,
         e \notin EventsAt("INVENTORY_COUNTED", p, z)
  PROVE  Ledger!Available(e, p, z, row) + Ledger!Reserved(e, p, z, row) =
           OnHand(row) + Adds(e, EventsAt("PRODUCT_RECEIVED", p, z))
             - Adds(e, EventsAt("PRODUCT_SHIPPED", p, z))
             + Adds(e, MovesTo(p, z)) - Adds(e, MovesFrom(p, z)) - Ships(e, p, z)
<1> DEFINE a == row.available
           r == row.reserved
           na == Ledger!Available(e, p, z, row)
           nr == Ledger!Reserved(e, p, z, row)
           here == IF e.product_id = p /\ e.zone_id = z THEN e.quantity ELSE 0
           rec == Adds(e, EventsAt("PRODUCT_RECEIVED", p, z))
           shp == Adds(e, EventsAt("PRODUCT_SHIPPED", p, z))
           to == Adds(e, MovesTo(p, z))
           from == Adds(e, MovesFrom(p, z))
           take == Takes(e, p, z)
           ship == Ships(e, p, z)
<1>1. /\ a \in Nat /\ r \in Nat /\ take \in Nat /\ ship \in Nat /\ OnHand(row) = a + r
  BY OrderUnits DEF Row, OnHand
<1>2. /\ rec = IF e.event_type = "PRODUCT_RECEIVED" THEN here ELSE 0
      /\ shp = IF e.event_type = "PRODUCT_SHIPPED" THEN here ELSE 0
      /\ to = IF e.event_type = "PRODUCT_MOVED" /\ e.product_id = p /\ e.to_zone_id = z
              THEN e.quantity ELSE 0
      /\ from = IF e.event_type = "PRODUCT_MOVED" /\ e.product_id = p /\ e.from_zone_id = z
              THEN e.quantity ELSE 0
  BY DEF Adds, EventsAt, MovesTo, MovesFrom, Acceptable
<1>3. /\ e.event_type \in EventType
      /\ e.event_type \notin {"INVENTORY_COUNTED", "ORDER_CREATED", "ORDER_COMPLETED"}
           => e.quantity \in Nat /\ here \in Nat
  BY TypesOfEvents DEF Acceptable
<1>4. CASE e.event_type = "PRODUCT_RECEIVED"
  <2>1. /\ na = a + rec /\ nr = r /\ rec \in Nat
        /\ shp = 0 /\ to = 0 /\ from = 0 /\ ship = 0
    BY <1>2, <1>3, <1>4 DEF Ledger!Available, Ledger!Reserved, Ledger!Units, Ships
  <2> QED  BY <1>1, <2>1
<1>5. CASE e.event_type = "PRODUCT_SHIPPED"
  <2>1. /\ na = a - shp /\ nr = r /\ shp \in Nat
        /\ rec = 0 /\ to = 0 /\ from = 0 /\ ship = 0
    BY <1>2, <1>3, <1>5 DEF Ledger!Available, Ledger!Reserved, Ledger!Units, Ships
  <2> QED  BY <1>1, <2>1
<1>6. CASE e.event_type = "PRODUCT_MOVED"
  <2>1. /\ na = a - from + to /\ nr = r /\ from \in Nat /\ to \in Nat
        /\ rec = 0 /\ shp = 0 /\ ship = 0
    BY <1>2, <1>3, <1>6 DEF Ledger!Available, Ledger!Reserved, Ledger!Units, Ships
  <2> QED  BY <1>1, <2>1
<1>7. CASE e.event_type = "PRODUCT_RESERVED"
  <2>1. /\ na = a - here /\ nr = r + here /\ here \in Nat
        /\ rec = 0 /\ shp = 0 /\ to = 0 /\ from = 0 /\ ship = 0
    BY <1>2, <1>3, <1>7 DEF Ledger!Available, Ledger!Reserved, Ledger!Units, Ships
  <2> QED  BY <1>1, <2>1
<1>8. CASE e.event_type = "PRODUCT_RELEASED"
  <2>1. /\ na = a + here /\ nr = r - here /\ here \in Nat
        /\ rec = 0 /\ shp = 0 /\ to = 0 /\ from = 0 /\ ship = 0
    BY <1>2, <1>3, <1>8 DEF Ledger!Available, Ledger!Reserved, Ledger!Units, Ships
  <2> QED  BY <1>1, <2>1
<1>9. CASE e.event_type = "INVENTORY_COUNTED"
  <2>1. ~(e.product_id = p /\ e.zone_id = z)  BY <1>9 DEF EventsAt, Acceptable
  <2>2. /\ na = a /\ nr = r
        /\ rec = 0 /\ shp = 0 /\ to = 0 /\ from = 0 /\ ship = 0
    BY <1>2, <1>9, <2>1 DEF Ledger!Available, Ledger!Reserved, Ships
  <2> QED  BY <1>1, <2>2
<1>10. CASE e.event_type = "ORDER_CREATED"
  <2>1. /\ na = a - take /\ nr = r + take
        /\ rec = 0 /\ shp = 0 /\ to = 0 /\ from = 0 /\ ship = 0
    BY <1>2, <1>10 DEF Ledger!Available, Ledger!Reserved, Takes, Ships
  <2> QED  BY <1>1, <2>1
<1>11. CASE e.event_type = "ORDER_COMPLETED"
  <2>1. /\ na = a /\ nr = r - ship
        /\ rec = 0 /\ shp = 0 /\ to = 0 /\ from = 0
    BY <1>2, <1>11 DEF Ledger!Available, Ledger!Reserved, Ships
  <2> QED  BY <1>1, <2>1
<1> QED  BY <1>3, <1>4, <1>5, <1>6, <1>7, <1>8, <1>9, <1>10, <1>11 DEF EventType

LEMMA OrderSums ==
  ASSUME TypeOK, OrdersOK(orders_by_id), NEW e, Acceptable(e), Ledger!UpdateOrder(e),
         NEW p, NEW z
  PROVE  /\ OrdersOK(orders_by_id')
         /\ OrderedIn(orders_by_id, "CREATED", p, z) \in Nat
         /\ OrderedIn(orders_by_id, "COMPLETED", p, z) \in Nat
         /\ OrderedIn(orders_by_id', "CREATED", p, z) =
              OrderedIn(orders_by_id, "CREATED", p, z) + Takes(e, p, z) - Ships(e, p, z)
         /\ OrderedIn(orders_by_id', "COMPLETED", p, z) =
              OrderedIn(orders_by_id, "COMPLETED", p, z) + Ships(e, p, z)
<1> DEFINE o == e.order_id
           old == orders_by_id[o]
<1>0. /\ Takes(e, p, z) \in Nat /\ Ships(e, p, z) \in Nat
      /\ e.event_type \in {"ORDER_CREATED", "ORDER_COMPLETED"} => o \in Orders
  BY OrderUnits
<1>1. ASSUME NEW s PROVE OrderedIn(orders_by_id, s, p, z) \in Nat
  <2>1. CASE Orders = {}
    <3>1. OrdersIn(orders_by_id, s) = {}  BY <2>1 DEF OrdersIn
    <3> DEFINE f == [x \in OrdersIn(orders_by_id, s) |-> Ledger!Ordered(orders_by_id[x].items, p, z)]
    <3>2. DOMAIN f = {}  BY <3>1
    <3> HIDE DEF f
    <3>3. Ledger!Counted(f) = 0  BY <3>2, CountedNone
    <3> QED  BY <3>3 DEF OrderedIn, f
  <2>2. ASSUME NEW x \in Orders PROVE OrderedIn(orders_by_id, s, p, z) \in Nat
    <3>1. \A y \in Orders \ {x} : orders_by_id[y] = orders_by_id[y]  OBVIOUS
    <3> QED  BY <3>1, OrderReplaced
  <2> QED  BY <2>1, <2>2
<1>2. ASSUME NEW record \in OrderRecord, o \in Orders,
             orders_by_id' = [orders_by_id EXCEPT ![o] = record], NEW s
      PROVE  /\ OrdersOK(orders_by_id')
             /\ OrderedIn(orders_by_id', s, p, z) \in Nat
             /\ OrderedIn(orders_by_id', s, p, z) + OneOrdered(old, s, p, z) =
                  OrderedIn(orders_by_id, s, p, z) + OneOrdered(record, s, p, z)
  <2>1. ASSUME NEW g, OrdersOK(g), g[o] = record, \A x \in Orders \ {o} : g[x] = orders_by_id[x]
        PROVE  /\ OrderedIn(g, s, p, z) \in Nat
               /\ OrderedIn(g, s, p, z) + OneOrdered(old, s, p, z) =
                    OrderedIn(orders_by_id, s, p, z) + OneOrdered(record, s, p, z)
    BY <1>2, <2>1, OrderReplaced
  <2>2. /\ OrdersOK(orders_by_id') /\ orders_by_id'[o] = record
        /\ \A x \in Orders \ {o} : orders_by_id'[x] = orders_by_id[x]
    <3> DEFINE old_table == orders_by_id
    <3> HIDE DEF o
    <3>0. OrdersOK(old_table) /\ o \in Orders  BY <1>2
    <3> HIDE DEF old_table
    <3>1. /\ OrdersOK([old_table EXCEPT ![o] = record])
          /\ [old_table EXCEPT ![o] = record][o] = record
          /\ \A x \in Orders \ {o} : [old_table EXCEPT ![o] = record][x] = old_table[x]
      BY <3>0, OrderWritten
    <3>2. orders_by_id' = [old_table EXCEPT ![o] = record]  BY <1>2 DEF old_table
    <3> QED  BY <3>1, <3>2 DEF old_table
  <2> QED  BY <2>1, <2>2
<1>3. CASE e.event_type = "ORDER_CREATED"
  <2> DEFINE record == [status |-> "CREATED", items |-> e.items]
  <2>1. e.items \in Seq(OrderLine)  BY <1>3, ValidItems DEF Acceptable
  <2>2. record \in OrderRecord  BY <2>1 DEF OrderRecord
  <2>3. orders_by_id' = [orders_by_id EXCEPT ![o] = record] /\ old = None
    BY <1>3 DEF Ledger!UpdateOrder, Acceptable, Ledger!OrderAllows
  <2>4. record # None  BY <2>2, ValueAssumption
  <2>5. /\ OneOrdered(old, "CREATED", p, z) = 0 /\ OneOrdered(old, "COMPLETED", p, z) = 0
        /\ OneOrdered(record, "CREATED", p, z) = Takes(e, p, z)
        /\ OneOrdered(record, "COMPLETED", p, z) = 0 /\ Ships(e, p, z) = 0
    BY <1>3, <2>3, <2>4 DEF OneOrdered, Takes, Ships
  <2> HIDE DEF record, old, o
  <2>6. /\ OrdersOK(orders_by_id')
        /\ OrderedIn(orders_by_id', "CREATED", p, z) \in Nat
        /\ OrderedIn(orders_by_id', "COMPLETED", p, z) \in Nat
        /\ OrderedIn(orders_by_id', "CREATED", p, z) =
             OrderedIn(orders_by_id, "CREATED", p, z) + Takes(e, p, z)
        /\ OrderedIn(orders_by_id', "COMPLETED", p, z) = OrderedIn(orders_by_id, "COMPLETED", p, z)
    <3>1. o \in Orders  BY <1>0, <1>3
    <3>2. \A s \in {"CREATED", "COMPLETED"} :
            /\ OrdersOK(orders_by_id')
            /\ OrderedIn(orders_by_id', s, p, z) \in Nat
            /\ OrderedIn(orders_by_id', s, p, z) + OneOrdered(old, s, p, z) =
                 OrderedIn(orders_by_id, s, p, z) + OneOrdered(record, s, p, z)
      BY <1>2, <2>2, <2>3, <3>1
    <3> QED  BY <1>0, <1>1, <2>5, <3>2
  <2> QED  BY <1>0, <1>1, <2>5, <2>6
<1>4. CASE e.event_type = "ORDER_COMPLETED"
  <2> DEFINE record == [status |-> "COMPLETED", items |-> old.items]
  <2>1. old # None /\ old.status = "CREATED" /\ old \in OrderRecord
    BY <1>0, <1>4 DEF Acceptable, Ledger!OrderAllows, OrdersOK, Optional
  <2>2. record \in OrderRecord /\ [old EXCEPT !.status = "COMPLETED"] = record
    BY <2>1 DEF OrderRecord
  <2>3. orders_by_id' = [orders_by_id EXCEPT ![o] = record]
    BY <1>4, <2>2 DEF Ledger!UpdateOrder
  <2>4. record # None  BY <2>2, ValueAssumption
  <2>5. /\ OneOrdered(old, "CREATED", p, z) = Ships(e, p, z)
        /\ OneOrdered(old, "COMPLETED", p, z) = 0
        /\ OneOrdered(record, "CREATED", p, z) = 0
        /\ OneOrdered(record, "COMPLETED", p, z) = Ships(e, p, z) /\ Takes(e, p, z) = 0
    BY <1>4, <2>1, <2>4 DEF OneOrdered, Takes, Ships
  <2> HIDE DEF record, old, o
  <2>6. /\ OrdersOK(orders_by_id')
        /\ OrderedIn(orders_by_id', "CREATED", p, z) \in Nat
        /\ OrderedIn(orders_by_id', "COMPLETED", p, z) \in Nat
        /\ OrderedIn(orders_by_id', "CREATED", p, z) + Ships(e, p, z) =
             OrderedIn(orders_by_id, "CREATED", p, z)
        /\ OrderedIn(orders_by_id', "COMPLETED", p, z) =
             OrderedIn(orders_by_id, "COMPLETED", p, z) + Ships(e, p, z)
    <3>1. o \in Orders  BY <1>0, <1>4
    <3>2. \A s \in {"CREATED", "COMPLETED"} :
            /\ OrdersOK(orders_by_id')
            /\ OrderedIn(orders_by_id', s, p, z) \in Nat
            /\ OrderedIn(orders_by_id', s, p, z) + OneOrdered(old, s, p, z) =
                 OrderedIn(orders_by_id, s, p, z) + OneOrdered(record, s, p, z)
      BY <1>2, <2>2, <2>3, <3>1
    <3> QED  BY <1>0, <1>1, <2>5, <3>2
  <2> QED  BY <1>0, <1>1, <2>5, <2>6
<1>5. CASE e.event_type \notin {"ORDER_CREATED", "ORDER_COMPLETED"}
  <2>1. orders_by_id' = orders_by_id /\ Takes(e, p, z) = 0 /\ Ships(e, p, z) = 0
    BY <1>5 DEF Ledger!UpdateOrder, Takes, Ships
  <2> QED  BY <1>1, <2>1
<1> QED  BY <1>3, <1>4, <1>5

----------------------------------------------------------------------------
(* The invariant. *)

ReservedAccount(history, orders, row, p, z) ==
  row.reserved + UnitsIn(history, EventsAt("PRODUCT_RELEASED", p, z))
    = UnitsIn(history, EventsAt("PRODUCT_RESERVED", p, z)) + OrderedIn(orders, "CREATED", p, z)

StockAccount(history, orders, row, p, z) ==
  AppliedIn(history, EventsAt("INVENTORY_COUNTED", p, z)) = {} =>
    OnHand(row) + UnitsIn(history, EventsAt("PRODUCT_SHIPPED", p, z))
        + UnitsIn(history, MovesFrom(p, z)) + OrderedIn(orders, "COMPLETED", p, z)
      = UnitsIn(history, EventsAt("PRODUCT_RECEIVED", p, z)) + UnitsIn(history, MovesTo(p, z))

AccountsOf(history, orders, stock) ==
  \A p \in Products, z \in Zones :
    ReservedAccount(history, orders, stock[p][z], p, z)
      /\ StockAccount(history, orders, stock[p][z], p, z)

LEMMA AccountsAreProperties ==
  AccountsOf(event_history, orders_by_id, inventory_by_product_zone)
    => ReservationsAccounted /\ StockAccounted
BY DEF AccountsOf, ReservedAccount, StockAccount, ReservationsAccounted, StockAccounted,
       UnitsApplied, Applied, UnitsIn, AppliedIn, UnitsOrdered, OrdersWith, OrderedIn, OrdersIn

\* An event that has a history has a record, so that no event enters the
\* history twice; and the sums are finite.
AccountsInv ==
  /\ HistoryOK(event_history)
  /\ OrdersOK(orders_by_id)
  /\ \A e \in Events : event_history[e] # None => RecordOf(e) # None
  /\ AccountsOf(event_history, orders_by_id, inventory_by_product_zone)

LEMMA AcceptKeepsAccounts ==
  ASSUME TypeOK, AccountsInv, NEW e \in Events, Ledger!Accept(e),
         event_history' = [event_history EXCEPT ![e] = "PROCESSED"]
  PROVE  AccountsInv'
<1> DEFINE h == event_history
           g == [h EXCEPT ![e] = "PROCESSED"]
<1>1. Acceptable(e) /\ validate_event(e) /\ RecordOf(e) = None
  BY SameChecks DEF Ledger!Accept, Acceptable, RecordOf
<1>2. h[e] = None /\ HistoryOK(h) /\ OrdersOK(orders_by_id)  BY <1>1 DEF AccountsInv
<1>3. HistoryOK(g)  BY <1>1, <1>2, HistoryRecorded DEF Recorded
<1>4. ASSUME NEW S, Sized(S)
      PROVE  UnitsIn(h, S) \in Nat /\ UnitsIn(g, S) = UnitsIn(h, S) + Adds(e, S)
  <2>1. "PROCESSED" \in Recorded  BY DEF Recorded
  <2>2. UnitsIn(h, S) \in Nat  BY <1>2, <1>4, AppliedFinite
  <2> DEFINE r == "PROCESSED"
  <2> HIDE DEF r, h
  <2>3. UnitsIn([h EXCEPT ![e] = r], S) =
          UnitsIn(h, S) + (IF r = "PROCESSED" /\ e \in S THEN e.quantity ELSE 0)
    BY <1>1, <1>2, <1>4, <2>1, UnitsRecorded DEF r
  <2> QED  BY <2>2, <2>3 DEF Adds, r
<1>5. ASSUME NEW S, Sized(S) PROVE Adds(e, S) \in Nat
  BY <1>1, <1>5 DEF Adds, Sized
<1>6. Ledger!UpdateOrder(e)  BY DEF Ledger!Accept
<1> HIDE DEF g, h
<1>7. OrdersOK(orders_by_id')
  BY <1>1, <1>2, <1>6, OrderSums
<1>8. ASSUME NEW p \in Products, NEW z \in Zones
      PROVE  /\ ReservedAccount(g, orders_by_id', inventory_by_product_zone'[p][z], p, z)
             /\ StockAccount(g, orders_by_id', inventory_by_product_zone'[p][z], p, z)
  <2> DEFINE row == inventory_by_product_zone[p][z]
             new == inventory_by_product_zone'[p][z]
             Res == EventsAt("PRODUCT_RESERVED", p, z)
             Rel == EventsAt("PRODUCT_RELEASED", p, z)
             Rec == EventsAt("PRODUCT_RECEIVED", p, z)
             Shp == EventsAt("PRODUCT_SHIPPED", p, z)
             Cnt == EventsAt("INVENTORY_COUNTED", p, z)
             take == Takes(e, p, z)
             ship == Ships(e, p, z)
             open == OrderedIn(orders_by_id, "CREATED", p, z)
             completed == OrderedIn(orders_by_id, "COMPLETED", p, z)
             open2 == OrderedIn(orders_by_id', "CREATED", p, z)
             completed2 == OrderedIn(orders_by_id', "COMPLETED", p, z)
  <2>1. row \in Row  BY DEF TypeOK
  <2>2. new = [available |-> Ledger!Available(e, p, z, row), reserved |-> Ledger!Reserved(e, p, z, row)]
    BY DEF Ledger!Accept
  <2>3. /\ Sized(Res) /\ Sized(Rel) /\ Sized(Rec) /\ Sized(Shp)
        /\ Sized(MovesFrom(p, z)) /\ Sized(MovesTo(p, z))
    BY SizedSets
  <2>4. /\ ReservedAccount(h, orders_by_id, row, p, z) /\ StockAccount(h, orders_by_id, row, p, z)
    BY DEF AccountsInv, AccountsOf, h
  <2>5. /\ open \in Nat /\ completed \in Nat /\ take \in Nat /\ ship \in Nat
        /\ open2 = open + take - ship /\ completed2 = completed + ship
    BY <1>1, <1>2, <1>6, OrderSums, OrderUnits
  <2>6. new.reserved = row.reserved + Adds(e, Res) - Adds(e, Rel) + take - ship
    BY <1>1, <2>1, <2>2, ReservedMoves
  <2>7. row.reserved \in Nat /\ OnHand(row) \in Nat  BY <2>1 DEF Row, OnHand
  <2>8. ReservedAccount(g, orders_by_id', new, p, z)
    <3>1. row.reserved + UnitsIn(h, Rel) = UnitsIn(h, Res) + open
      BY <2>4 DEF ReservedAccount
    <3>2. /\ UnitsIn(g, Res) = UnitsIn(h, Res) + Adds(e, Res)
          /\ UnitsIn(g, Rel) = UnitsIn(h, Rel) + Adds(e, Rel)
          /\ UnitsIn(h, Res) \in Nat /\ UnitsIn(h, Rel) \in Nat
          /\ Adds(e, Res) \in Nat /\ Adds(e, Rel) \in Nat
      BY <1>4, <1>5, <2>3
    <3> HIDE DEF row, new, Res, Rel, take, ship, open, open2
    <3>3. new.reserved + UnitsIn(g, Rel) = UnitsIn(g, Res) + open2
      BY <2>5, <2>6, <2>7, <3>1, <3>2
    <3> QED  BY <3>3 DEF ReservedAccount, Res, Rel, open2
  <2>9. StockAccount(g, orders_by_id', new, p, z)
    <3> SUFFICES ASSUME AppliedIn(g, Cnt) = {}
                 PROVE  OnHand(new) + UnitsIn(g, Shp) + UnitsIn(g, MovesFrom(p, z)) + completed2
                          = UnitsIn(g, Rec) + UnitsIn(g, MovesTo(p, z))
      BY DEF StockAccount
    <3>1. e \notin Cnt /\ AppliedIn(h, Cnt) = {}
      <4>1. \A x \in Events : g[x] = IF x = e THEN "PROCESSED" ELSE h[x]
        BY <1>2 DEF HistoryOK, g
      <4> QED  BY <4>1 DEF AppliedIn, EventsAt
    <3>2. OnHand(row) + UnitsIn(h, Shp) + UnitsIn(h, MovesFrom(p, z)) + completed
            = UnitsIn(h, Rec) + UnitsIn(h, MovesTo(p, z))
      BY <2>4, <3>1 DEF StockAccount
    <3>3. OnHand(new) = OnHand(row) + Adds(e, Rec) - Adds(e, Shp)
                          + Adds(e, MovesTo(p, z)) - Adds(e, MovesFrom(p, z)) - ship
      BY <1>1, <2>1, <2>2, <3>1, OnHandMoves DEF OnHand
    <3>4. /\ UnitsIn(g, Rec) = UnitsIn(h, Rec) + Adds(e, Rec)
          /\ UnitsIn(g, Shp) = UnitsIn(h, Shp) + Adds(e, Shp)
          /\ UnitsIn(g, MovesTo(p, z)) = UnitsIn(h, MovesTo(p, z)) + Adds(e, MovesTo(p, z))
          /\ UnitsIn(g, MovesFrom(p, z)) = UnitsIn(h, MovesFrom(p, z)) + Adds(e, MovesFrom(p, z))
          /\ UnitsIn(h, Rec) \in Nat /\ UnitsIn(h, Shp) \in Nat
          /\ UnitsIn(h, MovesTo(p, z)) \in Nat /\ UnitsIn(h, MovesFrom(p, z)) \in Nat
          /\ Adds(e, Rec) \in Nat /\ Adds(e, Shp) \in Nat
          /\ Adds(e, MovesTo(p, z)) \in Nat /\ Adds(e, MovesFrom(p, z)) \in Nat
      BY <1>4, <1>5, <2>3
    <3> HIDE DEF row, new, Rec, Shp, Cnt, take, ship, open, completed, completed2
    <3> QED  BY <2>5, <2>7, <3>2, <3>3, <3>4
  <2> QED  BY <2>8, <2>9
<1>9. \A x \in Events : g[x] # None => RecordOf(x)' # None
  <2>1. processed_events' = [processed_events EXCEPT ![e.event_id] = "PROCESSED"]
    BY DEF Ledger!Accept
  <2>2. "PROCESSED" # None  BY ValueAssumption DEF Returned, Recorded
  <2>3. \A x \in Events : x.event_id \in EventIds  BY EventsAssumption DEF WarehouseEvent
  <2>4. \A x \in Events : g[x] = IF x = e THEN "PROCESSED" ELSE h[x]
    BY <1>2 DEF HistoryOK, g
  <2> QED  BY <2>1, <2>2, <2>3, <2>4 DEF AccountsInv, RecordOf, TypeOK, h
<1>10. AccountsOf(g, orders_by_id', inventory_by_product_zone')
  BY <1>8 DEF AccountsOf
<1> QED  BY <1>3, <1>7, <1>9, <1>10 DEF AccountsInv, g, h

LEMMA IgnoreKeepsAccounts ==
  ASSUME TypeOK, AccountsInv, NEW e \in Events, Ledger!Ignore(e),
         event_history' = [event_history EXCEPT ![e] = "IGNORED_OUT_OF_ORDER"]
  PROVE  AccountsInv'
<1> DEFINE h == event_history
           g == [h EXCEPT ![e] = "IGNORED_OUT_OF_ORDER"]
<1>1. validate_event(e) /\ RecordOf(e) = None
  BY SameChecks DEF Ledger!Ignore, RecordOf
<1>2. h[e] = None /\ HistoryOK(h)  BY <1>1 DEF AccountsInv
<1>3. HistoryOK(g)  BY <1>1, <1>2, HistoryRecorded DEF Recorded
<1>4. \A x \in Events : g[x] = IF x = e THEN "IGNORED_OUT_OF_ORDER" ELSE h[x]
  BY <1>2 DEF HistoryOK
<1>5. "PROCESSED" # None /\ "IGNORED_OUT_OF_ORDER" # None
  BY ValueAssumption DEF Returned, Recorded
<1> HIDE DEF g, h
<1>6. ASSUME NEW S, S \subseteq Events
      PROVE  AppliedIn(g, S) = AppliedIn(h, S) /\ UnitsIn(g, S) = UnitsIn(h, S)
  <2>1. AppliedIn(g, S) = AppliedIn(h, S)  BY <1>2, <1>4, <1>5, <1>6 DEF AppliedIn
  <2> QED  BY <2>1 DEF UnitsIn
<1>7. orders_by_id' = orders_by_id /\ inventory_by_product_zone' = inventory_by_product_zone
  BY DEF Ledger!Ignore
<1>8. ASSUME NEW p \in Products, NEW z \in Zones
      PROVE  /\ ReservedAccount(g, orders_by_id, inventory_by_product_zone[p][z], p, z)
             /\ StockAccount(g, orders_by_id, inventory_by_product_zone[p][z], p, z)
  <2>1. /\ \A type : EventsAt(type, p, z) \subseteq Events
        /\ MovesFrom(p, z) \subseteq Events /\ MovesTo(p, z) \subseteq Events
    BY DEF EventsAt, MovesFrom, MovesTo
  <2>2. /\ ReservedAccount(h, orders_by_id, inventory_by_product_zone[p][z], p, z)
        /\ StockAccount(h, orders_by_id, inventory_by_product_zone[p][z], p, z)
    BY DEF AccountsInv, AccountsOf, h
  <2>3. /\ \A type : UnitsIn(g, EventsAt(type, p, z)) = UnitsIn(h, EventsAt(type, p, z))
                   /\ AppliedIn(g, EventsAt(type, p, z)) = AppliedIn(h, EventsAt(type, p, z))
        /\ UnitsIn(g, MovesFrom(p, z)) = UnitsIn(h, MovesFrom(p, z))
        /\ UnitsIn(g, MovesTo(p, z)) = UnitsIn(h, MovesTo(p, z))
    BY <1>6, <2>1
  <2> QED  BY <2>2, <2>3 DEF ReservedAccount, StockAccount
<1>9. \A x \in Events : g[x] # None => RecordOf(x)' # None
  <2>1. processed_events' = [processed_events EXCEPT ![e.event_id] = "IGNORED_OUT_OF_ORDER"]
    BY DEF Ledger!Ignore
  <2>2. \A x \in Events : x.event_id \in EventIds  BY EventsAssumption DEF WarehouseEvent
  <2> QED  BY <1>4, <1>5, <2>1, <2>2 DEF AccountsInv, RecordOf, TypeOK, h
<1>10. AccountsOf(g, orders_by_id', inventory_by_product_zone')
  BY <1>7, <1>8 DEF AccountsOf
<1>11. OrdersOK(orders_by_id')  BY <1>7 DEF AccountsInv
<1> QED  BY <1>3, <1>9, <1>10, <1>11 DEF AccountsInv, g, h

LEMMA AccountsInit == Init => AccountsInv
<1> SUFFICES ASSUME Init PROVE AccountsInv  OBVIOUS
<1>1. \A e \in Events : event_history[e] = None  BY DEF Init
<1>2. \A o \in Orders : orders_by_id[o] = None  BY DEF Init
<1>3. {e \in Events : event_history[e] # None} = {} /\ {o \in Orders : orders_by_id[o] # None} = {}
  BY <1>1, <1>2
<1>4. HistoryOK(event_history)
  BY <1>1, <1>3, FS_EmptySet DEF HistoryOK, Init, Optional
<1>5. OrdersOK(orders_by_id)  BY <1>3, FS_EmptySet DEF OrdersOK, Init, Optional
<1>6. ASSUME NEW S, S \subseteq Events PROVE UnitsIn(event_history, S) = 0
  <2>1. "PROCESSED" # None  BY ValueAssumption DEF Returned, Recorded
  <2>2. AppliedIn(event_history, S) = {}  BY <1>1, <1>6, <2>1 DEF AppliedIn
  <2> DEFINE f == [e \in AppliedIn(event_history, S) |-> e.quantity]
  <2>3. DOMAIN f = {}  BY <2>2
  <2> HIDE DEF f
  <2>4. Ledger!Counted(f) = 0  BY <2>3, CountedNone
  <2> QED  BY <2>4 DEF UnitsIn, f
<1>7. ASSUME NEW s, NEW p, NEW z PROVE OrderedIn(orders_by_id, s, p, z) = 0
  <2>1. OrdersIn(orders_by_id, s) = {}  BY <1>2 DEF OrdersIn
  <2> DEFINE f == [o \in OrdersIn(orders_by_id, s) |-> Ledger!Ordered(orders_by_id[o].items, p, z)]
  <2>2. DOMAIN f = {}  BY <2>1
  <2> HIDE DEF f
  <2>3. Ledger!Counted(f) = 0  BY <2>2, CountedNone
  <2> QED  BY <2>3 DEF OrderedIn, f
<1>8. ASSUME NEW p \in Products, NEW z \in Zones
      PROVE  /\ ReservedAccount(event_history, orders_by_id, inventory_by_product_zone[p][z], p, z)
             /\ StockAccount(event_history, orders_by_id, inventory_by_product_zone[p][z], p, z)
  <2>1. /\ \A type : EventsAt(type, p, z) \subseteq Events
        /\ MovesFrom(p, z) \subseteq Events /\ MovesTo(p, z) \subseteq Events
    BY DEF EventsAt, MovesFrom, MovesTo
  <2>2. /\ \A type : UnitsIn(event_history, EventsAt(type, p, z)) = 0
        /\ UnitsIn(event_history, MovesFrom(p, z)) = 0
        /\ UnitsIn(event_history, MovesTo(p, z)) = 0
    BY <1>6, <2>1
  <2>3. inventory_by_product_zone[p][z] = [available |-> 0, reserved |-> 0]
    BY DEF Init, ZeroRow
  <2> QED  BY <1>7, <2>2, <2>3 DEF ReservedAccount, StockAccount, OnHand
<1>9. AccountsOf(event_history, orders_by_id, inventory_by_product_zone)
  BY <1>8 DEF AccountsOf
<1> QED  BY <1>1, <1>4, <1>5, <1>9 DEF AccountsInv

\* A batch is the ledger's step and one more line of the history, and no
\* other step touches the tables.
LEMMA AccountsStep ==
  ASSUME LedgerInv, LedgerInv', AccountsInv, [Next]_vars
  PROVE  AccountsInv'
<1>1. CASE UNCHANGED tables
  BY <1>1 DEF tables, AccountsInv, RecordOf
<1>2. ASSUME NEW c \in Consumers, BatchReady(c), ApplyBatch(c)
      PROVE  AccountsInv'
  <2>1. TypeOK /\ task[c].event \in Events /\ task[c].status \in Recorded
    BY <1>2 DEF BatchReady, LedgerInv, AgreeInv, TypeInv, CallOK, CallConsistent
  <2>2. event_history' = [event_history EXCEPT ![task[c].event] = task[c].status]
    BY <1>2 DEF ApplyBatch
  <2>3. CASE task[c].status = "PROCESSED"
    BY <1>2, <2>1, <2>2, <2>3, BatchAccepts, AcceptKeepsAccounts
  <2>4. CASE task[c].status = "IGNORED_OUT_OF_ORDER"
    BY <1>2, <2>1, <2>2, <2>4, BatchIgnores, IgnoreKeepsAccounts
  <2> QED  BY <2>1, <2>3, <2>4 DEF Recorded
<1> QED  BY <1>1, <1>2, OnlyBatchWrites DEF LedgerInv, AgreeInv

LEMMA AccountsAlways ==
  ASSUME SingleConsumer
  PROVE  Spec => [](LedgerInv /\ AccountsInv)
<1>1. Init => LedgerInv /\ AccountsInv  BY LedgerInit, AccountsInit
<1>2. LedgerInv /\ AccountsInv /\ [Next]_vars => (LedgerInv /\ AccountsInv)'
  BY LedgerInvStep, OneCallIndependent, AccountsStep
<1> QED  BY <1>1, <1>2, PTL DEF Spec

\* The reserved units of every cell are those of the reservations that were
\* not released and of the open orders, whatever the topic holds.
THEOREM ReservationsAreAccounted ==
  ASSUME SingleConsumer
  PROVE  Spec => []ReservationsAccounted
<1>1. AccountsInv => ReservationsAccounted  BY AccountsAreProperties DEF AccountsInv
<1> QED  BY <1>1, AccountsAlways, PTL

\* In a cell that was never counted every unit received is there or has left
\* by a recorded event or order.
THEOREM StockIsAccounted ==
  ASSUME SingleConsumer
  PROVE  Spec => []StockAccounted
<1>1. AccountsInv => StockAccounted  BY AccountsAreProperties DEF AccountsInv
<1> QED  BY <1>1, AccountsAlways, PTL

----------------------------------------------------------------------------
(* What an order reserved stays reserved until PRODUCT_RELEASED takes it.  *)

\* More units of a line of the items were released than reserved.
ReleasedFrom(items, history) ==
  \E i \in DOMAIN items :
    LET p == items[i].product_id
        z == items[i].zone_id
    IN  UnitsIn(history, EventsAt("PRODUCT_RESERVED", p, z))
          < UnitsIn(history, EventsAt("PRODUCT_RELEASED", p, z))

\* Then some event released units of the line.
LEMMA ReleasedByEvent ==
  ASSUME NEW h, HistoryOK(h), NEW items, ReleasedFrom(items, h)
  PROVE  \E i \in DOMAIN items, f \in Events :
           /\ h[f] = "PROCESSED" /\ f.event_type = "PRODUCT_RELEASED"
           /\ f.product_id = items[i].product_id /\ f.zone_id = items[i].zone_id
<1>1. PICK i \in DOMAIN items :
        UnitsIn(h, EventsAt("PRODUCT_RESERVED", items[i].product_id, items[i].zone_id))
          < UnitsIn(h, EventsAt("PRODUCT_RELEASED", items[i].product_id, items[i].zone_id))
  BY DEF ReleasedFrom
<1> DEFINE p == items[i].product_id
           z == items[i].zone_id
           Rel == EventsAt("PRODUCT_RELEASED", p, z)
           g == [e \in AppliedIn(h, Rel) |-> e.quantity]
<1>2. UnitsIn(h, EventsAt("PRODUCT_RESERVED", p, z)) \in Nat
  <2> HIDE DEF p, z
  <2> QED  BY SizedSets, AppliedFinite
<1>3. ASSUME AppliedIn(h, Rel) = {} PROVE UnitsIn(h, Rel) = 0
  <2>1. DOMAIN g = {}  BY <1>3
  <2>2. UnitsIn(h, Rel) = Ledger!Counted(g)  BY DEF UnitsIn
  <2> HIDE DEF g, Rel
  <2> QED  BY <2>1, <2>2, CountedNone
<1>4. AppliedIn(h, Rel) # {}
  <2> HIDE DEF g
  <2> QED  BY <1>1, <1>2, <1>3
<1>5. PICK f \in Rel : h[f] = "PROCESSED"  BY <1>4 DEF AppliedIn
<1> QED  BY <1>5 DEF EventsAt

RunsShort == {"INSUFFICIENT_AVAILABLE", "INSUFFICIENT_RESERVED"}

\* The units of the first lines are among those of the order.
LEMMA UptoWithin ==
  ASSUME NEW items \in Seq(OrderLine), NEW k \in 0..Len(items), NEW p, NEW z
  PROVE  Upto(items, k, p, z) \in Nat /\ Upto(items, k, p, z) <= Upto(items, Len(items), p, z)
<1> DEFINE S == Lines(items, k, p, z)
           T == Lines(items, Len(items), p, z)
<1>1. Len(items) \in Nat  BY LenProperties
<1>2. S \subseteq T /\ T \subseteq 1..Len(items)  BY <1>1 DEF Lines
<1>3. IsFiniteSet(T)
  <2>1. IsFiniteSet(1..Len(items))  BY <1>1, FS_Interval
  <2> QED  BY <1>2, <2>1, FS_Subset
<1>4. \A i \in T : items[i].quantity \in Nat
  <2>1. \A i \in 1..Len(items) : items[i] \in OrderLine  BY ElementOfSeq
  <2> QED  BY <1>2, <2>1 DEF OrderLine
<1> HIDE DEF S, T
<1>5. UnitsOf(items, S) \subseteq UnitsOf(items, T)  BY <1>2 DEF UnitsOf
<1>6. IsFiniteSet(UnitsOf(items, T))  BY <1>3, <1>4, UnitsOfFinite
<1>7. /\ Cardinality(UnitsOf(items, S)) \in Nat
      /\ Cardinality(UnitsOf(items, S)) <= Cardinality(UnitsOf(items, T))
  BY <1>5, <1>6, FS_Subset, FS_CardinalityType
<1> QED  BY <1>7 DEF Upto, S, T

\* An order that is open has all its units within the reserved ones of the
\* open orders, so that a change of ORDER_COMPLETED finds too few only where
\* others have released them.
LEMMA ShortOrderReleased ==
  ASSUME LedgerInv, AccountsInv, NEW c \in Consumers, ApplyChange(c),
         task[c].event.event_type = "ORDER_COMPLETED", NextBroken(c) \in RunsShort
  PROVE  ReleasedFrom(orders_by_id[task[c].event.order_id].items, event_history)
<1> DEFINE e == task[c].event
           o == e.order_id
           order == orders_by_id[o]
           items == order.items
           todo == task[c].todo
           ch == Head(todo)
           stock == inventory_by_product_zone
<1>1. /\ TypeInv /\ task[c].pc = "batch" /\ todo # <<>> /\ EffectHolds(c)
      /\ e \in Events /\ validate_event(e)
  BY DEF LedgerInv, EffectInv, TypeInv, CallOK, CallConsistent, ApplyChange, Changing
<1>2. /\ order # None /\ order.status # "COMPLETED" /\ OrderProgress(c)
      /\ task[c].order_update = [status |-> "COMPLETED", items |-> items]
  BY <1>1 DEF EffectHolds, HoldsNothing, IsOrderEvent
<1>3. o \in Orders /\ order \in OrderRecord
  <2>1. o \in Orders
    BY <1>1, EventsAssumption DEF validate_event, require_field, WarehouseEvent, Optional
  <2> QED  BY <1>1, <1>2, <2>1 DEF TypeInv, TypeOK, Optional
<1>4. order.status = "CREATED" /\ items \in Seq(OrderLine) /\ Len(items) \in Nat
  BY <1>2, <1>3, LenProperties DEF OrderRecord
<1>5. task[c].order_update.items = items  BY <1>2
<1>6. PICK k \in 0..Len(items) :
        /\ Len(todo) = Len(items) - k
        /\ \A i \in 1..Len(todo) : todo[i] = OrderChange(e, items[k + i])
        /\ \A p \in Products, z \in Zones :
             ZoneView(c, p, z) = Add(stock[p][z],
                                     OrderAvailable(e, Upto(items, k, p, z)),
                                     OrderReserved(e, Upto(items, k, p, z)))
  BY <1>2, <1>5 DEF OrderProgress
<1>7. todo \in Seq(Change) /\ ch = todo[1] /\ Len(todo) \in Nat \ {0}
  BY <1>1, EmptySeq, LenProperties, HeadTailProperties DEF TypeInv, TypeOK, Task
<1>8. k \in Nat /\ k < Len(items) /\ k + 1 \in 1..Len(items) /\ DOMAIN items = 1..Len(items)
  <2>1. DOMAIN items = 1..Len(items)  BY <1>4
  <2> HIDE DEF items, todo, e
  <2> QED  BY <1>4, <1>6, <1>7, <2>1
<1> DEFINE line == items[k + 1]
           q == line.quantity
           p == line.product_id
           z == line.zone_id
           m == Upto(items, k, p, z)
<1>9. line \in OrderLine /\ q \in Nat /\ p \in Products /\ z \in Zones
  <2> HIDE DEF items
  <2>1. line \in OrderLine  BY <1>4, <1>8, ElementOfSeq
  <2> QED  BY <2>1 DEF OrderLine
<1>10. ch = OrderChange(e, line)
  <2> HIDE DEF items, todo, e, ch
  <2> QED  BY <1>6, <1>7
<1>11. /\ ch.product_id = p /\ ch.zone_id = z /\ ch.reserved = -q
       /\ \A row : AvailableDelta(ch, row) = 0
  <2>1. e.event_type # "ORDER_CREATED"  OBVIOUS
  <2> HIDE DEF line, ch, e
  <2> QED  BY <1>10, <2>1
           DEF OrderChange, Delta, AvailableDelta, OrderAvailable, OrderReserved
<1>12. /\ m \in Nat /\ Upto(items, k + 1, p, z) = m + q
       /\ Upto(items, k + 1, p, z) <= Upto(items, Len(items), p, z)
       /\ Upto(items, Len(items), p, z) = Ledger!Ordered(items, p, z)
       /\ Ledger!Ordered(items, p, z) \in Nat
  <2> HIDE DEF items
  <2>1. k \in 0..Len(items) /\ k + 1 \in 0..Len(items)  BY <1>4, <1>8
  <2>2. m \in Nat  BY <1>4, <2>1, UptoWithin
  <2>3. Upto(items, k + 1, p, z) = m + q  BY <1>4, <1>8, UptoNext
  <2>4. Upto(items, k + 1, p, z) <= Upto(items, Len(items), p, z)  BY <1>4, <2>1, UptoWithin
  <2>5. /\ Upto(items, Len(items), p, z) = Ledger!Ordered(items, p, z)
        /\ Ledger!Ordered(items, p, z) \in Nat
    BY <1>4, OrderedIsUpto
  <2> QED  BY <2>2, <2>3, <2>4, <2>5
<1> DEFINE row == task[c].zone_states[p][z]
<1>13. /\ row = Add(stock[p][z], 0, -m) /\ stock[p][z] \in Row
  <2>1. row # None  BY <1>11 DEF ApplyChange
  <2>2. ZoneView(c, p, z) = row  BY <2>1 DEF ZoneView, Overlay
  <2>3. ZoneView(c, p, z) = Add(stock[p][z], OrderAvailable(e, m), OrderReserved(e, m))
    BY <1>6, <1>9
  <2>4. OrderAvailable(e, m) = 0 /\ OrderReserved(e, m) = -m
    BY DEF OrderAvailable, OrderReserved
  <2>5. stock[p][z] \in Row  BY <1>1, <1>9 DEF TypeInv, TypeOK
  <2> QED  BY <2>2, <2>3, <2>4, <2>5
<1>14. stock[p][z].available \in Nat /\ stock[p][z].reserved \in Nat  BY <1>13 DEF Row
<1>15. LET new == Add(row, AvailableDelta(ch, row), ch.reserved)
       IN  new.available = stock[p][z].available /\ new.reserved = stock[p][z].reserved - m - q
  <2>1. AvailableDelta(ch, row) = 0 /\ ch.reserved = -q  BY <1>11
  <2> DEFINE new == Add(row, AvailableDelta(ch, row), ch.reserved)
  <2>2. new = Add(Add(stock[p][z], 0, -m), 0, -q)  BY <1>13, <2>1
  <2>3. new.available = stock[p][z].available + 0 + 0
        /\ new.reserved = stock[p][z].reserved + (-m) + (-q)
    BY <2>2 DEF Add
  <2> HIDE DEF new, stock, m, q, p, z, line, items, row, ch, todo, e
  <2>4. new.available = stock[p][z].available /\ new.reserved = stock[p][z].reserved - m - q
    <3>1. m \in Nat /\ q \in Nat  BY <1>9, <1>12
    <3> QED  BY <1>14, <2>3, <3>1
  <2> QED  BY <2>4 DEF new
<1>16. stock[p][z].reserved < m + q
  <2> DEFINE new == Add(row, AvailableDelta(ch, row), ch.reserved)
             total == Add(task[c].totals[p], AvailableDelta(ch, row), ch.reserved)
  <2>1. NextBroken(c) = BrokenRule(new, total)  BY <1>11 DEF NextBroken
  <2> HIDE DEF stock, m, q, p, z, row, ch
  <2>2. new.available = stock[p][z].available /\ new.reserved = stock[p][z].reserved - m - q
    BY <1>15
  <2> HIDE DEF new, total
  <2>3. BrokenRule(new, total) \in RunsShort => new.available < 0 \/ new.reserved < 0
    BY ValueAssumption DEF BrokenRule, RunsShort, Raised
  <2> HIDE DEF stock, m, q, p, z
  <2> QED  BY <1>9, <1>12, <1>14, <2>1, <2>2, <2>3
<1> DEFINE open == OrderedIn(orders_by_id, "CREATED", p, z)
           res == UnitsIn(event_history, EventsAt("PRODUCT_RESERVED", p, z))
           rel == UnitsIn(event_history, EventsAt("PRODUCT_RELEASED", p, z))
<1>17. /\ open \in Nat /\ Ledger!Ordered(items, p, z) <= open
  <2>1. OrdersOK(orders_by_id)  BY DEF AccountsInv
  <2>2. OneOrdered(order, "CREATED", p, z) = Ledger!Ordered(items, p, z)
    BY <1>2, <1>4 DEF OneOrdered
  <2> HIDE DEF order, items, o, p, z
  <2>3. /\ OthersOrdered(orders_by_id, o, "CREATED", p, z) \in Nat
        /\ open = OthersOrdered(orders_by_id, o, "CREATED", p, z)
                    + OneOrdered(order, "CREATED", p, z)
    BY <1>3, <2>1, OrderedWithout DEF order
  <2> QED  BY <1>12, <2>2, <2>3
<1>18. /\ stock[p][z].reserved + rel = res + open
       /\ res \in Nat /\ rel \in Nat
  <2>1. ReservedAccount(event_history, orders_by_id, stock[p][z], p, z)
    BY <1>9 DEF AccountsInv, AccountsOf
  <2>2. Sized(EventsAt("PRODUCT_RESERVED", p, z)) /\ Sized(EventsAt("PRODUCT_RELEASED", p, z))
    BY SizedSets
  <2>3. HistoryOK(event_history)  BY DEF AccountsInv
  <2> QED  BY <2>1, <2>2, <2>3, AppliedFinite DEF ReservedAccount
<1>19. res < rel
  <2> HIDE DEF stock, m, q, p, z, open, res, rel, items
  <2> QED  BY <1>9, <1>12, <1>14, <1>16, <1>17, <1>18
<1> QED  BY <1>8, <1>19 DEF ReleasedFrom

\* A batch creates its event's order, completes it, or leaves an order alone.
LEMMA OrderMoves ==
  ASSUME LedgerInv, NEW c \in Consumers, BatchReady(c), ApplyBatch(c), NEW o \in Orders
  PROVE  \/ orders_by_id'[o] = orders_by_id[o]
         \/ /\ IsOrderEvent(task[c].event) /\ task[c].event.order_id = o
            /\ \/ task[c].event.event_type = "ORDER_CREATED"
               \/ orders_by_id'[o] # None /\ orders_by_id'[o].status = "COMPLETED"
<1> DEFINE t == task[c]
           e == t.event
<1>1. TypeOK /\ EffectHolds(c) /\ t.pc = "batch"
  BY DEF BatchReady, LedgerInv, EffectInv, TypeInv
<1>2. CASE t.order_update = None
  BY <1>2 DEF ApplyBatch
<1>3. CASE t.order_update # None
  <2>1. orders_by_id' = [orders_by_id EXCEPT ![e.order_id] = t.order_update]
    BY <1>3 DEF ApplyBatch
  <2>2. \/ e.event_type = "ORDER_CREATED"
        \/ e.event_type = "ORDER_COMPLETED" /\ t.order_update.status = "COMPLETED"
    BY <1>1, <1>3 DEF EffectHolds, HoldsNothing
  <2> QED  BY <1>1, <1>3, <2>1, <2>2 DEF TypeOK, IsOrderEvent
<1> QED  BY <1>2, <1>3

\* A call that ran short is over, and the property of OrdersCompletable holds
\* of it.
ShortHandled(t, orders, history) ==
  t.status \in RunsShort =>
    /\ t.pc = "done" /\ t.event \in Events /\ validate_event(t.event)
    /\ t.event.event_type = "ORDER_COMPLETED" =>
         /\ orders[t.event.order_id] # None
         /\ ReleasedFrom(orders[t.event.order_id].items, history)

CompletableInv == \A c \in Consumers : ShortHandled(task[c], orders_by_id, event_history)

LEMMA CompletableIsProperty == CompletableInv => OrdersCompletable
BY DEF CompletableInv, ShortHandled, RunsShort, ReleasedFrom, OrdersCompletable,
       UnitsApplied, Applied, UnitsIn, AppliedIn

LEMMA CompletableInit == Init => CompletableInv
BY ValueAssumption DEF Init, IdleTask, CompletableInv, ShortHandled, RunsShort, Raised

\* A batch that is sent while another call's order has run short is about
\* another order and other products.
ShortApart ==
  \A c, d \in Consumers :
    LET e == task[c].event
        f == task[d].event
    IN  /\ c # d /\ task[c].pc = "batch"
        /\ task[d].status \in RunsShort /\ f.event_type = "ORDER_COMPLETED"
        => /\ IsOrderEvent(e) => e.order_id # f.order_id
           /\ ~IsOrderEvent(e) =>
                \A i \in DOMAIN orders_by_id[f.order_id].items :
                  orders_by_id[f.order_id].items[i].product_id # e.product_id

LEMMA OneCallShortApart == SingleConsumer => ShortApart
BY DEF SingleConsumer, ShortApart

\* Such a batch leaves a call that ran short as it is.
LEMMA ShortOthersBatch ==
  ASSUME LedgerInv, AccountsInv, CompletableInv, ShortApart,
         NEW c \in Consumers, NEW d \in Consumers, c # d, BatchReady(c), ApplyBatch(c)
  PROVE  ShortHandled(task[d], orders_by_id', event_history')
<1> DEFINE t == task[d]
           e == task[c].event
           f == t.event
           items == orders_by_id[f.order_id].items
           h == event_history
           g == event_history'
<1>0. ShortHandled(t, orders_by_id, h)  BY DEF CompletableInv
<1> SUFFICES ASSUME t.status \in RunsShort, f.event_type = "ORDER_COMPLETED"
             PROVE  /\ orders_by_id'[f.order_id] # None
                    /\ ReleasedFrom(orders_by_id'[f.order_id].items, g)
  BY <1>0 DEF ShortHandled
<1>1. /\ orders_by_id[f.order_id] # None /\ ReleasedFrom(items, h)
      /\ f \in Events /\ validate_event(f)
  BY <1>0 DEF ShortHandled
<1>2. /\ task[c].pc = "batch" /\ e \in Events /\ EffectHolds(c) /\ TypeOK
  BY DEF BatchReady, LedgerInv, EffectInv, TypeInv, CallOK, CallConsistent
<1>3. /\ IsOrderEvent(e) => e.order_id # f.order_id
      /\ ~IsOrderEvent(e) => \A i \in DOMAIN items : items[i].product_id # e.product_id
  BY <1>2 DEF ShortApart
<1>4. f.order_id \in Orders
  BY <1>1, EventsAssumption DEF validate_event, require_field, WarehouseEvent, Optional
<1>5. orders_by_id'[f.order_id] = orders_by_id[f.order_id]
  BY <1>3, <1>4, OrderMoves
<1>6. g = [h EXCEPT ![e] = task[c].status]  BY DEF ApplyBatch
<1>7. \A x \in Events \ {e} : g[x] = h[x]  BY <1>2, <1>6 DEF TypeOK
<1>8. PICK i \in DOMAIN items :
        UnitsIn(h, EventsAt("PRODUCT_RESERVED", items[i].product_id, items[i].zone_id))
          < UnitsIn(h, EventsAt("PRODUCT_RELEASED", items[i].product_id, items[i].zone_id))
  BY <1>1 DEF ReleasedFrom
<1> DEFINE p == items[i].product_id
           z == items[i].zone_id
<1>9. ASSUME NEW type \in {"PRODUCT_RESERVED", "PRODUCT_RELEASED"}
      PROVE  UnitsIn(g, EventsAt(type, p, z)) = UnitsIn(h, EventsAt(type, p, z))
  <2>1. e \notin EventsAt(type, p, z)  BY <1>3, <1>8, <1>9 DEF EventsAt, IsOrderEvent
  <2>2. EventsAt(type, p, z) \subseteq Events  BY DEF EventsAt
  <2> HIDE DEF g, h, e, p, z
  <2>3. AppliedIn(g, EventsAt(type, p, z)) = AppliedIn(h, EventsAt(type, p, z))
    BY <1>7, <2>1, <2>2 DEF AppliedIn
  <2> QED  BY <2>3 DEF UnitsIn
<1>10. ReleasedFrom(items, g)
  <2> HIDE DEF items, g, h
  <2> QED  BY <1>8, <1>9 DEF ReleasedFrom
<1> QED  BY <1>1, <1>5, <1>10

LEMMA CompletableStep ==
  ASSUME LedgerInv, AccountsInv, CompletableInv, ShortApart, [Next]_vars
  PROVE  CompletableInv'
<1> SUFFICES ASSUME NEW d \in Consumers
             PROVE  ShortHandled(task'[d], orders_by_id', event_history')
  BY DEF CompletableInv
<1>0. TypeInv /\ TypeOK  BY DEF LedgerInv, EffectInv, TypeInv
<1>1. CASE UNCHANGED tables /\ task'[d] = task[d]
  BY <1>1 DEF tables, CompletableInv
<1>2. CASE task'[d] = task[d] /\ \E c \in Consumers \ {d} : BatchReady(c) /\ ApplyBatch(c)
  BY <1>2, ShortOthersBatch
<1>3. CASE \/ \E e \in Events : ReceiveEvent(d, e)
           \/ Process(d) \/ DatabaseFailure(d) \/ Return(d) \/ Crash(d)
  <2>1. CASE task'[d].status \in OtherStatus
    <3>1. task'[d].status \notin RunsShort
      BY <2>1, ValueAssumption DEF OtherStatus, RunsShort, Recorded, Raised
    <3> QED  BY <3>1 DEF ShortHandled
  <2>2. CASE task'[d].status = task[d].status /\ task[d].pc # "done"
    <3>1. task[d].status \notin RunsShort  BY <2>2 DEF CompletableInv, ShortHandled
    <3> QED  BY <2>2, <3>1 DEF ShortHandled
  <2>3. CASE ApplyChange(d) /\ Finish(d, NextBroken(d)) /\ UNCHANGED tables
    <3>1. /\ task'[d].pc = "done" /\ task'[d].status = NextBroken(d)
          /\ task'[d].event = task[d].event
      BY <1>0, <2>3, Finished
    <3>2. orders_by_id' = orders_by_id /\ event_history' = event_history
      BY <2>3 DEF tables
    <3>3. /\ task[d].event \in Events /\ validate_event(task[d].event)
          /\ task[d].event.event_type = "ORDER_COMPLETED" =>
               orders_by_id[task[d].event.order_id] # None
      <4>1. /\ task[d].pc = "batch" /\ task[d].todo # <<>> /\ EffectHolds(d)
            /\ CallConsistent(task[d])
        BY <2>3 DEF ApplyChange, Changing, LedgerInv, EffectInv, TypeInv, CallOK
      <4>2. task[d].event \in Events /\ validate_event(task[d].event)
        BY <4>1 DEF CallConsistent
      <4>3. task[d].event.event_type = "ORDER_COMPLETED" =>
              orders_by_id[task[d].event.order_id] # None
        BY <4>1 DEF EffectHolds, HoldsNothing, IsOrderEvent
      <4> QED  BY <4>2, <4>3
    <3> QED  BY <2>3, <3>1, <3>2, <3>3, ShortOrderReleased DEF ShortHandled
  <2> QED  BY <1>0, <1>3, <2>1, <2>2, <2>3, StatusMoves
<1> QED  BY <1>0, <1>1, <1>2, <1>3, OthersSteps

\* ORDER_COMPLETED runs short of units only where PRODUCT_RELEASED released
\* more than PRODUCT_RESERVED had reserved, however large the order is and
\* however many lines name the same cell.
THEOREM OrdersAreCompletable ==
  ASSUME SingleConsumer
  PROVE  Spec => []OrdersCompletable
<1>1. Init => LedgerInv /\ AccountsInv /\ CompletableInv
  BY LedgerInit, AccountsInit, CompletableInit
<1>2. LedgerInv /\ AccountsInv /\ CompletableInv /\ [Next]_vars
        => LedgerInv' /\ AccountsInv' /\ CompletableInv'
  BY LedgerInvStep, OneCallIndependent, AccountsStep, OneCallShortApart, CompletableStep
<1> QED  BY <1>1, <1>2, CompletableIsProperty, PTL DEF Spec

----------------------------------------------------------------------------
(* Every record has an event behind it.                                    *)

\* An id is recorded with an event that has it.
IdsExplained(history, records) ==
  \A i \in EventIds : records[i] # None =>
    \E e \in Events : e.event_id = i /\ history[e] # None

\* A version is the number of an event that was applied.
VersionsExplained(history, versions) ==
  \A k \in VersionKeys : versions[k] # None =>
    \E f \in Events : /\ history[f] = "PROCESSED" /\ resolved_entity_key(f) = k
                     /\ f.sequence_number = versions[k]

\* An event was ignored for one of its entity that was applied, with its
\* number or a later one.
IgnoredExplained(history) ==
  \A e \in Events : history[e] = "IGNORED_OUT_OF_ORDER" =>
    \E f \in Events \ {e} : /\ history[f] = "PROCESSED"
                           /\ resolved_entity_key(f) = resolved_entity_key(e)
                           /\ e.sequence_number <= f.sequence_number

\* An order whose completion was applied is completed.
CompletionsKept(history, orders) ==
  \A e \in Events : history[e] = "PROCESSED" /\ e.event_type = "ORDER_COMPLETED" =>
    orders[e.order_id] # None /\ orders[e.order_id].status = "COMPLETED"

ExplainedInv ==
  /\ IdsExplained(event_history, processed_events)
  /\ VersionsExplained(event_history, entity_versions)
  /\ IgnoredExplained(event_history)
  /\ CompletionsKept(event_history, orders_by_id)

LEMMA ExplainedInit == Init => ExplainedInv
<1> SUFFICES ASSUME Init PROVE ExplainedInv  OBVIOUS
<1>1. "PROCESSED" # None /\ "IGNORED_OUT_OF_ORDER" # None
  BY ValueAssumption DEF Returned, Recorded
<1>2. \A e \in Events : event_history[e] = None  BY DEF Init
<1>3. IdsExplained(event_history, processed_events)  BY DEF Init, IdsExplained
<1>4. VersionsExplained(event_history, entity_versions)  BY DEF Init, VersionsExplained
<1> QED
  BY <1>1, <1>2, <1>3, <1>4 DEF ExplainedInv, IgnoredExplained, CompletionsKept

\* One more line of the history, of an event that had none.
HasLine(g, h, e, r) == h[e] = None /\ \A x \in Events : g[x] = IF x = e THEN r ELSE h[x]

LEMMA LineAdded ==
  ASSUME NEW h, NEW e \in Events, NEW r \in Recorded, NEW g, HasLine(g, h, e, r),
         NEW records \in [EventIds -> Optional(Recorded)], IdsExplained(h, records),
         NEW versions, VersionsExplained(h, versions)
  PROVE  /\ IdsExplained(g, [records EXCEPT ![e.event_id] = r])
         /\ VersionsExplained(g, versions)
         /\ \A x \in Events : h[x] = "PROCESSED" => g[x] = "PROCESSED" /\ x # e
<1>0. h[e] = None /\ \A x \in Events : g[x] = IF x = e THEN r ELSE h[x]  BY DEF HasLine
<1>1. r # None /\ "PROCESSED" # None  BY ValueAssumption DEF Returned, Recorded
<1>2. \A x \in Events : h[x] # None => g[x] # None  BY <1>0, <1>1
<1>3. \A x \in Events : h[x] = "PROCESSED" => g[x] = "PROCESSED" /\ x # e  BY <1>0, <1>1
<1>4. ASSUME NEW i \in EventIds, [records EXCEPT ![e.event_id] = r][i] # None
      PROVE  \E x \in Events : x.event_id = i /\ g[x] # None
  <2>1. CASE i = e.event_id
    <3>1. g[e] # None  BY <1>0, <1>1
    <3> QED  BY <2>1, <3>1
  <2>2. CASE i # e.event_id
    <3>1. records[i] # None  BY <1>4, <2>2
    <3> QED  BY <1>2, <3>1 DEF IdsExplained
  <2> QED  BY <2>1, <2>2
<1>5. VersionsExplained(g, versions)  BY <1>3 DEF VersionsExplained
<1> QED  BY <1>3, <1>4, <1>5 DEF IdsExplained

LEMMA AcceptExplains ==
  ASSUME TypeOK, AccountsInv, ExplainedInv, NEW e \in Events, Ledger!Accept(e),
         event_history' = [event_history EXCEPT ![e] = "PROCESSED"]
  PROVE  ExplainedInv'
<1> DEFINE h == event_history
           g == [h EXCEPT ![e] = "PROCESSED"]
           key == resolved_entity_key(e)
<1>1. Acceptable(e) /\ validate_event(e) /\ RecordOf(e) = None
  BY SameChecks DEF Ledger!Accept, Acceptable, RecordOf
<1>2. h[e] = None  BY <1>1 DEF AccountsInv
<1>3. \A x \in Events : g[x] = IF x = e THEN "PROCESSED" ELSE h[x]  BY DEF TypeOK
<1>4. /\ "PROCESSED" \in Recorded /\ HasLine(g, h, e, "PROCESSED")
      /\ processed_events \in [EventIds -> Optional(Recorded)]
  BY <1>2, <1>3 DEF Recorded, HasLine, TypeOK
<1>5. /\ IdsExplained(h, processed_events) /\ VersionsExplained(h, entity_versions)
      /\ IgnoredExplained(h) /\ CompletionsKept(h, orders_by_id)
  BY DEF ExplainedInv
<1>6. /\ processed_events' = [processed_events EXCEPT ![e.event_id] = "PROCESSED"]
      /\ entity_versions' = [entity_versions EXCEPT ![key] = e.sequence_number]
      /\ Ledger!UpdateOrder(e)
  BY SameChecks DEF Ledger!Accept
<1> HIDE DEF g, h
<1>7. /\ IdsExplained(g, processed_events') /\ VersionsExplained(g, entity_versions)
      /\ \A x \in Events : h[x] = "PROCESSED" => g[x] = "PROCESSED" /\ x # e
  BY <1>4, <1>5, <1>6, LineAdded
<1>8. VersionsExplained(g, entity_versions')
  <2>1. g[e] = "PROCESSED"  BY <1>3
  <2>2. \A k \in VersionKeys :
          entity_versions'[k] = IF k = key THEN e.sequence_number ELSE entity_versions[k]
    BY <1>6 DEF TypeOK
  <2> QED  BY <1>7, <2>1, <2>2 DEF VersionsExplained
<1>9. IgnoredExplained(g)
  <2>1. \A x \in Events : g[x] = "IGNORED_OUT_OF_ORDER" => h[x] = "IGNORED_OUT_OF_ORDER"
    BY <1>3
  <2> QED  BY <1>5, <1>7, <2>1 DEF IgnoredExplained
<1>10. ASSUME NEW x \in Events, g[x] = "PROCESSED", x.event_type = "ORDER_COMPLETED"
       PROVE  orders_by_id'[x.order_id] # None /\ orders_by_id'[x.order_id].status = "COMPLETED"
  <2> DEFINE o == x.order_id
  <2>1. CASE x = e
    <3>1. orders_by_id' = [orders_by_id EXCEPT ![o].status = "COMPLETED"]
      BY <1>6, <1>10, <2>1 DEF Ledger!UpdateOrder
    <3>2. o \in Orders /\ orders_by_id[o] \in OrderRecord
      <4>1. o \in Orders
        BY <1>1, <1>10, <2>1, EventsAssumption
        DEF validate_event, require_field, WarehouseEvent, Optional
      <4>2. orders_by_id[o] # None  BY <1>1, <1>10, <2>1 DEF Acceptable, Ledger!OrderAllows
      <4> QED  BY <4>1, <4>2 DEF TypeOK, Optional
    <3>3. orders_by_id'[o] = [orders_by_id[o] EXCEPT !.status = "COMPLETED"]
      BY <3>1, <3>2 DEF TypeOK
    <3>4. orders_by_id'[o] \in OrderRecord /\ orders_by_id'[o].status = "COMPLETED"
      BY <3>2, <3>3 DEF OrderRecord
    <3> QED  BY <3>4, ValueAssumption
  <2>2. CASE x # e
    <3>1. h[x] = "PROCESSED"  BY <1>3, <1>10, <2>2
    <3>2. orders_by_id[o] # None /\ orders_by_id[o].status = "COMPLETED"
      BY <1>5, <1>10, <3>1 DEF CompletionsKept
    <3>3. orders_by_id'[o] = orders_by_id[o]
      <4>1. CASE e.event_type = "ORDER_CREATED"
        <5>1. o # e.order_id  BY <1>1, <3>2, <4>1 DEF Acceptable, Ledger!OrderAllows
        <5> QED  BY <1>6, <4>1, <5>1 DEF Ledger!UpdateOrder
      <4>2. CASE e.event_type = "ORDER_COMPLETED"
        <5>1. o # e.order_id  BY <1>1, <3>2, <4>2 DEF Acceptable, Ledger!OrderAllows
        <5> QED  BY <1>6, <4>2, <5>1 DEF Ledger!UpdateOrder
      <4>3. CASE ~IsOrderEvent(e)
        BY <1>6, <4>3 DEF Ledger!UpdateOrder, IsOrderEvent
      <4> QED  BY <4>1, <4>2, <4>3 DEF IsOrderEvent
    <3> QED  BY <3>2, <3>3
  <2> QED  BY <2>1, <2>2
<1>11. CompletionsKept(g, orders_by_id')  BY <1>10 DEF CompletionsKept
<1> QED  BY <1>7, <1>8, <1>9, <1>11 DEF ExplainedInv, g, h

LEMMA IgnoreExplains ==
  ASSUME TypeOK, AccountsInv, ExplainedInv, NEW e \in Events, Ledger!Ignore(e),
         event_history' = [event_history EXCEPT ![e] = "IGNORED_OUT_OF_ORDER"]
  PROVE  ExplainedInv'
<1> DEFINE h == event_history
           g == [h EXCEPT ![e] = "IGNORED_OUT_OF_ORDER"]
           key == resolved_entity_key(e)
<1>1. RecordOf(e) = None  BY DEF Ledger!Ignore, RecordOf
<1>2. h[e] = None  BY <1>1 DEF AccountsInv
<1>3. \A x \in Events : g[x] = IF x = e THEN "IGNORED_OUT_OF_ORDER" ELSE h[x]
  BY DEF TypeOK
<1>4. /\ "IGNORED_OUT_OF_ORDER" \in Recorded /\ HasLine(g, h, e, "IGNORED_OUT_OF_ORDER")
      /\ processed_events \in [EventIds -> Optional(Recorded)]
  BY <1>2, <1>3 DEF Recorded, HasLine, TypeOK
<1>5. /\ IdsExplained(h, processed_events) /\ VersionsExplained(h, entity_versions)
      /\ IgnoredExplained(h) /\ CompletionsKept(h, orders_by_id)
  BY DEF ExplainedInv
<1>6. /\ processed_events' = [processed_events EXCEPT ![e.event_id] = "IGNORED_OUT_OF_ORDER"]
      /\ UNCHANGED <<entity_versions, orders_by_id>>
      /\ entity_versions[key] # None /\ ~(e.sequence_number > entity_versions[key])
  BY SameChecks DEF Ledger!Ignore, Ledger!Newer
<1> HIDE DEF g, h
<1>7. /\ IdsExplained(g, processed_events') /\ VersionsExplained(g, entity_versions)
      /\ \A x \in Events : h[x] = "PROCESSED" => g[x] = "PROCESSED" /\ x # e
  BY <1>4, <1>5, <1>6, LineAdded
<1>8. IgnoredExplained(g)
  <2> SUFFICES ASSUME NEW x \in Events, g[x] = "IGNORED_OUT_OF_ORDER"
               PROVE  \E f \in Events \ {x} : /\ g[f] = "PROCESSED"
                                             /\ resolved_entity_key(f) = resolved_entity_key(x)
                                             /\ x.sequence_number <= f.sequence_number
    BY DEF IgnoredExplained
  <2>1. CASE x = e
    <3>1. key \in VersionKeys  BY DEF VersionKeys
    <3>2. PICK f \in Events : /\ h[f] = "PROCESSED" /\ resolved_entity_key(f) = key
                             /\ f.sequence_number = entity_versions[key]
      BY <1>5, <1>6, <3>1 DEF VersionsExplained
    <3>3. e.sequence_number \in Int /\ f.sequence_number \in Int
      BY EventsAssumption DEF WarehouseEvent
    <3>4. e.sequence_number <= f.sequence_number  BY <1>6, <3>2, <3>3
    <3> QED  BY <1>7, <2>1, <3>2, <3>4
  <2>2. CASE x # e
    <3>1. h[x] = "IGNORED_OUT_OF_ORDER"  BY <1>3, <2>2
    <3> QED  BY <1>5, <1>7, <3>1 DEF IgnoredExplained
  <2> QED  BY <2>1, <2>2
<1>9. CompletionsKept(g, orders_by_id)
  BY <1>3, <1>5 DEF CompletionsKept
<1> QED  BY <1>6, <1>7, <1>8, <1>9 DEF ExplainedInv, g, h

LEMMA ExplainedStep ==
  ASSUME LedgerInv, LedgerInv', AccountsInv, ExplainedInv, [Next]_vars
  PROVE  ExplainedInv'
<1>1. CASE UNCHANGED tables
  BY <1>1 DEF tables, ExplainedInv
<1>2. ASSUME NEW c \in Consumers, BatchReady(c), ApplyBatch(c)
      PROVE  ExplainedInv'
  <2>1. TypeOK /\ task[c].event \in Events /\ task[c].status \in Recorded
    BY <1>2 DEF BatchReady, LedgerInv, AgreeInv, TypeInv, CallOK, CallConsistent
  <2>2. event_history' = [event_history EXCEPT ![task[c].event] = task[c].status]
    BY <1>2 DEF ApplyBatch
  <2>3. CASE task[c].status = "PROCESSED"
    BY <1>2, <2>1, <2>2, <2>3, BatchAccepts, AcceptExplains
  <2>4. CASE task[c].status = "IGNORED_OUT_OF_ORDER"
    BY <1>2, <2>1, <2>2, <2>4, BatchIgnores, IgnoreExplains
  <2> QED  BY <2>1, <2>3, <2>4 DEF Recorded
<1> QED  BY <1>1, <1>2, OnlyBatchWrites DEF LedgerInv, AgreeInv


----------------------------------------------------------------------------
(* How a call of process() for ORDER_COMPLETED can end.                    *)

\* Rows with no more in any zone have no more units.
LEMMA UnitsWithin ==
  ASSUME NEW f \in [Zones -> Nat], NEW g \in [Zones -> Nat], \A z \in Zones : f[z] <= g[z]
  PROVE  Cardinality(Units(f)) <= Cardinality(Units(g))
<1>1. Units(f) \subseteq Units(g)
  <2>1. \A z \in Zones : \A i \in 1..f[z] : i \in 1..g[z]  OBVIOUS
  <2> QED  BY <2>1, UnitsMember
<1> QED  BY <1>1, UnitsFinite, FS_Subset

\* It takes units away, so that what its batch writes fits the columns.
LEMMA CompletionFits ==
  ASSUME LedgerInv, NEW c \in Consumers, BatchReady(c),
         task[c].event.event_type = "ORDER_COMPLETED"
  PROVE  BatchFits(c)
<1> DEFINE e == task[c].event
           items == orders_by_id[e.order_id].items
<1>1. /\ TypeOK /\ EffectHolds(c) /\ task[c].pc = "batch" /\ task[c].status \in Recorded
      /\ StockInRange /\ TotalsAgree /\ ViewsAgree
  BY DEF BatchReady, LedgerInv, EffectInv, AgreeInv, TypeInv, CallOK, CallConsistent
<1>2. ASSUME NEW p \in Products, NEW z \in Zones
      PROVE  /\ ZoneView(c, p, z).available <= inventory_by_product_zone[p][z].available
             /\ ZoneView(c, p, z).reserved <= inventory_by_product_zone[p][z].reserved
  <2> DEFINE row == inventory_by_product_zone[p][z]
             n == Ledger!Ordered(items, p, z)
  <2>1. row.available \in Nat /\ row.reserved \in Nat  BY <1>1 DEF TypeOK, Row
  <2>2. CASE task[c].status = "PROCESSED"
    <3>1. ZoneView(c, p, z) = Promised(e, p, z, row)  BY <2>2, ReadyEffect
    <3>2. ZoneView(c, p, z) = [available |-> row.available, reserved |-> row.reserved - n]
      BY <3>1 DEF Promised, Ledger!Available, Ledger!Reserved
    <3>3. items \in Seq(OrderLine)
      BY <1>1, <2>2 DEF EffectHolds, IsOrderEvent, OrderProgress, OrderRecord
    <3>4. n \in Nat  BY <3>3, OrderedIsUpto
    <3> HIDE DEF row, n
    <3> QED  BY <2>1, <3>2, <3>4 DEF row
  <2>3. CASE task[c].status = "IGNORED_OUT_OF_ORDER"
    <3>1. ZoneView(c, p, z) = row
      BY <1>1, <2>3 DEF EffectHolds, HoldsNothing, ZoneView, Overlay
    <3> QED  BY <2>1, <3>1
  <2> QED  BY <1>1, <2>2, <2>3 DEF Recorded
<1>3. ASSUME NEW p \in Products, NEW z \in Zones PROVE Fits(task[c].zone_states[p][z])
  <2>1. /\ inventory_by_product_zone[p][z].available \in 0..MaxInt
        /\ inventory_by_product_zone[p][z].reserved \in 0..MaxInt
    BY <1>1 DEF StockInRange, InRange
  <2>2. ZoneView(c, p, z) \in Row
    BY <1>1, ViewType DEF ViewOf
  <2>3. ZoneView(c, p, z).available <= MaxInt /\ ZoneView(c, p, z).reserved <= MaxInt
    BY <1>2, <2>1, <2>2, MaxIntAssumption DEF Row
  <2> QED  BY <2>3 DEF ZoneView, Overlay, Fits
<1>4. ASSUME NEW p \in Products PROVE Fits(task[c].totals[p])
  <2> DEFINE f == [z \in Zones |-> ZoneView(c, p, z).available]
             g == [z \in Zones |-> ZoneView(c, p, z).reserved]
             total == inventory_by_product[p]
  <2>1. \A z \in Zones : ZoneView(c, p, z) \in Row /\ inventory_by_product_zone[p][z] \in Row
    <3>1. ViewOf(c, p) \in [Zones -> Row]  BY <1>1, ViewType
    <3> QED  BY <1>1, <3>1 DEF ViewOf, TypeOK
  <2>2. /\ f \in [Zones -> Nat] /\ g \in [Zones -> Nat]
        /\ AvailableIn(p) \in [Zones -> Nat] /\ ReservedIn(p) \in [Zones -> Nat]
    BY <2>1 DEF Row, AvailableIn, ReservedIn
  <2>3. \A z \in Zones : f[z] <= AvailableIn(p)[z] /\ g[z] <= ReservedIn(p)[z]
    BY <1>2 DEF AvailableIn, ReservedIn
  <2>4. /\ TotalView(c, p).available = Cardinality(Units(f))
        /\ TotalView(c, p).reserved = Cardinality(Units(g))
        /\ total.available = Cardinality(Units(AvailableIn(p)))
        /\ total.reserved = Cardinality(Units(ReservedIn(p)))
    BY <1>1 DEF ViewsAgree, TotalsAgree
  <2> HIDE DEF f, g
  <2>5. /\ Cardinality(Units(f)) <= Cardinality(Units(AvailableIn(p)))
        /\ Cardinality(Units(g)) <= Cardinality(Units(ReservedIn(p)))
    BY <2>2, <2>3, UnitsWithin
  <2>6. total.available \in 0..MaxInt /\ total.reserved \in 0..MaxInt
    BY <1>1 DEF StockInRange, InRange
  <2>7. TotalView(c, p) \in Row  BY <1>1, ViewType
  <2>8. TotalView(c, p).available <= MaxInt /\ TotalView(c, p).reserved <= MaxInt
    BY <2>4, <2>5, <2>6, <2>7, MaxIntAssumption DEF Row
  <2> QED  BY <2>8 DEF TotalView, Overlay, Fits
<1> QED  BY <1>3, <1>4 DEF BatchFits

\* The ends of a valid ORDER_COMPLETED: without a failure of the database its
\* call returns, runs short in a zone, or finds no order or a completed one.
CompletionEnd(t, orders) ==
  /\ t.pc = "done" /\ validate_event(t.event) /\ t.event.event_type = "ORDER_COMPLETED"
  => \/ t.status \in Returned \cup RunsShort
     \/ t.status = "ORDER_NOT_FOUND" /\ orders[t.event.order_id] = None
     \/ t.status = "ORDER_ALREADY_COMPLETED" /\ orders[t.event.order_id].status = "COMPLETED"

LEMMA CompletionEnds ==
  ASSUME LedgerInv, NEW c \in Consumers, Process(c)
  PROVE  CompletionEnd(task'[c], orders_by_id')
<1> DEFINE e == task[c].event
<1> SUFFICES ASSUME task'[c].pc = "done", validate_event(task'[c].event),
                    task'[c].event.event_type = "ORDER_COMPLETED"
             PROVE  \/ task'[c].status \in Returned \cup RunsShort
                    \/ /\ task'[c].status = "ORDER_NOT_FOUND"
                       /\ orders_by_id'[task'[c].event.order_id] = None
                    \/ /\ task'[c].status = "ORDER_ALREADY_COMPLETED"
                       /\ orders_by_id'[task'[c].event.order_id].status = "COMPLETED"
  BY DEF CompletionEnd
<1>0. task \in [Consumers -> Task] /\ task[c] \in Task /\ TypeInv
  BY DEF LedgerInv, EffectInv, TypeInv, TypeOK
<1>1. ASSUME NEW r, Finish(c, r) PROVE task'[c].status = r /\ task'[c].event = e
  BY <1>0, <1>1 DEF Finish, IdleTask
<1>2. CASE IsProcessed(c)
  <2>1. CASE Finish(c, "DUPLICATE")  BY <1>1, <2>1 DEF Returned
  <2>2. CASE task' = [task EXCEPT ![c].pc = "get_last_sequence"]
    BY <1>0, <2>2 DEF Task
  <2> QED  BY <1>2, <2>1, <2>2 DEF IsProcessed
<1>3. CASE CheckSequence(c)
  <2>1. CASE ~validate_event(e) /\ Finish(c, "VALIDATION_ERROR")  BY <1>1, <2>1
  <2>2. CASE task' = [task EXCEPT ![c].pc = "batch", ![c].status = "IGNORED_OUT_OF_ORDER"]
    BY <1>0, <2>2 DEF Task
  <2> DEFINE pc == IF IsOrderEvent(e) THEN "get_order" ELSE "batch"
             todo == IF IsOrderEvent(e) THEN <<>> ELSE ProductChanges(e)
  <2>3. CASE task' = [task EXCEPT ![c].pc = pc, ![c].todo = todo, ![c].status = "PROCESSED"]
    <3>1. pc # "done"  OBVIOUS
    <3> HIDE DEF pc, todo
    <3> QED  BY <1>0, <2>3, <3>1 DEF Task
  <2> QED  BY <1>3, <2>1, <2>2, <2>3 DEF CheckSequence
<1>4. CASE HandleOrderCreated(c)
  <2> DEFINE todo == ReserveItems(e.items)
             order == [status |-> "CREATED", items |-> e.items]
  <2>1. e.event_type = "ORDER_CREATED"  BY <1>4 DEF HandleOrderCreated
  <2>2. CASE Finish(c, "ORDER_ALREADY_EXISTS")  BY <1>1, <2>1, <2>2
  <2>3. CASE task' = [task EXCEPT ![c].pc = "batch", ![c].todo = todo, ![c].order_update = order]
    <3> HIDE DEF todo, order
    <3> QED  BY <1>0, <2>3 DEF Task
  <2> QED  BY <1>4, <2>2, <2>3 DEF HandleOrderCreated
<1>5. CASE HandleOrderCompleted(c)
  <2> DEFINE items == orders_by_id[e.order_id].items
             todo == ShipItems(items)
             order == [status |-> "COMPLETED", items |-> items]
  <2>1. orders_by_id' = orders_by_id  BY <1>5 DEF HandleOrderCompleted, tables
  <2>2. CASE orders_by_id[e.order_id] = None /\ Finish(c, "ORDER_NOT_FOUND")
    BY <1>1, <2>1, <2>2
  <2>3. CASE orders_by_id[e.order_id].status = "COMPLETED" /\ Finish(c, "ORDER_ALREADY_COMPLETED")
    BY <1>1, <2>1, <2>3
  <2>4. CASE task' = [task EXCEPT ![c].pc = "batch", ![c].todo = todo, ![c].order_update = order]
    <3> HIDE DEF todo, order
    <3> QED  BY <1>0, <2>4 DEF Task
  <2> QED  BY <1>5, <2>2, <2>3, <2>4 DEF HandleOrderCompleted
<1>6. CASE GetZoneState(c) \/ GetTotal(c)
  <2>1. \E states, totals :
          \/ task'[c] = [task[c] EXCEPT !.zone_states = states]
          \/ task'[c] = [task[c] EXCEPT !.totals = totals]
    BY <1>0, <1>6 DEF GetZoneState, GetTotal
  <2>2. task'[c].pc = task[c].pc  BY <1>0, <2>1 DEF Task
  <2> QED  BY <1>6, <2>2 DEF GetZoneState, GetTotal, Changing
<1>7. CASE ApplyChange(c)
  <2>1. task[c].pc = "batch"  BY <1>7 DEF ApplyChange, Changing
  <2>2. CASE NextBroken(c) # None
    <3>1. Finish(c, NextBroken(c))  BY <1>7, <2>2 DEF ApplyChange, NextBroken
    <3>2. NextBroken(c) \in RunsShort \cup ShortTotals
      BY <2>2 DEF NextBroken, BrokenRule, RunsShort, ShortTotals
    <3>3. NextBroken(c) \notin ShortTotals  BY <1>7, ZoneBreaksFirst DEF LedgerInv
    <3> QED  BY <1>1, <3>1, <3>2, <3>3
  <2>3. CASE NextBroken(c) = None
    <3> DEFINE ch == Head(task[c].todo)
               row == task[c].zone_states[ch.product_id][ch.zone_id]
               total == task[c].totals[ch.product_id]
               new_row == Add(row, AvailableDelta(ch, row), ch.reserved)
               new_total == Add(total, AvailableDelta(ch, row), ch.reserved)
    <3>1. task' = [task EXCEPT ![c].zone_states[ch.product_id][ch.zone_id] = new_row,
                               ![c].totals[ch.product_id] = new_total,
                               ![c].todo = Tail(@)]
      BY <1>7, <2>3 DEF ApplyChange, NextBroken
    <3> HIDE DEF new_row, new_total
    <3>2. task'[c].pc = task[c].pc  BY <1>0, <3>1 DEF Task
    <3> QED  BY <2>1, <3>2
  <2> QED  BY <2>2, <2>3
<1>8. CASE ExecuteBatch(c)
  <2>1. Finish(c, task[c].status) /\ task[c].status \in Recorded
    BY <1>0, <1>8 DEF ExecuteBatch, BatchReady, TypeInv, CallOK, CallConsistent
  <2> QED  BY <1>1, <2>1 DEF Returned
<1>9. CASE BatchRefused(c)
  <2>1. Finish(c, "PROCESSING_ERROR") /\ BatchReady(c) /\ ~BatchFits(c)
    BY <1>9 DEF BatchRefused
  <2>2. task'[c].event = e  BY <1>1, <2>1
  <2> QED  BY <2>1, <2>2, CompletionFits
<1> QED  BY <1>2, <1>3, <1>4, <1>5, <1>6, <1>7, <1>8, <1>9 DEF Process

============================================================================
