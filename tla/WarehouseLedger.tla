-------------------------- MODULE WarehouseLedger --------------------------
(***************************************************************************)
(* What the warehouse promises of its event topic (docs/task.md items 3 to *)
(* 6), without reads, caches, batches or totals: every event id has at     *)
(* most one outcome; an event takes effect as a whole or not at all, and   *)
(* only if it is valid, newer than the last event of its entity and leaves *)
(* no quantity negative or too large.                                      *)
(***************************************************************************)
EXTENDS WarehouseEvents

CONSTANT MaxInt  \* the largest quantity a table can hold

VARIABLES stock,    \* [product][zone] -> available and reserved quantity
          order,    \* [order] -> None, or its status and its items
          outcome,  \* [event_id] -> None, or what became of the event
          version   \* [entity key] -> None, or the last sequence number

ledger == <<stock, order, outcome, version>>

Init ==
  /\ stock = [p \in Products |-> [z \in Zones |-> [available |-> 0, reserved |-> 0]]]
  /\ order = [o \in Orders |-> None]
  /\ outcome = [i \in EventIds |-> None]
  /\ version = [k \in VersionKeys |-> None]

----------------------------------------------------------------------------
\* The units of the quantities f, one by one: <<x, 1>>, ..., <<x, f[x]>> of each x.
Counted(f) == Cardinality(UNION {{x} \X (1..f[x]) : x \in DOMAIN f})

\* The units of product p in zone z that a list of items names.
Ordered(items, p, z) ==
  LET lines == {i \in DOMAIN items : items[i].product_id = p /\ items[i].zone_id = z}
  IN  Counted([i \in lines |-> items[i].quantity])

\* q if the event e is about product p and its zone field is z, else 0.
Units(e, p, zone, z, q) == IF e.product_id = p /\ zone = z THEN q ELSE 0

\* The available and the reserved quantity of p in z after e, from the row
\* before it.
Available(e, p, z, row) ==
  LET here == Units(e, p, e.zone_id, z, e.quantity)
  IN  CASE e.event_type \in {"PRODUCT_RECEIVED", "PRODUCT_RELEASED"} -> row.available + here
        [] e.event_type \in {"PRODUCT_SHIPPED", "PRODUCT_RESERVED"}  -> row.available - here
        [] e.event_type = "PRODUCT_MOVED" ->
             row.available - Units(e, p, e.from_zone_id, z, e.quantity)
                           + Units(e, p, e.to_zone_id, z, e.quantity)
        [] e.event_type = "INVENTORY_COUNTED" ->
             IF e.product_id = p /\ e.zone_id = z THEN e.counted_quantity ELSE row.available
        [] e.event_type = "ORDER_CREATED"   -> row.available - Ordered(e.items, p, z)
        [] e.event_type = "ORDER_COMPLETED" -> row.available

Reserved(e, p, z, row) ==
  LET here == Units(e, p, e.zone_id, z, e.quantity)
  IN  CASE e.event_type = "PRODUCT_RESERVED" -> row.reserved + here
        [] e.event_type = "PRODUCT_RELEASED" -> row.reserved - here
        [] e.event_type = "ORDER_CREATED"    -> row.reserved + Ordered(e.items, p, z)
        [] e.event_type = "ORDER_COMPLETED"  ->
             row.reserved - Ordered(order[e.order_id].items, p, z)
        [] OTHER -> row.reserved

\* Orders go from none to CREATED to COMPLETED.
OrderAllows(e) ==
  /\ e.event_type = "ORDER_CREATED" => order[e.order_id] = None
  /\ e.event_type = "ORDER_COMPLETED" =>
       order[e.order_id] # None /\ order[e.order_id].status = "CREATED"

UpdateOrder(e) ==
  order' =
    CASE e.event_type = "ORDER_CREATED" ->
           [order EXCEPT ![e.order_id] = [status |-> "CREATED", items |-> e.items]]
      [] e.event_type = "ORDER_COMPLETED" ->
           [order EXCEPT ![e.order_id].status = "COMPLETED"]
      [] OTHER -> order

Newer(e) ==
  LET last == version[resolved_entity_key(e)]
  IN  last = None \/ e.sequence_number > last

Accept(e) ==
  /\ outcome[e.event_id] = None
  /\ validate_event(e)
  /\ Newer(e)
  /\ OrderAllows(e)
  /\ stock' = [p \in Products |-> [z \in Zones |->
                 [available |-> Available(e, p, z, stock[p][z]),
                  reserved  |-> Reserved(e, p, z, stock[p][z])]]]
  /\ \A p \in Products :
       /\ \A z \in Zones : stock'[p][z].available >= 0 /\ stock'[p][z].reserved >= 0
       /\ Counted([z \in Zones |-> stock'[p][z].available]) <= MaxInt
       /\ Counted([z \in Zones |-> stock'[p][z].reserved]) <= MaxInt
  /\ UpdateOrder(e)
  /\ outcome' = [outcome EXCEPT ![e.event_id] = "PROCESSED"]
  /\ version' = [version EXCEPT ![resolved_entity_key(e)] = e.sequence_number]

Ignore(e) ==
  /\ outcome[e.event_id] = None
  /\ validate_event(e)
  /\ ~Newer(e)
  /\ outcome' = [outcome EXCEPT ![e.event_id] = "IGNORED_OUT_OF_ORDER"]
  /\ UNCHANGED <<stock, order, version>>

Next == \E e \in Events : Accept(e) \/ Ignore(e)

Spec == Init /\ [][Next]_ledger
============================================================================
