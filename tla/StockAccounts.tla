--------------------------- MODULE StockAccounts ---------------------------
(***************************************************************************)
(* The stock as an account of the history: what event_history and          *)
(* orders_by_id say was done adds up, cell by cell, to what                *)
(* inventory_by_product_zone holds.  LedgerRefinement relates the tables   *)
(* before and after a batch; here they are related to all the batches      *)
(* there have been.                                                        *)
(***************************************************************************)
EXTENDS LedgerRefinement

\* The events of a type about p in z, and the moves of p out of z and into it.
EventsAt(type, p, z) ==
  {e \in Events : e.event_type = type /\ e.product_id = p /\ e.zone_id = z}

MovesFrom(p, z) ==
  {e \in Events : e.event_type = "PRODUCT_MOVED" /\ e.product_id = p /\ e.from_zone_id = z}

MovesTo(p, z) ==
  {e \in Events : e.event_type = "PRODUCT_MOVED" /\ e.product_id = p /\ e.to_zone_id = z}

\* Those of a set of events that took effect, and the units they are about.
Applied(S) == {e \in S : event_history[e] = "PROCESSED"}

UnitsApplied(S) == Ledger!Counted([e \in Applied(S) |-> e.quantity])

\* The units of p in z of the orders with a status.
OrdersWith(status) ==
  {o \in Orders : orders_by_id[o] # None /\ orders_by_id[o].status = status}

UnitsOrdered(status, p, z) ==
  Ledger!Counted([o \in OrdersWith(status) |-> Ledger!Ordered(orders_by_id[o].items, p, z)])

\* The units reserved in a cell are those of its reservations that were not
\* released and those of the open orders: orders and products share the one
\* counter (event_handlers.py:50-65 and 97-157), whose value says of neither
\* how much it holds.
ReservationsAccounted ==
  \A p \in Products, z \in Zones :
    inventory_by_product_zone[p][z].reserved
        + UnitsApplied(EventsAt("PRODUCT_RELEASED", p, z))
      = UnitsApplied(EventsAt("PRODUCT_RESERVED", p, z)) + UnitsOrdered("CREATED", p, z)

\* Until a count corrects a cell, every unit that came into it is in it or has
\* left it: shipped, moved away, or shipped with a completed order.
StockAccounted ==
  \A p \in Products, z \in Zones :
    Applied(EventsAt("INVENTORY_COUNTED", p, z)) = {} =>
      OnHand(inventory_by_product_zone[p][z])
          + UnitsApplied(EventsAt("PRODUCT_SHIPPED", p, z))
          + UnitsApplied(MovesFrom(p, z)) + UnitsOrdered("COMPLETED", p, z)
        = UnitsApplied(EventsAt("PRODUCT_RECEIVED", p, z)) + UnitsApplied(MovesTo(p, z))

\* An open order can be completed unless its reserve was released: when
\* ORDER_COMPLETED runs short of units (event_handlers.py:145, 181-195), then
\* in a cell of the order more units were released by PRODUCT_RELEASED than
\* PRODUCT_RESERVED had reserved.
OrdersCompletable ==
  \A c \in Consumers :
    LET t == task[c]
        items == orders_by_id[t.event.order_id].items
    IN  /\ t.status \in {"INSUFFICIENT_AVAILABLE", "INSUFFICIENT_RESERVED"}
        /\ t.event.event_type = "ORDER_COMPLETED"
        => \E i \in DOMAIN items :
             LET p == items[i].product_id
                 z == items[i].zone_id
             IN  UnitsApplied(EventsAt("PRODUCT_RESERVED", p, z))
                   < UnitsApplied(EventsAt("PRODUCT_RELEASED", p, z))
============================================================================
