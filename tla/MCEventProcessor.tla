-------------------------- MODULE MCEventProcessor --------------------------
(***************************************************************************)
(* EventProcessor for TLC: a consumer, two products in two zones, an order *)
(* and payloads of every type.                                             *)
(***************************************************************************)
EXTENDS StockAccounts

CONSTANTS p1, p2, z1, z2, o1, count_p1

MCEventIds == {"e1", "e2", "e3", "e4", "e5", "e6", "e7", "e8", "e9", "e10", "e11", "e12", "e13"}

Blank == [event_id         |-> "e1",
          event_type       |-> "PRODUCT_RECEIVED",
          sequence_number  |-> 1,
          entity_key       |-> None,
          product_id       |-> None,
          zone_id          |-> None,
          from_zone_id     |-> None,
          to_zone_id       |-> None,
          quantity         |-> None,
          counted_quantity |-> None,
          order_id         |-> None,
          items            |-> <<>>]

\* An event of type t about quantity q of p1 in zone z, number n.
ProductEvent(id, t, n, z, q) ==
  [Blank EXCEPT !.event_id = id, !.event_type = t, !.sequence_number = n,
                !.product_id = p1, !.zone_id = z, !.quantity = q]

Item(p, z, q) == [product_id |-> p, zone_id |-> z, quantity |-> q]

OrderEvent(id, t, n, items) ==
  [Blank EXCEPT !.event_id = id, !.event_type = t, !.sequence_number = n,
                !.order_id = o1, !.items = items]

\* Two lines of the order are in one cell; a third is of another product.
OrderItems == <<Item(p1, z1, 1), Item(p1, z1, 1), Item(p2, z2, 1)>>

\* e1 and e2 together pass MaxInt = 3.  e2 repeats the number of e3.  e1 comes
\* with two payloads.  e7 is invalid.  The count has an entity_key of its own,
\* so it may come anywhere between the others.  The order is created,
\* with other items, and completed a second time.
MCEvents ==
  {ProductEvent("e1", "PRODUCT_RECEIVED", 1, z1, 2),
   ProductEvent("e1", "PRODUCT_RECEIVED", 3, z2, 1),
   ProductEvent("e2", "PRODUCT_RECEIVED", 2, z2, 2),
   [ProductEvent("e3", "PRODUCT_MOVED", 2, None, 1)
      EXCEPT !.from_zone_id = z1, !.to_zone_id = z2],
   ProductEvent("e4", "PRODUCT_RESERVED", 3, z1, 1),
   ProductEvent("e5", "PRODUCT_RELEASED", 4, z1, 1),
   ProductEvent("e6", "PRODUCT_SHIPPED", 5, z1, 1),
   ProductEvent("e7", "PRODUCT_SHIPPED", 6, z1, 0),
   [ProductEvent("e8", "INVENTORY_COUNTED", 1, z2, None)
      EXCEPT !.counted_quantity = 1, !.entity_key = count_p1],
   [ProductEvent("e9", "PRODUCT_RECEIVED", 1, z2, 1) EXCEPT !.product_id = p2],
   OrderEvent("e10", "ORDER_CREATED", 1, OrderItems),
   OrderEvent("e11", "ORDER_COMPLETED", 2, <<>>),
   OrderEvent("e12", "ORDER_CREATED", 3, <<Item(p1, z2, 1)>>),
   OrderEvent("e13", "ORDER_COMPLETED", 4, <<>>)}
============================================================================
