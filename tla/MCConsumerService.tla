------------------------- MODULE MCConsumerService -------------------------
(***************************************************************************)
(* ConsumerService for TLC: two partitions, one event that is applied, one *)
(* that is older than it, one that breaks a rule and one that is invalid.  *)
(***************************************************************************)
EXTENDS ConsumerService

CONSTANTS p1, p2, z1

MCEventIds == {"e1", "e2", "e3", "e4"}

Event(id, t, n, p, q) ==
  [event_id         |-> id,
   event_type       |-> t,
   sequence_number  |-> n,
   entity_key       |-> None,
   product_id       |-> p,
   zone_id          |-> z1,
   from_zone_id     |-> None,
   to_zone_id       |-> None,
   quantity         |-> q,
   counted_quantity |-> None,
   order_id         |-> None,
   items            |-> <<>>]

MCEvents == {Event("e1", "PRODUCT_RECEIVED", 2, p1, 1),
             Event("e2", "PRODUCT_RECEIVED", 1, p1, 1),
             Event("e3", "PRODUCT_SHIPPED", 3, p1, 2),
             Event("e4", "PRODUCT_SHIPPED", 1, p2, 0)}

\* p1 and p2 hash to different partitions.
MCPartitionOf == [p \in Products |-> IF p = p1 THEN 0 ELSE 1]
============================================================================
