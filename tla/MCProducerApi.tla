--------------------------- MODULE MCProducerApi ---------------------------
(***************************************************************************)
(* ProducerApi for TLC: commands with an id, with a sequence number, one   *)
(* that no consumer can use, a batch of events with a number and with      *)
(* neither, and a batch that is refused at its second event.               *)
(***************************************************************************)
EXTENDS ProducerApi, TLC

CONSTANTS h1, h2, p1, p2, z1, e1, e2, u1, u2, u3

MCHandlers == {h1, h2}
HandlerSymmetry == Permutations(MCHandlers)

MCEventIds == {e1, e2, u1, u2, u3}
MCUuid == <<u1, u2, u3>>

Payload(id, n, p, q) ==
  [event_id         |-> id,
   event_type       |-> "PRODUCT_RECEIVED",
   sequence_number  |-> n,
   entity_key       |-> None,
   product_id       |-> p,
   zone_id          |-> z1,
   from_zone_id     |-> None,
   to_zone_id       |-> None,
   quantity         |-> q,
   counted_quantity |-> None,
   order_id         |-> None,
   items            |-> <<>>]

Single(x, validate) == [payloads |-> <<x>>, batch |-> FALSE, validate |-> validate]
Batch(xs) == [payloads |-> xs, batch |-> TRUE, validate |-> TRUE]

MCCommands ==
  {Single(Payload(e1, None, p1, 1), TRUE),
   Single(Payload(None, 2, p1, 2), FALSE),
   Single(Payload(e1, 5, p1, 0), FALSE),
   Batch(<<Payload(None, 4, p1, 3), Payload(None, None, p2, 3)>>),
   Batch(<<Payload(None, None, p2, 4), Payload(e2, None, p1, -1)>>)}

\* What the payloads can become, and more.
MCEvents ==
  [event_id         : MCEventIds,
   event_type       : {"PRODUCT_RECEIVED"},
   sequence_number  : Times \cup {2, 4, 5},
   entity_key       : {None},
   product_id       : Products,
   zone_id          : Zones,
   from_zone_id     : {None},
   to_zone_id       : {None},
   quantity         : -1..4,
   counted_quantity : {None},
   order_id         : {None},
   items            : {<<>>}]

ASSUME PayloadsApart

MCPartitionOf == [p \in Products |-> IF p = p1 THEN 0 ELSE 1]
============================================================================
