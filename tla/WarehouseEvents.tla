-------------------------- MODULE WarehouseEvents --------------------------
(***************************************************************************)
(* The events of the warehouse topic: their fields, the validation both    *)
(* services apply to them, and the keys the code derives from them         *)
(* (warehouse/events.py, warehouse/validation.py).                         *)
(*                                                                         *)
(* None is Python's None.  It also stands for the empty string: validation *)
(* rejects both alike, and the key functions test both by truthiness.      *)
(***************************************************************************)
EXTENDS Integers, Sequences, FiniteSets

CONSTANTS Products, Zones, Orders,  \* product_id, zone_id and order_id values
          EventIds,                 \* event_id values
          EntityKeys,               \* entity_key values a producer may set
          Events,                   \* the payloads that may be on the topic
          None

EventType == {"PRODUCT_RECEIVED", "PRODUCT_SHIPPED", "PRODUCT_MOVED",
              "PRODUCT_RESERVED", "PRODUCT_RELEASED", "INVENTORY_COUNTED",
              "ORDER_CREATED", "ORDER_COMPLETED"}

Optional(S) == S \cup {None}

OrderItem == [product_id : Optional(Products),
              zone_id    : Optional(Zones),
              quantity   : Int]

\* event_time, which only clustering and auditing use, is left out.
WarehouseEvent ==
  [event_id         : EventIds,
   event_type       : EventType,
   sequence_number  : Int,
   entity_key       : Optional(EntityKeys),
   product_id       : Optional(Products),
   zone_id          : Optional(Zones),
   from_zone_id     : Optional(Zones),
   to_zone_id       : Optional(Zones),
   quantity         : Optional(Int),
   counted_quantity : Optional(Int),
   order_id         : Optional(Orders),
   items            : Seq(OrderItem)]

ASSUME EventsAssumption == Events \subseteq WarehouseEvent

ASSUME NoneAssumption ==
  None \notin Products \cup Zones \cup Orders \cup EventIds \cup Int

ASSUME FiniteAssumption == IsFiniteSet(Zones)

----------------------------------------------------------------------------
(* Validation. *)

require_field(v) == v # None
require_positive_quantity(q) == q # None /\ q > 0
require_non_negative_count(q) == q # None /\ q >= 0

require_product_zone_quantity(e) ==
  /\ require_field(e.product_id)
  /\ require_field(e.zone_id)
  /\ require_positive_quantity(e.quantity)

require_move(e) ==
  /\ require_field(e.product_id)
  /\ require_positive_quantity(e.quantity)
  /\ require_field(e.from_zone_id)
  /\ require_field(e.to_zone_id)
  /\ e.from_zone_id # e.to_zone_id

require_count(e) ==
  /\ require_field(e.product_id)
  /\ require_field(e.zone_id)
  /\ require_non_negative_count(e.counted_quantity)

require_order_items(e) ==
  /\ require_field(e.order_id)
  /\ e.items # <<>>
  /\ \A i \in DOMAIN e.items :
       /\ require_field(e.items[i].product_id)
       /\ require_field(e.items[i].zone_id)
       /\ require_positive_quantity(e.items[i].quantity)

\* TRUE when validate_event returns, FALSE when it raises EventValidationError.
validate_event(e) ==
  /\ e.event_type \in {"PRODUCT_RECEIVED", "PRODUCT_SHIPPED",
                      "PRODUCT_RESERVED", "PRODUCT_RELEASED"}
     => require_product_zone_quantity(e)
  /\ e.event_type = "PRODUCT_MOVED"     => require_move(e)
  /\ e.event_type = "INVENTORY_COUNTED" => require_count(e)
  /\ e.event_type = "ORDER_CREATED"     => require_order_items(e)
  /\ e.event_type = "ORDER_COMPLETED"   => require_field(e.order_id)

----------------------------------------------------------------------------
(* Keys.  A derived entity key is a tagged tuple, "product:P" as           *)
(* <<"product", P>>, so that an explicit entity_key may equal a derived    *)
(* one, as scripts/send_demo_events.py relies on.                          *)

\* The Kafka message key, which decides the partition.
topic_key(e) ==
  IF e.product_id # None THEN e.product_id
  ELSE IF e.items # <<>> THEN e.items[1].product_id
  ELSE IF e.order_id # None THEN e.order_id
  ELSE e.event_id

\* The entity whose sequence numbers the event is ordered by.
resolved_entity_key(e) ==
  IF e.entity_key # None THEN e.entity_key
  ELSE IF e.product_id # None THEN <<"product", e.product_id>>
  ELSE IF e.order_id # None THEN <<"order", e.order_id>>
  ELSE IF e.items # <<>>
       THEN <<"order-items",
              [i \in DOMAIN e.items |-> <<e.items[i].product_id, e.items[i].zone_id>>]>>
  ELSE <<"event", e.event_id>>

\* The partition of event_history_by_product the event's row is written to.
history_product_id(e) ==
  IF e.product_id # None THEN e.product_id
  ELSE IF e.items # <<>> THEN e.items[1].product_id
  ELSE IF e.order_id # None THEN <<"ORDER", e.order_id>>
  ELSE "UNKNOWN"

\* The keys of entity_versions that events on the topic can reach.
VersionKeys == {resolved_entity_key(e) : e \in Events}
============================================================================
