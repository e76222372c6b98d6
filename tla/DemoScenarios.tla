---------------------------- MODULE DemoScenarios ----------------------------
(***************************************************************************)
(* The scenarios of scripts/send_demo_events.py, which docs/task.md:271    *)
(* onwards states the results of.  Quantities are in units of five.        *)
(***************************************************************************)
EXTENDS ConsumerGroup

CONSTANTS SKU_001, SKU_002, SKU_003, SKU_004, SKU_006, SKU_DLQ,
          ZONE_A, ZONE_B, ORDER_001

event(id, event_type, sequence_number) ==
  [event_id         |-> id,
   event_type       |-> event_type,
   sequence_number  |-> sequence_number,
   entity_key       |-> None,
   product_id       |-> None,
   zone_id          |-> None,
   from_zone_id     |-> None,
   to_zone_id       |-> None,
   quantity         |-> None,
   counted_quantity |-> None,
   order_id         |-> None,
   items            |-> <<>>]

\* An event about a quantity of a product in zone A.
InZoneA(id, event_type, sequence_number, product, quantity) ==
  [event(id, event_type, sequence_number)
     EXCEPT !.product_id = product, !.zone_id = ZONE_A, !.quantity = quantity]

OrderKey == <<"order", ORDER_001>>

send_basic ==
  <<InZoneA("basic1", "PRODUCT_RECEIVED", 1, SKU_001, 20),
    InZoneA("basic2", "PRODUCT_RESERVED", 2, SKU_001, 6),
    [event("basic3", "PRODUCT_MOVED", 3)
       EXCEPT !.product_id = SKU_001, !.from_zone_id = ZONE_A,
              !.to_zone_id = ZONE_B, !.quantity = 4],
    InZoneA("basic4", "PRODUCT_SHIPPED", 4, SKU_001, 2),
    [event("basic5", "ORDER_CREATED", 1)
       EXCEPT !.entity_key = OrderKey, !.product_id = SKU_001, !.order_id = ORDER_001,
              !.items = <<[product_id |-> SKU_001, zone_id |-> ZONE_A, quantity |-> 3]>>],
    [event("basic6", "ORDER_COMPLETED", 2)
       EXCEPT !.entity_key = OrderKey, !.product_id = SKU_001, !.order_id = ORDER_001]>>

\* The same payload twice, under one id.
send_idempotency ==
  LET payload == InZoneA("idempotency1", "PRODUCT_RECEIVED", 1, SKU_002, 10)
  IN  <<payload, payload>>

send_consistency == <<InZoneA("consistency1", "PRODUCT_RECEIVED", 1, SKU_003, 20)>>

send_out_of_order ==
  <<InZoneA("order1", "PRODUCT_RECEIVED", 1, SKU_004, 20),
    InZoneA("order2", "PRODUCT_SHIPPED", 2, SKU_004, 4),
    InZoneA("order3", "PRODUCT_RECEIVED", 1, SKU_004, 10)>>

\* The first is sent with validate_payload=False.
send_dlq ==
  <<InZoneA("dlq1", "PRODUCT_SHIPPED", 1, SKU_DLQ, -1),
    InZoneA("dlq2", "PRODUCT_RECEIVED", 2, SKU_DLQ, 2)>>

send_cluster ==
  <<InZoneA("cluster1", "PRODUCT_RECEIVED", 1, SKU_006, 40),
    InZoneA("cluster2", "PRODUCT_SHIPPED", 2, SKU_006, 10)>>

all == send_basic \o send_idempotency \o send_consistency \o send_out_of_order
         \o send_dlq \o send_cluster

Stock(available, reserved) == [available |-> available, reserved |-> reserved]

\* The results docs/task.md:271-320 lists for the scenarios, whichever
\* consumer handled which event and whoever died on the way.
DemoResult ==
  AllCommitted /\ evictions = 0 =>
    /\ inventory_by_product_zone[SKU_001][ZONE_A] = Stock(5, 6)
    /\ inventory_by_product_zone[SKU_001][ZONE_B] = Stock(4, 0)
    /\ inventory_by_product[SKU_001] = Stock(9, 6)
    /\ inventory_by_product[SKU_002] = Stock(10, 0)
    /\ inventory_by_zone[ZONE_A][SKU_003] = Stock(20, 0)
    /\ inventory_by_product[SKU_004] = Stock(16, 0)
    /\ inventory_by_product[SKU_DLQ] = Stock(2, 0)
    /\ inventory_by_product[SKU_006] = Stock(30, 0)
    /\ {EventAt(at).event_id : at \in dlq} = {"dlq1"}
=============================================================================
