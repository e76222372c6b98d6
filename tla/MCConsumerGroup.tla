--------------------------- MODULE MCConsumerGroup ---------------------------
(***************************************************************************)
(* ConsumerGroup for TLC: two consumers, the demo scenarios on two         *)
(* partitions; and one consumer, with an order whose events are on both.   *)
(***************************************************************************)
EXTENDS DemoScenarios, TLC

CONSTANTS c1, c2

MCConsumers == {c1, c2}
ConsumerSymmetry == Permutations(MCConsumers)

MCEntityKeys == {OrderKey}

\* An order whose ORDER_COMPLETED names the order alone, which is all that
\* validate_event asks for.
SplitOrder ==
  <<send_basic[1], send_basic[5], [send_basic[6] EXCEPT !.product_id = None]>>

MCEvents == {all[i] : i \in DOMAIN all} \cup {SplitOrder[i] : i \in DOMAIN SplitOrder}
MCEventIds == {e.event_id : e \in MCEvents}

\* SKU_001 and every other key are on different partitions.
MCPartitionOf ==
  [k \in Products \cup Orders |-> IF k = SKU_001 THEN 0 ELSE 1]

\* The demo scenarios satisfy what the theorems on the group's tables assume;
\* the split order does not.
ASSUME Sent = all => KeysKeepTogether /\ RecordsKeepTogether
ASSUME Sent = SplitOrder => ~KeysKeepTogether
=============================================================================
