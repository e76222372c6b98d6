------------------------- MODULE IdempotenceProofs -------------------------
(***************************************************************************)
(* With one consumer, what a call has read of the records and the versions *)
(* is still so when its batch is applied.  Hence an event takes effect at  *)
(* most once, the versions only grow, and a result never contradicts the   *)
(* record.                                                                 *)
(***************************************************************************)
EXTENDS EventProcessorProofs

HoldsNothing(t) ==
  /\ t.todo = <<>>
  /\ t.order_update = None
  /\ \A p \in Products : t.totals[p] = None
  /\ \A p \in Products, z \in Zones : t.zone_states[p][z] = None

RecordOf(e) == processed_events[e.event_id]
LastSequence(e) == entity_versions[resolved_entity_key(e)]

\* The checks a call has passed still hold, and an ignored event brings
\* nothing to its batch.
ChecksHold(t) ==
  /\ t.pc \in {"get_last_sequence", "get_order", "batch"} => RecordOf(t.event) = None
  /\ t.pc = "get_order" => ~OutOfOrder(t.event, LastSequence(t.event))
  /\ t.pc = "batch" =>
       \/ t.status = "PROCESSED" /\ ~OutOfOrder(t.event, LastSequence(t.event))
       \/ t.status = "IGNORED_OUT_OF_ORDER" /\ HoldsNothing(t)

\* What a finished call says is what is recorded.
ResultHolds(t) ==
  t.pc = "done" =>
    /\ t.status \in Returned \cup Raised
    /\ t.status \in Recorded => RecordOf(t.event) = t.status
    /\ t.status = "DUPLICATE" => RecordOf(t.event) # None
    /\ t.status \in Raised \ {"PROCESSING_ERROR"} => RecordOf(t.event) = None

CallInv(t) == ChecksHold(t) /\ ResultHolds(t)

RecordInv == TypeInv /\ \A c \in Consumers : CallInv(task[c])

----------------------------------------------------------------------------
(* The invariant. *)

LEMMA RecordInit == Init => RecordInv
<1> SUFFICES ASSUME Init PROVE RecordInv  OBVIOUS
<1>1. ASSUME NEW c \in Consumers PROVE CallInv(task[c])
  BY DEF Init, IdleTask, CallInv, ChecksHold, ResultHolds
<1> QED  BY <1>1, TypeInit DEF RecordInv

\* The task of the only consumer decides.
LEMMA OneCall ==
  ASSUME SingleConsumer, TypeInv', NEW c \in Consumers, CallInv(task[c])'
  PROVE  RecordInv'
BY DEF SingleConsumer, RecordInv

LEMMA Finished ==
  ASSUME TypeInv, NEW c \in Consumers, NEW r, Finish(c, r)
  PROVE  /\ task'[c].pc = "done"
         /\ task'[c].event = task[c].event
         /\ task'[c].status = r
BY DEF TypeInv, TypeOK, Finish, IdleTask

\* A call that ends without writing: its result agrees with what it read.
LEMMA QuietFinish ==
  ASSUME TypeInv, NEW c \in Consumers, NEW r, Finish(c, r), UNCHANGED tables,
         \/ r \in Raised /\ RecordOf(task[c].event) = None
         \/ r = "PROCESSING_ERROR"
         \/ r = "DUPLICATE" /\ RecordOf(task[c].event) # None
  PROVE  CallInv(task[c])'
<1>1. RecordOf(task[c].event)' = RecordOf(task[c].event)
  BY Finished DEF RecordOf, tables
<1>2. ChecksHold(task[c])'
  BY Finished DEF ChecksHold
<1>3. ResultHolds(task[c])'
  BY <1>1, Finished DEF ResultHolds, Returned, Recorded, Raised
<1> QED  BY <1>2, <1>3 DEF CallInv

LEMMA RecordChecks ==
  ASSUME SingleConsumer, RecordInv, TypeInv', NEW c \in Consumers,
         IsProcessed(c) \/ CheckSequence(c)
  PROVE  CallInv(task[c])'
<1> DEFINE e == task[c].event
<1>0. /\ task \in [Consumers -> Task] /\ CallInv(task[c]) /\ CallConsistent(task[c])
      /\ UNCHANGED tables
  BY DEF RecordInv, TypeInv, TypeOK, CallOK, IsProcessed, CheckSequence
<1>1. CASE IsProcessed(c)
  <2>1. CASE RecordOf(e) # None
    <3>1. Finish(c, "DUPLICATE")  BY <1>1, <2>1 DEF IsProcessed, RecordOf
    <3> QED  BY <1>0, <2>1, <3>1, QuietFinish DEF RecordInv
  <2>2. CASE RecordOf(e) = None
    <3>1. task'[c] = [task[c] EXCEPT !.pc = "get_last_sequence"]
      BY <1>0, <1>1, <2>2 DEF IsProcessed, RecordOf
    <3>2. task'[c].pc = "get_last_sequence" /\ task'[c].event = e
      BY <1>0, <3>1 DEF Task
    <3> QED  BY <1>0, <3>2, <2>2 DEF CallInv, ChecksHold, ResultHolds, RecordOf, tables
  <2> QED  BY <2>1, <2>2
<1>2. CASE CheckSequence(c)
  <2>0. RecordOf(e) = None /\ task[c].pc = "get_last_sequence"
    BY <1>0, <1>2 DEF CheckSequence, CallInv, ChecksHold
  <2>1. CASE Finish(c, "VALIDATION_ERROR")
    BY <1>0, <2>0, <2>1, QuietFinish DEF Raised, RecordInv
  <2>2. CASE /\ OutOfOrder(e, LastSequence(e))
             /\ task' = [task EXCEPT ![c].pc = "batch",
                                     ![c].status = "IGNORED_OUT_OF_ORDER"]
    <3>1. task'[c] = [task[c] EXCEPT !.pc = "batch", !.status = "IGNORED_OUT_OF_ORDER"]
      BY <1>0, <2>2
    <3>2. /\ task'[c].pc = "batch" /\ task'[c].event = e
          /\ task'[c].status = "IGNORED_OUT_OF_ORDER"
          /\ task'[c].todo = task[c].todo /\ task'[c].order_update = task[c].order_update
          /\ task'[c].totals = task[c].totals /\ task'[c].zone_states = task[c].zone_states
      BY <1>0, <3>1 DEF Task
    <3>3. HoldsNothing(task[c])'
      BY <1>0, <2>0, <3>2 DEF CallConsistent, HoldsNothing
    <3> QED  BY <1>0, <2>0, <3>2, <3>3 DEF CallInv, ChecksHold, ResultHolds, RecordOf, tables
  <2>3. CASE /\ ~OutOfOrder(e, LastSequence(e))
             /\ \E next \in {"get_order", "batch"}, todo \in Seq(Change) :
                  task' = [task EXCEPT ![c].pc = next, ![c].todo = todo,
                                       ![c].status = "PROCESSED"]
    <3>1. PICK next \in {"get_order", "batch"}, todo \in Seq(Change) :
                  task' = [task EXCEPT ![c].pc = next, ![c].todo = todo,
                                       ![c].status = "PROCESSED"]
      BY <2>3
    <3>2. task'[c] = [task[c] EXCEPT !.pc = next, !.todo = todo, !.status = "PROCESSED"]
      BY <1>0, <3>1
    <3>3. /\ task'[c].pc = next /\ task'[c].event = e /\ task'[c].status = "PROCESSED"
      BY <1>0, <3>2 DEF Task
    <3>4. /\ RecordOf(task[c].event)' = RecordOf(e)
          /\ LastSequence(task[c].event)' = LastSequence(e)
      BY <1>0, <3>3 DEF RecordOf, LastSequence, tables
    <3>5. ~OutOfOrder(task[c].event, LastSequence(task[c].event))'
      BY <2>3, <3>3, <3>4 DEF OutOfOrder
    <3> QED  BY <2>0, <3>1, <3>3, <3>4, <3>5 DEF CallInv, ChecksHold, ResultHolds
  <2>4. CASE ~validate_event(e)
    BY <1>2, <2>1, <2>4 DEF CheckSequence
  <2>5. CASE OutOfOrder(e, LastSequence(e)) /\ validate_event(e)
    BY <1>2, <2>2, <2>5 DEF CheckSequence, LastSequence
  <2>6. CASE ~OutOfOrder(e, LastSequence(e)) /\ validate_event(e)
    <3> DEFINE next == IF IsOrderEvent(e) THEN "get_order" ELSE "batch"
               todo == IF IsOrderEvent(e) THEN <<>> ELSE ProductChanges(e)
    <3>1. task' = [task EXCEPT ![c].pc = next, ![c].todo = todo, ![c].status = "PROCESSED"]
      BY <1>2, <2>6 DEF CheckSequence, LastSequence
    <3>2. e \in Events  BY <1>0, <2>0 DEF CallConsistent
    <3>3. todo \in Seq(Change)  BY <2>6, <3>2, ProductChangesType
    <3>4. next \in {"get_order", "batch"}  OBVIOUS
    <3> HIDE DEF next, todo
    <3> QED  BY <2>3, <2>6, <3>1, <3>3, <3>4
  <2> QED  BY <2>4, <2>5, <2>6
<1> QED  BY <1>1, <1>2

LEMMA RecordOrders ==
  ASSUME RecordInv, NEW c \in Consumers, HandleOrderCreated(c) \/ HandleOrderCompleted(c)
  PROVE  CallInv(task[c])'
<1> DEFINE e == task[c].event
<1>0. /\ task \in [Consumers -> Task] /\ UNCHANGED tables /\ TypeInv
      /\ task[c].pc = "get_order" /\ task[c].status = "PROCESSED"
      /\ RecordOf(e) = None /\ ~OutOfOrder(e, LastSequence(e))
  BY DEF RecordInv, TypeInv, TypeOK, CallOK, CallConsistent, CallInv, ChecksHold,
     HandleOrderCreated, HandleOrderCompleted
<1>1. ASSUME NEW todo, NEW update,
             task' = [task EXCEPT ![c].pc = "batch", ![c].todo = todo,
                                  ![c].order_update = update]
      PROVE  CallInv(task[c])'
  <2>1. task'[c] = [task[c] EXCEPT !.pc = "batch", !.todo = todo, !.order_update = update]
    BY <1>0, <1>1
  <2>2. task'[c].pc = "batch" /\ task'[c].event = e /\ task'[c].status = "PROCESSED"
    BY <1>0, <2>1 DEF Task
  <2>3. /\ RecordOf(task[c].event)' = RecordOf(e)
        /\ LastSequence(task[c].event)' = LastSequence(e)
    BY <1>0, <2>2 DEF RecordOf, LastSequence, tables
  <2>4. ~OutOfOrder(task[c].event, LastSequence(task[c].event))'
    BY <1>0, <2>2, <2>3 DEF OutOfOrder
  <2> QED  BY <1>0, <2>2, <2>3, <2>4 DEF CallInv, ChecksHold, ResultHolds
<1>2. ASSUME NEW r \in Raised, Finish(c, r) PROVE CallInv(task[c])'
  BY <1>0, <1>2, QuietFinish
<1>3. CASE HandleOrderCreated(c)
  BY <1>1, <1>2, <1>3 DEF HandleOrderCreated, Raised
<1>4. CASE HandleOrderCompleted(c)
  <2> DEFINE items == orders_by_id[e.order_id].items
             shipped == ShipItems(items)
             update == [status |-> "COMPLETED", items |-> items]
  <2>1. \/ Finish(c, "ORDER_NOT_FOUND") \/ Finish(c, "ORDER_ALREADY_COMPLETED")
        \/ task' = [task EXCEPT ![c].pc = "batch", ![c].todo = shipped,
                                ![c].order_update = update]
    BY <1>4 DEF HandleOrderCompleted
  <2> HIDE DEF shipped, update
  <2> QED  BY <1>1, <1>2, <2>1 DEF Raised
<1> QED  BY <1>3, <1>4

\* The reads and changes of the accumulator keep the event and its status.
LEMMA RecordChanges ==
  ASSUME RecordInv, NEW c \in Consumers, GetZoneState(c) \/ GetTotal(c) \/ ApplyChange(c)
  PROVE  CallInv(task[c])'
<1> DEFINE e == task[c].event
<1>0. /\ task \in [Consumers -> Task] /\ task[c] \in Task /\ UNCHANGED tables /\ TypeInv
      /\ task[c].pc = "batch" /\ task[c].todo # <<>> /\ CallInv(task[c])
  BY DEF RecordInv, TypeInv, TypeOK, GetZoneState, GetTotal, ApplyChange, Changing
<1>1. /\ task[c].status = "PROCESSED" /\ RecordOf(e) = None
      /\ ~OutOfOrder(e, LastSequence(e))
  BY <1>0 DEF CallInv, ChecksHold, HoldsNothing
<1>2. CASE \E r \in Raised : Finish(c, r)
  BY <1>0, <1>1, <1>2, QuietFinish
<1>3. CASE task'[c].pc = "batch" /\ task'[c].event = e /\ task'[c].status = "PROCESSED"
  <2>1. /\ RecordOf(task[c].event)' = RecordOf(e)
        /\ LastSequence(task[c].event)' = LastSequence(e)
    BY <1>0, <1>3 DEF RecordOf, LastSequence, tables
  <2>2. ~OutOfOrder(task[c].event, LastSequence(task[c].event))'
    BY <1>1, <1>3, <2>1 DEF OutOfOrder
  <2> QED  BY <1>1, <1>3, <2>1, <2>2 DEF CallInv, ChecksHold, ResultHolds
<1>4. CASE GetZoneState(c)
  <2>1. \E states : task'[c] = [task[c] EXCEPT !.zone_states = states]
    BY <1>0, <1>4 DEF GetZoneState
  <2> QED  BY <1>0, <1>1, <1>3, <2>1 DEF Task
<1>5. CASE GetTotal(c)
  <2>1. \E totals : task'[c] = [task[c] EXCEPT !.totals = totals]
    BY <1>0, <1>5 DEF GetTotal
  <2> QED  BY <1>0, <1>1, <1>3, <2>1 DEF Task
<1>6. CASE ApplyChange(c)
  <2> DEFINE ch == Head(task[c].todo)
             row == task[c].zone_states[ch.product_id][ch.zone_id]
             total == task[c].totals[ch.product_id]
             new_row == Add(row, AvailableDelta(ch, row), ch.reserved)
             new_total == Add(total, AvailableDelta(ch, row), ch.reserved)
             broken == BrokenRule(new_row, new_total)
             states == [task[c].zone_states EXCEPT ![ch.product_id][ch.zone_id] = new_row]
             totals == [task[c].totals EXCEPT ![ch.product_id] = new_total]
             todo == Tail(task[c].todo)
  <2>1. CASE broken # None
    <3>1. broken \in Raised  BY <2>1 DEF BrokenRule, Raised
    <3>2. Finish(c, broken)  BY <1>6, <2>1 DEF ApplyChange
    <3> QED  BY <1>2, <3>1, <3>2
  <2>2. CASE broken = None
    <3>1. task' = [task EXCEPT ![c].zone_states[ch.product_id][ch.zone_id] = new_row,
                               ![c].totals[ch.product_id] = new_total,
                               ![c].todo = Tail(@)]
      BY <1>6, <2>2 DEF ApplyChange
    <3> HIDE DEF new_row, new_total
    <3>2. task'[c] = [task[c] EXCEPT !.zone_states = states, !.totals = totals, !.todo = todo]
      BY <1>0, <3>1 DEF Task
    <3> HIDE DEF states, totals, todo
    <3> QED  BY <1>0, <1>1, <1>3, <3>2 DEF Task
  <2> QED  BY <2>1, <2>2
<1> QED  BY <1>4, <1>5, <1>6

\* A batch records the status its call returns.
LEMMA RecordBatch ==
  ASSUME RecordInv, NEW c \in Consumers, BatchReady(c), ApplyBatch(c), NEW r, Finish(c, r),
         r = task[c].status \/ r = "PROCESSING_ERROR"
  PROVE  CallInv(task[c])'
<1> DEFINE e == task[c].event
<1>1. /\ TypeInv /\ e \in Events /\ task[c].status \in Recorded
  BY DEF RecordInv, TypeInv, TypeOK, CallOK, CallConsistent, BatchReady
<1>2. e.event_id \in EventIds  BY <1>1, EventsAssumption DEF WarehouseEvent
<1>3. processed_events'[e.event_id] = task[c].status
  BY <1>1, <1>2 DEF ApplyBatch, TypeInv, TypeOK
<1>4. RecordOf(task[c].event)' = task[c].status
  BY <1>1, <1>3, Finished DEF RecordOf
<1> QED  BY <1>1, <1>4, Finished DEF CallInv, ChecksHold, ResultHolds, Returned, Recorded, Raised

LEMMA RecordStep ==
  ASSUME SingleConsumer, RecordInv, [Next]_vars
  PROVE  RecordInv'
<1>0. TypeInv /\ TypeInv'  BY TypeStep DEF RecordInv
<1>1. CASE UNCHANGED vars
  BY <1>0, <1>1 DEF vars, RecordInv, CallInv, ChecksHold, ResultHolds, HoldsNothing, RecordOf,
     LastSequence, OutOfOrder
<1>2. CASE Next
  <2>1. PICK c \in Consumers :
          \/ \E e \in Events : ReceiveEvent(c, e)
          \/ Process(c)
          \/ DatabaseFailure(c)
          \/ Return(c)
          \/ Crash(c)
    BY <1>2 DEF Next
  <2>0. task \in [Consumers -> Task] /\ CallInv(task[c]) /\ CallConsistent(task[c])
    BY <1>0 DEF RecordInv, TypeInv, TypeOK, CallOK
  <2>2. CASE \E e \in Events : ReceiveEvent(c, e)
    <3>1. task'[c].pc = "is_processed"
      BY <2>0, <2>2 DEF ReceiveEvent, IdleTask
    <3> QED  BY <3>1, <1>0, OneCall DEF CallInv, ChecksHold, ResultHolds
  <2>3. CASE Return(c) \/ Crash(c)
    <3>1. task'[c].pc = "idle"
      BY <2>0, <2>3 DEF Return, Crash, IdleTask
    <3> QED  BY <3>1, <1>0, OneCall DEF CallInv, ChecksHold, ResultHolds
  <2>4. CASE BatchRefused(c) \/ DatabaseCallFails(c)
    <3>1. Finish(c, "PROCESSING_ERROR") /\ UNCHANGED tables
      BY <2>4 DEF BatchRefused, DatabaseCallFails
    <3> QED  BY <3>1, <1>0, QuietFinish, OneCall
  <2>5. CASE ExecuteBatch(c) \/ BatchTimesOut(c)
    <3>1. CallInv(task[c])'
      BY <2>5, RecordBatch DEF ExecuteBatch, BatchTimesOut
    <3> QED  BY <3>1, <1>0, OneCall
  <2>6. CASE \/ IsProcessed(c) \/ CheckSequence(c) \/ HandleOrderCreated(c)
             \/ HandleOrderCompleted(c) \/ GetZoneState(c) \/ GetTotal(c) \/ ApplyChange(c)
    BY <2>6, <1>0, RecordChecks, RecordOrders, RecordChanges, OneCall
  <2> QED  BY <2>1, <2>2, <2>3, <2>4, <2>5, <2>6 DEF Process, DatabaseFailure
<1> QED  BY <1>1, <1>2

\* A step inside process() leaves the call open, about the same event.
LEMMA CallGoesOn ==
  ASSUME TypeInv, NEW c \in Consumers, Process(c) \/ DatabaseFailure(c)
  PROVE  task'[c].pc # "idle" /\ task'[c].event = task[c].event
<1>0. task \in [Consumers -> Task] /\ task[c] \in Task  BY DEF TypeInv, TypeOK
<1>1. CASE \E r : Finish(c, r)
  BY <1>1, Finished
<1>2. CASE CheckSequence(c)
  BY <1>0, <1>1, <1>2 DEF CheckSequence, Task
<1>3. CASE IsProcessed(c) \/ HandleOrderCreated(c) \/ HandleOrderCompleted(c)
  BY <1>0, <1>1, <1>3 DEF IsProcessed, HandleOrderCreated, HandleOrderCompleted, Task
<1>4. CASE GetZoneState(c) \/ GetTotal(c) \/ ApplyChange(c)
  <2>1. task[c].pc = "batch"
    BY <1>4 DEF GetZoneState, GetTotal, ApplyChange, Changing
  <2>2. CASE GetZoneState(c)
    BY <1>0, <2>1, <2>2 DEF GetZoneState, Task
  <2>3. CASE GetTotal(c)
    BY <1>0, <2>1, <2>3 DEF GetTotal, Task
  <2>4. CASE ApplyChange(c)
    <3> DEFINE ch == Head(task[c].todo)
               row == task[c].zone_states[ch.product_id][ch.zone_id]
               new_row == Add(row, AvailableDelta(ch, row), ch.reserved)
               total == task[c].totals[ch.product_id]
               new_total == Add(total, AvailableDelta(ch, row), ch.reserved)
    <3>1. CASE BrokenRule(new_row, new_total) # None
      BY <1>1, <2>4, <3>1 DEF ApplyChange
    <3>2. CASE BrokenRule(new_row, new_total) = None
      <4>1. task' = [task EXCEPT ![c].zone_states[ch.product_id][ch.zone_id] = new_row,
                                 ![c].totals[ch.product_id] = new_total,
                                 ![c].todo = Tail(@)]
        BY <2>4, <3>2 DEF ApplyChange
      <4> HIDE DEF new_row, new_total, ch
      <4> QED  BY <1>0, <2>1, <4>1 DEF Task
    <3> QED  BY <3>1, <3>2
  <2> QED  BY <1>4, <2>2, <2>3, <2>4
<1>5. CASE ExecuteBatch(c) \/ BatchRefused(c) \/ DatabaseFailure(c)
  BY <1>1, <1>5 DEF ExecuteBatch, BatchRefused, DatabaseFailure, DatabaseCallFails, BatchTimesOut
<1> QED  BY <1>2, <1>3, <1>4, <1>5 DEF Process

\* A record stays: no step makes an event unprocessed again.
LEMMA RecordsStay ==
  ASSUME TypeInv, [Next]_vars, NEW i \in EventIds, processed_events[i] # None
  PROVE  processed_events'[i] # None
<1>1. CASE UNCHANGED tables  BY <1>1 DEF tables
<1>2. ASSUME NEW c \in Consumers, BatchReady(c), ApplyBatch(c)
      PROVE  processed_events'[i] # None
  <2>1. task[c].status \in Recorded
    BY <1>2 DEF TypeInv, CallOK, CallConsistent, BatchReady
  <2>2. task[c].status # None
    BY <2>1, ValueAssumption DEF Returned
  <2> QED  BY <1>2, <2>2 DEF ApplyBatch, TypeInv, TypeOK
<1> QED  BY <1>1, <1>2, OnlyBatchWrites

----------------------------------------------------------------------------
(* What follows. *)

\* With one consumer, what process() returns or raises is what processed_events
\* says of the event's id, when it returns and until the caller has seen it.
THEOREM ResultsMatchRecords ==
  ASSUME SingleConsumer
  PROVE  Spec => []ResultMatchesRecord
<1>1. RecordInv /\ [Next]_vars => RecordInv'  BY RecordStep
<1>2. RecordInv => ResultMatchesRecord
  BY DEF RecordInv, CallInv, ResultHolds, ResultMatchesRecord, RecordOf
<1> QED  BY <1>1, <1>2, RecordInit, PTL DEF Spec

\* An ignored event leaves the stock and the orders as they are.
LEMMA NothingWritten ==
  ASSUME TypeOK, NEW c \in Consumers, ApplyBatch(c), HoldsNothing(task[c]),
         task[c].status = "IGNORED_OUT_OF_ORDER"
  PROVE  UNCHANGED <<inventory_by_product_zone, inventory_by_zone, inventory_by_product,
                     orders_by_id, entity_versions>>
<1>1. inventory_by_product_zone' = inventory_by_product_zone
  BY DEF ApplyBatch, HoldsNothing, Overlay, TypeOK
<1>2. inventory_by_zone' = inventory_by_zone
  BY DEF ApplyBatch, HoldsNothing, Overlay, TypeOK
<1>3. inventory_by_product' = inventory_by_product
  BY DEF ApplyBatch, HoldsNothing, Overlay, TypeOK
<1> QED  BY <1>1, <1>2, <1>3 DEF ApplyBatch, HoldsNothing

\* What a batch finds: a new event, in order, or one to ignore.
LEMMA BatchFinds ==
  ASSUME RecordInv, NEW c \in Consumers, BatchReady(c)
  PROVE  /\ task[c].event \in Events
         /\ RecordOf(task[c].event) = None
         /\ \/ task[c].status = "PROCESSED"
               /\ ~OutOfOrder(task[c].event, LastSequence(task[c].event))
            \/ task[c].status = "IGNORED_OUT_OF_ORDER" /\ HoldsNothing(task[c])
BY DEF RecordInv, TypeInv, CallOK, CallConsistent, CallInv, ChecksHold, BatchReady

\* With one consumer, the stock, the orders and the versions only change
\* together with the first record of an event id.
THEOREM EventsAppliedOnce ==
  ASSUME SingleConsumer
  PROVE  Spec => AppliedOnce
<1> DEFINE state == <<inventory_by_product_zone, inventory_by_zone, inventory_by_product,
                      orders_by_id, entity_versions>>
           Step == \/ UNCHANGED state
                   \/ \E e \in Events :
                        /\ processed_events[e.event_id] = None
                        /\ processed_events' =
                             [processed_events EXCEPT ![e.event_id] = "PROCESSED"]
                        /\ event_history' = [event_history EXCEPT ![e] = "PROCESSED"]
<1>1. RecordInv /\ [Next]_vars => RecordInv'  BY RecordStep
<1>2. ASSUME RecordInv, [Next]_vars PROVE Step
  <2>1. CASE UNCHANGED tables  BY <2>1 DEF tables
  <2>2. ASSUME NEW c \in Consumers, BatchReady(c), ApplyBatch(c) PROVE Step
    <3>1. CASE task[c].status = "PROCESSED"
      BY <1>2, <2>2, <3>1, BatchFinds DEF ApplyBatch, RecordOf
    <3>2. CASE task[c].status = "IGNORED_OUT_OF_ORDER" /\ HoldsNothing(task[c])
      BY <1>2, <2>2, <3>2, NothingWritten DEF RecordInv, TypeInv
    <3> QED  BY <1>2, <2>2, <3>1, <3>2, BatchFinds
  <2> QED  BY <1>2, <2>1, <2>2, OnlyBatchWrites
<1> QED  BY <1>1, <1>2, RecordInit, PTL DEF Spec, AppliedOnce

\* With one consumer, the last sequence number of an entity only grows.
THEOREM VersionsOnlyGrow ==
  ASSUME SingleConsumer
  PROVE  Spec => VersionsMonotonic
<1> DEFINE Step == \A k \in VersionKeys :
                     entity_versions'[k] # entity_versions[k] =>
                       /\ entity_versions'[k] # None
                       /\ entity_versions[k] # None => entity_versions'[k] > entity_versions[k]
<1>1. RecordInv /\ [Next]_vars => RecordInv'  BY RecordStep
<1>2. ASSUME RecordInv, [Next]_vars PROVE Step
  <2>1. CASE UNCHANGED tables  BY <2>1 DEF tables
  <2>2. ASSUME NEW c \in Consumers, BatchReady(c), ApplyBatch(c) PROVE Step
    <3> DEFINE e == task[c].event
    <3>1. CASE task[c].status = "PROCESSED" /\ ~OutOfOrder(e, LastSequence(e))
      <4>0. /\ e \in Events /\ e.sequence_number \in Int
            /\ entity_versions \in [VersionKeys -> Optional(Int)]
        BY <1>2, <2>2, BatchFinds, EventsAssumption DEF RecordInv, TypeInv, TypeOK, WarehouseEvent
      <4>1. entity_versions' =
              [entity_versions EXCEPT ![resolved_entity_key(e)] = e.sequence_number]
        BY <2>2, <3>1 DEF ApplyBatch
      <4>2. e.sequence_number # None  BY <4>0, NoneAssumption
      <4>3. LastSequence(e) # None => e.sequence_number > LastSequence(e)
        <5>1. LastSequence(e) \in Optional(Int)  BY <4>0 DEF LastSequence, VersionKeys
        <5> QED  BY <3>1, <4>0, <5>1 DEF OutOfOrder, Optional
      <4> QED  BY <4>0, <4>1, <4>2, <4>3 DEF LastSequence
    <3>2. CASE task[c].status = "IGNORED_OUT_OF_ORDER"
      BY <2>2, <3>2 DEF ApplyBatch
    <3> QED  BY <1>2, <2>2, <3>1, <3>2, BatchFinds
  <2> QED  BY <1>2, <2>1, <2>2, OnlyBatchWrites
<1> QED  BY <1>1, <1>2, RecordInit, PTL DEF Spec, VersionsMonotonic

----------------------------------------------------------------------------
(* The life of an order.                                                   *)

\* The order a call will write follows the stored one.
OrderHolds(t) ==
  LET order == orders_by_id[t.event.order_id]
  IN  t.pc = "batch" /\ t.order_update # None =>
        \/ order = None /\ t.order_update.status = "CREATED"
        \/ /\ order # None /\ order.status = "CREATED"
           /\ t.order_update = [status |-> "COMPLETED", items |-> order.items]

OrderInv == RecordInv /\ \A c \in Consumers : OrderHolds(task[c])

LEMMA OrderStep ==
  ASSUME SingleConsumer, OrderInv, [Next]_vars
  PROVE  OrderInv'
<1>0. /\ RecordInv' /\ task \in [Consumers -> Task] /\ CallOK
  BY RecordStep DEF OrderInv, RecordInv, TypeInv, TypeOK
<1>1. CASE UNCHANGED vars
  BY <1>0, <1>1 DEF vars, OrderInv, OrderHolds
<1>2. CASE Next
  <2>1. PICK c \in Consumers :
          \/ \E e \in Events : ReceiveEvent(c, e)
          \/ Process(c)
          \/ DatabaseFailure(c)
          \/ Return(c)
          \/ Crash(c)
    BY <1>2 DEF Next
  <2>2. SUFFICES OrderHolds(task[c])'
    BY <1>0 DEF OrderInv, SingleConsumer
  <2>3. task[c] \in Task /\ CallConsistent(task[c]) /\ OrderHolds(task[c])
    BY <1>0 DEF CallOK, OrderInv
  <2>4. CASE task'[c].pc # "batch"
    BY <2>4 DEF OrderHolds
  <2>5. CASE \E r : Finish(c, r)
    BY <2>4, <2>5, Finished DEF OrderInv, RecordInv
  <2>6. CASE (\E e \in Events : ReceiveEvent(c, e)) \/ Return(c) \/ Crash(c)
    <3>1. CASE \E e \in Events : ReceiveEvent(c, e)
      BY <1>0, <2>4, <3>1 DEF ReceiveEvent, IdleTask
    <3>2. CASE Return(c) \/ Crash(c)
      BY <1>0, <2>4, <3>2 DEF Return, Crash, IdleTask
    <3> QED  BY <2>6, <3>1, <3>2
  <2>7. CASE IsProcessed(c) \/ CheckSequence(c)
    <3>1. task[c].order_update = None
      BY <2>3, <2>7 DEF CallConsistent, IsProcessed, CheckSequence
    <3>2. CASE task' = [task EXCEPT ![c].pc = "get_last_sequence"]
      BY <1>0, <2>3, <2>4, <3>2 DEF Task
    <3>3. CASE task' = [task EXCEPT ![c].pc = "batch", ![c].status = "IGNORED_OUT_OF_ORDER"]
      BY <1>0, <2>3, <3>1, <3>3 DEF Task, OrderHolds
    <3>4. CASE \E pc, todo : task' = [task EXCEPT ![c].pc = pc, ![c].todo = todo,
                                                  ![c].status = "PROCESSED"]
      BY <1>0, <2>3, <3>1, <3>4 DEF Task, OrderHolds
    <3> QED  BY <2>5, <2>7, <3>2, <3>3, <3>4 DEF IsProcessed, CheckSequence
  <2>8. CASE HandleOrderCreated(c) \/ HandleOrderCompleted(c)
    <3> DEFINE e == task[c].event
               order == orders_by_id[e.order_id]
    <3>1. UNCHANGED orders_by_id
      BY <2>8 DEF HandleOrderCreated, HandleOrderCompleted, tables
    <3>2. ASSUME NEW todo, NEW update,
                 task' = [task EXCEPT ![c].pc = "batch", ![c].todo = todo,
                                      ![c].order_update = update]
          PROVE  task'[c].event = e /\ task'[c].order_update = update
      BY <1>0, <2>3, <3>2 DEF Task
    <3>3. CASE HandleOrderCreated(c) /\ order = None
      <4> DEFINE update == [status |-> "CREATED", items |-> e.items]
                 todo == ReserveItems(e.items)
      <4>1. task' = [task EXCEPT ![c].pc = "batch", ![c].todo = todo, ![c].order_update = update]
        BY <3>3 DEF HandleOrderCreated
      <4>2. update.status = "CREATED"  OBVIOUS
      <4> HIDE DEF update, todo
      <4>3. task'[c].event = e /\ task'[c].order_update = update
        BY <3>2, <4>1
      <4> QED  BY <3>1, <3>3, <4>2, <4>3 DEF OrderHolds
    <3>4. CASE HandleOrderCompleted(c) /\ ~\E r : Finish(c, r)
      <4> DEFINE update == [status |-> "COMPLETED", items |-> order.items]
                 todo == ShipItems(order.items)
      <4>1. /\ order # None /\ order.status # "COMPLETED"
            /\ task' = [task EXCEPT ![c].pc = "batch", ![c].todo = todo,
                                    ![c].order_update = update]
        BY <3>4 DEF HandleOrderCompleted
      <4>2. order.status = "CREATED"
        <5>1. e \in Events /\ IsOrderEvent(e) /\ validate_event(e)
          BY <2>3, <3>4 DEF CallConsistent, HandleOrderCompleted
        <5>2. e.order_id \in Orders
          BY <5>1, <3>4, EventsAssumption
          DEF validate_event, require_field, WarehouseEvent, Optional, HandleOrderCompleted
        <5>3. order \in Optional(OrderRecord)
          BY <5>2 DEF OrderInv, RecordInv, TypeInv, TypeOK
        <5> QED  BY <4>1, <5>3 DEF Optional, OrderRecord
      <4>3. task'[c].event = e /\ task'[c].order_update = update
        <5> HIDE DEF update, todo
        <5> QED  BY <3>2, <4>1
      <4> QED  BY <3>1, <4>1, <4>2, <4>3 DEF OrderHolds
    <3> QED  BY <2>5, <2>8, <3>3, <3>4 DEF HandleOrderCreated
  <2>9. CASE GetZoneState(c) \/ GetTotal(c) \/ ApplyChange(c)
    <3>1. /\ UNCHANGED orders_by_id /\ task[c].pc = "batch"
      BY <2>9 DEF GetZoneState, GetTotal, ApplyChange, Changing, tables
    <3>2. CASE \E states, totals, todo :
                 \/ task'[c] = [task[c] EXCEPT !.zone_states = states]
                 \/ task'[c] = [task[c] EXCEPT !.totals = totals]
                 \/ task'[c] = [task[c] EXCEPT !.zone_states = states, !.totals = totals,
                                               !.todo = todo]
      <4>1. /\ task'[c].event = task[c].event
            /\ task'[c].order_update = task[c].order_update
        BY <2>3, <3>2 DEF Task
      <4> QED  BY <2>3, <3>1, <4>1 DEF OrderHolds
    <3>3. CASE GetZoneState(c) \/ GetTotal(c)
      BY <1>0, <3>2, <3>3 DEF GetZoneState, GetTotal
    <3>4. CASE ApplyChange(c)
      <4> DEFINE ch == Head(task[c].todo)
                 row == task[c].zone_states[ch.product_id][ch.zone_id]
                 total == task[c].totals[ch.product_id]
                 new_row == Add(row, AvailableDelta(ch, row), ch.reserved)
                 new_total == Add(total, AvailableDelta(ch, row), ch.reserved)
                 states == [task[c].zone_states EXCEPT ![ch.product_id][ch.zone_id] = new_row]
                 totals == [task[c].totals EXCEPT ![ch.product_id] = new_total]
                 todo == Tail(task[c].todo)
      <4>1. \/ \E r : Finish(c, r)
            \/ task' = [task EXCEPT ![c].zone_states[ch.product_id][ch.zone_id] = new_row,
                                    ![c].totals[ch.product_id] = new_total,
                                    ![c].todo = Tail(@)]
        BY <3>4 DEF ApplyChange
      <4> HIDE DEF new_row, new_total
      <4>2. \/ \E r : Finish(c, r)
            \/ task'[c] = [task[c] EXCEPT !.zone_states = states, !.totals = totals,
                                          !.todo = todo]
        BY <1>0, <2>3, <4>1 DEF Task
      <4> HIDE DEF states, totals, todo
      <4> QED  BY <2>5, <3>2, <4>2
    <3> QED  BY <2>9, <3>3, <3>4
  <2>10. CASE DatabaseFailure(c) \/ ExecuteBatch(c) \/ BatchRefused(c)
    BY <2>5, <2>10
    DEF DatabaseFailure, DatabaseCallFails, BatchTimesOut, ExecuteBatch, BatchRefused
  <2> QED  BY <2>1, <2>6, <2>7, <2>8, <2>9, <2>10 DEF Process
<1> QED  BY <1>1, <1>2

\* With one consumer an order goes from absent to CREATED to COMPLETED and
\* nowhere else, and keeps its items.
THEOREM OrdersLiveOnce ==
  ASSUME SingleConsumer
  PROVE  Spec => OrderLifecycle
<1> DEFINE Step == \A o \in Orders :
                     orders_by_id'[o] # orders_by_id[o] =>
                       \/ /\ orders_by_id[o] = None
                          /\ orders_by_id'[o].status = "CREATED"
                       \/ /\ orders_by_id[o] # None
                          /\ orders_by_id[o].status = "CREATED"
                          /\ orders_by_id'[o] = [orders_by_id[o] EXCEPT !.status = "COMPLETED"]
<1>1. Init => OrderInv
  BY RecordInit DEF Init, IdleTask, OrderInv, OrderHolds
<1>2. OrderInv /\ [Next]_vars => OrderInv'  BY OrderStep
<1>3. ASSUME OrderInv, [Next]_vars PROVE Step
  <2>1. CASE UNCHANGED tables  BY <2>1 DEF tables
  <2>2. ASSUME NEW c \in Consumers, BatchReady(c), ApplyBatch(c) PROVE Step
    <3> DEFINE t == task[c]
               id == t.event.order_id
    <3> SUFFICES ASSUME NEW o \in Orders, orders_by_id'[o] # orders_by_id[o]
                 PROVE  \/ /\ orders_by_id[o] = None
                           /\ orders_by_id'[o].status = "CREATED"
                        \/ /\ orders_by_id[o] # None
                           /\ orders_by_id[o].status = "CREATED"
                           /\ orders_by_id'[o] = [orders_by_id[o] EXCEPT !.status = "COMPLETED"]
      OBVIOUS
    <3>1. /\ t.pc = "batch" /\ OrderHolds(t)
          /\ orders_by_id \in [Orders -> Optional(OrderRecord)]
      BY <1>3, <2>2 DEF BatchReady, OrderInv, RecordInv, TypeInv, TypeOK
    <3>2. /\ t.order_update # None /\ o = id
          /\ orders_by_id'[o] = t.order_update
      BY <2>2, <3>1 DEF ApplyBatch
    <3>3. orders_by_id[o] # None =>
            [orders_by_id[o] EXCEPT !.status = "COMPLETED"]
              = [status |-> "COMPLETED", items |-> orders_by_id[o].items]
      BY <3>1 DEF Optional, OrderRecord
    <3> HIDE DEF t
    <3> QED  BY <3>1, <3>2, <3>3 DEF OrderHolds
  <2> QED  BY <1>3, <2>1, <2>2, OnlyBatchWrites
<1> QED  BY <1>1, <1>2, <1>3, PTL DEF Spec, OrderLifecycle
============================================================================
