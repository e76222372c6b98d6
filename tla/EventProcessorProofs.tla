------------------------ MODULE EventProcessorProofs ------------------------
(***************************************************************************)
(* Theorems about EventProcessor for every set of products, zones, orders, *)
(* events and consumers and every MaxInt.                                  *)
(***************************************************************************)
EXTENDS EventProcessor, FiniteSetTheorems, SequenceTheorems, TLAPS

----------------------------------------------------------------------------
(* Lemmas about the operators. *)

\* A sequence whose elements are all in T is a sequence over T.
LEMMA SeqOf ==
  ASSUME NEW S, NEW T, NEW s \in Seq(S), \A i \in 1..Len(s) : s[i] \in T
  PROVE  s \in Seq(T)
<1>1. Len(s) \in Nat /\ s \in [1..Len(s) -> S]  BY LenProperties
<1>2. s \in [1..Len(s) -> T]  BY <1>1
<1> QED  BY <1>1, <1>2, SeqDef

\* The items of an ORDER_CREATED that validate_event lets through are lines
\* with a product, a zone and a positive quantity.
LEMMA ValidItems ==
  ASSUME NEW e \in Events, validate_event(e), e.event_type = "ORDER_CREATED"
  PROVE  e.items \in Seq(OrderLine) /\ e.order_id \in Orders
<1>1. e \in WarehouseEvent  BY EventsAssumption
<1>2. require_order_items(e)  BY DEF validate_event
<1>3. e.items \in Seq(OrderItem) /\ e.order_id \in Orders
  BY <1>1, <1>2 DEF WarehouseEvent, Optional, require_order_items, require_field
<1>4. \A i \in 1..Len(e.items) : e.items[i] \in OrderLine
  <2> TAKE i \in 1..Len(e.items)
  <2>1. DOMAIN e.items = 1..Len(e.items)  BY <1>3, LenProperties
  <2>2. e.items[i] \in OrderItem  BY <1>3, ElementOfSeq
  <2>3. /\ e.items[i].product_id # None
        /\ e.items[i].zone_id # None
        /\ e.items[i].quantity # None
        /\ e.items[i].quantity > 0
    BY <2>1, <1>2 DEF require_order_items, require_field, require_positive_quantity
  <2> QED  BY <2>2, <2>3 DEF OrderItem, OrderLine, Optional
<1> QED  BY <1>3, <1>4, SeqOf

LEMMA ReserveItemsType ==
  ASSUME NEW items \in Seq(OrderLine)
  PROVE  ReserveItems(items) \in Seq(Change)
<1>1. Len(items) \in Nat  BY LenProperties
<1>2. \A i \in 1..Len(items) : items[i] \in OrderLine  BY ElementOfSeq
<1>3. ReserveItems(items) \in [1..Len(items) -> Change]
  BY <1>2 DEF ReserveItems, Delta, Change, OrderLine, Optional
<1> QED  BY <1>1, <1>3, SeqDef

LEMMA ShipItemsType ==
  ASSUME NEW items \in Seq(OrderLine)
  PROVE  ShipItems(items) \in Seq(Change)
<1>1. Len(items) \in Nat  BY LenProperties
<1>2. \A i \in 1..Len(items) : items[i] \in OrderLine  BY ElementOfSeq
<1>3. ShipItems(items) \in [1..Len(items) -> Change]
  BY <1>2 DEF ShipItems, Delta, Change, OrderLine, Optional
<1> QED  BY <1>1, <1>3, SeqDef

\* A valid event that is not about an order makes well-formed changes.
LEMMA ProductChangesType ==
  ASSUME NEW e \in Events, validate_event(e), ~IsOrderEvent(e)
  PROVE  ProductChanges(e) \in Seq(Change)
<1>1. e \in WarehouseEvent  BY EventsAssumption
<1>2. e.event_type \in EventType \ {"ORDER_CREATED", "ORDER_COMPLETED"}
  BY <1>1 DEF WarehouseEvent, IsOrderEvent
<1>3. CASE e.event_type \in {"PRODUCT_RECEIVED", "PRODUCT_SHIPPED",
                             "PRODUCT_RESERVED", "PRODUCT_RELEASED"}
  <2>1. e.product_id \in Products /\ e.zone_id \in Zones /\ e.quantity \in Int
    BY <1>1, <1>3 DEF WarehouseEvent, Optional, validate_event,
       require_product_zone_quantity, require_field, require_positive_quantity
  <2>2. \A a, r \in Int : Delta(e.product_id, e.zone_id, a, r) \in Change
    BY <2>1 DEF Delta, Change, Optional
  <2>3. -e.quantity \in Int /\ 0 \in Int  BY <2>1
  <2>4. \A x \in Change : <<x>> \in Seq(Change)  OBVIOUS
  <2> QED  BY <1>3, <2>1, <2>2, <2>3, <2>4 DEF ProductChanges
<1>4. CASE e.event_type = "PRODUCT_MOVED"
  <2>1. /\ e.product_id \in Products
        /\ e.from_zone_id \in Zones
        /\ e.to_zone_id \in Zones
        /\ e.quantity \in Int
    BY <1>1, <1>4 DEF WarehouseEvent, Optional, validate_event,
       require_move, require_field, require_positive_quantity
  <2>2. /\ Delta(e.product_id, e.from_zone_id, -e.quantity, 0) \in Change
        /\ Delta(e.product_id, e.to_zone_id, e.quantity, 0) \in Change
    BY <2>1 DEF Delta, Change, Optional
  <2>3. \A x, y \in Change : <<x, y>> \in Seq(Change)  OBVIOUS
  <2> QED  BY <1>4, <2>2, <2>3 DEF ProductChanges
<1>5. CASE e.event_type = "INVENTORY_COUNTED"
  <2>1. /\ e.product_id \in Products
        /\ e.zone_id \in Zones
        /\ e.counted_quantity \in Nat
    BY <1>1, <1>5 DEF WarehouseEvent, Optional, validate_event,
       require_count, require_field, require_non_negative_count
  <2>2. SetAvailable(e.product_id, e.zone_id, e.counted_quantity) \in Change
    BY <2>1 DEF SetAvailable, Change, Optional
  <2>3. \A x \in Change : <<x>> \in Seq(Change)  OBVIOUS
  <2> QED  BY <1>5, <2>2, <2>3 DEF ProductChanges
<1> QED  BY <1>2, <1>3, <1>4, <1>5 DEF EventType

----------------------------------------------------------------------------
(* The state of a call. *)

LEMMA IdleTaskOK == IdleTask \in Task /\ CallConsistent(IdleTask)
<1>1. IdleTask.zone_states \in [Products -> [Zones -> Optional(Row)]]
  BY DEF IdleTask, Optional
<1>2. IdleTask \in Task
  BY <1>1 DEF IdleTask, Task, Optional
<1>3. CallConsistent(IdleTask)
  BY DEF IdleTask, CallConsistent
<1> QED  BY <1>2, <1>3

\* Whatever a call returns or raises, it keeps nothing but its event.
LEMMA DoneTaskOK ==
  ASSUME NEW e \in Events, NEW r \in Returned \cup Raised
  PROVE  LET t == [IdleTask EXCEPT !.pc = "done", !.event = e, !.status = r]
         IN  t \in Task /\ CallConsistent(t)
<1> DEFINE t == [IdleTask EXCEPT !.pc = "done", !.event = e, !.status = r]
<1>1. t \in Task
  BY IdleTaskOK DEF Task, Optional
<1>2. /\ t.pc = "done" /\ t.event = e
      /\ t.todo = <<>> /\ t.order_update = None
      /\ t.totals = IdleTask.totals /\ t.zone_states = IdleTask.zone_states
  BY DEF IdleTask
<1>3. CallConsistent(t)
  BY <1>2, IdleTaskOK DEF CallConsistent, IdleTask
<1> QED  BY <1>1, <1>3

\* A step that leaves one call well-formed and the others alone.
LEMMA TaskUpdate ==
  ASSUME task \in [Consumers -> Task], CallOK, NEW c \in Consumers,
         NEW t \in Task, CallConsistent(t), task' = [task EXCEPT ![c] = t]
  PROVE  task' \in [Consumers -> Task] /\ CallOK'
<1>1. \A d \in Consumers : task'[d] = IF d = c THEN t ELSE task[d]
  OBVIOUS
<1>2. CallOK'
  BY <1>1 DEF CallOK, CallConsistent
<1> QED  BY <1>2

LEMMA FinishOK ==
  ASSUME task \in [Consumers -> Task], CallOK, NEW c \in Consumers,
         task[c].pc # "idle", NEW r \in Returned \cup Raised, Finish(c, r)
  PROVE  task' \in [Consumers -> Task] /\ CallOK'
<1>1. task[c].event \in Events
  BY DEF CallOK, CallConsistent
<1> QED  BY <1>1, DoneTaskOK, TaskUpdate DEF Finish

----------------------------------------------------------------------------
(* Type correctness. *)

TypeInv == TypeOK /\ CallOK

LEMMA TypeInit == Init => TypeInv
<1> SUFFICES ASSUME Init PROVE TypeInv  OBVIOUS
<1>1. ZeroRow \in Row  BY DEF ZeroRow, Row
<1>2. TypeOK
  BY <1>1, IdleTaskOK DEF Init, TypeOK, Optional
<1>3. CallOK
  BY IdleTaskOK DEF Init, CallOK
<1> QED  BY <1>2, <1>3 DEF TypeInv

\* A step that leaves the tables alone.
LEMMA TablesUnchanged ==
  ASSUME TypeOK, UNCHANGED tables, task' \in [Consumers -> Task]
  PROVE  TypeOK'
BY DEF TypeOK, tables

LEMMA ReceiveEventType ==
  ASSUME TypeInv, NEW c \in Consumers, NEW e \in Events, ReceiveEvent(c, e)
  PROVE  TypeInv'
<1> DEFINE t == [IdleTask EXCEPT !.pc = "is_processed", !.event = e]
<1>1. t \in Task
  BY IdleTaskOK DEF Task, Optional
<1>2. CallConsistent(t)
  BY IdleTaskOK DEF CallConsistent, IdleTask
<1>3. task' \in [Consumers -> Task] /\ CallOK'
  BY <1>1, <1>2, TaskUpdate DEF TypeInv, TypeOK, ReceiveEvent
<1> QED  BY <1>3, TablesUnchanged DEF TypeInv, ReceiveEvent

LEMMA IsProcessedType ==
  ASSUME TypeInv, NEW c \in Consumers, IsProcessed(c)
  PROVE  TypeInv'
<1>1. task' \in [Consumers -> Task] /\ CallOK'
  <2>1. CASE processed_events[task[c].event.event_id] # None
    <3>1. Finish(c, "DUPLICATE")  BY <2>1 DEF IsProcessed
    <3>2. "DUPLICATE" \in Returned \cup Raised  BY DEF Returned
    <3>3. task[c].pc # "idle"  BY DEF IsProcessed
    <3> QED  BY <3>1, <3>2, <3>3, FinishOK DEF TypeInv, TypeOK
  <2>2. CASE processed_events[task[c].event.event_id] = None
    <3> DEFINE t == [task[c] EXCEPT !.pc = "get_last_sequence"]
    <3>1. task' = [task EXCEPT ![c] = t]  BY <2>2 DEF IsProcessed
    <3>2. task[c] \in Task /\ CallConsistent(task[c])
      BY DEF TypeInv, TypeOK, CallOK
    <3>3. t \in Task  BY <3>2 DEF Task
    <3>4. CallConsistent(t)  BY <3>2 DEF CallConsistent, IsProcessed, Task
    <3> QED  BY <3>1, <3>3, <3>4, TaskUpdate DEF TypeInv, TypeOK
  <2> QED  BY <2>1, <2>2
<1> QED  BY <1>1, TablesUnchanged DEF TypeInv, IsProcessed

LEMMA CheckSequenceType ==
  ASSUME TypeInv, NEW c \in Consumers, CheckSequence(c)
  PROVE  TypeInv'
<1> DEFINE e == task[c].event
           last == entity_versions[resolved_entity_key(e)]
<1>1. task[c] \in Task /\ CallConsistent(task[c]) /\ task[c].pc = "get_last_sequence"
  BY DEF TypeInv, TypeOK, CallOK, CheckSequence
<1>2. e \in Events /\ task[c].todo = <<>>
  BY <1>1 DEF CallConsistent
<1>3. task' \in [Consumers -> Task] /\ CallOK'
  <2>1. CASE ~validate_event(e) /\ Finish(c, "VALIDATION_ERROR")
    <3>1. "VALIDATION_ERROR" \in Returned \cup Raised  BY DEF Raised
    <3> QED  BY <2>1, <3>1, <1>1, FinishOK DEF TypeInv, TypeOK
  <2>2. CASE /\ validate_event(e)
             /\ task' = [task EXCEPT ![c].pc = "batch",
                                     ![c].status = "IGNORED_OUT_OF_ORDER"]
    <3> DEFINE t == [task[c] EXCEPT !.pc = "batch", !.status = "IGNORED_OUT_OF_ORDER"]
    <3>1. task' = [task EXCEPT ![c] = t]  BY <2>2, <1>1 DEF TypeInv, TypeOK, Task
    <3>2. t \in Task  BY <1>1 DEF Task, Optional, Returned, Recorded
    <3>3. CallConsistent(t)
      BY <1>1, <1>2, <2>2 DEF CallConsistent, Task, Recorded
    <3> QED  BY <3>1, <3>2, <3>3, TaskUpdate DEF TypeInv, TypeOK
  <2>3. CASE /\ validate_event(e)
             /\ task' = [task EXCEPT
                  ![c].pc = IF IsOrderEvent(e) THEN "get_order" ELSE "batch",
                  ![c].todo = IF IsOrderEvent(e) THEN <<>> ELSE ProductChanges(e),
                  ![c].status = "PROCESSED"]
    <3> DEFINE t == [task[c] EXCEPT
                  !.pc = IF IsOrderEvent(e) THEN "get_order" ELSE "batch",
                  !.todo = IF IsOrderEvent(e) THEN <<>> ELSE ProductChanges(e),
                  !.status = "PROCESSED"]
    <3>1. task' = [task EXCEPT ![c] = t]  BY <2>3, <1>1 DEF TypeInv, TypeOK, Task
    <3>2. (IF IsOrderEvent(e) THEN <<>> ELSE ProductChanges(e)) \in Seq(Change)
      BY <1>2, <2>3, ProductChangesType, EmptySeq
    <3>3. t \in Task  BY <1>1, <3>2 DEF Task, Optional, Returned, Recorded
    <3>4. CallConsistent(t)
      BY <1>1, <1>2, <2>3 DEF CallConsistent, Task, Recorded
    <3> QED  BY <3>1, <3>3, <3>4, TaskUpdate DEF TypeInv, TypeOK
  <2> QED  BY <2>1, <2>2, <2>3 DEF CheckSequence
<1> QED  BY <1>3, TablesUnchanged DEF TypeInv, CheckSequence

LEMMA HandleOrderCreatedType ==
  ASSUME TypeInv, NEW c \in Consumers, HandleOrderCreated(c)
  PROVE  TypeInv'
<1> DEFINE e == task[c].event
<1>1. task[c] \in Task /\ CallConsistent(task[c]) /\ task[c].pc = "get_order"
  BY DEF TypeInv, TypeOK, CallOK, HandleOrderCreated
<1>2. e \in Events /\ validate_event(e) /\ e.event_type = "ORDER_CREATED"
  BY <1>1 DEF CallConsistent, HandleOrderCreated
<1>3. task' \in [Consumers -> Task] /\ CallOK'
  <2>1. CASE orders_by_id[e.order_id] # None
    <3>1. Finish(c, "ORDER_ALREADY_EXISTS")  BY <2>1 DEF HandleOrderCreated
    <3>2. "ORDER_ALREADY_EXISTS" \in Returned \cup Raised  BY DEF Raised
    <3> QED  BY <3>1, <3>2, <1>1, FinishOK DEF TypeInv, TypeOK
  <2>2. CASE orders_by_id[e.order_id] = None
    <3> DEFINE order == [status |-> "CREATED", items |-> e.items]
               t == [task[c] EXCEPT !.pc = "batch", !.todo = ReserveItems(e.items),
                                    !.order_update = order]
    <3>1. task' = [task EXCEPT ![c] = t]
      BY <2>2, <1>1 DEF HandleOrderCreated, TypeInv, TypeOK, Task
    <3>2. e.items \in Seq(OrderLine)  BY <1>2, ValidItems
    <3>3. ReserveItems(e.items) \in Seq(Change)  BY <3>2, ReserveItemsType
    <3>4. order \in OrderRecord  BY <3>2 DEF OrderRecord
    <3>5. t \in Task  BY <1>1, <3>3, <3>4 DEF Task, Optional
    <3>6. CallConsistent(t)
      BY <1>1, <1>2 DEF CallConsistent, Task, Recorded
    <3> QED  BY <3>1, <3>5, <3>6, TaskUpdate DEF TypeInv, TypeOK
  <2> QED  BY <2>1, <2>2
<1> QED  BY <1>3, TablesUnchanged DEF TypeInv, HandleOrderCreated

LEMMA HandleOrderCompletedType ==
  ASSUME TypeInv, NEW c \in Consumers, HandleOrderCompleted(c)
  PROVE  TypeInv'
<1> DEFINE e == task[c].event
           order == orders_by_id[e.order_id]
<1>1. task[c] \in Task /\ CallConsistent(task[c]) /\ task[c].pc = "get_order"
  BY DEF TypeInv, TypeOK, CallOK, HandleOrderCompleted
<1>2. e \in Events /\ validate_event(e) /\ e.event_type = "ORDER_COMPLETED"
  BY <1>1 DEF CallConsistent, HandleOrderCompleted
<1>3. order \in Optional(OrderRecord)
  <2>1. e.order_id \in Orders
    BY <1>2, EventsAssumption DEF validate_event, require_field, WarehouseEvent, Optional
  <2> QED  BY <2>1 DEF TypeInv, TypeOK
<1>4. task' \in [Consumers -> Task] /\ CallOK'
  <2>1. CASE Finish(c, "ORDER_NOT_FOUND") \/ Finish(c, "ORDER_ALREADY_COMPLETED")
    <3>1. {"ORDER_NOT_FOUND", "ORDER_ALREADY_COMPLETED"} \subseteq Returned \cup Raised
      BY DEF Raised
    <3> QED  BY <2>1, <3>1, <1>1, FinishOK DEF TypeInv, TypeOK
  <2>2. CASE /\ order # None
             /\ task' = [task EXCEPT
                  ![c].pc = "batch",
                  ![c].todo = ShipItems(order.items),
                  ![c].order_update = [status |-> "COMPLETED", items |-> order.items]]
    <3> DEFINE new == [status |-> "COMPLETED", items |-> order.items]
               t == [task[c] EXCEPT !.pc = "batch", !.todo = ShipItems(order.items),
                                    !.order_update = new]
    <3>1. task' = [task EXCEPT ![c] = t]
      BY <2>2, <1>1 DEF TypeInv, TypeOK, Task
    <3>2. order.items \in Seq(OrderLine)
      BY <1>3, <2>2 DEF Optional, OrderRecord
    <3>3. ShipItems(order.items) \in Seq(Change)  BY <3>2, ShipItemsType
    <3>4. new \in OrderRecord  BY <3>2 DEF OrderRecord
    <3>5. t \in Task  BY <1>1, <3>3, <3>4 DEF Task, Optional
    <3>6. CallConsistent(t)
      BY <1>1, <1>2 DEF CallConsistent, Task, Recorded
    <3> QED  BY <3>1, <3>5, <3>6, TaskUpdate DEF TypeInv, TypeOK
  <2> QED  BY <2>1, <2>2 DEF HandleOrderCompleted
<1> QED  BY <1>4, TablesUnchanged DEF TypeInv, HandleOrderCompleted

\* The next change names a product and a zone.
LEMMA ChangingType ==
  ASSUME TypeInv, NEW c \in Consumers, Changing(c)
  PROVE  /\ Head(task[c].todo) \in Change
         /\ Tail(task[c].todo) \in Seq(Change)
         /\ task[c] \in Task
         /\ CallConsistent(task[c])
         /\ task[c].pc = "batch"
<1>1. task[c] \in Task /\ CallConsistent(task[c]) /\ task[c].pc = "batch"
  BY DEF TypeInv, TypeOK, CallOK, Changing
<1>2. task[c].todo \in Seq(Change) /\ task[c].todo # <<>>
  BY <1>1 DEF Task, Changing
<1> QED  BY <1>1, <1>2

LEMMA GetZoneStateType ==
  ASSUME TypeInv, NEW c \in Consumers, GetZoneState(c)
  PROVE  TypeInv'
<1> DEFINE ch == Head(task[c].todo)
           row == inventory_by_product_zone[ch.product_id][ch.zone_id]
           zs == [task[c].zone_states EXCEPT ![ch.product_id][ch.zone_id] = row]
           t == [task[c] EXCEPT !.zone_states = zs]
<1>1. ch \in Change /\ task[c] \in Task /\ CallConsistent(task[c]) /\ task[c].pc = "batch"
  BY ChangingType DEF GetZoneState
<1>2. ch.product_id \in Products /\ ch.zone_id \in Zones
  BY <1>1 DEF Change
<1>3. row \in Row
  BY <1>2 DEF TypeInv, TypeOK
<1>4. task[c].zone_states \in [Products -> [Zones -> Optional(Row)]]
  BY <1>1 DEF Task
<1>5. zs \in [Products -> [Zones -> Optional(Row)]]
  BY <1>2, <1>3, <1>4 DEF Optional
<1>6. task' = [task EXCEPT ![c] = t]
  BY <1>1, <1>4 DEF GetZoneState, TypeInv, TypeOK, Task
<1>7. t \in Task  BY <1>1, <1>5 DEF Task
<1>8. CallConsistent(t)  BY <1>1 DEF CallConsistent, Task
<1>9. task' \in [Consumers -> Task] /\ CallOK'
  BY <1>6, <1>7, <1>8, TaskUpdate DEF TypeInv, TypeOK
<1> QED  BY <1>9, TablesUnchanged DEF TypeInv, GetZoneState

LEMMA GetTotalType ==
  ASSUME TypeInv, NEW c \in Consumers, GetTotal(c)
  PROVE  TypeInv'
<1> DEFINE ch == Head(task[c].todo)
           total == inventory_by_product[ch.product_id]
           totals == [task[c].totals EXCEPT ![ch.product_id] = total]
           t == [task[c] EXCEPT !.totals = totals]
<1>1. ch \in Change /\ task[c] \in Task /\ CallConsistent(task[c]) /\ task[c].pc = "batch"
  BY ChangingType DEF GetTotal
<1>2. ch.product_id \in Products
  BY <1>1 DEF Change
<1>3. total \in Row
  BY <1>2 DEF TypeInv, TypeOK
<1>4. task[c].totals \in [Products -> Optional(Row)]
  BY <1>1 DEF Task
<1>5. totals \in [Products -> Optional(Row)]
  BY <1>2, <1>3, <1>4 DEF Optional
<1>6. task' = [task EXCEPT ![c] = t]
  BY <1>1, <1>4 DEF GetTotal, TypeInv, TypeOK, Task
<1>7. t \in Task  BY <1>1, <1>5 DEF Task
<1>8. CallConsistent(t)  BY <1>1 DEF CallConsistent, Task
<1>9. task' \in [Consumers -> Task] /\ CallOK'
  BY <1>6, <1>7, <1>8, TaskUpdate DEF TypeInv, TypeOK
<1> QED  BY <1>9, TablesUnchanged DEF TypeInv, GetTotal

\* A change that breaks no rule leaves a row and a total of naturals.
LEMMA UnbrokenRule ==
  ASSUME NEW row \in Row, NEW total \in Row, NEW a \in Int, NEW r \in Int,
         BrokenRule(Add(row, a, r), Add(total, a, r)) = None
  PROVE  Add(row, a, r) \in Row /\ Add(total, a, r) \in Row
<1>1. None # "INSUFFICIENT_AVAILABLE" /\ None # "INSUFFICIENT_RESERVED"
      /\ None # "INSUFFICIENT_TOTAL_AVAILABLE" /\ None # "INSUFFICIENT_TOTAL_RESERVED"
  BY ValueAssumption DEF Raised
<1>2. /\ Add(row, a, r).available >= 0 /\ Add(row, a, r).reserved >= 0
      /\ Add(total, a, r).available >= 0 /\ Add(total, a, r).reserved >= 0
  BY <1>1 DEF BrokenRule, Add, Row
<1> QED  BY <1>2 DEF Add, Row

LEMMA AvailableDeltaType ==
  ASSUME NEW ch \in Change, NEW row \in Row
  PROVE  AvailableDelta(ch, row) \in Int
BY DEF AvailableDelta, Change, Optional, Row

\* The values ApplyChange works with.
LEMMA ApplyChangeFacts ==
  ASSUME TypeInv, NEW c \in Consumers, ApplyChange(c)
  PROVE  LET ch == Head(task[c].todo)
             row == task[c].zone_states[ch.product_id][ch.zone_id]
             total == task[c].totals[ch.product_id]
             delta == AvailableDelta(ch, row)
         IN  /\ ch \in Change
             /\ ch.product_id \in Products /\ ch.zone_id \in Zones
             /\ ch.reserved \in Int
             /\ row \in Row /\ total \in Row /\ delta \in Int
<1> DEFINE ch == Head(task[c].todo)
           row == task[c].zone_states[ch.product_id][ch.zone_id]
           total == task[c].totals[ch.product_id]
<1>1. ch \in Change /\ task[c] \in Task
  BY ChangingType DEF ApplyChange
<1>2. ch.product_id \in Products /\ ch.zone_id \in Zones /\ ch.reserved \in Int
  BY <1>1 DEF Change
<1>3. /\ task[c].zone_states \in [Products -> [Zones -> Optional(Row)]]
      /\ task[c].totals \in [Products -> Optional(Row)]
  BY <1>1 DEF Task
<1>4. row \in Optional(Row) /\ total \in Optional(Row)
  BY <1>2, <1>3
<1>5. row # None /\ total # None
  BY DEF ApplyChange
<1>6. row \in Row /\ total \in Row
  BY <1>4, <1>5 DEF Optional
<1> QED  BY <1>1, <1>2, <1>6, AvailableDeltaType

LEMMA ApplyChangeType ==
  ASSUME TypeInv, NEW c \in Consumers, ApplyChange(c)
  PROVE  TypeInv'
<1> DEFINE ch == Head(task[c].todo)
           row == task[c].zone_states[ch.product_id][ch.zone_id]
           total == task[c].totals[ch.product_id]
           delta == AvailableDelta(ch, row)
           new_row == Add(row, delta, ch.reserved)
           new_total == Add(total, delta, ch.reserved)
<1>1. /\ ch.product_id \in Products /\ ch.zone_id \in Zones
      /\ ch.reserved \in Int
      /\ row \in Row /\ total \in Row /\ delta \in Int
  BY ApplyChangeFacts
<1>2. /\ Tail(task[c].todo) \in Seq(Change)
      /\ task[c] \in Task /\ CallConsistent(task[c]) /\ task[c].pc = "batch"
  BY ChangingType DEF ApplyChange
<1>3. task' \in [Consumers -> Task] /\ CallOK'
  <2>1. CASE BrokenRule(new_row, new_total) # None
    <3>1. Finish(c, BrokenRule(new_row, new_total))
      BY <2>1 DEF ApplyChange
    <3>2. BrokenRule(new_row, new_total) \in Returned \cup Raised
      BY <2>1 DEF BrokenRule, Raised
    <3> QED  BY <3>1, <3>2, <1>2, FinishOK DEF TypeInv, TypeOK
  <2>2. CASE BrokenRule(new_row, new_total) = None
    <3> DEFINE zs == [task[c].zone_states EXCEPT ![ch.product_id][ch.zone_id] = new_row]
               totals == [task[c].totals EXCEPT ![ch.product_id] = new_total]
               t == [task[c] EXCEPT !.zone_states = zs, !.totals = totals,
                                    !.todo = Tail(@)]
    <3>1. new_row \in Row /\ new_total \in Row
      BY <1>1, <2>2, UnbrokenRule
    <3>2. /\ task[c].zone_states \in [Products -> [Zones -> Optional(Row)]]
          /\ task[c].totals \in [Products -> Optional(Row)]
      BY <1>2 DEF Task
    <3>3. zs \in [Products -> [Zones -> Optional(Row)]]
      BY <1>1, <3>1, <3>2 DEF Optional
    <3>4. totals \in [Products -> Optional(Row)]
      BY <1>1, <3>1, <3>2 DEF Optional
    <3>5. task' = [task EXCEPT
             ![c].zone_states[ch.product_id][ch.zone_id] = new_row,
             ![c].totals[ch.product_id] = new_total,
             ![c].todo = Tail(@)]
      BY <2>2 DEF ApplyChange
    <3>6. task' = [task EXCEPT ![c] = t]
      BY <3>5, <1>2, <3>2 DEF TypeInv, TypeOK, Task
    <3>7. t \in Task  BY <1>2, <3>3, <3>4 DEF Task
    <3>8. CallConsistent(t)  BY <1>2 DEF CallConsistent, Task
    <3> QED  BY <3>6, <3>7, <3>8, TaskUpdate DEF TypeInv, TypeOK
  <2> QED  BY <2>1, <2>2
<1> QED  BY <1>3, TablesUnchanged DEF TypeInv, ApplyChange

\* The batch writes rows, records and numbers the tables can hold.
LEMMA ApplyBatchType ==
  ASSUME TypeInv, NEW c \in Consumers, BatchReady(c), ApplyBatch(c),
         task' \in [Consumers -> Task]
  PROVE  TypeOK'
<1> DEFINE t == task[c]
           e == t.event
<1>1. t \in Task /\ CallConsistent(t) /\ t.pc = "batch"
  BY DEF TypeInv, TypeOK, CallOK, BatchReady
<1>2. e \in Events /\ t.status \in Recorded
  BY <1>1 DEF CallConsistent
<1>3. e.event_id \in EventIds /\ e.sequence_number \in Int
  BY <1>2, EventsAssumption DEF WarehouseEvent
<1>4. /\ t.zone_states \in [Products -> [Zones -> Optional(Row)]]
      /\ t.totals \in [Products -> Optional(Row)]
      /\ t.order_update \in Optional(OrderRecord)
  BY <1>1 DEF Task
<1>5. /\ inventory_by_product_zone' \in [Products -> [Zones -> Row]]
      /\ inventory_by_zone' \in [Zones -> [Products -> Row]]
      /\ inventory_by_product' \in [Products -> Row]
  BY <1>4 DEF TypeInv, TypeOK, ApplyBatch, Overlay, Optional
<1>6. orders_by_id' \in [Orders -> Optional(OrderRecord)]
  BY <1>4 DEF TypeInv, TypeOK, ApplyBatch, Optional
<1>7. /\ processed_events' \in [EventIds -> Optional(Recorded)]
      /\ event_history' \in [Events -> Optional(Recorded)]
  BY <1>2 DEF TypeInv, TypeOK, ApplyBatch, Optional
<1>8. entity_versions' \in [VersionKeys -> Optional(Int)]
  BY <1>3 DEF TypeInv, TypeOK, ApplyBatch, Optional
<1> QED  BY <1>5, <1>6, <1>7, <1>8 DEF TypeOK

\* Every batch, applied, refused or timed out, ends the call.
LEMMA BatchType ==
  ASSUME TypeInv, NEW c \in Consumers,
         ExecuteBatch(c) \/ BatchRefused(c) \/ DatabaseCallFails(c) \/ BatchTimesOut(c)
  PROVE  TypeInv'
<1>1. task[c] \in Task /\ CallConsistent(task[c])
  BY DEF TypeInv, TypeOK, CallOK
<1>2. task[c].pc # "idle"
  BY DEF ExecuteBatch, BatchRefused, DatabaseCallFails, BatchTimesOut, BatchReady,
         Reading, Changing
<1>3. Finish(c, task[c].status) \/ Finish(c, "PROCESSING_ERROR")
  BY DEF ExecuteBatch, BatchRefused, DatabaseCallFails, BatchTimesOut
<1>4. ExecuteBatch(c) => task[c].status \in Returned
  BY <1>1 DEF ExecuteBatch, BatchReady, CallConsistent, Returned
<1>5. task' \in [Consumers -> Task] /\ CallOK'
  <2>1. CASE ExecuteBatch(c)
    BY <2>1, <1>2, <1>4, FinishOK DEF ExecuteBatch, TypeInv, TypeOK
  <2>2. CASE BatchRefused(c) \/ DatabaseCallFails(c) \/ BatchTimesOut(c)
    <3>1. Finish(c, "PROCESSING_ERROR")
      BY <2>2 DEF BatchRefused, DatabaseCallFails, BatchTimesOut
    <3>2. "PROCESSING_ERROR" \in Returned \cup Raised  BY DEF Raised
    <3> QED  BY <3>1, <3>2, <1>2, FinishOK DEF TypeInv, TypeOK
  <2> QED  BY <2>1, <2>2
<1>6. CASE ExecuteBatch(c) \/ BatchTimesOut(c)
  BY <1>5, <1>6, ApplyBatchType DEF TypeInv, ExecuteBatch, BatchTimesOut
<1>7. CASE BatchRefused(c) \/ DatabaseCallFails(c)
  BY <1>5, <1>7, TablesUnchanged DEF TypeInv, BatchRefused, DatabaseCallFails
<1> QED  BY <1>6, <1>7

LEMMA CallEndsType ==
  ASSUME TypeInv, NEW c \in Consumers, Return(c) \/ Crash(c)
  PROVE  TypeInv'
<1>1. task' \in [Consumers -> Task] /\ CallOK'
  BY IdleTaskOK, TaskUpdate DEF Return, Crash, TypeInv, TypeOK
<1> QED  BY <1>1, TablesUnchanged DEF TypeInv, Return, Crash

LEMMA TypeStep == TypeInv /\ [Next]_vars => TypeInv'
<1> SUFFICES ASSUME TypeInv, [Next]_vars PROVE TypeInv'  OBVIOUS
<1>1. CASE UNCHANGED vars
  BY <1>1 DEF vars, TypeInv, TypeOK, CallOK, CallConsistent
<1>2. CASE Next
  <2>1. PICK c \in Consumers :
          \/ \E e \in Events : ReceiveEvent(c, e)
          \/ Process(c)
          \/ DatabaseFailure(c)
          \/ Return(c)
          \/ Crash(c)
    BY <1>2 DEF Next
  <2>2. CASE \E e \in Events : ReceiveEvent(c, e)
    BY <2>2, ReceiveEventType
  <2>3. CASE Process(c)
    BY <2>3, IsProcessedType, CheckSequenceType, HandleOrderCreatedType,
       HandleOrderCompletedType, GetZoneStateType, GetTotalType, ApplyChangeType,
       BatchType DEF Process
  <2>4. CASE DatabaseFailure(c)
    BY <2>4, BatchType DEF DatabaseFailure
  <2>5. CASE Return(c) \/ Crash(c)
    BY <2>5, CallEndsType
  <2> QED  BY <2>1, <2>2, <2>3, <2>4, <2>5
<1> QED  BY <1>1, <1>2

\* The tables and the locals of every call keep their types: in particular no
\* row ever becomes negative, and a stored order only has valid lines.
THEOREM TypeCorrect == Spec => []TypeOK
<1>1. TypeInv => TypeOK  BY DEF TypeInv
<1> QED  BY <1>1, TypeInit, TypeStep, PTL DEF Spec

\* Only validated events pass the checks, and a call holds nothing until then.
THEOREM CallsConsistent == Spec => []CallOK
<1>1. TypeInv => CallOK  BY DEF TypeInv
<1> QED  BY <1>1, TypeInit, TypeStep, PTL DEF Spec

----------------------------------------------------------------------------
(* What holds for any number of consumers, because a batch writes all the  *)
(* rows of a call together.                                                *)

\* The tables change only by a batch that fits them.
LEMMA OnlyBatchWrites ==
  ASSUME [Next]_vars
  PROVE  \/ UNCHANGED tables
         \/ \E c \in Consumers :
              /\ BatchReady(c) /\ BatchFits(c) /\ ApplyBatch(c)
              /\ \E r : Finish(c, r)
<1>1. CASE UNCHANGED vars  BY <1>1 DEF vars, tables
<1>2. ASSUME NEW c \in Consumers,
             Process(c) \/ DatabaseFailure(c)
      PROVE  \/ UNCHANGED tables
             \/ BatchReady(c) /\ BatchFits(c) /\ ApplyBatch(c) /\ \E r : Finish(c, r)
  <2>1. CASE IsProcessed(c) \/ CheckSequence(c) \/ HandleOrderCreated(c)
    BY <2>1 DEF IsProcessed, CheckSequence, HandleOrderCreated
  <2>2. CASE HandleOrderCompleted(c) \/ GetZoneState(c) \/ GetTotal(c) \/ ApplyChange(c)
    BY <2>2 DEF HandleOrderCompleted, GetZoneState, GetTotal, ApplyChange
  <2>3. CASE ExecuteBatch(c) \/ BatchRefused(c) \/ DatabaseCallFails(c) \/ BatchTimesOut(c)
    BY <2>3 DEF ExecuteBatch, BatchRefused, DatabaseCallFails, BatchTimesOut
  <2> QED  BY <1>2, <2>1, <2>2, <2>3 DEF Process, DatabaseFailure
<1>3. ASSUME NEW c \in Consumers,
             (\E e \in Events : ReceiveEvent(c, e)) \/ Return(c) \/ Crash(c)
      PROVE  UNCHANGED tables
  BY <1>3 DEF ReceiveEvent, Return, Crash
<1> QED  BY <1>1, <1>2, <1>3 DEF Next

LEMMA InRangeInit == Init => StockInRange
BY MaxIntAssumption DEF Init, StockInRange, InRange, ZeroRow

LEMMA InRangeStep == TypeInv /\ StockInRange /\ [Next]_vars => StockInRange'
<1> SUFFICES ASSUME TypeInv, StockInRange, [Next]_vars PROVE StockInRange'  OBVIOUS
<1>1. CASE UNCHANGED tables
  BY <1>1 DEF tables, StockInRange, InRange
<1>2. ASSUME NEW c \in Consumers, BatchFits(c), ApplyBatch(c)
      PROVE  StockInRange'
  <2> DEFINE t == task[c]
  <2>1. t \in Task  BY DEF TypeInv, TypeOK
  <2>2. /\ t.zone_states \in [Products -> [Zones -> Optional(Row)]]
        /\ t.totals \in [Products -> Optional(Row)]
    BY <2>1 DEF Task
  <2>3. ASSUME NEW new \in Optional(Row), Fits(new), NEW old, InRange(old)
        PROVE  InRange(Overlay(new, old))
    BY <2>3, MaxIntAssumption DEF Optional, Row, Fits, InRange, Overlay
  <2>4. ASSUME NEW p \in Products PROVE InRange(inventory_by_product'[p])
    <3>1. inventory_by_product'[p] = Overlay(t.totals[p], inventory_by_product[p])
      BY <1>2 DEF ApplyBatch
    <3>2. Fits(t.totals[p]) /\ t.totals[p] \in Optional(Row)
      BY <1>2, <2>2 DEF BatchFits
    <3>3. InRange(inventory_by_product[p])  BY DEF StockInRange
    <3> QED  BY <3>1, <3>2, <3>3, <2>3
  <2>5. ASSUME NEW p \in Products, NEW z \in Zones
        PROVE  InRange(inventory_by_product_zone'[p][z]) /\ InRange(inventory_by_zone'[z][p])
    <3>1. /\ inventory_by_product_zone'[p][z] =
               Overlay(t.zone_states[p][z], inventory_by_product_zone[p][z])
          /\ inventory_by_zone'[z][p] =
               Overlay(t.zone_states[p][z], inventory_by_zone[z][p])
      BY <1>2 DEF ApplyBatch
    <3>2. Fits(t.zone_states[p][z]) /\ t.zone_states[p][z] \in Optional(Row)
      BY <1>2, <2>2 DEF BatchFits
    <3>3. InRange(inventory_by_product_zone[p][z]) /\ InRange(inventory_by_zone[z][p])
      BY DEF StockInRange
    <3> QED  BY <3>1, <3>2, <3>3, <2>3
  <2> QED  BY <2>4, <2>5 DEF StockInRange, InRange
<1> QED  BY <1>1, <1>2, OnlyBatchWrites

\* No table ever holds a negative quantity or one above MaxInt.
THEOREM QuantitiesInRange == Spec => []StockInRange
<1> QED  BY TypeInit, TypeStep, InRangeInit, InRangeStep, PTL DEF Spec

LEMMA ZonesAgreeInit == Init => ZonesAgree
BY DEF Init, ZonesAgree

LEMMA ZonesAgreeStep == ZonesAgree /\ [Next]_vars => ZonesAgree'
<1> SUFFICES ASSUME ZonesAgree, [Next]_vars PROVE ZonesAgree'  OBVIOUS
<1>1. CASE UNCHANGED tables
  BY <1>1 DEF tables, ZonesAgree
<1>2. ASSUME NEW c \in Consumers, ApplyBatch(c)
      PROVE  ZonesAgree'
  BY <1>2 DEF ZonesAgree, ApplyBatch, Overlay
<1> QED  BY <1>1, <1>2, OnlyBatchWrites

\* inventory_by_zone mirrors inventory_by_product_zone whatever the consumers
\* do to each other's events.
THEOREM MirrorAgrees == Spec => []ZonesAgree
<1> QED  BY ZonesAgreeInit, ZonesAgreeStep, PTL DEF Spec

----------------------------------------------------------------------------
(* Counting units. *)

LEMMA UnitsMember ==
  ASSUME NEW f, NEW u
  PROVE  u \in Units(f) <=> \E z \in Zones : \E i \in 1..f[z] : u = <<z, i>>
<1>1. \A z \in Zones : u \in {z} \X (1..f[z]) <=> \E i \in 1..f[z] : u = <<z, i>>
  OBVIOUS
<1> QED  BY <1>1 DEF Units

\* The units in one zone.
LEMMA ColumnCardinality ==
  ASSUME NEW z, NEW n \in Nat
  PROVE  IsFiniteSet({z} \X (1..n)) /\ Cardinality({z} \X (1..n)) = n
<1> DEFINE A == {z}
           B == 1..n
<1>1. IsFiniteSet(A) /\ Cardinality(A) = 1  BY FS_Singleton
<1>2. IsFiniteSet(B) /\ Cardinality(B) = n  BY FS_Interval
<1>3. 1 * n = n  OBVIOUS
<1> HIDE DEF A, B
<1>4. IsFiniteSet(A \X B) /\ Cardinality(A \X B) = n
  BY <1>1, <1>2, <1>3, FS_Product
<1> QED  BY <1>4, Zenon DEF A, B

LEMMA DisjointUnion ==
  ASSUME NEW S, NEW T, IsFiniteSet(S), IsFiniteSet(T), S \cap T = {}
  PROVE  Cardinality(S \cup T) = Cardinality(S) + Cardinality(T)
<1>1. Cardinality(S) \in Nat /\ Cardinality(T) \in Nat  BY FS_CardinalityType
<1>2. Cardinality(S \cap T) = 0  BY FS_EmptySet
<1>3. Cardinality(S \cup T) = Cardinality(S) + Cardinality(T) - Cardinality(S \cap T)
  BY FS_Union
<1> QED  BY <1>1, <1>2, <1>3

LEMMA UnitsFinite ==
  ASSUME NEW f \in [Zones -> Nat]
  PROVE  IsFiniteSet(Units(f))
<1> DEFINE S == {{z} \X (1..f[z]) : z \in Zones}
           h == [z \in Zones |-> {z} \X (1..f[z])]
<1>1. h \in Surjection(Zones, S)  BY DEF Surjection
<1>2. IsFiniteSet(S)  BY <1>1, FiniteAssumption, FS_Surjection
<1>3. \A z \in Zones : IsFiniteSet({z} \X (1..f[z]))
  BY ColumnCardinality
<1> HIDE DEF h
<1>4. \A T \in S : IsFiniteSet(T)  BY <1>3
<1> QED  BY <1>2, <1>4, FS_UNION DEF Units

\* Changing the quantity of one zone changes the number of units by as much.
LEMMA UnitsExcept ==
  ASSUME NEW f \in [Zones -> Nat], NEW z \in Zones, NEW n \in Nat
  PROVE  Cardinality(Units([f EXCEPT ![z] = n])) = Cardinality(Units(f)) - f[z] + n
<1> DEFINE g == [f EXCEPT ![z] = n]
           Old == {z} \X (1..f[z])
           New == {z} \X (1..n)
           Rest == {u \in Units(f) : u \notin Old}
<1>1. IsFiniteSet(Units(f))  BY UnitsFinite
<1>2. IsFiniteSet(Rest)  BY <1>1, FS_Subset
<1>3. /\ IsFiniteSet(Old) /\ Cardinality(Old) = f[z]
      /\ IsFiniteSet(New) /\ Cardinality(New) = n
  BY ColumnCardinality
<1>4. Units(f) = Rest \cup Old
  <2>1. Old \subseteq Units(f)  BY UnitsMember
  <2> QED  BY <2>1
<1>5. Units(g) = Rest \cup New
  <2>1. ASSUME NEW u \in Units(g) PROVE u \in Rest \cup New
    <3>1. PICK y \in Zones : \E i \in 1..g[y] : u = <<y, i>>  BY UnitsMember
    <3>2. CASE y = z  BY <3>1, <3>2
    <3>3. CASE y # z
      <4>1. g[y] = f[y]  BY <3>3
      <4>2. u \in Units(f)  BY <3>1, <4>1, UnitsMember
      <4>3. u \notin Old  BY <3>1, <3>3
      <4> QED  BY <4>2, <4>3
    <3> QED  BY <3>2, <3>3
  <2>2. ASSUME NEW u \in Rest PROVE u \in Units(g)
    <3>1. PICK y \in Zones : \E i \in 1..f[y] : u = <<y, i>>  BY UnitsMember
    <3>2. y # z  BY <3>1
    <3>3. g[y] = f[y]  BY <3>2
    <3> QED  BY <3>1, <3>3, UnitsMember
  <2>3. ASSUME NEW u \in New PROVE u \in Units(g)
    <3>1. g[z] = n  OBVIOUS
    <3>2. PICK i \in 1..g[z] : u = <<z, i>>  BY <3>1
    <3> QED  BY <3>2, UnitsMember
  <2> QED  BY <2>1, <2>2, <2>3
<1>6. Rest \cap Old = {} /\ Rest \cap New = {}
  <2>1. ASSUME NEW u \in Rest, u \in New PROVE FALSE
    <3>1. PICK i \in 1..n : u = <<z, i>>  BY <2>1
    <3>2. PICK y \in Zones : \E j \in 1..f[y] : u = <<y, j>>  BY UnitsMember
    <3>3. y = z  BY <3>1, <3>2
    <3> QED  BY <3>2, <3>3
  <2> QED  BY <2>1
<1> HIDE DEF g, Old, New, Rest
<1>7. Cardinality(Rest) \in Nat
  BY <1>2, FS_CardinalityType
<1>8. Cardinality(Units(f)) = Cardinality(Rest) + f[z]
  BY <1>2, <1>3, <1>4, <1>6, DisjointUnion
<1>9. Cardinality(Units(g)) = Cardinality(Rest) + n
  BY <1>2, <1>3, <1>5, <1>6, DisjointUnion
<1> QED  BY <1>7, <1>8, <1>9 DEF g

----------------------------------------------------------------------------
(* The totals agree with the zones when there is one consumer, and as long  *)
(* as no two consumers hold rows of one product.  TotalsAgree is not        *)
(* inductive: a batch installs what the call has cached, so the invariant   *)
(* also says that every call's view agrees (ViewsAgree).                    *)

\* The call has cached no row and no total of the product.
HoldsNoRow(t, p) == t.totals[p] = None /\ \A z \in Zones : t.zone_states[p][z] = None

CallsApart ==
  \A c, d \in Consumers : c # d =>
    \A p \in Products : HoldsNoRow(task[c], p) \/ HoldsNoRow(task[d], p)

LEMMA OneCallApart == SingleConsumer => CallsApart
BY DEF SingleConsumer, CallsApart

AgreeInv == TypeInv /\ TotalsAgree /\ ViewsAgree

\* A total agrees with rows that give the available and reserved quantity of
\* each zone.
Agrees(total, rows) ==
  /\ total.available = Cardinality(Units([z \in Zones |-> rows[z].available]))
  /\ total.reserved = Cardinality(Units([z \in Zones |-> rows[z].reserved]))

ViewOf(c, p) == [z \in Zones |-> ZoneView(c, p, z)]

LEMMA AgreesExcept ==
  ASSUME NEW total \in Row, NEW rows \in [Zones -> Row], Agrees(total, rows),
         NEW z \in Zones, NEW a \in Int, NEW r \in Int,
         Add(rows[z], a, r) \in Row
  PROVE  Agrees(Add(total, a, r), [rows EXCEPT ![z] = Add(rows[z], a, r)])
<1> DEFINE new == Add(rows[z], a, r)
           f == [y \in Zones |-> rows[y].available]
           g == [y \in Zones |-> rows[y].reserved]
           next == [rows EXCEPT ![z] = new]
<1>1. f \in [Zones -> Nat] /\ g \in [Zones -> Nat]  BY DEF Row
<1>2. new.available \in Nat /\ new.reserved \in Nat  BY DEF Row
<1>3. /\ [y \in Zones |-> next[y].available] = [f EXCEPT ![z] = new.available]
      /\ [y \in Zones |-> next[y].reserved] = [g EXCEPT ![z] = new.reserved]
  OBVIOUS
<1>4. /\ Cardinality(Units([f EXCEPT ![z] = new.available])) =
           Cardinality(Units(f)) - f[z] + new.available
      /\ Cardinality(Units([g EXCEPT ![z] = new.reserved])) =
           Cardinality(Units(g)) - g[z] + new.reserved
  BY <1>1, <1>2, UnitsExcept
<1>5. /\ total.available = Cardinality(Units(f))
      /\ total.reserved = Cardinality(Units(g))
  BY DEF Agrees
<1>6. /\ new.available = f[z] + a /\ new.reserved = g[z] + r
      /\ Add(total, a, r).available = total.available + a
      /\ Add(total, a, r).reserved = total.reserved + r
  BY DEF Add
<1>7. /\ total.available \in Nat /\ total.reserved \in Nat
      /\ f[z] \in Nat /\ g[z] \in Nat
  BY <1>1 DEF Row
<1> HIDE DEF f, g, new
<1>8. /\ Add(total, a, r).available = Cardinality(Units([f EXCEPT ![z] = new.available]))
      /\ Add(total, a, r).reserved = Cardinality(Units([g EXCEPT ![z] = new.reserved]))
  BY <1>4, <1>5, <1>6, <1>7
<1>9. Agrees(Add(total, a, r), next)
  BY <1>3, <1>8 DEF Agrees
<1> QED  BY <1>9 DEF new

LEMMA ViewsAgreeAsRows ==
  ViewsAgree <=> \A c \in Consumers, p \in Products : Agrees(TotalView(c, p), ViewOf(c, p))
BY DEF ViewsAgree, Agrees, ViewOf

LEMMA TotalsAgreeAsRows ==
  TotalsAgree <=> \A p \in Products : Agrees(inventory_by_product[p], inventory_by_product_zone[p])
BY DEF TotalsAgree, Agrees, AvailableIn, ReservedIn

\* A row a call has not cached is the stored one.
EmptyCall(t) ==
  \A p \in Products : t.totals[p] = None /\ \A z \in Zones : t.zone_states[p][z] = None

LEMMA EmptyView ==
  ASSUME TypeOK, NEW c \in Consumers, EmptyCall(task[c]), NEW p \in Products
  PROVE  TotalView(c, p) = inventory_by_product[p] /\ ViewOf(c, p) = inventory_by_product_zone[p]
<1>1. TotalView(c, p) = inventory_by_product[p]
  BY DEF EmptyCall, TotalView, Overlay
<1>2. \A z \in Zones : ZoneView(c, p, z) = inventory_by_product_zone[p][z]
  BY DEF EmptyCall, ZoneView, Overlay
<1>3. inventory_by_product_zone[p] \in [Zones -> Row]
  BY DEF TypeOK
<1> QED  BY <1>1, <1>2, <1>3 DEF ViewOf

LEMMA ViewType ==
  ASSUME TypeOK, NEW c \in Consumers, NEW p \in Products
  PROVE  TotalView(c, p) \in Row /\ ViewOf(c, p) \in [Zones -> Row]
<1>1. /\ task[c].zone_states \in [Products -> [Zones -> Optional(Row)]]
      /\ task[c].totals \in [Products -> Optional(Row)]
  BY DEF TypeOK, Task
<1>2. TotalView(c, p) \in Row
  BY <1>1 DEF TypeOK, TotalView, Overlay, Optional
<1>3. \A z \in Zones : ZoneView(c, p, z) \in Row
  BY <1>1 DEF TypeOK, ZoneView, Overlay, Optional
<1> QED  BY <1>2, <1>3 DEF ViewOf

LEMMA AgreeInit == Init => AgreeInv
<1> SUFFICES ASSUME Init PROVE AgreeInv  OBVIOUS
<1>1. TypeInv  BY TypeInit
<1>2. TotalsAgree
  <2> DEFINE f == [z \in Zones |-> 0]
  <2>1. \A u : u \notin Units(f)
    <3> SUFFICES ASSUME NEW u, u \in Units(f) PROVE FALSE  OBVIOUS
    <3>1. PICK z \in Zones : \E i \in 1..f[z] : u = <<z, i>>  BY UnitsMember
    <3> QED  BY <3>1
  <2>2. Units(f) = {}  BY <2>1
  <2>3. Cardinality(Units(f)) = 0  BY <2>2, FS_EmptySet
  <2>4. \A p \in Products : AvailableIn(p) = f /\ ReservedIn(p) = f
    BY DEF Init, AvailableIn, ReservedIn, ZeroRow
  <2>5. \A p \in Products : inventory_by_product[p].available = 0
                            /\ inventory_by_product[p].reserved = 0
    BY DEF Init, ZeroRow
  <2> HIDE DEF f
  <2> QED  BY <2>3, <2>4, <2>5 DEF TotalsAgree
<1>3. ViewsAgree
  <2>1. \A c \in Consumers : EmptyCall(task[c])
    BY DEF Init, IdleTask, EmptyCall
  <2>2. \A c \in Consumers, p \in Products :
          /\ TotalView(c, p) = inventory_by_product[p]
          /\ ViewOf(c, p) = inventory_by_product_zone[p]
    BY <1>1, <2>1, EmptyView DEF TypeInv
  <2> QED  BY <1>2, <2>2, ViewsAgreeAsRows, TotalsAgreeAsRows
<1> QED  BY <1>1, <1>2, <1>3 DEF AgreeInv

\* A step of one call that writes no table, and either leaves the part of the
\* code that caches rows or leaves the caches as they are.
LEMMA AgreeQuiet ==
  ASSUME AgreeInv, TypeInv', UNCHANGED tables, NEW c \in Consumers,
         \A d \in Consumers \ {c} : task'[d] = task[d],
         \/ task'[c].pc # "batch"
         \/ task'[c].zone_states = task[c].zone_states /\ task'[c].totals = task[c].totals
  PROVE  AgreeInv'
<1>1. TotalsAgree'
  BY DEF AgreeInv, TotalsAgree, AvailableIn, ReservedIn, tables
<1>2. ASSUME NEW d \in Consumers, NEW p \in Products
      PROVE  Agrees(TotalView(d, p), ViewOf(d, p))'
  <2>1. CASE task'[d].zone_states = task[d].zone_states /\ task'[d].totals = task[d].totals
    <3>1. TotalView(d, p)' = TotalView(d, p) /\ ViewOf(d, p)' = ViewOf(d, p)
      BY <2>1 DEF TotalView, ViewOf, ZoneView, tables
    <3>2. Agrees(TotalView(d, p), ViewOf(d, p))
      BY ViewsAgreeAsRows DEF AgreeInv
    <3> QED  BY <3>1, <3>2 DEF Agrees
  <2>2. CASE task'[d].pc # "batch"
    <3>1. EmptyCall(task[d])'
      BY <2>2 DEF TypeInv, CallOK, CallConsistent, EmptyCall
    <3>2. (TotalView(d, p) = inventory_by_product[p] /\ ViewOf(d, p) = inventory_by_product_zone[p])'
      <4>1. inventory_by_product_zone'[p] \in [Zones -> Row]
        BY DEF TypeInv, TypeOK
      <4> QED  BY <3>1, <4>1 DEF EmptyCall, TotalView, ViewOf, ZoneView, Overlay
    <3>3. Agrees(inventory_by_product[p], inventory_by_product_zone[p])'
      BY <1>1 DEF TotalsAgree, Agrees, AvailableIn, ReservedIn
    <3> QED  BY <3>2, <3>3 DEF Agrees
  <2> QED  BY <2>1, <2>2
<1>3. ViewsAgree'
  BY <1>2 DEF ViewsAgree, Agrees, ViewOf
<1> QED  BY <1>1, <1>3 DEF AgreeInv

\* Reading a row or a total changes no view.
LEMMA ReadKeepsViews ==
  ASSUME TypeInv, NEW c \in Consumers, GetZoneState(c) \/ GetTotal(c),
         NEW d \in Consumers, NEW p \in Products
  PROVE  /\ TotalView(d, p)' = TotalView(d, p)
         /\ \A z \in Zones : ZoneView(d, p, z)' = ZoneView(d, p, z)
<1> DEFINE ch == Head(task[c].todo)
<1>1. UNCHANGED tables
  BY DEF GetZoneState, GetTotal
<1>2. ch.product_id \in Products /\ ch.zone_id \in Zones
  BY ChangingType DEF GetZoneState, GetTotal, Change
<1>3. task \in [Consumers -> Task] /\ task[c] \in Task  BY DEF TypeInv, TypeOK
<1>4. CASE d # c
  <2>1. task'[d] = task[d]  BY <1>3, <1>4 DEF GetZoneState, GetTotal
  <2> QED  BY <2>1, <1>1 DEF TotalView, ZoneView, tables
<1>5. CASE d = c /\ GetZoneState(c)
  <2> DEFINE row == inventory_by_product_zone[ch.product_id][ch.zone_id]
             zs == [task[c].zone_states EXCEPT ![ch.product_id][ch.zone_id] = row]
  <2>1. task[c].zone_states \in [Products -> [Zones -> Optional(Row)]]
    BY <1>3 DEF Task
  <2>2. task'[c].zone_states = zs /\ task'[c].totals = task[c].totals
    BY <1>3, <1>5, <2>1 DEF GetZoneState, Task
  <2>3. task[c].zone_states[ch.product_id][ch.zone_id] = None
    BY <1>5 DEF GetZoneState
  <2>4. \A z \in Zones : zs[p][z] = IF p = ch.product_id /\ z = ch.zone_id
                                   THEN row ELSE task[c].zone_states[p][z]
    BY <1>2, <2>1
  <2> HIDE DEF zs
  <2>5. \A z \in Zones : Overlay(zs[p][z], inventory_by_product_zone[p][z]) =
                         Overlay(task[c].zone_states[p][z], inventory_by_product_zone[p][z])
    BY <2>3, <2>4 DEF Overlay
  <2> QED  BY <1>5, <2>2, <2>5, <1>1 DEF TotalView, ZoneView, tables
<1>6. CASE d = c /\ GetTotal(c)
  <2> DEFINE total == inventory_by_product[ch.product_id]
             totals == [task[c].totals EXCEPT ![ch.product_id] = total]
  <2>1. task[c].totals \in [Products -> Optional(Row)]
    BY <1>3 DEF Task
  <2>2. task'[c].totals = totals /\ task'[c].zone_states = task[c].zone_states
    BY <1>3, <1>6, <2>1 DEF GetTotal, Task
  <2>3. task[c].totals[ch.product_id] = None
    BY <1>6 DEF GetTotal
  <2>4. totals[p] = IF p = ch.product_id THEN total ELSE task[c].totals[p]
    BY <1>2, <2>1
  <2> HIDE DEF totals
  <2>5. Overlay(totals[p], inventory_by_product[p]) =
        Overlay(task[c].totals[p], inventory_by_product[p])
    BY <2>3, <2>4 DEF Overlay
  <2> QED  BY <1>6, <2>2, <2>5, <1>1 DEF TotalView, ZoneView, tables
<1> QED  BY <1>4, <1>5, <1>6

LEMMA AgreeRead ==
  ASSUME AgreeInv, TypeInv', NEW c \in Consumers, GetZoneState(c) \/ GetTotal(c)
  PROVE  AgreeInv'
<1>1. UNCHANGED tables
  BY DEF GetZoneState, GetTotal
<1>2. TotalsAgree'
  BY <1>1 DEF AgreeInv, TotalsAgree, AvailableIn, ReservedIn, tables
<1>3. ASSUME NEW d \in Consumers, NEW p \in Products
      PROVE  Agrees(TotalView(d, p), ViewOf(d, p))'
  <2>1. /\ TotalView(d, p)' = TotalView(d, p)
        /\ \A z \in Zones : ZoneView(d, p, z)' = ZoneView(d, p, z)
    BY ReadKeepsViews DEF AgreeInv
  <2>2. ViewOf(d, p)' = ViewOf(d, p)
    BY <2>1 DEF ViewOf
  <2>3. Agrees(TotalView(d, p), ViewOf(d, p))
    BY ViewsAgreeAsRows DEF AgreeInv
  <2> QED  BY <2>1, <2>2, <2>3 DEF Agrees
<1>4. ViewsAgree'
  BY <1>3 DEF ViewsAgree, Agrees, ViewOf
<1> QED  BY <1>2, <1>4 DEF AgreeInv

\* A change adds the same amounts to the row and to the total it is about, as
\* the call sees them, and leaves the rest of the call alone.
ChangeMade(c) ==
  LET ch == Head(task[c].todo)
      row == ZoneView(c, ch.product_id, ch.zone_id)
      delta == AvailableDelta(ch, row)
  IN  /\ Add(row, delta, ch.reserved) \in Row
      /\ delta \in Int
      /\ \A p \in Products :
           TotalView(c, p)' = IF p = ch.product_id
                              THEN Add(TotalView(c, p), delta, ch.reserved)
                              ELSE TotalView(c, p)
      /\ \A p \in Products, z \in Zones :
           ZoneView(c, p, z)' = IF p = ch.product_id /\ z = ch.zone_id
                                THEN Add(row, delta, ch.reserved)
                                ELSE ZoneView(c, p, z)
      /\ task'[c].todo = Tail(task[c].todo)
      /\ task'[c].pc = "batch" /\ task'[c].event = task[c].event
      /\ task'[c].status = task[c].status /\ task'[c].order_update = task[c].order_update
      /\ \A d \in Consumers \ {c} : task'[d] = task[d]

LEMMA ApplyMovesViews ==
  ASSUME TypeInv, NEW c \in Consumers, ApplyChange(c)
  PROVE  (\E r \in Raised : Finish(c, r)) \/ ChangeMade(c)
<1> DEFINE ch == Head(task[c].todo)
           row == task[c].zone_states[ch.product_id][ch.zone_id]
           total == task[c].totals[ch.product_id]
           delta == AvailableDelta(ch, row)
           new_row == Add(row, delta, ch.reserved)
           new_total == Add(total, delta, ch.reserved)
           zs == [task[c].zone_states EXCEPT ![ch.product_id][ch.zone_id] = new_row]
           totals == [task[c].totals EXCEPT ![ch.product_id] = new_total]
           todo == Tail(task[c].todo)
<1>1. /\ ch.product_id \in Products /\ ch.zone_id \in Zones /\ ch.reserved \in Int
      /\ row \in Row /\ total \in Row /\ delta \in Int
  BY ApplyChangeFacts
<1>2. UNCHANGED tables  BY DEF ApplyChange
<1>3. task \in [Consumers -> Task] /\ task[c] \in Task /\ task[c].pc = "batch"
  BY DEF TypeInv, TypeOK, ApplyChange, Changing
<1>4. /\ task[c].zone_states \in [Products -> [Zones -> Optional(Row)]]
      /\ task[c].totals \in [Products -> Optional(Row)]
  BY <1>3 DEF Task
<1>5. CASE BrokenRule(new_row, new_total) # None
  <2>1. Finish(c, BrokenRule(new_row, new_total))  BY <1>5 DEF ApplyChange
  <2>2. BrokenRule(new_row, new_total) \in Raised  BY <1>5 DEF BrokenRule, Raised
  <2> QED  BY <2>1, <2>2
<1>6. CASE BrokenRule(new_row, new_total) = None
  <2>1. new_row \in Row /\ new_total \in Row
    BY <1>1, <1>6, UnbrokenRule
  <2>2. new_row # None /\ new_total # None /\ row # None /\ total # None
    BY <1>1, <2>1, ValueAssumption
  <2>3. task' = [task EXCEPT
           ![c].zone_states[ch.product_id][ch.zone_id] = new_row,
           ![c].totals[ch.product_id] = new_total,
           ![c].todo = Tail(@)]
    BY <1>6 DEF ApplyChange
  <2> HIDE DEF new_row, new_total
  <2>4. /\ task'[c] = [task[c] EXCEPT !.zone_states = zs, !.totals = totals, !.todo = todo]
        /\ \A d \in Consumers \ {c} : task'[d] = task[d]
    BY <1>3, <2>3 DEF Task
  <2>5. /\ \A p \in Products : totals[p] = IF p = ch.product_id THEN new_total
                                           ELSE task[c].totals[p]
        /\ \A p \in Products, z \in Zones :
             zs[p][z] = IF p = ch.product_id /\ z = ch.zone_id THEN new_row
                        ELSE task[c].zone_states[p][z]
    BY <1>1, <1>4
  <2> HIDE DEF zs, totals, todo
  <2>6. /\ task'[c].zone_states = zs /\ task'[c].totals = totals /\ task'[c].todo = todo
        /\ task'[c].pc = "batch" /\ task'[c].event = task[c].event
        /\ task'[c].status = task[c].status /\ task'[c].order_update = task[c].order_update
    BY <1>3, <2>4 DEF Task
  <2>7. ZoneView(c, ch.product_id, ch.zone_id) = row /\ TotalView(c, ch.product_id) = total
    BY <2>2 DEF ZoneView, TotalView, Overlay
  <2>8. \A p \in Products : TotalView(c, p)' = IF p = ch.product_id THEN new_total
                                               ELSE TotalView(c, p)
    BY <1>2, <2>2, <2>5, <2>6 DEF TotalView, Overlay, tables
  <2>9. \A p \in Products, z \in Zones :
          ZoneView(c, p, z)' = IF p = ch.product_id /\ z = ch.zone_id THEN new_row
                               ELSE ZoneView(c, p, z)
    BY <1>2, <2>2, <2>5, <2>6 DEF ZoneView, Overlay, tables
  <2> HIDE DEF row, total
  <2> QED  BY <1>1, <2>1, <2>4, <2>6, <2>7, <2>8, <2>9 DEF ChangeMade, new_row, new_total, todo
<1> QED  BY <1>5, <1>6

LEMMA AgreeApplyChange ==
  ASSUME AgreeInv, TypeInv', NEW c \in Consumers, ApplyChange(c)
  PROVE  AgreeInv'
<1>1. UNCHANGED tables  BY DEF ApplyChange
<1>2. CASE \E r \in Raised : Finish(c, r)
  <2>1. task'[c].pc = "done" /\ \A d \in Consumers \ {c} : task'[d] = task[d]
    BY <1>2 DEF AgreeInv, TypeInv, TypeOK, Finish, IdleTask
  <2> QED  BY <1>1, <2>1, AgreeQuiet
<1>3. CASE ChangeMade(c)
  <2> DEFINE ch == Head(task[c].todo)
             row == ZoneView(c, ch.product_id, ch.zone_id)
             delta == AvailableDelta(ch, row)
  <2>1. /\ ch.product_id \in Products /\ ch.zone_id \in Zones /\ ch.reserved \in Int
        /\ delta \in Int /\ Add(row, delta, ch.reserved) \in Row
    BY <1>3, ApplyChangeFacts DEF AgreeInv, ChangeMade
  <2>2. TotalsAgree'
    BY <1>1 DEF AgreeInv, TotalsAgree, AvailableIn, ReservedIn, tables
  <2>3. ASSUME NEW d \in Consumers, NEW p \in Products, d # c \/ p # ch.product_id
        PROVE  Agrees(TotalView(d, p), ViewOf(d, p))'
    <3>1. CASE d # c
      <4>1. task'[d] = task[d]  BY <1>3, <3>1 DEF ChangeMade
      <4>2. TotalView(d, p)' = TotalView(d, p) /\ ViewOf(d, p)' = ViewOf(d, p)
        BY <1>1, <4>1 DEF TotalView, ViewOf, ZoneView, tables
      <4>3. Agrees(TotalView(d, p), ViewOf(d, p))
        BY ViewsAgreeAsRows DEF AgreeInv
      <4> QED  BY <4>2, <4>3 DEF Agrees
    <3>2. CASE d = c /\ p # ch.product_id
      <4>1. /\ TotalView(d, p)' = TotalView(d, p)
            /\ \A z \in Zones : ZoneView(d, p, z)' = ZoneView(d, p, z)
        BY <1>3, <3>2 DEF ChangeMade
      <4>2. ViewOf(d, p)' = ViewOf(d, p)  BY <4>1 DEF ViewOf
      <4>3. Agrees(TotalView(d, p), ViewOf(d, p))
        BY ViewsAgreeAsRows DEF AgreeInv
      <4> QED  BY <4>1, <4>2, <4>3 DEF Agrees
    <3> QED  BY <2>3, <3>1, <3>2
  <2>4. ASSUME NEW p \in Products, p = ch.product_id
        PROVE  Agrees(TotalView(c, p), ViewOf(c, p))'
    <3> DEFINE total == TotalView(c, p)
               rows == ViewOf(c, p)
               new_row == Add(row, delta, ch.reserved)
               new_total == Add(total, delta, ch.reserved)
               rows2 == [rows EXCEPT ![ch.zone_id] = new_row]
    <3>1. total \in Row /\ rows \in [Zones -> Row] /\ Agrees(total, rows)
      BY ViewType, ViewsAgreeAsRows DEF AgreeInv, TypeInv
    <3>2. rows[ch.zone_id] = row  BY <2>1, <2>4 DEF ViewOf
    <3>3. Agrees(new_total, rows2)
      <4> HIDE DEF total, rows, delta, row
      <4> QED  BY <2>1, <3>1, <3>2, AgreesExcept
    <3>4. TotalView(c, p)' = new_total
      BY <1>3, <2>4 DEF ChangeMade
    <3>5. \A z \in Zones : ZoneView(c, p, z)' = IF z = ch.zone_id THEN new_row
                                                ELSE ZoneView(c, p, z)
      BY <1>3, <2>4 DEF ChangeMade
    <3>6. ViewOf(c, p)' = rows2
      <4> HIDE DEF new_row
      <4> QED  BY <3>5 DEF ViewOf
    <3> HIDE DEF rows2, new_total
    <3> QED  BY <3>3, <3>4, <3>6 DEF Agrees
  <2>5. ViewsAgree'
    BY <2>3, <2>4 DEF ViewsAgree, Agrees, ViewOf
  <2> QED  BY <2>2, <2>5 DEF AgreeInv
<1> QED  BY <1>2, <1>3, ApplyMovesViews DEF AgreeInv

\* The batch stores the view of its call, and no other call has cached any of
\* the rows it writes.
LEMMA AgreeBatch ==
  ASSUME CallsApart, AgreeInv, TypeInv', NEW c \in Consumers, ApplyBatch(c),
         NEW r, Finish(c, r)
  PROVE  AgreeInv'
<1>1. ASSUME NEW p \in Products
      PROVE  /\ inventory_by_product'[p] = TotalView(c, p)
             /\ inventory_by_product_zone'[p] = ViewOf(c, p)
  BY DEF ApplyBatch, TotalView, ViewOf, ZoneView
<1>2. \A p \in Products : Agrees(inventory_by_product'[p], inventory_by_product_zone'[p])
  BY <1>1, ViewsAgreeAsRows DEF AgreeInv
<1>3. TotalsAgree'
  BY <1>2 DEF TotalsAgree, Agrees, AvailableIn, ReservedIn
<1>4. task'[c].pc = "done" /\ \A d \in Consumers \ {c} : task'[d] = task[d]
  BY DEF AgreeInv, TypeInv, TypeOK, Finish, IdleTask
<1>5. \A p \in Products : HoldsNoRow(task'[c], p)
  BY <1>4 DEF TypeInv, CallOK, CallConsistent, HoldsNoRow
<1>6. ASSUME NEW d \in Consumers, NEW p \in Products, HoldsNoRow(task'[d], p)
      PROVE  Agrees(TotalView(d, p), ViewOf(d, p))'
  <2>1. inventory_by_product_zone'[p] \in [Zones -> Row]
    BY DEF TypeInv, TypeOK
  <2>2. (TotalView(d, p) = inventory_by_product[p] /\ ViewOf(d, p) = inventory_by_product_zone[p])'
    BY <1>6, <2>1 DEF HoldsNoRow, TotalView, ViewOf, ZoneView, Overlay
  <2> QED  BY <1>2, <2>2 DEF Agrees
<1>7. ASSUME NEW d \in Consumers \ {c}, NEW p \in Products, HoldsNoRow(task[c], p)
      PROVE  Agrees(TotalView(d, p), ViewOf(d, p))'
  <2>1. \A z \in Zones : inventory_by_product_zone'[p][z] = inventory_by_product_zone[p][z]
    BY <1>7 DEF HoldsNoRow, ApplyBatch, Overlay
  <2>2. inventory_by_product'[p] = inventory_by_product[p]
    BY <1>7 DEF HoldsNoRow, ApplyBatch, Overlay
  <2>3. TotalView(d, p)' = TotalView(d, p) /\ ViewOf(d, p)' = ViewOf(d, p)
    BY <1>4, <2>1, <2>2 DEF TotalView, ViewOf, ZoneView
  <2>4. Agrees(TotalView(d, p), ViewOf(d, p))
    BY ViewsAgreeAsRows DEF AgreeInv
  <2> QED  BY <2>3, <2>4 DEF Agrees
<1>8. ASSUME NEW d \in Consumers, NEW p \in Products
      PROVE  Agrees(TotalView(d, p), ViewOf(d, p))'
  <2>1. CASE d = c  BY <1>5, <1>6, <2>1
  <2>2. CASE d # c  BY <1>4, <1>6, <1>7, <2>2 DEF CallsApart
  <2> QED  BY <2>1, <2>2
<1>9. ViewsAgree'
  BY <1>8 DEF ViewsAgree, Agrees, ViewOf
<1> QED  BY <1>3, <1>9 DEF AgreeInv

LEMMA FinishDone ==
  ASSUME TypeOK, NEW c \in Consumers, NEW r, Finish(c, r)
  PROVE  task'[c].pc = "done" /\ \A d \in Consumers \ {c} : task'[d] = task[d]
BY DEF TypeOK, Finish, IdleTask

LEMMA AgreeStep ==
  ASSUME CallsApart, AgreeInv, [Next]_vars
  PROVE  AgreeInv'
<1>1. TypeInv'
  BY TypeStep DEF AgreeInv
<1>2. task \in [Consumers -> Task]
  BY DEF AgreeInv, TypeInv, TypeOK
<1>3. CASE UNCHANGED vars
  BY <1>1, <1>3 DEF AgreeInv, vars, TotalsAgree, AvailableIn, ReservedIn, ViewsAgree,
     TotalView, ZoneView
<1>4. CASE Next
  <2>1. PICK c \in Consumers :
          \/ \E e \in Events : ReceiveEvent(c, e)
          \/ Process(c)
          \/ DatabaseFailure(c)
          \/ Return(c)
          \/ Crash(c)
    BY <1>4 DEF Next
  <2>2. CASE \/ \E e \in Events : ReceiveEvent(c, e)
             \/ IsProcessed(c)
             \/ Return(c)
             \/ Crash(c)
    <3>1. UNCHANGED tables
      BY <2>2 DEF ReceiveEvent, IsProcessed, Return, Crash
    <3>2. \E t : task' = [task EXCEPT ![c] = t]
      BY <2>2 DEF ReceiveEvent, IsProcessed, Return, Crash, Finish
    <3>3. task'[c].pc # "batch"
      <4>1. CASE \E e \in Events : ReceiveEvent(c, e)
        BY <4>1, <1>2 DEF ReceiveEvent, IdleTask
      <4>2. CASE IsProcessed(c)
        <5>1. CASE \E r : Finish(c, r)
          BY <5>1, FinishDone DEF AgreeInv, TypeInv
        <5>2. CASE task' = [task EXCEPT ![c].pc = "get_last_sequence"]
          BY <5>2, <1>2 DEF Task
        <5> QED  BY <4>2, <5>1, <5>2 DEF IsProcessed
      <4>3. CASE Return(c) \/ Crash(c)
        BY <4>3, <1>2 DEF Return, Crash, IdleTask
      <4> QED  BY <2>2, <4>1, <4>2, <4>3
    <3> QED  BY <3>1, <3>2, <3>3, <1>1, <1>2, AgreeQuiet
  <2>3. CASE CheckSequence(c) \/ HandleOrderCreated(c) \/ HandleOrderCompleted(c)
    <3>1. UNCHANGED tables /\ \A d \in Consumers \ {c} : task'[d] = task[d]
      BY <2>3, <1>2 DEF CheckSequence, HandleOrderCreated, HandleOrderCompleted, Finish
    <3>2. CASE \E r : Finish(c, r)
      BY <3>1, <3>2, <1>1, FinishDone, AgreeQuiet DEF AgreeInv, TypeInv
    <3>3. ASSUME ~\E r : Finish(c, r)
          PROVE  task'[c].zone_states = task[c].zone_states /\ task'[c].totals = task[c].totals
      <4>1. CASE CheckSequence(c)
        BY <4>1, <3>3, <1>2 DEF CheckSequence, Task
      <4>2. CASE HandleOrderCreated(c)
        BY <4>2, <3>3, <1>2 DEF HandleOrderCreated, Task
      <4>3. CASE HandleOrderCompleted(c)
        BY <4>3, <3>3, <1>2 DEF HandleOrderCompleted, Task
      <4> QED  BY <2>3, <4>1, <4>2, <4>3
    <3> QED  BY <3>1, <3>2, <3>3, <1>1, AgreeQuiet
  <2>4. CASE GetZoneState(c) \/ GetTotal(c)
    BY <2>4, <1>1, AgreeRead
  <2>5. CASE ApplyChange(c)
    BY <2>5, <1>1, AgreeApplyChange
  <2>6. CASE ExecuteBatch(c) \/ BatchTimesOut(c)
    BY <2>6, <1>1, AgreeBatch DEF ExecuteBatch, BatchTimesOut
  <2>7. CASE BatchRefused(c) \/ DatabaseCallFails(c)
    <3>1. UNCHANGED tables /\ task'[c].pc # "batch"
          /\ \A d \in Consumers \ {c} : task'[d] = task[d]
      BY <2>7, <1>2 DEF BatchRefused, DatabaseCallFails, Finish, IdleTask
    <3> QED  BY <3>1, <1>1, AgreeQuiet
  <2> QED  BY <2>1, <2>2, <2>3, <2>4, <2>5, <2>6, <2>7 DEF Process, DatabaseFailure
<1> QED  BY <1>3, <1>4

\* With one consumer the totals of a product always count the units its zones
\* hold and inventory_by_zone mirrors inventory_by_product_zone: for every
\* event, every order of delivery, and every failure of the database or of
\* the process.
THEOREM TablesAlwaysAgree ==
  ASSUME SingleConsumer
  PROVE  Spec => []TablesAgree
<1>1. AgreeInv /\ [Next]_vars => AgreeInv'  BY AgreeStep, OneCallApart
<1>2. AgreeInv /\ ZonesAgree => TablesAgree  BY DEF AgreeInv, TablesAgree
<1> QED  BY <1>1, <1>2, AgreeInit, ZonesAgreeInit, ZonesAgreeStep, PTL DEF Spec

\* The same of the rows as every call sees them, between any two of its steps.
THEOREM ViewsAlwaysAgree ==
  ASSUME SingleConsumer
  PROVE  Spec => []ViewsAgree
<1>1. AgreeInv /\ [Next]_vars => AgreeInv'  BY AgreeStep, OneCallApart
<1>2. AgreeInv => ViewsAgree  BY DEF AgreeInv
<1> QED  BY <1>1, <1>2, AgreeInit, PTL DEF Spec

----------------------------------------------------------------------------
(* A total never runs short before its zone does.                          *)

\* A zone holds some of the units the total counts.
LEMMA ZoneWithinTotal ==
  ASSUME NEW total \in Row, NEW rows \in [Zones -> Row], Agrees(total, rows), NEW z \in Zones
  PROVE  rows[z].available <= total.available /\ rows[z].reserved <= total.reserved
<1> DEFINE f == [x \in Zones |-> rows[x].available]
           g == [x \in Zones |-> rows[x].reserved]
<1>1. ASSUME NEW h \in [Zones -> Nat] PROVE h[z] <= Cardinality(Units(h))
  <2> DEFINE Column == {z} \X (1..h[z])
  <2>1. Column \subseteq Units(h)  BY DEF Units
  <2>2. IsFiniteSet(Column) /\ Cardinality(Column) = h[z]  BY ColumnCardinality
  <2> HIDE DEF Column
  <2> QED  BY <2>1, <2>2, UnitsFinite, FS_Subset
<1>2. f \in [Zones -> Nat] /\ g \in [Zones -> Nat]  BY DEF Row
<1>3. total.available = Cardinality(Units(f)) /\ total.reserved = Cardinality(Units(g))
  BY DEF Agrees
<1>4. f[z] = rows[z].available /\ g[z] = rows[z].reserved  OBVIOUS
<1> HIDE DEF f, g
<1>5. f[z] <= Cardinality(Units(f)) /\ g[z] <= Cardinality(Units(g))
  BY <1>1, <1>2
<1> QED  BY <1>3, <1>4, <1>5

ShortTotals == {"INSUFFICIENT_TOTAL_AVAILABLE", "INSUFFICIENT_TOTAL_RESERVED"}

\* A change that the row of its zone allows is allowed by the total.
LEMMA NeverShortRule ==
  ASSUME NEW row \in Row, NEW total \in Row, NEW a \in Int, NEW r \in Int,
         row.available <= total.available, row.reserved <= total.reserved
  PROVE  BrokenRule(Add(row, a, r), Add(total, a, r)) \notin ShortTotals
<1>1. None \notin ShortTotals  BY ValueAssumption DEF ShortTotals, Raised
<1> QED  BY <1>1 DEF BrokenRule, Add, Row, ShortTotals

\* The statuses of every end of a call but the refusal of a change.
OtherStatus ==
  Recorded \cup {"DUPLICATE", "VALIDATION_ERROR", "ORDER_ALREADY_EXISTS", "ORDER_NOT_FOUND",
                "ORDER_ALREADY_COMPLETED", "PROCESSING_ERROR", None}

\* The rule that the next change of the call breaks, or None.
NextBroken(c) ==
  LET ch == Head(task[c].todo)
      row == task[c].zone_states[ch.product_id][ch.zone_id]
      delta == AvailableDelta(ch, row)
  IN  BrokenRule(Add(row, delta, ch.reserved),
                 Add(task[c].totals[ch.product_id], delta, ch.reserved))

\* Only a refused change raises one of the INSUFFICIENT errors.
LEMMA StatusMoves ==
  ASSUME TypeOK, NEW c \in Consumers,
         \/ \E e \in Events : ReceiveEvent(c, e)
         \/ Process(c)
         \/ DatabaseFailure(c)
         \/ Return(c)
         \/ Crash(c)
  PROVE  \/ task'[c].status \in OtherStatus
         \/ task'[c].status = task[c].status /\ task[c].pc # "done"
         \/ /\ ApplyChange(c) /\ NextBroken(c) # None
            /\ Finish(c, NextBroken(c)) /\ UNCHANGED tables
<1>0. task \in [Consumers -> Task] /\ task[c] \in Task  BY DEF TypeOK
<1>1. ASSUME NEW r, Finish(c, r)
      PROVE  task'[c].status = r
  BY <1>0, <1>1 DEF Finish, IdleTask
<1>2. CASE (\E e \in Events : ReceiveEvent(c, e)) \/ Return(c) \/ Crash(c)
  <2>1. CASE \E e \in Events : ReceiveEvent(c, e)
    BY <1>0, <2>1 DEF ReceiveEvent, IdleTask, OtherStatus
  <2>2. CASE Return(c) \/ Crash(c)
    BY <1>0, <2>2 DEF Return, Crash, IdleTask, OtherStatus
  <2> QED  BY <1>2, <2>1, <2>2
<1>3. CASE DatabaseFailure(c) \/ BatchRefused(c)
  <2>1. Finish(c, "PROCESSING_ERROR")
    BY <1>3 DEF DatabaseFailure, DatabaseCallFails, BatchTimesOut, BatchRefused
  <2> QED  BY <1>1, <2>1 DEF OtherStatus
<1>4. CASE ExecuteBatch(c)
  <2>1. Finish(c, task[c].status) /\ task[c].pc = "batch"
    BY <1>4 DEF ExecuteBatch, BatchReady
  <2> QED  BY <1>1, <2>1
<1>5. CASE IsProcessed(c)
  <2>1. CASE Finish(c, "DUPLICATE")  BY <1>1, <2>1 DEF OtherStatus
  <2>2. CASE task' = [task EXCEPT ![c].pc = "get_last_sequence"]
    BY <1>0, <1>5, <2>2 DEF Task, IsProcessed
  <2> QED  BY <1>5, <2>1, <2>2 DEF IsProcessed
<1>6. CASE CheckSequence(c)
  <2>1. Finish(c, "VALIDATION_ERROR") => task'[c].status \in OtherStatus
    BY <1>1 DEF OtherStatus
  <2>2. ASSUME task' = [task EXCEPT ![c].pc = "batch", ![c].status = "IGNORED_OUT_OF_ORDER"]
        PROVE  task'[c].status \in OtherStatus
    BY <1>0, <2>2 DEF Task, OtherStatus, Recorded
  <2>3. ASSUME NEW pc, NEW todo,
               task' = [task EXCEPT ![c].pc = pc, ![c].todo = todo, ![c].status = "PROCESSED"]
        PROVE  task'[c].status \in OtherStatus
    BY <1>0, <2>3 DEF Task, OtherStatus, Recorded
  <2>4. task'[c].status \in OtherStatus  BY <1>6, <2>1, <2>2, <2>3 DEF CheckSequence
  <2> QED  BY <2>4
<1>7. CASE HandleOrderCreated(c) \/ HandleOrderCompleted(c)
  <2>1. ASSUME NEW r \in {"ORDER_ALREADY_EXISTS", "ORDER_NOT_FOUND", "ORDER_ALREADY_COMPLETED"},
               Finish(c, r)
        PROVE  task'[c].status \in OtherStatus
    BY <1>1, <2>1 DEF OtherStatus
  <2>2. task[c].pc = "get_order"
    BY <1>7 DEF HandleOrderCreated, HandleOrderCompleted
  <2> DEFINE order == orders_by_id[task[c].event.order_id]
             created == ReserveItems(task[c].event.items)
             completed == ShipItems(order.items)
             record == [status |-> "CREATED", items |-> task[c].event.items]
             shipped == [status |-> "COMPLETED", items |-> order.items]
  <2>3. \/ \E r \in {"ORDER_ALREADY_EXISTS", "ORDER_NOT_FOUND", "ORDER_ALREADY_COMPLETED"} :
             Finish(c, r)
        \/ task' = [task EXCEPT ![c].pc = "batch", ![c].todo = created, ![c].order_update = record]
        \/ task' = [task EXCEPT ![c].pc = "batch", ![c].todo = completed, ![c].order_update = shipped]
    BY <1>7 DEF HandleOrderCreated, HandleOrderCompleted
  <2> HIDE DEF created, completed, record, shipped
  <2>4. CASE task' = [task EXCEPT ![c].pc = "batch", ![c].todo = created, ![c].order_update = record]
    BY <1>0, <2>2, <2>4 DEF Task
  <2>5. CASE task' = [task EXCEPT ![c].pc = "batch", ![c].todo = completed, ![c].order_update = shipped]
    BY <1>0, <2>2, <2>5 DEF Task
  <2> QED  BY <2>1, <2>3, <2>4, <2>5
<1>8. CASE GetZoneState(c) \/ GetTotal(c)
  <2>1. \E states, totals :
          task'[c] = [task[c] EXCEPT !.zone_states = states]
          \/ task'[c] = [task[c] EXCEPT !.totals = totals]
    BY <1>0, <1>8 DEF GetZoneState, GetTotal
  <2>2. task'[c].status = task[c].status  BY <1>0, <2>1 DEF Task
  <2> QED  BY <1>8, <2>2 DEF GetZoneState, GetTotal, Changing
<1>9. CASE ApplyChange(c)
  <2>1. CASE NextBroken(c) # None
    <3>1. Finish(c, NextBroken(c)) /\ UNCHANGED tables
      BY <1>9, <2>1 DEF ApplyChange, NextBroken
    <3> QED  BY <1>9, <2>1, <3>1
  <2>2. CASE NextBroken(c) = None
    <3> DEFINE ch == Head(task[c].todo)
               row == task[c].zone_states[ch.product_id][ch.zone_id]
               total == task[c].totals[ch.product_id]
               new_row == Add(row, AvailableDelta(ch, row), ch.reserved)
               new_total == Add(total, AvailableDelta(ch, row), ch.reserved)
    <3>1. task' = [task EXCEPT ![c].zone_states[ch.product_id][ch.zone_id] = new_row,
                               ![c].totals[ch.product_id] = new_total,
                               ![c].todo = Tail(@)]
      BY <1>9, <2>2 DEF ApplyChange, NextBroken
    <3> HIDE DEF new_row, new_total
    <3>2. task'[c].status = task[c].status  BY <1>0, <3>1 DEF Task
    <3> QED  BY <1>9, <3>2 DEF ApplyChange, Changing
  <2> QED  BY <2>1, <2>2
<1> QED
  BY <1>2, <1>3, <1>4, <1>5, <1>6, <1>7, <1>8, <1>9 DEF Process

\* A change that breaks a rule breaks one of its zone.
LEMMA ZoneBreaksFirst ==
  ASSUME AgreeInv, NEW c \in Consumers, ApplyChange(c)
  PROVE  NextBroken(c) \notin ShortTotals
<1> DEFINE ch == Head(task[c].todo)
           row == task[c].zone_states[ch.product_id][ch.zone_id]
           total == task[c].totals[ch.product_id]
           delta == AvailableDelta(ch, row)
<1>1. /\ ch.product_id \in Products /\ ch.zone_id \in Zones /\ ch.reserved \in Int
      /\ row \in Row /\ total \in Row /\ delta \in Int
  BY ApplyChangeFacts DEF AgreeInv
<1>2. row.available <= total.available /\ row.reserved <= total.reserved
  <2>1. row # None /\ total # None  BY <1>1, ValueAssumption
  <2>2. /\ TotalView(c, ch.product_id) = total
        /\ ViewOf(c, ch.product_id)[ch.zone_id] = row
    BY <1>1, <2>1 DEF TotalView, ViewOf, ZoneView, Overlay
  <2>3. Agrees(TotalView(c, ch.product_id), ViewOf(c, ch.product_id))
    BY <1>1, ViewsAgreeAsRows DEF AgreeInv
  <2>4. TotalView(c, ch.product_id) \in Row /\ ViewOf(c, ch.product_id) \in [Zones -> Row]
    BY <1>1, ViewType DEF AgreeInv, TypeInv
  <2> HIDE DEF row, total, ch
  <2> QED  BY <1>1, <2>2, <2>3, <2>4, ZoneWithinTotal
<1> QED  BY <1>1, <1>2, NeverShortRule DEF NextBroken

LEMMA NeverShortStep ==
  ASSUME SingleConsumer, AgreeInv, TotalNeverShort, [Next]_vars
  PROVE  TotalNeverShort'
<1>1. CASE UNCHANGED vars
  BY <1>1 DEF vars, TotalNeverShort
<1>2. CASE Next
  <2>1. PICK c \in Consumers :
          \/ \E e \in Events : ReceiveEvent(c, e)
          \/ Process(c)
          \/ DatabaseFailure(c)
          \/ Return(c)
          \/ Crash(c)
    BY <1>2 DEF Next
  <2>2. SUFFICES task'[c].status \notin ShortTotals
    BY DEF TotalNeverShort, SingleConsumer, ShortTotals
  <2>3. TypeOK  BY DEF AgreeInv, TypeInv
  <2>4. CASE task'[c].status \in OtherStatus
    BY <2>4, ValueAssumption DEF OtherStatus, ShortTotals, Recorded, Raised
  <2>5. CASE task'[c].status = task[c].status
    BY <2>5 DEF TotalNeverShort, ShortTotals
  <2>6. CASE ApplyChange(c) /\ Finish(c, NextBroken(c))
    <3>1. task'[c].status = NextBroken(c)
      BY <2>3, <2>6 DEF TypeOK, Finish, IdleTask
    <3> QED  BY <2>6, <3>1, ZoneBreaksFirst
  <2> QED  BY <2>1, <2>3, <2>4, <2>5, <2>6, StatusMoves
<1> QED  BY <1>1, <1>2

\* The last two checks of InventoryAccumulator.change never raise: as totals
\* and zones agree in every call's view, the zone's own check fails first.
THEOREM TotalsNeverShort ==
  ASSUME SingleConsumer
  PROVE  Spec => []TotalNeverShort
<1>1. Init => TotalNeverShort
  BY ValueAssumption DEF Init, IdleTask, TotalNeverShort, Raised
<1>2. AgreeInv /\ TotalNeverShort /\ [Next]_vars => AgreeInv' /\ TotalNeverShort'
  BY AgreeStep, OneCallApart, NeverShortStep
<1> QED  BY <1>1, <1>2, AgreeInit, PTL DEF Spec
============================================================================
