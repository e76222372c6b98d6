---------------------------- MODULE LedgerProofs ----------------------------
(***************************************************************************)
(* What a batch does to the stock: an event that moves, reserves or        *)
(* releases stock keeps the number of units, and every event has exactly   *)
(* the effect the warehouse ledger promises of it.                         *)
(*                                                                         *)
(* Both follow from an invariant on the view of a call: after the changes  *)
(* it has made, the rows it sees are the stored rows with the effect of    *)
(* those changes.                                                          *)
(***************************************************************************)
EXTENDS LedgerRefinement, IdempotenceProofs

----------------------------------------------------------------------------
(* What a step does to a call that is past the checks afterwards.          *)

\* The call sees the tables as they are.
SeesTables(c) ==
  /\ \A p \in Products : TotalView(c, p) = inventory_by_product[p]
  /\ \A p \in Products, z \in Zones : ZoneView(c, p, z) = inventory_by_product_zone[p][z]

SameViews(c) ==
  /\ \A p \in Products : TotalView(c, p)' = TotalView(c, p)
  /\ \A p \in Products, z \in Zones : ZoneView(c, p, z)' = ZoneView(c, p, z)

\* The call has passed the last check and found what its batch is about.
Begins(c) ==
  LET e == task[c].event
      t == task'[c]
  IN  /\ validate_event(e) /\ t.event = e
      /\ \/ /\ task[c].pc = "get_last_sequence" /\ OutOfOrder(e, LastSequence(e))
            /\ t.status = "IGNORED_OUT_OF_ORDER" /\ HoldsNothing(t)
         \/ /\ task[c].pc = "get_last_sequence" /\ ~OutOfOrder(e, LastSequence(e))
            /\ t.status = "PROCESSED" /\ ~IsOrderEvent(e)
            /\ t.todo = ProductChanges(e) /\ t.order_update = None
         \/ /\ task[c].pc = "get_order"
            /\ t.status = "PROCESSED" /\ e.event_type = "ORDER_CREATED"
            /\ orders_by_id[e.order_id] = None
            /\ t.todo = ReserveItems(e.items)
            /\ t.order_update = [status |-> "CREATED", items |-> e.items]
         \/ /\ task[c].pc = "get_order"
            /\ t.status = "PROCESSED" /\ e.event_type = "ORDER_COMPLETED"
            /\ orders_by_id[e.order_id] # None
            /\ orders_by_id[e.order_id].status # "COMPLETED"
            /\ t.todo = ShipItems(orders_by_id[e.order_id].items)
            /\ t.order_update = [status |-> "COMPLETED",
                                 items |-> orders_by_id[e.order_id].items]

\* A step between the calls of the database leaves the caches empty.
LEMMA BeginsFresh ==
  ASSUME TypeInv, NEW c \in Consumers,
         task[c].pc # "batch", UNCHANGED tables,
         task'[c].zone_states = task[c].zone_states, task'[c].totals = task[c].totals
  PROVE  SeesTables(c)'
<1>1. /\ \A p \in Products : task'[c].totals[p] = None
      /\ \A p \in Products, z \in Zones : task'[c].zone_states[p][z] = None
  BY DEF TypeInv, CallOK, CallConsistent
<1> QED  BY <1>1 DEF SeesTables, TotalView, ZoneView, Overlay

\* The step of CheckSequence or get_order that begins a batch.
LEMMA ChecksBegin ==
  ASSUME TypeInv, NEW c \in Consumers, task'[c].pc = "batch",
         CheckSequence(c) \/ HandleOrderCreated(c) \/ HandleOrderCompleted(c)
  PROVE  Begins(c) /\ SeesTables(c)'
<1> DEFINE e == task[c].event
           t == task[c]
<1>0. /\ task \in [Consumers -> Task] /\ t \in Task /\ CallConsistent(t)
      /\ t.pc \in {"get_last_sequence", "get_order"} /\ UNCHANGED tables
  BY DEF TypeInv, TypeOK, CallOK, CheckSequence, HandleOrderCreated, HandleOrderCompleted
<1>1. t.todo = <<>> /\ t.order_update = None /\ HoldsNothing(t)
  BY <1>0 DEF CallConsistent, HoldsNothing
<1>2. ASSUME NEW r, Finish(c, r) PROVE FALSE
  BY <1>2, Finished
<1>3. CASE CheckSequence(c)
  <2> DEFINE pc == IF IsOrderEvent(e) THEN "get_order" ELSE "batch"
             todo == IF IsOrderEvent(e) THEN <<>> ELSE ProductChanges(e)
  <2>1. CASE /\ OutOfOrder(e, LastSequence(e))
             /\ task' = [task EXCEPT ![c].pc = "batch", ![c].status = "IGNORED_OUT_OF_ORDER"]
    <3>1. /\ task'[c].todo = t.todo /\ task'[c].order_update = t.order_update
          /\ task'[c].event = e /\ task'[c].status = "IGNORED_OUT_OF_ORDER"
          /\ task'[c].zone_states = t.zone_states /\ task'[c].totals = t.totals
      BY <1>0, <2>1 DEF Task
    <3>2. validate_event(e)  BY <1>2, <1>3 DEF CheckSequence
    <3>3. SeesTables(c)'  BY <1>0, <3>1, BeginsFresh
    <3>4. HoldsNothing(task'[c])  BY <1>1, <3>1 DEF HoldsNothing
    <3>5. t.pc = "get_last_sequence"  BY <1>3 DEF CheckSequence
    <3> QED  BY <2>1, <3>1, <3>2, <3>3, <3>4, <3>5 DEF Begins
  <2>2. CASE /\ ~OutOfOrder(e, LastSequence(e))
             /\ task' = [task EXCEPT ![c].pc = pc, ![c].todo = todo, ![c].status = "PROCESSED"]
    <3> HIDE DEF pc, todo
    <3>1. /\ task'[c].todo = todo /\ task'[c].order_update = t.order_update
          /\ task'[c].event = e /\ task'[c].status = "PROCESSED" /\ task'[c].pc = pc
          /\ task'[c].zone_states = t.zone_states /\ task'[c].totals = t.totals
      BY <1>0, <2>2 DEF Task
    <3>2. validate_event(e)  BY <1>2, <1>3 DEF CheckSequence
    <3>3. SeesTables(c)'  BY <1>0, <3>1, BeginsFresh
    <3>4. ~IsOrderEvent(e) /\ todo = ProductChanges(e)  BY <3>1 DEF pc, todo
    <3>5. t.pc = "get_last_sequence"  BY <1>3 DEF CheckSequence
    <3> QED  BY <1>1, <2>2, <3>1, <3>2, <3>3, <3>4, <3>5 DEF Begins
  <2> QED  BY <1>2, <1>3, <2>1, <2>2 DEF CheckSequence, LastSequence
<1>4. ASSUME NEW todo, NEW update, t.status = "PROCESSED",
             task' = [task EXCEPT ![c].pc = "batch", ![c].todo = todo, ![c].order_update = update]
      PROVE  /\ task'[c].todo = todo /\ task'[c].order_update = update
             /\ task'[c].event = e /\ task'[c].status = "PROCESSED" /\ SeesTables(c)'
  <2>1. /\ task'[c].todo = todo /\ task'[c].order_update = update
        /\ task'[c].event = e /\ task'[c].status = "PROCESSED"
        /\ task'[c].zone_states = t.zone_states /\ task'[c].totals = t.totals
    BY <1>0, <1>4 DEF Task
  <2> QED  BY <1>0, <2>1, BeginsFresh
<1>5. CASE HandleOrderCreated(c)
  <2> DEFINE todo == ReserveItems(e.items)
             update == [status |-> "CREATED", items |-> e.items]
  <2>1. /\ orders_by_id[e.order_id] = None /\ e.event_type = "ORDER_CREATED"
        /\ task' = [task EXCEPT ![c].pc = "batch", ![c].todo = todo, ![c].order_update = update]
    BY <1>2, <1>5 DEF HandleOrderCreated
  <2>2. t.status = "PROCESSED" /\ validate_event(e) /\ t.pc = "get_order"
    BY <1>0, <1>5 DEF CallConsistent, HandleOrderCreated
  <2>3. /\ task'[c].todo = todo /\ task'[c].order_update = update
        /\ task'[c].event = e /\ task'[c].status = "PROCESSED" /\ SeesTables(c)'
    <3> HIDE DEF todo, update
    <3> QED  BY <1>4, <2>1, <2>2
  <2> QED  BY <2>1, <2>2, <2>3 DEF Begins
<1>6. CASE HandleOrderCompleted(c)
  <2> DEFINE items == orders_by_id[e.order_id].items
             todo == ShipItems(items)
             update == [status |-> "COMPLETED", items |-> items]
  <2>1. /\ orders_by_id[e.order_id] # None /\ orders_by_id[e.order_id].status # "COMPLETED"
        /\ e.event_type = "ORDER_COMPLETED"
        /\ task' = [task EXCEPT ![c].pc = "batch", ![c].todo = todo, ![c].order_update = update]
    BY <1>2, <1>6 DEF HandleOrderCompleted
  <2>2. t.status = "PROCESSED" /\ validate_event(e) /\ t.pc = "get_order"
    BY <1>0, <1>6 DEF CallConsistent, HandleOrderCompleted
  <2>3. /\ task'[c].todo = todo /\ task'[c].order_update = update
        /\ task'[c].event = e /\ task'[c].status = "PROCESSED" /\ SeesTables(c)'
    <3> HIDE DEF todo, update
    <3> QED  BY <1>4, <2>1, <2>2
  <2> QED  BY <2>1, <2>2, <2>3 DEF Begins
<1> QED  BY <1>3, <1>5, <1>6

SameCall(c) ==
  /\ task'[c].pc = task[c].pc /\ task'[c].event = task[c].event
  /\ task'[c].todo = task[c].todo /\ task'[c].status = task[c].status
  /\ task'[c].order_update = task[c].order_update
  /\ task[c].todo = <<>> => task'[c] = task[c]

\* A step of another consumer leaves the call alone, and the tables too unless
\* it is a batch.
LEMMA OthersSteps ==
  ASSUME TypeInv, [Next]_vars, NEW d \in Consumers
  PROVE  \/ UNCHANGED tables /\ task'[d] = task[d]
         \/ task'[d] = task[d] /\ \E c \in Consumers \ {d} : BatchReady(c) /\ ApplyBatch(c)
         \/ \/ \E e \in Events : ReceiveEvent(d, e)
            \/ Process(d) \/ DatabaseFailure(d) \/ Return(d) \/ Crash(d)
<1>0. task \in [Consumers -> Task] /\ task[d] \in Task  BY DEF TypeInv, TypeOK
<1>1. CASE UNCHANGED vars
  <2>1. UNCHANGED tables /\ task'[d] = task[d]  BY <1>1 DEF vars, tables
  <2> QED  BY <2>1
<1>2. ASSUME NEW c \in Consumers \ {d},
             (\E e \in Events : ReceiveEvent(c, e)) \/ Process(c) \/ DatabaseFailure(c)
               \/ Return(c) \/ Crash(c)
      PROVE  task'[d] = task[d]
  <2>1. CASE \E r : Finish(c, r)  BY <1>0, <2>1 DEF Finish
  <2>2. CASE (\E e \in Events : ReceiveEvent(c, e)) \/ Return(c) \/ Crash(c)
    BY <1>0, <2>2 DEF ReceiveEvent, Return, Crash
  <2>3. CASE IsProcessed(c) \/ CheckSequence(c)
    BY <1>0, <2>1, <2>3 DEF IsProcessed, CheckSequence
  <2>4. CASE HandleOrderCreated(c) \/ HandleOrderCompleted(c)
    BY <1>0, <2>1, <2>4 DEF HandleOrderCreated, HandleOrderCompleted
  <2>5. CASE GetZoneState(c) \/ GetTotal(c) \/ ApplyChange(c)
    BY <1>0, <2>1, <2>5 DEF GetZoneState, GetTotal, ApplyChange
  <2>6. CASE ExecuteBatch(c) \/ BatchRefused(c) \/ DatabaseFailure(c)
    BY <2>1, <2>6 DEF ExecuteBatch, BatchRefused, DatabaseFailure, DatabaseCallFails, BatchTimesOut
  <2> QED  BY <1>2, <2>2, <2>3, <2>4, <2>5, <2>6 DEF Process
<1>3. CASE \E c \in Consumers \ {d} :
             (\E e \in Events : ReceiveEvent(c, e)) \/ Process(c) \/ DatabaseFailure(c)
               \/ Return(c) \/ Crash(c)
  <2>1. task'[d] = task[d]  BY <1>2, <1>3
  <2>2. CASE UNCHANGED tables  BY <2>1, <2>2
  <2>3. CASE \E c \in Consumers : BatchReady(c) /\ ApplyBatch(c) /\ \E r : Finish(c, r)
    <3>1. PICK c \in Consumers : BatchReady(c) /\ ApplyBatch(c) /\ \E r : Finish(c, r)
      BY <2>3
    <3>2. c # d  BY <2>1, <3>1, Finished DEF BatchReady
    <3> QED  BY <2>1, <3>1, <3>2
  <2> QED  BY <2>2, <2>3, OnlyBatchWrites
<1> QED  BY <1>1, <1>3 DEF Next

\* A call that has not got past its checks after a step was left as it is, or
\* has passed one of them.
LEMMA CheckMoves ==
  ASSUME TypeInv, [Next]_vars, NEW d \in Consumers,
         task'[d].pc \in {"get_last_sequence", "get_order"}
  PROVE  \/ UNCHANGED tables /\ task'[d] = task[d]
         \/ /\ UNCHANGED tables /\ task'[d].event = task[d].event
            /\ task'[d].pc = "get_last_sequence" /\ RecordOf(task[d].event) = None
         \/ /\ UNCHANGED tables /\ task'[d].event = task[d].event
            /\ task[d].pc = "get_last_sequence" /\ task'[d].pc = "get_order"
            /\ ~OutOfOrder(task[d].event, LastSequence(task[d].event))
         \/ task'[d] = task[d] /\ \E c \in Consumers \ {d} : BatchReady(c) /\ ApplyBatch(c)
<1>0. task \in [Consumers -> Task] /\ task[d] \in Task  BY DEF TypeInv, TypeOK
<1>1. ASSUME NEW r, Finish(d, r) PROVE FALSE
  BY <1>1, Finished
<1>2. CASE (\E e \in Events : ReceiveEvent(d, e)) \/ Return(d) \/ Crash(d)
  <2>1. CASE \E e \in Events : ReceiveEvent(d, e)
    <3>1. task'[d].pc = "is_processed"  BY <1>0, <2>1 DEF ReceiveEvent, IdleTask
    <3> QED  BY <3>1
  <2>2. CASE Return(d) \/ Crash(d)
    <3>1. task'[d].pc = "idle"  BY <1>0, <2>2 DEF Return, Crash, IdleTask
    <3> QED  BY <3>1
  <2> QED  BY <1>2, <2>1, <2>2
<1>3. CASE DatabaseFailure(d) \/ ExecuteBatch(d) \/ BatchRefused(d)
  BY <1>1, <1>3 DEF ExecuteBatch, BatchRefused, DatabaseFailure, DatabaseCallFails, BatchTimesOut
<1>4. CASE IsProcessed(d)
  <2>1. task' = [task EXCEPT ![d].pc = "get_last_sequence"]
        /\ RecordOf(task[d].event) = None /\ UNCHANGED tables
    BY <1>1, <1>4 DEF IsProcessed, RecordOf
  <2> QED  BY <1>0, <2>1 DEF Task
<1>5. CASE CheckSequence(d)
  <2> DEFINE pc == IF IsOrderEvent(task[d].event) THEN "get_order" ELSE "batch"
             todo == IF IsOrderEvent(task[d].event) THEN <<>> ELSE ProductChanges(task[d].event)
  <2>1. CASE task' = [task EXCEPT ![d].pc = "batch", ![d].status = "IGNORED_OUT_OF_ORDER"]
    BY <1>0, <2>1 DEF Task
  <2>2. CASE /\ ~OutOfOrder(task[d].event, LastSequence(task[d].event))
             /\ task' = [task EXCEPT ![d].pc = pc, ![d].todo = todo, ![d].status = "PROCESSED"]
    <3>1. task[d].pc = "get_last_sequence" /\ UNCHANGED tables  BY <1>5 DEF CheckSequence
    <3> HIDE DEF todo
    <3>2. task'[d].event = task[d].event /\ task'[d].pc = pc  BY <1>0, <2>2 DEF Task
    <3>3. task'[d].pc = "get_order"  BY <3>2
    <3> QED  BY <2>2, <3>1, <3>2, <3>3
  <2> QED  BY <1>1, <1>5, <2>1, <2>2 DEF CheckSequence, LastSequence
<1>6. CASE HandleOrderCreated(d) \/ HandleOrderCompleted(d)
  <2>1. task'[d].pc = "batch"
    BY <1>0, <1>1, <1>6 DEF HandleOrderCreated, HandleOrderCompleted, Task
  <2> QED  BY <2>1
<1>7. CASE GetZoneState(d) \/ GetTotal(d)
  <2>1. \E states, totals : task'[d] = [task[d] EXCEPT !.zone_states = states]
                            \/ task'[d] = [task[d] EXCEPT !.totals = totals]
    BY <1>0, <1>7 DEF GetZoneState, GetTotal
  <2>2. task[d].pc = "batch"  BY <1>7 DEF GetZoneState, GetTotal, Changing
  <2> QED  BY <1>0, <2>1, <2>2 DEF Task
<1>8. CASE ApplyChange(d)
  <2>1. ChangeMade(d) /\ task[d].pc = "batch"
    BY <1>1, <1>8, ApplyMovesViews DEF ApplyChange, Changing
  <2> QED  BY <2>1 DEF ChangeMade
<1> QED
  BY <1>2, <1>3, <1>4, <1>5, <1>6, <1>7, <1>8, OthersSteps DEF Process

\* A call that is in its batch after a step was left as it is (up to a read),
\* made a change, has just begun, or another consumer's batch was applied.
LEMMA BatchMoves ==
  ASSUME TypeInv, [Next]_vars, NEW d \in Consumers, task'[d].pc = "batch"
  PROVE  \/ UNCHANGED tables /\ SameCall(d) /\ SameViews(d)
         \/ UNCHANGED tables /\ Changing(d) /\ ChangeMade(d)
         \/ UNCHANGED tables /\ Begins(d) /\ SeesTables(d)'
         \/ task'[d] = task[d] /\ \E c \in Consumers \ {d} : BatchReady(c) /\ ApplyBatch(c)
<1>0. task \in [Consumers -> Task] /\ task[d] \in Task  BY DEF TypeInv, TypeOK
<1>1. CASE UNCHANGED tables /\ task'[d] = task[d]
  BY <1>1 DEF SameCall, SameViews, TotalView, ZoneView, tables
<1>5. ASSUME NEW r, Finish(d, r) PROVE FALSE
  BY <1>5, Finished
<1>6. CASE (\E e \in Events : ReceiveEvent(d, e)) \/ Return(d) \/ Crash(d)
  <2>1. task'[d].pc # "batch"
    <3>1. CASE \E e \in Events : ReceiveEvent(d, e)  BY <1>0, <3>1 DEF ReceiveEvent, IdleTask
    <3>2. CASE Return(d) \/ Crash(d)  BY <1>0, <3>2 DEF Return, Crash, IdleTask
    <3> QED  BY <1>6, <3>1, <3>2
  <2> QED  BY <2>1
<1>7. CASE DatabaseFailure(d) \/ ExecuteBatch(d) \/ BatchRefused(d)
  BY <1>5, <1>7 DEF ExecuteBatch, BatchRefused, DatabaseFailure, DatabaseCallFails, BatchTimesOut
<1>8. CASE IsProcessed(d)
  BY <1>0, <1>5, <1>8 DEF IsProcessed, Task
<1>9. CASE CheckSequence(d) \/ HandleOrderCreated(d) \/ HandleOrderCompleted(d)
  <2>1. UNCHANGED tables
    BY <1>9 DEF CheckSequence, HandleOrderCreated, HandleOrderCompleted
  <2> QED  BY <1>9, <2>1, ChecksBegin
<1>10. CASE GetZoneState(d) \/ GetTotal(d)
  <2>1. UNCHANGED tables /\ task[d].pc = "batch"
    BY <1>10 DEF GetZoneState, GetTotal, Changing
  <2>2. SameViews(d)  BY <1>10, ReadKeepsViews DEF SameViews
  <2>3. \E states, totals : task'[d] = [task[d] EXCEPT !.zone_states = states]
                            \/ task'[d] = [task[d] EXCEPT !.totals = totals]
    BY <1>0, <1>10 DEF GetZoneState, GetTotal
  <2>4. task[d].todo # <<>>  BY <1>10 DEF GetZoneState, GetTotal, Changing
  <2>5. SameCall(d)  BY <1>0, <2>1, <2>3, <2>4 DEF SameCall, Task
  <2> QED  BY <2>1, <2>2, <2>5
<1>11. CASE ApplyChange(d)
  <2>1. UNCHANGED tables /\ Changing(d)  BY <1>11 DEF ApplyChange
  <2>2. ChangeMade(d)  BY <1>5, <1>11, ApplyMovesViews
  <2> QED  BY <2>1, <2>2
<1> QED
  BY <1>1, <1>6, <1>7, <1>8, <1>9, <1>10, <1>11, OthersSteps DEF Process

----------------------------------------------------------------------------
(* Units are neither made nor lost by moving, reserving and releasing.     *)

Keeping == {"PRODUCT_MOVED", "PRODUCT_RESERVED", "PRODUCT_RELEASED", "ORDER_CREATED"}

Neutral(ch) == ch.counted = None /\ ch.available + ch.reserved = 0

\* As the call sees the totals, q units of its product are missing.
Lacks(c, q) ==
  \A p \in Products :
    OnHand(TotalView(c, p)) =
      OnHand(inventory_by_product[p]) - (IF p = task[c].event.product_id THEN q ELSE 0)

\* What is still to be done gives back what the call has taken: between the
\* two changes of a move the units are nowhere.
Balanced(c) ==
  LET t == task[c]
      e == t.event
  IN  t.pc = "batch" /\ e.event_type \in Keeping =>
        \/ (\A i \in DOMAIN t.todo : Neutral(t.todo[i])) /\ Lacks(c, 0)
        \/ e.event_type = "PRODUCT_MOVED" /\ t.todo = ProductChanges(e) /\ Lacks(c, 0)
        \/ e.event_type = "PRODUCT_MOVED" /\ t.todo = Tail(ProductChanges(e))
           /\ Lacks(c, e.quantity)

BalanceInv == TypeInv /\ \A c \in Consumers : Balanced(c)

LEMMA MoveChanges ==
  ASSUME NEW e, e.event_type = "PRODUCT_MOVED"
  PROVE  LET first == Delta(e.product_id, e.from_zone_id, -e.quantity, 0)
             second == Delta(e.product_id, e.to_zone_id, e.quantity, 0)
         IN  /\ ProductChanges(e) = <<first, second>>
             /\ Head(ProductChanges(e)) = first
             /\ Tail(ProductChanges(e)) = <<second>>
             /\ Head(Tail(ProductChanges(e))) = second
             /\ Tail(Tail(ProductChanges(e))) = <<>>
             /\ ProductChanges(e) # <<>> /\ Tail(ProductChanges(e)) # <<>>
<1> DEFINE first == Delta(e.product_id, e.from_zone_id, -e.quantity, 0)
           second == Delta(e.product_id, e.to_zone_id, e.quantity, 0)
<1>1. ProductChanges(e) = <<first, second>>  BY DEF ProductChanges
<1> HIDE DEF first, second
<1>2. Head(<<first, second>>) = first /\ Tail(<<first, second>>) = <<second>>
      /\ Head(<<second>>) = second /\ Tail(<<second>>) = <<>>
      /\ <<first, second>> # <<>> /\ <<second>> # <<>>
  OBVIOUS
<1> QED  BY <1>1, <1>2 DEF first, second

LEMMA OnHandAdd ==
  ASSUME NEW row \in Row, NEW a \in Int, NEW r \in Int
  PROVE  OnHand(Add(row, a, r)) = OnHand(row) + a + r /\ OnHand(row) \in Int
BY DEF OnHand, Add, Row

\* A change that is no count moves what is lacking by what it adds.
LEMMA ChangeLacks ==
  ASSUME TypeInv, NEW c \in Consumers, Changing(c), ChangeMade(c), UNCHANGED tables,
         NEW q \in Int, Lacks(c, q), NEW n \in Int,
         LET ch == Head(task[c].todo)
         IN  /\ ch.counted = None
             /\ n = q - (ch.available + ch.reserved)
             /\ n = q \/ ch.product_id = task[c].event.product_id
  PROVE  Lacks(c, n)'
<1> DEFINE ch == Head(task[c].todo)
           d == ch.available + ch.reserved
<1>1. ch.available \in Int /\ ch.reserved \in Int /\ d \in Int
  BY ChangingType DEF Change
<1>2. ASSUME NEW p \in Products
      PROVE  OnHand(TotalView(c, p)') =
               OnHand(TotalView(c, p)) + (IF p = ch.product_id THEN d ELSE 0)
  <2>1. TotalView(c, p) \in Row  BY ViewType DEF TypeInv
  <2>2. TotalView(c, p)' = IF p = ch.product_id THEN Add(TotalView(c, p), ch.available, ch.reserved)
                           ELSE TotalView(c, p)
    BY DEF ChangeMade, AvailableDelta
  <2>3. /\ OnHand(TotalView(c, p)) \in Int
        /\ OnHand(Add(TotalView(c, p), ch.available, ch.reserved)) =
             OnHand(TotalView(c, p)) + ch.available + ch.reserved
    BY <1>1, <2>1, OnHandAdd
  <2>4. CASE p = ch.product_id
    <3>1. OnHand(TotalView(c, p)') = OnHand(TotalView(c, p)) + ch.available + ch.reserved
      BY <2>2, <2>3, <2>4
    <3> HIDE DEF ch
    <3> QED  BY <1>1, <2>3, <2>4, <3>1
  <2>5. CASE p # ch.product_id
    <3>1. OnHand(TotalView(c, p)') = OnHand(TotalView(c, p))  BY <2>2, <2>5
    <3> HIDE DEF ch
    <3> QED  BY <2>3, <2>5, <3>1
  <2> QED  BY <2>4, <2>5
<1>3. ASSUME NEW p \in Products PROVE OnHand(inventory_by_product[p]) \in Int
  BY OnHandAdd DEF TypeInv, TypeOK, OnHand, Row
<1>4. task'[c].event = task[c].event  BY DEF ChangeMade
<1> HIDE DEF ch
<1>5. ASSUME NEW p \in Products
      PROVE  OnHand(TotalView(c, p)') =
               OnHand(inventory_by_product[p]) - (IF p = task[c].event.product_id THEN n ELSE 0)
  <2>1. OnHand(TotalView(c, p)) =
          OnHand(inventory_by_product[p]) - (IF p = task[c].event.product_id THEN q ELSE 0)
    BY DEF Lacks
  <2>2. n = q - d /\ (n = q \/ ch.product_id = task[c].event.product_id)  BY DEF ch
  <2> HIDE DEF d
  <2> QED  BY <1>1, <1>2, <1>3, <2>1, <2>2
<1> QED  BY <1>4, <1>5 DEF Lacks, OnHand, tables

LEMMA EventOnHand ==
  ASSUME TypeInv, NEW c \in Consumers, task[c].pc = "batch"
  PROVE  /\ task[c].event \in Events /\ validate_event(task[c].event)
         /\ task[c].event.event_type = "PRODUCT_MOVED" => task[c].event.quantity \in Nat
         /\ task[c].event.items \in Seq(OrderItem)
<1>1. task[c].event \in Events /\ validate_event(task[c].event)
  BY DEF TypeInv, CallOK, CallConsistent
<1>2. task[c].event \in WarehouseEvent  BY <1>1, EventsAssumption
<1>3. task[c].event.quantity \in Optional(Int) /\ task[c].event.items \in Seq(OrderItem)
  BY <1>2 DEF WarehouseEvent
<1>4. task[c].event.event_type = "PRODUCT_MOVED" => task[c].event.quantity \in Nat
  BY <1>1, <1>3 DEF validate_event, require_move, require_positive_quantity, Optional
<1> QED  BY <1>1, <1>3, <1>4

\* The changes a call begins with make up for each other.
LEMMA BeginsBalanced ==
  ASSUME TypeInv, TypeInv', NEW c \in Consumers, task'[c].pc = "batch",
         Begins(c), SeesTables(c)'
  PROVE  Balanced(c)'
<1> DEFINE e == task[c].event
<1>1. Lacks(c, 0)'
  <2>1. \A p \in Products : OnHand(inventory_by_product'[p]) \in Int
    BY OnHandAdd DEF TypeInv, TypeOK, OnHand, Row
  <2>2. \A p \in Products : TotalView(c, p)' = inventory_by_product'[p]
    BY DEF SeesTables
  <2> QED  BY <2>1, <2>2 DEF Lacks, OnHand
<1>2. task'[c].event = e /\ validate_event(e) /\ e \in Events /\ e.items \in Seq(OrderItem)
      /\ e.quantity \in Optional(Int)
  <2>1. task'[c].event = e /\ validate_event(e)  BY DEF Begins
  <2>2. e \in Events  BY <2>1 DEF TypeInv, CallOK, CallConsistent
  <2> QED  BY <2>1, <2>2, EventsAssumption DEF WarehouseEvent
<1>3. CASE task'[c].todo = <<>>
  BY <1>1, <1>3 DEF Balanced
<1>4. CASE task'[c].todo = ProductChanges(e) /\ e.event_type = "PRODUCT_MOVED"
  BY <1>1, <1>2, <1>4 DEF Balanced
<1>5. CASE /\ task'[c].todo = ProductChanges(e)
           /\ e.event_type \in {"PRODUCT_RESERVED", "PRODUCT_RELEASED"}
  <2>1. e.quantity \in Int
    BY <1>2, <1>5 DEF validate_event, require_product_zone_quantity, require_positive_quantity,
                      Optional
  <2>2. \E ch : ProductChanges(e) = <<ch>> /\ Neutral(ch)
    <3>1. Neutral(Delta(e.product_id, e.zone_id, -e.quantity, e.quantity))
          /\ Neutral(Delta(e.product_id, e.zone_id, e.quantity, -e.quantity))
      BY <2>1 DEF Neutral, Delta
    <3> QED  BY <1>5, <3>1 DEF ProductChanges
  <2>3. \A i \in DOMAIN task'[c].todo : Neutral(task'[c].todo[i])
    BY <1>5, <2>2
  <2> QED  BY <1>1, <2>3 DEF Balanced, Neutral
<1>6. CASE task'[c].todo = ReserveItems(e.items)
  <2>1. \A i \in 1..Len(e.items) : e.items[i].quantity \in Int
    <3>1. \A i \in 1..Len(e.items) : e.items[i] \in OrderItem  BY <1>2, ElementOfSeq
    <3> QED  BY <3>1 DEF OrderItem
  <2>2. \A i \in DOMAIN ReserveItems(e.items) : Neutral(ReserveItems(e.items)[i])
    <3> DEFINE q(i) == e.items[i].quantity
    <3>1. ASSUME NEW i \in 1..Len(e.items), NEW p, NEW z
          PROVE  Neutral(Delta(p, z, -q(i), q(i)))
      <4>1. q(i) \in Int  BY <2>1
      <4>2. -q(i) + q(i) = 0  BY <4>1
      <4> QED  BY <4>2 DEF Neutral, Delta
    <3> QED  BY <3>1 DEF ReserveItems
  <2>3. \A i \in DOMAIN task'[c].todo : Neutral(task'[c].todo[i])
    BY <1>6, <2>2
  <2> QED  BY <1>1, <2>3 DEF Balanced, Neutral
<1>7. CASE e.event_type \notin Keeping
  BY <1>2, <1>7 DEF Balanced
<1> QED
  BY <1>3, <1>4, <1>5, <1>6, <1>7 DEF Begins, HoldsNothing, Keeping, IsOrderEvent

LEMMA ChangeBalanced ==
  ASSUME TypeInv, NEW c \in Consumers, Balanced(c),
         UNCHANGED tables, Changing(c), ChangeMade(c)
  PROVE  Balanced(c)'
<1> DEFINE e == task[c].event
           todo == task[c].todo
<1>1. SUFFICES ASSUME e.event_type \in Keeping PROVE Balanced(c)'
  BY DEF ChangeMade, Balanced
<1>2. /\ task[c].pc = "batch" /\ todo \in Seq(Change) /\ todo # <<>>
      /\ task'[c].todo = Tail(todo) /\ task'[c].event = e
  BY DEF Changing, ChangeMade, TypeInv, TypeOK, Task
<1>3. e.event_type = "PRODUCT_MOVED" => e.quantity \in Nat
  BY <1>2, EventOnHand
<1>4. CASE (\A i \in DOMAIN todo : Neutral(todo[i])) /\ Lacks(c, 0)
  <2>1. /\ Len(todo) \in Nat \ {0} /\ DOMAIN todo = 1..Len(todo) /\ Head(todo) = todo[1]
        /\ Len(Tail(todo)) = Len(todo) - 1 /\ Tail(todo) \in Seq(Change)
        /\ \A i \in 1..Len(Tail(todo)) : Tail(todo)[i] = todo[i + 1]
    BY <1>2, EmptySeq, LenProperties, HeadTailProperties
  <2>2. DOMAIN Tail(todo) = 1..Len(Tail(todo))  BY <2>1, LenProperties
  <2>3. \A i \in DOMAIN Tail(todo) : Neutral(Tail(todo)[i])
    BY <1>4, <2>1, <2>2
  <2>4. Neutral(Head(todo))  BY <1>4, <2>1
  <2>5. Lacks(c, 0)'  BY <1>4, <2>4, ChangeLacks DEF Neutral
  <2> QED  BY <1>2, <2>3, <2>5 DEF Balanced, Neutral
<1>5. CASE e.event_type = "PRODUCT_MOVED" /\ todo = ProductChanges(e) /\ Lacks(c, 0)
  <2>1. Head(todo) = Delta(e.product_id, e.from_zone_id, -e.quantity, 0)
    BY <1>5, MoveChanges
  <2>2. e.quantity = 0 - (-e.quantity + 0)  BY <1>3, <1>5
  <2>3. ASSUME NEW n \in Int, n = e.quantity PROVE Lacks(c, n)'
    BY <1>2, <1>5, <2>1, <2>2, <2>3, ChangeLacks DEF Delta
  <2>4. Lacks(c, task[c].event.quantity)'
    <3> SUFFICES ASSUME NEW n \in Int, n = e.quantity
                 PROVE  Lacks(c, task[c].event.quantity)'
      BY <1>3, <1>5
    <3>1. Lacks(c, n)'  BY <2>3
    <3>2. task'[c].event.quantity = n  BY <1>2
    <3> QED  BY <3>1, <3>2 DEF Lacks
  <2> QED  BY <1>2, <1>5, <2>4 DEF Balanced
<1>6. CASE e.event_type = "PRODUCT_MOVED" /\ todo = Tail(ProductChanges(e)) /\ Lacks(c, e.quantity)
  <2>1. Head(todo) = Delta(e.product_id, e.to_zone_id, e.quantity, 0) /\ Tail(todo) = <<>>
    BY <1>6, MoveChanges
  <2>2. 0 = e.quantity - (e.quantity + 0)  BY <1>3, <1>6
  <2>3. Lacks(c, 0)'
    <3> SUFFICES ASSUME NEW q \in Int, q = e.quantity, Lacks(c, q)
                 PROVE  Lacks(c, 0)'
      BY <1>3, <1>6
    <3>1. LET ch == Head(todo)
          IN  /\ ch.counted = None /\ ch.available = q /\ ch.reserved = 0
              /\ ch.product_id = e.product_id
      BY <2>1 DEF Delta
    <3> HIDE DEF todo, e
    <3>2. 0 = q - (Head(todo).available + Head(todo).reserved)  BY <3>1
    <3> USE DEF todo, e
    <3> QED  BY <3>1, <3>2, ChangeLacks
  <2> QED  BY <1>2, <2>1, <2>3 DEF Balanced
<1> QED  BY <1>1, <1>2, <1>4, <1>5, <1>6 DEF Balanced

\* Another consumer's batch is about other products.
LEMMA OthersBatch ==
  ASSUME CallsApart, NEW c \in Consumers, NEW d \in Consumers, c # d,
         ApplyBatch(c), task'[d] = task[d], NEW p \in Products
  PROVE  \/ HoldsNoRow(task[d], p)
         \/ inventory_by_product'[p] = inventory_by_product[p]
<1>1. CASE HoldsNoRow(task[c], p)
  BY <1>1 DEF HoldsNoRow, ApplyBatch, Overlay
<1> QED  BY <1>1 DEF CallsApart

LEMMA BatchBalanced ==
  ASSUME CallsApart, TypeInv, TypeInv', NEW c \in Consumers, NEW d \in Consumers, c # d,
         ApplyBatch(c), task'[d] = task[d], Balanced(d)
  PROVE  Balanced(d)'
<1>1. ASSUME NEW q \in Int, Lacks(d, q) PROVE Lacks(d, q)'
  <2>1. ASSUME NEW p \in Products
        PROVE  OnHand(TotalView(d, p))' =
                 OnHand(inventory_by_product[p])' - (IF p = task[d].event.product_id THEN q ELSE 0)
    <3>1. /\ OnHand(inventory_by_product[p]) \in Int /\ OnHand(inventory_by_product[p])' \in Int
      BY DEF TypeInv, TypeOK, OnHand, Row
    <3>2. OnHand(TotalView(d, p)) =
            OnHand(inventory_by_product[p]) - (IF p = task[d].event.product_id THEN q ELSE 0)
      BY <1>1 DEF Lacks
    <3>3. CASE HoldsNoRow(task[d], p)
      <4>1. TotalView(d, p) = inventory_by_product[p] /\ TotalView(d, p)' = inventory_by_product'[p]
        BY <3>3 DEF HoldsNoRow, TotalView, Overlay
      <4>2. OnHand(TotalView(d, p)) = OnHand(inventory_by_product[p])
            /\ OnHand(TotalView(d, p))' = OnHand(inventory_by_product[p])'
        BY <4>1 DEF OnHand
      <4> QED  BY <1>1, <3>1, <3>2, <4>2
    <3>4. CASE inventory_by_product'[p] = inventory_by_product[p]
      <4>1. TotalView(d, p)' = TotalView(d, p)  BY <3>4 DEF TotalView
      <4> QED  BY <3>2, <3>4, <4>1 DEF OnHand
    <3> QED  BY <3>3, <3>4, OthersBatch
  <2> QED  BY <2>1 DEF Lacks
<1>2. task[d].pc = "batch" /\ task[d].event.event_type = "PRODUCT_MOVED"
        => task[d].event.quantity \in Int
  BY EventOnHand
<1>3. Lacks(d, 0) => Lacks(d, 0)'  BY <1>1
<1>4. task[d].event.quantity \in Int /\ Lacks(d, task[d].event.quantity)
        => Lacks(d, task[d].event.quantity)'
  <2> SUFFICES ASSUME NEW q \in Int, q = task[d].event.quantity, Lacks(d, q)
               PROVE  Lacks(d, task[d].event.quantity)'
    OBVIOUS
  <2>1. Lacks(d, q)'  BY <1>1
  <2> QED  BY <2>1 DEF Lacks
<1> QED  BY <1>2, <1>3, <1>4 DEF Balanced

LEMMA BalanceStep ==
  ASSUME CallsApart, BalanceInv, [Next]_vars
  PROVE  BalanceInv'
<1>1. TypeInv /\ TypeInv'  BY TypeStep DEF BalanceInv
<1>2. ASSUME NEW d \in Consumers PROVE Balanced(d)'
  <2>0. Balanced(d)  BY DEF BalanceInv
  <2>1. CASE task'[d].pc # "batch"  BY <2>1 DEF Balanced
  <2>2. CASE UNCHANGED tables /\ SameCall(d) /\ SameViews(d)
    <3>1. \A p \in Products : TotalView(d, p)' = TotalView(d, p)  BY <2>2 DEF SameViews
    <3>2. ASSUME NEW q, Lacks(d, q) PROVE Lacks(d, q)'
      BY <2>2, <3>1, <3>2 DEF Lacks, SameCall, OnHand, tables
    <3>3. (Lacks(d, 0) => Lacks(d, 0)')
          /\ (Lacks(d, task[d].event.quantity) => Lacks(d, task[d].event.quantity)')
      <4>1. Lacks(d, task[d].event.quantity) => Lacks(d, task[d].event.quantity)'
        BY <2>2, <3>1 DEF Lacks, SameCall, OnHand, tables
      <4> QED  BY <3>2, <4>1
    <3> QED  BY <2>0, <2>2, <3>3 DEF Balanced, SameCall, Neutral
  <2>3. CASE UNCHANGED tables /\ Changing(d) /\ ChangeMade(d)
    BY <1>1, <2>0, <2>3, ChangeBalanced
  <2>4. CASE task'[d].pc = "batch" /\ UNCHANGED tables /\ Begins(d) /\ SeesTables(d)'
    BY <1>1, <2>4, BeginsBalanced
  <2>5. CASE task'[d] = task[d] /\ \E c \in Consumers \ {d} : ApplyBatch(c)
    BY <1>1, <2>0, <2>5, BatchBalanced
  <2> QED  BY <1>1, <2>1, <2>2, <2>3, <2>4, <2>5, BatchMoves
<1> QED  BY <1>1, <1>2 DEF BalanceInv

\* A batch that is ready has given back everything it took.
LEMMA BatchKeepsUnits ==
  ASSUME BalanceInv, NEW c \in Consumers, BatchReady(c), ApplyBatch(c),
         task[c].event.event_type \in Keeping, NEW p \in Products
  PROVE  OnHand(inventory_by_product'[p]) = OnHand(inventory_by_product[p])
<1> DEFINE e == task[c].event
<1>1. task[c].pc = "batch" /\ task[c].todo = <<>> /\ Balanced(c)
  BY DEF BatchReady, BalanceInv
<1>2. e.event_type = "PRODUCT_MOVED" =>
        ProductChanges(e) # <<>> /\ Tail(ProductChanges(e)) # <<>>
  BY MoveChanges
<1>3. Lacks(c, 0)  BY <1>1, <1>2 DEF Balanced
<1>4. inventory_by_product'[p] = TotalView(c, p)
  BY DEF ApplyBatch, TotalView
<1>5. OnHand(inventory_by_product[p]) \in Int
  BY DEF BalanceInv, TypeInv, TypeOK, OnHand, Row
<1>6. OnHand(TotalView(c, p)) = OnHand(inventory_by_product[p]) - 0
  BY <1>3 DEF Lacks
<1>7. OnHand(inventory_by_product'[p]) = OnHand(TotalView(c, p))  BY <1>4
<1> QED  BY <1>5, <1>6, <1>7

\* With one consumer, moving, reserving and releasing stock and creating an
\* order neither make nor lose a unit of any product, whatever the order of
\* delivery and whatever fails on the way.
THEOREM StockConserved ==
  ASSUME SingleConsumer
  PROVE  Spec => ConservesStock
<1>1. Init => BalanceInv
  BY TypeInit DEF Init, IdleTask, BalanceInv, Balanced
<1>2. BalanceInv /\ [Next]_vars => BalanceInv'
  BY BalanceStep, OneCallApart
<1>3. BalanceInv /\ [Next]_vars =>
        \A e \in Events :
          /\ event_history'[e] # event_history[e]
          /\ e.event_type \in {"PRODUCT_MOVED", "PRODUCT_RESERVED",
                               "PRODUCT_RELEASED", "ORDER_CREATED"}
          => \A p \in Products :
               OnHand(inventory_by_product'[p]) = OnHand(inventory_by_product[p])
  <2> SUFFICES ASSUME BalanceInv, [Next]_vars, NEW e \in Events,
                      event_history'[e] # event_history[e], e.event_type \in Keeping,
                      NEW p \in Products
               PROVE  OnHand(inventory_by_product'[p]) = OnHand(inventory_by_product[p])
    BY DEF Keeping
  <2>1. PICK c \in Consumers : BatchReady(c) /\ ApplyBatch(c)
    BY OnlyBatchWrites DEF tables
  <2>2. e = task[c].event
    BY <2>1 DEF ApplyBatch, BalanceInv, TypeInv, TypeOK
  <2> QED  BY <2>1, <2>2, BatchKeepsUnits
<1> QED  BY <1>1, <1>2, <1>3, PTL DEF Spec, ConservesStock

----------------------------------------------------------------------------
(* Counting the units of an order.                                         *)

\* The lines, up to the k-th, that are about product p in zone z.
Lines(items, k, p, z) == {i \in 1..k : items[i].product_id = p /\ items[i].zone_id = z}

UnitsOf(items, S) == UNION {{i} \X (1..items[i].quantity) : i \in S}

Upto(items, k, p, z) == Cardinality(UnitsOf(items, Lines(items, k, p, z)))

LEMMA UnitsOfMember ==
  ASSUME NEW items, NEW S, NEW u
  PROVE  u \in UnitsOf(items, S) <=> \E i \in S : \E n \in 1..items[i].quantity : u = <<i, n>>
<1>1. \A i \in S : u \in {i} \X (1..items[i].quantity)
                   <=> \E n \in 1..items[i].quantity : u = <<i, n>>
  OBVIOUS
<1> QED  BY <1>1 DEF UnitsOf

LEMMA UnitsOfFinite ==
  ASSUME NEW items, NEW S, IsFiniteSet(S), \A i \in S : items[i].quantity \in Nat
  PROVE  IsFiniteSet(UnitsOf(items, S))
<1> DEFINE C == {{i} \X (1..items[i].quantity) : i \in S}
           h == [i \in S |-> {i} \X (1..items[i].quantity)]
<1>1. h \in Surjection(S, C)  BY DEF Surjection
<1>2. IsFiniteSet(C)  BY <1>1, FS_Surjection
<1>3. \A i \in S : IsFiniteSet({i} \X (1..items[i].quantity))  BY ColumnCardinality
<1> HIDE DEF h
<1>4. \A T \in C : IsFiniteSet(T)  BY <1>3
<1> QED  BY <1>2, <1>4, FS_UNION DEF UnitsOf

\* A further line adds its quantity.
LEMMA UnitsOfAdd ==
  ASSUME NEW items, NEW S, IsFiniteSet(S), \A i \in S : items[i].quantity \in Nat,
         NEW x, x \notin S, items[x].quantity \in Nat
  PROVE  Cardinality(UnitsOf(items, S \cup {x})) =
           Cardinality(UnitsOf(items, S)) + items[x].quantity
<1> DEFINE Old == UnitsOf(items, S)
           New == {x} \X (1..items[x].quantity)
<1>1. UnitsOf(items, S \cup {x}) = Old \cup New
  <2>1. ASSUME NEW u
        PROVE  u \in UnitsOf(items, S \cup {x}) <=>
                 u \in Old \/ \E n \in 1..items[x].quantity : u = <<x, n>>
    <3>1. u \in UnitsOf(items, S \cup {x}) <=>
            \E i \in S \cup {x} : \E n \in 1..items[i].quantity : u = <<i, n>>
      BY UnitsOfMember
    <3>2. u \in Old <=> \E i \in S : \E n \in 1..items[i].quantity : u = <<i, n>>
      BY UnitsOfMember
    <3> QED  BY <3>1, <3>2
  <2>2. \A u : u \in New <=> \E n \in 1..items[x].quantity : u = <<x, n>>
    OBVIOUS
  <2> DEFINE All == UnitsOf(items, S \cup {x})
  <2>3. \A u : u \in All <=> u \in Old \/ u \in New  BY <2>1, <2>2
  <2> HIDE DEF All, Old, New
  <2>4. All = Old \cup New  BY <2>3
  <2> QED  BY <2>4 DEF All
<1>2. Old \cap New = {}
  <2>1. ASSUME NEW u \in Old, u \in New PROVE FALSE
    <3>1. PICK i \in S : \E n \in 1..items[i].quantity : u = <<i, n>>
      BY <2>1, UnitsOfMember
    <3>2. PICK n \in 1..items[x].quantity : u = <<x, n>>  BY <2>1
    <3> QED  BY <3>1, <3>2
  <2> QED  BY <2>1
<1>3. IsFiniteSet(Old)  BY UnitsOfFinite
<1>4. IsFiniteSet(New) /\ Cardinality(New) = items[x].quantity  BY ColumnCardinality
<1> HIDE DEF Old, New
<1> QED  BY <1>1, <1>2, <1>3, <1>4, DisjointUnion DEF Old

LEMMA UptoNone ==
  ASSUME NEW items, NEW p, NEW z
  PROVE  Upto(items, 0, p, z) = 0
<1>1. Lines(items, 0, p, z) = {}  BY DEF Lines
<1>2. UnitsOf(items, {}) = {}  BY DEF UnitsOf
<1> QED  BY <1>1, <1>2, FS_EmptySet DEF Upto

LEMMA UptoNext ==
  ASSUME NEW items \in Seq(OrderLine), NEW k \in Nat, k < Len(items), NEW p, NEW z
  PROVE  /\ Upto(items, k, p, z) \in Nat
         /\ Upto(items, k + 1, p, z) =
              IF items[k + 1].product_id = p /\ items[k + 1].zone_id = z
              THEN Upto(items, k, p, z) + items[k + 1].quantity
              ELSE Upto(items, k, p, z)
<1> DEFINE S == Lines(items, k, p, z)
<1>1. Len(items) \in Nat /\ \A i \in 1..(k + 1) : items[i].quantity \in Nat
  <2>1. Len(items) \in Nat  BY LenProperties
  <2>2. \A i \in 1..(k + 1) : i \in 1..Len(items)  BY <2>1
  <2>3. \A i \in 1..Len(items) : items[i] \in OrderLine  BY ElementOfSeq
  <2> QED  BY <2>1, <2>2, <2>3 DEF OrderLine
<1>2. IsFiniteSet(S) /\ (\A i \in S : items[i].quantity \in Nat) /\ k + 1 \notin S
  <2>1. IsFiniteSet(1..k)  BY FS_Interval
  <2>2. S \subseteq 1..k  BY DEF Lines
  <2>3. IsFiniteSet(S)  BY <2>1, <2>2, FS_Subset
  <2>4. k + 1 \notin S  BY <2>2
  <2>5. \A i \in S : i \in 1..(k + 1)  BY <2>2
  <2> HIDE DEF S
  <2> QED  BY <1>1, <2>3, <2>4, <2>5
<1>3. Upto(items, k, p, z) \in Nat
  BY <1>2, UnitsOfFinite, FS_CardinalityType DEF Upto
<1>4. CASE items[k + 1].product_id = p /\ items[k + 1].zone_id = z
  <2>1. Lines(items, k + 1, p, z) = S \cup {k + 1}  BY <1>4 DEF Lines
  <2>2. items[k + 1].quantity \in Nat  BY <1>1
  <2> HIDE DEF S
  <2>3. Cardinality(UnitsOf(items, S \cup {k + 1})) =
          Cardinality(UnitsOf(items, S)) + items[k + 1].quantity
    BY <1>2, <2>2, UnitsOfAdd
  <2> QED  BY <1>3, <1>4, <2>1, <2>3 DEF S, Upto
<1>5. CASE ~(items[k + 1].product_id = p /\ items[k + 1].zone_id = z)
  <2>1. Lines(items, k + 1, p, z) = S  BY <1>5 DEF Lines
  <2> QED  BY <1>3, <1>5, <2>1 DEF Upto
<1> QED  BY <1>3, <1>4, <1>5

----------------------------------------------------------------------------
(* Every batch has the effect the ledger promises.                         *)

\* What the changes of an event that is not about an order make of a row.
After(e, p, z, row) ==
  IF e.event_type = "PRODUCT_MOVED"
  THEN IF p = e.product_id /\ z = e.from_zone_id THEN Add(row, -e.quantity, 0)
       ELSE IF p = e.product_id /\ z = e.to_zone_id THEN Add(row, e.quantity, 0)
       ELSE row
  ELSE LET ch == Head(ProductChanges(e))
       IN  IF p = ch.product_id /\ z = ch.zone_id
           THEN Add(row, AvailableDelta(ch, row), ch.reserved)
           ELSE row

\* What the ledger promises of a row.
Promised(e, p, z, row) ==
  [available |-> Ledger!Available(e, p, z, row), reserved |-> Ledger!Reserved(e, p, z, row)]

\* What an order event adds to a row for n of its units.
OrderAvailable(e, n) == IF e.event_type = "ORDER_CREATED" THEN -n ELSE 0
OrderReserved(e, n) == IF e.event_type = "ORDER_CREATED" THEN n ELSE -n

OrderChange(e, line) ==
  Delta(line.product_id, line.zone_id,
        OrderAvailable(e, line.quantity), OrderReserved(e, line.quantity))

\* The call has made the changes of the first k lines of its order.
OrderProgress(c) ==
  LET e == task[c].event
      todo == task[c].todo
      items == task[c].order_update.items
  IN  /\ task[c].order_update \in OrderRecord
      /\ \E k \in 0..Len(items) :
           /\ Len(todo) = Len(items) - k
           /\ \A i \in 1..Len(todo) : todo[i] = OrderChange(e, items[k + i])
           /\ \A p \in Products, z \in Zones :
                ZoneView(c, p, z) = Add(inventory_by_product_zone[p][z],
                                        OrderAvailable(e, Upto(items, k, p, z)),
                                        OrderReserved(e, Upto(items, k, p, z)))

\* The call has made none of the changes of its event, the first of the two
\* changes of a move, or all of them.
ProductProgress(c) ==
  LET e == task[c].event
      todo == task[c].todo
      stock == inventory_by_product_zone
  IN  \/ /\ todo = ProductChanges(e)
         /\ \A p \in Products, z \in Zones : ZoneView(c, p, z) = stock[p][z]
      \/ /\ e.event_type = "PRODUCT_MOVED" /\ todo = Tail(ProductChanges(e))
         /\ \A p \in Products, z \in Zones :
              ZoneView(c, p, z) =
                IF p = e.product_id /\ z = e.from_zone_id THEN Add(stock[p][z], -e.quantity, 0)
                ELSE stock[p][z]
      \/ /\ todo = <<>>
         /\ \A p \in Products, z \in Zones : ZoneView(c, p, z) = After(e, p, z, stock[p][z])

\* The call has got past the duplicate check with a valid event.
Underway(t) ==
  t.pc \in {"get_last_sequence", "get_order", "batch"} /\ validate_event(t.event)

\* The checks a call has made would come out the same now.
ChecksStand(c) ==
  LET t == task[c]
      e == t.event
  IN  /\ Underway(t) => RecordOf(e) = None
      /\ t.pc = "get_order" \/ (t.pc = "batch" /\ t.status = "PROCESSED")
           => ~OutOfOrder(e, LastSequence(e))
      /\ t.pc = "batch" /\ t.status # "PROCESSED" => OutOfOrder(e, LastSequence(e))

EffectHolds(c) ==
  LET t == task[c]
      e == t.event
      order == orders_by_id[e.order_id]
  IN  t.pc = "batch" =>
        \/ t.status = "IGNORED_OUT_OF_ORDER" /\ HoldsNothing(t)
        \/ /\ t.status = "PROCESSED" /\ ~IsOrderEvent(e) /\ t.order_update = None
           /\ ProductProgress(c)
        \/ /\ t.status = "PROCESSED" /\ e.event_type = "ORDER_CREATED" /\ order = None
           /\ t.order_update = [status |-> "CREATED", items |-> e.items]
           /\ OrderProgress(c)
        \/ /\ t.status = "PROCESSED" /\ e.event_type = "ORDER_COMPLETED"
           /\ order # None /\ order.status # "COMPLETED"
           /\ t.order_update = [status |-> "COMPLETED", items |-> order.items]
           /\ OrderProgress(c)

EffectInv == TypeInv /\ \A c \in Consumers : ChecksStand(c) /\ EffectHolds(c)

\* The fields of a valid event that is not about an order.
LEMMA ProductEvent ==
  ASSUME NEW e \in Events, validate_event(e), ~IsOrderEvent(e)
  PROVE  /\ e.event_type \in {"PRODUCT_RECEIVED", "PRODUCT_SHIPPED", "PRODUCT_RESERVED",
                              "PRODUCT_RELEASED", "PRODUCT_MOVED", "INVENTORY_COUNTED"}
         /\ e.event_type # "INVENTORY_COUNTED" => e.quantity \in Nat
         /\ e.event_type = "INVENTORY_COUNTED" => e.counted_quantity \in Nat
         /\ e.event_type = "PRODUCT_MOVED" => e.from_zone_id # e.to_zone_id
<1>1. e \in WarehouseEvent  BY EventsAssumption
<1>2. e.event_type \in EventType \ {"ORDER_CREATED", "ORDER_COMPLETED"}
      /\ e.quantity \in Optional(Int) /\ e.counted_quantity \in Optional(Int)
  BY <1>1 DEF WarehouseEvent, IsOrderEvent
<1>3. e.event_type # "INVENTORY_COUNTED" => require_positive_quantity(e.quantity)
  BY <1>2 DEF EventType, validate_event, require_product_zone_quantity, require_move
<1>4. e.event_type = "INVENTORY_COUNTED" => require_non_negative_count(e.counted_quantity)
  BY DEF validate_event, require_count
<1>5. e.event_type = "PRODUCT_MOVED" => e.from_zone_id # e.to_zone_id
  BY DEF validate_event, require_move
<1> QED
  BY <1>2, <1>3, <1>4, <1>5
  DEF EventType, require_positive_quantity, require_non_negative_count, Optional

\* An event of one change has the effect of that change.
LEMMA OneChange ==
  ASSUME NEW e \in Events, validate_event(e), ~IsOrderEvent(e),
         e.event_type # "PRODUCT_MOVED", NEW p, NEW z, NEW row \in Row
  PROVE  LET ch == Head(ProductChanges(e))
         IN  /\ ProductChanges(e) # <<>> /\ Tail(ProductChanges(e)) = <<>>
             /\ Promised(e, p, z, row) =
                  IF p = ch.product_id /\ z = ch.zone_id
                  THEN Add(row, AvailableDelta(ch, row), ch.reserved)
                  ELSE row
<1> DEFINE q == e.quantity
           n == e.counted_quantity
           change == IF e.event_type = "PRODUCT_RECEIVED" THEN Delta(e.product_id, e.zone_id, q, 0)
                     ELSE IF e.event_type = "PRODUCT_SHIPPED"
                     THEN Delta(e.product_id, e.zone_id, -q, 0)
                     ELSE IF e.event_type = "PRODUCT_RESERVED"
                     THEN Delta(e.product_id, e.zone_id, -q, q)
                     ELSE IF e.event_type = "PRODUCT_RELEASED"
                     THEN Delta(e.product_id, e.zone_id, q, -q)
                     ELSE SetAvailable(e.product_id, e.zone_id, n)
<1>1. ProductChanges(e) = <<change>>
  BY ProductEvent DEF ProductChanges
<1>2. change.product_id = e.product_id /\ change.zone_id = e.zone_id
  BY DEF Delta, SetAvailable
<1>3. row = [available |-> row.available, reserved |-> row.reserved]
      /\ row.available \in Nat /\ row.reserved \in Nat
  BY DEF Row
<1>4. CASE e.event_type = "INVENTORY_COUNTED"
  <2>1. n \in Nat /\ n # None  BY <1>4, ProductEvent, NoneAssumption
  <2>2. change = SetAvailable(e.product_id, e.zone_id, n)  BY <1>4
  <2>3. AvailableDelta(change, row) = n - row.available /\ change.reserved = 0
    BY <2>1, <2>2 DEF AvailableDelta, SetAvailable
  <2>4. Add(row, n - row.available, 0) = [available |-> n, reserved |-> row.reserved]
    BY <1>3, <2>1 DEF Add
  <2>5. Promised(e, p, z, row) = IF p = e.product_id /\ z = e.zone_id
                              THEN [available |-> n, reserved |-> row.reserved] ELSE row
    BY <1>3, <1>4 DEF Promised, Ledger!Available, Ledger!Reserved
  <2> HIDE DEF change
  <2> QED  BY <1>1, <1>2, <2>3, <2>4, <2>5
<1>5. CASE e.event_type # "INVENTORY_COUNTED"
  <2> DEFINE a == IF e.event_type \in {"PRODUCT_RECEIVED", "PRODUCT_RELEASED"} THEN q ELSE -q
             r == IF e.event_type = "PRODUCT_RESERVED" THEN q
                  ELSE IF e.event_type = "PRODUCT_RELEASED" THEN -q ELSE 0
  <2>1. q \in Nat  BY <1>5, ProductEvent
  <2>2. change = Delta(e.product_id, e.zone_id, a, r)
    BY <1>5, ProductEvent
  <2>3. AvailableDelta(change, row) = a /\ change.reserved = r
    BY <2>2 DEF AvailableDelta, Delta
  <2>4. Ledger!Available(e, p, z, row) =
          row.available + (IF p = e.product_id /\ z = e.zone_id THEN a ELSE 0)
    BY <1>3, <1>5, <2>1, ProductEvent DEF Ledger!Available, Ledger!Units
  <2>5. Ledger!Reserved(e, p, z, row) =
          row.reserved + (IF p = e.product_id /\ z = e.zone_id THEN r ELSE 0)
    BY <1>3, <1>5, <2>1, ProductEvent DEF Ledger!Reserved, Ledger!Units
  <2>6. Promised(e, p, z, row) =
          IF p = e.product_id /\ z = e.zone_id THEN Add(row, a, r) ELSE row
    BY <1>3, <2>4, <2>5 DEF Promised, Add
  <2> HIDE DEF change, a, r
  <2> QED  BY <1>1, <1>2, <2>3, <2>6
<1> QED  BY <1>4, <1>5

\* The two changes of a move have the effect of the move.
LEMMA TwoChanges ==
  ASSUME NEW e \in Events, validate_event(e), e.event_type = "PRODUCT_MOVED",
         NEW p, NEW z, NEW row \in Row
  PROVE  Promised(e, p, z, row) =
           IF p = e.product_id /\ z = e.from_zone_id THEN Add(row, -e.quantity, 0)
           ELSE IF p = e.product_id /\ z = e.to_zone_id THEN Add(row, e.quantity, 0)
           ELSE row
<1>1. e.quantity \in Nat /\ e.from_zone_id # e.to_zone_id
  BY ProductEvent DEF IsOrderEvent
<1>2. row = [available |-> row.available, reserved |-> row.reserved]
      /\ row.available \in Nat /\ row.reserved \in Nat
  BY DEF Row
<1>3. Ledger!Reserved(e, p, z, row) = row.reserved
  BY DEF Ledger!Reserved
<1>4. Ledger!Available(e, p, z, row) =
        row.available - (IF p = e.product_id /\ z = e.from_zone_id THEN e.quantity ELSE 0)
                      + (IF p = e.product_id /\ z = e.to_zone_id THEN e.quantity ELSE 0)
  BY DEF Ledger!Available, Ledger!Units
<1> QED  BY <1>1, <1>2, <1>3, <1>4 DEF Promised, Add

LEMMA ProductPromise ==
  ASSUME NEW e \in Events, validate_event(e), ~IsOrderEvent(e), NEW p, NEW z, NEW row \in Row
  PROVE  Promised(e, p, z, row) = After(e, p, z, row)
<1>1. CASE e.event_type = "PRODUCT_MOVED"  BY <1>1, TwoChanges DEF After
<1>2. CASE e.event_type # "PRODUCT_MOVED"  BY <1>2, OneChange DEF After
<1> QED  BY <1>1, <1>2

\* The changes of an order, line by line.
LEMMA OrderChanges ==
  ASSUME NEW e, NEW items \in Seq(OrderLine), NEW todo,
         \/ e.event_type = "ORDER_CREATED" /\ todo = ReserveItems(items)
         \/ e.event_type = "ORDER_COMPLETED" /\ todo = ShipItems(items)
  PROVE  /\ Len(todo) = Len(items)
         /\ \A i \in 1..Len(todo) : todo[i] = OrderChange(e, items[i])
<1>1. Len(items) \in Nat  BY LenProperties
<1>2. todo = [i \in 1..Len(items) |-> OrderChange(e, items[i])]
  BY DEF ReserveItems, ShipItems, OrderChange, OrderAvailable, OrderReserved
<1>3. Len([i \in 1..Len(items) |-> OrderChange(e, items[i])]) = Len(items)
  BY <1>1
<1> QED  BY <1>2, <1>3

LEMMA OrderAdd ==
  ASSUME NEW e, NEW row \in Row, NEW m \in Nat, NEW n \in Nat
  PROVE  /\ Add(row, OrderAvailable(e, 0), OrderReserved(e, 0)) = row
         /\ Add(Add(row, OrderAvailable(e, m), OrderReserved(e, m)),
                OrderAvailable(e, n), OrderReserved(e, n))
              = Add(row, OrderAvailable(e, m + n), OrderReserved(e, m + n))
<1>1. row = [available |-> row.available, reserved |-> row.reserved]
      /\ row.available \in Nat /\ row.reserved \in Nat
  BY DEF Row
<1> QED  BY <1>1 DEF Add, OrderAvailable, OrderReserved

\* A call begins with none of its changes made.
LEMMA EffectBegins ==
  ASSUME TypeInv, TypeInv', NEW c \in Consumers, task'[c].pc = "batch",
         UNCHANGED tables, Begins(c), SeesTables(c)'
  PROVE  EffectHolds(c)'
<1> DEFINE e == task[c].event
           t == task'[c]
           order == orders_by_id[e.order_id]
<1>1. /\ validate_event(e) /\ t.event = e /\ UNCHANGED <<orders_by_id, entity_versions>>
      /\ e \in Events
  BY DEF Begins, tables, TypeInv, CallOK, CallConsistent
<1>2. \A p \in Products, z \in Zones :
        /\ inventory_by_product_zone[p][z] \in Row
        /\ ZoneView(c, p, z)' = inventory_by_product_zone[p][z]
        /\ inventory_by_product_zone'[p][z] = inventory_by_product_zone[p][z]
  BY DEF TypeInv, TypeOK, SeesTables, tables
<1>3. CASE t.status = "IGNORED_OUT_OF_ORDER" /\ HoldsNothing(t)
  BY <1>3 DEF EffectHolds, HoldsNothing
<1>4. CASE /\ t.status = "PROCESSED" /\ ~IsOrderEvent(e)
           /\ t.todo = ProductChanges(e) /\ t.order_update = None
  <2>1. ProductProgress(c)'  BY <1>1, <1>2, <1>4 DEF ProductProgress
  <2> QED  BY <1>1, <1>4, <2>1 DEF EffectHolds, IsOrderEvent
<1>5. ASSUME NEW items \in Seq(OrderLine), t.order_update.items = items,
             t.order_update \in OrderRecord,
             \/ e.event_type = "ORDER_CREATED" /\ t.todo = ReserveItems(items)
             \/ e.event_type = "ORDER_COMPLETED" /\ t.todo = ShipItems(items)
      PROVE  OrderProgress(c)'
  <2>1. /\ Len(t.todo) = Len(items) - 0 /\ 0 \in 0..Len(items)
        /\ \A i \in 1..Len(t.todo) : t.todo[i] = OrderChange(e, items[0 + i])
    <3> HIDE DEF t, e
    <3>1. Len(items) \in Nat  BY LenProperties
    <3>2. ASSUME NEW todo, todo = t.todo
          PROVE  /\ Len(todo) = Len(items)
                 /\ \A i \in 1..Len(todo) : todo[i] = OrderChange(e, items[i])
      <4>1. CASE e.event_type = "ORDER_CREATED" /\ todo = ReserveItems(items)
        BY <4>1, OrderChanges
      <4>2. CASE e.event_type = "ORDER_COMPLETED" /\ todo = ShipItems(items)
        BY <4>2, OrderChanges
      <4> QED  BY <1>5, <3>2, <4>1, <4>2
    <3> QED  BY <3>1, <3>2
  <2>2. ASSUME NEW p \in Products, NEW z \in Zones
        PROVE  ZoneView(c, p, z)' = Add(inventory_by_product_zone'[p][z],
                                        OrderAvailable(e, Upto(items, 0, p, z)),
                                        OrderReserved(e, Upto(items, 0, p, z)))
    BY <1>2, OrderAdd, UptoNone
  <2> QED  BY <1>1, <1>5, <2>1, <2>2 DEF OrderProgress
<1>6. CASE /\ t.status = "PROCESSED" /\ e.event_type = "ORDER_CREATED" /\ order = None
           /\ t.todo = ReserveItems(e.items)
           /\ t.order_update = [status |-> "CREATED", items |-> e.items]
  <2>1. e.items \in Seq(OrderLine)  BY <1>1, <1>6, ValidItems
  <2>2. OrderProgress(c)'  BY <1>5, <1>6, <2>1 DEF OrderRecord
  <2> QED  BY <1>1, <1>6, <2>2 DEF EffectHolds
<1>7. CASE /\ t.status = "PROCESSED" /\ e.event_type = "ORDER_COMPLETED"
           /\ order # None /\ order.status # "COMPLETED"
           /\ t.todo = ShipItems(order.items)
           /\ t.order_update = [status |-> "COMPLETED", items |-> order.items]
  <2>1. e.order_id \in Orders
    BY <1>1, <1>7, EventsAssumption DEF validate_event, require_field, WarehouseEvent, Optional
  <2>2. order.items \in Seq(OrderLine)
    BY <1>7, <2>1 DEF TypeInv, TypeOK, Optional, OrderRecord
  <2>3. OrderProgress(c)'  BY <1>5, <1>7, <2>2 DEF OrderRecord
  <2> QED  BY <1>1, <1>7, <2>3 DEF EffectHolds
<1> QED  BY <1>3, <1>4, <1>6, <1>7 DEF Begins

\* A change of a call that is about an order is the one of the next line.
LEMMA OrderProgresses ==
  ASSUME TypeInv, NEW c \in Consumers, UNCHANGED tables, Changing(c), ChangeMade(c),
         OrderProgress(c)
  PROVE  OrderProgress(c)'
<1> DEFINE e == task[c].event
           todo == task[c].todo
           items == task[c].order_update.items
           ch == Head(todo)
<1>1. items \in Seq(OrderLine) /\ Len(items) \in Nat
  BY LenProperties DEF OrderProgress, OrderRecord
<1>2. PICK k \in 0..Len(items) :
        /\ Len(todo) = Len(items) - k
        /\ \A i \in 1..Len(todo) : todo[i] = OrderChange(e, items[k + i])
        /\ \A p \in Products, z \in Zones :
             ZoneView(c, p, z) = Add(inventory_by_product_zone[p][z],
                                     OrderAvailable(e, Upto(items, k, p, z)),
                                     OrderReserved(e, Upto(items, k, p, z)))
  BY DEF OrderProgress
<1>3. /\ todo \in Seq(Change) /\ todo # <<>> /\ ch = todo[1] /\ Tail(todo) \in Seq(Change)
      /\ Len(todo) \in Nat \ {0} /\ Len(Tail(todo)) = Len(todo) - 1
      /\ \A i \in 1..Len(Tail(todo)) : Tail(todo)[i] = todo[i + 1]
  BY EmptySeq, LenProperties, HeadTailProperties DEF Changing, TypeInv, TypeOK, Task
<1>4. k \in Nat /\ k < Len(items) /\ k + 1 \in 0..Len(items) /\ k + 1 \in 1..Len(items)
  <2> HIDE DEF items, todo, e
  <2> QED  BY <1>1, <1>2, <1>3
<1> DEFINE line == items[k + 1]
           q == line.quantity
<1>5. line \in OrderLine /\ q \in Nat
  <2> HIDE DEF items
  <2>1. line \in OrderLine  BY <1>1, <1>4, ElementOfSeq
  <2> QED  BY <2>1 DEF OrderLine
<1>6. ch = OrderChange(e, line)
  <2> HIDE DEF items, todo, e, ch
  <2> QED  BY <1>2, <1>3
<1>7. /\ ch.product_id = line.product_id /\ ch.zone_id = line.zone_id
      /\ ch.reserved = OrderReserved(e, q)
      /\ \A row : AvailableDelta(ch, row) = OrderAvailable(e, q)
  <2> HIDE DEF line, ch, e
  <2> QED  BY <1>6 DEF OrderChange, Delta, AvailableDelta, q
<1>8. /\ Len(Tail(todo)) = Len(items) - (k + 1)
      /\ \A i \in 1..Len(Tail(todo)) : Tail(todo)[i] = OrderChange(e, items[(k + 1) + i])
  <2> HIDE DEF items, todo, e, ch, line, q
  <2>1. ASSUME NEW i \in 1..Len(Tail(todo))
        PROVE  Tail(todo)[i] = OrderChange(e, items[(k + 1) + i])
    <3>1. i \in Nat /\ i + 1 \in 1..Len(todo) /\ k + (i + 1) = (k + 1) + i
      BY <1>2, <1>3
    <3> QED  BY <1>2, <1>3, <3>1
  <2> QED  BY <1>1, <1>2, <1>3, <2>1
<1>9. ASSUME NEW p \in Products, NEW z \in Zones
      PROVE  ZoneView(c, p, z)' =
               Add(inventory_by_product_zone[p][z],
                   OrderAvailable(e, Upto(items, k + 1, p, z)),
                   OrderReserved(e, Upto(items, k + 1, p, z)))
  <2> DEFINE row == inventory_by_product_zone[p][z]
             m == Upto(items, k, p, z)
  <2>1. row \in Row  BY DEF TypeInv, TypeOK
  <2>2. ZoneView(c, p, z) = Add(row, OrderAvailable(e, m), OrderReserved(e, m))  BY <1>2
  <2>3. m \in Nat /\ Upto(items, k + 1, p, z) =
          IF line.product_id = p /\ line.zone_id = z THEN m + q ELSE m
    BY <1>1, <1>4, UptoNext
  <2>4. ZoneView(c, p, z)' =
          IF p = line.product_id /\ z = line.zone_id
          THEN Add(ZoneView(c, p, z), OrderAvailable(e, q), OrderReserved(e, q))
          ELSE ZoneView(c, p, z)
    BY <1>7 DEF ChangeMade
  <2> HIDE DEF row, m, q, line, e, items
  <2>5. Add(Add(row, OrderAvailable(e, m), OrderReserved(e, m)),
            OrderAvailable(e, q), OrderReserved(e, q))
          = Add(row, OrderAvailable(e, m + q), OrderReserved(e, m + q))
    BY <1>5, <2>1, <2>3, OrderAdd
  <2>6. CASE line.product_id = p /\ line.zone_id = z
    <3>1. Upto(items, k + 1, p, z) = m + q  BY <2>3, <2>6
    <3>2. ZoneView(c, p, z)' = Add(row, OrderAvailable(e, m + q), OrderReserved(e, m + q))
      BY <2>2, <2>4, <2>5, <2>6
    <3> QED  BY <3>1, <3>2 DEF row
  <2>7. CASE ~(line.product_id = p /\ line.zone_id = z)
    <3>1. Upto(items, k + 1, p, z) = m  BY <2>3, <2>7
    <3>2. ZoneView(c, p, z)' = Add(row, OrderAvailable(e, m), OrderReserved(e, m))
      BY <2>2, <2>4, <2>7
    <3> QED  BY <3>1, <3>2 DEF row
  <2> QED  BY <2>6, <2>7
<1>10. /\ task'[c].event = e /\ task'[c].todo = Tail(todo) /\ task'[c].order_update.items = items
       /\ task'[c].order_update \in OrderRecord
       /\ inventory_by_product_zone' = inventory_by_product_zone
  BY DEF ChangeMade, OrderProgress, tables
<1> HIDE DEF e, todo, items
<1> QED  BY <1>4, <1>8, <1>9, <1>10 DEF OrderProgress

LEMMA ProductProgresses ==
  ASSUME TypeInv, NEW c \in Consumers, UNCHANGED tables, Changing(c), ChangeMade(c),
         ProductProgress(c), ~IsOrderEvent(task[c].event)
  PROVE  ProductProgress(c)'
<1> DEFINE e == task[c].event
           todo == task[c].todo
           ch == Head(todo)
           stock == inventory_by_product_zone
<1>1. /\ todo # <<>> /\ task'[c].todo = Tail(todo) /\ task'[c].event = e
      /\ stock' = stock /\ e \in Events /\ validate_event(e)
  BY ChangingType DEF Changing, ChangeMade, tables, CallConsistent
<1>2. ch.product_id \in Products /\ ch.zone_id \in Zones
  BY ChangingType DEF Change
<1>3. \A p \in Products, z \in Zones :
        /\ stock[p][z] \in Row
        /\ ZoneView(c, p, z)' =
             IF p = ch.product_id /\ z = ch.zone_id
             THEN Add(ZoneView(c, p, z), AvailableDelta(ch, ZoneView(c, p, z)), ch.reserved)
             ELSE ZoneView(c, p, z)
  BY <1>2 DEF ChangeMade, TypeInv, TypeOK
<1>4. ASSUME Tail(todo) = <<>>,
             \A p \in Products, z \in Zones : ZoneView(c, p, z)' = After(e, p, z, stock[p][z])
      PROVE  ProductProgress(c)'
  BY <1>1, <1>4 DEF ProductProgress
<1>5. CASE /\ e.event_type # "PRODUCT_MOVED" /\ todo = ProductChanges(e)
           /\ \A p \in Products, z \in Zones : ZoneView(c, p, z) = stock[p][z]
  <2>1. Tail(todo) = <<>>
    <3>1. PICK p \in Products, z \in Zones : stock[p][z] \in Row  BY <1>2, <1>3
    <3> QED  BY <1>1, <1>5, <3>1, OneChange
  <2>2. \A p \in Products, z \in Zones : ZoneView(c, p, z)' = After(e, p, z, stock[p][z])
    BY <1>3, <1>5 DEF After
  <2> QED  BY <1>4, <2>1, <2>2
<1>6. CASE e.event_type = "PRODUCT_MOVED"
  <2> DEFINE q == e.quantity
  <2>1. /\ q \in Nat /\ e.from_zone_id # e.to_zone_id  BY <1>1, <1>6, ProductEvent
  <2>2. ASSUME todo = ProductChanges(e),
               \A p \in Products, z \in Zones : ZoneView(c, p, z) = stock[p][z]
        PROVE  ProductProgress(c)'
    <3>1. ch = Delta(e.product_id, e.from_zone_id, -q, 0)  BY <1>6, <2>2, MoveChanges
    <3>2. /\ ch.product_id = e.product_id /\ ch.zone_id = e.from_zone_id /\ ch.reserved = 0
          /\ \A row : AvailableDelta(ch, row) = -q
      BY <3>1 DEF Delta, AvailableDelta
    <3>3. \A p \in Products, z \in Zones :
            ZoneView(c, p, z)' =
              IF p = e.product_id /\ z = e.from_zone_id THEN Add(stock[p][z], -q, 0)
              ELSE stock[p][z]
      BY <1>3, <2>2, <3>2
    <3> QED  BY <1>1, <1>6, <2>2, <3>3 DEF ProductProgress
  <2>3. ASSUME todo = Tail(ProductChanges(e)),
               \A p \in Products, z \in Zones :
                 ZoneView(c, p, z) =
                   IF p = e.product_id /\ z = e.from_zone_id THEN Add(stock[p][z], -q, 0)
                   ELSE stock[p][z]
        PROVE  ProductProgress(c)'
    <3>1. ch = Delta(e.product_id, e.to_zone_id, q, 0) /\ Tail(todo) = <<>>
      BY <1>6, <2>3, MoveChanges
    <3>2. /\ ch.product_id = e.product_id /\ ch.zone_id = e.to_zone_id /\ ch.reserved = 0
          /\ \A row : AvailableDelta(ch, row) = q
      BY <3>1 DEF Delta, AvailableDelta
    <3>3. ASSUME NEW p \in Products, NEW z \in Zones
          PROVE  ZoneView(c, p, z)' = After(e, p, z, stock[p][z])
      <4>1. ZoneView(c, p, z)' =
              IF p = e.product_id /\ z = e.to_zone_id THEN Add(ZoneView(c, p, z), q, 0)
              ELSE ZoneView(c, p, z)
        BY <1>3, <3>2
      <4>2. ZoneView(c, p, z) =
              IF p = e.product_id /\ z = e.from_zone_id THEN Add(stock[p][z], -q, 0)
              ELSE stock[p][z]
        BY <2>3
      <4> HIDE DEF e
      <4> QED  BY <1>6, <2>1, <4>1, <4>2 DEF After
    <3> QED  BY <1>4, <3>1, <3>3
  <2> QED  BY <1>1, <2>2, <2>3 DEF ProductProgress
<1> QED  BY <1>1, <1>5, <1>6 DEF ProductProgress

\* Nothing the call reads or writes is about product p.
Foreign(t, p) ==
  /\ HoldsNoRow(t, p)
  /\ ~IsOrderEvent(t.event) => t.event.product_id # p
  /\ t.order_update # None =>
       \A i \in DOMAIN t.order_update.items : t.order_update.items[i].product_id # p

\* Two calls at the same time have nothing in common.
Independent ==
  \A c, d \in Consumers :
    c # d /\ Underway(task[c]) /\ Underway(task[d]) =>
      LET e == task[c].event
          f == task[d].event
      IN  /\ e.event_id # f.event_id
          /\ resolved_entity_key(e) # resolved_entity_key(f)
          /\ IsOrderEvent(e) /\ IsOrderEvent(f) => e.order_id # f.order_id
          /\ \A p \in Products : HoldsNoRow(task[c], p) \/ Foreign(task[d], p)

LEMMA OneCallIndependent == SingleConsumer => Independent
BY DEF SingleConsumer, Independent

LEMMA IndependentApart ==
  ASSUME TypeInv, Independent
  PROVE  CallsApart
<1> SUFFICES ASSUME NEW c \in Consumers, NEW d \in Consumers, c # d, NEW p \in Products,
                    ~HoldsNoRow(task[c], p), ~HoldsNoRow(task[d], p)
             PROVE  FALSE
  BY DEF CallsApart
<1>1. ASSUME NEW b \in Consumers, ~HoldsNoRow(task[b], p) PROVE Underway(task[b])
  <2>1. CallConsistent(task[b])  BY DEF TypeInv, CallOK
  <2>2. task[b].pc = "batch"  BY <1>1, <2>1 DEF CallConsistent, HoldsNoRow
  <2> QED  BY <2>1, <2>2 DEF CallConsistent, Underway
<1> QED  BY <1>1 DEF Independent, Foreign

\* The batch of another call changes nothing that the call relies on.
LEMMA OthersBatchApart ==
  ASSUME EffectInv, Independent, NEW c \in Consumers, NEW d \in Consumers, c # d,
         BatchReady(c), ApplyBatch(c), Underway(task[d])
  PROVE  LET e == task[d].event
         IN  /\ processed_events'[e.event_id] = processed_events[e.event_id]
             /\ entity_versions'[resolved_entity_key(e)] = entity_versions[resolved_entity_key(e)]
             /\ IsOrderEvent(e) => orders_by_id'[e.order_id] = orders_by_id[e.order_id]
             /\ \A p \in Products :
                  \/ Foreign(task[d], p)
                  \/ \A z \in Zones :
                       inventory_by_product_zone'[p][z] = inventory_by_product_zone[p][z]
<1> DEFINE e == task[c].event
           f == task[d].event
<1>1. /\ TypeOK /\ e \in Events /\ f \in Events /\ validate_event(e) /\ validate_event(f)
      /\ Underway(task[c]) /\ EffectHolds(c)
  BY DEF EffectInv, TypeInv, CallOK, CallConsistent, BatchReady, Underway
<1>2. /\ e.event_id # f.event_id /\ resolved_entity_key(e) # resolved_entity_key(f)
      /\ IsOrderEvent(e) /\ IsOrderEvent(f) => e.order_id # f.order_id
      /\ \A p \in Products : HoldsNoRow(task[c], p) \/ Foreign(task[d], p)
  BY <1>1 DEF Independent
<1>3. /\ f.event_id \in EventIds /\ resolved_entity_key(f) \in VersionKeys
      /\ IsOrderEvent(f) => f.order_id \in Orders
  <2>1. f.event_id \in EventIds /\ f.order_id \in Optional(Orders)
    BY <1>1, EventsAssumption DEF WarehouseEvent
  <2>2. resolved_entity_key(f) \in VersionKeys  BY <1>1 DEF VersionKeys
  <2>3. IsOrderEvent(f) => require_field(f.order_id)
    BY <1>1 DEF IsOrderEvent, validate_event, require_order_items
  <2> QED  BY <2>1, <2>2, <2>3 DEF require_field, Optional
<1>4. processed_events'[f.event_id] = processed_events[f.event_id]
  BY <1>1, <1>2, <1>3 DEF TypeOK, ApplyBatch
<1>5. entity_versions'[resolved_entity_key(f)] = entity_versions[resolved_entity_key(f)]
  BY <1>1, <1>2, <1>3 DEF TypeOK, ApplyBatch
<1>6. ASSUME IsOrderEvent(f) PROVE orders_by_id'[f.order_id] = orders_by_id[f.order_id]
  <2>1. CASE task[c].order_update = None  BY <2>1 DEF ApplyBatch
  <2>2. CASE task[c].order_update # None
    <3>1. IsOrderEvent(e)
      BY <1>1, <2>2 DEF EffectHolds, BatchReady, HoldsNothing, IsOrderEvent
    <3>2. orders_by_id' = [orders_by_id EXCEPT ![e.order_id] = task[c].order_update]
      BY <2>2 DEF ApplyBatch
    <3> QED  BY <1>1, <1>2, <1>3, <1>6, <3>1, <3>2 DEF TypeOK
  <2> QED  BY <2>1, <2>2
<1>7. ASSUME NEW p \in Products, HoldsNoRow(task[c], p), NEW z \in Zones
      PROVE  inventory_by_product_zone'[p][z] = inventory_by_product_zone[p][z]
  BY <1>7 DEF HoldsNoRow, ApplyBatch, Overlay
<1> QED  BY <1>2, <1>4, <1>5, <1>6, <1>7

LEMMA UptoForeign ==
  ASSUME NEW items \in Seq(OrderLine), NEW p, NEW z, NEW k \in 0..Len(items),
         \A i \in DOMAIN items : items[i].product_id # p
  PROVE  Upto(items, k, p, z) = 0
<1>1. Len(items) \in Nat /\ DOMAIN items = 1..Len(items)  BY LenProperties
<1>2. \A i \in 1..k : i \in DOMAIN items  BY <1>1
<1>3. Lines(items, k, p, z) = {}  BY <1>2 DEF Lines
<1>4. UnitsOf(items, {}) = {}  BY DEF UnitsOf
<1> QED  BY <1>3, <1>4, FS_EmptySet DEF Upto

\* What a call has checked holds until its batch.
LEMMA ChecksStep ==
  ASSUME EffectInv, Independent, [Next]_vars, NEW d \in Consumers
  PROVE  ChecksStand(d)'
<1> DEFINE e == task[d].event
<1>0. /\ TypeInv /\ ChecksStand(d) /\ CallConsistent(task[d])
  BY DEF EffectInv, TypeInv, CallOK
<1>1. ASSUME UNCHANGED tables, task'[d].pc = task[d].pc, task'[d].event = e,
             task'[d].status = task[d].status
      PROVE  ChecksStand(d)'
  BY <1>0, <1>1 DEF ChecksStand, Underway, RecordOf, LastSequence, OutOfOrder, tables
<1>2. ASSUME NEW c \in Consumers \ {d}, BatchReady(c), ApplyBatch(c), task'[d] = task[d]
      PROVE  ChecksStand(d)'
  <2>1. CASE Underway(task[d])
    <3>1. /\ processed_events'[e.event_id] = processed_events[e.event_id]
          /\ entity_versions'[resolved_entity_key(e)] = entity_versions[resolved_entity_key(e)]
      BY <1>2, <2>1, OthersBatchApart
    <3> QED
      BY <1>0, <1>2, <3>1 DEF ChecksStand, Underway, RecordOf, LastSequence, OutOfOrder
  <2>2. CASE ~Underway(task[d])
    <3>1. task[d].pc \notin {"get_order", "batch"}
      BY <1>0, <2>2 DEF CallConsistent, Underway
    <3> QED  BY <1>2, <2>2, <3>1 DEF ChecksStand, Underway
  <2> QED  BY <2>1, <2>2
<1>3. ASSUME UNCHANGED tables, task'[d].event = e, RecordOf(e) = None,
             task'[d].pc = "get_last_sequence"
      PROVE  ChecksStand(d)'
  BY <1>3 DEF ChecksStand, RecordOf, tables
<1>4. ASSUME UNCHANGED tables, task'[d].event = e, task[d].pc = "get_last_sequence",
             task'[d].pc = "get_order", ~OutOfOrder(e, LastSequence(e))
      PROVE  ChecksStand(d)'
  BY <1>0, <1>4 DEF ChecksStand, Underway, RecordOf, LastSequence, OutOfOrder, tables
<1>5. ASSUME UNCHANGED tables, Begins(d), task'[d].pc = "batch"
      PROVE  ChecksStand(d)'
  <2>1. /\ task'[d].event = e /\ validate_event(e)
        /\ task[d].pc \in {"get_last_sequence", "get_order"}
    BY <1>5 DEF Begins
  <2>2. RecordOf(e) = None  BY <1>0, <2>1 DEF ChecksStand, Underway
  <2>3. CASE task[d].pc = "get_last_sequence"
    BY <1>5, <2>1, <2>2, <2>3 DEF Begins, ChecksStand, RecordOf, LastSequence, OutOfOrder, tables
  <2>4. CASE task[d].pc = "get_order"
    <3>1. ~OutOfOrder(e, LastSequence(e))  BY <1>0, <2>4 DEF ChecksStand
    <3>2. task'[d].status = "PROCESSED"  BY <1>5, <2>4 DEF Begins
    <3> QED
      BY <1>5, <2>1, <2>2, <3>1, <3>2
      DEF ChecksStand, RecordOf, LastSequence, OutOfOrder, tables
  <2> QED  BY <2>1, <2>3, <2>4
<1>6. CASE task'[d].pc = "batch"
  BY <1>0, <1>1, <1>2, <1>5, <1>6, BatchMoves DEF SameCall, Changing, ChangeMade
<1>7. CASE task'[d].pc \in {"get_last_sequence", "get_order"}
  BY <1>0, <1>1, <1>2, <1>3, <1>4, <1>7, CheckMoves
<1>8. CASE task'[d].pc \notin {"get_last_sequence", "get_order", "batch"}
  BY <1>8 DEF ChecksStand, Underway
<1> QED  BY <1>6, <1>7, <1>8

\* The batch of another call leaves what the call has done so far as it is.
LEMMA EffectApart ==
  ASSUME EffectInv, TypeInv', Independent, NEW c \in Consumers, NEW d \in Consumers, c # d,
         BatchReady(c), ApplyBatch(c), task'[d] = task[d]
  PROVE  EffectHolds(d)'
<1> DEFINE t == task[d]
           e == t.event
           stock == inventory_by_product_zone
<1> SUFFICES ASSUME t.pc = "batch" PROVE EffectHolds(d)'
  BY DEF EffectHolds
<1>1. /\ EffectHolds(d) /\ e \in Events /\ validate_event(e) /\ Underway(t)
      /\ \A p \in Products, z \in Zones : stock[p][z] \in Row /\ stock'[p][z] \in Row
  BY DEF EffectInv, TypeInv, TypeOK, CallOK, CallConsistent, Underway
<1>2. /\ IsOrderEvent(e) => orders_by_id'[e.order_id] = orders_by_id[e.order_id]
      /\ \A p \in Products : \/ Foreign(t, p)
                             \/ \A z \in Zones : stock'[p][z] = stock[p][z]
  BY <1>1, OthersBatchApart
<1>3. ASSUME NEW p \in Products, NEW z \in Zones
      PROVE  \/ Foreign(t, p) /\ ZoneView(d, p, z)' = stock'[p][z]
             \/ stock'[p][z] = stock[p][z] /\ ZoneView(d, p, z)' = ZoneView(d, p, z)
  <2>1. Foreign(t, p) => ZoneView(d, p, z)' = stock'[p][z]
    BY DEF Foreign, HoldsNoRow, ZoneView, Overlay
  <2>2. stock'[p][z] = stock[p][z] => ZoneView(d, p, z)' = ZoneView(d, p, z)
    BY DEF ZoneView
  <2> QED  BY <1>2, <2>1, <2>2
<1>4. ASSUME ~IsOrderEvent(e), ProductProgress(d) PROVE ProductProgress(d)'
  <2>1. ASSUME NEW p \in Products, Foreign(t, p), NEW z, NEW row
        PROVE  p # e.product_id /\ After(e, p, z, row) = row
    <3>1. p # e.product_id  BY <1>4, <2>1 DEF Foreign
    <3>2. e.event_type # "PRODUCT_MOVED" => Head(ProductChanges(e)).product_id = e.product_id
      BY <1>1, <1>4, ProductEvent DEF ProductChanges, Delta, SetAvailable
    <3> QED  BY <3>1, <3>2 DEF After
  <2>2. CASE /\ t.todo = ProductChanges(e)
             /\ \A p \in Products, z \in Zones : ZoneView(d, p, z) = stock[p][z]
    <3>1. \A p \in Products, z \in Zones : ZoneView(d, p, z)' = stock'[p][z]
      BY <1>3, <2>2
    <3> QED  BY <2>2, <3>1 DEF ProductProgress
  <2>3. CASE /\ e.event_type = "PRODUCT_MOVED" /\ t.todo = Tail(ProductChanges(e))
             /\ \A p \in Products, z \in Zones :
                  ZoneView(d, p, z) =
                    IF p = e.product_id /\ z = e.from_zone_id THEN Add(stock[p][z], -e.quantity, 0)
                    ELSE stock[p][z]
    <3>1. \A p \in Products, z \in Zones :
            ZoneView(d, p, z)' =
              IF p = e.product_id /\ z = e.from_zone_id THEN Add(stock'[p][z], -e.quantity, 0)
              ELSE stock'[p][z]
      BY <1>3, <2>1, <2>3
    <3> QED  BY <2>3, <3>1 DEF ProductProgress
  <2>4. CASE /\ t.todo = <<>>
             /\ \A p \in Products, z \in Zones : ZoneView(d, p, z) = After(e, p, z, stock[p][z])
    <3>1. \A p \in Products, z \in Zones : ZoneView(d, p, z)' = After(e, p, z, stock'[p][z])
      BY <1>3, <2>1, <2>4
    <3> QED  BY <2>4, <3>1 DEF ProductProgress
  <2> QED  BY <1>4, <2>2, <2>3, <2>4 DEF ProductProgress
<1>5. ASSUME OrderProgress(d) PROVE OrderProgress(d)'
  <2> DEFINE items == t.order_update.items
  <2>1. t.order_update \in OrderRecord /\ items \in Seq(OrderLine) /\ t.order_update # None
    BY <1>5, ValueAssumption DEF OrderProgress, OrderRecord
  <2>2. PICK k \in 0..Len(items) :
          /\ Len(t.todo) = Len(items) - k
          /\ \A i \in 1..Len(t.todo) : t.todo[i] = OrderChange(e, items[k + i])
          /\ \A p \in Products, z \in Zones :
               ZoneView(d, p, z) = Add(stock[p][z], OrderAvailable(e, Upto(items, k, p, z)),
                                                    OrderReserved(e, Upto(items, k, p, z)))
    BY <1>5 DEF OrderProgress
  <2>3. ASSUME NEW p \in Products, NEW z \in Zones
        PROVE  ZoneView(d, p, z)' = Add(stock'[p][z], OrderAvailable(e, Upto(items, k, p, z)),
                                                      OrderReserved(e, Upto(items, k, p, z)))
    <3>1. CASE Foreign(t, p) /\ ZoneView(d, p, z)' = stock'[p][z]
      <4>1. Upto(items, k, p, z) = 0
        BY <2>1, <3>1, UptoForeign DEF Foreign
      <4>2. stock'[p][z] = Add(stock'[p][z], OrderAvailable(e, 0), OrderReserved(e, 0))
        BY <1>1, OrderAdd
      <4> QED  BY <3>1, <4>1, <4>2
    <3>2. CASE stock'[p][z] = stock[p][z] /\ ZoneView(d, p, z)' = ZoneView(d, p, z)
      BY <2>2, <3>2
    <3> QED  BY <1>3, <3>1, <3>2
  <2> QED  BY <2>1, <2>2, <2>3 DEF OrderProgress
<1> QED
  BY <1>1, <1>2, <1>4, <1>5 DEF EffectHolds, IsOrderEvent, HoldsNothing

\* While two calls at the same time have nothing in common, nobody else's
\* batch changes what a call has checked or read.
LEMMA EffectStep ==
  ASSUME Independent, EffectInv, [Next]_vars
  PROVE  EffectInv'
<1>1. TypeInv /\ TypeInv'  BY TypeStep DEF EffectInv
<1>2. ASSUME NEW d \in Consumers PROVE EffectHolds(d)'
  <2>0. EffectHolds(d)  BY DEF EffectInv
  <2>1. CASE task'[d].pc # "batch"  BY <2>1 DEF EffectHolds
  <2>2. CASE UNCHANGED tables /\ SameCall(d) /\ SameViews(d) /\ task'[d].pc = "batch"
    <3>1. /\ task'[d].pc = task[d].pc /\ task'[d].event = task[d].event
          /\ task'[d].todo = task[d].todo /\ task'[d].status = task[d].status
          /\ task'[d].order_update = task[d].order_update
          /\ UNCHANGED <<inventory_by_product_zone, orders_by_id>>
          /\ \A p \in Products, z \in Zones : ZoneView(d, p, z)' = ZoneView(d, p, z)
      BY <2>2 DEF SameCall, SameViews, tables
    <3>2. ProductProgress(d) => ProductProgress(d)'
      BY <3>1 DEF ProductProgress
    <3>3. OrderProgress(d) => OrderProgress(d)'
      BY <3>1 DEF OrderProgress
    <3>4. HoldsNothing(task[d]) => HoldsNothing(task'[d])
      BY <2>2 DEF SameCall, HoldsNothing
    <3> QED  BY <2>0, <3>1, <3>2, <3>3, <3>4 DEF EffectHolds, IsOrderEvent
  <2>3. CASE UNCHANGED tables /\ Changing(d) /\ ChangeMade(d)
    <3>1. /\ task'[d].pc = "batch" /\ task[d].pc = "batch" /\ task'[d].event = task[d].event
          /\ task'[d].status = task[d].status /\ task'[d].order_update = task[d].order_update
          /\ UNCHANGED orders_by_id /\ ~HoldsNothing(task[d])
      BY <2>3 DEF Changing, ChangeMade, tables, HoldsNothing
    <3>2. ProductProgress(d) /\ ~IsOrderEvent(task[d].event) => ProductProgress(d)'
      BY <1>1, <2>3, ProductProgresses
    <3>3. OrderProgress(d) => OrderProgress(d)'
      BY <1>1, <2>3, OrderProgresses
    <3> QED  BY <2>0, <3>1, <3>2, <3>3 DEF EffectHolds, IsOrderEvent
  <2>4. CASE task'[d].pc = "batch" /\ UNCHANGED tables /\ Begins(d) /\ SeesTables(d)'
    BY <1>1, <2>4, EffectBegins
  <2>5. CASE task'[d] = task[d] /\ \E c \in Consumers \ {d} : BatchReady(c) /\ ApplyBatch(c)
    BY <1>1, <2>5, EffectApart
  <2> QED  BY <1>1, <2>1, <2>2, <2>3, <2>4, <2>5, BatchMoves
<1> QED  BY <1>1, <1>2, ChecksStep DEF EffectInv

----------------------------------------------------------------------------
(* The refinement.                                                         *)

LEMMA SameCardinality ==
  ASSUME NEW S
  PROVE  Ledger!Cardinality(S) = Cardinality(S)
BY Zenon DEF Ledger!Cardinality, Cardinality

LEMMA OrderedIsUpto ==
  ASSUME NEW items \in Seq(OrderLine), NEW p, NEW z
  PROVE  Ledger!Ordered(items, p, z) = Upto(items, Len(items), p, z)
         /\ Upto(items, Len(items), p, z) \in Nat
<1> DEFINE S == Lines(items, Len(items), p, z)
           f == [i \in S |-> items[i].quantity]
<1>1. Len(items) \in Nat /\ DOMAIN items = 1..Len(items)  BY LenProperties
<1>2. Ledger!Ordered(items, p, z) = Ledger!Counted(f)
  BY <1>1 DEF Ledger!Ordered, Lines
<1>3. DOMAIN f = S /\ \A i \in S : f[i] = items[i].quantity  OBVIOUS
<1>4. \A i \in S : items[i].quantity \in Nat
  <2>1. \A i \in 1..Len(items) : items[i] \in OrderLine  BY ElementOfSeq
  <2> QED  BY <2>1 DEF OrderLine, Lines
<1>5. IsFiniteSet(S)
  <2>1. IsFiniteSet(1..Len(items))  BY <1>1, FS_Interval
  <2> QED  BY <2>1, FS_Subset DEF Lines
<1> HIDE DEF f, S
<1>6. Ledger!Counted(f) = Cardinality(UnitsOf(items, S))
  <2>1. {{i} \X (1..f[i]) : i \in DOMAIN f} = {{i} \X (1..items[i].quantity) : i \in S}
    BY <1>3
  <2>2. UNION {{i} \X (1..f[i]) : i \in DOMAIN f} = UnitsOf(items, S)
    BY <2>1, Zenon DEF UnitsOf
  <2> QED  BY <2>2, SameCardinality, Zenon DEF Ledger!Counted
<1>7. Cardinality(UnitsOf(items, S)) \in Nat
  BY <1>4, <1>5, UnitsOfFinite, FS_CardinalityType
<1> QED  BY <1>2, <1>6, <1>7 DEF Upto, S

\* The ledger validates and orders the events as the processor does.
LEMMA SameChecks ==
  ASSUME NEW e
  PROVE  /\ Ledger!validate_event(e) <=> validate_event(e)
         /\ Ledger!resolved_entity_key(e) = resolved_entity_key(e)
<1>1. Ledger!resolved_entity_key(e) = resolved_entity_key(e)
  BY DEF Ledger!resolved_entity_key, resolved_entity_key
<1>2. /\ Ledger!require_product_zone_quantity(e) <=> require_product_zone_quantity(e)
      /\ Ledger!require_move(e) <=> require_move(e)
      /\ Ledger!require_count(e) <=> require_count(e)
      /\ Ledger!require_order_items(e) <=> require_order_items(e)
      /\ Ledger!require_field(e.order_id) <=> require_field(e.order_id)
  BY DEF Ledger!require_product_zone_quantity, require_product_zone_quantity,
         Ledger!require_move, require_move, Ledger!require_count, require_count,
         Ledger!require_order_items, require_order_items,
         Ledger!require_field, require_field,
         Ledger!require_positive_quantity, require_positive_quantity,
         Ledger!require_non_negative_count, require_non_negative_count
<1>3. Ledger!validate_event(e) <=> validate_event(e)
  BY <1>2 DEF Ledger!validate_event, validate_event
<1> QED  BY <1>1, <1>3

\* What makes a ready batch the ledger's step.
LedgerInv == AgreeInv /\ StockInRange /\ EffectInv

LEMMA ReadyEffect ==
  ASSUME LedgerInv, NEW c \in Consumers, BatchReady(c), task[c].status = "PROCESSED",
         NEW p \in Products, NEW z \in Zones
  PROVE  ZoneView(c, p, z) =
           Promised(task[c].event, p, z, inventory_by_product_zone[p][z])
<1> DEFINE e == task[c].event
           row == inventory_by_product_zone[p][z]
<1>1. /\ task[c].pc = "batch" /\ task[c].todo = <<>> /\ EffectHolds(c) /\ row \in Row
      /\ e \in Events /\ validate_event(e)
  BY DEF BatchReady, LedgerInv, EffectInv, TypeInv, TypeOK, CallOK, CallConsistent
<1>2. CASE ProductProgress(c) /\ ~IsOrderEvent(e)
  <2>1. ProductChanges(e) # <<>>
        /\ (e.event_type = "PRODUCT_MOVED" => Tail(ProductChanges(e)) # <<>>)
    BY <1>1, <1>2, OneChange, MoveChanges
  <2>2. ZoneView(c, p, z) = After(e, p, z, row)
    BY <1>1, <1>2, <2>1 DEF ProductProgress
  <2> QED  BY <1>1, <1>2, <2>2, ProductPromise
<1>3. ASSUME NEW items \in Seq(OrderLine), task[c].order_update.items = items,
             OrderProgress(c)
      PROVE  LET n == Ledger!Ordered(items, p, z)
             IN  n \in Nat /\ ZoneView(c, p, z) = Add(row, OrderAvailable(e, n),
                                                           OrderReserved(e, n))
  <2>1. PICK k \in 0..Len(items) :
          /\ Len(task[c].todo) = Len(items) - k
          /\ \A q \in Products, y \in Zones :
               ZoneView(c, q, y) = Add(inventory_by_product_zone[q][y],
                                       OrderAvailable(e, Upto(items, k, q, y)),
                                       OrderReserved(e, Upto(items, k, q, y)))
    BY <1>3 DEF OrderProgress
  <2>2. Len(items) \in Nat /\ Len(task[c].todo) = 0  BY <1>1, LenProperties
  <2>3. k = Len(items)  BY <2>1, <2>2
  <2> HIDE DEF e
  <2> QED  BY <2>1, <2>3, OrderedIsUpto
<1>4. row.available \in Nat /\ row.reserved \in Nat  BY <1>1 DEF Row
<1>5. CASE /\ e.event_type = "ORDER_CREATED" /\ OrderProgress(c)
           /\ task[c].order_update = [status |-> "CREATED", items |-> e.items]
  <2>1. e.items \in Seq(OrderLine)  BY <1>1, <1>5, ValidItems
  <2> DEFINE n == Ledger!Ordered(e.items, p, z)
  <2>2. n \in Nat /\ ZoneView(c, p, z) = Add(row, -n, n)
    BY <1>3, <1>5, <2>1 DEF OrderAvailable, OrderReserved
  <2>3. Promised(e, p, z, row) = [available |-> row.available - n, reserved |-> row.reserved + n]
    BY <1>5 DEF Promised, Ledger!Available, Ledger!Reserved
  <2> HIDE DEF n
  <2> QED  BY <1>4, <2>2, <2>3 DEF Add
<1>6. CASE /\ e.event_type = "ORDER_COMPLETED" /\ OrderProgress(c)
           /\ task[c].order_update =
                [status |-> "COMPLETED", items |-> orders_by_id[e.order_id].items]
  <2> DEFINE items == orders_by_id[e.order_id].items
             n == Ledger!Ordered(items, p, z)
  <2>1. items \in Seq(OrderLine)  BY <1>6 DEF OrderProgress, OrderRecord
  <2>2. n \in Nat /\ ZoneView(c, p, z) = Add(row, 0, -n)
    BY <1>3, <1>6, <2>1 DEF OrderAvailable, OrderReserved
  <2>3. Promised(e, p, z, row) = [available |-> row.available, reserved |-> row.reserved - n]
    BY <1>6 DEF Promised, Ledger!Available, Ledger!Reserved
  <2> HIDE DEF n
  <2> QED  BY <1>4, <2>2, <2>3 DEF Add
<1> QED  BY <1>1, <1>2, <1>5, <1>6 DEF EffectHolds

\* The batch of an event that was handled is the ledger's acceptance of it.
LEMMA BatchAccepts ==
  ASSUME LedgerInv, LedgerInv', NEW c \in Consumers, BatchReady(c), ApplyBatch(c),
         task[c].status = "PROCESSED"
  PROVE  Ledger!Accept(task[c].event)
<1> DEFINE t == task[c]
           e == t.event
           order == orders_by_id[e.order_id]
<1>1. /\ t.pc = "batch" /\ e \in Events /\ validate_event(e)
      /\ ChecksStand(c) /\ EffectHolds(c)
  BY DEF BatchReady, LedgerInv, EffectInv, TypeInv, CallOK, CallConsistent
<1>2. processed_events[e.event_id] = None /\ ~OutOfOrder(e, entity_versions[resolved_entity_key(e)])
  BY <1>1 DEF ChecksStand, Underway, RecordOf, LastSequence
<1>3. Ledger!Newer(e)
  <2> DEFINE last == entity_versions[resolved_entity_key(e)]
  <2>1. last \in Optional(Int)
    BY <1>1 DEF VersionKeys, LedgerInv, AgreeInv, TypeInv, TypeOK
  <2>2. e.sequence_number \in Int  BY <1>1, EventsAssumption DEF WarehouseEvent
  <2>3. last = None \/ e.sequence_number > last
    BY <1>2, <2>1, <2>2 DEF OutOfOrder, Optional
  <2> QED  BY <2>3, SameChecks DEF Ledger!Newer
<1>4. Ledger!OrderAllows(e)
  <2>1. e.event_type = "ORDER_CREATED" => order = None
    BY <1>1 DEF EffectHolds, IsOrderEvent
  <2>2. e.event_type = "ORDER_COMPLETED" => order # None /\ order.status # "COMPLETED"
    BY <1>1 DEF EffectHolds, IsOrderEvent
  <2>3. e.event_type = "ORDER_COMPLETED" => order.status \in {"CREATED", "COMPLETED"}
    <3>1. e.event_type = "ORDER_COMPLETED" => e.order_id \in Orders
      BY <1>1, EventsAssumption DEF validate_event, require_field, WarehouseEvent, Optional
    <3>2. orders_by_id \in [Orders -> Optional(OrderRecord)]
      BY DEF LedgerInv, AgreeInv, TypeInv, TypeOK
    <3> QED  BY <2>2, <3>1, <3>2 DEF Optional, OrderRecord
  <2> QED  BY <2>1, <2>2, <2>3 DEF Ledger!OrderAllows
<1>5. inventory_by_product_zone' =
        [p \in Products |-> [z \in Zones |->
           Promised(e, p, z, inventory_by_product_zone[p][z])]]
  <2>1. inventory_by_product_zone' =
          [p \in Products |-> [z \in Zones |-> ZoneView(c, p, z)]]
    BY DEF ApplyBatch, ZoneView
  <2> QED  BY <2>1, ReadyEffect
<1>6. \A p \in Products :
        /\ \A z \in Zones : /\ inventory_by_product_zone'[p][z].available >= 0
                            /\ inventory_by_product_zone'[p][z].reserved >= 0
        /\ Ledger!Counted([z \in Zones |-> inventory_by_product_zone'[p][z].available]) <= MaxInt
        /\ Ledger!Counted([z \in Zones |-> inventory_by_product_zone'[p][z].reserved]) <= MaxInt
  <2> TAKE p \in Products
  <2>1. \A z \in Zones : /\ inventory_by_product_zone'[p][z].available >= 0
                         /\ inventory_by_product_zone'[p][z].reserved >= 0
    BY MaxIntAssumption DEF LedgerInv, StockInRange, InRange
  <2>2. inventory_by_product'[p].available <= MaxInt /\ inventory_by_product'[p].reserved <= MaxInt
    BY MaxIntAssumption DEF LedgerInv, StockInRange, InRange
  <2>3. /\ inventory_by_product'[p].available = Cardinality(Units(AvailableIn(p)'))
        /\ inventory_by_product'[p].reserved = Cardinality(Units(ReservedIn(p)'))
    BY DEF LedgerInv, AgreeInv, TotalsAgree, Units
  <2>4. ASSUME NEW f, DOMAIN f = Zones PROVE Ledger!Counted(f) = Cardinality(Units(f))
    <3>1. UNION {{z} \X (1..f[z]) : z \in DOMAIN f} = Units(f)
      BY <2>4, Zenon DEF Units
    <3> QED  BY <3>1, SameCardinality, Zenon DEF Ledger!Counted
  <2>5. /\ AvailableIn(p)' = [z \in Zones |-> inventory_by_product_zone'[p][z].available]
        /\ ReservedIn(p)' = [z \in Zones |-> inventory_by_product_zone'[p][z].reserved]
    BY DEF AvailableIn, ReservedIn
  <2> QED  BY <2>1, <2>2, <2>3, <2>4, <2>5
<1>7. Ledger!UpdateOrder(e)
  <2>1. orders_by_id' = IF t.order_update = None THEN orders_by_id
                        ELSE [orders_by_id EXCEPT ![e.order_id] = t.order_update]
    BY DEF ApplyBatch
  <2>2. CASE ~IsOrderEvent(e)
    <3>1. t.order_update = None  BY <1>1, <2>2 DEF EffectHolds, IsOrderEvent
    <3> QED  BY <2>1, <2>2, <3>1 DEF Ledger!UpdateOrder, IsOrderEvent
  <2>3. CASE e.event_type = "ORDER_CREATED"
    <3>1. t.order_update = [status |-> "CREATED", items |-> e.items] /\ t.order_update # None
      BY <1>1, <2>3, ValueAssumption DEF EffectHolds, OrderProgress, IsOrderEvent
    <3> QED  BY <2>1, <2>3, <3>1 DEF Ledger!UpdateOrder
  <2>4. CASE e.event_type = "ORDER_COMPLETED"
    <3>1. /\ t.order_update = [status |-> "COMPLETED", items |-> order.items]
          /\ t.order_update # None /\ order # None
      BY <1>1, <2>4, ValueAssumption DEF EffectHolds, OrderProgress, IsOrderEvent
    <3>2. e.order_id \in Orders
      BY <1>1, <2>4, EventsAssumption DEF validate_event, require_field, WarehouseEvent, Optional
    <3>3. orders_by_id \in [Orders -> Optional(OrderRecord)]
      BY DEF LedgerInv, AgreeInv, TypeInv, TypeOK
    <3>4. order \in OrderRecord  BY <3>1, <3>2, <3>3 DEF Optional
    <3>5. [order EXCEPT !.status = "COMPLETED"] = t.order_update
      BY <3>1, <3>4 DEF OrderRecord
    <3>6. [orders_by_id EXCEPT ![e.order_id].status = "COMPLETED"] =
          [orders_by_id EXCEPT ![e.order_id] = t.order_update]
      BY <3>5
    <3> QED  BY <2>1, <2>4, <3>1, <3>6 DEF Ledger!UpdateOrder
  <2> QED  BY <2>2, <2>3, <2>4 DEF IsOrderEvent
<1>8. /\ processed_events' = [processed_events EXCEPT ![e.event_id] = "PROCESSED"]
      /\ entity_versions' = [entity_versions EXCEPT ![resolved_entity_key(e)] = e.sequence_number]
  BY DEF ApplyBatch
<1> QED
  BY <1>1, <1>2, <1>3, <1>4, <1>5, <1>6, <1>7, <1>8, SameChecks DEF Ledger!Accept, Promised

\* The batch of an outdated event only records it.
LEMMA BatchIgnores ==
  ASSUME LedgerInv, NEW c \in Consumers, BatchReady(c), ApplyBatch(c),
         task[c].status = "IGNORED_OUT_OF_ORDER"
  PROVE  Ledger!Ignore(task[c].event)
<1> DEFINE t == task[c]
           e == t.event
           last == entity_versions[resolved_entity_key(e)]
<1>1. /\ t.pc = "batch" /\ e \in Events /\ validate_event(e)
      /\ ChecksStand(c) /\ EffectHolds(c) /\ TypeOK
  BY DEF BatchReady, LedgerInv, EffectInv, TypeInv, CallOK, CallConsistent
<1>2. processed_events[e.event_id] = None /\ HoldsNothing(t)
  BY <1>1 DEF ChecksStand, EffectHolds, Underway, RecordOf
<1>3. ~Ledger!Newer(e)
  <2>1. OutOfOrder(e, last)  BY <1>1 DEF ChecksStand, LastSequence
  <2>2. last \in Optional(Int)  BY <1>1 DEF VersionKeys, TypeOK
  <2>3. e.sequence_number \in Int  BY <1>1, EventsAssumption DEF WarehouseEvent
  <2>4. ~(last = None \/ e.sequence_number > last)
    BY <2>1, <2>2, <2>3 DEF OutOfOrder, Optional
  <2> QED  BY <2>4, SameChecks DEF Ledger!Newer
<1>4. inventory_by_product_zone' = inventory_by_product_zone
  <2>1. inventory_by_product_zone' =
          [p \in Products |-> [z \in Zones |-> inventory_by_product_zone[p][z]]]
    BY <1>2 DEF ApplyBatch, Overlay, HoldsNothing
  <2> QED  BY <1>1, <2>1 DEF TypeOK
<1>5. /\ orders_by_id' = orders_by_id /\ entity_versions' = entity_versions
      /\ processed_events' = [processed_events EXCEPT ![e.event_id] = "IGNORED_OUT_OF_ORDER"]
  BY <1>2 DEF ApplyBatch, HoldsNothing
<1> QED  BY <1>1, <1>2, <1>3, <1>4, <1>5, SameChecks DEF Ledger!Ignore

LEMMA LedgerInit == Init => LedgerInv /\ Ledger!Init
<1> SUFFICES ASSUME Init PROVE LedgerInv /\ Ledger!Init  OBVIOUS
<1>1. EffectInv
  BY TypeInit DEF Init, IdleTask, EffectInv, EffectHolds, ChecksStand, Underway
<1>2. Ledger!VersionKeys = VersionKeys
  BY SameChecks DEF Ledger!VersionKeys, VersionKeys
<1>3. Ledger!Init  BY <1>2 DEF Init, Ledger!Init, ZeroRow
<1> QED  BY <1>1, <1>3, AgreeInit, InRangeInit DEF LedgerInv

LEMMA LedgerInvStep ==
  ASSUME Independent, LedgerInv, [Next]_vars
  PROVE  LedgerInv'
BY IndependentApart, AgreeStep, InRangeStep, EffectStep DEF LedgerInv, AgreeInv

LEMMA LedgerStep ==
  ASSUME LedgerInv, LedgerInv', [Next]_vars
  PROVE  [Ledger!Next]_(Ledger!ledger)
<1>1. CASE UNCHANGED tables
  BY <1>1 DEF tables, Ledger!ledger
<1>2. ASSUME NEW c \in Consumers, BatchReady(c), ApplyBatch(c)
      PROVE  Ledger!Next
  <2>1. task[c].event \in Events /\ task[c].status \in Recorded
    BY <1>2 DEF BatchReady, LedgerInv, AgreeInv, TypeInv, CallOK, CallConsistent
  <2>2. Ledger!Accept(task[c].event) \/ Ledger!Ignore(task[c].event)
    BY <1>2, <2>1, BatchAccepts, BatchIgnores DEF Recorded
  <2> QED  BY <2>1, <2>2 DEF Ledger!Next
<1> QED  BY <1>1, <1>2, OnlyBatchWrites DEF LedgerInv, AgreeInv

\* With one consumer the processor implements the warehouse ledger: whatever
\* it reads row by row and caches, whatever fails and whatever is delivered
\* twice or late, every batch has exactly the effect the ledger promises of
\* its event, and no other step has any.
THEOREM ProcessorImplementsLedger ==
  ASSUME SingleConsumer
  PROVE  Spec => LedgerSpec
<1>1. Init => LedgerInv /\ Ledger!Init  BY LedgerInit
<1>2. LedgerInv /\ [Next]_vars => LedgerInv'  BY LedgerInvStep, OneCallIndependent
<1>3. LedgerInv /\ LedgerInv' /\ [Next]_vars => [Ledger!Next]_(Ledger!ledger)
  BY LedgerStep
<1> QED  BY <1>1, <1>2, <1>3, PTL DEF Spec, LedgerSpec, Ledger!Spec
=============================================================================
