------------------------ MODULE ConsumerGroupProofs ------------------------
(***************************************************************************)
(* Theorems about ConsumerGroup for any number of consumers, partitions    *)
(* and events, any rebalances and any number of crashes and evictions.     *)
(***************************************************************************)
EXTENDS ConsumerGroup, AccountsProofs

----------------------------------------------------------------------------
(* The group is a user of the processor. *)

LEMMA LogFacts ==
  ASSUME NEW p \in Partitions
  PROVE  /\ Len(Log[p]) \in Nat
         /\ \A o \in Nat : o < Len(Log[p]) => Log[p][o + 1] \in Events
<1>1. Log[p] \in Seq(Events)  BY LogAssumption
<1>2. Len(Log[p]) \in Nat  BY <1>1, LenProperties
<1>3. \A o \in Nat : o < Len(Log[p]) => o + 1 \in 1..Len(Log[p])  BY <1>2
<1> QED  BY <1>1, <1>2, <1>3, ElementOfSeq

\* Whatever the group does is a step of EventProcessor or leaves it alone.
LEMMA GroupStepIsStep ==
  ASSUME GroupTypeOK, [GroupNext]_all_vars
  PROVE  [Next]_vars
<1>1. ASSUME NEW c \in Consumers, NEW p \in Partitions, Poll(c, p)
      PROVE  Next
  <2>1. committed[p] \in Nat /\ committed[p] < Len(Log[p])
    BY <1>1 DEF GroupTypeOK, Poll
  <2>2. Log[p][committed[p] + 1] \in Events  BY <2>1, LogFacts
  <2>3. ReceiveEvent(c, Log[p][committed[p] + 1])  BY <1>1 DEF Poll, EventAt
  <2> QED  BY <2>2, <2>3 DEF Next
<1>2. ASSUME NEW c \in Consumers, ProcessStep(c) \/ Settle(c) \/ CrashConsumer(c)
      PROVE  Next
  BY <1>2 DEF ProcessStep, Settle, CrashConsumer, Next
<1>3. ASSUME \/ \E assignment \in [Partitions -> Consumers] : Rebalance(assignment)
             \/ \E c \in Consumers : Evict(c)
             \/ UNCHANGED all_vars
      PROVE  UNCHANGED vars
  BY <1>3 DEF Rebalance, Evict, all_vars
<1> QED  BY <1>1, <1>2, <1>3 DEF GroupNext

----------------------------------------------------------------------------
(* Types, and what a consumer knows of the message in its hand. *)

\* The event inside process() is the one at the place in hand, and as long as
\* the consumer owns its partition that place is the next to be committed.
HandOK(c) ==
  hand[c] # None =>
    /\ hand[c] \in Place
    /\ hand[c].offset < Len(Log[hand[c].partition])
    /\ task[c].event = EventAt(hand[c])
    /\ owner[hand[c].partition] = c => committed[hand[c].partition] = hand[c].offset

GroupInv ==
  /\ TypeInv
  /\ GroupTypeOK
  /\ \A c \in Consumers : HandOK(c)
  /\ \A p \in Partitions : committed[p] <= Len(Log[p])

LEMMA GroupInvInit == GroupInit => GroupInv
<1> SUFFICES ASSUME GroupInit PROVE GroupInv  OBVIOUS
<1>1. TypeInv  BY TypeInit DEF GroupInit
<1>2. \A c \in Consumers : hand[c] = None /\ task[c].pc = "idle" /\ HandOK(c)
  BY DEF GroupInit, Init, IdleTask, HandOK
<1>3. \A p \in Partitions : committed[p] <= Len(Log[p])
  BY LogFacts DEF GroupInit
<1>4. GroupTypeOK
  BY <1>2, BoundAssumption DEF GroupInit, GroupTypeOK, Optional
<1> QED  BY <1>1, <1>2, <1>3, <1>4 DEF GroupInv

\* A step that leaves a consumer's hand and event alone and does not commit on
\* a partition it owns, or gain it one.
LEMMA HandKept ==
  ASSUME NEW c \in Consumers, HandOK(c), hand'[c] = hand[c],
         hand[c] # None => task'[c].event = task[c].event,
         hand[c] # None /\ owner'[hand[c].partition] = c =>
           /\ owner[hand[c].partition] = c
           /\ committed'[hand[c].partition] = committed[hand[c].partition]
  PROVE  HandOK(c)'
BY DEF HandOK, EventAt

LEMMA OwnerDropped ==
  ASSUME GroupTypeOK, NEW c \in Consumers,
         owner' = [p \in Partitions |-> IF owner[p] = c THEN None ELSE owner[p]]
  PROVE  /\ owner' \in [Partitions -> Optional(Consumers)]
         /\ \A p \in Partitions, d \in Consumers : owner'[p] = d => owner[p] = d
BY PlaceAssumption DEF GroupTypeOK, Optional

LEMMA RebalanceInv ==
  ASSUME GroupInv, TypeInv', NEW assignment \in [Partitions -> Consumers], Rebalance(assignment)
  PROVE  GroupInv'
<1>1. /\ owner' = assignment
      /\ UNCHANGED <<task, committed, hand, dlq, crashes, evictions>>
      /\ \A p \in Partitions : hand[assignment[p]] = None
  BY DEF Rebalance, vars
<1>2. GroupTypeOK'
  BY <1>1 DEF GroupInv, GroupTypeOK, Optional
<1>3. ASSUME NEW c \in Consumers PROVE HandOK(c)'
  <2>1. hand[c] # None => hand[c].partition \in Partitions
    BY DEF GroupInv, HandOK, Place
  <2>2. hand[c] # None => owner'[hand[c].partition] # c
    BY <1>1, <2>1
  <2> QED  BY <1>1, <2>2, HandKept DEF GroupInv
<1> QED  BY <1>1, <1>2, <1>3 DEF GroupInv

LEMMA PollInv ==
  ASSUME GroupInv, TypeInv', NEW c \in Consumers, NEW p \in Partitions, Poll(c, p)
  PROVE  GroupInv'
<1> DEFINE at == [partition |-> p, offset |-> committed[p]]
<1>1. /\ at \in Place /\ at # None /\ at.partition = p /\ at.offset = committed[p]
      /\ committed[p] < Len(Log[p])
  BY PlaceAssumption DEF GroupInv, GroupTypeOK, Place, Poll
<1>2. /\ owner[p] = c /\ hand[c] = None
      /\ ReceiveEvent(c, EventAt(at))
      /\ hand' = [hand EXCEPT ![c] = at]
      /\ UNCHANGED <<owner, committed, dlq, crashes, evictions>>
  BY DEF Poll
<1> HIDE DEF at
<1>3. /\ hand'[c] = at /\ task'[c].event = EventAt(at) /\ task'[c].pc = "is_processed"
      /\ \A d \in Consumers \ {c} : hand'[d] = hand[d] /\ task'[d] = task[d]
  BY <1>2 DEF GroupInv, GroupTypeOK, TypeInv, TypeOK, ReceiveEvent, IdleTask
<1>4. HandOK(c)'
  BY <1>1, <1>2, <1>3 DEF HandOK, EventAt
<1>5. ASSUME NEW d \in Consumers \ {c} PROVE HandOK(d)'
  BY <1>2, <1>3, HandKept DEF GroupInv
<1>6. hand' \in [Consumers -> Optional(Place)]
  BY <1>1, <1>2 DEF GroupInv, GroupTypeOK, Optional
<1>7. \A d \in Consumers : hand'[d] # None <=> task'[d].pc # "idle"
  <2>1. hand'[c] # None /\ task'[c].pc # "idle"  BY <1>1, <1>3
  <2>2. \A d \in Consumers \ {c} : hand[d] # None <=> task[d].pc # "idle"
    BY DEF GroupInv, GroupTypeOK
  <2> QED  BY <1>3, <2>1, <2>2
<1>8. GroupTypeOK'
  BY <1>2, <1>6, <1>7 DEF GroupInv, GroupTypeOK
<1> QED  BY <1>2, <1>4, <1>5, <1>8 DEF GroupInv

\* A step inside process() keeps the event it is about.
LEMMA ProcessKeeps ==
  ASSUME TypeInv, NEW c \in Consumers, Process(c)
  PROVE  /\ task[c].pc # "idle"
         /\ task'[c].pc # "idle" /\ task'[c].event = task[c].event
         /\ \A d \in Consumers \ {c} : task'[d] = task[d]
<1>0. task \in [Consumers -> Task]  BY DEF TypeInv, TypeOK
<1>1. ASSUME NEW r, Finish(c, r), task[c].pc # "idle"
      PROVE  /\ task'[c].pc # "idle" /\ task'[c].event = task[c].event
             /\ \A d \in Consumers \ {c} : task'[d] = task[d]
  BY <1>0, <1>1, Finished DEF Finish
<1>2. CASE IsProcessed(c)
  <2>1. CASE Finish(c, "DUPLICATE")  BY <1>1, <1>2, <2>1 DEF IsProcessed
  <2>2. CASE task' = [task EXCEPT ![c].pc = "get_last_sequence"]
    BY <1>0, <1>2, <2>2 DEF IsProcessed, Task
  <2> QED  BY <1>2, <2>1, <2>2 DEF IsProcessed
<1>3. CASE CheckSequence(c)
  <2> DEFINE pc == IF IsOrderEvent(task[c].event) THEN "get_order" ELSE "batch"
             todo == IF IsOrderEvent(task[c].event) THEN <<>> ELSE ProductChanges(task[c].event)
  <2>0. pc # "idle"  OBVIOUS
  <2>1. CASE Finish(c, "VALIDATION_ERROR")  BY <1>1, <1>3, <2>1 DEF CheckSequence
  <2>2. CASE task' = [task EXCEPT ![c].pc = "batch", ![c].status = "IGNORED_OUT_OF_ORDER"]
    BY <1>0, <1>3, <2>2 DEF CheckSequence, Task
  <2>3. CASE task' = [task EXCEPT ![c].pc = pc, ![c].todo = todo, ![c].status = "PROCESSED"]
    <3> HIDE DEF pc, todo
    <3> QED  BY <1>0, <1>3, <2>0, <2>3 DEF CheckSequence, Task
  <2> QED  BY <1>3, <2>1, <2>2, <2>3 DEF CheckSequence
<1>4. CASE HandleOrderCreated(c)
  <2> DEFINE todo == ReserveItems(task[c].event.items)
             order == [status |-> "CREATED", items |-> task[c].event.items]
  <2>1. CASE Finish(c, "ORDER_ALREADY_EXISTS")  BY <1>1, <1>4, <2>1 DEF HandleOrderCreated
  <2>2. CASE task' = [task EXCEPT ![c].pc = "batch", ![c].todo = todo, ![c].order_update = order]
    <3> HIDE DEF todo, order
    <3> QED  BY <1>0, <1>4, <2>2 DEF HandleOrderCreated, Task
  <2> QED  BY <1>4, <2>1, <2>2 DEF HandleOrderCreated
<1>5. CASE HandleOrderCompleted(c)
  <2> DEFINE items == orders_by_id[task[c].event.order_id].items
             todo == ShipItems(items)
             order == [status |-> "COMPLETED", items |-> items]
  <2>1. CASE \E r : Finish(c, r)  BY <1>1, <1>5, <2>1 DEF HandleOrderCompleted
  <2>2. CASE task' = [task EXCEPT ![c].pc = "batch", ![c].todo = todo, ![c].order_update = order]
    <3> HIDE DEF todo, order
    <3> QED  BY <1>0, <1>5, <2>2 DEF HandleOrderCompleted, Task
  <2> QED  BY <1>5, <2>1, <2>2 DEF HandleOrderCompleted
<1>6. CASE GetZoneState(c)
  BY <1>0, <1>6 DEF GetZoneState, Changing, Task
<1>7. CASE GetTotal(c)
  BY <1>0, <1>7 DEF GetTotal, Changing, Task
<1>8. CASE ApplyChange(c)
  <2> DEFINE ch == Head(task[c].todo)
             row == task[c].zone_states[ch.product_id][ch.zone_id]
             total == task[c].totals[ch.product_id]
             new_row == Add(row, AvailableDelta(ch, row), ch.reserved)
             new_total == Add(total, AvailableDelta(ch, row), ch.reserved)
  <2>1. CASE \E r : Finish(c, r)  BY <1>1, <1>8, <2>1 DEF ApplyChange, Changing
  <2>2. CASE task' = [task EXCEPT
                ![c].zone_states[ch.product_id][ch.zone_id] = new_row,
                ![c].totals[ch.product_id] = new_total,
                ![c].todo = Tail(@)]
    <3> HIDE DEF new_row, new_total, ch
    <3>1. task[c] \in Task /\ task[c].pc = "batch"  BY <1>0, <1>8 DEF ApplyChange, Changing
    <3>2. task'[c].pc = task[c].pc  BY <2>2, <1>0, <3>1 DEF Task
    <3>3. task'[c].event = task[c].event  BY <2>2, <1>0, <3>1 DEF Task
    <3>4. \A d \in Consumers \ {c} : task'[d] = task[d]  BY <2>2, <1>0
    <3> QED  BY <3>1, <3>2, <3>3, <3>4
  <2> QED  BY <1>8, <2>1, <2>2 DEF ApplyChange
<1>9. CASE ExecuteBatch(c) \/ BatchRefused(c)
  BY <1>1, <1>9 DEF ExecuteBatch, BatchRefused, BatchReady
<1> QED  BY <1>2, <1>3, <1>4, <1>5, <1>6, <1>7, <1>8, <1>9 DEF Process

LEMMA ProcessInv ==
  ASSUME GroupInv, TypeInv', NEW c \in Consumers, ProcessStep(c)
  PROVE  GroupInv'
<1>1. /\ task[c].pc # "idle" /\ task'[c].pc # "idle" /\ task'[c].event = task[c].event
      /\ \A d \in Consumers \ {c} : task'[d] = task[d]
      /\ UNCHANGED <<owner, committed, hand, dlq, crashes, evictions>>
  BY ProcessKeeps DEF GroupInv, ProcessStep, group_vars
<1>2. GroupTypeOK'
  BY <1>1 DEF GroupInv, GroupTypeOK
<1>3. ASSUME NEW d \in Consumers PROVE HandOK(d)'
  BY <1>1, HandKept DEF GroupInv
<1> QED  BY <1>1, <1>2, <1>3 DEF GroupInv

LEMMA SettleInv ==
  ASSUME GroupInv, TypeInv', NEW c \in Consumers, Settle(c)
  PROVE  GroupInv'
<1> DEFINE p == hand[c].partition
<1>1. /\ hand[c] # None /\ hand[c] \in Place /\ p \in Partitions /\ hand[c].offset \in Nat
      /\ hand[c].offset + 1 <= Len(Log[p])
      /\ owner[p] = c => committed[p] = hand[c].offset
  <2>1. hand[c] \in Place /\ hand[c].offset < Len(Log[p])
    BY DEF Settle, GroupInv, HandOK
  <2>2. p \in Partitions /\ hand[c].offset \in Nat  BY <2>1 DEF Place
  <2> QED  BY <2>1, <2>2, LogFacts DEF Settle, GroupInv, HandOK
<1>2. /\ hand' = [hand EXCEPT ![c] = None]
      /\ Return(c)
      /\ UNCHANGED <<owner, crashes, evictions>>
      /\ dlq' \subseteq dlq \cup {hand[c]}
      /\ committed' = IF owner[p] = c THEN [committed EXCEPT ![p] = hand[c].offset + 1]
                      ELSE committed
  BY DEF Settle, CommitAccepted
<1> HIDE DEF p
<1>3. /\ task'[c].pc = "idle" /\ hand'[c] = None
      /\ \A d \in Consumers \ {c} : task'[d] = task[d] /\ hand'[d] = hand[d]
  BY <1>2 DEF GroupInv, GroupTypeOK, TypeInv, TypeOK, Return, IdleTask
<1>4. /\ committed' \in [Partitions -> Nat]
      /\ \A q \in Partitions : committed'[q] <= Len(Log[q])
      /\ \A q \in Partitions : owner[q] # c => committed'[q] = committed[q]
  BY <1>1, <1>2 DEF GroupInv, GroupTypeOK
<1>5. hand' \in [Consumers -> Optional(Place)]
  BY <1>2 DEF GroupInv, GroupTypeOK, Optional
<1>6. GroupTypeOK'
  BY <1>1, <1>2, <1>3, <1>4, <1>5 DEF GroupInv, GroupTypeOK
<1>7. HandOK(c)'  BY <1>3 DEF HandOK
<1>8. ASSUME NEW d \in Consumers \ {c} PROVE HandOK(d)'
  <2>1. hand[d] # None => hand[d].partition \in Partitions
    BY DEF GroupInv, HandOK, Place
  <2> QED  BY <1>2, <1>3, <1>4, <2>1, HandKept DEF GroupInv
<1> QED  BY <1>4, <1>6, <1>7, <1>8 DEF GroupInv

LEMMA CrashInv ==
  ASSUME GroupInv, TypeInv', NEW c \in Consumers, CrashConsumer(c)
  PROVE  GroupInv'
<1>1. /\ hand' = [hand EXCEPT ![c] = None] /\ Crash(c)
      /\ owner' = [p \in Partitions |-> IF owner[p] = c THEN None ELSE owner[p]]
      /\ crashes' = crashes + 1 /\ crashes + evictions < MaxFailures
      /\ UNCHANGED <<committed, dlq, evictions>>
  BY DEF CrashConsumer
<1>2. /\ task'[c].pc = "idle" /\ hand'[c] = None
      /\ \A d \in Consumers \ {c} : task'[d] = task[d] /\ hand'[d] = hand[d]
  BY <1>1 DEF GroupInv, GroupTypeOK, TypeInv, TypeOK, Crash, IdleTask
<1>3. /\ owner' \in [Partitions -> Optional(Consumers)]
      /\ \A p \in Partitions, d \in Consumers : owner'[p] = d => owner[p] = d
  BY <1>1, OwnerDropped DEF GroupInv
<1>4. hand' \in [Consumers -> Optional(Place)]
  BY <1>1 DEF GroupInv, GroupTypeOK, Optional
<1>5. GroupTypeOK'
  BY <1>1, <1>2, <1>3, <1>4, BoundAssumption DEF GroupInv, GroupTypeOK
<1>6. HandOK(c)'  BY <1>2 DEF HandOK
<1>7. ASSUME NEW d \in Consumers \ {c} PROVE HandOK(d)'
  <2>1. hand[d] # None => hand[d].partition \in Partitions
    BY DEF GroupInv, HandOK, Place
  <2> QED  BY <1>1, <1>2, <1>3, <2>1, HandKept DEF GroupInv
<1> QED  BY <1>1, <1>5, <1>6, <1>7 DEF GroupInv

LEMMA EvictInv ==
  ASSUME GroupInv, TypeInv', NEW c \in Consumers, Evict(c)
  PROVE  GroupInv'
<1>1. /\ owner' = [p \in Partitions |-> IF owner[p] = c THEN None ELSE owner[p]]
      /\ evictions' = evictions + 1 /\ crashes + evictions < MaxFailures
      /\ UNCHANGED <<task, committed, hand, dlq, crashes>>
  BY DEF Evict, vars
<1>2. /\ owner' \in [Partitions -> Optional(Consumers)]
      /\ \A p \in Partitions, d \in Consumers : owner'[p] = d => owner[p] = d
  BY <1>1, OwnerDropped DEF GroupInv
<1>3. GroupTypeOK'
  BY <1>1, <1>2, BoundAssumption DEF GroupInv, GroupTypeOK
<1>4. ASSUME NEW d \in Consumers PROVE HandOK(d)'
  <2>1. hand[d] # None => hand[d].partition \in Partitions
    BY DEF GroupInv, HandOK, Place
  <2> QED  BY <1>1, <1>2, <2>1, HandKept DEF GroupInv
<1> QED  BY <1>1, <1>3, <1>4 DEF GroupInv

LEMMA GroupInvStep == GroupInv /\ [GroupNext]_all_vars => GroupInv'
<1> SUFFICES ASSUME GroupInv, [GroupNext]_all_vars PROVE GroupInv'  OBVIOUS
<1>0. TypeInv'  BY GroupStepIsStep, TypeStep DEF GroupInv
<1>1. CASE UNCHANGED all_vars
  <2>1. UNCHANGED <<task, owner, committed, hand, dlq, crashes, evictions>>
    BY <1>1 DEF all_vars, vars, group_vars
  <2>2. GroupTypeOK'  BY <2>1 DEF GroupInv, GroupTypeOK
  <2>3. ASSUME NEW d \in Consumers PROVE HandOK(d)'  BY <2>1, HandKept DEF GroupInv
  <2> QED  BY <1>0, <2>1, <2>2, <2>3 DEF GroupInv
<1>2. CASE GroupNext
  BY <1>0, <1>2, RebalanceInv, PollInv, ProcessInv, SettleInv, CrashInv, EvictInv DEF GroupNext
<1> QED  BY <1>1, <1>2

\* The group's state keeps its types, and a consumer is inside process()
\* exactly when it has a message in its hand.
THEOREM GroupTypeCorrect == GroupSpec => []GroupTypeOK
<1>1. GroupInv => GroupTypeOK  BY DEF GroupInv
<1> QED  BY <1>1, GroupInvInit, GroupInvStep, PTL DEF GroupSpec

\* The group calls process() as EventProcessor allows, so that what is proved
\* of EventProcessor for any number of consumers holds of the group.
THEOREM GroupRunsProcessor == GroupSpec => Spec
<1>1. GroupInit => Init  BY DEF GroupInit
<1>2. GroupTypeOK /\ [GroupNext]_all_vars => [Next]_vars  BY GroupStepIsStep
<1> QED  BY <1>1, <1>2, GroupTypeCorrect, PTL DEF GroupSpec, Spec

----------------------------------------------------------------------------
(* At-least-once.  A call that has returned has left a record of its event, *)
(* whoever else writes the tables, because records are never removed.       *)

OutcomeOK(c) ==
  task[c].pc = "done" =>
    /\ task[c].status \in Returned \cup Raised
    /\ task[c].status \in Returned => RecordOf(task[c].event) # None

LEMMA ApplyRecords ==
  ASSUME TypeInv, NEW c \in Consumers, BatchReady(c), ApplyBatch(c)
  PROVE  processed_events'[task[c].event.event_id] # None
<1>1. task[c].event \in Events /\ task[c].status \in Recorded
  BY DEF TypeInv, CallOK, CallConsistent, BatchReady
<1>2. task[c].event.event_id \in EventIds  BY <1>1, EventsAssumption DEF WarehouseEvent
<1>3. task[c].status # None  BY <1>1, ValueAssumption DEF Returned
<1> QED  BY <1>2, <1>3 DEF ApplyBatch, TypeInv, TypeOK

\* A consumer whose call stays as it is keeps its record.
LEMMA RecordedKept ==
  ASSUME TypeInv, [Next]_vars, NEW c \in Consumers, OutcomeOK(c), task'[c] = task[c]
  PROVE  OutcomeOK(c)'
<1> SUFFICES ASSUME task[c].pc = "done", task[c].status \in Returned
             PROVE  processed_events'[task'[c].event.event_id] # None
  BY DEF OutcomeOK, RecordOf
<1>1. task[c].event \in Events  BY DEF TypeInv, CallOK, CallConsistent
<1>2. task[c].event.event_id \in EventIds  BY <1>1, EventsAssumption DEF WarehouseEvent
<1>3. processed_events[task[c].event.event_id] # None  BY DEF OutcomeOK, RecordOf
<1>4. processed_events'[task[c].event.event_id] # None  BY <1>2, <1>3, RecordsStay
<1> QED  BY <1>4

LEMMA ProcessRecords ==
  ASSUME TypeInv, NEW c \in Consumers, Process(c)
  PROVE  OutcomeOK(c)'
<1>0. task \in [Consumers -> Task]  BY DEF TypeInv, TypeOK
<1>1. ASSUME NEW r \in Raised, Finish(c, r) PROVE OutcomeOK(c)'
  BY <1>1, Finished DEF OutcomeOK, Raised, Returned, Recorded
<1>2. ASSUME task'[c].pc # "done" PROVE OutcomeOK(c)'
  BY <1>2 DEF OutcomeOK
<1>3. CASE IsProcessed(c)
  <2>1. CASE processed_events[task[c].event.event_id] # None
    <3>1. Finish(c, "DUPLICATE") /\ UNCHANGED processed_events  BY <1>3, <2>1 DEF IsProcessed, tables
    <3> QED  BY <2>1, <3>1, Finished DEF OutcomeOK, RecordOf, Returned
  <2>2. CASE ~(processed_events[task[c].event.event_id] # None)
    <3>1. task' = [task EXCEPT ![c].pc = "get_last_sequence"]  BY <1>3, <2>2 DEF IsProcessed
    <3>2. task'[c].pc = "get_last_sequence"  BY <1>0, <3>1 DEF Task
    <3> QED  BY <1>2, <3>2
  <2> QED  BY <2>1, <2>2
<1>4. CASE CheckSequence(c)
  <2> DEFINE pc == IF IsOrderEvent(task[c].event) THEN "get_order" ELSE "batch"
             todo == IF IsOrderEvent(task[c].event) THEN <<>> ELSE ProductChanges(task[c].event)
  <2>0. pc # "done"  OBVIOUS
  <2>1. CASE Finish(c, "VALIDATION_ERROR")  BY <1>1, <2>1 DEF Raised
  <2>2. CASE task' = [task EXCEPT ![c].pc = "batch", ![c].status = "IGNORED_OUT_OF_ORDER"]
    <3>1. task'[c].pc = "batch"  BY <1>0, <2>2 DEF Task
    <3> QED  BY <1>2, <3>1
  <2>3. CASE task' = [task EXCEPT ![c].pc = pc, ![c].todo = todo, ![c].status = "PROCESSED"]
    <3> HIDE DEF pc, todo
    <3>1. task'[c].pc = pc  BY <1>0, <2>3 DEF Task
    <3> QED  BY <1>2, <2>0, <3>1
  <2> QED  BY <1>4, <2>1, <2>2, <2>3 DEF CheckSequence
<1>5. CASE HandleOrderCreated(c)
  <2> DEFINE todo == ReserveItems(task[c].event.items)
             order == [status |-> "CREATED", items |-> task[c].event.items]
  <2>1. CASE Finish(c, "ORDER_ALREADY_EXISTS")  BY <1>1, <2>1 DEF Raised
  <2>2. CASE task' = [task EXCEPT ![c].pc = "batch", ![c].todo = todo, ![c].order_update = order]
    <3> HIDE DEF todo, order
    <3>1. task'[c].pc = "batch"  BY <1>0, <2>2 DEF Task
    <3> QED  BY <1>2, <3>1
  <2> QED  BY <1>5, <2>1, <2>2 DEF HandleOrderCreated
<1>6. CASE HandleOrderCompleted(c)
  <2> DEFINE items == orders_by_id[task[c].event.order_id].items
             todo == ShipItems(items)
             order == [status |-> "COMPLETED", items |-> items]
  <2>1. CASE Finish(c, "ORDER_NOT_FOUND") \/ Finish(c, "ORDER_ALREADY_COMPLETED")
    BY <1>1, <2>1 DEF Raised
  <2>2. CASE task' = [task EXCEPT ![c].pc = "batch", ![c].todo = todo, ![c].order_update = order]
    <3> HIDE DEF todo, order
    <3>1. task'[c].pc = "batch"  BY <1>0, <2>2 DEF Task
    <3> QED  BY <1>2, <3>1
  <2> QED  BY <1>6, <2>1, <2>2 DEF HandleOrderCompleted
<1>7. CASE GetZoneState(c) \/ GetTotal(c)
  <2>1. task'[c].pc = "batch"
    BY <1>0, <1>7 DEF GetZoneState, GetTotal, Changing, Task
  <2> QED  BY <1>2, <2>1
<1>8. CASE ApplyChange(c)
  <2> DEFINE ch == Head(task[c].todo)
             row == task[c].zone_states[ch.product_id][ch.zone_id]
             total == task[c].totals[ch.product_id]
             new_row == Add(row, AvailableDelta(ch, row), ch.reserved)
             new_total == Add(total, AvailableDelta(ch, row), ch.reserved)
  <2>1. CASE BrokenRule(new_row, new_total) # None
    <3>1. Finish(c, BrokenRule(new_row, new_total))  BY <1>8, <2>1 DEF ApplyChange
    <3>2. BrokenRule(new_row, new_total) \in Raised  BY <2>1 DEF BrokenRule, Raised
    <3> QED  BY <1>1, <3>1, <3>2
  <2>2. CASE task' = [task EXCEPT
                ![c].zone_states[ch.product_id][ch.zone_id] = new_row,
                ![c].totals[ch.product_id] = new_total,
                ![c].todo = Tail(@)]
    <3> HIDE DEF new_row, new_total, ch
    <3>0. task[c].pc = "batch"  BY <1>8 DEF ApplyChange, Changing
    <3>1. task'[c].pc = task[c].pc  BY <1>0, <2>2 DEF Task
    <3>2. task'[c].pc = "batch"  BY <3>0, <3>1
    <3> QED  BY <1>2, <3>2
  <2> QED  BY <1>8, <2>1, <2>2 DEF ApplyChange
<1>9. CASE ExecuteBatch(c)
  <2>1. processed_events'[task[c].event.event_id] # None  BY <1>9, ApplyRecords DEF ExecuteBatch
  <2>2. task'[c].event = task[c].event /\ task'[c].status = task[c].status
    BY <1>9, Finished DEF ExecuteBatch
  <2>3. task[c].status \in Returned
    BY <1>9 DEF TypeInv, CallOK, CallConsistent, ExecuteBatch, BatchReady, Returned
  <2> QED  BY <2>1, <2>2, <2>3 DEF OutcomeOK, RecordOf
<1>10. CASE BatchRefused(c)
  BY <1>1, <1>10 DEF BatchRefused, Raised
<1> QED  BY <1>3, <1>4, <1>5, <1>6, <1>7, <1>8, <1>9, <1>10 DEF Process

DeliveredInv ==
  /\ GroupInv
  /\ \A c \in Consumers : OutcomeOK(c)
  /\ GroupCommittedMeansHandled

\* The message at a place keeps its outcome.
LEMMA HandledKept ==
  ASSUME GroupInv, [Next]_vars, dlq \subseteq dlq', NEW p \in Partitions, NEW o \in Nat,
         o < Len(Log[p]), Handled([partition |-> p, offset |-> o])
  PROVE  Handled([partition |-> p, offset |-> o])'
<1> DEFINE at == [partition |-> p, offset |-> o]
<1>1. EventAt(at) \in Events /\ EventAt(at)' = EventAt(at)
  BY LogFacts DEF EventAt
<1>2. EventAt(at).event_id \in EventIds  BY <1>1, EventsAssumption DEF WarehouseEvent
<1>3. TypeInv  BY DEF GroupInv
<1> HIDE DEF at
<1>4. Handled(at) => Handled(at)'
  BY <1>1, <1>2, <1>3, RecordsStay DEF Handled
<1>5. at' = at  BY DEF at
<1> QED  BY <1>4, <1>5 DEF at

\* An accepted commit is of the message in hand, which has an outcome.
LEMMA SettleHandles ==
  ASSUME DeliveredInv, NEW c \in Consumers, Settle(c), owner[hand[c].partition] = c,
         NEW at, at = hand[c]
  PROVE  Handled(at)'
<1>1. task[c].event = EventAt(at) /\ task[c].pc = "done"
  BY DEF DeliveredInv, GroupInv, HandOK, Settle, Return
<1>2. task[c].status \in Returned \cup Raised
  BY <1>1 DEF DeliveredInv, OutcomeOK
<1>3. processed_events' = processed_events  BY DEF Settle, Return, tables
<1>4. EventAt(at)' = EventAt(at)  BY DEF EventAt
<1>5. CASE task[c].status \in Returned
  <2>1. processed_events[EventAt(at).event_id] # None
    BY <1>1, <1>5 DEF DeliveredInv, OutcomeOK, RecordOf
  <2> QED  BY <1>3, <1>4, <2>1 DEF Handled
<1>6. CASE task[c].status \in Raised
  <2>1. DeadLettered(c)  BY <1>6 DEF DeadLettered
  <2>2. at \in dlq'  BY <2>1 DEF Settle
  <2> QED  BY <2>2 DEF Handled
<1> QED  BY <1>2, <1>5, <1>6

\* Only an accepted commit moves an offset.
LEMMA CommitMoves ==
  ASSUME [GroupNext]_all_vars
  PROVE  \/ committed' = committed
         \/ \E c \in Consumers :
              /\ Settle(c) /\ owner[hand[c].partition] = c
              /\ committed' = [committed EXCEPT ![hand[c].partition] = hand[c].offset + 1]
BY DEF GroupNext, Rebalance, Poll, ProcessStep, Settle, CommitAccepted, CrashConsumer, Evict,
       group_vars, all_vars

LEMMA DeliveredStep == DeliveredInv /\ [GroupNext]_all_vars => DeliveredInv'
<1> SUFFICES ASSUME DeliveredInv, [GroupNext]_all_vars PROVE DeliveredInv'  OBVIOUS
<1>0. GroupInv /\ TypeInv /\ GroupTypeOK  BY DEF DeliveredInv, GroupInv
<1>1. GroupInv' /\ [Next]_vars  BY <1>0, GroupInvStep, GroupStepIsStep
<1>2. ASSUME NEW d \in Consumers PROVE OutcomeOK(d)'
  <2>1. CASE task'[d] = task[d]  BY <1>0, <1>1, <2>1, RecordedKept DEF DeliveredInv
  <2>2. CASE \E c \in Consumers : ProcessStep(c)
    <3> PICK c \in Consumers : ProcessStep(c)  BY <2>2
    <3>1. Process(c) /\ \A e \in Consumers \ {c} : task'[e] = task[e]
      BY <1>0, ProcessKeeps DEF ProcessStep
    <3> QED  BY <1>0, <2>1, <3>1, ProcessRecords
  <2>3. ASSUME NEW c \in Consumers,
               Settle(c) \/ CrashConsumer(c) \/ \E p \in Partitions : Poll(c, p)
        PROVE  OutcomeOK(d)'
    <3>0. task \in [Consumers -> Task]  BY <1>0 DEF TypeInv, TypeOK
    <3>1. CASE Settle(c) \/ CrashConsumer(c)
      <4>1. task' = [task EXCEPT ![c] = IdleTask]
        BY <3>1 DEF Settle, CrashConsumer, Return, Crash
      <4>2. task'[c].pc # "done" /\ \A e \in Consumers \ {c} : task'[e] = task[e]
        BY <3>0, <4>1 DEF IdleTask
      <4> QED  BY <2>1, <4>2 DEF OutcomeOK
    <3>2. CASE \E p \in Partitions : Poll(c, p)
      <4>1. PICK e : task' = [task EXCEPT ![c] = [IdleTask EXCEPT !.pc = "is_processed",
                                                                 !.event = e]]
        BY <3>2 DEF Poll, ReceiveEvent
      <4>2. task'[c].pc # "done" /\ \A d2 \in Consumers \ {c} : task'[d2] = task[d2]
        BY <3>0, <4>1 DEF IdleTask
      <4> QED  BY <2>1, <4>2 DEF OutcomeOK
    <3> QED  BY <2>3, <3>1, <3>2
  <2>4. ASSUME \/ \E assignment \in [Partitions -> Consumers] : Rebalance(assignment)
               \/ \E c \in Consumers : Evict(c)
               \/ UNCHANGED all_vars
        PROVE  task' = task
    BY <2>4 DEF Rebalance, Evict, all_vars, vars
  <2> QED  BY <2>1, <2>2, <2>3, <2>4 DEF GroupNext
<1>3. dlq \subseteq dlq'
  BY DEF GroupNext, Rebalance, Poll, ProcessStep, Settle, CrashConsumer, Evict, group_vars,
         all_vars
<1>4. ASSUME NEW p \in Partitions, NEW o \in 0..(committed'[p] - 1)
      PROVE  Handled([partition |-> p, offset |-> o])'
  <2>0. /\ o \in Nat /\ committed[p] \in Nat /\ Len(Log[p]) \in Nat
        /\ committed[p] <= Len(Log[p])
    BY <1>0, LogFacts DEF GroupInv, GroupTypeOK
  <2>1. CASE o < committed[p]
    <3>1. Handled([partition |-> p, offset |-> o])
      BY <2>0, <2>1 DEF DeliveredInv, GroupCommittedMeansHandled
    <3>2. o < Len(Log[p])  BY <2>0, <2>1
    <3> QED  BY <1>0, <1>1, <1>3, <2>0, <3>1, <3>2, HandledKept
  <2>2. CASE ~(o < committed[p])
    <3>1. committed' # committed  BY <2>0, <2>2
    <3>2. PICK c \in Consumers :
            /\ Settle(c) /\ owner[hand[c].partition] = c
            /\ committed' = [committed EXCEPT ![hand[c].partition] = hand[c].offset + 1]
      BY <3>1, CommitMoves
    <3>3. /\ hand[c] \in Place /\ hand[c].partition \in Partitions /\ hand[c].offset \in Nat
          /\ committed[hand[c].partition] = hand[c].offset
      BY <1>0, <3>2 DEF Settle, GroupInv, HandOK, Place
    <3>4. p = hand[c].partition /\ o = hand[c].offset
      BY <1>0, <2>0, <2>2, <3>2, <3>3 DEF GroupTypeOK
    <3>5. [partition |-> p, offset |-> o] = hand[c]  BY <3>3, <3>4 DEF Place
    <3> QED  BY <3>2, <3>5, SettleHandles
  <2> QED  BY <2>1, <2>2
<1>5. GroupCommittedMeansHandled'  BY <1>4 DEF GroupCommittedMeansHandled
<1> QED  BY <1>1, <1>2, <1>5 DEF DeliveredInv

LEMMA DeliveredInit == GroupInit => DeliveredInv
<1> SUFFICES ASSUME GroupInit PROVE DeliveredInv  OBVIOUS
<1>1. \A c \in Consumers : task[c].pc = "idle"  BY DEF GroupInit, Init, IdleTask
<1>2. GroupCommittedMeansHandled  BY DEF GroupInit, GroupCommittedMeansHandled
<1> QED  BY <1>1, <1>2, GroupInvInit DEF DeliveredInv, OutcomeOK

\* However many consumers share the topic, die or are taken for dead, and
\* however its partitions move, no offset is committed before every message
\* below it is recorded or dead-lettered.
THEOREM GroupAtLeastOnce == GroupSpec => []GroupCommittedMeansHandled
<1>1. DeliveredInv => GroupCommittedMeansHandled  BY DEF DeliveredInv
<1> QED  BY <1>1, DeliveredInit, DeliveredStep, PTL DEF GroupSpec

----------------------------------------------------------------------------
(* Consumers work apart.  As long as nobody was taken for dead, whoever     *)
(* handles a message owns its partition, so two consumers handle messages   *)
(* of two partitions; and when the keys keep the events of a product and of *)
(* an order together, these are messages about different products.          *)

HandsOwned ==
  evictions = 0 => \A c \in Consumers : hand[c] # None => owner[hand[c].partition] = c

LEMMA HandsOwnedStep ==
  ASSUME GroupInv, GroupInv', HandsOwned, [GroupNext]_all_vars
  PROVE  HandsOwned'
<1> SUFFICES ASSUME evictions' = 0, NEW d \in Consumers, hand'[d] # None
             PROVE  owner'[hand'[d].partition] = d
  BY DEF HandsOwned
<1>0. /\ evictions \in Nat /\ hand \in [Consumers -> Optional(Place)]
      /\ owner \in [Partitions -> Optional(Consumers)]
      /\ \A c \in Consumers : hand[c] # None => hand[c].partition \in Partitions
  BY DEF GroupInv, GroupTypeOK, HandOK, Place
<1>1. ASSUME evictions = 0, hand'[d] = hand[d],
             owner'[hand[d].partition] = owner[hand[d].partition]
      PROVE  owner'[hand'[d].partition] = d
  BY <1>1 DEF HandsOwned
<1>2. ASSUME NEW assignment \in [Partitions -> Consumers], Rebalance(assignment)
      PROVE  FALSE
  <2>1. hand[d] # None /\ owner[hand[d].partition] = d
    BY <1>2 DEF Rebalance, HandsOwned
  <2>2. owner[hand[d].partition] # None  BY <2>1, PlaceAssumption
  <2> QED  BY <1>0, <1>2, <2>1, <2>2 DEF Rebalance, CanMove
<1>3. ASSUME NEW c \in Consumers, NEW p \in Partitions, Poll(c, p)
      PROVE  owner'[hand'[d].partition] = d
  <2>1. evictions = 0 /\ owner' = owner /\ owner[p] = c
    BY <1>3 DEF Poll
  <2>2. CASE d = c
    <3>1. hand'[c].partition = p  BY <1>0, <1>3 DEF Poll
    <3> QED  BY <2>1, <2>2, <3>1
  <2>3. CASE d # c
    <3>1. hand'[d] = hand[d]  BY <1>0, <1>3, <2>3 DEF Poll
    <3> QED  BY <1>1, <2>1, <3>1
  <2> QED  BY <2>2, <2>3
<1>4. ASSUME NEW c \in Consumers, ProcessStep(c) \/ Settle(c)
      PROVE  owner'[hand'[d].partition] = d
  <2>1. evictions = 0 /\ owner' = owner  BY <1>4 DEF ProcessStep, Settle, group_vars
  <2>2. hand'[d] = hand[d]
    BY <1>0, <1>4 DEF ProcessStep, Settle, group_vars
  <2> QED  BY <1>1, <2>1, <2>2
<1>5. ASSUME NEW c \in Consumers, CrashConsumer(c)
      PROVE  owner'[hand'[d].partition] = d
  <2>1. d # c /\ hand'[d] = hand[d] /\ evictions = 0
    BY <1>0, <1>5 DEF CrashConsumer
  <2>2. owner[hand[d].partition] = d /\ hand[d].partition \in Partitions
    BY <1>0, <2>1 DEF HandsOwned
  <2>3. owner'[hand[d].partition] = d
    BY <1>5, <2>1, <2>2 DEF CrashConsumer
  <2> QED  BY <2>1, <2>3
<1>6. ASSUME NEW c \in Consumers, Evict(c)
      PROVE  FALSE
  BY <1>0, <1>6 DEF Evict
<1>7. CASE UNCHANGED all_vars
  BY <1>1, <1>7 DEF all_vars, group_vars
<1> QED  BY <1>2, <1>3, <1>4, <1>5, <1>6, <1>7 DEF GroupNext

\* The products that the valid events of a partition name.
NamedOn(p) == UNION {Names(Log[p][i]) : i \in {j \in DOMAIN Log[p] : validate_event(Log[p][j])}}

\* A valid ORDER_CREATED on partition p created the order with these items.
CreatedOn(p, order, items) ==
  \E i \in DOMAIN Log[p] :
    /\ validate_event(Log[p][i]) /\ Log[p][i].event_type = "ORDER_CREATED"
    /\ Log[p][i].order_id = order /\ Log[p][i].items = items

\* The products a call has changes, rows or totals of.
Touched(t) ==
  {t.todo[i].product_id : i \in DOMAIN t.todo} \cup {p \in Products : ~HoldsNoRow(t, p)}

\* A stored order, and one a call is about to store, came from the topic.
OrdersCreated ==
  /\ \A o \in Orders : orders_by_id[o] # None =>
       \E p \in Partitions : CreatedOn(p, o, orders_by_id[o].items)
  /\ \A c \in Consumers : task[c].order_update # None =>
       \E p \in Partitions : CreatedOn(p, task[c].event.order_id, task[c].order_update.items)

\* A call only touches products that its partition names.
TouchesItsOwn ==
  \A c \in Consumers : hand[c] # None => Touched(task[c]) \subseteq NamedOn(hand[c].partition)

LEMMA NamedApart ==
  ASSUME KeysKeepTogether, NEW p \in Partitions, NEW q \in Partitions, p # q
  PROVE  NamedOn(p) \cap NamedOn(q) = {}
BY DEF KeysKeepTogether, Related, NamedOn

\* What an event names, and the order it names, are on its own partition.
LEMMA NamedHere ==
  ASSUME NEW p \in Partitions, NEW i \in DOMAIN Log[p], validate_event(Log[p][i])
  PROVE  Names(Log[p][i]) \subseteq NamedOn(p)
BY DEF NamedOn

LEMMA OrderHere ==
  ASSUME KeysKeepTogether, NEW p \in Partitions, NEW i \in DOMAIN Log[p],
         validate_event(Log[p][i]), IsOrderEvent(Log[p][i]),
         NEW q \in Partitions, NEW items, CreatedOn(q, Log[p][i].order_id, items)
  PROVE  ItemProducts(items) \subseteq NamedOn(p)
<1>1. PICK j \in DOMAIN Log[q] :
        /\ validate_event(Log[q][j]) /\ Log[q][j].event_type = "ORDER_CREATED"
        /\ Log[q][j].order_id = Log[p][i].order_id /\ Log[q][j].items = items
  BY DEF CreatedOn
<1>2. Related(Log[p][i], Log[q][j])  BY <1>1 DEF Related, IsOrderEvent
<1>3. p = q  BY <1>1, <1>2 DEF KeysKeepTogether
<1>4. Names(Log[q][j]) = ItemProducts(items)  BY <1>1 DEF Names
<1> QED  BY <1>1, <1>3, <1>4, NamedHere

\* The event a consumer handles is on the partition in its hand.
LEMMA EventInHand ==
  ASSUME GroupInv, NEW c \in Consumers, hand[c] # None
  PROVE  /\ hand[c].partition \in Partitions
         /\ \E i \in DOMAIN Log[hand[c].partition] : task[c].event = Log[hand[c].partition][i]
<1> DEFINE p == hand[c].partition
           o == hand[c].offset
<1>1. p \in Partitions /\ o \in Nat /\ o < Len(Log[p]) /\ task[c].event = Log[p][o + 1]
  BY DEF GroupInv, HandOK, Place, EventAt
<1> HIDE DEF p, o
<1>2. Log[p] \in Seq(Events)  BY <1>1, LogAssumption
<1>3. Len(Log[p]) \in Nat /\ DOMAIN Log[p] = 1..Len(Log[p])  BY <1>2, LenProperties
<1>4. o + 1 \in DOMAIN Log[p]  BY <1>1, <1>3
<1> QED  BY <1>1, <1>4 DEF p

\* The rows an event is about are of products its partition names.
LEMMA ProductsHere ==
  ASSUME KeysKeepTogether, GroupInv, OrdersCreated, NEW c \in Consumers, hand[c] # None,
         validate_event(task[c].event)
  PROVE  Products_of(task[c].event) \subseteq NamedOn(hand[c].partition)
<1> DEFINE e == task[c].event
           p == hand[c].partition
<1>1. PICK i \in DOMAIN Log[p] : p \in Partitions /\ e = Log[p][i]  BY EventInHand
<1>2. p \in Partitions  BY EventInHand
<1>3. e \in Events  BY DEF GroupInv, TypeInv, CallOK, CallConsistent, GroupTypeOK
<1> HIDE DEF p, e
<1>4. CASE e.event_type # "ORDER_COMPLETED"
  <2>1. Products_of(e) = Names(e)  BY <1>4 DEF Products_of
  <2>2. Names(e) \subseteq NamedOn(p)  BY <1>1, <1>2, NamedHere DEF e
  <2> QED  BY <2>1, <2>2 DEF p, e
<1>5. CASE e.event_type = "ORDER_COMPLETED" /\ orders_by_id[e.order_id] # None
  <2>1. e.order_id \in Orders
    BY <1>3, <1>5, EventsAssumption
    DEF e, validate_event, require_field, WarehouseEvent, Optional
  <2>2. PICK q \in Partitions : CreatedOn(q, e.order_id, orders_by_id[e.order_id].items)
    BY <1>5, <2>1 DEF OrdersCreated
  <2>3. IsOrderEvent(e)  BY <1>5 DEF IsOrderEvent
  <2>4. ItemProducts(orders_by_id[e.order_id].items) \subseteq NamedOn(p)
    BY <1>1, <1>2, <2>2, <2>3, OrderHere DEF e
  <2>5. Products_of(e) = ItemProducts(orders_by_id[e.order_id].items)
    BY <1>5 DEF Products_of
  <2> QED  BY <2>4, <2>5 DEF p, e
<1>6. CASE e.event_type = "ORDER_COMPLETED" /\ orders_by_id[e.order_id] = None
  BY <1>6 DEF Products_of, e
<1> QED  BY <1>4, <1>5, <1>6

\* Two consumers that handle messages handle them of different partitions.
LEMMA HandsApart ==
  ASSUME GroupInv, HandsOwned, evictions = 0, NEW c \in Consumers, NEW d \in Consumers,
         c # d, hand[c] # None, hand[d] # None
  PROVE  hand[c].partition # hand[d].partition
BY DEF HandsOwned

----------------------------------------------------------------------------
(* What a step makes a call touch. *)

LEMMA TouchesInBatch ==
  ASSUME NEW t, CallConsistent(t), t.pc # "batch"
  PROVE  Touched(t) = {} /\ t.order_update = None
BY DEF CallConsistent, Touched, HoldsNoRow

LEMMA ProductChangesTouch ==
  ASSUME NEW e, ~IsOrderEvent(e), NEW i \in DOMAIN ProductChanges(e)
  PROVE  ProductChanges(e)[i].product_id \in Names(e)
<1>1. Names(e) = {e.product_id}  BY DEF Names, IsOrderEvent
<1>2. ProductChanges(e)[i].product_id = e.product_id
  <2>1. \A p, z, a, r, n : Delta(p, z, a, r).product_id = p /\ SetAvailable(p, z, n).product_id = p
    BY DEF Delta, SetAvailable
  <2> QED  BY <2>1 DEF ProductChanges
<1> QED  BY <1>1, <1>2

LEMMA ItemsTouch ==
  ASSUME NEW S, NEW items \in Seq(S)
  PROVE  /\ \A i \in DOMAIN ReserveItems(items) :
              ReserveItems(items)[i].product_id \in ItemProducts(items)
         /\ \A i \in DOMAIN ShipItems(items) :
              ShipItems(items)[i].product_id \in ItemProducts(items)
<1>1. DOMAIN items = 1..Len(items)  BY LenProperties
<1> QED  BY <1>1 DEF ReserveItems, ShipItems, Delta, ItemProducts

LEMMA TailTouches ==
  ASSUME NEW S, NEW s \in Seq(S), s # <<>>
  PROVE  /\ {Tail(s)[i].product_id : i \in DOMAIN Tail(s)}
              \subseteq {s[i].product_id : i \in DOMAIN s}
         /\ Head(s).product_id \in {s[i].product_id : i \in DOMAIN s}
<1>1. Len(s) \in Nat \ {0} /\ DOMAIN s = 1..Len(s) /\ Head(s) = s[1]
  BY EmptySeq, LenProperties
<1>2. Tail(s) \in Seq(S) /\ Len(Tail(s)) = Len(s) - 1
      /\ \A i \in 1..Len(Tail(s)) : Tail(s)[i] = s[i + 1]
  BY HeadTailProperties
<1>3. DOMAIN Tail(s) = 1..Len(Tail(s))  BY <1>2, LenProperties
<1>4. \A i \in DOMAIN Tail(s) : Tail(s)[i] = s[i + 1] /\ i + 1 \in DOMAIN s
  BY <1>1, <1>2, <1>3
<1>5. 1 \in DOMAIN s  BY <1>1
<1> QED  BY <1>1, <1>4, <1>5

\* A step inside process() makes the call touch products of its event alone,
\* and store no other order than its event's.
LEMMA ProcessTouches ==
  ASSUME TypeInv, TypeInv', NEW c \in Consumers, Process(c)
  PROVE  /\ Touched(task'[c]) \subseteq Touched(task[c]) \cup Products_of(task[c].event)
         /\ \/ task'[c].order_update \in {None, task[c].order_update}
            \/ /\ task[c].event.event_type = "ORDER_CREATED"
               /\ task'[c].order_update.items = task[c].event.items
            \/ /\ task[c].event.order_id \in Orders
               /\ orders_by_id[task[c].event.order_id] # None
               /\ task'[c].order_update.items = orders_by_id[task[c].event.order_id].items
<1> DEFINE e == task[c].event
           t == task[c]
           NoOther == /\ Touched(task'[c]) \subseteq Touched(t) \cup Products_of(e)
                      /\ task'[c].order_update \in {None, t.order_update}
<1>0. /\ task \in [Consumers -> Task] /\ t \in Task /\ CallConsistent(t)
      /\ t.todo \in Seq(Change)
      /\ t.zone_states \in [Products -> [Zones -> Optional(Row)]]
      /\ t.totals \in [Products -> Optional(Row)]
  BY DEF TypeInv, TypeOK, CallOK, Task
<1>1. ASSUME task'[c].pc # "batch" PROVE NoOther
  <2>1. CallConsistent(task'[c])  BY DEF TypeInv, CallOK, CallConsistent
  <2> QED  BY <1>1, <2>1, TouchesInBatch
<1>2. ASSUME NEW r, Finish(c, r) PROVE NoOther
  BY <1>1, <1>2, Finished
<1>3. \A p \in Products : p \notin Touched(t) => t.totals[p] = None /\ \A z \in Zones : t.zone_states[p][z] = None
  BY DEF Touched, HoldsNoRow
\* The call goes on with these changes, rows and totals.
<1>4. ASSUME NEW todo, {todo[i].product_id : i \in DOMAIN todo} \subseteq Touched(t) \cup Products_of(e),
             task'[c].todo = todo, task'[c].zone_states = t.zone_states, task'[c].totals = t.totals
      PROVE  Touched(task'[c]) \subseteq Touched(t) \cup Products_of(e)
  BY <1>4 DEF Touched, HoldsNoRow
<1>5. CASE IsProcessed(c)
  <2>1. CASE task' = [task EXCEPT ![c].pc = "get_last_sequence"]
    BY <1>0, <1>1, <2>1 DEF Task
  <2> QED  BY <1>2, <1>5, <2>1 DEF IsProcessed
<1>6. CASE CheckSequence(c)
  <2> DEFINE pc == IF IsOrderEvent(e) THEN "get_order" ELSE "batch"
             todo == IF IsOrderEvent(e) THEN <<>> ELSE ProductChanges(e)
  <2>1. CASE task' = [task EXCEPT ![c].pc = "batch", ![c].status = "IGNORED_OUT_OF_ORDER"]
    <3>1. /\ task'[c].todo = t.todo /\ task'[c].order_update = t.order_update
          /\ task'[c].zone_states = t.zone_states /\ task'[c].totals = t.totals
      BY <1>0, <2>1 DEF Task
    <3> QED  BY <3>1, <1>4 DEF Touched
  <2>2. CASE task' = [task EXCEPT ![c].pc = pc, ![c].todo = todo, ![c].status = "PROCESSED"]
    <3>1. {todo[i].product_id : i \in DOMAIN todo} \subseteq Products_of(e)
      <4>1. CASE IsOrderEvent(e)  BY <4>1
      <4>2. CASE ~IsOrderEvent(e)
        <5>1. Products_of(e) = Names(e)  BY <4>2 DEF IsOrderEvent, Products_of
        <5> QED  BY <4>2, <5>1, ProductChangesTouch
      <4> QED  BY <4>1, <4>2
    <3> HIDE DEF pc, todo
    <3>2. /\ task'[c].todo = todo /\ task'[c].order_update = t.order_update
          /\ task'[c].zone_states = t.zone_states /\ task'[c].totals = t.totals
      BY <1>0, <2>2 DEF Task
    <3> QED  BY <3>1, <3>2, <1>4
  <2> QED  BY <1>2, <1>6, <2>1, <2>2 DEF CheckSequence
<1>7. CASE HandleOrderCreated(c)
  <2> DEFINE todo == ReserveItems(e.items)
             update == [status |-> "CREATED", items |-> e.items]
  <2>1. CASE task' = [task EXCEPT ![c].pc = "batch", ![c].todo = todo, ![c].order_update = update]
    <3>1. e \in Events /\ e.event_type = "ORDER_CREATED"
      BY <1>0, <1>7 DEF HandleOrderCreated, CallConsistent
    <3>2. e.items \in Seq(OrderItem)  BY <3>1, EventsAssumption DEF WarehouseEvent
    <3>3. {todo[i].product_id : i \in DOMAIN todo} \subseteq Products_of(e)
      BY <3>1, <3>2, ItemsTouch DEF Products_of, Names
    <3>4. update.items = e.items  OBVIOUS
    <3> HIDE DEF todo, update
    <3>5. /\ task'[c].todo = todo /\ task'[c].order_update = update
          /\ task'[c].zone_states = t.zone_states /\ task'[c].totals = t.totals
      BY <1>0, <2>1 DEF Task
    <3> QED  BY <3>1, <3>3, <3>4, <3>5, <1>4
  <2> QED  BY <1>2, <1>7, <2>1 DEF HandleOrderCreated
<1>8. CASE HandleOrderCompleted(c)
  <2> DEFINE items == orders_by_id[e.order_id].items
             todo == ShipItems(items)
             update == [status |-> "COMPLETED", items |-> items]
  <2>1. CASE /\ orders_by_id[e.order_id] # None
             /\ task' = [task EXCEPT ![c].pc = "batch", ![c].todo = todo,
                                     ![c].order_update = update]
    <3>1. e \in Events /\ e.event_type = "ORDER_COMPLETED" /\ validate_event(e)
      BY <1>0, <1>8 DEF HandleOrderCompleted, CallConsistent
    <3>2. e.order_id \in Orders /\ items \in Seq(OrderLine)
      <4>1. e.order_id \in Orders
        BY <3>1, EventsAssumption DEF validate_event, require_field, WarehouseEvent, Optional
      <4>2. orders_by_id[e.order_id] \in OrderRecord
        BY <2>1, <4>1 DEF TypeInv, TypeOK, Optional
      <4> QED  BY <4>1, <4>2 DEF OrderRecord
    <3>3. {todo[i].product_id : i \in DOMAIN todo} \subseteq Products_of(e)
      <4>1. Products_of(e) = ItemProducts(items)  BY <2>1, <3>1 DEF Products_of
      <4> HIDE DEF items
      <4> QED  BY <3>2, <4>1, ItemsTouch
    <3>4. update.items = items  OBVIOUS
    <3> HIDE DEF todo, update
    <3>5. /\ task'[c].todo = todo /\ task'[c].order_update = update
          /\ task'[c].zone_states = t.zone_states /\ task'[c].totals = t.totals
      BY <1>0, <2>1 DEF Task
    <3> QED  BY <2>1, <3>2, <3>3, <3>4, <3>5, <1>4
  <2> QED  BY <1>2, <1>8, <2>1 DEF HandleOrderCompleted
<1>9. ASSUME Changing(c), task'[c].todo \in {t.todo, Tail(t.todo)},
             task'[c].order_update = t.order_update,
             \A p \in Products \ {Head(t.todo).product_id} :
               /\ task'[c].zone_states[p] = t.zone_states[p]
               /\ task'[c].totals[p] = t.totals[p]
      PROVE  NoOther
  <2> DEFINE todo == task'[c].todo
             next == Head(t.todo).product_id
  <2>1. t.todo # <<>>  BY <1>9 DEF Changing
  <2>2. /\ {todo[i].product_id : i \in DOMAIN todo} \subseteq {t.todo[i].product_id : i \in DOMAIN t.todo}
        /\ next \in {t.todo[i].product_id : i \in DOMAIN t.todo}
    <3>1. /\ {Tail(t.todo)[i].product_id : i \in DOMAIN Tail(t.todo)}
               \subseteq {t.todo[i].product_id : i \in DOMAIN t.todo}
          /\ next \in {t.todo[i].product_id : i \in DOMAIN t.todo}
      BY <1>0, <2>1, TailTouches
    <3>2. CASE todo = t.todo  BY <3>1, <3>2
    <3>3. CASE todo = Tail(t.todo)  BY <3>1, <3>3
    <3> QED  BY <1>9, <3>2, <3>3
  <2>3. next \in Touched(t) /\ {todo[i].product_id : i \in DOMAIN todo} \subseteq Touched(t)
    BY <2>2 DEF Touched
  <2> HIDE DEF next, todo
  <2>4. \A p \in Products : ~HoldsNoRow(task'[c], p) => p = next \/ ~HoldsNoRow(t, p)
    BY <1>9 DEF HoldsNoRow, next
  <2>5. Touched(task'[c]) \subseteq Touched(t)
    BY <2>3, <2>4 DEF Touched, todo
  <2> QED  BY <1>9, <2>5
<1>10. CASE GetZoneState(c)
  <2> DEFINE ch == Head(t.todo)
             row == inventory_by_product_zone[ch.product_id][ch.zone_id]
             states == [t.zone_states EXCEPT ![ch.product_id][ch.zone_id] = row]
  <2>1. Changing(c) /\ task' = [task EXCEPT ![c].zone_states[ch.product_id][ch.zone_id] = row]
    BY <1>10 DEF GetZoneState
  <2> HIDE DEF row
  <2>2. /\ task'[c].zone_states = states /\ task'[c].totals = t.totals
        /\ task'[c].todo = t.todo /\ task'[c].order_update = t.order_update
    BY <1>0, <2>1 DEF Task
  <2>3. \A p \in Products \ {ch.product_id} : states[p] = t.zone_states[p]
    BY <1>0
  <2> HIDE DEF states, NoOther
  <2>4. NoOther  BY <1>9, <2>1, <2>2, <2>3
  <2> QED  BY <2>4 DEF NoOther
<1>11. CASE GetTotal(c)
  <2> DEFINE ch == Head(t.todo)
             total == inventory_by_product[ch.product_id]
             totals == [t.totals EXCEPT ![ch.product_id] = total]
  <2>1. Changing(c) /\ task' = [task EXCEPT ![c].totals[ch.product_id] = total]
    BY <1>11 DEF GetTotal
  <2> HIDE DEF total
  <2>2. /\ task'[c].zone_states = t.zone_states /\ task'[c].totals = totals
        /\ task'[c].todo = t.todo /\ task'[c].order_update = t.order_update
    BY <1>0, <2>1 DEF Task
  <2>3. \A p \in Products \ {ch.product_id} : totals[p] = t.totals[p]
    BY <1>0
  <2> HIDE DEF totals, NoOther
  <2>4. NoOther  BY <1>9, <2>1, <2>2, <2>3
  <2> QED  BY <2>4 DEF NoOther
<1>12. CASE ApplyChange(c)
  <2> DEFINE ch == Head(t.todo)
             row == t.zone_states[ch.product_id][ch.zone_id]
             total == t.totals[ch.product_id]
             new_row == Add(row, AvailableDelta(ch, row), ch.reserved)
             new_total == Add(total, AvailableDelta(ch, row), ch.reserved)
             states == [t.zone_states EXCEPT ![ch.product_id][ch.zone_id] = new_row]
             totals == [t.totals EXCEPT ![ch.product_id] = new_total]
             todo == Tail(t.todo)
  <2>1. Changing(c) /\ (\/ \E r : Finish(c, r)
                        \/ task' = [task EXCEPT ![c].zone_states[ch.product_id][ch.zone_id] = new_row,
                                                ![c].totals[ch.product_id] = new_total,
                                                ![c].todo = Tail(@)])
    BY <1>12 DEF ApplyChange
  <2> HIDE DEF new_row, new_total
  <2>2. CASE task' = [task EXCEPT ![c].zone_states[ch.product_id][ch.zone_id] = new_row,
                                  ![c].totals[ch.product_id] = new_total,
                                  ![c].todo = Tail(@)]
    <3>1. task'[c] = [t EXCEPT !.zone_states = states, !.totals = totals, !.todo = todo]
      BY <1>0, <2>2 DEF Task
    <3>2. \A p \in Products \ {ch.product_id} : states[p] = t.zone_states[p] /\ totals[p] = t.totals[p]
      BY <1>0
    <3>3. todo \in {t.todo, Tail(t.todo)}  OBVIOUS
    <3> HIDE DEF states, totals, todo, NoOther
    <3>4. /\ task'[c].zone_states = states /\ task'[c].totals = totals
          /\ task'[c].todo = todo /\ task'[c].order_update = t.order_update
      BY <1>0, <3>1 DEF Task
    <3>5. task'[c].todo \in {t.todo, Tail(t.todo)}  BY <3>3, <3>4
    <3>6. \A p \in Products \ {ch.product_id} :
            /\ task'[c].zone_states[p] = t.zone_states[p]
            /\ task'[c].totals[p] = t.totals[p]
      BY <3>2, <3>4
    <3>7. NoOther  BY <1>9, <2>1, <3>4, <3>5, <3>6
    <3> QED  BY <3>7 DEF NoOther
  <2> QED  BY <1>2, <2>1, <2>2
<1>13. CASE ExecuteBatch(c) \/ BatchRefused(c)
  BY <1>2, <1>13 DEF ExecuteBatch, BatchRefused
<1> QED  BY <1>5, <1>6, <1>7, <1>8, <1>10, <1>11, <1>12, <1>13 DEF Process

\* A step leaves a consumer's call and hand alone, ends or begins the call, or
\* goes on with it.
LEMMA CallMoves ==
  ASSUME GroupInv, [GroupNext]_all_vars, NEW d \in Consumers
  PROVE  \/ task'[d] = task[d] /\ hand'[d] = hand[d]
         \/ task'[d].pc # "batch"
         \/ Process(d) /\ task'[d].event = task[d].event /\ hand'[d] = hand[d]
<1>0. /\ task \in [Consumers -> Task] /\ hand \in [Consumers -> Optional(Place)] /\ TypeInv
  BY DEF GroupInv, GroupTypeOK, TypeInv, TypeOK
<1>1. ASSUME NEW c \in Consumers, ProcessStep(c)
      PROVE  /\ hand' = hand
             /\ d # c => task'[d] = task[d]
             /\ d = c => Process(d) /\ task'[d].event = task[d].event
  BY <1>0, <1>1, ProcessKeeps DEF ProcessStep, group_vars
<1>2. ASSUME NEW c \in Consumers, NEW p \in Partitions, Poll(c, p)
      PROVE  \/ task'[d] = task[d] /\ hand'[d] = hand[d]
             \/ task'[d].pc # "batch"
  <2>1. PICK e : task' = [task EXCEPT ![c] = [IdleTask EXCEPT !.pc = "is_processed",
                                                             !.event = e]]
    BY <1>2 DEF Poll, ReceiveEvent
  <2>2. d # c => hand'[d] = hand[d]  BY <1>0, <1>2 DEF Poll
  <2> QED  BY <1>0, <2>1, <2>2 DEF IdleTask
<1>3. ASSUME NEW c \in Consumers, Settle(c) \/ CrashConsumer(c)
      PROVE  \/ task'[d] = task[d] /\ hand'[d] = hand[d]
             \/ task'[d].pc # "batch"
  <2>1. task' = [task EXCEPT ![c] = IdleTask] /\ hand' = [hand EXCEPT ![c] = None]
    BY <1>3 DEF Settle, CrashConsumer, Return, Crash
  <2> QED  BY <1>0, <2>1 DEF IdleTask
<1>4. ASSUME \/ \E assignment \in [Partitions -> Consumers] : Rebalance(assignment)
             \/ \E c \in Consumers : Evict(c)
             \/ UNCHANGED all_vars
      PROVE  task' = task /\ hand' = hand
  BY <1>4 DEF Rebalance, Evict, all_vars, vars, group_vars
<1> QED  BY <1>1, <1>2, <1>3, <1>4 DEF GroupNext

LEMMA OrdersCreatedStep ==
  ASSUME GroupInv, GroupInv', OrdersCreated, [GroupNext]_all_vars
  PROVE  OrdersCreated'
<1>0. TypeInv /\ TypeInv' /\ [Next]_vars
  BY GroupStepIsStep DEF GroupInv
<1>1. ASSUME NEW o \in Orders, orders_by_id'[o] # None
      PROVE  \E p \in Partitions : CreatedOn(p, o, orders_by_id'[o].items)
  <2>1. CASE orders_by_id'[o] = orders_by_id[o]
    BY <1>1, <2>1 DEF OrdersCreated
  <2>2. CASE orders_by_id'[o] # orders_by_id[o]
    <3>1. PICK c \in Consumers : ApplyBatch(c)
      BY <1>0, <2>2, OnlyBatchWrites DEF tables
    <3>2. /\ task[c].order_update # None /\ o = task[c].event.order_id
          /\ orders_by_id'[o] = task[c].order_update
      BY <1>0, <2>2, <3>1 DEF ApplyBatch, TypeInv, TypeOK
    <3> QED  BY <3>2 DEF OrdersCreated
  <2> QED  BY <2>1, <2>2
<1>2. ASSUME NEW d \in Consumers, task'[d].order_update # None
      PROVE  \E p \in Partitions :
               CreatedOn(p, task'[d].event.order_id, task'[d].order_update.items)
  <2>1. CASE task'[d] = task[d]
    BY <1>2, <2>1 DEF OrdersCreated
  <2>2. task'[d].pc = "batch" /\ validate_event(task'[d].event)
    <3>1. CallConsistent(task'[d])  BY <1>0 DEF TypeInv, CallOK, CallConsistent
    <3> QED  BY <1>2, <3>1 DEF CallConsistent
  <2>3. CASE Process(d) /\ task'[d].event = task[d].event
    <3> DEFINE e == task[d].event
    <3>1. \/ task'[d].order_update \in {None, task[d].order_update}
          \/ /\ e.event_type = "ORDER_CREATED"
             /\ task'[d].order_update.items = e.items
          \/ /\ e.order_id \in Orders /\ orders_by_id[e.order_id] # None
             /\ task'[d].order_update.items = orders_by_id[e.order_id].items
      BY <1>0, <2>3, ProcessTouches
    <3>2. CASE task'[d].order_update = task[d].order_update
      BY <1>2, <2>3, <3>2 DEF OrdersCreated
    <3>3. CASE e.event_type = "ORDER_CREATED" /\ task'[d].order_update.items = e.items
      <4>1. task[d].pc # "idle"  BY <1>0, <2>3, ProcessKeeps
      <4>2. hand[d] # None  BY <4>1 DEF GroupInv, GroupTypeOK
      <4>3. PICK p \in Partitions : \E i \in DOMAIN Log[p] : e = Log[p][i]
        BY <4>2, EventInHand
      <4>4. CreatedOn(p, e.order_id, e.items)
        BY <2>2, <2>3, <3>3, <4>3 DEF CreatedOn
      <4> QED  BY <2>3, <3>3, <4>4
    <3>4. CASE /\ e.order_id \in Orders /\ orders_by_id[e.order_id] # None
               /\ task'[d].order_update.items = orders_by_id[e.order_id].items
      BY <2>3, <3>4 DEF OrdersCreated
    <3> QED  BY <1>2, <3>1, <3>2, <3>3, <3>4
  <2> QED  BY <2>1, <2>2, <2>3, CallMoves
<1> QED  BY <1>1, <1>2 DEF OrdersCreated

LEMMA TouchesItsOwnStep ==
  ASSUME KeysKeepTogether, GroupInv, GroupInv', OrdersCreated, TouchesItsOwn,
         [GroupNext]_all_vars
  PROVE  TouchesItsOwn'
<1> SUFFICES ASSUME NEW d \in Consumers, hand'[d] # None
             PROVE  Touched(task'[d]) \subseteq NamedOn(hand'[d].partition)
  BY DEF TouchesItsOwn, Touched, HoldsNoRow
<1>0. TypeInv /\ TypeInv' /\ CallConsistent(task'[d])
  BY DEF GroupInv, TypeInv, CallOK, CallConsistent
<1>1. CASE task'[d] = task[d] /\ hand'[d] = hand[d]
  BY <1>1 DEF TouchesItsOwn
<1>2. CASE task'[d].pc # "batch"
  BY <1>0, <1>2, TouchesInBatch
<1>3. CASE /\ task'[d].pc = "batch" /\ Process(d)
           /\ task'[d].event = task[d].event /\ hand'[d] = hand[d]
  <2>1. validate_event(task[d].event)  BY <1>0, <1>3 DEF CallConsistent
  <2>2. Products_of(task[d].event) \subseteq NamedOn(hand[d].partition)
    BY <1>3, <2>1, ProductsHere
  <2>3. Touched(task[d]) \subseteq NamedOn(hand[d].partition)
    BY <1>3 DEF TouchesItsOwn
  <2>4. Touched(task'[d]) \subseteq Touched(task[d]) \cup Products_of(task[d].event)
    BY <1>0, <1>3, ProcessTouches
  <2> QED  BY <1>3, <2>2, <2>3, <2>4
<1> QED  BY <1>1, <1>2, <1>3, CallMoves

ApartInv == GroupInv /\ HandsOwned /\ OrdersCreated /\ TouchesItsOwn

LEMMA ApartInit == GroupInit => ApartInv
<1> SUFFICES ASSUME GroupInit PROVE ApartInv  OBVIOUS
<1>1. GroupInv  BY GroupInvInit
<1>2. \A c \in Consumers : hand[c] = None /\ task[c] = IdleTask
  BY DEF GroupInit, Init
<1>3. IdleTask.order_update = None  BY DEF IdleTask
<1>4. OrdersCreated  BY <1>2, <1>3 DEF OrdersCreated, GroupInit, Init
<1> QED  BY <1>1, <1>2, <1>4 DEF ApartInv, HandsOwned, TouchesItsOwn

LEMMA ApartStep ==
  ASSUME KeysKeepTogether, ApartInv, [GroupNext]_all_vars
  PROVE  ApartInv'
<1>1. GroupInv'  BY GroupInvStep DEF ApartInv
<1> QED  BY <1>1, HandsOwnedStep, OrdersCreatedStep, TouchesItsOwnStep DEF ApartInv

\* When the keys keep the events of a product and of an order together, two
\* consumers never have rows of one product in their hands, unless one of them
\* was taken for dead: for every topic, assignment and crash.
THEOREM WritersApart ==
  ASSUME KeysKeepTogether
  PROVE  GroupSpec => []OneWriterPerProduct
<1>1. ASSUME ApartInv, evictions = 0, NEW c \in Consumers, NEW d \in Consumers, c # d,
             task[c].pc = "batch", task[d].pc = "batch"
      PROVE  Products_of(task[c].event) \cap Products_of(task[d].event) = {}
  <2>1. hand[c] # None /\ hand[d] # None
    BY <1>1 DEF ApartInv, GroupInv, GroupTypeOK
  <2>2. validate_event(task[c].event) /\ validate_event(task[d].event)
    BY <1>1 DEF ApartInv, GroupInv, TypeInv, CallOK, CallConsistent
  <2>3. /\ Products_of(task[c].event) \subseteq NamedOn(hand[c].partition)
        /\ Products_of(task[d].event) \subseteq NamedOn(hand[d].partition)
    BY <1>1, <2>1, <2>2, ProductsHere DEF ApartInv
  <2>4. /\ hand[c].partition \in Partitions /\ hand[d].partition \in Partitions
        /\ hand[c].partition # hand[d].partition
    BY <1>1, <2>1, EventInHand, HandsApart DEF ApartInv
  <2> QED  BY <2>3, <2>4, NamedApart
<1>2. ApartInv => OneWriterPerProduct
  BY <1>1 DEF OneWriterPerProduct
<1>3. ApartInv /\ [GroupNext]_all_vars => ApartInv'  BY ApartStep
<1> QED  BY <1>2, <1>3, ApartInit, PTL DEF GroupSpec

----------------------------------------------------------------------------
(* The tables of the group agree. *)

LEMMA GroupCallsApart ==
  ASSUME KeysKeepTogether, ApartInv, evictions = 0
  PROVE  CallsApart
<1> SUFFICES ASSUME NEW c \in Consumers, NEW d \in Consumers, c # d, NEW p \in Products,
                    ~HoldsNoRow(task[c], p), ~HoldsNoRow(task[d], p)
             PROVE  FALSE
  BY DEF CallsApart
<1>1. p \in Touched(task[c]) /\ p \in Touched(task[d])
  BY DEF Touched
<1>2. CallConsistent(task[c]) /\ CallConsistent(task[d])
  BY DEF ApartInv, GroupInv, TypeInv, CallOK
<1>3. hand[c] # None /\ hand[d] # None
  BY <1>1, <1>2, TouchesInBatch DEF ApartInv, GroupInv, GroupTypeOK
<1>4. p \in NamedOn(hand[c].partition) /\ p \in NamedOn(hand[d].partition)
  BY <1>1, <1>3 DEF ApartInv, TouchesItsOwn
<1>5. /\ hand[c].partition \in Partitions /\ hand[d].partition \in Partitions
      /\ hand[c].partition # hand[d].partition
  BY <1>3, EventInHand, HandsApart DEF ApartInv
<1> QED  BY <1>4, <1>5, NamedApart

GroupAgreeInv ==
  /\ ApartInv
  /\ ZonesAgree
  /\ evictions = 0 => AgreeInv

LEMMA EvictionsStay ==
  ASSUME GroupTypeOK, [GroupNext]_all_vars, evictions' = 0
  PROVE  evictions = 0
<1>1. evictions \in Nat  BY DEF GroupTypeOK
<1>2. evictions' = evictions \/ evictions' = evictions + 1
  BY DEF GroupNext, Rebalance, Poll, ProcessStep, Settle, CrashConsumer, Evict,
         group_vars, all_vars
<1> QED  BY <1>1, <1>2

LEMMA GroupAgreeStep ==
  ASSUME KeysKeepTogether, GroupAgreeInv, [GroupNext]_all_vars
  PROVE  GroupAgreeInv'
<1>1. ApartInv'  BY ApartStep DEF GroupAgreeInv
<1>2. [Next]_vars  BY GroupStepIsStep DEF GroupAgreeInv, ApartInv, GroupInv
<1>3. ZonesAgree'  BY <1>2, ZonesAgreeStep DEF GroupAgreeInv
<1>4. evictions' = 0 => evictions = 0
  BY EvictionsStay DEF GroupAgreeInv, ApartInv, GroupInv
<1>5. ASSUME evictions = 0 PROVE AgreeInv'
  BY <1>2, <1>5, GroupCallsApart, AgreeStep DEF GroupAgreeInv
<1> QED  BY <1>1, <1>3, <1>4, <1>5 DEF GroupAgreeInv

\* When the keys keep the events of a product and of an order together, the
\* tables agree whatever the consumers of the group do at the same time, as
\* long as none of them was taken for dead.
THEOREM GroupTablesAlwaysAgree ==
  ASSUME KeysKeepTogether
  PROVE  GroupSpec => []GroupTablesAgree
<1>1. GroupInit => GroupAgreeInv
  BY ApartInit, ZonesAgreeInit, AgreeInit DEF GroupAgreeInv, GroupInit
<1>2. GroupAgreeInv /\ [GroupNext]_all_vars => GroupAgreeInv'  BY GroupAgreeStep
<1>3. GroupAgreeInv => GroupTablesAgree
  BY DEF GroupAgreeInv, AgreeInv, GroupTablesAgree, TablesAgree
<1> QED  BY <1>1, <1>2, <1>3, PTL DEF GroupSpec

----------------------------------------------------------------------------
(* The group implements the ledger.  What two consumers handle at the same  *)
(* time has nothing in common, so a call's batch still has, when it is      *)
(* applied, the effect the call computed from what it checked and read.     *)

LEMMA GroupIndependent ==
  ASSUME KeysKeepTogether, RecordsKeepTogether, ApartInv, LedgerInv, evictions = 0
  PROVE  Independent
<1> SUFFICES ASSUME NEW c \in Consumers, NEW d \in Consumers, c # d,
                    Underway(task[c]), Underway(task[d])
             PROVE  LET e == task[c].event
                        f == task[d].event
                    IN  /\ e.event_id # f.event_id
                        /\ resolved_entity_key(e) # resolved_entity_key(f)
                        /\ IsOrderEvent(e) /\ IsOrderEvent(f) => e.order_id # f.order_id
                        /\ \A p \in Products : HoldsNoRow(task[c], p) \/ Foreign(task[d], p)
  BY DEF Independent
<1> DEFINE e == task[c].event
           f == task[d].event
           pc == hand[c].partition
           pd == hand[d].partition
<1>1. /\ GroupInv /\ HandsOwned /\ OrdersCreated /\ TouchesItsOwn
      /\ validate_event(e) /\ validate_event(f) /\ hand[c] # None /\ hand[d] # None
  BY DEF ApartInv, GroupInv, GroupTypeOK, Underway
<1>2. pc \in Partitions /\ pd \in Partitions /\ pc # pd
  BY <1>1, EventInHand, HandsApart
<1>3. PICK i \in DOMAIN Log[pc] : e = Log[pc][i]  BY <1>1, EventInHand
<1>4. PICK j \in DOMAIN Log[pd] : f = Log[pd][j]  BY <1>1, EventInHand
<1>5. e.event_id # f.event_id /\ resolved_entity_key(e) # resolved_entity_key(f)
  BY <1>1, <1>2, <1>3, <1>4 DEF RecordsKeepTogether
<1>6. IsOrderEvent(e) /\ IsOrderEvent(f) => e.order_id # f.order_id
  <2>1. ~Related(e, f)  BY <1>1, <1>2, <1>3, <1>4 DEF KeysKeepTogether
  <2> QED  BY <2>1 DEF Related
<1>7. ASSUME NEW p \in Products, ~HoldsNoRow(task[c], p) PROVE Foreign(task[d], p)
  <2>1. p \in NamedOn(pc)  BY <1>1, <1>7 DEF TouchesItsOwn, Touched
  <2>2. p \notin NamedOn(pd)  BY <1>2, <2>1, NamedApart
  <2>3. HoldsNoRow(task[d], p)  BY <1>1, <2>2 DEF TouchesItsOwn, Touched
  <2>4. ASSUME ~IsOrderEvent(f) PROVE f.product_id # p
    <3>1. Names(f) = {f.product_id}  BY <2>4 DEF Names, IsOrderEvent
    <3>2. Names(f) \subseteq NamedOn(pd)  BY <1>1, <1>2, <1>4, NamedHere
    <3> QED  BY <2>2, <3>1, <3>2
  <2>5. ASSUME task[d].order_update # None
        PROVE  \A k \in DOMAIN task[d].order_update.items :
                 task[d].order_update.items[k].product_id # p
    <3> DEFINE items == task[d].order_update.items
    <3>1. PICK q \in Partitions : CreatedOn(q, f.order_id, items)
      BY <1>1, <2>5 DEF OrdersCreated
    <3>2. IsOrderEvent(f)
      <4>1. EffectHolds(d) /\ CallConsistent(task[d])
        BY DEF LedgerInv, EffectInv, TypeInv, CallOK
      <4>2. task[d].pc = "batch"  BY <2>5, <4>1 DEF CallConsistent
      <4> QED  BY <2>5, <4>1, <4>2 DEF EffectHolds, HoldsNothing, IsOrderEvent
    <3>3. ItemProducts(items) \subseteq NamedOn(pd)
      BY <1>1, <1>2, <1>4, <3>1, <3>2, OrderHere
    <3> QED  BY <2>2, <3>3 DEF ItemProducts
  <2> QED  BY <2>3, <2>4, <2>5 DEF Foreign
<1> QED  BY <1>5, <1>6, <1>7

GroupLedgerInv == ApartInv /\ (evictions = 0 => LedgerInv)

LEMMA GroupLedgerKept ==
  ASSUME KeysKeepTogether, RecordsKeepTogether, GroupLedgerInv, [GroupNext]_all_vars,
         evictions = 0
  PROVE  [Next]_vars /\ LedgerInv /\ LedgerInv'
<1>1. [Next]_vars  BY GroupStepIsStep DEF GroupLedgerInv, ApartInv, GroupInv
<1> QED  BY <1>1, GroupIndependent, LedgerInvStep DEF GroupLedgerInv

\* When the keys keep the events of a product, of an order, of an entity and of
\* an event id together, the group implements the ledger as one consumer does,
\* as long as nobody was taken for dead: whatever the other consumers do and
\* whoever dies between two steps of a call, its batch has exactly the effect
\* the ledger promises of its event.
THEOREM GroupImplementsLedger ==
  ASSUME KeysKeepTogether, RecordsKeepTogether
  PROVE  GroupSpec => GroupLedger
<1>1. GroupInit => GroupLedgerInv
  BY ApartInit, LedgerInit DEF GroupLedgerInv, GroupInit
<1>2. GroupLedgerInv /\ [GroupNext]_all_vars => GroupLedgerInv'
  BY ApartStep, GroupLedgerKept, EvictionsStay DEF GroupLedgerInv, ApartInv, GroupInv
<1>3. GroupLedgerInv /\ [GroupNext]_all_vars => [evictions = 0 => Ledger!Next]_(Ledger!ledger)
  BY GroupLedgerKept, LedgerStep
<1> QED  BY <1>1, <1>2, <1>3, PTL DEF GroupSpec, GroupLedger

----------------------------------------------------------------------------
(* The accounts of the group.                                              *)

\* An order that ran short is of products that only its own partition names.
LEMMA GroupShortApart ==
  ASSUME KeysKeepTogether, ApartInv, LedgerInv, CompletableInv, evictions = 0
  PROVE  ShortApart
<1> SUFFICES ASSUME NEW c \in Consumers, NEW d \in Consumers, c # d, task[c].pc = "batch",
                    task[d].status \in RunsShort,
                    task[d].event.event_type = "ORDER_COMPLETED"
             PROVE  LET e == task[c].event
                        f == task[d].event
                        items == orders_by_id[f.order_id].items
                    IN  /\ IsOrderEvent(e) => e.order_id # f.order_id
                        /\ ~IsOrderEvent(e) =>
                             \A k \in DOMAIN items : items[k].product_id # e.product_id
  BY DEF ShortApart
<1> DEFINE e == task[c].event
           f == task[d].event
           items == orders_by_id[f.order_id].items
           pc == hand[c].partition
           pd == hand[d].partition
<1>1. /\ GroupInv /\ HandsOwned /\ OrdersCreated
      /\ task[d].pc = "done" /\ f \in Events /\ validate_event(f)
      /\ orders_by_id[f.order_id] # None
  BY DEF ApartInv, CompletableInv, ShortHandled
<1>2. validate_event(e) /\ hand[c] # None /\ hand[d] # None
  BY <1>1 DEF GroupInv, GroupTypeOK, TypeInv, CallOK, CallConsistent
<1>3. pc \in Partitions /\ pd \in Partitions /\ pc # pd
  BY <1>1, <1>2, EventInHand, HandsApart
<1>4. PICK i \in DOMAIN Log[pc] : e = Log[pc][i]  BY <1>1, <1>2, EventInHand
<1>5. PICK j \in DOMAIN Log[pd] : f = Log[pd][j]  BY <1>1, <1>2, EventInHand
<1>6. IsOrderEvent(f)  BY DEF IsOrderEvent
<1>7. ASSUME IsOrderEvent(e) PROVE e.order_id # f.order_id
  <2>1. ~Related(e, f)  BY <1>1, <1>2, <1>3, <1>4, <1>5 DEF KeysKeepTogether
  <2> QED  BY <1>6, <1>7, <2>1 DEF Related
<1>8. ASSUME ~IsOrderEvent(e), NEW k \in DOMAIN items
      PROVE  items[k].product_id # e.product_id
  <2>1. f.order_id \in Orders
    BY <1>1, EventsAssumption DEF validate_event, require_field, WarehouseEvent, Optional
  <2>2. PICK q \in Partitions : CreatedOn(q, f.order_id, items)
    BY <1>1, <2>1 DEF OrdersCreated
  <2>3. ItemProducts(items) \subseteq NamedOn(pd)
    BY <1>1, <1>3, <1>5, <1>6, <2>2, OrderHere
  <2>4. Names(e) = {e.product_id}  BY <1>8 DEF Names, IsOrderEvent
  <2>5. Names(e) \subseteq NamedOn(pc)  BY <1>2, <1>3, <1>4, NamedHere
  <2>6. NamedOn(pc) \cap NamedOn(pd) = {}  BY <1>3, NamedApart
  <2> QED  BY <1>8, <2>3, <2>4, <2>5, <2>6 DEF ItemProducts
<1> QED  BY <1>7, <1>8

GroupAccountsInv ==
  GroupLedgerInv /\ (evictions = 0 => AccountsInv /\ CompletableInv)

LEMMA GroupAccountsInit == GroupInit => GroupAccountsInv
BY ApartInit, LedgerInit, AccountsInit, CompletableInit
DEF GroupAccountsInv, GroupLedgerInv, GroupInit

LEMMA GroupAccountsStep ==
  ASSUME KeysKeepTogether, RecordsKeepTogether, GroupAccountsInv, [GroupNext]_all_vars
  PROVE  GroupAccountsInv'
<1>1. GroupLedgerInv'
  BY ApartStep, GroupLedgerKept, EvictionsStay
  DEF GroupAccountsInv, GroupLedgerInv, ApartInv, GroupInv
<1>2. ASSUME evictions' = 0 PROVE AccountsInv' /\ CompletableInv'
  <2>1. evictions = 0
    BY <1>2, EvictionsStay DEF GroupAccountsInv, GroupLedgerInv, ApartInv, GroupInv
  <2>2. [Next]_vars /\ LedgerInv /\ LedgerInv' /\ ApartInv
    BY <2>1, GroupLedgerKept DEF GroupAccountsInv, GroupLedgerInv
  <2>3. AccountsInv /\ CompletableInv  BY <2>1 DEF GroupAccountsInv
  <2> QED  BY <2>1, <2>2, <2>3, AccountsStep, GroupShortApart, CompletableStep
<1> QED  BY <1>1, <1>2 DEF GroupAccountsInv

\* When the keys keep together what the ledger needs together, the stock is an
\* account of the history and of the orders for the group too: two consumers
\* add to different cells, and neither releases what the other has yet to ship.
THEOREM GroupStockIsAccounted ==
  ASSUME KeysKeepTogether, RecordsKeepTogether
  PROVE  GroupSpec => [](evictions = 0 =>
                           ReservationsAccounted /\ StockAccounted /\ OrdersCompletable)
<1>1. GroupAccountsInv /\ [GroupNext]_all_vars => GroupAccountsInv'  BY GroupAccountsStep
<1>2. GroupAccountsInv =>
        (evictions = 0 => ReservationsAccounted /\ StockAccounted /\ OrdersCompletable)
  BY AccountsAreProperties, CompletableIsProperty DEF GroupAccountsInv, AccountsInv
<1> QED  BY <1>1, <1>2, GroupAccountsInit, PTL DEF GroupSpec

----------------------------------------------------------------------------
(* No order is left open.  What a call found when it ended is explained by  *)
(* events of its own partition, and those are below the one in hand.        *)

\* An event the tables have a record of is on some partition, up to the next
\* to be committed.
HistoryPlaced ==
  evictions = 0 =>
    \A e \in Events : event_history[e] # None =>
      \E p \in Partitions : \E i \in DOMAIN Log[p] : Log[p][i] = e /\ i <= committed[p] + 1

\* A consumer handles the next message of its partition.
LEMMA InHand ==
  ASSUME GroupInv, HandsOwned, evictions = 0, NEW c \in Consumers, hand[c] # None,
         NEW p, p = hand[c].partition
  PROVE  /\ p \in Partitions /\ committed[p] \in Nat /\ hand[c].offset = committed[p]
         /\ committed[p] + 1 \in DOMAIN Log[p]
         /\ task[c].event = Log[p][committed[p] + 1]
<1>1. /\ p \in Partitions /\ hand[c].offset \in Nat /\ hand[c].offset < Len(Log[p])
      /\ task[c].event = Log[p][hand[c].offset + 1]
      /\ committed[p] = hand[c].offset
  BY DEF GroupInv, HandsOwned, HandOK, Place, EventAt
<1>2. Log[p] \in Seq(Events)  BY <1>1, LogAssumption
<1>3. Len(Log[p]) \in Nat /\ DOMAIN Log[p] = 1..Len(Log[p])  BY <1>2, LenProperties
<1> QED  BY <1>1, <1>3

LEMMA CommitsGrow ==
  ASSUME GroupInv, [GroupNext]_all_vars, NEW p \in Partitions
  PROVE  committed[p] \in Nat /\ committed'[p] \in Nat /\ committed[p] <= committed'[p]
<1>1. committed \in [Partitions -> Nat]  BY DEF GroupInv, GroupTypeOK
<1>2. ASSUME NEW c \in Consumers, Settle(c), owner[hand[c].partition] = c,
             committed' = [committed EXCEPT ![hand[c].partition] = hand[c].offset + 1]
      PROVE  committed'[p] \in Nat /\ committed[p] <= committed'[p]
  <2>1. /\ hand[c].partition \in Partitions /\ hand[c].offset \in Nat
        /\ committed[hand[c].partition] = hand[c].offset
    BY <1>2 DEF GroupInv, HandOK, Place, Settle
  <2>2. CASE p = hand[c].partition  BY <1>1, <1>2, <2>1, <2>2
  <2>3. CASE p # hand[c].partition  BY <1>1, <1>2, <2>1, <2>3
  <2> QED  BY <2>2, <2>3
<1> QED  BY <1>1, <1>2, CommitMoves

LEMMA HistoryPlacedStep ==
  ASSUME ApartInv, HistoryPlaced, [GroupNext]_all_vars
  PROVE  HistoryPlaced'
<1> SUFFICES ASSUME evictions' = 0, NEW e \in Events, event_history'[e] # None
             PROVE  \E p \in Partitions : \E i \in DOMAIN Log[p] :
                      Log[p][i] = e /\ i <= committed'[p] + 1
  BY DEF HistoryPlaced
<1>1. GroupInv /\ HandsOwned /\ TypeOK /\ evictions = 0 /\ [Next]_vars
  BY EvictionsStay, GroupStepIsStep DEF ApartInv, GroupInv, TypeInv
<1>2. ASSUME NEW p \in Partitions, NEW i \in DOMAIN Log[p], Log[p][i] = e,
             i <= committed[p] + 1
      PROVE  \E q \in Partitions : \E j \in DOMAIN Log[q] :
               Log[q][j] = e /\ j <= committed'[q] + 1
  <2>1. i \in Nat
    <3>1. Log[p] \in Seq(Events)  BY LogAssumption
    <3>2. DOMAIN Log[p] = 1..Len(Log[p]) /\ Len(Log[p]) \in Nat  BY <3>1, LenProperties
    <3> QED  BY <3>2
  <2>2. committed[p] \in Nat /\ committed'[p] \in Nat /\ committed[p] <= committed'[p]
    BY <1>1, CommitsGrow
  <2>3. i <= committed'[p] + 1  BY <1>2, <2>1, <2>2
  <2> QED  BY <1>2, <2>3
<1>3. CASE event_history'[e] = event_history[e]
  BY <1>1, <1>2, <1>3 DEF HistoryPlaced
<1>4. CASE event_history'[e] # event_history[e]
  <2>1. PICK c \in Consumers : BatchReady(c) /\ ApplyBatch(c)
    BY <1>1, <1>4, OnlyBatchWrites DEF tables
  <2>2. e = task[c].event
    <3>1. event_history' = [event_history EXCEPT ![task[c].event] = task[c].status]
      BY <2>1 DEF ApplyBatch
    <3> QED  BY <1>1, <1>4, <3>1 DEF TypeOK
  <2>3. hand[c] # None  BY <1>1, <2>1 DEF BatchReady, GroupInv, GroupTypeOK
  <2>4. PICK p \in Partitions : /\ committed[p] + 1 \in DOMAIN Log[p] /\ committed[p] \in Nat
                               /\ e = Log[p][committed[p] + 1]
    BY <1>1, <2>2, <2>3, InHand
  <2> QED  BY <1>2, <2>4
<1> QED  BY <1>3, <1>4

\* A step leaves a call alone, ends or begins it, or goes on with it.
LEMMA DoneMoves ==
  ASSUME GroupInv, [GroupNext]_all_vars, NEW d \in Consumers
  PROVE  task'[d] = task[d] \/ task'[d].pc # "done" \/ Process(d)
<1>0. task \in [Consumers -> Task] /\ TypeInv  BY DEF GroupInv, TypeInv, TypeOK
<1>1. ASSUME NEW c \in Consumers, ProcessStep(c)
      PROVE  task'[d] = task[d] \/ Process(d)
  BY <1>0, <1>1, ProcessKeeps DEF ProcessStep
<1>2. ASSUME NEW c \in Consumers, NEW p \in Partitions, Poll(c, p)
      PROVE  task'[d] = task[d] \/ task'[d].pc # "done"
  <2>1. PICK e : task' = [task EXCEPT ![c] = [IdleTask EXCEPT !.pc = "is_processed",
                                                             !.event = e]]
    BY <1>2 DEF Poll, ReceiveEvent
  <2> QED  BY <1>0, <2>1 DEF IdleTask
<1>3. ASSUME NEW c \in Consumers, Settle(c) \/ CrashConsumer(c)
      PROVE  task'[d] = task[d] \/ task'[d].pc # "done"
  <2>1. task' = [task EXCEPT ![c] = IdleTask]
    BY <1>3 DEF Settle, CrashConsumer, Return, Crash
  <2> QED  BY <1>0, <2>1 DEF IdleTask
<1>4. ASSUME \/ \E assignment \in [Partitions -> Consumers] : Rebalance(assignment)
             \/ \E c \in Consumers : Evict(c)
             \/ UNCHANGED all_vars
      PROVE  task' = task
  BY <1>4 DEF Rebalance, Evict, all_vars, vars
<1> QED  BY <1>1, <1>2, <1>3, <1>4 DEF GroupNext

\* While a consumer has a valid order event in its hand, no other moves the
\* order.
LEMMA OrderInHand ==
  ASSUME KeysKeepTogether, ApartInv, LedgerInv, evictions = 0,
         NEW c \in Consumers, NEW d \in Consumers, c # d, BatchReady(c), ApplyBatch(c),
         hand[d] # None, validate_event(task[d].event), IsOrderEvent(task[d].event)
  PROVE  orders_by_id'[task[d].event.order_id] = orders_by_id[task[d].event.order_id]
<1> DEFINE e == task[c].event
           f == task[d].event
           pc == hand[c].partition
           pd == hand[d].partition
<1>1. GroupInv /\ HandsOwned  BY DEF ApartInv
<1>2. task[c].pc = "batch" /\ validate_event(e) /\ hand[c] # None
  BY <1>1 DEF BatchReady, GroupInv, GroupTypeOK, TypeInv, CallOK, CallConsistent
<1>3. pc \in Partitions /\ pd \in Partitions /\ pc # pd
  BY <1>1, <1>2, EventInHand, HandsApart
<1>4. PICK i \in DOMAIN Log[pc] : e = Log[pc][i]  BY <1>1, <1>2, EventInHand
<1>5. PICK j \in DOMAIN Log[pd] : f = Log[pd][j]  BY <1>1, <1>2, EventInHand
<1>6. ~Related(e, f)  BY <1>2, <1>3, <1>4, <1>5 DEF KeysKeepTogether
<1>7. ~(IsOrderEvent(e) /\ e.order_id = f.order_id)  BY <1>6 DEF Related
<1>8. f.order_id \in Orders
  <2>1. f \in Events  BY <1>1 DEF GroupInv, GroupTypeOK, TypeInv, CallOK, CallConsistent
  <2>2. f.order_id \in Optional(Orders)  BY <2>1, EventsAssumption DEF WarehouseEvent
  <2>3. f.order_id # None
    <3>1. CASE f.event_type = "ORDER_CREATED"
      BY <3>1 DEF validate_event, require_order_items, require_field
    <3>2. CASE f.event_type = "ORDER_COMPLETED"  BY <3>2 DEF validate_event, require_field
    <3> QED  BY <3>1, <3>2 DEF IsOrderEvent
  <2> QED  BY <2>2, <2>3 DEF Optional
<1> QED  BY <1>7, <1>8, OrderMoves

CompletionsEnd ==
  evictions = 0 => \A c \in Consumers : CompletionEnd(task[c], orders_by_id)

LEMMA CompletionsEndStep ==
  ASSUME KeysKeepTogether, ApartInv, evictions = 0 => LedgerInv, CompletionsEnd,
         [GroupNext]_all_vars
  PROVE  CompletionsEnd'
<1> SUFFICES ASSUME evictions' = 0, NEW d \in Consumers
             PROVE  CompletionEnd(task'[d], orders_by_id')
  BY DEF CompletionsEnd
<1>1. GroupInv /\ evictions = 0 /\ LedgerInv /\ [Next]_vars
  BY EvictionsStay, GroupStepIsStep DEF ApartInv, GroupInv
<1>2. CASE task'[d].pc # "done"  BY <1>2 DEF CompletionEnd
<1>3. CASE Process(d)  BY <1>1, <1>3, CompletionEnds
<1>4. CASE task'[d] = task[d] /\ task[d].pc = "done"
  <2>1. CompletionEnd(task[d], orders_by_id)  BY <1>1 DEF CompletionsEnd
  <2>2. CASE UNCHANGED tables  BY <1>4, <2>1, <2>2 DEF tables
  <2>3. ASSUME NEW c \in Consumers, BatchReady(c), ApplyBatch(c)
        PROVE  CompletionEnd(task'[d], orders_by_id')
    <3>1. c # d /\ hand[d] # None
      BY <1>1, <1>4, <2>3 DEF BatchReady, GroupInv, GroupTypeOK
    <3>2. CASE validate_event(task[d].event) /\ IsOrderEvent(task[d].event)
      <4>1. orders_by_id'[task[d].event.order_id] = orders_by_id[task[d].event.order_id]
        BY <1>1, <2>3, <3>1, <3>2, OrderInHand
      <4> QED  BY <1>4, <2>1, <4>1 DEF CompletionEnd
    <3>3. CASE ~(validate_event(task[d].event) /\ IsOrderEvent(task[d].event))
      BY <1>4, <3>3 DEF CompletionEnd, IsOrderEvent
    <3> QED  BY <3>2, <3>3
  <2> QED  BY <1>1, <2>2, <2>3, OnlyBatchWrites
<1> QED  BY <1>1, <1>2, <1>3, <1>4, DoneMoves

\* Events of one id, or of one entity, are on one partition.
LEMMA RecordsHere ==
  ASSUME RecordsKeepTogether,
         NEW p \in Partitions, NEW i \in DOMAIN Log[p], NEW e, e = Log[p][i], validate_event(e),
         NEW q \in Partitions, NEW j \in DOMAIN Log[q], NEW f, f = Log[q][j], validate_event(f),
         e.event_id = f.event_id \/ resolved_entity_key(e) = resolved_entity_key(f)
  PROVE  q = p
BY DEF RecordsKeepTogether

\* When a call about the last word on an order ends, the order is completed.
LEMMA CompletionSettles ==
  ASSUME KeysKeepTogether, RecordsKeepTogether, GroupAccountsInv, DeliveredInv, ExplainedInv,
         CompletionsEnd, HistoryPlaced, evictions = 0,
         NEW c \in Consumers, hand[c] # None, task[c].pc = "done",
         NEW p \in Partitions, p = hand[c].partition, LastWord(p, committed[p]),
         NEW order, order = orders_by_id[task[c].event.order_id],
         order # None, NeverReleased(p, order.items)
  PROVE  order.status = "COMPLETED"
<1> DEFINE e == task[c].event
           h == event_history
           n == committed[p] + 1
<1>1. /\ GroupInv /\ HandsOwned /\ OrdersCreated /\ LedgerInv /\ AccountsInv /\ CompletableInv
      /\ OutcomeOK(c) /\ HistoryOK(h) /\ h \in [Events -> Optional(Recorded)]
  BY DEF GroupAccountsInv, GroupLedgerInv, ApartInv, DeliveredInv, AccountsInv, GroupInv, TypeInv,
         TypeOK
<1>2. committed[p] \in Nat /\ n \in DOMAIN Log[p] /\ e = Log[p][n]
  BY <1>1, InHand
<1>3. /\ validate_event(e) /\ e.event_type = "ORDER_COMPLETED" /\ IsOrderEvent(e)
      /\ \A i \in DOMAIN Log[p] :
           LET f == Log[p][i]
           IN  validate_event(f) /\ f # e =>
                 /\ f.event_id # e.event_id
                 /\ i <= committed[p] /\ resolved_entity_key(f) = resolved_entity_key(e)
                      => f.sequence_number < e.sequence_number
  BY <1>2 DEF LastWord, IsOrderEvent
<1>4. e \in Events /\ e.order_id \in Orders /\ e.event_id \in EventIds
  <2>1. e \in Events  BY <1>1 DEF GroupInv, GroupTypeOK, TypeInv, CallOK, CallConsistent
  <2> QED  BY <1>3, <2>1, EventsAssumption
           DEF validate_event, require_field, WarehouseEvent, Optional
\* Events with a record are on the partitions, up to the one in hand.
<1>5. ASSUME NEW f \in Events, h[f] # None
      PROVE  /\ validate_event(f)
             /\ \E q \in Partitions : \E i \in DOMAIN Log[q] :
                  Log[q][i] = f /\ i \in Nat /\ i <= committed[q] + 1
  <2>1. validate_event(f)  BY <1>1, <1>5 DEF HistoryOK
  <2>2. PICK q \in Partitions : \E i \in DOMAIN Log[q] : Log[q][i] = f /\ i <= committed[q] + 1
    BY <1>5 DEF HistoryPlaced
  <2>3. Log[q] \in Seq(Events)  BY LogAssumption
  <2>4. DOMAIN Log[q] = 1..Len(Log[q]) /\ Len(Log[q]) \in Nat  BY <2>3, LenProperties
  <2> QED  BY <2>1, <2>2, <2>4
<1> HIDE DEF e, n
<1>6. CASE task[c].status \in Returned
  <2>1. processed_events[e.event_id] # None
    BY <1>1, <1>6 DEF OutcomeOK, RecordOf, e
  <2>2. PICK f \in Events : f.event_id = e.event_id /\ h[f] # None
    BY <1>4, <2>1 DEF ExplainedInv, IdsExplained
  <2>3. f = e
    <3>1. PICK q \in Partitions : \E i \in DOMAIN Log[q] : Log[q][i] = f /\ validate_event(f)
      BY <1>5, <2>2
    <3>2. PICK i \in DOMAIN Log[q] : Log[q][i] = f /\ validate_event(f)  BY <3>1
    <3>3. q = p  BY <1>2, <1>3, <2>2, <3>2, RecordsHere
    <3> QED  BY <1>3, <2>2, <3>2, <3>3
  <2>4. CASE h[e] = "PROCESSED"
    BY <1>3, <1>4, <2>4 DEF ExplainedInv, CompletionsKept, e
  <2>5. CASE h[e] = "IGNORED_OUT_OF_ORDER"
    <3>1. PICK f2 \in Events \ {e} : /\ h[f2] = "PROCESSED"
                                    /\ resolved_entity_key(f2) = resolved_entity_key(e)
                                    /\ e.sequence_number <= f2.sequence_number
      BY <1>4, <2>5 DEF ExplainedInv, IgnoredExplained
    <3>2. h[f2] # None  BY <3>1, ValueAssumption DEF Returned, Recorded
    <3>3. PICK q \in Partitions : \E i \in DOMAIN Log[q] :
                  /\ Log[q][i] = f2 /\ i \in Nat /\ i <= committed[q] + 1
                  /\ validate_event(f2)
      BY <1>5, <3>1, <3>2
    <3>4. PICK i \in DOMAIN Log[q] : /\ Log[q][i] = f2 /\ i \in Nat /\ i <= committed[q] + 1
                                    /\ validate_event(f2)
      BY <3>3
    <3>5. q = p  BY <1>2, <1>3, <3>1, <3>4, RecordsHere
    <3>6. i # n  BY <1>2, <3>1, <3>4, <3>5
    <3>7. i <= committed[p]  BY <1>2, <3>4, <3>5, <3>6 DEF n
    <3>8. f2.sequence_number < e.sequence_number  BY <1>3, <3>1, <3>4, <3>5, <3>7
    <3>9. e.sequence_number \in Int /\ f2.sequence_number \in Int
      BY <1>4, EventsAssumption DEF WarehouseEvent
    <3> QED  BY <3>1, <3>8, <3>9
  <2> QED  BY <1>1, <1>4, <2>2, <2>3, <2>4, <2>5 DEF Optional, Recorded
<1>7. CASE task[c].status \in RunsShort
  <2> DEFINE items == order.items
  <2>1. HistoryOK(h) /\ ReleasedFrom(items, h)
    BY <1>1, <1>3, <1>7 DEF CompletableInv, ShortHandled, e
  <2>2. PICK k \in DOMAIN items, f \in Events :
          /\ h[f] = "PROCESSED" /\ f.event_type = "PRODUCT_RELEASED"
          /\ f.product_id = items[k].product_id /\ f.zone_id = items[k].zone_id
    <3> HIDE DEF h, items
    <3> QED  BY <2>1, ReleasedByEvent
  <2>3. h[f] # None  BY <2>2, ValueAssumption DEF Returned, Recorded
  <2>4. PICK q \in Partitions : \E i \in DOMAIN Log[q] : Log[q][i] = f /\ validate_event(f)
    BY <1>5, <2>3
  <2>5. PICK r \in Partitions : CreatedOn(r, e.order_id, order.items)
    BY <1>1, <1>4 DEF OrdersCreated, e
  <2>6. ItemProducts(order.items) \subseteq NamedOn(p)
    BY <1>2, <1>3, <2>5, OrderHere
  <2>7. Names(f) = {f.product_id}  BY <2>2 DEF Names
  <2>8. f.product_id \in NamedOn(q)  BY <2>4, <2>7, NamedHere
  <2>9. f.product_id \in NamedOn(p)  BY <2>2, <2>6 DEF ItemProducts
  <2>10. q = p  BY <2>8, <2>9, NamedApart
  <2> QED  BY <2>2, <2>4, <2>10 DEF NeverReleased
<1>8. \/ task[c].status \in Returned \cup RunsShort
      \/ orders_by_id[e.order_id] = None
      \/ orders_by_id[e.order_id].status = "COMPLETED"
  BY <1>3 DEF CompletionsEnd, CompletionEnd, e
<1> QED  BY <1>6, <1>7, <1>8 DEF e

\* The last word on an order that was committed keeps it closed.
LEMMA ClosedKept ==
  ASSUME KeysKeepTogether, ApartInv, LedgerInv, OrdersClosed, evictions = 0, [Next]_vars,
         NEW p \in Partitions, NEW offset \in Nat, offset < committed[p], LastWord(p, offset),
         NEW o, o = Log[p][offset + 1].order_id, orders_by_id'[o] # None,
         NeverReleased(p, orders_by_id'[o].items)
  PROVE  orders_by_id'[o].status = "COMPLETED"
<1> DEFINE e == Log[p][offset + 1]
<1>1. GroupInv /\ HandsOwned /\ committed[p] \in Nat /\ committed[p] <= Len(Log[p])
  BY DEF ApartInv, GroupInv, GroupTypeOK
<1>2. e \in Events /\ validate_event(e) /\ e.event_type = "ORDER_COMPLETED"
      /\ offset + 1 \in DOMAIN Log[p] /\ o \in Orders
  <2>1. Log[p] \in Seq(Events)  BY LogAssumption
  <2>2. Len(Log[p]) \in Nat /\ DOMAIN Log[p] = 1..Len(Log[p])  BY <2>1, LenProperties
  <2>3. offset + 1 \in DOMAIN Log[p]  BY <1>1, <2>2
  <2>4. e \in Events  BY <1>1, <2>2, LogFacts
  <2>5. validate_event(e) /\ e.event_type = "ORDER_COMPLETED"  BY DEF LastWord
  <2>6. o \in Orders
    BY <2>4, <2>5, EventsAssumption
    DEF validate_event, require_field, WarehouseEvent, Optional
  <2> QED  BY <2>3, <2>4, <2>5, <2>6
<1>3. CASE orders_by_id'[o] = orders_by_id[o]
  <2>1. offset \in 0..(committed[p] - 1)  BY <1>1
  <2> QED  BY <1>3, <2>1 DEF OrdersClosed
<1>4. CASE orders_by_id'[o] # orders_by_id[o]
  <2>1. PICK c \in Consumers : BatchReady(c) /\ ApplyBatch(c)
    BY <1>4, OnlyBatchWrites DEF tables
  <2> DEFINE f == task[c].event
             q == hand[c].partition
  <2>2. /\ IsOrderEvent(f) /\ f.order_id = o
        /\ f.event_type = "ORDER_CREATED" \/ orders_by_id'[o].status = "COMPLETED"
    BY <1>2, <1>4, <2>1, OrderMoves
  <2>3. validate_event(f) /\ hand[c] # None
    BY <1>1, <2>1 DEF BatchReady, GroupInv, GroupTypeOK, TypeInv, CallOK, CallConsistent
  <2>4. /\ q \in Partitions /\ committed[q] + 1 \in DOMAIN Log[q]
        /\ f = Log[q][committed[q] + 1]
    BY <1>1, <2>3, InHand
  <2>5. q = p
    <3>1. Related(f, e)  BY <1>2, <2>2 DEF Related, IsOrderEvent
    <3> QED  BY <1>2, <2>3, <2>4, <3>1 DEF KeysKeepTogether
  <2>6. f.event_type # "ORDER_CREATED"
    <3> SUFFICES ASSUME f.event_type = "ORDER_CREATED" PROVE FALSE  OBVIOUS
    <3>1. committed[p] + 1 > offset /\ f # e  BY <1>1, <1>2
    <3> QED  BY <2>2, <2>3, <2>4, <2>5, <3>1 DEF LastWord
  <2> QED  BY <2>2, <2>6
<1> QED  BY <1>3, <1>4

ClosedInv ==
  /\ GroupAccountsInv /\ DeliveredInv
  /\ evictions = 0 => ExplainedInv
  /\ CompletionsEnd
  /\ HistoryPlaced
  /\ OrdersClosed

LEMMA OrdersClosedStep ==
  ASSUME KeysKeepTogether, RecordsKeepTogether, ClosedInv, [GroupNext]_all_vars
  PROVE  OrdersClosed'
<1>1. ASSUME evictions' = 0, NEW p \in Partitions, NEW offset \in 0..(committed'[p] - 1),
             LastWord(p, offset),
             NEW o, o = Log[p][offset + 1].order_id, orders_by_id'[o] # None,
             NeverReleased(p, orders_by_id'[o].items)
      PROVE  orders_by_id'[o].status = "COMPLETED"
  <2>1. /\ GroupInv /\ ApartInv /\ HandsOwned /\ [Next]_vars
        /\ evictions = 0 /\ LedgerInv /\ ExplainedInv /\ OrdersClosed
    BY <1>1, EvictionsStay, GroupStepIsStep
    DEF ClosedInv, GroupAccountsInv, GroupLedgerInv, ApartInv, GroupInv
  <2>2. committed[p] \in Nat /\ committed'[p] \in Nat /\ offset \in Nat
    BY <2>1, CommitsGrow
  <2>3. CASE offset < committed[p]
    BY <1>1, <2>1, <2>2, <2>3, ClosedKept
  <2>4. CASE ~(offset < committed[p])
    <3>1. committed' # committed  BY <1>1, <2>2, <2>4
    <3>2. PICK c \in Consumers :
            /\ Settle(c) /\ owner[hand[c].partition] = c
            /\ committed' = [committed EXCEPT ![hand[c].partition] = hand[c].offset + 1]
      BY <3>1, CommitMoves
    <3>3. /\ hand[c] # None /\ task[c].pc = "done" /\ orders_by_id' = orders_by_id
          /\ hand[c].partition \in Partitions /\ hand[c].offset = committed[hand[c].partition]
      BY <2>1, <3>2, InHand DEF Settle, Return, tables
    <3>4. p = hand[c].partition /\ offset = committed[p]
      BY <1>1, <2>1, <2>2, <2>4, <3>2, <3>3 DEF GroupInv, GroupTypeOK
    <3>5. o = task[c].event.order_id  BY <1>1, <2>1, <3>3, <3>4, InHand
    <3> QED  BY <1>1, <2>1, <3>3, <3>4, <3>5, CompletionSettles DEF ClosedInv
  <2> QED  BY <2>3, <2>4
<1> QED  BY <1>1 DEF OrdersClosed, LastWord, NeverReleased

LEMMA ClosedStep ==
  ASSUME KeysKeepTogether, RecordsKeepTogether, ClosedInv, [GroupNext]_all_vars
  PROVE  ClosedInv'
<1>1. GroupAccountsInv' /\ DeliveredInv' /\ OrdersClosed'
  BY GroupAccountsStep, DeliveredStep, OrdersClosedStep DEF ClosedInv
<1>2. ApartInv /\ (evictions = 0 => LedgerInv /\ AccountsInv)
  BY DEF ClosedInv, GroupAccountsInv, GroupLedgerInv
<1>3. CompletionsEnd' /\ HistoryPlaced'
  BY <1>2, CompletionsEndStep, HistoryPlacedStep DEF ClosedInv
<1>4. ASSUME evictions' = 0 PROVE ExplainedInv'
  <2>1. evictions = 0 /\ [Next]_vars
    BY <1>2, <1>4, EvictionsStay, GroupStepIsStep DEF ApartInv, GroupInv
  <2>2. LedgerInv /\ AccountsInv /\ ExplainedInv  BY <1>2, <2>1 DEF ClosedInv
  <2>3. LedgerInv'  BY <1>1, <1>4 DEF GroupAccountsInv, GroupLedgerInv
  <2> QED  BY <2>1, <2>2, <2>3, ExplainedStep
<1> QED  BY <1>1, <1>3, <1>4 DEF ClosedInv

LEMMA ClosedInit == GroupInit => ClosedInv
<1> SUFFICES ASSUME GroupInit PROVE ClosedInv  OBVIOUS
<1>1. GroupAccountsInv /\ ExplainedInv
  BY GroupAccountsInit, ExplainedInit DEF GroupInit
<1>2. \A c \in Consumers : task[c].pc = "idle"  BY DEF GroupInit, Init, IdleTask
<1>3. DeliveredInv  BY DeliveredInit
<1>4. CompletionsEnd  BY <1>2 DEF CompletionsEnd, CompletionEnd
<1>5. HistoryPlaced  BY DEF GroupInit, Init, HistoryPlaced
<1>6. OrdersClosed  BY DEF GroupInit, OrdersClosed
<1> QED  BY <1>1, <1>3, <1>4, <1>5, <1>6 DEF ClosedInv

\* When the keys keep together what the ledger needs together, no order is left
\* open behind a committed ORDER_COMPLETED that is the last word on it: for
\* every topic, assignment of its partitions and crash.
THEOREM OrdersAreClosed ==
  ASSUME KeysKeepTogether, RecordsKeepTogether
  PROVE  GroupSpec => []OrdersClosed
<1>1. ClosedInv /\ [GroupNext]_all_vars => ClosedInv'  BY ClosedStep
<1>2. ClosedInv => OrdersClosed  BY DEF ClosedInv
<1> QED  BY <1>1, <1>2, ClosedInit, PTL DEF GroupSpec
=============================================================================
