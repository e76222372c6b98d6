--------------------------- MODULE EventProcessor ---------------------------
(***************************************************************************)
(* EventProcessor.process (warehouse/event_handlers.py) over the Cassandra *)
(* tables it reads and writes (warehouse/repositories.py), one action per  *)
(* database read, per inventory change and per batch, for every consumer   *)
(* process of the deployment.  A batch is a LOGGED batch and is applied as *)
(* a whole; whatever delivers events (ReceiveEvent) may deliver any event  *)
(* any number of times in any order.                                       *)
(***************************************************************************)
EXTENDS WarehouseEvents

CONSTANTS Consumers,  \* processes that run an EventProcessor
          MaxInt      \* the largest value of a Cassandra int column

ASSUME MaxIntAssumption == MaxInt \in Nat

VARIABLES
  \* The tables, by partition key and clustering key.
  inventory_by_product_zone,  \* [product][zone] -> row
  inventory_by_zone,          \* [zone][product] -> row
  inventory_by_product,       \* [product] -> row of totals
  orders_by_id,               \* [order] -> row or None
  processed_events,           \* [event_id] -> processing_status or None
  entity_versions,            \* [entity key] -> last_sequence_number or None
  event_history,              \* [payload] -> processing_status or None
  \* The local state of the call of process() each consumer is in.
  task

tables == <<inventory_by_product_zone, inventory_by_zone, inventory_by_product,
            orders_by_id, processed_events, entity_versions, event_history>>

vars == <<inventory_by_product_zone, inventory_by_zone, inventory_by_product,
          orders_by_id, processed_events, entity_versions, event_history, task>>

----------------------------------------------------------------------------
(* Rows and the local state of a call. *)

\* An absent inventory row reads as two zeros (get_inventory,
\* get_inventory_total), so the tables hold that row from the start.
Row == [available : Nat, reserved : Nat]
ZeroRow == [available |-> 0, reserved |-> 0]

\* The items of a stored order have passed require_order_items.
OrderLine == [product_id : Products, zone_id : Zones, quantity : Nat \ {0}]

OrderRecord == [status : {"CREATED", "COMPLETED"}, items : Seq(OrderLine)]

Recorded == {"PROCESSED", "IGNORED_OUT_OF_ORDER"}
Returned == Recorded \cup {"DUPLICATE"}
Raised == {"VALIDATION_ERROR", "ORDER_ALREADY_EXISTS", "ORDER_NOT_FOUND",
           "ORDER_ALREADY_COMPLETED", "INSUFFICIENT_AVAILABLE",
           "INSUFFICIENT_RESERVED", "INSUFFICIENT_TOTAL_AVAILABLE",
           "INSUFFICIENT_TOTAL_RESERVED", "PROCESSING_ERROR"}

ASSUME ValueAssumption == None \notin Row \cup OrderRecord \cup Returned \cup Raised

\* One call of InventoryAccumulator.change, or of set_available when counted
\* is not None.
Change == [product_id : Products, zone_id : Zones, available : Int,
           reserved : Int, counted : Optional(Nat)]

\* pc names the next database call; "batch" is everything between the last
\* read before the match statement and execute_batch.  todo holds the
\* changes still to be made; zone_states, totals and order_update are the
\* accumulator's caches and the order row of the batch; status is what the
\* batch records and, once pc is "done", what process() returned or raised.
Task == [pc           : {"idle", "is_processed", "get_last_sequence",
                         "get_order", "batch", "done"},
         event        : Optional(Events),
         todo         : Seq(Change),
         zone_states  : [Products -> [Zones -> Optional(Row)]],
         totals       : [Products -> Optional(Row)],
         order_update : Optional(OrderRecord),
         status       : Optional(Returned \cup Raised)]

IdleTask == [pc           |-> "idle",
             event        |-> None,
             todo         |-> <<>>,
             zone_states  |-> [p \in Products |-> [z \in Zones |-> None]],
             totals       |-> [p \in Products |-> None],
             order_update |-> None,
             status       |-> None]

Init ==
  /\ inventory_by_product_zone = [p \in Products |-> [z \in Zones |-> ZeroRow]]
  /\ inventory_by_zone = [z \in Zones |-> [p \in Products |-> ZeroRow]]
  /\ inventory_by_product = [p \in Products |-> ZeroRow]
  /\ orders_by_id = [o \in Orders |-> None]
  /\ processed_events = [i \in EventIds |-> None]
  /\ entity_versions = [k \in VersionKeys |-> None]
  /\ event_history = [e \in Events |-> None]
  /\ task = [c \in Consumers |-> IdleTask]

----------------------------------------------------------------------------
(* The start and the end of a call. *)

ReceiveEvent(c, e) ==
  /\ task[c].pc = "idle"
  /\ task' = [task EXCEPT ![c] = [IdleTask EXCEPT !.pc = "is_processed",
                                                  !.event = e]]
  /\ UNCHANGED tables

\* process() returns the status r, or raises the error of code r; its locals
\* go out of scope.
Finish(c, r) ==
  task' = [task EXCEPT ![c] = [IdleTask EXCEPT !.pc = "done",
                                               !.event = task[c].event,
                                               !.status = r]]

\* The caller has seen the result.
Return(c) ==
  /\ task[c].pc = "done"
  /\ task' = [task EXCEPT ![c] = IdleTask]
  /\ UNCHANGED tables

\* Mutant: the call goes on after its caller is gone.
Crash_GoesOn(c) ==
  /\ task[c].pc # "idle"
  /\ UNCHANGED vars

\* The process dies: its locals are lost, the tables are not.
Crash(c) ==
  /\ task[c].pc # "idle"
  /\ task' = [task EXCEPT ![c] = IdleTask]
  /\ UNCHANGED tables

----------------------------------------------------------------------------
(* The checks before the event is handled. *)

\* Mutant: the duplicate check is left out.
IsProcessed_NoCheck(c) ==
  /\ task[c].pc = "is_processed"
  /\ task' = [task EXCEPT ![c].pc = "get_last_sequence"]
  /\ UNCHANGED tables

IsProcessed(c) ==
  /\ task[c].pc = "is_processed"
  /\ IF processed_events[task[c].event.event_id] # None
     THEN Finish(c, "DUPLICATE")
     ELSE task' = [task EXCEPT ![c].pc = "get_last_sequence"]
  /\ UNCHANGED tables

\* The changes an event makes by itself.  The two order events make theirs
\* after get_order.
Delta(p, z, a, r) ==
  [product_id |-> p, zone_id |-> z, available |-> a, reserved |-> r, counted |-> None]

SetAvailable(p, z, n) ==
  [product_id |-> p, zone_id |-> z, available |-> 0, reserved |-> 0, counted |-> n]

ProductChanges(e) ==
  IF e.event_type = "PRODUCT_RECEIVED"
  THEN <<Delta(e.product_id, e.zone_id, e.quantity, 0)>>
  ELSE IF e.event_type = "PRODUCT_SHIPPED"
  THEN <<Delta(e.product_id, e.zone_id, -e.quantity, 0)>>
  ELSE IF e.event_type = "PRODUCT_MOVED"
  THEN <<Delta(e.product_id, e.from_zone_id, -e.quantity, 0),
         Delta(e.product_id, e.to_zone_id, e.quantity, 0)>>
  ELSE IF e.event_type = "PRODUCT_RESERVED"
  THEN <<Delta(e.product_id, e.zone_id, -e.quantity, e.quantity)>>
  ELSE IF e.event_type = "PRODUCT_RELEASED"
  THEN <<Delta(e.product_id, e.zone_id, e.quantity, -e.quantity)>>
  ELSE \* INVENTORY_COUNTED
       <<SetAvailable(e.product_id, e.zone_id, e.counted_quantity)>>

IsOrderEvent(e) == e.event_type \in {"ORDER_CREATED", "ORDER_COMPLETED"}

\* Mutant: the comparison with the last sequence number is left out.
OutOfOrder_Never(e, last) == FALSE

\* Mutant: an event that repeats the last sequence number is accepted.
OutOfOrder_Repeat(e, last) == last # None /\ e.sequence_number < last

\* Mutant: the comparison is off by one, so that the next number is too old.
OutOfOrder_Next(e, last) == last # None /\ e.sequence_number <= last + 1

OutOfOrder(e, last) == last # None /\ e.sequence_number <= last

\* validate_event, then get_last_sequence, then the choice of the handler.
CheckSequence(c) ==
  LET e == task[c].event
      last == entity_versions[resolved_entity_key(e)]
  IN  /\ task[c].pc = "get_last_sequence"
      /\ UNCHANGED tables
      /\ \/ /\ ~validate_event(e)
            /\ Finish(c, "VALIDATION_ERROR")
         \/ /\ validate_event(e)
            /\ OutOfOrder(e, last)
            /\ task' = [task EXCEPT ![c].pc = "batch",
                                    ![c].status = "IGNORED_OUT_OF_ORDER"]
         \/ /\ validate_event(e)
            /\ ~OutOfOrder(e, last)
            /\ task' = [task EXCEPT
                 ![c].pc = IF IsOrderEvent(e) THEN "get_order" ELSE "batch",
                 ![c].todo = IF IsOrderEvent(e) THEN <<>> ELSE ProductChanges(e),
                 ![c].status = "PROCESSED"]

\* Mutant: an order takes its items off the available stock only.
ReserveItems_NotHeld(items) ==
  [i \in 1..Len(items) |->
     Delta(items[i].product_id, items[i].zone_id, -items[i].quantity, 0)]

\* handle_order_created reserves every item of the order.
ReserveItems(items) ==
  [i \in 1..Len(items) |->
     Delta(items[i].product_id, items[i].zone_id, -items[i].quantity, items[i].quantity)]

\* Mutant: completing an order ships its first item only.
ShipItems_First(items) ==
  <<Delta(items[1].product_id, items[1].zone_id, 0, -items[1].quantity)>>

\* handle_order_completed ships the reserved items of the stored order.
ShipItems(items) ==
  [i \in 1..Len(items) |->
     Delta(items[i].product_id, items[i].zone_id, 0, -items[i].quantity)]

\* Mutant: an existing order is not looked for, and is created again.
HandleOrderCreated_Again(c) ==
  LET e == task[c].event
  IN  /\ task[c].pc = "get_order"
      /\ e.event_type = "ORDER_CREATED"
      /\ UNCHANGED tables
      /\ task' = [task EXCEPT
           ![c].pc = "batch",
           ![c].todo = ReserveItems(e.items),
           ![c].order_update = [status |-> "CREATED", items |-> e.items]]

HandleOrderCreated(c) ==
  LET e == task[c].event
  IN  /\ task[c].pc = "get_order"
      /\ e.event_type = "ORDER_CREATED"
      /\ UNCHANGED tables
      /\ IF orders_by_id[e.order_id] # None
         THEN Finish(c, "ORDER_ALREADY_EXISTS")
         ELSE task' = [task EXCEPT
                ![c].pc = "batch",
                ![c].todo = ReserveItems(e.items),
                ![c].order_update = [status |-> "CREATED", items |-> e.items]]

\* Mutant: the order row takes the event's type for its status.
HandleOrderCompleted_Type(c) ==
  LET e == task[c].event
      order == orders_by_id[e.order_id]
  IN  /\ task[c].pc = "get_order"
      /\ e.event_type = "ORDER_COMPLETED"
      /\ UNCHANGED tables
      /\ IF order = None
         THEN Finish(c, "ORDER_NOT_FOUND")
         ELSE task' = [task EXCEPT
                ![c].pc = "batch",
                ![c].todo = ShipItems(order.items),
                ![c].order_update = [status |-> e.event_type, items |-> order.items]]

HandleOrderCompleted(c) ==
  LET e == task[c].event
      order == orders_by_id[e.order_id]
  IN  /\ task[c].pc = "get_order"
      /\ e.event_type = "ORDER_COMPLETED"
      /\ UNCHANGED tables
      /\ \/ /\ order = None
            /\ Finish(c, "ORDER_NOT_FOUND")
         \/ /\ order # None
            /\ order.status = "COMPLETED"
            /\ Finish(c, "ORDER_ALREADY_COMPLETED")
         \/ /\ order # None
            /\ order.status # "COMPLETED"
            /\ task' = [task EXCEPT
                 ![c].pc = "batch",
                 ![c].todo = ShipItems(order.items),
                 ![c].order_update = [status |-> "COMPLETED", items |-> order.items]]

----------------------------------------------------------------------------
(* The InventoryAccumulator. *)

Changing(c) == task[c].pc = "batch" /\ task[c].todo # <<>>

\* get_zone_state and get_total read a row once per event and keep it.
GetZoneState(c) ==
  LET ch == Head(task[c].todo)
  IN  /\ Changing(c)
      /\ task[c].zone_states[ch.product_id][ch.zone_id] = None
      /\ task' = [task EXCEPT ![c].zone_states[ch.product_id][ch.zone_id] =
                    inventory_by_product_zone[ch.product_id][ch.zone_id]]
      /\ UNCHANGED tables

GetTotal(c) ==
  LET ch == Head(task[c].todo)
  IN  /\ Changing(c)
      /\ task[c].zone_states[ch.product_id][ch.zone_id] # None
      /\ task[c].totals[ch.product_id] = None
      /\ task' = [task EXCEPT ![c].totals[ch.product_id] =
                    inventory_by_product[ch.product_id]]
      /\ UNCHANGED tables

\* Mutant: set_available adds the counted quantity to the row.
AvailableDelta_Added(ch, row) ==
  IF ch.counted = None THEN ch.available ELSE ch.counted

\* set_available turns the counted quantity into a delta.
AvailableDelta(ch, row) ==
  IF ch.counted = None THEN ch.available ELSE ch.counted - row.available

Add(row, a, r) == [available |-> row.available + a, reserved |-> row.reserved + r]

\* Mutant: the rows of the zone are not checked, only the totals.
BrokenRule_TotalsOnly(row, total) ==
  IF total.available < 0 THEN "INSUFFICIENT_TOTAL_AVAILABLE"
  ELSE IF total.reserved < 0 THEN "INSUFFICIENT_TOTAL_RESERVED"
  ELSE None

\* The code of the first rule a change breaks, or None.
BrokenRule(row, total) ==
  IF row.available < 0 THEN "INSUFFICIENT_AVAILABLE"
  ELSE IF row.reserved < 0 THEN "INSUFFICIENT_RESERVED"
  ELSE IF total.available < 0 THEN "INSUFFICIENT_TOTAL_AVAILABLE"
  ELSE IF total.reserved < 0 THEN "INSUFFICIENT_TOTAL_RESERVED"
  ELSE None

\* Mutant: the accumulator keeps no rows between the changes of an event, so
\* a later change of the same row starts from the table again.
ApplyChange_Forgets(c) ==
  LET ch == Head(task[c].todo)
      row == inventory_by_product_zone[ch.product_id][ch.zone_id]
      total == task[c].totals[ch.product_id]
      delta == AvailableDelta(ch, row)
      new_row == Add(row, delta, ch.reserved)
      new_total == Add(total, delta, ch.reserved)
  IN  /\ Changing(c)
      /\ task[c].zone_states[ch.product_id][ch.zone_id] # None
      /\ total # None
      /\ IF BrokenRule(new_row, new_total) # None
         THEN Finish(c, BrokenRule(new_row, new_total))
         ELSE task' = [task EXCEPT
                ![c].zone_states[ch.product_id][ch.zone_id] = new_row,
                ![c].totals[ch.product_id] = new_total,
                ![c].todo = Tail(@)]
      /\ UNCHANGED tables

ApplyChange(c) ==
  LET ch == Head(task[c].todo)
      row == task[c].zone_states[ch.product_id][ch.zone_id]
      total == task[c].totals[ch.product_id]
      delta == AvailableDelta(ch, row)
      new_row == Add(row, delta, ch.reserved)
      new_total == Add(total, delta, ch.reserved)
  IN  /\ Changing(c)
      /\ row # None
      /\ total # None
      /\ IF BrokenRule(new_row, new_total) # None
         THEN Finish(c, BrokenRule(new_row, new_total))
         ELSE task' = [task EXCEPT
                ![c].zone_states[ch.product_id][ch.zone_id] = new_row,
                ![c].totals[ch.product_id] = new_total,
                ![c].todo = Tail(@)]
      /\ UNCHANGED tables

----------------------------------------------------------------------------
(* The batch: flush, add_processing_records and execute_batch, or the      *)
(* records alone for an ignored event.                                     *)

BatchReady(c) == task[c].pc = "batch" /\ task[c].todo = <<>>

Fits(row) == row # None => row.available <= MaxInt /\ row.reserved <= MaxInt

\* Cassandra refuses a statement whose value does not fit its int column.
BatchFits(c) ==
  /\ \A p \in Products : Fits(task[c].totals[p])
  /\ \A p \in Products, z \in Zones : Fits(task[c].zone_states[p][z])

Overlay(new, old) == IF new = None THEN old ELSE new

ApplyBatch(c) ==
  LET t == task[c]
      e == t.event
  IN  /\ inventory_by_product_zone' =
           [p \in Products |-> [z \in Zones |->
              Overlay(t.zone_states[p][z], inventory_by_product_zone[p][z])]]
      /\ inventory_by_zone' =
           [z \in Zones |-> [p \in Products |->
              Overlay(t.zone_states[p][z], inventory_by_zone[z][p])]]
      /\ inventory_by_product' =
           [p \in Products |-> Overlay(t.totals[p], inventory_by_product[p])]
      /\ orders_by_id' = IF t.order_update = None THEN orders_by_id
                         ELSE [orders_by_id EXCEPT ![e.order_id] = t.order_update]
      /\ processed_events' = [processed_events EXCEPT ![e.event_id] = t.status]
      /\ event_history' = [event_history EXCEPT ![e] = t.status]
      /\ entity_versions' =
           IF t.status = "PROCESSED"
           THEN [entity_versions EXCEPT ![resolved_entity_key(e)] = e.sequence_number]
           ELSE entity_versions

\* Mutant: record_ignored builds its batch and does not execute it.
ExecuteBatch_IgnoredUnwritten(c) ==
  /\ BatchReady(c)
  /\ BatchFits(c)
  /\ IF task[c].status = "PROCESSED" THEN ApplyBatch(c) ELSE UNCHANGED tables
  /\ Finish(c, task[c].status)

ExecuteBatch(c) ==
  /\ BatchReady(c)
  /\ BatchFits(c)
  /\ ApplyBatch(c)
  /\ Finish(c, task[c].status)

BatchRefused(c) ==
  /\ BatchReady(c)
  /\ ~BatchFits(c)
  /\ Finish(c, "PROCESSING_ERROR")
  /\ UNCHANGED tables

----------------------------------------------------------------------------
(* Failures of the database.  Every read and the batch may raise; a write  *)
(* that times out at the coordinator raises although it is applied.        *)

Reading(c) ==
  \/ task[c].pc \in {"is_processed", "get_order"}
  \/ task[c].pc = "get_last_sequence" /\ validate_event(task[c].event)
  \/ /\ Changing(c)
     /\ LET ch == Head(task[c].todo)
        IN  \/ task[c].zone_states[ch.product_id][ch.zone_id] = None
            \/ task[c].totals[ch.product_id] = None

DatabaseCallFails(c) ==
  /\ Reading(c) \/ BatchReady(c)
  /\ Finish(c, "PROCESSING_ERROR")
  /\ UNCHANGED tables

\* The batch is applied by the time that execute() raises.  One that is applied
\* still later is in CassandraBatch.
BatchTimesOut(c) ==
  /\ BatchReady(c)
  /\ BatchFits(c)
  /\ ApplyBatch(c)
  /\ Finish(c, "PROCESSING_ERROR")

----------------------------------------------------------------------------
Process(c) ==
  \/ IsProcessed(c)
  \/ CheckSequence(c)
  \/ HandleOrderCreated(c)
  \/ HandleOrderCompleted(c)
  \/ GetZoneState(c)
  \/ GetTotal(c)
  \/ ApplyChange(c)
  \/ ExecuteBatch(c)
  \/ BatchRefused(c)

DatabaseFailure(c) == DatabaseCallFails(c) \/ BatchTimesOut(c)

Next ==
  \E c \in Consumers :
    \/ \E e \in Events : ReceiveEvent(c, e)
    \/ Process(c)
    \/ DatabaseFailure(c)
    \/ Return(c)
    \/ Crash(c)

Spec == Init /\ [][Next]_vars

----------------------------------------------------------------------------
(* Properties. *)

\* The deployment (docker-compose.yml) has one consumer process.
SingleConsumer == \A c, d \in Consumers : c = d

\* The rows, records and locals have the shapes the tables and the code give
\* them (migrations, repositories.py, InventoryAccumulator).
TypeOK ==
  /\ inventory_by_product_zone \in [Products -> [Zones -> Row]]
  /\ inventory_by_zone \in [Zones -> [Products -> Row]]
  /\ inventory_by_product \in [Products -> Row]
  /\ orders_by_id \in [Orders -> Optional(OrderRecord)]
  /\ processed_events \in [EventIds -> Optional(Recorded)]
  /\ entity_versions \in [VersionKeys -> Optional(Int)]
  /\ event_history \in [Events -> Optional(Recorded)]
  /\ task \in [Consumers -> Task]

\* Only validated events get past the checks, and until they have passed them
\* the call holds no rows, changes or order of its own.
CallConsistent(t) ==
  /\ t.pc # "idle" => t.event \in Events
  /\ t.pc \in {"get_order", "batch"} => validate_event(t.event)
  /\ t.pc = "get_order" => IsOrderEvent(t.event) /\ t.status = "PROCESSED"
  /\ t.pc = "batch" => t.status \in Recorded
  /\ t.pc # "batch" =>
       /\ t.todo = <<>>
       /\ t.order_update = None
       /\ \A p \in Products : t.totals[p] = None
       /\ \A p \in Products, z \in Zones : t.zone_states[p][z] = None

CallOK == \A c \in Consumers : CallConsistent(task[c])

\* The units a row of quantities f holds, one by one: <<z, 1>>, <<z, 2>>, ...
Units(f) == UNION {{z} \X (1..f[z]) : z \in Zones}

AvailableIn(p) == [z \in Zones |-> inventory_by_product_zone[p][z].available]
ReservedIn(p) == [z \in Zones |-> inventory_by_product_zone[p][z].reserved]

\* The denormalised tables agree (docs/task.md item 5): the totals of a
\* product count the units its zones hold, whatever rows an event read,
\* cached and wrote, and inventory_by_zone mirrors inventory_by_product_zone.
TotalsAgree ==
  \A p \in Products :
    /\ inventory_by_product[p].available = Cardinality(Units(AvailableIn(p)))
    /\ inventory_by_product[p].reserved = Cardinality(Units(ReservedIn(p)))

ZonesAgree ==
  \A p \in Products, z \in Zones :
    inventory_by_zone[z][p] = inventory_by_product_zone[p][z]

TablesAgree == TotalsAgree /\ ZonesAgree

\* The rows as a call sees them: what it has cached, else what is stored.
ZoneView(c, p, z) == Overlay(task[c].zone_states[p][z], inventory_by_product_zone[p][z])
TotalView(c, p) == Overlay(task[c].totals[p], inventory_by_product[p])

\* The totals agree with the zones in every call's view too, after each row it
\* reads and each change it makes, so its batch is consistent whenever it is
\* sent.
ViewsAgree ==
  \A c \in Consumers, p \in Products :
    /\ TotalView(c, p).available =
         Cardinality(Units([z \in Zones |-> ZoneView(c, p, z).available]))
    /\ TotalView(c, p).reserved =
         Cardinality(Units([z \in Zones |-> ZoneView(c, p, z).reserved]))

\* No table ever holds a negative quantity or one that its int column cannot
\* hold, in whatever order the changes of an event touch a row.
InRange(row) == row.available \in 0..MaxInt /\ row.reserved \in 0..MaxInt

StockInRange ==
  /\ \A p \in Products : InRange(inventory_by_product[p])
  /\ \A p \in Products, z \in Zones :
       InRange(inventory_by_product_zone[p][z]) /\ InRange(inventory_by_zone[z][p])

\* A total never runs short while its zone does not: the last two checks of
\* InventoryAccumulator.change never raise.
TotalNeverShort ==
  \A c \in Consumers :
    task[c].status \notin {"INSUFFICIENT_TOTAL_AVAILABLE", "INSUFFICIENT_TOTAL_RESERVED"}

\* What process() returns or raises is what processed_events says of the id:
\* recorded when it returns, not recorded when it breaks a rule.  An error of
\* the database says nothing (the batch may have been applied).
ResultMatchesRecord ==
  \A c \in Consumers :
    LET t == task[c]
        recorded == processed_events[t.event.event_id]
    IN  t.pc = "done" =>
          /\ t.status \in Recorded => recorded = t.status
          /\ t.status = "DUPLICATE" => recorded # None
          /\ t.status \in Raised \ {"PROCESSING_ERROR"} => recorded = None

\* The stock, the orders and the versions only change together with the first
\* record of an event id, as PROCESSED: a redelivered event, or another
\* payload under the same id, changes nothing (docs/task.md item 4).
AppliedOnce ==
  [][\/ UNCHANGED <<inventory_by_product_zone, inventory_by_zone,
                    inventory_by_product, orders_by_id, entity_versions>>
     \/ \E e \in Events :
          /\ processed_events[e.event_id] = None
          /\ processed_events' = [processed_events EXCEPT ![e.event_id] = "PROCESSED"]
          /\ event_history' = [event_history EXCEPT ![e] = "PROCESSED"]]_vars

\* The sequence number of an entity grows with every event applied to it and
\* never falls (docs/task.md:159).
VersionsMonotonic ==
  [][\A k \in VersionKeys :
       entity_versions'[k] # entity_versions[k] =>
         /\ entity_versions'[k] # None
         /\ entity_versions[k] # None => entity_versions'[k] > entity_versions[k]]_vars

\* An order is created once and completed once, with the items it was
\* created with.
OrderLifecycle ==
  [][\A o \in Orders :
       orders_by_id'[o] # orders_by_id[o] =>
         \/ /\ orders_by_id[o] = None
            /\ orders_by_id'[o].status = "CREATED"
         \/ /\ orders_by_id[o] # None
            /\ orders_by_id[o].status = "CREATED"
            /\ orders_by_id'[o] = [orders_by_id[o] EXCEPT !.status = "COMPLETED"]]_vars

\* Moving, reserving and releasing stock and creating an order neither make
\* nor lose a unit of any product.
OnHand(row) == row.available + row.reserved

ConservesStock ==
  [][\A e \in Events :
       /\ event_history'[e] # event_history[e]
       /\ e.event_type \in {"PRODUCT_MOVED", "PRODUCT_RESERVED",
                            "PRODUCT_RELEASED", "ORDER_CREATED"}
       => \A p \in Products :
            OnHand(inventory_by_product'[p]) = OnHand(inventory_by_product[p])]_vars

\* The history of a product names every event that changed its stock.
HistoryCoversProducts ==
  [][\A p \in Products :
       inventory_by_product'[p] # inventory_by_product[p] =>
         \E e \in Events :
           /\ history_product_id(e) = p
           /\ event_history[e] = None
           /\ event_history'[e] = "PROCESSED"]_vars
============================================================================
