---------------------------- MODULE ConsumerGroup ----------------------------
(***************************************************************************)
(* Several consumer processes in the one consumer group (settings.py): the *)
(* partitions of the topic are shared out among them, each runs the loop   *)
(* of warehouse/consumer_service.py, and all write the same tables.        *)
(*                                                                         *)
(* ConsumerService has the failures of one consumer's commits and dead     *)
(* letters; here both work, and a consumer may die or be taken for dead.   *)
(***************************************************************************)
EXTENDS LedgerRefinement

CONSTANTS Partitions,    \* partitions of the events topic
          PartitionOf,   \* [topic key -> partition], the hash of the message key
          Sent,          \* the events accepted by the producer API, in order
          MaxFailures    \* bound: how many consumers die or are taken for dead

ASSUME PartitionAssumption == \A e \in Events : PartitionOf[topic_key(e)] \in Partitions

ASSUME SentAssumption == Sent \in Seq(Events)

ASSUME BoundAssumption == MaxFailures \in Nat

VARIABLES
  owner,      \* [partition] -> the consumer it is assigned to, or None
  committed,  \* [partition] -> offset committed for the group
  hand,       \* [consumer] -> the place of the message it handles, or None
  dlq,        \* places of the messages in the dead letter topic
  crashes,    \* consumers that died so far
  evictions   \* consumers taken for dead so far

group_vars == <<owner, committed, hand, dlq, crashes, evictions>>
all_vars == <<vars, group_vars>>

\* Each publish() waits for its delivery, so a partition holds its events in
\* the order they were sent in (ProducerApi!SequentialInOrder).
Log == [p \in Partitions |-> SelectSeq(Sent, LAMBDA e : PartitionOf[topic_key(e)] = p)]

\* SelectSeq keeps events; that its recursion does is not within a prover's reach.
ASSUME LogAssumption == \A p \in Partitions : Log[p] \in Seq(Events)

Place == [partition : Partitions, offset : Nat]

ASSUME PlaceAssumption == None \notin Place \cup Consumers

EventAt(at) == Log[at.partition][at.offset + 1]

GroupInit ==
  /\ Init
  /\ owner = [p \in Partitions |-> None]
  /\ committed = [p \in Partitions |-> 0]
  /\ hand = [c \in Consumers |-> None]
  /\ dlq = {}
  /\ crashes = 0
  /\ evictions = 0

----------------------------------------------------------------------------
Owned(c) == {p \in Partitions : owner[p] = c}

\* Mutant: partitions move while their consumer still handles a message.
CanMove_Anytime(c, p) == TRUE

\* A consumer takes part in a rebalance inside poll(), so the group waits for
\* one that handles a message; a consumer that was evicted is not waited for.
CanMove(c, p) == hand[c] = None

\* The group shares out the partitions anew, because a consumer joined, left
\* or died; one that still handles a message gets none.
Rebalance(assignment) ==
  /\ \A p \in Partitions :
       /\ owner[p] # None => CanMove(owner[p], p)
       /\ hand[assignment[p]] = None
  /\ owner' = assignment
  /\ UNCHANGED <<vars, committed, hand, dlq, crashes, evictions>>

\* poll() returns the next message of a partition.  The consumer has committed
\* every message before it, or lost the partition.
Poll(c, p) ==
  LET at == [partition |-> p, offset |-> committed[p]]
  IN  /\ owner[p] = c
      /\ hand[c] = None
      /\ committed[p] < Len(Log[p])
      /\ ReceiveEvent(c, EventAt(at))
      /\ hand' = [hand EXCEPT ![c] = at]
      /\ UNCHANGED <<owner, committed, dlq, crashes, evictions>>

ProcessStep(c) ==
  /\ Process(c)
  /\ UNCHANGED group_vars

\* The broker takes a commit from the partition's owner alone.
CommitAccepted(c) == owner[hand[c].partition] = c

\* Mutant: an invalid event is logged and its offset committed.
DeadLettered_NotInvalid(c) ==
  task[c].status \in Raised \ {"VALIDATION_ERROR"} \/ ~CommitAccepted(c)

\* An event that raised is dead-lettered, and one whose commit raises.
DeadLettered(c) == task[c].status \in Raised \/ ~CommitAccepted(c)

\* process() returns or raises, and handle_message commits or publishes a dead
\* letter and commits.
Settle(c) ==
  /\ hand[c] # None
  /\ Return(c)
  /\ committed' = IF CommitAccepted(c)
                  THEN [committed EXCEPT ![hand[c].partition] = hand[c].offset + 1]
                  ELSE committed
  /\ dlq' = IF DeadLettered(c) THEN dlq \cup {hand[c]} ELSE dlq
  /\ hand' = [hand EXCEPT ![c] = None]
  /\ UNCHANGED <<owner, crashes, evictions>>

\* A consumer dies between any two steps of handling a message.
CrashConsumer(c) ==
  /\ crashes + evictions < MaxFailures
  /\ crashes' = crashes + 1
  /\ Crash(c)
  /\ hand' = [hand EXCEPT ![c] = None]
  /\ owner' = [p \in Partitions |-> IF owner[p] = c THEN None ELSE owner[p]]
  /\ UNCHANGED <<committed, dlq, evictions>>

\* A consumer that does not poll for max.poll.interval.ms loses its partitions
\* and goes on with the message it handles.
Evict(c) ==
  /\ crashes + evictions < MaxFailures
  /\ evictions' = evictions + 1
  /\ hand[c] # None
  /\ Owned(c) # {}
  /\ owner' = [p \in Partitions |-> IF owner[p] = c THEN None ELSE owner[p]]
  /\ UNCHANGED <<vars, committed, hand, dlq, crashes>>

----------------------------------------------------------------------------
GroupNext ==
  \/ \E assignment \in [Partitions -> Consumers] : Rebalance(assignment)
  \/ \E c \in Consumers :
       \/ \E p \in Partitions : Poll(c, p)
       \/ ProcessStep(c)
       \/ Settle(c)
       \/ CrashConsumer(c)
       \/ Evict(c)

GroupSpec == GroupInit /\ [][GroupNext]_all_vars

----------------------------------------------------------------------------
(* Properties. *)

\* The group's state has its types, and a consumer is inside process() exactly
\* when it handles a message.
GroupTypeOK ==
  /\ owner \in [Partitions -> Optional(Consumers)]
  /\ committed \in [Partitions -> Nat]
  /\ hand \in [Consumers -> Optional(Place)]
  /\ dlq \subseteq Place
  /\ crashes \in Nat /\ evictions \in Nat
  /\ crashes + evictions <= MaxFailures
  /\ \A c \in Consumers : hand[c] # None <=> task[c].pc # "idle"

\* The message at a place has an outcome.
Handled(at) == processed_events[EventAt(at).event_id] # None \/ at \in dlq

\* At-least-once for the group (docs/task.md:71): however partitions move, and
\* whichever consumer dies or is taken for dead with a message in its hand, no
\* offset is committed before every message below it has an outcome.
GroupCommittedMeansHandled ==
  \A p \in Partitions : \A o \in 0..(committed[p] - 1) :
    Handled([partition |-> p, offset |-> o])

ItemProducts(items) == {items[i].product_id : i \in DOMAIN items}

\* The products an event names itself.
Names(e) ==
  IF e.event_type = "ORDER_CREATED" THEN ItemProducts(e.items)
  ELSE IF e.event_type = "ORDER_COMPLETED" THEN {}
  ELSE {e.product_id}

\* The products whose rows an event reads and writes, of an ORDER_COMPLETED
\* those of its order.
Products_of(e) ==
  IF e.event_type = "ORDER_COMPLETED"
  THEN IF orders_by_id[e.order_id] = None THEN {}
       ELSE ItemProducts(orders_by_id[e.order_id].items)
  ELSE Names(e)

Related(e, f) ==
  \/ Names(e) \cap Names(f) # {}
  \/ IsOrderEvent(e) /\ IsOrderEvent(f) /\ e.order_id = f.order_id

\* The valid events of a product, and those of an order, are on one partition.
\* topic_key gives this when an order has one product and both of its events
\* name it as product_id; an order of several products may be on another
\* partition than the events of some of them.
KeysKeepTogether ==
  \A p, q \in Partitions : p # q =>
    \A i \in DOMAIN Log[p], j \in DOMAIN Log[q] :
      validate_event(Log[p][i]) /\ validate_event(Log[q][j])
        => ~Related(Log[p][i], Log[q][j])

\* The valid events of an entity, and those of an event id, are on one partition.
RecordsKeepTogether ==
  \A p, q \in Partitions : p # q =>
    \A i \in DOMAIN Log[p], j \in DOMAIN Log[q] :
      validate_event(Log[p][i]) /\ validate_event(Log[q][j])
        => /\ Log[p][i].event_id # Log[q][j].event_id
           /\ resolved_entity_key(Log[p][i]) # resolved_entity_key(Log[q][j])

\* Two consumers never have rows of one product in their hands, unless one of
\* them was taken for dead: nothing else keeps one's batch from overwriting the
\* other's, since a batch is written without a condition.
OneWriterPerProduct ==
  evictions = 0 =>
    \A c, d \in Consumers :
      c # d /\ task[c].pc = "batch" /\ task[d].pc = "batch"
        => Products_of(task[c].event) \cap Products_of(task[d].event) = {}

\* The tables agree (docs/task.md item 5) whatever the consumers of the group
\* do at the same time.
GroupTablesAgree == evictions = 0 => TablesAgree

\* The group implements the ledger (docs/task.md items 3 to 6) as one consumer
\* does: whatever other calls do between two steps of a call, its batch has
\* exactly the effect the ledger promises of its event.
GroupLedger == [][evictions = 0 => Ledger!Next]_(Ledger!ledger)

\* Everything sent has been committed.
AllCommitted == \A p \in Partitions : committed[p] = Len(Log[p])

\* An order that was created and then completed by the client ends completed
\* (docs/task.md:125), in whatever order the consumer reads the two events
\* (docs/task.md:154).
OrdersComplete ==
  AllCommitted /\ evictions = 0 =>
    \A i, j \in DOMAIN Sent :
      /\ Sent[i].event_type = "ORDER_CREATED"
      /\ Sent[j].event_type = "ORDER_COMPLETED"
      /\ i < j /\ Sent[i].order_id = Sent[j].order_id
      => orders_by_id[Sent[j].order_id] # None
           /\ orders_by_id[Sent[j].order_id].status = "COMPLETED"

\* The event at an offset is the last word on its order: a valid
\* ORDER_COMPLETED whose id no other event has, whose entity's earlier events
\* have smaller numbers, and after which nothing creates the order.
LastWord(p, offset) ==
  LET e == Log[p][offset + 1]
  IN  /\ validate_event(e) /\ e.event_type = "ORDER_COMPLETED"
      /\ \A i \in DOMAIN Log[p] :
           LET f == Log[p][i]
           IN  validate_event(f) /\ f # e =>
                 /\ f.event_id # e.event_id
                 /\ i <= offset /\ resolved_entity_key(f) = resolved_entity_key(e)
                      => f.sequence_number < e.sequence_number
                 /\ i > offset /\ f.event_type = "ORDER_CREATED" => f.order_id # e.order_id

\* No event of the partition releases units where the items are reserved.
NeverReleased(p, items) ==
  \A i \in DOMAIN Log[p], k \in DOMAIN items :
    LET f == Log[p][i]
    IN  validate_event(f) /\ f.event_type = "PRODUCT_RELEASED" =>
          f.product_id # items[k].product_id \/ f.zone_id # items[k].zone_id

\* No order is left open (docs/task.md:279-282): once the last word on an order
\* is committed, the order is completed if it was ever created, whichever
\* consumer handled which of its events and whoever died on the way.  Units
\* released by a PRODUCT_RELEASED may be the order's, so that it runs short.
OrdersClosed ==
  evictions = 0 =>
    \A p \in Partitions : \A offset \in 0..(committed[p] - 1) :
      LastWord(p, offset) =>
        LET order == orders_by_id[Log[p][offset + 1].order_id]
        IN  order # None /\ NeverReleased(p, order.items) => order.status = "COMPLETED"
=============================================================================
