--------------------------- MODULE ConsumerService ---------------------------
(***************************************************************************)
(* The consumer loop (warehouse/consumer_service.py) around the event      *)
(* processor: poll, process, commit, or publish to the dead letter topic   *)
(* (warehouse/dlq.py) and commit.  One consumer process reads every        *)
(* partition, as docker-compose.yml deploys it.                            *)
(*                                                                         *)
(* The kinds of failure that may happen are a constant, so that a run can  *)
(* name the failures a property survives; together they happen at most     *)
(* MaxFaults times.                                                        *)
(***************************************************************************)
EXTENDS EventProcessor

CONSTANTS Consumer,      \* the consumer process
          Partitions,    \* partitions of the events topic
          PartitionOf,   \* [topic key -> partition], the hash of the message key
          Garbage,       \* a message that is not a WarehouseEvent
          Faults,        \* kinds of failure that may happen
          MaxFaults,     \* bound: how many failures happen
          MaxMessages    \* bound: how many messages are published

FaultKinds == {"cassandra", "commit", "crash", "deserialize", "dlq_error", "dlq_timeout",
               "join", "lag", "stop"}

ASSUME ConsumerAssumption == Consumers = {Consumer}

ASSUME PartitionAssumption == \A e \in Events : PartitionOf[topic_key(e)] \in Partitions

ASSUME FaultsAssumption == Faults \subseteq FaultKinds /\ {MaxFaults, MaxMessages} \subseteq Nat

VARIABLES
  log,        \* [partition] -> the messages published, in order
  committed,  \* [partition] -> offset committed for the group
  position,   \* [partition] -> offset the next poll returns
  loop,       \* where the consumer thread is, and the message it handles
  stop,       \* how far stop() is, which another thread runs
  gauge,      \* [partition] -> CONSUMER_LAG, which this process exports
  dlq,        \* records in the dead letter topic
  outbox,     \* records the DLQ producer still holds after flush timed out
  faults,     \* failures so far
  failed      \* history: the kinds of failure that happened

kafka == <<log, committed, dlq>>
control == <<stop, gauge>>
failures == <<faults, failed>>
service_vars == <<log, committed, position, loop, control, dlq, outbox, failures>>
all_vars == <<vars, service_vars>>

Message == Events \cup {Garbage}

\* Offset o, counted from 0, is element o + 1 of the log.
MessageAt(p, o) == log[p][o + 1]

DlqRecord == [event : Optional(Events), code : Raised, partition : Partitions, offset : Nat]

\* event is None until deserialize_event has returned.
Loop == [pc        : {"down", "poll", "processing", "commit", "dlq", "dlq_commit",
                      "lag", "ended"},
         partition : Optional(Partitions),
         offset    : Nat,
         event     : Optional(Events),
         code      : Optional(Raised)]

At(pc) == [pc |-> pc, partition |-> None, offset |-> 0, event |-> None, code |-> None]

\* The head of the loop in run(): while not stop_requested.
LoopHead == IF stop = "no" THEN At("poll") ELSE At("ended")

\* stop() has called consumer.close().
Closed == stop \in {"closed", "shutdown"}

ServiceInit ==
  /\ Init
  /\ log = [p \in Partitions |-> <<>>]
  /\ committed = [p \in Partitions |-> 0]
  /\ position = [p \in Partitions |-> 0]
  /\ loop = At("down")
  /\ stop = "no"
  /\ gauge = [p \in Partitions |-> 0]
  /\ dlq = {}
  /\ outbox = {}
  /\ faults = 0
  /\ failed = {}

----------------------------------------------------------------------------
\* A failure of kind k happens.
Fault(k) ==
  /\ k \in Faults
  /\ faults < MaxFaults
  /\ faults' = faults + 1
  /\ failed' = failed \cup {k}

\* The messages in the topic, by partition and place.
Published == UNION {{q} \X (1..Len(log[q])) : q \in Partitions}

\* A producer's message reaches the topic: KafkaEventProducer.publish, or
\* anything else that writes to it.
Publish(m, p) ==
  /\ Cardinality(Published) < MaxMessages
  /\ m \in Events => p = PartitionOf[topic_key(m)]
  /\ log' = [log EXCEPT ![p] = Append(@, m)]
  /\ UNCHANGED <<vars, committed, position, loop, control, dlq, outbox, failures>>

\* Mutant: polling begins at the earliest offset whatever is committed.
Start_Earliest ==
  /\ loop.pc = "down"
  /\ position' = [p \in Partitions |-> 0]
  /\ loop' = At("poll")
  /\ UNCHANGED <<vars, kafka, control, outbox, failures>>

\* start() and the head of run(): the group's committed offsets, or the
\* earliest ones, are where polling begins.
Start ==
  /\ loop.pc = "down"
  /\ position' = committed
  /\ loop' = At("poll")
  /\ UNCHANGED <<vars, kafka, control, outbox, failures>>

\* poll() returns the next message of some partition.
PollNext(p) ==
  /\ loop.pc = "poll"
  /\ position[p] < Len(log[p])
  /\ position' = [position EXCEPT ![p] = @ + 1]

\* Mutant: the lag is not updated on an idle poll.
PollNothing_NoLag ==
  /\ loop.pc = "poll"
  /\ \A p \in Partitions : position[p] = Len(log[p])
  /\ loop' = LoopHead
  /\ UNCHANGED <<vars, kafka, position, control, outbox, failures>>

\* poll() returns None, as there is nothing to read.
PollNothing ==
  /\ loop.pc = "poll"
  /\ \A p \in Partitions : position[p] = Len(log[p])
  /\ loop' = At("lag")
  /\ UNCHANGED <<vars, kafka, position, control, outbox, failures>>

\* poll() returns an error of the broker, which is logged.
PollError ==
  /\ loop.pc = "poll"
  /\ loop' = LoopHead
  /\ UNCHANGED <<vars, kafka, position, control, outbox, failures>>

\* Mutant: polling commits, as with enable.auto.commit left on.
PollEvent_Commits(p) ==
  LET m == MessageAt(p, position[p])
  IN  /\ PollNext(p)
      /\ m \in Events
      /\ ReceiveEvent(Consumer, m)
      /\ committed' = [committed EXCEPT ![p] = position[p] + 1]
      /\ loop' = [At("processing") EXCEPT !.partition = p, !.offset = position[p],
                                          !.event = m]
      /\ UNCHANGED <<log, control, dlq, outbox, failures>>

\* handle_message: the message deserialises and process() is called.
PollEvent(p) ==
  LET m == MessageAt(p, position[p])
  IN  /\ PollNext(p)
      /\ m \in Events
      /\ ReceiveEvent(Consumer, m)
      /\ loop' = [At("processing") EXCEPT !.partition = p, !.offset = position[p],
                                          !.event = m]
      /\ UNCHANGED <<kafka, control, outbox, failures>>

\* Mutant: the error of deserialize_event has no code.
PollUndeserializable_NoCode(p) ==
  /\ PollNext(p)
  /\ \/ MessageAt(p, position[p]) = Garbage /\ UNCHANGED failures
     \/ MessageAt(p, position[p]) # Garbage /\ Fault("deserialize")
  /\ loop' = [At("dlq") EXCEPT !.partition = p, !.offset = position[p]]
  /\ UNCHANGED <<vars, kafka, control, outbox>>

\* handle_message: deserialize_event raises, on garbage or because the schema
\* registry does not answer.
PollUndeserializable(p) ==
  /\ PollNext(p)
  /\ \/ MessageAt(p, position[p]) = Garbage /\ UNCHANGED failures
     \/ MessageAt(p, position[p]) # Garbage /\ Fault("deserialize")
  /\ loop' = [At("dlq") EXCEPT !.partition = p, !.offset = position[p],
                               !.code = "PROCESSING_ERROR"]
  /\ UNCHANGED <<vars, kafka, control, outbox>>

\* A step inside EventProcessor.process.  After cluster.shutdown() every call
\* to the database raises.
ProcessStep ==
  /\ loop.pc = "processing"
  /\ \/ /\ stop = "shutdown" => ~Reading(Consumer) /\ ~BatchReady(Consumer)
        /\ Process(Consumer) /\ UNCHANGED failures
     \/ stop = "shutdown" /\ DatabaseCallFails(Consumer) /\ UNCHANGED failures
     \/ DatabaseFailure(Consumer) /\ Fault("cassandra")
  /\ UNCHANGED <<kafka, position, loop, control, outbox>>

\* Mutant: business errors are logged and the loop polls on.
ProcessReturns_LogsRules ==
  LET status == task[Consumer].status
  IN  /\ loop.pc = "processing"
      /\ Return(Consumer)
      /\ loop' = IF status \in Returned
                 THEN [loop EXCEPT !.pc = "commit"]
                 ELSE IF status \in {"VALIDATION_ERROR", "PROCESSING_ERROR"}
                 THEN [loop EXCEPT !.pc = "dlq", !.code = status]
                 ELSE LoopHead
      /\ UNCHANGED <<kafka, position, control, outbox, failures>>

\* Mutant: an event that raises is polled again instead of dead-lettered.
ProcessReturns_Retries ==
  /\ loop.pc = "processing"
  /\ Return(Consumer)
  /\ IF task[Consumer].status \in Returned
     THEN loop' = [loop EXCEPT !.pc = "commit"] /\ UNCHANGED position
     ELSE /\ loop' = LoopHead
          /\ position' = [position EXCEPT ![loop.partition] = loop.offset]
  /\ UNCHANGED <<kafka, control, outbox, failures>>

\* process() returns a status, or raises: validation and business errors keep
\* their code, everything else is PROCESSING_ERROR.
ProcessReturns ==
  LET status == task[Consumer].status
  IN  /\ loop.pc = "processing"
      /\ Return(Consumer)
      /\ loop' = IF status \in Returned
                 THEN [loop EXCEPT !.pc = "commit"]
                 ELSE [loop EXCEPT !.pc = "dlq", !.code = status]
      /\ UNCHANGED <<kafka, position, control, outbox, failures>>

----------------------------------------------------------------------------
(* Commits. *)

\* Mutant: the message's own offset is committed, not the one after it.
StoreCommit_Same ==
  committed' = [committed EXCEPT ![loop.partition] = loop.offset]

StoreCommit ==
  committed' = [committed EXCEPT ![loop.partition] = loop.offset + 1]

Commit ==
  /\ loop.pc \in {"commit", "dlq_commit"}
  /\ ~Closed
  /\ StoreCommit
  /\ loop' = At("lag")
  /\ UNCHANGED <<vars, log, position, control, dlq, outbox, failures>>

\* commit() raises, with or without the offset stored, or because the consumer
\* is closed.  handle_message sends the event to the DLQ; out of
\* send_to_dlq_and_commit the error goes to run().
CommitFails ==
  /\ loop.pc \in {"commit", "dlq_commit"}
  /\ \/ Fault("commit") /\ (StoreCommit \/ UNCHANGED committed)
     \/ Closed /\ UNCHANGED <<committed, failures>>
  /\ loop' = IF loop.pc = "commit"
             THEN [loop EXCEPT !.pc = "dlq", !.code = "PROCESSING_ERROR"]
             ELSE LoopHead
  /\ UNCHANGED <<vars, log, position, control, dlq, outbox>>

----------------------------------------------------------------------------
(* The dead letter producer. *)

Record == [event |-> loop.event, code |-> loop.code,
           partition |-> loop.partition, offset |-> loop.offset]

\* Mutant: a dead-lettered event is also recorded as processed.
PublishDlq_Records ==
  /\ loop.pc = "dlq"
  /\ dlq' = dlq \cup outbox \cup {Record}
  /\ outbox' = {}
  /\ loop' = [loop EXCEPT !.pc = "dlq_commit"]
  /\ processed_events' = IF loop.event = None THEN processed_events
                         ELSE [processed_events EXCEPT ![loop.event.event_id] = "PROCESSED"]
  /\ UNCHANGED <<inventory_by_product_zone, inventory_by_zone, inventory_by_product,
                 orders_by_id, entity_versions, event_history, task>>
  /\ UNCHANGED <<log, committed, position, control, failures>>

\* flush(10) delivers this record and whatever an earlier flush left.
PublishDlq ==
  /\ loop.pc = "dlq"
  /\ dlq' = dlq \cup outbox \cup {Record}
  /\ outbox' = {}
  /\ loop' = [loop EXCEPT !.pc = "dlq_commit"]
  /\ UNCHANGED <<vars, log, committed, position, control, failures>>

\* produce() raises or the delivery report holds an error: run() logs it and
\* polls on.
PublishDlqFails ==
  /\ loop.pc = "dlq"
  /\ Fault("dlq_error")
  /\ loop' = LoopHead
  /\ UNCHANGED <<vars, kafka, position, control, outbox>>

\* flush(10) returns with the record undelivered and no delivery report:
\* publish() returns as if it had been delivered.
PublishDlqTimesOut ==
  /\ loop.pc = "dlq"
  /\ Fault("dlq_timeout")
  /\ outbox' = outbox \cup {Record}
  /\ loop' = [loop EXCEPT !.pc = "dlq_commit"]
  /\ UNCHANGED <<vars, kafka, position, control>>

\* The producer's own thread delivers a record after the flush, or gives it up.
OutboxDelivers(r) ==
  /\ r \in outbox
  /\ outbox' = outbox \ {r}
  /\ dlq' = dlq \cup {r}
  /\ UNCHANGED <<vars, log, committed, position, loop, control, failures>>

OutboxExpires(r) ==
  /\ r \in outbox
  /\ outbox' = outbox \ {r}
  /\ UNCHANGED <<vars, kafka, position, loop, control, failures>>

----------------------------------------------------------------------------
(* The lag gauge. *)

Lag(p) == Len(log[p]) - committed[p]

UpdateLag ==
  /\ loop.pc = "lag"
  /\ ~Closed
  /\ gauge' = [p \in Partitions |-> Lag(p)]
  /\ loop' = LoopHead
  /\ UNCHANGED <<vars, kafka, position, stop, outbox, failures>>

\* The broker does not answer, or stops answering between two partitions, or
\* the consumer is closed: the gauges that were not reached keep their value.
UpdateLagFails ==
  /\ loop.pc = "lag"
  /\ \/ Fault("lag") /\ \E reached \in SUBSET Partitions :
          gauge' = [p \in Partitions |-> IF p \in reached THEN Lag(p) ELSE gauge[p]]
     \/ Closed /\ UNCHANGED <<gauge, failures>>
  /\ loop' = LoopHead
  /\ UNCHANGED <<vars, kafka, position, stop, outbox>>

----------------------------------------------------------------------------
(* The end of the process. *)

\* The process ends with all it holds in memory, its metrics too.
ProcessEnds ==
  /\ IF loop.pc = "processing" THEN Crash(Consumer) ELSE UNCHANGED vars
  /\ loop' = At("down")
  /\ stop' = "no"
  /\ gauge' = [p \in Partitions |-> 0]
  /\ outbox' = {}
  /\ UNCHANGED <<kafka, position>>

ServiceCrash ==
  /\ loop.pc # "down"
  /\ Fault("crash")
  /\ ProcessEnds

\* The API shuts down and calls stop(), which sets stop_requested.
RequestStop ==
  /\ loop.pc # "down"
  /\ stop = "no"
  /\ Fault("stop")
  /\ stop' = "requested"
  /\ UNCHANGED <<vars, kafka, position, loop, gauge, outbox>>

\* Mutant: stop() does not join the thread.
CloseConsumer_NoJoin ==
  /\ stop = "requested"
  /\ stop' = "closed"
  /\ UNCHANGED <<vars, kafka, position, loop, gauge, outbox, failures>>

\* join(timeout=15) returns, as the thread has ended or is still in a call
\* that takes longer than that (a poll takes a second), and consumer.close().
CloseConsumer ==
  /\ stop = "requested"
  /\ \/ loop.pc = "ended" /\ UNCHANGED failures
     \/ loop.pc \notin {"poll", "ended"} /\ Fault("join")
  /\ stop' = "closed"
  /\ UNCHANGED <<vars, kafka, position, loop, gauge, outbox>>

\* dlq.close() flushes for five seconds, then cluster.shutdown().
CloseDlq ==
  /\ stop = "closed"
  /\ \E delivered \in SUBSET outbox :
       /\ dlq' = dlq \cup delivered
       /\ outbox' = outbox \ delivered
  /\ stop' = "shutdown"
  /\ UNCHANGED <<vars, log, committed, position, loop, gauge, failures>>

\* The process ends; the thread is a daemon and does not keep it.
Exit ==
  /\ stop = "shutdown"
  /\ ProcessEnds
  /\ UNCHANGED failures

----------------------------------------------------------------------------
Consume ==
  \/ \E p \in Partitions : PollEvent(p) \/ PollUndeserializable(p)
  \/ ProcessStep
  \/ ProcessReturns
  \/ Commit
  \/ PublishDlq
  \/ PollNothing
  \/ UpdateLag

Stop == CloseConsumer \/ CloseDlq \/ Exit

ServiceNext ==
  \/ \E m \in Message, p \in Partitions : Publish(m, p)
  \/ Start
  \/ Consume
  \/ PollError
  \/ CommitFails
  \/ PublishDlqFails
  \/ PublishDlqTimesOut
  \/ \E r \in outbox : OutboxDelivers(r) \/ OutboxExpires(r)
  \/ UpdateLagFails
  \/ ServiceCrash
  \/ RequestStop
  \/ Stop

ServiceSpec == ServiceInit /\ [][ServiceNext]_all_vars

\* The thread keeps running, as the loop in run() ends only on stop() and
\* catches every exception; stop() waits for nothing without a timeout; and
\* somebody starts the process again (docker-compose.yml does not).
FairServiceSpec ==
  ServiceSpec /\ WF_all_vars(Start) /\ WF_all_vars(Consume) /\ WF_all_vars(Stop)

----------------------------------------------------------------------------
(* Properties. *)

\* What the at-least-once properties assume: dead letters got through.
DlqWorked == failed \cap {"dlq_error", "dlq_timeout"} = {}

\* The service's own state has its types, and the thread is inside process()
\* exactly when the processor has a call.
ServiceTypeOK ==
  /\ log \in [Partitions -> Seq(Message)]
  /\ committed \in [Partitions -> Nat]
  /\ position \in [Partitions -> Nat]
  /\ loop \in Loop
  /\ stop \in {"no", "requested", "closed", "shutdown"}
  /\ gauge \in [Partitions -> Int]
  /\ dlq \subseteq DlqRecord
  /\ outbox \subseteq DlqRecord
  /\ faults \in 0..MaxFaults
  /\ failed \subseteq Faults
  /\ loop.pc = "processing" <=> task[Consumer].pc # "idle"

\* The message at offset o of p has an outcome: a record of its event in
\* Cassandra, or a record of it in the dead letter topic.
Handled(p, o) ==
  \/ /\ MessageAt(p, o) \in Events
     /\ processed_events[MessageAt(p, o).event_id] # None
  \/ \E r \in dlq : r.partition = p /\ r.offset = o

\* At-least-once (docs/task.md:71): no offset is committed before every
\* message below it has an outcome, so a restart skips none.
NothingLost ==
  \A p \in Partitions : \A o \in 0..(committed[p] - 1) : Handled(p, o)

\* That holds as long as dead letters get through, whatever else fails and
\* wherever the process ends.
CommittedMeansHandled == DlqWorked => NothingLost

\* The loop does not move on to a message before the ones it has polled have
\* an outcome, whichever step of handling them raised.
NothingSkipped ==
  DlqWorked /\ loop.pc \in {"poll", "lag", "ended"} =>
    \A p \in Partitions : \A o \in 0..(position[p] - 1) : Handled(p, o)

\* A stop that does not cut the thread short leaves nothing to do again: the
\* message in hand is finished and everything polled is committed.
GracefulStop ==
  loop.pc = "ended" /\ failed \cap {"commit", "dlq_error", "join"} = {} =>
    committed = position

\* A committed offset never falls back, over any crashes, restarts and failed
\* commits.
CommitMonotonic ==
  [][\A p \in Partitions : committed'[p] >= committed[p]]_all_vars

\* The loop calls process() as EventProcessor allows: one call at a time, left
\* only by its end or a crash.  What holds of EventProcessor holds here.
ProcessorSpec == Spec

\* Every message published gets an outcome.
EventuallyHandled ==
  \A p \in Partitions, n \in 1..MaxMessages :
    Len(log[p]) >= n ~> Len(log[p]) >= n /\ (DlqWorked => Handled(p, n - 1))

\* Every message published is committed, unless the last commits raise and no
\* later message repeats them.
EventuallyCommitted ==
  \A p \in Partitions, n \in 1..MaxMessages :
    Len(log[p]) >= n ~> committed[p] >= n \/ failed \cap {"commit", "dlq_error"} # {}

\* The gauge does not stay wrong (docs/task.md:219), whatever failed while it
\* was last set.
LagReported == \A p \in Partitions : []<>(gauge[p] = Lag(p))

\* Only events that could not be processed enter the dead letter topic
\* (docs/task.md:27).
DlqHoldsFailures ==
  [][\A r \in dlq' \ dlq :
       r.event # None => processed_events[r.event.event_id] = None]_all_vars

\* A dead letter holds the event it is about (docs/task.md:181).
DlqKeepsEvent ==
  \A r \in dlq : MessageAt(r.partition, r.offset) \in Events =>
                  r.event = MessageAt(r.partition, r.offset)
============================================================================
