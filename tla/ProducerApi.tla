----------------------------- MODULE ProducerApi -----------------------------
(***************************************************************************)
(* The producer API (warehouse/producer_app.py) over the one               *)
(* KafkaEventProducer its handler threads share (warehouse/kafka_client.py)*)
(* and the Kafka producer's queue.  A client that gets an error, or no     *)
(* answer in its own timeout (scripts/send_demo_events.py), sends the same *)
(* command again, which may be while the first request is still handled.   *)
(***************************************************************************)
EXTENDS WarehouseEvents

CONSTANTS Handlers,        \* threads that handle requests
          Commands,        \* what clients send, any number of times
          Uuid,            \* [Nat -> EventIds]: the ids uuid4() makes
          Times,           \* what time_ns() may read, in any order
          Partitions,      \* partitions of the events topic
          PartitionOf,     \* [topic key -> partition]
          MaxEvents,       \* bound: how many events the requests hold
          MaxRetransmits   \* bound: how often an append is repeated

\* Mutant: every request makes new ids.
Parse_NewIds(payload, n, t) ==
  [payload EXCEPT !.event_id = Uuid[n],
                  !.sequence_number = IF @ = None THEN t ELSE @]

\* Mutant: every request is numbered by the clock.
Parse_NewNumbers(payload, n, t) ==
  [payload EXCEPT !.event_id = IF @ = None THEN Uuid[n] ELSE @,
                  !.sequence_number = t]

\* WarehouseEvent fills in an id and a sequence number that are left out: the
\* n-th new uuid4(), which is like no other, and a reading t of the wall clock,
\* which may be that of another event and may be smaller than an earlier one.
Parse(payload, n, t) ==
  [payload EXCEPT !.event_id = IF @ = None THEN Uuid[n] ELSE @,
                  !.sequence_number = IF @ = None THEN t ELSE @]

\* The body of POST /events or of POST /events/batch, which always validates.
ASSUME CommandAssumption ==
  /\ \A c \in Commands :
       /\ Len(c.payloads) \in Nat /\ DOMAIN c.payloads = 1..Len(c.payloads)
       /\ c.batch \/ Len(c.payloads) = 1
       /\ c.batch => c.validate
       /\ \A i \in DOMAIN c.payloads, n \in 1..MaxEvents, t \in Times :
            Parse(c.payloads[i], n, t) \in Events
  /\ \A e \in Events : PartitionOf[topic_key(e)] \in Partitions
  /\ {MaxEvents, MaxRetransmits} \subseteq Nat
  /\ None \notin {"202", "422", "500", "503"}

VARIABLES
  call,         \* [handler] -> the request it handles
  queue,        \* the producer's messages that have had no delivery report
  topic,        \* [partition] -> events, in order
  minted,       \* events parsed so far, which is how many ids are used up
  requests,     \* history: the events of each request received
  answers,      \* history: the status each request was answered with, or None
  accepted,     \* history: the results in 202 answers, in order
  retransmits   \* appends repeated so far

history == <<requests, answers, accepted>>
vars == <<call, queue, topic, minted, history, retransmits>>

\* pc is "publish" before the next event of the request, "wait" inside
\* publish() from produce() on.  report is the message's delivery report.
IdleCall == [pc        |-> "idle",
             request   |-> 0,
             command   |-> None,
             events    |-> <<>>,
             published |-> <<>>,
             report    |-> None,
             after     |-> 0]

Results == [event : Events, partition : Partitions, offset : Nat]

Init ==
  /\ call = [h \in Handlers |-> IdleCall]
  /\ queue = {}
  /\ topic = [p \in Partitions |-> <<>>]
  /\ minted = 0
  /\ requests = <<>>
  /\ answers = <<>>
  /\ accepted = <<>>
  /\ retransmits = 0

----------------------------------------------------------------------------
(* The handlers. *)

\* A client sends a command, for the first time or again.
Receive(h, c) ==
  /\ call[h].pc = "idle"
  /\ minted + Len(c.payloads) <= MaxEvents
  /\ \E time \in [1..Len(c.payloads) -> Times] :
       LET events == [i \in 1..Len(c.payloads) |-> Parse(c.payloads[i], minted + i, time[i])]
       IN  /\ call' = [call EXCEPT ![h] = [IdleCall EXCEPT
                         !.pc = "publish", !.request = Len(requests) + 1,
                         !.command = c, !.events = events, !.after = Len(accepted)]]
           /\ requests' = Append(requests, events)
  /\ minted' = minted + Len(c.payloads)
  /\ answers' = Append(answers, None)
  /\ UNCHANGED <<queue, topic, accepted, retransmits>>

Answer(h, status) ==
  /\ call' = [call EXCEPT ![h] = IdleCall]
  /\ answers' = [answers EXCEPT ![call[h].request] = status]
  /\ UNCHANGED <<queue, topic, minted, requests, retransmits>>

\* POST /events turns every other exception into a 503; out of
\* POST /events/batch it reaches the framework, which answers 500.
AnswerError(h) ==
  /\ Answer(h, IF call[h].command.batch THEN "500" ELSE "503")
  /\ UNCHANGED accepted

AllPublished(h) == Len(call[h].published) = Len(call[h].events)

\* The event publish() is called with, or waits for.
Current(h) == call[h].events[Len(call[h].published) + 1]

Publishing(h) == call[h].pc = "publish" /\ ~AllPublished(h)

Valid(h) == call[h].command.validate => validate_event(Current(h))

Refuse(h) ==
  /\ Publishing(h)
  /\ ~Valid(h)
  /\ Answer(h, "422")
  /\ UNCHANGED accepted

Produce(h) ==
  /\ Publishing(h)
  /\ Valid(h)
  /\ queue' = queue \cup {[event |-> Current(h), request |-> call[h].request, offset |-> None]}
  /\ call' = [call EXCEPT ![h].pc = "wait"]
  /\ UNCHANGED <<topic, minted, history, retransmits>>

\* The serializer cannot reach the schema registry, or the queue is full.
ProduceFails(h) ==
  /\ Publishing(h)
  /\ Valid(h)
  /\ AnswerError(h)

\* Mutant: any report will do, an error too.
Confirmed_Reported(h) == call[h].report # None

Confirmed(h) == call[h].report # None /\ call[h].report.offset # None

\* What the answer says of an event: the event's own fields, the place from the
\* result of publish().
Result(h, report) ==
  [event |-> Current(h), partition |-> report.partition, offset |-> report.offset]

\* publish() returns the result its own delivery report brought.
PublishReturns(h) ==
  /\ call[h].pc = "wait"
  /\ Confirmed(h)
  /\ call' = [call EXCEPT ![h].pc = "publish", ![h].report = None,
                          ![h].published = Append(@, Result(h, call[h].report))]
  /\ UNCHANGED <<queue, topic, minted, history, retransmits>>

\* Mutant: publish_events logs the error and goes on with the next event.
PublishRaises_GoesOn(h) ==
  /\ call[h].pc = "wait"
  /\ ~Confirmed(h)
  /\ call' = [call EXCEPT ![h].pc = "publish", ![h].report = None,
                          ![h].published = Append(@, Result(h, [partition |-> 0, offset |-> 0]))]
  /\ UNCHANGED <<queue, topic, minted, history, retransmits>>

\* The report holds an error, or none came in flush(10) and wait(10).
PublishRaises(h) ==
  /\ call[h].pc = "wait"
  /\ ~Confirmed(h)
  /\ AnswerError(h)

Accept(h) ==
  /\ call[h].pc = "publish"
  /\ AllPublished(h)
  /\ accepted' = accepted \o [i \in 1..Len(call[h].published) |->
                                [result |-> call[h].published[i], after |-> call[h].after]]
  /\ Answer(h, "202")

----------------------------------------------------------------------------
(* The producer's own thread and the broker. *)

\* The message m reaches the topic.  Without enable.idempotence messages may
\* pass one another, and one whose acknowledgement is lost is sent again.
BrokerAppends(m) ==
  LET p == PartitionOf[topic_key(m.event)]
  IN  /\ m \in queue
      /\ IF m.offset = None THEN UNCHANGED retransmits
         ELSE retransmits < MaxRetransmits /\ retransmits' = retransmits + 1
      /\ topic' = [topic EXCEPT ![p] = Append(@, m.event)]
      /\ queue' = (queue \ {m}) \cup {[m EXCEPT !.offset = Len(topic[p])]}
      /\ UNCHANGED <<call, minted, history>>

\* A delivery report: the offset, or None for an error.
Report(m, offset) ==
  [partition |-> PartitionOf[topic_key(m.event)], offset |-> offset]

\* Mutant: result and failure belong to the producer, not to the call.
OnDelivery_Shared(m, offset) ==
  call' = [h \in Handlers |->
             IF call[h].pc = "wait" THEN [call[h] EXCEPT !.report = Report(m, offset)]
             ELSE call[h]]

\* on_delivery sets the result or the failure of its own call of publish(), if
\* that is still waiting.
OnDelivery(m, offset) ==
  call' = [h \in Handlers |->
             IF call[h].pc = "wait" /\ call[h].request = m.request
             THEN [call[h] EXCEPT !.report = Report(m, offset)] ELSE call[h]]

Delivered(m) ==
  /\ m \in queue
  /\ m.offset # None
  /\ queue' = queue \ {m}
  /\ OnDelivery(m, m.offset)
  /\ UNCHANGED <<topic, minted, history, retransmits>>

\* The producer gives up a message, which may have reached the topic.
DeliveryFails(m) ==
  /\ m \in queue
  /\ queue' = queue \ {m}
  /\ OnDelivery(m, None)
  /\ UNCHANGED <<topic, minted, history, retransmits>>

\* The process ends, by a crash or after close(), whose flush(5) may leave
\* messages behind.
Restart ==
  /\ call' = [h \in Handlers |-> IdleCall]
  /\ queue' = {}
  /\ UNCHANGED <<topic, minted, history, retransmits>>

----------------------------------------------------------------------------
Handle(h) ==
  \/ Refuse(h)
  \/ Produce(h)
  \/ ProduceFails(h)
  \/ PublishReturns(h)
  \/ PublishRaises(h)
  \/ Accept(h)

Next ==
  \/ \E h \in Handlers, c \in Commands : Receive(h, c)
  \/ \E h \in Handlers : Handle(h)
  \/ \E m \in queue : BrokerAppends(m) \/ Delivered(m) \/ DeliveryFails(m)
  \/ Restart

Spec == Init /\ [][Next]_vars
----------------------------------------------------------------------------
(* Properties. *)

\* The calls, the queue and the histories have their types; a result names a
\* partition, an offset and the event it is about.
TypeOK ==
  /\ \A h \in Handlers :
       /\ call[h].pc \in {"idle", "publish", "wait"}
       /\ call[h].request \in 0..Len(requests)
       /\ call[h].events \in Seq(Events)
       /\ call[h].published \in Seq(Results)
       /\ Confirmed(h) => call[h].report \in [partition : Partitions, offset : Nat]
       /\ call[h].after \in 0..Len(accepted)
  /\ queue \subseteq [event : Events, request : Nat, offset : Optional(Nat)]
  /\ topic \in [Partitions -> Seq(Events)]
  /\ minted \in 0..MaxEvents
  /\ requests \in Seq(Seq(Events))
  /\ answers \in Seq({None, "202", "422", "500", "503"})
  /\ accepted \in Seq([result : Results, after : Nat])
  /\ retransmits \in 0..MaxRetransmits

\* The event of r is in the topic where r says.
InTopic(r) == r.offset < Len(topic[r.partition]) /\ topic[r.partition][r.offset + 1] = r.event

\* What a 202 answer says is true, whatever was reported late, twice or to
\* another thread: the caller's event is in the topic at that partition and
\* offset.
AcceptedIsPublished == \A i \in DOMAIN accepted : InTopic(accepted[i].result)

\* A client that waits for each answer gets its events into a partition in the
\* order it sent them, whatever was given up, repeated or reported late before:
\* where the numbers grow too, none is taken for an older one (docs/task.md
\* item 6).  Whether default numbers grow is up to the clock.
SequentialInOrder ==
  \A i, j \in DOMAIN accepted :
    LET a == accepted[i].result
        b == accepted[j].result
    IN  i <= accepted[j].after /\ a.partition = b.partition => a.offset < b.offset

\* The events of the topic that the consumer applies, by the rules of
\* EventProcessor.process on ids and sequence numbers: the id is new, and the
\* number is above those of the entity's earlier ids.
FirstOfId(p, i) ==
  /\ validate_event(topic[p][i])
  /\ \A j \in 1..(i - 1) : topic[p][j].event_id = topic[p][i].event_id
                            => ~validate_event(topic[p][j])

TakesEffect(p, i) ==
  /\ FirstOfId(p, i)
  /\ \A j \in 1..(i - 1) :
       FirstOfId(p, j) /\ resolved_entity_key(topic[p][j]) = resolved_entity_key(topic[p][i])
         => topic[p][j].sequence_number < topic[p][i].sequence_number

\* e is payload x but for its id and its number.
Alike(e, x) ==
  [e EXCEPT !.event_id = x.event_id, !.sequence_number = x.sequence_number] = x

\* Payloads that say different things differ in other fields too.
PayloadsApart ==
  \A c, d \in Commands : \A i \in DOMAIN c.payloads, j \in DOMAIN d.payloads :
    Alike(c.payloads[i], d.payloads[j]) => c.payloads[i] = d.payloads[j]

\* The places of the topic that hold payload x under some id and number.
Copies(x) ==
  {pi \in UNION {{p} \X (1..Len(topic[p])) : p \in Partitions} :
     Alike(topic[pi[1]][pi[2]], x)}

\* However often a client repeats a command, whatever was answered and whatever
\* the Kafka producer sent twice, a payload with an id or a sequence number of
\* its own takes effect at most once (docs/task.md item 4).
RepeatTakesEffectOnce ==
  \A c \in Commands : \A i \in DOMAIN c.payloads :
    LET x == c.payloads[i]
    IN  x.event_id # None \/ x.sequence_number # None =>
          Cardinality({pi \in Copies(x) : TakesEffect(pi[1], pi[2])}) <= 1

Published(e) == \E p \in Partitions : e \in {topic[p][i] : i \in DOMAIN topic[p]}

\* Only request r holds its i-th event, and only there.
OnlyIn(r, i) ==
  \A s \in DOMAIN requests : \A j \in DOMAIN requests[s] :
    requests[s][j] = requests[r][i] => s = r /\ j = i

\* A batch is published from its front: an event of it that no other request
\* holds is in the topic only if all before it are.  A 422 leaves those before
\* the refused one published.
BatchPublishesPrefix ==
  \A r \in DOMAIN requests : \A i \in DOMAIN requests[r] :
    /\ Published(requests[r][i]) /\ OnlyIn(r, i)
         => \A j \in 1..(i - 1) : Published(requests[r][j])
    /\ answers[r] = "422" /\ (\A j \in 1..i : validate_event(requests[r][j]))
         => Published(requests[r][i])
============================================================================
