------------------------- MODULE ProducerApiProofs -------------------------
(***************************************************************************)
(* Theorems about ProducerApi for any number of handler threads, commands, *)
(* events and retransmissions.                                             *)
(***************************************************************************)
EXTENDS ProducerApi, SequenceTheorems, FiniteSetTheorems, TLAPS

----------------------------------------------------------------------------
(* Types. *)

Reports == [partition : Partitions, offset : Optional(Nat)]

Call == [pc        : {"idle", "publish", "wait"},
         request   : Nat,
         command   : Optional(Commands),
         events    : Seq(Events),
         published : Seq(Results),
         report    : Optional(Reports),
         after     : Nat]

Message == [event : Events, request : Nat, offset : Optional(Nat)]
Status == {None, "202", "422", "500", "503"}
Answers == [result : Results, after : Nat]

\* A call is of a request received, follows answers given, and has published
\* no more than its events.
InBounds(c) ==
  /\ c.request <= Len(requests)
  /\ c.after <= Len(accepted)
  /\ Len(c.published) <= Len(c.events)
  /\ c.pc = "wait" => Len(c.published) < Len(c.events)

TypeInv ==
  /\ call \in [Handlers -> Call]
  /\ \A h \in Handlers : InBounds(call[h])
  /\ queue \in SUBSET Message
  /\ \A m \in queue : m.request <= Len(requests)
  /\ topic \in [Partitions -> Seq(Events)]
  /\ minted \in 0..MaxEvents
  /\ requests \in Seq(Seq(Events))
  /\ answers \in Seq(Status)
  /\ accepted \in Seq(Answers)
  /\ retransmits \in 0..MaxRetransmits

LEMMA TypeInvImplies == TypeInv => TypeOK
<1> SUFFICES ASSUME TypeInv PROVE TypeOK  OBVIOUS
<1>1. Len(requests) \in Nat /\ Len(accepted) \in Nat  BY LenProperties DEF TypeInv
<1>2. ASSUME NEW h \in Handlers
      PROVE  /\ call[h].pc \in {"idle", "publish", "wait"}
             /\ call[h].request \in 0..Len(requests)
             /\ call[h].events \in Seq(Events)
             /\ call[h].published \in Seq(Results)
             /\ Confirmed(h) => call[h].report \in [partition : Partitions, offset : Nat]
             /\ call[h].after \in 0..Len(accepted)
  <2>1. call[h] \in Call /\ InBounds(call[h])  BY DEF TypeInv
  <2>2. Confirmed(h) => call[h].report \in [partition : Partitions, offset : Nat]
    <3>1. call[h].report \in Optional(Reports)  BY <2>1 DEF Call
    <3> QED  BY <3>1 DEF Confirmed, Reports, Optional
  <2> QED  BY <1>1, <2>1, <2>2 DEF Call, InBounds
<1> QED  BY <1>2 DEF TypeInv, TypeOK, Message, Status, Answers

LEMMA IdleType ==
  /\ IdleCall \in Call
  /\ IdleCall.pc = "idle"
  /\ IdleCall.request = 0 /\ IdleCall.after = 0
  /\ IdleCall.published = <<>> /\ IdleCall.events = <<>>
<1>1. <<>> \in Seq(Events) /\ <<>> \in Seq(Results)  BY EmptySeq
<1> QED  BY <1>1 DEF IdleCall, Call, Optional

LEMMA IdleInBounds ==
  ASSUME requests \in Seq(Seq(Events)), accepted \in Seq(Answers)
  PROVE  InBounds(IdleCall)
<1>1. Len(requests) \in Nat /\ Len(accepted) \in Nat  BY LenProperties
<1> QED  BY <1>1, IdleType DEF InBounds

LEMMA TypeInit == Init => TypeInv
<1> SUFFICES ASSUME Init PROVE TypeInv  OBVIOUS
<1>1. requests \in Seq(Seq(Events)) /\ answers \in Seq(Status) /\ accepted \in Seq(Answers)
  BY EmptySeq DEF Init
<1>2. topic \in [Partitions -> Seq(Events)]  BY EmptySeq DEF Init
<1>3. call \in [Handlers -> Call] /\ \A h \in Handlers : call[h] = IdleCall
  BY IdleType DEF Init
<1>4. minted \in 0..MaxEvents /\ retransmits \in 0..MaxRetransmits
  BY CommandAssumption DEF Init
<1>5. queue = {}  BY DEF Init
<1> QED  BY <1>1, <1>2, <1>3, <1>4, <1>5, IdleInBounds DEF TypeInv

\* The step of one handler's call leaves the others as they are.
LEMMA CallUpdate ==
  ASSUME TypeInv, NEW h \in Handlers, NEW c \in Call, call' = [call EXCEPT ![h] = c]
  PROVE  /\ call' \in [Handlers -> Call]
         /\ call'[h] = c
         /\ \A g \in Handlers \ {h} : call'[g] = call[g]
BY DEF TypeInv

LEMMA CurrentType ==
  ASSUME TypeInv, NEW h \in Handlers, Len(call[h].published) # Len(call[h].events)
  PROVE  /\ Current(h) \in Events
         /\ Len(call[h].published) < Len(call[h].events)
         /\ Len(call[h].published) \in Nat /\ Len(call[h].events) \in Nat
<1>1. call[h] \in Call /\ InBounds(call[h])  BY DEF TypeInv
<1>2. call[h].published \in Seq(Results) /\ call[h].events \in Seq(Events)
  BY <1>1 DEF Call
<1>3. Len(call[h].published) \in Nat /\ Len(call[h].events) \in Nat
  BY <1>2, LenProperties
<1>4. Len(call[h].published) < Len(call[h].events)  BY <1>1, <1>3 DEF InBounds
<1> QED  BY <1>2, <1>3, <1>4, ElementOfSeq DEF Current

LEMMA FunctionIsSeq ==
  ASSUME NEW S, NEW n \in Nat, NEW f \in [1..n -> S]
  PROVE  f \in Seq(S) /\ Len(f) = n
<1>1. f \in Seq(S)  BY SeqDef
<1>2. DOMAIN f = 1..Len(f) /\ Len(f) \in Nat  BY <1>1, LenProperties
<1>3. 1..Len(f) = 1..n  BY <1>2
<1> QED  BY <1>1, <1>2, <1>3

\* The call that handles a request of command c with these events.
NewCall(c, events) ==
  [IdleCall EXCEPT !.pc = "publish", !.request = Len(requests) + 1,
                   !.command = c, !.events = events, !.after = Len(accepted)]

\* The events of a request are its command's payloads, with what was left out
\* filled in.
LEMMA ReceivedEvents ==
  ASSUME TypeInv, NEW h \in Handlers, NEW c \in Commands, Receive(h, c)
  PROVE  \E events \in Seq(Events) :
           /\ Len(events) = Len(c.payloads)
           /\ \A i \in 1..Len(events) : \E n \in 1..MaxEvents : \E t \in Times :
                events[i] = Parse(c.payloads[i], n, t)
           /\ call' = [call EXCEPT ![h] = NewCall(c, events)]
           /\ requests' = Append(requests, events)
<1>1. /\ Len(c.payloads) \in Nat /\ DOMAIN c.payloads = 1..Len(c.payloads)
      /\ \A i \in 1..Len(c.payloads), n \in 1..MaxEvents, t \in Times :
           Parse(c.payloads[i], n, t) \in Events
      /\ MaxEvents \in Nat
  BY CommandAssumption
<1>2. minted \in Nat /\ minted + Len(c.payloads) <= MaxEvents  BY DEF Receive, TypeInv
<1>3. \A i \in 1..Len(c.payloads) : minted + i \in 1..MaxEvents  BY <1>1, <1>2
<1> DEFINE EventsAt(time) ==
             [i \in 1..Len(c.payloads) |-> Parse(c.payloads[i], minted + i, time[i])]
<1>4. PICK time \in [1..Len(c.payloads) -> Times] :
        /\ call' = [call EXCEPT ![h] = NewCall(c, EventsAt(time))]
        /\ requests' = Append(requests, EventsAt(time))
  BY DEF Receive, NewCall
<1>5. ASSUME NEW i \in 1..Len(c.payloads)
      PROVE  /\ EventsAt(time)[i] = Parse(c.payloads[i], minted + i, time[i])
             /\ minted + i \in 1..MaxEvents /\ time[i] \in Times
  BY <1>3, <1>4
<1>6. EventsAt(time) \in [1..Len(c.payloads) -> Events]  BY <1>1, <1>5
<1> HIDE DEF EventsAt
<1>7. EventsAt(time) \in Seq(Events) /\ Len(EventsAt(time)) = Len(c.payloads)
  BY <1>1, <1>6, FunctionIsSeq
<1>8. \A i \in 1..Len(EventsAt(time)) : \E n \in 1..MaxEvents : \E t \in Times :
        EventsAt(time)[i] = Parse(c.payloads[i], n, t)
  BY <1>5, <1>7
<1> QED  BY <1>4, <1>7, <1>8

LEMMA ReceiveFacts ==
  ASSUME TypeInv, NEW h \in Handlers, NEW c \in Commands, Receive(h, c)
  PROVE  /\ call' = [call EXCEPT ![h] = call'[h]]
         /\ call'[h] \in Call
         /\ call'[h].pc = "publish" /\ call'[h].request = Len(requests) + 1
         /\ call'[h].after = Len(accepted) /\ call'[h].published = <<>>
         /\ requests' \in Seq(Seq(Events)) /\ Len(requests') = Len(requests) + 1
         /\ answers' \in Seq(Status)
         /\ minted' \in 0..MaxEvents
         /\ UNCHANGED <<queue, topic, accepted, retransmits>>
<1>1. PICK events \in Seq(Events) :
        /\ call' = [call EXCEPT ![h] = NewCall(c, events)]
        /\ requests' = Append(requests, events)
  BY ReceivedEvents
<1> DEFINE new == NewCall(c, events)
<1>2. Len(requests) \in Nat /\ Len(accepted) \in Nat
  BY LenProperties DEF TypeInv
<1>3. call' = [call EXCEPT ![h] = new]  BY <1>1
<1>4. c \in Optional(Commands) /\ Len(requests) + 1 \in Nat
  BY <1>2 DEF Optional
<1>5. /\ new \in Call
      /\ new.pc = "publish" /\ new.request = Len(requests) + 1
      /\ new.after = Len(accepted) /\ new.published = <<>>
  BY <1>1, <1>2, <1>4, IdleType DEF Call, NewCall
<1>6. call'[h] = new  BY <1>3 DEF TypeInv
<1>7. requests' \in Seq(Seq(Events)) /\ Len(requests') = Len(requests) + 1
  BY <1>1, AppendProperties DEF TypeInv
<1>8. answers' \in Seq(Status)
  BY AppendProperties DEF Receive, TypeInv, Status
<1>9. UNCHANGED <<queue, topic, accepted, retransmits>>  BY DEF Receive
<1>10. minted' \in 0..MaxEvents
  <2>1. Len(c.payloads) \in Nat /\ MaxEvents \in Nat  BY CommandAssumption
  <2>2. minted \in Nat  BY DEF TypeInv
  <2>3. minted' = minted + Len(c.payloads) /\ minted + Len(c.payloads) <= MaxEvents
    BY DEF Receive
  <2> QED  BY <2>1, <2>2, <2>3
<1> HIDE DEF new
<1> QED  BY <1>3, <1>5, <1>6, <1>7, <1>8, <1>9, <1>10

LEMMA ReceiveType ==
  ASSUME TypeInv, NEW h \in Handlers, NEW c \in Commands, Receive(h, c)
  PROVE  TypeInv'
<1>1. /\ call' \in [Handlers -> Call]
      /\ \A g \in Handlers \ {h} : call'[g] = call[g]
  BY ReceiveFacts, CallUpdate
<1>2. Len(requests) \in Nat /\ Len(accepted) \in Nat
  BY LenProperties DEF TypeInv
<1>3. \A g \in Handlers : InBounds(call[g])'
  <2> TAKE g \in Handlers
  <2>1. CASE g = h
    <3>1. call'[h].events \in Seq(Events)  BY ReceiveFacts DEF Call
    <3>2. Len(call'[h].events) \in Nat /\ Len(call'[h].published) = 0
      BY <3>1, ReceiveFacts, LenProperties
    <3> QED  BY <2>1, <1>2, <3>2, ReceiveFacts DEF InBounds
  <2>2. CASE g # h
    <3>1. InBounds(call[g]) /\ call[g] \in Call /\ call'[g] = call[g]
      BY <1>1, <2>2 DEF TypeInv
    <3>2. call[g].request \in Nat  BY <3>1 DEF Call
    <3> QED  BY <1>2, <3>1, <3>2, ReceiveFacts DEF InBounds
  <2> QED  BY <2>1, <2>2
<1>4. \A m \in queue : m.request <= Len(requests) + 1
  BY <1>2 DEF TypeInv, Message
<1> QED  BY <1>1, <1>3, <1>4, ReceiveFacts DEF TypeInv

LEMMA AnswerType ==
  ASSUME TypeInv, NEW h \in Handlers, NEW s \in Status, Answer(h, s),
         accepted' \in Seq(Answers), Len(accepted') >= Len(accepted)
  PROVE  TypeInv'
<1>1. call' = [call EXCEPT ![h] = IdleCall] /\ UNCHANGED <<queue, topic, minted, requests, retransmits>>
  BY DEF Answer
<1>2. /\ call' \in [Handlers -> Call]
      /\ call'[h] = IdleCall
      /\ \A g \in Handlers \ {h} : call'[g] = call[g]
  BY <1>1, IdleType, CallUpdate
<1>3. Len(requests) \in Nat /\ Len(accepted) \in Nat /\ Len(accepted') \in Nat
  BY LenProperties DEF TypeInv
<1>4. \A g \in Handlers : InBounds(call[g])'
  <2> TAKE g \in Handlers
  <2>1. CASE g = h
    BY <1>1, <1>2, <1>3, <2>1, IdleType DEF InBounds
  <2>2. CASE g # h
    <3>1. InBounds(call[g]) /\ call[g] \in Call /\ call'[g] = call[g]
      BY <1>2, <2>2 DEF TypeInv
    <3>2. call[g].after \in Nat  BY <3>1 DEF Call
    <3> QED  BY <1>1, <1>3, <3>1, <3>2 DEF InBounds
  <2> QED  BY <2>1, <2>2
<1>5. answers' \in Seq(Status)
  <2>1. answers \in Seq(Status) /\ answers' = [answers EXCEPT ![call[h].request] = s]
    BY DEF Answer, TypeInv
  <2>2. CASE call[h].request \in 1..Len(answers)  BY <2>1, <2>2, ExceptSeq
  <2>3. CASE call[h].request \notin 1..Len(answers)
    <3>1. DOMAIN answers = 1..Len(answers)  BY <2>1, LenProperties
    <3>2. answers' = answers  BY <2>1, <2>3, <3>1
    <3> QED  BY <2>1, <3>2
  <2> QED  BY <2>2, <2>3
<1> QED  BY <1>1, <1>2, <1>4, <1>5 DEF TypeInv

\* The ends of a request without a result.
Fails(h) == Refuse(h) \/ ProduceFails(h) \/ PublishRaises(h)

LEMMA FailsFacts ==
  ASSUME TypeInv, NEW h \in Handlers, Fails(h)
  PROVE  UNCHANGED accepted /\ \E s \in Status : Answer(h, s)
BY DEF Fails, Refuse, ProduceFails, PublishRaises, AnswerError, Status

LEMMA FailsType ==
  ASSUME TypeInv, NEW h \in Handlers, Fails(h)
  PROVE  TypeInv'
<1>1. PICK s \in Status : Answer(h, s)  BY FailsFacts
<1>2. accepted' = accepted /\ accepted \in Seq(Answers) /\ Len(accepted) \in Nat
  BY FailsFacts, LenProperties DEF TypeInv
<1> QED  BY <1>1, <1>2, AnswerType

\* The results a 202 answer adds.
NewAnswers(h) ==
  [i \in 1..Len(call[h].published) |-> [result |-> call[h].published[i], after |-> call[h].after]]

LEMMA AcceptFacts ==
  ASSUME TypeInv, NEW h \in Handlers, Accept(h)
  PROVE  /\ accepted' = accepted \o NewAnswers(h)
         /\ accepted \in Seq(Answers) /\ NewAnswers(h) \in Seq(Answers)
         /\ accepted' \in Seq(Answers) /\ Len(accepted') >= Len(accepted)
         /\ Len(NewAnswers(h)) = Len(call[h].published)
<1>1. call[h] \in Call  BY DEF TypeInv
<1>2. call[h].published \in Seq(Results) /\ call[h].after \in Nat  BY <1>1 DEF Call
<1>3. Len(call[h].published) \in Nat  BY <1>2, LenProperties
<1>4. \A i \in 1..Len(call[h].published) : call[h].published[i] \in Results
  BY <1>2, ElementOfSeq
<1>5. NewAnswers(h) \in [1..Len(call[h].published) -> Answers]
  BY <1>2, <1>4 DEF NewAnswers, Answers
<1>6. NewAnswers(h) \in Seq(Answers) /\ Len(NewAnswers(h)) = Len(call[h].published)
  BY <1>3, <1>5, SeqDef, LenProperties
<1>7. accepted' = accepted \o NewAnswers(h)  BY DEF Accept, NewAnswers
<1>8. accepted \in Seq(Answers) /\ Len(accepted) \in Nat  BY LenProperties DEF TypeInv
<1>9. accepted' \in Seq(Answers) /\ Len(accepted') = Len(accepted) + Len(NewAnswers(h))
  BY <1>6, <1>7, <1>8, ConcatProperties
<1> QED  BY <1>3, <1>6, <1>7, <1>8, <1>9

LEMMA AcceptType ==
  ASSUME TypeInv, NEW h \in Handlers, Accept(h)
  PROVE  TypeInv'
<1>1. Answer(h, "202") /\ "202" \in Status  BY DEF Accept, Status
<1> QED  BY <1>1, AcceptFacts, AnswerType

LEMMA ProduceType ==
  ASSUME TypeInv, NEW h \in Handlers, Produce(h)
  PROVE  TypeInv'
<1> DEFINE c == [call[h] EXCEPT !.pc = "wait"]
           m == [event |-> Current(h), request |-> call[h].request, offset |-> None]
<1>1. call[h] \in Call /\ InBounds(call[h])  BY DEF TypeInv
<1>2. Current(h) \in Events /\ Len(call[h].published) < Len(call[h].events)
  BY CurrentType DEF Produce, Publishing, AllPublished
<1>3. /\ call' = [call EXCEPT ![h] = c] /\ queue' = queue \cup {m}
      /\ UNCHANGED <<topic, minted, requests, answers, accepted, retransmits>>
  BY DEF Produce, history
<1>4. c \in Call /\ InBounds(c)
  BY <1>1, <1>2 DEF Call, InBounds
<1>5. m \in Message /\ m.request <= Len(requests)
  BY <1>1, <1>2 DEF Call, Message, Optional, InBounds
<1> HIDE DEF c, m
<1>6. /\ call' \in [Handlers -> Call]
      /\ call'[h] = c
      /\ \A g \in Handlers \ {h} : call'[g] = call[g]
  BY <1>3, <1>4, CallUpdate
<1>7. \A g \in Handlers : InBounds(call'[g])
  BY <1>4, <1>6 DEF TypeInv
<1>8. \A g \in Handlers : InBounds(call[g])'
  BY <1>3, <1>7 DEF InBounds
<1> QED  BY <1>3, <1>5, <1>6, <1>8 DEF TypeInv

\* What publish() returns for the event it was called with.
LEMMA ReturnFacts ==
  ASSUME TypeInv, NEW h \in Handlers, PublishReturns(h)
  PROVE  LET r == Result(h, call[h].report)
             c == [call[h] EXCEPT !.pc = "publish", !.report = None,
                                  !.published = Append(call[h].published, r)]
         IN  /\ r \in Results
             /\ c \in Call /\ InBounds(c)
             /\ call' = [call EXCEPT ![h] = c]
             /\ UNCHANGED <<queue, topic, minted, requests, answers, accepted, retransmits>>
<1> DEFINE r == Result(h, call[h].report)
           c == [call[h] EXCEPT !.pc = "publish", !.report = None,
                                !.published = Append(call[h].published, r)]
<1>1. call[h] \in Call /\ InBounds(call[h])  BY DEF TypeInv
<1>2. call[h].report \in [partition : Partitions, offset : Nat]
  BY TypeInvImplies DEF TypeOK, PublishReturns
<1>3. Len(call[h].published) < Len(call[h].events) /\ Len(call[h].published) \in Nat
      /\ Len(call[h].events) \in Nat /\ Current(h) \in Events
  <2>1. Len(call[h].published) < Len(call[h].events)  BY <1>1 DEF InBounds, PublishReturns
  <2>2. Len(call[h].published) \in Nat /\ Len(call[h].events) \in Nat
    BY <1>1, LenProperties DEF Call
  <2> QED  BY <2>1, <2>2, CurrentType
<1>4. r \in Results  BY <1>2, <1>3 DEF Result, Results
<1>5. /\ call' = [call EXCEPT ![h] = c]
      /\ UNCHANGED <<queue, topic, minted, requests, answers, accepted, retransmits>>
  BY DEF PublishReturns, history
<1> HIDE DEF r
<1>6. /\ Append(call[h].published, r) \in Seq(Results)
      /\ Len(Append(call[h].published, r)) = Len(call[h].published) + 1
  BY <1>1, <1>4, AppendProperties DEF Call
<1>7. c \in Call /\ InBounds(c)
  <2> DEFINE ps == Append(call[h].published, r)
  <2>1. ps \in Seq(Results) /\ Len(ps) = Len(call[h].published) + 1  BY <1>6
  <2> HIDE DEF ps
  <2>2. c = [call[h] EXCEPT !.pc = "publish", !.report = None, !.published = ps]
    BY DEF ps
  <2>3. c \in Call  BY <1>1, <2>1, <2>2 DEF Call, Optional
  <2>4. /\ c.request = call[h].request /\ c.after = call[h].after
        /\ c.events = call[h].events /\ c.published = ps /\ c.pc = "publish"
    BY <1>1, <2>2 DEF Call
  <2> QED  BY <1>1, <1>3, <2>1, <2>3, <2>4 DEF InBounds
<1> QED  BY <1>4, <1>5, <1>7 DEF r

LEMMA ReturnType ==
  ASSUME TypeInv, NEW h \in Handlers, PublishReturns(h)
  PROVE  TypeInv'
<1>1. PICK c \in Call : /\ InBounds(c) /\ call' = [call EXCEPT ![h] = c]
                        /\ UNCHANGED <<queue, topic, minted, requests, answers, accepted, retransmits>>
  BY ReturnFacts
<1>2. /\ call' \in [Handlers -> Call]
      /\ call'[h] = c
      /\ \A g \in Handlers \ {h} : call'[g] = call[g]
  BY <1>1, CallUpdate
<1>3. \A g \in Handlers : InBounds(call'[g])
  BY <1>1, <1>2 DEF TypeInv
<1>4. \A g \in Handlers : InBounds(call[g])'
  BY <1>1, <1>3 DEF InBounds
<1> QED  BY <1>1, <1>2, <1>4 DEF TypeInv

LEMMA AppendsFacts ==
  ASSUME TypeInv, NEW m \in queue, BrokerAppends(m)
  PROVE  LET p == PartitionOf[topic_key(m.event)]
             new == [m EXCEPT !.offset = Len(topic[p])]
         IN  /\ m \in Message /\ p \in Partitions
             /\ topic[p] \in Seq(Events) /\ Len(topic[p]) \in Nat
             /\ topic' = [topic EXCEPT ![p] = Append(topic[p], m.event)]
             /\ topic' \in [Partitions -> Seq(Events)]
             /\ new \in Message /\ new.request = m.request /\ new.event = m.event
             /\ new.offset = Len(topic[p])
             /\ queue' = (queue \ {m}) \cup {new}
             /\ retransmits' \in 0..MaxRetransmits
             /\ UNCHANGED <<call, minted, requests, answers, accepted>>
<1> DEFINE p == PartitionOf[topic_key(m.event)]
           new == [m EXCEPT !.offset = Len(topic[p])]
<1>1. m \in Message  BY DEF TypeInv
<1>2. m.event \in Events  BY <1>1 DEF Message
<1>3. p \in Partitions  BY <1>2, CommandAssumption
<1>4. topic[p] \in Seq(Events)  BY <1>3 DEF TypeInv
<1>5. Len(topic[p]) \in Nat  BY <1>4, LenProperties
<1>6. new \in Message /\ new.request = m.request /\ new.event = m.event /\ new.offset = Len(topic[p])
  BY <1>1, <1>5 DEF Message, Optional
<1>7. topic' = [topic EXCEPT ![p] = Append(topic[p], m.event)]
      /\ queue' = (queue \ {m}) \cup {new}
      /\ UNCHANGED <<call, minted, requests, answers, accepted>>
  BY DEF BrokerAppends, history
<1>8. retransmits' \in 0..MaxRetransmits
  BY CommandAssumption DEF BrokerAppends, TypeInv
<1> HIDE DEF p
<1>9. Append(topic[p], m.event) \in Seq(Events)  BY <1>2, <1>4, AppendProperties
<1>10. topic' \in [Partitions -> Seq(Events)]  BY <1>7, <1>9 DEF TypeInv
<1> QED  BY <1>1, <1>3, <1>4, <1>5, <1>6, <1>7, <1>8, <1>10 DEF p

LEMMA AppendsType ==
  ASSUME TypeInv, NEW m \in queue, BrokerAppends(m)
  PROVE  TypeInv'
<1>1. PICK new \in Message : /\ new.request = m.request /\ queue' = (queue \ {m}) \cup {new}
                             /\ topic' \in [Partitions -> Seq(Events)]
                             /\ retransmits' \in 0..MaxRetransmits
                             /\ UNCHANGED <<call, minted, requests, answers, accepted>>
  BY AppendsFacts
<1>2. queue' \in SUBSET Message /\ \A x \in queue' : x.request <= Len(requests)
  BY <1>1 DEF TypeInv
<1>3. \A g \in Handlers : InBounds(call[g])'
  BY <1>1 DEF TypeInv, InBounds
<1> QED  BY <1>1, <1>2, <1>3 DEF TypeInv

LEMMA ReportType ==
  ASSUME TypeInv, NEW m \in queue, NEW o \in Optional(Nat)
  PROVE  Report(m, o) \in Reports
<1>1. m.event \in Events  BY DEF TypeInv, Message
<1>2. PartitionOf[topic_key(m.event)] \in Partitions  BY <1>1, CommandAssumption
<1> QED  BY <1>2 DEF Report, Reports

\* A report changes the report of the calls it is for and nothing else.
LEMMA OnDeliveryFacts ==
  ASSUME TypeInv, NEW m \in queue, NEW o \in Optional(Nat), OnDelivery(m, o)
  PROVE  /\ call' \in [Handlers -> Call]
         /\ \A h \in Handlers :
              IF call[h].pc = "wait" /\ call[h].request = m.request
              THEN call'[h] = [call[h] EXCEPT !.report = Report(m, o)]
              ELSE call'[h] = call[h]
         /\ \A h \in Handlers :
              /\ call'[h].pc = call[h].pc /\ call'[h].request = call[h].request
              /\ call'[h].events = call[h].events /\ call'[h].published = call[h].published
              /\ call'[h].after = call[h].after
<1>1. Report(m, o) \in Reports  BY ReportType
<1>2. \A h \in Handlers : [call[h] EXCEPT !.report = Report(m, o)] \in Call
  BY <1>1 DEF TypeInv, Call, Optional
<1>3. \A h \in Handlers : call[h] \in Call  BY DEF TypeInv
<1>4. \A h \in Handlers :
              IF call[h].pc = "wait" /\ call[h].request = m.request
              THEN call'[h] = [call[h] EXCEPT !.report = Report(m, o)]
              ELSE call'[h] = call[h]
  BY DEF OnDelivery
<1>5. call' \in [Handlers -> Call]  BY <1>2, <1>3 DEF OnDelivery
<1>6. ASSUME NEW h \in Handlers
      PROVE  LET c == [call[h] EXCEPT !.report = Report(m, o)]
             IN  /\ c.pc = call[h].pc /\ c.request = call[h].request
                 /\ c.events = call[h].events /\ c.published = call[h].published
                 /\ c.after = call[h].after
  BY <1>3 DEF Call
<1> QED  BY <1>4, <1>5, <1>6

\* The report of a message, with an offset or with an error.
Reported(m) == Delivered(m) \/ DeliveryFails(m)

LEMMA ReportedFacts ==
  ASSUME TypeInv, NEW m \in queue, Reported(m)
  PROVE  /\ queue' = queue \ {m}
         /\ UNCHANGED <<topic, minted, requests, answers, accepted, retransmits>>
         /\ \E o \in Optional(Nat) : OnDelivery(m, o) /\ (o # None => o = m.offset)
<1>1. m.offset \in Optional(Nat) /\ None \in Optional(Nat)
  BY DEF TypeInv, Message, Optional
<1> QED  BY <1>1 DEF Reported, Delivered, DeliveryFails, history

LEMMA ReportedType ==
  ASSUME TypeInv, NEW m \in queue, Reported(m)
  PROVE  TypeInv'
<1>1. PICK o \in Optional(Nat) : OnDelivery(m, o)  BY ReportedFacts
<1>2. queue' \in SUBSET Message /\ \A x \in queue' : x.request <= Len(requests)
  BY ReportedFacts DEF TypeInv
<1>3. \A g \in Handlers : InBounds(call[g])'
  BY <1>1, ReportedFacts, OnDeliveryFacts DEF TypeInv, InBounds
<1> QED  BY <1>1, <1>2, <1>3, ReportedFacts, OnDeliveryFacts DEF TypeInv

LEMMA RestartType == ASSUME TypeInv, Restart PROVE TypeInv'
<1>1. /\ call' \in [Handlers -> Call] /\ \A h \in Handlers : call'[h] = IdleCall
      /\ queue' = {} /\ UNCHANGED <<topic, minted, requests, answers, accepted, retransmits>>
  BY IdleType DEF Restart, history
<1>2. InBounds(IdleCall)  BY IdleInBounds DEF TypeInv
<1>3. \A g \in Handlers : InBounds(call[g])'  BY <1>1, <1>2 DEF InBounds
<1> QED  BY <1>1, <1>3 DEF TypeInv

LEMMA TypeStutter == ASSUME TypeInv, UNCHANGED vars PROVE TypeInv'
BY DEF TypeInv, InBounds, vars, history

\* The steps of the producer, by what they do.
LEMMA NextCases ==
  ASSUME Next
  PROVE  \/ \E h \in Handlers, c \in Commands : Receive(h, c)
         \/ \E h \in Handlers : Fails(h) \/ Produce(h) \/ PublishReturns(h) \/ Accept(h)
         \/ \E m \in queue : BrokerAppends(m) \/ Reported(m)
         \/ Restart
BY DEF Next, Handle, Fails, Reported

LEMMA TypeStep == TypeInv /\ [Next]_vars => TypeInv'
<1> SUFFICES ASSUME TypeInv, [Next]_vars PROVE TypeInv'  OBVIOUS
<1>1. CASE UNCHANGED vars  BY <1>1, TypeStutter
<1>2. CASE Next
  BY <1>2, NextCases, ReceiveType, FailsType, ProduceType, ReturnType, AcceptType,
     AppendsType, ReportedType, RestartType
<1> QED  BY <1>1, <1>2

\* The calls, the messages, the topic and the histories keep their types: a
\* request's events are published in its order and never more than once per
\* report, and what is answered names a partition and an offset.
THEOREM TypeCorrect == Spec => []TypeOK
<1>1. Init => TypeInv  BY TypeInit
<1>2. TypeInv /\ [Next]_vars => TypeInv'  BY TypeStep
<1>3. TypeInv => TypeOK  BY TypeInvImplies
<1> QED  BY <1>1, <1>2, <1>3, PTL DEF Spec

----------------------------------------------------------------------------
(* What a 202 answer says is in the topic.  A message of a call that is     *)
(* handled is the only one of its request in the queue, and is about the    *)
(* event publish() waits for: so the report it brings, if any, is about     *)
(* that event too.                                                          *)

\* InTopic, of a topic t.
In(t, r) == r.offset < Len(t[r.partition]) /\ t[r.partition][r.offset + 1] = r.event

Handled(h) == call[h].pc # "idle"

Place(e, report) == [event |-> e, partition |-> report.partition, offset |-> report.offset]

\* No two threads handle one request.
Distinct ==
  \A g, h \in Handlers : g # h /\ Handled(g) /\ Handled(h) => call[g].request # call[h].request

\* A message's offset is where the broker has put its event.
QueuePlaced ==
  \A m \in queue : m.offset # None => In(topic, Place(m.event, Report(m, m.offset)))

CallPlaced(h) ==
  /\ call[h].pc = "publish" => call[h].report = None
  /\ \A m \in queue : Handled(h) /\ m.request = call[h].request =>
       call[h].pc = "wait" /\ call[h].report = None /\ m.event = Current(h)
  /\ \A m, n \in queue : Handled(h) /\ m.request = call[h].request
                         /\ n.request = call[h].request => m = n
  /\ call[h].pc = "wait" /\ Confirmed(h) => In(topic, Result(h, call[h].report))
  /\ \A i \in 1..Len(call[h].published) : In(topic, call[h].published[i])

AcceptedPlaced == \A i \in 1..Len(accepted) : In(topic, accepted[i].result)

PlaceInv ==
  /\ TypeInv
  /\ Distinct
  /\ QueuePlaced
  /\ \A h \in Handlers : CallPlaced(h)
  /\ AcceptedPlaced

LEMMA PlaceImplies == PlaceInv => AcceptedIsPublished
<1> SUFFICES ASSUME PlaceInv PROVE AcceptedIsPublished  OBVIOUS
<1>1. DOMAIN accepted = 1..Len(accepted)  BY LenProperties DEF PlaceInv, TypeInv
<1> QED  BY <1>1 DEF PlaceInv, AcceptedPlaced, AcceptedIsPublished, InTopic, In

LEMMA PlaceInit == Init => PlaceInv
<1> SUFFICES ASSUME Init PROVE PlaceInv  OBVIOUS
<1>1. \A h \in Handlers : call[h] = IdleCall /\ ~Handled(h) /\ Len(call[h].published) = 0
  BY IdleType, EmptySeq DEF Init, Handled
<1>2. \A h \in Handlers : CallPlaced(h)  BY <1>1, IdleType DEF CallPlaced
<1>3. Distinct  BY <1>1 DEF Distinct
<1>4. QueuePlaced /\ AcceptedPlaced  BY EmptySeq DEF Init, QueuePlaced, AcceptedPlaced
<1> QED  BY <1>2, <1>3, <1>4, TypeInit DEF PlaceInv

\* A call that a step leaves alone, with no message added and the topic kept.
LEMMA Untouched ==
  ASSUME NEW g \in Handlers, CallPlaced(g), call'[g] = call[g], topic' = topic,
         \A m \in queue' : m \in queue \/ m.request # call[g].request \/ ~Handled(g)
  PROVE  CallPlaced(g)'
BY DEF CallPlaced, Handled, Current, Confirmed, Result, In

LEMMA IdlePlaced ==
  ASSUME NEW g \in Handlers, call'[g] = IdleCall
  PROVE  CallPlaced(g)' /\ ~Handled(g)'
<1>1. Len(call'[g].published) = 0 /\ call'[g].pc = "idle"  BY IdleType, EmptySeq
<1> QED  BY <1>1 DEF CallPlaced, Handled

LEMMA QueueKept ==
  ASSUME QueuePlaced, topic' = topic, queue' \subseteq queue
  PROVE  QueuePlaced'
BY DEF QueuePlaced, In, Place, Report

LEMMA AcceptedKept ==
  ASSUME AcceptedPlaced, topic' = topic, accepted' = accepted
  PROVE  AcceptedPlaced'
BY DEF AcceptedPlaced, In

\* A thread that stops handling its request does not disturb Distinct.
LEMMA DistinctKept ==
  ASSUME Distinct,
         \A h \in Handlers : Handled(h)' => Handled(h) /\ call'[h].request = call[h].request
  PROVE  Distinct'
BY DEF Distinct

LEMMA ReceivePlaced ==
  ASSUME PlaceInv, NEW h \in Handlers, NEW c \in Commands, Receive(h, c)
  PROVE  PlaceInv'
<1>0. TypeInv  BY DEF PlaceInv
<1>1. /\ call'[h].pc = "publish" /\ call'[h].request = Len(requests) + 1
      /\ Len(call'[h].published) = 0 /\ call'[h].report = None
      /\ \A g \in Handlers \ {h} : call'[g] = call[g]
      /\ UNCHANGED <<queue, topic, accepted>>
  <2>1. call'[h].report = None
    BY <1>0 DEF Receive, IdleCall, TypeInv
  <2> QED  BY <1>0, <2>1, ReceiveFacts, CallUpdate, EmptySeq
<1>2. Len(requests) \in Nat /\ (\A m \in queue : m.request \in Nat /\ m.request <= Len(requests))
      /\ \A g \in Handlers : call[g].request \in Nat /\ call[g].request <= Len(requests)
  BY <1>0, LenProperties DEF TypeInv, Message, Call, InBounds
<1>3. Distinct'
  BY <1>1, <1>2 DEF PlaceInv, Distinct, Handled
<1>4. \A m \in queue' : m.request # call'[h].request  BY <1>1, <1>2
<1>5. CallPlaced(h)'
  BY <1>1, <1>4 DEF CallPlaced, Handled
<1>6. \A g \in Handlers \ {h} : CallPlaced(g)'
  BY <1>1, Untouched DEF PlaceInv
<1> QED
  BY <1>0, <1>1, <1>3, <1>5, <1>6, QueueKept, AcceptedKept, ReceiveType DEF PlaceInv

\* The end of a request, with or without a result.
LEMMA AnswerPlaced ==
  ASSUME PlaceInv, NEW h \in Handlers, NEW s \in Status, Answer(h, s), TypeInv', AcceptedPlaced'
  PROVE  PlaceInv'
<1>1. /\ call'[h] = IdleCall
      /\ \A g \in Handlers \ {h} : call'[g] = call[g]
      /\ UNCHANGED <<queue, topic>>
  BY IdleType, CallUpdate DEF Answer, PlaceInv
<1>2. CallPlaced(h)' /\ ~Handled(h)'  BY <1>1, IdlePlaced
<1>3. \A g \in Handlers \ {h} : CallPlaced(g)'
  BY <1>1, Untouched DEF PlaceInv
<1>4. Distinct'
  BY <1>1, <1>2, DistinctKept DEF PlaceInv, Handled
<1> QED  BY <1>1, <1>2, <1>3, <1>4, QueueKept DEF PlaceInv

LEMMA FailsPlaced ==
  ASSUME PlaceInv, NEW h \in Handlers, Fails(h)
  PROVE  PlaceInv'
<1>0. TypeInv  BY DEF PlaceInv
<1>1. PICK s \in Status : Answer(h, s)  BY <1>0, FailsFacts
<1>2. AcceptedPlaced'
  BY <1>0, <1>1, FailsFacts, AcceptedKept DEF PlaceInv, Answer
<1> QED  BY <1>0, <1>1, <1>2, FailsType, AnswerPlaced

LEMMA AcceptPlaced ==
  ASSUME PlaceInv, NEW h \in Handlers, Accept(h)
  PROVE  PlaceInv'
<1>0. TypeInv  BY DEF PlaceInv
<1>1. Answer(h, "202") /\ "202" \in Status  BY DEF Accept, Status
<1>2. /\ accepted' = accepted \o NewAnswers(h)
      /\ accepted \in Seq(Answers) /\ NewAnswers(h) \in Seq(Answers)
      /\ Len(NewAnswers(h)) = Len(call[h].published)
  BY <1>0, AcceptFacts
<1>3. Len(accepted) \in Nat /\ Len(NewAnswers(h)) \in Nat  BY <1>2, LenProperties
<1>4. \A i \in 1..Len(NewAnswers(h)) : In(topic, NewAnswers(h)[i].result)
  <2> TAKE i \in 1..Len(NewAnswers(h))
  <2>1. NewAnswers(h)[i].result = call[h].published[i]  BY <1>2 DEF NewAnswers
  <2>2. In(topic, call[h].published[i])  BY <1>2 DEF PlaceInv, CallPlaced
  <2> QED  BY <2>1, <2>2
<1>5. ASSUME NEW i \in 1..Len(accepted')
      PROVE  In(topic, accepted'[i].result)
  <2>1. /\ Len(accepted') = Len(accepted) + Len(NewAnswers(h))
        /\ accepted'[i] = IF i <= Len(accepted) THEN accepted[i]
                          ELSE NewAnswers(h)[i - Len(accepted)]
    <3> DEFINE s == NewAnswers(h)
    <3>1. s \in Seq(Answers) /\ accepted' = accepted \o s  BY <1>2
    <3> HIDE DEF s
    <3>2. Len(accepted') = Len(accepted) + Len(s)  BY <1>2, <3>1, ConcatProperties
    <3>3. i \in 1..Len(accepted) + Len(s)  BY <3>2
    <3>4. (accepted \o s)[i] = IF i <= Len(accepted) THEN accepted[i] ELSE s[i - Len(accepted)]
      BY <1>2, <3>1, <3>3, ConcatProperties
    <3> QED  BY <3>1, <3>2, <3>4 DEF s
  <2>2. CASE i <= Len(accepted)
    <3>1. i \in 1..Len(accepted)  BY <1>3, <2>2
    <3> QED  BY <2>1, <2>2, <3>1 DEF PlaceInv, AcceptedPlaced
  <2>3. CASE ~(i <= Len(accepted))
    <3>1. i - Len(accepted) \in 1..Len(NewAnswers(h))  BY <1>3, <2>1, <2>3
    <3> QED  BY <1>4, <2>1, <2>3, <3>1
  <2> QED  BY <2>2, <2>3
<1>6. topic' = topic  BY <1>1 DEF Answer
<1>7. AcceptedPlaced'  BY <1>5, <1>6 DEF AcceptedPlaced
<1> QED  BY <1>0, <1>1, <1>7, AcceptType, AnswerPlaced

LEMMA ProducePlaced ==
  ASSUME PlaceInv, NEW h \in Handlers, Produce(h)
  PROVE  PlaceInv'
<1> DEFINE m == [event |-> Current(h), request |-> call[h].request, offset |-> None]
<1>0. TypeInv /\ call[h].pc = "publish"  BY DEF PlaceInv, Produce, Publishing
<1>1. /\ call' = [call EXCEPT ![h] = [call[h] EXCEPT !.pc = "wait"]]
      /\ queue' = queue \cup {m} /\ UNCHANGED <<topic, accepted>>
  BY DEF Produce, history
<1>2. /\ call'[h] = [call[h] EXCEPT !.pc = "wait"]
      /\ \A g \in Handlers \ {h} : call'[g] = call[g]
  BY <1>0, <1>1 DEF TypeInv
<1>3. /\ call'[h].pc = "wait" /\ call'[h].request = call[h].request
      /\ call'[h].report = None /\ call'[h].published = call[h].published
      /\ call'[h].events = call[h].events
  <2>1. call[h] \in Call /\ call[h].report = None
    BY <1>0 DEF TypeInv, PlaceInv, CallPlaced
  <2> QED  BY <1>2, <2>1 DEF Call
<1>4. Current(h)' = Current(h)  BY <1>3 DEF Current
<1>5. m.event = Current(h) /\ m.request = call[h].request /\ m.offset = None
  OBVIOUS
<1> HIDE DEF m
<1>6. \A n \in queue : n.request # call[h].request
  BY <1>0 DEF PlaceInv, CallPlaced, Handled
<1>7. CallPlaced(h)'
  <2>1. ~Confirmed(h)'  BY <1>3 DEF Confirmed
  <2>2. \A n \in queue' : n.request = call'[h].request => n = m
    BY <1>1, <1>3, <1>6
  <2>3. \A i \in 1..Len(call'[h].published) : In(topic', call'[h].published[i])
    BY <1>1, <1>3 DEF PlaceInv, CallPlaced
  <2> QED  BY <1>3, <1>4, <1>5, <2>1, <2>2, <2>3 DEF CallPlaced
<1>8. \A g \in Handlers \ {h} : CallPlaced(g)'
  <2> TAKE g \in Handlers \ {h}
  <2>1. ~Handled(g) \/ m.request # call[g].request
    BY <1>0, <1>5 DEF PlaceInv, Distinct, Handled
  <2>2. \A n \in queue' : n \in queue \/ n.request # call[g].request \/ ~Handled(g)
    BY <1>1, <2>1
  <2> QED  BY <1>1, <1>2, <2>2, Untouched DEF PlaceInv
<1>9. Distinct'
  BY <1>0, <1>2, <1>3, DistinctKept DEF PlaceInv, Handled
<1>10. QueuePlaced'
  BY <1>1, <1>5 DEF PlaceInv, QueuePlaced, In, Place, Report
<1> QED  BY <1>0, <1>1, <1>7, <1>8, <1>9, <1>10, AcceptedKept, ProduceType DEF PlaceInv

LEMMA ReturnPlaced ==
  ASSUME PlaceInv, NEW h \in Handlers, PublishReturns(h)
  PROVE  PlaceInv'
<1> DEFINE r == Result(h, call[h].report)
           c == [call[h] EXCEPT !.pc = "publish", !.report = None,
                                !.published = Append(call[h].published, r)]
<1>0. TypeInv  BY DEF PlaceInv
<1>1. r \in Results /\ c \in Call /\ call' = [call EXCEPT ![h] = c]
      /\ UNCHANGED <<queue, topic, accepted>>
  BY <1>0, ReturnFacts
<1>2. In(topic, r)  BY DEF PlaceInv, CallPlaced, PublishReturns
<1>3. call[h] \in Call /\ call[h].pc = "wait" /\ call[h].report # None
  BY <1>0 DEF TypeInv, PublishReturns, Confirmed
<1> HIDE DEF r
<1>4. /\ c.pc = "publish" /\ c.report = None /\ c.request = call[h].request
      /\ c.published = Append(call[h].published, r)
  BY <1>3 DEF Call
<1> HIDE DEF c
<1>5. /\ call'[h] = c
      /\ \A g \in Handlers \ {h} : call'[g] = call[g]
  BY <1>0, <1>1, CallUpdate
<1>6. \A i \in 1..Len(c.published) : In(topic, c.published[i])
  <2>1. call[h].published \in Seq(Results)  BY <1>3 DEF Call
  <2>2. Len(call[h].published) \in Nat  BY <2>1, LenProperties
  <2>3. /\ Len(c.published) = Len(call[h].published) + 1
        /\ \A i \in 1..Len(call[h].published) : c.published[i] = call[h].published[i]
        /\ c.published[Len(call[h].published) + 1] = r
    BY <1>1, <1>4, <2>1, AppendProperties
  <2>4. \A i \in 1..Len(call[h].published) : In(topic, call[h].published[i])
    BY DEF PlaceInv, CallPlaced
  <2> TAKE i \in 1..Len(c.published)
  <2>5. CASE i \in 1..Len(call[h].published)  BY <2>3, <2>4, <2>5
  <2>6. CASE i = Len(call[h].published) + 1  BY <1>2, <2>3, <2>6
  <2>7. i \in 1..Len(call[h].published) \/ i = Len(call[h].published) + 1
    BY <2>2, <2>3
  <2> QED  BY <2>5, <2>6, <2>7
<1>7. \A n \in queue : n.request # call[h].request
  BY <1>3 DEF PlaceInv, CallPlaced, Handled
<1>8. CallPlaced(h)'
  BY <1>1, <1>4, <1>5, <1>6, <1>7 DEF CallPlaced
<1>9. \A g \in Handlers \ {h} : CallPlaced(g)'
  BY <1>1, <1>5, Untouched DEF PlaceInv
<1>10. Distinct'
  BY <1>3, <1>4, <1>5, DistinctKept DEF PlaceInv, Handled
<1> QED
  BY <1>0, <1>1, <1>8, <1>9, <1>10, QueueKept, AcceptedKept, ReturnType DEF PlaceInv

\* The topic grows at its ends.
LEMMA TopicGrows ==
  ASSUME TypeInv, NEW m \in queue, BrokerAppends(m)
  PROVE  /\ \A r \in Results : In(topic, r) => In(topic', r)
         /\ LET p == PartitionOf[topic_key(m.event)]
            IN  In(topic', [event |-> m.event, partition |-> p, offset |-> Len(topic[p])])
<1> DEFINE p == PartitionOf[topic_key(m.event)]
<1>1. /\ p \in Partitions /\ topic[p] \in Seq(Events) /\ Len(topic[p]) \in Nat
      /\ topic' = [topic EXCEPT ![p] = Append(topic[p], m.event)]
      /\ m.event \in Events
  BY AppendsFacts DEF Message
<1> HIDE DEF p
<1>2. /\ Len(Append(topic[p], m.event)) = Len(topic[p]) + 1
      /\ \A i \in 1..Len(topic[p]) : Append(topic[p], m.event)[i] = topic[p][i]
      /\ Append(topic[p], m.event)[Len(topic[p]) + 1] = m.event
  BY <1>1, AppendProperties
<1>3. topic'[p] = Append(topic[p], m.event) /\ \A q \in Partitions \ {p} : topic'[q] = topic[q]
  BY <1>1 DEF TypeInv
<1>4. ASSUME NEW r \in Results, In(topic, r)
      PROVE  In(topic', r)
  <2>1. r.partition \in Partitions /\ r.offset \in Nat  BY DEF Results
  <2>2. CASE r.partition = p
    <3>1. r.offset < Len(topic[p]) /\ topic[p][r.offset + 1] = r.event
      BY <1>4, <2>2 DEF In
    <3>2. r.offset + 1 \in 1..Len(topic[p])  BY <1>1, <2>1, <3>1
    <3>3. r.offset < Len(topic[p]) + 1  BY <1>1, <2>1, <3>1
    <3> QED  BY <1>2, <1>3, <2>2, <3>1, <3>2, <3>3 DEF In
  <2>3. CASE r.partition # p
    BY <1>3, <1>4, <2>1, <2>3 DEF In
  <2> QED  BY <2>2, <2>3
<1>5. In(topic', [event |-> m.event, partition |-> p, offset |-> Len(topic[p])])
  <2> DEFINE n == Len(topic[p])
             r == [event |-> m.event, partition |-> p, offset |-> n]
  <2>1. r.event = m.event /\ r.partition = p /\ r.offset = n  OBVIOUS
  <2>2. n < Len(topic'[p]) /\ topic'[p][n + 1] = m.event  BY <1>1, <1>2, <1>3
  <2> HIDE DEF r, n
  <2>3. In(topic', r)  BY <2>1, <2>2 DEF In
  <2> QED  BY <2>3 DEF r, n
<1> QED  BY <1>4, <1>5 DEF p

LEMMA AppendsPlaced ==
  ASSUME PlaceInv, NEW m \in queue, BrokerAppends(m)
  PROVE  PlaceInv'
<1> DEFINE p == PartitionOf[topic_key(m.event)]
           new == [m EXCEPT !.offset = Len(topic[p])]
<1>0. TypeInv  BY DEF PlaceInv
<1>1. /\ p \in Partitions
      /\ new \in Message /\ new.request = m.request /\ new.event = m.event
      /\ new.offset = Len(topic[p])
      /\ queue' = (queue \ {m}) \cup {new}
      /\ UNCHANGED <<call, accepted>>
  BY <1>0, AppendsFacts
<1>2. /\ \A r \in Results : In(topic, r) => In(topic', r)
      /\ In(topic', [event |-> m.event, partition |-> p, offset |-> Len(topic[p])])
  BY <1>0, TopicGrows
<1>3. \A x \in queue : x.event \in Events /\ x.offset \in Optional(Nat)
                         /\ PartitionOf[topic_key(x.event)] \in Partitions
  BY <1>0, CommandAssumption DEF TypeInv, Message
<1>4. In(topic', Place(new.event, Report(new, new.offset)))
  BY <1>1, <1>2 DEF Place, Report
<1> HIDE DEF new, p
<1>5. QueuePlaced'
  <2>1. ASSUME NEW x \in queue, x.offset # None
        PROVE  In(topic', Place(x.event, Report(x, x.offset)))
    <3>1. x.offset \in Nat  BY <1>3, <2>1 DEF Optional
    <3>2. Place(x.event, Report(x, x.offset)) \in Results
      BY <1>3, <3>1 DEF Place, Report, Results
    <3> QED  BY <1>2, <2>1, <3>2 DEF PlaceInv, QueuePlaced
  <2>2. \A x \in queue' : x.offset # None => In(topic', Place(x.event, Report(x, x.offset)))
    BY <1>1, <1>4, <2>1
  <2> QED  BY <2>2 DEF QueuePlaced, Report
<1>6. ASSUME NEW h \in Handlers
      PROVE  CallPlaced(h)'
  <2>1. CallPlaced(h) /\ call[h] \in Call  BY <1>0 DEF PlaceInv, TypeInv
  <2>2. \A x \in queue' : Handled(h) /\ x.request = call[h].request =>
          call[h].pc = "wait" /\ call[h].report = None /\ x.event = Current(h)
    BY <1>1, <2>1 DEF CallPlaced
  <2>3. \A x, y \in queue' : Handled(h) /\ x.request = call[h].request
                             /\ y.request = call[h].request => x = y
    BY <1>1, <2>1 DEF CallPlaced
  <2>4. ASSUME call[h].pc = "wait", Confirmed(h)
        PROVE  In(topic', Result(h, call[h].report))
    <3>1. In(topic, Result(h, call[h].report))  BY <2>1, <2>4 DEF CallPlaced
    <3>2. call[h].report \in [partition : Partitions, offset : Nat]
      BY <1>0, <2>4, TypeInvImplies DEF TypeOK
    <3>3. InBounds(call[h])  BY <1>0 DEF TypeInv
    <3>4. Len(call[h].published) \in Nat /\ Len(call[h].events) \in Nat
      BY <2>1, LenProperties DEF Call
    <3>5. Current(h) \in Events
      BY <1>0, <2>4, <3>3, <3>4, CurrentType DEF InBounds
    <3>6. Result(h, call[h].report) \in Results  BY <3>2, <3>5 DEF Result, Results
    <3> QED  BY <1>2, <3>1, <3>6
  <2>5. ASSUME NEW i \in 1..Len(call[h].published)
        PROVE  In(topic', call[h].published[i])
    <3>1. call[h].published[i] \in Results  BY <2>1, ElementOfSeq DEF Call
    <3> QED  BY <1>2, <2>1, <3>1 DEF CallPlaced
  <2>6. call' = call  BY <1>1
  <2>7. Handled(h)' = Handled(h) /\ Current(h)' = Current(h) /\ Confirmed(h)' = Confirmed(h)
        /\ Result(h, call[h].report)' = Result(h, call[h].report)
    BY <2>6 DEF Handled, Current, Confirmed, Result
  <2> QED  BY <2>1, <2>2, <2>3, <2>4, <2>5, <2>6, <2>7 DEF CallPlaced
<1>7. AcceptedPlaced'
  <2>1. ASSUME NEW i \in 1..Len(accepted)
        PROVE  In(topic', accepted[i].result)
    <3>1. accepted[i] \in Answers  BY <1>0, ElementOfSeq DEF TypeInv
    <3> QED  BY <1>2, <3>1 DEF PlaceInv, AcceptedPlaced, Answers
  <2> QED  BY <1>1, <2>1 DEF AcceptedPlaced
<1>8. Distinct'  BY <1>1, DistinctKept DEF PlaceInv, Handled
<1> QED  BY <1>0, <1>5, <1>6, <1>7, <1>8, AppendsType DEF PlaceInv

LEMMA ReportedPlaced ==
  ASSUME PlaceInv, NEW m \in queue, Reported(m)
  PROVE  PlaceInv'
<1>0. TypeInv  BY DEF PlaceInv
<1>1. PICK o \in Optional(Nat) : OnDelivery(m, o) /\ (o # None => o = m.offset)
  BY <1>0, ReportedFacts
<1>2. queue' = queue \ {m} /\ UNCHANGED <<topic, accepted>>  BY <1>0, ReportedFacts
<1>3. \A h \in Handlers :
        /\ call'[h].pc = call[h].pc /\ call'[h].request = call[h].request
        /\ call'[h].events = call[h].events /\ call'[h].published = call[h].published
  BY <1>0, <1>1, OnDeliveryFacts
<1>4. ASSUME NEW h \in Handlers
      PROVE  CallPlaced(h)'
  <2>1. CASE call[h].pc = "wait" /\ call[h].request = m.request
    <3>1. call'[h] = [call[h] EXCEPT !.report = Report(m, o)]
      BY <1>0, <1>1, <2>1, OnDeliveryFacts
    <3>2. call'[h].report = Report(m, o)  BY <1>0, <3>1 DEF TypeInv, Call
    <3>3. m.event = Current(h) /\ \A n \in queue : n.request = m.request => n = m
      BY <2>1 DEF PlaceInv, CallPlaced, Handled
    <3>4. \A n \in queue' : n.request # call'[h].request  BY <1>2, <1>3, <2>1, <3>3
    <3>5. Current(h)' = Current(h)  BY <1>3 DEF Current
    <3>6. ASSUME Confirmed(h)'
          PROVE  In(topic', Result(h, call[h].report)')
      <4>1. o # None  BY <3>2, <3>6 DEF Confirmed, Report
      <4>2. In(topic, Place(m.event, Report(m, o)))
        BY <1>1, <4>1 DEF PlaceInv, QueuePlaced
      <4>3. Result(h, call[h].report)' = Place(m.event, Report(m, o))
        BY <3>2, <3>3, <3>5 DEF Result, Place
      <4> QED  BY <1>2, <4>2, <4>3
    <3>7. \A i \in 1..Len(call'[h].published) : In(topic', call'[h].published[i])
      BY <1>2, <1>3 DEF PlaceInv, CallPlaced
    <3>8. call'[h].pc = "wait"  BY <1>3, <2>1
    <3> QED  BY <3>4, <3>6, <3>7, <3>8 DEF CallPlaced
  <2>2. CASE ~(call[h].pc = "wait" /\ call[h].request = m.request)
    <3>1. call'[h] = call[h]  BY <1>0, <1>1, <2>2, OnDeliveryFacts
    <3> QED  BY <1>2, <3>1, Untouched DEF PlaceInv
  <2> QED  BY <2>1, <2>2
<1>5. Distinct'  BY <1>3, DistinctKept DEF PlaceInv, Handled
<1> QED  BY <1>0, <1>2, <1>4, <1>5, QueueKept, AcceptedKept, ReportedType DEF PlaceInv

LEMMA RestartPlaced == ASSUME PlaceInv, Restart PROVE PlaceInv'
<1>1. (\A h \in Handlers : call'[h] = IdleCall) /\ queue' = {} /\ UNCHANGED <<topic, accepted>>
  BY DEF Restart, history
<1>2. \A h \in Handlers : CallPlaced(h)' /\ ~Handled(h)'  BY <1>1, IdlePlaced
<1>3. Distinct'  BY <1>2, DistinctKept DEF PlaceInv
<1> QED  BY <1>1, <1>2, <1>3, QueueKept, AcceptedKept, RestartType DEF PlaceInv

LEMMA PlaceStutter == ASSUME PlaceInv, UNCHANGED vars PROVE PlaceInv'
<1>1. UNCHANGED <<call, queue, topic, accepted>>  BY DEF vars, history
<1>2. \A h \in Handlers : CallPlaced(h)'  BY <1>1, Untouched DEF PlaceInv
<1>3. Distinct'  BY <1>1, DistinctKept DEF PlaceInv, Handled
<1> QED  BY <1>1, <1>2, <1>3, QueueKept, AcceptedKept, TypeStutter DEF PlaceInv

LEMMA PlaceStep == PlaceInv /\ [Next]_vars => PlaceInv'
<1> SUFFICES ASSUME PlaceInv, [Next]_vars PROVE PlaceInv'  OBVIOUS
<1>1. CASE UNCHANGED vars  BY <1>1, PlaceStutter
<1>2. CASE Next
  BY <1>2, NextCases, ReceivePlaced, FailsPlaced, ProducePlaced, ReturnPlaced, AcceptPlaced,
     AppendsPlaced, ReportedPlaced, RestartPlaced
<1> QED  BY <1>1, <1>2

\* Whatever a 202 answer says is in the topic, for any number of handler
\* threads that share the producer, however late, repeated or out of order the
\* reports of their messages and of abandoned requests arrive.
THEOREM AcceptedAlwaysPublished == Spec => []AcceptedIsPublished
<1>1. Init => PlaceInv  BY PlaceInit
<1>2. PlaceInv /\ [Next]_vars => PlaceInv'  BY PlaceStep
<1>3. PlaceInv => AcceptedIsPublished  BY PlaceImplies
<1> QED  BY <1>1, <1>2, <1>3, PTL DEF Spec

----------------------------------------------------------------------------
(* A batch is published from its front.  Whatever is in the producer's      *)
(* queue or in the topic is an event of a request whose earlier events are  *)
(* in the topic.                                                            *)

Sourced(e) ==
  \E r \in 1..Len(requests) : \E i \in 1..Len(requests[r]) :
    requests[r][i] = e /\ \A j \in 1..(i - 1) : Published(requests[r][j])

\* A call holds the events of its request and results about its first ones.
RequestHeld(h) ==
  Handled(h) =>
    /\ call[h].request \in 1..Len(requests)
    /\ requests[call[h].request] = call[h].events
    /\ \A i \in 1..Len(call[h].published) : call[h].published[i].event = call[h].events[i]

QueueSourced == \A m \in queue : Sourced(m.event)
TopicSourced == \A p \in Partitions : \A i \in 1..Len(topic[p]) : Sourced(topic[p][i])

\* A 422 is about the first event that is not valid.
RefusedPublished ==
  \A r \in 1..Len(requests) : answers[r] = "422" =>
    \A i \in 1..Len(requests[r]) :
      (\A j \in 1..i : validate_event(requests[r][j])) => Published(requests[r][i])

BatchInv ==
  /\ PlaceInv
  /\ Len(answers) = Len(requests)
  /\ \A h \in Handlers : RequestHeld(h)
  /\ QueueSourced
  /\ TopicSourced
  /\ RefusedPublished

\* Published, by index.
LEMMA PublishedAt ==
  ASSUME TypeInv, NEW e
  PROVE  Published(e) <=> \E p \in Partitions : \E i \in 1..Len(topic[p]) : topic[p][i] = e
<1>1. \A p \in Partitions : DOMAIN topic[p] = 1..Len(topic[p])
  BY LenProperties DEF TypeInv
<1> QED  BY <1>1 DEF Published

LEMMA InIsPublished ==
  ASSUME TypeInv, NEW r \in Results, In(topic, r)
  PROVE  Published(r.event)
<1>1. r.partition \in Partitions /\ r.offset \in Nat  BY DEF Results
<1>2. topic[r.partition] \in Seq(Events)  BY <1>1 DEF TypeInv
<1>3. Len(topic[r.partition]) \in Nat  BY <1>2, LenProperties
<1>4. r.offset + 1 \in 1..Len(topic[r.partition]) /\ topic[r.partition][r.offset + 1] = r.event
  BY <1>1, <1>3 DEF In
<1> QED  BY <1>1, <1>4, PublishedAt

\* What is in the topic stays where it is.
LEMMA TopicStays ==
  ASSUME TypeInv, [Next]_vars, NEW p \in Partitions, NEW i \in 1..Len(topic[p])
  PROVE  i \in 1..Len(topic'[p]) /\ topic'[p][i] = topic[p][i]
<1>1. CASE topic' = topic  BY <1>1
<1>2. ASSUME NEW m \in queue, BrokerAppends(m)
      PROVE  i \in 1..Len(topic'[p]) /\ topic'[p][i] = topic[p][i]
  <2> DEFINE q == PartitionOf[topic_key(m.event)]
  <2>1. /\ q \in Partitions /\ topic[q] \in Seq(Events) /\ Len(topic[q]) \in Nat
        /\ topic' = [topic EXCEPT ![q] = Append(topic[q], m.event)]
        /\ m.event \in Events
    BY <1>2, AppendsFacts DEF Message
  <2> HIDE DEF q
  <2>2. /\ Len(Append(topic[q], m.event)) = Len(topic[q]) + 1
        /\ \A k \in 1..Len(topic[q]) : Append(topic[q], m.event)[k] = topic[q][k]
    BY <2>1, AppendProperties
  <2>3. topic'[q] = Append(topic[q], m.event) /\ (p # q => topic'[p] = topic[p])
    BY <2>1 DEF TypeInv
  <2> QED  BY <2>1, <2>2, <2>3
<1>3. CASE UNCHANGED vars  BY <1>1, <1>3 DEF vars
<1>4. CASE Next
  <2>1. ASSUME NEW h \in Handlers, Fails(h) \/ Produce(h) \/ PublishReturns(h) \/ Accept(h)
        PROVE  topic' = topic
    BY <2>1, FailsFacts DEF Produce, PublishReturns, Accept, Answer
  <2>2. ASSUME NEW h \in Handlers, NEW c \in Commands, Receive(h, c) PROVE topic' = topic
    BY <2>2 DEF Receive
  <2>3. ASSUME NEW m \in queue, Reported(m) PROVE topic' = topic
    BY <2>3, ReportedFacts
  <2>4. ASSUME Restart PROVE topic' = topic  BY <2>4 DEF Restart
  <2> QED  BY <1>1, <1>2, <1>4, <2>1, <2>2, <2>3, <2>4, NextCases
<1> QED  BY <1>3, <1>4

\* So do the events of the requests received.
LEMMA RequestsStay ==
  ASSUME TypeInv, [Next]_vars, NEW r \in 1..Len(requests)
  PROVE  r \in 1..Len(requests') /\ requests'[r] = requests[r]
<1>1. CASE requests' = requests  BY <1>1
<1>2. ASSUME NEW h \in Handlers, NEW c \in Commands, Receive(h, c)
      PROVE  r \in 1..Len(requests') /\ requests'[r] = requests[r]
  <2>1. PICK events \in Seq(Events) : requests' = Append(requests, events)
    BY <1>2, ReceivedEvents
  <2>2. requests \in Seq(Seq(Events)) /\ Len(requests) \in Nat
    BY LenProperties DEF TypeInv
  <2> QED  BY <2>1, <2>2, AppendProperties
<1>3. CASE UNCHANGED vars  BY <1>1, <1>3 DEF vars, history
<1>4. CASE Next
  <2>1. ASSUME NEW h \in Handlers, Fails(h) \/ Produce(h) \/ PublishReturns(h) \/ Accept(h)
        PROVE  requests' = requests
    BY <2>1, FailsFacts DEF Produce, PublishReturns, Accept, Answer, history
  <2>2. ASSUME NEW m \in queue, BrokerAppends(m) \/ Reported(m) PROVE requests' = requests
    BY <2>2, ReportedFacts DEF BrokerAppends, history
  <2>3. ASSUME Restart PROVE requests' = requests  BY <2>3 DEF Restart, history
  <2> QED  BY <1>1, <1>2, <1>4, <2>1, <2>2, <2>3, NextCases
<1> QED  BY <1>3, <1>4

LEMMA PublishedStays ==
  ASSUME TypeInv, TypeInv', [Next]_vars, NEW e, Published(e)
  PROVE  Published(e)'
<1>1. PICK p \in Partitions : \E i \in 1..Len(topic[p]) : topic[p][i] = e
  BY PublishedAt
<1>2. PICK i \in 1..Len(topic[p]) : topic[p][i] = e  BY <1>1
<1>3. i \in 1..Len(topic'[p]) /\ topic'[p][i] = e  BY <1>2, TopicStays
<1>4. \A q \in Partitions : DOMAIN topic'[q] = 1..Len(topic'[q])
  BY LenProperties DEF TypeInv
<1> QED  BY <1>3, <1>4 DEF Published

LEMMA SourcedStays ==
  ASSUME TypeInv, TypeInv', [Next]_vars, NEW e, Sourced(e)
  PROVE  Sourced(e)'
<1>1. PICK r \in 1..Len(requests) : \E i \in 1..Len(requests[r]) :
        requests[r][i] = e /\ \A j \in 1..(i - 1) : Published(requests[r][j])
  BY DEF Sourced
<1>2. PICK i \in 1..Len(requests[r]) :
        requests[r][i] = e /\ \A j \in 1..(i - 1) : Published(requests[r][j])
  BY <1>1
<1>3. r \in 1..Len(requests') /\ requests'[r] = requests[r]  BY RequestsStay
<1>4. \A j \in 1..(i - 1) : Published(requests[r][j])'
  <2> TAKE j \in 1..(i - 1)
  <2>1. Published(requests[r][j])  BY <1>2
  <2>2. ASSUME NEW x, x = requests[r][j] PROVE Published(x)'
    BY <2>1, <2>2, PublishedStays
  <2> QED  BY <1>3, <2>2 DEF Published
<1> QED  BY <1>2, <1>3, <1>4 DEF Sourced

\* What a step does to a call.
LEMMA CallCases ==
  ASSUME TypeInv, [Next]_vars, NEW h \in Handlers
  PROVE  \/ ~Handled(h)'
         \/ /\ Handled(h)
            /\ call'[h].request = call[h].request /\ call'[h].events = call[h].events
            /\ call'[h].published = call[h].published /\ call'[h].after = call[h].after
         \/ PublishReturns(h)
         \/ \E c \in Commands : Receive(h, c)
<1> DEFINE Same == /\ call'[h].request = call[h].request /\ call'[h].events = call[h].events
                   /\ call'[h].published = call[h].published /\ call'[h].after = call[h].after
                   /\ call'[h].pc = "idle" <=> call[h].pc = "idle"
           Goal == \/ ~Handled(h)'
                   \/ Handled(h) /\ Same
                   \/ PublishReturns(h)
                   \/ \E c \in Commands : Receive(h, c)
<1>0. (call'[h] = call[h] => Same) /\ (Same => Goal)  BY DEF Handled
<1>1. ASSUME NEW g \in Handlers, NEW c \in Commands, Receive(g, c) PROVE Goal
  <2>1. CASE g # h  BY <1>0, <1>1, <2>1, ReceiveFacts, CallUpdate
  <2> QED  BY <1>1, <2>1
<1>2. ASSUME NEW g \in Handlers, Fails(g) \/ Accept(g) PROVE Goal
  <2>1. PICK s \in Status : Answer(g, s)  BY <1>2, FailsFacts DEF Accept, Status
  <2>2. call' = [call EXCEPT ![g] = IdleCall]  BY <2>1 DEF Answer
  <2>3. CASE g = h  BY <2>2, <2>3, IdleType, CallUpdate DEF Handled
  <2>4. CASE g # h  BY <1>0, <2>2, <2>4, IdleType, CallUpdate
  <2> QED  BY <2>3, <2>4
<1>3. ASSUME NEW g \in Handlers, Produce(g) PROVE Goal
  <2>1. call' = [call EXCEPT ![g] = [call[g] EXCEPT !.pc = "wait"]]  BY <1>3 DEF Produce
  <2>2. CASE g = h
    <3>1. call[h] \in Call /\ call'[h] = [call[h] EXCEPT !.pc = "wait"]
      BY <2>1, <2>2 DEF TypeInv
    <3>2. Same  BY <1>3, <2>2, <3>1 DEF Call, Produce, Publishing
    <3> QED  BY <1>0, <3>2
  <2>3. CASE g # h  BY <1>0, <2>1, <2>3 DEF TypeInv
  <2> QED  BY <2>2, <2>3
<1>4. ASSUME NEW g \in Handlers, PublishReturns(g) PROVE Goal
  <2>1. CASE g # h  BY <1>0, <1>4, <2>1 DEF PublishReturns, TypeInv
  <2> QED  BY <1>4, <2>1
<1>5. ASSUME NEW m \in queue, BrokerAppends(m) PROVE Goal
  BY <1>0, <1>5 DEF BrokerAppends
<1>6. ASSUME NEW m \in queue, Reported(m) PROVE Goal
  <2>1. PICK o \in Optional(Nat) : OnDelivery(m, o)  BY <1>6, ReportedFacts
  <2>2. Same  BY <2>1, OnDeliveryFacts
  <2> QED  BY <1>0, <2>2
<1>7. ASSUME Restart PROVE Goal  BY <1>7, IdleType DEF Restart, Handled
<1>8. CASE UNCHANGED vars  BY <1>0, <1>8 DEF vars
<1>9. CASE Next  BY <1>1, <1>2, <1>3, <1>4, <1>5, <1>6, <1>7, <1>9, NextCases
<1> QED  BY <1>8, <1>9

\* The results of a call are about events in the topic.
LEMMA HeldPublished ==
  ASSUME BatchInv, NEW h \in Handlers, Handled(h), NEW j \in 1..Len(call[h].published)
  PROVE  Published(requests[call[h].request][j])
<1>0. TypeInv /\ call[h] \in Call  BY DEF BatchInv, PlaceInv, TypeInv
<1>1. In(topic, call[h].published[j])  BY DEF BatchInv, PlaceInv, CallPlaced
<1>2. call[h].published[j] \in Results  BY <1>0, ElementOfSeq DEF Call
<1>3. Published(call[h].published[j].event)  BY <1>0, <1>1, <1>2, InIsPublished
<1>4. requests[call[h].request][j] = call[h].published[j].event  BY DEF BatchInv, RequestHeld
<1> QED  BY <1>3, <1>4

\* The event publish() is called with belongs to the request, and those before
\* it are in the topic.
LEMMA CurrentSourced ==
  ASSUME BatchInv, NEW h \in Handlers, Publishing(h)
  PROVE  Sourced(Current(h))
<1>0. TypeInv /\ Handled(h) /\ call[h] \in Call
  BY DEF BatchInv, PlaceInv, TypeInv, Publishing, Handled
<1> DEFINE n == Len(call[h].published)
           r == call[h].request
<1>1. n \in Nat /\ Len(call[h].events) \in Nat /\ n < Len(call[h].events)
  BY <1>0, CurrentType DEF Publishing, AllPublished
<1>2. r \in 1..Len(requests) /\ requests[r] = call[h].events
  BY <1>0 DEF BatchInv, RequestHeld
<1>3. n + 1 \in 1..Len(requests[r]) /\ requests[r][n + 1] = Current(h)
  BY <1>1, <1>2 DEF Current
<1>4. \A j \in 1..n : Published(requests[r][j])  BY <1>0, HeldPublished
<1> HIDE DEF n, r
<1>5. \A j \in 1..((n + 1) - 1) : Published(requests[r][j])  BY <1>1, <1>4
<1> QED  BY <1>2, <1>3, <1>5 DEF Sourced

LEMMA HeldStep ==
  ASSUME BatchInv, [Next]_vars, NEW h \in Handlers
  PROVE  RequestHeld(h)'
<1>0. TypeInv /\ call[h] \in Call  BY DEF BatchInv, PlaceInv, TypeInv
<1>1. CASE ~Handled(h)'  BY <1>1 DEF RequestHeld
<1>2. CASE /\ Handled(h)
           /\ call'[h].request = call[h].request /\ call'[h].events = call[h].events
           /\ call'[h].published = call[h].published
  <2>1. /\ call[h].request \in 1..Len(requests)
        /\ requests[call[h].request] = call[h].events
        /\ \A i \in 1..Len(call[h].published) : call[h].published[i].event = call[h].events[i]
    BY <1>2 DEF BatchInv, RequestHeld
  <2> QED  BY <1>0, <1>2, <2>1, RequestsStay DEF RequestHeld
<1>3. CASE PublishReturns(h)
  <2> DEFINE r == Result(h, call[h].report)
  <2>1. /\ r \in Results
        /\ call' = [call EXCEPT ![h] = [call[h] EXCEPT !.pc = "publish", !.report = None,
                                          !.published = Append(call[h].published, r)]]
        /\ requests' = requests
    BY <1>0, <1>3, ReturnFacts
  <2>2. r.event = call[h].events[Len(call[h].published) + 1]  BY DEF Result, Current
  <2> HIDE DEF r
  <2>3. /\ call'[h].published = Append(call[h].published, r)
        /\ call'[h].events = call[h].events /\ call'[h].request = call[h].request
    BY <1>0, <2>1 DEF TypeInv, Call
  <2>4. /\ call[h].request \in 1..Len(requests)
        /\ requests[call[h].request] = call[h].events
        /\ \A i \in 1..Len(call[h].published) : call[h].published[i].event = call[h].events[i]
    BY <1>3 DEF BatchInv, RequestHeld, PublishReturns, Handled
  <2>5. call[h].published \in Seq(Results) /\ Len(call[h].published) \in Nat
    BY <1>0, LenProperties DEF Call
  <2>6. \A i \in 1..Len(call'[h].published) : call'[h].published[i].event = call'[h].events[i]
    <3>1. /\ Len(call'[h].published) = Len(call[h].published) + 1
          /\ \A i \in 1..Len(call[h].published) : call'[h].published[i] = call[h].published[i]
          /\ call'[h].published[Len(call[h].published) + 1] = r
      BY <2>1, <2>3, <2>5, AppendProperties
    <3> QED  BY <2>2, <2>3, <2>4, <2>5, <3>1
  <2> QED  BY <2>1, <2>3, <2>4, <2>6 DEF RequestHeld
<1>4. ASSUME NEW c \in Commands, Receive(h, c)
      PROVE  RequestHeld(h)'
  <2>1. PICK events \in Seq(Events) :
          /\ call' = [call EXCEPT ![h] = NewCall(c, events)]
          /\ requests' = Append(requests, events)
    BY <1>0, <1>4, ReceivedEvents
  <2>2. /\ call'[h].request = Len(requests) + 1 /\ call'[h].events = events
        /\ call'[h].published = <<>>
    BY <1>0, <2>1 DEF TypeInv, IdleCall, NewCall
  <2>3. requests \in Seq(Seq(Events)) /\ Len(requests) \in Nat
    BY <1>0, LenProperties DEF TypeInv
  <2>4. Len(requests') = Len(requests) + 1 /\ requests'[Len(requests) + 1] = events
    BY <2>1, <2>3, AppendProperties
  <2> QED  BY <2>2, <2>3, <2>4, EmptySeq DEF RequestHeld
<1> QED  BY <1>0, <1>1, <1>2, <1>3, <1>4, CallCases

LEMMA QueueSourcedStep == ASSUME BatchInv, TypeInv', [Next]_vars PROVE QueueSourced'
<1>0. TypeInv /\ QueueSourced  BY DEF BatchInv, PlaceInv
<1>1. ASSUME NEW m \in queue', ~(\E n \in queue : n.event = m.event)
      PROVE  \E h \in Handlers : Produce(h) /\ m.event = Current(h)
  <2>1. ASSUME queue' \subseteq queue PROVE FALSE  BY <1>1, <2>1
  <2>2. ASSUME NEW n \in queue, BrokerAppends(n) PROVE FALSE
    <3>1. PICK new \in Message : new.event = n.event /\ queue' = (queue \ {n}) \cup {new}
      BY <1>0, <2>2, AppendsFacts
    <3> QED  BY <1>1, <3>1
  <2>3. ~UNCHANGED vars  BY <2>1 DEF vars
  <2>4. Next  BY <2>3
  <2>5. \A h \in Handlers : ~PublishReturns(h) /\ ~(\E c \in Commands : Receive(h, c))
    BY <2>1 DEF PublishReturns, Receive
  <2>6. \A h \in Handlers : ~Fails(h) /\ ~Accept(h)
    BY <1>0, <2>1, FailsFacts DEF Accept, Answer
  <2>7. ~Restart /\ \A n \in queue : ~Reported(n)
    BY <1>0, <2>1, ReportedFacts DEF Restart
  <2>8. PICK h \in Handlers : Produce(h)  BY <2>2, <2>4, <2>5, <2>6, <2>7, NextCases
  <2>9. m = [event |-> Current(h), request |-> call[h].request, offset |-> None]
    BY <1>1, <2>8 DEF Produce
  <2> QED  BY <2>8, <2>9
<1>2. ASSUME NEW m \in queue' PROVE Sourced(m.event)'
  <2>1. Sourced(m.event)
    BY <1>0, <1>1, CurrentSourced DEF QueueSourced, Produce
  <2>2. ASSUME NEW x, x = m.event PROVE Sourced(x)'
    BY <1>0, <2>1, <2>2, SourcedStays
  <2> QED  BY <2>2
<1> QED  BY <1>2 DEF QueueSourced

\* What is new in the topic was in the queue.
LEMMA TopicFromQueue ==
  ASSUME TypeInv, [Next]_vars, NEW p \in Partitions, NEW i \in 1..Len(topic'[p])
  PROVE  \/ i \in 1..Len(topic[p]) /\ topic'[p][i] = topic[p][i]
         \/ \E m \in queue : /\ BrokerAppends(m) /\ topic'[p][i] = m.event
                             /\ p = PartitionOf[topic_key(m.event)]
<1> DEFINE Goal == \/ i \in 1..Len(topic[p]) /\ topic'[p][i] = topic[p][i]
                   \/ \E m \in queue : /\ BrokerAppends(m) /\ topic'[p][i] = m.event
                                       /\ p = PartitionOf[topic_key(m.event)]
<1>1. CASE topic' = topic  BY <1>1
<1>2. ASSUME NEW m \in queue, BrokerAppends(m) PROVE Goal
  <2> DEFINE q == PartitionOf[topic_key(m.event)]
  <2>1. /\ q \in Partitions /\ topic[q] \in Seq(Events) /\ Len(topic[q]) \in Nat
        /\ topic' = [topic EXCEPT ![q] = Append(topic[q], m.event)]
        /\ m.event \in Events
    BY <1>2, AppendsFacts DEF Message
  <2>2. CASE p # q
    <3>1. topic'[p] = topic[p]  BY <2>1, <2>2 DEF TypeInv
    <3> QED  BY <3>1
  <2>3. CASE p = q
    <3> HIDE DEF q
    <3>1. topic'[p] = Append(topic[p], m.event)  BY <2>1, <2>3 DEF TypeInv
    <3>2. /\ Len(topic'[p]) = Len(topic[p]) + 1
          /\ \A k \in 1..Len(topic[p]) : topic'[p][k] = topic[p][k]
          /\ topic'[p][Len(topic[p]) + 1] = m.event
      BY <2>1, <2>3, <3>1, AppendProperties
    <3>3. CASE i \in 1..Len(topic[p])  BY <3>2, <3>3
    <3>4. CASE i \notin 1..Len(topic[p])
      <4>1. i = Len(topic[p]) + 1  BY <2>1, <2>3, <3>2, <3>4
      <4> QED  BY <1>2, <2>3, <3>2, <4>1 DEF q
    <3> QED  BY <3>3, <3>4
  <2> QED  BY <2>2, <2>3
<1>3. CASE UNCHANGED vars  BY <1>1, <1>3 DEF vars
<1>4. CASE Next
  <2>1. ASSUME NEW h \in Handlers, Fails(h) \/ Produce(h) \/ PublishReturns(h) \/ Accept(h)
        PROVE  topic' = topic
    BY <2>1, FailsFacts DEF Produce, PublishReturns, Accept, Answer
  <2>2. ASSUME NEW h \in Handlers, NEW c \in Commands, Receive(h, c) PROVE topic' = topic
    BY <2>2 DEF Receive
  <2>3. ASSUME NEW m \in queue, Reported(m) PROVE topic' = topic
    BY <2>3, ReportedFacts
  <2>4. ASSUME Restart PROVE topic' = topic  BY <2>4 DEF Restart
  <2> QED  BY <1>1, <1>2, <1>4, <2>1, <2>2, <2>3, <2>4, NextCases
<1> QED  BY <1>3, <1>4

LEMMA TopicSourcedStep == ASSUME BatchInv, TypeInv', [Next]_vars PROVE TopicSourced'
<1>0. TypeInv  BY DEF BatchInv, PlaceInv
<1>1. ASSUME NEW p \in Partitions, NEW i \in 1..Len(topic'[p])
      PROVE  Sourced(topic[p][i])'
  <2>1. Sourced(topic'[p][i])
    BY <1>0, TopicFromQueue DEF BatchInv, QueueSourced, TopicSourced
  <2>2. ASSUME NEW x, x = topic'[p][i] PROVE Sourced(x)'
    BY <1>0, <2>1, <2>2, SourcedStays
  <2> QED  BY <2>2 DEF Sourced
<1> QED  BY <1>1 DEF TopicSourced

\* A 422 answer is given by Refuse, or was there before.
LEMMA NewAnswer ==
  ASSUME TypeInv, [Next]_vars, Len(answers) = Len(requests)
  PROVE  /\ Len(answers') = Len(requests')
         /\ \A r \in 1..Len(requests') : answers'[r] = "422" =>
              \/ r \in 1..Len(requests) /\ answers[r] = "422"
              \/ \E h \in Handlers : Refuse(h) /\ r = call[h].request
<1> DEFINE Goal ==
             /\ Len(answers') = Len(requests')
             /\ \A r \in 1..Len(requests') : answers'[r] = "422" =>
                  \/ r \in 1..Len(requests) /\ answers[r] = "422"
                  \/ \E h \in Handlers : Refuse(h) /\ r = call[h].request
<1>0. /\ requests \in Seq(Seq(Events)) /\ answers \in Seq(Status)
      /\ Len(requests) \in Nat /\ DOMAIN answers = 1..Len(requests)
  BY LenProperties DEF TypeInv
<1>1. CASE requests' = requests /\ answers' = answers  BY <1>1
<1>2. ASSUME NEW h \in Handlers, NEW s \in Status, Answer(h, s), s = "422" => Refuse(h)
      PROVE  Goal
  <2>1. requests' = requests /\ answers' = [answers EXCEPT ![call[h].request] = s]
    BY <1>2 DEF Answer
  <2>2. Len(answers') = Len(requests)
    <3>1. CASE call[h].request \in 1..Len(answers)
      BY <1>0, <2>1, <3>1, ExceptSeq
    <3>2. CASE call[h].request \notin 1..Len(answers)
      <4>1. answers' = answers  BY <1>0, <2>1, <3>2
      <4> QED  BY <4>1
    <3> QED  BY <3>1, <3>2
  <2>3. \A r \in 1..Len(requests) : answers'[r] = IF r = call[h].request THEN s ELSE answers[r]
    BY <1>0, <2>1
  <2> QED  BY <1>2, <2>1, <2>2, <2>3
<1>3. ASSUME NEW h \in Handlers, NEW c \in Commands, Receive(h, c) PROVE Goal
  <2>1. PICK events \in Seq(Events) : requests' = Append(requests, events)
    BY <1>0, <1>3, ReceivedEvents
  <2>2. answers' = Append(answers, None) /\ None \in Status /\ None # "422"
    BY <1>3, CommandAssumption DEF Receive, Status
  <2>3. /\ Len(requests') = Len(requests) + 1
        /\ Len(answers') = Len(requests) + 1
        /\ \A r \in 1..Len(requests) : answers'[r] = answers[r]
        /\ answers'[Len(requests) + 1] = None
    BY <1>0, <2>1, <2>2, AppendProperties
  <2> QED  BY <1>0, <2>2, <2>3
<1>4. CASE UNCHANGED vars  BY <1>1, <1>4 DEF vars, history
<1>5. CASE Next
  <2>1. ASSUME NEW h \in Handlers, Fails(h) \/ Accept(h) PROVE Goal
    <3>1. \E s \in Status : Answer(h, s) /\ (s = "422" => Refuse(h))
      BY <2>1 DEF Fails, Refuse, ProduceFails, PublishRaises, AnswerError, Accept, Status
    <3> QED  BY <1>2, <3>1
  <2>2. ASSUME NEW h \in Handlers, Produce(h) \/ PublishReturns(h) PROVE Goal
    BY <1>1, <2>2 DEF Produce, PublishReturns, history
  <2>3. ASSUME NEW m \in queue, BrokerAppends(m) \/ Reported(m) PROVE Goal
    BY <1>1, <2>3, ReportedFacts DEF BrokerAppends, history
  <2>4. ASSUME Restart PROVE Goal  BY <1>1, <2>4 DEF Restart, history
  <2> QED  BY <1>3, <1>5, <2>1, <2>2, <2>3, <2>4, NextCases
<1> QED  BY <1>4, <1>5

LEMMA RefusedStep == ASSUME BatchInv, TypeInv', [Next]_vars PROVE RefusedPublished'
<1>0. TypeInv /\ Len(answers) = Len(requests) /\ RefusedPublished
  BY DEF BatchInv, PlaceInv
<1>1. ASSUME NEW r \in 1..Len(requests'), answers'[r] = "422",
             NEW i \in 1..Len(requests'[r]), \A j \in 1..i : validate_event(requests'[r][j])
      PROVE  Published(requests'[r][i])
  <2>1. CASE r \in 1..Len(requests) /\ answers[r] = "422"
    <3>1. requests'[r] = requests[r]  BY <1>0, <2>1, RequestsStay
    <3> QED  BY <1>0, <1>1, <2>1, <3>1 DEF RefusedPublished
  <2>2. ASSUME NEW h \in Handlers, Refuse(h), r = call[h].request
        PROVE  Published(requests'[r][i])
    <3> DEFINE n == Len(call[h].published)
    <3>1. Handled(h) /\ ~validate_event(call[h].events[n + 1])
      BY <2>2 DEF Refuse, Publishing, Handled, Valid, Current
    <3>2. r \in 1..Len(requests) /\ requests[r] = call[h].events
      BY <2>2, <3>1 DEF BatchInv, RequestHeld
    <3>3. requests'[r] = call[h].events  BY <1>0, <3>2, RequestsStay
    <3>4. n \in Nat /\ Len(call[h].events) \in Nat
      BY <1>0, <2>2, CurrentType DEF Refuse, Publishing, AllPublished
    <3>5. i \in 1..n
      <4>1. ~(n + 1 \in 1..i)  BY <1>1, <3>1, <3>3
      <4> HIDE DEF n
      <4> QED  BY <3>3, <3>4, <4>1
    <3> QED  BY <2>2, <3>1, <3>2, <3>3, <3>5, HeldPublished
  <2> QED  BY <1>0, <1>1, <2>1, <2>2, NewAnswer
<1>2. ASSUME NEW r \in 1..Len(requests'), answers'[r] = "422",
             NEW i \in 1..Len(requests'[r]), \A j \in 1..i : validate_event(requests'[r][j])
      PROVE  Published(requests[r][i])'
  <2>1. ASSUME NEW x, x = requests'[r][i] PROVE Published(x)'
    BY <1>0, <1>1, <1>2, <2>1, PublishedStays
  <2> QED  BY <2>1 DEF Published
<1> QED  BY <1>2 DEF RefusedPublished

LEMMA BatchInit == Init => BatchInv
<1> SUFFICES ASSUME Init PROVE BatchInv  OBVIOUS
<1>1. /\ Len(requests) = 0 /\ Len(answers) = 0 /\ queue = {}
      /\ \A p \in Partitions : Len(topic[p]) = 0
      /\ \A h \in Handlers : ~Handled(h)
  BY EmptySeq, IdleType DEF Init, Handled
<1> QED
  BY <1>1, PlaceInit DEF BatchInv, RequestHeld, QueueSourced, TopicSourced, RefusedPublished

LEMMA BatchStep == BatchInv /\ [Next]_vars => BatchInv'
<1> SUFFICES ASSUME BatchInv, [Next]_vars PROVE BatchInv'  OBVIOUS
<1>1. TypeInv /\ Len(answers) = Len(requests) /\ PlaceInv' /\ TypeInv'
  BY PlaceStep DEF BatchInv, PlaceInv
<1>2. Len(answers') = Len(requests')  BY <1>1, NewAnswer
<1> QED
  BY <1>1, <1>2, HeldStep, QueueSourcedStep, TopicSourcedStep, RefusedStep DEF BatchInv

LEMMA BatchImplies == BatchInv => BatchPublishesPrefix
<1> SUFFICES ASSUME BatchInv PROVE BatchPublishesPrefix  OBVIOUS
<1>0. TypeInv  BY DEF BatchInv, PlaceInv
<1>1. DOMAIN requests = 1..Len(requests)
      /\ \A r \in 1..Len(requests) : DOMAIN requests[r] = 1..Len(requests[r])
  BY <1>0, ElementOfSeq, LenProperties DEF TypeInv
<1>2. ASSUME NEW r \in 1..Len(requests), NEW i \in 1..Len(requests[r]),
             Published(requests[r][i]), OnlyIn(r, i), NEW j \in 1..(i - 1)
      PROVE  Published(requests[r][j])
  <2>1. PICK p \in Partitions : \E k \in 1..Len(topic[p]) : topic[p][k] = requests[r][i]
    BY <1>0, <1>2, PublishedAt
  <2>2. Sourced(requests[r][i])  BY <2>1 DEF BatchInv, TopicSourced
  <2>3. PICK s \in 1..Len(requests) : \E k \in 1..Len(requests[s]) :
          requests[s][k] = requests[r][i] /\ \A n \in 1..(k - 1) : Published(requests[s][n])
    BY <2>2 DEF Sourced
  <2>4. PICK k \in 1..Len(requests[s]) :
          requests[s][k] = requests[r][i] /\ \A n \in 1..(k - 1) : Published(requests[s][n])
    BY <2>3
  <2>5. s = r /\ k = i  BY <1>1, <1>2, <2>4 DEF OnlyIn
  <2> QED  BY <2>4, <2>5
<1>3. ASSUME NEW r \in 1..Len(requests), NEW i \in 1..Len(requests[r]),
             answers[r] = "422", \A j \in 1..i : validate_event(requests[r][j])
      PROVE  Published(requests[r][i])
  BY <1>3 DEF BatchInv, RefusedPublished
<1> QED  BY <1>1, <1>2, <1>3 DEF BatchPublishesPrefix

\* A batch reaches the topic from its front, whatever its messages meet with
\* and however many handler threads publish at the same time; a 422 leaves all
\* that came before the refused event published.
THEOREM BatchesPublishPrefixes == Spec => []BatchPublishesPrefix
<1>1. Init => BatchInv  BY BatchInit
<1>2. BatchInv /\ [Next]_vars => BatchInv'  BY BatchStep
<1>3. BatchInv => BatchPublishesPrefix  BY BatchImplies
<1> QED  BY <1>1, <1>2, <1>3, PTL DEF Spec

----------------------------------------------------------------------------
(* The order of a client that waits for its answers.  What was accepted     *)
(* before a request came in lies before all the places its messages get.    *)

\* The first n results lie before offset o, where they are of partition p.
AllBefore(results, n, p, o) ==
  \A i \in 1..n : results[i].result.partition = p => results[i].result.offset < o

OffsetsGrow(h) ==
  Handled(h) =>
    /\ \A m \in queue : m.request = call[h].request /\ m.offset # None =>
         AllBefore(accepted, call[h].after, PartitionOf[topic_key(m.event)], m.offset)
    /\ call[h].pc = "wait" /\ Confirmed(h) =>
         AllBefore(accepted, call[h].after, call[h].report.partition, call[h].report.offset)
    /\ \A k \in 1..Len(call[h].published) :
         AllBefore(accepted, call[h].after, call[h].published[k].partition, call[h].published[k].offset)

AcceptedGrow ==
  \A j \in 1..Len(accepted) :
    LET b == accepted[j].result
    IN  /\ accepted[j].after <= Len(accepted)
        /\ AllBefore(accepted, accepted[j].after, b.partition, b.offset)

OrderInv ==
  /\ BatchInv
  /\ \A h \in Handlers : OffsetsGrow(h)
  /\ AcceptedGrow

LEMMA OrderImplies == OrderInv => SequentialInOrder
<1> SUFFICES ASSUME OrderInv PROVE SequentialInOrder  OBVIOUS
<1>0. accepted \in Seq(Answers)  BY DEF OrderInv, BatchInv, PlaceInv, TypeInv
<1>1. DOMAIN accepted = 1..Len(accepted) /\ \A j \in 1..Len(accepted) : accepted[j].after \in Nat
  <2>1. DOMAIN accepted = 1..Len(accepted)  BY <1>0, LenProperties
  <2>2. \A j \in 1..Len(accepted) : accepted[j] \in Answers  BY <1>0, ElementOfSeq
  <2> QED  BY <2>1, <2>2 DEF Answers
<1>2. \A j \in 1..Len(accepted), i \in 1..Len(accepted) :
        i <= accepted[j].after => i \in 1..accepted[j].after
  BY <1>1
<1> QED
  BY <1>1, <1>2 DEF OrderInv, AcceptedGrow, AllBefore, SequentialInOrder

LEMMA OrderInit == Init => OrderInv
<1> SUFFICES ASSUME Init PROVE OrderInv  OBVIOUS
<1>1. Len(accepted) = 0 /\ \A h \in Handlers : ~Handled(h)
  BY EmptySeq, IdleType DEF Init, Handled
<1> QED  BY <1>1, BatchInit DEF OrderInv, OffsetsGrow, AcceptedGrow

\* What was accepted stays; an accepting call adds its results.
LEMMA AcceptedCases ==
  ASSUME TypeInv, [Next]_vars
  PROVE  /\ Len(accepted) \in Nat /\ Len(accepted') \in Nat /\ Len(accepted) <= Len(accepted')
         /\ \A i \in 1..Len(accepted) : accepted'[i] = accepted[i]
         /\ \A i \in 1..Len(accepted') : i > Len(accepted) =>
              \E h \in Handlers : \E k \in 1..Len(call[h].published) :
                Accept(h) /\ accepted'[i] = [result |-> call[h].published[k], after |-> call[h].after]
<1> DEFINE Goal ==
             /\ Len(accepted) \in Nat /\ Len(accepted') \in Nat /\ Len(accepted) <= Len(accepted')
             /\ \A i \in 1..Len(accepted) : accepted'[i] = accepted[i]
             /\ \A i \in 1..Len(accepted') : i > Len(accepted) =>
                  \E h \in Handlers : \E k \in 1..Len(call[h].published) :
                    Accept(h) /\ accepted'[i] = [result |-> call[h].published[k],
                                                 after |-> call[h].after]
<1>0. Len(accepted) \in Nat  BY LenProperties DEF TypeInv
<1>1. CASE accepted' = accepted  BY <1>0, <1>1
<1>2. ASSUME NEW h \in Handlers, Accept(h) PROVE Goal
  <2> DEFINE s == NewAnswers(h)
  <2>1. /\ accepted' = accepted \o s /\ accepted \in Seq(Answers) /\ s \in Seq(Answers)
        /\ Len(s) = Len(call[h].published)
    BY <1>2, AcceptFacts
  <2>2. \A k \in 1..Len(call[h].published) :
          s[k] = [result |-> call[h].published[k], after |-> call[h].after]
    BY DEF NewAnswers
  <2> HIDE DEF s
  <2>3. Len(s) \in Nat  BY <2>1, LenProperties
  <2>4. /\ Len(accepted') = Len(accepted) + Len(s)
        /\ \A i \in 1..(Len(accepted) + Len(s)) :
             accepted'[i] = IF i <= Len(accepted) THEN accepted[i] ELSE s[i - Len(accepted)]
    BY <2>1, ConcatProperties
  <2>5. ASSUME NEW i \in 1..Len(accepted'), i > Len(accepted)
        PROVE  \E k \in 1..Len(call[h].published) :
                 accepted'[i] = [result |-> call[h].published[k], after |-> call[h].after]
    <3>1. i - Len(accepted) \in 1..Len(s) /\ accepted'[i] = s[i - Len(accepted)]
      BY <1>0, <2>3, <2>4, <2>5
    <3> QED  BY <2>1, <2>2, <3>1
  <2> QED  BY <1>0, <1>2, <2>3, <2>4, <2>5
<1>3. CASE UNCHANGED vars  BY <1>1, <1>3 DEF vars, history
<1>4. CASE Next
  <2>1. ASSUME NEW h \in Handlers, Fails(h) \/ Produce(h) \/ PublishReturns(h)
        PROVE  accepted' = accepted
    BY <2>1, FailsFacts DEF Produce, PublishReturns, history
  <2>2. ASSUME NEW h \in Handlers, NEW c \in Commands, Receive(h, c) PROVE accepted' = accepted
    BY <2>2 DEF Receive
  <2>3. ASSUME NEW m \in queue, BrokerAppends(m) \/ Reported(m) PROVE accepted' = accepted
    BY <2>3, ReportedFacts DEF BrokerAppends, history
  <2>4. ASSUME Restart PROVE accepted' = accepted  BY <2>4 DEF Restart, history
  <2> QED  BY <1>1, <1>2, <1>4, <2>1, <2>2, <2>3, <2>4, NextCases
<1> QED  BY <1>3, <1>4

\* A message in the queue was there, has no offset yet, or was just appended.
LEMMA QueueCases ==
  ASSUME TypeInv, [Next]_vars, NEW m \in queue'
  PROVE  \/ m \in queue
         \/ m.offset = None
         \/ /\ PartitionOf[topic_key(m.event)] \in Partitions
            /\ m.offset = Len(topic[PartitionOf[topic_key(m.event)]])
<1> DEFINE Goal == \/ m \in queue
                   \/ m.offset = None
                   \/ /\ PartitionOf[topic_key(m.event)] \in Partitions
                      /\ m.offset = Len(topic[PartitionOf[topic_key(m.event)]])
<1>1. CASE queue' \subseteq queue  BY <1>1
<1>2. ASSUME NEW n \in queue, BrokerAppends(n) PROVE Goal
  BY <1>2, AppendsFacts
<1>3. ASSUME NEW h \in Handlers, Produce(h) PROVE Goal  BY <1>3 DEF Produce
<1>4. CASE UNCHANGED vars  BY <1>4 DEF vars
<1>5. CASE Next
  <2>1. ASSUME NEW h \in Handlers, Fails(h) \/ PublishReturns(h) \/ Accept(h)
        PROVE  queue' = queue
    BY <2>1, FailsFacts DEF PublishReturns, Accept, Answer
  <2>2. ASSUME NEW h \in Handlers, NEW c \in Commands, Receive(h, c) PROVE queue' = queue
    BY <2>2 DEF Receive
  <2>3. ASSUME NEW n \in queue, Reported(n) PROVE queue' \subseteq queue
    BY <2>3, ReportedFacts
  <2>4. ASSUME Restart PROVE queue' \subseteq queue  BY <2>4 DEF Restart
  <2> QED  BY <1>1, <1>2, <1>3, <1>5, <2>1, <2>2, <2>3, <2>4, NextCases
<1> QED  BY <1>4, <1>5

\* The report of a waiting call is the one it had, or that of its message.
LEMMA ReportCases ==
  ASSUME PlaceInv, [Next]_vars, NEW h \in Handlers, Handled(h),
         call'[h].pc = "wait", Confirmed(h)'
  PROVE  \/ call[h].pc = "wait" /\ Confirmed(h) /\ call'[h].report = call[h].report
         \/ \E m \in queue : /\ m.request = call[h].request /\ m.offset # None
                             /\ call'[h].report = Report(m, m.offset)
<1> DEFINE Goal ==
             \/ call[h].pc = "wait" /\ Confirmed(h) /\ call'[h].report = call[h].report
             \/ \E m \in queue : /\ m.request = call[h].request /\ m.offset # None
                                 /\ call'[h].report = Report(m, m.offset)
<1>0. TypeInv /\ call[h] \in Call  BY DEF PlaceInv, TypeInv
<1>1. CASE call'[h] = call[h]  BY <1>1 DEF Confirmed
<1>2. ASSUME NEW g \in Handlers, NEW c \in Commands, Receive(g, c) PROVE Goal
  <2>1. CASE g # h  BY <1>0, <1>1, <1>2, <2>1, ReceiveFacts, CallUpdate
  <2>2. CASE g = h  BY <1>2, <2>2 DEF Receive, Handled
  <2> QED  BY <2>1, <2>2
<1>3. ASSUME NEW g \in Handlers, Fails(g) \/ Accept(g) PROVE Goal
  <2>1. PICK s \in Status : Answer(g, s)  BY <1>0, <1>3, FailsFacts DEF Accept, Status
  <2>2. call' = [call EXCEPT ![g] = IdleCall]  BY <2>1 DEF Answer
  <2>3. CASE g = h  BY <1>0, <2>2, <2>3, IdleType, CallUpdate
  <2>4. CASE g # h  BY <1>0, <1>1, <2>2, <2>4, IdleType, CallUpdate
  <2> QED  BY <2>3, <2>4
<1>4. ASSUME NEW g \in Handlers, Produce(g) PROVE Goal
  <2>1. call' = [call EXCEPT ![g] = [call[g] EXCEPT !.pc = "wait"]]  BY <1>4 DEF Produce
  <2>2. CASE g = h
    <3>1. call'[h] = [call[h] EXCEPT !.pc = "wait"]  BY <1>0, <2>1, <2>2 DEF TypeInv
    <3>2. call'[h].report = call[h].report  BY <1>0, <3>1 DEF Call
    <3>3. call[h].report = None
      BY <1>4, <2>2 DEF PlaceInv, CallPlaced, Produce, Publishing
    <3> QED  BY <3>2, <3>3 DEF Confirmed
  <2>3. CASE g # h  BY <1>0, <1>1, <2>1, <2>3 DEF TypeInv
  <2> QED  BY <2>2, <2>3
<1>5. ASSUME NEW g \in Handlers, PublishReturns(g) PROVE Goal
  <2>1. CASE g # h  BY <1>0, <1>1, <1>5, <2>1 DEF PublishReturns, TypeInv
  <2>2. CASE g = h
    <3>1. PICK c \in Call : call' = [call EXCEPT ![h] = c] /\ c.pc = "publish"
      <4> DEFINE r == Result(h, call[h].report)
                 c == [call[h] EXCEPT !.pc = "publish", !.report = None,
                                !.published = Append(call[h].published, r)]
      <4>1. c \in Call /\ call' = [call EXCEPT ![h] = c]  BY <1>0, <1>5, <2>2, ReturnFacts
      <4>2. c.pc = "publish"  BY <1>0 DEF Call
      <4> QED  BY <4>1, <4>2
    <3> QED  BY <1>0, <3>1, CallUpdate
  <2> QED  BY <2>1, <2>2
<1>6. ASSUME NEW m \in queue, BrokerAppends(m) PROVE Goal
  BY <1>1, <1>6 DEF BrokerAppends
<1>7. ASSUME NEW m \in queue, Reported(m) PROVE Goal
  <2>1. PICK o \in Optional(Nat) : OnDelivery(m, o) /\ (o # None => o = m.offset)
    BY <1>0, <1>7, ReportedFacts
  <2>2. CASE call[h].pc = "wait" /\ call[h].request = m.request
    <3>1. call'[h] = [call[h] EXCEPT !.report = Report(m, o)]
      BY <1>0, <2>1, <2>2, OnDeliveryFacts
    <3>2. call'[h].report = Report(m, o)  BY <1>0, <3>1 DEF Call
    <3>3. o # None  BY <3>2 DEF Confirmed, Report
    <3> QED  BY <2>1, <2>2, <3>2, <3>3
  <2>3. CASE ~(call[h].pc = "wait" /\ call[h].request = m.request)
    BY <1>0, <1>1, <2>1, <2>3, OnDeliveryFacts
  <2> QED  BY <2>2, <2>3
<1>8. ASSUME Restart PROVE Goal  BY <1>8, IdleType DEF Restart
<1>9. CASE UNCHANGED vars  BY <1>1, <1>9 DEF vars
<1>10. CASE Next
  BY <1>2, <1>3, <1>4, <1>5, <1>6, <1>7, <1>8, <1>10, NextCases
<1> QED  BY <1>9, <1>10

\* All that is accepted lies before the end of its partition.
LEMMA AllBeforeEnd ==
  ASSUME PlaceInv, NEW n \in Nat, n <= Len(accepted), NEW p \in Partitions
  PROVE  AllBefore(accepted, n, p, Len(topic[p]))
<1>1. Len(accepted) \in Nat  BY LenProperties DEF PlaceInv, TypeInv
<1> QED  BY <1>1 DEF PlaceInv, AcceptedPlaced, In, AllBefore

\* The first results do not change.
LEMMA FirstStay ==
  ASSUME TypeInv, [Next]_vars, NEW n \in Nat, n <= Len(accepted)
  PROVE  \A p, o : AllBefore(accepted, n, p, o) => AllBefore(accepted', n, p, o)
<1>1. \A i \in 1..n : accepted'[i] = accepted[i]
  BY AcceptedCases
<1> QED  BY <1>1 DEF AllBefore

LEMMA OffsetsStep ==
  ASSUME OrderInv, [Next]_vars, NEW h \in Handlers
  PROVE  OffsetsGrow(h)'
<1> DEFINE n == call[h].after
<1>0. PlaceInv /\ TypeInv /\ call[h] \in Call /\ OffsetsGrow(h)
      /\ n \in Nat /\ n <= Len(accepted) /\ Len(accepted) \in Nat
  BY LenProperties DEF OrderInv, BatchInv, PlaceInv, TypeInv, Call, InBounds
<1>1. CASE ~Handled(h)'  BY <1>1 DEF OffsetsGrow
<1>2. CASE /\ Handled(h)
           /\ call'[h].request = call[h].request /\ call'[h].events = call[h].events
           /\ call'[h].published = call[h].published /\ call'[h].after = call[h].after
  <2>1. ASSUME NEW m \in queue', m.request = call'[h].request, m.offset # None
        PROVE  AllBefore(accepted, n, PartitionOf[topic_key(m.event)], m.offset)
    <3>1. CASE m \in queue  BY <1>0, <1>2, <2>1, <3>1 DEF OffsetsGrow
    <3>2. CASE m \notin queue  BY <1>0, <2>1, <3>2, QueueCases, AllBeforeEnd
    <3> QED  BY <3>1, <3>2
  <2>2. ASSUME call'[h].pc = "wait", Confirmed(h)'
        PROVE  AllBefore(accepted, n, call'[h].report.partition, call'[h].report.offset)
    <3>1. CASE call[h].pc = "wait" /\ Confirmed(h) /\ call'[h].report = call[h].report
      BY <1>0, <1>2, <3>1 DEF OffsetsGrow
    <3>2. ASSUME NEW m \in queue, m.request = call[h].request, m.offset # None,
                 call'[h].report = Report(m, m.offset)
          PROVE  AllBefore(accepted, n, call'[h].report.partition, call'[h].report.offset)
      <4>1. AllBefore(accepted, n, PartitionOf[topic_key(m.event)], m.offset)
        BY <1>0, <1>2, <3>2 DEF OffsetsGrow
      <4>2. /\ call'[h].report.partition = PartitionOf[topic_key(m.event)]
            /\ call'[h].report.offset = m.offset
        BY <3>2 DEF Report
      <4> QED  BY <4>1, <4>2
    <3> QED  BY <1>0, <1>2, <2>2, <3>1, <3>2, ReportCases
  <2>3. ASSUME NEW k \in 1..Len(call'[h].published)
        PROVE  AllBefore(accepted, n, call'[h].published[k].partition, call'[h].published[k].offset)
    BY <1>0, <1>2 DEF OffsetsGrow
  <2>4. ASSUME NEW p, NEW o, AllBefore(accepted, n, p, o) PROVE AllBefore(accepted', call'[h].after, p, o)
    BY <1>0, <1>2, <2>4, FirstStay
  <2> QED  BY <2>1, <2>2, <2>3, <2>4 DEF OffsetsGrow
<1>3. CASE PublishReturns(h)
  <2> DEFINE r == Result(h, call[h].report)
             c == [call[h] EXCEPT !.pc = "publish", !.report = None,
                                !.published = Append(call[h].published, r)]
  <2>1. /\ r \in Results /\ c \in Call /\ call' = [call EXCEPT ![h] = c]
        /\ UNCHANGED <<queue, accepted>>
    BY <1>0, <1>3, ReturnFacts
  <2>2. AllBefore(accepted, n, r.partition, r.offset)
    BY <1>0, <1>3 DEF OffsetsGrow, PublishReturns, Handled, Result
  <2> HIDE DEF r
  <2>3. /\ call'[h].pc = "publish" /\ call'[h].request = call[h].request
        /\ call'[h].published = Append(call[h].published, r) /\ call'[h].after = n
    BY <1>0, <2>1 DEF Call, TypeInv
  <2>4. Handled(h)  BY <1>3 DEF PublishReturns, Handled
  <2>5. call[h].published \in Seq(Results) /\ Len(call[h].published) \in Nat
    BY <1>0, LenProperties DEF Call
  <2>6. /\ Len(call'[h].published) = Len(call[h].published) + 1
        /\ \A i \in 1..Len(call[h].published) : call'[h].published[i] = call[h].published[i]
        /\ call'[h].published[Len(call[h].published) + 1] = r
    BY <2>1, <2>3, <2>5, AppendProperties
  <2>7. \A k \in 1..Len(call'[h].published) :
          AllBefore(accepted, n, call'[h].published[k].partition, call'[h].published[k].offset)
    <3> TAKE k \in 1..Len(call'[h].published)
    <3>1. CASE k \in 1..Len(call[h].published)  BY <1>0, <2>4, <2>6, <3>1 DEF OffsetsGrow
    <3>2. CASE k = Len(call[h].published) + 1  BY <2>2, <2>6, <3>2
    <3>3. k \in 1..Len(call[h].published) \/ k = Len(call[h].published) + 1
      BY <2>5, <2>6
    <3> QED  BY <3>1, <3>2, <3>3
  <2>8. \A m \in queue' : m.request # call'[h].request
    BY <1>3, <2>1, <2>3, <2>4 DEF OrderInv, BatchInv, PlaceInv, CallPlaced, PublishReturns, Confirmed
  <2>9. \A p, o : AllBefore(accepted, n, p, o) => AllBefore(accepted', call'[h].after, p, o)
    BY <2>1, <2>3
  <2> QED  BY <2>3, <2>7, <2>8, <2>9 DEF OffsetsGrow
<1>4. ASSUME NEW c \in Commands, Receive(h, c)
      PROVE  OffsetsGrow(h)'
  <2>1. /\ call'[h].pc = "publish" /\ call'[h].request = Len(requests) + 1
        /\ call'[h].published = <<>> /\ queue' = queue
    BY <1>0, <1>4, ReceiveFacts
  <2>2. Len(requests) \in Nat /\ \A m \in queue : m.request \in Nat /\ m.request <= Len(requests)
    BY <1>0, LenProperties DEF TypeInv, Message
  <2>3. \A m \in queue' : m.request # call'[h].request  BY <2>1, <2>2
  <2> QED  BY <2>1, <2>3, EmptySeq DEF OffsetsGrow
<1> QED  BY <1>0, <1>1, <1>2, <1>3, <1>4, CallCases

LEMMA AcceptedGrowStep == ASSUME OrderInv, [Next]_vars PROVE AcceptedGrow'
<1>0. PlaceInv /\ TypeInv /\ AcceptedGrow
  BY DEF OrderInv, BatchInv, PlaceInv
<1>1. Len(accepted) \in Nat /\ Len(accepted') \in Nat /\ Len(accepted) <= Len(accepted')
  BY <1>0, AcceptedCases
<1> DEFINE Grows(n, b) ==
             /\ n \in Nat /\ n <= Len(accepted)
             /\ AllBefore(accepted, n, b.partition, b.offset)
<1>2. ASSUME NEW b \in Results, NEW n, Grows(n, b)
      PROVE  /\ n <= Len(accepted')
             /\ AllBefore(accepted', n, b.partition, b.offset)
  BY <1>0, <1>1, <1>2, FirstStay
<1>3. ASSUME NEW j \in 1..Len(accepted')
      PROVE  accepted'[j].result \in Results /\ Grows(accepted'[j].after, accepted'[j].result)
  <2>1. CASE j \in 1..Len(accepted)
    <3>1. accepted'[j] = accepted[j] /\ accepted[j] \in Answers
      BY <1>0, <2>1, AcceptedCases, ElementOfSeq DEF TypeInv
    <3> QED  BY <1>0, <2>1, <3>1 DEF AcceptedGrow, Answers
  <2>2. CASE j \notin 1..Len(accepted)
    <3>1. j > Len(accepted)  BY <1>1, <2>2
    <3>2. PICK h \in Handlers : \E k \in 1..Len(call[h].published) :
            /\ Accept(h)
            /\ accepted'[j] = [result |-> call[h].published[k], after |-> call[h].after]
      BY <1>0, <3>1, AcceptedCases
    <3>3. PICK k \in 1..Len(call[h].published) :
            /\ Accept(h)
            /\ accepted'[j] = [result |-> call[h].published[k], after |-> call[h].after]
      BY <3>2
    <3>4. /\ call[h] \in Call /\ Handled(h) /\ InBounds(call[h])
          /\ OffsetsGrow(h)
      BY <3>3 DEF OrderInv, BatchInv, PlaceInv, TypeInv, Accept, Handled
    <3>5. call[h].published[k] \in Results  BY <3>4, ElementOfSeq DEF Call
    <3>6. call[h].after \in Nat /\ call[h].after <= Len(accepted)
      BY <3>4 DEF Call, InBounds
    <3>7. Grows(call[h].after, call[h].published[k])
      BY <3>4, <3>6 DEF OffsetsGrow
    <3> QED  BY <3>3, <3>5, <3>7
  <2> QED  BY <2>1, <2>2
<1> HIDE DEF Grows
<1>4. \A j \in 1..Len(accepted') :
        LET n == accepted'[j].after
            b == accepted'[j].result
        IN  /\ n <= Len(accepted')
            /\ AllBefore(accepted', n, b.partition, b.offset)
  BY <1>2, <1>3
<1> QED  BY <1>4 DEF AcceptedGrow

LEMMA OrderStep == OrderInv /\ [Next]_vars => OrderInv'
<1> SUFFICES ASSUME OrderInv, [Next]_vars PROVE OrderInv'  OBVIOUS
<1>1. BatchInv'  BY BatchStep DEF OrderInv
<1> QED  BY <1>1, OffsetsStep, AcceptedGrowStep DEF OrderInv

\* A client that waits for each answer has its events in a partition in its own
\* order, whatever other clients do and whatever the producer sends twice, late
\* or not at all.
THEOREM SequentialClientsInOrder == Spec => []SequentialInOrder
<1>1. Init => OrderInv  BY OrderInit
<1>2. OrderInv /\ [Next]_vars => OrderInv'  BY OrderStep
<1>3. OrderInv => SequentialInOrder  BY OrderImplies
<1> QED  BY <1>1, <1>2, <1>3, PTL DEF Spec

----------------------------------------------------------------------------
(* What takes effect.  Every event of the topic is some command's payload   *)
(* with the defaults filled in, and is on the partition of its key.         *)

Parsed(e) ==
  \E c \in Commands : \E i \in 1..Len(c.payloads) : \E n \in 1..MaxEvents : \E t \in Times :
    e = Parse(c.payloads[i], n, t)

RequestsParsed == \A r \in 1..Len(requests) : \A i \in 1..Len(requests[r]) : Parsed(requests[r][i])

TopicKeyed ==
  \A p \in Partitions : \A i \in 1..Len(topic[p]) : PartitionOf[topic_key(topic[p][i])] = p

EffectInv ==
  /\ BatchInv
  /\ RequestsParsed
  /\ TopicKeyed

LEMMA EffectInit == Init => EffectInv
<1> SUFFICES ASSUME Init PROVE EffectInv  OBVIOUS
<1>1. Len(requests) = 0 /\ \A p \in Partitions : Len(topic[p]) = 0
  BY EmptySeq DEF Init
<1> QED  BY <1>1, BatchInit DEF EffectInv, RequestsParsed, TopicKeyed

LEMMA RequestsParsedStep ==
  ASSUME TypeInv, RequestsParsed, [Next]_vars
  PROVE  RequestsParsed'
<1>1. CASE requests' = requests
  <2>1. ASSUME NEW r \in 1..Len(requests'), NEW i \in 1..Len(requests'[r])
        PROVE  Parsed(requests'[r][i])
    BY <1>1 DEF RequestsParsed
  <2> QED  BY <2>1 DEF RequestsParsed, Parsed
<1>2. ASSUME NEW h \in Handlers, NEW c \in Commands, Receive(h, c)
      PROVE  RequestsParsed'
  <2>1. PICK events \in Seq(Events) :
          /\ Len(events) = Len(c.payloads)
          /\ \A i \in 1..Len(events) : \E n \in 1..MaxEvents : \E t \in Times :
               events[i] = Parse(c.payloads[i], n, t)
          /\ requests' = Append(requests, events)
    BY <1>2, ReceivedEvents
  <2>2. ASSUME NEW i \in 1..Len(events) PROVE Parsed(events[i])
    BY <2>1 DEF Parsed
  <2>3. requests \in Seq(Seq(Events)) /\ Len(requests) \in Nat
    BY LenProperties DEF TypeInv
  <2>4. /\ Len(requests') = Len(requests) + 1
        /\ \A r \in 1..Len(requests) : requests'[r] = requests[r]
        /\ requests'[Len(requests) + 1] = events
    BY <2>1, <2>3, AppendProperties
  <2>5. ASSUME NEW r \in 1..Len(requests'), NEW i \in 1..Len(requests'[r])
        PROVE  Parsed(requests'[r][i])
    <3>1. r \in 1..Len(requests) \/ r = Len(requests) + 1  BY <2>3, <2>4
    <3> QED  BY <2>2, <2>4, <3>1 DEF RequestsParsed
  <2> QED  BY <2>5 DEF RequestsParsed, Parsed
<1>3. CASE UNCHANGED vars  BY <1>1, <1>3 DEF vars, history
<1>4. CASE Next
  <2>1. ASSUME NEW h \in Handlers, Fails(h) \/ Produce(h) \/ PublishReturns(h) \/ Accept(h)
        PROVE  requests' = requests
    BY <2>1, FailsFacts DEF Produce, PublishReturns, Accept, Answer, history
  <2>2. ASSUME NEW m \in queue, BrokerAppends(m) \/ Reported(m) PROVE requests' = requests
    BY <2>2, ReportedFacts DEF BrokerAppends, history
  <2>3. ASSUME Restart PROVE requests' = requests  BY <2>3 DEF Restart, history
  <2> QED  BY <1>1, <1>2, <1>4, <2>1, <2>2, <2>3, NextCases
<1> QED  BY <1>3, <1>4

LEMMA EffectStep == EffectInv /\ [Next]_vars => EffectInv'
<1> SUFFICES ASSUME EffectInv, [Next]_vars PROVE EffectInv'  OBVIOUS
<1>1. TypeInv /\ BatchInv'  BY BatchStep DEF EffectInv, BatchInv, PlaceInv
<1>2. RequestsParsed'  BY <1>1, RequestsParsedStep DEF EffectInv
<1>3. TopicKeyed'
  BY <1>1, TopicFromQueue DEF EffectInv, TopicKeyed
<1> QED  BY <1>1, <1>2, <1>3 DEF EffectInv

LEMMA TopicParsed ==
  ASSUME EffectInv, NEW p \in Partitions, NEW i \in 1..Len(topic[p])
  PROVE  /\ Parsed(topic[p][i])
         /\ PartitionOf[topic_key(topic[p][i])] = p
<1>1. Sourced(topic[p][i])  BY DEF EffectInv, BatchInv, TopicSourced
<1>2. \E r \in 1..Len(requests) : \E k \in 1..Len(requests[r]) : requests[r][k] = topic[p][i]
  BY <1>1 DEF Sourced
<1> QED  BY <1>2 DEF EffectInv, RequestsParsed, TopicKeyed

\* Parse fills in the id and the number and keeps everything else.
LEMMA ParseKeeps ==
  ASSUME NEW c \in Commands, NEW i \in 1..Len(c.payloads), NEW n \in 1..MaxEvents,
         NEW t \in Times
  PROVE  LET x == c.payloads[i]
             e == Parse(x, n, t)
         IN  /\ e \in WarehouseEvent
             /\ x.event_id # None => e.event_id = x.event_id
             /\ x.sequence_number # None => e.sequence_number = x.sequence_number
             /\ e.event_type = x.event_type /\ e.entity_key = x.entity_key
             /\ e.product_id = x.product_id /\ e.zone_id = x.zone_id
             /\ e.from_zone_id = x.from_zone_id /\ e.to_zone_id = x.to_zone_id
             /\ e.quantity = x.quantity /\ e.counted_quantity = x.counted_quantity
             /\ e.order_id = x.order_id /\ e.items = x.items
<1> DEFINE x == c.payloads[i]
           e == Parse(x, n, t)
<1>1. e \in WarehouseEvent
  BY CommandAssumption, EventsAssumption
<1>2. DOMAIN e = {"event_id", "event_type", "sequence_number", "entity_key", "product_id",
                  "zone_id", "from_zone_id", "to_zone_id", "quantity", "counted_quantity",
                  "order_id", "items"}
  BY <1>1 DEF WarehouseEvent
<1>3. DOMAIN x = DOMAIN e  BY DEF Parse
<1> HIDE DEF x
<1> QED  BY <1>1, <1>2, <1>3 DEF Parse, x

\* A place of the topic that holds payload x holds what Parse makes of it.
LEMMA CopyIsParsed ==
  ASSUME PayloadsApart, NEW c \in Commands, NEW i \in 1..Len(c.payloads),
         NEW e, Parsed(e), Alike(e, c.payloads[i])
  PROVE  \E n \in 1..MaxEvents : \E t \in Times : e = Parse(c.payloads[i], n, t)
<1>1. PICK d \in Commands : \E j \in 1..Len(d.payloads) : \E n \in 1..MaxEvents : \E t \in Times :
        e = Parse(d.payloads[j], n, t)
  BY DEF Parsed
<1>2. PICK j \in 1..Len(d.payloads) : \E n \in 1..MaxEvents : \E t \in Times : e = Parse(d.payloads[j], n, t)
  BY <1>1
<1>3. PICK n \in 1..MaxEvents : \E t \in Times : e = Parse(d.payloads[j], n, t)  BY <1>2
<1>4. PICK t \in Times : e = Parse(d.payloads[j], n, t)  BY <1>3
<1>5. j \in DOMAIN d.payloads /\ i \in DOMAIN c.payloads  BY CommandAssumption
<1> DEFINE x == c.payloads[i]
           y == d.payloads[j]
<1>6. [e EXCEPT !.event_id = x.event_id, !.sequence_number = x.sequence_number]
        = [y EXCEPT !.event_id = x.event_id, !.sequence_number = x.sequence_number]
  BY <1>4 DEF Parse
<1>7. Alike(y, x)  BY <1>6 DEF Alike
<1>8. y = x  BY <1>5, <1>7 DEF PayloadsApart
<1> QED  BY <1>8, <1>4

\* The consumer sees two copies of a payload alike: valid or not, and if so on
\* one partition and about one entity.
LEMMA CopiesAlike ==
  ASSUME NEW c \in Commands, NEW i \in 1..Len(c.payloads),
         NEW m \in 1..MaxEvents, NEW t \in Times, NEW n \in 1..MaxEvents, NEW u \in Times
  PROVE  LET x == c.payloads[i]
             e == Parse(x, m, t)
             f == Parse(x, n, u)
         IN  /\ validate_event(e) <=> validate_event(f)
             /\ x.event_id # None => e.event_id = f.event_id
             /\ x.sequence_number # None => e.sequence_number = f.sequence_number
             /\ validate_event(e) => /\ topic_key(e) = topic_key(f)
                                     /\ resolved_entity_key(e) = resolved_entity_key(f)
<1> DEFINE x == c.payloads[i]
           e == Parse(x, m, t)
           f == Parse(x, n, u)
<1>1. /\ e.event_type = x.event_type /\ e.entity_key = x.entity_key
      /\ e.product_id = x.product_id /\ e.zone_id = x.zone_id
      /\ e.from_zone_id = x.from_zone_id /\ e.to_zone_id = x.to_zone_id
      /\ e.quantity = x.quantity /\ e.counted_quantity = x.counted_quantity
      /\ e.order_id = x.order_id /\ e.items = x.items
      /\ f.event_type = x.event_type /\ f.entity_key = x.entity_key
      /\ f.product_id = x.product_id /\ f.zone_id = x.zone_id
      /\ f.from_zone_id = x.from_zone_id /\ f.to_zone_id = x.to_zone_id
      /\ f.quantity = x.quantity /\ f.counted_quantity = x.counted_quantity
      /\ f.order_id = x.order_id /\ f.items = x.items
      /\ e.event_type \in EventType
      /\ x.event_id # None => e.event_id = x.event_id /\ f.event_id = x.event_id
      /\ x.sequence_number # None =>
           e.sequence_number = x.sequence_number /\ f.sequence_number = x.sequence_number
  BY ParseKeeps DEF WarehouseEvent
<1> HIDE DEF x, e, f
<1>2. validate_event(e) <=> validate_event(f)
  BY <1>1 DEF validate_event, require_product_zone_quantity, require_move, require_count,
              require_order_items
<1>3. ASSUME validate_event(e)
      PROVE  e.product_id # None \/ e.order_id # None
  BY <1>1, <1>3 DEF validate_event, require_product_zone_quantity, require_move, require_count,
              require_order_items, require_field, EventType
<1>4. validate_event(e) => topic_key(e) = topic_key(f)
                           /\ resolved_entity_key(e) = resolved_entity_key(f)
  BY <1>1, <1>3 DEF topic_key, resolved_entity_key
<1> QED  BY <1>1, <1>2, <1>4 DEF x, e, f

\* Of two events of an entity on a partition with one id or one number, the
\* later one has no effect if the earlier one has.
LEMMA LaterIgnored ==
  ASSUME NEW p \in Partitions, NEW j \in 1..Len(topic[p]), NEW k \in 1..Len(topic[p]),
         TakesEffect(p, j), TakesEffect(p, k),
         resolved_entity_key(topic[p][j]) = resolved_entity_key(topic[p][k]),
         topic[p][j].sequence_number \in Int, topic[p][k].sequence_number \in Int,
         \/ topic[p][j].event_id = topic[p][k].event_id
         \/ topic[p][j].sequence_number = topic[p][k].sequence_number
  PROVE  ~(j < k)
<1> SUFFICES ASSUME j < k PROVE FALSE  OBVIOUS
<1>1. j \in 1..(k - 1)  OBVIOUS
<1>2. FirstOfId(p, j) /\ FirstOfId(p, k)  BY DEF TakesEffect
<1>3. topic[p][j].event_id # topic[p][k].event_id  BY <1>1, <1>2 DEF FirstOfId
<1>4. topic[p][j].sequence_number < topic[p][k].sequence_number
  BY <1>1, <1>2 DEF TakesEffect
<1> QED  BY <1>3, <1>4

\* Two places in effect that hold one payload are one place.
LEMMA OneEffect ==
  ASSUME EffectInv, PayloadsApart, NEW c \in Commands, NEW i \in 1..Len(c.payloads),
         c.payloads[i].event_id # None \/ c.payloads[i].sequence_number # None,
         NEW p \in Partitions, NEW j \in 1..Len(topic[p]),
         NEW q \in Partitions, NEW k \in 1..Len(topic[q]),
         Alike(topic[p][j], c.payloads[i]), TakesEffect(p, j),
         Alike(topic[q][k], c.payloads[i]), TakesEffect(q, k)
  PROVE  p = q /\ j = k
<1>1. PICK m \in 1..MaxEvents, t \in Times : topic[p][j] = Parse(c.payloads[i], m, t)
  BY TopicParsed, CopyIsParsed
<1>2. PICK n \in 1..MaxEvents, u \in Times : topic[q][k] = Parse(c.payloads[i], n, u)
  BY TopicParsed, CopyIsParsed
<1> DEFINE e == topic[p][j]
           f == topic[q][k]
<1>3. validate_event(e) /\ validate_event(f)  BY DEF TakesEffect, FirstOfId
<1>4. /\ topic_key(e) = topic_key(f) /\ resolved_entity_key(e) = resolved_entity_key(f)
      /\ e.event_id = f.event_id \/ e.sequence_number = f.sequence_number
  BY <1>1, <1>2, <1>3, CopiesAlike
<1>5. p = q  BY <1>4, TopicParsed
<1>6. e.sequence_number \in Int /\ f.sequence_number \in Int
  BY <1>1, <1>2, ParseKeeps DEF WarehouseEvent
<1>7. ~(j < k)  BY <1>4, <1>5, <1>6, LaterIgnored
<1>8. ~(k < j)
  <2>1. k \in 1..Len(topic[p]) /\ topic[p][k] = f /\ TakesEffect(p, k)  BY <1>5
  <2> QED  BY <1>4, <1>6, <2>1, LaterIgnored
<1> QED  BY <1>5, <1>7, <1>8

LEMMA AtMostOne ==
  ASSUME NEW S, \A x, y \in S : x = y
  PROVE  Cardinality(S) <= 1
<1>1. CASE S = {}  BY <1>1, FS_EmptySet
<1>2. ASSUME NEW x \in S PROVE Cardinality(S) <= 1
  <2>1. S = {x}  OBVIOUS
  <2> QED  BY <2>1, FS_Singleton
<1> QED  BY <1>1, <1>2

LEMMA EffectImplies == EffectInv /\ PayloadsApart => RepeatTakesEffectOnce
<1> SUFFICES ASSUME EffectInv, PayloadsApart, NEW c \in Commands, NEW i \in DOMAIN c.payloads,
                    c.payloads[i].event_id # None \/ c.payloads[i].sequence_number # None
             PROVE  Cardinality({pi \in Copies(c.payloads[i]) : TakesEffect(pi[1], pi[2])}) <= 1
  BY DEF RepeatTakesEffectOnce
<1> DEFINE S == {pi \in Copies(c.payloads[i]) : TakesEffect(pi[1], pi[2])}
<1>1. i \in 1..Len(c.payloads)  BY CommandAssumption
<1>2. \A x, y \in S : x = y
  <2> TAKE x, y \in S
  <2>1. PICK p \in Partitions : x \in {p} \X (1..Len(topic[p]))  BY DEF Copies
  <2>2. PICK q \in Partitions : y \in {q} \X (1..Len(topic[q]))  BY DEF Copies
  <2>3. PICK j \in 1..Len(topic[p]) : x = <<p, j>>  BY <2>1
  <2>4. PICK k \in 1..Len(topic[q]) : y = <<q, k>>  BY <2>2
  <2>5. /\ Alike(topic[p][j], c.payloads[i]) /\ TakesEffect(p, j)
        /\ Alike(topic[q][k], c.payloads[i]) /\ TakesEffect(q, k)
    BY <2>3, <2>4 DEF Copies
  <2> QED  BY <1>1, <2>3, <2>4, <2>5, OneEffect
<1> HIDE DEF S
<1> QED  BY <1>2, AtMostOne DEF S

\* Where payloads that say different things differ, a payload with an id or a
\* number of its own takes effect at most once, however often its command is
\* sent, answered with an error, or appended twice by the Kafka producer.
THEOREM RepeatsTakeEffectOnce == PayloadsApart /\ Spec => []RepeatTakesEffectOnce
<1>1. Init => EffectInv  BY EffectInit
<1>2. EffectInv /\ [Next]_vars => EffectInv'  BY EffectStep
<1>3. PayloadsApart /\ EffectInv => RepeatTakesEffectOnce  BY EffectImplies
<1> SUFFICES ASSUME PayloadsApart PROVE Spec => []RepeatTakesEffectOnce  OBVIOUS
<1>4. EffectInv => RepeatTakesEffectOnce  BY <1>3
<1> QED  BY <1>1, <1>2, <1>4, PTL DEF Spec
=============================================================================
