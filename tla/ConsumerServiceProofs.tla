----------------------- MODULE ConsumerServiceProofs -----------------------
(***************************************************************************)
(* Theorems about ConsumerService for every set of events, partitions and  *)
(* kinds of failure, and any bounds.                                       *)
(***************************************************************************)
EXTENDS ConsumerService, AccountsProofs

----------------------------------------------------------------------------
(* The service is a user of the processor. *)

\* Whatever the loop does is a step of EventProcessor or leaves it alone.
LEMMA ServiceStepIsStep == [ServiceNext]_all_vars => [Next]_vars
<1> SUFFICES ASSUME [ServiceNext]_all_vars PROVE [Next]_vars
  OBVIOUS
<1>0. Consumer \in Consumers  BY ConsumerAssumption
<1>1. CASE \E p \in Partitions : PollEvent(p)
  <2> PICK p \in Partitions : PollEvent(p)  BY <1>1
  <2>1. \E e \in Events : ReceiveEvent(Consumer, e)  BY DEF PollEvent
  <2> QED  BY <1>0, <2>1 DEF Next
<1>2. CASE ProcessStep
  <2>1. Process(Consumer) \/ DatabaseFailure(Consumer)
    BY <1>2 DEF ProcessStep, DatabaseFailure
  <2> QED  BY <1>0, <2>1 DEF Next
<1>3. CASE ProcessReturns
  <2>1. Return(Consumer)  BY <1>3 DEF ProcessReturns
  <2> QED  BY <1>0, <2>1 DEF Next
<1>4. CASE ServiceCrash \/ Exit
  <2>1. Crash(Consumer) \/ UNCHANGED vars  BY <1>4 DEF ServiceCrash, Exit, ProcessEnds
  <2> QED  BY <1>0, <2>1 DEF Next
<1>5. CASE UNCHANGED vars  BY <1>5
<1>6. \/ \E p \in Partitions : PollEvent(p)
      \/ ProcessStep \/ ProcessReturns \/ ServiceCrash \/ Exit
      \/ UNCHANGED vars
  BY DEF ServiceNext, Consume, Stop, Publish, Start, PollNothing, PollError,
         PollUndeserializable, Commit, CommitFails, PublishDlq, PublishDlqFails,
         PublishDlqTimesOut, OutboxDelivers, OutboxExpires, UpdateLag, UpdateLagFails,
         RequestStop, CloseConsumer, CloseDlq, all_vars
<1> QED  BY <1>1, <1>2, <1>3, <1>4, <1>5, <1>6

\* The loop calls process() as EventProcessor allows, so that every theorem of
\* EventProcessor holds of the service: it refines ProcessorSpec.
THEOREM ServiceRunsProcessor == ServiceSpec => ProcessorSpec
<1>1. ServiceInit => Init  BY DEF ServiceInit
<1> QED  BY <1>1, ServiceStepIsStep, PTL DEF ServiceSpec, Spec, ProcessorSpec

LEMMA OneConsumer == SingleConsumer
BY ConsumerAssumption DEF SingleConsumer

\* The denormalised tables agree whatever the consumer loop, the broker, the
\* dead letter topic and the database do: TablesAgree of EventProcessor.
THEOREM ServiceTablesAgree == ServiceSpec => []TablesAgree
<1> QED  BY OneConsumer, ServiceRunsProcessor, TablesAlwaysAgree, PTL DEF ProcessorSpec

\* The service implements the warehouse ledger: whatever is lost, delivered
\* again or dead-lettered, every batch has exactly the effect the ledger
\* promises of its event.
THEOREM ServiceImplementsLedger == ServiceSpec => LedgerSpec
<1> QED  BY OneConsumer, ServiceRunsProcessor, ProcessorImplementsLedger, PTL DEF ProcessorSpec

\* The service neither makes nor loses a unit of stock by moving, reserving,
\* releasing or ordering it: ConservesStock of EventProcessor.
THEOREM ServiceConservesStock == ServiceSpec => ConservesStock
<1> QED  BY OneConsumer, ServiceRunsProcessor, StockConserved, PTL DEF ProcessorSpec

\* What was lost on the way, delivered again or dead-lettered leaves no trace
\* in the stock: it is an account of what the history says was applied, and
\* an open order can be completed unless its reserve was released.
THEOREM ServiceStockIsAccounted ==
  ServiceSpec => [](ReservationsAccounted /\ StockAccounted /\ OrdersCompletable)
<1> QED
  BY OneConsumer, ServiceRunsProcessor, ReservationsAreAccounted, StockIsAccounted,
     OrdersAreCompletable, PTL DEF ProcessorSpec

----------------------------------------------------------------------------
(* Type correctness of the service. *)

Holding == {"processing", "commit", "dlq", "dlq_commit"}

\* What handle_message knows of its message.
LoopOK ==
  /\ loop.pc \in Holding => loop.partition \in Partitions
  /\ loop.pc = "dlq" => loop.code \in Raised

ServiceTypeInv == RecordInv /\ ServiceTypeOK /\ LoopOK

LEMMA ServiceTypeInit == ServiceInit => ServiceTypeInv
<1> SUFFICES ASSUME ServiceInit PROVE ServiceTypeInv  OBVIOUS
<1>1. RecordInv  BY RecordInit DEF ServiceInit
<1>2. At("down") \in Loop /\ At("down").pc = "down"
  BY DEF At, Loop, Optional
<1>3. task[Consumer].pc = "idle"
  BY ConsumerAssumption DEF ServiceInit, Init, IdleTask
<1>4. ServiceTypeOK
  BY <1>2, <1>3, FaultsAssumption DEF ServiceInit, ServiceTypeOK
<1>5. LoopOK  BY <1>2 DEF ServiceInit, LoopOK, Holding
<1> QED  BY <1>1, <1>4, <1>5 DEF ServiceTypeInv

LEMMA RecordInvStep ==
  ASSUME RecordInv, [ServiceNext]_all_vars
  PROVE  RecordInv'
BY RecordStep, OneConsumer, ServiceStepIsStep

LEMMA FaultBound ==
  ASSUME faults \in 0..MaxFaults, NEW k, Fault(k)
  PROVE  faults' \in 0..MaxFaults /\ (failed \subseteq Faults => failed' \subseteq Faults)
BY FaultsAssumption DEF Fault

\* The thread between two messages.
Idle == {"down", "poll", "lag", "ended"}

\* The fields of the loop when it holds no message.
LEMMA AtType ==
  ASSUME NEW pc \in Idle
  PROVE  At(pc) \in Loop /\ At(pc).pc = pc
BY DEF At, Loop, Optional, Idle

LEMMA LoopHeadType == LoopHead \in Loop /\ LoopHead.pc \in {"poll", "ended"}
BY AtType DEF LoopHead, Idle

\* A message is polled from the next offset of a partition.
LEMMA PolledType ==
  ASSUME ServiceTypeOK, NEW p \in Partitions, PollNext(p)
  PROVE  /\ position[p] \in Nat /\ position[p] < Len(log[p])
         /\ log[p] \in Seq(Message)
         /\ MessageAt(p, position[p]) \in Message
         /\ position' \in [Partitions -> Nat]
         /\ position'[p] = position[p] + 1
         /\ \A q \in Partitions \ {p} : position'[q] = position[q]
<1>1. /\ position \in [Partitions -> Nat] /\ log[p] \in Seq(Message)
      /\ position[p] < Len(log[p])
  BY DEF ServiceTypeOK, PollNext
<1>2. position[p] + 1 \in 1..Len(log[p])  BY <1>1
<1> QED  BY <1>1, <1>2 DEF PollNext, MessageAt

LEMMA PollType ==
  ASSUME ServiceTypeInv, NEW p \in Partitions, PollEvent(p) \/ PollUndeserializable(p)
  PROVE  ServiceTypeOK' /\ LoopOK'
<1>0. ServiceTypeOK /\ task \in [Consumers -> Task] /\ Consumer \in Consumers
  BY ConsumerAssumption DEF ServiceTypeInv, RecordInv, TypeInv, TypeOK
<1>1. PollNext(p)  BY DEF PollEvent, PollUndeserializable
<1>2. CASE PollEvent(p)
  <2> DEFINE m == MessageAt(p, position[p])
  <2>1. loop' = [pc |-> "processing", partition |-> p, offset |-> position[p],
                 event |-> m, code |-> None]
    BY <1>2 DEF PollEvent, At
  <2>2. loop' \in Loop /\ loop'.pc = "processing" /\ loop'.partition = p
    <3>1. m \in Events  BY <1>2 DEF PollEvent
    <3>2. position[p] \in Nat  BY <1>0, <1>1, PolledType
    <3> HIDE DEF m
    <3> QED  BY <2>1, <3>1, <3>2 DEF Loop, Optional
  <2>3. task'[Consumer].pc = "is_processed"
    BY <1>0, <1>2 DEF PollEvent, ReceiveEvent, IdleTask
  <2>4. UNCHANGED <<log, committed, dlq, outbox, stop, gauge, faults, failed>>
    BY <1>2 DEF PollEvent, kafka, control, failures
  <2> QED
    BY <1>0, <1>1, <2>2, <2>3, <2>4, PolledType DEF ServiceTypeOK, LoopOK
<1>3. CASE PollUndeserializable(p)
  <2>1. loop' = [pc |-> "dlq", partition |-> p, offset |-> position[p],
                 event |-> None, code |-> "PROCESSING_ERROR"]
    BY <1>3 DEF PollUndeserializable, At
  <2>2. loop' \in Loop /\ loop'.pc = "dlq" /\ loop'.partition = p /\ loop'.code \in Raised
    BY <1>0, <1>1, <2>1, PolledType DEF Loop, Optional, Raised
  <2>3. UNCHANGED <<log, committed, dlq, outbox, stop, gauge, task>>
    BY <1>3 DEF PollUndeserializable, kafka, control, vars
  <2>4. faults' \in 0..MaxFaults /\ failed' \subseteq Faults
    BY <1>0, <1>3, FaultBound DEF PollUndeserializable, failures, ServiceTypeOK
  <2>5. task[Consumer].pc = "idle"
    BY <1>0, <1>1 DEF PollNext, ServiceTypeOK
  <2> QED
    BY <1>0, <1>1, <2>2, <2>3, <2>4, <2>5, PolledType DEF ServiceTypeOK, LoopOK
<1> QED  BY <1>2, <1>3

\* A step inside process() leaves the call open.
LEMMA ProcessingType ==
  ASSUME ServiceTypeInv, ProcessStep
  PROVE  ServiceTypeOK' /\ LoopOK'
<1>0. ServiceTypeOK /\ RecordInv /\ task \in [Consumers -> Task] /\ Consumer \in Consumers
  BY ConsumerAssumption DEF ServiceTypeInv, RecordInv, TypeInv, TypeOK
<1>1. /\ UNCHANGED <<log, committed, dlq, position, loop, stop, gauge, outbox>>
      /\ loop.pc = "processing"
  BY DEF ProcessStep, kafka, control
<1>2. faults' \in 0..MaxFaults /\ failed' \subseteq Faults
  BY <1>0, FaultBound DEF ProcessStep, failures, ServiceTypeOK
<1>3. task'[Consumer].pc # "idle"
  BY <1>0, CallGoesOn DEF ProcessStep, DatabaseFailure, RecordInv
<1> QED  BY <1>0, <1>1, <1>2, <1>3 DEF ServiceTypeInv, ServiceTypeOK, LoopOK

LEMMA ReturnsType ==
  ASSUME ServiceTypeInv, ProcessReturns
  PROVE  ServiceTypeOK' /\ LoopOK'
<1> DEFINE status == task[Consumer].status
<1>0. /\ ServiceTypeOK /\ LoopOK /\ task \in [Consumers -> Task]
      /\ Consumer \in Consumers /\ CallInv(task[Consumer])
  BY ConsumerAssumption DEF ServiceTypeInv, RecordInv, TypeInv, TypeOK
<1>1. /\ UNCHANGED <<log, committed, dlq, position, outbox, stop, gauge, faults, failed>>
      /\ loop.pc = "processing" /\ loop \in Loop /\ loop.partition \in Partitions
  BY <1>0 DEF ProcessReturns, kafka, control, failures, ServiceTypeOK, LoopOK, Holding
<1>2. task'[Consumer].pc = "idle"
  BY <1>0 DEF ProcessReturns, Return, IdleTask
<1>3. status \in Returned \cup Raised
  BY <1>0 DEF ProcessReturns, Return, CallInv, ResultHolds
<1>4. \/ loop' = [loop EXCEPT !.pc = "commit"]
      \/ status \in Raised /\ loop' = [loop EXCEPT !.pc = "dlq", !.code = status]
  BY <1>3 DEF ProcessReturns
<1> HIDE DEF status
<1>5. /\ loop' \in Loop /\ loop'.partition = loop.partition
      /\ \/ loop'.pc = "commit"
         \/ loop'.pc = "dlq" /\ loop'.code \in Raised
  BY <1>1, <1>4 DEF Loop, Optional
<1> QED  BY <1>0, <1>1, <1>2, <1>5 DEF ServiceTypeOK, LoopOK

\* The actions outside process(): the loop moves, and task stays.
LEMMA LoopType ==
  ASSUME ServiceTypeInv, UNCHANGED vars,
         loop' \in Loop, loop.pc # "processing", loop'.pc # "processing",
         LoopOK', faults' \in 0..MaxFaults, failed' \subseteq Faults,
         stop' \in {"no", "requested", "closed", "shutdown"}, gauge' \in [Partitions -> Int],
         log' \in [Partitions -> Seq(Message)],
         committed' \in [Partitions -> Nat], position' \in [Partitions -> Nat],
         dlq' \subseteq DlqRecord, outbox' \subseteq DlqRecord
  PROVE  ServiceTypeOK'
BY DEF ServiceTypeInv, ServiceTypeOK, vars

\* An offset is committed for the partition of the message.
LEMMA StoreCommitType ==
  ASSUME ServiceTypeInv, loop.pc \in Holding, StoreCommit
  PROVE  committed' \in [Partitions -> Nat]
BY DEF ServiceTypeInv, ServiceTypeOK, LoopOK, StoreCommit, Loop

LEMMA CommitType ==
  ASSUME ServiceTypeInv, Commit \/ CommitFails
  PROVE  ServiceTypeOK' /\ LoopOK'
<1>0. /\ ServiceTypeOK /\ LoopOK /\ loop \in Loop
      /\ loop.pc \in {"commit", "dlq_commit"} /\ loop.partition \in Partitions
      /\ UNCHANGED <<vars, log, position, stop, gauge, dlq, outbox>>
  BY DEF ServiceTypeInv, ServiceTypeOK, LoopOK, Holding, Commit, CommitFails, control
<1>1. committed' \in [Partitions -> Nat]
  BY <1>0, StoreCommitType DEF Commit, CommitFails, ServiceTypeOK, Holding
<1>2. faults' \in 0..MaxFaults /\ failed' \subseteq Faults
  BY <1>0, FaultBound DEF Commit, CommitFails, failures, ServiceTypeOK
<1>3. \/ loop' \in {At("lag"), LoopHead}
      \/ loop' = [loop EXCEPT !.pc = "dlq", !.code = "PROCESSING_ERROR"]
  BY DEF Commit, CommitFails
<1>4. loop' \in Loop /\ loop'.pc # "processing" /\ LoopOK'
  <2>1. CASE loop' \in {At("lag"), LoopHead}
    BY <2>1, AtType, LoopHeadType DEF LoopOK, Holding, Idle
  <2>2. CASE loop' = [loop EXCEPT !.pc = "dlq", !.code = "PROCESSING_ERROR"]
    <3>1. /\ loop' \in Loop /\ loop'.pc = "dlq" /\ loop'.code \in Raised
          /\ loop'.partition = loop.partition
      BY <1>0, <2>2 DEF Loop, Optional, Raised
    <3> QED  BY <1>0, <3>1 DEF LoopOK
  <2> QED  BY <1>3, <2>1, <2>2
<1> QED  BY <1>0, <1>1, <1>2, <1>4, LoopType DEF ServiceTypeOK

LEMMA RecordType ==
  ASSUME ServiceTypeInv, loop.pc = "dlq"
  PROVE  Record \in DlqRecord
BY DEF ServiceTypeInv, ServiceTypeOK, LoopOK, Holding, Loop, Record, DlqRecord

LEMMA DlqType ==
  ASSUME ServiceTypeInv, PublishDlq \/ PublishDlqFails \/ PublishDlqTimesOut
  PROVE  ServiceTypeOK' /\ LoopOK'
<1>0. /\ ServiceTypeOK /\ LoopOK /\ loop \in Loop
      /\ loop.pc = "dlq" /\ loop.partition \in Partitions
      /\ UNCHANGED <<vars, log, position, committed, stop, gauge>>
  BY DEF ServiceTypeInv, ServiceTypeOK, LoopOK, Holding, PublishDlq, PublishDlqFails,
     PublishDlqTimesOut, kafka, control
<1>1. dlq' \subseteq DlqRecord /\ outbox' \subseteq DlqRecord
  BY <1>0, RecordType DEF PublishDlq, PublishDlqFails, PublishDlqTimesOut, kafka, ServiceTypeOK
<1>2. faults' \in 0..MaxFaults /\ failed' \subseteq Faults
  BY <1>0, FaultBound DEF PublishDlq, PublishDlqFails, PublishDlqTimesOut, failures, ServiceTypeOK
<1>3. loop' = LoopHead \/ loop' = [loop EXCEPT !.pc = "dlq_commit"]
  BY DEF PublishDlq, PublishDlqFails, PublishDlqTimesOut
<1>4. loop' \in Loop /\ loop'.pc # "processing" /\ LoopOK'
  <2>1. CASE loop' = LoopHead
    BY <2>1, LoopHeadType DEF LoopOK, Holding
  <2>2. CASE loop' = [loop EXCEPT !.pc = "dlq_commit"]
    <3>1. /\ loop' \in Loop /\ loop'.pc = "dlq_commit" /\ loop'.partition = loop.partition
      BY <1>0, <2>2 DEF Loop
    <3> QED  BY <1>0, <3>1 DEF LoopOK
  <2> QED  BY <1>3, <2>1, <2>2
<1> QED  BY <1>0, <1>1, <1>2, <1>4, LoopType DEF ServiceTypeOK

LEMMA StartType ==
  ASSUME ServiceTypeInv, Start
  PROVE  ServiceTypeOK' /\ LoopOK'
<1>0. /\ ServiceTypeOK /\ UNCHANGED <<vars, log, committed, dlq, stop, gauge, outbox, faults, failed>>
      /\ loop.pc = "down" /\ position' = committed
  BY DEF ServiceTypeInv, Start, kafka, control, failures
<1>1. loop' \in Loop /\ loop'.pc = "poll"
  BY AtType DEF Start, Idle
<1> QED  BY <1>0, <1>1 DEF ServiceTypeOK, LoopOK, Holding, vars

\* The process ends, by a crash or at the end of a shutdown.
LEMMA EndType ==
  ASSUME ServiceTypeInv, ServiceCrash \/ Exit
  PROVE  ServiceTypeOK' /\ LoopOK'
<1>0. /\ ServiceTypeOK /\ task \in [Consumers -> Task] /\ Consumer \in Consumers
      /\ ProcessEnds /\ UNCHANGED <<log, committed, dlq, position>>
  BY ConsumerAssumption
  DEF ServiceTypeInv, RecordInv, TypeInv, TypeOK, ServiceCrash, Exit, ProcessEnds, kafka
<1>1. loop' \in Loop /\ loop'.pc = "down"
  BY <1>0, AtType DEF ProcessEnds, Idle
<1>2. outbox' \subseteq DlqRecord /\ stop' = "no" /\ gauge' \in [Partitions -> Int]
  BY <1>0 DEF ProcessEnds
<1>3. faults' \in 0..MaxFaults /\ failed' \subseteq Faults
  BY <1>0, FaultBound DEF ServiceCrash, Exit, failures, ServiceTypeOK
<1>4. task'[Consumer].pc = "idle"
  BY <1>0 DEF ProcessEnds, Crash, IdleTask, ServiceTypeOK, vars
<1> QED  BY <1>0, <1>1, <1>2, <1>3, <1>4 DEF ServiceTypeOK, LoopOK, Holding

\* The lag of a partition is a number.
LEMMA LagType ==
  ASSUME ServiceTypeOK, NEW p \in Partitions
  PROVE  Lag(p) \in Int
<1>1. log[p] \in Seq(Message) /\ committed[p] \in Nat  BY DEF ServiceTypeOK
<1> QED  BY <1>1, LenProperties DEF Lag

\* The loop between two messages.
LEMMA BetweenType ==
  ASSUME ServiceTypeInv, PollNothing \/ PollError \/ UpdateLag \/ UpdateLagFails
  PROVE  ServiceTypeOK' /\ LoopOK'
<1>0. /\ ServiceTypeOK /\ loop.pc \in {"poll", "lag"}
      /\ UNCHANGED <<vars, log, committed, position, dlq, stop, outbox>>
  BY DEF ServiceTypeInv, PollNothing, PollError, UpdateLag, UpdateLagFails, kafka, control
<1>1. loop' \in Loop /\ loop'.pc \in Idle
  BY AtType, LoopHeadType DEF PollNothing, PollError, UpdateLag, UpdateLagFails, Idle
<1>2. gauge' \in [Partitions -> Int]
  BY <1>0, LagType DEF PollNothing, PollError, UpdateLag, UpdateLagFails, control, ServiceTypeOK
<1>3. faults' \in 0..MaxFaults /\ failed' \subseteq Faults
  BY <1>0, FaultBound
  DEF PollNothing, PollError, UpdateLag, UpdateLagFails, failures, ServiceTypeOK
<1>4. LoopOK' /\ loop'.pc # "processing"
  BY <1>1 DEF LoopOK, Holding, Idle
<1> QED  BY <1>0, <1>1, <1>2, <1>3, <1>4, LoopType DEF ServiceTypeOK

LEMMA StopType ==
  ASSUME ServiceTypeInv, RequestStop \/ CloseConsumer \/ CloseDlq
  PROVE  ServiceTypeOK' /\ LoopOK'
<1>0. /\ ServiceTypeOK /\ LoopOK
      /\ UNCHANGED <<vars, log, committed, position, loop, gauge>>
  BY DEF ServiceTypeInv, RequestStop, CloseConsumer, CloseDlq, kafka
<1>1. stop' \in {"no", "requested", "closed", "shutdown"}
  BY DEF RequestStop, CloseConsumer, CloseDlq
<1>2. faults' \in 0..MaxFaults /\ failed' \subseteq Faults
  BY <1>0, FaultBound DEF RequestStop, CloseConsumer, CloseDlq, failures, ServiceTypeOK
<1>3. dlq' \subseteq DlqRecord /\ outbox' \subseteq DlqRecord
  BY <1>0 DEF RequestStop, CloseConsumer, CloseDlq, kafka, ServiceTypeOK
<1> QED  BY <1>0, <1>1, <1>2, <1>3 DEF ServiceTypeOK, LoopOK, vars

LEMMA BrokerType ==
  ASSUME ServiceTypeInv,
         \/ \E m \in Message, p \in Partitions : Publish(m, p)
         \/ \E r \in outbox : OutboxDelivers(r) \/ OutboxExpires(r)
  PROVE  ServiceTypeOK' /\ LoopOK'
<1>0. /\ ServiceTypeOK /\ LoopOK
      /\ UNCHANGED <<vars, committed, position, loop, stop, gauge, faults, failed>>
  BY DEF ServiceTypeInv, Publish, OutboxDelivers, OutboxExpires, kafka, control, failures
<1>1. log' \in [Partitions -> Seq(Message)]
  <2>1. ASSUME NEW m \in Message, NEW p \in Partitions, Publish(m, p)
        PROVE  log' \in [Partitions -> Seq(Message)]
    <3>1. log \in [Partitions -> Seq(Message)]  BY <1>0 DEF ServiceTypeOK
    <3>2. log' = [log EXCEPT ![p] = Append(log[p], m)]  BY <2>1 DEF Publish
    <3>3. Append(log[p], m) \in Seq(Message)  BY <3>1, AppendProperties
    <3> QED  BY <3>1, <3>2, <3>3
  <2>2. UNCHANGED log \/ \E m \in Message, p \in Partitions : Publish(m, p)
    BY DEF OutboxDelivers, OutboxExpires, kafka
  <2> QED  BY <1>0, <2>1, <2>2 DEF ServiceTypeOK
<1>2. dlq' \subseteq DlqRecord /\ outbox' \subseteq DlqRecord
  BY <1>0 DEF ServiceTypeOK, Publish, OutboxDelivers, OutboxExpires, kafka
<1> QED  BY <1>0, <1>1, <1>2 DEF ServiceTypeOK, LoopOK, vars

LEMMA ServiceTypeStep ==
  ASSUME ServiceTypeInv, [ServiceNext]_all_vars
  PROVE  ServiceTypeInv'
<1>1. RecordInv'  BY RecordInvStep DEF ServiceTypeInv
<1>2. CASE UNCHANGED all_vars
  BY <1>1, <1>2
  DEF all_vars, service_vars, control, failures, vars, ServiceTypeInv, ServiceTypeOK, LoopOK
<1>3. CASE ServiceNext
  <2>1. ServiceTypeOK' /\ LoopOK'
    BY <1>3, PollType, ProcessingType, ReturnsType, CommitType, DlqType, StartType, EndType,
       BetweenType, StopType, BrokerType DEF ServiceNext, Consume, Stop
  <2> QED  BY <1>1, <2>1 DEF ServiceTypeInv
<1> QED  BY <1>2, <1>3

\* The service's state keeps its types under every failure: the thread is
\* inside process() exactly when the processor has a call, and every dead
\* letter has a code.
THEOREM ServiceTypeCorrect == ServiceSpec => []ServiceTypeOK
<1>1. ServiceTypeInv /\ [ServiceNext]_all_vars => ServiceTypeInv'  BY ServiceTypeStep
<1>2. ServiceTypeInv => ServiceTypeOK  BY DEF ServiceTypeInv
<1> QED  BY <1>1, <1>2, ServiceTypeInit, PTL DEF ServiceSpec

----------------------------------------------------------------------------
(* At-least-once delivery, while dead letters get through.                 *)

\* The message in hand is the last one polled from its partition.
MessageInHand ==
  /\ loop.pc \in Holding => position[loop.partition] = loop.offset + 1
  /\ loop.pc = "processing" =>
       /\ loop.event \in Events
       /\ loop.event = MessageAt(loop.partition, loop.offset)
       /\ loop.event = task[Consumer].event

WithinLog ==
  \A p \in Partitions : position[p] <= Len(log[p]) /\ committed[p] <= Len(log[p])

\* The only message polled and not handled is the one in hand.
Pending(p, o) == loop.pc \in {"processing", "dlq"} /\ p = loop.partition /\ o = loop.offset

PolledHandled ==
  loop.pc # "down" =>
    \A p \in Partitions : \A o \in 0..(position[p] - 1) : Handled(p, o) \/ Pending(p, o)

DeliveryInv ==
  /\ ServiceTypeInv
  /\ MessageInHand
  /\ WithinLog
  /\ PolledHandled
  /\ NothingLost

LEMMA DeliveryInit == ServiceInit => DeliveryInv
<1> SUFFICES ASSUME ServiceInit PROVE DeliveryInv  OBVIOUS
<1>1. loop.pc = "down" /\ \A p \in Partitions : position[p] = 0 /\ committed[p] = 0 /\ log[p] = <<>>
  BY DEF ServiceInit, At
<1>2. MessageInHand /\ WithinLog /\ PolledHandled
  BY <1>1 DEF MessageInHand, WithinLog, PolledHandled, Holding
<1>3. NothingLost
  BY <1>1 DEF NothingLost
<1> QED  BY <1>2, <1>3, ServiceTypeInit DEF DeliveryInv

\* The topics only grow.
LEMMA TopicsGrow ==
  ASSUME ServiceTypeOK, [ServiceNext]_all_vars, NEW p \in Partitions
  PROVE  /\ Len(log'[p]) \in Nat /\ Len(log'[p]) >= Len(log[p])
         /\ \A i \in 1..Len(log[p]) : log'[p][i] = log[p][i]
         /\ dlq \subseteq dlq'
<1>1. log \in [Partitions -> Seq(Message)]  BY DEF ServiceTypeOK
<1>2. dlq \subseteq dlq'
  BY DEF ServiceNext, Consume, Stop, Publish, Start, PollNothing, PollError, PollEvent,
     PollUndeserializable, ProcessStep, ProcessReturns, Commit, CommitFails, PublishDlq,
     PublishDlqFails, PublishDlqTimesOut, OutboxDelivers, OutboxExpires, UpdateLag,
     UpdateLagFails, ServiceCrash, RequestStop, CloseConsumer, CloseDlq, Exit, ProcessEnds, kafka,
     all_vars, service_vars
<1>3. ASSUME NEW m \in Message, NEW q \in Partitions, Publish(m, q)
      PROVE  /\ Len(log'[p]) \in Nat /\ Len(log'[p]) >= Len(log[p])
             /\ \A i \in 1..Len(log[p]) : log'[p][i] = log[p][i]
  <2>1. log' = [log EXCEPT ![q] = Append(log[q], m)]  BY <1>3 DEF Publish
  <2>2. /\ Len(Append(log[p], m)) = Len(log[p]) + 1
        /\ \A i \in 1..Len(log[p]) : Append(log[p], m)[i] = log[p][i]
    BY <1>1, AppendProperties
  <2>3. log'[p] = log[p] \/ log'[p] = Append(log[p], m)
    BY <1>1, <2>1
  <2>4. Len(log[p]) \in Nat  BY <1>1, LenProperties
  <2> QED  BY <2>2, <2>3, <2>4
<1>4. UNCHANGED log \/ \E m \in Message, q \in Partitions : Publish(m, q)
  BY DEF ServiceNext, Consume, Stop, Start, PollNothing, PollError, PollEvent,
     PollUndeserializable, ProcessStep, ProcessReturns, Commit, CommitFails, PublishDlq,
     PublishDlqFails, PublishDlqTimesOut, OutboxDelivers, OutboxExpires, UpdateLag,
     UpdateLagFails, ServiceCrash, RequestStop, CloseConsumer, CloseDlq, Exit, ProcessEnds, kafka,
     all_vars, service_vars
<1>5. Len(log[p]) \in Nat  BY <1>1, LenProperties
<1> QED  BY <1>2, <1>3, <1>4, <1>5

\* A message keeps its outcome.
LEMMA HandledStays ==
  ASSUME ServiceTypeInv, [ServiceNext]_all_vars, NEW p \in Partitions, NEW o \in Nat,
         o < Len(log[p]), Handled(p, o)
  PROVE  Handled(p, o)'
<1>0. log[p] \in Seq(Message) /\ Len(log[p]) \in Nat
  BY LenProperties DEF ServiceTypeInv, ServiceTypeOK
<1>1. MessageAt(p, o)' = MessageAt(p, o)
  <2>1. o + 1 \in 1..Len(log[p])  BY <1>0
  <2> QED  BY <2>1, TopicsGrow DEF ServiceTypeInv, MessageAt
<1>2. CASE MessageAt(p, o) \in Events /\ processed_events[MessageAt(p, o).event_id] # None
  <2>1. MessageAt(p, o).event_id \in EventIds
    BY <1>2, EventsAssumption DEF WarehouseEvent
  <2>2. processed_events'[MessageAt(p, o).event_id] # None
    BY <1>2, <2>1, RecordsStay, ServiceStepIsStep DEF ServiceTypeInv, RecordInv
  <2> QED  BY <1>1, <1>2, <2>2 DEF Handled
<1>3. CASE \E r \in dlq : r.partition = p /\ r.offset = o
  <2>1. dlq \subseteq dlq'  BY TopicsGrow DEF ServiceTypeInv
  <2> QED  BY <1>3, <2>1 DEF Handled
<1> QED  BY <1>2, <1>3 DEF Handled

\* Offsets that have been polled or committed are in the log.
LEMMA OffsetsInLog ==
  ASSUME DeliveryInv, NEW p \in Partitions
  PROVE  /\ position[p] \in Nat /\ committed[p] \in Nat /\ Len(log[p]) \in Nat
         /\ position[p] <= Len(log[p]) /\ committed[p] <= Len(log[p])
<1>1. log[p] \in Seq(Message) /\ position[p] \in Nat /\ committed[p] \in Nat
  BY DEF DeliveryInv, ServiceTypeInv, ServiceTypeOK
<1> QED  BY <1>1, LenProperties DEF DeliveryInv, WithinLog

LEMMA WithinLogStays ==
  ASSUME DeliveryInv, [ServiceNext]_all_vars, NEW p \in Partitions, NEW n \in Nat,
         n <= Len(log[p])
  PROVE  n <= Len(log'[p])
<1>1. ServiceTypeOK  BY DEF DeliveryInv, ServiceTypeInv
<1>2. Len(log[p]) \in Nat  BY OffsetsInLog
<1> QED  BY <1>1, <1>2, TopicsGrow

\* What has been polled and handled stays handled, over any step.
LEMMA PolledStays ==
  ASSUME DeliveryInv, [ServiceNext]_all_vars, loop.pc # "down",
         NEW p \in Partitions, NEW o \in 0..(position[p] - 1), ~Pending(p, o)
  PROVE  Handled(p, o)'
<1>1. Handled(p, o)  BY DEF DeliveryInv, PolledHandled
<1>2. o \in Nat /\ o < Len(log[p])  BY OffsetsInLog
<1> QED  BY <1>1, <1>2, HandledStays DEF DeliveryInv

\* While nothing is committed, what is committed stays handled.
LEMMA CommittedStays ==
  ASSUME DeliveryInv, [ServiceNext]_all_vars, UNCHANGED committed
  PROVE  /\ NothingLost'
         /\ \A p \in Partitions : committed'[p] <= Len(log'[p])
<1>1. ASSUME NEW p \in Partitions, NEW o \in 0..(committed[p] - 1)
      PROVE  Handled(p, o)'
  <2>1. Handled(p, o)  BY DEF DeliveryInv, NothingLost
  <2>2. o \in Nat /\ o < Len(log[p])  BY OffsetsInLog
  <2> QED  BY <2>1, <2>2, HandledStays DEF DeliveryInv
<1>2. NothingLost'
  BY <1>1 DEF NothingLost
<1>3. \A p \in Partitions : committed'[p] <= Len(log'[p])
  BY OffsetsInLog, WithinLogStays
<1> QED  BY <1>2, <1>3

LEMMA PositionStays ==
  ASSUME DeliveryInv, [ServiceNext]_all_vars, UNCHANGED position
  PROVE  \A p \in Partitions : position'[p] <= Len(log'[p])
BY OffsetsInLog, WithinLogStays

\* The steps that leave the loop where it is: the broker's, the dead letter
\* producer's, and those inside process().
LEMMA DeliveryElsewhere ==
  ASSUME DeliveryInv, [ServiceNext]_all_vars, UNCHANGED <<loop, position, committed>>,
         task'[Consumer].event = task[Consumer].event
  PROVE  MessageInHand' /\ WithinLog' /\ PolledHandled' /\ NothingLost'
<1>1. WithinLog'  BY CommittedStays, PositionStays DEF WithinLog
<1>2. PolledHandled'
  <2> SUFFICES ASSUME loop.pc # "down", NEW p \in Partitions, NEW o \in 0..(position[p] - 1),
                      ~Pending(p, o)
               PROVE  Handled(p, o)'
    BY DEF PolledHandled, Pending
  <2> QED  BY PolledStays
<1>3. MessageInHand'
  <2> SUFFICES ASSUME loop.pc \in Holding PROVE MessageInHand'
    BY DEF MessageInHand, Holding
  <2>1. /\ loop.partition \in Partitions /\ loop.offset \in Nat
        /\ position[loop.partition] = loop.offset + 1
        /\ ServiceTypeOK
    BY DEF DeliveryInv, ServiceTypeInv, LoopOK, MessageInHand, ServiceTypeOK, Loop
  <2>2. loop.offset + 1 \in 1..Len(log[loop.partition])
    BY <2>1, OffsetsInLog
  <2>3. log'[loop.partition][loop.offset + 1] = log[loop.partition][loop.offset + 1]
    BY <2>1, <2>2, TopicsGrow
  <2>4. MessageAt(loop.partition, loop.offset)' = MessageAt(loop.partition, loop.offset)
    BY <2>3 DEF MessageAt
  <2> QED  BY <2>1, <2>4 DEF DeliveryInv, MessageInHand
<1> QED  BY <1>1, <1>2, <1>3, CommittedStays

\* start() resumes at the committed offsets, below which all is handled.
LEMMA DeliveryStart ==
  ASSUME DeliveryInv, [ServiceNext]_all_vars, Start
  PROVE  MessageInHand' /\ WithinLog' /\ PolledHandled' /\ NothingLost'
<1>1. loop'.pc = "poll" /\ position' = committed /\ UNCHANGED committed
  BY DEF Start, At, kafka
<1>2. NothingLost' /\ WithinLog'
  BY <1>1, CommittedStays DEF WithinLog
<1>3. PolledHandled'
  BY <1>1, <1>2 DEF PolledHandled, NothingLost
<1> QED  BY <1>1, <1>2, <1>3 DEF MessageInHand, Holding

\* The end of the process forgets the message in hand.
LEMMA DeliveryEnd ==
  ASSUME DeliveryInv, [ServiceNext]_all_vars, ServiceCrash \/ Exit
  PROVE  MessageInHand' /\ WithinLog' /\ PolledHandled' /\ NothingLost'
<1>1. loop'.pc = "down" /\ UNCHANGED <<position, committed>>
  BY DEF ServiceCrash, Exit, ProcessEnds, At, kafka
<1>2. NothingLost' /\ WithinLog'
  BY <1>1, CommittedStays, PositionStays DEF WithinLog
<1> QED  BY <1>1, <1>2 DEF MessageInHand, Holding, PolledHandled

\* Between two messages the thread has nothing pending.
LEMMA DeliveryBetween ==
  ASSUME DeliveryInv, [ServiceNext]_all_vars, UNCHANGED <<position, committed>>,
         loop.pc \in {"poll", "lag"}, loop'.pc \in Idle
  PROVE  MessageInHand' /\ WithinLog' /\ PolledHandled' /\ NothingLost'
<1>1. NothingLost' /\ WithinLog'
  BY CommittedStays, PositionStays DEF WithinLog
<1>2. PolledHandled'
  <2> SUFFICES ASSUME NEW p \in Partitions, NEW o \in 0..(position[p] - 1)
               PROVE  Handled(p, o)'
    BY DEF PolledHandled
  <2> QED  BY PolledStays DEF Pending
<1> QED  BY <1>1, <1>2 DEF MessageInHand, Holding, Idle

\* A poll adds one message, which is then in hand.
LEMMA DeliveryPoll ==
  ASSUME DeliveryInv, [ServiceNext]_all_vars,
         NEW p \in Partitions, PollEvent(p) \/ PollUndeserializable(p)
  PROVE  MessageInHand' /\ WithinLog' /\ PolledHandled' /\ NothingLost'
<1>0. ServiceTypeOK /\ PollNext(p) /\ loop.pc = "poll" /\ UNCHANGED <<log, committed>>
  BY DEF DeliveryInv, ServiceTypeInv, PollEvent, PollUndeserializable, PollNext, kafka
<1>1. /\ loop'.pc \in {"processing", "dlq"}
      /\ loop'.partition = p /\ loop'.offset = position[p]
  BY DEF PollEvent, PollUndeserializable, At
<1>2. WithinLog'
  <2>1. ASSUME NEW q \in Partitions PROVE position'[q] <= Len(log'[q])
    BY <1>0, PolledType, OffsetsInLog
  <2> QED  BY <1>0, <2>1, CommittedStays DEF WithinLog
<1>3. PolledHandled'
  <2> SUFFICES ASSUME NEW q \in Partitions, NEW o \in 0..(position'[q] - 1), ~Pending(q, o)'
               PROVE  Handled(q, o)'
    BY DEF PolledHandled
  <2>1. o \in 0..(position[q] - 1)
    BY <1>0, <1>1, PolledType, OffsetsInLog DEF Pending
  <2>2. ~Pending(q, o)  BY <1>0 DEF Pending
  <2> QED  BY <1>0, <2>1, <2>2, PolledStays
<1>4. MessageInHand'
  <2>1. position'[p] = position[p] + 1  BY <1>0, PolledType
  <2>2. CASE PollEvent(p)
    <3>1. loop'.event = MessageAt(p, position[p]) /\ loop'.event \in Events
      BY <2>2 DEF PollEvent, At
    <3>2. task'[Consumer].event = loop'.event
      BY <2>2, <3>1, ConsumerAssumption
      DEF PollEvent, ReceiveEvent, IdleTask, DeliveryInv, ServiceTypeInv, RecordInv, TypeInv, TypeOK
    <3>3. MessageAt(loop.partition, loop.offset)' = MessageAt(p, position[p])
      BY <1>0, <1>1 DEF MessageAt
    <3> QED  BY <1>1, <2>1, <3>1, <3>2, <3>3 DEF MessageInHand
  <2>3. CASE PollUndeserializable(p)
    <3>1. loop'.pc = "dlq"  BY <2>3 DEF PollUndeserializable, At
    <3> QED  BY <1>1, <2>1, <3>1 DEF MessageInHand
  <2> QED  BY <2>2, <2>3
<1> QED  BY <1>0, <1>2, <1>3, <1>4, CommittedStays

\* The loop moves on with the same message: the message in hand may only leave
\* Pending with an outcome.
LEMMA DeliveryMoves ==
  ASSUME DeliveryInv, [ServiceNext]_all_vars, UNCHANGED <<position, committed>>,
         loop.pc \in Holding, loop'.pc \in {"commit", "dlq", "dlq_commit"},
         loop'.partition = loop.partition, loop'.offset = loop.offset,
         loop'.pc = "dlq" \/ ~Pending(loop.partition, loop.offset)
                          \/ Handled(loop.partition, loop.offset)'
  PROVE  MessageInHand' /\ WithinLog' /\ PolledHandled' /\ NothingLost'
<1>1. WithinLog'  BY CommittedStays, PositionStays DEF WithinLog
<1>2. MessageInHand'
  BY DEF DeliveryInv, MessageInHand
<1>3. PolledHandled'
  <2> SUFFICES ASSUME NEW p \in Partitions, NEW o \in 0..(position[p] - 1), ~Pending(p, o)'
               PROVE  Handled(p, o)'
    BY DEF PolledHandled
  <2>0. loop.pc # "down"  BY DEF Holding
  <2>1. CASE ~Pending(p, o)
    BY <2>0, <2>1, PolledStays
  <2>2. CASE Pending(p, o)
    <3>1. p = loop.partition /\ o = loop.offset  BY <2>2 DEF Pending
    <3>2. loop'.pc # "dlq"  BY <3>1 DEF Pending
    <3> QED  BY <2>2, <3>1, <3>2 DEF Handled, MessageAt
  <2> QED  BY <2>1, <2>2
<1> QED  BY <1>1, <1>2, <1>3, CommittedStays

\* process() returns: the event is recorded, or it goes to the dead letters.
LEMMA DeliveryReturns ==
  ASSUME DeliveryInv, [ServiceNext]_all_vars, ProcessReturns
  PROVE  MessageInHand' /\ WithinLog' /\ PolledHandled' /\ NothingLost'
<1> DEFINE status == task[Consumer].status
           e == task[Consumer].event
<1>0. /\ loop \in Loop /\ loop.pc = "processing" /\ CallInv(task[Consumer])
      /\ task[Consumer].pc = "done" /\ UNCHANGED tables
      /\ UNCHANGED <<log, position, committed, dlq>>
      /\ loop.event \in Events /\ loop.event = MessageAt(loop.partition, loop.offset)
      /\ loop.event = e
  BY ConsumerAssumption DEF DeliveryInv, ServiceTypeInv, ServiceTypeOK, RecordInv, MessageInHand,
     ProcessReturns, Return, kafka
<1>1. CASE status \in Returned
  <2>1. loop' = [loop EXCEPT !.pc = "commit"]  BY <1>1 DEF ProcessReturns
  <2>2. RecordOf(e) # None
    BY <1>0, <1>1, ValueAssumption DEF CallInv, ResultHolds, Returned, Recorded
  <2>3. Handled(loop.partition, loop.offset)
    BY <1>0, <2>2 DEF Handled, RecordOf
  <2>4. loop.partition \in Partitions /\ loop.offset \in Nat
        /\ loop.offset < Len(log[loop.partition])
    <3>1. loop.partition \in Partitions /\ position[loop.partition] = loop.offset + 1
      BY <1>0 DEF DeliveryInv, ServiceTypeInv, LoopOK, MessageInHand, Holding
    <3>2. loop.offset \in Nat  BY <1>0 DEF Loop
    <3> QED  BY <3>1, <3>2, OffsetsInLog
  <2>5. Handled(loop.partition, loop.offset)'
    <3>1. loop' .partition = loop.partition /\ loop'.offset = loop.offset
      BY <1>0, <2>1 DEF Loop
    <3> QED  BY <1>0, <2>2, <3>1 DEF Handled, MessageAt, RecordOf, tables
  <2>6. loop'.pc = "commit" /\ loop'.partition = loop.partition /\ loop'.offset = loop.offset
    BY <1>0, <2>1 DEF Loop
  <2> QED  BY <1>0, <2>5, <2>6, DeliveryMoves DEF Holding
<1>2. CASE status \notin Returned
  <2>1. loop' = [loop EXCEPT !.pc = "dlq", !.code = status]  BY <1>2 DEF ProcessReturns
  <2> HIDE DEF status
  <2>2. loop'.pc = "dlq" /\ loop'.partition = loop.partition /\ loop'.offset = loop.offset
    BY <1>0, <2>1 DEF Loop
  <2> QED  BY <1>0, <2>2, DeliveryMoves DEF Holding
<1> QED  BY <1>1, <1>2

\* The dead letter is in the topic: the message is handled.
LEMMA DeliveryDlq ==
  ASSUME DeliveryInv, [ServiceNext]_all_vars, PublishDlq
  PROVE  MessageInHand' /\ WithinLog' /\ PolledHandled' /\ NothingLost'
<1>0. /\ loop \in Loop /\ loop.pc = "dlq" /\ UNCHANGED <<position, committed>>
      /\ loop' = [loop EXCEPT !.pc = "dlq_commit"] /\ Record \in dlq'
  BY DEF DeliveryInv, ServiceTypeInv, ServiceTypeOK, PublishDlq
<1>1. loop'.pc = "dlq_commit" /\ loop'.partition = loop.partition /\ loop'.offset = loop.offset
  BY <1>0 DEF Loop
<1>2. Record.partition = loop.partition /\ Record.offset = loop.offset
  BY DEF Record
<1>3. Handled(loop.partition, loop.offset)'
  BY <1>0, <1>1, <1>2 DEF Handled
<1> QED  BY <1>0, <1>1, <1>3, DeliveryMoves DEF Holding

\* The commit covers the message in hand and those before it, all handled.
LEMMA DeliveryCommit ==
  ASSUME DeliveryInv, [ServiceNext]_all_vars, Commit \/ CommitFails
  PROVE  MessageInHand' /\ WithinLog' /\ PolledHandled' /\ NothingLost'
<1>0. /\ loop \in Loop /\ loop.pc \in {"commit", "dlq_commit"}
      /\ loop.partition \in Partitions /\ loop.offset \in Nat
      /\ position[loop.partition] = loop.offset + 1
      /\ committed \in [Partitions -> Nat]
      /\ UNCHANGED <<vars, log, position, dlq>>
  BY DEF DeliveryInv, ServiceTypeInv, ServiceTypeOK, LoopOK, MessageInHand, Holding, Loop,
     Commit, CommitFails
<1>1. ASSUME NEW p \in Partitions, NEW o \in 0..(position[p] - 1)
      PROVE  Handled(p, o)'
  BY <1>0, PolledStays DEF Pending
<1>2. \A p \in Partitions : committed'[p] = committed[p] \/ committed'[p] = position[p]
  BY <1>0 DEF Commit, CommitFails, StoreCommit
<1>3. NothingLost'
  <2> SUFFICES ASSUME NEW p \in Partitions, NEW o \in 0..(committed'[p] - 1)
               PROVE  Handled(p, o)'
    BY DEF NothingLost
  <2>1. CASE committed'[p] = position[p]
    BY <1>1, <2>1
  <2>2. CASE committed'[p] = committed[p]
    <3>1. o \in 0..(committed[p] - 1) /\ o \in Nat /\ o < Len(log[p])
      BY <2>2, OffsetsInLog
    <3>2. Handled(p, o)  BY <3>1 DEF DeliveryInv, NothingLost
    <3> QED  BY <3>1, <3>2, HandledStays DEF DeliveryInv
  <2> QED  BY <1>2, <2>1, <2>2
<1>4. WithinLog'
  BY <1>0, <1>2, OffsetsInLog DEF WithinLog
<1>5. PolledHandled'
  BY <1>0, <1>1 DEF PolledHandled
<1>6. MessageInHand'
  <2>1. CASE loop' \in {At("lag"), LoopHead}
    BY <2>1, AtType, LoopHeadType DEF MessageInHand, Holding, Idle
  <2>2. CASE loop' = [loop EXCEPT !.pc = "dlq", !.code = "PROCESSING_ERROR"]
    <3>1. loop'.pc = "dlq" /\ loop'.partition = loop.partition /\ loop'.offset = loop.offset
      BY <1>0, <2>2 DEF Loop
    <3> QED  BY <1>0, <3>1 DEF MessageInHand
  <2> QED  BY <2>1, <2>2 DEF Commit, CommitFails
<1> QED  BY <1>3, <1>4, <1>5, <1>6

LEMMA DeliveryStep ==
  ASSUME DlqWorked', DeliveryInv, [ServiceNext]_all_vars
  PROVE  DeliveryInv'
<1>0. ServiceTypeInv'  BY ServiceTypeStep DEF DeliveryInv
<1>1. CASE UNCHANGED all_vars
  BY <1>0, <1>1, DeliveryElsewhere DEF DeliveryInv, all_vars, vars, service_vars
<1>2. CASE \/ \E m \in Message, p \in Partitions : Publish(m, p)
           \/ \E r \in outbox : OutboxDelivers(r) \/ OutboxExpires(r)
           \/ RequestStop \/ CloseConsumer \/ CloseDlq
  <2>1. UNCHANGED <<loop, position, committed, task>>
    BY <1>2 DEF Publish, OutboxDelivers, OutboxExpires, RequestStop, CloseConsumer, CloseDlq,
       kafka, vars
  <2> QED  BY <1>0, <2>1, DeliveryElsewhere DEF DeliveryInv
<1>3. CASE ProcessStep
  <2>1. task'[Consumer].event = task[Consumer].event /\ UNCHANGED <<loop, position, committed>>
    BY <1>3, CallGoesOn, ConsumerAssumption
    DEF ProcessStep, DatabaseFailure, kafka, DeliveryInv, ServiceTypeInv, RecordInv
  <2> QED  BY <1>0, <2>1, DeliveryElsewhere DEF DeliveryInv
<1>4. ~PublishDlqFails /\ ~PublishDlqTimesOut
  BY DEF PublishDlqFails, PublishDlqTimesOut, Fault, DlqWorked
<1>5. CASE Start \/ ServiceCrash \/ Exit \/ ProcessReturns \/ PublishDlq \/ Commit \/ CommitFails
  BY <1>0, <1>5, DeliveryStart, DeliveryEnd, DeliveryReturns, DeliveryDlq, DeliveryCommit
  DEF DeliveryInv
<1>6. CASE \E p \in Partitions : PollEvent(p) \/ PollUndeserializable(p)
  BY <1>0, <1>6, DeliveryPoll DEF DeliveryInv
<1>7. CASE PollNothing \/ PollError \/ UpdateLag \/ UpdateLagFails
  <2>1. /\ UNCHANGED <<position, committed>>
        /\ loop.pc \in {"poll", "lag"} /\ loop' \in {At("lag"), LoopHead}
    BY <1>7 DEF PollNothing, PollError, UpdateLag, UpdateLagFails, kafka
  <2>2. loop'.pc \in Idle  BY <2>1, AtType, LoopHeadType DEF Idle
  <2> QED  BY <1>0, <2>1, <2>2, DeliveryBetween DEF DeliveryInv
<1> QED  BY <1>1, <1>2, <1>3, <1>4, <1>5, <1>6, <1>7 DEF ServiceNext, Consume, Stop

\* What failed stays on record.
LEMMA FailedGrows == [ServiceNext]_all_vars => failed \subseteq failed'
BY DEF ServiceNext, Consume, Stop, Publish, Start, PollNothing, PollError, PollEvent,
   PollUndeserializable, ProcessStep, ProcessReturns, Commit, CommitFails, PublishDlq,
   PublishDlqFails, PublishDlqTimesOut, OutboxDelivers, OutboxExpires, UpdateLag,
   UpdateLagFails, ServiceCrash, RequestStop, CloseConsumer, CloseDlq, Exit, Fault, failures,
   all_vars, service_vars

\* Delivery holds until a dead letter fails to get through.
WorkedInv == ServiceTypeInv /\ (DlqWorked => DeliveryInv)

LEMMA WorkedInit == ServiceInit => WorkedInv
BY DeliveryInit, ServiceTypeInit DEF WorkedInv

LEMMA WorkedStep == WorkedInv /\ [ServiceNext]_all_vars => WorkedInv'
<1> SUFFICES ASSUME WorkedInv, [ServiceNext]_all_vars PROVE WorkedInv'  OBVIOUS
<1>1. ServiceTypeInv'  BY ServiceTypeStep DEF WorkedInv
<1>2. ASSUME DlqWorked' PROVE DeliveryInv'
  <2>1. DlqWorked  BY <1>2, FailedGrows DEF DlqWorked
  <2> QED  BY <1>2, <2>1, DeliveryStep DEF WorkedInv
<1> QED  BY <1>1, <1>2 DEF WorkedInv

\* At-least-once: while dead letters get through, no committed offset covers a
\* message without an outcome, whatever database calls, commits and
\* deserialisations fail, and wherever the process dies or is stopped.
THEOREM AtLeastOnce == ServiceSpec => []CommittedMeansHandled
<1>1. WorkedInv => CommittedMeansHandled
  BY DEF WorkedInv, DeliveryInv, CommittedMeansHandled
<1> QED  BY <1>1, WorkedInit, WorkedStep, PTL DEF ServiceSpec

\* While dead letters get through, the loop polls on only when every message
\* it has polled has an outcome.
THEOREM NoMessageSkipped == ServiceSpec => []NothingSkipped
<1>1. WorkedInv => NothingSkipped
  BY DEF WorkedInv, DeliveryInv, PolledHandled, Pending, NothingSkipped
<1> QED  BY <1>1, WorkedInit, WorkedStep, PTL DEF ServiceSpec

----------------------------------------------------------------------------
(* Committed offsets and the stop of the service.                          *)

\* What the thread has polled is never behind what is committed, and the
\* message in hand is the last one polled.
OffsetsOrdered ==
  /\ loop.pc # "down" => \A p \in Partitions : committed[p] <= position[p]
  /\ loop.pc \in Holding => position[loop.partition] = loop.offset + 1

\* No failure so far leaves polled messages uncommitted.
Undisturbed == failed \cap {"commit", "dlq_error", "join"} = {}

\* All that is polled is committed, but for the message in hand; and the
\* consumer is not closed under a thread that runs.
Caught ==
  /\ Closed => loop.pc = "ended"
  /\ loop.pc \in {"poll", "lag", "ended"} => committed = position
  /\ loop.pc \in Holding => committed = [position EXCEPT ![loop.partition] = loop.offset]

OffsetInv == ServiceTypeInv /\ OffsetsOrdered /\ (Undisturbed => Caught)

LEMMA OffsetInit == ServiceInit => OffsetInv
<1> SUFFICES ASSUME ServiceInit PROVE OffsetInv  OBVIOUS
<1>1. loop.pc = "down" /\ stop = "no"  BY DEF ServiceInit, At
<1> QED  BY <1>1, ServiceTypeInit DEF OffsetInv, OffsetsOrdered, Caught, Closed, Holding

\* A poll takes the next offset of a partition.
LEMMA OffsetPoll ==
  ASSUME OffsetInv, NEW p \in Partitions, PollEvent(p) \/ PollUndeserializable(p)
  PROVE  OffsetsOrdered' /\ (Undisturbed => Caught')
<1>0. /\ ServiceTypeOK /\ PollNext(p) /\ loop.pc = "poll" /\ UNCHANGED <<committed, stop>>
      /\ committed \in [Partitions -> Nat] /\ position \in [Partitions -> Nat]
      /\ position' = [position EXCEPT ![p] = @ + 1]
  BY DEF OffsetInv, ServiceTypeInv, ServiceTypeOK, PollEvent, PollUndeserializable, PollNext,
     kafka, control
<1>1. /\ loop'.pc \in {"processing", "dlq"}
      /\ loop'.partition = p /\ loop'.offset = position[p]
  BY DEF PollEvent, PollUndeserializable, At
<1>2. OffsetsOrdered'
  <2>1. \A q \in Partitions : committed[q] <= position[q]
    BY <1>0 DEF OffsetInv, OffsetsOrdered
  <2> QED  BY <1>0, <1>1, <2>1 DEF OffsetsOrdered, Holding
<1>3. ASSUME Undisturbed PROVE Caught'
  <2>1. committed = position /\ ~Closed
    BY <1>0, <1>3 DEF OffsetInv, Caught
  <2>2. position = [position' EXCEPT ![p] = position[p]]
    BY <1>0
  <2> QED  BY <1>0, <1>1, <2>1, <2>2 DEF Caught, Closed, Holding
<1> QED  BY <1>2, <1>3

\* The loop goes on with the message it has.
LEMMA OffsetHolds ==
  ASSUME OffsetInv, UNCHANGED <<position, committed, stop>>, loop.pc \in Holding,
         loop'.pc \in Holding, loop'.partition = loop.partition, loop'.offset = loop.offset
  PROVE  OffsetsOrdered' /\ (Undisturbed => Caught')
<1>1. OffsetsOrdered'
  BY DEF OffsetInv, OffsetsOrdered, Holding
<1>2. ASSUME Undisturbed PROVE Caught'
  BY <1>2 DEF OffsetInv, Caught, Closed, Holding
<1> QED  BY <1>1, <1>2

LEMMA OffsetMoves ==
  ASSUME OffsetInv, ProcessReturns \/ PublishDlq \/ PublishDlqTimesOut
  PROVE  OffsetsOrdered' /\ (Undisturbed => Caught')
<1>0. /\ loop \in Loop /\ loop.pc \in Holding
      /\ UNCHANGED <<position, committed, stop>>
  BY DEF OffsetInv, ServiceTypeInv, ServiceTypeOK, Holding, ProcessReturns, PublishDlq,
     PublishDlqTimesOut, kafka, control
<1> DEFINE status == task[Consumer].status
<1>1. \/ loop' = [loop EXCEPT !.pc = "commit"]
      \/ loop' = [loop EXCEPT !.pc = "dlq", !.code = status]
      \/ loop' = [loop EXCEPT !.pc = "dlq_commit"]
  BY DEF ProcessReturns, PublishDlq, PublishDlqTimesOut
<1> HIDE DEF status
<1>2. /\ loop'.pc \in Holding
      /\ loop'.partition = loop.partition /\ loop'.offset = loop.offset
  BY <1>0, <1>1 DEF Loop, Holding
<1> QED  BY <1>0, <1>2, OffsetHolds

\* A commit takes the group to the end of what is polled.
LEMMA OffsetCommit ==
  ASSUME OffsetInv, Commit \/ CommitFails
  PROVE  /\ OffsetsOrdered' /\ (Undisturbed' => Caught')
         /\ \A p \in Partitions : committed'[p] >= committed[p]
<1>0. /\ loop \in Loop /\ loop.pc \in {"commit", "dlq_commit"}
      /\ loop.partition \in Partitions /\ loop.offset \in Nat
      /\ committed \in [Partitions -> Nat] /\ position \in [Partitions -> Nat]
      /\ UNCHANGED <<position, stop>>
      /\ position[loop.partition] = loop.offset + 1
      /\ \A p \in Partitions : committed[p] <= position[p]
  BY DEF OffsetInv, OffsetsOrdered, ServiceTypeInv, ServiceTypeOK, LoopOK, Loop, Holding,
     Commit, CommitFails, control
<1>1. \/ UNCHANGED committed
      \/ committed' = [committed EXCEPT ![loop.partition] = position[loop.partition]]
  BY <1>0 DEF Commit, CommitFails, StoreCommit
<1>2. \A p \in Partitions : committed'[p] >= committed[p] /\ committed'[p] <= position[p]
  BY <1>0, <1>1
<1>3. OffsetsOrdered'
  <2>1. CASE loop' \in {At("lag"), LoopHead}
    <3>1. loop'.pc \in Idle  BY <2>1, AtType, LoopHeadType DEF Idle
    <3> QED  BY <1>0, <1>2, <3>1 DEF OffsetsOrdered, Holding, Idle
  <2>2. CASE loop' = [loop EXCEPT !.pc = "dlq", !.code = "PROCESSING_ERROR"]
    <3>1. /\ loop'.pc = "dlq" /\ loop'.partition = loop.partition
          /\ loop'.offset = loop.offset
      BY <1>0, <2>2 DEF Loop
    <3> QED  BY <1>0, <1>2, <3>1 DEF OffsetsOrdered
  <2> QED  BY <2>1, <2>2 DEF Commit, CommitFails
<1>4. ASSUME Undisturbed' PROVE Caught'
  <2>1. CASE Commit
    <3>1. Undisturbed  BY <1>4, <2>1 DEF Undisturbed, Commit, failures
    <3>2. committed = [position EXCEPT ![loop.partition] = loop.offset]
      BY <1>0, <3>1 DEF OffsetInv, Caught, Holding
    <3>3. committed' = position
      BY <1>0, <2>1, <3>2 DEF Commit, StoreCommit
    <3>4. loop'.pc = "lag" /\ ~Closed'
      BY <1>0, <2>1, AtType DEF Commit, Closed, Idle
    <3> QED  BY <1>0, <3>3, <3>4 DEF Caught, Holding
  <2>2. CASE CommitFails
    <3>1. ~Fault("commit")  BY <1>4 DEF Fault, Undisturbed
    <3>2. Closed /\ Undisturbed
      BY <1>4, <2>2, <3>1 DEF CommitFails, Undisturbed, failures
    <3> QED  BY <1>0, <3>2 DEF OffsetInv, Caught
  <2> QED  BY <2>1, <2>2
<1> QED  BY <1>2, <1>3, <1>4

\* The loop between two messages, where it starts, and where it ends.
LEMMA OffsetBetween ==
  ASSUME OffsetInv, Undisturbed',
         Start \/ PollNothing \/ PollError \/ UpdateLag \/ UpdateLagFails
  PROVE  Caught'
<1>1. UNCHANGED <<committed, stop>> /\ loop' \in {At("poll"), At("lag"), LoopHead}
  BY DEF Start, PollNothing, PollError, UpdateLag, UpdateLagFails, kafka, control
<1>2. loop'.pc \in {"poll", "lag", "ended"}
  BY <1>1, AtType, LoopHeadType DEF Idle
<1>3. Undisturbed
  BY DEF Undisturbed, Start, PollNothing, PollError, UpdateLag, UpdateLagFails, Fault, failures
<1>4. committed = position'
  BY <1>3 DEF OffsetInv, Caught, Start, PollNothing, PollError, UpdateLag, UpdateLagFails, kafka
<1>5. ~Closed
  BY <1>3 DEF OffsetInv, Caught, Start, PollNothing, PollError, UpdateLag, UpdateLagFails
<1> QED  BY <1>1, <1>2, <1>4, <1>5 DEF Caught, Closed, Holding

LEMMA OffsetStep == OffsetInv /\ [ServiceNext]_all_vars => OffsetInv'
<1> SUFFICES ASSUME OffsetInv, [ServiceNext]_all_vars PROVE OffsetInv'  OBVIOUS
<1>0. ServiceTypeInv'  BY ServiceTypeStep DEF OffsetInv
<1>1. Undisturbed' => Undisturbed  BY FailedGrows DEF Undisturbed
<1>2. CASE UNCHANGED all_vars
  BY <1>0, <1>1, <1>2
  DEF OffsetInv, OffsetsOrdered, Caught, Closed, Holding, all_vars, service_vars, control
<1>3. CASE \E p \in Partitions : PollEvent(p) \/ PollUndeserializable(p)
  BY <1>0, <1>1, <1>3, OffsetPoll DEF OffsetInv
<1>4. CASE ProcessReturns \/ PublishDlq \/ PublishDlqTimesOut
  BY <1>0, <1>1, <1>4, OffsetMoves DEF OffsetInv
<1>5. CASE Commit \/ CommitFails
  BY <1>0, <1>5, OffsetCommit DEF OffsetInv
<1>6. CASE PublishDlqFails
  <2>1. loop'.pc \in {"poll", "ended"} /\ UNCHANGED <<position, committed>>
        /\ loop.pc = "dlq"
    BY <1>6, LoopHeadType DEF PublishDlqFails, kafka
  <2>2. OffsetsOrdered'  BY <2>1 DEF OffsetInv, OffsetsOrdered, Holding
  <2>3. ~Undisturbed'  BY <1>6 DEF PublishDlqFails, Fault, Undisturbed
  <2> QED  BY <1>0, <2>2, <2>3 DEF OffsetInv
<1>7. CASE Start \/ PollNothing \/ PollError \/ UpdateLag \/ UpdateLagFails
  <2>1. /\ loop' \in {At("poll"), At("lag"), LoopHead} /\ UNCHANGED committed
        /\ position' = committed \/ (UNCHANGED position /\ loop.pc # "down")
    BY <1>7 DEF Start, PollNothing, PollError, UpdateLag, UpdateLagFails, kafka
  <2>2. loop'.pc \in {"poll", "lag", "ended"}
    BY <2>1, AtType, LoopHeadType DEF Idle
  <2>3. committed \in [Partitions -> Nat]
    BY DEF OffsetInv, ServiceTypeInv, ServiceTypeOK
  <2>4. OffsetsOrdered'
    BY <2>1, <2>2, <2>3 DEF OffsetInv, OffsetsOrdered, Holding
  <2> QED  BY <1>0, <1>7, <2>4, OffsetBetween DEF OffsetInv
<1>8. CASE ServiceCrash \/ Exit
  <2>1. loop'.pc = "down" /\ stop' = "no"
    BY <1>8 DEF ServiceCrash, Exit, ProcessEnds, At
  <2> QED  BY <1>0, <2>1 DEF OffsetInv, OffsetsOrdered, Caught, Closed, Holding
<1>9. CASE \/ ProcessStep
           \/ \E m \in Message, p \in Partitions : Publish(m, p)
           \/ \E r \in outbox : OutboxDelivers(r) \/ OutboxExpires(r)
  <2>1. UNCHANGED <<loop, position, committed, stop>>
    BY <1>9 DEF ProcessStep, Publish, OutboxDelivers, OutboxExpires, kafka, control
  <2> QED  BY <1>0, <1>1, <2>1 DEF OffsetInv, OffsetsOrdered, Caught, Closed, Holding
<1>10. CASE RequestStop \/ CloseConsumer \/ CloseDlq
  <2>1. UNCHANGED <<loop, position, committed>>
    BY <1>10 DEF RequestStop, CloseConsumer, CloseDlq, kafka
  <2>2. ASSUME Undisturbed' PROVE Closed' => loop.pc = "ended"
    <3>1. ~Fault("join")  BY <2>2 DEF Fault, Undisturbed
    <3> QED
      BY <1>1, <1>10, <2>2, <3>1
      DEF RequestStop, CloseConsumer, CloseDlq, Closed, OffsetInv, Caught
  <2>3. OffsetsOrdered' /\ (Undisturbed' => Caught')
    BY <1>1, <2>1, <2>2 DEF OffsetInv, OffsetsOrdered, Caught, Holding
  <2> QED  BY <1>0, <2>3 DEF OffsetInv
<1> QED
  BY <1>2, <1>3, <1>4, <1>5, <1>6, <1>7, <1>8, <1>9, <1>10 DEF ServiceNext, Consume, Stop

\* A stop that waits for the thread leaves nothing to be processed again:
\* unless a commit, a dead letter or the join failed, all that was polled is
\* committed when the loop ends.
THEOREM StopLeavesNothing == ServiceSpec => []GracefulStop
<1>1. OffsetInv => GracefulStop
  BY DEF OffsetInv, Undisturbed, Caught, GracefulStop
<1> QED  BY <1>1, OffsetInit, OffsetStep, PTL DEF ServiceSpec

\* A committed offset never falls back, over any failures and restarts.
THEOREM CommitsOnlyGrow == ServiceSpec => CommitMonotonic
<1>1. OffsetInv /\ [ServiceNext]_all_vars
        => [\A p \in Partitions : committed'[p] >= committed[p]]_all_vars
  <2> SUFFICES ASSUME OffsetInv, ServiceNext
               PROVE  \A p \in Partitions : committed'[p] >= committed[p]
    OBVIOUS
  <2>1. CASE Commit \/ CommitFails
    BY <2>1, OffsetCommit
  <2>2. CASE UNCHANGED committed
    <3>1. committed \in [Partitions -> Nat]  BY DEF OffsetInv, ServiceTypeInv, ServiceTypeOK
    <3> QED  BY <2>2, <3>1
  <2>3. UNCHANGED committed \/ Commit \/ CommitFails
    BY DEF ServiceNext, Consume, Stop, Publish, Start, PollNothing, PollError, PollEvent,
       PollUndeserializable, ProcessStep, ProcessReturns, PublishDlq, PublishDlqFails,
       PublishDlqTimesOut, OutboxDelivers, OutboxExpires, UpdateLag, UpdateLagFails,
       ServiceCrash, RequestStop, CloseConsumer, CloseDlq, Exit, ProcessEnds, kafka
  <2> QED  BY <2>1, <2>2, <2>3
<1> QED  BY <1>1, OffsetInit, OffsetStep, PTL DEF ServiceSpec, CommitMonotonic
============================================================================
