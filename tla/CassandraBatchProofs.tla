------------------------ MODULE CassandraBatchProofs ------------------------
(***************************************************************************)
(* Theorems about CassandraBatch for any set of nodes, any quorums that    *)
(* meet, any zones, and any number of batches and timeouts.                *)
(***************************************************************************)
EXTENDS CassandraBatch, SequenceTheorems, TLAPS

----------------------------------------------------------------------------
(* Types. *)

\* Appending to the batches keeps those that are there.
LEMMA AppendBatch ==
  ASSUME TypeOK, NEW z \in Zones
  PROVE  /\ Append(batches, z) \in Seq(Zones) /\ Now \in Nat
         /\ Len(Append(batches, z)) = Now + 1
         /\ Append(batches, z)[Now + 1] = z
         /\ \A t \in 1..Now : Append(batches, z)[t] = batches[t]
<1>1. batches \in Seq(Zones)  BY DEF TypeOK
<1> QED  BY <1>1, AppendProperties, LenProperties DEF Now

Zero == [value |-> 0, ts |-> 0]

LEMMA TypeInit == Init => TypeOK
<1> SUFFICES ASSUME Init PROVE TypeOK  OBVIOUS
<1>1. batches \in Seq(Zones) /\ Now = 0
  BY DEF Init, Now
<1>2. cell \in [Nodes -> [Rows -> Cell]] /\ \A n \in Nodes, r \in Rows : cell[n][r].ts = 0
  BY DEF Init, Cell
<1>3. client \in [pc   : {"idle", "get_inventory_total", "execute_batch", "wait"},
                  zone : Rows, view : [Rows -> Nat]] /\ client.pc = "idle"
  BY DEF Init, IdleClient, Rows
<1> QED  BY <1>1, <1>2, <1>3 DEF Init, TypeOK

Client == [pc   : {"idle", "get_inventory_total", "execute_batch", "wait"},
           zone : Rows, view : [Rows -> Nat]]

LEMMA IdleType == IdleClient \in Client /\ IdleClient.pc = "idle"
BY DEF IdleClient, Client, Rows

\* The fields a step leaves the client with.
LEMMA ReadType ==
  ASSUME TypeOK,
         \/ \E z \in Zones, n \in Nodes : get_inventory(z, n)
         \/ \E n \in Nodes : get_inventory_total(n)
  PROVE  /\ client' \in Client /\ client'.zone \in Zones
         /\ client'.pc \in {"get_inventory_total", "execute_batch"}
         /\ UNCHANGED <<cell, owed, batches, acked, timeouts>>
<1>1. CASE \E z \in Zones, n \in Nodes : get_inventory(z, n)
  <2> PICK z \in Zones, n \in Nodes : get_inventory(z, n)  BY <1>1
  <2> DEFINE v == cell[n][z].value
  <2>1. z \in Rows /\ v \in Nat  BY DEF TypeOK, Cell, Rows
  <2>2. /\ client' = [pc |-> "get_inventory_total", zone |-> z,
                      view |-> [IdleClient.view EXCEPT ![z] = v]]
        /\ UNCHANGED <<cell, owed, batches, acked, timeouts>>
    BY DEF get_inventory
  <2>3. IdleClient.view \in [Rows -> Nat]  BY DEF IdleClient
  <2> HIDE DEF v
  <2> QED  BY <2>1, <2>2, <2>3 DEF Client
<1>2. CASE \E n \in Nodes : get_inventory_total(n)
  <2> PICK n \in Nodes : get_inventory_total(n)  BY <1>2
  <2> DEFINE v == cell[n][Total].value
  <2>0. cell[n][Total] \in Cell  BY DEF TypeOK, Rows
  <2>1. v \in Nat /\ client \in Client /\ client.zone \in Zones /\ Total \in Rows
    BY <2>0 DEF TypeOK, Cell, Rows, Client, get_inventory_total
  <2>2. /\ client' = [client EXCEPT !.pc = "execute_batch", !.view[Total] = v]
        /\ UNCHANGED <<cell, owed, batches, acked, timeouts>>
    BY DEF get_inventory_total
  <2> HIDE DEF v
  <2> QED  BY <2>1, <2>2 DEF Client
<1> QED  BY <1>1, <1>2

\* What execute_batch owes to the nodes.
BatchMutations ==
  {[node |-> n, row |-> r, value |-> client.view[r] + 1, ts |-> Len(batches) + 1] :
     n \in Nodes, r \in RowsOf(client.zone)}

LEMMA ExecuteFacts ==
  ASSUME TypeOK, execute_batch
  PROVE  /\ client \in Client /\ client.zone \in Zones /\ client.zone \in Rows
         /\ RowsOf(client.zone) \subseteq Rows
         /\ batches' = Append(batches, client.zone) /\ Now' = Now + 1 /\ Now \in Nat
         /\ owed' = owed \cup BatchMutations
         /\ BatchMutations \subseteq Mutation
         /\ \A m \in BatchMutations :
              /\ m.ts = Now + 1 /\ m.row \in RowsOf(client.zone)
              /\ m.value = client.view[m.row] + 1
         /\ client' = [client EXCEPT !.pc = "wait"]
         /\ client' \in Client /\ client'.pc = "wait" /\ client'.zone = client.zone
         /\ client'.view = client.view
         /\ UNCHANGED <<cell, acked, timeouts>>
<1>1. client \in Client /\ client.zone \in Zones
  BY DEF TypeOK, Client, execute_batch
<1>2. client.zone \in Rows /\ RowsOf(client.zone) \subseteq Rows
  BY <1>1 DEF Rows, RowsOf
<1>3. batches' = Append(batches, client.zone) /\ Now' = Now + 1 /\ Now \in Nat
  BY <1>1, AppendBatch DEF execute_batch, Now
<1>4. client.view \in [Rows -> Nat]  BY <1>1 DEF Client
<1>5. BatchMutations \subseteq Mutation
  BY <1>2, <1>3, <1>4 DEF BatchMutations, Mutation, Now
<1>6. \A m \in BatchMutations :
        /\ m.ts = Now + 1 /\ m.row \in RowsOf(client.zone)
        /\ m.value = client.view[m.row] + 1
  BY DEF BatchMutations, Now
<1>7. /\ client' = [client EXCEPT !.pc = "wait"]
      /\ owed' = owed \cup BatchMutations /\ UNCHANGED <<cell, acked, timeouts>>
  BY DEF execute_batch, BatchMutations
<1>8. /\ client' \in Client /\ client'.pc = "wait" /\ client'.zone = client.zone
      /\ client'.view = client.view
  BY <1>1, <1>7 DEF Client
<1> QED  BY <1>1, <1>2, <1>3, <1>5, <1>6, <1>7, <1>8

\* A cell takes a mutation that is later than it, and no other cell moves.
LEMMA DeliverFacts ==
  ASSUME TypeOK, NEW m \in owed, Deliver(m)
  PROVE  /\ m \in Mutation /\ owed' = owed \ {m} /\ cell' \in [Nodes -> [Rows -> Cell]]
         /\ UNCHANGED <<batches, client, acked, timeouts>>
         /\ \A n \in Nodes, r \in Rows :
              \/ cell'[n][r] = cell[n][r]
              \/ /\ n = m.node /\ r = m.row /\ cell[n][r].ts < m.ts
                 /\ cell'[n][r].value = m.value /\ cell'[n][r].ts = m.ts
         /\ cell'[m.node][m.row].ts >= m.ts
<1>0. /\ cell \in [Nodes -> [Rows -> Cell]] /\ m \in Mutation
      /\ owed' = owed \ {m} /\ UNCHANGED <<batches, client, acked, timeouts>>
  BY DEF TypeOK, Deliver
<1>1. m.node \in Nodes /\ m.row \in Rows /\ m.value \in Nat /\ m.ts \in Nat
  BY <1>0 DEF Mutation
<1>2. \A n \in Nodes, r \in Rows : cell[n][r].ts \in Nat
  BY <1>0 DEF Cell
<1>3. CASE cell[m.node][m.row].ts < m.ts
  <2> DEFINE new == [value |-> m.value, ts |-> m.ts]
  <2>1. cell' = [cell EXCEPT ![m.node][m.row] = new]
    BY <1>3 DEF Deliver
  <2>2. new \in Cell /\ new.value = m.value /\ new.ts = m.ts
    BY <1>1 DEF Cell
  <2> HIDE DEF new
  <2>3. cell' \in [Nodes -> [Rows -> Cell]]
    BY <1>0, <1>1, <2>1, <2>2
  <2>4. cell'[m.node][m.row] = new  BY <1>0, <1>1, <2>1
  <2>5. \A n \in Nodes, r \in Rows :
          cell'[n][r] = cell[n][r] \/ (n = m.node /\ r = m.row)
    BY <1>0, <1>1, <2>1
  <2> QED  BY <1>0, <1>1, <1>3, <2>2, <2>3, <2>4, <2>5
<1>4. CASE ~(cell[m.node][m.row].ts < m.ts)
  <2>1. cell' = cell  BY <1>4 DEF Deliver
  <2> QED  BY <1>0, <1>1, <1>2, <1>4, <2>1
<1> QED  BY <1>3, <1>4

LEMMA TypeStep == TypeOK /\ [Next]_vars => TypeOK'
<1> SUFFICES ASSUME TypeOK, [Next]_vars PROVE TypeOK'  OBVIOUS
<1>1. CASE UNCHANGED vars
  BY <1>1 DEF vars, TypeOK, Now
<1>2. CASE \/ \E z \in Zones, n \in Nodes : get_inventory(z, n)
           \/ \E n \in Nodes : get_inventory_total(n)
  BY <1>2, ReadType DEF TypeOK, Now, Client
<1>3. CASE execute_batch
  <2>1. batches' \in Seq(Zones)  BY <1>3, ExecuteFacts, AppendBatch
  <2>2. \A n \in Nodes, r \in Rows : cell'[n][r].ts <= Now'
    <3>1. \A n \in Nodes, r \in Rows : cell[n][r].ts \in Nat /\ cell[n][r].ts <= Now
      BY DEF TypeOK, Cell
    <3> QED  BY <1>3, <3>1, ExecuteFacts
  <2>3. \A m \in owed' : m.ts <= Now'
    <3>1. \A m \in owed : m.ts \in Nat /\ m.ts <= Now  BY DEF TypeOK, Mutation
    <3> QED  BY <1>3, <3>1, ExecuteFacts
  <2>4. /\ owed' \subseteq Mutation /\ cell' \in [Nodes -> [Rows -> Cell]]
        /\ acked' \in [Rows -> Nat] /\ timeouts' \in Nat
    BY <1>3, ExecuteFacts DEF TypeOK
  <2>5. client' \in Client /\ client'.zone \in Zones
    BY <1>3, ExecuteFacts
  <2> QED  BY <2>1, <2>2, <2>3, <2>4, <2>5 DEF TypeOK, Client
<1>4. CASE Acknowledge \/ TimesOut \/ NotLogged \/ ReadFails
  <2>1. client' = IdleClient /\ UNCHANGED <<cell, batches>> /\ owed' \subseteq owed
    BY <1>4 DEF Acknowledge, TimesOut, NotLogged, ReadFails, GiveUp
  <2>2. acked' \in [Rows -> Nat] /\ timeouts' \in Nat
    BY <1>4 DEF TypeOK, Acknowledge, TimesOut, NotLogged, ReadFails, GiveUp
  <2> QED  BY <2>1, <2>2, IdleType DEF TypeOK, Now, Client
<1>5. CASE \E m \in owed : Deliver(m)
  <2> PICK m \in owed : Deliver(m)  BY <1>5
  <2>1. m.ts <= Now /\ Now' = Now  BY DeliverFacts DEF TypeOK, Now
  <2>2. \A n \in Nodes, r \in Rows : cell'[n][r].ts <= Now'
    BY <2>1, DeliverFacts DEF TypeOK
  <2> QED  BY <2>1, <2>2, DeliverFacts DEF TypeOK
<1> QED  BY <1>1, <1>2, <1>3, <1>4, <1>5 DEF Next

\* The cells, mutations and counts keep their types, and no timestamp is of the
\* future.
THEOREM TypeCorrect == Spec => []TypeOK
<1> QED  BY TypeInit, TypeStep, PTL DEF Spec

----------------------------------------------------------------------------
(* Acknowledged events are read.                                           *)

\* Every write of row r from timestamp t on, wherever it has got, counts the
\* acknowledged events; and every quorum has a node that is as far as t.
CountedFrom(r, t) ==
  /\ \A n \in Nodes : cell[n][r].ts >= t => cell[n][r].value >= acked[r]
  /\ \A m \in owed : m.row = r /\ m.ts >= t => m.value >= acked[r]

KnownFrom(r, t) == \A Q \in Quorums : \E n \in Q : cell[n][r].ts >= t

AckedFrom(r, t) == CountedFrom(r, t) /\ KnownFrom(r, t)

\* What the client has read counts them too.
ViewCounts ==
  /\ client.pc \in {"get_inventory_total", "execute_batch"} =>
       client.view[client.zone] >= acked[client.zone]
  /\ client.pc = "execute_batch" => client.view[Total] >= acked[Total]

\* The batch the client waits for counts one more, and is on a node or owed to
\* it.
WaitsFor(r) ==
  /\ \A n \in Nodes : cell[n][r].ts = Now => cell[n][r].value > acked[r]
  /\ \A m \in owed : m.row = r /\ m.ts = Now => m.value > acked[r]
  /\ \A n \in Nodes : \/ cell[n][r].ts = Now
                       \/ \E m \in owed : m.node = n /\ m.row = r /\ m.ts = Now

BatchCounts == client.pc = "wait" => \A r \in RowsOf(client.zone) : WaitsFor(r)

AckInv ==
  /\ TypeOK
  /\ \A r \in Rows : \E t \in 0..Now : AckedFrom(r, t)
  /\ ViewCounts
  /\ BatchCounts

\* The types that arithmetic on timestamps and values needs.
LEMMA Numbers ==
  ASSUME TypeOK
  PROVE  /\ Now \in Nat
         /\ \A n \in Nodes, r \in Rows :
              cell[n][r].ts \in Nat /\ cell[n][r].value \in Nat /\ cell[n][r].ts <= Now
         /\ \A m \in owed : /\ m.node \in Nodes /\ m.row \in Rows
                            /\ m.ts \in Nat /\ m.value \in Nat /\ m.ts <= Now
         /\ \A r \in Rows : acked[r] \in Nat /\ client.view[r] \in Nat
<1>1. batches \in Seq(Zones)  BY DEF TypeOK
<1>2. Now \in Nat  BY <1>1, LenProperties DEF Now
<1> QED  BY <1>2 DEF TypeOK, Cell, Mutation

\* The newest cell of a quorum counts every acknowledged event.
LEMMA ReadCounts ==
  ASSUME TypeOK, NEW r \in Rows, NEW t \in Nat, AckedFrom(r, t),
         NEW Q \in Quorums, NEW n \in Nodes, NewestOf(Q, n, r)
  PROVE  cell[n][r].value >= acked[r]
<1>1. PICK x \in Q : cell[x][r].ts >= t  BY DEF AckedFrom, KnownFrom
<1>2. x \in Nodes /\ n \in Nodes  BY QuorumAssumption
<1>3. cell[n][r].ts >= cell[x][r].ts  BY <1>1, <1>2, Numbers DEF NewestOf
<1>4. cell[n][r].ts >= t  BY <1>1, <1>2, <1>3, Numbers
<1> QED  BY <1>4 DEF AckedFrom, CountedFrom

LEMMA AckInit == Init => AckInv
<1> SUFFICES ASSUME Init PROVE AckInv  OBVIOUS
<1>1. TypeOK  BY TypeInit
<1>2. client.pc = "idle"  BY DEF Init, IdleClient
<1>3. \A n \in Nodes, r \in Rows : cell[n][r].ts = 0 /\ cell[n][r].value = 0
  BY DEF Init
<1>4. owed = {} /\ \A r \in Rows : acked[r] = 0
  BY DEF Init
<1>5. ASSUME NEW r \in Rows PROVE AckedFrom(r, 0)
  <2>1. \A Q \in Quorums : \E n \in Q : n \in Nodes
    BY QuorumAssumption
  <2> QED  BY <1>3, <1>4, <2>1 DEF AckedFrom, CountedFrom, KnownFrom
<1>6. 0 \in 0..Now  BY <1>1, Numbers
<1> QED  BY <1>1, <1>2, <1>5, <1>6 DEF AckInv, ViewCounts, BatchCounts

\* A read takes the newest cell of a quorum into the view.
LEMMA AckRead ==
  ASSUME AckInv,
         \/ \E z \in Zones, n \in Nodes : get_inventory(z, n)
         \/ \E n \in Nodes : get_inventory_total(n)
  PROVE  AckInv'
<1>0. TypeOK /\ TypeOK'  BY ReadType, TypeStep DEF AckInv, Next
<1>1. UNCHANGED <<cell, owed, batches, acked, timeouts>> /\ UNCHANGED Now
  BY <1>0, ReadType DEF Now
<1>2. \A r \in Rows : \E t \in 0..Now' : AckedFrom(r, t)'
  BY <1>1 DEF AckInv, AckedFrom, CountedFrom, KnownFrom
<1>3. ASSUME NEW r \in Rows, NEW n \in Nodes, ReadRow(r, n)
      PROVE  cell[n][r].value >= acked[r]
  <2>1. PICK Q \in Quorums : NewestOf(Q, n, r)  BY <1>3 DEF ReadRow
  <2>2. PICK t \in 0..Now : AckedFrom(r, t)  BY DEF AckInv
  <2> QED  BY <1>0, <2>1, <2>2, ReadCounts, Numbers
<1>4. CASE \E z \in Zones, n \in Nodes : get_inventory(z, n)
  <2> PICK z \in Zones, n \in Nodes : get_inventory(z, n)  BY <1>4
  <2> DEFINE v == cell[n][z].value
  <2>1. z \in Rows  BY DEF Rows
  <2>2. v >= acked[z]  BY <1>3, <2>1 DEF get_inventory
  <2>3. client' = [pc |-> "get_inventory_total", zone |-> z,
                   view |-> [IdleClient.view EXCEPT ![z] = v]]
    BY DEF get_inventory
  <2>4. IdleClient.view \in [Rows -> Nat]  BY DEF IdleClient
  <2> HIDE DEF v
  <2>5. client'.pc = "get_inventory_total" /\ client'.zone = z /\ client'.view[z] = v
    BY <2>1, <2>3, <2>4
  <2> QED  BY <1>0, <1>1, <1>2, <2>2, <2>5 DEF AckInv, ViewCounts, BatchCounts
<1>5. CASE \E n \in Nodes : get_inventory_total(n)
  <2> PICK n \in Nodes : get_inventory_total(n)  BY <1>5
  <2> DEFINE v == cell[n][Total].value
  <2>1. Total \in Rows /\ client.pc = "get_inventory_total" /\ client \in Client
        /\ client.zone \in Zones
    BY <1>0 DEF Rows, get_inventory_total, TypeOK, Client
  <2>2. v >= acked[Total]  BY <1>3, <2>1 DEF get_inventory_total
  <2>3. client' = [client EXCEPT !.pc = "execute_batch", !.view[Total] = v]
    BY DEF get_inventory_total
  <2> HIDE DEF v
  <2>4. /\ client'.pc = "execute_batch" /\ client'.zone = client.zone
        /\ client'.view[Total] = v /\ client'.view[client.zone] = client.view[client.zone]
    BY <2>1, <2>3, TotalAssumption DEF Client
  <2>5. client.view[client.zone] >= acked[client.zone]
    BY <2>1 DEF AckInv, ViewCounts
  <2> QED  BY <1>0, <1>1, <1>2, <2>1, <2>2, <2>4, <2>5 DEF AckInv, ViewCounts, BatchCounts
<1> QED  BY <1>4, <1>5

\* The new batch counts one event more than was acknowledged.
LEMMA AckExecute ==
  ASSUME AckInv, execute_batch
  PROVE  AckInv'
<1>0. TypeOK /\ TypeOK' /\ client.pc = "execute_batch"
  BY TypeStep DEF AckInv, Next, execute_batch
<1>1. /\ Now' = Now + 1 /\ Now \in Nat /\ UNCHANGED <<cell, acked>>
      /\ owed' = owed \cup BatchMutations /\ client.zone \in Zones
      /\ client'.pc = "wait" /\ client'.zone = client.zone
      /\ RowsOf(client.zone) \subseteq Rows
  BY <1>0, ExecuteFacts
<1>2. \A r \in RowsOf(client.zone) : client.view[r] >= acked[r]
  BY <1>0 DEF AckInv, ViewCounts, RowsOf
<1>3. \A m \in BatchMutations :
        /\ m.ts = Now + 1 /\ m.row \in RowsOf(client.zone) /\ m.value > acked[m.row]
  BY <1>0, <1>1, <1>2, ExecuteFacts, Numbers
<1>4. ASSUME NEW r \in Rows PROVE \E t \in 0..Now' : AckedFrom(r, t)'
  <2>1. PICK t \in 0..Now : AckedFrom(r, t)  BY DEF AckInv
  <2>2. t \in 0..Now'  BY <1>1
  <2>3. AckedFrom(r, t)'
    <3>1. \A m \in BatchMutations : m.row = r => m.value >= acked[r]
      BY <1>0, <1>1, <1>2, ExecuteFacts, Numbers
    <3> QED  BY <1>1, <2>1, <3>1 DEF AckedFrom, CountedFrom, KnownFrom
  <2> QED  BY <2>2, <2>3
<1>5. ASSUME NEW r \in RowsOf(client.zone) PROVE WaitsFor(r)'
  <2>1. r \in Rows  BY <1>1
  <2>2. \A n \in Nodes : cell[n][r].ts # Now + 1
    BY <1>0, <2>1, Numbers
  <2>3. \A m \in owed : m.ts # Now + 1
    BY <1>0, Numbers
  <2>4. \A n \in Nodes : \E m \in BatchMutations : m.node = n /\ m.row = r /\ m.ts = Now + 1
    <3> TAKE n \in Nodes
    <3> DEFINE x == [node |-> n, row |-> r, value |-> client.view[r] + 1, ts |-> Len(batches) + 1]
    <3>1. x \in BatchMutations  BY DEF BatchMutations
    <3>2. x.node = n /\ x.row = r /\ x.ts = Now + 1  BY DEF Now
    <3> HIDE DEF x
    <3> QED  BY <3>1, <3>2
  <2> QED  BY <1>1, <1>3, <2>2, <2>3, <2>4 DEF WaitsFor
<1> QED  BY <1>0, <1>1, <1>4, <1>5 DEF AckInv, ViewCounts, BatchCounts

\* An acknowledged batch is on a quorum, which every other quorum meets.
LEMMA AckAcknowledge ==
  ASSUME AckInv, Acknowledge
  PROVE  AckInv'
<1>0. TypeOK /\ TypeOK'  BY TypeStep DEF AckInv, Next
<1>1. /\ client.pc = "wait" /\ client' = IdleClient
      /\ UNCHANGED <<cell, owed, batches>> /\ UNCHANGED Now
      /\ \A r \in RowsOf(client.zone) : Written(r)
      /\ acked' = [r \in Rows |-> IF r \in RowsOf(client.zone) THEN acked[r] + 1 ELSE acked[r]]
  BY DEF Acknowledge, Now
<1>2. ASSUME NEW r \in Rows PROVE \E t \in 0..Now' : AckedFrom(r, t)'
  <2>1. CASE r \in RowsOf(client.zone)
    <3>0. WaitsFor(r)  BY <1>1, <2>1 DEF AckInv, BatchCounts
    <3>1. acked'[r] = acked[r] + 1  BY <1>1, <2>1
    <3>2. PICK W \in Quorums : W \subseteq Applied(r)  BY <1>1, <2>1 DEF Written
    <3>3. \A n \in W : n \in Nodes /\ cell[n][r].ts = Now
      BY <3>0, <3>2 DEF Applied, WaitsFor
    <3>4. KnownFrom(r, Now)'
      <4> SUFFICES ASSUME NEW Q \in Quorums PROVE \E n \in Q : cell[n][r].ts >= Now
        BY <1>1 DEF KnownFrom
      <4>1. PICK n \in Q : n \in W  BY <3>2, QuorumAssumption
      <4> QED  BY <1>0, <3>3, <4>1, Numbers
    <3>5. CountedFrom(r, Now)'
      <4>1. ASSUME NEW n \in Nodes, cell[n][r].ts >= Now
            PROVE  cell[n][r].value >= acked[r] + 1
        <5>1. cell[n][r].ts = Now  BY <1>0, <4>1, Numbers
        <5>2. cell[n][r].value > acked[r]  BY <3>0, <5>1 DEF WaitsFor
        <5> QED  BY <1>0, <5>2, Numbers
      <4>2. ASSUME NEW m \in owed, m.row = r, m.ts >= Now
            PROVE  m.value >= acked[r] + 1
        <5>1. m.ts = Now  BY <1>0, <4>2, Numbers
        <5>2. m.value > acked[r]  BY <3>0, <4>2, <5>1 DEF WaitsFor
        <5> QED  BY <1>0, <5>2, Numbers
      <4> QED  BY <1>1, <3>1, <4>1, <4>2 DEF CountedFrom
    <3>6. Now \in 0..Now'  BY <1>0, <1>1, Numbers
    <3>7. AckedFrom(r, Now)'  BY <3>4, <3>5 DEF AckedFrom
    <3> QED  BY <1>1, <3>6, <3>7
  <2>2. CASE r \notin RowsOf(client.zone)
    <3>1. acked'[r] = acked[r]  BY <1>1, <2>2
    <3> QED  BY <1>1, <3>1 DEF AckInv, AckedFrom, CountedFrom, KnownFrom
  <2> QED  BY <2>1, <2>2
<1> QED  BY <1>0, <1>1, <1>2, IdleType DEF AckInv, ViewCounts, BatchCounts

\* The client goes on to its next event; the batch may be owed for ever.
LEMMA AckGivesUp ==
  ASSUME AckInv, TimesOut \/ NotLogged \/ ReadFails
  PROVE  AckInv'
<1>0. TypeOK /\ TypeOK'  BY TypeStep DEF AckInv, Next
<1>1. /\ client' = IdleClient /\ UNCHANGED <<cell, batches, acked>> /\ UNCHANGED Now
      /\ owed' \subseteq owed
  BY DEF TimesOut, NotLogged, ReadFails, GiveUp, Now
<1>2. \A r \in Rows : \E t \in 0..Now' : AckedFrom(r, t)'
  BY <1>1 DEF AckInv, AckedFrom, CountedFrom, KnownFrom
<1> QED  BY <1>0, <1>1, <1>2, IdleType DEF AckInv, ViewCounts, BatchCounts

\* A node that gets a mutation is as far as it was before, or further.
LEMMA AckDeliver ==
  ASSUME AckInv, NEW m \in owed, Deliver(m)
  PROVE  AckInv'
<1>0. TypeOK /\ TypeOK'  BY TypeStep DEF AckInv, Next
<1>1. /\ UNCHANGED <<batches, client, acked>> /\ UNCHANGED Now /\ owed' = owed \ {m}
      /\ m.node \in Nodes /\ m.row \in Rows /\ m.ts \in Nat /\ m.ts <= Now
  BY <1>0, DeliverFacts, Numbers DEF Now
<1>2. \A n \in Nodes, r \in Rows :
        \/ cell'[n][r] = cell[n][r]
        \/ /\ n = m.node /\ r = m.row /\ cell[n][r].ts < m.ts
           /\ cell'[n][r].value = m.value /\ cell'[n][r].ts = m.ts
  BY <1>0, DeliverFacts
<1>3. ASSUME NEW r \in Rows PROVE \E t \in 0..Now' : AckedFrom(r, t)'
  <2>1. PICK t \in 0..Now : AckedFrom(r, t)  BY DEF AckInv
  <2>2. CountedFrom(r, t)'
    BY <1>1, <1>2, <2>1 DEF AckedFrom, CountedFrom
  <2>3. KnownFrom(r, t)'
    <3> SUFFICES ASSUME NEW Q \in Quorums PROVE \E n \in Q : cell'[n][r].ts >= t
      BY DEF KnownFrom
    <3>1. PICK n \in Q : cell[n][r].ts >= t  BY <2>1 DEF AckedFrom, KnownFrom
    <3>2. n \in Nodes  BY QuorumAssumption
    <3>3. cell'[n][r].ts >= cell[n][r].ts
      BY <1>0, <1>1, <1>2, <3>2, Numbers
    <3>4. cell[n][r].ts \in Nat /\ t \in Nat  BY <1>0, <3>2, Numbers
    <3>5. cell'[n][r] \in Cell  BY <1>0, <3>2 DEF TypeOK
    <3>6. cell'[n][r].ts \in Nat  BY <3>5 DEF Cell
    <3> QED  BY <3>1, <3>3, <3>4, <3>6
  <2> QED  BY <1>1, <2>2, <2>3 DEF AckedFrom
<1>4. ASSUME client.pc = "wait", NEW r \in RowsOf(client.zone) PROVE WaitsFor(r)'
  <2>0. r \in Rows /\ WaitsFor(r)
    BY <1>0, <1>4 DEF AckInv, BatchCounts, RowsOf, Rows, TypeOK
  <2>1. \A n \in Nodes : cell'[n][r].ts = Now => cell'[n][r].value > acked[r]
    BY <1>1, <1>2, <2>0 DEF WaitsFor
  <2>2. \A x \in owed' : x.row = r /\ x.ts = Now => x.value > acked[r]
    BY <1>1, <2>0 DEF WaitsFor
  <2>3. ASSUME NEW n \in Nodes
        PROVE  \/ cell'[n][r].ts = Now
               \/ \E x \in owed' : x.node = n /\ x.row = r /\ x.ts = Now
    <3>1. CASE cell[n][r].ts = Now
      <4>1. cell'[n][r] = cell[n][r]
        BY <1>0, <1>1, <1>2, <2>0, <3>1, Numbers
      <4> QED  BY <3>1, <4>1
    <3>2. CASE \E x \in owed : x.node = n /\ x.row = r /\ x.ts = Now
      <4> PICK x \in owed : x.node = n /\ x.row = r /\ x.ts = Now  BY <3>2
      <4>1. CASE x # m
        BY <1>1, <4>1
      <4>2. CASE x = m
        <5>1. cell'[n][r].ts >= Now  BY <1>0, <4>2, DeliverFacts
        <5>2. cell'[n][r] \in Cell /\ cell'[n][r].ts <= Now'
          BY <1>0, <2>0 DEF TypeOK
        <5>3. cell'[n][r].ts \in Nat  BY <5>2 DEF Cell
        <5>4. Now \in Nat /\ Now' = Now  BY <1>0, <1>1, Numbers
        <5>5. cell'[n][r].ts = Now
          BY <5>1, <5>2, <5>3, <5>4
        <5> QED  BY <5>5
      <4> QED  BY <4>1, <4>2
    <3> QED  BY <2>0, <3>1, <3>2 DEF WaitsFor
  <2> QED  BY <1>1, <2>1, <2>2, <2>3 DEF WaitsFor
<1> QED  BY <1>0, <1>1, <1>3, <1>4 DEF AckInv, ViewCounts, BatchCounts

LEMMA AckStep == AckInv /\ [Next]_vars => AckInv'
<1> SUFFICES ASSUME AckInv, [Next]_vars PROVE AckInv'  OBVIOUS
<1>1. CASE UNCHANGED vars
  <2>1. TypeOK'  BY <1>1, TypeStep DEF AckInv
  <2> QED
    BY <1>1, <2>1
    DEF vars, AckInv, AckedFrom, CountedFrom, KnownFrom, ViewCounts, BatchCounts, WaitsFor, Now
<1> QED
  BY <1>1, AckRead, AckExecute, AckAcknowledge, AckGivesUp, AckDeliver DEF Next

\* No acknowledged event is lost: for any quorums that meet, and whatever is
\* owed, timed out or replayed from the batchlog, whichever quorum answers a
\* read, the value counts every acknowledged event that changed the row.
THEOREM AckedAlwaysCounted == Spec => []AckedCounted
<1>1. ASSUME AckInv PROVE AckedCounted
  <2> SUFFICES ASSUME NEW r \in Rows, NEW Q \in Quorums, NEW n \in Nodes, NewestOf(Q, n, r)
               PROVE  cell[n][r].value >= acked[r]
    BY DEF AckedCounted
  <2>1. PICK t \in 0..Now : AckedFrom(r, t)  BY <1>1 DEF AckInv
  <2>2. TypeOK /\ t \in Nat  BY <1>1, <2>1, Numbers DEF AckInv
  <2> QED  BY <2>1, <2>2, ReadCounts
<1> QED  BY <1>1, AckInit, AckStep, PTL DEF Spec

----------------------------------------------------------------------------
(* Without a timeout, a read counts the acknowledged events and no others. *)

\* A value of row r of timestamp ts is the number of acknowledged events, or
\* one more in the batch the client waits for.
Exact(r, value, ts) ==
  \/ value = acked[r]
  \/ /\ client.pc = "wait" /\ r \in RowsOf(client.zone) /\ ts = Now
     /\ value = acked[r] + 1

ExactFrom(r, t) ==
  /\ \A n \in Nodes : cell[n][r].ts >= t => Exact(r, cell[n][r].value, cell[n][r].ts)
  /\ \A m \in owed : m.row = r /\ m.ts >= t => Exact(r, m.value, m.ts)
  /\ KnownFrom(r, t)

ViewExact ==
  /\ client.pc \in {"get_inventory_total", "execute_batch"} =>
       client.view[client.zone] = acked[client.zone]
  /\ client.pc = "execute_batch" => client.view[Total] = acked[Total]

ExactInv ==
  /\ AckInv
  /\ timeouts = 0 => (\A r \in Rows : \E t \in 0..Now : ExactFrom(r, t)) /\ ViewExact

\* While the client waits for no batch, a quorum's newest cell is exact.
LEMMA ReadExact ==
  ASSUME TypeOK, client.pc # "wait", NEW r \in Rows, NEW t \in Nat, ExactFrom(r, t),
         NEW Q \in Quorums, NEW n \in Nodes, NewestOf(Q, n, r)
  PROVE  cell[n][r].value = acked[r]
<1>1. PICK x \in Q : cell[x][r].ts >= t  BY DEF ExactFrom, KnownFrom
<1>2. x \in Nodes  BY QuorumAssumption
<1>3. cell[n][r].ts >= cell[x][r].ts  BY <1>1, <1>2, Numbers DEF NewestOf
<1>4. cell[n][r].ts >= t  BY <1>1, <1>2, <1>3, Numbers
<1> QED  BY <1>4 DEF ExactFrom, Exact

LEMMA ExactInit == Init => ExactInv
<1> SUFFICES ASSUME Init PROVE ExactInv  OBVIOUS
<1>1. AckInv /\ TypeOK  BY AckInit, TypeInit
<1>2. client.pc = "idle"  BY DEF Init, IdleClient
<1>3. \A n \in Nodes, r \in Rows : cell[n][r].ts = 0 /\ cell[n][r].value = 0
  BY DEF Init
<1>4. owed = {} /\ \A r \in Rows : acked[r] = 0
  BY DEF Init
<1>5. ASSUME NEW r \in Rows PROVE ExactFrom(r, 0)
  <2>1. \A Q \in Quorums : \E n \in Q : n \in Nodes
    BY QuorumAssumption
  <2> QED  BY <1>3, <1>4, <2>1 DEF ExactFrom, Exact, KnownFrom
<1>6. 0 \in 0..Now  BY <1>1, Numbers
<1> QED  BY <1>1, <1>2, <1>5, <1>6 DEF ExactInv, ViewExact

LEMMA ExactRead ==
  ASSUME ExactInv, timeouts = 0,
         \/ \E z \in Zones, n \in Nodes : get_inventory(z, n)
         \/ \E n \in Nodes : get_inventory_total(n)
  PROVE  (\A r \in Rows : \E t \in 0..Now' : ExactFrom(r, t)') /\ ViewExact'
<1>0. TypeOK /\ client.pc # "wait"
  BY DEF ExactInv, AckInv, get_inventory, get_inventory_total
<1>1. /\ UNCHANGED <<cell, owed, batches, acked>> /\ UNCHANGED Now
      /\ client'.pc # "wait"
  BY <1>0, ReadType DEF Now
<1>2. \A r \in Rows : \E t \in 0..Now' : ExactFrom(r, t)'
  BY <1>0, <1>1 DEF ExactInv, ExactFrom, Exact, KnownFrom
<1>3. ASSUME NEW r \in Rows, NEW n \in Nodes, ReadRow(r, n)
      PROVE  cell[n][r].value = acked[r]
  <2>1. PICK Q \in Quorums : NewestOf(Q, n, r)  BY <1>3 DEF ReadRow
  <2>2. PICK t \in 0..Now : ExactFrom(r, t)  BY DEF ExactInv
  <2> QED  BY <1>0, <2>1, <2>2, ReadExact, Numbers
<1>4. CASE \E z \in Zones, n \in Nodes : get_inventory(z, n)
  <2> PICK z \in Zones, n \in Nodes : get_inventory(z, n)  BY <1>4
  <2> DEFINE v == cell[n][z].value
  <2>1. z \in Rows  BY DEF Rows
  <2>2. v = acked[z]  BY <1>3, <2>1 DEF get_inventory
  <2>3. client' = [pc |-> "get_inventory_total", zone |-> z,
                   view |-> [IdleClient.view EXCEPT ![z] = v]]
    BY DEF get_inventory
  <2>4. IdleClient.view \in [Rows -> Nat]  BY DEF IdleClient
  <2> HIDE DEF v
  <2>5. client'.pc = "get_inventory_total" /\ client'.zone = z /\ client'.view[z] = v
    BY <2>1, <2>3, <2>4
  <2> QED  BY <1>1, <1>2, <2>2, <2>5 DEF ViewExact
<1>5. CASE \E n \in Nodes : get_inventory_total(n)
  <2> PICK n \in Nodes : get_inventory_total(n)  BY <1>5
  <2> DEFINE v == cell[n][Total].value
  <2>1. Total \in Rows /\ client.pc = "get_inventory_total" /\ client \in Client
        /\ client.zone \in Zones
    BY <1>0 DEF Rows, get_inventory_total, TypeOK, Client
  <2>2. v = acked[Total]  BY <1>3, <2>1 DEF get_inventory_total
  <2>3. client' = [client EXCEPT !.pc = "execute_batch", !.view[Total] = v]
    BY DEF get_inventory_total
  <2> HIDE DEF v
  <2>4. /\ client'.pc = "execute_batch" /\ client'.zone = client.zone
        /\ client'.view[Total] = v /\ client'.view[client.zone] = client.view[client.zone]
    BY <2>1, <2>3, TotalAssumption DEF Client
  <2>5. client.view[client.zone] = acked[client.zone]
    BY <2>1 DEF ExactInv, ViewExact
  <2> QED  BY <1>1, <1>2, <2>1, <2>2, <2>4, <2>5 DEF ViewExact
<1> QED  BY <1>4, <1>5

LEMMA ExactExecute ==
  ASSUME ExactInv, timeouts = 0, execute_batch
  PROVE  (\A r \in Rows : \E t \in 0..Now' : ExactFrom(r, t)') /\ ViewExact'
<1>0. TypeOK /\ client.pc = "execute_batch"  BY DEF ExactInv, AckInv, execute_batch
<1>1. /\ Now' = Now + 1 /\ Now \in Nat /\ UNCHANGED <<cell, acked>>
      /\ owed' = owed \cup BatchMutations
      /\ client'.pc = "wait" /\ client'.zone = client.zone
  BY <1>0, ExecuteFacts
<1>2. \A m \in BatchMutations :
        /\ m.ts = Now' /\ m.row \in RowsOf(client'.zone) /\ m.value = acked[m.row] + 1
  BY <1>0, <1>1, ExecuteFacts DEF ExactInv, ViewExact, RowsOf
<1>3. ASSUME NEW r \in Rows PROVE \E t \in 0..Now' : ExactFrom(r, t)'
  <2>1. PICK t \in 0..Now : ExactFrom(r, t)  BY DEF ExactInv
  <2>2. t \in 0..Now'  BY <1>1
  <2>3. \A n \in Nodes : cell[n][r].ts >= t => cell[n][r].value = acked[r]
    BY <1>0, <2>1 DEF ExactFrom, Exact
  <2>4. \A m \in owed : m.row = r /\ m.ts >= t => m.value = acked[r]
    BY <1>0, <2>1 DEF ExactFrom, Exact
  <2>5. KnownFrom(r, t)'
    BY <1>1, <2>1 DEF ExactFrom, KnownFrom
  <2>6. ExactFrom(r, t)'
    BY <1>1, <1>2, <2>3, <2>4, <2>5 DEF ExactFrom, Exact
  <2> QED  BY <2>2, <2>6
<1> QED  BY <1>1, <1>3 DEF ViewExact

LEMMA ExactAcknowledge ==
  ASSUME ExactInv, timeouts = 0, Acknowledge
  PROVE  (\A r \in Rows : \E t \in 0..Now' : ExactFrom(r, t)') /\ ViewExact'
<1>0. TypeOK  BY DEF ExactInv, AckInv
<1>1. /\ client.pc = "wait" /\ client' = IdleClient
      /\ UNCHANGED <<cell, owed, batches>> /\ UNCHANGED Now
      /\ \A r \in RowsOf(client.zone) : Written(r)
      /\ acked' = [r \in Rows |-> IF r \in RowsOf(client.zone) THEN acked[r] + 1 ELSE acked[r]]
  BY DEF Acknowledge, Now
<1>2. ASSUME NEW r \in Rows PROVE \E t \in 0..Now' : ExactFrom(r, t)'
  <2>0. PICK t \in 0..Now : ExactFrom(r, t)  BY DEF ExactInv
  <2>1. CASE r \in RowsOf(client.zone)
    <3>0. WaitsFor(r)  BY <1>1, <2>1 DEF ExactInv, AckInv, BatchCounts
    <3>1. acked'[r] = acked[r] + 1  BY <1>1, <2>1
    <3>2. PICK W \in Quorums : W \subseteq Applied(r)  BY <1>1, <2>1 DEF Written
    <3>3. \A n \in W : n \in Nodes /\ cell[n][r].ts = Now
      BY <3>0, <3>2 DEF Applied, WaitsFor
    <3>4. KnownFrom(r, Now)'
      <4> SUFFICES ASSUME NEW Q \in Quorums PROVE \E n \in Q : cell[n][r].ts >= Now
        BY <1>1 DEF KnownFrom
      <4>1. PICK n \in Q : n \in W  BY <3>2, QuorumAssumption
      <4> QED  BY <1>0, <3>3, <4>1, Numbers
    <3>5. ASSUME NEW n \in Nodes, cell[n][r].ts >= Now
          PROVE  cell[n][r].value = acked[r] + 1
      <4>0. Now \in Nat /\ cell[n][r].ts \in Nat /\ cell[n][r].ts <= Now
        BY <1>0, Numbers
      <4>1. cell[n][r].ts = Now /\ Now >= t  BY <3>5, <4>0
      <4>2. cell[n][r].value > acked[r]  BY <3>0, <4>1 DEF WaitsFor
      <4>3. Exact(r, cell[n][r].value, cell[n][r].ts)
        BY <2>0, <4>1 DEF ExactFrom
      <4> QED  BY <1>0, <4>2, <4>3, Numbers DEF Exact
    <3>6. ASSUME NEW m \in owed, m.row = r, m.ts >= Now
          PROVE  m.value = acked[r] + 1
      <4>0. Now \in Nat /\ m.ts \in Nat /\ m.ts <= Now  BY <1>0, Numbers
      <4>1. m.ts = Now /\ Now >= t  BY <3>6, <4>0
      <4>2. m.value > acked[r]  BY <3>0, <3>6, <4>1 DEF WaitsFor
      <4>3. Exact(r, m.value, m.ts)
        BY <2>0, <3>6, <4>1 DEF ExactFrom
      <4> QED  BY <1>0, <4>2, <4>3, Numbers DEF Exact
    <3>7. ExactFrom(r, Now)'
      BY <1>1, <3>1, <3>4, <3>5, <3>6 DEF ExactFrom, Exact
    <3>8. Now \in 0..Now'  BY <1>0, <1>1, Numbers
    <3> QED  BY <1>1, <3>7, <3>8
  <2>2. CASE r \notin RowsOf(client.zone)
    <3>1. acked'[r] = acked[r]  BY <1>1, <2>2
    <3>2. ExactFrom(r, t)'
      BY <1>1, <2>0, <2>2, <3>1 DEF ExactFrom, Exact, KnownFrom
    <3> QED  BY <1>1, <3>2
  <2> QED  BY <2>1, <2>2
<1> QED  BY <1>1, <1>2, IdleType DEF ViewExact

LEMMA ExactDeliver ==
  ASSUME ExactInv, timeouts = 0, NEW m \in owed, Deliver(m)
  PROVE  (\A r \in Rows : \E t \in 0..Now' : ExactFrom(r, t)') /\ ViewExact'
<1>0. TypeOK /\ TypeOK'  BY TypeStep DEF ExactInv, AckInv, Next
<1>1. /\ UNCHANGED <<batches, client, acked>> /\ UNCHANGED Now /\ owed' = owed \ {m}
      /\ m.node \in Nodes /\ m.row \in Rows /\ m.ts \in Nat /\ m.ts <= Now
  BY <1>0, DeliverFacts, Numbers DEF Now
<1>2. \A n \in Nodes, r \in Rows :
        \/ cell'[n][r] = cell[n][r]
        \/ /\ n = m.node /\ r = m.row /\ cell[n][r].ts < m.ts
           /\ cell'[n][r].value = m.value /\ cell'[n][r].ts = m.ts
  BY <1>0, DeliverFacts
<1>3. ASSUME NEW r \in Rows PROVE \E t \in 0..Now' : ExactFrom(r, t)'
  <2>1. PICK t \in 0..Now : ExactFrom(r, t)  BY DEF ExactInv
  <2>2. \A n \in Nodes : cell'[n][r].ts >= t => Exact(r, cell'[n][r].value, cell'[n][r].ts)
    BY <1>1, <1>2, <2>1 DEF ExactFrom
  <2>3. KnownFrom(r, t)'
    <3> SUFFICES ASSUME NEW Q \in Quorums PROVE \E n \in Q : cell'[n][r].ts >= t
      BY DEF KnownFrom
    <3>1. PICK n \in Q : cell[n][r].ts >= t  BY <2>1 DEF ExactFrom, KnownFrom
    <3>2. n \in Nodes  BY QuorumAssumption
    <3>3. cell'[n][r].ts >= cell[n][r].ts
      BY <1>0, <1>1, <1>2, <3>2, Numbers
    <3>4. cell[n][r].ts \in Nat /\ t \in Nat  BY <1>0, <3>2, Numbers
    <3>5. cell'[n][r] \in Cell  BY <1>0, <3>2 DEF TypeOK
    <3>6. cell'[n][r].ts \in Nat  BY <3>5 DEF Cell
    <3> QED  BY <3>1, <3>3, <3>4, <3>6
  <2>4. ExactFrom(r, t)'
    BY <1>1, <2>1, <2>2, <2>3 DEF ExactFrom, Exact
  <2> QED  BY <1>1, <2>4
<1> QED  BY <1>1, <1>3 DEF ExactInv, ViewExact

LEMMA ExactStep == ExactInv /\ [Next]_vars => ExactInv'
<1> SUFFICES ASSUME ExactInv, [Next]_vars PROVE ExactInv'  OBVIOUS
<1>0. AckInv' /\ TypeOK  BY AckStep DEF ExactInv, AckInv
<1>1. CASE UNCHANGED vars
  BY <1>0, <1>1 DEF vars, ExactInv, ExactFrom, Exact, KnownFrom, ViewExact, Now
<1>2. CASE TimesOut \/ NotLogged
  <2>1. timeouts' = timeouts + 1 /\ timeouts \in Nat
    BY <1>0, <1>2 DEF TimesOut, NotLogged, GiveUp, TypeOK
  <2> QED  BY <1>0, <2>1 DEF ExactInv
<1>3. CASE ReadFails
  <2>1. /\ client' = IdleClient /\ UNCHANGED <<cell, owed, batches, acked, timeouts>>
        /\ UNCHANGED Now /\ client.pc # "wait"
    BY <1>3 DEF ReadFails, Now
  <2> QED
    BY <1>0, <2>1, IdleType DEF ExactInv, ExactFrom, Exact, KnownFrom, ViewExact
<1>4. CASE \/ \E z \in Zones, n \in Nodes : get_inventory(z, n)
           \/ \E n \in Nodes : get_inventory_total(n)
           \/ execute_batch \/ Acknowledge \/ \E m \in owed : Deliver(m)
  <2>1. UNCHANGED timeouts
    <3>1. CASE execute_batch  BY <1>0, <3>1, ExecuteFacts
    <3>2. CASE Acknowledge  BY <3>2 DEF Acknowledge
    <3>3. CASE \E m \in owed : Deliver(m)  BY <1>0, <3>3, DeliverFacts
    <3> QED  BY <1>0, <1>4, <3>1, <3>2, <3>3, ReadType
  <2> QED
    BY <1>0, <1>4, <2>1, ExactRead, ExactExecute, ExactAcknowledge, ExactDeliver DEF ExactInv
<1> QED  BY <1>1, <1>2, <1>3, <1>4 DEF Next

\* Until a batch times out, a quorum read between two batches gives the number
\* of acknowledged events and counts nothing else.
THEOREM CountsAlwaysExact == Spec => []CountsExact
<1>1. ASSUME ExactInv PROVE CountsExact
  <2> SUFFICES ASSUME timeouts = 0, client.pc # "wait", NEW r \in Rows, NEW Q \in Quorums,
                      NEW n \in Nodes, NewestOf(Q, n, r)
               PROVE  cell[n][r].value = acked[r]
    BY DEF CountsExact
  <2>1. PICK t \in 0..Now : ExactFrom(r, t)  BY <1>1 DEF ExactInv
  <2>2. TypeOK /\ t \in Nat  BY <1>1, <2>1, Numbers DEF ExactInv, AckInv
  <2> QED  BY <2>1, <2>2, ReadExact
<1> QED  BY <1>1, ExactInit, ExactStep, PTL DEF Spec

----------------------------------------------------------------------------
(* A batch reaches all its rows or none.                                   *)

\* Writes are on the rows of their batch, and a node that is owed one does not
\* have it.
Placed ==
  /\ client.pc = "wait" => Now >= 1 /\ batches[Now] = client.zone
  /\ \A n \in Nodes, r \in Rows :
       cell[n][r].ts # 0 => r \in RowsOf(batches[cell[n][r].ts])
  /\ \A m \in owed :
       m.ts >= 1 /\ m.row \in RowsOf(batches[m.ts]) /\ cell[m.node][m.row].ts # m.ts
  /\ \A m, x \in owed : m.node = x.node /\ m.row = x.row /\ m.ts = x.ts => m = x

\* Nobody has batch t or is owed it; or everybody is as far as it or is owed it.
Absent(t) ==
  /\ \A n \in Nodes, r \in Rows : cell[n][r].ts # t
  /\ \A m \in owed : m.ts # t

Spread(t) ==
  \A n \in Nodes : \A r \in RowsOf(batches[t]) :
    cell[n][r].ts >= t \/ \E m \in owed : m.node = n /\ m.row = r /\ m.ts = t

AtomicInv == TypeOK /\ Placed /\ \A t \in 1..Now : Absent(t) \/ Spread(t)

LEMMA AtomicInit == Init => AtomicInv
<1> SUFFICES ASSUME Init PROVE AtomicInv  OBVIOUS
<1>1. TypeOK /\ Now = 0  BY TypeInit DEF Init, Now
<1>2. client.pc = "idle" /\ owed = {} /\ \A n \in Nodes, r \in Rows : cell[n][r].ts = 0
  BY DEF Init, IdleClient
<1> QED  BY <1>1, <1>2 DEF AtomicInv, Placed

\* A batch of the past keeps its zone.
LEMMA AtomicExecute ==
  ASSUME AtomicInv, execute_batch
  PROVE  AtomicInv'
<1>0. TypeOK /\ TypeOK'  BY TypeStep DEF AtomicInv, Next
<1>1. /\ Now' = Now + 1 /\ Now \in Nat /\ UNCHANGED cell
      /\ owed' = owed \cup BatchMutations /\ client.zone \in Zones
      /\ client'.pc = "wait" /\ client'.zone = client.zone
      /\ batches' = Append(batches, client.zone)
      /\ \A m \in BatchMutations : m.ts = Now + 1 /\ m.row \in RowsOf(client.zone)
      /\ BatchMutations \subseteq Mutation
  BY <1>0, ExecuteFacts
<1>2. /\ batches'[Now + 1] = client.zone
      /\ \A t \in 1..Now : batches'[t] = batches[t]
  BY <1>0, <1>1, AppendBatch
<1>3. \A n \in Nodes, r \in Rows :
        cell[n][r].ts \in Nat /\ cell[n][r].ts # Now + 1
        /\ (cell[n][r].ts # 0 => cell[n][r].ts \in 1..Now)
  BY <1>0, Numbers
<1>4. \A m \in owed : m.ts \in 1..Now /\ m.ts # Now + 1
  BY <1>0, Numbers DEF AtomicInv, Placed
<1>5. \A m, x \in BatchMutations : m.node = x.node /\ m.row = x.row => m = x
  BY DEF BatchMutations
<1>6. \A n \in Nodes : \A r \in RowsOf(client.zone) :
        \E m \in BatchMutations : m.node = n /\ m.row = r /\ m.ts = Now + 1
  <2> TAKE n \in Nodes
  <2> TAKE r \in RowsOf(client.zone)
  <2> DEFINE x == [node |-> n, row |-> r, value |-> client.view[r] + 1, ts |-> Len(batches) + 1]
  <2>1. x \in BatchMutations  BY DEF BatchMutations
  <2>2. x.node = n /\ x.row = r /\ x.ts = Now + 1  BY DEF Now
  <2> HIDE DEF x
  <2> QED  BY <2>1, <2>2
<1>7. Placed'
  <2>1. \A n \in Nodes, r \in Rows : cell'[n][r].ts # 0 => r \in RowsOf(batches'[cell'[n][r].ts])
    BY <1>1, <1>2, <1>3 DEF AtomicInv, Placed
  <2>2. ASSUME NEW m \in owed'
        PROVE  /\ m.ts >= 1 /\ m.row \in RowsOf(batches'[m.ts])
               /\ cell'[m.node][m.row].ts # m.ts
    <3>1. CASE m \in owed
      BY <1>1, <1>2, <1>4, <3>1 DEF AtomicInv, Placed
    <3>2. CASE m \in BatchMutations
      <4>1. m.ts = Now + 1 /\ m.row \in RowsOf(client.zone) /\ m.node \in Nodes /\ m.row \in Rows
        BY <1>1, <3>2 DEF Mutation
      <4>2. cell'[m.node][m.row].ts # m.ts  BY <1>1, <1>3, <4>1
      <4>3. m.ts >= 1
        <5>1. Now \in Nat  BY <1>1
        <5> QED  BY <4>1, <5>1
      <4>4. m.row \in RowsOf(batches'[m.ts])  BY <1>2, <4>1
      <4> QED  BY <4>2, <4>3, <4>4
    <3> QED  BY <1>1, <3>1, <3>2
  <2>3. \A m, x \in owed' : m.node = x.node /\ m.row = x.row /\ m.ts = x.ts => m = x
    BY <1>1, <1>4, <1>5 DEF AtomicInv, Placed
  <2>4. Now' >= 1 /\ batches'[Now'] = client'.zone
    BY <1>1, <1>2
  <2> QED  BY <2>1, <2>2, <2>3, <2>4 DEF Placed
<1>8. ASSUME NEW t \in 1..Now' PROVE Absent(t)' \/ Spread(t)'
  <2>1. CASE t \in 1..Now
    <3>1. Absent(t) \/ Spread(t)  BY <2>1 DEF AtomicInv
    <3>0. Now \in Nat  BY <1>1
    <3>2. t # Now + 1 /\ batches'[t] = batches[t]  BY <1>2, <2>1, <3>0
    <3>3. Absent(t) => Absent(t)'
      BY <1>1, <3>2 DEF Absent
    <3>4. Spread(t) => Spread(t)'
      BY <1>1, <3>2 DEF Spread
    <3> QED  BY <3>1, <3>3, <3>4
  <2>2. CASE t = Now + 1
    BY <1>1, <1>2, <1>6, <2>2 DEF Spread
  <2> QED  BY <1>1, <2>1, <2>2
<1> QED  BY <1>0, <1>7, <1>8 DEF AtomicInv

\* A batch that did not get into the batchlog is nowhere.
LEMMA AtomicNotLogged ==
  ASSUME AtomicInv, NotLogged
  PROVE  AtomicInv'
<1>0. TypeOK /\ TypeOK'  BY TypeStep DEF AtomicInv, Next
<1>1. /\ client.pc = "wait" /\ client' = IdleClient
      /\ UNCHANGED <<cell, batches>> /\ UNCHANGED Now
      /\ \A r \in RowsOf(client.zone) : Applied(r) = {}
      /\ owed' = {m \in owed : m.ts # Now}
  BY DEF NotLogged, GiveUp, Now
<1>2. Placed'
  BY <1>1, IdleType DEF AtomicInv, Placed
<1>3. ASSUME NEW t \in 1..Now' PROVE Absent(t)' \/ Spread(t)'
  <2>1. CASE t = Now
    <3>1. ASSUME NEW n \in Nodes, NEW r \in Rows, cell[n][r].ts = Now PROVE FALSE
      <4>1. r \in RowsOf(client.zone)
        BY <1>0, <1>1, <3>1, Numbers DEF AtomicInv, Placed
      <4>2. PICK m \in owed : m.node = n /\ m.row = r /\ m.ts = Now
        BY <1>1, <4>1 DEF Applied
      <4> QED  BY <3>1, <4>2 DEF AtomicInv, Placed
    <3> QED  BY <1>1, <2>1, <3>1 DEF Absent
  <2>2. CASE t # Now
    <3>1. Absent(t) \/ Spread(t)  BY <1>1 DEF AtomicInv
    <3> QED  BY <1>1, <2>2, <3>1 DEF Absent, Spread
  <2> QED  BY <2>1, <2>2
<1> QED  BY <1>0, <1>2, <1>3 DEF AtomicInv

LEMMA AtomicDeliver ==
  ASSUME AtomicInv, NEW m \in owed, Deliver(m)
  PROVE  AtomicInv'
<1>0. TypeOK /\ TypeOK'  BY TypeStep DEF AtomicInv, Next
<1>1. /\ UNCHANGED <<batches, client>> /\ UNCHANGED Now /\ owed' = owed \ {m}
      /\ m.node \in Nodes /\ m.row \in Rows /\ m.ts \in Nat /\ m.ts >= 1
  BY <1>0, DeliverFacts, Numbers DEF Now, AtomicInv, Placed
<1>2. \A n \in Nodes, r \in Rows :
        \/ cell'[n][r] = cell[n][r]
        \/ /\ n = m.node /\ r = m.row /\ cell[n][r].ts < m.ts /\ cell'[n][r].ts = m.ts
  BY <1>0, DeliverFacts
<1>3. \A n \in Nodes, r \in Rows :
        cell[n][r].ts \in Nat /\ cell'[n][r].ts \in Nat /\ cell'[n][r].ts >= cell[n][r].ts
  <2>1. \A n \in Nodes, r \in Rows : cell[n][r].ts \in Nat  BY <1>0, Numbers
  <2> QED  BY <1>1, <1>2, <2>1
<1>4. Placed'
  <2>1. \A n \in Nodes, r \in Rows : cell'[n][r].ts # 0 => r \in RowsOf(batches[cell'[n][r].ts])
    BY <1>2 DEF AtomicInv, Placed
  <2>2. ASSUME NEW x \in owed' PROVE cell'[x.node][x.row].ts # x.ts
    <3>1. x \in owed /\ x # m /\ x.node \in Nodes /\ x.row \in Rows
      BY <1>0, <1>1, Numbers
    <3> QED  BY <1>2, <3>1 DEF AtomicInv, Placed
  <2> QED  BY <1>1, <2>1, <2>2 DEF AtomicInv, Placed
<1>5. ASSUME NEW t \in 1..Now' PROVE Absent(t)' \/ Spread(t)'
  <2>1. CASE Absent(t)
    <3>1. m.ts # t  BY <2>1 DEF Absent
    <3> QED  BY <1>1, <1>2, <2>1, <3>1 DEF Absent
  <2>2. CASE Spread(t)
    <3> SUFFICES ASSUME NEW n \in Nodes, NEW r \in RowsOf(batches[t])
                 PROVE  \/ cell'[n][r].ts >= t
                        \/ \E x \in owed' : x.node = n /\ x.row = r /\ x.ts = t
      BY <1>1 DEF Spread
    <3>0. r \in Rows /\ t \in Nat
      <4>1. batches \in Seq(Zones) /\ t \in 1..Len(batches)
        BY <1>0, <1>1 DEF TypeOK, Now
      <4>2. batches[t] \in Zones  BY <4>1
      <4> QED  BY <4>1, <4>2 DEF RowsOf, Rows
    <3>1. CASE cell[n][r].ts >= t
      <4>1. cell'[n][r].ts >= cell[n][r].ts /\ cell'[n][r].ts \in Nat /\ cell[n][r].ts \in Nat
        BY <1>3, <3>0
      <4> QED  BY <3>0, <3>1, <4>1
    <3>2. CASE \E x \in owed : x.node = n /\ x.row = r /\ x.ts = t
      <4> PICK x \in owed : x.node = n /\ x.row = r /\ x.ts = t  BY <3>2
      <4>1. CASE x = m
        BY <1>0, <4>1, DeliverFacts
      <4>2. CASE x # m
        BY <1>1, <4>2
      <4> QED  BY <4>1, <4>2
    <3> QED  BY <2>2, <3>1, <3>2 DEF Spread
  <2> QED  BY <1>1, <2>1, <2>2 DEF AtomicInv
<1> QED  BY <1>0, <1>4, <1>5 DEF AtomicInv

LEMMA AtomicStep == AtomicInv /\ [Next]_vars => AtomicInv'
<1> SUFFICES ASSUME AtomicInv, [Next]_vars PROVE AtomicInv'  OBVIOUS
<1>0. TypeOK /\ TypeOK'  BY TypeStep DEF AtomicInv
<1>1. CASE \/ UNCHANGED vars \/ Acknowledge \/ TimesOut \/ ReadFails
           \/ \E z \in Zones, n \in Nodes : get_inventory(z, n)
           \/ \E n \in Nodes : get_inventory_total(n)
  <2>1. UNCHANGED <<cell, owed, batches>> /\ UNCHANGED Now
    BY <1>1 DEF vars, Acknowledge, TimesOut, ReadFails, GiveUp, get_inventory,
       get_inventory_total, Now
  <2>2. client' = client \/ client'.pc # "wait"
    BY <1>0, <1>1, IdleType, ReadType DEF vars, Acknowledge, TimesOut, ReadFails, GiveUp
  <2> QED  BY <1>0, <2>1, <2>2 DEF AtomicInv, Placed, Absent, Spread
<1> QED  BY <1>1, AtomicExecute, AtomicNotLogged, AtomicDeliver DEF Next

\* A batch that changed one row on one node has changed, or will change, all its
\* rows on all nodes, though the coordinator gave it up: for any nodes and any
\* number of batches in flight.
THEOREM BatchesAtomic == Spec => []BatchAtomic
<1>1. ASSUME AtomicInv PROVE BatchAtomic
  <2>1. DOMAIN batches = 1..Now
    BY <1>1, LenProperties DEF AtomicInv, TypeOK, Now
  <2> QED  BY <1>1, <2>1 DEF AtomicInv, BatchAtomic, Absent, Spread
<1> QED  BY <1>1, AtomicInit, AtomicStep, PTL DEF Spec
=============================================================================
