---------------------------- MODULE CassandraBatch ----------------------------
(***************************************************************************)
(* The logged batch of WarehouseRepository on the replicas of the keyspace *)
(* (replication factor 3, every row on every node), where EventProcessor   *)
(* has tables that change at once.  An event reads the row of a zone and   *)
(* the total of its product, adds one unit to both and writes both rows in *)
(* one batch.                                                              *)
(*                                                                         *)
(* A node that is down is one that receives nothing for a while and is in  *)
(* no quorum that answers; read repair is a mutation that arrives early.   *)
(***************************************************************************)
EXTENDS Integers, Sequences, FiniteSets

CONSTANTS Zones,        \* the zones a product is in
          Total,        \* the row of its totals
          Nodes,        \* the replicas
          Quorums,      \* sets of nodes that make a quorum
          MaxEvents,    \* bound: how many batches are sent
          MaxTimeouts   \* bound: how many batches the coordinator gives up

Rows == Zones \cup {Total}

ASSUME TotalAssumption == Total \notin Zones

\* read quorum + write quorum > replication factor (README.md:173).
ASSUME QuorumAssumption ==
  /\ Quorums \subseteq SUBSET Nodes
  /\ \A Q, R \in Quorums : Q \cap R # {}

ASSUME BoundAssumption == MaxEvents \in Nat /\ MaxTimeouts \in Nat

VARIABLES
  cell,      \* [node][row] -> its value and the timestamp of its write
  owed,      \* mutations in a batchlog or a hint that a node has not applied
  batches,   \* the zone of each batch sent; its timestamp is its place
  client,    \* the call of process() the consumer is in
  acked,     \* history: [row] -> acknowledged events that changed it
  timeouts   \* batches the coordinator gave up

vars == <<cell, owed, batches, client, acked, timeouts>>

Cell == [value : Nat, ts : Nat]
Mutation == [node : Nodes, row : Rows, value : Nat, ts : Nat]

\* pc names the next database call; view holds the values read.
IdleClient == [pc |-> "idle", zone |-> Total, view |-> [r \in Rows |-> 0]]

\* The driver's timestamps grow from batch to batch.
Now == Len(batches)

RowsOf(z) == {z, Total}

Init ==
  /\ cell = [n \in Nodes |-> [r \in Rows |-> [value |-> 0, ts |-> 0]]]
  /\ owed = {}
  /\ batches = <<>>
  /\ client = IdleClient
  /\ acked = [r \in Rows |-> 0]
  /\ timeouts = 0

----------------------------------------------------------------------------
(* The consumer. *)

\* A QUORUM read returns the newest of the cells of a quorum.
NewestOf(S, n, r) == n \in S /\ \A m \in S : cell[m][r].ts <= cell[n][r].ts

\* Mutant: the consistency level of reads is ONE.
ReadRow_One(r, n) == n \in Nodes

ReadRow(r, n) == \E Q \in Quorums : NewestOf(Q, n, r)

get_inventory(z, n) ==
  /\ client.pc = "idle"
  /\ ReadRow(z, n)
  /\ client' = [pc   |-> "get_inventory_total", zone |-> z,
                view |-> [IdleClient.view EXCEPT ![z] = cell[n][z].value]]
  /\ UNCHANGED <<cell, owed, batches, acked, timeouts>>

get_inventory_total(n) ==
  /\ client.pc = "get_inventory_total"
  /\ ReadRow(Total, n)
  /\ client' = [client EXCEPT !.pc = "execute_batch", !.view[Total] = cell[n][Total].value]
  /\ UNCHANGED <<cell, owed, batches, acked, timeouts>>

\* Mutant: the sign of the quantity is swapped.
execute_batch_Sign ==
  /\ client.pc = "execute_batch"
  /\ Len(batches) < MaxEvents
  /\ batches' = Append(batches, client.zone)
  /\ owed' = owed \cup
       {[node |-> n, row |-> r, value |-> client.view[r] - 1, ts |-> Len(batches) + 1] :
          n \in Nodes, r \in RowsOf(client.zone)}
  /\ client' = [client EXCEPT !.pc = "wait"]
  /\ UNCHANGED <<cell, acked, timeouts>>

\* session.execute(batch): the coordinator has written the batchlog and owes
\* every replica its rows.
execute_batch ==
  /\ client.pc = "execute_batch"
  /\ Len(batches) < MaxEvents
  /\ batches' = Append(batches, client.zone)
  /\ owed' = owed \cup
       {[node |-> n, row |-> r, value |-> client.view[r] + 1, ts |-> Len(batches) + 1] :
          n \in Nodes, r \in RowsOf(client.zone)}
  /\ client' = [client EXCEPT !.pc = "wait"]
  /\ UNCHANGED <<cell, acked, timeouts>>

\* The nodes that have applied the batch to row r.
Applied(r) == {n \in Nodes : \A m \in owed : ~(m.node = n /\ m.row = r /\ m.ts = Now)}

\* Mutant: the consistency level of writes is ONE.
Written_One(r) == Applied(r) # {}

\* A QUORUM write is acknowledged by a quorum.
Written(r) == \E Q \in Quorums : Q \subseteq Applied(r)

Acknowledge ==
  /\ client.pc = "wait"
  /\ \A r \in RowsOf(client.zone) : Written(r)
  /\ acked' = [r \in Rows |-> IF r \in RowsOf(client.zone) THEN acked[r] + 1 ELSE acked[r]]
  /\ client' = IdleClient
  /\ UNCHANGED <<cell, owed, batches, timeouts>>

GiveUp ==
  /\ client.pc = "wait"
  /\ timeouts < MaxTimeouts
  /\ timeouts' = timeouts + 1
  /\ client' = IdleClient
  /\ UNCHANGED <<cell, batches, acked>>

\* Mutant: the batch is UNLOGGED.
TimesOut_Unlogged ==
  /\ GiveUp
  /\ owed' = {m \in owed : m.ts # Now}

\* execute() raises a timeout; the batchlog has the batch.
TimesOut ==
  /\ GiveUp
  /\ UNCHANGED owed

\* execute() raises before the batchlog is written.
NotLogged ==
  /\ GiveUp
  /\ \A r \in RowsOf(client.zone) : Applied(r) = {}
  /\ owed' = {m \in owed : m.ts # Now}

\* A read raises; the event is dead-lettered, and the next one begins.
ReadFails ==
  /\ client.pc = "get_inventory_total"
  /\ client' = IdleClient
  /\ UNCHANGED <<cell, owed, batches, acked, timeouts>>

----------------------------------------------------------------------------
(* Cassandra. *)

\* A node gets a mutation, from the coordinator, a hint or the replay of the
\* batchlog.  The later timestamp wins.
Deliver(m) ==
  /\ m \in owed
  /\ owed' = owed \ {m}
  /\ cell' = IF cell[m.node][m.row].ts < m.ts
             THEN [cell EXCEPT ![m.node][m.row] = [value |-> m.value, ts |-> m.ts]]
             ELSE cell
  /\ UNCHANGED <<batches, client, acked, timeouts>>

Next ==
  \/ \E z \in Zones, n \in Nodes : get_inventory(z, n)
  \/ \E n \in Nodes : get_inventory_total(n)
  \/ execute_batch
  \/ Acknowledge
  \/ TimesOut
  \/ NotLogged
  \/ ReadFails
  \/ \E m \in owed : Deliver(m)

Spec == Init /\ [][Next]_vars

----------------------------------------------------------------------------
(* Properties. *)

\* The cells, mutations and counts have their types, and no timestamp is of
\* the future.
TypeOK ==
  /\ cell \in [Nodes -> [Rows -> Cell]]
  /\ owed \subseteq Mutation
  /\ batches \in Seq(Zones)
  /\ client \in [pc   : {"idle", "get_inventory_total", "execute_batch", "wait"},
                 zone : Rows, view : [Rows -> Nat]]
  /\ client.pc # "idle" => client.zone \in Zones
  /\ acked \in [Rows -> Nat]
  /\ timeouts \in Nat
  /\ \A n \in Nodes, r \in Rows : cell[n][r].ts <= Now
  /\ \A m \in owed : m.ts <= Now

\* No acknowledged event is lost (README.md:176-178): whichever quorum answers,
\* a read counts every acknowledged event that changed the row, whatever is
\* still owed, timed out or replayed.
AckedCounted ==
  \A r \in Rows, Q \in Quorums : \A n \in Nodes :
    NewestOf(Q, n, r) => cell[n][r].value >= acked[r]

\* As long as no batch has timed out, a quorum read between two batches counts
\* the acknowledged events and nothing else, so all quorums read the same.
CountsExact ==
  timeouts = 0 /\ client.pc # "wait" =>
    \A r \in Rows, Q \in Quorums : \A n \in Nodes :
      NewestOf(Q, n, r) => cell[n][r].value = acked[r]

\* A batch that changed one row on one node has changed all its rows on all
\* nodes, or a later batch has, or the change is still owed, though the
\* coordinator gave the batch up (docs/task.md:146).
BatchAtomic ==
  \A t \in DOMAIN batches :
    (\E n \in Nodes, r \in Rows : cell[n][r].ts = t) =>
      \A n \in Nodes : \A r \in RowsOf(batches[t]) :
        cell[n][r].ts >= t \/ \E m \in owed : m.node = n /\ m.row = r /\ m.ts = t

\* It never happens that inventory_by_zone was updated and inventory_by_product
\* was not (docs/task.md:147): once nothing is owed, the total of the product
\* counts the units of its zones.
RowsAgree ==
  client.pc = "idle" /\ owed = {} =>
    \A n \in Nodes :
      cell[n][Total].value = Cardinality(UNION {{z} \X (1..cell[n][z].value) : z \in Zones})
=============================================================================
