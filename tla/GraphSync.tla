------------------------------- MODULE GraphSync -------------------------------
(***************************************************************************)
(* The pipeline from Kafka to Neo4j: the consumer replicas of              *)
(* ConsumerWorker handle records whose events are those of GraphService,   *)
(* and each transaction of a handler is the one the event's handler makes  *)
(* on the graph.  A transaction a loop gave up on, or left to a thread,    *)
(* changes the graph if it took effect, and only then.                     *)
(***************************************************************************)
EXTENDS GraphReplica, Sequences

CONSTANTS
  Partition, Log, Replica, Nobody, Nothing, BatchSize,
  NeoFaults, CommitFaults, MaxStops, MaxRebalances,
  NoEvent            \* the event of a record that has none

VARIABLES
  written, marked, givenUp, committed,
  pc, pending, cur, part, owner, position, orphans, stops, rebalances

Worker == INSTANCE ConsumerWorker
            WITH Event <- Events \cup {NoEvent}, TwoStep <- MessageEvents

ASSUME SyncAssumption ==
  /\ Log \in [Partition -> Seq(Worker!Record)]
  /\ Nobody \notin Replica
  /\ Nothing \notin Partition \X Nat
  /\ BatchSize \in Nat \ {0}
  /\ NeoFaults \in BOOLEAN /\ CommitFaults \in BOOLEAN
  /\ MaxStops \in Nat /\ MaxRebalances \in Nat

sync == <<vars, Worker!vars>>

SyncInit == Init /\ Worker!WorkerInit

\* The transaction of e's handler that is its k-th.
Transaction(e, k) ==
  \/ e \in CreatedEvents /\ ProcessConversationCreated(e)
  \/ e \in DeletedEvents /\ ProcessConversationDeleted(e)
  \/ e \in UpdatedEvents /\ ProcessConversationUpdated(e)
  \/ e \in MessageEvents /\ k = 1 /\ CreateMessageNode(e)
  \/ e \in MessageEvents /\ k = 2 /\ CreateMessageRelationships(e)

Handle(r) ==
  /\ Worker!WriteGraph(r)
  /\ Transaction(Worker!Rec(r).event, part[r])

Fail(r) ==
  \/ Worker!FailAs(r, FALSE) /\ UNCHANGED vars
  \/ /\ Worker!FailAs(r, TRUE)
     /\ Transaction(Worker!Rec(r).event, part[r])

Land(op) ==
  \/ op[1] = "write" /\ Worker!LandAs(op, TRUE) /\ Transaction(op[2], op[3])
  \/ op[1] = "mark"  /\ Worker!LandAs(op, TRUE) /\ UNCHANGED vars
  \/ Worker!LandAs(op, FALSE) /\ UNCHANGED vars

\* The steps of a loop that do not write the graph.  Kafka calls do not raise
\* here: ConsumerWorker has the loop that they end.
Bookkeeping(r) ==
  /\ \/ Worker!Poll(r) \/ Worker!PollNothing(r) \/ Worker!Commit(r)
     \/ \E p \in Partition : Worker!Take(r, p)
     \/ Worker!Check(r) \/ Worker!Mark(r)
  /\ UNCHANGED vars

Loop(r) == Bookkeeping(r) \/ Handle(r) \/ Fail(r)

Restart(r) == Worker!Start(r) /\ UNCHANGED vars
GoDown(r)  == Worker!GoDown(r) /\ UNCHANGED vars
Assign(p, r)    == Worker!Assign(p, r) /\ UNCHANGED vars
Rebalance(p, r) == Worker!Rebalance(p, r) /\ UNCHANGED vars

SyncNext ==
  \/ \E r \in Replica : Restart(r) \/ GoDown(r) \/ Loop(r)
  \/ \E op \in orphans : Land(op)
  \/ \E p \in Partition, r \in Replica : Assign(p, r) \/ Rebalance(p, r)

SyncSpec == SyncInit /\ [][SyncNext]_sync

(* A process that is down is restarted by its supervisor, the loop of a live
   process is scheduled, and the coordinator assigns what nobody owns.  Stops,
   rebalances and faults are never owed, nor the end of an orphaned transaction. *)
SyncFairness ==
  /\ \A r \in Replica : WF_sync(Restart(r)) /\ WF_sync(Loop(r))
  /\ \A p \in Partition : WF_sync(\E r \in Replica : Assign(p, r))

FairSyncSpec == SyncSpec /\ SyncFairness

-------------------------------------------------------------------------------

\* The facts of all the transactions that took effect.
Published == UNION {Gain(t[1], t[2]) : t \in written}

\* All that event e has to say is in the graph.
Visible(e) == \A k \in Worker!Parts(e) : Gain(e, k) \subseteq Known

(* The graph holds what the transactions that took effect brought, no less and
   no more: a thread that outlives its loop, a failure with effect and a second
   delivery leave no half-applied event and no invented fact. *)
GraphIsWhatWasWritten == Known = Published

(* What the group has committed, and what the gate will skip from now on, is in
   the graph, unless the worker gave it up: no reader will miss an event that
   Kafka will not deliver again. *)
CommittedIsVisible ==
  /\ \A p \in Partition : \A o \in 1 .. committed[p] :
       Log[p][o].kind = "valid" /\ <<p, o>> \notin givenUp => Visible(Log[p][o].event)
  /\ \A e \in marked : Visible(e)

(* Whatever fails, stops or moves, as long as Kafka calls do not raise: in the
   end every record is committed, and every event not given up is in the graph. *)
SyncConverges ==
  <>[](\A p \in Partition :
         /\ committed[p] = Len(Log[p])
         /\ \A o \in 1 .. Len(Log[p]) :
              Log[p][o].kind = "valid" /\ <<p, o>> \notin givenUp => Visible(Log[p][o].event))
================================================================================
