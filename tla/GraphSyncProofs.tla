---------------------------- MODULE GraphSyncProofs ----------------------------
(***************************************************************************)
(* The pipeline of GraphSync implements GraphService and ConsumerWorker:   *)
(* every step of a replica is a step of one handler, or leaves the graph   *)
(* alone.  So what is proved of the graph under any handlers holds of the  *)
(* graph that the replicas feed, and with the worker's record of what took *)
(* effect it says which facts the graph holds.                             *)
(***************************************************************************)
EXTENDS GraphSync, GraphReplicaProofs

LEMMA TransactionIsNext ==
  ASSUME NEW e, NEW k, Transaction(e, k)
  PROVE  Next
BY DEF Transaction, Next

\* What the worker notes of a step, and what the step does to the graph.
Noted(e, k) == written' = written \cup {<<e, k>>} /\ Transaction(e, k)
Silent      == written' = written /\ UNCHANGED vars

LEMMA SyncStepShape ==
  ASSUME [SyncNext]_sync
  PROVE  Silent \/ \E e, k : Noted(e, k)
<1>1. CASE UNCHANGED sync
  BY <1>1 DEF sync, Worker!vars, Silent
<1>2. ASSUME NEW r \in Replica, Restart(r) \/ GoDown(r)
      PROVE  Silent
  BY <1>2, Zenon DEF Restart, GoDown, Worker!Start, Worker!GoDown, Worker!promise, Silent
<1>3. ASSUME NEW r \in Replica, Bookkeeping(r)
      PROVE  Silent
  BY <1>3 DEF Bookkeeping, Worker!Poll, Worker!PollNothing, Worker!Commit, Worker!Take,
              Worker!Check, Worker!Mark, Worker!promise, Worker!vars, Silent
<1>4. ASSUME NEW r \in Replica, Handle(r)
      PROVE  \E e, k : Noted(e, k)
  BY <1>4 DEF Handle, Worker!WriteGraph, Noted
<1>5. ASSUME NEW r \in Replica, Fail(r)
      PROVE  Silent \/ \E e, k : Noted(e, k)
  BY <1>5 DEF Fail, Worker!FailAs, Noted, Silent
<1>6. ASSUME NEW op \in orphans, Land(op)
      PROVE  Silent \/ \E e, k : Noted(e, k)
  BY <1>6 DEF Land, Worker!LandAs, Noted, Silent
<1>7. ASSUME NEW p \in Partition, NEW r \in Replica, Assign(p, r) \/ Rebalance(p, r)
      PROVE  Silent
  BY <1>7 DEF Assign, Rebalance, Worker!Assign, Worker!Rebalance, Worker!GiveTo,
              Worker!promise, Silent
<1>8. QED
  BY <1>1, <1>2, <1>3, <1>4, <1>5, <1>6, <1>7 DEF SyncNext, Loop

(* Whatever the replicas do, they handle events, one transaction at a time:
   every behaviour of the pipeline is one of GraphService, and its invariants
   hold of the graph behind the pipeline. *)
THEOREM PipelineHandlesEvents == SyncSpec => Spec
<1>1. SyncInit => Init
  BY DEF SyncInit
<1>2. [SyncNext]_sync => [Next]_vars
  BY SyncStepShape, TransactionIsNext DEF Silent, Noted
<1>3. QED
  BY <1>1, <1>2, PTL DEF SyncSpec, Spec

-------------------------------------------------------------------------------

\* A transaction brings the facts that GraphReplica says it brings.
LEMMA TransactionLearns ==
  ASSUME SoftDeleteEnabled, TypeOK, NEW e, NEW k, Transaction(e, k)
  PROVE  Known' = Known \cup Gain(e, k)
<1>1. /\ CreatedEvents \subseteq CreatedEvent /\ DeletedEvents \subseteq DeletedEvent
      /\ UpdatedEvents \subseteq UpdatedEvent /\ MessageEvents \subseteq MessageEvent
  BY ServiceAssumption
<1>2. CASE e \in CreatedEvents /\ ProcessConversationCreated(e)
  <2>1. e \notin MessageEvents
    BY <1>1, <1>2, EventsDiffer
  <2>2. Gain(e, k) = CreatedGain(e)
    BY <1>2, <2>1 DEF Gain
  <2>3. QED
    BY <1>2, <2>2, CreatedLearns
<1>3. CASE e \in DeletedEvents /\ ProcessConversationDeleted(e)
  <2>1. e \notin CreatedEvents /\ e \notin MessageEvents
    BY <1>1, <1>3, EventsDiffer
  <2>2. Gain(e, k) = {}
    BY <2>1 DEF Gain
  <2>3. QED
    BY <1>3, <2>2, DeletedLearns
<1>4. CASE e \in UpdatedEvents /\ ProcessConversationUpdated(e)
  <2>1. e \notin CreatedEvents /\ e \notin MessageEvents
    BY <1>1, <1>4, EventsDiffer
  <2>2. Gain(e, k) = {}
    BY <2>1 DEF Gain
  <2>3. QED
    BY <1>4, <2>2, UpdatedLearns
<1>5. CASE e \in MessageEvents /\ k = 1 /\ CreateMessageNode(e)
  <2>1. Gain(e, k) = NodeGain(e)
    BY <1>1, <1>5, EventsDiffer DEF Gain
  <2>2. QED
    BY <1>5, <2>1, NodeLearns
<1>6. CASE e \in MessageEvents /\ k = 2 /\ CreateMessageRelationships(e)
  <2>1. Gain(e, k) = WiringGain(e)
    BY <1>1, <1>6, EventsDiffer DEF Gain
  <2>2. QED
    BY <1>6, <2>1, WiringLearns
<1>7. QED
  BY <1>2, <1>3, <1>4, <1>5, <1>6 DEF Transaction

LEMMA SyncKnowsStep ==
  ASSUME SoftDeleteEnabled, TypeOK, GraphIsWhatWasWritten, [SyncNext]_sync
  PROVE  GraphIsWhatWasWritten'
<1>1. CASE Silent
  BY <1>1 DEF Silent, GraphIsWhatWasWritten, Known, Published, Present, vars
<1>2. ASSUME NEW e, NEW k, Noted(e, k)
      PROVE  GraphIsWhatWasWritten'
  <2>1. Known' = Known \cup Gain(e, k)
    BY <1>2, TransactionLearns DEF Noted
  <2>2. Published' = Published \cup Gain(e, k)
    <3> DEFINE brings(t) == Gain(t[1], t[2])
    <3>1. written' = written \cup {<<e, k>>}
      BY <1>2 DEF Noted
    <3>2. Published = UNION {brings(t) : t \in written}
      BY DEF Published
    <3>3. Published' = UNION {brings(t) : t \in written \cup {<<e, k>>}}
      BY <3>1 DEF Published
    <3>4. brings(<<e, k>>) = Gain(e, k)
      OBVIOUS
    <3> HIDE DEF brings
    <3>5. QED
      BY <3>2, <3>3, <3>4
  <2>3. QED
    BY <2>1, <2>2 DEF GraphIsWhatWasWritten
<1>3. QED
  BY <1>1, <1>2, SyncStepShape

(* Under soft deletion the graph holds the facts of the transactions that took
   effect, and no other, for any number of replicas, faults, stops and
   rebalances. *)
THEOREM GraphHoldsWhatWasWritten == SoftDeleteEnabled /\ SyncSpec => []GraphIsWhatWasWritten
<1>1. SyncInit => GraphIsWhatWasWritten
  <2>1. Init => Known = {}
    BY StoreAssumption DEF Init, Known, Facts, Present
  <2>2. Worker!WorkerInit => Published = {}
    BY DEF Worker!WorkerInit, Worker!Init, Published
  <2>3. QED
    BY <2>1, <2>2 DEF SyncInit, GraphIsWhatWasWritten
<1>2. SoftDeleteEnabled /\ TypeOK /\ GraphIsWhatWasWritten /\ [SyncNext]_sync
      => GraphIsWhatWasWritten'
  BY SyncKnowsStep
<1>3. CASE SoftDeleteEnabled
  BY <1>1, <1>2, <1>3, PipelineHandlesEvents, TypeCorrect, PTL DEF SyncSpec
<1>4. CASE ~SoftDeleteEnabled
  BY <1>4
<1>5. QED
  BY <1>3, <1>4

-------------------------------------------------------------------------------
\* What is proved of the worker.

WP == INSTANCE ConsumerWorkerProofs
        WITH Event <- Events \cup {NoEvent}, TwoStep <- MessageEvents

(* The logs and bounds of the pipeline are those a worker may have. *)
LEMMA WorkerAssumptionsHold == WP!LogAssumption /\ WP!WorkerAssumption
<1>1. Log \in [Partition -> Seq(WP!Record)]
  BY SyncAssumption DEF Worker!Record, WP!Record, Worker!Kind, WP!Kind
<1>2. MessageEvents \subseteq Events \cup {NoEvent}
  BY DEF Events
<1>3. WP!LogAssumption
  BY <1>1, <1>2 DEF WP!LogAssumption
<1>4. WP!WorkerAssumption
  BY SyncAssumption DEF WP!WorkerAssumption
<1>. QED BY <1>3, <1>4

(* Each of these steps is one a worker may take. *)
LEMMA WorkerSteps ==
  /\ \A r \in Replica : WP!Start(r) \/ WP!GoDown(r) \/ WP!Loop(r) => WP!WorkerNext
  /\ \A op \in orphans : WP!Land(op) => WP!WorkerNext
  /\ \A p \in Partition, r \in Replica : WP!Assign(p, r) \/ WP!Rebalance(p, r) => WP!WorkerNext
  BY DEF WP!WorkerNext

LEMMA LoopSteps ==
  ASSUME NEW r \in Replica,
         \/ WP!Poll(r) \/ WP!PollNothing(r) \/ WP!Commit(r) \/ WP!Check(r)
         \/ WP!WriteGraph(r) \/ WP!HandlerFails(r) \/ WP!Mark(r)
         \/ \E p \in Partition : WP!Take(r, p)
  PROVE  WP!WorkerNext
<1>1. WP!Loop(r)
  BY DEF WP!Loop
<1>. QED BY <1>1, WorkerSteps

(* Seen at Kafka, the pipeline is ConsumerWorker with Kafka calls that do not
   raise: the handlers' transactions hold up none of its steps, and add none. *)
THEOREM PipelineRunsWorkers == SyncSpec => WP!WorkerSpec
<1>. USE DEF Worker!promise, WP!promise, Worker!group, WP!group, Worker!local, WP!local,
             Worker!Goto, WP!Goto, Worker!Rec, WP!Rec, Worker!Parts, WP!Parts,
             Worker!Mine, WP!Mine, Worker!Drained, WP!Drained, Worker!Min, WP!Min
<1>1. SyncInit => WP!WorkerInit
  BY DEF SyncInit, Worker!WorkerInit, WP!WorkerInit, Worker!Init, WP!Init
<1>2. ASSUME NEW r \in Replica, Restart(r) \/ GoDown(r) PROVE WP!WorkerNext
  <2>1. WP!Start(r) \/ WP!GoDown(r)
    BY <1>2, Zenon DEF Restart, GoDown, Worker!Start, WP!Start, Worker!GoDown, WP!GoDown,
                Worker!InFlight, WP!InFlight
  <2>. QED BY <2>1, WorkerSteps
<1>3. ASSUME NEW r \in Replica, Loop(r) PROVE WP!WorkerNext
  <2>1. CASE Handle(r)
    <3>1. WP!WriteGraph(r)
      BY <2>1, Zenon DEF Handle, Worker!WriteGraph, WP!WriteGraph
    <3>. QED BY <3>1, LoopSteps
  <2>2. CASE Fail(r)
    <3>1. WP!HandlerFails(r)
      BY <2>2, Zenon DEF Fail, Worker!FailAs, WP!FailAs, WP!HandlerFails
    <3>. QED BY <3>1, LoopSteps
  <2>3. CASE Worker!Poll(r)
    <3>1. WP!Poll(r)
      BY <2>3 DEF Worker!Poll, WP!Poll, Worker!Cardinality, WP!Cardinality
    <3>. QED BY <3>1, LoopSteps
  <2>4. CASE Worker!PollNothing(r)
    <3>1. WP!PollNothing(r)
      BY <2>4 DEF Worker!PollNothing, WP!PollNothing, Worker!vars, WP!vars
    <3>. QED BY <3>1, LoopSteps
  <2>5. CASE Worker!Commit(r)
    <3>1. WP!Commit(r)
      BY <2>5 DEF Worker!Commit, WP!Commit
    <3>. QED BY <3>1, LoopSteps
  <2>6. ASSUME NEW p \in Partition, Worker!Take(r, p) PROVE WP!WorkerNext
    <3>1. WP!Take(r, p)
      BY <2>6, Zenon DEF Worker!Take, WP!Take
    <3>. QED BY <3>1, LoopSteps
  <2>7. CASE Worker!Check(r) \/ Worker!Mark(r)
    <3>1. WP!Check(r) \/ WP!Mark(r)
      BY <2>7, Zenon DEF Worker!Check, WP!Check, Worker!Mark, WP!Mark
    <3>. QED BY <3>1, LoopSteps
  <2>. QED
    BY <1>3, <2>1, <2>2, <2>3, <2>4, <2>5, <2>6, <2>7 DEF Loop, Bookkeeping
<1>4. ASSUME NEW op \in orphans, Land(op) PROVE WP!WorkerNext
  <2>1. WP!Land(op)
    BY <1>4 DEF Land, Worker!LandAs, WP!Land, WP!LandAs
  <2>. QED BY <2>1, WorkerSteps
<1>5. ASSUME NEW p \in Partition, NEW r \in Replica, Assign(p, r) \/ Rebalance(p, r)
      PROVE  WP!WorkerNext
  <2>1. WP!Assign(p, r) \/ WP!Rebalance(p, r)
    BY <1>5, Zenon DEF Assign, Rebalance, Worker!Assign, WP!Assign, Worker!Rebalance,
                WP!Rebalance, Worker!GiveTo, WP!GiveTo
  <2>. QED BY <2>1, WorkerSteps
<1>6. UNCHANGED sync => UNCHANGED WP!vars
  BY DEF sync, Worker!vars, WP!vars
<1>7. [SyncNext]_sync => [WP!WorkerNext]_(WP!vars)
  BY <1>2, <1>3, <1>4, <1>5, <1>6 DEF SyncNext
<1>. QED BY <1>1, <1>7, PTL DEF SyncSpec, WP!WorkerSpec

(* Once every transaction of an event took effect, all of it is in the graph. *)
LEMMA WholeIsVisible ==
  ASSUME GraphIsWhatWasWritten, NEW e, WP!Whole(e)
  PROVE  Visible(e)
<1>1. \A t \in written : Gain(t[1], t[2]) \subseteq Known
  BY DEF GraphIsWhatWasWritten, Published
<1>2. \A k \in Worker!Parts(e) : <<e, k>> \in written
  BY DEF WP!Whole, WP!Parts, Worker!Parts
<1>. QED BY <1>1, <1>2 DEF Visible

(* What Kafka or the gate will not bring again is in the graph. *)
THEOREM CommittedStaysVisible == SoftDeleteEnabled /\ SyncSpec => []CommittedIsVisible
<1>1. GraphIsWhatWasWritten /\ WP!CommitCoversOnlySettled /\ WP!MarkedImpliesWritten
      => CommittedIsVisible
  BY WholeIsVisible DEF CommittedIsVisible, WP!CommitCoversOnlySettled, WP!Settled,
                        WP!MarkedImpliesWritten
<1>2. WP!WorkerSpec => []WP!CommitCoversOnlySettled
  BY WorkerAssumptionsHold, WP!CommitsAreCovered
<1>3. WP!WorkerSpec => []WP!MarkedImpliesWritten
  BY WorkerAssumptionsHold, WP!MarkersFollowWrites
<1>. QED
  BY <1>1, <1>2, <1>3, PipelineRunsWorkers, GraphHoldsWhatWasWritten, PTL
================================================================================
