---------------------------- MODULE ConsumerWorker ----------------------------
(***************************************************************************)
(* The replicas of KafkaConsumerWorker (app/workers/consumer_worker.py),   *)
(* one consumer loop each, in one consumer group, writing to one Neo4j.    *)
(* Every await of the loop is a point where other replicas, the group      *)
(* coordinator, a cancellation or a crash may come in: one action each.    *)
(*                                                                         *)
(* A record is what its bytes do to the loop: undecodable; JSON that is    *)
(* not an object; an object its handler rejects; or a valid event.  keyed  *)
(* says whether it carries an event_id (flat message events do not).       *)
(***************************************************************************)
EXTENDS AtLeastOnce, FiniteSets

CONSTANTS
  Replica,
  Nobody,          \* owner of a partition that is not assigned
  Nothing,         \* no record in hand
  BatchSize,       \* settings.KAFKA_BATCH_SIZE
  NeoFaults,       \* whether Neo4j transactions may fail
  CommitFaults,    \* whether offset commits and polls may fail
  MaxStops,        \* bound: shutdowns and crashes
  MaxRebalances    \* bound: partitions taken from a live member

ASSUME WorkerAssumption ==
  /\ Nobody \notin Replica
  /\ Nothing \notin Partition \X Nat
  /\ BatchSize \in Nat \ {0}
  /\ NeoFaults \in BOOLEAN /\ CommitFaults \in BOOLEAN
  /\ MaxStops \in Nat /\ MaxRebalances \in Nat

VARIABLES
  pc,          \* where the loop of a replica is
  pending,     \* offsets of the polled batch a replica has still to take
  cur,         \* <<partition, offset>> of the record in hand
  part,        \* which transaction of the handler is next
  owner,       \* assignment of the group
  position,    \* how many records of a partition its owner has fetched
  orphans,     \* transactions a thread still runs for a loop that is gone
  stops,
  rebalances

local == <<pc, pending, cur, part>>
group == <<owner, position>>
vars  == <<written, marked, givenUp, committed, pc, pending, cur, part,
           owner, position, orphans, stops, rebalances>>

PC == {"down", "poll", "next", "check", "write", "mark", "dead"}

Min(S) == CHOOSE x \in S : \A y \in S : x <= y

\* The record in the hand of r.
Rec(r) == Log[cur[r][1]][cur[r][2]]

WorkerInit ==
  /\ Init
  /\ pc         = [r \in Replica |-> "down"]
  /\ pending    = [r \in Replica |-> [p \in Partition |-> {}]]
  /\ cur        = [r \in Replica |-> Nothing]
  /\ part       = [r \in Replica |-> 1]
  /\ owner      = [p \in Partition |-> Nobody]
  /\ position   = [p \in Partition |-> 0]
  /\ orphans    = {}
  /\ stops      = 0
  /\ rebalances = 0

Goto(r, label) == pc' = [pc EXCEPT ![r] = label]

-------------------------------------------------------------------------------
\* start(): nothing if already running, a loop that died included.

Start(r) ==
  /\ pc[r] = "down"
  /\ Goto(r, "poll")
  /\ UNCHANGED <<promise, pending, cur, part, group, orphans, stops, rebalances>>

\* The transaction a worker thread may still be running for r.
InFlight(r) ==
  CASE pc[r] = "write" /\ Rec(r).kind = "valid" -> {<<"write", Rec(r).event, part[r]>>}
    [] pc[r] = "mark" -> {<<"mark", Rec(r).event, 0>>}
    [] OTHER -> {}

(* stop() cancels the task at its await and leaves the group; a crash does the
   same to the rest of the system.  Neither commits, and neither takes back a
   transaction already handed to a thread or to the server. *)
GoDown(r) ==
  /\ stops < MaxStops
  /\ stops' = stops + 1
  /\ pc[r] # "down"
  /\ orphans' = orphans \cup InFlight(r)
  /\ Goto(r, "down")
  /\ pending' = [pending EXCEPT ![r] = [p \in Partition |-> {}]]
  /\ cur'     = [cur EXCEPT ![r] = Nothing]
  /\ part'    = [part EXCEPT ![r] = 1]
  /\ owner'   = [p \in Partition |-> IF owner[p] = r THEN Nobody ELSE owner[p]]
  /\ UNCHANGED <<promise, position, rebalances>>

\* A transaction left behind commits in the end, or does not (landed).
LandAs(op, landed) ==
  /\ op \in orphans
  /\ orphans' = orphans \ {op}
  /\ written' = IF landed /\ op[1] = "write" THEN written \cup {<<op[2], op[3]>>} ELSE written
  /\ marked'  = IF landed /\ op[1] = "mark"  THEN marked \cup {op[2]} ELSE marked
  /\ UNCHANGED <<givenUp, committed, local, group, stops, rebalances>>

Land(op) == \E landed \in BOOLEAN : LandAs(op, landed)

\* The coordinator gives p to r, who resumes from the committed offset.
GiveTo(p, r) ==
  /\ pc[r] # "down"
  /\ owner'    = [owner EXCEPT ![p] = r]
  /\ position' = [position EXCEPT ![p] = committed[p]]
  /\ UNCHANGED <<promise, local, orphans, stops>>

Assign(p, r) ==
  /\ owner[p] = Nobody
  /\ GiveTo(p, r)
  /\ UNCHANGED rebalances

\* The old owner keeps the records it has polled.
Rebalance(p, r) ==
  /\ owner[p] # Nobody
  /\ rebalances < MaxRebalances
  /\ rebalances' = rebalances + 1
  /\ GiveTo(p, r)

-------------------------------------------------------------------------------
\* _consume_loop

Mine(r) == {p \in Partition : owner[p] = r}

\* getmany: the next records of the partitions r owns, BatchSize in all at most.
Poll(r) ==
  /\ pc[r] = "poll"
  /\ \E upto \in [Mine(r) -> 0 .. BatchSize] :
       LET to(p)   == IF p \in Mine(r) THEN position[p] + upto[p] ELSE position[p]
           fetched == [p \in Partition |-> position[p] + 1 .. to(p)]
       IN /\ \A p \in Mine(r) : to(p) <= Len(Log[p])
          /\ Cardinality({n \in Mine(r) \X (1 .. BatchSize) : n[2] <= upto[n[1]]}) \in 1 .. BatchSize
          /\ position' = [p \in Partition |-> to(p)]
          /\ pending' = [pending EXCEPT ![r] = fetched]
  /\ Goto(r, "next")
  /\ UNCHANGED <<promise, cur, part, owner, orphans, stops, rebalances>>

\* An empty batch: sleep and poll again.
PollNothing(r) ==
  /\ pc[r] = "poll"
  /\ \A p \in Mine(r) : position[p] = Len(Log[p])
  /\ UNCHANGED vars

(* Definitions named ...Mutant are what a plausible bug would make of the
   definition that follows them; the specification does not use them. *)
AutoCommitMutant(r) == TRUE

Drained(r) == \A p \in Partition : pending[r][p] = {}

CommitAllMutant(r) ==
  /\ pc[r] = "next"
  /\ Drained(r)
  /\ committed' = position
  /\ cur' = [cur EXCEPT ![r] = Nothing]
  /\ Goto(r, "poll")
  /\ UNCHANGED <<written, marked, givenUp, pending, part, group, orphans, stops, rebalances>>

OffByOneMutant(r) ==
  /\ pc[r] = "next"
  /\ Drained(r)
  /\ committed' = [p \in Partition |-> IF owner[p] = r THEN position[p] + 1 ELSE committed[p]]
  /\ cur' = [cur EXCEPT ![r] = Nothing]
  /\ Goto(r, "poll")
  /\ UNCHANGED <<written, marked, givenUp, pending, part, group, orphans, stops, rebalances>>

\* consumer.commit(): the position of every partition r owns by now.
Commit(r) ==
  /\ pc[r] = "next"
  /\ Drained(r)
  /\ committed' = [p \in Partition |-> IF owner[p] = r THEN position[p] ELSE committed[p]]
  /\ cur' = [cur EXCEPT ![r] = Nothing]
  /\ Goto(r, "poll")
  /\ UNCHANGED <<written, marked, givenUp, pending, part, group, orphans, stops, rebalances>>

(* commit() or getmany() raises: the loop logs it and ends; the consumer stays
   in the group and _running stays True.  A commit may have reached the broker. *)
KafkaFails(r) ==
  /\ CommitFaults
  /\ \/ pc[r] = "poll" /\ UNCHANGED committed
     \/ pc[r] = "next" /\ Drained(r) /\ UNCHANGED committed
     \/ /\ pc[r] = "next" /\ Drained(r)
        /\ committed' = [p \in Partition |-> IF owner[p] = r THEN position[p] ELSE committed[p]]
  /\ Goto(r, "dead")
  /\ UNCHANGED <<written, marked, givenUp, pending, cur, part, group, orphans, stops, rebalances>>

-------------------------------------------------------------------------------
\* _handle_message

(* The next record of the batch, one partition after the other.  Bytes that do
   not decode are skipped; a JSON value without .get ends the loop; an event
   with an id goes through the idempotency gate first. *)
Take(r, p) ==
  /\ pc[r] = "next"
  /\ pending[r][p] # {}
  /\ cur[r] # Nothing => p = cur[r][1] \/ pending[r][cur[r][1]] = {}
  /\ LET o   == Min(pending[r][p])
         rec == Log[p][o]
     IN /\ pending' = [pending EXCEPT ![r][p] = @ \ {o}]
        /\ cur' = [cur EXCEPT ![r] = <<p, o>>]
        /\ \/ /\ rec.kind = "undecodable"
              /\ givenUp' = givenUp \cup {<<p, o>>}
              /\ UNCHANGED pc
           \/ rec.kind = "nonobject" /\ Goto(r, "dead") /\ UNCHANGED givenUp
           \/ /\ rec.kind \in {"rejected", "valid"}
              /\ Goto(r, IF rec.keyed THEN "check" ELSE "write")
              /\ UNCHANGED givenUp
  /\ UNCHANGED <<written, marked, committed, part, group, orphans, stops, rebalances>>

\* is_event_processed: skip what is marked; when the check fails, go on.
Check(r) ==
  /\ pc[r] = "check"
  /\ \/ Rec(r).event \in marked /\ Goto(r, "next")
     \/ Rec(r).event \notin marked /\ Goto(r, "write")
     \/ NeoFaults /\ Goto(r, "write")
  /\ UNCHANGED <<promise, pending, cur, part, group, orphans, stops, rebalances>>

\* One write transaction of the handler commits.
WriteGraph(r) ==
  /\ pc[r] = "write"
  /\ Rec(r).kind = "valid"
  /\ written' = written \cup {<<Rec(r).event, part[r]>>}
  /\ \/ /\ part[r] + 1 \in Parts(Rec(r).event)
        /\ part' = [part EXCEPT ![r] = @ + 1]
        /\ UNCHANGED pc
     \/ /\ part[r] + 1 \notin Parts(Rec(r).event)
        /\ Goto(r, IF Rec(r).keyed THEN "mark" ELSE "next")
        /\ part' = [part EXCEPT ![r] = 1]
  /\ UNCHANGED <<marked, givenUp, committed, pending, cur, group, orphans, stops, rebalances>>

MarkAnywayMutant(r) ==
  /\ pc[r] = "write"
  /\ Rec(r).kind = "rejected" \/ NeoFaults
  /\ givenUp' = givenUp \cup {cur[r]}
  /\ part' = [part EXCEPT ![r] = 1]
  /\ Goto(r, IF Rec(r).keyed THEN "mark" ELSE "next")
  /\ UNCHANGED <<written, marked, committed, pending, cur, group, orphans, stops, rebalances>>

UncaughtMutant(r, landed) ==
  /\ pc[r] = "write"
  /\ ~landed
  /\ Rec(r).kind = "rejected" \/ NeoFaults
  /\ Goto(r, "dead")
  /\ UNCHANGED <<promise, pending, cur, part, group, orphans, stops, rebalances>>

AbandonBatchMutant(r) ==
  /\ pc[r] = "write"
  /\ Rec(r).kind = "rejected" \/ NeoFaults
  /\ givenUp' = givenUp \cup {cur[r]}
  /\ pending' = [pending EXCEPT ![r] = [p \in Partition |-> {}]]
  /\ part' = [part EXCEPT ![r] = 1]
  /\ Goto(r, "next")
  /\ UNCHANGED <<written, marked, committed, cur, group, orphans, stops, rebalances>>

(* The handler raises, on a payload its schema rejects or on a failed
   transaction, which may have taken effect (landed): log, go on. *)
FailAs(r, landed) ==
  /\ pc[r] = "write"
  /\ \/ Rec(r).kind = "rejected" /\ ~landed
     \/ Rec(r).kind = "valid" /\ NeoFaults
  /\ written' = IF landed THEN written \cup {<<Rec(r).event, part[r]>>} ELSE written
  /\ givenUp' = givenUp \cup {cur[r]}
  /\ part' = [part EXCEPT ![r] = 1]
  /\ Goto(r, "next")
  /\ UNCHANGED <<marked, committed, pending, cur, group, orphans, stops, rebalances>>

HandlerFails(r) == \E landed \in BOOLEAN : FailAs(r, landed)

\* mark_event_processed, which may fail with or without effect.
Mark(r) ==
  /\ pc[r] = "mark"
  /\ \/ marked' = marked \cup {Rec(r).event}
     \/ NeoFaults /\ UNCHANGED marked
  /\ Goto(r, "next")
  /\ UNCHANGED <<written, givenUp, committed, pending, cur, part, group, orphans, stops, rebalances>>

-------------------------------------------------------------------------------

Loop(r) ==
  \/ Poll(r) \/ PollNothing(r) \/ Commit(r) \/ KafkaFails(r)
  \/ \E p \in Partition : Take(r, p)
  \/ Check(r) \/ WriteGraph(r) \/ HandlerFails(r) \/ Mark(r)

WorkerNext ==
  \/ \E r \in Replica : Start(r) \/ GoDown(r) \/ Loop(r)
  \/ \E op \in orphans : Land(op)
  \/ \E p \in Partition, r \in Replica : Assign(p, r) \/ Rebalance(p, r)

WorkerSpec == WorkerInit /\ [][WorkerNext]_vars

-------------------------------------------------------------------------------

\* Type correctness of the replicas, the group and the shared state.
WorkerTypeOK ==
  /\ written    \subseteq Event \X {1, 2}
  /\ marked     \subseteq Event
  /\ givenUp    \subseteq Spots
  /\ committed  \in [Partition -> Nat]
  /\ pc         \in [Replica -> PC]
  /\ pending    \in [Replica -> [Partition -> SUBSET Nat]]
  /\ \A r \in Replica, p \in Partition : pending[r][p] \subseteq Offset(p)
  /\ cur        \in [Replica -> Spots \cup {Nothing}]
  /\ part       \in [Replica -> {1, 2}]
  /\ owner      \in [Partition -> Replica \cup {Nobody}]
  /\ position   \in [Partition -> Nat]
  /\ \A p \in Partition : committed[p] <= position[p] /\ position[p] <= Len(Log[p])
  /\ orphans    \subseteq {"write", "mark"} \X Event \X {0, 1, 2}
  /\ stops      \in 0 .. MaxStops
  /\ rebalances \in 0 .. MaxRebalances

(* A ProcessedEvent node stands only behind an event all of whose transactions
   are in the graph: the gate never skips what is not there, even when a
   cancelled loop leaves a thread behind. *)
MarkedImpliesWritten == \A e \in marked : Whole(e)

(* No committed offset passes a record that is neither in the graph nor known
   to have been given up on, across rebalances in the middle of a batch,
   shutdowns and crashes: committed means handled. *)
CommitCoversOnlySettled ==
  \A p \in Partition : \A o \in 1 .. committed[p] : Settled(p, o)

(* Between the committed offset and the position, every record is settled or
   in the owner's hands: what makes the next commit safe. *)
FetchedIsHeldOrSettled ==
  \A p \in Partition : owner[p] # Nobody =>
    \A o \in committed[p] + 1 .. position[p] :
      \/ Settled(p, o)
      \/ o \in pending[owner[p]][p]
      \/ cur[owner[p]] = <<p, o>> /\ pc[owner[p]] \in {"check", "write", "mark", "dead"}

(* Every valid event below a committed offset is in the graph: hld.md:288, offset
   commit only after successful Neo4j transaction. *)
CommitOnlyAfterWrite ==
  \A p \in Partition : \A o \in 1 .. committed[p] :
    Log[p][o].kind = "valid" => Whole(Log[p][o].event)

Promise == INSTANCE AtLeastOnce

(* The replicas implement AtLeastOnce: whatever they do, the graph changes only
   by transactions of events, markers follow whole events, and offsets only
   move forward over settled records. *)
KeepsPromise == Promise!Spec
===============================================================================
