---------------------------- MODULE ServiceLifecycle ----------------------------
(***************************************************************************)
(* The lifespan of app/main.py: what is started and stopped, in which      *)
(* order, while REST requests resolve their dependencies in threads of     *)
(* their own and RPCs come in.  The process may end at any moment, and may *)
(* run the lifespan again after an orderly shutdown.                       *)
(*                                                                         *)
(* An RPC and the consumer loop call the repository in threads             *)
(* (asyncio.to_thread), and a thread cannot be cancelled: when whoever     *)
(* awaits it is, it goes on with its transaction and nobody waits for it.  *)
(*                                                                         *)
(* uvicorn is external: requests come only between startup and shutdown,   *)
(* and shutdown waits for the ones in progress.                            *)
(***************************************************************************)
EXTENDS Neo4jDatabase

CONSTANTS
  Main,        \* the thread of the event loop, which runs the lifespan
  Rpc,         \* RPCs that may be in progress at once
  Worker       \* the consumer loop, as one who calls the repository

ASSUME LifecycleAssumption == Main \in Thread /\ Worker \notin Rpc

VARIABLES
  phase,       \* the step of the lifespan that comes next
  schema,      \* the constraints and indexes are in Neo4j
  repo,        \* the driver of the repository that the worker and the RPCs use
  loop,        \* the consumer loop
  server,      \* the gRPC server
  rpcs,        \* the RPCs in progress
  awaiting,    \* who awaits a thread that is in the repository
  abandoned,   \* the drivers on which threads run that nobody awaits
  lost         \* history: the drivers whose close() raised

calls   == <<rpcs, awaiting, abandoned>>
process == <<phase, schema, repo, loop, server, calls, lost>>
vars    == <<database, process>>

Phase  == {"off", "connect", "schema", "worker", "grpc", "serving",
           "stopWorker", "stopGrpc", "close", "failed"}
Loop   == {"none", "running", "dead"}
Server == {"none", "serving", "draining"}

Init ==
  /\ DatabaseInit
  /\ phase  = "off"
  /\ schema = FALSE
  /\ repo   = None
  /\ loop   = "none"
  /\ server = "none"
  /\ rpcs   = {}
  /\ awaiting  = {}
  /\ abandoned = {}
  /\ lost   = {}

-------------------------------------------------------------------------------
\* Startup

Begin ==
  /\ phase = "off"
  /\ phase' = "connect"
  /\ Construct(Main)
  /\ UNCHANGED <<schema, repo, loop, server, calls, lost>>

(* db.connect() and get_repository(db).  verify_connectivity() in between asks
   for the same driver, and its answer is ignored. *)
Connected ==
  /\ phase = "connect"
  /\ at[Main] = "have"
  /\ phase' = "schema"
  /\ repo' = hand[Main]
  /\ Release(Main)
  /\ UNCHANGED <<schema, loop, server, calls, lost>>

IgnoreSchemaMutant ==
  /\ phase = "schema"
  /\ phase' = "worker"
  /\ \/ schema' = TRUE
     \/ UNCHANGED schema
  /\ UNCHANGED <<database, repo, loop, server, calls, lost>>

ApplySchema ==
  /\ phase = "schema"
  /\ phase' = "worker"
  /\ schema' = TRUE
  /\ UNCHANGED <<database, repo, loop, server, calls, lost>>

StartWorker ==
  /\ phase = "worker"
  /\ phase' = "grpc"
  /\ loop' = "running"
  /\ UNCHANGED <<database, schema, repo, server, calls, lost>>

StartGrpc ==
  /\ phase = "grpc"
  /\ phase' = "serving"
  /\ server' = "serving"
  /\ UNCHANGED <<database, schema, repo, loop, calls, lost>>

\* No driver, no database, no broker or no port: raised, with what runs left running.
StartupFails ==
  /\ \/ phase = "connect" /\ at[Main] = "raised" /\ Release(Main)
     \/ phase \in {"schema", "worker", "grpc"} /\ UNCHANGED database
  /\ phase' = "failed"
  /\ UNCHANGED <<schema, repo, loop, server, calls, lost>>

-------------------------------------------------------------------------------
\* Service

\* get_db() and get_repository() of a request, and the request's end.
Request(t) ==
  /\ t # Main
  /\ phase = "serving"
  /\ Construct(t)
  /\ UNCHANGED process

Respond(t) ==
  /\ t # Main
  /\ Release(t)
  /\ UNCHANGED process

\* A driver that is made is none that a thread still has.
InsideDatabase(t) ==
  /\ Step(t)
  /\ open' \cap abandoned \subseteq open
  /\ UNCHANGED process

service == <<database, phase, schema, repo, server, lost>>

Call(x) ==
  /\ server = "serving"
  /\ x \notin rpcs
  /\ rpcs' = rpcs \cup {x}
  /\ UNCHANGED <<service, loop, awaiting, abandoned>>

\* asyncio.to_thread: a transaction on the repository's driver, or a few gathered.
ToThread(u) ==
  /\ u \in rpcs \/ (u = Worker /\ loop = "running")
  /\ awaiting' = awaiting \cup {u}
  /\ UNCHANGED <<service, loop, rpcs, abandoned>>

FromThread(u) ==
  /\ u \in awaiting
  /\ awaiting' = awaiting \ {u}
  /\ UNCHANGED <<service, loop, rpcs, abandoned>>

\* Those among gone who await a thread leave it to itself.
Abandon(gone) ==
  /\ awaiting'  = awaiting \ gone
  /\ abandoned' = IF gone \cap awaiting = {} THEN abandoned ELSE abandoned \cup {repo}

(* An RPC returns.  It leaves threads behind when the caller has gone, or when
   one of the transactions it gathered fails before the other. *)
Return_(x) ==
  /\ x \in rpcs
  /\ rpcs' = rpcs \ {x}
  /\ Abandon({x})
  /\ UNCHANGED <<service, loop>>

\* The last abandoned thread on d is done, or has failed.
ThreadEnds(d) ==
  /\ d \in abandoned
  /\ abandoned' = abandoned \ {d}
  /\ UNCHANGED <<service, loop, rpcs, awaiting>>

\* An exception that ends the consumer loop; nothing else notices.  It comes
\* from Kafka or from an object that is none: those of threads are caught.
LoopDies ==
  /\ loop = "running"
  /\ Worker \notin awaiting
  /\ loop' = "dead"
  /\ UNCHANGED <<database, phase, schema, repo, server, calls, lost>>

-------------------------------------------------------------------------------
\* Shutdown

BeginShutdown ==
  /\ phase = "serving"
  /\ \A t \in Thread : at[t] = "out"
  /\ phase' = "stopWorker"
  /\ UNCHANGED <<database, schema, repo, loop, server, calls, lost>>

NoCancelMutant ==
  /\ phase = "stopWorker"
  /\ phase' = "stopGrpc"
  /\ UNCHANGED <<database, schema, repo, loop, server, calls, lost>>

\* worker.stop(): the task is cancelled and awaited, the consumer stopped.  When
\* consumer.stop() raises, the rest of the shutdown is skipped.
EndLoop(next) ==
  /\ phase = "stopWorker"
  /\ phase' = next
  /\ loop' = "none"
  /\ Abandon({Worker})
  /\ UNCHANGED <<database, schema, repo, server, rpcs, lost>>

StopWorker == EndLoop("stopGrpc")

StopWorkerFails == EndLoop("failed")

\* grpc_server.stop(grace=5.0): no new RPCs, five seconds for the others.
StopGrpc ==
  /\ phase = "stopGrpc"
  /\ server = "serving"
  /\ server' = "draining"
  /\ UNCHANGED <<database, phase, schema, repo, loop, calls, lost>>

EndlessGraceMutant == FALSE /\ UNCHANGED vars

\* The RPCs that are left are cancelled.
GraceExpires ==
  /\ server = "draining"
  /\ rpcs' = {}
  /\ Abandon(rpcs)
  /\ UNCHANGED <<service, loop>>

NoWaitMutant ==
  /\ server = "draining"
  /\ server' = "none"
  /\ phase' = "close"
  /\ UNCHANGED <<database, schema, repo, loop, calls, lost>>

GrpcStopped ==
  /\ server = "draining"
  /\ rpcs = {}
  /\ server' = "none"
  /\ phase' = "close"
  /\ UNCHANGED <<database, schema, repo, loop, calls, lost>>

CloseDatabase ==
  /\ phase = "close"
  /\ phase' = "off"
  /\ \/ Close(TRUE) /\ UNCHANGED lost
     \/ Close(FALSE) /\ lost' = lost \cup {driver}
  /\ UNCHANGED <<at, hand, schema, repo, loop, server, calls>>

\* A crash, or the exit after a lifespan that raised: only the database stays.
ProcessEnds ==
  /\ phase # "off"
  /\ DatabaseGone
  /\ phase' = "off"
  /\ repo' = None /\ loop' = "none" /\ server' = "none" /\ lost' = {}
  /\ rpcs' = {} /\ awaiting' = {} /\ abandoned' = {}
  /\ UNCHANGED schema

-------------------------------------------------------------------------------

Lifespan ==
  \/ Begin \/ Connected \/ ApplySchema \/ StartWorker \/ StartGrpc \/ StartupFails
  \/ InsideDatabase(Main)
  \/ StopWorker \/ StopWorkerFails \/ StopGrpc \/ GrpcStopped \/ CloseDatabase

Next ==
  \/ Lifespan \/ GraceExpires \/ BeginShutdown \/ LoopDies \/ ProcessEnds
  \/ \E t \in Thread \ {Main} : Request(t) \/ InsideDatabase(t) \/ Respond(t)
  \/ \E x \in Rpc : Call(x) \/ Return_(x)
  \/ \E u \in Rpc \cup {Worker} : ToThread(u) \/ FromThread(u)
  \/ \E d \in Driver : ThreadEnds(d)

Spec == Init /\ [][Next]_vars

(* The lifespan is not suspended for ever between two of its awaits, the grace
   period is a timer, and a process whose lifespan raised exits.  No request,
   RPC, shutdown or crash is owed. *)
FairSpec ==
  /\ Spec
  /\ WF_vars(Lifespan) /\ WF_vars(GraceExpires)
  /\ WF_vars(phase = "failed" /\ ProcessEnds)

-------------------------------------------------------------------------------

(* Type correctness of the singleton and of the process.  The class lock is held
   within __new__ only. *)
LifecycleTypeOK ==
  /\ exists \in BOOLEAN /\ initialized \in BOOLEAN /\ schema \in BOOLEAN
  /\ lock   \in Thread \cup {None}
  /\ driver \in Driver \cup {None} /\ repo \in Driver \cup {None}
  /\ lock # None => at[lock] \in {"recheck", "flag"}
  /\ open   \subseteq Driver /\ lost \subseteq open
  /\ at     \in [Thread -> At]
  /\ hand   \in [Thread -> Driver \cup {None}]
  /\ phase  \in Phase /\ loop \in Loop /\ server \in Server
  /\ rpcs   \subseteq Rpc
  /\ awaiting \subseteq rpcs \cup {Worker} /\ abandoned \subseteq Driver

(* However many requests construct Neo4jDatabase() at once, and although its
   __init__ and connect take no lock, the process has one driver open: the
   lifespan has constructed and connected the instance before any of them.
   A driver whose close() raised is forgotten, and not counted. *)
OneDriver == \A d, e \in open \ lost : d = e

(* Nobody waits for an answer on a driver that is closed or was never made:
   requests that have resolved their dependencies, RPCs, the consumer loop, and
   whoever of them awaits a thread.  The order of the shutdown and the grace
   period see to it.  The transaction of an RPC that the grace period cut short,
   or of a handler that was cancelled, goes on in a thread that nobody awaits
   any more, and may meet a driver that is closed (abandoned holds one then). *)
AwaitedIsOpen ==
  /\ \A t \in Thread : at[t] = "have" => hand[t] \in open
  /\ loop = "running" \/ server = "serving" \/ rpcs \cup awaiting # {} => repo \in open

(* No event is consumed and no query answered before Neo4j has the uniqueness
   constraints that make concurrent MERGEs of one id safe, although the answer
   of verify_connectivity() is ignored. *)
SchemaBeforeTraffic ==
  loop # "none" \/ server # "none" \/ (\E t \in Thread \ {Main} : at[t] # "out") => schema

(* After an orderly shutdown no task, server, RPC or driver is left, nor a call
   that anyone awaits, only threads that were abandoned: a lifespan that begins
   again in the same process finds it as new. *)
NothingOutlivesShutdown ==
  phase = "off" =>
    /\ open = lost /\ driver = None
    /\ loop = "none" /\ server = "none" /\ rpcs \cup awaiting = {}

(* Startup ends in service or in the end of the process, and a shutdown ends,
   however long an RPC takes: the grace period is finite. *)
TransitionsEnd == phase # "serving" ~> phase \in {"serving", "off"}
================================================================================
