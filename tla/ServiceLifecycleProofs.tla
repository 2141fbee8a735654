------------------------- MODULE ServiceLifecycleProofs -------------------------
(***************************************************************************)
(* The safety properties of ServiceLifecycle, for any number of request    *)
(* threads, drivers and RPCs.                                              *)
(*                                                                         *)
(* The argument: the lifespan's thread is alone in Neo4jDatabase until it  *)
(* has constructed and connected the instance, so the places that race     *)
(* are never taken by two threads; a request that comes later finds        *)
(* everything set.                                                         *)
(***************************************************************************)
EXTENDS ServiceLifecycle, TLAPS

\* The driver is made and its repository handed out.
Up == {"schema", "worker", "grpc", "serving", "stopWorker", "stopGrpc", "close"}

\* Where the lifespan's thread is, and what it has found or set there.
MainAlone ==
  /\ at[Main] # "out" <=> phase = "connect"
  /\ lock = IF at[Main] \in {"recheck", "flag"} THEN Main ELSE None
  /\ at[Main] \in {"lock", "recheck"} => ~exists
  /\ at[Main] \in {"flag", "init", "blank", "mark"} => exists
  /\ at[Main] \in {"ready", "connect", "assign", "return", "have", "raised"} =>
       exists /\ initialized
  /\ at[Main] = "out" => exists = initialized
  /\ phase \in Up => exists

\* A request never takes the lock, blanks an attribute or connects.
RequestsFollow ==
  \A t \in Thread \ {Main} :
    /\ at[t] \in {"out", "init", "ready", "return", "have"}
    /\ at[t] # "out" => phase = "serving"
    /\ at[t] = "have" => hand[t] = driver

\* The driver there is, is the one that is open.
DriverKept ==
  /\ phase \in Up => driver # None
  /\ phase = "off" => driver = None
  /\ phase = "connect" => (driver # None <=> at[Main] \in {"return", "have"})
  /\ driver \notin lost
  /\ at[Main] = "have" => hand[Main] = driver
  /\ IF at[Main] = "assign"
     THEN hand[Main] \in Driver \ lost /\ open = lost \cup {hand[Main]}
     ELSE open = IF driver = None THEN lost ELSE lost \cup {driver}

\* What runs at each step of the lifespan.
StageKept ==
  /\ loop # "none" => phase \in {"grpc", "serving", "stopWorker", "failed"}
  /\ server # "none" => phase \in {"serving", "stopWorker", "stopGrpc", "failed"}
  /\ server = "draining" => phase = "stopGrpc"
  /\ rpcs # {} => server # "none"
  /\ Worker \in awaiting => loop = "running"
  /\ phase \in Up => repo = driver
  /\ loop # "none" \/ server # "none" => repo = driver /\ driver # None /\ schema
  /\ phase \in Up \ {"schema"} => schema

LifecycleInv == LifecycleTypeOK /\ MainAlone /\ RequestsFollow /\ DriverKept /\ StageKept

-------------------------------------------------------------------------------
\* The invariant is inductive: one lemma per part of the next-state relation.

(* Before the process starts nothing is made. *)
LEMMA NothingAtFirst == Init => LifecycleInv
  BY LifecycleAssumption, DatabaseAssumption
  DEF Init, DatabaseInit, LifecycleInv, LifecycleTypeOK, MainAlone, RequestsFollow,
      DriverKept, StageKept, Up, Phase, Loop, Server, At, calls

(* Startup: the lifespan's thread is the only one anywhere. *)
LEMMA StartupKeeps ==
  ASSUME LifecycleInv, \/ Begin \/ Connected \/ ApplySchema
                       \/ StartWorker \/ StartGrpc \/ StartupFails
  PROVE  LifecycleInv'
<1>. USE LifecycleAssumption, DatabaseAssumption
         DEF LifecycleInv, LifecycleTypeOK, MainAlone, RequestsFollow,
             DriverKept, StageKept, Up, Phase, Loop, Server, At, calls
<1>1. CASE Begin
  BY <1>1 DEF Begin, Construct, Go, instance
<1>2. CASE Connected
  BY <1>2 DEF Connected, Release, instance
<1>3. CASE ApplySchema
  BY <1>3 DEF ApplySchema, database
<1>4. CASE StartWorker
  BY <1>4 DEF StartWorker, database
<1>5. CASE StartGrpc
  BY <1>5 DEF StartGrpc, database
<1>6. CASE StartupFails
  BY <1>6 DEF StartupFails, Release, instance, database
<1>. QED BY <1>1, <1>2, <1>3, <1>4, <1>5, <1>6

(* The lifespan's thread inside Neo4jDatabase. *)
LEMMA MainInsideKeeps ==
  ASSUME LifecycleInv, InsideDatabase(Main)
  PROVE  LifecycleInv'
<1>. USE LifecycleAssumption, DatabaseAssumption
         DEF LifecycleInv, LifecycleTypeOK, MainAlone, RequestsFollow,
             DriverKept, StageKept, Up, Phase, Loop, Server, At, calls, InsideDatabase,
             Go, instance, process
<1>1. CASE Lock(Main)
  BY <1>1 DEF Lock
<1>2. CASE Recheck(Main)
  BY <1>2 DEF Recheck
<1>3. CASE Flag(Main)
  BY <1>3 DEF Flag
<1>4. CASE CheckInitialized(Main)
  BY <1>4 DEF CheckInitialized
<1>5. CASE ForgetDriver(Main)
  BY <1>5 DEF ForgetDriver
<1>6. CASE SetInitialized(Main)
  BY <1>6 DEF SetInitialized
<1>7. CASE GetDriver(Main)
  BY <1>7 DEF GetDriver
<1>8. CASE Connect(Main)
  BY <1>8 DEF Connect
<1>9. CASE ConnectFails(Main)
  BY <1>9 DEF ConnectFails
<1>10. CASE Assign(Main)
  BY <1>10 DEF Assign
<1>11. CASE Return(Main)
  BY <1>11 DEF Return
<1>. QED BY <1>1, <1>2, <1>3, <1>4, <1>5, <1>6, <1>7, <1>8, <1>9, <1>10, <1>11 DEF Step

(* A request's thread inside Neo4jDatabase: by RequestsFollow it can only check,
   look and return, since the instance and the driver are there. *)
LEMMA RequestInsideKeeps ==
  ASSUME LifecycleInv, NEW t \in Thread \ {Main}, InsideDatabase(t)
  PROVE  LifecycleInv'
<1>. USE LifecycleAssumption, DatabaseAssumption
         DEF LifecycleInv, LifecycleTypeOK, MainAlone, RequestsFollow,
             DriverKept, StageKept, Up, Phase, Loop, Server, At, calls
<1>1. UNCHANGED process
  BY DEF InsideDatabase
<1>2. CheckInitialized(t) \/ GetDriver(t) \/ Return(t)
  BY DEF InsideDatabase, Step, Go, Lock, Recheck, Flag, ForgetDriver,
         SetInitialized, Connect, ConnectFails, Assign
<1>3. CASE CheckInitialized(t)
  BY <1>1, <1>3 DEF CheckInitialized, Go, instance, process
<1>4. CASE GetDriver(t)
  BY <1>1, <1>4 DEF GetDriver, Go, instance, process
<1>5. CASE Return(t)
  BY <1>1, <1>5 DEF Return, Go, instance, process
<1>. QED BY <1>2, <1>3, <1>4, <1>5

(* A request comes, or is answered. *)
LEMMA RequestKeeps ==
  ASSUME LifecycleInv, NEW t \in Thread \ {Main}, Request(t) \/ Respond(t)
  PROVE  LifecycleInv'
<1>. USE LifecycleAssumption, DatabaseAssumption
         DEF LifecycleInv, LifecycleTypeOK, MainAlone, RequestsFollow,
             DriverKept, StageKept, Up, Phase, Loop, Server, At, calls
<1>1. CASE Request(t)
  BY <1>1 DEF Request, Construct, Go, instance, process
<1>2. CASE Respond(t)
  BY <1>2 DEF Respond, Release, instance, process
<1>. QED BY <1>1, <1>2

(* An RPC comes, or returns. *)
LEMMA RpcKeeps ==
  ASSUME LifecycleInv, NEW x \in Rpc, Call(x) \/ Return_(x)
  PROVE  LifecycleInv'
<1>. USE LifecycleAssumption
         DEF service, database, LifecycleInv, LifecycleTypeOK, MainAlone,
             RequestsFollow, DriverKept, StageKept
<1>1. CASE Call(x)
  BY <1>1 DEF Call
<1>2. CASE Return_(x)
  <2>1. rpcs # {} /\ repo \in Driver
    BY <1>2 DEF Return_
  <2>. QED BY <1>2, <2>1 DEF Return_, Abandon
<1>. QED BY <1>1, <1>2

(* A transaction goes to a thread, and comes back, to whoever awaits it or not. *)
LEMMA ThreadKeeps ==
  ASSUME LifecycleInv,
         \/ \E u \in Rpc \cup {Worker} : ToThread(u) \/ FromThread(u)
         \/ \E d \in Driver : ThreadEnds(d)
  PROVE  LifecycleInv'
<1>. USE LifecycleAssumption
         DEF service, database, LifecycleInv, LifecycleTypeOK, MainAlone,
             RequestsFollow, DriverKept, StageKept
<1>1. ASSUME NEW u \in Rpc \cup {Worker}, ToThread(u) PROVE LifecycleInv'
  BY <1>1 DEF ToThread
<1>2. ASSUME NEW u \in Rpc \cup {Worker}, FromThread(u) PROVE LifecycleInv'
  BY <1>2 DEF FromThread
<1>3. ASSUME NEW d \in Driver, ThreadEnds(d) PROVE LifecycleInv'
  BY <1>3 DEF ThreadEnds
<1>. QED BY <1>1, <1>2, <1>3

(* Shutdown, and the consumer loop's silent death. *)
LEMMA ShutdownKeeps ==
  ASSUME LifecycleInv, \/ BeginShutdown \/ StopWorker \/ StopWorkerFails
                       \/ StopGrpc \/ GraceExpires \/ GrpcStopped \/ LoopDies
  PROVE  LifecycleInv'
<1>. USE LifecycleAssumption, DatabaseAssumption
         DEF LifecycleInv, LifecycleTypeOK, MainAlone, RequestsFollow,
             DriverKept, StageKept, Up, Phase, Loop, Server, At, calls
<1>1. CASE BeginShutdown
  BY <1>1 DEF BeginShutdown, database
<1>2. CASE StopWorker
  <2>1. Worker \in awaiting => repo \in Driver
    OBVIOUS
  <2>. QED BY <1>2, <2>1 DEF StopWorker, EndLoop, Abandon, database
<1>3. CASE StopWorkerFails
  <2>1. Worker \in awaiting => repo \in Driver
    OBVIOUS
  <2>. QED BY <1>3, <2>1 DEF StopWorkerFails, EndLoop, Abandon, database
<1>4. CASE StopGrpc
  BY <1>4 DEF StopGrpc, database
<1>5. CASE GraceExpires
  <2>1. repo \in Driver
    BY <1>5 DEF GraceExpires
  <2>. QED BY <1>5, <2>1 DEF GraceExpires, Abandon, service, database
<1>6. CASE GrpcStopped
  BY <1>6 DEF GrpcStopped, database
<1>7. CASE LoopDies
  BY <1>7 DEF LoopDies, database
<1>. QED BY <1>1, <1>2, <1>3, <1>4, <1>5, <1>6, <1>7

(* The driver is closed, or its close() raises and it is given up as lost. *)
LEMMA CloseKeeps ==
  ASSUME LifecycleInv, CloseDatabase
  PROVE  LifecycleInv'
<1>. USE LifecycleAssumption, DatabaseAssumption
         DEF LifecycleInv, LifecycleTypeOK, MainAlone, RequestsFollow,
             DriverKept, StageKept, Up, Phase, Loop, Server, At, calls,
             CloseDatabase, Close, instance
<1>1. open = lost \cup {driver} /\ driver \notin lost /\ driver # None /\ None \notin open
  OBVIOUS
<1>2. CASE Close(TRUE) /\ UNCHANGED lost
  <2>1. open' = lost'
    BY <1>1, <1>2
  <2>. QED BY <1>1, <1>2, <2>1
<1>3. CASE Close(FALSE) /\ lost' = lost \cup {driver}
  <2>1. open' = lost'
    BY <1>1, <1>3
  <2>. QED BY <1>1, <1>3, <2>1
<1>. QED BY <1>2, <1>3

(* The process ends, wherever it was. *)
LEMMA EndKeeps ==
  ASSUME LifecycleInv, ProcessEnds
  PROVE  LifecycleInv'
  BY LifecycleAssumption, DatabaseAssumption
  DEF ProcessEnds, DatabaseGone, LifecycleInv, LifecycleTypeOK, MainAlone,
      RequestsFollow, DriverKept, StageKept, Up, Phase, Loop, Server, At, calls

(* Every step, and every stutter. *)
LEMMA LifecycleInvKept ==
  ASSUME LifecycleInv, [Next]_vars
  PROVE  LifecycleInv'
<1>1. CASE UNCHANGED vars
  <2>. USE <1>1 DEF vars, database, process, calls, LifecycleInv
  <2>1. LifecycleTypeOK'
    <3>1. exists' \in BOOLEAN /\ initialized' \in BOOLEAN /\ schema' \in BOOLEAN
      BY Zenon DEF LifecycleTypeOK
    <3>. QED BY <3>1 DEF LifecycleTypeOK, Phase, Loop, Server, At
  <2>2. MainAlone'
    BY DEF MainAlone, Up
  <2>3. RequestsFollow'
    BY DEF RequestsFollow
  <2>4. DriverKept'
    BY DEF DriverKept, Up
  <2>5. StageKept'
    BY DEF StageKept, Up
  <2>. QED BY <2>1, <2>2, <2>3, <2>4, <2>5
<1>2. CASE Lifespan
  BY <1>2, StartupKeeps, MainInsideKeeps, ShutdownKeeps, CloseKeeps DEF Lifespan
<1>3. CASE GraceExpires \/ BeginShutdown \/ LoopDies \/ ProcessEnds
  BY <1>3, ShutdownKeeps, EndKeeps
<1>4. CASE \E t \in Thread \ {Main} : Request(t) \/ InsideDatabase(t) \/ Respond(t)
  BY <1>4, RequestKeeps, RequestInsideKeeps
<1>5. CASE \E x \in Rpc : Call(x) \/ Return_(x)
  BY <1>5, RpcKeeps
<1>6. CASE \/ \E u \in Rpc \cup {Worker} : ToThread(u) \/ FromThread(u)
           \/ \E d \in Driver : ThreadEnds(d)
  BY <1>6, ThreadKeeps
<1>. QED BY <1>1, <1>2, <1>3, <1>4, <1>5, <1>6 DEF Next

(* What is proved of every reachable state. *)
LEMMA LifecycleInvHolds == Spec => []LifecycleInv
  BY NothingAtFirst, LifecycleInvKept, PTL DEF Spec

-------------------------------------------------------------------------------
\* What the invariant gives.

(* Type correctness, for every set of threads, drivers and RPCs. *)
THEOREM LifecycleTypes == Spec => []LifecycleTypeOK
<1>1. LifecycleInv => LifecycleTypeOK
  BY DEF LifecycleInv
<1>. QED BY <1>1, LifecycleInvHolds, PTL

(* The unlocked places of the singleton never give the process a second driver. *)
THEOREM DriverIsSingle == Spec => []OneDriver
<1>1. LifecycleInv => OneDriver
  BY DEF LifecycleInv, DriverKept, OneDriver
<1>. QED BY <1>1, LifecycleInvHolds, PTL

(* A request, an RPC, the consumer loop, and whoever of them awaits a thread of
   the repository, hold a driver that is open, up to and through the shutdown. *)
THEOREM DriverAwaitedIsOpen == Spec => []AwaitedIsOpen
<1>1. ASSUME LifecycleInv PROVE AwaitedIsOpen
  <2>1. ASSUME NEW t \in Thread, at[t] = "have" PROVE hand[t] \in open
    <3>1. hand[t] = driver /\ phase \in {"connect", "serving"}
      BY <1>1, <2>1 DEF LifecycleInv, MainAlone, RequestsFollow, DriverKept
    <3>2. driver # None /\ at[Main] # "assign"
      BY <1>1, <2>1, <3>1
      DEF LifecycleInv, MainAlone, RequestsFollow, DriverKept, Up
    <3>. QED BY <1>1, <3>1, <3>2 DEF LifecycleInv, DriverKept
  <2>2. ASSUME loop = "running" \/ server = "serving" \/ rpcs \cup awaiting # {} PROVE repo \in open
    <3>1. repo = driver /\ driver # None
      BY <1>1, <2>2 DEF LifecycleInv, LifecycleTypeOK, StageKept
    <3>2. at[Main] # "assign"
      BY <1>1, <2>2 DEF LifecycleInv, LifecycleTypeOK, MainAlone, StageKept
    <3>. QED BY <1>1, <3>1, <3>2 DEF LifecycleInv, DriverKept
  <2>. QED BY <2>1, <2>2 DEF AwaitedIsOpen
<1>. QED BY <1>1, LifecycleInvHolds, PTL

(* Nothing is consumed or answered before the constraints are there. *)
THEOREM SchemaComesFirst == Spec => []SchemaBeforeTraffic
<1>1. LifecycleInv => SchemaBeforeTraffic
  BY DEF LifecycleInv, RequestsFollow, StageKept, SchemaBeforeTraffic, Up
<1>. QED BY <1>1, LifecycleInvHolds, PTL

(* A lifespan that ran to its end leaves the process as it was before it. *)
THEOREM ShutdownIsComplete == Spec => []NothingOutlivesShutdown
<1>1. LifecycleInv => NothingOutlivesShutdown
  BY DEF LifecycleInv, LifecycleTypeOK, MainAlone, DriverKept, StageKept, NothingOutlivesShutdown
<1>. QED BY <1>1, LifecycleInvHolds, PTL
================================================================================
