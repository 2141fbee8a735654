----------------------------- MODULE Neo4jDatabase -----------------------------
(***************************************************************************)
(* The driver singleton of app/db/neo4j.py, as threads run it: __new__     *)
(* under a double-checked lock, __init__ and connect without one.  Each    *)
(* action is a read or a write of an attribute that other threads share.   *)
(***************************************************************************)
CONSTANTS
  Thread,      \* the threads that construct Neo4jDatabase()
  Driver,      \* drivers; more of them than may be open at once
  None         \* no driver, no thread

ASSUME DatabaseAssumption == None \notin Driver \cup Thread

VARIABLES
  exists,       \* cls._instance is set
  lock,         \* the thread that holds cls._lock
  initialized,  \* _initialized of the instance
  driver,       \* _driver of the instance
  open,         \* the drivers that are open
  at,           \* where in the class a thread is
  hand          \* the driver a thread has made, or been given

instance == <<exists, lock, initialized>>
database == <<exists, lock, initialized, driver, open, at, hand>>

At == {"out", "lock", "recheck", "flag", "init", "blank", "mark",
       "ready", "connect", "assign", "return", "have", "raised"}

DatabaseInit ==
  /\ exists      = FALSE
  /\ lock        = None
  /\ initialized = FALSE
  /\ driver      = None
  /\ open        = {}
  /\ at          = [t \in Thread |-> "out"]
  /\ hand        = [t \in Thread |-> None]

\* Thread t goes from one place to another.
Go(t, from, to) == at[t] = from /\ at' = [at EXCEPT ![t] = to]

-------------------------------------------------------------------------------
\* Neo4jDatabase(): __new__, then __init__.

Construct(t) ==
  /\ Go(t, "out", IF exists THEN "init" ELSE "lock")
  /\ UNCHANGED <<instance, driver, open, hand>>

Lock(t) ==
  /\ Go(t, "lock", "recheck")
  /\ lock = None
  /\ lock' = t
  /\ UNCHANGED <<exists, initialized, driver, open, hand>>

\* A new instance is seen by others before it has its _initialized.
Recheck(t) ==
  /\ Go(t, "recheck", IF exists THEN "init" ELSE "flag")
  /\ lock' = IF exists THEN None ELSE lock
  /\ exists' = TRUE
  /\ UNCHANGED <<initialized, driver, open, hand>>

(* Definitions named ...Mutant are what a plausible bug would make of the
   definition that follows them; the specification does not use them. *)
KeepLockMutant(t) ==
  /\ Go(t, "flag", "init")
  /\ initialized' = FALSE
  /\ UNCHANGED <<exists, lock, driver, open, hand>>

Flag(t) ==
  /\ Go(t, "flag", "init")
  /\ initialized' = FALSE
  /\ lock' = None
  /\ UNCHANGED <<exists, driver, open, hand>>

AlwaysInitMutant(t) ==
  /\ Go(t, "init", "blank")
  /\ UNCHANGED <<instance, driver, open, hand>>

CheckInitialized(t) ==
  /\ Go(t, "init", IF initialized THEN "ready" ELSE "blank")
  /\ UNCHANGED <<instance, driver, open, hand>>

ForgetDriver(t) ==
  /\ Go(t, "blank", "mark")
  /\ driver' = None
  /\ UNCHANGED <<instance, open, hand>>

SetInitialized(t) ==
  /\ Go(t, "mark", "ready")
  /\ initialized' = TRUE
  /\ UNCHANGED <<exists, lock, driver, open, hand>>

-------------------------------------------------------------------------------
\* get_driver(), and connect() within it.

GetDriver(t) ==
  /\ Go(t, "ready", IF driver = None THEN "connect" ELSE "return")
  /\ UNCHANGED <<instance, driver, open, hand>>

\* connect() looks again, and creates a driver when there is none.
Connect(t) ==
  /\ Go(t, "connect", IF driver = None THEN "assign" ELSE "return")
  /\ \E d \in IF driver = None THEN Driver \ open ELSE {driver} :
       /\ open' = open \cup {d}
       /\ hand' = [hand EXCEPT ![t] = d]
  /\ UNCHANGED <<instance, driver>>

\* A bad URI: logged and raised.
ConnectFails(t) ==
  /\ driver = None
  /\ Go(t, "connect", "raised")
  /\ UNCHANGED <<instance, driver, open, hand>>

Assign(t) ==
  /\ Go(t, "assign", "return")
  /\ driver' = hand[t]
  /\ UNCHANGED <<instance, open, hand>>

\* _driver is read once more to be returned.
Return(t) ==
  /\ Go(t, "return", "have")
  /\ hand' = [hand EXCEPT ![t] = driver]
  /\ UNCHANGED <<instance, driver, open>>

\* The caller is done with the driver, or gives up.
Release(t) ==
  /\ at[t] \in {"have", "raised"}
  /\ at' = [at EXCEPT ![t] = "out"]
  /\ hand' = [hand EXCEPT ![t] = None]
  /\ UNCHANGED <<instance, driver, open>>

\* close(): the driver is forgotten even when closing it raises (closed = FALSE).
Close(closed) ==
  /\ open' = IF closed THEN open \ {driver} ELSE open
  /\ driver' = None
  /\ UNCHANGED instance

\* The process ends, and with it the class, its instance and its sockets.
DatabaseGone ==
  /\ exists' = FALSE /\ initialized' = FALSE
  /\ lock' = None /\ driver' = None
  /\ open' = {}
  /\ at'   = [t \in Thread |-> "out"]
  /\ hand' = [t \in Thread |-> None]

\* A thread inside the class goes on.
Step(t) ==
  \/ Lock(t) \/ Recheck(t) \/ Flag(t)
  \/ CheckInitialized(t) \/ ForgetDriver(t) \/ SetInitialized(t)
  \/ GetDriver(t) \/ Connect(t) \/ ConnectFails(t) \/ Assign(t) \/ Return(t)
================================================================================
