# TLA+ verification of the Graph Service

The Graph Service keeps a Neo4j graph of conversations, their branches and
their messages. It consumes four Kafka topics, writes what the events say with
guarded `MERGE` statements, and answers lineage queries over REST and gRPC.
This directory holds its specifications, the TLC configurations that check them
on small instances, and the proofs that hold for every instance.

    tlc -config GraphSoftDelete.cfg MCGraphService     # a model-checking run
    tlapm GraphServiceProofs.tla                       # a module of proofs

The modules of proofs are `GraphServiceProofs`, `GraphQueriesProofs`,
`GraphReadsProofs`, `GraphReplicaProofs`, `WireIngestProofs`,
`ConsumerWorkerProofs`, `GraphSyncProofs` and `ServiceLifecycleProofs`.

Source paths below are relative to the repository, `app/` being `src/app/`.

## 1. The system

| component | code | state | operations |
|---|---|---|---|
| Graph store, write statements | `app/db/cypher/conversation_queries.py`, `app/models/graph_models.py` | `Conversation`, `Message`, `User`, `ProcessedEvent` nodes; `HAS_CHILD`, `CREATED_FROM`, `SENT`, `BELONGS_TO` | merge, update, soft and hard delete, bare merge, merge of a relationship |
| Event handlers, write repository | `app/services/graph_service.py`, `app/repositories/graph_repository.py` | none of its own | one handler per topic, one or two write transactions each |
| Event schemas | `app/events/*.py` | none | two wire formats (envelope and flat) to one payload |
| Kafka consumer worker | `app/workers/consumer_worker.py` | `_running`, the task, the consumer; the batch on its stack | start, stop, poll, gate, route, mark, commit |
| Graph queries | read half of service and repository, `app/db/cypher/traversal_queries.py`, `app/api/routes/*.py` | none | details, parent, children, ancestors, descendants, memory context; ownership, paging |
| gRPC context handler | `app/grpc/graph_context_handler.py` | none | GetGraphContext, GetNodesByIds |
| Neo4j driver singleton | `app/db/neo4j.py` | `_instance`, `_driver`, a lock | construct, connect, close, get_driver |
| Service lifecycle | `app/main.py` | what has been started | startup and shutdown sequence, health |
| Security, configuration, logging, exceptions | `app/core/*`, `app/api/dependencies.py` | none | single comparisons and constants |

**Interactions.** The conversation service publishes; Kafka keeps each
partition in order and nothing between partitions or topics. The worker's loop
polls a batch, and for each record asks the repository whether its `event_id`
is marked, calls a handler, marks the event, and commits the batch at the end.
Handlers run repository transactions in threads. Several processes share the
consumer group and the database. REST and gRPC read the same graph at any time.

**What is hard.**

- *Order.* Created, updated, deleted and message events of one conversation
  come on different topics, so in any order; a branch may arrive before its
  parent, a message before its conversation. The design answers with stubs,
  bare nodes and one `updated_at` guard, which have to work together.
- *Repetition.* Delivery is at least once, the gate and the marker are separate
  transactions, and some events carry no id. The handlers have to bear replays,
  late ones included.
- *Failure.* A handler, the gate, the marker, a commit or a poll may fail with
  or without effect; a message handler may stop between its two transactions; a
  process may be stopped or crash anywhere; `stop()` abandons threads that go on
  writing.
- *Concurrency of replicas.* A rebalance gives a partition to another member
  while the old one still writes the records it polled.
- *Readers.* A request is several transactions: what its ownership check saw
  may be gone when the query runs, and the two traversals of a gRPC context see
  different graphs. Order and limits are applied by `created_at`, which stubs
  set to the epoch.
- *Three stores of progress.* The graph, the marker and the offset are
  committed one after the other to two systems; between any two a crash, a
  rebalance or a late thread may come.
- *Liveness.* A record nobody can process must not stall its partition.
- *Two wire formats, two spellings of time.* Producers migrate from flat to
  nested objects on the same topics, and timestamps are compared as strings.
- *A singleton without its lock.* `__new__` of the driver class is locked,
  `__init__` and `connect` are not, and request threads construct it at will.
- *Startup and shutdown.* Any step may fail, RPCs may outlast the grace period,
  and threads whoever awaited them, up to the close of their driver.

**What makes each component correct.**

- Graph store and handlers: a node stores the newest write it was offered
  whatever the order (`LatestWriteWins`), time never goes back
  (`UpdatedNeverRegresses`), the owner and creation time never change
  (`OwnerAndOriginImmutable`), an owned node can be returned
  (`OwnedNodeComplete`), the two lineage relationships are inverse and never
  dangle (`LineageConsistent`), messages hang where their node says
  (`MessagesConsistent`), nothing handled is unwired (`HandledIsWired`), a
  branch leaves its real parent alone (`ChildLeavesKnownParentAlone`), a replay
  changes nothing (`ReplayIsNoOp`). Seen from outside, the graph is a replica
  that learns facts of events and forgets none (`KeepsLineage`).
- Schemas: a change told in either format leaves the same graph
  (`FormatsAgree`), spellings of a timestamp cost less than a second
  (`NeverASecondBehind`) and nothing among the service's own (`OwnClockIsExact`),
  empty titles come from updates only (`BlankComesFromUpdates`).
- Worker: it implements at-least-once delivery (`KeepsPromise`), that is, a
  marker stands behind a complete event (`MarkedImpliesWritten`) and commits
  cover settled records only (`CommitCoversOnlySettled`).
- Worker and graph together: the graph holds what took effect, no less and no
  more (`GraphIsWhatWasWritten`), what Kafka or the gate will not bring again is
  visible (`CommittedIsVisible`), and in the end everything is (`SyncConverges`).
- Queries: an owner that was checked stays the owner (`AdmittedStaysOwned`),
  going up and going down see one tree (`NavigationAgrees`), a caller who pages
  through a list that handlers change, and whose owner is filtered after the
  limit, passes over nobody (`NobodyIsPassedOver`) and sees nobody twice
  (`NobodyComesTwice`) unless someone left or joined the rows behind him, the
  memory context is defined and unique
  (`MemoryIsTheLineage`), an answer holds the caller's conversations only, for
  as long as it is held (`AnswersAreTheCallers`).
- gRPC: the two traversals never contradict each other
  (`ContextNamesNobodyTwice`), and the relationships of a context follow the
  lineage (`ContextFollowsLineage`).
- Driver: one is open at most (`OneDriver`), and whoever waits for an answer of
  the database waits on an open one (`AwaitedIsOpen`).
- Lifecycle: nothing is served before the constraints exist
  (`SchemaBeforeTraffic`), an orderly shutdown leaves nothing behind
  but threads nobody awaits (`NothingOutlivesShutdown`), startup and shutdown
  end (`TransitionsEnd`).

## 2. Modules

| module | what it is |
|---|---|
| `GraphStore` | the write statements as operators on node functions and sets of relationships |
| `GraphService` | extends it: handlers and write transactions as actions, the graph's properties |
| `GraphPromises` | statements of the docs and comments about the graph that have counterexamples |
| `LineageReplica` | abstract specification of the graph: facts are learned, none is lost |
| `GraphReplica` | extends `GraphService`: the facts a graph states and a transaction brings; the refinement |
| `IsoTimestamps`, `EventSchemas` | the string order of timestamps; from a JSON object to an event |
| `WireIngest` | the handlers of `GraphService` fed with JSON objects of both formats |
| `GraphQueries` | extends `GraphService`: the read statements, ownership filter, paging |
| `GraphReads` | extends it: a reader of REST and gRPC beside the handlers, one action per transaction |
| `GraphPaging` | extends it: the reader may instead page through a list that handlers change |
| `ReadPromises` | statements of comments about gRPC contexts that have counterexamples |
| `AtLeastOnce` | abstract specification of ingestion: transactions, markers, committed offsets |
| `ConsumerWorker` | extends it: replicas, group coordinator, faults; shown to implement `AtLeastOnce` |
| `ConsumerPromises` | statements of the docs and comments about ingestion that have counterexamples |
| `GraphSync` | `ConsumerWorker` and `GraphService` composed: replicas feed the graph |
| `Neo4jDatabase` | the driver singleton under threads |
| `ServiceLifecycle` | extends it: startup, service, shutdown, exit |
| `GraphServiceProofs`, `GraphQueriesProofs`, `GraphReadsProofs`, `GraphReplicaProofs`, `WireIngestProofs`, `ConsumerWorkerProofs`, `GraphSyncProofs`, `ServiceLifecycleProofs` | TLAPS proofs about the module of that name; `GraphReadsProofs` extends `GraphQueriesProofs`, and that `GraphServiceProofs` |
| `MCGraphService`, `MCGraphReads`, `MCConsumerWorker`, `MCGraphSync`, `MCWireIngest`, `MCServiceLifecycle` | the small instances |

### GraphStore and GraphService

`conv` maps a conversation id to a node or `Absent`; a node's fields are the
five properties the statements set, `Null` for one never set. That `conv` is a
function is the uniqueness constraint of `create_constraints_and_indexes`.
`hasChild`, `createdFrom`, `sent`, `belongsTo` are the relationships, `message`
and `users` the other labels. A statement is one operator: `Merged` is
`MERGE_CONVERSATION_NODE` with its `ON CREATE` and guarded `ON MATCH` branches,
`Updated`, `SoftDeleted` and `MergedBare` likewise, and `MergeRelationship`
does nothing unless both ends match.

Timestamps are compared by Cypher as strings, so a time is the rank of its
string, and `Epoch` is rank 0. The clock (`Now`) is a small set: a replica's
clock is tied to nobody else's. The fallbacks of `process_conversation_created`
(`unknown_user`, a made-up title, `ACTIVE`, the time of handling) are in
`NewConversation`. `_normalize_message_event` chooses the user id, so an event
carries the outcome.

| code | action |
|---|---|
| `process_conversation_created` → `create_conversation_with_parent`, one transaction | `ProcessConversationCreated` |
| `process_conversation_deleted` → soft or hard delete | `ProcessConversationDeleted` |
| `process_conversation_updated` | `ProcessConversationUpdated` |
| `process_message_created`, first transaction (`create_message_node`) | `CreateMessageNode` |
| `process_message_created`, second transaction (`create_message_relationships`) | `CreateMessageRelationships` |

The specification lets every event be handled at any time, in any order and
any number of times. The worker only removes behaviours from that, so what
holds here holds under it. A handler that stops between the two message
transactions is a `CreateMessageNode` that nothing follows.

Two history variables record what the properties need and the program does
not store: `offered`, the writes each node has weighed since it exists, and
`handled`, the events whose handler has returned.

### GraphQueries and GraphReads

`Ancestors`, `Descendants`, `Parents`, `Children` and `PathsTo` are the `MATCH`
patterns; `Rows` adds `WHERE` and `ORDER BY`, `Page` is `SKIP` and `LIMIT`,
`OwnedBy` the filter of the service. A variable-length pattern is a least set
(`Reached`), and an `ORDER BY` the one sequence that lists a set in an order
(`InOrder`): both say what a query yields and not how, and both can be reasoned
about, where a recursive closure or sort could not. `IdOrder` is the string
order of the ids, the second sort key. `LineageAssumption` says what the conversation service
guarantees of the created events: a conversation has one parent, made before
it, so there are no cycles and one path between two conversations.

| code | action |
|---|---|
| `service.get_conversation`, the first transaction of every request | `Refuse`, `Details` (the whole request) or `Admit` |
| `get_children`, `get_ancestors`, `get_descendants`, second transaction | `RespondList` |
| `get_parent`, `get_memory_context`, second transaction | `RespondParent`, `RespondMemory` |
| `GetGraphContext`, the two gathered traversals, in either order | `ReadUp`, `ReadDown` |
| `GetGraphContext`, filter, chain and answer | `RespondContext` |
| `GetNodesByIds`, too many ids / the gathered lookups begin | `RefuseNodes`, `AskNodes` |
| one `service.get_conversation` of the gathered ones, in any order | `LookUp` |
| `GetNodesByIds`, what came back of the caller's own | `RespondNodes` |

The reader's steps interleave with every action of `GraphService`. One reader
is enough: readers write nothing. Its last answer stays in `response` until the
next request. A 404 and gRPC's empty context are both an empty answer.

### GraphPaging

The routes for children, ancestors and descendants take `skip` and `limit`; a
caller pages by asking again with `skip` grown by `limit`, whatever came back,
since the owner is filtered after `LIMIT` and a short or empty page is no end.
Each page is a request with its own two transactions, and handlers run between
any two of all these.

| what happens | action |
|---|---|
| the caller chooses a list and a page size | `Begin` |
| the next page, its ownership check | `AskPage` (`Admit` or `Refuse` of `GraphReads`) |
| the query and the filter of that page | `TakePage` (`Reply`) |
| a transaction of a handler | `Meanwhile` |

`walk` holds the list, the pages taken and the rows seen. Two fields are
history: `late`, who joined the list before the caller's position since he
began (a stub, with its epoch, joins at the head), and `gone`, whether someone
behind him left it (soft deletion). A reader either asks single questions, as in
`GraphReads`, or pages; the configurations of `MCGraphReads` run `PagingSpec`,
which has both.

### LineageReplica and GraphReplica

`Known` reads the graph as a set of facts: this conversation exists, this one is
a child of that one, this message belongs there. `Gain(e, k)` is what
transaction `k` of event `e` adds. `KeepsLineage` is the refinement: with soft
deletion every step of `GraphService` is one `Learn`, or a stutter. Since
learning is a union, replicas that handled the same events know the same
lineage in whatever order and number they did; what is *not* a fact, title and
status and owner, is the subject of `LatestWriteWins` and
`OwnerAndOriginImmutable` instead.

### IsoTimestamps, EventSchemas and WireIngest

A stamp is a second, a fraction and a zone spelling. `Rank` is its place in the
order of strings, where `Z` sorts after every digit and `+` before `.`: this is
what the guards compare, and the `Epoch` of a stub is rank 0. `EventSchemas`
translates an object of each topic: `CreatedOf`, `DeletedOf`, `UpdatedOf`,
`MessageOf` are `get_payload` of the event classes with
`_normalize_message_event`, and `Rejected` is what pydantic refuses; `whole` says
of a message that the required strings nothing reads (`content`, `event_type`)
are there, which only the nested format insists on. `Or` is
Python's `or`, so where the code writes `x or y` an empty string falls through,
and where it tests `is not None` it does not; `CreatedOf` and `UpdatedOf` differ
in that. `Object` is the shape of the objects: the fields that are read, each
left out, empty where that makes a difference, or filled. `Deliver(w)` is the
handler's action on the translated event, and the replicas' clock (`Clock`)
writes the service's own spelling.

### AtLeastOnce and ConsumerWorker

The abstract module has four variables: the transactions that took effect, the
marked events, the records given up on, the committed offsets. Its steps are one
transaction (`Apply`), a marker behind a whole event (`Confirm`), giving up on
a record (`Abandon`) and moving offsets forward over settled records
(`Advance`).

The detailed module gives each replica a program counter. Each `await` of
`_consume_loop` and `_handle_message` separates two actions:

| code | action |
|---|---|
| `start()` | `Start`; a loop that died leaves `_running` set, so no `Start` from `"dead"` |
| `getmany` | `Poll`, `PollNothing` |
| decoding and the choice of the gate | `Take` |
| `is_event_processed`, its failure tolerated | `Check` |
| one write transaction of a handler | `WriteGraph` |
| the `except` around the handlers | `HandlerFails` (`FailAs`: the transaction took effect or not) |
| `mark_event_processed`, its failure tolerated | `Mark` |
| `consumer.commit()` | `Commit` |
| an exception of `getmany` or `commit` | `KafkaFails` |
| `stop()` or a crash | `GoDown` |
| a transaction that an abandoned thread still runs | `Land` (`LandAs`: it commits or not) |
| the group coordinator (external) | `Assign`, `Rebalance` |

A record is reduced to its effect on the loop: bytes that do not decode, JSON
that is not an object, an object that its handler rejects, or a valid event;
and whether it has an `event_id`. The record's effect on the graph is a set of
`<<event, transaction>>` pairs; `GraphService` says what they do.
Kafka is modelled from how the worker uses it: `enable_auto_commit=False` and
`auto_offset_reset="earliest"`, a position per assigned partition, reset to the
committed offset on assignment, and `commit()` without arguments committing
the positions of the partitions owned at that moment. `stop()` sets `_running`
and cancels in one step without an `await` between, so the loop never sees the
flag change without the cancellation.

### GraphSync

One record of a log carries one event of `GraphService`, and a step that makes a
transaction take effect in the worker is the same step of the graph: `Handle` is
`WriteGraph` with `Transaction`, `Fail` and `Land` change the graph exactly when
the transaction landed, everything else leaves it alone. So a replay, a
half-written message, a rebalance and an abandoned thread all act on the real
statements. Kafka calls do not raise here; the loop they end is in
`ConsumerWorker`.

### Neo4jDatabase and ServiceLifecycle

Each thread has a place in the class, and each action is one read or write of an
attribute that threads share: `Construct`, `Lock`, `Recheck`, `Flag` are
`__new__` with its double-checked lock, `CheckInitialized`, `ForgetDriver`,
`SetInitialized` are `__init__`, `GetDriver`, `Connect`, `ConnectFails`,
`Assign`, `Return` are `get_driver` and `connect`.

| code | action |
|---|---|
| `Neo4jDatabase()` and `connect()` of the lifespan, `get_repository` | `Begin`, `InsideDatabase(Main)`, `Connected` |
| `create_constraints_and_indexes` | `ApplySchema` |
| `worker.start()`, `start_grpc_server()` | `StartWorker`, `StartGrpc` |
| any of them raises | `StartupFails` |
| `get_db`, `get_repository` of a request in a thread, its end | `Request`, `InsideDatabase(t)`, `Respond` |
| an RPC: it comes, and returns or is cancelled by its caller | `Call`, `Return_` |
| `asyncio.to_thread` of an RPC or of the consumer loop, its answer | `ToThread`, `FromThread` |
| the end of a thread that nobody awaits any more | `ThreadEnds` |
| the consumer loop's silent end | `LoopDies` |
| the shutdown half of the lifespan | `BeginShutdown`, `StopWorker` or `StopWorkerFails`, `StopGrpc`, `GraceExpires`, `GrpcStopped`, `CloseDatabase` |
| a crash, or the exit of a lifespan that raised | `ProcessEnds` |

A thread cannot be cancelled. Whoever awaits one may be: the RPCs left when the
grace period ends, an RPC whose caller has gone or one of whose gathered
transactions failed before the other, the handler of a stopped consumer loop.
Their threads go on with the driver they have (`Abandon` notes it in
`abandoned`), nobody waits for them, and the `close()` that follows may come
first. `AwaitedIsOpen` is therefore about those who wait for an answer; that a
driver is never closed under *any* thread is false (see below).

uvicorn is external: it sends requests between startup and shutdown only, and
lets those in progress finish. After an orderly shutdown the lifespan may begin
again in the same process, as `tests/test_consistency.py` has it.

### Mutants

Definitions whose name ends in `Mutant` stand before the definition they vary.
Each is what a plausible bug would make of it. Nothing uses them: they are
there to be put in its place, to see that a property notices.

## 3. Runs

| configuration | instance | checks |
|---|---|---|
| `GraphSoftDelete` | soft deletion; a parent at time 1, a branch of it by another user at 2, deletion at 3, a title at 2 and a status at 3 sent apart, an unstamped update of the branch, a message; clock 2 or 4 | the graph's properties and the refinement `KeepsLineage`; not `MessagesConsistent`, which could only go wrong where nodes disappear |
| `GraphHardDelete` | hard deletion of both; created events without time, one without owner; a message | `LatestWriteWins`, `OwnedNodeComplete`, `LineageConsistent`, `MessagesConsistent`, where nodes go and come back |
| `WireIngest` | two conversations' worth of ids (one of them empty), ten objects, both formats on every topic; 2 seconds, 1 fraction, both spellings | what formats and spellings may do |
| `GraphReads` | soft deletion; root, middle and leaf of one user, a branch of the root by another, the middle one deleted and sent a message that may come first; every request by both users, `skip` 1, `limit` 1, `max_nodes` and `max_depth` set or not, id lists of two and of too many; walks of three pages through the children and descendants of the root and the ancestors of the leaf | what readers are told, and what pages add up to |
| `WorkerFaults` | two replicas; a rejected record before a valid one, a message of two transactions without id before a record that ends the loop; failing transactions, failing polls and commits, one stop or crash, one rebalance | worker safety and the refinement `KeepsPromise` |
| `GraphSync` | two replicas feed the graph a branch of an unknown parent and, from another partition behind undecodable bytes, a message of it; failing transactions, one stop or crash, one rebalance; fairness | the pipeline, safety and convergence |
| `ServiceLifecycle` | two requests at once, an RPC that need not end, three drivers; any step failing, a `close()` that raises, crashes, second lifespans; fairness | driver and lifecycle |

**Bounds.** The graph properties relate at most a conversation, its parent and
a message, and a write to those of the same time, so two conversations with one
branch, and times below, at and above each other, show the orders. Every
event may be repeated without limit: the state space is finite without any
counter. `MaxStops` and `MaxRebalances` bound what the environment does to the
worker; one of each, in every place and order, already gives a loop that holds
records it no longer owns together with a restarted one. In `WorkerFaults`
`BatchSize = 2` lets a batch span two partitions, or two records of one; in
`GraphSync` batches have one record, because the worker's bookkeeping is checked
there and what is new here is the graph behind it. `WireIngest` has a fraction
that is zero and one that is not, in the same second and the next, which are the
four kinds of neighbours in the order of strings; ranks would only repeat with
more. `GraphReads` has three generations, the least for which "ancestor of my
ancestor" and "root-first" say something, and a foreign branch to be filtered
out; the string order of its ids is not that of the lineage. `MaxPages = 3` takes
a walk to the end of every list, and with pages of one row each page may be
followed by a stub at the head, a late branch or the deletion of a row already
shown: rows that come twice and rows that are passed over both occur, in the
cases the properties except. `ServiceLifecycle` has as many drivers as
threads, so that each could open one of its own, and a lost one besides an open
one. Deadlock is checked except where every loop may die (`WorkerFaults`,
`PoisonPill`). Replicas are symmetric, and the reduction is used only where no
liveness is checked (`WorkerFaults`).

**Fairness.** `SyncFairness`: weak fairness of each replica's `Restart`, because a
supervisor restarts a stopped process; of each replica's `Loop`, because the
event loop runs a ready task; and of assignment, because the coordinator
assigns what nobody owns. No fairness on stops, rebalances, faults or `Land`,
nor on a transaction's success rather than its failure. `SyncConverges` thus
assumes that Kafka calls succeed and that no record ends the loop: where they do
not, the code makes no progress, as the disagreements below show. In
`ServiceLifecycle`, `FairSpec`: of the lifespan's own steps, since its awaits
return or raise; of the grace period, which is a timer; and of the exit of a
process whose lifespan raised. Nothing is owed of requests, RPCs or crashes.

### Where code and documents disagree

Each has a run whose single property states the document and fails.

| run | statement | what the code does |
|---|---|---|
| `MessageFirst` | `graph_repository.py:376`, messages may come first | the bare node never gets an owner, because `user_id` is set on create only |
| `LostDeletion` | `hld.md:19`, eventually consistent | a deletion before the creation matches nothing |
| `PoisonPill` | `consumer_worker.py:111`, bad messages are skipped | JSON that is not an object raises outside the `try` and ends the loop |
| `CommitPastFailure` | `hld.md:288`, commit only after the write | a failed event's offset is committed with its batch |
| `ContextOrder` | `graph_context_handler.py:101`, ancestors come root-first | they come by `created_at`, and a conversation first seen as a stub keeps the epoch, so a child may be chained above its parent |

Seen while modelling, not given a run: a stub keeps the owner and `created_at`
of the branch that made it, which `graph_repository.py:295` ("so real events can
override it") denies and `ContextOrder` shows at work; a created event without
time is stamped anew at each delivery and its duplicate resets later updates
(`task_update.md:296`, "safely ignored"); two replicas may pass the gate for one
event before either marks it (`consumer_worker.py:8`, "safely skipped"), which
`ReplayIsNoOp` makes harmless for stamped events; an older title is dropped behind a newer
status-only update, since one guard serves both (`hld.md:295`); a message whose
second transaction fails stays half written (`lld.md:260`, "entire event handled
atomically"); an exception of `getmany` or `commit` ends the loop for good
(`hld.md:287`, "retry with exponential backoff"); `max_nodes` and `max_depth` of
a context limit ancestors and descendants separately, and the depth limits
rows, not generations (`app/proto/graph.proto:17-18`, against
`graph_context_handler.py:83`); the singleton is called thread-safe
(`task_update.md:46-47` and the class's docstring), and two threads that
construct it first may open two drivers, which the service never lets happen, as
`OneDriver` shows, since the lifespan constructs and connects it before any
request; a flat event without `conversation_id` is not rejected and makes the
conversation with the empty id; the shutdown is called clean (`app/main.py:60`),
and `db.close()` may close the driver under a thread whose RPC was cut short by
the grace period or whose handler was cancelled: `abandoned \subseteq open` fails
in `ServiceLifecycle` in a few steps.

## 4. Proofs

For any sets of conversations, users, titles, statuses, messages, events and
clock values satisfying `StoreAssumption` and `ServiceAssumption`:

| theorem | property | module |
|---|---|---|
| `TypeCorrect` | `[]TypeOK` | `GraphServiceProofs` |
| `NewestWriteIsKept` | `[]LatestWriteWins` | |
| `OwnedNodesAreComplete` | `[]OwnedNodeComplete` | |
| `LineageIsConsistent` | `[]LineageConsistent`, in both deletion modes | |
| `MessagesStayWithTheirOwn` | `[]MessagesConsistent`, in both deletion modes | |
| `NothingHandledIsLost` | `[]HandledIsWired`, under soft deletion | |
| `TimeMovesForward` | `UpdatedNeverRegresses` | |
| `OwnerIsFixed` | `OwnerAndOriginImmutable` | |
| `BranchesSpareTheirParents` | `ChildLeavesKnownParentAlone` | |
| `ReplaysChangeNothing` | `ReplayIsNoOp`, under soft deletion | |
| `UpAndDownAgree` | `[]NavigationAgrees`, in both deletion modes | `GraphQueriesProofs` |
| `MemoryIsDefined` | `[]MemoryIsTheLineage`, in both deletion modes | |
| `OwnershipCheckHolds` | `[]AdmittedStaysOwned`, under soft deletion, with any number of handlers between two transactions of a request | `GraphReadsProofs` |
| `ReadersDisturbNothing`, `ReadersSeeOneTree` | every behaviour of `ReadSpec` is one of `GraphService`, so the two properties above hold while requests are answered | |
| `LineageNeverTurnsRound` | `[]ContextNamesNobodyTwice`, in both deletion modes | |
| `CallersSeeTheirOwn` | `[]AnswersAreTheCallers`, under soft deletion | |
| `ContextsFollowTheLineage` | `[]ContextFollowsLineage`, under soft deletion | |
| `PagingPassesOverNobody` | `[]NobodyIsPassedOver` of `PagingSpec`, under soft deletion, for any lists, page sizes and numbers of pages, with any number of handlers between two pages | |
| `PagingShowsNobodyTwice` | `[]NobodyComesTwice`, likewise | |
| `GraphIsAReplica` | `KeepsLineage`: `GraphService` implements `LineageReplica`, under soft deletion | `GraphReplicaProofs` |

for any objects on the topics and any stamps satisfying `WireAssumption`,
`NullAssumption` and `TimestampAssumption` besides, in `WireIngestProofs`:

| theorem | property |
|---|---|
| `WireHandlesEvents` | every behaviour of `WireIngest` is one of `GraphService` |
| `MigrationIsSilent` | `FormatsAgree` |
| `SpellingsCostLittle` | `[]NeverASecondBehind` |
| `OwnSpellingLosesNothing` | `[]OwnClockIsExact` |
| `BlanksAreAskedFor` | `[]BlankComesFromUpdates` |

for any replicas, partitions, logs and bounds satisfying `LogAssumption` and
`WorkerAssumption`, with failing transactions and Kafka calls allowed or not:

| theorem | property | module |
|---|---|---|
| `WorkerTypes` | `[]WorkerTypeOK` | `ConsumerWorkerProofs` |
| `MarkersFollowWrites` | `[]MarkedImpliesWritten` | |
| `CommitsAreCovered` | `[]CommitCoversOnlySettled` | |
| `FetchedIsAccountedFor` | `[]FetchedIsHeldOrSettled` | |
| `ReplicasKeepPromise` | `KeepsPromise`: `ConsumerWorker` implements `AtLeastOnce` | |
| `PipelineHandlesEvents` | every behaviour of `GraphSync` is one of `GraphService` | `GraphSyncProofs` |
| `PipelineRunsWorkers` | and one of `ConsumerWorker` (`SyncAssumption`) | |
| `GraphHoldsWhatWasWritten` | `[]GraphIsWhatWasWritten`, under soft deletion | |
| `CommittedStaysVisible` | `[]CommittedIsVisible`, under soft deletion | |

and for any threads, drivers and RPCs satisfying `DatabaseAssumption` and
`LifecycleAssumption`, in `ServiceLifecycleProofs`:

| theorem | property |
|---|---|
| `LifecycleTypes` | `[]LifecycleTypeOK` |
| `DriverIsSingle` | `[]OneDriver` |
| `DriverAwaitedIsOpen` | `[]AwaitedIsOpen` |
| `SchemaComesFirst` | `[]SchemaBeforeTraffic` |
| `ShutdownIsComplete` | `[]NothingOutlivesShutdown` |

`PipelineHandlesEvents` carries every theorem about `Spec` over to the graph
behind the worker, `WireHandlesEvents` to what producers write, and
`PipelineRunsWorkers` the theorems about the worker to the pipeline.

The modules about the reads add `QueryAssumption` (`IdOrder` lists each id
once, so there are finitely many), `LineageAssumption`, described with
`GraphQueries`, and `ReadAssumption` (paging parameters and limits are numbers,
limits positive), and `PagingAssumption` (lists are of the kinds the routes serve).
`StoreAssumption` says the sentinels (`Null`, `Absent`) are not data and that
the values the code makes up are in their sets; `ServiceAssumption` that the
topics hold events of the right types, and that a message id names one message.

*Argument.* The Cypher statements are functions of one node, so the proof is
made there first: lemmas about `Merged`, `Updated`, `SoftDeleted` and
`MergedBare` say what each keeps of a node and what it makes of the writes the
node has been offered. A soft deletion is an update of the status alone, and a
merge of an existing node an update of both fields, so the argument about
"the newest write wins" is made once, for `Updated`. For the
properties of single steps, `Follows` states how a node may differ from an
earlier self (same owner and creation time, no earlier `updated_at`, complete
if it was), and `Succeeds` what one action does to one conversation: the node
goes, a complete one comes, or it follows itself. `Follows` is transitive and
reflexive, which settles a created event: it applies two statements, the
child's and then the stub's, and they may meet on one node.

*The inductive invariants.* `TypeOK` and `OwnedNodeComplete` are inductive with
the types. `LatestWriteWins` is inductive because `offered` restarts when a
node is deleted and because a bare node, which was offered nothing, has no
`updated_at`: without that conjunct of `Reflects` a node with an unexplained
time could refuse newer writes. `LineageConsistent` is inductive because both
relationships are merged in the transaction that makes both ends present.
`HandledIsWired` needs that nodes never disappear under soft deletion, which is
why `SoftDeleteEnabled` is an assumption of its theorem.

*The reader.* `OwnershipCheckHolds` joins two facts about a step of a handler:
under soft deletion no conversation disappears (`PresentStays`), and one that
stays keeps its owner (`Succeeds`, from the graph's proofs). Its invariant adds
only that a request in hand names a conversation (`HandOK`). With hard deletion
the property is false, and the assumption is needed: the node may be deleted
and made again by a branch of another user.

*One tree.* The queries depend on four facts of a state (`OneTree`): the two
relationships are inverse and between conversations, a conversation has one
parent, and it is younger than its parent (`Older`). They follow from
`LineageConsistent`, in which every relationship comes from a created event, and
from what `LineageAssumption` says of those. A least set gives the two rules the
rest is argued with: `Reached` is closed (`ReachedIsClosed`), and any set that
is closed contains it (`ReachedIsLeast`). With them, ancestors and descendants
mirror each other, and the ancestors of a child are its parent and the parent's
own (`ParentOfLineage`).

*Lineages.* Where one would use induction, the proofs take a smallest
counterexample, which a set of numbers has (`HasLeast`): a conversation of least
age without a path from its root contradicts the path of its parent
(`LineageExists`), and two paths that part at a least distance from their end
have a node with two parents there (`PathsMeet`). The bound on the length of a
path in the model (`NodePath`) is not a restriction: a path gets younger at
every step, so it is no longer than its last conversation's age.

*Pages.* A finite set with a strict total order has exactly one listing
(`FiniteSetsAreSortable`, `ListIsUnique`), and `Before` is such an order, since
ids break the ties that `created_at` leaves (`BeforeIsStrict`). Under soft
deletion two conversations that are there keep their order (`OrderStays`), because
creation times never change, a stub's included. So the listings before and
after a handler are sorted by one order, and two lemmas about such sequences
carry the argument: if nobody left the first `n` rows, whoever is in both
listings and among the first `n` afterwards was so before (`FrontStays`), so no
row slips behind the caller unseen unless it is new, and then it is in `late`;
and if nobody joined the first `n` rows, who had fewer than `n` rows before him
still has (`BehindStays`). `RanksGrow` compares places in the two. The invariant
(`PagingInv`) joins the types of the walk (`WalkOK`), the two properties, and
`ShownLiesBehind`: while nobody joined, whoever was shown is sorted before every
row from the caller's position on, listed still or not. The last is what
`NobodyComesTwice` needs to be inductive: the next page is sorted, and begins
behind everything shown (`TakePageKeeps`). The owner filter takes rows away from
a page and loses no owned one (`OwnedByLosesNobody`, `PageLength`).

*The reader's memory.* What a request has read is about an earlier graph than
the one its answer is built in. `ReadInv` therefore says what an old read still
means in the present state. Some of it never gets old in either mode: rows were
sorted without repetition (`NoneTwice`), and ancestors are of an older
generation (`Age`, fixed by the created events and not by the graph) than the
conversation, descendants of a younger one, which is why nobody is on both sides
even when nodes were deleted and remade in between. The rest holds under soft
deletion, where ownership, creation times and relationships only persist
(`SeenStays`): rows are still owned, still ancestors or descendants, still in
order. `ContextsFollowTheLineage` then uses that two ancestors of one
conversation are comparable (`AncestorsAreComparable`) and that, in a
chronological lineage, the one above is older (`AncestorsCameFirst`), so the
neighbours of the sorted chain are ancestor and descendant. The invariant
covers the answer kept in `response` too, since handlers go on while the caller
holds it. TLC checked its parts on the instance of `GraphReads` first. With hard
deletion `AnswersAreTheCallers` is false, for the reason given above.

*Messages.* `MessagesConsistent` needs to know what a message node holds: what
the event with its id says (`NodesAreTheirEvents`), and `ServiceAssumption` says
there is one such event. So the relationships of a second
transaction agree with the node the first one made, whichever delivery made it.
A hard deletion takes the node with its relationships.

*The replica.* For each statement there is a lemma that gives the facts after
it in terms of the facts before it; under soft deletion none is removed, and
together an action adds `Gain(e, k)` and nothing else. `GraphSyncProofs` uses the
same lemmas: a step of the pipeline either notes one transaction in `written`
and makes it on the graph, or does neither (`SyncStepShape`), and from there
`Known = Published` is its own invariant.

*Replays.* A write that its node weighed and that shares its time with no other
there is either older than the node, and refused, or the newest, and then the
node holds what it says (`UpdatedAgain`, from `LatestWriteWins`). That settles
the nodes; the relationships are there because the event was handled
(`HandledIsWired`, `LineageConsistent`). The property asks that the event was
handled before: an update and a stub may have left the same writes on the two
nodes without the branch.

*Wire formats.* `TwinTellsTheSame` needs no invariant: the two objects give the
same event. A rank determines the second of its stamp by a division, which is
monotonic (`QuotientGrows`), so the order of strings is the order of seconds
whatever the spelling, and within one spelling the order of fractions too
(`OwnSpellingIsExact`). The graph's side of both is `LatestWriteWins`, with
`Stamped`: every time ever offered is a stub's epoch or the rank of a stamp.

*The worker.* `HandsOK` binds what a replica holds to its place in the loop: it
holds a record only between taking and settling it, it is at the marker only
behind a whole event, and at the second transaction only behind the first.
`OrphansOK` says that what an abandoned thread may still do is safe whenever it
is done: a transaction of some event, or a marker behind a whole one. The
invariant joins them to `MarkedImpliesWritten`, `FetchedIsHeldOrSettled` and
`CommitCoversOnlySettled`. The commit is the step that needs all of it: at the
end of a batch the replica's hands are empty, so between the committed offset
and its position everything is settled, and partitions it lost in the meantime
are not its to commit. A rebalance resets the position to the committed offset,
which makes the statement about the interval vacuous for the new owner, and a
record settles for good, since `written`, `marked` and `givenUp` only grow. The
refinement is then one lemma (`StepKeepsPromise`), a case for each action.

*The pipeline.* `CommittedIsVisible` puts the two halves together. A committed
record is settled (`CommitsAreCovered`, by `PipelineRunsWorkers`), and a valid
one that was not given up is settled by its transactions, or by those of the
record it repeats; the graph's facts are those of the transactions
(`GraphHoldsWhatWasWritten`), so the event's are there (`WholeIsVisible`).

*The lifecycle.* `OneDriver` is far from inductive: the class alone does not have
it. What makes it hold is that the lifespan's thread is alone in the class until
the instance is there, initialized and connected (`MainAlone`), so that a request
that comes later finds it so, goes through `CheckInitialized`, `GetDriver` and
`Return`, and never takes the lock, blanks an attribute or connects
(`RequestsFollow`). `DriverKept` says which driver is open at each step of the
lifespan, and that the rest are the ones whose `close()` raised; `StageKept`,
what runs, and who awaits a thread, at each step. The order of the shutdown
shows in `StageKept`: the server and the loop are down, and nobody awaits
anything, before the phase that closes the driver. A driver that is made is
none that an abandoned thread has, which is all a thread of an earlier lifespan
can do to a later one.

*Only model-checked:* liveness. `SyncConverges` and `TransitionsEnd` need the
fairness of actions, and with it `ENABLED`, which is out of the prover's reach,
so they are checked on the instances of `GraphSync` and `ServiceLifecycle`. Every
other property that a passing run checks is a theorem. Nothing is proved of the
statements in `GraphPromises`, `ReadPromises` and `ConsumerPromises`, which have
counterexamples. Theorems that say "under soft deletion" have
`SoftDeleteEnabled` as a hypothesis, the default of `app/core/config.py:24`.
With hard deletion nodes and relationships go, and a statement about what was
written or read earlier goes with them.

## 5. Not modelled

- Reads: `max_tokens` and `query` of a context request, which the handler
  ignores; negative limits; a request without a user or a conversation, answered
  empty at once; the text of summaries and labels; `get_message_count`, a figure
  of the health route.
- Messages: content, role and time are set on create and never read back.
- Schemas: an explicit `null` as a role or a payload, which is rejected where a
  missing field is not; fields nothing reads (correlation, causation, source,
  version); timestamps with other UTC offsets, or with fractions of different
  lengths.
- Kafka: the producer side, retention, and, in `GraphSync`, calls that raise.
- Neo4j: which reads Cypher locks under read-committed isolation is the
  database's affair and not visible in the code; statements are atomic and
  serial. The schema of constraints beyond uniqueness. There is no expiry of
  `ProcessedEvent`.
- Reads: Neo4j failing in the middle of a request, which ends it with an error
  and changes nothing; reads from a replica that lags behind the writer
  (`src/docs/deployment.md:24,59-60`), where a request may see an older graph than the
  one before it.
- Lifecycle: a `close()` that raises counts as a driver left open, although it
  may be half closed; the health routes, which read and change nothing.
- Generated protobuf code, the retired `app/consumers` stub, header and token
  checks, configuration and logging have no state to check.

## 6. Plan

Done: the graph and its handlers, the worker and its refinement, the reads and
both RPCs, the composition of worker and graph, the two wire formats and
timestamps, the driver and the lifecycle, with the proofs above. Every safety
property the runs check is proved.

What could come next:

1. Across components: a reader beside the pipeline instead of beside the
   handlers alone, so that what a caller is told can be related to what was
   committed. `PipelineHandlesEvents` and `ReadersDisturbNothing` are the two
   halves of it.
2. A refinement for the reads: an abstract reader that answers from one moment
   of the graph, to tell which requests implement it (`details`, lists) and
   which do not (`context`).
3. Isolation: if the locks that Neo4j takes for a guarded `SET` are pinned down
   by a test against the database, statements of two replicas could be split
   into their read and their write, and `LatestWriteWins` checked again.
