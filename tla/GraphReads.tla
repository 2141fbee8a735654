------------------------------ MODULE GraphReads ------------------------------
(***************************************************************************)
(* A reader of the graph while the handlers write it: the query methods of *)
(* app/services/graph_service.py behind the REST routes, and the two RPCs  *)
(* of app/grpc/graph_context_handler.py.  Each repository call is a        *)
(* transaction of its own in a thread, so the check of the owner and what  *)
(* follows it see different states of the graph, and so do the calls that  *)
(* an RPC gathers.                                                         *)
(***************************************************************************)
EXTENDS GraphQueries

CONSTANTS
  Callers,        \* the users that ask
  Skips, Limits,  \* paging parameters of the REST routes
  MaxNodes,       \* max_nodes of a gRPC request, 0 when not set
  MaxDepths,      \* max_depth of a gRPC request, 0 when not set
  DefaultNodes,   \* _DEFAULT_MAX_NODES
  NodesCap,       \* _MAX_NODES_CAP
  DepthCap,       \* _MAX_DEPTH_CAP
  IdLists,        \* node_ids of a gRPC request
  MaxNodeIds,     \* _MAX_NODE_IDS
  None            \* no request in hand, nothing read, no response

ASSUME ReadAssumption ==
  /\ Callers \subseteq User
  /\ Skips \subseteq Nat
  /\ Limits \cup {DefaultNodes, NodesCap, DepthCap} \subseteq Nat \ {0}
  /\ MaxNodes \cup MaxDepths \subseteq Nat
  /\ IdLists \subseteq Seq(Conversation)

ListKind == {"children", "ancestors", "descendants"}

RestQuery ==
  [kind : {"details", "parent", "memory"}, conv : Conversation, user : Callers]
  \cup [kind : ListKind, conv : Conversation, user : Callers, skip : Skips, limit : Limits]

ContextQuery ==
  [kind : {"context"}, conv : Conversation, user : Callers, nodes : MaxNodes, depth : MaxDepths]

NodesQuery == [kind : {"nodes"}, ids : IdLists, user : Callers]

VARIABLES
  reading,    \* the request past its ownership check, and what it has read
  response    \* the last response

readVars == <<reading, response>>
allVars  == <<vars, readVars>>

ReadInit == Init /\ reading = None /\ response = None

Reply(q, rows, edges) ==
  /\ response' = [to |-> q, rows |-> rows, edges |-> edges]
  /\ reading' = None
  /\ UNCHANGED vars

\* The REST routes answer 404, the gRPC handler an empty context.
NotFound(q) == Reply(q, <<>>, {})

\* The first transaction of every request: get_conversation, and who owns it.
Refuse(q) ==
  /\ reading = None
  /\ ~Owns(q.user, q.conv)
  /\ NotFound(q)

Details(q) ==
  /\ reading = None
  /\ q.kind = "details"
  /\ Owns(q.user, q.conv)
  /\ Reply(q, <<q.conv>>, {})

Admit(q) ==
  /\ reading = None
  /\ q.kind # "details"
  /\ Owns(q.user, q.conv)
  /\ reading' = [ask |-> q, up |-> None, down |-> None]
  /\ response' = None
  /\ UNCHANGED vars

-------------------------------------------------------------------------------
\* The second transaction.

Asked(kind) == reading # None /\ reading.ask.kind = kind

RespondList(kind, relatives) ==
  /\ Asked(kind)
  /\ LET q == reading.ask
     IN Reply(q, OwnedBy(Page(Rows(relatives), q.skip, q.limit), q.user), {})

RespondParent ==
  /\ Asked("parent")
  /\ LET q     == reading.ask
         found == Parents(q.conv)
     IN \/ \E p \in found : conv[p].user = q.user /\ Reply(q, <<p>>, {})
        \/ \E p \in found : conv[p].user # q.user /\ NotFound(q)
        \/ found = {} /\ NotFound(q)

RespondMemory ==
  /\ Asked("memory")
  /\ LET q     == reading.ask
         paths == IF Present(conv, q.conv) THEN Lineages(q.conv) ELSE {}
     IN \/ \E p \in paths : Reply(q, p, {})
        \/ paths = {} /\ NotFound(q)

-------------------------------------------------------------------------------
\* GetGraphContext

Least(a, b) == IF a <= b THEN a ELSE b

OrElse(n, default) == IF n = 0 THEN default ELSE n

\* min(limit, depth): the LIMIT of both traversals.
RowLimit(q) ==
  Least(Least(OrElse(q.nodes, DefaultNodes), NodesCap), Least(OrElse(q.depth, DepthCap), DepthCap))

Relatives(set) == OwnedBy(Page(Rows(set), 0, RowLimit(reading.ask)), reading.ask.user)

ReadUp ==
  /\ Asked("context")
  /\ reading.up = None
  /\ reading' = [reading EXCEPT !.up = Relatives(Ancestors(reading.ask.conv))]
  /\ UNCHANGED <<vars, response>>

ReadDown ==
  /\ Asked("context")
  /\ reading.down = None
  /\ reading' = [reading EXCEPT !.down = Relatives(Descendants(reading.ask.conv))]
  /\ UNCHANGED <<vars, response>>

\* The ancestors are chained up to the conversation, the descendants hung from it.
RespondContext ==
  /\ Asked("context")
  /\ reading.up # None /\ reading.down # None
  /\ LET c     == reading.ask.conv
         chain == Append(reading.up, c)
     IN Reply(reading.ask, reading.up \o reading.down,
              {<<chain[i], chain[i + 1]>> : i \in DOMAIN reading.up}
                \cup {<<c, reading.down[i]>> : i \in DOMAIN reading.down})

-------------------------------------------------------------------------------
\* GetNodesByIds

\* INVALID_ARGUMENT for too many ids.
RefuseNodes(q) ==
  /\ reading = None
  /\ Len(q.ids) > MaxNodeIds
  /\ Reply(q, <<>>, {})

AskNodes(q) ==
  /\ reading = None
  /\ Len(q.ids) <= MaxNodeIds
  /\ reading' = [ask |-> q, up |-> [i \in DOMAIN q.ids |-> None], down |-> None]
  /\ response' = None
  /\ UNCHANGED vars

\* One get_conversation of the gathered ones, and whose the node is.
LookUp(i) ==
  /\ Asked("nodes")
  /\ i \in DOMAIN reading.up
  /\ reading.up[i] = None
  /\ reading' = [reading EXCEPT !.up[i] = Owns(reading.ask.user, reading.ask.ids[i])]
  /\ UNCHANGED <<vars, response>>

RespondNodes ==
  /\ Asked("nodes")
  /\ \A i \in DOMAIN reading.up : reading.up[i] # None
  /\ LET owned == Ascending({i \in DOMAIN reading.up : reading.up[i]})
     IN Reply(reading.ask, [k \in DOMAIN owned |-> reading.ask.ids[owned[k]]], {})

Read ==
  \/ \E q \in RestQuery \cup ContextQuery : Refuse(q) \/ Details(q) \/ Admit(q)
  \/ \E q \in NodesQuery : RefuseNodes(q) \/ AskNodes(q)
  \/ \E i \in 1 .. MaxNodeIds : LookUp(i)
  \/ RespondNodes
  \/ RespondList("children", Children(reading.ask.conv))
  \/ RespondList("ancestors", Ancestors(reading.ask.conv))
  \/ RespondList("descendants", Descendants(reading.ask.conv))
  \/ RespondParent \/ RespondMemory
  \/ ReadUp \/ ReadDown \/ RespondContext

ReadNext ==
  \/ Next /\ UNCHANGED readVars
  \/ Read

ReadSpec == ReadInit /\ [][ReadNext]_allVars

-------------------------------------------------------------------------------

Context == response # None /\ response.to.kind = "context"

(* Under soft deletion the owner that was checked is still the owner when the
   other transactions run: no event handled in between takes the conversation
   away or gives it to another. *)
AdmittedStaysOwned ==
  reading # None /\ reading.ask.kind # "nodes" => Owns(reading.ask.user, reading.ask.conv)

(* Although the two traversals of a context see different graphs, no
   conversation is both above and below, and none is listed twice: a lineage
   never turns round while a reader looks at it. *)
ContextNamesNobodyTwice ==
  Context =>
    /\ \A i, j \in DOMAIN response.rows : response.rows[i] = response.rows[j] => i = j
    /\ \A i \in DOMAIN response.rows : response.rows[i] # response.to.conv

(* Under soft deletion every conversation of a response is the caller's, and
   remains so for as long as the caller holds the response, although owners were
   compared in transactions of their own.  The memory context, which answers
   another service, gives the whole lineage. *)
AnswersAreTheCallers ==
  response # None /\ response.to.kind # "memory" =>
    \A i \in DOMAIN response.rows : Owns(response.to.user, response.rows[i])

\* Created_at grows along the lineage of c: no stub's epoch is in the way.
Chronological(c) ==
  \A a \in {c} \cup Ancestors(c) : \A p \in Parents(a) :
    conv[p].created # Null /\ conv[a].created # Null /\ conv[p].created < conv[a].created

(* Every relationship of a context goes down the lineage, from an ancestor to a
   descendant, when the creation times of the lineage grow with it.  Deleted and
   foreign conversations between the two are passed over. *)
ContextFollowsLineage ==
  Context /\ Chronological(response.to.conv) =>
    \A r \in response.edges : r[2] \in Descendants(r[1])
===============================================================================
