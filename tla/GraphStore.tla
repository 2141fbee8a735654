------------------------------ MODULE GraphStore ------------------------------
(***************************************************************************)
(* The write statements of the graph service, as operators on the graph    *)
(* they change (app/db/cypher/conversation_queries.py).  A Conversation    *)
(* label is a function from conversation ids to nodes, Absent where no     *)
(* node exists; a relationship type is a set of pairs of ids.  A property  *)
(* that was never set reads NULL in Cypher: Null here.                     *)
(*                                                                         *)
(* Timestamps are ISO-8601 strings that Cypher compares as strings.  A     *)
(* time is the rank of such a string in that order, and Epoch is the rank  *)
(* of "1970-01-01T00:00:00Z".                                              *)
(***************************************************************************)
EXTENDS Naturals

CONSTANTS
  Conversation,   \* conversation ids
  User,           \* user ids, the fallbacks of the handlers among them
  Title,          \* titles, the two the code makes up among them
  Status,         \* statuses a conversation can have
  Null,           \* a property that is not set
  Absent          \* no node with this id

StubTitle    == "Stub Conversation"
Time         == Nat
Epoch        == 0

Node == [user    : User   \cup {Null},
         title   : Title  \cup {Null},
         status  : Status \cup {Null},
         created : Time   \cup {Null},
         updated : Time   \cup {Null}]

ASSUME StoreAssumption ==
  /\ StubTitle \in Title
  /\ {"ACTIVE", "DELETED"} \subseteq Status
  /\ Null \notin User \cup Title \cup Status \cup Time
  /\ Absent \notin Node

Present(cv, c) == cv[c] # Absent

(* Definitions named ...Mutant are what a plausible bug would make of the
   definition that follows them: the properties are run against each, to see
   that they notice.  The specifications do not use them. *)
AlwaysNewerMutant(n, at) == TRUE

\* c.updated_at IS NULL OR $updated_at >= c.updated_at
NotOlder(n, at) == n.updated = Null \/ at >= n.updated

Coalesce(x, y) == IF x # Null THEN x ELSE y

UnguardedMergeMutant(n, w) ==
  IF n = Absent THEN w
  ELSE [n EXCEPT !.title = w.title, !.status = w.status, !.updated = w.updated]

TakeOverMutant(n, w) ==
  IF n = Absent \/ NotOlder(n, w.updated) THEN w ELSE n

\* MERGE (c:Conversation {...}) ON CREATE SET every property, ON MATCH SET
\* title, status and updated_at unless the write is older than the node.
\* w is the record of the statement's parameters.
Merged(n, w) ==
  IF n = Absent THEN w
  ELSE IF NotOlder(n, w.updated)
       THEN [n EXCEPT !.title = w.title, !.status = w.status, !.updated = w.updated]
       ELSE n

MergeConversation(cv, c, w) == [cv EXCEPT ![c] = Merged(@, w)]

UnguardedUpdateMutant(n, title, status, at) ==
  IF n # Absent
  THEN [n EXCEPT !.title   = Coalesce(title, n.title),
                 !.status  = Coalesce(status, n.status),
                 !.updated = at]
  ELSE n

BlankingUpdateMutant(n, title, status, at) ==
  IF n # Absent /\ NotOlder(n, at)
  THEN [n EXCEPT !.title = title, !.status = status, !.updated = at]
  ELSE n

\* MATCH ... WHERE not older SET what the event carries.
Updated(n, title, status, at) ==
  IF n # Absent /\ NotOlder(n, at)
  THEN [n EXCEPT !.title   = Coalesce(title, n.title),
                 !.status  = Coalesce(status, n.status),
                 !.updated = at]
  ELSE n

UpdateConversation(cv, c, title, status, at) ==
  [cv EXCEPT ![c] = Updated(@, title, status, at)]

\* MATCH ... WHERE not older SET status = "DELETED".
SoftDeleted(n, at) ==
  IF n # Absent /\ NotOlder(n, at)
  THEN [n EXCEPT !.status = "DELETED", !.updated = at]
  ELSE n

SoftDeleteConversation(cv, c, at) == [cv EXCEPT ![c] = SoftDeleted(@, at)]

\* DETACH DELETE c: the node goes, and Detach drops its relationships.
DeleteConversation(cv, c) == [cv EXCEPT ![c] = Absent]

OneSidedDetachMutant(rel, c) == {r \in rel : r[1] # c}

Detach(rel, c) == {r \in rel : r[1] # c /\ r[2] # c}

\* MERGE (c:Conversation {conversation_id: ...}) with nothing to set: a node
\* created here has its id and no other property.
BareNode == [user |-> Null, title |-> Null, status |-> Null,
             created |-> Null, updated |-> Null]

MergedBare(n) == IF n = Absent THEN BareNode ELSE n

MergeBareConversation(cv, c) == [cv EXCEPT ![c] = MergedBare(@)]

ReversedMutant(rel, cv, from, to) == rel \cup {<<to, from>>}

\* MATCH both ends, MERGE the relationship: nothing when an end is missing.
MergeRelationship(rel, cv, from, to) ==
  IF Present(cv, from) /\ Present(cv, to) THEN rel \cup {<<from, to>>} ELSE rel
===============================================================================
