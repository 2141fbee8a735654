----------------------------- MODULE GraphQueries -----------------------------
(***************************************************************************)
(* The read statements of app/db/cypher/traversal_queries.py and what the  *)
(* repository and the service make of their rows.  A row is a conversation *)
(* id: the node it stands for is the one the same transaction reads.       *)
(*                                                                         *)
(* The conversation service gives a conversation at most one parent, made  *)
(* before it, so a variable-length match has one path, and so one row, for *)
(* each conversation it reaches.                                           *)
(***************************************************************************)
EXTENDS GraphService, Sequences, FiniteSets

CONSTANT IdOrder    \* the conversation ids, in string order

ASSUME QueryAssumption ==
  /\ IdOrder \in Seq(Conversation)
  /\ \A c \in Conversation : \E i \in DOMAIN IdOrder : IdOrder[i] = c
  /\ \A i, j \in DOMAIN IdOrder : IdOrder[i] = IdOrder[j] => i = j

ASSUME LineageAssumption ==
  /\ \A e, f \in CreatedEvents : e.conv = f.conv => e.parent = f.parent
  /\ \E age \in [Conversation -> DOMAIN IdOrder] :
       \A e \in CreatedEvents : e.parent # Null => age[e.parent] < age[e.conv]

\* (c)-[:rel*]->(d), paths of one or more relationships: d is in every set
\* that the relationships lead into from c and do not lead out of.
Reached(rel, c) ==
  {d \in Conversation : \A S \in SUBSET Conversation :
     (\A r \in rel : r[1] \in {c} \cup S => r[2] \in S) => d \in S}

OneHopMutant(c) == {p \in Conversation : <<c, p>> \in createdFrom}
FromSelfMutant(c) == {c} \cup Reached(hasChild, c)

Parents(c)     == {p \in Conversation : <<c, p>> \in createdFrom}
Children(c)    == {d \in Conversation : <<c, d>> \in hasChild}
Ancestors(c)   == Reached(createdFrom, c)
Descendants(c) == Reached(hasChild, c)

\* WHERE coalesce(status, "") <> "DELETED"
Navigable(c) == Present(conv, c) /\ conv[c].status # "DELETED"

IdRank(c) == CHOOSE i \in DOMAIN IdOrder : IdOrder[i] = c

NewestFirstMutant(a, b) ==
  LET x == Coalesce(conv[a].created, Epoch)  y == Coalesce(conv[b].created, Epoch)
  IN x > y \/ (x = y /\ IdRank(a) < IdRank(b))

ByUpdateMutant(a, b) ==
  LET x == Coalesce(conv[a].updated, Epoch)  y == Coalesce(conv[b].updated, Epoch)
  IN x < y \/ (x = y /\ IdRank(a) < IdRank(b))

\* ORDER BY created_at ASC, conversation_id ASC, where NULL comes last.
Before(a, b) ==
  LET x == conv[a].created  y == conv[b].created
  IN \/ x # Null /\ y = Null
     \/ x # Null /\ y # Null /\ x < y
     \/ x = y /\ IdRank(a) < IdRank(b)

\* The elements of S as a sequence, when order is a strict total order on S.
InOrder(S, order) ==
  CHOOSE s \in [1 .. Cardinality(S) -> S] :
    \A i, j \in 1 .. Cardinality(S) : i < j => <<s[i], s[j]>> \in order

Ascending(S) == InOrder(S, {r \in S \X S : r[1] < r[2]})

Rows(S) ==
  LET listed == {c \in S : Navigable(c)}
  IN InOrder(listed, {r \in listed \X listed : Before(r[1], r[2])})

\* SKIP $skip LIMIT $limit
Page(rows, skip, limit) ==
  SubSeq(rows, skip + 1, IF skip + limit < Len(rows) THEN skip + limit ELSE Len(rows))

UnfilteredMutant(rows, user) == rows

\* _owned_by: after the LIMIT, so a page may be shorter than asked.
OwnedBy(rows, user) ==
  LET kept == Ascending({i \in DOMAIN rows : conv[rows[i]].user = user})
  IN [k \in DOMAIN kept |-> rows[kept[k]]]

Owns(user, c) == Present(conv, c) /\ conv[c].user = user

\* The nodes of a path: no lineage is longer than all conversations in a row.
NodePath == UNION {[1 .. n -> Conversation] : n \in DOMAIN IdOrder}

\* (top)-[:HAS_CHILD*0..]->(c)
PathsTo(c) ==
  {p \in NodePath : p[Len(p)] = c /\ \A i \in 1 .. Len(p) - 1 : <<p[i], p[i + 1]>> \in hasChild}

AnyAncestorMutant(c) == PathsTo(c)

\* GET_MEMORY_CONTEXT: the paths from a node without parent down to c.
Lineages(c) == {p \in PathsTo(c) : \A q \in Conversation : <<q, p[1]>> \notin hasChild}

-------------------------------------------------------------------------------

(* Up and down are one tree for the reader: a navigable conversation is listed
   among the descendants of each navigable ancestor and of no other, a child
   among its parent's descendants.  The two directions are different
   relationships, written by different statements. *)
NavigationAgrees ==
  \A a, c \in Conversation :
    /\ a \in Ancestors(c) <=> c \in Descendants(a)
    /\ c \in Children(a) <=> a \in Parents(c)
    /\ a \in Parents(c) => Ancestors(a) = Ancestors(c) \ {a}

(* The memory context of a conversation is defined and unique: one path, from
   its root to itself, over all its ancestors, deleted ones included, and so
   the LIMIT 1 chooses nothing.  Its depth is the length of the parent chain
   whatever order the lineage was built in. *)
MemoryIsTheLineage ==
  \A c \in Conversation : Present(conv, c) =>
    LET paths == Lineages(c)
    IN \E p \in paths :
         /\ paths = {p}
         /\ {p[i] : i \in DOMAIN p} = {c} \cup Ancestors(c)
         /\ \A i \in 1 .. Len(p) - 1 : Parents(p[i + 1]) = {p[i]}
===============================================================================
