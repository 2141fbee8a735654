------------------------------ MODULE GraphReplica ------------------------------
(***************************************************************************)
(* The graph of GraphService read as a LineageReplica: which facts its     *)
(* nodes and relationships state, which facts a transaction of a handler   *)
(* brings, and the refinement.  Under soft deletion every write statement  *)
(* is a MERGE or a SET, so nothing that was learned is lost.               *)
(***************************************************************************)
EXTENDS GraphService

\* The members of S as facts of one kind.
Facts(kind, S) == {<<kind, x>> : x \in S}

Known ==
       Facts("conversation", {c \in Conversation : Present(conv, c)})
  \cup Facts("child", hasChild) \cup Facts("from", createdFrom)
  \cup Facts("message", {m \in Message : message[m] # Absent})
  \cup Facts("user", users) \cup Facts("sent", sent) \cup Facts("belongs", belongsTo)

\* What create_conversation_with_parent leaves in the graph.
CreatedGain(e) ==
  IF e.parent = Null THEN Facts("conversation", {e.conv})
  ELSE      Facts("conversation", {e.conv, e.parent})
       \cup Facts("child", {<<e.parent, e.conv>>}) \cup Facts("from", {<<e.conv, e.parent>>})

\* What create_message_node and create_message_relationships leave.
NodeGain(e) == Facts("message", {e.msg})

WiringGain(e) ==
       Facts("user", {e.user}) \cup Facts("conversation", {e.conv})
  \cup Facts("sent", {<<e.user, e.msg>>}) \cup Facts("belongs", {<<e.msg, e.conv>>})

\* The facts of transaction k of event e; updates and soft deletions have none.
Gain(e, k) ==
  CASE e \in CreatedEvents -> CreatedGain(e)
    [] e \in MessageEvents /\ k = 1 -> NodeGain(e)
    [] e \in MessageEvents /\ k = 2 -> WiringGain(e)
    [] OTHER -> {}

AllGains == {Gain(e, k) : e \in Events, k \in {1, 2}}

Lineage == INSTANCE LineageReplica WITH facts <- Known, Gains <- AllGains

(* Under soft deletion the graph implements LineageReplica: whatever the order,
   the repetitions and the interleaving of the handlers, a transaction adds the
   facts of one event and removes none, and no fact appears but from an event. *)
KeepsLineage == Lineage!Spec
================================================================================
