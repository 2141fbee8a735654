----------------------------- MODULE GraphPromises -----------------------------
(***************************************************************************)
(* What the repository's documents and comments say of the graph that the  *)
(* handlers do not keep in every order of the topics.  Each statement here *)
(* has a counterexample; what does hold is in GraphService.                *)
(***************************************************************************)
EXTENDS GraphService

(* graph_repository.py:376: create_message_relationships "is safe to call even
   if the conversation node arrives before the message or vice-versa".  So a
   conversation whose created event was handled belongs to its creator. *)
MessageFirstIsSafe ==
  \A e \in handled \cap CreatedEvents :
    conv[e.conv].user = Coalesce(e.user, UnknownUser)

(* hld.md:19: the graph is "eventually consistent with Conversation Service".
   So a conversation is deleted once its creation and its later deletion have
   both been handled, in either order. *)
DeletionIsNotLost ==
  \A e \in handled \cap CreatedEvents, d \in handled \cap DeletedEvents :
    /\ e.conv = d.conv
    /\ d.at # Null /\ e.at # Null /\ d.at > e.at
    => conv[d.conv].status = "DELETED"
===============================================================================
