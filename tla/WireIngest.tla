------------------------------- MODULE WireIngest -------------------------------
(***************************************************************************)
(* The handlers of GraphService fed with the objects producers write, in   *)
(* both formats and with both spellings of a timestamp, in any order and   *)
(* number: what a migration from the flat to the nested format, and clocks *)
(* that are not the service's, leave in the graph.                         *)
(***************************************************************************)
EXTENDS EventSchemas

CONSTANT Wire      \* the JSON objects on the topics

On(topic) == {w \in Wire : w.topic = topic /\ ~Rejected(w)}

\* What datetime.now(timezone.utc).isoformat() may write.
Clock == {Rank(s) : s \in {x \in Stamp : x.zone = Python}}

ASSUME WireAssumption ==
  /\ Wire \subseteq Object
  /\ Now \subseteq Clock
  /\ CreatedEvents = {CreatedOf(w) : w \in On("created")}
  /\ DeletedEvents = {DeletedOf(w) : w \in On("deleted")}
  /\ UpdatedEvents = {UpdatedOf(w) : w \in On("updated")}
  /\ MessageEvents = {MessageOf(w) : w \in On("message")}

\* A handler validates its object, and does nothing more when that raises.
Deliver(w) ==
  \/ Rejected(w) /\ UNCHANGED vars
  \/ /\ ~Rejected(w)
     /\ \/ w.topic = "created" /\ ProcessConversationCreated(CreatedOf(w))
        \/ w.topic = "deleted" /\ ProcessConversationDeleted(DeletedOf(w))
        \/ w.topic = "updated" /\ ProcessConversationUpdated(UpdatedOf(w))
        \/ w.topic = "message" /\ CreateMessageNode(MessageOf(w))
        \/ w.topic = "message" /\ CreateMessageRelationships(MessageOf(w))

WireNext == \E w \in Wire : Deliver(w)

WireSpec == Init /\ [][WireNext]_vars

-------------------------------------------------------------------------------

\* The nested event that tells what the flat w tells.
Canonical(w) ==
  IF w.topic = "created"
  THEN [w EXCEPT !.nested = TRUE,
                 !.body.status = Or(w.body.conversation_status, w.body.status)]
  ELSE [w EXCEPT !.nested = TRUE]

(* A legacy flat conversation event with an id does to the graph, whatever it
   finds there, what its canonical nested twin would do: get_payload of the
   event classes, "for backwards-compatible migration". *)
FormatsAgree ==
  [][\A w \in Wire :
       w.topic # "message" /\ ~w.nested /\ w.body.id # Null /\ Deliver(w)
       => Deliver(Canonical(w))]_vars

(* However timestamps are spelled, a node is never a whole second behind a
   write it was offered: comparing strings may take the wrong one of two writes
   of the same second, and no worse. *)
NeverASecondBehind ==
  \A c \in Conversation : \A w \in offered[c] :
    SecondOf(w.at) <= SecondOf(conv[c].updated)

\* Timestamps as datetime.isoformat() writes them, and the stub's.
Isoformat(rank) == rank = Epoch \/ StampOf(rank).zone = Python

(* As long as everything a node was offered is stamped the way the service
   stamps, its updated_at is the latest moment offered, to the fraction. *)
OwnClockIsExact ==
  \A c \in Conversation :
    (\A w \in offered[c] : Isoformat(w.at)) =>
      \A w \in offered[c] :
        w.at # Epoch => Instant(StampOf(w.at)) <= Instant(StampOf(conv[c].updated))

(* A title is empty only where an update said so, never because a created event
   had no title or an empty one. *)
BlankComesFromUpdates ==
  \A c \in Conversation :
    Present(conv, c) /\ conv[c].title = Blank =>
      \E e \in handled \cap UpdatedEvents : e.conv = c /\ e.title = Blank
================================================================================
