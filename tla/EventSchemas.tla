------------------------------ MODULE EventSchemas ------------------------------
(***************************************************************************)
(* From the JSON object of a Kafka record to the event that GraphService   *)
(* handles (app/events/*.py, _normalize_message_event, and the fallbacks   *)
(* at the top of the handlers).                                            *)
(*                                                                         *)
(* An object is a record of its topic, its form, the event_id and          *)
(* occurred_at of its envelope, and its body: the fields of the payload of *)
(* a nested event, the top-level fields of a flat one.  A field that was   *)
(* left out is Null, and so is an explicit null where the code tells no    *)
(* difference; an empty string is Blank.  (An explicit null as the role of *)
(* a flat message, or as the payload of any message, is rejected.)         *)
(***************************************************************************)
EXTENDS GraphService, IsoTimestamps

Blank == ""

ASSUME NullAssumption == Null # Blank

\* Optional[str], and one where an empty string is told from a name.
Optional(S) == S \cup {Null}
Text(S)     == S \cup {Null, Blank}

\* The bodies of the four topics, nested payloads and flat fields alike.
CreatedBody ==
  [id : Optional(Conversation), user : Text(User), title : Text(Title),
   conversation_status : Text(Status), status : Text(Status),
   parent : Text(Conversation), at : Optional(Stamp)]

DeletedBody == [id : Optional(Conversation), at : Optional(Stamp)]

UpdatedBody ==
  [id : Optional(Conversation), title : Text(Title), status : Text(Status), at : Optional(Stamp)]

\* whole: the strings that the nested schema requires and no handler reads,
\* content and event_type, are there.
MessageBody ==
  [id : Optional(Conversation), msg : Optional(Message), user : Text(User),
   role : Optional({"user", "assistant"}), whole : BOOLEAN]

Object ==
  LET Of(topic, body) == [topic : {topic}, nested : BOOLEAN, event_id : Optional(STRING),
                          occurred_at : Optional(Stamp), body : body]
  IN Of("created", CreatedBody) \cup Of("deleted", DeletedBody)
     \cup Of("updated", UpdatedBody) \cup Of("message", MessageBody)

\* Python's x or y.
NoneOnlyMutant(x, y) == IF x # Null THEN x ELSE y

Or(x, y) == IF x \in {Null, Blank} THEN y ELSE x

\* A timestamp as the statements compare it.
At(stamp) == IF stamp = Null THEN Null ELSE Rank(stamp)

(* What makes pydantic raise, and the record be given up: a nested conversation
   event without its id, a message without one of its ids, a nested message
   without another string of its schema. *)
Rejected(w) ==
  IF w.topic = "message"
  THEN \/ Null \in {w.body.id, w.body.msg}
       \/ w.nested /\ (Null \in {w.body.role, w.event_id} \/ ~w.body.whole)
  ELSE w.nested /\ w.body.id = Null

\* The id of a flat event that has none is the empty string.
ConversationId(w) == IF w.nested THEN w.body.id ELSE Or(w.body.id, Blank)

StatusOnlyMutant(w) == Or(w.body.status, Null)

\* Only a flat event has a conversation_status, which goes before its status.
CreatedStatus(w) ==
  IF w.nested THEN Or(w.body.status, Null)
  ELSE Or(w.body.conversation_status, Or(w.body.status, Null))

\* conversation.created: what is empty is replaced, occurred_at is not read.
CreatedOf(w) ==
  [conv   |-> ConversationId(w),
   user   |-> Or(w.body.user, Null),
   title  |-> Or(w.body.title, Null),
   status |-> CreatedStatus(w),
   parent |-> Or(w.body.parent, Null),
   at     |-> At(w.body.at)]

\* conversation.deleted: occurred_at is not read.
DeletedOf(w) == [conv |-> ConversationId(w), at |-> At(w.body.at)]

\* conversation.updated: an empty title or status is written as it is.
UpdatedOf(w) ==
  [conv   |-> ConversationId(w),
   title  |-> w.body.title,
   status |-> w.body.status,
   at     |-> At(Coalesce(w.body.at, w.occurred_at))]

\* A message without a user is its agent's; a flat one without a role, a user's.
Agent(role) == IF role = "assistant" THEN "agent:assistant" ELSE "agent:user"

\* chat.message.created
MessageOf(w) ==
  [msg |-> w.body.msg, conv |-> w.body.id, user |-> Or(w.body.user, Agent(w.body.role))]

(* The gate reads the envelope as it came: the event_id that a flat message is
   given for its schema comes too late. *)
Keyed(w) == Or(w.event_id, Null) # Null
================================================================================
