----------------------------- MODULE GraphService -----------------------------
(***************************************************************************)
(* The event handlers of app/services/graph_service.py and the write       *)
(* transactions of app/repositories/graph_repository.py they call.         *)
(*                                                                         *)
(* The four Kafka topics are consumed independently, by any number of      *)
(* replicas, at least once.  So any event may be handled at any time, in   *)
(* any order and any number of times: the worker's deduplication           *)
(* (ConsumerWorker) only removes some of these behaviours.  Each action is *)
(* one write transaction; the message handler makes two of them.           *)
(***************************************************************************)
EXTENDS GraphStore

CONSTANTS
  Message,            \* message ids
  CreatedEvents,      \* the conversation.created events of the topic
  DeletedEvents,      \* conversation.deleted
  UpdatedEvents,      \* conversation.updated
  MessageEvents,      \* chat.message.created
  SoftDeleteEnabled,  \* settings.SOFT_DELETE_ENABLED
  Now                 \* the times a replica's clock may show

UnknownUser  == "unknown_user"
DefaultTitle == "Conversation"   \* "Conversation <id>", the id left out

(* Events as get_payload and _normalize_message_event return them.  Null is
   a field the producer left out; in a created event, an empty one too. *)
CreatedEvent == [conv   : Conversation,
                 user   : User   \cup {Null},
                 title  : Title  \cup {Null},
                 status : Status \cup {Null},
                 parent : Conversation \cup {Null},
                 at     : Time   \cup {Null}]

DeletedEvent == [conv : Conversation, at : Time \cup {Null}]

\* at: updated_at of the payload, else occurred_at of the envelope.
UpdatedEvent == [conv   : Conversation,
                 title  : Title  \cup {Null},
                 status : Status \cup {Null},
                 at     : Time   \cup {Null}]

\* user: the payload's user_id, else "agent:<role>".
MessageEvent == [msg : Message, conv : Conversation, user : User]

Events == CreatedEvents \cup DeletedEvents \cup UpdatedEvents \cup MessageEvents

ASSUME ServiceAssumption ==
  /\ CreatedEvents \subseteq CreatedEvent
  /\ DeletedEvents \subseteq DeletedEvent
  /\ UpdatedEvents \subseteq UpdatedEvent
  /\ MessageEvents \subseteq MessageEvent
  /\ SoftDeleteEnabled \in BOOLEAN
  /\ Now \subseteq Time
  /\ UnknownUser \in User
  /\ DefaultTitle \in Title
  /\ Null \notin Conversation
  /\ Absent \notin [conv : Conversation, user : User]
  /\ \A e, f \in MessageEvents : e.msg = f.msg => e = f  \* a message id names one message

VARIABLES
  conv,         \* (:Conversation) nodes
  hasChild,     \* <<parent, child>> for (parent)-[:HAS_CHILD]->(child)
  createdFrom,  \* <<child, parent>> for (child)-[:CREATED_FROM]->(parent)
  message,      \* (:Message) nodes
  users,        \* (:User) nodes
  sent,         \* <<user, message>> for (u)-[:SENT]->(m)
  belongsTo,    \* <<message, conversation>> for (m)-[:BELONGS_TO]->(c)
  offered,      \* history: what the statements offered each node since it exists
  handled       \* history: the events whose handler has returned

lineage == <<conv, hasChild, createdFrom>>
chat    == <<message, users, sent, belongsTo>>
vars    == <<conv, hasChild, createdFrom, message, users, sent, belongsTo, offered, handled>>

MessageNode == [conv : Conversation, user : User]
Write       == [title : Title \cup {Null}, status : Status \cup {Null}, at : Time]

-------------------------------------------------------------------------------

Init ==
  /\ conv        = [c \in Conversation |-> Absent]
  /\ hasChild    = {}
  /\ createdFrom = {}
  /\ message     = [m \in Message |-> Absent]
  /\ users       = {}
  /\ sent        = {}
  /\ belongsTo   = {}
  /\ offered     = [c \in Conversation |-> {}]
  /\ handled     = {}

\* What a MERGE with node record n offers the node.
Offer(n) == [title |-> n.title, status |-> n.status, at |-> n.updated]

Record(off, c, w) == [off EXCEPT ![c] = @ \cup {w}]

RecentStubMutant(owner) ==
  LET now == CHOOSE t \in Now : TRUE
  IN [user |-> owner, title |-> StubTitle, status |-> "ACTIVE", created |-> now, updated |-> now]

\* The placeholder a child's event leaves for a parent not seen yet.
Stub(owner) == [user |-> owner, title |-> StubTitle, status |-> "ACTIVE",
                created |-> Epoch, updated |-> Epoch]

\* repo.create_conversation_with_parent: one transaction, child first.
CreateConversationWithParent(c, n, parent) ==
  LET child == MergeConversation(conv, c, n)
      both  == MergeConversation(child, parent, Stub(n.user))
  IN \/ /\ parent = Null
        /\ conv' = child
        /\ offered' = Record(offered, c, Offer(n))
        /\ UNCHANGED <<hasChild, createdFrom>>
     \/ /\ parent # Null
        /\ conv' = both
        /\ offered' = Record(Record(offered, c, Offer(n)), parent, Offer(Stub(n.user)))
        /\ hasChild' = MergeRelationship(hasChild, both, parent, c)
        /\ createdFrom' = MergeRelationship(createdFrom, both, c, parent)

NewConversation(e, now) ==
  LET at == Coalesce(e.at, now)
  IN [user    |-> Coalesce(e.user, UnknownUser),
      title   |-> Coalesce(e.title, DefaultTitle),
      status  |-> Coalesce(e.status, "ACTIVE"),
      created |-> at,
      updated |-> at]

ProcessConversationCreated(e) ==
  \E now \in Now :
    /\ CreateConversationWithParent(e.conv, NewConversation(e, now), e.parent)
    /\ handled' = handled \cup {e}
    /\ UNCHANGED chat

DetachingSoftDeleteMutant(c, at) ==
  /\ conv' = SoftDeleteConversation(conv, c, at)
  /\ offered' = offered
  /\ hasChild' = Detach(hasChild, c)
  /\ createdFrom' = Detach(createdFrom, c)
  /\ UNCHANGED belongsTo

\* repo.soft_delete_conversation
SoftDelete(c, at) ==
  /\ conv' = SoftDeleteConversation(conv, c, at)
  /\ offered' = IF Present(conv, c)
                THEN Record(offered, c, [title |-> Null, status |-> "DELETED", at |-> at])
                ELSE offered
  /\ UNCHANGED <<hasChild, createdFrom, belongsTo>>

DanglingMessagesMutant(c) ==
  /\ conv' = DeleteConversation(conv, c)
  /\ offered' = [offered EXCEPT ![c] = {}]
  /\ hasChild' = Detach(hasChild, c)
  /\ createdFrom' = Detach(createdFrom, c)
  /\ UNCHANGED belongsTo

\* repo.delete_conversation
HardDelete(c) ==
  /\ conv' = DeleteConversation(conv, c)
  /\ offered' = [offered EXCEPT ![c] = {}]
  /\ hasChild' = Detach(hasChild, c)
  /\ createdFrom' = Detach(createdFrom, c)
  /\ belongsTo' = {r \in belongsTo : r[2] # c}

ProcessConversationDeleted(e) ==
  \E now \in Now :
    /\ \/ SoftDeleteEnabled /\ SoftDelete(e.conv, Coalesce(e.at, now))
       \/ ~SoftDeleteEnabled /\ HardDelete(e.conv)
    /\ handled' = handled \cup {e}
    /\ UNCHANGED <<message, users, sent>>

\* An update whose conversation does not exist yet matches nothing and is lost.
ProcessConversationUpdated(e) ==
  \E now \in Now :
    LET at == Coalesce(e.at, now)
    IN /\ conv' = UpdateConversation(conv, e.conv, e.title, e.status, at)
       /\ offered' = IF Present(conv, e.conv)
                     THEN Record(offered, e.conv, [title |-> e.title, status |-> e.status, at |-> at])
                     ELSE offered
       /\ handled' = handled \cup {e}
       /\ UNCHANGED <<hasChild, createdFrom, chat>>

NoSenderMutant(e) ==
  /\ message' = [message EXCEPT ![e.msg] = IF @ = Absent THEN [conv |-> e.conv] ELSE @]
  /\ UNCHANGED <<lineage, users, sent, belongsTo, offered, handled>>

\* process_message_created, first transaction: MERGE the node, ON CREATE only.
CreateMessageNode(e) ==
  /\ message' = [message EXCEPT ![e.msg] =
                   IF @ = Absent THEN [conv |-> e.conv, user |-> e.user] ELSE @]
  /\ UNCHANGED <<lineage, users, sent, belongsTo, offered, handled>>

MatchOnlyMutant(e) ==
  /\ message[e.msg] # Absent
  /\ users' = users \cup {e.user}
  /\ sent' = sent \cup {<<e.user, e.msg>>}
  /\ belongsTo' = IF Present(conv, e.conv) THEN belongsTo \cup {<<e.msg, e.conv>>} ELSE belongsTo
  /\ handled' = handled \cup {e}
  /\ UNCHANGED <<conv, hasChild, createdFrom, message, offered>>

(* Second transaction.  It runs after the first of the same delivery; message
   nodes are never deleted, so that the first ran is that the node is there.
   Other handlers, and a crash, may come in between. *)
CreateMessageRelationships(e) ==
  /\ message[e.msg] # Absent
  /\ users' = users \cup {e.user}
  /\ conv' = MergeBareConversation(conv, e.conv)
  /\ sent' = sent \cup {<<e.user, e.msg>>}
  /\ belongsTo' = belongsTo \cup {<<e.msg, e.conv>>}
  /\ handled' = handled \cup {e}
  /\ UNCHANGED <<hasChild, createdFrom, message, offered>>

Next ==
  \/ \E e \in CreatedEvents : ProcessConversationCreated(e)
  \/ \E e \in DeletedEvents : ProcessConversationDeleted(e)
  \/ \E e \in UpdatedEvents : ProcessConversationUpdated(e)
  \/ \E e \in MessageEvents : CreateMessageNode(e)
  \/ \E e \in MessageEvents : CreateMessageRelationships(e)

Spec == Init /\ [][Next]_vars

-------------------------------------------------------------------------------

\* Type correctness of the graph and of its history.
TypeOK ==
  /\ conv        \in [Conversation -> Node \cup {Absent}]
  /\ hasChild    \subseteq Conversation \X Conversation
  /\ createdFrom \subseteq Conversation \X Conversation
  /\ message     \in [Message -> MessageNode \cup {Absent}]
  /\ users       \subseteq User
  /\ sent        \subseteq User \X Message
  /\ belongsTo   \subseteq Message \X Conversation
  /\ offered     \in [Conversation -> SUBSET Write]
  /\ handled     \subseteq Events

Newest(n, off) == {w \in off : w.at = n.updated}

\* Node n is what the writes in off leave, whatever their order.
Reflects(n, off) ==
  IF n = Absent THEN off = {}
  ELSE /\ n.updated = Null <=> off = {}
       /\ \A w \in off : w.at <= n.updated
       /\ off # {} => Newest(n, off) # {}
       /\ \A w \in Newest(n, off) : w.title # Null =>
            \E x \in Newest(n, off) : x.title = n.title
       /\ \A w \in Newest(n, off) : w.status # Null =>
            \E x \in Newest(n, off) : x.status = n.status

(* In whatever order the topics were consumed, updated_at is the newest time a
   node was offered, and a field that the newest writes carry holds what one of
   them brought.  A field they leave out is not told: an older partial update
   may have lost it.  A node that was offered nothing (made by a message) has no
   updated_at, and the next write wins whatever its age.  graph_service.py
   handlers against the guards of the Cypher. *)
LatestWriteWins == \A c \in Conversation : Reflects(conv[c], offered[c])

Complete(n) ==
  IF n.user = Null THEN n.created = Null
  ELSE n.title # Null /\ n.status # Null /\ n.created # Null /\ n.updated # Null

(* A conversation that has an owner has every property the response schema
   requires (ConversationResponse), so no read that passes the ownership check
   fails to serialise, although messages and updates leave partial nodes. *)
OwnedNodeComplete == \A c \in Conversation : Present(conv, c) => Complete(conv[c])

(* HAS_CHILD and CREATED_FROM are inverse to each other, join existing nodes,
   and come from a created event that names that parent: the traversals down
   and up see one tree. *)
LineageConsistent ==
  /\ \A p, c \in Conversation : <<p, c>> \in hasChild <=> <<c, p>> \in createdFrom
  /\ \A r \in hasChild :
       /\ Present(conv, r[1]) /\ Present(conv, r[2])
       /\ \E e \in CreatedEvents : e.parent = r[1] /\ e.conv = r[2]

(* A message is attached to one sender and one conversation, those its node
   names, and never to a node that is gone. *)
MessagesConsistent ==
  /\ \A r \in sent : /\ r[1] \in users
                     /\ message[r[2]] # Absent
                     /\ message[r[2]].user = r[1]
  /\ \A r \in belongsTo : /\ Present(conv, r[2])
                          /\ message[r[1]] # Absent
                          /\ message[r[1]].conv = r[2]

(* Under soft delete nothing that was wired is lost: every branch whose created
   event was handled hangs from its parent, and every handled message from its
   conversation, whatever was handled before and since. *)
HandledIsWired ==
  /\ \A e \in handled \cap CreatedEvents : e.parent # Null => <<e.parent, e.conv>> \in hasChild
  /\ \A e \in handled \cap MessageEvents :
       <<e.user, e.msg>> \in sent /\ <<e.msg, e.conv>> \in belongsTo

-------------------------------------------------------------------------------

Survives(c) == Present(conv, c) /\ Present(conv, c)'

(* No step moves a node's updated_at back or erases it: a stale or replayed
   event cannot reopen the guard for others (task_update.md, replay-safe
   merge). *)
UpdatedNeverRegresses ==
  [][\A c \in Conversation : Survives(c) /\ conv[c].updated # Null =>
       /\ conv[c].updated' # Null
       /\ conv[c].updated' >= conv[c].updated]_vars

(* The owner and the creation time of a node are fixed when the node is made:
   no event of another user, no child's event takes a conversation over. *)
OwnerAndOriginImmutable ==
  [][\A c \in Conversation : Survives(c) =>
       conv[c].user' = conv[c].user /\ conv[c].created' = conv[c].created]_vars

(* A branch's created event leaves a parent that has any real write alone: the
   stub it merges is older than everything. *)
ChildLeavesKnownParentAlone ==
  [][\A e \in CreatedEvents :
       /\ ProcessConversationCreated(e)
       /\ e.parent \notin {Null, e.conv}
       /\ Present(conv, e.parent)
       /\ conv[e.parent].updated \notin {Null, Epoch}
       => conv'[e.parent] = conv[e.parent]]_vars

\* w was weighed by its node and no other write there has the same time.
Settled(c, w) == w \in offered[c] /\ \A x \in offered[c] : x.at = w.at => x = w

(* Handling again an event that carries its own time and that the node already
   weighed changes nothing in the graph, however much was handled since, unless
   another write has the same time. *)
ReplayIsNoOp ==
  [][/\ \A e \in CreatedEvents \cap handled :
          /\ ProcessConversationCreated(e)
          /\ e.at # Null
          /\ Settled(e.conv, Offer(NewConversation(e, e.at)))
          /\ e.parent # Null => Settled(e.parent, Offer(Stub(UnknownUser)))
          => UNCHANGED lineage
     /\ \A e \in UpdatedEvents \cap handled :
          /\ ProcessConversationUpdated(e)
          /\ e.at # Null
          /\ Settled(e.conv, [title |-> e.title, status |-> e.status, at |-> e.at])
          => UNCHANGED lineage
     /\ \A e \in DeletedEvents \cap handled :
          /\ ProcessConversationDeleted(e)
          /\ e.at # Null
          /\ Settled(e.conv, [title |-> Null, status |-> "DELETED", at |-> e.at])
          => UNCHANGED lineage]_vars
===============================================================================
