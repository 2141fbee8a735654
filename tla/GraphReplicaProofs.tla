--------------------------- MODULE GraphReplicaProofs ---------------------------
(***************************************************************************)
(* Under soft deletion GraphService implements LineageReplica, for every   *)
(* set of conversations, messages and events.                              *)
(***************************************************************************)
EXTENDS GraphReplica, GraphServiceProofs

\* The conversations that have a node.
Alive(cv) == {c \in Conversation : Present(cv, c)}

LEMMA MergeAlive ==
  ASSUME NEW cv \in ConvMap, NEW c \in Conversation, NEW w \in FullNode
  PROVE  Alive(MergeConversation(cv, c, w)) = Alive(cv) \cup {c}
<1>1. Merged(cv[c], w) # Absent
  BY MergedType, StoreAssumption DEF ConvMap
<1>2. QED
  BY <1>1 DEF Alive, Present, MergeConversation, ConvMap

\* A statement that changes the node of one conversation, and does not make it go.
LEMMA SetAlive ==
  ASSUME TypeOK, NEW c \in Conversation, NEW n, n = Absent <=> conv[c] = Absent,
         conv' = [conv EXCEPT ![c] = n]
  PROVE  Alive(conv') = Alive(conv)
BY DEF Alive, Present, TypeOK

-------------------------------------------------------------------------------
\* What each transaction adds.

LEMMA CreatedLearns ==
  ASSUME TypeOK, NEW e \in CreatedEvents, ProcessConversationCreated(e)
  PROVE  Known' = Known \cup CreatedGain(e)
<1>1. PICK n \in FullNode, s \in FullNode : Creates(e, n, s)
  BY CreatedShape
<1>2. e.conv \in Conversation /\ UNCHANGED <<message, users, sent, belongsTo>>
  BY CreatedShape DEF ProcessConversationCreated, chat
<1> DEFINE child == MergeConversation(conv, e.conv, n)
<1>3. child \in ConvMap /\ Alive(child) = Alive(conv) \cup {e.conv}
  BY <1>2, NothingGrown, MergeType, MergeAlive
<1>4. CASE e.parent = Null
  <2>1. conv' = child /\ UNCHANGED <<hasChild, createdFrom>>
    BY <1>1, <1>4, ServiceAssumption DEF Creates
  <2>2. Alive(conv') = Alive(conv) \cup {e.conv}
    BY <1>3, <2>1
  <2>3. QED
    BY <1>2, <1>4, <2>1, <2>2 DEF Known, CreatedGain, Facts, Alive
<1>5. CASE e.parent \in Conversation
  <2>1. conv' = MergeConversation(child, e.parent, s)
    BY <1>1, <1>5, ServiceAssumption DEF Creates
  <2>2. Alive(conv') = Alive(conv) \cup {e.conv, e.parent}
    BY <1>3, <1>5, <2>1, MergeAlive
  <2>3. /\ hasChild' = hasChild \cup {<<e.parent, e.conv>>}
        /\ createdFrom' = createdFrom \cup {<<e.conv, e.parent>>}
    BY <1>1, <1>2, <1>5, <2>2, ServiceAssumption DEF Creates, MergeRelationship, Alive
  <2>4. e.parent # Null
    BY <1>5, ServiceAssumption
  <2>5. QED
    BY <1>2, <2>2, <2>3, <2>4 DEF Known, CreatedGain, Facts, Alive
<1>6. QED
  BY <1>1, <1>4, <1>5 DEF Creates

LEMMA DeletedLearns ==
  ASSUME SoftDeleteEnabled, TypeOK, NEW e \in DeletedEvents, ProcessConversationDeleted(e)
  PROVE  Known' = Known
<1>1. PICK now \in Now : SoftDelete(e.conv, Coalesce(e.at, now))
  BY DEF ProcessConversationDeleted
<1>2. e.conv \in Conversation /\ Coalesce(e.at, now) \in Time
  BY ServiceAssumption, CoalesceType DEF DeletedEvent
<1>3. SoftDeleted(conv[e.conv], Coalesce(e.at, now)) = Absent <=> conv[e.conv] = Absent
  BY <1>2, StoreAssumption DEF SoftDeleted, TypeOK, Node
<1>4. Alive(conv') = Alive(conv)
  BY <1>1, <1>2, <1>3, SetAlive DEF SoftDelete, SoftDeleteConversation
<1>5. UNCHANGED <<hasChild, createdFrom, message, users, sent, belongsTo>>
  BY <1>1 DEF ProcessConversationDeleted, SoftDelete
<1>6. QED
  BY <1>4, <1>5 DEF Known, Alive

LEMMA UpdatedLearns ==
  ASSUME TypeOK, NEW e \in UpdatedEvents, ProcessConversationUpdated(e)
  PROVE  Known' = Known
<1>1. PICK now \in Now : conv' = UpdateConversation(conv, e.conv, e.title, e.status, Coalesce(e.at, now))
  BY DEF ProcessConversationUpdated
<1>2. /\ e.conv \in Conversation
      /\ e.title \in Title \cup {Null}
      /\ e.status \in Status \cup {Null}
      /\ Coalesce(e.at, now) \in Time
  BY ServiceAssumption, CoalesceType DEF UpdatedEvent
<1> DEFINE n == Updated(conv[e.conv], e.title, e.status, Coalesce(e.at, now))
<1>3. n = Absent <=> conv[e.conv] = Absent
  <2>1. conv[e.conv] = Absent => n = Absent
    BY DEF Updated
  <2>2. conv[e.conv] \in Node => n \in Node
    BY <1>2, UpdatedFollows
  <2>3. QED
    BY <1>2, <2>1, <2>2, StoreAssumption DEF TypeOK
<1>4. conv' = [conv EXCEPT ![e.conv] = n]
  BY <1>1 DEF UpdateConversation
<1>5. Alive(conv') = Alive(conv)
  <2> HIDE DEF n
  <2>1. QED
    BY <1>2, <1>3, <1>4, SetAlive
<1>6. UNCHANGED <<hasChild, createdFrom, message, users, sent, belongsTo>>
  BY DEF ProcessConversationUpdated, chat
<1>7. QED
  BY <1>5, <1>6 DEF Known, Alive

LEMMA NodeLearns ==
  ASSUME TypeOK, NEW e \in MessageEvents, CreateMessageNode(e)
  PROVE  Known' = Known \cup NodeGain(e)
<1>1. e.msg \in Message
  BY ServiceAssumption DEF MessageEvent
<1>2. [conv |-> e.conv, user |-> e.user] # Absent
  BY ServiceAssumption, StoreAssumption DEF MessageEvent
<1>3. {m \in Message : message'[m] # Absent} = {m \in Message : message[m] # Absent} \cup {e.msg}
  BY <1>1, <1>2 DEF CreateMessageNode, TypeOK
<1>4. UNCHANGED <<conv, hasChild, createdFrom, users, sent, belongsTo>>
  BY DEF CreateMessageNode, lineage
<1>5. QED
  BY <1>3, <1>4 DEF Known, NodeGain, Facts

LEMMA WiringLearns ==
  ASSUME TypeOK, NEW e \in MessageEvents, CreateMessageRelationships(e)
  PROVE  Known' = Known \cup WiringGain(e)
<1>1. e.conv \in Conversation
  BY ServiceAssumption DEF MessageEvent
<1>2. MergedBare(conv[e.conv]) # Absent
  BY <1>1, MergedBareType, StoreAssumption DEF TypeOK, MaybeNode
<1>3. Alive(conv') = Alive(conv) \cup {e.conv}
  BY <1>1, <1>2 DEF CreateMessageRelationships, MergeBareConversation, Alive, Present, TypeOK
<1>4. /\ users' = users \cup {e.user}
      /\ sent' = sent \cup {<<e.user, e.msg>>}
      /\ belongsTo' = belongsTo \cup {<<e.msg, e.conv>>}
      /\ UNCHANGED <<hasChild, createdFrom, message>>
  BY DEF CreateMessageRelationships
<1>5. QED
  BY <1>3, <1>4 DEF Known, WiringGain, Facts, Alive

-------------------------------------------------------------------------------

LEMMA GainsOfEvents ==
  /\ \A e \in CreatedEvents : CreatedGain(e) \in AllGains
  /\ \A e \in MessageEvents : NodeGain(e) \in AllGains /\ WiringGain(e) \in AllGains
<1>1. \A e \in MessageEvents : e \notin CreatedEvents
  BY EventsDiffer, ServiceAssumption
<1>2. \A e \in CreatedEvents : Gain(e, 1) = CreatedGain(e)
  BY <1>1 DEF Gain
<1>3. \A e \in MessageEvents : Gain(e, 1) = NodeGain(e) /\ Gain(e, 2) = WiringGain(e)
  BY <1>1 DEF Gain
<1>4. \A e \in Events : Gain(e, 1) \in AllGains /\ Gain(e, 2) \in AllGains
  BY DEF AllGains
<1>5. QED
  BY <1>2, <1>3, <1>4 DEF Events

LEMMA LineageStep ==
  ASSUME SoftDeleteEnabled, TypeOK, [Next]_vars
  PROVE  [Lineage!Next]_Known
<1>1. ASSUME NEW gain \in AllGains, Known' = Known \cup gain
      PROVE  Lineage!Next
  BY <1>1 DEF Lineage!Next, Lineage!Learn
<1>2. CASE UNCHANGED vars
  BY <1>2 DEF vars, Known, Present
<1>3. ASSUME NEW e \in CreatedEvents, ProcessConversationCreated(e)
      PROVE  Lineage!Next
  BY <1>1, <1>3, CreatedLearns, GainsOfEvents
<1>4. ASSUME NEW e \in MessageEvents, CreateMessageNode(e) \/ CreateMessageRelationships(e)
      PROVE  Lineage!Next
  BY <1>1, <1>4, NodeLearns, WiringLearns, GainsOfEvents
<1>5. QED
  BY <1>2, <1>3, <1>4, DeletedLearns, UpdatedLearns DEF Next

(* With soft deletion the graph is a grow-only replica of what the events say:
   each step of a handler adds the facts of one event, or none, and takes
   nothing back. *)
THEOREM GraphIsAReplica == SoftDeleteEnabled /\ Spec => KeepsLineage
<1>1. Init => Lineage!Init
  BY StoreAssumption DEF Init, Lineage!Init, Known, Facts, Present
<1>2. SoftDeleteEnabled /\ TypeOK /\ [Next]_vars => [Lineage!Next]_Known
  BY LineageStep
<1>3. CASE SoftDeleteEnabled
  BY <1>1, <1>2, <1>3, TypeCorrect, PTL DEF Spec, KeepsLineage, Lineage!Spec
<1>4. CASE ~SoftDeleteEnabled
  BY <1>4
<1>5. QED
  BY <1>3, <1>4
===============================================================================
