--------------------------- MODULE GraphServiceProofs ---------------------------
(***************************************************************************)
(* What GraphService guarantees for every set of conversations, users and  *)
(* events, in every order and number of deliveries.                        *)
(***************************************************************************)
EXTENDS GraphService, TLAPS

\* The record of a MERGE made by a handler has every property.
FullNode == [user : User, title : Title, status : Status, created : Time, updated : Time]

LEMMA FullNodeIsNode == FullNode \subseteq Node
BY SMT DEF FullNode, Node

LEMMA CoalesceType ==
  ASSUME NEW S, NEW x \in S \cup {Null}, NEW y \in S
  PROVE  Coalesce(x, y) \in S
BY DEF Coalesce

\* The handlers fill in every property a created event may leave out.
LEMMA NewConversationType ==
  ASSUME NEW e \in CreatedEvents, NEW now \in Now
  PROVE  NewConversation(e, now) \in FullNode
<1>1. e \in CreatedEvent /\ now \in Time
  BY ServiceAssumption
<1>2. Coalesce(e.at, now) \in Time
  BY <1>1, CoalesceType DEF CreatedEvent
<1>3. Coalesce(e.user, UnknownUser) \in User
  BY <1>1, ServiceAssumption, CoalesceType DEF CreatedEvent
<1>4. Coalesce(e.title, DefaultTitle) \in Title
  BY <1>1, ServiceAssumption, CoalesceType DEF CreatedEvent
<1>5. Coalesce(e.status, "ACTIVE") \in Status
  BY <1>1, StoreAssumption, CoalesceType DEF CreatedEvent
<1>6. QED
  BY <1>2, <1>3, <1>4, <1>5 DEF NewConversation, FullNode

LEMMA StubType ==
  ASSUME NEW u \in User
  PROVE  Stub(u) \in FullNode
BY StoreAssumption DEF Stub, FullNode, Epoch, Time

LEMMA OfferType ==
  ASSUME NEW n \in FullNode
  PROVE  Offer(n) \in Write
BY DEF Offer, FullNode, Write

-------------------------------------------------------------------------------
\* What the statements make of one node.

MaybeNode == Node \cup {Absent}

LEMMA MergedType ==
  ASSUME NEW n \in MaybeNode, NEW w \in FullNode
  PROVE  Merged(n, w) \in Node
<1>1. w \in Node
  BY FullNodeIsNode
<1>2. CASE n = Absent
  BY <1>1, <1>2 DEF Merged
<1>3. CASE n \in Node
  BY <1>1, <1>3, StoreAssumption DEF Merged, Node, FullNode
<1>4. QED
  BY <1>2, <1>3 DEF MaybeNode

LEMMA UpdatedType ==
  ASSUME NEW n \in MaybeNode, NEW t \in Title \cup {Null}, NEW s \in Status \cup {Null},
         NEW at \in Time
  PROVE  Updated(n, t, s, at) \in MaybeNode
BY DEF Updated, MaybeNode, Node, Coalesce

LEMMA SoftDeletedType ==
  ASSUME NEW n \in MaybeNode, NEW at \in Time
  PROVE  SoftDeleted(n, at) \in MaybeNode
BY StoreAssumption DEF SoftDeleted, MaybeNode, Node

LEMMA MergedBareType ==
  ASSUME NEW n \in MaybeNode
  PROVE  MergedBare(n) \in Node
BY DEF MergedBare, MaybeNode, BareNode, Node

-------------------------------------------------------------------------------
\* Type correctness.

ConvMap  == [Conversation -> MaybeNode]
OfferMap == [Conversation -> SUBSET Write]

LEMMA MergeType ==
  ASSUME NEW cv \in ConvMap, NEW c \in Conversation, NEW n \in FullNode
  PROVE  MergeConversation(cv, c, n) \in ConvMap
<1>1. Merged(cv[c], n) \in MaybeNode
  BY MergedType DEF ConvMap, MaybeNode
<1>2. QED
  BY <1>1 DEF MergeConversation, ConvMap

LEMMA RecordType ==
  ASSUME NEW off \in OfferMap, NEW c \in Conversation, NEW w \in Write
  PROVE  Record(off, c, w) \in OfferMap
BY DEF Record, OfferMap

LEMMA MergeRelationshipType ==
  ASSUME NEW rel, rel \subseteq Conversation \X Conversation, NEW cv,
         NEW a \in Conversation, NEW b \in Conversation
  PROVE  MergeRelationship(rel, cv, a, b) \subseteq Conversation \X Conversation
BY DEF MergeRelationship

LEMMA TypeInit == Init => TypeOK
BY DEF Init, TypeOK

LEMMA TypeCreated ==
  ASSUME TypeOK, NEW e \in CreatedEvents, ProcessConversationCreated(e)
  PROVE  TypeOK'
<1>1. PICK now \in Now : CreateConversationWithParent(e.conv, NewConversation(e, now), e.parent)
  BY DEF ProcessConversationCreated
<1> DEFINE n     == NewConversation(e, now)
           child == MergeConversation(conv, e.conv, n)
           both  == MergeConversation(child, e.parent, Stub(n.user))
<1>2. e.conv \in Conversation /\ e.parent \in Conversation \cup {Null}
  BY ServiceAssumption DEF CreatedEvent
<1>3. n \in FullNode
  BY NewConversationType
<1>4. Stub(n.user) \in FullNode
  BY <1>3, StubType DEF FullNode
<1>5. child \in ConvMap
  BY <1>2, <1>3, MergeType DEF TypeOK, ConvMap, MaybeNode
<1>6. Record(offered, e.conv, Offer(n)) \in OfferMap
  BY <1>2, <1>3, OfferType, RecordType DEF TypeOK, OfferMap
<1>7. conv' \in ConvMap /\ offered' \in OfferMap
      /\ hasChild' \subseteq Conversation \X Conversation
      /\ createdFrom' \subseteq Conversation \X Conversation
  <2> HIDE DEF n
  <2>1. CASE e.parent = Null
    BY <1>1, <1>5, <1>6, <2>1 DEF CreateConversationWithParent, TypeOK, n
  <2>2. CASE e.parent # Null
    <3>1. e.parent \in Conversation
      BY <1>2, <2>2
    <3>2. both \in ConvMap
      BY <1>4, <1>5, <3>1, MergeType
    <3>3. Record(Record(offered, e.conv, Offer(n)), e.parent, Offer(Stub(n.user))) \in OfferMap
      BY <1>4, <1>6, <3>1, OfferType, RecordType
    <3>4. /\ conv' = both
          /\ offered' = Record(Record(offered, e.conv, Offer(n)), e.parent, Offer(Stub(n.user)))
          /\ hasChild' = MergeRelationship(hasChild, both, e.parent, e.conv)
          /\ createdFrom' = MergeRelationship(createdFrom, both, e.conv, e.parent)
      BY <1>1, <2>2 DEF CreateConversationWithParent, n
    <3>5. QED
      BY <1>2, <3>1, <3>2, <3>3, <3>4, MergeRelationshipType DEF TypeOK
  <2>3. QED
    BY <2>1, <2>2
<1>8. QED
  BY <1>7 DEF ProcessConversationCreated, TypeOK, ConvMap, MaybeNode, OfferMap, chat, Events

LEMMA TypeDeleted ==
  ASSUME TypeOK, NEW e \in DeletedEvents, ProcessConversationDeleted(e)
  PROVE  TypeOK'
<1>1. PICK now \in Now :
        \/ SoftDeleteEnabled /\ SoftDelete(e.conv, Coalesce(e.at, now))
        \/ ~SoftDeleteEnabled /\ HardDelete(e.conv)
  BY DEF ProcessConversationDeleted
<1>2. e.conv \in Conversation /\ Coalesce(e.at, now) \in Time
  BY ServiceAssumption, CoalesceType DEF DeletedEvent
<1>3. conv' \in ConvMap /\ offered' \in OfferMap
      /\ hasChild' \subseteq Conversation \X Conversation
      /\ createdFrom' \subseteq Conversation \X Conversation
      /\ belongsTo' \subseteq Message \X Conversation
  <2>1. CASE SoftDelete(e.conv, Coalesce(e.at, now))
    <3>1. [title |-> Null, status |-> "DELETED", at |-> Coalesce(e.at, now)] \in Write
      BY <1>2, StoreAssumption DEF Write
    <3>2. SoftDeleted(conv[e.conv], Coalesce(e.at, now)) \in MaybeNode
      BY <1>2, SoftDeletedType DEF TypeOK, MaybeNode
    <3>3. offered' \in OfferMap
      BY <1>2, <2>1, <3>1, RecordType DEF SoftDelete, TypeOK, OfferMap
    <3>4. conv' \in ConvMap
      BY <1>2, <2>1, <3>2 DEF SoftDelete, SoftDeleteConversation, TypeOK, ConvMap, MaybeNode
    <3>5. QED
      BY <2>1, <3>3, <3>4 DEF SoftDelete, TypeOK
  <2>2. CASE HardDelete(e.conv)
    BY <1>2, <2>2 DEF HardDelete, DeleteConversation, Detach, TypeOK, ConvMap, MaybeNode, OfferMap
  <2>3. QED
    BY <1>1, <2>1, <2>2
<1>4. QED
  BY <1>3 DEF ProcessConversationDeleted, TypeOK, ConvMap, MaybeNode, OfferMap, Events

LEMMA TypeUpdated ==
  ASSUME TypeOK, NEW e \in UpdatedEvents, ProcessConversationUpdated(e)
  PROVE  TypeOK'
<1>1. PICK now \in Now :
        /\ conv' = UpdateConversation(conv, e.conv, e.title, e.status, Coalesce(e.at, now))
        /\ offered' = IF Present(conv, e.conv)
                      THEN Record(offered, e.conv, [title |-> e.title, status |-> e.status,
                                                    at |-> Coalesce(e.at, now)])
                      ELSE offered
  BY DEF ProcessConversationUpdated
<1>2. /\ e.conv \in Conversation
      /\ e.title \in Title \cup {Null}
      /\ e.status \in Status \cup {Null}
      /\ Coalesce(e.at, now) \in Time
  BY ServiceAssumption, CoalesceType DEF UpdatedEvent
<1>3. [title |-> e.title, status |-> e.status, at |-> Coalesce(e.at, now)] \in Write
  BY <1>2 DEF Write
<1>4. offered' \in OfferMap
  BY <1>1, <1>2, <1>3, RecordType DEF TypeOK, OfferMap
<1>5. Updated(conv[e.conv], e.title, e.status, Coalesce(e.at, now)) \in MaybeNode
  BY <1>2, UpdatedType DEF TypeOK, MaybeNode
<1>6. conv' \in ConvMap
  BY <1>1, <1>2, <1>5 DEF UpdateConversation, TypeOK, ConvMap, MaybeNode
<1>7. QED
  BY <1>4, <1>6 DEF ProcessConversationUpdated, TypeOK, ConvMap, MaybeNode, OfferMap, chat, Events

LEMMA TypeMessage ==
  ASSUME TypeOK, NEW e \in MessageEvents, CreateMessageNode(e) \/ CreateMessageRelationships(e)
  PROVE  TypeOK'
<1>1. e.msg \in Message /\ e.conv \in Conversation /\ e.user \in User
  BY ServiceAssumption DEF MessageEvent
<1>2. CASE CreateMessageNode(e)
  BY <1>1, <1>2 DEF CreateMessageNode, TypeOK, MessageNode, lineage
<1>3. CASE CreateMessageRelationships(e)
  <2>1. conv' \in ConvMap
    <3>1. MergedBare(conv[e.conv]) \in MaybeNode
      BY <1>1, MergedBareType DEF TypeOK, MaybeNode
    <3>2. QED
      BY <1>1, <1>3, <3>1 DEF CreateMessageRelationships, MergeBareConversation, TypeOK, ConvMap, MaybeNode
  <2>2. QED
    BY <1>1, <1>3, <2>1 DEF CreateMessageRelationships, TypeOK, ConvMap, MaybeNode, Events
<1>4. QED
  BY <1>2, <1>3

LEMMA TypeNext == TypeOK /\ [Next]_vars => TypeOK'
<1> SUFFICES ASSUME TypeOK, [Next]_vars PROVE TypeOK'
  OBVIOUS
<1>1. CASE Next
  BY <1>1, TypeCreated, TypeDeleted, TypeUpdated, TypeMessage DEF Next
<1>2. CASE UNCHANGED vars
  BY <1>2 DEF vars, TypeOK
<1>3. QED
  BY <1>1, <1>2

(* The graph has the type its schema says, for every set of conversations and
   events: the handlers never store a value a reader cannot type. *)
THEOREM TypeCorrect == Spec => []TypeOK
<1>1. QED
  BY TypeInit, TypeNext, PTL DEF Spec

-------------------------------------------------------------------------------
\* The newest write wins.

(* A statement that takes title, status and time t, s, at leaves the node
   reflecting one more write.  The other statements are instances of it. *)
LEMMA UpdatedReflects ==
  ASSUME NEW n \in Node, NEW off \in SUBSET Write, Reflects(n, off),
         NEW t \in Title \cup {Null}, NEW s \in Status \cup {Null}, NEW at \in Time
  PROVE  Reflects(Updated(n, t, s, at), off \cup {[title |-> t, status |-> s, at |-> at]})
<1> DEFINE w    == [title |-> t, status |-> s, at |-> at]
           m    == Updated(n, t, s, at)
           more == off \cup {w}
<1>1. /\ n # Absent
      /\ n.updated \in Time \cup {Null}
      /\ w.at = at /\ w.title = t /\ w.status = s
      /\ \A x \in off : x.at \in Time
  BY StoreAssumption DEF Node, Write
<1>2. Null \notin Time /\ \A a, b \in Time : a <= b \/ b <= a
  BY StoreAssumption DEF Time
<1>3. CASE NotOlder(n, at)
  <2>1. /\ m # Absent /\ m.updated = at
        /\ m.title  = Coalesce(t, n.title)
        /\ m.status = Coalesce(s, n.status)
    <3>1. m \in Node
      BY <1>1, <1>3 DEF Updated, Node, Coalesce
    <3>2. m = [n EXCEPT !.title = Coalesce(t, n.title), !.status = Coalesce(s, n.status),
                        !.updated = at]
      BY <1>1, <1>3 DEF Updated
    <3>3. QED
      BY <3>1, <3>2, StoreAssumption DEF Node
  <2>2. \A x \in off : x.at <= at
    BY <1>1, <1>2, <1>3 DEF NotOlder, Reflects, Time
  <2>3. w \in Newest(m, more)
    BY <1>1, <2>1 DEF Newest
  <2>4. CASE n.updated = at
    <3>1. Newest(m, more) = Newest(n, off) \cup {w}
      BY <1>1, <2>1, <2>4 DEF Newest
    <3>2. \A y \in Newest(m, more) : y.title # Null =>
            \E x \in Newest(m, more) : x.title = m.title
      BY <1>1, <2>1, <2>3, <3>1 DEF Reflects, Coalesce
    <3>3. \A y \in Newest(m, more) : y.status # Null =>
            \E x \in Newest(m, more) : x.status = m.status
      BY <1>1, <2>1, <2>3, <3>1 DEF Reflects, Coalesce
    <3>4. QED
      BY <1>1, <1>2, <2>1, <2>2, <2>3, <3>2, <3>3 DEF Reflects, Time
  <2>5. CASE n.updated # at
    <3>1. \A x \in off : x.at # at
      BY <1>1, <1>2, <1>3, <2>5 DEF NotOlder, Reflects, Time
    <3>2. Newest(m, more) = {w}
      BY <1>1, <2>1, <3>1 DEF Newest
    <3>3. QED
      BY <1>1, <1>2, <2>1, <2>2, <3>2 DEF Reflects, Time, Coalesce
  <2>6. QED
    BY <2>4, <2>5
<1>4. CASE ~NotOlder(n, at)
  <2>1. m = n
    BY <1>4 DEF Updated
  <2>2. n.updated # Null /\ at <= n.updated /\ at # n.updated
    BY <1>1, <1>4 DEF NotOlder, Time
  <2>3. Newest(m, more) = Newest(n, off)
    BY <1>1, <2>1, <2>2 DEF Newest
  <2>4. QED
    BY <1>1, <2>1, <2>2, <2>3 DEF Reflects
<1>5. QED
  BY <1>3, <1>4

LEMMA MergedReflects ==
  ASSUME NEW n \in MaybeNode, NEW off \in SUBSET Write, Reflects(n, off), NEW w \in FullNode
  PROVE  Reflects(Merged(n, w), off \cup {Offer(w)})
<1>1. /\ w \in Node /\ w # Absent
      /\ w.title \in Title /\ w.status \in Status /\ w.updated \in Time /\ w.updated # Null
  BY FullNodeIsNode, StoreAssumption DEF FullNode
<1>2. CASE n = Absent
  <2>1. off = {} /\ Merged(n, w) = w
    BY <1>2 DEF Reflects, Merged
  <2>2. Offer(w).title = w.title /\ Offer(w).status = w.status /\ Offer(w).at = w.updated
    BY DEF Offer
  <2>3. Newest(w, {Offer(w)}) = {Offer(w)}
    BY <2>2 DEF Newest
  <2>4. w.updated <= w.updated
    BY <1>1 DEF Time
  <2>5. Reflects(w, {Offer(w)})
    BY <1>1, <2>2, <2>3, <2>4 DEF Reflects
  <2>6. QED
    BY <2>1, <2>5
<1>3. CASE n \in Node
  <2>1. Merged(n, w) = Updated(n, w.title, w.status, w.updated)
    BY <1>1, <1>3, StoreAssumption DEF Merged, Updated, Coalesce
  <2>2. QED
    BY <1>1, <1>3, <2>1, UpdatedReflects DEF Offer
<1>4. QED
  BY <1>2, <1>3 DEF MaybeNode

LEMMA SoftDeletedReflects ==
  ASSUME NEW n \in Node, NEW off \in SUBSET Write, Reflects(n, off), NEW at \in Time
  PROVE  Reflects(SoftDeleted(n, at),
                  off \cup {[title |-> Null, status |-> "DELETED", at |-> at]})
<1>1. SoftDeleted(n, at) = Updated(n, Null, "DELETED", at)
  BY StoreAssumption DEF SoftDeleted, Updated, Coalesce, Node
<1>2. QED
  BY <1>1, UpdatedReflects, StoreAssumption

(* What a created event does: one or two merges of full nodes, the second on
   the parent it names. *)
Creates(e, n, s) ==
  \/ /\ e.parent = Null
     /\ conv' = MergeConversation(conv, e.conv, n)
     /\ offered' = Record(offered, e.conv, Offer(n))
     /\ UNCHANGED <<hasChild, createdFrom>>
  \/ /\ e.parent \in Conversation
     /\ conv' = MergeConversation(MergeConversation(conv, e.conv, n), e.parent, s)
     /\ offered' = Record(Record(offered, e.conv, Offer(n)), e.parent, Offer(s))
     /\ hasChild' = MergeRelationship(hasChild, conv', e.parent, e.conv)
     /\ createdFrom' = MergeRelationship(createdFrom, conv', e.conv, e.parent)

LEMMA CreatedShape ==
  ASSUME NEW e \in CreatedEvents, ProcessConversationCreated(e)
  PROVE  e.conv \in Conversation /\ \E n, s \in FullNode : Creates(e, n, s)
<1>1. PICK now \in Now : CreateConversationWithParent(e.conv, NewConversation(e, now), e.parent)
  BY DEF ProcessConversationCreated
<1> DEFINE n == NewConversation(e, now)
<1>2. e.conv \in Conversation /\ e.parent \in Conversation \cup {Null}
  BY ServiceAssumption DEF CreatedEvent
<1>3. n \in FullNode /\ n.user \in User
  BY NewConversationType DEF FullNode
<1>4. Stub(n.user) \in FullNode
  BY <1>3, StubType
<1>5. Creates(e, n, Stub(n.user))
  <2> HIDE DEF n
  <2>1. CASE e.parent = Null
    BY <1>1, <2>1 DEF CreateConversationWithParent, Creates, n
  <2>2. CASE e.parent # Null
    BY <1>1, <1>2, <2>2 DEF CreateConversationWithParent, Creates, n
  <2>3. QED
    BY <2>1, <2>2
<1>6. QED
  BY <1>2, <1>3, <1>4, <1>5

AllReflect(cv, off) == \A c \in Conversation : Reflects(cv[c], off[c])

LEMMA MergeReflects ==
  ASSUME NEW cv \in ConvMap, NEW off \in OfferMap, AllReflect(cv, off),
         NEW c \in Conversation, NEW n \in FullNode
  PROVE  AllReflect(MergeConversation(cv, c, n), Record(off, c, Offer(n)))
<1>1. Reflects(Merged(cv[c], n), off[c] \cup {Offer(n)})
  BY MergedReflects DEF AllReflect, ConvMap, OfferMap
<1>2. QED
  BY <1>1 DEF AllReflect, MergeConversation, Record, ConvMap, OfferMap

LEMMA LatestInit == Init => LatestWriteWins
BY DEF Init, LatestWriteWins, Reflects

LEMMA LatestCreated ==
  ASSUME TypeOK, LatestWriteWins, NEW e \in CreatedEvents, ProcessConversationCreated(e)
  PROVE  LatestWriteWins'
<1>1. PICK n \in FullNode, s \in FullNode : Creates(e, n, s)
  BY CreatedShape
<1>2. e.conv \in Conversation
  BY CreatedShape
<1> DEFINE child == MergeConversation(conv, e.conv, n)
           off   == Record(offered, e.conv, Offer(n))
<1>3. /\ conv \in ConvMap
      /\ offered \in OfferMap
      /\ AllReflect(conv, offered)
  BY DEF TypeOK, ConvMap, MaybeNode, OfferMap, LatestWriteWins, AllReflect
<1>4. child \in ConvMap /\ off \in OfferMap /\ AllReflect(child, off)
  BY <1>2, <1>3, MergeType, RecordType, OfferType, MergeReflects
<1>5. AllReflect(conv', offered')
  <2>1. CASE e.parent = Null
    BY <1>1, <1>4, <2>1, ServiceAssumption DEF Creates
  <2>2. CASE e.parent \in Conversation
    <3>1. conv' = MergeConversation(child, e.parent, s) /\ offered' = Record(off, e.parent, Offer(s))
      BY <1>1, <2>2, ServiceAssumption DEF Creates
    <3>2. QED
      BY <1>4, <2>2, <3>1, MergeReflects
  <2>3. QED
    BY <1>1, <2>1, <2>2 DEF Creates
<1>6. QED
  BY <1>5 DEF AllReflect, LatestWriteWins

LEMMA LatestDeleted ==
  ASSUME TypeOK, LatestWriteWins, NEW e \in DeletedEvents, ProcessConversationDeleted(e)
  PROVE  LatestWriteWins'
<1>1. PICK now \in Now :
        \/ SoftDeleteEnabled /\ SoftDelete(e.conv, Coalesce(e.at, now))
        \/ ~SoftDeleteEnabled /\ HardDelete(e.conv)
  BY DEF ProcessConversationDeleted
<1>2. e.conv \in Conversation /\ Coalesce(e.at, now) \in Time
  BY ServiceAssumption, CoalesceType DEF DeletedEvent
<1> DEFINE at == Coalesce(e.at, now)
           w  == [title |-> Null, status |-> "DELETED", at |-> at]
<1>3. CASE SoftDelete(e.conv, at)
  <2>1. CASE Present(conv, e.conv)
    <3>1. Reflects(SoftDeleted(conv[e.conv], at), offered[e.conv] \cup {w})
      BY <1>2, <2>1, SoftDeletedReflects DEF TypeOK, LatestWriteWins, Present
    <3>2. QED
      BY <1>2, <1>3, <2>1, <3>1
      DEF SoftDelete, SoftDeleteConversation, Record, TypeOK, LatestWriteWins
  <2>2. CASE ~Present(conv, e.conv)
    BY <1>2, <1>3, <2>2
    DEF SoftDelete, SoftDeleteConversation, SoftDeleted, Present, TypeOK, LatestWriteWins
  <2>3. QED
    BY <2>1, <2>2
<1>4. CASE HardDelete(e.conv)
  <2>1. Reflects(Absent, {})
    BY DEF Reflects
  <2>2. QED
    BY <1>2, <1>4, <2>1 DEF HardDelete, DeleteConversation, TypeOK, LatestWriteWins
<1>5. QED
  BY <1>1, <1>3, <1>4

LEMMA LatestUpdated ==
  ASSUME TypeOK, LatestWriteWins, NEW e \in UpdatedEvents, ProcessConversationUpdated(e)
  PROVE  LatestWriteWins'
<1>1. PICK now \in Now :
        /\ conv' = UpdateConversation(conv, e.conv, e.title, e.status, Coalesce(e.at, now))
        /\ offered' = IF Present(conv, e.conv)
                      THEN Record(offered, e.conv, [title |-> e.title, status |-> e.status,
                                                    at |-> Coalesce(e.at, now)])
                      ELSE offered
  BY DEF ProcessConversationUpdated
<1>2. /\ e.conv \in Conversation
      /\ e.title \in Title \cup {Null}
      /\ e.status \in Status \cup {Null}
      /\ Coalesce(e.at, now) \in Time
  BY ServiceAssumption, CoalesceType DEF UpdatedEvent
<1> DEFINE at == Coalesce(e.at, now)
           w  == [title |-> e.title, status |-> e.status, at |-> at]
<1>3. CASE Present(conv, e.conv)
  <2>1. Reflects(Updated(conv[e.conv], e.title, e.status, at), offered[e.conv] \cup {w})
    BY <1>2, <1>3, UpdatedReflects DEF TypeOK, LatestWriteWins, Present
  <2>2. QED
    BY <1>1, <1>2, <1>3, <2>1 DEF UpdateConversation, Record, TypeOK, LatestWriteWins
<1>4. CASE ~Present(conv, e.conv)
  BY <1>1, <1>2, <1>4 DEF UpdateConversation, Updated, Present, TypeOK, LatestWriteWins
<1>5. QED
  BY <1>3, <1>4

LEMMA LatestMessage ==
  ASSUME TypeOK, LatestWriteWins,
         NEW e \in MessageEvents, CreateMessageNode(e) \/ CreateMessageRelationships(e)
  PROVE  LatestWriteWins'
<1>1. CASE CreateMessageNode(e)
  BY <1>1 DEF CreateMessageNode, lineage, LatestWriteWins
<1>2. CASE CreateMessageRelationships(e)
  <2>1. e.conv \in Conversation
    BY ServiceAssumption DEF MessageEvent
  <2>2. Reflects(MergedBare(conv[e.conv]), offered[e.conv])
    BY <2>1, StoreAssumption, MergedBareType DEF MergedBare, BareNode, Reflects, LatestWriteWins, Newest
  <2>3. QED
    BY <1>2, <2>1, <2>2 DEF CreateMessageRelationships, MergeBareConversation, TypeOK, LatestWriteWins
<1>3. QED
  BY <1>1, <1>2

LEMMA LatestNext == TypeOK /\ LatestWriteWins /\ [Next]_vars => LatestWriteWins'
<1> SUFFICES ASSUME TypeOK, LatestWriteWins, [Next]_vars PROVE LatestWriteWins'
  OBVIOUS
<1>1. CASE Next
  BY <1>1, LatestCreated, LatestDeleted, LatestUpdated, LatestMessage DEF Next
<1>2. CASE UNCHANGED vars
  BY <1>2 DEF vars, LatestWriteWins
<1>3. QED
  BY <1>1, <1>2

(* Whatever the order and the number of the deliveries, a conversation carries
   the newest of the writes its node was offered. *)
THEOREM NewestWriteIsKept == Spec => []LatestWriteWins
<1>1. QED
  BY TypeCorrect, LatestInit, LatestNext, PTL DEF Spec

-------------------------------------------------------------------------------
\* Nodes one step apart.

\* m may come after n in the life of one node.
Follows(n, m) ==
  /\ m.user = n.user
  /\ m.created = n.created
  /\ n.updated # Null => m.updated # Null /\ m.updated >= n.updated
  /\ Complete(n) => Complete(m)

LEMMA UpdatedFollows ==
  ASSUME NEW n \in Node, NEW t \in Title \cup {Null}, NEW s \in Status \cup {Null}, NEW at \in Time
  PROVE  Follows(n, Updated(n, t, s, at)) /\ Updated(n, t, s, at) \in Node
<1> DEFINE m == Updated(n, t, s, at)
<1>1. n # Absent /\ Null \notin Time /\ n.updated \in Time \cup {Null}
  BY StoreAssumption DEF Node
<1>2. CASE NotOlder(n, at)
  <2>1. m = [n EXCEPT !.title = Coalesce(t, n.title), !.status = Coalesce(s, n.status), !.updated = at]
    BY <1>1, <1>2 DEF Updated
  <2>2. m \in Node
    BY <2>1 DEF Node, Coalesce
  <2>3. /\ m.user = n.user /\ m.created = n.created /\ m.updated = at
        /\ m.title = Coalesce(t, n.title) /\ m.status = Coalesce(s, n.status)
    BY <2>1 DEF Node
  <2>4. QED
    BY <1>1, <1>2, <2>2, <2>3 DEF Follows, Complete, Coalesce, NotOlder, Time
<1>3. CASE ~NotOlder(n, at)
  BY <1>1, <1>3 DEF Updated, Follows, Time
<1>4. QED
  BY <1>2, <1>3

LEMMA MergedFollows ==
  ASSUME NEW n \in Node, NEW w \in FullNode
  PROVE  Follows(n, Merged(n, w)) /\ Merged(n, w) \in Node
<1>1. Merged(n, w) = Updated(n, w.title, w.status, w.updated)
  BY StoreAssumption DEF Merged, Updated, Coalesce, FullNode
<1>2. w.title \in Title /\ w.status \in Status /\ w.updated \in Time
  BY DEF FullNode
<1>3. QED
  BY <1>1, <1>2, UpdatedFollows

LEMMA FollowsIsTransitive ==
  ASSUME NEW a \in Node, NEW b \in Node, NEW c \in Node, Follows(a, b), Follows(b, c)
  PROVE  Follows(a, c)
BY StoreAssumption DEF Follows, Node, Time

LEMMA FollowsIsReflexive ==
  ASSUME NEW n \in Node
  PROVE  Follows(n, n)
BY StoreAssumption DEF Follows, Node, Time

LEMMA FreshIsComplete ==
  /\ \A w \in FullNode : Complete(w)
  /\ Complete(BareNode)
BY StoreAssumption DEF Complete, FullNode, BareNode

\* What one step may make of each conversation: the node goes, a complete one
\* comes, or the node follows itself.
Succeeds(n, m) ==
  \/ m = Absent
  \/ n = Absent /\ m \in Node /\ Complete(m)
  \/ n \in Node /\ m \in Node /\ Follows(n, m)

LEMMA MergedSucceeds ==
  ASSUME NEW n \in MaybeNode, NEW m \in MaybeNode, Succeeds(n, m),
         m = Absent => n = Absent, NEW w \in FullNode
  PROVE  Succeeds(n, Merged(m, w)) /\ Merged(m, w) # Absent
<1>1. CASE m = Absent
  <2>1. Merged(m, w) = w /\ w \in Node /\ Complete(w)
    BY <1>1, FullNodeIsNode, FreshIsComplete DEF Merged
  <2>2. QED
    BY <1>1, <2>1, StoreAssumption DEF Succeeds
<1>2. CASE m # Absent
  <2>1. m \in Node /\ Merged(m, w) \in Node /\ Follows(m, Merged(m, w))
    BY <1>2, MergedFollows DEF MaybeNode
  <2>2. CASE n = Absent
    <3>1. Complete(m)
      BY <1>2, <2>1, <2>2, StoreAssumption DEF Succeeds
    <3>2. QED
      BY <2>1, <2>2, <3>1, StoreAssumption DEF Succeeds, Follows
  <2>3. CASE n \in Node
    <3>1. Follows(n, m)
      BY <1>2, <2>3, StoreAssumption DEF Succeeds
    <3>2. QED
      BY <2>1, <2>3, <3>1, FollowsIsTransitive, StoreAssumption DEF Succeeds
  <2>4. QED
    BY <2>2, <2>3 DEF MaybeNode
<1>3. QED
  BY <1>1, <1>2

LEMMA SameSucceeds ==
  ASSUME NEW n \in MaybeNode
  PROVE  Succeeds(n, n)
BY FollowsIsReflexive DEF Succeeds, MaybeNode

Grown(cv) == \A c \in Conversation :
  Succeeds(conv[c], cv[c]) /\ (cv[c] = Absent => conv[c] = Absent)

LEMMA MergeGrows ==
  ASSUME TypeOK, NEW cv \in ConvMap, Grown(cv), NEW c \in Conversation, NEW w \in FullNode
  PROVE  Grown(MergeConversation(cv, c, w))
<1>1. Succeeds(conv[c], Merged(cv[c], w)) /\ Merged(cv[c], w) # Absent
  BY MergedSucceeds DEF Grown, ConvMap, TypeOK, MaybeNode
<1>2. QED
  BY <1>1 DEF Grown, MergeConversation, ConvMap

LEMMA NothingGrown ==
  ASSUME TypeOK
  PROVE  conv \in ConvMap /\ Grown(conv)
BY SameSucceeds DEF Grown, TypeOK, ConvMap, MaybeNode

\* A created event only adds nodes and moves the ones it merges forward; both
\* ends of the branch exist afterwards.
LEMMA CreatedGrows ==
  ASSUME TypeOK, NEW e \in CreatedEvents, ProcessConversationCreated(e)
  PROVE  /\ Grown(conv')
         /\ conv'[e.conv] # Absent
         /\ e.parent # Null => e.parent \in Conversation /\ conv'[e.parent] # Absent
<1>1. PICK n \in FullNode, s \in FullNode : Creates(e, n, s)
  BY CreatedShape
<1>2. e.conv \in Conversation
  BY CreatedShape
<1> DEFINE child == MergeConversation(conv, e.conv, n)
<1>3. child \in ConvMap /\ Grown(child)
  BY <1>2, NothingGrown, MergeType, MergeGrows
<1>4. child[e.conv] \in Node
  BY <1>2, MergedType DEF MergeConversation, TypeOK, MaybeNode
<1>5. CASE e.parent = Null
  BY <1>1, <1>3, <1>4, <1>5, ServiceAssumption, StoreAssumption DEF Creates
<1>6. CASE e.parent \in Conversation
  <2>1. conv' = MergeConversation(child, e.parent, s)
    BY <1>1, <1>6, ServiceAssumption DEF Creates
  <2>2. Grown(conv')
    BY <1>3, <1>6, <2>1, MergeGrows
  <2>3. Merged(child[e.parent], s) \in Node
    BY <1>3, <1>6, MergedType DEF ConvMap
  <2>4. conv'[e.parent] # Absent /\ conv'[e.conv] # Absent
    BY <1>2, <1>3, <1>4, <1>6, <2>1, <2>3, StoreAssumption DEF MergeConversation, ConvMap
  <2>5. QED
    BY <1>6, <2>2, <2>4
<1>7. QED
  BY <1>1, <1>5, <1>6 DEF Creates

LEMMA StepSucceeds ==
  ASSUME TypeOK, [Next]_vars, NEW c \in Conversation
  PROVE  Succeeds(conv[c], conv'[c])
<1>1. conv[c] \in MaybeNode
  BY DEF TypeOK, MaybeNode
<1>2. ASSUME NEW e \in CreatedEvents, ProcessConversationCreated(e)
      PROVE  Succeeds(conv[c], conv'[c])
  BY <1>2, CreatedGrows DEF Grown
<1>3. ASSUME NEW e \in DeletedEvents, ProcessConversationDeleted(e)
      PROVE  Succeeds(conv[c], conv'[c])
  <2>1. PICK now \in Now :
          \/ SoftDelete(e.conv, Coalesce(e.at, now))
          \/ HardDelete(e.conv)
    BY <1>3 DEF ProcessConversationDeleted
  <2>2. e.conv \in Conversation /\ Coalesce(e.at, now) \in Time
    BY ServiceAssumption, CoalesceType DEF DeletedEvent
  <2>3. CASE SoftDelete(e.conv, Coalesce(e.at, now))
    <3>1. SoftDeleted(conv[c], Coalesce(e.at, now)) = Updated(conv[c], Null, "DELETED", Coalesce(e.at, now))
      BY <1>1, StoreAssumption DEF SoftDeleted, Updated, Coalesce, Node, MaybeNode
    <3>2. conv[c] # Absent => Succeeds(conv[c], SoftDeleted(conv[c], Coalesce(e.at, now)))
      BY <1>1, <2>2, <3>1, UpdatedFollows, StoreAssumption DEF Succeeds, MaybeNode
    <3>3. conv[c] = Absent => SoftDeleted(conv[c], Coalesce(e.at, now)) = conv[c]
      BY DEF SoftDeleted
    <3>4. QED
      BY <1>1, <2>2, <2>3, <3>2, <3>3, SameSucceeds DEF SoftDelete, SoftDeleteConversation, TypeOK
  <2>4. CASE HardDelete(e.conv)
    BY <1>1, <2>2, <2>4, SameSucceeds DEF HardDelete, DeleteConversation, TypeOK, Succeeds
  <2>5. QED
    BY <2>1, <2>3, <2>4
<1>4. ASSUME NEW e \in UpdatedEvents, ProcessConversationUpdated(e)
      PROVE  Succeeds(conv[c], conv'[c])
  <2>1. PICK now \in Now : conv' = UpdateConversation(conv, e.conv, e.title, e.status, Coalesce(e.at, now))
    BY <1>4 DEF ProcessConversationUpdated
  <2> DEFINE m == Updated(conv[c], e.title, e.status, Coalesce(e.at, now))
  <2>2. /\ e.conv \in Conversation
        /\ e.title \in Title \cup {Null}
        /\ e.status \in Status \cup {Null}
        /\ Coalesce(e.at, now) \in Time
    BY ServiceAssumption, CoalesceType DEF UpdatedEvent
  <2>3. conv[c] # Absent => Succeeds(conv[c], m)
    BY <1>1, <2>2, UpdatedFollows DEF Succeeds, MaybeNode
  <2>4. conv[c] = Absent => m = conv[c]
    BY DEF Updated
  <2>5. conv'[c] = m \/ conv'[c] = conv[c]
    BY <2>1, <2>2 DEF UpdateConversation, TypeOK
  <2>6. QED
    BY <1>1, <2>3, <2>4, <2>5, SameSucceeds
<1>5. ASSUME NEW e \in MessageEvents, CreateMessageNode(e) \/ CreateMessageRelationships(e)
      PROVE  Succeeds(conv[c], conv'[c])
  <2>1. CASE CreateMessageNode(e)
    BY <1>1, <2>1, SameSucceeds DEF CreateMessageNode, lineage
  <2>2. CASE CreateMessageRelationships(e)
    <3>1. conv'[c] = MergedBare(conv[c]) \/ conv'[c] = conv[c]
      BY <2>2 DEF CreateMessageRelationships, MergeBareConversation, TypeOK
    <3>2. BareNode \in Node
      BY DEF BareNode, Node
    <3>3. QED
      BY <1>1, <3>1, <3>2, SameSucceeds, FreshIsComplete DEF MergedBare, Succeeds
  <2>3. QED
    BY <1>5, <2>1, <2>2
<1>6. CASE UNCHANGED vars
  BY <1>1, <1>6, SameSucceeds DEF vars
<1>7. QED
  BY <1>2, <1>3, <1>4, <1>5, <1>6 DEF Next

-------------------------------------------------------------------------------
\* Every step of every node.

LEMMA CompleteNext == TypeOK /\ OwnedNodeComplete /\ [Next]_vars => OwnedNodeComplete'
<1> SUFFICES ASSUME TypeOK, OwnedNodeComplete, [Next]_vars, NEW c \in Conversation, conv'[c] # Absent
             PROVE  Complete(conv'[c])
  BY DEF OwnedNodeComplete, Present
<1>1. QED
  BY StepSucceeds, StoreAssumption DEF Succeeds, Follows, OwnedNodeComplete, Present

(* A conversation with an owner always has all the properties its response
   schema requires. *)
THEOREM OwnedNodesAreComplete == Spec => []OwnedNodeComplete
<1>1. Init => OwnedNodeComplete
  BY DEF Init, OwnedNodeComplete, Present
<1>2. QED
  BY <1>1, TypeCorrect, CompleteNext, PTL DEF Spec

(* updated_at never goes back while a node exists. *)
THEOREM TimeMovesForward == Spec => UpdatedNeverRegresses
<1>1. TypeOK /\ [Next]_vars =>
        [\A c \in Conversation : Survives(c) /\ conv[c].updated # Null =>
           /\ conv[c].updated' # Null
           /\ conv[c].updated' >= conv[c].updated]_vars
  BY StepSucceeds, StoreAssumption DEF Succeeds, Follows, Survives, Present
<1>2. QED
  BY <1>1, TypeCorrect, PTL DEF Spec, UpdatedNeverRegresses

(* A node keeps the owner and the creation time it was made with. *)
THEOREM OwnerIsFixed == Spec => OwnerAndOriginImmutable
<1>1. TypeOK /\ [Next]_vars =>
        [\A c \in Conversation : Survives(c) =>
           conv[c].user' = conv[c].user /\ conv[c].created' = conv[c].created]_vars
  BY StepSucceeds, StoreAssumption DEF Succeeds, Follows, Survives, Present
<1>2. QED
  BY <1>1, TypeCorrect, PTL DEF Spec, OwnerAndOriginImmutable

-------------------------------------------------------------------------------
\* Relationships.

LEMMA LineageCreated ==
  ASSUME TypeOK, LineageConsistent, NEW e \in CreatedEvents, ProcessConversationCreated(e)
  PROVE  LineageConsistent'
<1>1. PICK n \in FullNode, s \in FullNode : Creates(e, n, s)
  BY CreatedShape
<1>2. \A x \in Conversation : Present(conv, x) => Present(conv, x)'
  BY CreatedGrows DEF Grown, Present
<1>3. CASE e.parent = Null
  BY <1>1, <1>2, <1>3, ServiceAssumption DEF Creates, LineageConsistent, TypeOK
<1>4. CASE e.parent \in Conversation
  <2>1. Present(conv, e.conv)' /\ Present(conv, e.parent)'
    BY <1>4, CreatedGrows, ServiceAssumption DEF Present
  <2>2. /\ hasChild' = hasChild \cup {<<e.parent, e.conv>>}
        /\ createdFrom' = createdFrom \cup {<<e.conv, e.parent>>}
    BY <1>1, <1>4, <2>1, ServiceAssumption DEF Creates, MergeRelationship, Present
  <2>3. (\A p, c \in Conversation : <<p, c>> \in hasChild <=> <<c, p>> \in createdFrom)'
    BY <2>2 DEF LineageConsistent
  <2>4. QED
    BY <1>2, <2>1, <2>2, <2>3 DEF LineageConsistent, TypeOK
<1>5. QED
  BY <1>1, <1>3, <1>4 DEF Creates

(* A deletion takes nothing away but, when it is hard, its own conversation. *)
LEMMA DeletedLeaves ==
  ASSUME TypeOK, NEW e \in DeletedEvents, ProcessConversationDeleted(e)
  PROVE  \/ /\ UNCHANGED <<hasChild, createdFrom, belongsTo>>
            /\ \A x \in Conversation : Present(conv, x) => Present(conv, x)'
         \/ /\ hasChild' = Detach(hasChild, e.conv) /\ createdFrom' = Detach(createdFrom, e.conv)
            /\ belongsTo' = {r \in belongsTo : r[2] # e.conv}
            /\ \A x \in Conversation : x # e.conv /\ Present(conv, x) => Present(conv, x)'
<1>1. PICK now \in Now : SoftDelete(e.conv, Coalesce(e.at, now)) \/ HardDelete(e.conv)
  BY DEF ProcessConversationDeleted
<1>2. e.conv \in Conversation /\ Coalesce(e.at, now) \in Time
  BY ServiceAssumption, CoalesceType DEF DeletedEvent
<1>3. CASE SoftDelete(e.conv, Coalesce(e.at, now))
  <2>1. SoftDeleted(conv[e.conv], Coalesce(e.at, now)) = Absent => conv[e.conv] = Absent
    BY <1>2, StoreAssumption DEF SoftDeleted, TypeOK, Node
  <2>2. QED
    BY <1>2, <1>3, <2>1 DEF SoftDelete, SoftDeleteConversation, Present, TypeOK
<1>4. CASE HardDelete(e.conv)
  BY <1>2, <1>4 DEF HardDelete, DeleteConversation, Present, TypeOK
<1>5. QED
  BY <1>1, <1>3, <1>4

LEMMA LineageDeleted ==
  ASSUME TypeOK, LineageConsistent, NEW e \in DeletedEvents, ProcessConversationDeleted(e)
  PROVE  LineageConsistent'
<1>1. CASE /\ UNCHANGED <<hasChild, createdFrom, belongsTo>>
           /\ \A x \in Conversation : Present(conv, x) => Present(conv, x)'
  BY <1>1 DEF LineageConsistent, TypeOK
<1>2. CASE /\ hasChild' = Detach(hasChild, e.conv) /\ createdFrom' = Detach(createdFrom, e.conv)
           /\ \A x \in Conversation : x # e.conv /\ Present(conv, x) => Present(conv, x)'
  <2>1. (\A p, c \in Conversation : <<p, c>> \in hasChild <=> <<c, p>> \in createdFrom)'
    BY <1>2 DEF LineageConsistent, Detach
  <2>2. QED
    BY <1>2, <2>1 DEF LineageConsistent, TypeOK, Detach
<1>3. QED
  BY <1>1, <1>2, DeletedLeaves

LEMMA UpdatedLeaves ==
  ASSUME TypeOK, NEW e \in UpdatedEvents, ProcessConversationUpdated(e)
  PROVE  \A x \in Conversation : Present(conv, x) => Present(conv, x)'
<1>1. PICK now \in Now : conv' = UpdateConversation(conv, e.conv, e.title, e.status, Coalesce(e.at, now))
  BY DEF ProcessConversationUpdated
<1>2. /\ e.title \in Title \cup {Null}
      /\ e.status \in Status \cup {Null}
      /\ Coalesce(e.at, now) \in Time
  BY ServiceAssumption, CoalesceType DEF UpdatedEvent
<1> SUFFICES ASSUME NEW x \in Conversation, Present(conv, x) PROVE Present(conv, x)'
  OBVIOUS
<1>3. Updated(conv[x], e.title, e.status, Coalesce(e.at, now)) # Absent
  BY <1>2, UpdatedFollows, StoreAssumption DEF TypeOK, Present
<1>4. QED
  BY <1>1, <1>3 DEF UpdateConversation, Present, TypeOK

LEMMA LineageUpdated ==
  ASSUME TypeOK, LineageConsistent, NEW e \in UpdatedEvents, ProcessConversationUpdated(e)
  PROVE  LineageConsistent'
BY UpdatedLeaves DEF ProcessConversationUpdated, LineageConsistent, TypeOK

LEMMA BareGrows ==
  ASSUME TypeOK, NEW e \in MessageEvents, CreateMessageRelationships(e)
  PROVE  /\ e.conv \in Conversation
         /\ Present(conv, e.conv)'
         /\ \A x \in Conversation : Present(conv, x) => Present(conv, x)'
<1>1. e.conv \in Conversation
  BY ServiceAssumption DEF MessageEvent
<1>2. MergedBare(conv[e.conv]) # Absent
  BY <1>1, MergedBareType, StoreAssumption DEF TypeOK, MaybeNode
<1>3. QED
  BY <1>1, <1>2 DEF CreateMessageRelationships, MergeBareConversation, Present, TypeOK

LEMMA LineageNext == TypeOK /\ LineageConsistent /\ [Next]_vars => LineageConsistent'
<1> SUFFICES ASSUME TypeOK, LineageConsistent, [Next]_vars PROVE LineageConsistent'
  OBVIOUS
<1>1. ASSUME NEW e \in MessageEvents, CreateMessageNode(e)
      PROVE  LineageConsistent'
  BY <1>1 DEF CreateMessageNode, lineage, LineageConsistent, Present
<1>2. ASSUME NEW e \in MessageEvents, CreateMessageRelationships(e)
      PROVE  LineageConsistent'
  BY <1>2, BareGrows DEF CreateMessageRelationships, LineageConsistent, TypeOK
<1>3. CASE UNCHANGED vars
  BY <1>3 DEF vars, LineageConsistent, Present
<1>4. QED
  BY <1>1, <1>2, <1>3, LineageCreated, LineageDeleted, LineageUpdated DEF Next

(* The two relationship types describe one lineage between existing
   conversations, in either deletion mode. *)
THEOREM LineageIsConsistent == Spec => []LineageConsistent
<1>1. Init => LineageConsistent
  BY DEF Init, LineageConsistent
<1>2. QED
  BY <1>1, TypeCorrect, LineageNext, PTL DEF Spec

-------------------------------------------------------------------------------
\* Messages stay with the sender and the conversation their node names.

\* The node of a message says what the message's event says.
NodesAreTheirEvents ==
  \A e \in MessageEvents :
    message[e.msg] # Absent => message[e.msg] = [conv |-> e.conv, user |-> e.user]

LEMMA EventsOfNodesNext ==
  ASSUME TypeOK, NodesAreTheirEvents, [Next]_vars
  PROVE  NodesAreTheirEvents'
<1>1. ASSUME NEW e \in MessageEvents, CreateMessageNode(e)
      PROVE  NodesAreTheirEvents'
  <2> SUFFICES ASSUME NEW f \in MessageEvents, message'[f.msg] # Absent
               PROVE  message'[f.msg] = [conv |-> f.conv, user |-> f.user]
    BY DEF NodesAreTheirEvents
  <2>1. e.msg \in Message /\ f.msg \in Message /\ (e.msg = f.msg => e = f)
    BY ServiceAssumption DEF MessageEvent
  <2>2. QED
    BY <1>1, <2>1 DEF CreateMessageNode, NodesAreTheirEvents, TypeOK
<1>2. CASE UNCHANGED message
  BY <1>2 DEF NodesAreTheirEvents
<1>3. QED
  BY <1>1, <1>2 DEF Next, vars, chat, ProcessConversationCreated, ProcessConversationDeleted,
                    ProcessConversationUpdated, CreateMessageRelationships

\* MessagesConsistent needs of a step that no conversation goes but with its
\* relationships, and that what is wired agrees with the node.
LEMMA MessagesKept ==
  ASSUME MessagesConsistent, TypeOK, UNCHANGED <<message, users, sent>>, belongsTo' \subseteq belongsTo,
         \A r \in belongsTo' : Present(conv, r[2]) => Present(conv, r[2])'
  PROVE  MessagesConsistent'
BY DEF MessagesConsistent

LEMMA MessagesNext ==
  ASSUME TypeOK, NodesAreTheirEvents, MessagesConsistent, [Next]_vars
  PROVE  MessagesConsistent'
<1>1. \A r \in belongsTo : r[2] \in Conversation
  BY DEF TypeOK
<1>2. ASSUME NEW e \in CreatedEvents, ProcessConversationCreated(e)
      PROVE  MessagesConsistent'
  <2>1. \A x \in Conversation : Present(conv, x) => Present(conv, x)'
    BY <1>2, CreatedGrows DEF Grown, Present
  <2>2. QED
    BY <1>1, <1>2, <2>1, MessagesKept DEF ProcessConversationCreated, chat
<1>3. ASSUME NEW e \in DeletedEvents, ProcessConversationDeleted(e)
      PROVE  MessagesConsistent'
  <2>1. UNCHANGED <<message, users, sent>>
    BY <1>3 DEF ProcessConversationDeleted
  <2>2. belongsTo' \subseteq belongsTo /\ \A r \in belongsTo' : Present(conv, r[2]) => Present(conv, r[2])'
    BY <1>1, <1>3, DeletedLeaves
  <2>3. QED
    BY <2>1, <2>2, MessagesKept
<1>4. ASSUME NEW e \in UpdatedEvents, ProcessConversationUpdated(e)
      PROVE  MessagesConsistent'
  BY <1>1, <1>4, UpdatedLeaves, MessagesKept DEF ProcessConversationUpdated, chat
<1>5. ASSUME NEW e \in MessageEvents, CreateMessageNode(e)
      PROVE  MessagesConsistent'
  <2>1. e.msg \in Message /\ UNCHANGED <<conv, users, sent, belongsTo>>
    BY <1>5, ServiceAssumption DEF CreateMessageNode, lineage, MessageEvent
  <2>2. \A m \in Message : message[m] # Absent => message'[m] = message[m]
    BY <1>5, <2>1 DEF CreateMessageNode, TypeOK
  <2>3. \A r \in sent : r[2] \in Message
    BY DEF TypeOK
  <2>4. \A r \in belongsTo : r[1] \in Message
    BY DEF TypeOK
  <2>5. QED
    BY <2>1, <2>2, <2>3, <2>4 DEF MessagesConsistent, Present
<1>6. ASSUME NEW e \in MessageEvents, CreateMessageRelationships(e)
      PROVE  MessagesConsistent'
  <2>1. message[e.msg] = [conv |-> e.conv, user |-> e.user] /\ message[e.msg] # Absent
    BY <1>6 DEF CreateMessageRelationships, NodesAreTheirEvents
  <2>2. /\ users' = users \cup {e.user} /\ sent' = sent \cup {<<e.user, e.msg>>}
        /\ belongsTo' = belongsTo \cup {<<e.msg, e.conv>>} /\ message' = message
    BY <1>6 DEF CreateMessageRelationships
  <2>3. Present(conv, e.conv)' /\ \A x \in Conversation : Present(conv, x) => Present(conv, x)'
    BY <1>6, BareGrows
  <2>4. QED
    BY <1>1, <2>1, <2>2, <2>3 DEF MessagesConsistent
<1>7. CASE UNCHANGED vars
  BY <1>7 DEF vars, MessagesConsistent, Present
<1>8. QED
  BY <1>2, <1>3, <1>4, <1>5, <1>6, <1>7 DEF Next

(* In either deletion mode a message hangs from the sender and the conversation
   its node names, and from none that is gone. *)
THEOREM MessagesStayWithTheirOwn == Spec => []MessagesConsistent
<1>1. Init => NodesAreTheirEvents /\ MessagesConsistent
  BY ServiceAssumption DEF Init, NodesAreTheirEvents, MessagesConsistent, MessageEvent
<1>2. QED
  BY <1>1, TypeCorrect, EventsOfNodesNext, MessagesNext, PTL DEF Spec

-------------------------------------------------------------------------------
\* Nothing handled is lost under soft delete.

LEMMA EventsDiffer ==
  /\ CreatedEvent \cap DeletedEvent = {}
  /\ CreatedEvent \cap UpdatedEvent = {}
  /\ CreatedEvent \cap MessageEvent = {}
  /\ MessageEvent \cap DeletedEvent = {}
  /\ MessageEvent \cap UpdatedEvent = {}
BY DEF CreatedEvent, DeletedEvent, UpdatedEvent, MessageEvent

LEMMA WiredNext ==
  ASSUME SoftDeleteEnabled, TypeOK, HandledIsWired, [Next]_vars
  PROVE  HandledIsWired'
<1>1. /\ CreatedEvents \subseteq CreatedEvent
      /\ DeletedEvents \subseteq DeletedEvent
      /\ UpdatedEvents \subseteq UpdatedEvent
      /\ MessageEvents \subseteq MessageEvent
  BY ServiceAssumption
<1>2. ASSUME NEW e \in CreatedEvents, ProcessConversationCreated(e)
      PROVE  HandledIsWired'
  <2>1. handled' = handled \cup {e} /\ UNCHANGED chat /\ e \notin MessageEvents
    BY <1>1, <1>2, EventsDiffer DEF ProcessConversationCreated
  <2>2. hasChild \subseteq hasChild' /\ (e.parent # Null => <<e.parent, e.conv>> \in hasChild')
    <3>1. PICK n \in FullNode, s \in FullNode : Creates(e, n, s)
      BY <1>2, CreatedShape
    <3>2. CASE e.parent = Null
      BY <3>1, <3>2, ServiceAssumption DEF Creates
    <3>3. CASE e.parent \in Conversation
      BY <1>2, <3>1, <3>3, CreatedGrows, ServiceAssumption DEF Creates, MergeRelationship, Present
    <3>4. QED
      BY <3>1, <3>2, <3>3 DEF Creates
  <2>3. QED
    BY <2>1, <2>2 DEF HandledIsWired, chat
<1>3. ASSUME NEW e \in DeletedEvents, ProcessConversationDeleted(e)
      PROVE  HandledIsWired'
  <2>1. /\ handled' = handled \cup {e}
        /\ UNCHANGED <<hasChild, sent, belongsTo>>
        /\ e \notin CreatedEvents /\ e \notin MessageEvents
    BY <1>1, <1>3, EventsDiffer DEF ProcessConversationDeleted, SoftDelete
  <2>2. QED
    BY <2>1 DEF HandledIsWired
<1>4. ASSUME NEW e \in UpdatedEvents, ProcessConversationUpdated(e)
      PROVE  HandledIsWired'
  <2>1. /\ handled' = handled \cup {e}
        /\ UNCHANGED <<hasChild, sent, belongsTo>>
        /\ e \notin CreatedEvents /\ e \notin MessageEvents
    BY <1>1, <1>4, EventsDiffer DEF ProcessConversationUpdated, chat
  <2>2. QED
    BY <2>1 DEF HandledIsWired
<1>5. ASSUME NEW e \in MessageEvents, CreateMessageNode(e)
      PROVE  HandledIsWired'
  BY <1>5 DEF CreateMessageNode, lineage, HandledIsWired
<1>6. ASSUME NEW e \in MessageEvents, CreateMessageRelationships(e)
      PROVE  HandledIsWired'
  <2>1. e \notin CreatedEvents
    BY <1>1, EventsDiffer
  <2>2. QED
    BY <1>6, <2>1 DEF CreateMessageRelationships, HandledIsWired
<1>7. CASE UNCHANGED vars
  BY <1>7 DEF vars, HandledIsWired
<1>8. QED
  BY <1>2, <1>3, <1>4, <1>5, <1>6, <1>7 DEF Next

(* With soft deletion, every branch and every message handled once stays
   attached for good. *)
THEOREM NothingHandledIsLost == SoftDeleteEnabled /\ Spec => []HandledIsWired
<1>1. Init => HandledIsWired
  BY DEF Init, HandledIsWired
<1>2. SoftDeleteEnabled /\ TypeOK /\ HandledIsWired /\ [Next]_vars => HandledIsWired'
  BY WiredNext
<1>3. CASE SoftDeleteEnabled
  BY <1>1, <1>2, <1>3, TypeCorrect, PTL DEF Spec
<1>4. CASE ~SoftDeleteEnabled
  BY <1>4
<1>5. QED
  BY <1>3, <1>4

-------------------------------------------------------------------------------
\* What a step leaves alone.

\* A branch's stub is older than any real write.
LEMMA StubYields ==
  ASSUME NEW n \in Node, n.updated \notin {Null, Epoch}, NEW u
  PROVE  Merged(n, Stub(u)) = n
BY StoreAssumption DEF Merged, NotOlder, Stub, Epoch, Time, Node

(* The stub that a branch merges for its parent does nothing to a parent that
   has a write of its own. *)
THEOREM BranchesSpareTheirParents == Spec => ChildLeavesKnownParentAlone
<1>1. ASSUME TypeOK, NEW e \in CreatedEvents, ProcessConversationCreated(e),
             e.parent \notin {Null, e.conv}, Present(conv, e.parent),
             conv[e.parent].updated \notin {Null, Epoch}
      PROVE  conv'[e.parent] = conv[e.parent]
  <2>1. PICK now \in Now : CreateConversationWithParent(e.conv, NewConversation(e, now), e.parent)
    BY <1>1 DEF ProcessConversationCreated
  <2> DEFINE n     == NewConversation(e, now)
             child == MergeConversation(conv, e.conv, n)
  <2>2. e.parent \in Conversation
    BY <1>1, ServiceAssumption DEF CreatedEvent
  <2>3. conv[e.parent] \in Node /\ child[e.parent] = conv[e.parent]
    BY <1>1, <2>2 DEF TypeOK, Present, MergeConversation
  <2>4. conv' = MergeConversation(child, e.parent, Stub(n.user))
    BY <1>1, <2>1 DEF CreateConversationWithParent
  <2>5. conv'[e.parent] = Merged(child[e.parent], Stub(n.user))
    BY <1>1, <2>2, <2>4 DEF MergeConversation, TypeOK
  <2>6. QED
    BY <1>1, <2>3, <2>5, StubYields
<1>2. TypeOK /\ [Next]_vars =>
        [\A e \in CreatedEvents :
           /\ ProcessConversationCreated(e)
           /\ e.parent \notin {Null, e.conv}
           /\ Present(conv, e.parent)
           /\ conv[e.parent].updated \notin {Null, Epoch}
           => conv'[e.parent] = conv[e.parent]]_vars
  BY <1>1
<1>3. QED
  BY <1>2, TypeCorrect, PTL DEF Spec, ChildLeavesKnownParentAlone

\* The only write of its time, when it comes again: the node is older than it
\* never, and holds what it says where the times are equal.
WeighedAlone(off, w) == w \in off /\ \A x \in off : x.at = w.at => x = w

LEMMA UpdatedAgain ==
  ASSUME NEW n \in MaybeNode, NEW off \in SUBSET Write, Reflects(n, off),
         NEW t \in Title \cup {Null}, NEW s \in Status \cup {Null}, NEW at \in Time,
         WeighedAlone(off, [title |-> t, status |-> s, at |-> at])
  PROVE  n \in Node /\ Updated(n, t, s, at) = n
<1> DEFINE w == [title |-> t, status |-> s, at |-> at]
<1>1. /\ n \in Node /\ n # Absent
      /\ n.updated \in Time
      /\ w.at <= n.updated
  BY StoreAssumption DEF Reflects, WeighedAlone, MaybeNode, Node
<1>2. CASE at < n.updated
  BY <1>1, <1>2, StoreAssumption DEF Updated, NotOlder, Time
<1>3. CASE at = n.updated
  <2>1. w \in Newest(n, off) /\ \A x \in Newest(n, off) : x = w
    BY <1>3 DEF Newest, WeighedAlone
  <2>2. (t # Null => n.title = t) /\ (s # Null => n.status = s)
    BY <1>1, <2>1 DEF Reflects
  <2>3. Coalesce(t, n.title) = n.title /\ Coalesce(s, n.status) = n.status
    BY <2>2 DEF Coalesce
  <2>4. QED
    BY <1>1, <1>3, <2>3 DEF Updated, Node
<1>4. QED
  BY <1>1, <1>2, <1>3 DEF Time

LEMMA MergedAgain ==
  ASSUME NEW n \in MaybeNode, NEW off \in SUBSET Write, Reflects(n, off), NEW w \in FullNode,
         WeighedAlone(off, Offer(w))
  PROVE  n \in Node /\ Merged(n, w) = n
<1>1. w.title \in Title /\ w.status \in Status /\ w.updated \in Time
  BY DEF FullNode
<1>2. n \in Node /\ Updated(n, w.title, w.status, w.updated) = n
  BY <1>1, UpdatedAgain DEF Offer
<1>3. Merged(n, w) = Updated(n, w.title, w.status, w.updated)
  BY <1>1, <1>2, StoreAssumption DEF Merged, Updated, Coalesce
<1>4. QED
  BY <1>2, <1>3

LEMMA CreatedAgain ==
  ASSUME TypeOK, LatestWriteWins, LineageConsistent, HandledIsWired,
         NEW e \in CreatedEvents \cap handled, ProcessConversationCreated(e), e.at # Null,
         Settled(e.conv, Offer(NewConversation(e, e.at))),
         e.parent # Null => Settled(e.parent, Offer(Stub(UnknownUser)))
  PROVE  UNCHANGED lineage
<1>1. PICK now \in Now : CreateConversationWithParent(e.conv, NewConversation(e, now), e.parent)
  BY DEF ProcessConversationCreated
<1> DEFINE n     == NewConversation(e, now)
           child == MergeConversation(conv, e.conv, n)
<1>2. e.conv \in Conversation /\ e.parent \in Conversation \cup {Null}
  BY ServiceAssumption DEF CreatedEvent
<1>3. n \in FullNode /\ n = NewConversation(e, e.at)
  BY NewConversationType DEF NewConversation, Coalesce
<1>4. child = conv
  <2>1. conv[e.conv] \in MaybeNode /\ offered[e.conv] \in SUBSET Write
    BY <1>2 DEF TypeOK, MaybeNode
  <2>2. Merged(conv[e.conv], n) = conv[e.conv]
    BY <1>2, <1>3, <2>1, MergedAgain DEF LatestWriteWins, Settled, WeighedAlone
  <2>3. QED
    BY <1>2, <2>2 DEF MergeConversation, TypeOK
<1>5. CASE e.parent = Null
  BY <1>1, <1>4, <1>5, <1>2, ServiceAssumption DEF CreateConversationWithParent, lineage
<1>6. CASE e.parent \in Conversation
  <2>1. e.parent # Null
    BY <1>6, ServiceAssumption
  <2>2. conv[e.parent] \in MaybeNode /\ offered[e.parent] \in SUBSET Write
    BY <1>6 DEF TypeOK, MaybeNode
  <2>3. Stub(n.user) \in FullNode /\ Offer(Stub(n.user)) = Offer(Stub(UnknownUser))
    BY <1>3, StubType DEF FullNode, Offer, Stub
  <2>4. Merged(conv[e.parent], Stub(n.user)) = conv[e.parent]
    BY <1>6, <2>1, <2>2, <2>3, MergedAgain DEF LatestWriteWins, Settled, WeighedAlone
  <2>5. MergeConversation(conv, e.parent, Stub(n.user)) = conv
    BY <1>6, <2>4 DEF MergeConversation, TypeOK
  <2>6. <<e.parent, e.conv>> \in hasChild /\ <<e.conv, e.parent>> \in createdFrom
    BY <1>2, <1>6, <2>1 DEF HandledIsWired, LineageConsistent
  <2>7. QED
    BY <1>1, <1>4, <2>1, <2>5, <2>6 DEF CreateConversationWithParent, MergeRelationship, lineage
<1>7. QED
  BY <1>2, <1>5, <1>6

LEMMA UpdatedEventAgain ==
  ASSUME TypeOK, LatestWriteWins, NEW e \in UpdatedEvents, ProcessConversationUpdated(e),
         e.at # Null, Settled(e.conv, [title |-> e.title, status |-> e.status, at |-> e.at])
  PROVE  UNCHANGED lineage
<1>1. PICK now \in Now :
        /\ conv' = UpdateConversation(conv, e.conv, e.title, e.status, Coalesce(e.at, now))
        /\ UNCHANGED <<hasChild, createdFrom>>
  BY DEF ProcessConversationUpdated
<1>2. /\ e.conv \in Conversation /\ e.at \in Time
      /\ e.title \in Title \cup {Null} /\ e.status \in Status \cup {Null}
  BY ServiceAssumption DEF UpdatedEvent
<1>3. conv[e.conv] \in MaybeNode /\ offered[e.conv] \in SUBSET Write
  BY <1>2 DEF TypeOK, MaybeNode
<1>4. Updated(conv[e.conv], e.title, e.status, e.at) = conv[e.conv]
  BY <1>2, <1>3, UpdatedAgain DEF LatestWriteWins, Settled, WeighedAlone
<1>5. QED
  BY <1>1, <1>2, <1>4 DEF UpdateConversation, Coalesce, TypeOK, lineage

LEMMA DeletedAgain ==
  ASSUME SoftDeleteEnabled, TypeOK, LatestWriteWins,
         NEW e \in DeletedEvents, ProcessConversationDeleted(e), e.at # Null,
         Settled(e.conv, [title |-> Null, status |-> "DELETED", at |-> e.at])
  PROVE  UNCHANGED lineage
<1>1. /\ conv' = SoftDeleteConversation(conv, e.conv, e.at)
      /\ UNCHANGED <<hasChild, createdFrom>>
  BY DEF ProcessConversationDeleted, SoftDelete, Coalesce
<1>2. e.conv \in Conversation /\ e.at \in Time /\ "DELETED" \in Status
  BY ServiceAssumption, StoreAssumption DEF DeletedEvent
<1>3. conv[e.conv] \in MaybeNode /\ offered[e.conv] \in SUBSET Write
  BY <1>2 DEF TypeOK, MaybeNode
<1>4. /\ conv[e.conv] \in Node
      /\ Updated(conv[e.conv], Null, "DELETED", e.at) = conv[e.conv]
  BY <1>2, <1>3, UpdatedAgain DEF LatestWriteWins, Settled, WeighedAlone
<1>5. SoftDeleted(conv[e.conv], e.at) = conv[e.conv]
  BY <1>2, <1>4, StoreAssumption DEF SoftDeleted, Updated, Coalesce, Node
<1>6. QED
  BY <1>1, <1>2, <1>5 DEF SoftDeleteConversation, TypeOK, lineage

(* Under soft deletion a stamped event that was handled, and whose write shares
   its time with no other, changes nothing when it is handled again: neither
   the nodes nor the relationships, whatever came in between. *)
THEOREM ReplaysChangeNothing == SoftDeleteEnabled /\ Spec => ReplayIsNoOp
<1> DEFINE Again ==
      /\ \A e \in CreatedEvents \cap handled :
           /\ ProcessConversationCreated(e)
           /\ e.at # Null
           /\ Settled(e.conv, Offer(NewConversation(e, e.at)))
           /\ e.parent # Null => Settled(e.parent, Offer(Stub(UnknownUser)))
           => UNCHANGED lineage
      /\ \A e \in UpdatedEvents \cap handled :
           /\ ProcessConversationUpdated(e)
           /\ e.at # Null
           /\ Settled(e.conv, [title |-> e.title, status |-> e.status, at |-> e.at])
           => UNCHANGED lineage
      /\ \A e \in DeletedEvents \cap handled :
           /\ ProcessConversationDeleted(e)
           /\ e.at # Null
           /\ Settled(e.conv, [title |-> Null, status |-> "DELETED", at |-> e.at])
           => UNCHANGED lineage
<1>1. /\ SoftDeleteEnabled
      /\ TypeOK /\ LatestWriteWins /\ LineageConsistent /\ HandledIsWired
      => Again
  BY CreatedAgain, UpdatedEventAgain, DeletedAgain
<1>2. /\ SoftDeleteEnabled
      /\ TypeOK /\ LatestWriteWins /\ LineageConsistent /\ HandledIsWired
      /\ [Next]_vars
      => [Again]_vars
  BY <1>1
<1>3. CASE SoftDeleteEnabled
  BY <1>2, <1>3, TypeCorrect, NewestWriteIsKept, LineageIsConsistent, NothingHandledIsLost, PTL
     DEF Spec, ReplayIsNoOp
<1>4. CASE ~SoftDeleteEnabled
  BY <1>4
<1>5. QED
  BY <1>3, <1>4
===============================================================================
