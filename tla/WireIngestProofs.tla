---------------------------- MODULE WireIngestProofs ----------------------------
(***************************************************************************)
(* The two wire formats and the spellings of timestamps, for any objects   *)
(* on the topics, any number of seconds and fractions of one length: what  *)
(* is fed to the handlers are events of GraphService, so its theorems hold *)
(* here, and they say what comparing strings may cost.                     *)
(***************************************************************************)
EXTENDS WireIngest, GraphServiceProofs

LEMMA DeliveryIsAStep ==
  ASSUME NEW w \in Wire, Deliver(w)
  PROVE  [Next]_vars
<1>1. CASE Rejected(w)
  BY <1>1 DEF Deliver
<1>2. CASE ~Rejected(w)
  <2>1. /\ w.topic = "created" => CreatedOf(w) \in CreatedEvents
        /\ w.topic = "deleted" => DeletedOf(w) \in DeletedEvents
        /\ w.topic = "updated" => UpdatedOf(w) \in UpdatedEvents
        /\ w.topic = "message" => MessageOf(w) \in MessageEvents
    BY <1>2, WireAssumption DEF On
  <2>2. QED
    BY <1>2, <2>1 DEF Deliver, Next
<1>3. QED
  BY <1>1, <1>2

(* Whatever producers write, the graph behaves as GraphService says: a handler
   rejects an object, or handles an event of the specification. *)
THEOREM WireHandlesEvents == WireSpec => Spec
<1>1. [WireNext]_vars => [Next]_vars
  BY DeliveryIsAStep DEF WireNext
<1>2. QED
  BY <1>1, PTL DEF WireSpec, Spec

-------------------------------------------------------------------------------
\* The two formats.

LEMMA BodyOfObject ==
  ASSUME NEW w \in Object
  PROVE  /\ w.topic = "created" => w.body \in CreatedBody
         /\ w.topic = "deleted" => w.body \in DeletedBody
         /\ w.topic = "updated" => w.body \in UpdatedBody
         /\ w.topic \in {"created", "deleted", "updated", "message"}
         /\ {"nested", "topic", "body"} \subseteq DOMAIN w
BY DEF Object

LEMMA TwinTellsTheSame ==
  ASSUME NEW w \in Wire, w.topic # "message", ~w.nested, w.body.id # Null, Deliver(w)
  PROVE  Deliver(Canonical(w))
<1> DEFINE v == Canonical(w)
<1>1. w \in Object
  BY WireAssumption
<1>2. ~Rejected(w)
  BY DEF Rejected
<1>3. CASE w.topic = "created"
  <2>1. w.body \in CreatedBody /\ {"nested", "topic", "body"} \subseteq DOMAIN w
    BY <1>1, <1>3, BodyOfObject
  <2>2. /\ v.topic = "created" /\ v.nested
        /\ v.body = [w.body EXCEPT !.status = Or(w.body.conversation_status, w.body.status)]
    BY <1>3, <2>1 DEF Canonical
  <2>3. /\ v.body.id = w.body.id /\ v.body.user = w.body.user /\ v.body.title = w.body.title
        /\ v.body.parent = w.body.parent /\ v.body.at = w.body.at
        /\ v.body.status = Or(w.body.conversation_status, w.body.status)
    BY <2>1, <2>2 DEF CreatedBody
  <2>4. ~Rejected(v) /\ ConversationId(v) = ConversationId(w)
    BY <1>3, <2>2, <2>3 DEF Rejected, ConversationId, Or
  <2>5. CreatedStatus(v) = CreatedStatus(w)
    BY <2>2, <2>3 DEF CreatedStatus, Or
  <2>6. CreatedOf(v) = CreatedOf(w)
    BY <2>3, <2>4, <2>5 DEF CreatedOf
  <2>7. QED
    BY <1>2, <1>3, <2>2, <2>4, <2>6 DEF Deliver
<1>4. CASE w.topic = "deleted"
  <2>1. v.topic = "deleted" /\ v.nested /\ v.body = w.body
    BY <1>1, <1>4, BodyOfObject DEF Canonical
  <2>2. ~Rejected(v) /\ DeletedOf(v) = DeletedOf(w)
    BY <1>4, <2>1 DEF Rejected, DeletedOf, ConversationId, Or
  <2>3. QED
    BY <1>2, <1>4, <2>1, <2>2 DEF Deliver
<1>5. CASE w.topic = "updated"
  <2>1. v.topic = "updated" /\ v.nested /\ v.body = w.body /\ v.occurred_at = w.occurred_at
    BY <1>1, <1>5, BodyOfObject DEF Canonical
  <2>2. ~Rejected(v) /\ UpdatedOf(v) = UpdatedOf(w)
    BY <1>5, <2>1 DEF Rejected, UpdatedOf, ConversationId, Or
  <2>3. QED
    BY <1>2, <1>5, <2>1, <2>2 DEF Deliver
<1>6. QED
  BY <1>1, <1>3, <1>4, <1>5, BodyOfObject

(* For any objects on the topics, a flat conversation event with an id does to
   the graph what its nested twin would do. *)
THEOREM MigrationIsSilent == WireSpec => FormatsAgree
<1>1. \A w \in Wire :
        w.topic # "message" /\ ~w.nested /\ w.body.id # Null /\ Deliver(w) => Deliver(Canonical(w))
  BY TwinTellsTheSame
<1>2. QED
  BY <1>1, PTL DEF FormatsAgree

-------------------------------------------------------------------------------
\* Stamps and their ranks.

LEMMA TailsAreMany == Tails \in Nat /\ Tails > 0
BY TimestampAssumption DEF Tails

LEMMA TailInSecond ==
  ASSUME NEW s \in Stamp
  PROVE  Tail(s) \in 0 .. Tails - 1
<1>1. s.frac \in 0 .. LastFraction /\ (s.zone = Python \/ s.zone = Zulu)
  BY DEF Stamp
<1>2. QED
  BY <1>1, TimestampAssumption DEF Tail, Tails, Python, Zulu

LEMMA Multiples ==
  ASSUME NEW a \in Nat, NEW b \in Nat, NEW t \in Nat, a < b
  PROVE  a * t + t <= b * t
<1>1. PICK d \in Nat : b = a + 1 + d
  <2>1. b - a - 1 \in Nat /\ b = a + 1 + (b - a - 1)
    OBVIOUS
  <2>2. QED
    BY <2>1
<1>2. b * t = a * t + t + d * t
  BY <1>1
<1>3. d * t \in Nat
  OBVIOUS
<1>4. QED
  BY <1>2, <1>3

LEMMA QuotientGrows ==
  ASSUME NEW a \in Nat, NEW b \in Nat, NEW t \in Nat, t > 0, a <= b
  PROVE  a \div t <= b \div t
<1> DEFINE p == a \div t
           q == b \div t
<1>1. p \in Nat /\ q \in Nat
  OBVIOUS
<1>2. p * t <= a /\ b < q * t + t
  OBVIOUS
<1>3. SUFFICES ASSUME q < p PROVE FALSE
  BY <1>1
<1>4. q * t + t <= p * t
  BY <1>1, <1>3, Multiples
<1>5. q * t \in Nat /\ p * t \in Nat
  BY <1>1
<1>6. QED
  BY <1>2, <1>4, <1>5

LEMMA SecondsGrow ==
  ASSUME NEW a \in Time, NEW b \in Time, a <= b
  PROVE  SecondOf(a) <= SecondOf(b)
<1>1. CASE a = 0
  <2>1. b = 0 \/ (b - 1 \in Nat /\ (b - 1) \div Tails \in Nat)
    BY TailsAreMany DEF Time
  <2>2. QED
    BY <1>1, <2>1 DEF SecondOf
<1>2. CASE a # 0
  <2>1. a - 1 \in Nat /\ b - 1 \in Nat /\ a - 1 <= b - 1 /\ b # 0
    BY <1>2 DEF Time
  <2>2. (a - 1) \div Tails <= (b - 1) \div Tails
    BY <2>1, TailsAreMany, QuotientGrows
  <2>3. (a - 1) \div Tails \in Nat /\ (b - 1) \div Tails \in Nat
    BY <2>1, TailsAreMany
  <2>4. QED
    BY <1>2, <2>1, <2>2, <2>3 DEF SecondOf
<1>3. QED
  BY <1>1, <1>2

\* What the guards leave on a node is no older a string than any write weighed.
LEMMA NodesAreNewest ==
  ASSUME TypeOK, LatestWriteWins, NEW c \in Conversation, NEW w \in offered[c]
  PROVE  /\ w.at \in Time /\ conv[c].updated \in Time /\ w.at <= conv[c].updated
         /\ \E x \in offered[c] : x.at = conv[c].updated
<1>1. w \in Write /\ Reflects(conv[c], offered[c]) /\ conv[c] \in MaybeNode
  BY DEF TypeOK, LatestWriteWins, MaybeNode
<1>2. conv[c] \in Node /\ conv[c].updated # Null
  BY <1>1 DEF Reflects, MaybeNode
<1>3. QED
  BY <1>1, <1>2 DEF Reflects, Newest, Write, Node

(* Comparing the strings of timestamps never leaves a node a whole second
   behind a write it was offered, however producers spell them. *)
THEOREM SpellingsCostLittle == WireSpec => []NeverASecondBehind
<1>1. TypeOK /\ LatestWriteWins => NeverASecondBehind
  BY NodesAreNewest, SecondsGrow DEF NeverASecondBehind
<1>2. QED
  BY <1>1, WireHandlesEvents, TypeCorrect, NewestWriteIsKept, PTL

-------------------------------------------------------------------------------
\* The service's own spelling.

\* Of two stamps as isoformat() writes them, the later string is the later moment.
LEMMA OwnSpellingIsExact ==
  ASSUME NEW r \in Stamp, NEW s \in Stamp, r.zone = Python, s.zone = Python,
         Rank(r) <= Rank(s)
  PROVE  Instant(r) <= Instant(s)
<1> DEFINE F == LastFraction + 1
<1>1. /\ r.sec \in Nat \ {0} /\ s.sec \in Nat \ {0}
      /\ r.frac \in 0 .. LastFraction /\ s.frac \in 0 .. LastFraction
      /\ F \in Nat /\ Tails \in Nat
  BY TimestampAssumption, TailsAreMany DEF Stamp
<1>2. Tail(r) \in 0 .. Tails - 1 /\ Tail(s) \in 0 .. Tails - 1
  BY TailInSecond
<1>3. /\ (r.sec - 1) * Tails \in Nat /\ (s.sec - 1) * Tails \in Nat
      /\ r.sec * F \in Nat /\ s.sec * F \in Nat
  BY <1>1
<1>4. (r.sec - 1) * Tails + Tail(r) <= (s.sec - 1) * Tails + Tail(s)
  BY <1>2, <1>3 DEF Rank
<1>5. ~(s.sec < r.sec)
  <2>1. SUFFICES ASSUME s.sec < r.sec PROVE FALSE
    OBVIOUS
  <2>2. (s.sec - 1) * Tails + Tails <= (r.sec - 1) * Tails
    BY <1>1, <2>1, Multiples
  <2>3. QED
    BY <1>1, <1>2, <1>3, <1>4, <2>2
<1>6. CASE r.sec < s.sec
  <2>1. r.sec * F + F <= s.sec * F
    BY <1>1, <1>6, Multiples
  <2>2. r.sec * F + r.frac <= s.sec * F + s.frac
    <3>1. r.frac <= F /\ r.frac \in Nat /\ s.frac \in Nat
      BY <1>1, TimestampAssumption
    <3> DEFINE x == r.sec * F
               y == s.sec * F
    <3>2. x \in Nat /\ y \in Nat /\ x + F <= y
      BY <1>3, <2>1
    <3> HIDE DEF x, y
    <3>3. x + r.frac <= y + s.frac
      <4> HIDE DEF F
      <4>1. QED
        BY <1>1, <3>1, <3>2
    <3>4. QED
      BY <3>3 DEF x, y
  <2>3. QED
    BY <2>2 DEF Instant
<1>7. CASE r.sec = s.sec
  <2>1. Tail(r) <= Tail(s)
    BY <1>2, <1>3, <1>4, <1>7
  <2>2. /\ Tail(r) = IF r.frac = 0 THEN 0 ELSE 2 * r.frac - 1
        /\ Tail(s) = IF s.frac = 0 THEN 0 ELSE 2 * s.frac - 1
    BY <1>1 DEF Tail, Python, Zulu
  <2>3. r.frac <= s.frac
    BY <1>1, <2>1, <2>2
  <2>4. QED
    BY <1>1, <1>3, <1>7, <2>3 DEF Instant
<1>8. QED
  BY <1>1, <1>5, <1>6, <1>7

Stamped == \A c \in Conversation : \A w \in offered[c] :
  w.at = Epoch \/ \E s \in Stamp : w.at = Rank(s)

\* Every time a statement is given is a stamp: a producer's or the clock's.
LEMMA EventsAreStamped ==
  ASSUME NEW now \in Now
  PROVE  /\ \E s \in Stamp : now = Rank(s)
         /\ \A e \in CreatedEvents \cup DeletedEvents \cup UpdatedEvents :
              \E s \in Stamp : Coalesce(e.at, now) = Rank(s)
<1>1. \E s \in Stamp : now = Rank(s)
  BY WireAssumption DEF Clock
<1>2. ASSUME NEW x \in Optional(Stamp)
      PROVE  \E s \in Stamp : Coalesce(At(x), now) = Rank(s)
  <2>1. CASE x = Null
    BY <1>1, <2>1 DEF At, Coalesce
  <2>2. CASE x # Null /\ Rank(x) = Null
    BY <1>1, <2>2 DEF At, Coalesce
  <2>3. CASE x # Null /\ Rank(x) # Null
    BY <2>3 DEF At, Coalesce, Optional
  <2>4. QED
    BY <2>1, <2>2, <2>3
<1>3. ASSUME NEW e \in CreatedEvents
      PROVE  \E s \in Stamp : Coalesce(e.at, now) = Rank(s)
  <2>1. PICK w \in On("created") : e = CreatedOf(w)
    BY <1>3, WireAssumption
  <2>2. w \in Object /\ w.topic = "created"
    BY WireAssumption DEF On
  <2>3. w.body.at \in Optional(Stamp)
    BY <2>2, BodyOfObject DEF CreatedBody
  <2>4. QED
    BY <1>2, <2>1, <2>3 DEF CreatedOf
<1>4. ASSUME NEW e \in DeletedEvents
      PROVE  \E s \in Stamp : Coalesce(e.at, now) = Rank(s)
  <2>1. PICK w \in On("deleted") : e = DeletedOf(w)
    BY <1>4, WireAssumption
  <2>2. w \in Object /\ w.topic = "deleted"
    BY WireAssumption DEF On
  <2>3. w.body.at \in Optional(Stamp)
    BY <2>2, BodyOfObject DEF DeletedBody
  <2>4. QED
    BY <1>2, <2>1, <2>3 DEF DeletedOf
<1>5. ASSUME NEW e \in UpdatedEvents
      PROVE  \E s \in Stamp : Coalesce(e.at, now) = Rank(s)
  <2>1. PICK w \in On("updated") : e = UpdatedOf(w)
    BY <1>5, WireAssumption
  <2>2. w \in Object /\ w.topic = "updated"
    BY WireAssumption DEF On
  <2>3. w.body.at \in Optional(Stamp) /\ w.occurred_at \in Optional(Stamp)
    BY <2>2, BodyOfObject DEF UpdatedBody, Object
  <2>4. Coalesce(w.body.at, w.occurred_at) \in Optional(Stamp)
    BY <2>3 DEF Coalesce
  <2>5. QED
    BY <1>2, <2>1, <2>4 DEF UpdatedOf
<1>6. QED
  BY <1>1, <1>3, <1>4, <1>5

LEMMA StampedNext ==
  ASSUME TypeOK, Stamped, [Next]_vars
  PROVE  Stamped'
<1>1. ASSUME NEW c \in Conversation, NEW d \in Conversation, NEW w, NEW off \in [Conversation -> SUBSET Write],
             \A x \in off[c] : x.at = Epoch \/ \E s \in Stamp : x.at = Rank(s),
             w.at = Epoch \/ \E s \in Stamp : w.at = Rank(s)
      PROVE  \A x \in Record(off, d, w)[c] : x.at = Epoch \/ \E s \in Stamp : x.at = Rank(s)
  BY <1>1 DEF Record
<1>2. ASSUME NEW e \in CreatedEvents, ProcessConversationCreated(e)
      PROVE  Stamped'
  <2>1. PICK now \in Now : CreateConversationWithParent(e.conv, NewConversation(e, now), e.parent)
    BY <1>2 DEF ProcessConversationCreated
  <2> DEFINE n    == NewConversation(e, now)
             once == Record(offered, e.conv, Offer(n))
  <2>2. e.conv \in Conversation /\ e.parent \in Conversation \cup {Null}
    BY ServiceAssumption DEF CreatedEvent
  <2>3. n \in FullNode /\ Offer(n) \in Write /\ \E s \in Stamp : Offer(n).at = Rank(s)
    BY NewConversationType, OfferType, EventsAreStamped DEF NewConversation, Offer
  <2>4. /\ once \in [Conversation -> SUBSET Write]
        /\ \A c \in Conversation : \A x \in once[c] : x.at = Epoch \/ \E s \in Stamp : x.at = Rank(s)
    <3>1. offered \in [Conversation -> SUBSET Write]
      BY DEF TypeOK
    <3>2. once \in [Conversation -> SUBSET Write]
      BY <2>2, <2>3, <3>1, RecordType DEF OfferMap
    <3>3. QED
      BY <1>1, <2>2, <2>3, <3>1, <3>2 DEF Stamped
  <2>5. CASE e.parent = Null
    BY <2>1, <2>4, <2>5 DEF CreateConversationWithParent, Stamped
  <2>6. CASE e.parent # Null
    <3>1. offered' = Record(once, e.parent, Offer(Stub(n.user))) /\ e.parent \in Conversation
      BY <2>1, <2>2, <2>6 DEF CreateConversationWithParent
    <3>2. Offer(Stub(n.user)).at = Epoch
      BY DEF Offer, Stub
    <3>3. QED
      BY <1>1, <2>4, <3>1, <3>2 DEF Stamped
  <2>7. QED
    BY <2>5, <2>6
<1>3. ASSUME NEW e \in DeletedEvents, ProcessConversationDeleted(e)
      PROVE  Stamped'
  <2>1. PICK now \in Now : \/ SoftDelete(e.conv, Coalesce(e.at, now))
                           \/ HardDelete(e.conv)
    BY <1>3 DEF ProcessConversationDeleted
  <2>2. e.conv \in Conversation /\ offered \in [Conversation -> SUBSET Write]
    BY ServiceAssumption DEF DeletedEvent, TypeOK
  <2>3. CASE HardDelete(e.conv)
    BY <2>2, <2>3 DEF HardDelete, Stamped
  <2>4. CASE SoftDelete(e.conv, Coalesce(e.at, now))
    BY <1>1, <2>2, <2>4, EventsAreStamped DEF SoftDelete, Stamped
  <2>5. QED
    BY <2>1, <2>3, <2>4
<1>4. ASSUME NEW e \in UpdatedEvents, ProcessConversationUpdated(e)
      PROVE  Stamped'
  <2> DEFINE w(now) == [title |-> e.title, status |-> e.status, at |-> Coalesce(e.at, now)]
  <2>1. PICK now \in Now : offered' = IF Present(conv, e.conv) THEN Record(offered, e.conv, w(now))
                                      ELSE offered
    BY <1>4 DEF ProcessConversationUpdated
  <2>2. e.conv \in Conversation /\ offered \in [Conversation -> SUBSET Write]
    BY ServiceAssumption DEF UpdatedEvent, TypeOK
  <2>3. QED
    BY <1>1, <2>1, <2>2, EventsAreStamped DEF Stamped
<1>5. ASSUME NEW e \in MessageEvents, CreateMessageNode(e) \/ CreateMessageRelationships(e)
      PROVE  Stamped'
  BY <1>5 DEF CreateMessageNode, CreateMessageRelationships, Stamped
<1>6. CASE UNCHANGED vars
  BY <1>6 DEF vars, Stamped
<1>7. QED
  BY <1>2, <1>3, <1>4, <1>5, <1>6 DEF Next

(* Among timestamps spelled as the service spells them nothing is lost, not a
   fraction: the node's updated_at is the latest moment it was offered. *)
THEOREM OwnSpellingLosesNothing == WireSpec => []OwnClockIsExact
<1>1. Init => Stamped
  BY DEF Init, Stamped
<1>2. TypeOK /\ Stamped /\ [Next]_vars => Stamped'
  BY StampedNext
<1>3. TypeOK /\ LatestWriteWins /\ Stamped => OwnClockIsExact
  <2>1. SUFFICES ASSUME TypeOK, LatestWriteWins, Stamped, NEW c \in Conversation,
                        \A x \in offered[c] : Isoformat(x.at), NEW w \in offered[c], w.at # Epoch
                 PROVE  Instant(StampOf(w.at)) <= Instant(StampOf(conv[c].updated))
    BY DEF OwnClockIsExact
  <2> DEFINE latest == conv[c].updated
  <2>2. w.at \in Time /\ latest \in Time /\ w.at <= latest
    BY <2>1, NodesAreNewest
  <2>3. PICK x \in offered[c] : x.at = latest
    BY <2>1, NodesAreNewest
  <2>4. latest # Epoch
    BY <2>1, <2>2 DEF Epoch, Time
  <2>5. /\ StampOf(w.at) \in Stamp /\ Rank(StampOf(w.at)) = w.at
        /\ StampOf(latest) \in Stamp /\ Rank(StampOf(latest)) = latest
    BY <2>1, <2>3, <2>4 DEF Stamped, StampOf
  <2>6. StampOf(w.at).zone = Python /\ StampOf(latest).zone = Python
    BY <2>1, <2>3, <2>4 DEF Isoformat
  <2>7. QED
    BY <2>2, <2>5, <2>6, OwnSpellingIsExact
<1>4. QED
  BY <1>1, <1>2, <1>3, WireHandlesEvents, TypeCorrect, NewestWriteIsKept, PTL DEF Spec

-------------------------------------------------------------------------------
\* Empty titles.

LEMMA CreatedTitles ==
  ASSUME NEW e \in CreatedEvents, NEW now
  PROVE  NewConversation(e, now).title # Blank
<1>1. PICK w : e = CreatedOf(w)
  BY WireAssumption
<1>2. e.title # Blank
  BY <1>1, NullAssumption DEF CreatedOf, Or, Blank
<1>3. QED
  BY <1>2 DEF NewConversation, Coalesce, DefaultTitle, Blank

Excused(cv) == \A c \in Conversation :
  Present(cv, c) /\ cv[c].title = Blank =>
    \E e \in handled' \cap UpdatedEvents : e.conv = c /\ e.title = Blank

LEMMA MergeExcused ==
  ASSUME NEW cv \in ConvMap, Excused(cv), NEW d \in Conversation, NEW n \in FullNode,
         n.title # Blank
  PROVE  Excused(MergeConversation(cv, d, n))
<1>1. cv[d] \in MaybeNode
  BY DEF ConvMap, MaybeNode
<1>2. Merged(cv[d], n) = cv[d] \/ Merged(cv[d], n).title # Blank
  BY <1>1 DEF Merged, MaybeNode, Node
<1>3. QED
  BY <1>2 DEF Excused, MergeConversation, ConvMap, Present

LEMMA BlankNext ==
  ASSUME TypeOK, BlankComesFromUpdates, [Next]_vars
  PROVE  BlankComesFromUpdates'
<1> SUFFICES Excused(conv')
  BY DEF Excused, BlankComesFromUpdates, Present
<1>1. conv \in ConvMap /\ \A c \in Conversation : conv[c] \in MaybeNode
  BY DEF TypeOK, ConvMap, MaybeNode
<1>2. handled \subseteq handled'
  BY DEF Next, vars, ProcessConversationCreated, ProcessConversationDeleted,
         ProcessConversationUpdated, CreateMessageNode, CreateMessageRelationships
<1>3. Excused(conv)
  BY <1>2 DEF Excused, BlankComesFromUpdates
<1>4. ASSUME NEW e \in CreatedEvents, ProcessConversationCreated(e)
      PROVE  Excused(conv')
  <2>1. PICK now \in Now : CreateConversationWithParent(e.conv, NewConversation(e, now), e.parent)
    BY <1>4 DEF ProcessConversationCreated
  <2> DEFINE n     == NewConversation(e, now)
             child == MergeConversation(conv, e.conv, n)
  <2>2. e.conv \in Conversation /\ e.parent \in Conversation \cup {Null} /\ n \in FullNode
    BY ServiceAssumption, NewConversationType DEF CreatedEvent
  <2>3. child \in ConvMap /\ Excused(child)
    BY <1>1, <1>3, <2>2, MergeExcused, MergeType, CreatedTitles
  <2>4. Stub(n.user) \in FullNode /\ Stub(n.user).title # Blank
    BY <2>2, StubType DEF FullNode, Stub, StubTitle, Blank
  <2>5. conv' = child \/ (e.parent \in Conversation
                          /\ conv' = MergeConversation(child, e.parent, Stub(n.user)))
    BY <2>1, <2>2 DEF CreateConversationWithParent
  <2>6. QED
    BY <2>3, <2>4, <2>5, MergeExcused
<1>5. ASSUME NEW e \in DeletedEvents, ProcessConversationDeleted(e)
      PROVE  Excused(conv')
  <2>1. PICK now \in Now : \/ conv' = SoftDeleteConversation(conv, e.conv, Coalesce(e.at, now))
                           \/ conv' = DeleteConversation(conv, e.conv)
    BY <1>5 DEF ProcessConversationDeleted, SoftDelete, HardDelete
  <2>2. \/ SoftDeleted(conv[e.conv], Coalesce(e.at, now)) = conv[e.conv]
        \/ SoftDeleted(conv[e.conv], Coalesce(e.at, now)).title = conv[e.conv].title
           /\ conv[e.conv] # Absent
    <3>1. e.conv \in Conversation
      BY ServiceAssumption DEF DeletedEvent
    <3>2. conv[e.conv] \in MaybeNode
      BY <1>1, <3>1
    <3>3. QED
      BY <3>2 DEF SoftDeleted, MaybeNode, Node
  <2>3. QED
    BY <1>1, <1>3, <2>1, <2>2
       DEF Excused, SoftDeleteConversation, DeleteConversation, ConvMap, Present
<1>6. ASSUME NEW e \in UpdatedEvents, ProcessConversationUpdated(e)
      PROVE  Excused(conv')
  <2>1. PICK now \in Now :
          conv' = UpdateConversation(conv, e.conv, e.title, e.status, Coalesce(e.at, now))
    BY <1>6 DEF ProcessConversationUpdated
  <2> DEFINE m == Updated(conv[e.conv], e.title, e.status, Coalesce(e.at, now))
  <2>2. e.conv \in Conversation /\ e \in handled'
    BY <1>6, ServiceAssumption DEF UpdatedEvent, ProcessConversationUpdated
  <2>3. \/ m = conv[e.conv]
        \/ conv[e.conv] # Absent /\ m.title \in {e.title, conv[e.conv].title}
    BY <1>1, <2>2 DEF Updated, Coalesce, MaybeNode, Node
  <2>4. QED
    BY <1>1, <1>3, <2>1, <2>2, <2>3 DEF Excused, UpdateConversation, ConvMap, Present
<1>7. ASSUME NEW e \in MessageEvents, CreateMessageNode(e) \/ CreateMessageRelationships(e)
      PROVE  Excused(conv')
  <2>1. conv' = conv \/ conv' = MergeBareConversation(conv, e.conv)
    BY <1>7 DEF CreateMessageNode, CreateMessageRelationships, lineage
  <2>2. MergedBare(conv[e.conv]) = conv[e.conv] \/ MergedBare(conv[e.conv]).title # Blank
    BY NullAssumption DEF MergedBare, BareNode
  <2>3. QED
    BY <1>1, <1>3, <2>1, <2>2 DEF Excused, MergeBareConversation, ConvMap, Present
<1>8. CASE UNCHANGED vars
  BY <1>3, <1>8 DEF vars
<1>9. QED
  BY <1>4, <1>5, <1>6, <1>7, <1>8 DEF Next

(* For any objects on the topics, a title is empty only where a handled update
   said so: no created event, with or without a title, leaves an empty one. *)
THEOREM BlanksAreAskedFor == WireSpec => []BlankComesFromUpdates
<1>1. Init => BlankComesFromUpdates
  BY DEF Init, BlankComesFromUpdates, Present
<1>2. TypeOK /\ BlankComesFromUpdates /\ [Next]_vars => BlankComesFromUpdates'
  BY BlankNext
<1>3. QED
  BY <1>1, <1>2, WireHandlesEvents, TypeCorrect, PTL DEF Spec
===============================================================================
