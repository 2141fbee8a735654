---------------------------- MODULE GraphReadsProofs ----------------------------
(***************************************************************************)
(* What a reader may rely on between its transactions, whatever the        *)
(* handlers do meanwhile.                                                  *)
(***************************************************************************)
EXTENDS GraphPaging, GraphQueriesProofs

\* Under soft deletion no handler makes a conversation go.
LEMMA PresentStays ==
  ASSUME SoftDeleteEnabled, TypeOK, Next, NEW c \in Conversation, Present(conv, c)
  PROVE  Present(conv', c)
<1>1. conv[c] \in Node
  BY DEF TypeOK, Present
<1>2. ASSUME NEW e \in CreatedEvents, ProcessConversationCreated(e)
      PROVE  Present(conv', c)
  BY <1>2, CreatedGrows DEF Grown, Present
<1>3. ASSUME NEW e \in DeletedEvents, ProcessConversationDeleted(e)
      PROVE  Present(conv', c)
  <2>1. PICK now \in Now : SoftDelete(e.conv, Coalesce(e.at, now))
    BY <1>3 DEF ProcessConversationDeleted
  <2>2. e.conv \in Conversation /\ Coalesce(e.at, now) \in Time
    BY ServiceAssumption, CoalesceType DEF DeletedEvent
  <2>3. SoftDeleted(conv[c], Coalesce(e.at, now)) # Absent
    BY <1>1, <2>2, StoreAssumption DEF SoftDeleted, Node
  <2>4. QED
    BY <2>1, <2>2, <2>3 DEF SoftDelete, SoftDeleteConversation, TypeOK, Present
<1>4. ASSUME NEW e \in UpdatedEvents, ProcessConversationUpdated(e)
      PROVE  Present(conv', c)
  <2>1. PICK now \in Now : conv' = UpdateConversation(conv, e.conv, e.title, e.status, Coalesce(e.at, now))
    BY <1>4 DEF ProcessConversationUpdated
  <2>2. /\ e.conv \in Conversation
        /\ e.title \in Title \cup {Null}
        /\ e.status \in Status \cup {Null}
        /\ Coalesce(e.at, now) \in Time
    BY ServiceAssumption, CoalesceType DEF UpdatedEvent
  <2>3. Updated(conv[c], e.title, e.status, Coalesce(e.at, now)) \in Node
    BY <1>1, <2>2, UpdatedFollows
  <2>4. QED
    BY <2>1, <2>2, <2>3, StoreAssumption DEF UpdateConversation, TypeOK, Present
<1>5. ASSUME NEW e \in MessageEvents, CreateMessageNode(e)
      PROVE  Present(conv', c)
  BY <1>5 DEF CreateMessageNode, lineage, Present
<1>6. ASSUME NEW e \in MessageEvents, CreateMessageRelationships(e)
      PROVE  Present(conv', c)
  <2>1. e.conv \in Conversation
    BY ServiceAssumption DEF MessageEvent
  <2>2. MergedBare(conv[c]) # Absent
    BY <1>1, MergedBareType, StoreAssumption DEF MaybeNode
  <2>3. QED
    BY <1>6, <2>1, <2>2 DEF CreateMessageRelationships, MergeBareConversation, TypeOK, Present
<1>7. QED
  BY <1>2, <1>3, <1>4, <1>5, <1>6 DEF Next

-------------------------------------------------------------------------------

\* A request in hand is a request, and has a slot for each traversal.
HandOK ==
  reading # None =>
    /\ DOMAIN reading = {"ask", "up", "down"}
    /\ reading.ask.kind # "nodes" => reading.ask.conv \in Conversation

LEMMA ReadKeepsOwner ==
  ASSUME HandOK, AdmittedStaysOwned, Read
  PROVE  HandOK' /\ AdmittedStaysOwned' /\ UNCHANGED vars
<1>1. ASSUME NEW q, NEW rows, NEW edges, Reply(q, rows, edges)
      PROVE  HandOK' /\ AdmittedStaysOwned' /\ UNCHANGED vars
  BY <1>1 DEF Reply, HandOK, AdmittedStaysOwned
<1>2. ASSUME NEW q \in RestQuery \cup ContextQuery, Refuse(q) \/ Details(q)
      PROVE  HandOK' /\ AdmittedStaysOwned' /\ UNCHANGED vars
  BY <1>1, <1>2 DEF Refuse, NotFound, Details
<1>3. ASSUME NEW q \in RestQuery \cup ContextQuery, Admit(q)
      PROVE  HandOK' /\ AdmittedStaysOwned' /\ UNCHANGED vars
  <2>1. q.conv \in Conversation
    BY DEF RestQuery, ContextQuery
  <2>2. reading' = [ask |-> q, up |-> None, down |-> None] /\ Owns(q.user, q.conv) /\ UNCHANGED vars
    BY <1>3 DEF Admit
  <2>3. Owns(q.user, q.conv)'
    BY <2>2 DEF Owns, Present, vars
  <2>4. QED
    BY <2>1, <2>2, <2>3 DEF HandOK, AdmittedStaysOwned
<1>4. ASSUME NEW kind, NEW relatives, RespondList(kind, relatives)
      PROVE  HandOK' /\ AdmittedStaysOwned' /\ UNCHANGED vars
  BY <1>1, <1>4 DEF RespondList
<1>5. CASE RespondParent
  BY <1>1, <1>5 DEF RespondParent, NotFound
<1>6. CASE RespondMemory
  BY <1>1, <1>6 DEF RespondMemory, NotFound
<1>7. CASE RespondContext
  BY <1>1, <1>7 DEF RespondContext
<1>8. ASSUME NEW q \in NodesQuery, RefuseNodes(q)
      PROVE  HandOK' /\ AdmittedStaysOwned' /\ UNCHANGED vars
  BY <1>1, <1>8 DEF RefuseNodes
<1>9. ASSUME NEW q \in NodesQuery, AskNodes(q)
      PROVE  HandOK' /\ AdmittedStaysOwned' /\ UNCHANGED vars
  <2>1. q.kind = "nodes"
    BY DEF NodesQuery
  <2>2. /\ DOMAIN reading' = {"ask", "up", "down"}
        /\ reading'.ask = q
        /\ UNCHANGED vars
    BY <1>9 DEF AskNodes
  <2>3. QED
    BY <2>1, <2>2 DEF HandOK, AdmittedStaysOwned
<1>10. CASE RespondNodes
  BY <1>1, <1>10 DEF RespondNodes
<1>11. CASE ReadUp \/ ReadDown \/ \E i \in 1 .. MaxNodeIds : LookUp(i)
  <2>1. /\ reading # None /\ UNCHANGED vars
        /\ DOMAIN reading' = DOMAIN reading
        /\ reading'.ask = reading.ask
    BY <1>11 DEF ReadUp, ReadDown, LookUp, Asked, HandOK
  <2>2. reading.ask.kind # "nodes" => Owns(reading.ask.user, reading.ask.conv)'
    BY <2>1 DEF AdmittedStaysOwned, Owns, Present, vars
  <2>3. QED
    BY <2>1, <2>2 DEF HandOK, AdmittedStaysOwned
<1>12. QED
  BY <1>2, <1>3, <1>4, <1>5, <1>6, <1>7, <1>8, <1>9, <1>10, <1>11 DEF Read

LEMMA AdmittedNext ==
  ASSUME SoftDeleteEnabled, TypeOK, HandOK, AdmittedStaysOwned, [ReadNext]_allVars
  PROVE  TypeOK' /\ HandOK' /\ AdmittedStaysOwned'
<1>1. CASE Next /\ UNCHANGED readVars
  <2>1. TypeOK'
    BY <1>1, TypeNext
  <2>2. reading' = reading
    BY <1>1 DEF readVars
  <2>3. CASE reading = None \/ reading.ask.kind = "nodes"
    BY <2>1, <2>2, <2>3 DEF HandOK, AdmittedStaysOwned
  <2>4. CASE reading # None /\ reading.ask.kind # "nodes"
    <3>1. Owns(reading.ask.user, reading.ask.conv)'
      <4> DEFINE u == reading.ask.user
                 c == reading.ask.conv
      <4>1. c \in Conversation /\ Owns(u, c)
        BY <2>4 DEF HandOK, AdmittedStaysOwned
      <4>2. Succeeds(conv[c], conv'[c]) /\ Present(conv', c)
        BY <1>1, <4>1, StepSucceeds, PresentStays DEF Owns
      <4>3. conv'[c].user = u
        BY <4>1, <4>2 DEF Owns, Present, Succeeds, Follows
      <4>4. QED
        BY <2>2, <4>2, <4>3 DEF Owns, Present
    <3>2. QED
      BY <2>1, <2>2, <3>1 DEF HandOK, AdmittedStaysOwned
  <2>5. QED
    BY <2>3, <2>4
<1>2. CASE Read
  <2>1. HandOK' /\ AdmittedStaysOwned' /\ UNCHANGED vars
    BY <1>2, ReadKeepsOwner
  <2>2. TypeOK'
    BY <2>1, TypeNext
  <2>3. QED
    BY <2>1, <2>2
<1>3. CASE UNCHANGED allVars
  <2>1. UNCHANGED vars /\ UNCHANGED reading
    BY <1>3 DEF allVars, readVars
  <2>2. TypeOK'
    BY <2>1, TypeNext
  <2>3. QED
    BY <2>1, <2>2 DEF HandOK, AdmittedStaysOwned, Owns, Present, vars
<1>4. QED
  BY <1>1, <1>2, <1>3 DEF ReadNext

(* Under soft deletion the ownership check of a request holds until the request
   is answered: the transactions that follow it read the caller's own
   conversation, however many events are handled in between. *)
THEOREM OwnershipCheckHolds == SoftDeleteEnabled /\ ReadSpec => []AdmittedStaysOwned
<1>1. ReadInit => TypeOK /\ HandOK /\ AdmittedStaysOwned
  BY TypeInit DEF ReadInit, HandOK, AdmittedStaysOwned
<1>2. SoftDeleteEnabled /\ TypeOK /\ HandOK /\ AdmittedStaysOwned /\ [ReadNext]_allVars
      => TypeOK' /\ HandOK' /\ AdmittedStaysOwned'
  BY AdmittedNext
<1>3. CASE SoftDeleteEnabled
  BY <1>1, <1>2, <1>3, PTL DEF ReadSpec
<1>4. CASE ~SoftDeleteEnabled
  BY <1>4
<1>5. QED
  BY <1>3, <1>4

-------------------------------------------------------------------------------
\* The graph that readers see is the one the handlers make.

LEMMA ReadChangesNothing == Read => UNCHANGED vars
BY DEF Read, Refuse, Details, Admit, RefuseNodes, AskNodes, LookUp, RespondNodes, RespondList,
       RespondParent, RespondMemory, ReadUp, ReadDown, RespondContext, NotFound, Reply

(* A reader never writes: what holds of the graph under the handlers holds of
   it while requests are answered. *)
THEOREM ReadersDisturbNothing == ReadSpec => Spec
<1>1. ReadInit => Init
  BY DEF ReadInit
<1>2. [ReadNext]_allVars => [Next]_vars
  BY ReadChangesNothing DEF ReadNext, allVars
<1>. QED BY <1>1, <1>2, PTL DEF ReadSpec, Spec

(* A reader beside the handlers finds one tree and defined memories, whatever was
   written between its transactions. *)
THEOREM ReadersSeeOneTree == ReadSpec => [](NavigationAgrees /\ MemoryIsTheLineage)
BY ReadersDisturbNothing, UpAndDownAgree, MemoryIsDefined, PTL

\* Under soft deletion no handler takes a relationship away.
LEMMA LineageGrows ==
  ASSUME SoftDeleteEnabled, Next
  PROVE  hasChild \subseteq hasChild' /\ createdFrom \subseteq createdFrom'
<1>1. ASSUME NEW e \in CreatedEvents, ProcessConversationCreated(e)
      PROVE  hasChild \subseteq hasChild' /\ createdFrom \subseteq createdFrom'
  BY <1>1 DEF ProcessConversationCreated, CreateConversationWithParent, MergeRelationship
<1>2. ASSUME NEW e \in DeletedEvents, ProcessConversationDeleted(e)
      PROVE  hasChild \subseteq hasChild' /\ createdFrom \subseteq createdFrom'
  BY <1>2 DEF ProcessConversationDeleted, SoftDelete
<1>3. ASSUME NEW e \in UpdatedEvents, ProcessConversationUpdated(e)
      PROVE  hasChild \subseteq hasChild' /\ createdFrom \subseteq createdFrom'
  BY <1>3 DEF ProcessConversationUpdated
<1>4. ASSUME NEW e \in MessageEvents, CreateMessageNode(e) \/ CreateMessageRelationships(e)
      PROVE  hasChild \subseteq hasChild' /\ createdFrom \subseteq createdFrom'
  BY <1>4 DEF CreateMessageNode, CreateMessageRelationships, lineage
<1>. QED BY <1>1, <1>2, <1>3, <1>4 DEF Next

\* Under soft deletion a conversation keeps its owner and its creation time.
LEMMA PresentKeeps ==
  ASSUME SoftDeleteEnabled, TypeOK, [Next]_vars, NEW c \in Conversation, Present(conv, c)
  PROVE  /\ Present(conv, c)'
         /\ conv'[c].user = conv[c].user
         /\ conv'[c].created = conv[c].created
<1>1. CASE Next
  <2>1. Succeeds(conv[c], conv'[c]) /\ Present(conv', c)
    BY <1>1, StepSucceeds, PresentStays
  <2>. QED BY <2>1 DEF Succeeds, Follows, Present
<1>2. CASE UNCHANGED vars
  BY <1>2 DEF vars, Present
<1>. QED BY <1>1, <1>2

\* What a reader saw of the graph stays true of it under soft deletion.
LEMMA SeenStays ==
  ASSUME SoftDeleteEnabled, TypeOK, [Next]_vars
  PROVE  /\ \A c \in Conversation : \A u : Owns(u, c) => Owns(u, c)'
         /\ \A c : Ancestors(c) \subseteq Ancestors(c)' /\ Descendants(c) \subseteq Descendants(c)'
         /\ \A a, b \in Conversation :
              Present(conv, a) /\ Present(conv, b) /\ Before(a, b) => Before(a, b)'
<1>1. ASSUME NEW c \in Conversation, Present(conv, c)
      PROVE  /\ Present(conv, c)'
             /\ conv'[c].user = conv[c].user
             /\ conv'[c].created = conv[c].created
  BY <1>1, PresentKeeps
<1>2. TypeOK'
  BY TypeNext
<1>3. /\ hasChild \in SUBSET Edge /\ hasChild' \in SUBSET Edge /\ hasChild \subseteq hasChild'
      /\ createdFrom \in SUBSET Edge /\ createdFrom' \in SUBSET Edge
      /\ createdFrom \subseteq createdFrom'
  BY <1>2, LineageGrows DEF TypeOK, Edge, vars
<1>4. \A c : /\ Reached(createdFrom, c) \subseteq Reached(createdFrom', c)
             /\ Reached(hasChild, c) \subseteq Reached(hasChild', c)
  BY <1>3, ReachedGrows
<1>5. \A c : Ancestors(c) \subseteq Ancestors(c)' /\ Descendants(c) \subseteq Descendants(c)'
  BY <1>4 DEF Ancestors, Descendants, Reached
<1>. QED BY <1>1, <1>5 DEF Owns, Before, IdRank, Present

-------------------------------------------------------------------------------
\* A context between its two traversals.

\* The generation of a conversation, fixed by the created events whatever part
\* of the lineage is in the graph.
Age == CHOOSE age \in [Conversation -> DOMAIN IdOrder] :
         \A e \in CreatedEvents : e.parent # Null => age[e.parent] < age[e.conv]

LEMMA AgeIsOlder ==
  ASSUME TypeOK, LineageConsistent
  PROVE  Older(Age)
<1>1. /\ Age \in [Conversation -> DOMAIN IdOrder]
      /\ \A e \in CreatedEvents : e.parent # Null => Age[e.parent] < Age[e.conv]
  BY LineageAssumption DEF Age
<1>2. ASSUME NEW c \in Conversation, NEW p \in Conversation, <<c, p>> \in createdFrom
      PROVE  Age[p] < Age[c]
  <2>1. <<p, c>> \in hasChild
    BY <1>2 DEF LineageConsistent
  <2>2. PICK e \in CreatedEvents : e.conv = c /\ e.parent = p
    BY <2>1 DEF LineageConsistent
  <2>. QED BY <1>1, <2>2, ServiceAssumption
<1>. QED BY <1>1, <1>2 DEF Older

LEMMA AgeType == \A c \in Conversation : Age[c] \in Nat
<1>1. Age \in [Conversation -> DOMAIN IdOrder]
  BY LineageAssumption DEF Age
<1>2. \A i \in DOMAIN IdOrder : i \in Nat
  BY QueryAssumption
<1>. QED BY <1>1, <1>2

\* Of two ancestors, one is above the other.
LEMMA AncestorsAreComparable ==
  ASSUME OneTree, NEW c \in Conversation, NEW a \in Ancestors(c), NEW b \in Ancestors(c)
  PROVE  a = b \/ a \in Ancestors(b) \/ b \in Ancestors(a)
<1>. DEFINE InLine(x, y) == x = y \/ x \in Ancestors(y) \/ y \in Ancestors(x)
            S == {x \in Ancestors(c) : \A y \in Ancestors(c) : InLine(x, y)}
<1>1. ASSUME NEW d \in Conversation, NEW e \in Conversation, <<d, e>> \in createdFrom, d \in {c} \cup S
      PROVE  e \in S
  <2>1. e \in Parents(d)
    BY <1>1 DEF Parents
  <2>2. Ancestors(d) = {e} \cup Ancestors(e)
    BY <2>1, ParentOfLineage
  <2>3. e \in Ancestors(c)
    BY <1>1, ReachedIsClosed DEF OneTree, Ancestors
  <2>4. ASSUME NEW y \in Ancestors(c) PROVE InLine(e, y)
    <3>1. CASE d = c
      BY <2>2, <3>1
    <3>2. CASE d \in S
      <4>1. InLine(d, y)
        BY <3>2
      <4>2. d \in {y} \cup Ancestors(y) => e \in Ancestors(y)
        BY <1>1, ReachedIsClosed DEF OneTree, Ancestors
      <4>. QED BY <2>2, <4>1, <4>2
    <3>. QED BY <1>1, <3>1, <3>2
  <2>. QED BY <2>3, <2>4
<1>2. S \in SUBSET Conversation
  BY ReachedType DEF Ancestors
<1>3. Ancestors(c) \subseteq S
  <2>. HIDE DEF S
  <2>1. Reached(createdFrom, c) \subseteq S
    BY <1>1, <1>2, ReachedIsLeast DEF OneTree
  <2>. QED BY <2>1 DEF Ancestors
<1>. QED BY <1>3

\* In a chronological lineage whoever is above is older.
LEMMA AncestorsCameFirst ==
  ASSUME OneTree, TypeOK, NEW c \in Conversation, Chronological(c),
         \A x \in {c} \cup Ancestors(c) : Present(conv, x),
         NEW b \in {c} \cup Ancestors(c), NEW a \in Ancestors(b)
  PROVE  conv[a].created # Null /\ conv[b].created # Null /\ conv[a].created < conv[b].created
<1>. DEFINE Came(x, y) == /\ conv[x].created # Null /\ conv[y].created # Null
                          /\ conv[x].created < conv[y].created
            S == {x \in Ancestors(c) : Came(x, b)}
<1>1. Ancestors(c) \in SUBSET Conversation
  BY ReachedType DEF Ancestors
<1>2. \A x \in {c} \cup Ancestors(c) : conv[x].created \in Nat \cup {Null}
  BY <1>1 DEF TypeOK, Node, Present, Time
<1>3. ASSUME NEW d \in Conversation, NEW e \in Conversation, <<d, e>> \in createdFrom, d \in {b} \cup S
      PROVE  e \in S
  <2>1. d \in {c} \cup Ancestors(c) /\ e \in Parents(d)
    BY <1>3 DEF Parents
  <2>2. e \in Ancestors(c)
    BY <1>3, <2>1, ReachedIsClosed DEF OneTree, Ancestors
  <2>3. Came(e, d)
    BY <2>1 DEF Chronological
  <2>4. Came(e, b)
    <3>1. CASE d = b
      BY <2>3, <3>1
    <3>2. CASE d \in S
      <4>1. Came(d, b)
        BY <3>2
      <4>2. conv[e].created \in Nat /\ conv[d].created \in Nat /\ conv[b].created \in Nat
        BY <1>2, <2>1, <2>2, <2>3, <4>1
      <4>. QED BY <2>3, <4>1, <4>2
    <3>. QED BY <1>3, <3>1, <3>2
  <2>. QED BY <2>2, <2>4
<1>4. S \in SUBSET Conversation
  BY <1>1
<1>5. Ancestors(b) \subseteq S
  <2>. HIDE DEF S
  <2>1. Reached(createdFrom, b) \subseteq S
    BY <1>3, <1>4, ReachedIsLeast DEF OneTree
  <2>. QED BY <2>1 DEF Ancestors
<1>. QED BY <1>5

\* A relationship of a context, as it follows from what the traversals saw.
GoesDown(c, r) ==
  \/ r[1] = c /\ r[2] \in Descendants(c)
  \/ r[2] = c /\ r[1] \in Ancestors(c)
  \/ /\ r[1] \in Ancestors(c) /\ r[2] \in Ancestors(c)
     /\ Before(r[1], r[2])

LEMMA GoesDownTheLineage ==
  ASSUME OneTree, TypeOK, NEW c \in Conversation, Chronological(c),
         \A x \in {c} \cup Ancestors(c) : Present(conv, x),
         NEW r, GoesDown(c, r)
  PROVE  r[2] \in Descendants(r[1])
<1>. DEFINE a == r[1]
            b == r[2]
<1>1. Ancestors(c) \in SUBSET Conversation
  BY ReachedType DEF Ancestors
<1>2. CASE r[2] = c /\ r[1] \in Ancestors(c)
  BY <1>1, <1>2, DescendantsMirrorAncestors
<1>3. CASE a \in Ancestors(c) /\ b \in Ancestors(c) /\ Before(a, b)
  <2>. HIDE DEF a, b
  <2>1. a \in Conversation /\ b \in Conversation
    BY <1>1, <1>3
  <2>2. a # b
    <3>1. IdRank(a) \in Nat /\ conv[a].created \in Nat \cup {Null}
      BY <1>3, <2>1, IdRankIsInjective DEF TypeOK, Node, Present, Time
    <3>. QED BY <1>3, <3>1 DEF Before
  <2>3. b \notin Ancestors(a)
    <3>1. ASSUME b \in Ancestors(a) PROVE FALSE
      <4>1. conv[a].created # Null /\ conv[b].created # Null /\ conv[b].created < conv[a].created
        BY <1>3, <3>1, AncestorsCameFirst
      <4>2. conv[a].created \in Nat /\ conv[b].created \in Nat
        BY <1>3, <2>1, <4>1 DEF TypeOK, Node, Present, Time
      <4>. QED BY <1>3, <4>1, <4>2 DEF Before
    <3>. QED BY <3>1
  <2>4. a \in Ancestors(b)
    BY <1>3, <2>2, <2>3, AncestorsAreComparable
  <2>5. b \in Descendants(a)
    BY <2>1, <2>4, DescendantsMirrorAncestors
  <2>. QED BY <2>5 DEF a, b
<1>. QED BY <1>2, <1>3 DEF GoesDown

LEMMA RelativesArePresent ==
  ASSUME TypeOK, LineageConsistent, NEW c \in Conversation, NEW a \in Ancestors(c)
  PROVE  Present(conv, a) /\ Present(conv, c)
<1>. DEFINE S == {x \in Conversation : Present(conv, x) /\ Present(conv, c)}
<1>1. OneTree
  BY LineageIsOneTree
<1>2. ASSUME NEW d \in Conversation, NEW e \in Conversation, <<d, e>> \in createdFrom, d \in {c} \cup S
      PROVE  e \in S
  <2>1. <<e, d>> \in hasChild
    BY <1>2 DEF LineageConsistent
  <2>2. Present(conv, d) /\ Present(conv, e)
    BY <2>1 DEF LineageConsistent
  <2>. QED BY <1>2, <2>2
<1>3. Reached(createdFrom, c) \subseteq S
  <2>1. S \in SUBSET Conversation
    OBVIOUS
  <2>. HIDE DEF S
  <2>. QED BY <1>1, <1>2, <2>1, ReachedIsLeast DEF OneTree
<1>. QED BY <1>3 DEF Ancestors

-------------------------------------------------------------------------------
\* What a request in hand has read, and what its response says.

Query == RestQuery \cup ContextQuery \cup NodesQuery

LEMMA QueryFacts ==
  ASSUME NEW q \in Query
  PROVE  /\ q.kind = "nodes" => q \in NodesQuery /\ q.ids \in Seq(Conversation)
         /\ q.kind # "nodes" => q.conv \in Conversation
         /\ q.kind = "context" => RowLimit(q) \in Nat
         /\ q.kind \in ListKind => q.skip \in Nat /\ q.limit \in Nat
<1>1. CASE q \in RestQuery
  BY <1>1, ReadAssumption DEF RestQuery, ListKind
<1>2. CASE q \in ContextQuery
  <2>1. q.kind = "context" /\ q.conv \in Conversation /\ q.nodes \in Nat /\ q.depth \in Nat
    BY <1>2, ReadAssumption DEF ContextQuery
  <2>2. RowLimit(q) \in Nat
    BY <2>1, ReadAssumption DEF RowLimit, Least, OrElse
  <2>. QED BY <2>1, <2>2 DEF ListKind
<1>3. CASE q \in NodesQuery
  BY <1>3, ReadAssumption DEF NodesQuery, ListKind
<1>. QED BY <1>1, <1>2, <1>3 DEF Query

NoneTwice(s) == \A i, j \in DOMAIN s : s[i] = s[j] => i = j

\* Kept by soft deletion only: s is the caller's, in order, above or below.
SeenAbove(q, s) ==
  /\ \A i \in DOMAIN s : Owns(q.user, s[i]) /\ s[i] \in Ancestors(q.conv)
  /\ \A i, j \in DOMAIN s : i < j => Before(s[i], s[j])

SeenBelow(q, s) ==
  \A i \in DOMAIN s : Owns(q.user, s[i]) /\ s[i] \in Descendants(q.conv)

UpOK(q, s) ==
  /\ s \in Seq(Conversation) /\ NoneTwice(s)
  /\ \A i \in DOMAIN s : Age[s[i]] < Age[q.conv]
  /\ SoftDeleteEnabled => SeenAbove(q, s)

DownOK(q, s) ==
  /\ s \in Seq(Conversation) /\ NoneTwice(s)
  /\ \A i \in DOMAIN s : Age[q.conv] < Age[s[i]]
  /\ SoftDeleteEnabled => SeenBelow(q, s)

LookedUp(q, found) ==
  /\ DOMAIN found = DOMAIN q.ids
  /\ \A i \in DOMAIN found : found[i] # None =>
       found[i] \in BOOLEAN /\ (SoftDeleteEnabled /\ found[i] => Owns(q.user, q.ids[i]))

ReadingOK ==
  reading # None =>
    /\ DOMAIN reading = {"ask", "up", "down"}
    /\ reading.ask \in Query
    /\ reading.ask.kind = "context" =>
         /\ reading.up # None => UpOK(reading.ask, reading.up)
         /\ reading.down # None => DownOK(reading.ask, reading.down)
    /\ reading.ask.kind = "nodes" => LookedUp(reading.ask, reading.up)

AnswerOK(q, rows, edges) ==
  /\ q \in Query
  /\ q.kind = "context" =>
       /\ NoneTwice(rows)
       /\ \A i \in DOMAIN rows : rows[i] # q.conv
       /\ SoftDeleteEnabled => \A r \in edges : r \in Edge /\ GoesDown(q.conv, r)
  /\ q.kind # "memory" =>
       /\ rows \in Seq(Conversation)
       /\ SoftDeleteEnabled => \A i \in DOMAIN rows : Owns(q.user, rows[i])

ResponseOK == response # None => AnswerOK(response.to, response.rows, response.edges)

\* What a reader and the handlers keep between them.
ReadInv == TypeOK /\ LineageConsistent /\ ReadingOK /\ ResponseOK

-------------------------------------------------------------------------------
\* The handlers keep it.

LEMMA UpStays ==
  ASSUME TypeOK, LineageConsistent, [Next]_vars, NEW q, q.conv \in Conversation, NEW s, UpOK(q, s)
  PROVE  UpOK(q, s)'
<1>1. ASSUME SoftDeleteEnabled PROVE SeenAbove(q, s)'
  <2>1. SeenAbove(q, s) /\ \A i \in DOMAIN s : s[i] \in Conversation
    BY <1>1 DEF UpOK
  <2>2. \A i \in DOMAIN s : Present(conv, s[i])
    BY <2>1 DEF SeenAbove, Owns
  <2>3. \A i \in DOMAIN s : Owns(q.user, s[i])' /\ s[i] \in Ancestors(q.conv)'
    BY <1>1, <2>1, SeenStays DEF SeenAbove
  <2>4. \A i, j \in DOMAIN s : i < j => Before(s[i], s[j])'
    BY <1>1, <2>1, <2>2, SeenStays DEF SeenAbove
  <2>. QED BY <2>3, <2>4 DEF SeenAbove
<1>. QED BY <1>1 DEF UpOK, NoneTwice

LEMMA DownStays ==
  ASSUME TypeOK, [Next]_vars, NEW q, NEW s, DownOK(q, s)
  PROVE  DownOK(q, s)'
<1>1. ASSUME SoftDeleteEnabled PROVE SeenBelow(q, s)'
  <2>1. SeenBelow(q, s) /\ \A i \in DOMAIN s : s[i] \in Conversation
    BY <1>1 DEF DownOK
  <2>. QED BY <1>1, <2>1, SeenStays DEF SeenBelow
<1>. QED BY <1>1 DEF DownOK, NoneTwice

LEMMA LookedUpStays ==
  ASSUME TypeOK, [Next]_vars, NEW q, q.ids \in Seq(Conversation), NEW found, LookedUp(q, found)
  PROVE  LookedUp(q, found)'
<1>1. ASSUME SoftDeleteEnabled, NEW i \in DOMAIN found, Owns(q.user, q.ids[i])
      PROVE  Owns(q.user, q.ids[i])'
  <2>1. q.ids[i] \in Conversation
    BY DEF LookedUp
  <2>. QED BY <1>1, <2>1, SeenStays
<1>. QED BY <1>1 DEF LookedUp

LEMMA AnswerStays ==
  ASSUME TypeOK, LineageConsistent, [Next]_vars, NEW q, NEW rows, NEW edges, AnswerOK(q, rows, edges)
  PROVE  AnswerOK(q, rows, edges)'
<1>1. q \in Query
  BY DEF AnswerOK
<1>2. ASSUME SoftDeleteEnabled, q.kind = "context", NEW r \in edges, r \in Edge, GoesDown(q.conv, r)
      PROVE  GoesDown(q.conv, r)'
  <2>1. q.conv \in Conversation /\ r[1] \in Conversation /\ r[2] \in Conversation
    BY <1>1, <1>2, QueryFacts DEF Edge
  <2>2. CASE r[1] = q.conv /\ r[2] \in Descendants(q.conv)
    BY <1>2, <2>2, SeenStays DEF GoesDown
  <2>3. CASE r[2] = q.conv /\ r[1] \in Ancestors(q.conv)
    BY <1>2, <2>3, SeenStays DEF GoesDown
  <2>4. CASE r[1] \in Ancestors(q.conv) /\ r[2] \in Ancestors(q.conv) /\ Before(r[1], r[2])
    <3>1. Present(conv, r[1]) /\ Present(conv, r[2])
      BY <2>1, <2>4, RelativesArePresent
    <3>2. Before(r[1], r[2])'
      BY <1>2, <2>1, <2>4, <3>1, SeenStays
    <3>3. r[1] \in Ancestors(q.conv)' /\ r[2] \in Ancestors(q.conv)'
      BY <1>2, <2>4, SeenStays
    <3>. QED BY <3>2, <3>3 DEF GoesDown
  <2>. QED BY <1>2, <2>2, <2>3, <2>4 DEF GoesDown
<1>3. ASSUME SoftDeleteEnabled, NEW i \in DOMAIN rows, rows \in Seq(Conversation), Owns(q.user, rows[i])
      PROVE  Owns(q.user, rows[i])'
  <2>1. rows[i] \in Conversation
    BY <1>3
  <2>. QED BY <1>3, <2>1, SeenStays
<1>. QED BY <1>2, <1>3 DEF AnswerOK, NoneTwice

LEMMA NextKeepsReaders ==
  ASSUME ReadInv, [Next]_vars, UNCHANGED readVars
  PROVE  ReadInv'
<1>1. TypeOK' /\ LineageConsistent'
  BY TypeNext, LineageNext DEF ReadInv
<1>2. reading' = reading /\ response' = response
  BY DEF readVars
<1>3. ReadingOK'
  <2>1. SUFFICES ASSUME reading # None PROVE ReadingOK'
    BY <1>2 DEF ReadingOK
  <2>2. PICK hand : hand = reading
    OBVIOUS
  <2>. DEFINE q == hand.ask
  <2>3. /\ DOMAIN hand = {"ask", "up", "down"} /\ q \in Query
        /\ q.kind = "context" =>
             (hand.up # None => UpOK(q, hand.up)) /\ (hand.down # None => DownOK(q, hand.down))
        /\ q.kind = "nodes" => LookedUp(q, hand.up)
    BY <2>1, <2>2 DEF ReadInv, ReadingOK
  <2>4. ASSUME q.kind = "context", hand.up # None PROVE UpOK(q, hand.up)'
    BY <2>3, <2>4, QueryFacts, UpStays DEF ReadInv
  <2>5. ASSUME q.kind = "context", hand.down # None PROVE DownOK(q, hand.down)'
    BY <2>3, <2>5, DownStays DEF ReadInv
  <2>6. ASSUME q.kind = "nodes" PROVE LookedUp(q, hand.up)'
    BY <2>3, <2>6, QueryFacts, LookedUpStays DEF ReadInv
  <2>7. reading' = hand
    BY <1>2, <2>2
  <2>. QED BY <2>3, <2>4, <2>5, <2>6, <2>7 DEF ReadingOK
<1>4. ResponseOK'
  <2>1. SUFFICES ASSUME response # None PROVE ResponseOK'
    BY <1>2 DEF ResponseOK
  <2>2. PICK said : said = response
    OBVIOUS
  <2>3. AnswerOK(said.to, said.rows, said.edges)'
    BY <2>1, <2>2, AnswerStays DEF ReadInv, ResponseOK
  <2>. QED BY <1>2, <2>2, <2>3 DEF ResponseOK
<1>. QED BY <1>1, <1>3, <1>4 DEF ReadInv

-------------------------------------------------------------------------------
\* And so do the readers.

LEMMA ReplyKeeps ==
  ASSUME ReadInv, NEW q, NEW rows, NEW edges, Reply(q, rows, edges), AnswerOK(q, rows, edges)
  PROVE  ReadInv'
<1>1. UNCHANGED vars /\ reading' = None /\ response' = [to |-> q, rows |-> rows, edges |-> edges]
  BY DEF Reply
<1>2. TypeOK' /\ LineageConsistent'
  BY <1>1, TypeNext, LineageNext DEF ReadInv
<1>3. AnswerOK(q, rows, edges)'
  BY <1>1, AnswerStays DEF ReadInv
<1>4. ReadingOK'
  BY <1>1 DEF ReadingOK
<1>5. ResponseOK'
  BY <1>1, <1>3 DEF ResponseOK
<1>. QED BY <1>2, <1>4, <1>5 DEF ReadInv

\* The checks of a hand's content do not change while the graph does not.
LEMMA HandKeeps ==
  ASSUME ReadInv, UNCHANGED vars, NEW q \in Query, NEW up, NEW down,
         reading' = [ask |-> q, up |-> up, down |-> down],
         response' = response \/ response' = None,
         q.kind = "context" /\ up # None => UpOK(q, up),
         q.kind = "context" /\ down # None => DownOK(q, down),
         q.kind = "nodes" => LookedUp(q, up)
  PROVE  ReadInv'
<1>1. TypeOK' /\ LineageConsistent'
  BY TypeNext, LineageNext DEF ReadInv
<1>2. /\ q.kind = "context" /\ UpOK(q, up) => UpOK(q, up)'
      /\ DownOK(q, down) => DownOK(q, down)'
      /\ q.kind = "nodes" /\ LookedUp(q, up) => LookedUp(q, up)'
  BY QueryFacts, UpStays, DownStays, LookedUpStays DEF ReadInv
<1>3. ReadingOK'
  BY <1>2 DEF ReadingOK
<1>4. ResponseOK'
  <2>1. CASE response' = None
    BY <2>1 DEF ResponseOK
  <2>2. CASE response' = response /\ response # None
    <3>1. PICK said : said = response
      OBVIOUS
    <3>2. AnswerOK(said.to, said.rows, said.edges)
      BY <2>2, <3>1 DEF ReadInv, ResponseOK
    <3>3. AnswerOK(said.to, said.rows, said.edges)'
      BY <3>2, AnswerStays DEF ReadInv
    <3>. QED BY <2>2, <3>1, <3>3 DEF ResponseOK
  <2>. QED BY <2>1, <2>2 DEF ResponseOK
<1>. QED BY <1>1, <1>3, <1>4 DEF ReadInv

LEMMA NotFoundKeeps ==
  ASSUME ReadInv, NEW q \in Query, Reply(q, <<>>, {})
  PROVE  ReadInv'
<1>1. AnswerOK(q, <<>>, {})
  BY DEF AnswerOK, NoneTwice
<1>. QED BY <1>1, ReplyKeeps

\* A row of the traversal that is the caller's own.
LEMMA RelativesShown ==
  ASSUME TypeOK, NEW S \in SUBSET Conversation, NEW skip \in Nat, NEW limit \in Nat, NEW user
  PROVE  LET shown == OwnedBy(Page(Rows(S), skip, limit), user)
         IN /\ shown \in Seq(Conversation) /\ NoneTwice(shown)
            /\ \A i \in DOMAIN shown : Owns(user, shown[i]) /\ shown[i] \in S
            /\ \A i, j \in DOMAIN shown : i < j => Before(shown[i], shown[j])
<1>. DEFINE shown == OwnedBy(Page(Rows(S), skip, limit), user)
<1>1. /\ shown \in Seq(S)
      /\ \A i \in DOMAIN shown : Owns(user, shown[i])
      /\ \A i, j \in DOMAIN shown : i < j => Before(shown[i], shown[j])
      /\ \A i, j \in DOMAIN shown : shown[i] = shown[j] => i = j
  BY ShownRows
<1>. HIDE DEF shown
<1>2. /\ shown \in Seq(Conversation) /\ NoneTwice(shown)
      /\ \A i \in DOMAIN shown : Owns(user, shown[i]) /\ shown[i] \in S
      /\ \A i, j \in DOMAIN shown : i < j => Before(shown[i], shown[j])
  BY <1>1 DEF NoneTwice
<1>. QED BY <1>2 DEF shown

LEMMA ListKeeps ==
  ASSUME ReadInv, NEW kind \in ListKind, NEW S \in SUBSET Conversation, RespondList(kind, S)
  PROVE  ReadInv'
<1>1. PICK q : q = reading.ask
  OBVIOUS
<1>2. q \in Query /\ q.kind = kind /\ q.skip \in Nat /\ q.limit \in Nat
  BY <1>1, QueryFacts DEF RespondList, Asked, ReadInv, ReadingOK
<1>. DEFINE shown == OwnedBy(Page(Rows(S), q.skip, q.limit), q.user)
<1>3. Reply(q, shown, {})
  BY <1>1 DEF RespondList
<1>4. shown \in Seq(Conversation) /\ \A i \in DOMAIN shown : Owns(q.user, shown[i])
  BY <1>2, RelativesShown DEF ReadInv
<1>. HIDE DEF shown
<1>5. AnswerOK(q, shown, {})
  BY <1>2, <1>4 DEF AnswerOK, ListKind
<1>. QED BY <1>3, <1>5, ReplyKeeps

LEMMA ParentKeeps ==
  ASSUME ReadInv, RespondParent
  PROVE  ReadInv'
<1>1. PICK q : q = reading.ask
  OBVIOUS
<1>2. q \in Query /\ q.kind = "parent"
  BY <1>1 DEF RespondParent, Asked, ReadInv, ReadingOK
<1>3. CASE \E p \in Parents(q.conv) : conv[p].user = q.user /\ Reply(q, <<p>>, {})
  <2>1. PICK p \in Parents(q.conv) : conv[p].user = q.user /\ Reply(q, <<p>>, {})
    BY <1>3
  <2>2. p \in Conversation /\ q.conv \in Conversation /\ <<p, q.conv>> \in hasChild
    BY <1>2, QueryFacts DEF Parents, ReadInv, LineageConsistent
  <2>3. Owns(q.user, p)
    BY <2>1, <2>2 DEF Owns, ReadInv, LineageConsistent
  <2>4. AnswerOK(q, <<p>>, {})
    BY <1>2, <2>2, <2>3 DEF AnswerOK
  <2>. QED BY <2>1, <2>4, ReplyKeeps
<1>4. CASE NotFound(q)
  BY <1>2, <1>4, NotFoundKeeps DEF NotFound
<1>. QED BY <1>1, <1>3, <1>4 DEF RespondParent

LEMMA MemoryKeeps ==
  ASSUME ReadInv, RespondMemory
  PROVE  ReadInv'
<1>1. PICK q : q = reading.ask
  OBVIOUS
<1>2. q \in Query /\ q.kind = "memory"
  BY <1>1 DEF RespondMemory, Asked, ReadInv, ReadingOK
<1>3. CASE \E p : Reply(q, p, {})
  <2>1. \A p : AnswerOK(q, p, {})
    BY <1>2 DEF AnswerOK
  <2>. QED BY <1>3, <2>1, ReplyKeeps
<1>4. CASE NotFound(q)
  BY <1>2, <1>4, NotFoundKeeps DEF NotFound
<1>. QED BY <1>1, <1>3, <1>4 DEF RespondMemory

LEMMA AdmissionKeeps ==
  ASSUME ReadInv, NEW q \in RestQuery \cup ContextQuery, Refuse(q) \/ Details(q) \/ Admit(q)
  PROVE  ReadInv'
<1>1. q \in Query /\ q.kind # "nodes"
  BY DEF Query, RestQuery, ContextQuery, ListKind
<1>2. CASE Refuse(q)
  BY <1>1, <1>2, NotFoundKeeps DEF Refuse, NotFound
<1>3. CASE Details(q)
  <2>1. Reply(q, <<q.conv>>, {}) /\ q.kind = "details" /\ Owns(q.user, q.conv) /\ q.conv \in Conversation
    BY <1>1, <1>3, QueryFacts DEF Details
  <2>2. AnswerOK(q, <<q.conv>>, {})
    BY <1>1, <2>1 DEF AnswerOK
  <2>. QED BY <2>1, <2>2, ReplyKeeps
<1>4. CASE Admit(q)
  <2>1. /\ reading' = [ask |-> q, up |-> None, down |-> None]
        /\ response' = None /\ UNCHANGED vars
    BY <1>4 DEF Admit
  <2>. QED BY <1>1, <2>1, HandKeeps
<1>. QED BY <1>2, <1>3, <1>4

LEMMA NodesAskedKeeps ==
  ASSUME ReadInv, NEW q \in NodesQuery, RefuseNodes(q) \/ AskNodes(q)
  PROVE  ReadInv'
<1>1. q \in Query /\ q.kind = "nodes"
  BY DEF Query, NodesQuery
<1>2. CASE RefuseNodes(q)
  BY <1>1, <1>2, NotFoundKeeps DEF RefuseNodes
<1>3. CASE AskNodes(q)
  <2>. DEFINE none == [i \in DOMAIN q.ids |-> None]
  <2>1. /\ reading' = [ask |-> q, up |-> none, down |-> None]
        /\ response' = None /\ UNCHANGED vars
    BY <1>3 DEF AskNodes
  <2>2. LookedUp(q, none)
    BY DEF LookedUp
  <2>. HIDE DEF none
  <2>. QED BY <1>1, <2>1, <2>2, HandKeeps
<1>. QED BY <1>2, <1>3

LEMMA LookUpKeeps ==
  ASSUME ReadInv, NEW i, LookUp(i)
  PROVE  ReadInv'
<1>1. PICK hand : hand = reading
  OBVIOUS
<1>. DEFINE q    == hand.ask
            mine == Owns(q.user, q.ids[i])
            up   == [hand.up EXCEPT ![i] = mine]
<1>2. /\ DOMAIN hand = {"ask", "up", "down"} /\ q \in Query /\ q.kind = "nodes"
      /\ LookedUp(q, hand.up) /\ i \in DOMAIN hand.up
  BY <1>1 DEF LookUp, Asked, ReadInv, ReadingOK
<1>3. reading' = [hand EXCEPT !.up[i] = mine] /\ UNCHANGED <<vars, response>>
  BY <1>1 DEF LookUp
<1>4. reading' = [ask |-> q, up |-> up, down |-> hand.down]
  BY <1>2, <1>3
<1>5. mine \in BOOLEAN
  BY DEF Owns
<1>6. LookedUp(q, up)
  <2>1. DOMAIN up = DOMAIN q.ids
    BY <1>2 DEF LookedUp
  <2>2. ASSUME NEW k \in DOMAIN up, up[k] # None
        PROVE  up[k] \in BOOLEAN /\ (SoftDeleteEnabled /\ up[k] => Owns(q.user, q.ids[k]))
    <3>1. CASE k = i
      <4>1. up[k] = mine
        BY <1>2, <3>1
      <4>. HIDE DEF up
      <4>. QED BY <1>5, <3>1, <4>1
    <3>2. CASE k # i
      <4>1. up[k] = hand.up[k] /\ k \in DOMAIN hand.up
        BY <1>2, <3>2
      <4>. HIDE DEF up
      <4>. QED BY <1>2, <2>2, <4>1 DEF LookedUp
    <3>. QED BY <3>1, <3>2
  <2>. HIDE DEF up
  <2>. QED BY <2>1, <2>2 DEF LookedUp
<1>. HIDE DEF up
<1>. QED BY <1>2, <1>3, <1>4, <1>6, HandKeeps

LEMMA NodesAnsweredKeeps ==
  ASSUME ReadInv, RespondNodes
  PROVE  ReadInv'
<1>1. PICK hand : hand = reading
  OBVIOUS
<1>. DEFINE q     == hand.ask
            found == {i \in DOMAIN hand.up : hand.up[i]}
            owned == Ascending(found)
            rows  == [k \in DOMAIN owned |-> q.ids[owned[k]]]
<1>2. /\ q \in Query /\ q.kind = "nodes" /\ q.ids \in Seq(Conversation)
      /\ LookedUp(q, hand.up) /\ \A i \in DOMAIN hand.up : hand.up[i] # None
  BY <1>1, QueryFacts DEF RespondNodes, Asked, ReadInv, ReadingOK
<1>3. Reply(q, rows, {})
  BY <1>1 DEF RespondNodes
<1>4. /\ found \in SUBSET (1 .. Len(q.ids)) /\ Len(q.ids) \in Nat
      /\ SoftDeleteEnabled => \A i \in found : Owns(q.user, q.ids[i])
  <2>1. DOMAIN hand.up = 1 .. Len(q.ids) /\ Len(q.ids) \in Nat
    BY <1>2, LenProperties DEF LookedUp
  <2>2. \A i \in found : i \in DOMAIN hand.up /\ hand.up[i]
    OBVIOUS
  <2>3. found \in SUBSET (1 .. Len(q.ids))
    BY <2>1, <2>2, Zenon
  <2>. HIDE DEF found
  <2>. QED BY <1>2, <2>1, <2>2, <2>3 DEF LookedUp
<1>. HIDE DEF found
<1>5. Cardinality(found) \in Nat /\ owned \in [1 .. Cardinality(found) -> found]
  <2>1. found \in SUBSET Nat
    BY <1>4
  <2>2. IsFiniteSet(found)
    <3>1. IsFiniteSet(1 .. Len(q.ids))
      BY <1>4, FS_Interval
    <3>. QED BY <1>4, <3>1, FS_Subset
  <2>3. owned = InOrder(found, LessOn(found)) /\ StrictOrder(LessOn(found), found)
    BY <2>1, LessIsStrict DEF Ascending, LessOn
  <2>. HIDE DEF owned
  <2>4. Cardinality(found) \in Nat /\ Lists(owned, Cardinality(found), found, LessOn(found))
    BY <2>2, <2>3, InOrderLists
  <2>. QED BY <2>4 DEF Lists
<1>. HIDE DEF owned
<1>6. \A k \in 1 .. Cardinality(found) : owned[k] \in found /\ q.ids[owned[k]] \in Conversation
  <2>1. \A i \in 1 .. Len(q.ids) : q.ids[i] \in Conversation
    BY <1>2
  <2>. QED BY <1>4, <1>5, <2>1
<1>7. /\ rows \in Seq(Conversation)
      /\ SoftDeleteEnabled => \A k \in DOMAIN rows : Owns(q.user, rows[k])
  <2>1. DOMAIN owned = 1 .. Cardinality(found)
    BY <1>5
  <2>2. DOMAIN rows = 1 .. Cardinality(found)
    BY <2>1
  <2>3. \A k \in 1 .. Cardinality(found) : rows[k] = q.ids[owned[k]]
    BY <2>1
  <2>4. rows \in [1 .. Cardinality(found) -> Conversation]
    BY <1>6, <2>1
  <2>. HIDE DEF rows
  <2>5. rows \in Seq(Conversation)
    BY <1>5, <2>4
  <2>. QED BY <1>4, <1>6, <2>2, <2>3, <2>5
<1>. HIDE DEF rows
<1>8. AnswerOK(q, rows, {})
  BY <1>2, <1>7 DEF AnswerOK
<1>. QED BY <1>3, <1>8, ReplyKeeps

LEMMA UpKeeps ==
  ASSUME ReadInv, ReadUp
  PROVE  ReadInv'
<1>1. PICK hand : hand = reading
  OBVIOUS
<1>. DEFINE q  == hand.ask
            c  == q.conv
            up == OwnedBy(Page(Rows(Ancestors(c)), 0, RowLimit(q)), q.user)
<1>2. /\ DOMAIN hand = {"ask", "up", "down"} /\ q \in Query /\ q.kind = "context"
      /\ hand.down # None => DownOK(q, hand.down)
  BY <1>1 DEF ReadUp, Asked, ReadInv, ReadingOK
<1>3. reading' = [hand EXCEPT !.up = up] /\ UNCHANGED <<vars, response>>
  BY <1>1 DEF ReadUp, Relatives
<1>4. reading' = [ask |-> q, up |-> up, down |-> hand.down]
  <2>. HIDE DEF up
  <2>. QED BY <1>2, <1>3
<1>5. c \in Conversation /\ RowLimit(q) \in Nat /\ Ancestors(c) \in SUBSET Conversation
  BY <1>2, QueryFacts, ReachedType DEF Ancestors
<1>6. /\ up \in Seq(Conversation) /\ NoneTwice(up)
      /\ \A i \in DOMAIN up : Owns(q.user, up[i]) /\ up[i] \in Ancestors(c)
      /\ \A i, j \in DOMAIN up : i < j => Before(up[i], up[j])
  BY <1>5, RelativesShown DEF ReadInv
<1>. HIDE DEF up
<1>7. \A a \in Ancestors(c) : Age[a] < Age[c]
  BY <1>5, AgeIsOlder, LineageIsOneTree, AncestorsAreOlder DEF ReadInv
<1>8. UpOK(q, up)
  BY <1>6, <1>7 DEF UpOK, SeenAbove
<1>. QED BY <1>2, <1>3, <1>4, <1>8, HandKeeps

LEMMA DownKeeps ==
  ASSUME ReadInv, ReadDown
  PROVE  ReadInv'
<1>1. PICK hand : hand = reading
  OBVIOUS
<1>. DEFINE q    == hand.ask
            c    == q.conv
            down == OwnedBy(Page(Rows(Descendants(c)), 0, RowLimit(q)), q.user)
<1>2. /\ DOMAIN hand = {"ask", "up", "down"} /\ q \in Query /\ q.kind = "context"
      /\ hand.up # None => UpOK(q, hand.up)
  BY <1>1 DEF ReadDown, Asked, ReadInv, ReadingOK
<1>3. reading' = [hand EXCEPT !.down = down] /\ UNCHANGED <<vars, response>>
  BY <1>1 DEF ReadDown, Relatives
<1>4. reading' = [ask |-> q, up |-> hand.up, down |-> down]
  <2>. HIDE DEF down
  <2>. QED BY <1>2, <1>3
<1>5. c \in Conversation /\ RowLimit(q) \in Nat /\ Descendants(c) \in SUBSET Conversation
  BY <1>2, QueryFacts, ReachedType DEF Descendants
<1>6. /\ down \in Seq(Conversation) /\ NoneTwice(down)
      /\ \A i \in DOMAIN down : Owns(q.user, down[i]) /\ down[i] \in Descendants(c)
  BY <1>5, RelativesShown DEF ReadInv
<1>. HIDE DEF down
<1>7. ASSUME NEW d \in Descendants(c) PROVE Age[c] < Age[d]
  <2>1. OneTree /\ Older(Age) /\ d \in Conversation
    BY <1>5, AgeIsOlder, LineageIsOneTree DEF ReadInv
  <2>2. c \in Ancestors(d)
    BY <1>5, <2>1, DescendantsMirrorAncestors
  <2>. QED BY <2>1, <2>2, AncestorsAreOlder
<1>8. DownOK(q, down)
  BY <1>6, <1>7 DEF DownOK, SeenBelow
<1>. QED BY <1>2, <1>3, <1>4, <1>8, HandKeeps

\* The nodes and relationships of a context, from what its two traversals saw.
LEMMA ContextKeeps ==
  ASSUME ReadInv, RespondContext
  PROVE  ReadInv'
<1>1. PICK hand : hand = reading
  OBVIOUS
<1>. DEFINE q     == hand.ask
            c     == q.conv
            up    == hand.up
            down  == hand.down
            chain == Append(up, c)
            rows  == up \o down
            edges == {<<chain[i], chain[i + 1]>> : i \in DOMAIN up}
                       \cup {<<c, down[i]>> : i \in DOMAIN down}
<1>2. q \in Query /\ q.kind = "context" /\ UpOK(q, up) /\ DownOK(q, down)
  BY <1>1 DEF RespondContext, Asked, ReadInv, ReadingOK
<1>3. Reply(q, rows, edges)
  BY <1>1 DEF RespondContext
<1>. HIDE DEF q, up, down
<1>4. /\ c \in Conversation /\ Age[c] \in Nat
      /\ up \in Seq(Conversation) /\ down \in Seq(Conversation)
      /\ Len(up) \in Nat /\ Len(down) \in Nat
      /\ DOMAIN up = 1 .. Len(up) /\ DOMAIN down = 1 .. Len(down)
  BY <1>2, QueryFacts, AgeType, LenProperties DEF UpOK, DownOK
<1>5. /\ \A i \in 1 .. Len(up) : up[i] \in Conversation /\ Age[up[i]] \in Nat /\ Age[up[i]] < Age[c]
      /\ \A i \in 1 .. Len(down) :
           down[i] \in Conversation /\ Age[down[i]] \in Nat /\ Age[c] < Age[down[i]]
      /\ \A i, j \in 1 .. Len(up) : up[i] = up[j] => i = j
      /\ \A i, j \in 1 .. Len(down) : down[i] = down[j] => i = j
  <2>1. /\ \A i \in DOMAIN up : up[i] \in Conversation
        /\ \A i \in DOMAIN down : down[i] \in Conversation
    BY <1>4
  <2>2. /\ \A i \in DOMAIN up : Age[up[i]] < Age[c]
        /\ \A i \in DOMAIN down : Age[c] < Age[down[i]]
        /\ \A i, j \in DOMAIN up : up[i] = up[j] => i = j
        /\ \A i, j \in DOMAIN down : down[i] = down[j] => i = j
    BY <1>2 DEF UpOK, DownOK, NoneTwice
  <2>. QED BY <1>4, <2>1, <2>2, AgeType, Zenon
<1>6. /\ rows \in Seq(Conversation) /\ Len(rows) = Len(up) + Len(down)
      /\ DOMAIN rows = 1 .. Len(up) + Len(down)
      /\ \A i \in 1 .. Len(up) + Len(down) :
           rows[i] = IF i <= Len(up) THEN up[i] ELSE down[i - Len(up)]
  <2>1. /\ rows \in Seq(Conversation) /\ Len(rows) = Len(up) + Len(down)
        /\ \A i \in 1 .. Len(up) + Len(down) :
             rows[i] = IF i <= Len(up) THEN up[i] ELSE down[i - Len(up)]
    BY <1>4, ConcatProperties
  <2>. HIDE DEF rows
  <2>2. DOMAIN rows = 1 .. Len(rows)
    BY <2>1, LenProperties
  <2>. QED BY <2>1, <2>2
<1>7. ASSUME NEW i \in 1 .. Len(up) + Len(down)
      PROVE  \/ i \in 1 .. Len(up) /\ rows[i] = up[i]
             \/ i - Len(up) \in 1 .. Len(down) /\ rows[i] = down[i - Len(up)]
  <2>1. CASE i <= Len(up)
    <3>1. i \in 1 .. Len(up)
      BY <1>4, <2>1
    <3>. QED BY <1>6, <2>1, <3>1
  <2>2. CASE ~ (i <= Len(up))
    <3>1. i - Len(up) \in 1 .. Len(down)
      BY <1>4, <2>2
    <3>. QED BY <1>6, <2>2, <3>1
  <2>. QED BY <2>1, <2>2
<1>8. SoftDeleteEnabled => \A r \in edges : r \in Edge /\ GoesDown(c, r)
  <2>1. SUFFICES ASSUME SoftDeleteEnabled, NEW r \in edges PROVE r \in Edge /\ GoesDown(c, r)
    BY Zenon
  <2>2. SeenAbove(q, up) /\ SeenBelow(q, down)
    BY <1>2, <2>1 DEF UpOK, DownOK
  <2>3. /\ \A i \in 1 .. Len(up) : up[i] \in Ancestors(c)
        /\ \A i, j \in 1 .. Len(up) : i < j => Before(up[i], up[j])
        /\ Len(up) \in Nat
    BY <1>4, <2>2, Zenon DEF SeenAbove
  <2>4. /\ \A i \in 1 .. Len(up) : chain[i] = up[i]
        /\ chain[Len(up) + 1] = c
    BY <1>4
  <2>5. CASE \E i \in DOMAIN up : r = <<chain[i], chain[i + 1]>>
    <3>1. PICK i \in 1 .. Len(up) : r = <<chain[i], chain[i + 1]>>
      BY <1>4, <2>5
    <3>. HIDE DEF chain, edges
    <3>2. CASE i = Len(up)
      <4>1. r = <<up[i], c>>
        BY <2>4, <3>1, <3>2
      <4>2. up[i] \in Ancestors(c) /\ up[i] \in Conversation /\ c \in Conversation
        BY <1>4, <1>5, <2>3
      <4>. QED BY <4>1, <4>2 DEF Edge, GoesDown
    <3>3. CASE i # Len(up)
      <4>1. i + 1 \in 1 .. Len(up) /\ i < i + 1
        BY <2>3, <3>3
      <4>2. r = <<up[i], up[i + 1]>>
        BY <2>4, <3>1, <4>1
      <4>3. /\ up[i] \in Ancestors(c) /\ up[i + 1] \in Ancestors(c)
            /\ Before(up[i], up[i + 1])
            /\ up[i] \in Conversation /\ up[i + 1] \in Conversation
        BY <1>5, <2>3, <4>1
      <4>. QED BY <4>2, <4>3 DEF Edge, GoesDown
    <3>. QED BY <3>2, <3>3
  <2>6. CASE \E i \in DOMAIN down : r = <<c, down[i]>>
    <3>1. PICK i \in 1 .. Len(down) : r = <<c, down[i]>>
      BY <1>4, <2>6
    <3>2. down[i] \in Descendants(c) /\ down[i] \in Conversation
      BY <1>4, <1>5, <2>2 DEF SeenBelow
    <3>. QED BY <1>4, <3>1, <3>2 DEF Edge, GoesDown
  <2>. QED BY <2>5, <2>6
<1>9. SoftDeleteEnabled => \A i \in DOMAIN rows : Owns(q.user, rows[i])
  <2>. HIDE DEF edges, rows
  <2>1. ASSUME SoftDeleteEnabled PROVE /\ \A i \in 1 .. Len(up) : Owns(q.user, up[i])
                                       /\ \A i \in 1 .. Len(down) : Owns(q.user, down[i])
    BY <1>2, <1>4, <2>1 DEF UpOK, DownOK, SeenAbove, SeenBelow
  <2>. QED BY <1>6, <1>7, <2>1
<1>10. /\ NoneTwice(rows)
       /\ \A i \in DOMAIN rows : rows[i] # c
  <2>. HIDE DEF edges, rows
  <2>1. ASSUME NEW i \in DOMAIN rows, NEW j \in DOMAIN rows, rows[i] = rows[j] PROVE i = j
    <3>1. i \in 1 .. Len(up) + Len(down) /\ j \in 1 .. Len(up) + Len(down)
      BY <1>6
    <3>2. CASE i \in 1 .. Len(up) /\ rows[i] = up[i] /\ j \in 1 .. Len(up) /\ rows[j] = up[j]
      BY <1>5, <2>1, <3>2
    <3>3. CASE /\ i - Len(up) \in 1 .. Len(down) /\ rows[i] = down[i - Len(up)]
               /\ j - Len(up) \in 1 .. Len(down) /\ rows[j] = down[j - Len(up)]
      <4>1. i - Len(up) = j - Len(up)
        BY <1>5, <2>1, <3>3
      <4>. QED BY <1>4, <3>1, <4>1
    <3>4. CASE \/ /\ i \in 1 .. Len(up) /\ rows[i] = up[i]
                  /\ j - Len(up) \in 1 .. Len(down) /\ rows[j] = down[j - Len(up)]
               \/ /\ j \in 1 .. Len(up) /\ rows[j] = up[j]
                  /\ i - Len(up) \in 1 .. Len(down) /\ rows[i] = down[i - Len(up)]
      <4>1. \A k \in 1 .. Len(up), l \in 1 .. Len(down) : up[k] # down[l]
        BY <1>4, <1>5
      <4>. QED BY <2>1, <3>4, <4>1
    <3>. QED BY <1>7, <3>1, <3>2, <3>3, <3>4
  <2>2. ASSUME NEW i \in DOMAIN rows PROVE rows[i] # c
    <3>1. \A k \in 1 .. Len(up) : up[k] # c
      BY <1>4, <1>5
    <3>2. \A k \in 1 .. Len(down) : down[k] # c
      BY <1>4, <1>5
    <3>. QED BY <1>6, <1>7, <3>1, <3>2
  <2>. QED BY <2>1, <2>2 DEF NoneTwice
<1>11. AnswerOK(q, rows, edges)
  <2>. HIDE DEF edges, rows
  <2>. QED BY <1>2, <1>6, <1>8, <1>9, <1>10 DEF AnswerOK
<1>. HIDE DEF edges, rows
<1>. QED BY <1>3, <1>11, ReplyKeeps

LEMMA ReadKeeps ==
  ASSUME ReadInv, Read
  PROVE  ReadInv'
<1>1. CASE \E q \in RestQuery \cup ContextQuery : Refuse(q) \/ Details(q) \/ Admit(q)
  BY <1>1, AdmissionKeeps
<1>2. CASE \E q \in NodesQuery : RefuseNodes(q) \/ AskNodes(q)
  BY <1>2, NodesAskedKeeps
<1>3. CASE \E i \in 1 .. MaxNodeIds : LookUp(i)
  BY <1>3, LookUpKeeps
<1>4. CASE RespondNodes
  BY <1>4, NodesAnsweredKeeps
<1>5. ASSUME NEW kind \in ListKind, NEW S \in SUBSET Conversation, RespondList(kind, S)
      PROVE  ReadInv'
  BY <1>5, ListKeeps
<1>6. /\ Children(reading.ask.conv) \in SUBSET Conversation
      /\ Ancestors(reading.ask.conv) \in SUBSET Conversation
      /\ Descendants(reading.ask.conv) \in SUBSET Conversation
  BY ReachedType DEF Children, Ancestors, Descendants
<1>7. CASE \/ RespondList("children", Children(reading.ask.conv))
           \/ RespondList("ancestors", Ancestors(reading.ask.conv))
           \/ RespondList("descendants", Descendants(reading.ask.conv))
  BY <1>5, <1>6, <1>7 DEF ListKind
<1>8. CASE RespondParent \/ RespondMemory
  BY <1>8, ParentKeeps, MemoryKeeps
<1>9. CASE ReadUp \/ ReadDown
  BY <1>9, UpKeeps, DownKeeps
<1>10. CASE RespondContext
  BY <1>10, ContextKeeps
<1>. QED BY <1>1, <1>2, <1>3, <1>4, <1>7, <1>8, <1>9, <1>10 DEF Read

LEMMA ReadInvHolds == ReadSpec => []ReadInv
<1>1. ReadInit => ReadInv
  <2>1. Init => TypeOK /\ LineageConsistent
    BY TypeInit DEF Init, LineageConsistent
  <2>. QED BY <2>1 DEF ReadInit, ReadInv, ReadingOK, ResponseOK
<1>2. ReadInv /\ [ReadNext]_allVars => ReadInv'
  <2>1. CASE UNCHANGED allVars
    BY <2>1, NextKeepsReaders DEF allVars
  <2>. QED BY <2>1, NextKeepsReaders, ReadKeeps DEF ReadNext
<1>. QED BY <1>1, <1>2, PTL DEF ReadSpec

(* Whatever deletion does, and whatever is handled between the two traversals
   of a context, nobody is above and below, or listed twice. *)
THEOREM LineageNeverTurnsRound == ReadSpec => []ContextNamesNobodyTwice
<1>1. ReadInv => ContextNamesNobodyTwice
  BY DEF ReadInv, ResponseOK, AnswerOK, NoneTwice, Context, ContextNamesNobodyTwice
<1>. QED BY <1>1, ReadInvHolds, PTL

(* Under soft deletion no response shows a caller what is not his, for as long
   as he holds it. *)
THEOREM CallersSeeTheirOwn == SoftDeleteEnabled /\ ReadSpec => []AnswersAreTheCallers
<1>1. SoftDeleteEnabled /\ ReadInv => AnswersAreTheCallers
  BY DEF ReadInv, ResponseOK, AnswerOK, AnswersAreTheCallers
<1>2. CASE SoftDeleteEnabled
  BY <1>1, <1>2, ReadInvHolds, PTL
<1>3. CASE ~SoftDeleteEnabled
  BY <1>3
<1>. QED BY <1>2, <1>3

(* Under soft deletion the relationships of a context go down the lineage when
   its creation times do. *)
THEOREM ContextsFollowTheLineage == SoftDeleteEnabled /\ ReadSpec => []ContextFollowsLineage
<1>1. ASSUME SoftDeleteEnabled, ReadInv PROVE ContextFollowsLineage
  <2>1. SUFFICES ASSUME Context, Chronological(response.to.conv), NEW r \in response.edges
                 PROVE  r[2] \in Descendants(r[1])
    BY DEF ContextFollowsLineage
  <2>2. PICK c : c = response.to.conv
    OBVIOUS
  <2>3. GoesDown(c, r) /\ c \in Conversation /\ r \in Edge
    BY <1>1, <2>1, <2>2, QueryFacts DEF ReadInv, ResponseOK, AnswerOK, Context
  <2>4. CASE r[1] = c /\ r[2] \in Descendants(c)
    BY <2>4
  <2>5. CASE \E a : a \in Ancestors(c)
    <3>1. \A x \in {c} \cup Ancestors(c) : Present(conv, x)
      BY <1>1, <2>3, <2>5, RelativesArePresent DEF ReadInv
    <3>2. OneTree
      BY <1>1, LineageIsOneTree DEF ReadInv
    <3>. QED BY <1>1, <2>1, <2>2, <2>3, <3>1, <3>2, GoesDownTheLineage DEF ReadInv
  <2>. QED BY <2>3, <2>4, <2>5 DEF GoesDown
<1>2. CASE SoftDeleteEnabled
  BY <1>1, <1>2, ReadInvHolds, PTL
<1>3. CASE ~SoftDeleteEnabled
  BY <1>3
<1>. QED BY <1>2, <1>3

-------------------------------------------------------------------------------
\* Pages of a list that changes between them.

\* What a listing is: rows of the graph, in order, each once.
Sorted(rows) ==
  /\ rows \in Seq(Conversation)
  /\ \A i \in DOMAIN rows : Present(conv, rows[i])
  /\ \A i, j \in DOMAIN rows : i < j <=> Before(rows[i], rows[j])

ListingsSorted == \A l \in Pageable : Sorted(Listing(l))

\* Before, between conversations that are there, is a strict order.
BeforeOrders ==
  /\ \A c \in Conversation : Present(conv, c) => ~Before(c, c)
  /\ \A c, d \in Conversation : Present(conv, c) /\ Present(conv, d) =>
       /\ Before(c, d) => ~Before(d, c)
       /\ c = d \/ Before(c, d) \/ Before(d, c)
  /\ \A c, d, e \in Conversation :
       Present(conv, c) /\ Present(conv, d) /\ Present(conv, e)
         /\ Before(c, d) /\ Before(d, e) => Before(c, e)

LEMMA BeforeIsOrder == TypeOK => BeforeOrders
<1>. SUFFICES ASSUME TypeOK PROVE BeforeOrders
  OBVIOUS
<1>. DEFINE S == {c \in Conversation : Present(conv, c)}
<1>1. StrictOrder(BeforeOn(S), S)
  BY BeforeIsStrict
<1>2. \A c, d \in S : <<c, d>> \in BeforeOn(S) <=> Before(c, d)
  BY DEF BeforeOn
<1>3. \A c \in Conversation : c \in S <=> Present(conv, c)
  OBVIOUS
<1>. HIDE DEF S
<1>4. /\ \A c \in S : ~Before(c, c)
      /\ \A c, d, e \in S : Before(c, d) /\ Before(d, e) => Before(c, e)
      /\ \A c, d \in S : c = d \/ Before(c, d) \/ Before(d, c)
  BY <1>1, <1>2 DEF StrictOrder
<1>. QED BY <1>3, <1>4 DEF BeforeOrders

LEMMA KinType ==
  ASSUME NEW l \in Pageable
  PROVE  /\ Kin(l) \in SUBSET Conversation
         /\ l.conv \in Conversation /\ l.limit \in Nat \ {0}
<1>1. l.kind \in ListKind /\ l.conv \in Conversation /\ l.limit \in Nat \ {0}
  BY PagingAssumption, ReadAssumption
<1>2. /\ Children(l.conv) \in SUBSET Conversation
      /\ Ancestors(l.conv) \in SUBSET Conversation
      /\ Descendants(l.conv) \in SUBSET Conversation
  BY ReachedType DEF Children, Ancestors, Descendants
<1>. QED BY <1>1, <1>2 DEF Kin, ListKind

LEMMA ListingsAreSorted == TypeOK => ListingsSorted
<1>. SUFFICES ASSUME TypeOK, NEW l \in Pageable PROVE Sorted(Listing(l))
  BY DEF ListingsSorted
<1>. DEFINE rows == Listing(l)
<1>1. /\ rows \in Seq(Listed(Kin(l)))
      /\ \A i, j \in DOMAIN rows : i < j => Before(rows[i], rows[j])
  BY KinType, RowsAreTheListed DEF Listing
<1>. HIDE DEF rows
<1>2. \A c \in Listed(Kin(l)) : c \in Conversation /\ Present(conv, c)
  BY KinType DEF Listed, Navigable
<1>3. \A i \in DOMAIN rows : i \in Nat /\ rows[i] \in Listed(Kin(l))
  BY <1>1
<1>4. rows \in Seq(Conversation)
  BY <1>1, <1>2
<1>5. ASSUME NEW i \in DOMAIN rows, NEW j \in DOMAIN rows, Before(rows[i], rows[j])
      PROVE  i < j
  <2>1. rows[i] \in Conversation /\ rows[j] \in Conversation
        /\ Present(conv, rows[i]) /\ Present(conv, rows[j])
    BY <1>2, <1>3
  <2>2. rows[i] # rows[j] /\ ~Before(rows[j], rows[i])
    BY <1>5, <2>1, BeforeIsOrder DEF BeforeOrders
  <2>. QED BY <1>1, <1>3, <2>2
<1>. QED BY <1>1, <1>2, <1>3, <1>4, <1>5 DEF Sorted, rows

LEMMA OrderStays ==
  ASSUME SoftDeleteEnabled, TypeOK, [Next]_vars,
         NEW c \in Conversation, NEW d \in Conversation, Present(conv, c), Present(conv, d)
  PROVE  Before(c, d)' <=> Before(c, d)
<1>1. conv'[c].created = conv[c].created /\ conv'[d].created = conv[d].created
  BY PresentKeeps
<1>. QED BY <1>1 DEF Before, IdRank

\* Whoever stands in both of two sequences with the same order, behind none but
\* such, stands no nearer to the head of the second.
LEMMA RanksGrow ==
  ASSUME NEW s, NEW t, NEW n \in Nat, DOMAIN t \in SUBSET (Nat \ {0}),
         \A i \in 1 .. n : \E k \in DOMAIN t : t[k] = s[i],
         \A i, j \in 1 .. n : \A k, l \in DOMAIN t :
           i < j /\ t[k] = s[i] /\ t[l] = s[j] => k < l,
         NEW i \in 1 .. n, NEW k \in DOMAIN t, t[k] = s[i]
  PROVE  i <= k
<1>. DEFINE bad == {j \in 1 .. n : \E l \in DOMAIN t : t[l] = s[j] /\ l < j}
<1>1. SUFFICES ASSUME k < i PROVE FALSE
  OBVIOUS
<1>2. PICK j \in bad : \A m \in bad : j <= m
  <2>1. bad \in SUBSET Nat /\ bad # {}
    BY <1>1
  <2>. HIDE DEF bad
  <2>. QED BY <2>1, HasLeast
<1>3. PICK l \in DOMAIN t : t[l] = s[j] /\ l < j
  BY <1>2
<1>4. j - 1 \in 1 .. n /\ j - 1 < j
  BY <1>3
<1>5. PICK m \in DOMAIN t : t[m] = s[j - 1]
  BY <1>4
<1>6. m < l
  BY <1>2, <1>3, <1>4, <1>5
<1>7. m < j - 1
  BY <1>3, <1>4, <1>6
<1>8. j - 1 \in bad
  BY <1>4, <1>5, <1>7
<1>. QED BY <1>2, <1>4, <1>8

\* Rows that were listed before and are listed after a handler's transaction.
LEMMA ListedTwice ==
  ASSUME SoftDeleteEnabled, TypeOK, [Next]_vars,
         NEW b, Sorted(b), NEW a, Sorted(a)',
         NEW i \in DOMAIN b, NEW j \in DOMAIN b, NEW k \in DOMAIN a, NEW l \in DOMAIN a,
         a[k] = b[i], a[l] = b[j]
  PROVE  i < j <=> k < l
<1>1. b[i] \in Conversation /\ b[j] \in Conversation /\ Present(conv, b[i]) /\ Present(conv, b[j])
  BY DEF Sorted
<1>2. Before(b[i], b[j])' <=> Before(b[i], b[j])
  BY <1>1, OrderStays
<1>3. i < j <=> Before(b[i], b[j])
  BY DEF Sorted
<1>4. k < l <=> Before(a[k], a[l])'
  BY DEF Sorted
<1>. QED BY <1>2, <1>3, <1>4

(* If nobody left the first n rows, nobody who was listed behind them came to
   stand among the first n. *)
LEMMA FrontStays ==
  ASSUME SoftDeleteEnabled, TypeOK, [Next]_vars,
         NEW b, Sorted(b), NEW a, Sorted(a)', NEW n \in Nat,
         Front(b, n) \subseteq Elements(a), NEW c \in Front(a, n), c \in Elements(b)
  PROVE  c \in Front(b, n)
<1>1. PICK k \in DOMAIN a \cap 1 .. n : a[k] = c
  BY DEF Front
<1>2. PICK i \in DOMAIN b : b[i] = c
  BY DEF Elements
<1>3. /\ b \in Seq(Conversation) /\ DOMAIN b = 1 .. Len(b) /\ Len(b) \in Nat
      /\ a \in Seq(Conversation) /\ DOMAIN a \in SUBSET (Nat \ {0})
  BY DEF Sorted
<1>4. SUFFICES ASSUME n < i PROVE FALSE
  BY <1>2, <1>3 DEF Front
<1>5. n \in 1 .. n /\ 1 .. n \in SUBSET (DOMAIN b)
  BY <1>1, <1>3, <1>4
<1>6. \A j \in 1 .. n : \E l \in DOMAIN a : a[l] = b[j]
  BY <1>5 DEF Front, Elements
<1>7. PICK m \in DOMAIN a : a[m] = b[n]
  BY <1>5, <1>6
<1>8. n <= m
  <2>1. \A j, p \in 1 .. n : \A l, q \in DOMAIN a : j < p /\ a[l] = b[j] /\ a[q] = b[p] => l < q
    BY <1>5, ListedTwice
  <2>. QED BY <1>3, <1>5, <1>6, <1>7, <2>1, RanksGrow
<1>9. m < k
  <2>1. n \in DOMAIN b
    BY <1>5
  <2>. QED BY <1>1, <1>2, <1>4, <1>7, <2>1, ListedTwice
<1>. QED BY <1>1, <1>3, <1>8, <1>9

(* If nobody joined the first n rows, none but they stand before one who had
   fewer than n rows before him. *)
LEMMA BehindStays ==
  ASSUME SoftDeleteEnabled, TypeOK, [Next]_vars,
         NEW b, Sorted(b), NEW a, Sorted(a)', NEW n \in Nat \ {0},
         Front(a, n) \subseteq Elements(b),
         NEW x \in Conversation, Present(conv, x),
         \A i \in DOMAIN b : Before(b[i], x) => i < n,
         NEW k \in DOMAIN a
  PROVE  /\ Before(a[k], x)' => k < n
         /\ a[k] = x => k <= n
<1>1. /\ b \in Seq(Conversation) /\ DOMAIN b \in SUBSET (Nat \ {0})
      /\ a \in Seq(Conversation) /\ DOMAIN a = 1 .. Len(a) /\ Len(a) \in Nat
  BY DEF Sorted
<1>2. ASSUME n \in DOMAIN a, Before(a[n], x)' PROVE FALSE
  <2>1. n \in 1 .. n /\ 1 .. n \in SUBSET (DOMAIN a)
    BY <1>1, <1>2
  <2>2. \A i \in 1 .. n : \E j \in DOMAIN b : b[j] = a[i]
    BY <2>1 DEF Front, Elements
  <2>3. PICK j \in DOMAIN b : b[j] = a[n]
    BY <2>1, <2>2
  <2>4. n <= j
    <3>1. \A i, p \in 1 .. n : \A l, q \in DOMAIN b : i < p /\ b[l] = a[i] /\ b[q] = a[p] => l < q
      BY <2>1, ListedTwice
    <3>. QED BY <1>1, <2>1, <2>2, <2>3, <3>1, RanksGrow
  <2>5. b[j] \in Conversation /\ Present(conv, b[j])
    BY DEF Sorted
  <2>6. Before(b[j], x)
    BY <1>2, <2>3, <2>5, OrderStays
  <2>7. j < n
    BY <2>6
  <2>. QED BY <1>1, <2>4, <2>7
<1>3. TypeOK' /\ Present(conv, x)'
  BY TypeNext, PresentKeeps
<1>4. BeforeOrders'
  BY <1>3, BeforeIsOrder, PTL
<1>5. \A i \in DOMAIN a : a[i] \in Conversation /\ Present(conv, a[i])'
  BY DEF Sorted
<1>6. ASSUME n < k PROVE n \in DOMAIN a /\ Before(a[n], a[k])'
  <2>1. n \in DOMAIN a
    BY <1>1, <1>6
  <2>. QED BY <1>6, <2>1 DEF Sorted
<1>7. Before(a[k], x)' => k < n
  <2>1. SUFFICES ASSUME Before(a[k], x)', n <= k PROVE FALSE
    BY <1>1
  <2>2. CASE n = k
    BY <1>2, <2>1, <2>2
  <2>3. CASE n < k
    <3>1. Before(a[n], x)'
      BY <1>3, <1>4, <1>5, <1>6, <2>1, <2>3 DEF BeforeOrders
    <3>. QED BY <1>2, <1>6, <2>3, <3>1
  <2>. QED BY <1>1, <2>1, <2>2, <2>3
<1>8. a[k] = x => k <= n
  <2>1. SUFFICES ASSUME a[k] = x, n < k PROVE FALSE
    BY <1>1
  <2>. QED BY <1>2, <1>6, <2>1
<1>. QED BY <1>7, <1>8

LEMMA ListingStands ==
  ASSUME UNCHANGED vars, NEW l
  PROVE  Listing(l)' = Listing(l)
<1>1. conv' = conv /\ hasChild' = hasChild /\ createdFrom' = createdFrom
  BY DEF vars
<1>2. Kin(l)' = Kin(l)
  BY <1>1 DEF Kin, Children, Ancestors, Descendants
<1>3. \A c : Navigable(c)' <=> Navigable(c)
  BY <1>1 DEF Navigable, Present
<1>4. \A c, d : Before(c, d)' <=> Before(c, d)
  BY <1>1 DEF Before, IdRank
<1>. QED BY <1>2, <1>3, <1>4 DEF Listing, Rows

\* A walk is one, and the request in its caller's hand is for its next page.
WalkOK ==
  walk # None =>
    /\ DOMAIN walk = {"list", "pages", "seen", "late", "gone"}
    /\ walk.list \in Pageable /\ walk.pages \in Nat
    /\ walk.seen \in Seq(Conversation) /\ walk.gone \in BOOLEAN
    /\ reading # None => reading.ask = NextPage

\* The caller has put behind him whom he was shown, and all who stand before them.
ShownLiesBehind ==
  walk # None /\ walk.late = {} =>
    \A j \in DOMAIN walk.seen :
      /\ Present(conv, walk.seen[j])
      /\ Position # 0
      /\ \A k \in DOMAIN Listing(walk.list) :
           /\ Before(Listing(walk.list)[k], walk.seen[j]) => k < Position
           /\ Listing(walk.list)[k] = walk.seen[j] => k <= Position

PagingInv == TypeOK /\ WalkOK /\ NobodyIsPassedOver /\ ShownLiesBehind /\ NobodyComesTwice

LEMMA PositionType ==
  ASSUME WalkOK, walk # None
  PROVE  Position \in Nat
<1>1. walk.pages \in Nat /\ walk.list.limit \in Nat
  BY KinType DEF WalkOK
<1>2. \A m, n \in Nat : m * n \in Nat
  OBVIOUS
<1>. QED BY <1>1, <1>2 DEF Position

LEMMA OneMore ==
  ASSUME NEW m \in Nat, NEW n \in Nat
  PROVE  (m + 1) * n = m * n + n
OBVIOUS

LEMMA MeanwhileKeeps ==
  ASSUME SoftDeleteEnabled, PagingInv, walk # None, NEW l \in Pageable, Meanwhile(l)
  PROVE  PagingInv'
<1>1. PICK b, a :
        /\ b = Listing(l) /\ a = Listing(l)'
        /\ walk' = [walk EXCEPT
             !.late = @ \cup (Front(a, Position) \ Elements(b)),
             !.gone = @ \/ ~(Front(b, Position) \subseteq Elements(a))]
  BY DEF Meanwhile
<1>2. PICK n \in Nat : n = Position
  BY PositionType DEF PagingInv
<1>3. /\ TypeOK /\ Next /\ [Next]_vars /\ UNCHANGED readVars /\ walk.list = l /\ WalkOK
  BY DEF PagingInv, Meanwhile
<1>4. TypeOK' /\ Sorted(b) /\ Sorted(a)'
  <2>1. TypeOK'
    BY <1>3, TypeNext
  <2>2. ListingsSorted /\ ListingsSorted'
    BY <1>3, <2>1, ListingsAreSorted, PTL
  <2>. QED BY <1>1, <2>1, <2>2 DEF ListingsSorted
<1>5. /\ DOMAIN walk' = {"list", "pages", "seen", "late", "gone"}
      /\ walk'.list = l /\ walk'.pages = walk.pages /\ walk'.seen = walk.seen
      /\ walk'.late = walk.late \cup (Front(a, n) \ Elements(b))
      /\ walk'.gone = (walk.gone \/ ~(Front(b, n) \subseteq Elements(a)))
      /\ walk.seen \in Seq(Conversation) /\ walk.pages \in Nat /\ walk.gone \in BOOLEAN
  BY <1>1, <1>2, <1>3 DEF WalkOK
<1>6. Position' = n /\ NextPage' = NextPage /\ reading' = reading /\ Listing(walk.list)' = a
  <2>1. walk'.pages = walk.pages /\ walk'.list = walk.list /\ reading' = reading
    BY <1>3, <1>5 DEF readVars
  <2>2. Position' = Position
    BY <2>1 DEF Position
  <2>3. NextPage' = NextPage
    BY <2>1, <2>2 DEF NextPage
  <2>4. Listing(walk.list)' = a
    BY <1>1, <1>5, <2>1 DEF Listing, Kin
  <2>. QED BY <1>2, <2>1, <2>2, <2>3, <2>4
<1>7. WalkOK'
  BY <1>3, <1>5, <1>6 DEF WalkOK
<1>8. NobodyIsPassedOver'
  <2>1. SUFFICES ASSUME ~walk'.gone, NEW c \in Front(a, n), conv'[c].user = l.user
                 PROVE  c \in Elements(walk'.seen) \cup walk'.late
    BY <1>5, <1>6 DEF NobodyIsPassedOver
  <2>2. ~walk.gone /\ Front(b, n) \subseteq Elements(a)
    BY <1>5, <2>1
  <2>3. CASE c \notin Elements(b)
    BY <1>5, <2>3
  <2>4. CASE c \in Elements(b)
    <3>1. c \in Front(b, n)
      BY <1>3, <1>4, <2>2, <2>4, FrontStays
    <3>2. c \in Conversation /\ Present(conv, c)
      BY <1>4, <2>4 DEF Sorted, Elements
    <3>3. conv[c].user = l.user
      BY <1>3, <2>1, <3>2, PresentKeeps
    <3>4. c \in Elements(walk.seen) \cup walk.late
      BY <1>1, <1>2, <1>3, <2>2, <3>1, <3>3 DEF PagingInv, NobodyIsPassedOver
    <3>. QED BY <1>5, <3>4 DEF Elements
  <2>. QED BY <2>3, <2>4
<1>9. ASSUME walk'.late = {}
      PROVE  walk.late = {} /\ Front(a, n) \subseteq Elements(b)
  BY <1>5, <1>9
<1>10. ASSUME walk'.late = {}, NEW j \in DOMAIN walk.seen
       PROVE  walk.seen[j] \in Conversation /\ Present(conv, walk.seen[j])
  BY <1>5, <1>9, <1>10 DEF PagingInv, ShownLiesBehind
<1>11. ShownLiesBehind'
  <2>1. SUFFICES ASSUME walk'.late = {}, NEW j \in DOMAIN walk.seen, NEW x, x = walk.seen[j]
                 PROVE  /\ Present(conv', x)
                        /\ n # 0
                        /\ \A k \in DOMAIN a : /\ Before(a[k], x)' => k < n
                                               /\ a[k] = x => k <= n
    BY <1>5, <1>6 DEF ShownLiesBehind
  <2>2. x = walk.seen[j]
    BY <2>1
  <2>3. x \in Conversation /\ Present(conv, x)
    BY <1>10, <2>1, <2>2
  <2>4. n # 0 /\ \A k \in DOMAIN b : Before(b[k], x) => k < n
    BY <1>1, <1>2, <1>3, <1>9, <2>1, <2>2 DEF PagingInv, ShownLiesBehind
  <2>5. Present(conv', x)
    BY <1>3, <2>3, PresentKeeps
  <2>6. \A k \in DOMAIN a : (Before(a[k], x)' => k < n) /\ (a[k] = x => k <= n)
    BY <1>3, <1>4, <1>9, <2>1, <2>3, <2>4, BehindStays
  <2>. QED BY <2>4, <2>5, <2>6
<1>12. NobodyComesTwice'
  <2>1. SUFFICES ASSUME walk'.late = {}, NEW i \in DOMAIN walk.seen, NEW j \in DOMAIN walk.seen, i < j
                 PROVE  Before(walk.seen[i], walk.seen[j])'
    BY <1>5 DEF NobodyComesTwice
  <2>2. Before(walk.seen[i], walk.seen[j])
    BY <1>9, <2>1 DEF PagingInv, NobodyComesTwice
  <2>3. PICK x, y : x = walk.seen[i] /\ y = walk.seen[j]
    OBVIOUS
  <2>4. x \in Conversation /\ y \in Conversation /\ Present(conv, x) /\ Present(conv, y)
    BY <1>10, <2>1, <2>3
  <2>. QED BY <1>3, <1>5, <2>2, <2>3, <2>4, OrderStays
<1>. QED BY <1>4, <1>7, <1>8, <1>11, <1>12, SMTT(20) DEF PagingInv

LEMMA ReadingKeeps ==
  ASSUME PagingInv, UNCHANGED <<vars, walk>>, reading' = None \/ reading'.ask = NextPage
  PROVE  PagingInv'
<1>1. TypeOK' /\ walk' = walk /\ conv' = conv
  BY TypeNext DEF PagingInv, vars
<1>2. Position' = Position /\ NextPage' = NextPage /\ Listing(walk.list)' = Listing(walk.list)
  <2>1. PICK l : l = walk.list
    OBVIOUS
  <2>2. Listing(l)' = Listing(l)
    BY ListingStands
  <2>. QED BY <1>1, <2>1, <2>2 DEF Position, NextPage
<1>3. WalkOK'
  BY <1>1, <1>2 DEF PagingInv, WalkOK
<1>4. \A c, d : Before(c, d)' <=> Before(c, d)
  BY <1>1 DEF Before, IdRank
<1>5. NobodyIsPassedOver'
  BY <1>1, <1>2 DEF PagingInv, NobodyIsPassedOver
<1>6. ShownLiesBehind'
  BY <1>1, <1>2, <1>4 DEF PagingInv, ShownLiesBehind, Present
<1>7. NobodyComesTwice'
  BY <1>1, <1>4 DEF PagingInv, NobodyComesTwice
<1>. QED BY <1>1, <1>3, <1>5, <1>6, <1>7 DEF PagingInv

LEMMA TakePageKeeps ==
  ASSUME PagingInv, TakePage
  PROVE  PagingInv'
<1>1. PICK w : w = walk
  OBVIOUS
<1>2. PICK rows, n, l : rows = Listing(w.list) /\ n = Position /\ l = w.list
  OBVIOUS
<1>. DEFINE new == OwnedBy(Page(rows, n, l.limit), l.user)
<1>3. /\ TypeOK /\ WalkOK /\ walk = w /\ w # None /\ reading # None
      /\ DOMAIN w = {"list", "pages", "seen", "late", "gone"}
      /\ l \in Pageable /\ w.list = l /\ w.pages \in Nat /\ w.seen \in Seq(Conversation)
      /\ w.gone \in BOOLEAN /\ n \in Nat /\ l.limit \in Nat \ {0}
  BY <1>1, <1>2, PositionType, KinType DEF PagingInv, WalkOK, TakePage
<1>4. reading.ask.skip = n /\ reading.ask.limit = l.limit /\ reading.ask.user = l.user
  BY <1>1, <1>2, <1>3 DEF WalkOK, NextPage
<1>5. Reply(reading.ask, new, {}) /\ walk' = [w EXCEPT !.pages = @ + 1, !.seen = @ \o response'.rows]
  BY <1>1, <1>2, <1>4 DEF TakePage
<1>6. UNCHANGED vars /\ reading' = None /\ response'.rows = new
  <2>. HIDE DEF new
  <2>. QED BY <1>5 DEF Reply
<1>7. Sorted(rows) /\ BeforeOrders
  <2>1. ListingsSorted
    BY <1>3, ListingsAreSorted
  <2>. QED BY <1>2, <1>3, <2>1, BeforeIsOrder DEF ListingsSorted
<1>8. /\ new \in Seq(Conversation)
      /\ \A i, j \in DOMAIN new : i < j => Before(new[i], new[j])
      /\ \A k \in DOMAIN new : \E i \in 1 .. l.limit : n + i \in DOMAIN rows /\ new[k] = rows[n + i]
      /\ \A i \in 1 .. l.limit :
           n + i \in DOMAIN rows /\ conv[rows[n + i]].user = l.user =>
             \E k \in DOMAIN new : new[k] = rows[n + i]
  <2>1. /\ new \in Seq(Kin(l))
        /\ \A i \in DOMAIN new : Owns(l.user, new[i])
        /\ \A i, j \in DOMAIN new : i < j => Before(new[i], new[j])
        /\ \A i, j \in DOMAIN new : new[i] = new[j] => i = j
    BY <1>2, <1>3, KinType, ShownRows DEF Listing
  <2>2. Shows(new, rows, n, l.limit, l.user)
    <3>1. rows \in Seq(Conversation)
      BY <1>7 DEF Sorted
    <3>2. n \in Nat /\ l.limit \in Nat
      BY <1>3
    <3>. QED BY <3>1, <3>2, ShownAre
  <2>. HIDE DEF new
  <2>3. new \in Seq(Conversation)
    BY <1>3, <2>1, KinType
  <2>. QED BY <2>1, <2>2, <2>3 DEF Shows
<1>. HIDE DEF new
<1>. DEFINE seen == w.seen \o new
<1>9. /\ DOMAIN walk' = {"list", "pages", "seen", "late", "gone"}
      /\ walk'.list = l /\ walk'.pages = w.pages + 1 /\ walk'.seen = seen
      /\ walk'.late = w.late /\ walk'.gone = w.gone
  BY <1>3, <1>5, <1>6
<1>10. Position' = n + l.limit /\ Listing(walk.list)' = rows /\ TypeOK' /\ conv' = conv
  <2>1. (w.pages + 1) * l.limit = w.pages * l.limit + l.limit
    BY <1>3, OneMore
  <2>2. n = w.pages * l.limit
    BY <1>1, <1>2, <1>3 DEF Position
  <2>3. Position' = n + l.limit
    BY <1>9, <2>1, <2>2 DEF Position
  <2>4. Listing(l)' = Listing(l)
    BY <1>6, ListingStands
  <2>. QED BY <1>2, <1>3, <1>6, <1>9, <2>3, <2>4, TypeNext DEF vars
<1>11. /\ seen \in Seq(Conversation)
       /\ \A k \in DOMAIN seen :
            \/ k \in DOMAIN w.seen /\ seen[k] = w.seen[k]
            \/ k > Len(w.seen) /\ k - Len(w.seen) \in DOMAIN new /\ seen[k] = new[k - Len(w.seen)]
       /\ Elements(w.seen) \cup Elements(new) \subseteq Elements(seen)
  <2>1. PICK m \in Nat, p \in Nat :
          /\ m = Len(w.seen) /\ p = Len(new)
          /\ DOMAIN w.seen = 1 .. m /\ DOMAIN new = 1 .. p
    BY <1>3, <1>8
  <2>2. /\ seen \in Seq(Conversation) /\ Len(seen) = m + p
        /\ \A k \in 1 .. m + p : seen[k] = IF k <= m THEN w.seen[k] ELSE new[k - m]
    <3>1. /\ seen \in Seq(Conversation) /\ Len(seen) = Len(w.seen) + Len(new)
          /\ \A k \in 1 .. Len(w.seen) + Len(new) :
               seen[k] = IF k <= Len(w.seen) THEN w.seen[k] ELSE new[k - Len(w.seen)]
      BY <1>3, <1>8, ConcatProperties
    <3>. HIDE DEF seen
    <3>. QED BY <2>1, <3>1
  <2>. HIDE DEF seen
  <2>3. DOMAIN seen = 1 .. m + p
    BY <2>2
  <2>4. ASSUME NEW k \in 1 .. m PROVE seen[k] = w.seen[k] /\ k \in 1 .. m + p
    <3>1. k \in 1 .. m + p /\ k <= m
      OBVIOUS
    <3>. QED BY <2>2, <3>1
  <2>5. ASSUME NEW k \in 1 .. p PROVE seen[m + k] = new[k] /\ m + k \in 1 .. m + p
    <3>1. m + k \in 1 .. m + p /\ ~(m + k <= m) /\ (m + k) - m = k
      OBVIOUS
    <3>. QED BY <2>2, <3>1
  <2>6. Elements(w.seen) \cup Elements(new) \subseteq Elements(seen)
    BY <2>1, <2>3, <2>4, <2>5 DEF Elements
  <2>7. ASSUME NEW k \in 1 .. m + p
        PROVE  \/ k \in 1 .. m /\ seen[k] = w.seen[k]
               \/ k > m /\ k - m \in 1 .. p /\ seen[k] = new[k - m]
    <3>1. CASE k <= m
      BY <2>4, <3>1
    <3>2. CASE ~(k <= m)
      <4>1. k > m /\ k - m \in 1 .. p /\ m + (k - m) = k
        BY <3>2
      <4>. QED BY <2>5, <4>1
    <3>. QED BY <3>1, <3>2
  <2>. QED BY <2>1, <2>2, <2>3, <2>6, <2>7
<1>. HIDE DEF seen
<1>12. WalkOK'
  BY <1>3, <1>6, <1>9, <1>11 DEF WalkOK
<1>13. NobodyIsPassedOver'
  <2>1. SUFFICES ASSUME ~w.gone, NEW i \in DOMAIN rows, i \in 1 .. n + l.limit, conv[rows[i]].user = l.user
                 PROVE  rows[i] \in Elements(seen) \cup w.late
    BY <1>9, <1>10 DEF NobodyIsPassedOver, Front
  <2>2. CASE i <= n
    <3>1. rows[i] \in Front(rows, n)
      BY <1>3, <2>1, <2>2 DEF Front
    <3>2. rows[i] \in Elements(w.seen) \cup w.late
      BY <1>1, <1>2, <1>3, <2>1, <3>1 DEF PagingInv, NobodyIsPassedOver
    <3>. QED BY <1>11, <3>2
  <2>3. CASE n < i
    <3>1. i - n \in 1 .. l.limit /\ n + (i - n) = i
      BY <1>3, <2>1, <2>3
    <3>2. \E k \in DOMAIN new : new[k] = rows[i]
      BY <1>8, <2>1, <3>1
    <3>. QED BY <1>11, <3>2 DEF Elements
  <2>. QED BY <1>3, <2>1, <2>2, <2>3
<1>14. ASSUME w.late = {}, NEW j \in DOMAIN w.seen
       PROVE  /\ w.seen[j] \in Conversation /\ Present(conv, w.seen[j])
              /\ \A k \in DOMAIN rows : (Before(rows[k], w.seen[j]) => k < n) /\ (rows[k] = w.seen[j] => k <= n)
  BY <1>1, <1>2, <1>3, <1>14 DEF PagingInv, ShownLiesBehind
<1>15. /\ DOMAIN rows \in SUBSET Nat
       /\ \A k \in DOMAIN rows : rows[k] \in Conversation /\ Present(conv, rows[k])
       /\ \A i, k \in DOMAIN rows : i < k <=> Before(rows[i], rows[k])
  BY <1>7 DEF Sorted
<1>16. ASSUME NEW k \in DOMAIN new
       PROVE  \E i \in DOMAIN rows : n < i /\ i <= n + l.limit /\ new[k] = rows[i]
  <2>1. PICK i \in 1 .. l.limit : n + i \in DOMAIN rows /\ new[k] = rows[n + i]
    BY <1>8
  <2>. QED BY <1>3, <2>1
<1>17. ShownLiesBehind'
  <2>1. SUFFICES ASSUME w.late = {}, NEW j \in DOMAIN seen, NEW x, x = seen[j]
                 PROVE  /\ Present(conv, x)
                        /\ n + l.limit # 0
                        /\ \A k \in DOMAIN rows : /\ Before(rows[k], x) => k < n + l.limit
                                                  /\ rows[k] = x => k <= n + l.limit
    BY <1>9, <1>10 DEF ShownLiesBehind, Present, Before, IdRank
  <2>2. n + l.limit # 0 /\ n < n + l.limit /\ n + l.limit \in Nat
    BY <1>3
  <2>3. CASE j \in DOMAIN w.seen /\ seen[j] = w.seen[j]
    BY <1>3, <1>14, <1>15, <2>1, <2>2, <2>3
  <2>4. CASE j - Len(w.seen) \in DOMAIN new /\ seen[j] = new[j - Len(w.seen)]
    <3>1. PICK i \in DOMAIN rows : n < i /\ i <= n + l.limit /\ x = rows[i]
      BY <1>16, <2>1, <2>4
    <3>2. \A k \in DOMAIN rows : rows[k] = x => k = i
      BY <1>7, <1>15, <3>1 DEF BeforeOrders
    <3>. QED BY <1>3, <1>15, <2>2, <3>1, <3>2
  <2>. QED BY <1>11, <2>1, <2>3, <2>4
<1>18. NobodyComesTwice'
  <2>1. SUFFICES ASSUME w.late = {}, NEW i \in DOMAIN seen, NEW j \in DOMAIN seen, i < j
                 PROVE  Before(seen[i], seen[j])
    BY <1>9, <1>10 DEF NobodyComesTwice, Before, IdRank
  <2>2. /\ DOMAIN seen \in SUBSET Nat /\ Len(w.seen) \in Nat /\ DOMAIN w.seen = 1 .. Len(w.seen)
        /\ DOMAIN new \in SUBSET Nat
    BY <1>3, <1>8, <1>11
  <2>3. CASE j \in DOMAIN w.seen /\ seen[j] = w.seen[j]
    <3>1. i \in DOMAIN w.seen /\ seen[i] = w.seen[i]
      BY <1>11, <2>1, <2>2, <2>3
    <3>. QED BY <1>1, <1>3, <2>1, <2>3, <3>1 DEF PagingInv, NobodyComesTwice
  <2>4. CASE j > Len(w.seen) /\ j - Len(w.seen) \in DOMAIN new /\ seen[j] = new[j - Len(w.seen)]
    <3>1. PICK k \in DOMAIN rows : n < k /\ seen[j] = rows[k]
      BY <1>16, <2>4
    <3>2. CASE i \in DOMAIN w.seen /\ seen[i] = w.seen[i]
      <4>1. PICK x, y : x = w.seen[i] /\ y = rows[k]
        OBVIOUS
      <4>2. /\ x \in Conversation /\ Present(conv, x)
            /\ Before(y, x) => k < n
            /\ y = x => k <= n
        BY <1>14, <2>1, <3>2, <4>1
      <4>3. y \in Conversation /\ Present(conv, y) /\ ~Before(y, x) /\ y # x
        BY <1>3, <1>15, <3>1, <4>1, <4>2
      <4>4. Before(x, y)
        BY <1>7, <4>2, <4>3 DEF BeforeOrders
      <4>. QED BY <3>1, <3>2, <4>1, <4>4
    <3>3. CASE i > Len(w.seen) /\ i - Len(w.seen) \in DOMAIN new /\ seen[i] = new[i - Len(w.seen)]
      <4>1. i - Len(w.seen) < j - Len(w.seen)
        BY <2>1, <2>2
      <4>. QED BY <1>8, <2>4, <3>3, <4>1
    <3>. QED BY <1>11, <3>2, <3>3
  <2>. QED BY <1>11, <2>3, <2>4
<1>. QED BY <1>10, <1>12, <1>13, <1>17, <1>18 DEF PagingInv

LEMMA PagingNextKeeps ==
  ASSUME SoftDeleteEnabled, PagingInv, [PagingNext]_pagingVars
  PROVE  PagingInv'
<1>1. ASSUME NEW l \in Pageable, Begin(l) PROVE PagingInv'
  <2>1. /\ walk' = [list |-> l, pages |-> 0, seen |-> <<>>, late |-> {}, gone |-> FALSE]
        /\ reading' = None /\ TypeOK'
    BY <1>1, TypeNext DEF Begin, PagingInv, allVars, readVars
  <2>2. WalkOK'
    <3>1. <<>> \in Seq(Conversation) /\ 0 \in Nat
      OBVIOUS
    <3>. QED BY <2>1, <3>1 DEF WalkOK
  <2>3. Position' = 0
    <3>1. \A n \in Nat : 0 * n = 0
      OBVIOUS
    <3>. QED BY <2>1, <3>1, KinType DEF Position
  <2>4. NobodyIsPassedOver'
    BY <2>3 DEF NobodyIsPassedOver, Front
  <2>5. ShownLiesBehind' /\ NobodyComesTwice'
    BY <2>1 DEF ShownLiesBehind, NobodyComesTwice
  <2>. QED BY <2>1, <2>2, <2>4, <2>5 DEF PagingInv
<1>2. ASSUME NEW l \in Pageable, walk # None, Meanwhile(l) PROVE PagingInv'
  BY <1>2, MeanwhileKeeps
<1>3. CASE walk = None /\ ReadNext /\ UNCHANGED walk
  <2>1. [Next]_vars
    BY <1>3, ReadChangesNothing DEF ReadNext
  <2>2. TypeOK' /\ walk' = None
    BY <1>3, <2>1, TypeNext DEF PagingInv
  <2>. QED BY <2>2 DEF PagingInv, WalkOK, NobodyIsPassedOver, ShownLiesBehind, NobodyComesTwice
<1>4. CASE AskPage
  <2>1. UNCHANGED <<vars, walk>> /\ (reading' = None \/ reading'.ask = NextPage)
    BY <1>4 DEF AskPage, Admit, Refuse, NotFound, Reply
  <2>. QED BY <2>1, ReadingKeeps
<1>5. CASE TakePage
  BY <1>5, TakePageKeeps
<1>6. CASE UNCHANGED pagingVars
  <2>1. UNCHANGED <<vars, walk>> /\ reading' = reading
    BY <1>6 DEF pagingVars, allVars, readVars
  <2>2. CASE walk = None
    <3>1. TypeOK' /\ walk' = None
      BY <2>1, <2>2, TypeNext DEF PagingInv
    <3>. QED BY <3>1 DEF PagingInv, WalkOK, NobodyIsPassedOver, ShownLiesBehind, NobodyComesTwice
  <2>3. CASE walk # None
    <3>1. reading' = None \/ reading'.ask = NextPage
      BY <2>1, <2>3 DEF PagingInv, WalkOK
    <3>. QED BY <2>1, <3>1, ReadingKeeps
  <2>. QED BY <2>2, <2>3
<1>. QED BY <1>1, <1>2, <1>3, <1>4, <1>5, <1>6 DEF PagingNext

LEMMA PagingInvHolds == SoftDeleteEnabled /\ PagingSpec => []PagingInv
<1>1. PagingInit => PagingInv
  BY TypeInit DEF PagingInit, ReadInit, PagingInv, WalkOK, NobodyIsPassedOver, ShownLiesBehind,
                  NobodyComesTwice
<1>2. CASE SoftDeleteEnabled
  <2>1. PagingInv /\ [PagingNext]_pagingVars => PagingInv'
    BY <1>2, PagingNextKeeps
  <2>. QED BY <1>1, <2>1, PTL DEF PagingSpec
<1>3. CASE ~SoftDeleteEnabled
  BY <1>3
<1>. QED BY <1>2, <1>3

(* Under soft deletion a caller who pages through a list passes over nobody of
   his own while nobody leaves the list behind him, for any page size, any list
   and any handlers between his pages. *)
THEOREM PagingPassesOverNobody == SoftDeleteEnabled /\ PagingSpec => []NobodyIsPassedOver
<1>1. PagingInv => NobodyIsPassedOver
  BY DEF PagingInv
<1>. QED BY <1>1, PagingInvHolds, PTL

(* Under soft deletion his pages go on where the last one ended, and show nobody
   twice, while nobody joins the list behind him. *)
THEOREM PagingShowsNobodyTwice == SoftDeleteEnabled /\ PagingSpec => []NobodyComesTwice
<1>1. PagingInv => NobodyComesTwice
  BY DEF PagingInv
<1>. QED BY <1>1, PagingInvHolds, PTL
===============================================================================
