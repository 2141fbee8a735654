--------------------------- MODULE GraphQueriesProofs ---------------------------
(***************************************************************************)
(* What the read statements return, for every graph the handlers can make. *)
(* The installed provers do not do induction over data, so what is proved  *)
(* by induction elsewhere is proved here from a smallest counterexample    *)
(* (WFMin), and reachability from its definition as a smallest set.        *)
(***************************************************************************)
EXTENDS GraphQueries, GraphServiceProofs, FiniteSetTheorems, SequenceTheorems

-------------------------------------------------------------------------------
\* Sorting.

StrictOrder(order, S) ==
  /\ \A x \in S : <<x, x>> \notin order
  /\ \A x, y, z \in S : <<x, y>> \in order /\ <<y, z>> \in order => <<x, z>> \in order
  /\ \A x, y \in S : x # y => <<x, y>> \in order \/ <<y, x>> \in order

\* s lists S, smallest first.
Lists(s, n, S, order) ==
  /\ s \in [1 .. n -> S]
  /\ \A i, j \in 1 .. n : i < j => <<s[i], s[j]>> \in order
  /\ \A x \in S : \E i \in 1 .. n : s[i] = x

LEMMA HasLeast ==
  ASSUME NEW T \in SUBSET Nat, T # {}
  PROVE  \E n \in T : \A m \in T : n <= m
<1>1. PICK n \in T : \A m \in T : ~ (<<m, n>> \in OpToRel(<, Nat))
  BY WFMin, NatLessThanWellFounded, Zenon
<1>2. \A m \in T : ~ (m < n)
  BY <1>1 DEF OpToRel
<1>3. \A m \in T : n <= m
  BY <1>2
<1>. QED BY <1>3

LEMMA ListIsInjective ==
  ASSUME NEW n \in Nat, NEW S, NEW order, StrictOrder(order, S), NEW s, Lists(s, n, S, order)
  PROVE  /\ \A i, j \in 1 .. n : s[i] = s[j] => i = j
         /\ \A i, j \in 1 .. n : <<s[i], s[j]>> \in order => i < j
         /\ IsFiniteSet(S) /\ Cardinality(S) = n
<1>1. ASSUME NEW i \in 1 .. n, NEW j \in 1 .. n, s[i] = s[j] \/ <<s[i], s[j]>> \in order, i # j
      PROVE  s[i] # s[j] /\ i < j
  <2>1. s[i] \in S /\ s[j] \in S
    BY DEF Lists
  <2>2. i < j => <<s[i], s[j]>> \in order
    BY DEF Lists
  <2>3. j < i => <<s[j], s[i]>> \in order
    BY DEF Lists
  <2>4. s[i] # s[j]
    BY <1>1, <2>1, <2>2, <2>3 DEF StrictOrder
  <2>5. ~ (j < i)
    BY <1>1, <2>1, <2>3, <2>4, Zenon DEF StrictOrder
  <2>. QED BY <1>1, <2>4, <2>5
<1>2. /\ \A i, j \in 1 .. n : s[i] = s[j] => i = j
      /\ \A i, j \in 1 .. n : <<s[i], s[j]>> \in order => i < j
  <2>1. \A i \in 1 .. n : s[i] \in S /\ <<s[i], s[i]>> \notin order
    BY DEF Lists, StrictOrder
  <2>. QED BY <1>1, <2>1, Zenon
<1>3. s \in Bijection(1 .. n, S)
  <2>1. s \in [1 .. n -> S] /\ \A x \in S : \E i \in 1 .. n : s[i] = x
    BY DEF Lists
  <2>2. s \in Injection(1 .. n, S)
    BY <1>2, <2>1, Zenon DEF Injection, IsInjective
  <2>3. s \in Surjection(1 .. n, S)
    BY <2>1, Zenon DEF Surjection
  <2>. QED BY <2>2, <2>3 DEF Bijection
<1>4. IsFiniteSet(S) /\ Cardinality(S) = n
  BY <1>3, FS_NatBijection, FS_CountingElements DEF ExistsBijection
<1>. QED BY <1>2, <1>4

(* A set with one element more is listed by putting it in its place. *)
LEMMA Insert ==
  ASSUME NEW S, NEW order, StrictOrder(order, S), NEW x \in S,
         NEW n \in Nat, NEW s, Lists(s, n, S \ {x}, order)
  PROVE  \E t : Lists(t, n + 1, S, order)
<1>. DEFINE above == {i \in 1 .. n : <<x, s[i]>> \in order} \cup {n + 1}
<1>1. PICK k \in above : \A i \in above : k <= i
  <2>1. above \in SUBSET Nat /\ above # {}
    OBVIOUS
  <2>. HIDE DEF above
  <2>. QED BY <2>1, HasLeast
<1>2. k \in 1 .. n + 1
  OBVIOUS
<1>3. \A i \in 1 .. n : s[i] \in S /\ s[i] # x
  BY DEF Lists
<1>4. ASSUME NEW i \in 1 .. n, i < k PROVE <<s[i], x>> \in order
  <2>1. <<x, s[i]>> \notin order
    BY <1>1, <1>2, <1>4
  <2>. QED BY <1>3, <2>1 DEF StrictOrder
<1>5. ASSUME NEW i \in 1 .. n, i >= k PROVE <<x, s[i]>> \in order
  <2>1. k \in 1 .. n /\ <<x, s[k]>> \in order
    BY <1>1, <1>2, <1>5
  <2>2. k = i \/ <<s[k], s[i]>> \in order
    BY <1>5, <2>1 DEF Lists
  <2>. QED BY <1>3, <2>1, <2>2 DEF StrictOrder
<1>. DEFINE t == [i \in 1 .. n + 1 |-> IF i < k THEN s[i] ELSE IF i = k THEN x ELSE s[i - 1]]
<1>6. t \in [1 .. n + 1 -> S]
  <2>1. ASSUME NEW i \in 1 .. n + 1 PROVE t[i] \in S
    <3>1. i < k => i \in 1 .. n
      BY <1>2
    <3>2. i > k => i - 1 \in 1 .. n
      BY <1>2
    <3>. QED BY <1>2, <1>3, <3>1, <3>2
  <2>. QED BY <2>1
<1>7. ASSUME NEW i \in 1 .. n + 1, NEW j \in 1 .. n + 1, i < j PROVE <<t[i], t[j]>> \in order
  <2>1. CASE j < k
    BY <1>2, <1>7, <2>1 DEF Lists
  <2>2. CASE j = k
    BY <1>2, <1>4, <1>7, <2>2
  <2>3. CASE j > k /\ i < k
    BY <1>2, <1>7, <2>3 DEF Lists
  <2>4. CASE j > k /\ i = k
    BY <1>2, <1>5, <1>7, <2>4
  <2>5. CASE j > k /\ i > k
    <3>1. i - 1 \in 1 .. n /\ j - 1 \in 1 .. n /\ i - 1 < j - 1
      BY <1>2, <1>7, <2>5
    <3>2. t[i] = s[i - 1] /\ t[j] = s[j - 1]
      BY <1>2, <2>5
    <3>. QED BY <3>1, <3>2 DEF Lists
  <2>. QED BY <1>2, <2>1, <2>2, <2>3, <2>4, <2>5
<1>8. ASSUME NEW y \in S PROVE \E i \in 1 .. n + 1 : t[i] = y
  <2>1. CASE y = x
    BY <1>2, <2>1
  <2>2. CASE y # x
    <3>1. PICK i \in 1 .. n : s[i] = y
      BY <2>2 DEF Lists
    <3>2. CASE i < k
      <4>1. i \in 1 .. n + 1 /\ t[i] = y
        BY <3>1, <3>2
      <4>. QED BY <4>1, Zenon
    <3>3. CASE ~ (i < k)
      <4>1. i + 1 \in 1 .. n + 1 /\ t[i + 1] = y
        BY <1>2, <3>1, <3>3
      <4>. QED BY <4>1, Zenon
    <3>. QED BY <3>2, <3>3
  <2>. QED BY <2>1, <2>2
<1>. HIDE DEF t
<1>. QED BY <1>6, <1>7, <1>8 DEF Lists

LEMMA FiniteSetsAreSortable ==
  ASSUME NEW S, IsFiniteSet(S), NEW order, StrictOrder(order, S)
  PROVE  \E n \in Nat : \E s : Lists(s, n, S, order)
<1>. DEFINE bad == {U \in SUBSET S : \A n \in Nat : \A s : ~Lists(s, n, U, order)}
<1>1. SUFFICES ASSUME S \in bad PROVE FALSE
  OBVIOUS
<1>2. PICK U \in bad : \A V \in bad : ~ (<<V, U>> \in StrictSubsetOrdering(S))
  <2>1. IsWellFoundedOn(StrictSubsetOrdering(S), SUBSET S)
    BY FS_StrictSubsetOrderingWellFounded, FS_FiniteSubsetsOfFinite, Zenon
  <2>2. bad \subseteq SUBSET S /\ bad # {}
    BY <1>1
  <2>. HIDE DEF bad
  <2>. QED BY <2>1, <2>2, WFMin, Zenon
<1>3. CASE U = {}
  <2>1. Lists([i \in 1 .. 0 |-> i], 0, {}, order)
    BY DEF Lists
  <2>. QED BY <1>2, <1>3, <2>1
<1>4. CASE U # {}
  <2>1. PICK x \in U : TRUE
    BY <1>4
  <2>2. U \ {x} \in SUBSET S /\ <<U \ {x}, U>> \in StrictSubsetOrdering(S)
    BY <1>2, <2>1 DEF StrictSubsetOrdering
  <2>3. U \ {x} \notin bad
    BY <1>2, <2>2
  <2>4. PICK n \in Nat : \E s : Lists(s, n, U \ {x}, order)
    BY <2>2, <2>3
  <2>5. PICK s : Lists(s, n, U \ {x}, order)
    BY <2>4
  <2>6. StrictOrder(order, U)
    BY <1>2 DEF StrictOrder
  <2>7. \E t : Lists(t, n + 1, U, order)
    BY <2>1, <2>5, <2>6, Insert
  <2>. QED BY <1>2, <2>7
<1>. QED BY <1>3, <1>4

(* InOrder lists its set, when the set is finite and the order strict. *)
LEMMA InOrderLists ==
  ASSUME NEW S, IsFiniteSet(S), NEW order, StrictOrder(order, S)
  PROVE  /\ Cardinality(S) \in Nat
         /\ Lists(InOrder(S, order), Cardinality(S), S, order)
<1>1. PICK n \in Nat : \E t : Lists(t, n, S, order)
  BY FiniteSetsAreSortable
<1>2. PICK t : Lists(t, n, S, order)
  BY <1>1
<1>3. Cardinality(S) = n
  BY <1>2, ListIsInjective
<1>. DEFINE s == InOrder(S, order)
<1>4. /\ s \in [1 .. n -> S]
      /\ \A i, j \in 1 .. n : i < j => <<s[i], s[j]>> \in order
  BY <1>2, <1>3 DEF InOrder, Lists
<1>. HIDE DEF s
<1>5. s \in Injection(1 .. n, S)
  <2>1. ASSUME NEW i \in 1 .. n, NEW j \in 1 .. n, i # j PROVE s[i] # s[j]
    <3>1. <<s[i], s[j]>> \in order \/ <<s[j], s[i]>> \in order
      BY <1>4, <2>1
    <3>2. s[i] \in S /\ s[j] \in S
      BY <1>4
    <3>. QED BY <3>1, <3>2 DEF StrictOrder
  <2>2. \A i, j \in 1 .. n : s[i] = s[j] => i = j
    BY <2>1, Zenon
  <2>. QED BY <1>4, <2>2, Zenon DEF Injection, IsInjective
<1>6. IsFiniteSet(1 .. n) /\ Cardinality(1 .. n) = n
  BY FS_Interval
<1>7. s \in Surjection(1 .. n, S)
  BY <1>3, <1>5, <1>6, FS_Injection
<1>8. \A x \in S : \E i \in 1 .. n : s[i] = x
  BY <1>7 DEF Surjection
<1>9. Lists(s, n, S, order)
  BY <1>4, <1>8 DEF Lists
<1>. QED BY <1>3, <1>9 DEF s

(* There is one way to list a set. *)
LEMMA ListIsUnique ==
  ASSUME NEW S, NEW order, StrictOrder(order, S), NEW n \in Nat,
         NEW s, Lists(s, n, S, order), NEW t, Lists(t, n, S, order)
  PROVE  s = t
<1>. DEFINE bad == {i \in 1 .. n : s[i] # t[i]}
<1>1. CASE bad = {}
  <2>1. s \in [1 .. n -> S] /\ t \in [1 .. n -> S]
    BY DEF Lists
  <2>. QED BY <1>1, <2>1
<1>2. CASE bad # {}
  <2>1. PICK i \in bad : \A j \in bad : i <= j
    <3>1. bad \in SUBSET Nat
      OBVIOUS
    <3>. HIDE DEF bad
    <3>. QED BY <1>2, <3>1, HasLeast
  <2>2. PICK j \in 1 .. n : t[j] = s[i]
    BY DEF Lists
  <2>3. PICK k \in 1 .. n : s[k] = t[i]
    BY DEF Lists
  <2>4. \A l \in 1 .. n : l < i => s[l] = t[l]
    BY <2>1
  <2>5. j > i
    <3>1. j # i
      BY <2>2, <2>1
    <3>2. j < i => s[j] = s[i]
      BY <2>2, <2>4
    <3>. QED BY <3>1, <3>2, ListIsInjective
  <2>6. k > i
    <3>1. k # i
      BY <2>3, <2>1
    <3>2. k < i => t[k] = t[i]
      BY <2>3, <2>4
    <3>. QED BY <3>1, <3>2, ListIsInjective
  <2>7. <<s[i], t[i]>> \in order
    BY <2>3, <2>6 DEF Lists
  <2>8. <<t[i], s[i]>> \in order
    BY <2>2, <2>5 DEF Lists
  <2>9. s[i] \in S /\ t[i] \in S
    BY DEF Lists
  <2>. QED BY <2>7, <2>8, <2>9 DEF StrictOrder
<1>. QED BY <1>1, <1>2

-------------------------------------------------------------------------------
\* Reachability.

Edge == Conversation \X Conversation

LEMMA ReachedIsClosed ==
  ASSUME NEW rel \in SUBSET Edge, NEW c, NEW d, NEW e,
         <<d, e>> \in rel, d \in {c} \cup Reached(rel, c)
  PROVE  e \in Reached(rel, c)
<1>1. e \in Conversation
  BY DEF Edge
<1>2. ASSUME NEW S \in SUBSET Conversation, \A r \in rel : r[1] \in {c} \cup S => r[2] \in S
      PROVE  e \in S
  <2>1. d \in {c} \cup S
    BY <1>2 DEF Reached
  <2>. QED BY <1>2, <2>1
<1>. QED BY <1>1, <1>2 DEF Reached

LEMMA ReachedIsLeast ==
  ASSUME NEW rel \in SUBSET Edge, NEW c, NEW S \in SUBSET Conversation,
         \A d, e \in Conversation : <<d, e>> \in rel /\ d \in {c} \cup S => e \in S
  PROVE  Reached(rel, c) \subseteq S
<1>1. \A r \in rel : r[1] \in {c} \cup S => r[2] \in S
  BY DEF Edge
<1>. QED BY <1>1 DEF Reached

LEMMA ReachedType ==
  ASSUME NEW rel, NEW c
  PROVE  Reached(rel, c) \in SUBSET Conversation
BY DEF Reached

LEMMA ReachedIsTransitive ==
  ASSUME NEW rel \in SUBSET Edge, NEW c, NEW d \in Reached(rel, c)
  PROVE  Reached(rel, d) \subseteq Reached(rel, c)
<1>1. \A x, y \in Conversation : <<x, y>> \in rel /\ x \in {d} \cup Reached(rel, c) => y \in Reached(rel, c)
  BY ReachedIsClosed
<1>. QED BY <1>1, ReachedIsLeast, ReachedType

LEMMA ReachedGrows ==
  ASSUME NEW rel \in SUBSET Edge, NEW more \in SUBSET Edge, rel \subseteq more, NEW c
  PROVE  Reached(rel, c) \subseteq Reached(more, c)
<1>1. \A x, y \in Conversation : <<x, y>> \in rel /\ x \in {c} \cup Reached(more, c) => y \in Reached(more, c)
  BY ReachedIsClosed
<1>. QED BY <1>1, ReachedIsLeast, ReachedType

LEMMA ReachedBack ==
  ASSUME NEW rel \in SUBSET Edge, NEW back \in SUBSET Edge,
         \A x, y \in Conversation : <<x, y>> \in rel => <<y, x>> \in back,
         NEW c \in Conversation, NEW d \in Reached(rel, c)
  PROVE  c \in Reached(back, d)
<1>. DEFINE S == {x \in Conversation : c \in Reached(back, x)}
<1>1. ASSUME NEW x \in Conversation, NEW y \in Conversation, <<x, y>> \in rel, x \in {c} \cup S
      PROVE  y \in S
  <2>1. <<y, x>> \in back
    BY <1>1
  <2>2. x \in Reached(back, y)
    BY <2>1, ReachedIsClosed
  <2>3. c \in Reached(back, y)
    <3>1. CASE x = c
      BY <2>2, <3>1
    <3>2. CASE c \in Reached(back, x)
      BY <2>2, <3>2, ReachedIsTransitive
    <3>. QED BY <1>1, <3>1, <3>2
  <2>. QED BY <2>3
<1>2. Reached(rel, c) \subseteq S
  <2>1. S \in SUBSET Conversation
    OBVIOUS
  <2>. HIDE DEF S
  <2>. QED BY <1>1, <2>1, ReachedIsLeast
<1>. QED BY <1>2

-------------------------------------------------------------------------------
\* The lineage.

\* What the traversals rely on: both relationships are one tree, whose parents
\* are older than their children.
Older(age) ==
  /\ age \in [Conversation -> DOMAIN IdOrder]
  /\ \A c, p \in Conversation : <<c, p>> \in createdFrom => age[p] < age[c]

OneTree ==
  /\ createdFrom \in SUBSET Edge /\ hasChild \in SUBSET Edge
  /\ \A p, c \in Conversation : <<p, c>> \in hasChild <=> <<c, p>> \in createdFrom
  /\ \A c, p, q \in Conversation : <<c, p>> \in createdFrom /\ <<c, q>> \in createdFrom => p = q
  /\ \E age : Older(age)

LEMMA LineageIsOneTree ==
  ASSUME TypeOK, LineageConsistent
  PROVE  OneTree
<1>1. ASSUME NEW c \in Conversation, NEW p \in Conversation, <<c, p>> \in createdFrom
      PROVE  \E e \in CreatedEvents : e.conv = c /\ e.parent = p
  <2>1. <<p, c>> \in hasChild
    BY <1>1 DEF LineageConsistent
  <2>. QED BY <2>1 DEF LineageConsistent
<1>2. \A c, p, q \in Conversation : <<c, p>> \in createdFrom /\ <<c, q>> \in createdFrom => p = q
  BY <1>1, LineageAssumption
<1>3. PICK age \in [Conversation -> DOMAIN IdOrder] :
        \A e \in CreatedEvents : e.parent # Null => age[e.parent] < age[e.conv]
  BY LineageAssumption
<1>4. \A c, p \in Conversation : <<c, p>> \in createdFrom => age[p] < age[c]
  BY <1>1, <1>3, ServiceAssumption
<1>5. createdFrom \in SUBSET Edge /\ hasChild \in SUBSET Edge
  BY DEF TypeOK, Edge
<1>6. \A p, c \in Conversation : <<p, c>> \in hasChild <=> <<c, p>> \in createdFrom
  BY DEF LineageConsistent
<1>. QED BY <1>2, <1>3, <1>4, <1>5, <1>6 DEF OneTree, Older

LEMMA OneParent ==
  ASSUME OneTree, NEW p, NEW q, NEW c, <<p, c>> \in hasChild
  PROVE  /\ Parents(c) = {p}
         /\ <<q, c>> \in hasChild => q = p
<1>1. p \in Conversation /\ c \in Conversation /\ <<c, p>> \in createdFrom
  BY DEF OneTree, Edge
<1>2. \A x \in Conversation : <<c, x>> \in createdFrom => x = p
  BY <1>1 DEF OneTree
<1>3. <<q, c>> \in hasChild => q \in Conversation /\ <<c, q>> \in createdFrom
  BY DEF OneTree, Edge
<1>. QED BY <1>1, <1>2, <1>3 DEF Parents

LEMMA DescendantsMirrorAncestors ==
  ASSUME OneTree, NEW a \in Conversation, NEW c \in Conversation
  PROVE  a \in Ancestors(c) <=> c \in Descendants(a)
<1>1. a \in Ancestors(c) => c \in Descendants(a)
  BY ReachedBack DEF OneTree, Ancestors, Descendants
<1>2. c \in Descendants(a) => a \in Ancestors(c)
  BY ReachedBack DEF OneTree, Ancestors, Descendants
<1>. QED BY <1>1, <1>2

LEMMA AncestorsAreOlder ==
  ASSUME OneTree, NEW age, Older(age), NEW c \in Conversation, NEW a \in Ancestors(c)
  PROVE  age[a] < age[c]
<1>. DEFINE S == {x \in Conversation : age[x] < age[c]}
<1>1. \A x \in Conversation : age[x] \in Nat
  BY QueryAssumption DEF Older
<1>2. ASSUME NEW x \in Conversation, NEW y \in Conversation, <<x, y>> \in createdFrom, x \in {c} \cup S
      PROVE  y \in S
  BY <1>1, <1>2 DEF Older
<1>3. Reached(createdFrom, c) \subseteq S
  <2>1. S \in SUBSET Conversation
    OBVIOUS
  <2>. HIDE DEF S
  <2>. QED BY <1>2, <2>1, ReachedIsLeast DEF OneTree
<1>. QED BY <1>3 DEF Ancestors

LEMMA ParentOfLineage ==
  ASSUME OneTree, NEW c \in Conversation, NEW a \in Parents(c)
  PROVE  Ancestors(c) = {a} \cup Ancestors(a) /\ a \notin Ancestors(a) /\ c \notin Ancestors(c)
<1>1. a \in Conversation /\ <<c, a>> \in createdFrom
  BY DEF Parents
<1>2. a \in Ancestors(c)
  BY <1>1, ReachedIsClosed DEF OneTree, Ancestors
<1>3. Ancestors(a) \subseteq Ancestors(c)
  BY <1>2, ReachedIsTransitive DEF OneTree, Ancestors
<1>4. Ancestors(c) \subseteq {a} \cup Ancestors(a)
  <2>. DEFINE S == {a} \cup Ancestors(a)
  <2>1. ASSUME NEW x \in Conversation, NEW y \in Conversation, <<x, y>> \in createdFrom, x \in {c} \cup S
        PROVE  y \in S
    <3>1. CASE x = c
      BY <1>1, <2>1, <3>1 DEF OneTree
    <3>2. CASE x \in {a} \cup Ancestors(a)
      BY <2>1, <3>2, ReachedIsClosed DEF OneTree, Ancestors
    <3>. QED BY <2>1, <3>1, <3>2
  <2>2. S \in SUBSET Conversation
    BY <1>1, ReachedType DEF Ancestors
  <2>. HIDE DEF S
  <2>3. Reached(createdFrom, c) \subseteq S
    BY <2>1, <2>2, ReachedIsLeast DEF OneTree
  <2>. QED BY <2>3 DEF Ancestors, S
<1>5. \A x \in Conversation : x \notin Ancestors(x)
  <2>1. PICK age : Older(age)
    BY DEF OneTree
  <2>2. \A x \in Conversation : age[x] \in Nat
    BY <2>1, QueryAssumption DEF Older
  <2>3. ASSUME NEW x \in Conversation, x \in Ancestors(x) PROVE FALSE
    <3>1. age[x] < age[x]
      BY <2>1, <2>3, AncestorsAreOlder
    <3>. QED BY <2>2, <3>1
  <2>. QED BY <2>3
<1>. QED BY <1>1, <1>2, <1>3, <1>4, <1>5

LEMMA OneTreeNavigates == OneTree => NavigationAgrees
<1>. SUFFICES ASSUME OneTree, NEW a \in Conversation, NEW c \in Conversation
              PROVE  /\ a \in Ancestors(c) <=> c \in Descendants(a)
                     /\ c \in Children(a) <=> a \in Parents(c)
                     /\ a \in Parents(c) => Ancestors(a) = Ancestors(c) \ {a}
  BY DEF NavigationAgrees
<1>1. c \in Children(a) <=> a \in Parents(c)
  BY DEF OneTree, Children, Parents
<1>2. a \in Parents(c) => Ancestors(a) = Ancestors(c) \ {a}
  BY ParentOfLineage
<1>. QED BY <1>1, <1>2, DescendantsMirrorAncestors

(* The traversals down and up show one tree, whatever conversations, users and
   events there are, in either mode of deletion. *)
THEOREM UpAndDownAgree == Spec => []NavigationAgrees
<1>1. TypeOK /\ LineageConsistent => NavigationAgrees
  BY LineageIsOneTree, OneTreeNavigates
<1>. QED BY <1>1, TypeCorrect, LineageIsConsistent, PTL

-------------------------------------------------------------------------------
\* The memory context.

LEMMA NodePathType ==
  /\ \A p \in NodePath : p \in Seq(Conversation) /\ Len(p) \in DOMAIN IdOrder
  /\ \A p \in Seq(Conversation) : Len(p) \in DOMAIN IdOrder => p \in NodePath
<1>1. ASSUME NEW p \in NodePath PROVE p \in Seq(Conversation) /\ Len(p) \in DOMAIN IdOrder
  <2>1. PICK n \in DOMAIN IdOrder : p \in [1 .. n -> Conversation]
    BY DEF NodePath
  <2>2. n \in Nat
    BY QueryAssumption
  <2>3. p \in Seq(Conversation) /\ Len(p) = n
    BY <2>1, <2>2
  <2>. QED BY <2>3
<1>2. ASSUME NEW p \in Seq(Conversation), Len(p) \in DOMAIN IdOrder PROVE p \in NodePath
  <2>1. p \in [1 .. Len(p) -> Conversation]
    OBVIOUS
  <2>. QED BY <1>2, <2>1 DEF NodePath
<1>. QED BY <1>1, <1>2

\* p goes down from a conversation without parent to c, over all ancestors of c.
ComesDown(p, c) ==
  /\ p \in Seq(Conversation) /\ p # <<>>
  /\ p[Len(p)] = c
  /\ \A i \in 1 .. Len(p) - 1 : <<p[i], p[i + 1]>> \in hasChild
  /\ \A q \in Conversation : <<q, p[1]>> \notin hasChild
  /\ {p[i] : i \in DOMAIN p} = {c} \cup Ancestors(c)

LEMMA RootComesDown ==
  ASSUME OneTree, NEW c \in Conversation, Parents(c) = {}
  PROVE  ComesDown(<<c>>, c)
<1>1. Ancestors(c) = {}
  <2>1. \A x, y \in Conversation : <<x, y>> \in createdFrom /\ x \in {c} \cup {} => y \in {}
    BY DEF Parents
  <2>2. Reached(createdFrom, c) \subseteq {}
    BY <2>1, ReachedIsLeast DEF OneTree
  <2>. QED BY <2>2 DEF Ancestors
<1>2. \A q \in Conversation : <<q, c>> \notin hasChild
  BY DEF OneTree, Parents
<1>3. <<c>> \in Seq(Conversation) /\ Len(<<c>>) = 1 /\ <<c>>[1] = c /\ DOMAIN <<c>> = 1 .. 1
  OBVIOUS
<1>4. {<<c>>[i] : i \in DOMAIN <<c>>} = {c}
  BY <1>3
<1>. QED BY <1>1, <1>2, <1>3, <1>4 DEF ComesDown

LEMMA ChildComesDown ==
  ASSUME OneTree, NEW c \in Conversation, NEW a \in Parents(c), NEW p, ComesDown(p, a)
  PROVE  ComesDown(Append(p, c), c)
<1>. DEFINE q == Append(p, c)
<1>1. /\ p \in Seq(Conversation) /\ Len(p) \in Nat \ {0} /\ p[Len(p)] = a
      /\ {p[i] : i \in DOMAIN p} = {a} \cup Ancestors(a)
  BY DEF ComesDown
<1>2. /\ q \in Seq(Conversation) /\ Len(q) = Len(p) + 1 /\ q # <<>>
      /\ \A i \in 1 .. Len(p) : q[i] = p[i]
      /\ q[Len(p) + 1] = c
  BY <1>1, AppendProperties
<1>. HIDE DEF q
<1>3. ASSUME NEW i \in 1 .. Len(q) - 1 PROVE <<q[i], q[i + 1]>> \in hasChild
  <2>1. CASE i = Len(p)
    BY <1>1, <1>2, <2>1 DEF OneTree, Parents
  <2>2. CASE i # Len(p)
    <3>1. i \in 1 .. Len(p) - 1 /\ i \in 1 .. Len(p) /\ i + 1 \in 1 .. Len(p)
      BY <1>1, <1>2, <2>2
    <3>. QED BY <1>2, <3>1 DEF ComesDown
  <2>. QED BY <2>1, <2>2
<1>4. \A x \in Conversation : <<x, q[1]>> \notin hasChild
  <2>1. q[1] = p[1]
    BY <1>1, <1>2
  <2>. QED BY <2>1 DEF ComesDown
<1>5. {q[i] : i \in DOMAIN q} = {p[i] : i \in DOMAIN p} \cup {c}
  <2>1. DOMAIN q = 1 .. Len(p) + 1 /\ DOMAIN p = 1 .. Len(p)
    BY <1>1, <1>2
  <2>2. \A i \in 1 .. Len(p) + 1 : i \in 1 .. Len(p) \/ i = Len(p) + 1
    BY <1>1
  <2>3. 1 .. Len(p) \subseteq 1 .. Len(p) + 1 /\ Len(p) + 1 \in 1 .. Len(p) + 1
    BY <1>1
  <2>. QED BY <1>2, <2>1, <2>2, <2>3
<1>6. {q[i] : i \in DOMAIN q} = {c} \cup Ancestors(c)
  <2>1. Ancestors(c) = {a} \cup Ancestors(a)
    BY ParentOfLineage
  <2>. QED BY <1>1, <1>5, <2>1, Zenon
<1>. QED BY <1>2, <1>3, <1>4, <1>6 DEF ComesDown, q

LEMMA LineageExists ==
  ASSUME OneTree, NEW age, Older(age), NEW c \in Conversation
  PROVE  \E p : ComesDown(p, c) /\ Len(p) <= age[c]
<1>. DEFINE bad  == {x \in Conversation : \A p : ~ (ComesDown(p, x) /\ Len(p) <= age[x])}
            ages == {age[x] : x \in bad}
<1>1. \A x \in Conversation : age[x] \in Nat \ {0}
  BY QueryAssumption DEF Older
<1>2. SUFFICES ASSUME c \in bad PROVE FALSE
  OBVIOUS
<1>3. PICK x \in bad : \A y \in bad : age[x] <= age[y]
  <2>1. ages \in SUBSET Nat /\ ages # {}
    BY <1>1, <1>2
  <2>2. PICK n \in ages : \A m \in ages : n <= m
    <3>. HIDE DEF ages
    <3>. QED BY <2>1, HasLeast
  <2>. QED BY <2>2
<1>4. CASE Parents(x) = {}
  <2>1. ComesDown(<<x>>, x)
    BY <1>4, RootComesDown
  <2>2. Len(<<x>>) <= age[x]
    BY <1>1
  <2>. QED BY <2>1, <2>2
<1>5. CASE Parents(x) # {}
  <2>1. PICK a \in Parents(x) : TRUE
    BY <1>5
  <2>2. a \in Conversation /\ age[a] < age[x]
    BY <2>1 DEF Older, Parents
  <2>3. a \notin bad
    BY <1>1, <1>3, <2>2
  <2>4. PICK p : ComesDown(p, a) /\ Len(p) <= age[a]
    BY <2>2, <2>3
  <2>5. ComesDown(Append(p, x), x)
    BY <2>1, <2>4, ChildComesDown
  <2>6. Len(Append(p, x)) <= age[x]
    <3>1. p \in Seq(Conversation) /\ Len(p) \in Nat /\ Len(Append(p, x)) = Len(p) + 1
      BY <2>4, AppendProperties DEF ComesDown
    <3>. QED BY <1>1, <2>2, <2>4, <3>1
  <2>. QED BY <2>5, <2>6
<1>. QED BY <1>4, <1>5

(* Paths down to c agree from their end on, ... *)
LEMMA PathsMeet ==
  ASSUME OneTree, NEW c \in Conversation,
         NEW p \in PathsTo(c), NEW q \in PathsTo(c),
         NEW k \in Nat, k < Len(p), k < Len(q)
  PROVE  p[Len(p) - k] = q[Len(q) - k]
<1>. DEFINE bad == {j \in Nat : j < Len(p) /\ j < Len(q) /\ p[Len(p) - j] # q[Len(q) - j]}
<1>1. /\ p \in Seq(Conversation) /\ q \in Seq(Conversation) /\ Len(p) \in Nat /\ Len(q) \in Nat
      /\ p[Len(p)] = c /\ q[Len(q)] = c
      /\ \A i \in 1 .. Len(p) - 1 : <<p[i], p[i + 1]>> \in hasChild
      /\ \A i \in 1 .. Len(q) - 1 : <<q[i], q[i + 1]>> \in hasChild
  BY NodePathType DEF PathsTo
<1>2. SUFFICES ASSUME bad # {} PROVE FALSE
  OBVIOUS
<1>3. PICK j \in bad : \A i \in bad : j <= i
  <2>1. bad \in SUBSET Nat
    OBVIOUS
  <2>. HIDE DEF bad
  <2>. QED BY <1>2, <2>1, HasLeast
<1>4. j # 0
  BY <1>1
<1>5. p[Len(p) - (j - 1)] = q[Len(q) - (j - 1)]
  <2>1. j - 1 \in Nat /\ j - 1 < Len(p) /\ j - 1 < Len(q) /\ ~ (j <= j - 1)
    BY <1>1, <1>4
  <2>2. j - 1 \notin bad
    BY <1>3, <2>1, Zenon
  <2>. QED BY <2>1, <2>2
<1>6. <<p[Len(p) - j], p[Len(p) - (j - 1)]>> \in hasChild
  <2>1. Len(p) - j \in 1 .. Len(p) - 1 /\ (Len(p) - j) + 1 = Len(p) - (j - 1)
    BY <1>1, <1>4
  <2>. QED BY <1>1, <2>1
<1>7. <<q[Len(q) - j], q[Len(q) - (j - 1)]>> \in hasChild
  <2>1. Len(q) - j \in 1 .. Len(q) - 1 /\ (Len(q) - j) + 1 = Len(q) - (j - 1)
    BY <1>1, <1>4
  <2>. QED BY <1>1, <2>1
<1>8. p[Len(p) - j] = q[Len(q) - j]
  BY <1>5, <1>6, <1>7, OneParent
<1>. QED BY <1>8

(* ... and those that start without parent start together. *)
LEMMA NoLongerPath ==
  ASSUME OneTree, NEW c \in Conversation, NEW p \in Lineages(c), NEW q \in PathsTo(c)
  PROVE  Len(q) <= Len(p)
<1>1. /\ p \in PathsTo(c) /\ p \in Seq(Conversation) /\ q \in Seq(Conversation)
      /\ Len(p) \in Nat \ {0} /\ Len(q) \in Nat
      /\ \A i \in 1 .. Len(q) - 1 : <<q[i], q[i + 1]>> \in hasChild
      /\ \A x \in Conversation : <<x, p[1]>> \notin hasChild
  BY NodePathType, QueryAssumption DEF Lineages, PathsTo
<1>2. SUFFICES ASSUME Len(p) < Len(q) PROVE FALSE
  BY <1>1
<1>3. p[1] = q[Len(q) - (Len(p) - 1)]
  <2>1. Len(p) - 1 \in Nat /\ Len(p) - 1 < Len(p) /\ Len(p) - 1 < Len(q)
    BY <1>1, <1>2
  <2>2. p[Len(p) - (Len(p) - 1)] = q[Len(q) - (Len(p) - 1)]
    BY <1>1, <2>1, PathsMeet
  <2>3. Len(p) - (Len(p) - 1) = 1
    BY <1>1
  <2>. QED BY <2>2, <2>3
<1>4. Len(q) - Len(p) \in 1 .. Len(q) - 1 /\ (Len(q) - Len(p)) + 1 = Len(q) - (Len(p) - 1)
  BY <1>1, <1>2
<1>5. q[Len(q) - Len(p)] \in Conversation /\ <<q[Len(q) - Len(p)], p[1]>> \in hasChild
  BY <1>1, <1>3, <1>4
<1>. QED BY <1>1, <1>5

LEMMA LineageIsUnique ==
  ASSUME OneTree, NEW c \in Conversation, NEW p \in Lineages(c), NEW q \in Lineages(c)
  PROVE  p = q
<1>1. /\ p \in PathsTo(c) /\ p \in Seq(Conversation) /\ q \in PathsTo(c) /\ q \in Seq(Conversation)
      /\ Len(p) \in Nat /\ Len(q) \in Nat
  BY NodePathType DEF Lineages, PathsTo
<1>2. Len(p) = Len(q)
  BY <1>1, NoLongerPath
<1>3. ASSUME NEW i \in 1 .. Len(p) PROVE p[i] = q[i]
  <2>1. Len(p) - i \in Nat /\ Len(p) - i < Len(p) /\ Len(p) - (Len(p) - i) = i
    BY <1>1
  <2>2. p[Len(p) - (Len(p) - i)] = q[Len(q) - (Len(p) - i)]
    BY <1>1, <1>2, <2>1, PathsMeet
  <2>. QED BY <1>2, <2>1, <2>2
<1>. QED BY <1>1, <1>2, <1>3, SeqEqual

LEMMA OneTreeRemembers == OneTree => MemoryIsTheLineage
<1>. SUFFICES ASSUME OneTree, NEW c \in Conversation
              PROVE  \E p \in Lineages(c) :
                       /\ Lineages(c) = {p}
                       /\ {p[i] : i \in DOMAIN p} = {c} \cup Ancestors(c)
                       /\ \A i \in 1 .. Len(p) - 1 : Parents(p[i + 1]) = {p[i]}
  BY DEF MemoryIsTheLineage
<1>1. PICK age : Older(age)
  BY DEF OneTree
<1>2. PICK p : ComesDown(p, c) /\ Len(p) <= age[c]
  BY <1>1, LineageExists
<1>3. p \in Seq(Conversation) /\ Len(p) \in Nat \ {0}
  BY <1>2 DEF ComesDown
<1>4. Len(p) \in DOMAIN IdOrder
  BY <1>1, <1>2, <1>3, QueryAssumption DEF Older
<1>5. p \in Lineages(c)
  BY <1>2, <1>3, <1>4, NodePathType DEF Lineages, PathsTo, ComesDown
<1>6. Lineages(c) = {p}
  BY <1>5, LineageIsUnique
<1>7. ASSUME NEW i \in 1 .. Len(p) - 1 PROVE Parents(p[i + 1]) = {p[i]}
  <2>1. <<p[i], p[i + 1]>> \in hasChild
    BY <1>2 DEF ComesDown
  <2>. QED BY <2>1, OneParent
<1>. QED BY <1>2, <1>5, <1>6, <1>7 DEF ComesDown

(* GET_MEMORY_CONTEXT has one path to return, and it is the lineage, for lineages
   of any depth and in either mode of deletion. *)
THEOREM MemoryIsDefined == Spec => []MemoryIsTheLineage
<1>1. TypeOK /\ LineageConsistent => MemoryIsTheLineage
  BY LineageIsOneTree, OneTreeRemembers
<1>. QED BY <1>1, TypeCorrect, LineageIsConsistent, PTL

-------------------------------------------------------------------------------
\* The rows of a traversal.

Listed(S)   == {c \in S : Navigable(c)}
BeforeOn(S) == {r \in S \X S : Before(r[1], r[2])}
LessOn(S)   == {r \in S \X S : r[1] < r[2]}

LEMMA ConversationsAreFinite == IsFiniteSet(Conversation)
<1>1. Len(IdOrder) \in Nat /\ IdOrder \in [1 .. Len(IdOrder) -> Conversation]
  BY QueryAssumption
<1>2. IdOrder \in Surjection(1 .. Len(IdOrder), Conversation)
  BY <1>1, QueryAssumption DEF Surjection
<1>. QED BY <1>1, <1>2, FS_NatSurjection DEF ExistsSurjection

LEMMA IdRankIsInjective ==
  /\ \A c \in Conversation : IdRank(c) \in Nat
  /\ \A c, d \in Conversation : IdRank(c) = IdRank(d) => c = d
<1>1. \A c \in Conversation : IdRank(c) \in DOMAIN IdOrder /\ IdOrder[IdRank(c)] = c
  BY QueryAssumption DEF IdRank
<1>2. \A i \in DOMAIN IdOrder : i \in Nat
  BY QueryAssumption
<1>. QED BY <1>1, <1>2

(* ORDER BY creation time and id leaves no two rows unordered. *)
LEMMA BeforeIsStrict ==
  ASSUME TypeOK, NEW S \in SUBSET Conversation, \A c \in S : Present(conv, c)
  PROVE  StrictOrder(BeforeOn(S), S)
<1>1. \A c \in S : conv[c].created \in Nat \cup {Null} /\ IdRank(c) \in Nat
  BY IdRankIsInjective DEF TypeOK, Present, Node, Time
<1>2. Null \notin Nat
  BY StoreAssumption DEF Time
<1>3. \A c, d \in S : <<c, d>> \in BeforeOn(S) <=> Before(c, d)
  BY DEF BeforeOn
<1>4. \A c \in S : ~Before(c, c)
  BY <1>1, <1>2 DEF Before
<1>5. ASSUME NEW c \in S, NEW d \in S, NEW e \in S, Before(c, d), Before(d, e)
      PROVE  Before(c, e)
  BY <1>1, <1>2, <1>5 DEF Before
<1>6. ASSUME NEW c \in S, NEW d \in S, c # d
      PROVE  Before(c, d) \/ Before(d, c)
  <2>1. IdRank(c) # IdRank(d)
    BY <1>6, IdRankIsInjective
  <2>. QED BY <1>1, <1>2, <2>1 DEF Before
<1>. QED BY <1>3, <1>4, <1>5, <1>6 DEF StrictOrder

LEMMA ListedIsOrdered ==
  ASSUME TypeOK, NEW S \in SUBSET Conversation
  PROVE  StrictOrder(BeforeOn(Listed(S)), Listed(S))
<1>1. Listed(S) \in SUBSET Conversation /\ \A c \in Listed(S) : Present(conv, c)
  BY DEF Listed, Navigable
<1>. QED BY <1>1, BeforeIsStrict

LEMMA RowsList ==
  ASSUME TypeOK, NEW S \in SUBSET Conversation
  PROVE  /\ Cardinality(Listed(S)) \in Nat
         /\ Lists(Rows(S), Cardinality(Listed(S)), Listed(S), BeforeOn(Listed(S)))
<1>1. IsFiniteSet(Listed(S))
  BY ConversationsAreFinite, FS_Subset DEF Listed
<1>2. Rows(S) = InOrder(Listed(S), BeforeOn(Listed(S)))
  BY DEF Rows, Listed, BeforeOn
<1>. QED BY <1>1, <1>2, ListedIsOrdered, InOrderLists

(* A traversal lists each navigable conversation it reaches once, in order. *)
LEMMA RowsAreTheListed ==
  ASSUME TypeOK, NEW S \in SUBSET Conversation
  PROVE  /\ Rows(S) \in Seq(Listed(S))
         /\ Len(Rows(S)) = Cardinality(Listed(S))
         /\ \A i, j \in DOMAIN Rows(S) : i < j => Before(Rows(S)[i], Rows(S)[j])
         /\ \A i, j \in DOMAIN Rows(S) : Rows(S)[i] = Rows(S)[j] => i = j
<1>. DEFINE rows == Rows(S)
            n    == Cardinality(Listed(S))
<1>1. n \in Nat /\ Lists(rows, n, Listed(S), BeforeOn(Listed(S)))
  BY RowsList
<1>. HIDE DEF rows, n
<1>2. /\ rows \in [1 .. n -> Listed(S)]
      /\ \A i, j \in 1 .. n : i < j => <<rows[i], rows[j]>> \in BeforeOn(Listed(S))
  BY <1>1 DEF Lists
<1>3. rows \in Seq(Listed(S)) /\ Len(rows) = n /\ DOMAIN rows = 1 .. n
  BY <1>1, <1>2
<1>4. \A i, j \in 1 .. n : rows[i] = rows[j] => i = j
  BY <1>1, ListIsInjective, ListedIsOrdered
<1>5. \A i, j \in 1 .. n : i < j => Before(rows[i], rows[j])
  BY <1>2 DEF BeforeOn
<1>. QED BY <1>3, <1>4, <1>5 DEF rows, n

-------------------------------------------------------------------------------
\* The rows an owner is shown.

LEMMA LessIsStrict ==
  ASSUME NEW S \in SUBSET Nat
  PROVE  StrictOrder(LessOn(S), S)
<1>1. \A i, j \in S : <<i, j>> \in LessOn(S) <=> i < j
  BY DEF LessOn
<1>. QED BY <1>1 DEF StrictOrder

Mine(rows, user) == {i \in DOMAIN rows : conv[rows[i]].user = user}

LEMMA OwnedByKeeps ==
  ASSUME NEW X, NEW rows \in Seq(X), NEW user
  PROVE  LET mine == Mine(rows, user)
             kept == Ascending(mine)
             n    == Cardinality(mine)
         IN /\ n \in Nat /\ mine \in SUBSET Nat
            /\ Lists(kept, n, mine, LessOn(mine))
            /\ OwnedBy(rows, user) = [k \in 1 .. n |-> rows[kept[k]]]
<1>. DEFINE mine == Mine(rows, user)
            kept == Ascending(mine)
            n    == Cardinality(mine)
<1>1. mine \in SUBSET (1 .. Len(rows)) /\ mine \in SUBSET Nat /\ Len(rows) \in Nat
  BY DEF Mine
<1>2. IsFiniteSet(mine)
  <2>1. IsFiniteSet(1 .. Len(rows))
    BY <1>1, FS_Interval
  <2>. HIDE DEF mine
  <2>. QED BY <1>1, <2>1, FS_Subset
<1>3. kept = InOrder(mine, LessOn(mine))
  BY DEF Ascending, LessOn
<1>4. n \in Nat /\ Lists(kept, n, mine, LessOn(mine))
  <2>1. StrictOrder(LessOn(mine), mine)
    BY <1>1, LessIsStrict
  <2>. HIDE DEF mine, kept
  <2>. QED BY <1>2, <1>3, <2>1, InOrderLists
<1>5. DOMAIN kept = 1 .. n
  <2>. HIDE DEF mine, kept, n
  <2>. QED BY <1>4 DEF Lists
<1>6. OwnedBy(rows, user) = [k \in DOMAIN kept |-> rows[kept[k]]]
  BY DEF OwnedBy, Mine
<1>7. OwnedBy(rows, user) = [k \in 1 .. n |-> rows[kept[k]]]
  <2>. HIDE DEF mine, kept, n
  <2>. QED BY <1>5, <1>6
<1>. QED BY <1>1, <1>4, <1>7

(* What is kept is the owner's, and keeps its order. *)
LEMMA OwnedByFacts ==
  ASSUME NEW X, NEW rows \in Seq(X), NEW user
  PROVE  LET owned == OwnedBy(rows, user)
         IN /\ owned \in Seq(X)
            /\ \A k \in DOMAIN owned : conv[owned[k]].user = user
            /\ \E kept \in [DOMAIN owned -> DOMAIN rows] :
                 /\ \A k, l \in DOMAIN owned : k < l => kept[k] < kept[l]
                 /\ \A k \in DOMAIN owned : owned[k] = rows[kept[k]]
<1>. DEFINE mine  == Mine(rows, user)
            kept  == Ascending(mine)
            n     == Cardinality(mine)
            owned == OwnedBy(rows, user)
<1>1. /\ n \in Nat /\ mine \in SUBSET Nat
      /\ Lists(kept, n, mine, LessOn(mine))
      /\ owned = [k \in 1 .. n |-> rows[kept[k]]]
  BY OwnedByKeeps
<1>2. mine \subseteq DOMAIN rows /\ \A i \in mine : conv[rows[i]].user = user
  BY DEF Mine
<1>. HIDE DEF mine, kept, n, owned
<1>3. kept \in [1 .. n -> mine] /\ \A k, l \in 1 .. n : k < l => kept[k] < kept[l]
  BY <1>1 DEF Lists, LessOn
<1>4. \A k \in 1 .. n : kept[k] \in mine /\ kept[k] \in DOMAIN rows
  BY <1>2, <1>3
<1>5. \A k \in 1 .. n : rows[kept[k]] \in X
  BY <1>4
<1>6. owned \in Seq(X) /\ DOMAIN owned = 1 .. n
  BY <1>1, <1>5
<1>7. \A k \in 1 .. n : owned[k] = rows[kept[k]] /\ conv[owned[k]].user = user
  BY <1>1, <1>2, <1>4
<1>8. kept \in [1 .. n -> DOMAIN rows]
  BY <1>3, <1>4
<1>. QED BY <1>3, <1>6, <1>7, <1>8 DEF owned

LEMMA OwnedByLosesNobody ==
  ASSUME NEW X, NEW rows \in Seq(X), NEW user, NEW i \in DOMAIN rows, conv[rows[i]].user = user
  PROVE  \E k \in DOMAIN OwnedBy(rows, user) : OwnedBy(rows, user)[k] = rows[i]
<1>. DEFINE mine  == Mine(rows, user)
            kept  == Ascending(mine)
            n     == Cardinality(mine)
            owned == OwnedBy(rows, user)
<1>1. Lists(kept, n, mine, LessOn(mine)) /\ owned = [k \in 1 .. n |-> rows[kept[k]]]
  BY OwnedByKeeps
<1>2. i \in mine
  BY DEF Mine
<1>. HIDE DEF mine, kept, n, owned
<1>3. PICK k \in 1 .. n : kept[k] = i
  BY <1>1, <1>2 DEF Lists
<1>4. k \in DOMAIN owned /\ owned[k] = rows[i]
  BY <1>1, <1>3
<1>. QED BY <1>4 DEF owned

LEMMA PageFacts ==
  ASSUME NEW X, NEW rows \in Seq(X), NEW skip \in Nat, NEW limit \in Nat
  PROVE  LET page == Page(rows, skip, limit)
         IN /\ page \in Seq(X)
            /\ \A i \in DOMAIN page : skip + i \in DOMAIN rows /\ page[i] = rows[skip + i]
<1>. DEFINE last == IF skip + limit < Len(rows) THEN skip + limit ELSE Len(rows)
            page == SubSeq(rows, skip + 1, last)
<1>1. last \in Int /\ last <= Len(rows) /\ Len(rows) \in Nat
  OBVIOUS
<1>. HIDE DEF last
<1>2. \A i \in skip + 1 .. last : i \in 1 .. Len(rows) /\ rows[i] \in X
  BY <1>1
<1>3. /\ page \in Seq(X)
      /\ Len(page) = IF skip + 1 <= last THEN last - (skip + 1) + 1 ELSE 0
      /\ \A i \in 1 .. last - (skip + 1) + 1 : page[i] = rows[skip + 1 + i - 1]
  BY <1>1, <1>2, SubSeqProperties
<1>4. ASSUME NEW i \in DOMAIN page PROVE skip + i \in DOMAIN rows /\ page[i] = rows[skip + i]
  <2>1. i \in 1 .. Len(page) /\ i \in 1 .. last - (skip + 1) + 1 /\ skip + i \in skip + 1 .. last
    BY <1>1, <1>3
  <2>2. skip + 1 + i - 1 = skip + i
    BY <2>1
  <2>. QED BY <1>2, <1>3, <2>1, <2>2
<1>. QED BY <1>3, <1>4 DEF last, Page

LEMMA PageLength ==
  ASSUME NEW X, NEW rows \in Seq(X), NEW skip \in Nat, NEW limit \in Nat, NEW i
  PROVE  i \in DOMAIN Page(rows, skip, limit) <=> i \in 1 .. limit /\ skip + i \in DOMAIN rows
<1>. DEFINE last == IF skip + limit < Len(rows) THEN skip + limit ELSE Len(rows)
            page == SubSeq(rows, skip + 1, last)
<1>1. last \in Int /\ last <= Len(rows) /\ Len(rows) \in Nat
  OBVIOUS
<1>2. last <= skip + limit /\ (last = Len(rows) \/ last = skip + limit)
  BY <1>1
<1>. HIDE DEF last
<1>3. page \in Seq(X) /\ Len(page) = IF skip + 1 <= last THEN last - (skip + 1) + 1 ELSE 0
  <2>1. \A k \in skip + 1 .. last : k \in 1 .. Len(rows) /\ rows[k] \in X
    BY <1>1
  <2>. QED BY <1>1, <2>1, SubSeqProperties
<1>. HIDE DEF page
<1>4. i \in 1 .. Len(page) <=> i \in 1 .. limit /\ skip + i \in 1 .. Len(rows)
  <2>1. Len(page) = IF skip + 1 <= last THEN last - (skip + 1) + 1 ELSE 0
    BY <1>3
  <2>2. CASE i \in Nat
    BY <1>1, <1>2, <2>1, <2>2
  <2>3. CASE i \notin Nat
    BY <1>1, <2>1, <2>3
  <2>. QED BY <2>2, <2>3
<1>5. page \in Seq(X)
  BY <1>3
<1>6. DOMAIN page = 1 .. Len(page) /\ DOMAIN rows = 1 .. Len(rows)
  BY <1>5
<1>. QED BY <1>4, <1>6 DEF page, last, Page

(* What a page of a traversal shows its reader. *)
LEMMA ShownRows ==
  ASSUME TypeOK, NEW S \in SUBSET Conversation, NEW skip \in Nat, NEW limit \in Nat, NEW user
  PROVE  LET shown == OwnedBy(Page(Rows(S), skip, limit), user)
         IN /\ shown \in Seq(S)
            /\ \A i \in DOMAIN shown : Owns(user, shown[i])
            /\ \A i, j \in DOMAIN shown : i < j => Before(shown[i], shown[j])
            /\ \A i, j \in DOMAIN shown : shown[i] = shown[j] => i = j
<1>. DEFINE rows  == Rows(S)
            page  == Page(rows, skip, limit)
            shown == OwnedBy(page, user)
<1>1. /\ rows \in Seq(Listed(S))
      /\ \A i, j \in DOMAIN rows : i < j => Before(rows[i], rows[j])
      /\ \A i, j \in DOMAIN rows : rows[i] = rows[j] => i = j
  BY RowsAreTheListed
<1>. HIDE DEF rows
<1>2. /\ page \in Seq(Listed(S))
      /\ \A i \in DOMAIN page : skip + i \in DOMAIN rows /\ page[i] = rows[skip + i]
  BY <1>1, PageFacts
<1>. HIDE DEF page
<1>3. /\ shown \in Seq(Listed(S))
      /\ \A k \in DOMAIN shown : conv[shown[k]].user = user
  BY <1>2, OwnedByFacts
<1>4. PICK kept \in [DOMAIN shown -> DOMAIN page] :
        /\ \A k, l \in DOMAIN shown : k < l => kept[k] < kept[l]
        /\ \A k \in DOMAIN shown : shown[k] = page[kept[k]]
  BY <1>2, OwnedByFacts
<1>. HIDE DEF shown
<1>5. \A i \in DOMAIN page : i \in Nat
  BY <1>2
<1>6. \A i \in DOMAIN shown : i \in Nat /\ shown[i] \in Listed(S)
  BY <1>3
<1>7. \A k \in DOMAIN shown : skip + kept[k] \in DOMAIN rows /\ shown[k] = rows[skip + kept[k]]
  BY <1>2, <1>4
<1>8. ASSUME NEW i \in DOMAIN shown, NEW j \in DOMAIN shown, i < j PROVE Before(shown[i], shown[j])
  <2>1. skip + kept[i] < skip + kept[j]
    BY <1>4, <1>5, <1>8
  <2>. QED BY <1>1, <1>7, <2>1
<1>9. ASSUME NEW i \in DOMAIN shown, NEW j \in DOMAIN shown, shown[i] = shown[j] PROVE i = j
  <2>1. skip + kept[i] = skip + kept[j]
    BY <1>1, <1>7, <1>9
  <2>2. kept[i] = kept[j]
    BY <1>4, <1>5, <2>1
  <2>3. kept[i] \in Nat
    BY <1>4, <1>5
  <2>. QED BY <1>4, <1>6, <2>2, <2>3
<1>10. \A i \in DOMAIN shown : Owns(user, shown[i]) /\ shown[i] \in S
  BY <1>3, <1>6 DEF Owns, Listed, Navigable
<1>11. shown \in Seq(S)
  BY <1>3 DEF Listed
<1>. QED BY <1>8, <1>9, <1>10, <1>11 DEF shown, page, rows

\* Whom it shows: the owner's among the rows skip + 1 .. skip + limit.
Shows(shown, rows, skip, limit, user) ==
  /\ \A k \in DOMAIN shown : \E i \in 1 .. limit :
       skip + i \in DOMAIN rows /\ shown[k] = rows[skip + i]
  /\ \A i \in 1 .. limit :
       skip + i \in DOMAIN rows /\ conv[rows[skip + i]].user = user =>
         \E k \in DOMAIN shown : shown[k] = rows[skip + i]

LEMMA ShownAre ==
  ASSUME NEW X, NEW rows \in Seq(X), NEW skip \in Nat, NEW limit \in Nat, NEW user
  PROVE  Shows(OwnedBy(Page(rows, skip, limit), user), rows, skip, limit, user)
<1>. DEFINE page  == Page(rows, skip, limit)
            shown == OwnedBy(page, user)
<1>1. /\ page \in Seq(X)
      /\ \A i \in DOMAIN page : skip + i \in DOMAIN rows /\ page[i] = rows[skip + i]
  BY PageFacts
<1>2. \A i : i \in DOMAIN page <=> i \in 1 .. limit /\ skip + i \in DOMAIN rows
  BY PageLength
<1>. HIDE DEF page
<1>3. ASSUME NEW k \in DOMAIN shown
      PROVE  \E i \in 1 .. limit : skip + i \in DOMAIN rows /\ shown[k] = rows[skip + i]
  <2>1. /\ shown \in Seq(X)
        /\ \A l \in DOMAIN shown : conv[shown[l]].user = user
        /\ \E kept \in [DOMAIN shown -> DOMAIN page] :
             /\ \A l, m \in DOMAIN shown : l < m => kept[l] < kept[m]
             /\ \A l \in DOMAIN shown : shown[l] = page[kept[l]]
    BY <1>1, OwnedByFacts
  <2>. HIDE DEF shown
  <2>2. PICK i \in DOMAIN page : shown[k] = page[i]
    BY <2>1
  <2>. QED BY <1>1, <1>2, <2>2
<1>4. ASSUME NEW i \in 1 .. limit, skip + i \in DOMAIN rows, conv[rows[skip + i]].user = user
      PROVE  \E k \in DOMAIN shown : shown[k] = rows[skip + i]
  <2>1. i \in DOMAIN page /\ page[i] = rows[skip + i]
    BY <1>1, <1>2, <1>4
  <2>2. \E k \in DOMAIN shown : shown[k] = page[i]
    BY <1>1, <1>4, <2>1, OwnedByLosesNobody
  <2>. QED BY <2>1, <2>2
<1>. QED BY <1>3, <1>4 DEF Shows, shown, page
===============================================================================
