------------------------------ MODULE GraphPaging ------------------------------
(***************************************************************************)
(* A caller who pages through a list of relatives, as the routes of        *)
(* app/api/routes/graph.py offer it: skip grows by limit from one request  *)
(* to the next.  Every page is a request with transactions of its own, and *)
(* the handlers go on between two pages: relatives join the list, stubs at *)
(* the head of it, and leave it by soft deletion, while skip counts rows.  *)
(***************************************************************************)
EXTENDS GraphReads

CONSTANTS
  Pageable,   \* what a caller may page through
  MaxPages    \* a bound on the pages of one walk

ASSUME PagingAssumption ==
  /\ Pageable \subseteq [kind : ListKind, conv : Conversation, user : Callers, limit : Limits]
  /\ MaxPages \in Nat

VARIABLE walk    \* the walk of the caller, and what happened to its list

pagingVars == <<allVars, walk>>

Kin(l) == CASE l.kind = "children"    -> Children(l.conv)
            [] l.kind = "ancestors"   -> Ancestors(l.conv)
            [] l.kind = "descendants" -> Descendants(l.conv)

Listing(l) == Rows(Kin(l))

Elements(s) == {s[i] : i \in DOMAIN s}

\* The first n rows.
Front(rows, n) == {rows[i] : i \in DOMAIN rows \cap 1 .. n}

\* The rows the caller has put behind him.
Position == walk.pages * walk.list.limit

NextPage ==
  LET l == walk.list
  IN [kind |-> l.kind, conv |-> l.conv, user |-> l.user, skip |-> Position, limit |-> l.limit]

PagingInit == ReadInit /\ walk = None

(* A reader that asks single questions, or from some moment on pages through a
   list instead.  late and gone are history: who joined the list before the caller's position,
   and whether anyone left it there. *)
Begin(l) ==
  /\ walk = None /\ reading = None /\ response = None
  /\ walk' = [list |-> l, pages |-> 0, seen |-> <<>>, late |-> {}, gone |-> FALSE]
  /\ UNCHANGED allVars

AskPage ==
  /\ walk # None
  /\ walk.pages < MaxPages
  /\ Admit(NextPage) \/ Refuse(NextPage)
  /\ UNCHANGED walk

TakePage ==
  /\ walk # None
  /\ reading # None
  /\ LET q == reading.ask
     IN Reply(q, OwnedBy(Page(Listing(walk.list), q.skip, q.limit), q.user), {})
  /\ walk' = [walk EXCEPT !.pages = @ + 1, !.seen = @ \o response'.rows]

\* A handler's transaction, and what it does to the list that l stands for.
Meanwhile(l) ==
  /\ Next
  /\ UNCHANGED readVars
  /\ walk.list = l
  /\ \E before \in {Listing(l)}, after \in {Listing(l)'} :
       walk' = [walk EXCEPT
         !.late = @ \cup (Front(after, Position) \ Elements(before)),
         !.gone = @ \/ ~(Front(before, Position) \subseteq Elements(after))]

PagingNext ==
  \/ \E l \in Pageable : Begin(l) \/ (walk # None /\ Meanwhile(l))
  \/ walk = None /\ ReadNext /\ UNCHANGED walk
  \/ AskPage \/ TakePage

PagingSpec == PagingInit /\ [][PagingNext]_pagingVars

-------------------------------------------------------------------------------

(* Skip counts rows of a list that others change.  Under soft deletion a caller
   passes over nobody of his own, unless someone left the list among the rows he
   had put behind him: whoever stands there now was on one of his pages, or came
   there later.  It rests on creation times and owners that never change, stubs
   included, and on one total order. *)
NobodyIsPassedOver ==
  walk # None /\ ~walk.gone =>
    \A c \in Front(Listing(walk.list), Position) :
      conv[c].user = walk.list.user => c \in Elements(walk.seen) \cup walk.late

(* Under soft deletion the pages of a caller go on where the last one ended, and
   so show nobody twice, unless someone joined the list among the rows he had put
   behind him. *)
NobodyComesTwice ==
  walk # None /\ walk.late = {} =>
    \A i, j \in DOMAIN walk.seen : i < j => Before(walk.seen[i], walk.seen[j])
===============================================================================
