------------------------------ MODULE AtLeastOnce ------------------------------
(***************************************************************************)
(* What the ingestion pipeline promises, whoever runs it and however it    *)
(* fails: the transactions of an event reach the graph one by one, a       *)
(* dedup marker appears only behind a complete event, and the committed    *)
(* offset of a partition moves forward over records that are settled:      *)
(* written, or given up on.  Nothing says how often or in which order a    *)
(* record is handled.                                                      *)
(***************************************************************************)
EXTENDS Naturals, Sequences

CONSTANTS
  Partition,    \* the partitions of the four topics
  Event,        \* event identities
  TwoStep,      \* the events whose handler makes two transactions
  Log           \* the records of each partition

Kind   == {"undecodable", "nonobject", "rejected", "valid"}
Record == [kind : Kind, event : Event, keyed : BOOLEAN]

ASSUME LogAssumption ==
  /\ TwoStep \subseteq Event
  /\ Log \in [Partition -> Seq(Record)]

Offset(p) == 1 .. Len(Log[p])
Parts(e)  == IF e \in TwoStep THEN {1, 2} ELSE {1}
Spots     == {po \in Partition \X Nat : po[2] \in Offset(po[1])}

VARIABLES
  written,     \* <<event, part>>: the transactions that took effect
  marked,      \* the events with a ProcessedEvent node
  givenUp,     \* history: <<partition, offset>> of the records the worker gave up on
  committed    \* how many records of each partition the group has committed

promise == <<written, marked, givenUp, committed>>

Whole(e) == \A k \in Parts(e) : <<e, k>> \in written

\* Given up, or in the graph: a duplicate is settled by the record it repeats.
Settled(p, o) ==
  \/ <<p, o>> \in givenUp
  \/ Log[p][o].kind \in {"valid", "rejected"} /\ Whole(Log[p][o].event)

Init ==
  /\ written   = {}
  /\ marked    = {}
  /\ givenUp   = {}
  /\ committed = [p \in Partition |-> 0]

Apply(e, k) ==
  /\ k \in Parts(e)
  /\ written' = written \cup {<<e, k>>}
  /\ UNCHANGED <<marked, givenUp, committed>>

Confirm(e) ==
  /\ Whole(e)
  /\ marked' = marked \cup {e}
  /\ UNCHANGED <<written, givenUp, committed>>

(* A failed transaction may have reached the database all the same. *)
Abandon(p, o) ==
  /\ givenUp' = givenUp \cup {<<p, o>>}
  /\ \/ written' = written
     \/ \E k \in Parts(Log[p][o].event) : written' = written \cup {<<Log[p][o].event, k>>}
  /\ UNCHANGED <<marked, committed>>

Advance ==
  /\ committed' \in [Partition -> Nat]
  /\ \A p \in Partition :
       /\ committed[p] <= committed'[p] /\ committed'[p] <= Len(Log[p])
       /\ \A o \in committed[p] + 1 .. committed'[p] : Settled(p, o)
  /\ UNCHANGED <<written, marked, givenUp>>

Next ==
  \/ \E e \in Event : Confirm(e) \/ \E k \in 1 .. 2 : Apply(e, k)
  \/ \E p \in Partition : \E o \in Offset(p) : Abandon(p, o)
  \/ Advance

Spec == Init /\ [][Next]_promise
===============================================================================
