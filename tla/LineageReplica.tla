----------------------------- MODULE LineageReplica -----------------------------
(***************************************************************************)
(* What the graph is for its readers: a replica of the lineage that other  *)
(* services publish.  It knows a set of facts, every transaction adds the  *)
(* facts of one published change, and no fact is ever taken back.  Adding  *)
(* commutes and repeats harmlessly, so two replicas that have applied the  *)
(* same changes, in whatever order and number, know the same facts.        *)
(***************************************************************************)

CONSTANT Gains     \* the sets of facts that the published changes bring

VARIABLE facts

Init == facts = {}

Learn(gain) == facts' = facts \cup gain

Next == \E gain \in Gains : Learn(gain)

Spec == Init /\ [][Next]_facts
================================================================================
