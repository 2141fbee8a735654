----------------------------- MODULE ReadPromises -----------------------------
(***************************************************************************)
(* What the comments say of the context the gRPC handler returns, and that *)
(* it does not keep.  What does hold is in GraphReads.                     *)
(***************************************************************************)
EXTENDS GraphReads

(* graph_context_handler.py:101: "Ancestors are returned root-first ending at
   the current conversation's parent".  So each ancestor listed comes before
   those it is an ancestor of. *)
AncestorsAreRootFirst ==
  Context =>
    \A i, j \in DOMAIN response.rows :
      /\ response.rows[j] \in Ancestors(response.to.conv)
      /\ response.rows[i] \in Ancestors(response.rows[j])
      => i < j
===============================================================================
