---------------------------- MODULE ConsumerPromises ----------------------------
(***************************************************************************)
(* What the repository's documents and comments say of the ingestion that  *)
(* the worker does not keep.  The statement has a counterexample; what     *)
(* does hold is in ConsumerWorker.                                         *)
(***************************************************************************)
EXTENDS ConsumerWorker

(* consumer_worker.py:111: on any processing error "the message is logged and
   skipped so the batch can still be committed".  So no message ends the loop. *)
LoopSurvivesMessages == \A r \in Replica : pc[r] # "dead"
===============================================================================
