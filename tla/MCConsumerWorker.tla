--------------------------- MODULE MCConsumerWorker ---------------------------
(***************************************************************************)
(* Small instances of ConsumerWorker: one or two replicas, two partitions, *)
(* an event published twice, a message event of two transactions that has  *)
(* no event id, and records that are not events.                           *)
(***************************************************************************)
EXTENDS ConsumerPromises, TLC

CONSTANTS p1, p2, e1, m1, x1, r1, r2

Rcd(k, e, keyed) == [kind |-> k, event |-> e, keyed |-> keyed]

\* A producer that retried e1, and a message.
LogDuplicate ==
  p1 :> <<Rcd("valid", e1, TRUE), Rcd("valid", e1, TRUE)>> @@
  p2 :> <<Rcd("valid", m1, FALSE)>>

\* An event its schema rejects, two valid ones, and a JSON value that is not an
\* object.
LogFaults ==
  p1 :> <<Rcd("rejected", x1, FALSE), Rcd("valid", e1, TRUE)>> @@
  p2 :> <<Rcd("valid", m1, FALSE), Rcd("nonobject", x1, FALSE)>>

\* A JSON value that is not an object.
LogPoison ==
  p1 :> <<Rcd("nonobject", x1, FALSE), Rcd("valid", e1, TRUE)>> @@
  p2 :> <<Rcd("valid", m1, FALSE)>>

\* Replicas are interchangeable where no liveness is checked.
AnyReplica == Permutations({r1, r2})
===============================================================================
