------------------------------ MODULE MCGraphSync ------------------------------
(***************************************************************************)
(* A small instance of GraphSync: two replicas, two partitions, a branch   *)
(* whose parent is not known, a message of it that may come first, and     *)
(* bytes that are not JSON.                                                *)
(***************************************************************************)
EXTENDS GraphSync, TLC

CONSTANTS parent, branch, m1, p1, p2, r1, r2

MCUser   == {"bob", UnknownUser}
MCTitle  == {StubTitle, DefaultTitle}
MCStatus == {"ACTIVE", "DELETED"}

BranchCreated == [conv |-> branch, user |-> "bob", title |-> Null, status |-> Null,
                  parent |-> parent, at |-> 1]
BranchMessage == [msg |-> m1, conv |-> branch, user |-> "bob"]

OneCreated == {BranchCreated}
OneMessage == {BranchMessage}
None       == {}

Rcd(k, e, keyed) == [kind |-> k, event |-> e, keyed |-> keyed]

\* The conversation topics in p1, the messages in p2.
MCLog ==
  p1 :> <<Rcd("valid", BranchCreated, TRUE)>> @@
  p2 :> <<Rcd("undecodable", NoEvent, FALSE), Rcd("valid", BranchMessage, FALSE)>>
================================================================================
