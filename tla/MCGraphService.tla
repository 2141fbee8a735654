---------------------------- MODULE MCGraphService ----------------------------
(***************************************************************************)
(* Small instances of GraphService: a parent, its branch and a message,    *)
(* with stale, tied, partial and unstamped events on the topics.  The      *)
(* instances of GraphPromises hold just the events a promise is about.     *)
(***************************************************************************)
EXTENDS GraphPromises, GraphReplica

CONSTANTS parent, branch, m1

CreatedEv(c, u, t, p, at) ==
  [conv |-> c, user |-> u, title |-> t, status |-> Null, parent |-> p, at |-> at]
UpdatedEv(c, t, s, at) == [conv |-> c, title |-> t, status |-> s, at |-> at]

MCUser   == {"alice", "bob", UnknownUser}
MCTitle  == {"A", "B", StubTitle, DefaultTitle}
MCStatus == {"ACTIVE", "ARCHIVED", "DELETED"}

\* A conversation and a branch of it by another user, with times or without.
CreatedTree      == {CreatedEv(parent, "alice", "A", Null, 1), CreatedEv(branch, "bob", Null, parent, 2)}
CreatedUnstamped == {CreatedEv(parent, Null, "A", Null, Null), CreatedEv(branch, "bob", Null, parent, Null)}
CreatedAlone     == {CreatedEv(parent, "alice", "A", Null, 1)}

DeletedParent == {[conv |-> parent, at |-> 3]}
DeletedBoth   == {[conv |-> parent, at |-> 3], [conv |-> branch, at |-> Null]}

\* A title and a status sent apart, one at the time of the deletion.
UpdatedApart == {UpdatedEv(parent, "B", Null, 2), UpdatedEv(parent, Null, "ARCHIVED", 3),
                 UpdatedEv(branch, "A", Null, Null)}
UpdatedMixed == {UpdatedEv(parent, "B", Null, 2), UpdatedEv(branch, Null, "ARCHIVED", Null)}

MessageInParent == {[msg |-> m1, conv |-> parent, user |-> "alice"]}
None == {}
===============================================================================
