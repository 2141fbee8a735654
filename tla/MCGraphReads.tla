----------------------------- MODULE MCGraphReads -----------------------------
(***************************************************************************)
(* A lineage of three generations, and another user's branch of its root,  *)
(* built in any order, with a message that may come before its            *)
(* conversation, and partly deleted while a reader looks at it, or pages   *)
(* through it.                                                             *)
(***************************************************************************)
EXTENDS ReadPromises, GraphPaging

CONSTANTS root, middle, leaf, side, m1

CreatedEv(c, u, p, at) ==
  [conv |-> c, user |-> u, title |-> Null, status |-> Null, parent |-> p, at |-> at]

MCUser   == {"alice", "bob", UnknownUser}
MCTitle  == {StubTitle, DefaultTitle}
MCStatus == {"ACTIVE", "DELETED"}

\* The string order of the ids is not the order of the lineage.
MCIdOrder == <<leaf, middle, root, side>>

\* A list with another user's conversation, and one that is too long.
MCIdLists == {<<leaf, side>>, <<root, middle, leaf>>}

CreatedFamily ==
  {CreatedEv(root, "alice", Null, 1), CreatedEv(middle, "alice", root, 2),
   CreatedEv(leaf, "alice", middle, 3), CreatedEv(side, "bob", root, 2)}

DeletedMiddle   == {[conv |-> middle, at |-> 4]}
MessageInMiddle == {[msg |-> m1, conv |-> middle, user |-> "alice"]}
Nothing        == {}

\* The lists a caller pages through.
MCPageable ==
  {[kind |-> k[1], conv |-> k[2], user |-> "alice", limit |-> 1] :
     k \in {<<"children", root>>, <<"descendants", root>>, <<"ancestors", leaf>>}}
===============================================================================
