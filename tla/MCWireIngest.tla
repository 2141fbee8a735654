------------------------------ MODULE MCWireIngest ------------------------------
(***************************************************************************)
(* A small instance of WireIngest: both formats on every topic, stamps of  *)
(* one second in both spellings, and objects that lack a field.            *)
(***************************************************************************)
EXTENDS WireIngest

CONSTANTS c1, m1

MCConversation == {c1, Blank}
MCUser   == {"alice", UnknownUser, "agent:user", "agent:assistant"}
MCTitle  == {"A", "B", Blank, StubTitle, DefaultTitle}
MCStatus == {"ACTIVE", "ARCHIVED", "DELETED"}

S(sec, frac, zone) == [sec |-> sec, frac |-> frac, zone |-> zone]

Obj(topic, nested, id, occurred_at, body) ==
  [topic |-> topic, nested |-> nested, event_id |-> id, occurred_at |-> occurred_at, body |-> body]

Created(c, t, cs, at) ==
  [id |-> c, user |-> "alice", title |-> t, conversation_status |-> cs, status |-> Null,
   parent |-> Null, at |-> at]
Renamed(c, t, at) == [id |-> c, title |-> t, status |-> Null, at |-> at]
Sent(c, role, whole) == [id |-> c, msg |-> m1, user |-> Null, role |-> role, whole |-> whole]

MCWire ==
  {Obj("created", TRUE,  "e1", Null, Created(c1, Blank, Null, S(1, 1, Python))),
   Obj("created", FALSE, Null, Null, Created(c1, "A", "ARCHIVED", S(1, 0, Python))),
   Obj("created", FALSE, Null, Null, Created(Null, "A", Null, S(1, 0, Zulu))),
   Obj("created", TRUE,  "e2", Null, Created(Null, "A", Null, S(1, 0, Zulu))),
   Obj("updated", TRUE,  "e3", S(1, 0, Zulu), Renamed(c1, "B", Null)),
   Obj("updated", FALSE, Null, Null, Renamed(c1, Blank, S(2, 0, Python))),
   Obj("deleted", FALSE, Null, S(1, 1, Zulu), [id |-> c1, at |-> Null]),
   Obj("deleted", TRUE,  "e4", Null, [id |-> c1, at |-> S(2, 1, Zulu)]),
   Obj("message", FALSE, Null, Null, Sent(c1, Null, FALSE)),
   Obj("message", TRUE,  Null, Null, Sent(c1, "assistant", TRUE)),
   Obj("message", TRUE,  "e5", Null, Sent(c1, "assistant", FALSE))}

MCCreated == {CreatedOf(w) : w \in On("created")}
MCDeleted == {DeletedOf(w) : w \in On("deleted")}
MCUpdated == {UpdatedOf(w) : w \in On("updated")}
MCMessage == {MessageOf(w) : w \in On("message")}

\* The clock of a replica.
MCNow == {Rank(S(1, 1, Python)), Rank(S(2, 1, Python))}
================================================================================
