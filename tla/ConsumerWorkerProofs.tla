-------------------------- MODULE ConsumerWorkerProofs --------------------------
(***************************************************************************)
(* The safety properties of ConsumerWorker and its refinement of           *)
(* AtLeastOnce, for any replicas, partitions, records and bounds.          *)
(*                                                                         *)
(* The argument: what a replica holds is bound to its place in the loop    *)
(* (HandsOK), what a thread may still do is safe whenever it is done       *)
(* (OrphansOK), and between the committed offset and the position of a     *)
(* partition every record is settled or in its owner's hands.              *)
(***************************************************************************)
EXTENDS ConsumerWorker, WellFoundedInduction, TLAPS

\* Where a replica is, and what it holds there.
HandOK(r) ==
  /\ pc[r] \in {"down", "poll"} => cur[r] = Nothing /\ \A p \in Partition : pending[r][p] = {}
  /\ pc[r] \in {"check", "write", "mark"} =>
       cur[r] # Nothing /\ Rec(r).kind \in {"valid", "rejected"}
  /\ pc[r] = "mark" => Whole(Rec(r).event)
  /\ part[r] # 1 =>
       /\ pc[r] = "write"
       /\ Rec(r).event \in TwoStep /\ <<Rec(r).event, 1>> \in written

HandsOK == \A r \in Replica : HandOK(r)

\* What threads still run is a transaction of an event, or a marker it may have.
OrphansOK ==
  \A op \in orphans :
    /\ op[1] = "write" => op[3] \in Parts(op[2])
    /\ op[1] = "mark"  => Whole(op[2])

WorkerInv ==
  /\ WorkerTypeOK /\ HandsOK /\ OrphansOK
  /\ MarkedImpliesWritten /\ CommitCoversOnlySettled /\ FetchedIsHeldOrSettled

-------------------------------------------------------------------------------
\* Facts used throughout.

(* The least offset of a set is in it. *)
LEMMA MinIsMember ==
  ASSUME NEW S \in SUBSET Nat, S # {}
  PROVE  Min(S) \in S
<1>1. PICK x \in S : \A y \in S : ~ (<<y, x>> \in OpToRel(<, Nat))
  BY WFMin, NatLessThanWellFounded, Zenon
<1>2. \A y \in S : ~ (y < x)
  BY <1>1 DEF OpToRel
<1>3. \A y \in S : x <= y
  BY <1>2
<1>. QED BY <1>3 DEF Min

(* Records of the log have their type. *)
LEMMA RecordTypes ==
  ASSUME NEW po \in Spots
  PROVE  /\ po[1] \in Partition /\ po[2] \in Offset(po[1]) /\ po[2] \in Nat
         /\ po = <<po[1], po[2]>>
         /\ Log[po[1]][po[2]] \in Record
  BY LogAssumption DEF Spots, Offset

(* A replica in the middle of a record has one, and is at one of its transactions. *)
LEMMA HandTypes ==
  ASSUME WorkerTypeOK, HandsOK, NEW r \in Replica, pc[r] \in {"check", "write", "mark"}
  PROVE  /\ cur[r] \in Spots /\ Rec(r) \in Record /\ Rec(r).event \in Event
         /\ part[r] \in Parts(Rec(r).event)
<1>1. cur[r] \in Spots
  BY DEF WorkerTypeOK, HandsOK, HandOK
<1>2. Rec(r) \in Record /\ Rec(r).event \in Event
  BY <1>1, RecordTypes DEF Rec, Record
<1>. QED BY <1>1, <1>2 DEF WorkerTypeOK, HandsOK, HandOK, Parts

\* The marker comes after the last transaction.
LEMMA MarksAreEarned ==
  ASSUME HandsOK, NEW r \in Replica, pc[r] = "mark"
  PROVE  Whole(Rec(r).event)
  BY DEF HandsOK, HandOK

(* A record that is settled stays settled as the graph and what is given up grow. *)
LEMMA SettledStays ==
  ASSUME written \subseteq written', givenUp \subseteq givenUp'
  PROVE  /\ \A e : Whole(e) => Whole(e)'
         /\ \A p, o : Settled(p, o) => Settled(p, o)'
  BY DEF Whole, Settled

(* They do grow: no step takes anything back. *)
LEMMA NothingIsTaken ==
  ASSUME WorkerNext
  PROVE  written \subseteq written' /\ givenUp \subseteq givenUp'
<1>. USE DEF promise, vars
<1>1. ASSUME NEW r \in Replica, Start(r) \/ GoDown(r)
      PROVE  written \subseteq written' /\ givenUp \subseteq givenUp'
  BY <1>1 DEF Start, GoDown
<1>2. ASSUME NEW r \in Replica, Loop(r)
      PROVE  written \subseteq written' /\ givenUp \subseteq givenUp'
  BY <1>2 DEF Loop, Poll, PollNothing, Commit, KafkaFails, Take, Check, WriteGraph,
              HandlerFails, FailAs, Mark
<1>3. ASSUME NEW op \in orphans, Land(op)
      PROVE  written \subseteq written' /\ givenUp \subseteq givenUp'
  BY <1>3 DEF Land, LandAs
<1>4. ASSUME NEW p \in Partition, NEW r \in Replica, Assign(p, r) \/ Rebalance(p, r)
      PROVE  written \subseteq written' /\ givenUp \subseteq givenUp'
  BY <1>4 DEF Assign, Rebalance, GiveTo
<1>. QED BY <1>1, <1>2, <1>3, <1>4 DEF WorkerNext

-------------------------------------------------------------------------------
\* Types, one lemma per part of the next-state relation.

LEMMA TypesAtFirst == WorkerInit => WorkerTypeOK
  BY LogAssumption, WorkerAssumption
  DEF WorkerInit, Init, WorkerTypeOK, PC, Offset

LEMMA StartTypes ==
  ASSUME WorkerInv, NEW r \in Replica, Start(r) \/ GoDown(r)
  PROVE  WorkerTypeOK'
<1>. USE DEF WorkerInv, WorkerTypeOK, promise, group, Goto, PC, Offset
<1>1. CASE Start(r)
  BY <1>1 DEF Start
<1>2. CASE GoDown(r)
  <2>1. InFlight(r) \subseteq {"write", "mark"} \X Event \X {0, 1, 2}
    BY HandTypes DEF InFlight
  <2>2. orphans' \subseteq {"write", "mark"} \X Event \X {0, 1, 2}
    BY <1>2, <2>1 DEF GoDown
  <2>3. stops' \in 0 .. MaxStops
    BY <1>2, WorkerAssumption DEF GoDown
  <2>4. /\ pending' \in [Replica -> [Partition -> SUBSET Nat]]
        /\ \A x \in Replica, p \in Partition : pending'[x][p] \subseteq Offset(p)
    BY <1>2 DEF GoDown
  <2>5. /\ pc' \in [Replica -> PC] /\ cur' \in [Replica -> Spots \cup {Nothing}]
        /\ part' \in [Replica -> {1, 2}] /\ owner' \in [Partition -> Replica \cup {Nobody}]
    BY <1>2 DEF GoDown
  <2>. QED BY <1>2, <2>2, <2>3, <2>4, <2>5 DEF GoDown
<1>. QED BY <1>1, <1>2

LEMMA GroupTypes ==
  ASSUME WorkerInv, NEW p \in Partition, NEW r \in Replica, Assign(p, r) \/ Rebalance(p, r)
  PROVE  WorkerTypeOK'
<1>. USE DEF WorkerInv, WorkerTypeOK, promise, local
<1>1. GiveTo(p, r)
  BY DEF Assign, Rebalance
<1>2. owner' \in [Partition -> Replica \cup {Nobody}]
  BY <1>1 DEF GiveTo
<1>3. /\ position' \in [Partition -> Nat]
      /\ \A q \in Partition : committed[q] <= position'[q] /\ position'[q] <= position[q]
  BY <1>1 DEF GiveTo
<1>4. \A q \in Partition : Len(Log[q]) \in Nat
  BY LogAssumption
<1>5. \A q \in Partition : committed[q] <= position'[q] /\ position'[q] <= Len(Log[q])
  BY <1>3, <1>4
<1>6. rebalances' \in 0 .. MaxRebalances
  BY WorkerAssumption DEF Assign, Rebalance
<1>. QED BY <1>1, <1>2, <1>3, <1>5, <1>6 DEF GiveTo

LEMMA LandTypes ==
  ASSUME WorkerInv, NEW op \in orphans, Land(op)
  PROVE  WorkerTypeOK'
<1>. USE DEF WorkerInv, WorkerTypeOK
<1>1. PICK landed \in BOOLEAN : LandAs(op, landed)
  BY DEF Land
<1>2. op[2] \in Event
  OBVIOUS
<1>3. op[1] = "write" => op[3] \in {1, 2}
  BY DEF OrphansOK, Parts
<1>4. written' \subseteq Event \X {1, 2} /\ marked' \subseteq Event
  BY <1>1, <1>2, <1>3 DEF LandAs
<1>. QED BY <1>1, <1>4 DEF LandAs, local, group

(* The next record a replica takes is one of the log. *)
LEMMA NextSpot ==
  ASSUME WorkerTypeOK, NEW r \in Replica, NEW p \in Partition, pending[r][p] # {}
  PROVE  /\ Min(pending[r][p]) \in pending[r][p]
         /\ <<p, Min(pending[r][p])>> \in Spots /\ <<p, Min(pending[r][p])>> # Nothing
<1>1. pending[r][p] \in SUBSET Nat /\ pending[r][p] \subseteq Offset(p)
  BY DEF WorkerTypeOK
<1>2. Min(pending[r][p]) \in pending[r][p]
  BY <1>1, MinIsMember
<1>. QED BY <1>1, <1>2, WorkerAssumption DEF Spots

LEMMA LoopTypes ==
  ASSUME WorkerInv, NEW r \in Replica, Loop(r)
  PROVE  WorkerTypeOK'
<1>. USE DEF WorkerInv, WorkerTypeOK, promise, group, Goto
<1>1. CASE Poll(r)
  <2>1. PICK upto \in [Mine(r) -> 0 .. BatchSize] :
          LET to(p)   == IF p \in Mine(r) THEN position[p] + upto[p] ELSE position[p]
              fetched == [p \in Partition |-> position[p] + 1 .. to(p)]
          IN /\ \A p \in Mine(r) : to(p) <= Len(Log[p])
             /\ position' = [p \in Partition |-> to(p)]
             /\ pending' = [pending EXCEPT ![r] = fetched]
    BY <1>1 DEF Poll
  <2>2. \A p \in Partition :
          /\ position'[p] \in Nat /\ position[p] <= position'[p] /\ position'[p] <= Len(Log[p])
          /\ pending'[r][p] = position[p] + 1 .. position'[p]
    BY <2>1, WorkerAssumption DEF Mine
  <2>3. position' \in [Partition -> Nat]
    BY <2>1, <2>2
  <2>4. \A p \in Partition : committed[p] <= position'[p] /\ position'[p] <= Len(Log[p])
    BY <2>2
  <2>5. \A p \in Partition : pending'[r][p] \subseteq Offset(p) /\ pending'[r][p] \subseteq Nat
    <3>. TAKE p \in Partition
    <3>1. Len(Log[p]) \in Nat /\ position[p] \in Nat /\ position'[p] \in Nat
      BY LogAssumption, <2>2
    <3>2. pending'[r][p] = position[p] + 1 .. position'[p] /\ position'[p] <= Len(Log[p])
      BY <2>2
    <3>. QED BY <3>1, <3>2 DEF Offset
  <2>6. /\ pending' \in [Replica -> [Partition -> SUBSET Nat]]
        /\ \A x \in Replica, p \in Partition : pending'[x][p] \subseteq Offset(p)
    BY <2>1, <2>5
  <2>7. pc' \in [Replica -> PC]
    BY <1>1 DEF Poll, PC
  <2>. QED BY <1>1, <2>3, <2>4, <2>6, <2>7 DEF Poll
<1>2. CASE PollNothing(r)
  BY <1>2 DEF PollNothing, vars
<1>3. CASE Commit(r)
  BY <1>3 DEF Commit, PC
<1>4. CASE KafkaFails(r)
  <2>1. pc' \in [Replica -> PC]
    BY <1>4 DEF KafkaFails, PC
  <2>2. \/ committed' = committed
        \/ committed' = [p \in Partition |-> IF owner[p] = r THEN position[p] ELSE committed[p]]
    BY <1>4 DEF KafkaFails
  <2>3. /\ committed' \in [Partition -> Nat]
        /\ \A p \in Partition : committed'[p] <= position[p]
    <3>1. CASE committed' = committed
      BY <3>1
    <3>2. CASE committed' = [p \in Partition |-> IF owner[p] = r THEN position[p] ELSE committed[p]]
      BY <3>2
    <3>. QED BY <2>2, <3>1, <3>2
  <2>. QED BY <1>4, <2>1, <2>3 DEF KafkaFails
<1>5. ASSUME NEW p \in Partition, Take(r, p) PROVE WorkerTypeOK'
  <2>1. <<p, Min(pending[r][p])>> \in Spots
    BY <1>5, NextSpot DEF Take
  <2>2. pc' \in [Replica -> PC]
    BY <1>5 DEF Take, PC
  <2>3. /\ pending' \in [Replica -> [Partition -> SUBSET Nat]]
        /\ \A x \in Replica, q \in Partition : pending'[x][q] \subseteq pending[x][q]
    BY <1>5 DEF Take
  <2>4. cur' \in [Replica -> Spots \cup {Nothing}] /\ givenUp' \subseteq Spots
    BY <1>5, <2>1 DEF Take
  <2>. QED BY <1>5, <2>2, <2>3, <2>4 DEF Take
<1>6. CASE Check(r)
  <2>1. pc' \in [Replica -> PC]
    BY <1>6 DEF Check, PC
  <2>. QED BY <1>6, <2>1 DEF Check
<1>7. CASE WriteGraph(r)
  <2>1. Rec(r).event \in Event /\ part[r] \in {1, 2}
    BY <1>7, HandTypes DEF WriteGraph
  <2>2. pc' \in [Replica -> PC] /\ part' \in [Replica -> {1, 2}]
    BY <1>7 DEF WriteGraph, PC, Parts
  <2>3. written' \subseteq Event \X {1, 2}
    BY <1>7, <2>1 DEF WriteGraph
  <2>. QED BY <1>7, <2>2, <2>3 DEF WriteGraph
<1>8. CASE HandlerFails(r)
  <2>1. Rec(r).event \in Event /\ part[r] \in {1, 2} /\ cur[r] \in Spots
    BY <1>8, HandTypes DEF HandlerFails, FailAs
  <2>2. pc' \in [Replica -> PC] /\ part' \in [Replica -> {1, 2}]
    BY <1>8 DEF HandlerFails, FailAs, PC
  <2>3. written' \subseteq Event \X {1, 2} /\ givenUp' \subseteq Spots
    BY <1>8, <2>1 DEF HandlerFails, FailAs
  <2>. QED BY <1>8, <2>2, <2>3 DEF HandlerFails, FailAs
<1>9. CASE Mark(r)
  <2>1. Rec(r).event \in Event
    BY <1>9, HandTypes DEF Mark
  <2>2. pc' \in [Replica -> PC] /\ marked' \subseteq Event
    BY <1>9, <2>1 DEF Mark, PC
  <2>. QED BY <1>9, <2>2 DEF Mark
<1>. QED BY <1>1, <1>2, <1>3, <1>4, <1>5, <1>6, <1>7, <1>8, <1>9 DEF Loop

LEMMA TypesKept ==
  ASSUME WorkerInv, WorkerNext
  PROVE  WorkerTypeOK'
  BY StartTypes, GroupTypes, LandTypes, LoopTypes DEF WorkerNext

-------------------------------------------------------------------------------
\* What replicas and threads hold.

\* What a step of replica r leaves as it was.
OthersIdle(r) ==
  \A x \in Replica \ {r} : UNCHANGED <<pc[x], pending[x], cur[x], part[x]>>

(* A replica that a step leaves alone is still well: what it has written stays. *)
LEMMA IdleHands ==
  ASSUME NEW x \in Replica, HandOK(x), UNCHANGED <<pc[x], pending[x], cur[x], part[x]>>,
         \A e : Whole(e) => Whole(e)', written \subseteq written'
  PROVE  HandOK(x)'
  BY DEF HandOK, Rec

(* A replica's place and what it holds go together through every step. *)
LEMMA HandsKept ==
  ASSUME WorkerInv, WorkerNext
  PROVE  HandsOK'
<1>1. (\A e : Whole(e) => Whole(e)') /\ written \subseteq written'
  BY NothingIsTaken, SettledStays
<1>2. /\ pc \in [Replica -> PC] /\ part \in [Replica -> {1, 2}]
      /\ cur \in [Replica -> Spots \cup {Nothing}]
      /\ pending \in [Replica -> [Partition -> SUBSET Nat]]
  BY DEF WorkerInv, WorkerTypeOK
<1>3. \A x \in Replica : HandOK(x)
  BY DEF WorkerInv, HandsOK
<1>4. ASSUME UNCHANGED local PROVE HandsOK'
  BY <1>1, <1>3, <1>4, IdleHands DEF local, HandsOK
<1>5. ASSUME NEW r \in Replica, OthersIdle(r), HandOK(r)' PROVE HandsOK'
  BY <1>1, <1>3, <1>5, IdleHands DEF OthersIdle, HandsOK
<1>6. ASSUME NEW p \in Partition, NEW r \in Replica, Assign(p, r) \/ Rebalance(p, r)
      PROVE  HandsOK'
  BY <1>4, <1>6 DEF Assign, Rebalance, GiveTo
<1>7. ASSUME NEW op \in orphans, Land(op) PROVE HandsOK'
  BY <1>4, <1>7 DEF Land, LandAs
<1>8. ASSUME NEW r \in Replica, Start(r) \/ GoDown(r) PROVE HandsOK'
  <2>1. OthersIdle(r)
    BY <1>2, <1>8 DEF Start, GoDown, Goto, OthersIdle
  <2>2. /\ pc'[r] \in {"poll", "down"} /\ part'[r] = 1
        /\ cur'[r] = Nothing /\ \A p \in Partition : pending'[r][p] = {}
    <3>1. CASE Start(r)
      BY <1>2, <1>3, <3>1 DEF Start, Goto, HandOK
    <3>2. CASE GoDown(r)
      BY <1>2, <3>2 DEF GoDown, Goto
    <3>. QED BY <1>8, <3>1, <3>2
  <2>. QED BY <1>5, <2>1, <2>2 DEF HandOK
<1>9. ASSUME NEW r \in Replica, Poll(r) PROVE HandsOK'
  <2>1. OthersIdle(r)
    BY <1>2, <1>9 DEF Poll, Goto, OthersIdle
  <2>2. pc'[r] = "next" /\ part'[r] = 1
    BY <1>2, <1>3, <1>9 DEF Poll, Goto, HandOK
  <2>. QED BY <1>5, <2>1, <2>2 DEF HandOK
<1>10. ASSUME NEW r \in Replica, PollNothing(r) PROVE HandsOK'
  BY <1>4, <1>10 DEF PollNothing, vars, local
<1>11. ASSUME NEW r \in Replica, Commit(r) PROVE HandsOK'
  <2>1. OthersIdle(r)
    BY <1>2, <1>11 DEF Commit, Goto, OthersIdle
  <2>2. /\ pc'[r] = "poll" /\ part'[r] = 1
        /\ cur'[r] = Nothing /\ \A p \in Partition : pending'[r][p] = {}
    BY <1>2, <1>3, <1>11 DEF Commit, Goto, Drained, HandOK
  <2>. QED BY <1>5, <2>1, <2>2 DEF HandOK
<1>12. ASSUME NEW r \in Replica, KafkaFails(r) PROVE HandsOK'
  <2>1. OthersIdle(r)
    BY <1>2, <1>12 DEF KafkaFails, Goto, OthersIdle
  <2>2. pc'[r] = "dead" /\ part'[r] = 1
    BY <1>2, <1>3, <1>12 DEF KafkaFails, Goto, HandOK
  <2>. QED BY <1>5, <2>1, <2>2 DEF HandOK
<1>13. ASSUME NEW r \in Replica, NEW p \in Partition, Take(r, p) PROVE HandsOK'
  <2>. DEFINE o == Min(pending[r][p])
  <2>1. OthersIdle(r)
    BY <1>2, <1>13 DEF Take, Goto, OthersIdle
  <2>2. <<p, o>> # Nothing
    BY <1>13, NextSpot DEF Take, WorkerInv
  <2>3. cur'[r] = <<p, o>> /\ part'[r] = 1
    BY <1>2, <1>3, <1>13 DEF Take, HandOK
  <2>4. \/ pc'[r] \in {"next", "dead"}
        \/ pc'[r] \in {"check", "write"} /\ Log[p][o].kind \in {"rejected", "valid"}
    BY <1>2, <1>13 DEF Take, Goto
  <2>. HIDE DEF o
  <2>5. HandOK(r)'
    BY <2>2, <2>3, <2>4 DEF HandOK, Rec
  <2>. QED BY <1>5, <2>1, <2>5
<1>14. ASSUME NEW r \in Replica, Check(r) PROVE HandsOK'
  <2>1. OthersIdle(r)
    BY <1>2, <1>14 DEF Check, Goto, OthersIdle
  <2>2. pc'[r] \in {"next", "write"} /\ cur' = cur /\ part'[r] = 1 /\ pc[r] = "check"
    BY <1>2, <1>3, <1>14 DEF Check, Goto, HandOK
  <2>3. HandOK(r)'
    BY <1>3, <2>2 DEF HandOK, Rec
  <2>. QED BY <1>5, <2>1, <2>3
<1>15. ASSUME NEW r \in Replica, WriteGraph(r) PROVE HandsOK'
  <2>. DEFINE e == Rec(r).event
  <2>1. OthersIdle(r)
    BY <1>2, <1>15 DEF WriteGraph, Goto, OthersIdle
  <2>2. part[r] \in Parts(e) /\ (part[r] # 1 => <<e, 1>> \in written)
    BY <1>3, <1>15, HandTypes DEF WriteGraph, WorkerInv, HandOK
  <2>3. /\ pc[r] = "write" /\ cur' = cur
        /\ written' = written \cup {<<e, part[r]>>}
        /\ cur[r] # Nothing /\ Rec(r).kind \in {"valid", "rejected"}
    BY <1>3, <1>15 DEF WriteGraph, HandOK
  <2>4. Rec(r)' = Rec(r)
    BY <2>3 DEF Rec
  <2>5. CASE part[r] + 1 \in Parts(e)
    <3>1. part[r] = 1 /\ e \in TwoStep /\ <<e, 1>> \in written'
      BY <2>2, <2>3, <2>5 DEF Parts
    <3>2. pc'[r] = "write"
      BY <1>15, <2>5, <2>3 DEF WriteGraph
    <3>3. HandOK(r)'
      BY <2>3, <2>4, <3>1, <3>2 DEF HandOK
    <3>. QED BY <1>5, <2>1, <3>3
  <2>6. CASE part[r] + 1 \notin Parts(e)
    <3>1. Whole(e)'
      BY <2>2, <2>3, <2>4, <2>6 DEF Parts, Whole
    <3>2. part'[r] = 1 /\ pc'[r] \in {"mark", "next"}
      BY <1>2, <1>15, <2>6 DEF WriteGraph, Goto
    <3>3. HandOK(r)'
      BY <2>3, <2>4, <3>1, <3>2 DEF HandOK
    <3>. QED BY <1>5, <2>1, <3>3
  <2>. QED BY <2>5, <2>6
<1>16. ASSUME NEW r \in Replica, HandlerFails(r) PROVE HandsOK'
  <2>1. OthersIdle(r)
    BY <1>2, <1>16 DEF HandlerFails, FailAs, Goto, OthersIdle
  <2>2. pc'[r] = "next" /\ part'[r] = 1
    BY <1>2, <1>16 DEF HandlerFails, FailAs, Goto
  <2>. QED BY <1>5, <2>1, <2>2 DEF HandOK
<1>17. ASSUME NEW r \in Replica, Mark(r) PROVE HandsOK'
  <2>1. OthersIdle(r)
    BY <1>2, <1>17 DEF Mark, Goto, OthersIdle
  <2>2. pc'[r] = "next" /\ part'[r] = 1
    BY <1>2, <1>3, <1>17 DEF Mark, Goto, HandOK
  <2>. QED BY <1>5, <2>1, <2>2 DEF HandOK
<1>. QED
  BY <1>6, <1>7, <1>8, <1>9, <1>10, <1>11, <1>12, <1>13, <1>14, <1>15, <1>16, <1>17
     DEF WorkerNext, Loop

(* What a thread may still do stays allowed, and a loop that goes down leaves
   behind only what it was about to do. *)
LEMMA OrphansKept ==
  ASSUME WorkerInv, WorkerNext
  PROVE  OrphansOK'
<1>. USE DEF WorkerInv, WorkerTypeOK, OrphansOK, promise, local, group
<1>1. \A e : Whole(e) => Whole(e)'
  BY NothingIsTaken, SettledStays
<1>2. ASSUME orphans' \subseteq orphans PROVE OrphansOK'
  BY <1>1, <1>2
<1>3. ASSUME NEW r \in Replica, GoDown(r) PROVE OrphansOK'
  <2>1. \A op \in InFlight(r) :
          /\ op[1] = "write" => op[3] \in Parts(op[2])
          /\ op[1] = "mark"  => Whole(op[2])
    <3>1. CASE pc[r] = "write" /\ Rec(r).kind = "valid"
      BY <3>1, HandTypes DEF InFlight
    <3>2. CASE pc[r] = "mark"
      <4>1. Whole(Rec(r).event)
        BY <3>2, MarksAreEarned
      <4>2. InFlight(r) = {<<"mark", Rec(r).event, 0>>}
        BY <3>2 DEF InFlight
      <4>. QED BY <4>1, <4>2
    <3>. QED BY <3>1, <3>2 DEF InFlight
  <2>. QED BY <1>1, <1>3, <2>1 DEF GoDown
<1>4. ASSUME NEW r \in Replica, Start(r) \/ Loop(r) PROVE orphans' = orphans
  BY <1>4 DEF Start, Loop, Poll, PollNothing, Commit, KafkaFails, Take, Check,
              WriteGraph, HandlerFails, FailAs, Mark, vars
<1>5. ASSUME NEW op \in orphans, Land(op) PROVE orphans' \subseteq orphans
  BY <1>5 DEF Land, LandAs
<1>6. ASSUME NEW p \in Partition, NEW r \in Replica, Assign(p, r) \/ Rebalance(p, r)
      PROVE  orphans' = orphans
  BY <1>6 DEF Assign, Rebalance, GiveTo
<1>. QED BY <1>2, <1>3, <1>4, <1>5, <1>6 DEF WorkerNext

(* A marker comes from a replica at "mark" or from a thread it left behind. *)
LEMMA MarkersKept ==
  ASSUME WorkerInv, WorkerNext
  PROVE  MarkedImpliesWritten'
<1>. USE DEF WorkerInv, MarkedImpliesWritten, promise, local, group
<1>1. \A e : Whole(e) => Whole(e)'
  BY NothingIsTaken, SettledStays
<1>2. ASSUME marked' \subseteq marked PROVE MarkedImpliesWritten'
  BY <1>1, <1>2
<1>3. ASSUME NEW r \in Replica, Mark(r) PROVE MarkedImpliesWritten'
  BY <1>1, <1>3, MarksAreEarned DEF Mark
<1>4. ASSUME NEW op \in orphans, Land(op) PROVE MarkedImpliesWritten'
  BY <1>1, <1>4 DEF Land, LandAs, OrphansOK
<1>5. ASSUME NEW r \in Replica, Start(r) \/ GoDown(r) PROVE marked' = marked
  BY <1>5 DEF Start, GoDown
<1>6. ASSUME NEW r \in Replica, Loop(r) PROVE Mark(r) \/ marked' = marked
  BY <1>6 DEF Loop, Poll, PollNothing, Commit, KafkaFails, Take, Check,
              WriteGraph, HandlerFails, FailAs, vars
<1>7. ASSUME NEW p \in Partition, NEW r \in Replica, Assign(p, r) \/ Rebalance(p, r)
      PROVE  marked' = marked
  BY <1>7 DEF Assign, Rebalance, GiveTo
<1>. QED BY <1>2, <1>3, <1>4, <1>5, <1>6, <1>7 DEF WorkerNext

-------------------------------------------------------------------------------
\* Offsets.

(* When a replica has drained its batch, every record up to the position of a
   partition it owns is settled. *)
LEMMA DrainedIsSettled ==
  ASSUME WorkerInv, NEW r \in Replica, NEW p \in Partition,
         pc[r] \in {"poll", "next"}, pending[r][p] = {}, owner[p] = r
  PROVE  \A o \in 1 .. position[p] : Settled(p, o)
<1>. TAKE o \in 1 .. position[p]
<1>1. committed[p] \in Nat /\ position[p] \in Nat
  BY DEF WorkerInv, WorkerTypeOK
<1>2. CASE o \in 1 .. committed[p]
  BY <1>2 DEF WorkerInv, CommitCoversOnlySettled
<1>3. CASE o \in committed[p] + 1 .. position[p]
  <2>1. owner[p] # Nobody
    BY WorkerAssumption
  <2>. QED BY <1>3, <2>1 DEF WorkerInv, FetchedIsHeldOrSettled
<1>. QED BY <1>1, <1>2, <1>3

(* The offsets move only when a batch is drained, to positions of the committer. *)
LEMMA CommitsMove ==
  ASSUME WorkerInv, WorkerNext
  PROVE  \/ committed' = committed
         \/ /\ position' = position /\ written' = written /\ givenUp' = givenUp
            /\ \A p \in Partition : committed'[p] = committed[p] \/
                 /\ committed'[p] = position[p]
                 /\ \A o \in 1 .. position[p] : Settled(p, o)
<1>. USE DEF promise, local, group
<1>1. ASSUME NEW r \in Replica, Commit(r) \/ KafkaFails(r)
      PROVE  \/ committed' = committed
             \/ /\ position' = position /\ written' = written /\ givenUp' = givenUp
                /\ \A p \in Partition : committed'[p] = committed[p] \/
                     /\ committed'[p] = position[p]
                     /\ \A o \in 1 .. position[p] : Settled(p, o)
  <2>1. CASE committed' = committed
    BY <2>1
  <2>2. CASE committed' # committed
    <3>1. /\ pc[r] = "next" /\ Drained(r)
          /\ committed' = [p \in Partition |-> IF owner[p] = r THEN position[p] ELSE committed[p]]
          /\ position' = position /\ written' = written /\ givenUp' = givenUp
      BY <1>1, <2>2 DEF Commit, KafkaFails
    <3>2. \A p \in Partition : owner[p] = r => \A o \in 1 .. position[p] : Settled(p, o)
      BY <3>1, DrainedIsSettled DEF Drained
    <3>. QED BY <3>1, <3>2
  <2>. QED BY <2>1, <2>2
<1>2. ASSUME NEW r \in Replica, Start(r) \/ GoDown(r) PROVE committed' = committed
  BY <1>2 DEF Start, GoDown
<1>3. ASSUME NEW r \in Replica, Loop(r) PROVE Commit(r) \/ KafkaFails(r) \/ committed' = committed
  BY <1>3 DEF Loop, Poll, PollNothing, Take, Check, WriteGraph, HandlerFails, FailAs, Mark, vars
<1>4. ASSUME NEW op \in orphans, Land(op) PROVE committed' = committed
  BY <1>4 DEF Land, LandAs
<1>5. ASSUME NEW p \in Partition, NEW r \in Replica, Assign(p, r) \/ Rebalance(p, r)
      PROVE  committed' = committed
  BY <1>5 DEF Assign, Rebalance, GiveTo
<1>. QED BY <1>1, <1>2, <1>3, <1>4, <1>5 DEF WorkerNext

(* So a new offset covers what is settled, and an old one what still is. *)
LEMMA CommitsKept ==
  ASSUME WorkerInv, WorkerNext
  PROVE  CommitCoversOnlySettled'
<1>1. \A p, o : Settled(p, o) => Settled(p, o)'
  BY NothingIsTaken, SettledStays
<1>2. CASE committed' = committed
  BY <1>1, <1>2 DEF WorkerInv, CommitCoversOnlySettled
<1>3. CASE \A p \in Partition : committed'[p] = committed[p] \/
             /\ committed'[p] = position[p]
             /\ \A o \in 1 .. position[p] : Settled(p, o)
  BY <1>1, <1>3 DEF WorkerInv, CommitCoversOnlySettled
<1>. QED BY CommitsMove, <1>2, <1>3

(* Record o of p is settled, or r has it. *)
HeldOrSettled(r, p, o) ==
  \/ Settled(p, o)
  \/ o \in pending[r][p]
  \/ cur[r] = <<p, o>> /\ pc[r] \in {"check", "write", "mark", "dead"}

(* A record leaves its owner's hands settled, or with the ownership. *)
LEMMA FetchedKept ==
  ASSUME WorkerInv, WorkerNext
  PROVE  FetchedIsHeldOrSettled'
<1>. USE DEF promise, local, group, Goto
<1>0. FetchedIsHeldOrSettled <=>
        \A p \in Partition : owner[p] # Nobody =>
          \A o \in committed[p] + 1 .. position[p] : HeldOrSettled(owner[p], p, o)
  BY DEF FetchedIsHeldOrSettled, HeldOrSettled
<1>1. \A p, o : Settled(p, o) => Settled(p, o)'
  BY NothingIsTaken, SettledStays
<1>2. /\ committed \in [Partition -> Nat] /\ position \in [Partition -> Nat]
      /\ owner \in [Partition -> Replica \cup {Nobody}]
      /\ committed' \in [Partition -> Nat]
      /\ \A p \in Partition : committed[p] <= position[p]
  BY TypesKept DEF WorkerInv, WorkerTypeOK
\* A step that only lets a replica go on from what it holds.
<1>3. ASSUME owner' = owner, position' = position, committed' = committed,
             \A r \in Replica, p \in Partition : \A o \in Offset(p) :
               HeldOrSettled(r, p, o) => HeldOrSettled(r, p, o)'
      PROVE  FetchedIsHeldOrSettled'
  <2>1. \A p \in Partition : \A o \in committed[p] + 1 .. position[p] : o \in Offset(p)
    BY <1>2, LogAssumption DEF WorkerInv, WorkerTypeOK, Offset
  <2>. QED
    BY <1>2, <1>3, <2>1 DEF WorkerInv, FetchedIsHeldOrSettled, HeldOrSettled
\* The owners' hands after a step that changes those of r alone.
<1>4. ASSUME NEW r \in Replica,
             \A x \in Replica \ {r} :
               pending'[x] = pending[x] /\ cur'[x] = cur[x] /\ pc'[x] = pc[x],
             NEW p \in Partition, NEW o, HeldOrSettled(owner[p], p, o),
             owner[p] \in Replica \ {r}
      PROVE  HeldOrSettled(owner[p], p, o)'  \/ owner' # owner
  BY <1>1, <1>4 DEF HeldOrSettled
<1>5. ASSUME NEW r \in Replica, Start(r) PROVE FetchedIsHeldOrSettled'
  BY <1>1, <1>3, <1>5 DEF Start, HeldOrSettled, WorkerInv, WorkerTypeOK
<1>6. ASSUME NEW r \in Replica, GoDown(r) PROVE FetchedIsHeldOrSettled'
  <2>1. \A p \in Partition : owner'[p] # Nobody => owner'[p] = owner[p] /\ owner[p] # r
    BY <1>2, <1>6 DEF GoDown
  <2>2. position' = position /\ committed' = committed
    BY <1>6 DEF GoDown
  <2>3. \A x \in Replica \ {r} : pending'[x] = pending[x] /\ cur'[x] = cur[x] /\ pc'[x] = pc[x]
    BY <1>6 DEF GoDown, WorkerInv, WorkerTypeOK
  <2>. QED BY <1>1, <1>2, <2>1, <2>2, <2>3 DEF WorkerInv, FetchedIsHeldOrSettled
<1>7. ASSUME NEW op \in orphans, Land(op) PROVE FetchedIsHeldOrSettled'
  BY <1>1, <1>3, <1>7 DEF Land, LandAs, HeldOrSettled
<1>8. ASSUME NEW q \in Partition, NEW r \in Replica, Assign(q, r) \/ Rebalance(q, r)
      PROVE  FetchedIsHeldOrSettled'
  <2>1. /\ owner' = [owner EXCEPT ![q] = r] /\ position' = [position EXCEPT ![q] = committed[q]]
        /\ committed' = committed /\ pending' = pending /\ cur' = cur /\ pc' = pc
    BY <1>8 DEF Assign, Rebalance, GiveTo
  <2>2. \A o \in committed[q] + 1 .. position'[q] : FALSE
    BY <1>2, <2>1
  <2>. QED BY <1>1, <1>2, <2>1, <2>2 DEF WorkerInv, FetchedIsHeldOrSettled
<1>9. ASSUME NEW r \in Replica, Poll(r) PROVE FetchedIsHeldOrSettled'
  <2>1. \A p \in Partition :
          /\ p \in Mine(r) => pending'[r][p] = position[p] + 1 .. position'[p]
          /\ p \notin Mine(r) => position'[p] = position[p]
    BY <1>2, <1>9, WorkerAssumption DEF Poll, WorkerInv, WorkerTypeOK
  <2>2. /\ owner' = owner /\ committed' = committed /\ pc[r] = "poll"
        /\ \A x \in Replica \ {r} : pending'[x] = pending[x] /\ cur'[x] = cur[x] /\ pc'[x] = pc[x]
    BY <1>9 DEF Poll, WorkerInv, WorkerTypeOK
  <2>3. \A p \in Mine(r) : \A o \in 1 .. position[p] : Settled(p, o)
    BY <2>2, DrainedIsSettled DEF WorkerInv, HandsOK, HandOK, Mine
  <2>4. position' \in [Partition -> Nat]
    BY <1>9, TypesKept DEF WorkerTypeOK
  <2>5. ASSUME NEW p \in Partition, owner[p] # Nobody, NEW o \in committed[p] + 1 .. position'[p]
        PROVE  HeldOrSettled(owner[p], p, o)'
    <3>1. CASE p \in Mine(r)
      <4>1. o \in 1 .. position[p] \/ o \in position[p] + 1 .. position'[p]
        BY <1>2, <2>4, <2>5
      <4>. QED BY <1>1, <2>1, <2>2, <2>3, <3>1, <4>1 DEF HeldOrSettled, Mine
    <3>2. CASE p \notin Mine(r)
      <4>1. HeldOrSettled(owner[p], p, o)
        BY <1>0, <2>1, <2>5, <3>2 DEF WorkerInv
      <4>. QED BY <1>2, <1>4, <2>2, <2>5, <3>2, <4>1 DEF Mine
    <3>. QED BY <3>1, <3>2
  <2>. QED BY <2>2, <2>5 DEF FetchedIsHeldOrSettled, HeldOrSettled
<1>10. ASSUME NEW r \in Replica, Commit(r) PROVE FetchedIsHeldOrSettled'
  <2>1. /\ owner' = owner /\ position' = position
        /\ committed' = [p \in Partition |-> IF owner[p] = r THEN position[p] ELSE committed[p]]
        /\ \A x \in Replica \ {r} : pending'[x] = pending[x] /\ cur'[x] = cur[x] /\ pc'[x] = pc[x]
    BY <1>10 DEF Commit, WorkerInv, WorkerTypeOK
  <2>2. \A p \in Partition : owner[p] = r => \A o \in committed'[p] + 1 .. position[p] : FALSE
    BY <1>2, <2>1
  <2>. QED BY <1>1, <1>2, <2>1, <2>2 DEF WorkerInv, FetchedIsHeldOrSettled
<1>11. ASSUME NEW r \in Replica, KafkaFails(r) PROVE FetchedIsHeldOrSettled'
  <2>1. CASE committed' = committed
    BY <1>1, <1>3, <1>11, <2>1 DEF KafkaFails, HeldOrSettled, WorkerInv, WorkerTypeOK
  <2>2. CASE committed' # committed
    <3>1. /\ owner' = owner /\ position' = position
          /\ committed' = [p \in Partition |-> IF owner[p] = r THEN position[p] ELSE committed[p]]
          /\ \A x \in Replica \ {r} : pending'[x] = pending[x] /\ cur'[x] = cur[x] /\ pc'[x] = pc[x]
      BY <1>11, <2>2 DEF KafkaFails, WorkerInv, WorkerTypeOK
    <3>2. \A p \in Partition : owner[p] = r => \A o \in committed'[p] + 1 .. position[p] : FALSE
      BY <1>2, <3>1
    <3>. QED BY <1>1, <1>2, <3>1, <3>2 DEF WorkerInv, FetchedIsHeldOrSettled
  <2>. QED BY <2>1, <2>2
<1>12. ASSUME NEW r \in Replica, NEW q \in Partition, Take(r, q) PROVE FetchedIsHeldOrSettled'
  <2>0. PICK n : n = Min(pending[r][q])
    OBVIOUS
  <2>1. /\ owner' = owner /\ position' = position /\ committed' = committed /\ pc[r] = "next"
        /\ pending' = [pending EXCEPT ![r][q] = @ \ {n}]
        /\ cur' = [cur EXCEPT ![r] = <<q, n>>]
        /\ \A x \in Replica \ {r} : pc'[x] = pc[x]
        /\ <<q, n>> \in givenUp' \/ pc'[r] \in {"check", "write", "dead"}
    BY <1>12, <2>0 DEF Take, WorkerInv, WorkerTypeOK
  <2>2. HeldOrSettled(r, q, n)'
    BY <2>1 DEF HeldOrSettled, Settled, WorkerInv, WorkerTypeOK
  <2>3. ASSUME NEW x \in Replica, NEW p \in Partition, NEW o, HeldOrSettled(x, p, o)
        PROVE  HeldOrSettled(x, p, o)'
    <3>1. CASE x = r /\ p = q /\ o = n
      BY <2>2, <3>1
    <3>2. CASE ~(x = r /\ p = q /\ o = n)
      BY <1>1, <2>1, <2>3, <3>2 DEF HeldOrSettled, WorkerInv, WorkerTypeOK
    <3>. QED BY <3>1, <3>2
  <2>. QED BY <1>3, <2>1, <2>3
\* The four ways of being done with the record in hand.
<1>13. ASSUME NEW r \in Replica, Check(r) \/ WriteGraph(r) \/ HandlerFails(r) \/ Mark(r)
       PROVE  FetchedIsHeldOrSettled'
  <2>1. /\ owner' = owner /\ position' = position /\ committed' = committed
        /\ pending' = pending /\ cur' = cur /\ pc[r] \in {"check", "write", "mark"}
        /\ \A x \in Replica \ {r} : pc'[x] = pc[x]
    BY <1>13 DEF Check, WriteGraph, HandlerFails, FailAs, Mark, WorkerInv, WorkerTypeOK
  <2>2. /\ cur[r] = <<cur[r][1], cur[r][2]>> /\ part[r] \in Parts(Rec(r).event)
        /\ Rec(r).kind \in {"valid", "rejected"}
        /\ part[r] # 1 => <<Rec(r).event, 1>> \in written
    BY <2>1, HandTypes, RecordTypes DEF WorkerInv, HandsOK, HandOK
  <2>3. pc'[r] \in {"check", "write", "mark"} \/ Settled(cur[r][1], cur[r][2])'
    <3>1. CASE Check(r)
      BY <1>1, <2>2, <3>1 DEF Check, WorkerInv, WorkerTypeOK, MarkedImpliesWritten, Settled, Rec
    <3>2. CASE WriteGraph(r)
      <4>1. CASE part[r] + 1 \in Parts(Rec(r).event)
        BY <2>1, <3>2, <4>1 DEF WriteGraph
      <4>2. CASE part[r] + 1 \notin Parts(Rec(r).event)
        <5>1. Rec(r)' = Rec(r) /\ Rec(r) = Log[cur[r][1]][cur[r][2]]
          BY <2>1 DEF Rec
        <5>2. written' = written \cup {<<Rec(r).event, part[r]>>}
          BY <3>2 DEF WriteGraph
        <5>3. Whole(Rec(r).event)'
          BY <2>2, <4>2, <5>1, <5>2 DEF Whole, Parts
        <5>. QED BY <2>1, <2>2, <5>1, <5>3 DEF Settled
      <4>. QED BY <4>1, <4>2
    <3>3. CASE HandlerFails(r)
      BY <2>2, <3>3 DEF HandlerFails, FailAs, Settled
    <3>4. CASE Mark(r)
      <4>1. Whole(Rec(r).event)
        BY <3>4, MarksAreEarned DEF Mark, WorkerInv
      <4>2. Settled(cur[r][1], cur[r][2])
        BY <2>2, <4>1 DEF Settled, Rec
      <4>. QED BY <1>1, <2>1, <4>2
    <3>. QED BY <1>13, <3>1, <3>2, <3>3, <3>4
  <2>4. ASSUME NEW x \in Replica, NEW p \in Partition, NEW o, HeldOrSettled(x, p, o)
        PROVE  HeldOrSettled(x, p, o)'
    BY <1>1, <2>1, <2>2, <2>3, <2>4 DEF HeldOrSettled
  <2>. QED BY <1>3, <2>1, <2>4
<1>14. ASSUME NEW r \in Replica, PollNothing(r) PROVE FetchedIsHeldOrSettled'
  BY <1>14 DEF PollNothing, vars, WorkerInv, FetchedIsHeldOrSettled, Settled, Whole
<1>. QED
  BY <1>5, <1>6, <1>7, <1>8, <1>9, <1>10, <1>11, <1>12, <1>13, <1>14 DEF WorkerNext, Loop

-------------------------------------------------------------------------------
\* The invariant, and the properties it gives.

(* What is proved of every reachable state. *)
LEMMA WorkerInvHolds == WorkerSpec => []WorkerInv
<1>1. WorkerInit => WorkerInv
  <2>. SUFFICES ASSUME WorkerInit PROVE WorkerInv
    OBVIOUS
  <2>1. \A p \in Partition : committed[p] = 0 /\ owner[p] = Nobody
    BY DEF WorkerInit, Init
  <2>2. CommitCoversOnlySettled
    BY <2>1 DEF CommitCoversOnlySettled
  <2>. QED
    BY TypesAtFirst, <2>1, <2>2
    DEF WorkerInit, Init, WorkerInv, HandsOK, HandOK, OrphansOK, MarkedImpliesWritten,
        FetchedIsHeldOrSettled
<1>2. WorkerInv /\ WorkerNext => WorkerInv'
  BY TypesKept, HandsKept, OrphansKept, MarkersKept, CommitsKept, FetchedKept DEF WorkerInv
<1>3. WorkerInv /\ UNCHANGED vars => WorkerInv'
  BY DEF vars, WorkerInv, WorkerTypeOK, HandsOK, HandOK, OrphansOK, MarkedImpliesWritten,
         CommitCoversOnlySettled, FetchedIsHeldOrSettled, Settled, Whole, Rec, PC
<1>. QED BY <1>1, <1>2, <1>3, PTL DEF WorkerSpec

(* Type correctness, for any replicas, partitions and logs. *)
THEOREM WorkerTypes == WorkerSpec => []WorkerTypeOK
<1>1. WorkerInv => WorkerTypeOK
  BY DEF WorkerInv
<1>. QED BY <1>1, WorkerInvHolds, PTL

(* The idempotency gate never skips an event that is not in the graph. *)
THEOREM MarkersFollowWrites == WorkerSpec => []MarkedImpliesWritten
<1>1. WorkerInv => MarkedImpliesWritten
  BY DEF WorkerInv
<1>. QED BY <1>1, WorkerInvHolds, PTL

(* A committed offset passes no record but those written or given up. *)
THEOREM CommitsAreCovered == WorkerSpec => []CommitCoversOnlySettled
<1>1. WorkerInv => CommitCoversOnlySettled
  BY DEF WorkerInv
<1>. QED BY <1>1, WorkerInvHolds, PTL

(* What is fetched and not committed is settled, or in its owner's hands. *)
THEOREM FetchedIsAccountedFor == WorkerSpec => []FetchedIsHeldOrSettled
<1>1. WorkerInv => FetchedIsHeldOrSettled
  BY DEF WorkerInv
<1>. QED BY <1>1, WorkerInvHolds, PTL

-------------------------------------------------------------------------------
\* The refinement.

(* Each step of a replica, of a thread or of the coordinator is a step of
   AtLeastOnce, or changes nothing that AtLeastOnce speaks of. *)
LEMMA StepKeepsPromise ==
  ASSUME WorkerInv, WorkerNext
  PROVE  [Promise!Next]_(Promise!promise)
<1>. USE DEF promise, local, group, Promise!promise
<1>1. ASSUME NEW e \in Event, NEW k, Promise!Apply(e, k) PROVE Promise!Next
  BY <1>1 DEF Promise!Next, Promise!Apply, Promise!Parts
<1>2. ASSUME NEW e \in Event, Promise!Confirm(e) PROVE Promise!Next
  BY <1>2 DEF Promise!Next
<1>3. ASSUME NEW po \in Spots, Promise!Abandon(po[1], po[2]) PROVE Promise!Next
  BY <1>3, RecordTypes DEF Promise!Next, Promise!Offset, Offset
<1>4. CASE committed' # committed
  <2>1. WorkerTypeOK'
    BY TypesKept
  <2>2. committed' \in [Partition -> Nat]
    BY <2>1 DEF WorkerTypeOK
  <2>3. ASSUME NEW p \in Partition
        PROVE  /\ committed[p] <= committed'[p] /\ committed'[p] <= Len(Log[p])
               /\ \A o \in committed[p] + 1 .. committed'[p] : Settled(p, o)
    <3>1. /\ committed[p] \in Nat /\ position[p] \in Nat /\ Len(Log[p]) \in Nat
          /\ committed[p] <= position[p] /\ position[p] <= Len(Log[p])
      BY LogAssumption DEF WorkerInv, WorkerTypeOK
    <3>2. \/ committed'[p] = committed[p]
          \/ committed'[p] = position[p] /\ \A o \in 1 .. position[p] : Settled(p, o)
      BY <1>4, CommitsMove
    <3>3. CASE committed'[p] = committed[p]
      BY <3>1, <3>3
    <3>4. CASE committed'[p] = position[p] /\ \A o \in 1 .. position[p] : Settled(p, o)
      BY <3>1, <3>4
    <3>. QED BY <3>2, <3>3, <3>4
  <2>4. UNCHANGED <<written, marked, givenUp>>
    BY <1>4 DEF WorkerNext, Loop, Start, GoDown, Land, LandAs, Assign, Rebalance, GiveTo,
                Poll, PollNothing, Commit, KafkaFails, Take, Check, WriteGraph,
                HandlerFails, FailAs, Mark, vars
  <2>. QED
    BY <2>2, <2>3, <2>4 DEF Promise!Next, Promise!Advance, Promise!Settled, Promise!Whole,
                            Promise!Parts, Settled, Whole, Parts
<1>5. ASSUME NEW r \in Replica, Start(r) \/ GoDown(r) PROVE UNCHANGED promise
  BY <1>5 DEF Start, GoDown
<1>6. ASSUME NEW p \in Partition, NEW r \in Replica, Assign(p, r) \/ Rebalance(p, r)
      PROVE  UNCHANGED promise
  BY <1>6 DEF Assign, Rebalance, GiveTo
<1>7. ASSUME NEW op \in orphans, Land(op) PROVE Promise!Next \/ UNCHANGED promise
  <2>1. /\ op[2] \in Event
        /\ op[1] = "write" => op[3] \in Parts(op[2])
        /\ op[1] = "mark" => Whole(op[2])
    BY DEF WorkerInv, WorkerTypeOK, OrphansOK
  <2>2. PICK landed \in BOOLEAN : LandAs(op, landed)
    BY <1>7 DEF Land
  <2>3. CASE landed /\ op[1] = "write"
    BY <1>1, <2>1, <2>2, <2>3 DEF LandAs, Promise!Apply, Promise!Parts, Parts
  <2>4. CASE landed /\ op[1] = "mark"
    BY <1>2, <2>1, <2>2, <2>4
       DEF LandAs, Promise!Confirm, Promise!Whole, Promise!Parts, Whole, Parts
  <2>5. CASE ~landed \/ op[1] \notin {"write", "mark"}
    BY <2>2, <2>5 DEF LandAs
  <2>. QED BY <2>3, <2>4, <2>5
<1>8. ASSUME NEW r \in Replica, Loop(r), committed' = committed
      PROVE  Promise!Next \/ UNCHANGED promise
  <2>1. CASE Poll(r) \/ PollNothing(r) \/ Check(r) \/ Commit(r) \/ KafkaFails(r)
    BY <1>8, <2>1 DEF Poll, PollNothing, Check, Commit, KafkaFails, vars
  <2>2. ASSUME NEW p \in Partition, Take(r, p) PROVE Promise!Next \/ UNCHANGED promise
    <3>1. PICK o : o = Min(pending[r][p])
      OBVIOUS
    <3>2. <<p, o>> \in Spots
      BY <2>2, <3>1, NextSpot DEF Take, WorkerInv
    <3>3. CASE givenUp' = givenUp
      BY <2>2, <3>3 DEF Take
    <3>4. CASE givenUp' = givenUp \cup {<<p, o>>}
      BY <1>3, <2>2, <3>2, <3>4 DEF Take, Promise!Abandon
    <3>. QED BY <2>2, <3>1, <3>3, <3>4 DEF Take
  <2>3. CASE WriteGraph(r)
    <3>1. Rec(r).event \in Event /\ part[r] \in Parts(Rec(r).event)
      BY <2>3, HandTypes DEF WriteGraph, WorkerInv
    <3>2. Promise!Apply(Rec(r).event, part[r])
      BY <2>3, <3>1 DEF WriteGraph, Promise!Apply, Promise!Parts, Parts
    <3>. QED BY <1>1, <3>1, <3>2
  <2>4. CASE HandlerFails(r)
    <3>1. /\ cur[r] \in Spots /\ cur[r] = <<cur[r][1], cur[r][2]>>
          /\ part[r] \in Parts(Rec(r).event)
      BY <2>4, HandTypes, RecordTypes DEF HandlerFails, FailAs, WorkerInv
    <3>2. /\ written' \in {written, written \cup {<<Rec(r).event, part[r]>>}}
          /\ givenUp' = givenUp \cup {cur[r]}
          /\ UNCHANGED <<marked, committed>>
      BY <2>4 DEF HandlerFails, FailAs
    <3>3. part[r] \in Promise!Parts(Log[cur[r][1]][cur[r][2]].event)
      BY <3>1 DEF Promise!Parts, Parts, Rec
    <3>4. Promise!Abandon(cur[r][1], cur[r][2])
      BY <3>1, <3>2, <3>3 DEF Promise!Abandon, Rec
    <3>. QED BY <1>3, <3>1, <3>4
  <2>5. CASE Mark(r)
    <3>1. Rec(r).event \in Event /\ Whole(Rec(r).event)
      BY <2>5, HandTypes, MarksAreEarned DEF Mark, WorkerInv
    <3>2. Promise!Confirm(Rec(r).event) \/ UNCHANGED promise
      BY <2>5, <3>1 DEF Mark, Promise!Confirm, Promise!Whole, Promise!Parts, Whole, Parts
    <3>. QED BY <1>2, <3>1, <3>2
  <2>. QED BY <1>8, <2>1, <2>2, <2>3, <2>4, <2>5 DEF Loop
<1>. QED BY <1>4, <1>5, <1>6, <1>7, <1>8 DEF WorkerNext

(* The replicas implement at-least-once delivery, whatever fails. *)
THEOREM ReplicasKeepPromise == WorkerSpec => KeepsPromise
<1>1. WorkerInit => Promise!Init
  BY DEF WorkerInit, Init, Promise!Init
<1>2. WorkerInv /\ WorkerNext => [Promise!Next]_(Promise!promise)
  BY StepKeepsPromise
<1>3. UNCHANGED vars => UNCHANGED Promise!promise
  BY DEF vars, Promise!promise
<1>. QED BY <1>1, <1>2, <1>3, WorkerInvHolds, PTL DEF WorkerSpec, KeepsPromise, Promise!Spec
================================================================================
