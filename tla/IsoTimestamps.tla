----------------------------- MODULE IsoTimestamps -----------------------------
(***************************************************************************)
(* ISO-8601 timestamps of one UTC clock, as the Cypher guards see them:    *)
(* strings, compared character by character.  Two spellings meet in one    *)
(* property: datetime.isoformat() of the service and of Python producers   *)
(* ("+00:00", no fraction when it is zero), and the "Z" of the stub and of *)
(* other producers.  Years to seconds are written alike, so two stamps     *)
(* compare by their second and then by what follows it, in the order       *)
(*     +00:00  <  .f+00:00  <  .fZ  <  .(f+1)+00:00  <  ...  <  Z          *)
(* because "+" < "." < digits < "Z".  Fractions are as many digits long.   *)
(***************************************************************************)
EXTENDS Naturals

CONSTANTS
  LastSecond,      \* bound: seconds after the epoch's are 1 .. LastSecond
  LastFraction     \* bound: fractions are 0 .. LastFraction

ASSUME TimestampAssumption == LastSecond \in Nat /\ LastFraction \in Nat

Python == "+00:00"
Zulu   == "Z"

Stamp == [sec : 1 .. LastSecond, frac : 0 .. LastFraction, zone : {Python, Zulu}]

\* How many ways a second can go on.
Tails == 2 * LastFraction + 2

\* The place of what follows the second.
Tail(s) ==
  CASE s.frac = 0 /\ s.zone = Python -> 0
    [] s.frac # 0 /\ s.zone = Python -> 2 * s.frac - 1
    [] s.frac # 0 /\ s.zone = Zulu   -> 2 * s.frac
    [] s.frac = 0 /\ s.zone = Zulu   -> Tails - 1

\* The rank of the string: 0 is left to "1970-01-01T00:00:00Z".
Rank(s) == (s.sec - 1) * Tails + Tail(s) + 1

\* The stamp with this rank.
StampOf(rank) == CHOOSE s \in Stamp : Rank(s) = rank

SecondOf(rank) == IF rank = 0 THEN 0 ELSE (rank - 1) \div Tails + 1

\* The moment a stamp names, whatever its spelling.
Instant(s) == s.sec * (LastFraction + 1) + s.frac
================================================================================
