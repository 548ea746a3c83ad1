----------------------------- MODULE MCRiskSync -----------------------------
(* The two engines for TLC, each on its own: the rows that overlapping     *)
(* runs keep (RiskSync), and what the second engine judges from the feeds  *)
(* (Warnings), for a changing rain, warning, wind and typhoon.             *)
EXTENDS RiskSync

CONSTANTS Zones, KeepHours, MaxFailures

VARIABLES
  part,   \* what a behaviour is about
  issued, fallen, wind, track, inForce, stored, reading, seenTrack, young, list, collecting,
  judging, sight, verdict, least, hours, turns, failures

(* The rules are a cut of 02_seed.sql: the threshold rule 9 (flood depth,  *)
(* advisory) and the grade rules 23 and 24 (advisory, warning) of the same *)
(* hazard.                                                                 *)
Threshold9 == [id |-> 9, hazard |-> "flood", level |-> 2, threshold |-> TRUE]
Grade23 == [id |-> 23, hazard |-> "flood", level |-> 2, threshold |-> FALSE]
Grade24 == [id |-> 24, hazard |-> "flood", level |-> 3, threshold |-> FALSE]
MCRules == {Threshold9, Grade23, Grade24}

\* Too old, below every rule, advisory by both kinds of rule, warning.
MCReadings == {NoData, {}, {Threshold9, Grade23}, {Threshold9, Grade24}}

\* Sums over two and three hours instead of three and twelve.
MCRainRules == [l \in 1..2 |-> [short |-> 2 * l, long |-> 3 * l]]

(* The feeds looked at, each alone: what the office or the weather turns,  *)
(* the rain of an hour, and how many hours and turns there are.            *)
Feeds == {"rain", "warned", "wind", "typhoon"}
Turned == [rain |-> {}, warned |-> {"rain"}, wind |-> {"wind"}, typhoon |-> {"typhoon", "track"}]
HourlyRain == [p \in Feeds |-> IF p = "rain" THEN {0, 2} ELSE {0}]
HoursOf == [rain |-> 4, warned |-> 1, wind |-> 1, typhoon |-> 2]
TurnsOf == [rain |-> 0, warned |-> 2, wind |-> 2, typhoon |-> 1]

Feed(p) == INSTANCE Warnings WITH
  Turning <- Turned[p], Amounts <- HourlyRain[p], MaxHours <- HoursOf[p], MaxChanges <- TurnsOf[p],
  Short <- 2, Long <- 3, RainRules <- MCRainRules, KeepUnseen <- KeepHours, TrackKept <- 1, Gaps <- FALSE,
  view <- sight, row <- verdict, changes <- turns

ASSUME FeedsAssumption == \A p \in Feeds : Feed(p)!WarningsConstants

feedVars == <<issued, fallen, wind, track, inForce, stored, reading, seenTrack, young, list,
              collecting, judging, sight, verdict, least, hours, turns, failures>>
allVars == <<part, vars, feedVars>>

AnyInit ==
  /\ part \in {"rows"} \cup Feeds
  /\ Init /\ Feed("rain")!Init
  (* Levels are alike to the code: a warning is only what a reading turns to. *)
  /\ IF part = "rows" THEN \A s \in Stations : obs[s] # {Threshold9, Grade24}
     ELSE obs = [s \in Stations |-> NoData]

In(p, A) == part = p /\ A /\ UNCHANGED <<part, vars>>
InRows(A) == part = "rows" /\ A /\ UNCHANGED <<part, feedVars>>

AnyNext ==
  \/ InRows(Next)
  \/ \E p \in Feeds : In(p, Feed(p)!Next)

AnySpec ==
  /\ AnyInit /\ [][AnyNext]_allVars
  /\ WF_vars(part = "rows" /\ Tick) /\ \A p \in Syncers : WF_vars(part = "rows" /\ Step(p))
  /\ WF_feedVars(part # "rows" /\ Feed("rain")!Collect)
  /\ WF_feedVars(part # "rows" /\ Feed("rain")!Judge)

(* However runs overlap (engine.py:191), duplicates never pile up and the  *)
(* rows end as the last observation asks.                                  *)
RowsConverge == []DuplicatesBounded /\ SeenConverges

(* A station that fell silent (engine.py:209) keeps its rows, and loses    *)
(* them after KEEP_UNSEEN_MIN.                                             *)
SilenceHolds == UnseenHeld /\ UnseenExpires

(* See RiskSync, whose other properties are checked by their own names,    *)
(* and Warnings.                                                           *)
AnyTypeOK == TypeOK /\ (part # "rows" => Feed("rain")!TypeOK)
UnknownIsNotSafe == [][Feed("rain")!LoweredKnowing]_allVars
ZonesFollowOffice == Feed("rain")!ZonesFollowOffice
=============================================================================
