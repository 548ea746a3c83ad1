-------------------------- MODULE Warnings_proofs ---------------------------
(***************************************************************************)
(* Proofs about the second engine and its feeds (Warnings), for any zones, *)
(* rain rules, limits and numbers of failures.                             *)
(***************************************************************************)
EXTENDS MCWarnings, TLAPS

Views == [rain : Levels \cup {None}, wind : Levels \cup {None}, ok : BOOLEAN, warning : Levels, typhoon : Levels]
NoView == [rain |-> None, wind |-> None, ok |-> FALSE, warning |-> 0, typhoon |-> 0]

FeedTypes ==
  /\ issued \in [{"rain", "typhoon"} -> Levels] /\ wind \in Levels /\ track \in Levels
  /\ fallen = [k \in 0..Long - 1 |-> fallen[k]] /\ stored = [k \in 0..Long - 1 |-> stored[k]]
  /\ reading \in [{"speed", "gust"} -> Levels \cup {None}]
  /\ seenTrack.level \in Levels
  /\ view \in Views /\ (judging = "idle" => view = NoView)
  /\ row \in [Keys -> [level : -1..2, unseen : Int]]
  /\ least \in [Keys -> Levels]

(* The lowest level of this hour is no higher than the present danger.     *)
LeastBelow == \A k \in Keys : least[k] <= Danger(k)

(* What rain is stored is what fell, and of this hour's it is all, as long *)
(* as it is young.                                                         *)
RainStored ==
  /\ \A k \in 0..Long - 1 : stored[k] = fallen[k] \/ (k = 0 /\ stored[0] = None)
  /\ "rain" \in young => stored[0] = fallen[0]

(* A reading that is young was a wind of this hour.                        *)
WindRead == \A m \in {"speed", "gust"} : m \in young => reading[m] >= least["wind"]

(* The warnings fetched in this hour are no lower than the lowest of this  *)
(* hour's, through every step of a job, while they are young or an engine  *)
(* that found them so still reads.                                         *)
Covers(rows) == \A z \in Zones : RainWarning(rows) >= least[z]
WarningsKept ==
  /\ "warnings" \in young \/ view.ok \/ collecting = "finish" => Covers(inForce)
  /\ collecting # "idle" => Covers(list)
  /\ collecting = "release" => list \subseteq inForce

(* What the engine has read was a danger of this hour.                     *)
ViewRead ==
  /\ view.rain # None => view.rain >= least["rain"]
  /\ view.wind # None => view.wind >= least["wind"]
  /\ view.ok /\ judging = "sync" => \A z \in Zones : view.warning >= least[z]

FeedInv == FeedTypes /\ LeastBelow /\ RainStored /\ WindRead /\ WarningsKept /\ ViewRead

(* Small facts: every danger is a level, and the lower and the higher of   *)
(* two levels are what they should be.                                     *)
LEMMA HigherLower ==
  \A a, b \in Levels \cup {None} :
    /\ Higher(a, b) \in Levels \cup {None} /\ Higher(a, b) >= a /\ Higher(a, b) >= b
    /\ Lower(a, b) \in Levels \cup {None} /\ Lower(a, b) <= a /\ Lower(a, b) <= b
    /\ Higher(a, b) = None => a = None /\ b = None
    /\ a # None /\ b # None => Lower(a, b) # None
BY DEF Higher, Lower, Levels, None

LEMMA RainIsLevel == \A f : RainLevel(f) \in Levels
BY DEF RainLevel, Levels

LEMMA WarningIsLevel == \A rows, l : RainWarning(rows) \in Levels /\ TyphoonLevel(rows, l) \in Levels
BY DEF RainWarning, TyphoonLevel, Levels

(* More rain warnings in force are no lower a warning, and the office's    *)
(* list says what the office has issued.                                   *)
LEMMA WarningGrows ==
  ASSUME NEW rows, NEW more, rows \subseteq more PROVE RainWarning(more) >= RainWarning(rows)
BY DEF RainWarning

LEMMA ListSaysIssued ==
  ASSUME issued \in [{"rain", "typhoon"} -> Levels] PROVE RainWarning(InTheList) = issued["rain"]
<1>1. \A l \in 1..2 : <<"rain", l>> \in InTheList <=> issued["rain"] = l
  BY DEF InTheList, Levels
<1>2. issued["rain"] \in Levels
  OBVIOUS
<1>3. <<"rain", 1>> \in InTheList <=> issued["rain"] = 1
  BY <1>1
<1>4. <<"rain", 2>> \in InTheList <=> issued["rain"] = 2
  BY <1>1
<1> QED
  BY <1>2, <1>3, <1>4 DEF RainWarning, Levels

LEMMA DangerIsLevel == ASSUME FeedTypes PROVE \A k \in Keys : Danger(k) \in Levels
<1>1. issued["rain"] \in Levels /\ issued["typhoon"] \in Levels /\ wind \in Levels /\ track \in Levels
  BY DEF FeedTypes
<1>2. Higher(issued["typhoon"], track) \in Levels
  BY <1>1 DEF Higher
<1> QED
  BY <1>1, <1>2, RainIsLevel DEF Danger

(* As long as this hour's lowest level only sinks, what was covered stays  *)
(* covered.                                                                *)
Sinks == least' \in [Keys -> Levels] /\ \A k \in Keys : least'[k] <= least[k]

LEMMA CoversStays ==
  ASSUME FeedTypes, Sinks, NEW rows, Covers(rows)
  PROVE  \A z \in Zones : RainWarning(rows) >= least'[z]
<1> TAKE z \in Zones
<1>1. z \in Keys /\ least'[z] \in Levels /\ least[z] \in Levels /\ least'[z] <= least[z]
  BY DEF Sinks, FeedTypes, Keys
<1>2. RainWarning(rows) \in Levels /\ RainWarning(rows) >= least[z]
  BY WarningIsLevel DEF Covers
<1> QED
  BY <1>1, <1>2 DEF Levels

-----------------------------------------------------------------------------
LEMMA InitFeed == ASSUME WarningsConstants, Init PROVE FeedInv
<1>1. FeedTypes
  BY DEF Init, FeedTypes, Views, NoView, NoRow, Levels, None, WarningsConstants
<1>2. LeastBelow
  BY <1>1, DangerIsLevel DEF Init, LeastBelow, Levels
<1>3. Covers(inForce)
  BY WarningIsLevel DEF Covers, Init, Levels, Keys
<1> QED
  BY <1>1, <1>2, <1>3 DEF Init, FeedInv, RainStored, WindRead, WarningsKept, ViewRead, None

(* The world turns: this hour's lowest level sinks with the danger, and    *)
(* all that was read stays above it.                                       *)
LEMMA TurnFeed == ASSUME WarningsConstants, FeedInv, Turn PROVE FeedInv'
<1> USE DEF FeedInv
<1>1. issued' \in [{"rain", "typhoon"} -> Levels] /\ wind' \in Levels /\ track' \in Levels
  BY DEF Turn, FeedTypes, Levels
<1>2. \A k \in Keys : Danger(k)' \in Levels
  <2>1. issued'["rain"] \in Levels /\ issued'["typhoon"] \in Levels
    BY <1>1
  <2>2. Higher(issued'["typhoon"], track') \in Levels
    BY <1>1, <2>1 DEF Higher
  <2> QED
    BY <1>1, <2>1, <2>2, RainIsLevel DEF Danger
<1>3. least' = [k \in Keys |-> Lower(least[k], Danger(k)')]
  BY DEF Turn
<1>4. \A k \in Keys : least[k] \in Levels
  BY DEF FeedTypes
<1>5. \A k \in Keys : least'[k] \in Levels /\ least'[k] <= least[k] /\ least'[k] <= Danger(k)'
  BY <1>2, <1>3, <1>4 DEF Lower, Levels
<1>6. Sinks
  BY <1>3, <1>5 DEF Sinks
<1>7. FeedTypes'
  BY <1>1, <1>6 DEF FeedTypes, Turn, Sinks, store, engine
<1>8. LeastBelow'
  BY <1>5 DEF LeastBelow
<1>9. RainStored' /\ WindRead'
  <2>1. least'["wind"] \in Levels /\ least["wind"] \in Levels /\ least'["wind"] <= least["wind"]
    BY <1>4, <1>5 DEF Keys
  <2>2. \A m \in {"speed", "gust"} : reading[m] \in Levels \cup {None}
    BY DEF FeedTypes
  <2> QED
    BY <2>1, <2>2 DEF RainStored, WindRead, Turn, store, Levels, None
<1>10. WarningsKept'
  <2>1. UNCHANGED <<inForce, young, list, collecting, view>>
    BY DEF Turn, store, engine
  <2> QED
    BY <1>6, <2>1, CoversStays DEF WarningsKept, Covers
<1>11. ViewRead'
  <2>1. UNCHANGED <<view, judging>>
    BY DEF Turn, engine
  <2>2. view \in Views
    BY DEF FeedTypes
  <2>3. \A k \in {"rain", "wind"} \cup Zones :
          least'[k] \in Levels /\ least[k] \in Levels /\ least'[k] <= least[k]
    BY <1>4, <1>5 DEF Keys
  <2>4. view.rain \in Levels \cup {None} /\ view.wind \in Levels \cup {None} /\ view.warning \in Levels
    BY <2>2 DEF Views
  <2>5. view.rain # None => view.rain >= least'["rain"]
    BY <2>3, <2>4 DEF ViewRead, Levels, None
  <2>6. view.wind # None => view.wind >= least'["wind"]
    BY <2>3, <2>4 DEF ViewRead, Levels, None
  <2>7. ASSUME view.ok, judging = "sync", NEW z \in Zones PROVE view.warning >= least'[z]
    <3>1. view.warning >= least[z]
      BY <2>7 DEF ViewRead
    <3>2. least'[z] \in Levels /\ least[z] \in Levels /\ least'[z] <= least[z]
      BY <2>3
    <3> QED
      BY <2>4, <3>1, <3>2 DEF Levels
  <2> QED
    BY <2>1, <2>5, <2>6, <2>7 DEF ViewRead
<1> QED
  BY <1>7, <1>8, <1>9, <1>10, <1>11

(* Between turns and hours neither the danger nor its lowest level moves.  *)
LEMMA DangerStays == ASSUME UNCHANGED world PROVE \A k \in Keys : Danger(k)' = Danger(k)
BY DEF world, Danger

LEMMA LeastStays == ASSUME FeedInv, UNCHANGED <<world, least>> PROVE LeastBelow'
BY DangerStays DEF FeedInv, LeastBelow

(* An hour with its rain stored passes: nothing is young any more, nobody  *)
(* is at work, and the lowest level starts afresh.                         *)
LEMMA HourFeed == ASSUME WarningsConstants, ~ Gaps, FeedInv, Hour PROVE FeedInv'
<1> USE DEF FeedInv
<1>1. stored[0] = fallen[0] /\ stored[0] # None
  BY DEF Hour, RainStored, WarningsConstants
<1>2. \A k \in 0..Long - 1 : stored[k] = fallen[k]
  BY <1>1 DEF RainStored
<1>3. PICK a \in Amounts : fallen' = Shift(fallen, a)
  BY DEF Hour
<1>4. stored' = Shift(stored, None)
  BY DEF Hour
<1>5. issued \in [{"rain", "typhoon"} -> Levels] /\ wind \in Levels /\ track \in Levels
  BY DEF FeedTypes
<1>6. \A k \in Keys : Danger(k)' \in Levels
  <2>1. issued["rain"] \in Levels /\ issued["typhoon"] \in Levels
    BY <1>5
  <2>2. Higher(issued["typhoon"], track) \in Levels
    BY <1>5, <2>1 DEF Higher
  <2> QED
    BY <1>5, <2>1, <2>2, RainIsLevel DEF Danger, Hour
<1>7. least' = [k \in Keys |-> Danger(k)']
  BY DEF Hour
<1>8. FeedTypes'
  <2>1. fallen' = [k \in 0..Long - 1 |-> fallen'[k]] /\ stored' = [k \in 0..Long - 1 |-> stored'[k]]
    BY <1>3, <1>4 DEF Shift
  <2>2. seenTrack'.level \in Levels
    BY DEF Hour, FeedTypes, Levels
  <2>3. row' \in [Keys -> [level : -1..2, unseen : Int]]
    <3>1. \A k \in Keys : row[k] \in [level : -1..2, unseen : Int]
      BY DEF FeedTypes
    <3>2. \A k \in Keys : [row[k] EXCEPT !.unseen = @ + 1] \in [level : -1..2, unseen : Int]
      BY <3>1
    <3>3. \A k \in Keys : row'[k] \in [level : -1..2, unseen : Int]
      BY <3>1, <3>2 DEF Hour
    <3> QED
      BY <3>3 DEF Hour
  <2>4. least' \in [Keys -> Levels]
    BY <1>6, <1>7
  <2> QED
    BY <2>1, <2>2, <2>3, <2>4 DEF FeedTypes, Hour
<1>9. LeastBelow'
  BY <1>6, <1>7 DEF LeastBelow, Levels
<1>10. RainStored'
  <2>1. 0 \in 0..Long - 1
    BY DEF WarningsConstants
  <2>2. stored'[0] = None
    BY <1>4, <2>1 DEF Shift
  <2>3. ASSUME NEW k \in 0..Long - 1, k # 0 PROVE stored'[k] = fallen'[k]
    <3>1. k - 1 \in 0..Long - 1
      BY <2>3 DEF WarningsConstants
    <3> QED
      BY <1>2, <1>3, <1>4, <2>3, <3>1 DEF Shift
  <2> QED
    BY <2>2, <2>3 DEF RainStored, Hour
<1>11. WindRead' /\ WarningsKept' /\ ViewRead'
  BY DEF Hour, WindRead, WarningsKept, ViewRead, FeedTypes, NoView
<1> QED
  BY <1>8, <1>9, <1>10, <1>11

LEMMA FadeFeed == ASSUME FeedInv, Fade PROVE FeedInv'
<1> USE DEF FeedInv
<1>1. FeedTypes'
  BY DEF Fade, FeedTypes, world, engine
<1>2. LeastBelow'
  BY LeastStays DEF Fade
<1>3. RainStored' /\ WindRead' /\ WarningsKept' /\ ViewRead'
  BY DEF Fade, world, engine, RainStored, WindRead, WarningsKept, ViewRead, Covers
<1> QED
  BY <1>1, <1>2, <1>3

-----------------------------------------------------------------------------
(* The warnings job: what it fetched is the office's list of this hour,    *)
(* and no step of it takes a warning of the list out of force.             *)
LEMMA GetFeed == ASSUME WarningsConstants, FeedInv, GetWarnings PROVE FeedInv'
<1> USE DEF FeedInv
<1>1. FeedTypes' /\ RainStored' /\ WindRead' /\ ViewRead'
  BY DEF GetWarnings, FeedTypes, RainStored, WindRead, ViewRead, world, store, engine
<1>2. LeastBelow'
  BY LeastStays DEF GetWarnings
<1>3. WarningsKept'
  <2>1. UNCHANGED <<inForce, young, view, least>>
    BY DEF GetWarnings, store, engine
  <2>2. collecting' # "idle" => list' = InTheList /\ collecting' = "upsert"
    BY DEF GetWarnings, Accepted
  <2>3. Covers(InTheList)
    <3>1. RainWarning(InTheList) = issued["rain"]
      BY ListSaysIssued DEF FeedTypes
    <3>2. ASSUME NEW z \in Zones PROVE issued["rain"] >= least[z]
      <4>1. Danger(z) = issued["rain"] /\ z \in Keys
        BY DEF Danger, Keys, WarningsConstants
      <4>2. least[z] <= Danger(z) /\ least[z] \in Levels /\ issued["rain"] \in Levels
        BY <4>1 DEF LeastBelow, FeedTypes
      <4> QED
        BY <4>1, <4>2 DEF Levels
    <3> QED
      BY <3>1, <3>2 DEF Covers
  <2> QED
    BY <2>1, <2>2, <2>3 DEF WarningsKept, Covers
<1> QED
  BY <1>1, <1>2, <1>3

LEMMA UpsertFeed == ASSUME FeedInv, UpsertWarnings PROVE FeedInv'
<1> USE DEF FeedInv
<1>1. FeedTypes' /\ RainStored' /\ WindRead' /\ ViewRead'
  BY DEF UpsertWarnings, FeedTypes, RainStored, WindRead, ViewRead, world, engine
<1>2. LeastBelow'
  BY LeastStays DEF UpsertWarnings
<1>3. WarningsKept'
  <2>1. UNCHANGED <<list, young, view, least>>
    BY DEF UpsertWarnings, engine
  <2>2. inForce' = inForce \cup list /\ collecting' = "release" /\ collecting = "upsert"
    BY DEF UpsertWarnings
  <2>3. Covers(inForce) => Covers(inForce \cup list)
    <3>1. inForce \subseteq inForce \cup list
      OBVIOUS
    <3>2. RainWarning(inForce \cup list) >= RainWarning(inForce)
      BY <3>1, WarningGrows
    <3>3. RainWarning(inForce \cup list) \in Levels /\ RainWarning(inForce) \in Levels
      BY WarningIsLevel
    <3>4. \A z \in Zones : least[z] \in Levels
      BY DEF FeedTypes, Keys
    <3> QED
      BY <3>2, <3>3, <3>4 DEF Covers, Levels
  <2> QED
    BY <2>1, <2>2, <2>3 DEF WarningsKept, Covers
<1> QED
  BY <1>1, <1>2, <1>3

LEMMA ReleaseFeed == ASSUME FeedInv, ReleaseMissing PROVE FeedInv'
<1> USE DEF FeedInv
<1>1. FeedTypes' /\ RainStored' /\ WindRead' /\ ViewRead'
  BY DEF ReleaseMissing, FeedTypes, RainStored, WindRead, ViewRead, world, engine
<1>2. LeastBelow'
  BY LeastStays DEF ReleaseMissing
<1>3. WarningsKept'
  <2>1. UNCHANGED <<list, young, view, least>>
    BY DEF ReleaseMissing, engine
  <2>2. inForce' = list /\ collecting' = "finish" /\ Covers(list)
    BY DEF ReleaseMissing, Unreleased, WarningsKept
  <2> QED
    BY <2>1, <2>2 DEF WarningsKept, Covers
<1> QED
  BY <1>1, <1>2, <1>3

LEMMA FinishFeed == ASSUME FeedInv, FinishWarnings PROVE FeedInv'
<1> USE DEF FeedInv
<1>1. FeedTypes' /\ RainStored' /\ WindRead' /\ ViewRead'
  BY DEF FinishWarnings, FeedTypes, RainStored, WindRead, ViewRead, world, engine
<1>2. LeastBelow'
  BY LeastStays DEF FinishWarnings
<1>3. WarningsKept'
  <2>1. UNCHANGED <<inForce, view, least>> /\ collecting' = "idle" /\ Covers(inForce)
    BY DEF FinishWarnings, engine, WarningsKept
  <2> QED
    BY <2>1 DEF WarningsKept, Covers
<1> QED
  BY <1>1, <1>2, <1>3

LEMMA FailFeed == ASSUME FeedInv, WarningsFail PROVE FeedInv'
<1> USE DEF FeedInv
<1>1. FeedTypes' /\ RainStored' /\ WindRead' /\ ViewRead'
  BY DEF WarningsFail, FeedTypes, RainStored, WindRead, ViewRead, world, store, engine
<1>2. LeastBelow'
  BY LeastStays DEF WarningsFail
<1>3. WarningsKept'
  <2>1. UNCHANGED <<inForce, view, least, young>> /\ collecting' = "idle"
    BY DEF WarningsFail, engine, store
  <2> QED
    BY <2>1 DEF WarningsKept, Covers
<1> QED
  BY <1>1, <1>2, <1>3

(* A row of the station stores this hour's rain and a wind of now.         *)
LEMMA AwsFeed == ASSUME WarningsConstants, FeedInv, Aws PROVE FeedInv'
<1> USE DEF FeedInv
<1>1. 0 \in 0..Long - 1
  BY DEF WarningsConstants
<1>2. UNCHANGED <<issued, fallen, wind, track, inForce, seenTrack, list, collecting, judging, view, row, least>>
  BY DEF Aws, world, engine
<1>3. stored' = [stored EXCEPT ![0] = fallen[0]]
  BY DEF Aws
<1>4. stored'[0] = fallen[0] /\ \A k \in 0..Long - 1 : k # 0 => stored'[k] = stored[k]
  BY <1>1, <1>3 DEF FeedTypes
<1>5. wind \in Levels /\ reading \in [{"speed", "gust"} -> Levels \cup {None}]
  BY DEF FeedTypes
<1>6. \/ reading' = [m \in {"speed", "gust"} |-> wind]
      \/ reading' = [reading EXCEPT !["speed"] = wind] /\ young' = young \cup {"rain", "speed"}
  BY DEF Aws
<1>7. reading' \in [{"speed", "gust"} -> Levels \cup {None}]
  BY <1>5, <1>6
<1>8. FeedTypes'
  <2>1. stored' = [k \in 0..Long - 1 |-> stored'[k]]
    BY <1>3 DEF FeedTypes
  <2> QED
    BY <1>2, <1>7, <2>1 DEF FeedTypes
<1>9. LeastBelow'
  BY LeastStays DEF Aws
<1>10. RainStored'
  BY <1>2, <1>4 DEF RainStored
<1>11. WindRead'
  <2>1. wind >= least["wind"]
    <3>1. Danger("wind") = wind /\ "wind" \in Keys
      BY DEF Danger, Keys
    <3>2. least["wind"] <= Danger("wind") /\ least["wind"] \in Levels
      BY <3>1 DEF LeastBelow, FeedTypes
    <3> QED
      BY <1>5, <3>1, <3>2 DEF Levels
  <2>2. reading'["speed"] = wind
    BY <1>5, <1>6
  <2>3. "gust" \in young' => reading'["gust"] = wind \/ ("gust" \in young /\ reading'["gust"] = reading["gust"])
    BY <1>5, <1>6
  <2> QED
    BY <1>2, <2>1, <2>2, <2>3 DEF WindRead
<1>12. WarningsKept' /\ ViewRead'
  BY <1>2 DEF Aws, WarningsKept, ViewRead, Covers
<1> QED
  BY <1>8, <1>9, <1>10, <1>11, <1>12

LEMMA TyphoonFeed == ASSUME FeedInv, Typhoon PROVE FeedInv'
<1> USE DEF FeedInv
<1>1. FeedTypes'
  BY DEF Typhoon, FeedTypes, world, engine
<1>2. LeastBelow'
  BY LeastStays DEF Typhoon
<1>3. RainStored' /\ WindRead' /\ WarningsKept' /\ ViewRead'
  BY DEF Typhoon, world, engine, RainStored, WindRead, WarningsKept, ViewRead, Covers
<1> QED
  BY <1>1, <1>2, <1>3

-----------------------------------------------------------------------------
(* The engine: what it reads of the rain is the level of the rain that     *)
(* fell, of the wind at least one that blew in this hour, of the warnings  *)
(* the highest in force, which cover the office's as long as it found them *)
(* young.                                                                  *)
LEMMA ReadStationFeed == ASSUME WarningsConstants, FeedInv, ReadStation PROVE FeedInv'
<1> USE DEF FeedInv
<1> DEFINE rain == IF "rain" \in young THEN RainLevel(stored) ELSE None
<1> DEFINE blow == IF young \cap {"speed", "gust"} # {} THEN WindLevel(reading) ELSE None
<1>1. view' = [NoView EXCEPT !.rain = rain, !.wind = blow] /\ judging' = "age"
  BY DEF ReadStation, FeedTypes
<1>2. rain # None => rain >= least["rain"]
  <2> SUFFICES ASSUME "rain" \in young PROVE rain >= least["rain"]
    OBVIOUS
  <2>1. stored = fallen
    <3>1. \A k \in 0..Long - 1 : stored[k] = fallen[k]
      BY DEF RainStored
    <3> QED
      BY <3>1 DEF FeedTypes
  <2>2. Danger("rain") = RainLevel(stored) /\ "rain" \in Keys
    BY <2>1 DEF Danger, Keys
  <2>3. least["rain"] <= Danger("rain") /\ least["rain"] \in Levels
    BY <2>2 DEF LeastBelow, FeedTypes
  <2> QED
    BY <2>2, <2>3, RainIsLevel DEF Levels
<1>3. reading["speed"] \in Levels \cup {None} /\ reading["gust"] \in Levels \cup {None}
  BY DEF FeedTypes
<1>4. WindLevel(reading) \in Levels \cup {None}
  BY <1>3, HigherLower DEF WindLevel
<1>5. blow # None => blow >= least["wind"]
  <2> SUFFICES ASSUME young \cap {"speed", "gust"} # {} PROVE WindLevel(reading) >= least["wind"]
    OBVIOUS
  <2>1. reading["speed"] >= least["wind"] \/ reading["gust"] >= least["wind"]
    BY DEF WindRead
  <2>2. WindLevel(reading) >= reading["speed"] /\ WindLevel(reading) >= reading["gust"]
    BY <1>3, HigherLower DEF WindLevel
  <2>3. least["wind"] \in Levels
    BY DEF FeedTypes, Keys
  <2> QED
    BY <1>3, <1>4, <2>1, <2>2, <2>3 DEF Levels, None
<1>6. rain \in Levels \cup {None} /\ blow \in Levels \cup {None}
  BY <1>4, RainIsLevel
<1> HIDE DEF rain, blow
<1>7. view' = [rain |-> rain, wind |-> blow, ok |-> FALSE, warning |-> 0, typhoon |-> 0]
  BY <1>1 DEF NoView
<1>8. FeedTypes'
  <2>1. view' \in Views
    BY <1>6, <1>7 DEF Views, Levels
  <2> QED
    BY <1>1, <2>1 DEF FeedTypes, ReadStation, world, store
<1>9. LeastBelow'
  BY LeastStays DEF ReadStation
<1>10. RainStored' /\ WindRead'
  BY DEF ReadStation, RainStored, WindRead, world, store
<1>11. WarningsKept'
  BY <1>7 DEF ReadStation, WarningsKept, Covers, store
<1>12. ViewRead'
  BY <1>1, <1>2, <1>5, <1>7 DEF ReadStation, ViewRead
<1> QED
  BY <1>8, <1>9, <1>10, <1>11, <1>12

LEMMA ReadAgeFeed == ASSUME FeedInv, ReadAge PROVE FeedInv'
<1> USE DEF FeedInv
<1>1. view \in Views
  BY DEF FeedTypes
<1>2. PICK young0 \in BOOLEAN : young0 = ("warnings" \in young)
  <2>1. CASE "warnings" \in young
    <3>1. TRUE = ("warnings" \in young)
      BY <2>1
    <3> QED
      BY <3>1
  <2>2. CASE "warnings" \notin young
    <3>1. FALSE = ("warnings" \in young)
      BY <2>2
    <3> QED
      BY <3>1
  <2> QED
    BY <2>1, <2>2
<1>3. view' = [view EXCEPT !.ok = young0] /\ judging' = "warnings"
  BY <1>2, Zenon DEF ReadAge, WarningsValid
<1>4. /\ view' \in Views /\ view'.rain = view.rain /\ view'.wind = view.wind
      /\ view'.ok => "warnings" \in young
  <2>1. /\ view' \in Views /\ view'.rain = view.rain /\ view'.wind = view.wind
        /\ view'.ok = young0
    BY <1>1, <1>3 DEF Views
  <2> QED
    BY <1>2, <2>1, Zenon
<1>5. FeedTypes'
  BY <1>3, <1>4 DEF FeedTypes, ReadAge, world, store
<1>6. LeastBelow'
  BY LeastStays DEF ReadAge
<1>7. RainStored' /\ WindRead'
  BY DEF ReadAge, RainStored, WindRead, world, store
<1>8. WarningsKept'
  BY <1>4 DEF ReadAge, WarningsKept, Covers, store
<1>9. ViewRead'
  BY <1>3, <1>4 DEF ReadAge, ViewRead
<1> QED
  BY <1>5, <1>6, <1>7, <1>8, <1>9

LEMMA ReadWarningsFeed == ASSUME FeedInv, ReadWarnings PROVE FeedInv'
<1> USE DEF FeedInv
<1>1. view \in Views
  BY DEF FeedTypes
<1>2. PICK w : w = RainWarning(inForce)
  OBVIOUS
<1>3. PICK t : t = TyphoonLevel(inForce, seenTrack.level)
  OBVIOUS
<1>4. w \in Levels /\ t \in Levels
  BY <1>2, <1>3, WarningIsLevel
<1>5. view' = [view EXCEPT !.warning = w, !.typhoon = t] /\ judging' = "sync"
  BY <1>2, <1>3 DEF ReadWarnings
<1>6. view' = [rain |-> view.rain, wind |-> view.wind, ok |-> view.ok, warning |-> w, typhoon |-> t]
  BY <1>1, <1>5 DEF Views
<1>7. view' \in Views
  BY <1>1, <1>4, <1>6 DEF Views
<1>8. FeedTypes'
  BY <1>5, <1>7 DEF FeedTypes, ReadWarnings, world, store
<1>9. LeastBelow'
  BY LeastStays DEF ReadWarnings
<1>10. RainStored' /\ WindRead'
  BY DEF ReadWarnings, RainStored, WindRead, world, store
<1>11. WarningsKept'
  BY <1>6 DEF ReadWarnings, WarningsKept, Covers, store
<1>12. ViewRead'
  <2>1. view.ok => \A z \in Zones : w >= least[z]
    BY <1>2 DEF WarningsKept, Covers
  <2>2. view'.rain = view.rain /\ view'.wind = view.wind /\ view'.warning = w
    BY <1>6
  <2>3. view'.ok <=> view.ok
    BY <1>6, Zenon
  <2>4. UNCHANGED least
    BY DEF ReadWarnings
  <2>5. view'.rain # None => view'.rain >= least'["rain"]
    BY <2>2, <2>4 DEF ViewRead
  <2>6. view'.wind # None => view'.wind >= least'["wind"]
    BY <2>2, <2>4 DEF ViewRead
  <2>7. view'.ok => \A z \in Zones : view'.warning >= least'[z]
    BY <2>1, <2>2, <2>3, <2>4
  <2> QED
    BY <2>5, <2>6, <2>7 DEF ViewRead
<1> QED
  BY <1>8, <1>9, <1>10, <1>11, <1>12

LEMMA LevelRead == ASSUME view \in Views, NEW k PROVE LevelOf(k, view) \in Levels \cup {None}
BY DEF LevelOf, Views

LEMMA SyncFeed == ASSUME FeedInv, Sync PROVE FeedInv'
<1> USE DEF FeedInv
<1>1. view' = NoView /\ judging' = "idle" /\ UNCHANGED <<world, store, list, collecting, least>>
  BY DEF Sync, NoView
<1>2. row' \in [Keys -> [level : -1..2, unseen : Int]]
  <2>1. \A k \in Keys : Synced(row[k], k, view) \in [level : -1..2, unseen : Int]
    <3> TAKE k \in Keys
    <3>1. PICK l : l = LevelOf(k, view)
      OBVIOUS
    <3>2. l \in -1..2
      BY <3>1, LevelRead DEF FeedTypes, Levels, None
    <3>3. row[k] \in [level : -1..2, unseen : Int] /\ NoRow \in [level : -1..2, unseen : Int]
      BY DEF FeedTypes, NoRow, None
    <3>4. [level |-> l, unseen |-> 0] \in [level : -1..2, unseen : Int]
      BY <3>2
    <3> QED
      BY <3>1, <3>3, <3>4 DEF Synced
  <2> QED
    BY <2>1 DEF Sync
<1>3. FeedTypes'
  BY <1>1, <1>2 DEF FeedTypes, Views, NoView, Levels, None, world, store
<1>4. LeastBelow'
  BY <1>1, LeastStays
<1>5. RainStored' /\ WindRead' /\ WarningsKept' /\ ViewRead'
  BY <1>1 DEF RainStored, WindRead, WarningsKept, ViewRead, Covers, NoView, world, store
<1> QED
  BY <1>3, <1>4, <1>5

LEMMA JudgeFailsFeed == ASSUME FeedInv, JudgeFails PROVE FeedInv'
<1> USE DEF FeedInv
<1>1. view' = NoView /\ judging' = "idle" /\ UNCHANGED <<world, store, list, collecting, row, least>>
  BY DEF JudgeFails, NoView
<1>2. FeedTypes'
  BY <1>1 DEF FeedTypes, Views, NoView, Levels, None, world, store
<1>3. LeastBelow'
  BY <1>1, LeastStays
<1>4. RainStored' /\ WindRead' /\ WarningsKept' /\ ViewRead'
  BY <1>1 DEF RainStored, WindRead, WarningsKept, ViewRead, Covers, NoView, world, store
<1> QED
  BY <1>2, <1>3, <1>4

(* What Sync lowers without having lost sight of it, it judged, and judged *)
(* no lower than the danger of this hour was.                              *)
LEMMA SyncHonest ==
  ASSUME WarningsConstants, FeedInv, Sync, NEW k \in Keys \ {"typhoon"}, Lowered(k), ~ Expired(row[k])
  PROVE  row'[k].level >= least[k] \/ least[k] = 0
<1>1. view \in Views /\ row[k].level \in -1..2 /\ least[k] \in Levels
  BY DEF FeedInv, FeedTypes
<1>2. row'[k] = Synced(row[k], k, view)
  BY DEF Sync
<1>3. k \in Judged(view)
  <2> SUFFICES ASSUME k \notin Judged(view) PROVE FALSE
    OBVIOUS
  <2>1. row'[k] = row[k]
    BY <1>2 DEF Synced
  <2> QED
    BY <1>1, <2>1 DEF Lowered
<1>4. PICK l : l = LevelOf(k, view)
  OBVIOUS
<1>5. l \in Levels \cup {None}
  BY <1>1, <1>4, LevelRead
<1>6. l >= least[k]
  <2>1. judging = "sync"
    BY DEF Sync
  <2>2. CASE k = "rain"
    BY <1>3, <1>4, <2>2 DEF Judged, LevelOf, FeedInv, ViewRead, WarningsConstants
  <2>3. CASE k = "wind"
    BY <1>3, <1>4, <2>3 DEF Judged, LevelOf, FeedInv, ViewRead, WarningsConstants
  <2>4. CASE k \in Zones
    <3>1. view.ok
      BY <1>3, <2>4 DEF Judged, WarningsConstants
    <3>2. l = view.warning
      BY <1>4, <2>4 DEF LevelOf, WarningsConstants
    <3> QED
      BY <2>1, <2>4, <3>1, <3>2 DEF FeedInv, ViewRead
  <2> QED
    BY <2>2, <2>3, <2>4 DEF Keys
<1>7. CASE l > 0
  <2>1. row'[k] = [level |-> l, unseen |-> 0]
    BY <1>2, <1>3, <1>4, <1>7 DEF Synced
  <2> QED
    BY <1>6, <2>1
<1>8. CASE ~ (l > 0)
  BY <1>1, <1>5, <1>6, <1>8 DEF Levels, None
<1> QED
  BY <1>7, <1>8

LEMMA NextFeed == ASSUME WarningsConstants, ~ Gaps, FeedInv, [Next]_vars PROVE FeedInv'
<1>1. CASE UNCHANGED vars
  <2>1. UNCHANGED <<world, store, engine, list, collecting, least>>
    BY <1>1 DEF vars
  <2>2. LeastBelow'
    BY <2>1, LeastStays
  <2>3. FeedTypes'
    BY <2>1 DEF FeedInv, FeedTypes, world, store, engine
  <2>4. RainStored' /\ WindRead' /\ WarningsKept' /\ ViewRead'
    BY <2>1 DEF FeedInv, RainStored, WindRead, WarningsKept, ViewRead, Covers, world, store, engine
  <2> QED
    BY <2>2, <2>3, <2>4 DEF FeedInv
<1>2. CASE Turn \/ Hour \/ Fade
  BY <1>2, TurnFeed, HourFeed, FadeFeed
<1>3. CASE Collect \/ WarningsFail
  BY <1>3, GetFeed, UpsertFeed, ReleaseFeed, FinishFeed, FailFeed DEF Collect
<1>4. CASE Aws \/ Typhoon
  BY <1>4, AwsFeed, TyphoonFeed
<1>5. CASE Judge \/ JudgeFails
  BY <1>5, ReadStationFeed, ReadAgeFeed, ReadWarningsFeed, SyncFeed, JudgeFailsFeed DEF Judge
<1> QED
  BY <1>1, <1>2, <1>3, <1>4, <1>5 DEF Next

(* If no hour passes without its rain stored, a run of the second engine   *)
(* lowers or closes a judgement of rain, wind or landslide only to a level *)
(* the danger had within the hour, or after it was long unseen             *)
(* (hazards.py:27), however the warnings job, the station and the engine   *)
(* take turns, whatever fails and for any zones and rules.                 *)
THEOREM LoweredAlwaysJudged ==
  ASSUME WarningsConstants, ~ Gaps
  PROVE  Spec => UnknownIsNotSafe
<1>1. Init => FeedInv
  BY InitFeed
<1>2. FeedInv /\ [Next]_vars => FeedInv'
  BY NextFeed
<1>3. FeedInv => LoweredKnowing
  BY SyncHonest DEF LoweredKnowing
<1> QED
  BY <1>1, <1>2, <1>3, PTL DEF Spec, UnknownIsNotSafe

-----------------------------------------------------------------------------
(* Types.                                                                  *)
Warned == {"rain", "typhoon"} \X (1..2)
RowTypes == {NoRow} \cup [level : 1..2, unseen : 0..KeepUnseen + 1]

LEMMA InitTyped == ASSUME WarningsConstants, Init PROVE TypeOK
BY DEF Init, TypeOK, WarningsConstants, Levels, NoRow, Keys

LEMMA HourTyped == ASSUME WarningsConstants, TypeOK, Hour PROVE TypeOK'
<1>1. ASSUME NEW f, NEW S, f \in [0..Long - 1 -> S], NEW v \in S PROVE Shift(f, v) \in [0..Long - 1 -> S]
  BY <1>1 DEF Shift, WarningsConstants
<1>2. fallen' \in [0..Long - 1 -> Amounts]
  BY <1>1 DEF Hour, TypeOK
<1>3. stored' \in [0..Long - 1 -> Amounts \cup {None}]
  BY <1>1 DEF Hour, TypeOK
<1>4. seenTrack'.level \in Levels /\ seenTrack'.age \in 0..TrackKept
  BY DEF Hour, TypeOK, WarningsConstants, Levels
<1>5. ASSUME NEW k \in Keys PROVE row'[k] \in RowTypes
  <2>1. row[k] \in RowTypes /\ row'[k] = IF row[k] # NoRow /\ row[k].unseen <= KeepUnseen
                                         THEN [row[k] EXCEPT !.unseen = @ + 1] ELSE row[k]
    BY DEF Hour, TypeOK, RowTypes
  <2> QED BY <2>1 DEF RowTypes, WarningsConstants
<1>6. row' \in [Keys -> RowTypes]
  BY <1>5 DEF Hour, RowTypes
<1> QED BY <1>2, <1>3, <1>4, <1>6 DEF Hour, TypeOK, RowTypes

LEMMA SyncTyped == ASSUME WarningsConstants, FeedInv, TypeOK, Sync PROVE TypeOK'
<1>1. ASSUME NEW k \in Keys PROVE row'[k] \in RowTypes
  <2>1. row[k] \in RowTypes /\ row'[k] = Synced(row[k], k, view)
    BY DEF Sync, TypeOK, RowTypes
  <2>2. PICK l : l = LevelOf(k, view)
    OBVIOUS
  <2>3. l \in Levels \cup {None}
    BY <2>2, LevelRead DEF FeedInv, FeedTypes
  <2> QED BY <2>1, <2>2, <2>3 DEF Synced, RowTypes, Levels, None, WarningsConstants
<1>2. row' \in [Keys -> RowTypes]
  BY <1>1 DEF Sync, RowTypes
<1> QED BY <1>2 DEF Sync, TypeOK, RowTypes, world, store, counts

LEMMA NextTyped == ASSUME WarningsConstants, FeedInv, TypeOK, [Next]_vars PROVE TypeOK'
<1>1. CASE UNCHANGED vars
  BY <1>1 DEF vars, world, store, engine, counts, TypeOK
<1>2. CASE Turn
  BY <1>2 DEF Turn, TypeOK, store, engine, Levels
<1>3. CASE Hour
  BY <1>3, HourTyped
<1>4. CASE Fade
  BY <1>4 DEF Fade, TypeOK, world, engine
<1>5. CASE GetWarnings
  <2>1. InTheList \subseteq Warned
    BY DEF InTheList, TypeOK, Levels, Warned
  <2> QED BY <1>5, <2>1 DEF GetWarnings, TypeOK, world, store, engine, Accepted, Warned
<1>6. CASE UpsertWarnings \/ ReleaseMissing \/ FinishWarnings
  BY <1>6 DEF UpsertWarnings, ReleaseMissing, FinishWarnings, Unreleased, TypeOK, world, engine
<1>7. CASE WarningsFail \/ JudgeFails
  BY <1>7 DEF WarningsFail, JudgeFails, TypeOK, world, store, engine
<1>8. CASE Aws
  <2>1. reading' \in [{"speed", "gust"} -> Levels \cup {None}] /\ young' \subseteq {"rain", "speed", "gust", "warnings"}
    BY <1>8 DEF Aws, TypeOK
  <2>2. stored' \in [0..Long - 1 -> Amounts \cup {None}]
    BY <1>8 DEF Aws, TypeOK, WarningsConstants
  <2> QED BY <1>8, <2>1, <2>2 DEF Aws, TypeOK, world, engine
<1>9. CASE Typhoon
  BY <1>9 DEF Typhoon, TypeOK, world, engine, WarningsConstants
<1>10. CASE ReadStation \/ ReadAge \/ ReadWarnings
  BY <1>10 DEF ReadStation, ReadAge, ReadWarnings, TypeOK, world, store
<1>11. CASE Sync
  BY <1>11, SyncTyped
<1> QED
  BY <1>1, <1>2, <1>3, <1>4, <1>5, <1>6, <1>7, <1>8, <1>9, <1>10, <1>11 DEF Next, Collect, Judge

(* The feeds, the jobs' and the engine's state keep their types.           *)
THEOREM FeedsTyped ==
  ASSUME WarningsConstants, ~ Gaps
  PROVE  Spec => []TypeOK
<1>1. Init => FeedInv /\ TypeOK
  BY InitFeed, InitTyped
<1>2. FeedInv /\ TypeOK /\ [Next]_vars => FeedInv' /\ TypeOK'
  BY NextFeed, NextTyped
<1> QED
  BY <1>1, <1>2, PTL DEF Spec
=============================================================================
