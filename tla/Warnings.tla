------------------------------ MODULE Warnings ------------------------------
(***************************************************************************)
(* The second engine, server/risk/hazards.py, with what feeds it: the      *)
(* collector's jobs for the weather office's warnings, the local weather   *)
(* station and typhoon tracks (server/collector).  The engine judges heavy *)
(* rain, strong wind, typhoon and, per designated zone, landslide, and     *)
(* hands its results and the set of hazards it could judge to `sync' (see  *)
(* RiskSync; a run of this engine is alone here, so `sync' is one step).   *)
(*                                                                         *)
(* Time moves by hours.  The validity limits of 40 minutes are rounded to  *)
(* the hour: what was fetched in this hour is young, unless Fade made it   *)
(* older.  No job spans an hour.                                           *)
(***************************************************************************)
EXTENDS Integers, FiniteSets

CONSTANTS
  Zones,           \* designated landslide zones (ZONES_SQL)
  Amounts,         \* rain of one hour
  Turning,         \* what changes in a behaviour: warnings "rain", "typhoon", the "wind", the "track"
  Short, Long,     \* hours summed up as rain_3h and rain_12h
  RainRules,       \* RainRules[l]: the sums [short, long] that raise level l
  KeepUnseen,      \* KEEP_UNSEEN_MIN, in hours
  TrackKept,       \* the two days of TYPHOON_TRACKS_SQL, in hours
  Gaps,            \* whether an hour may pass without a stored rain value
  MaxHours, MaxChanges, MaxFailures   \* bounds

(* The keys of the engine's rows tell zones from the other hazards, rain   *)
(* is summed over some hours, an hour may be dry, limits are whole hours.  *)
WarningsConstants ==
  /\ Zones \cap {"rain", "wind", "typhoon"} = {}
  /\ Long \in Nat /\ Long > 0
  /\ 0 \in Amounts
  /\ KeepUnseen \in Nat /\ TrackKept \in Nat

Levels == 0..2    \* normal, advisory, warning
None == -1        \* no value, no row

VARIABLES
  issued,   \* issued[h]: the warning the office has in force for "rain", "typhoon"
  fallen,   \* fallen[k]: rain that fell k hours ago
  wind,     \* the level that wind and gusts would raise
  track,    \* the level of the typhoon radius Guryongpo is in
  inForce,  \* weather_warnings not released: pairs <<hazard, level>>
  stored,   \* stored[k]: rain_1h observed k hours ago
  reading,  \* reading[m]: latest wind_speed and wind_gust
  seenTrack,\* the latest analysed track: [level, age]
  young,    \* inputs younger than their limit: rain, speed, gust, warnings
  list,     \* the office's list a warnings job holds
  collecting, judging,   \* where the warnings job and the engine stand
  view,     \* what the engine has read so far
  row,      \* row[k]: the open judgement of key k, [level, unseen]
  least,    \* history: least[k], the lowest level of the danger in this hour
  hours, changes, failures

world == <<issued, fallen, wind, track>>
store == <<inForce, stored, reading, seenTrack, young>>
engine == <<judging, view, row>>
counts == <<hours, changes, failures>>
vars == <<world, store, list, collecting, engine, least, counts>>

Keys == {"rain", "wind", "typhoon"} \cup Zones
NoRow == [level |-> None, unseen |-> 0]

SumOf(f, n) ==
  LET sum[k \in 0..n] == IF k = 0 THEN 0 ELSE sum[k - 1] + (IF f[k - 1] = None THEN 0 ELSE f[k - 1])
  IN sum[n]

Higher(a, b) == IF a >= b THEN a ELSE b

(* evaluate_heavy_rain: the first rule from the top one of whose sums is   *)
(* reached; an hour without a value counts as no rain (RAIN_SUM_SQL).      *)
RainLevel(f) ==
  LET Hit(l) == SumOf(f, Short) >= RainRules[l].short \/ SumOf(f, Long) >= RainRules[l].long
  IN IF Hit(2) THEN 2 ELSE IF Hit(1) THEN 1 ELSE 0

\* evaluate_strong_wind: the higher of what mean wind and gust raise.
WindLevel(w) == Higher(w["speed"], w["gust"])

\* evaluate_typhoon: a warning in force or a radius around the place.
TyphoonLevel(rows, t) ==
  LET warned == {l \in 1..2 : <<"typhoon", l>> \in rows}
  IN IF 2 \in warned \/ t = 2 THEN 2 ELSE IF warned # {} \/ t >= 1 THEN 1 ELSE 0

\* HEAVY_RAIN_WARNING_SQL: the highest rain warning in force.
RainWarning(rows) ==
  IF <<"rain", 2>> \in rows THEN 2 ELSE IF <<"rain", 1>> \in rows THEN 1 ELSE 0

\* The level the danger behind key k really has.
Danger(k) ==
  CASE k = "rain" -> RainLevel(fallen)
    [] k = "wind" -> wind
    [] k = "typhoon" -> Higher(issued["typhoon"], track)
    [] OTHER -> issued["rain"]

Lower(a, b) == IF a <= b THEN a ELSE b

-----------------------------------------------------------------------------
Init ==
  /\ issued = [h \in {"rain", "typhoon"} |-> 0]
  /\ fallen = [k \in 0..Long - 1 |-> 0]
  /\ wind = 0
  /\ track = 0
  /\ inForce = {}
  /\ stored = [k \in 0..Long - 1 |-> 0]
  /\ reading = [m \in {"speed", "gust"} |-> None]
  /\ seenTrack = [level |-> 0, age |-> 0]
  /\ young = {}
  /\ list = {}
  /\ collecting = "idle"
  /\ judging = "idle"
  /\ view = [rain |-> None, wind |-> None, ok |-> FALSE, warning |-> 0, typhoon |-> 0]
  /\ row = [k \in Keys |-> NoRow]
  /\ least = [k \in Keys |-> 0]
  /\ hours = 0 /\ changes = 0 /\ failures = 0

(* The office issues, changes or lifts a warning; the wind or the typhoon  *)
(* changes.                                                                *)
Turn ==
  /\ changes < MaxChanges
  /\ changes' = changes + 1
  /\ \/ /\ \E h \in Turning \cap DOMAIN issued, l \in Levels : issued' = [issued EXCEPT ![h] = l]
        /\ UNCHANGED <<wind, track>>
     \/ "wind" \in Turning /\ wind' \in Levels /\ UNCHANGED <<issued, track>>
     \/ "track" \in Turning /\ track' \in Levels /\ UNCHANGED <<issued, wind>>
  /\ UNCHANGED <<fallen, store, list, collecting, engine, hours, failures>>
  /\ least' = [k \in Keys |-> Lower(least[k], Danger(k)')]

\* An hour passes, and some rain falls in the new one.
Shift(f, v) == [k \in 0..Long - 1 |-> IF k = 0 THEN v ELSE f[k - 1]]

Hour ==
  /\ hours < MaxHours /\ collecting = "idle" /\ judging = "idle"
  /\ Gaps \/ stored[0] # None
  /\ hours' = hours + 1
  /\ \E a \in Amounts : fallen' = Shift(fallen, a)
  /\ stored' = Shift(stored, None)
  /\ young' = {}
  /\ seenTrack' = IF seenTrack.age < TrackKept THEN [seenTrack EXCEPT !.age = @ + 1]
                  ELSE [level |-> 0, age |-> TrackKept]
  /\ row' = [k \in Keys |-> IF row[k] # NoRow /\ row[k].unseen <= KeepUnseen
                            THEN [row[k] EXCEPT !.unseen = @ + 1] ELSE row[k]]
  /\ UNCHANGED <<issued, wind, track, inForce, reading, list, collecting, judging, view,
                 changes, failures>>
  /\ least' = [k \in Keys |-> Danger(k)']

Fade ==
  /\ \E m \in young : young' = young \ {m}
  /\ failures < MaxFailures /\ failures' = failures + 1
  /\ UNCHANGED <<world, inForce, stored, reading, seenTrack, list, collecting, engine, least,
                 hours, changes>>

-----------------------------------------------------------------------------
(* kma.warnings: fetch the list, upsert its rows, release the others.      *)
(* Anything but a JSON list fails before it can release anything.          *)
MutantAnyAnswer(answer) == TRUE
Accepted(answer) == answer = "list"

InTheList == {<<h, issued[h]>> : h \in {x \in DOMAIN issued : issued[x] > 0}}

GetWarnings ==
  /\ collecting = "idle"
  /\ \E answer \in {"list", "error"} :
       /\ answer = "error" => failures < MaxFailures
       /\ failures' = IF answer = "error" THEN failures + 1 ELSE failures
       /\ collecting' = IF Accepted(answer) THEN "upsert" ELSE "idle"
       /\ list' = IF answer = "list" THEN InTheList ELSE {}
  /\ UNCHANGED <<world, store, engine, least, hours, changes>>

UpsertWarnings ==
  /\ collecting = "upsert"
  /\ inForce' = inForce \cup list
  /\ collecting' = "release"
  /\ UNCHANGED <<world, stored, reading, seenTrack, young, list, engine, least, counts>>

MutantReleaseNothing(rows, now) == rows
Unreleased(rows, now) == rows \cap now

ReleaseMissing ==
  /\ collecting = "release"
  /\ inForce' = Unreleased(inForce, list)
  /\ collecting' = "finish"
  /\ UNCHANGED <<world, stored, reading, seenTrack, young, list, engine, least, counts>>

FinishWarnings ==
  /\ collecting = "finish"
  /\ young' = young \cup {"warnings"}
  /\ collecting' = "idle" /\ list' = {}
  /\ UNCHANGED <<world, inForce, stored, reading, seenTrack, engine, least, counts>>

\* The job raises: fail_run, and what was committed stays.
WarningsFail ==
  /\ collecting # "idle"
  /\ failures < MaxFailures /\ failures' = failures + 1
  /\ collecting' = "idle" /\ list' = {}
  /\ UNCHANGED <<world, store, engine, least, hours, changes>>

(* kma.aws: one row of the station with rain and wind, the gust possibly   *)
(* missing.                                                                *)
Aws ==
  /\ stored' = [stored EXCEPT ![0] = fallen[0]]
  /\ \/ /\ reading' = [m \in {"speed", "gust"} |-> wind]
        /\ young' = young \cup {"rain", "speed", "gust"}
        /\ UNCHANGED failures
     \/ /\ failures < MaxFailures /\ failures' = failures + 1
        /\ reading' = [reading EXCEPT !["speed"] = wind]
        /\ young' = young \cup {"rain", "speed"}
  /\ UNCHANGED <<world, inForce, seenTrack, list, collecting, engine, least, hours, changes>>

\* kma.typhoon: skipped when no typhoon is under way, else the analysed track.
Typhoon ==
  /\ track > 0 \/ seenTrack.level > 0
  /\ seenTrack' = [level |-> track, age |-> 0]
  /\ UNCHANGED <<world, inForce, stored, reading, young, list, collecting, engine, least, counts>>

-----------------------------------------------------------------------------
(* hazards.run reads the station, the age of the warnings and the warnings *)
(* in statements of their own, and hands everything to sync.               *)
ReadStation ==
  /\ judging = "idle"
  /\ judging' = "age"
  /\ view' = [view EXCEPT
       !.rain = IF "rain" \in young THEN RainLevel(stored) ELSE None,
       !.wind = IF young \cap {"speed", "gust"} # {} THEN WindLevel(reading) ELSE None]
  /\ UNCHANGED <<world, store, list, collecting, row, least, counts>>

WarningsValid == "warnings" \in young

ReadAge ==
  /\ judging = "age"
  /\ judging' = "warnings"
  /\ view' = [view EXCEPT !.ok = WarningsValid]
  /\ UNCHANGED <<world, store, list, collecting, row, least, counts>>

ReadWarnings ==
  /\ judging = "warnings"
  /\ judging' = "sync"
  /\ view' = [view EXCEPT !.warning = RainWarning(inForce),
                          !.typhoon = TyphoonLevel(inForce, seenTrack.level)]
  /\ UNCHANGED <<world, store, list, collecting, row, least, counts>>

\* The hazards a run could judge: their sentinels go into seen_station_ids.
Judged(v) ==
  {"typhoon"} \cup {k \in {"rain"} : v.rain # None} \cup {k \in {"wind"} : v.wind # None}
              \cup {k \in Zones : v.ok}

LevelOf(k, v) ==
  CASE k = "rain" -> v.rain
    [] k = "wind" -> v.wind
    [] k = "typhoon" -> v.typhoon
    [] OTHER -> v.warning       \* evaluate_landslide: rule 10 or 11, for every zone

Expired(r) == r.unseen > KeepUnseen

MutantNoLevel(r, k, v) ==
  IF k \in Judged(v) THEN [level |-> LevelOf(k, v), unseen |-> 0] ELSE IF Expired(r) THEN NoRow ELSE r
Synced(r, k, v) ==
  IF k \in Judged(v)
  THEN IF LevelOf(k, v) > 0 THEN [level |-> LevelOf(k, v), unseen |-> 0] ELSE NoRow
  ELSE IF Expired(r) THEN NoRow ELSE r

Sync ==
  /\ judging = "sync"
  /\ judging' = "idle"
  /\ row' = [k \in Keys |-> Synced(row[k], k, view)]
  /\ view' = [rain |-> None, wind |-> None, ok |-> FALSE, warning |-> 0, typhoon |-> 0]
  /\ UNCHANGED <<world, store, list, collecting, least, counts>>

JudgeFails ==
  /\ judging # "idle"
  /\ failures < MaxFailures /\ failures' = failures + 1
  /\ judging' = "idle"
  /\ view' = [rain |-> None, wind |-> None, ok |-> FALSE, warning |-> 0, typhoon |-> 0]
  /\ UNCHANGED <<world, store, list, collecting, row, least, hours, changes>>

Collect == GetWarnings \/ UpsertWarnings \/ ReleaseMissing \/ FinishWarnings
Judge == ReadStation \/ ReadAge \/ ReadWarnings \/ Sync
Next ==
  \/ Turn \/ Hour \/ Fade \/ Collect \/ WarningsFail \/ Aws \/ Typhoon \/ Judge \/ JudgeFails

Spec == Init /\ [][Next]_vars

(* The scheduler runs kma.warnings and risk.hazards every ten minutes.     *)
FairSpec == Spec /\ WF_vars(Collect) /\ WF_vars(Judge)

-----------------------------------------------------------------------------
TypeOK ==
  /\ issued \in [{"rain", "typhoon"} -> Levels]
  /\ fallen \in [0..Long - 1 -> Amounts] /\ stored \in [0..Long - 1 -> Amounts \cup {None}]
  /\ wind \in Levels /\ track \in Levels
  /\ inForce \subseteq {"rain", "typhoon"} \X (1..2) /\ list \subseteq {"rain", "typhoon"} \X (1..2)
  /\ reading \in [{"speed", "gust"} -> Levels \cup {None}]
  /\ seenTrack.level \in Levels /\ seenTrack.age \in 0..TrackKept
  /\ young \subseteq {"rain", "speed", "gust", "warnings"}
  /\ collecting \in {"idle", "upsert", "release", "finish"}
  /\ judging \in {"idle", "age", "warnings", "sync"}
  /\ row \in [Keys -> {NoRow} \cup [level : 1..2, unseen : 0..KeepUnseen + 1]]

(* A run lowers or closes a judgement of rain, wind or landslide only to a *)
(* level the danger really had within the hour, or after KEEP_UNSEEN_MIN   *)
(* without data (hazards.py:27 `judged unknown must not look safe').  A    *)
(* typhoon without data is taken for no typhoon (hazards.py:159).          *)
Lowered(k) == row'[k].level < row[k].level
LoweredKnowing ==
  Sync => \A k \in Keys \ {"typhoon"} :
    Lowered(k) /\ ~ Expired(row[k]) => row'[k].level >= least[k] \/ least[k] = 0
UnknownIsNotSafe == [][LoweredKnowing]_vars

(* What the office has in force for good ends up as the level of every     *)
(* landslide zone: raised, changed and lifted warnings all get there.      *)
ZonesFollowOffice ==
  <>[](\A z \in Zones : row[z].level = IF issued["rain"] = 0 THEN None ELSE issued["rain"])
=============================================================================
