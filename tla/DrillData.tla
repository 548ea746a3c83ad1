----------------------------- MODULE DrillData ------------------------------
(***************************************************************************)
(* A drill's questions to the assistant (ai demo.py, server risk/demo.py): *)
(* for as long as such a question runs, every live table its tools read is *)
(* covered by rows the server made up from a scenario at the places of the *)
(* real sensors, kept for a minute; other people's real questions run at   *)
(* the same time, in the same process, over the same database.  The rows   *)
(* of a table are told apart by where they come from and, for measurements,*)
(* the kind of the station.                                                *)
(***************************************************************************)
EXTENDS Naturals, Sequences, FiniteSets

CONSTANTS Askers,        \* questions that may run at once
          Reads,         \* Reads[sql]: the tables a tool's statement reads
          Sensors,       \* Sensors[s]: its kind, and whether the scenario gives it a value
          MaxReads,      \* statements of a question
          MaxTurns, MaxOutages,   \* bounds: questions; requests and statements that fail
          None

DrillDataAssumption == {MaxReads, MaxTurns, MaxOutages} \subseteq Nat /\ None \notin {"drill", "real"}

VARIABLES
  asking,     \* asking[a]: None, "drill" or "real"
  todo,       \* todo[a]: statements its agents still run
  waiting,    \* waiting[a]: statements that wait for the drill's rows
  kept,       \* DemoSource._rows; None before the first load
  aging,        \* they are older than CACHE_S
  loader,     \* who holds the source's lock, and what it has loaded
  learnt,      \* learnt[a]: what was read, per table; no rows: unavailable
  turns, outages

drillDataVars == <<asking, todo, waiting, kept, aging, loader, learnt, turns, outages>>

Real == [kind |-> "row", value |-> "real"]
Made == [kind |-> "row", value |-> "drill"]
RealKinds == {"uv", "air"}
Parts == <<"areas", "stations", "dashboard">>
Free == [by |-> None, rows |-> <<>>]

Init ==
  /\ asking = [a \in Askers |-> None]
  /\ todo = [a \in Askers |-> {}] /\ waiting = [a \in Askers |-> {}]
  /\ kept = None /\ aging = FALSE /\ loader = Free
  /\ learnt = [a \in Askers |-> {}]
  /\ turns = 0 /\ outages = 0

-----------------------------------------------------------------------------
(* The server: the areas judged from the scenario, the stations' real      *)
(* values with the scenario's written over them, and the dashboard.        *)
StationsLayer ==
  {[kind |-> Sensors[s].kind, simulated |-> Sensors[s].scenario,
    value |-> IF Sensors[s].scenario THEN "drill" ELSE "real"] : s \in DOMAIN Sensors}
Answered(what) == IF what = "stations" THEN StationsLayer ELSE {Made}

(* observation_rows: simulated values, and real ones of these kinds only.  *)
MutantEveryStation(s) == TRUE
Shown(s) == s.simulated \/ s.kind \in RealKinds
ObservationRows(layer) == {[kind |-> s.kind, value |-> s.value] : s \in {x \in layer : Shown(x)}}

(* _CTES: the tables covered.  Every SELECT of a tool goes through here.   *)
Covered ==
  {"risk_assessments", "observations", "weather_warnings", "disaster_messages", "v_latest_forecasts",
   "ingest_runs"}

RowsOf(got) ==
  [t \in Covered |-> CASE t = "risk_assessments" -> got[1]
                      [] t = "observations" -> ObservationRows(got[2])
                      [] t = "ingest_runs" -> {Made}
                      [] OTHER -> got[3]]

(* What a statement finds, with these rows over the tables of their names. *)
Stored(t) == IF t = "observations" THEN {[kind |-> Sensors[s].kind, value |-> "real"] : s \in DOMAIN Sensors}
             ELSE {Real}
Found(sql, rows) == {[table |-> t, rows |-> IF t \in DOMAIN rows THEN rows[t] ELSE Stored(t)] : t \in Reads[sql]}
Uncovered == [t \in {} |-> {}]
Unavailable(sql) == {[table |-> t, rows |-> {}] : t \in Reads[sql]}

-----------------------------------------------------------------------------
(* service.chat: the flag of a question holds while it runs, and each of   *)
(* its agents sees it.                                                     *)
Ask(a, drill) ==
  /\ asking[a] = None /\ turns < MaxTurns /\ turns' = turns + 1
  /\ asking' = [asking EXCEPT ![a] = IF drill THEN "drill" ELSE "real"]
  /\ \E sqls \in SUBSET DOMAIN Reads :
       Cardinality(sqls) = MaxReads /\ todo' = [todo EXCEPT ![a] = sqls]
  /\ UNCHANGED <<waiting, kept, aging, loader, learnt, outages>>

Ends(a) ==
  /\ asking[a] # None /\ todo[a] = {} /\ waiting[a] = {}
  /\ asking' = [asking EXCEPT ![a] = None]
  /\ learnt' = [learnt EXCEPT ![a] = {}]
  /\ UNCHANGED <<todo, waiting, kept, aging, loader, turns, outages>>

MutantProcessWide(a) == \E other \in Askers : asking[other] = "drill"
Active(a) == asking[a] = "drill"

Hears(a, what) == learnt' = [learnt EXCEPT ![a] = @ \cup what]

(* _query: in a drill the rows are asked for, whatever the statement reads;*)
(* _post_route: the route server is told, and takes its areas accordingly. *)
Query(a, sql) ==
  /\ asking[a] # None /\ sql \in todo[a]
  /\ todo' = [todo EXCEPT ![a] = @ \ {sql}]
  /\ \/ /\ sql # "route" /\ Active(a)
        /\ waiting' = [waiting EXCEPT ![a] = @ \cup {sql}] /\ UNCHANGED learnt
     \/ /\ sql # "route" /\ ~ Active(a)
        /\ Hears(a, Found(sql, Uncovered)) /\ UNCHANGED waiting
     \/ /\ sql = "route"
        /\ Hears(a, {[table |-> "risk_assessments", rows |-> {IF Active(a) THEN Made ELSE Real}]})
        /\ UNCHANGED waiting
  /\ UNCHANGED <<asking, kept, aging, loader, turns, outages>>

(* The database or the route server fails.                                 *)
QueryFails(a, sql) ==
  /\ asking[a] # None /\ outages < MaxOutages /\ outages' = outages + 1
  /\ \/ sql \in todo[a] /\ (sql = "route" \/ ~ Active(a))
     \/ sql \in waiting[a] /\ loader.by = None /\ kept # None /\ ~ aging
  /\ todo' = [todo EXCEPT ![a] = @ \ {sql}]
  /\ waiting' = [waiting EXCEPT ![a] = @ \ {sql}]
  /\ Hears(a, Unavailable(sql))
  /\ UNCHANGED <<asking, kept, aging, loader, turns>>

(* DemoSource.rows, under its lock.                                        *)
UseRows(a, sql) ==
  /\ sql \in waiting[a] /\ loader.by = None /\ kept # None /\ ~ aging
  /\ waiting' = [waiting EXCEPT ![a] = @ \ {sql}]
  /\ Hears(a, Found(sql, kept))
  /\ UNCHANGED <<asking, todo, kept, aging, loader, turns, outages>>

LoadBegins(a, sql) ==
  /\ sql \in waiting[a] /\ loader.by = None /\ (kept = None \/ aging)
  /\ loader' = [Free EXCEPT !.by = <<a, sql>>]
  /\ UNCHANGED <<asking, todo, waiting, kept, aging, learnt, turns, outages>>

Get ==
  /\ loader.by # None /\ Len(loader.rows) < Len(Parts)
  /\ loader' = [loader EXCEPT !.rows = Append(@, Answered(Parts[Len(@) + 1]))]
  /\ UNCHANGED <<asking, todo, waiting, kept, aging, learnt, turns, outages>>

Loads ==
  /\ loader.by # None /\ Len(loader.rows) = Len(Parts)
  /\ kept' = RowsOf(loader.rows) /\ aging' = FALSE /\ loader' = Free
  /\ UNCHANGED <<asking, todo, waiting, learnt, turns, outages>>

(* DemoUnavailable: nothing is read in its place.                          *)
GetFails ==
  /\ loader.by # None /\ Len(loader.rows) < Len(Parts)
  /\ outages < MaxOutages /\ outages' = outages + 1
  /\ loader' = Free
  /\ waiting' = [waiting EXCEPT ![loader.by[1]] = @ \ {loader.by[2]}]
  /\ Hears(loader.by[1], Unavailable(loader.by[2]))
  /\ UNCHANGED <<asking, todo, kept, aging, turns>>

MinutePasses ==
  /\ kept # None /\ ~ aging /\ aging' = TRUE
  /\ UNCHANGED <<asking, todo, waiting, kept, loader, learnt, turns, outages>>

Next ==
  \/ \E a \in Askers :
       \/ \E drill \in BOOLEAN : Ask(a, drill)
       \/ Ends(a)
       \/ \E sql \in DOMAIN Reads : Query(a, sql) \/ QueryFails(a, sql) \/ UseRows(a, sql) \/ LoadBegins(a, sql)
  \/ Get \/ Loads \/ GetFails \/ MinutePasses

Spec == Init /\ [][Next]_drillDataVars

-----------------------------------------------------------------------------
(* The type of the state.                                                  *)
TypeOK ==
  /\ \A a \in Askers : asking[a] \in {None, "drill", "real"} /\ todo[a] \cup waiting[a] \subseteq DOMAIN Reads
  /\ kept # None => DOMAIN kept = Covered
  /\ aging \in BOOLEAN /\ Len(loader.rows) \in 0..3
  /\ \A a \in Askers : \A h \in learnt[a] : \A row \in h.rows : row.value \in {"drill", "real"}

(* Tables that are the same in a drill (demo.py:6-7).                      *)
Fixed == {"stations", "hazard_zones", "shelters", "medical_facilities", "manholes", "action_guides", "support_programs"}

(* demo.py:6, 73: in a drill nothing an agent reads of the present is real *)
(* but ultraviolet and air values, also when the server's rows cannot be   *)
(* had; and a real question asked meanwhile reads nothing made up.         *)
OneWorld ==
  \A a \in Askers : \A h \in learnt[a] : \A row \in h.rows :
    IF asking[a] = "real" THEN row.value = "real"
    ELSE row.value = "drill" \/ h.table \in Fixed \/ row.kind \in RealKinds
=============================================================================
