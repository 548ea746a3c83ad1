------------------------------ MODULE RiskSync ------------------------------
(***************************************************************************)
(* The risk judgement of server/risk/engine.py: every run evaluates the    *)
(* latest observations against the rules and reconciles the open rows of   *)
(* risk_assessments (valid_to IS NULL) with the results, in one database   *)
(* transaction.  risk/hazards.py calls the same `sync' with sentinel       *)
(* station ids, so its engine is another instance of this module.          *)
(*                                                                         *)
(* Nothing keeps two runs apart: the scheduler's cron job, its one-shot    *)
(* job at start (another job id) and the API process' POST                 *)
(* /internal/simulate all execute risk.flood.  Syncers is the set of runs  *)
(* that may overlap.  A run is split at its transactions and at the two    *)
(* statements of `sync' that others can observe: the SELECT of the open    *)
(* rows and the INSERTs, which draw the row ids before the commit.         *)
(***************************************************************************)
EXTENDS Integers, FiniteSets

CONSTANTS
  Stations,    \* stations (or sentinel ids) of one engine
  Rules,       \* records [id, hazard, level, threshold], the active risk_rules
  Readings,    \* the sets of rules an observation can satisfy, and NoData
  NoData,      \* no observation young enough for LATEST_SQL
  Syncers,     \* runs of the job that may overlap
  KeepUnseen,  \* KEEP_UNSEEN_MIN, in ticks
  MaxChanges,  \* bound: changes of the observations in a behaviour
  MaxAborts    \* bound: runs that die before their commit in a behaviour

\* Levels are LEVEL_NUM: 0 normal .. 4 critical.
Levels == 0..4

ASSUME RulesAssumption ==
  /\ \A r \in Rules : r.id \in Nat /\ r.level \in Levels /\ r.threshold \in BOOLEAN
  /\ \A r, q \in Rules : r.id = q.id => r = q
ASSUME ReadingsAssumption ==
  /\ NoData \in Readings
  /\ \A h \in Readings \ {NoData} : h \subseteq Rules
ASSUME BoundsAssumption == KeepUnseen \in Nat /\ MaxChanges \in Nat /\ MaxAborts \in Nat

VARIABLES
  obs,          \* obs[s]: what LATEST_SQL would return for station s
  open,         \* open rows: [key, level, rule, serial, age]
  nextSerial,   \* the sequence behind risk_assessments.id
  pc,           \* pc[p]: where run p stands
  view,         \* view[p]: the observations run p evaluated
  snap,         \* snap[p]: the open rows run p read
  lag,          \* lag[p]: ticks since p's transaction began (its now())
  serial,       \* serial[p]: the id drawn by p's INSERTs
  undisturbed,  \* history: no other run committed since p read the rows
  changes, aborts

vars == <<obs, open, nextSerial, pc, view, snap, lag, serial, undisturbed, changes, aborts>>
runVars == <<pc, view, snap, lag, serial, undisturbed>>

Hazards == {r.hazard : r \in Rules}
Keys == Stations \X Hazards

(***************************************************************************)
(* evaluate: per station, the rule of the highest level; at the same level *)
(* a threshold rule before a grade rule, then the first rule by id.        *)
(***************************************************************************)
Raised(hits) == {r \in hits : r.level > 0}

Outranks(r, q) ==
  \/ r.level > q.level
  \/ r.level = q.level /\ r.threshold /\ ~q.threshold
  \/ r.level = q.level /\ r.threshold = q.threshold /\ r.id < q.id

\* There are finitely many rules: among any of them one comes first.
ASSUME FirstRuleAssumption ==
  \A R \in SUBSET Rules : R # {} => \E r \in R : \A q \in R \ {r} : Outranks(r, q)

Best(hits) ==
  CHOOSE r \in Raised(hits) : \A q \in Raised(hits) \ {r} : Outranks(r, q)

Seen(v) == {s \in Stations : v[s] # NoData}

MutantRuleFromLevel(s, hits) ==
  [key |-> <<s, Best(hits).hazard>>, level |-> Best(hits).level, rule |-> Best(hits).level]

Judgement(s, hits) ==
  [key |-> <<s, Best(hits).hazard>>, level |-> Best(hits).level, rule |-> Best(hits).id]

Results(v) ==
  {Judgement(s, v[s]) : s \in {x \in Seen(v) : Raised(v[x]) # {}}}

(***************************************************************************)
(* sync: what it decides from the rows it read and the results.            *)
(***************************************************************************)
MutantNoCleanup(rows) == rows

Current(rows) ==
  {r \in rows : \A q \in rows : q.key = r.key => q.serial <= r.serial}

MutantIgnoresLevel(row, res) == row.key = res.key

SameJudgement(row, res) ==
  /\ row.key = res.key
  /\ row.level = res.level
  /\ row.rule = res.rule

Kept(rows, results) ==
  {r \in Current(rows) : \E res \in results : SameJudgement(r, res)}

Opened(rows, results) ==
  {res \in results : ~ \E r \in Current(rows) : SameJudgement(r, res)}

MutantHoldsForever(rows, results, seen) ==
  {r \in Current(rows) : r.key[1] \notin seen /\ \A res \in results : res.key # r.key}

Held(rows, results, seen) ==
  {r \in Current(rows) : /\ \A res \in results : res.key # r.key
                         /\ r.key[1] \notin seen
                         /\ ~ r.expired}

Closed(rows, results, seen) ==
  rows \ (Kept(rows, results) \cup Held(rows, results, seen))

RowId(r) == <<r.key, r.serial>>
RowIds(rows) == {RowId(r) : r \in rows}

-----------------------------------------------------------------------------
Init ==
  /\ obs \in [Stations -> Readings]
  /\ open = {}
  /\ nextSerial = 1
  /\ pc = [p \in Syncers |-> "idle"]
  /\ view = [p \in Syncers |-> [s \in Stations |-> NoData]]
  /\ snap = [p \in Syncers |-> {}]
  /\ lag = [p \in Syncers |-> 0]
  /\ serial = [p \in Syncers |-> 0]
  /\ undisturbed = [p \in Syncers |-> FALSE]
  /\ changes = 0
  /\ aborts = 0

(* The collector stores new values, or a value grows older than            *)
(* MAX_AGE_MIN and LATEST_SQL stops returning it.                          *)
Reading(s, h) ==
  /\ changes < MaxChanges
  /\ h # obs[s]
  /\ obs' = [obs EXCEPT ![s] = h]
  /\ changes' = changes + 1
  /\ UNCHANGED <<open, nextSerial, aborts, runVars>>

(* Time passes.  An age or a lag beyond KeepUnseen is as good as any other.*)
Older(n) == IF n > KeepUnseen THEN n ELSE n + 1

Tick ==
  /\ open' = {[r EXCEPT !.age = Older(r.age)] : r \in open}
  /\ lag' = [p \in Syncers |-> IF pc[p] \in {"read", "written"} THEN Older(lag[p]) ELSE 0]
  /\ UNCHANGED <<obs, nextSerial, pc, view, snap, serial, undisturbed, changes, aborts>>

(* run: LATEST_SQL and RULES_SQL, each in a transaction of its own.        *)
Observe(p) ==
  /\ pc[p] = "idle"
  /\ pc' = [pc EXCEPT ![p] = "observed"]
  /\ view' = [view EXCEPT ![p] = obs]
  /\ UNCHANGED <<obs, open, nextSerial, snap, lag, serial, undisturbed, changes, aborts>>

(* ACTIVE_SQL: the open rows of this engine.                               *)
MutantOtherEngine == {}

ActiveRows ==
  {[key |-> r.key, level |-> r.level, rule |-> r.rule, serial |-> r.serial,
    expired |-> r.age > KeepUnseen] : r \in open}

(* sync: the transaction begins with that SELECT.                          *)
ReadActive(p) ==
  /\ pc[p] = "observed"
  /\ pc' = [pc EXCEPT ![p] = "read"]
  /\ snap' = [snap EXCEPT ![p] = ActiveRows]
  /\ lag' = [lag EXCEPT ![p] = 0]
  /\ undisturbed' = [undisturbed EXCEPT ![p] = TRUE]
  /\ UNCHANGED <<obs, open, nextSerial, view, serial, changes, aborts>>

(* sync: the statements; only the drawn id escapes before the commit.      *)
Write(p) ==
  /\ pc[p] = "read"
  /\ pc' = [pc EXCEPT ![p] = "written"]
  /\ IF Opened(snap[p], Results(view[p])) = {}
       THEN UNCHANGED <<serial, nextSerial>>
       ELSE /\ serial' = [serial EXCEPT ![p] = nextSerial]
            /\ nextSerial' = nextSerial + 1
  /\ UNCHANGED <<obs, open, view, snap, lag, undisturbed, changes, aborts>>

(* What p's commit makes of the open rows: an UPDATE or a close of a row   *)
(* another run has closed meanwhile finds no open row any more.            *)
Committed(p) ==
  LET results   == Results(view[p])
      keptIds   == RowIds(Kept(snap[p], results))
      closedIds == RowIds(Closed(snap[p], results, Seen(view[p])))
  IN  {[r EXCEPT !.age = IF RowId(r) \in keptIds THEN lag[p] ELSE @] :
          r \in {q \in open : RowId(q) \notin closedIds}}
      \cup {[key |-> res.key, level |-> res.level, rule |-> res.rule,
             serial |-> serial[p], age |-> lag[p]] : res \in Opened(snap[p], results)}

Ended(p) ==
  /\ pc' = [pc EXCEPT ![p] = "idle"]
  /\ view' = [view EXCEPT ![p] = [s \in Stations |-> NoData]]
  /\ snap' = [snap EXCEPT ![p] = {}]
  /\ lag' = [lag EXCEPT ![p] = 0]
  /\ serial' = [serial EXCEPT ![p] = 0]

Commit(p) ==
  /\ pc[p] = "written"
  /\ open' = Committed(p)
  /\ undisturbed' = [q \in Syncers |-> FALSE]
  /\ Ended(p)
  /\ UNCHANGED <<obs, nextSerial, changes, aborts>>

(* The process dies, or the database refuses a statement: rolled back.     *)
Abort(p) ==
  /\ pc[p] # "idle"
  /\ aborts < MaxAborts
  /\ aborts' = aborts + 1
  /\ undisturbed' = [undisturbed EXCEPT ![p] = FALSE]
  /\ Ended(p)
  /\ UNCHANGED <<obs, open, nextSerial, changes>>

Step(p) == Observe(p) \/ ReadActive(p) \/ Write(p) \/ Commit(p)

Next ==
  \/ \E s \in Stations, h \in Readings : Reading(s, h)
  \/ Tick
  \/ \E p \in Syncers : Observe(p)
  \/ \E p \in Syncers : ReadActive(p)
  \/ \E p \in Syncers : Write(p)
  \/ \E p \in Syncers : Commit(p)
  \/ \E p \in Syncers : Abort(p)

Spec == Init /\ [][Next]_vars

(* The scheduler starts every run again after ten minutes, and a started   *)
(* run reaches its end; time passes.                                       *)
Fairness == WF_vars(Tick) /\ \A p \in Syncers : WF_vars(Step(p))
FairSpec == Spec /\ Fairness

-----------------------------------------------------------------------------
(* What the rows say, and what they should say about an observation.       *)
RowsOf(rows, s) == {r \in rows : r.key[1] = s}
Said(rows) == {<<r.key, r.level, r.rule>> : r \in rows}
Due(s, hits) ==
  IF hits = NoData \/ Raised(hits) = {} THEN {} ELSE Said({Judgement(s, hits)})

OpenRow == [key : Keys, level : Levels, rule : {r.id : r \in Rules},
            serial : Nat, age : 0..(KeepUnseen + 1)]
SnapRow == [key : Keys, level : Levels, rule : {r.id : r \in Rules},
            serial : Nat, expired : BOOLEAN]

(* The type of the state.                                                  *)
TypeOK ==
  /\ obs \in [Stations -> Readings]
  /\ open \subseteq OpenRow
  /\ nextSerial \in Nat \ {0}
  /\ pc \in [Syncers -> {"idle", "observed", "read", "written"}]
  /\ view \in [Syncers -> [Stations -> Readings]]
  /\ snap \in [Syncers -> SUBSET SnapRow]
  /\ lag \in [Syncers -> 0..(KeepUnseen + 1)]
  /\ serial \in [Syncers -> Nat]
  /\ undisturbed \in [Syncers -> BOOLEAN]
  /\ changes \in 0..MaxChanges
  /\ aborts \in 0..MaxAborts

(* engine.py's header: one open row per station and hazard.  Runs that     *)
(* overlap both find no row and both insert one.                           *)
OneRowPerTarget ==
  \A r, q \in open : r.key = q.key => r = q

(* Overlapping runs leave at most one open row each: what a run inserts    *)
(* replaces every row it read, so the duplicates never pile up however     *)
(* often the runs overlap.                                                 *)
DuplicatesBounded ==
  \A k \in Keys : Cardinality({r \in open : r.key = k}) <= Cardinality(Syncers)

(* A run no other run committed into leaves the board exact: one row per   *)
(* target, and the stations it saw say what it evaluated.  This is the     *)
(* clean-up of old duplicates that `sync' promises.                        *)
SoloSyncExact ==
  [][\A p \in Syncers : Commit(p) /\ undisturbed[p] =>
       /\ OneRowPerTarget'
       /\ \A s \in Seen(view[p]) : Said(RowsOf(open', s)) = Due(s, view[p][s])]_vars

(* A target never looks safe merely because its station fell silent: a run *)
(* nobody overlapped takes a target's last row away only with an           *)
(* observation of the station, or after KEEP_UNSEEN_MIN without one.       *)
UnseenHeld ==
  [][\A p \in Syncers, k \in Keys :
       /\ Commit(p) /\ undisturbed[p]
       /\ \E r \in open : r.key = k
       /\ ~ \E r \in open' : r.key = k
       => \/ k[1] \in Seen(view[p])
          \/ \E r \in open : r.key = k /\ r.age > KeepUnseen]_vars

(* The same judgement keeps its row (the newest, where there are several), *)
(* and with it the id that the alerts' dedupe key and the incidents are    *)
(* tied to, whenever no other run commits in between.                      *)
SameJudgementSameRow ==
  [][\A p \in Syncers : Commit(p) /\ undisturbed[p] =>
       \A r \in Current(open), q \in open' :
          Said({r}) = Said({q}) => r.serial = q.serial]_vars

(* Once the observations stop changing, every station that is seen ends    *)
(* with exactly the row its observation asks for, however the runs overlap.*)
SeenConverges ==
  <>[](\A s \in Seen(obs) : /\ Said(RowsOf(open, s)) = Due(s, obs[s])
                            /\ \A r, q \in RowsOf(open, s) : r.key = q.key => r.serial = q.serial)

(* A station that never reports again does not keep its area for ever.     *)
UnseenExpires ==
  \A s \in Stations : <>[](obs[s] = NoData) => <>[](RowsOf(open, s) = {})
=============================================================================
