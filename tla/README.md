# Formal model of the Guryongpo safety agent

TLA+ modules, TLC configurations and TLAPS proofs for the parts of this repository on which
people's safety depends: the judgement of dangers, the evacuation incidents derived from it, the
alerts and the check that asks every resident for an answer, the desk of the responders, the app's
copies of answers and profile, the assistant's answers and the route service.

## 1. The system

| component | code | state it keeps | operations |
|---|---|---|---|
| collector, scheduler | `server/collector/` | `observations`, `ingest_runs`; APScheduler jobs | one job per feed and the jobs `risk.*`, each by cron and (most) once at start |
| risk judgement | `server/risk/engine.py` | `risk_assessments` rows; `valid_to IS NULL` = open | `run`: read observations, `evaluate` the rules, `sync` the rows |
| other hazards | `server/risk/hazards.py` | the same table, `basis.engine = hazards_v1` | evaluators per hazard, the same `sync` |
| dispatch | `server/alerts/dispatch.py`, `policy.py` | `care.incidents`, `user_alerts`, `care.incident_targets` | `settle_incidents`, `open_message_incidents`, `ensure_incident`, `insert_alert`, `run`, `push_alerts` |
| evacuation check | `server/alerts/evacuation.py`, `app/routers/alerts.py` | status, hand-over and reminder times of a target row, `care.evacuation_responses` | `respond_alert`, `record`, `escalate`, `run_followups` |
| staff console | `server/app/routers/admin.py`, `incidents.py`, `households.py`, `alerts/assignment.py` | incidents, targets, households, `assigned_to` | start and close an incident, record an answer or a visit, assign, register households |
| accounts, roles | `server/app/auth.py`, `users.py`, `routers/user.py` | users, devices, roles, invites, households | register, claim a role, give up a household, withdraw |
| drills | `server/app/demo_evac.py`, `risk/demo.py`, `simulate.py` | `care.demo_evac`, simulated observations | start, answer, dispatch, reset; scenario layers |
| dashboard, layers, health | `server/app/*` | none | queries |
| assistant | `ai/guardian_ai/` | conversation checkpoints, profile facts, usage file, caches | a LangGraph of routing, specialists, advice, polish, verification; text about a route |
| route service | `route/guardian_route/` | caches of zones | routes around open dangers, checks on the way, order of visits, way by sea |
| app | `app/lib/` (Flutter) | stored answers, account data, alerts, the drill | polling, answering, alarm, guidance, account synchronisation |
| database | `db/init/` | schema, unique indexes, seeds | |
| deployment, GraphHopper, web prototype | `deploy/`, `graphhopper/`, `web-prototype/` | | |

**Interaction.** Server components meet in the PostgreSQL database and nowhere else. The collector
writes observations; one minute later `risk.flood` and `risk.hazards` rewrite the open judgements;
`risk.alerts` reads the judgements and writes incidents, alerts and target rows; the app polls
`GET /alerts`, which first runs the same dispatch code for that one user inside the API process, and
posts answers; `risk.evac_followup` reads the target rows every minute; staff work on incidents
and targets through the API. Push messages are sent after the state is committed and are best
effort. The assistant reads the judgements and the route service, and writes into the profile
through the API like the app does.

**What makes it hard.** `app/db.py` gives every `fetch_one`/`execute` a transaction of its own, so
each operation is a chain of transactions with gaps in which others act. Runs overlap: the cron job
and its one-shot `.start` job have different ids (`scheduler.py:17-25`, so `max_instances=1` does not
keep them apart), `POST /internal/simulate` runs the same jobs in the API process, every poll is a
dispatch run. There is no lock; a few unique indexes and `ON CONFLICT` clauses carry the weight. A
process can die in any gap, and what a later run repeats depends on what it finds. On the phone a
lost reply makes the app repeat an answer that has already been recorded, and every `await` lets the
user act on what is being sent. The assistant answers overlapping questions of one conversation over
one checkpoint, and feeds fail or fall silent under everyone. The list of places where this bites is
`hazards` in `PROJECT.json`.

**What makes each component correct.** The judgement: one open row per target saying what the last
observation asks for, no danger hidden by silence, an unchanged judgement keeps its id.
Incidents: one per judgement, never ended by a run while the danger holds, never left on a closed
judgement, never missing. Alerts: each reaches its phone. The check: no answer lost, silence and calls for help
reach the responders, nobody is handed over without reason. The desk: a resident knows who
comes. The phone: what it promised to send is sent, what was edited is not forgotten. Accounts:
nobody's home stays behind. The assistant: every question gets an end and its own answer, danger its
route from where the person is, numbers only from data just read, drill and reality apart. Routes:
zones ahead are announced, the best order of visits, a way over water only.

## 2. Modules

| module | models |
|---|---|
| `RiskSync` | `risk/engine.py`: `evaluate` as `Best`, `Judgement`, `Results`; `sync` as `ReadActive`, `Write`, `Commit` |
| `Warnings` | `risk/hazards.py` over its feeds: `collector/store.py` (the office's list), the weather station, typhoon tracks |
| `IncidentLife` | abstract specification: what dispatch promises of an incident |
| `Incidents` | `alerts/dispatch.py`: who creates, carries, ends an incident; implements `IncidentLife` |
| `EvacCheck` | `alerts/evacuation.py` with `insert_alert`, `respond_alert`, `update_target`: the rows of one incident |
| `Delivery` | alerts, pushes and the poll: `dispatch.run`, `push_alerts`, `alerts/fcm.py`, `poll_alerts`, the app's list |
| `ResponseQueue` | the phone's stored answers (`evacuation_response_queue.dart`, `main.dart`) |
| `AccountSync` | the app's copy of the profile (`account_sync.dart`) |
| `Accounts` | accounts, roles by code, households (`routers/user.py`, `users.py`, `households.py`, part of `admin.py`) |
| `Desk` | taking, releasing and closing at the responders' desk (`admin.py`, `assignment.py`) |
| `Drill` | `demo_evac.py` and the app's `PrototypeSafetyController` |
| `ProfileSync` | `profile_sync.py`: two threads writing what was said into the profile |
| `Guardian` | `service.py`, `graph.py`: conversations, checkpoints, retries |
| `Advice` | `action.py`, `location.py`, `tools.py`: whether there is danger, which route, which steps |
| `Evidence` | specialists, `polish.py`, `verify.py`: what the numbers of an answer rest on |
| `RouteBrief` | `route_brief.py`: the text about a drawn route, its writer, check and cache |
| `DrillData` | `ai/guardian_ai/demo.py`, `risk/demo.py`: what a drill's questions read |
| `Usage` | `usage.py`: the month's file |
| `Navigation` | `route/guardian_route/service.py`, `hazards.py`, the app's checks: a guided walk |
| `Visits` | `visits.py`: Held and Karp's programme with tiers |
| `SeaRoute` | `sea.py`: search, straightening, choice of port and shelter |
| `MCRiskSync`, `MCIncidents`, `MCEvacCheck`, `MCWarnings` | values of the constants for TLC; `MCRiskSync` holds both engines |
| `MCServices` | `ResponseQueue`, `AccountSync`, `Accounts`, `Desk`, `ProfileSync`, `Delivery`, `Drill` |
| `MCGuidance` | `Guardian`, `Advice`, `Evidence`, `DrillData`, `Usage`, `Navigation`, `RouteBrief`, `SeaRoute`, `Visits` |
| `Incidents_proofs`, `EvacCheck_proofs`, `Warnings_proofs` | theorems about these modules and their proofs |
| `RiskSync_proofs` | theorems about `RiskSync`, and about `MCRiskSync` by way of those about `Warnings` |
| `Services_proofs` | theorems about `MCServices`: `ResponseQueue`, `AccountSync`, `Drill`, `ProfileSync`, `Accounts`, `Desk`, and the types of all seven |
| `Guidance_proofs`, `Assistant_proofs`, `GuidanceTypes_proofs` | theorems about parts of `MCGuidance`: `DrillData`, `Usage`, `Visits`, `SeaRoute`; `Evidence`, `RouteBrief`, `Advice`, `Guardian`; the types of all nine (each module extends the one before) |

`RiskSync`, `Incidents` and `EvacCheck` stand in a chain and each abstracts its neighbour to what it can
observe of it: `Incidents!Judge` is any commit of `RiskSync` (it closes rows and inserts rows with
higher ids), `EvacCheck!Carry` and `Close` are what `Incidents` does to one incident. `Delivery` sees of
the judgements that rows rise and fall and of incidents that staff end one; `Desk` is about one incident,
`ResponseQueue` about the phone's side of the answer whose server side is `EvacCheck`, `Advice` and
`Evidence` about what happens inside one pass of `Guardian`'s run, `RouteBrief` about the text for a
route of `Navigation`, `SeaRoute` or `Visits`.

`MCServices` and `MCGuidance` hold parts that share no state. A variable `part` chosen in `Init` says
which one a behaviour is about, and the others' variables keep their initial values: TLC explores the
disjoint union, not the product, and each property speaks of its part's states. `MCRiskSync` does the
same with the rows and the four feeds.

`RiskSync`. `open` is the set of open rows of one engine, `obs[s]` what `LATEST_SQL` would return
for a station, given as the set of rules it satisfies. A run is `Observe` (the two reading
transactions of `run`), `ReadActive` (the `SELECT` that begins `sync`), `Write` (the `INSERT`s, which
draw row ids nobody can see the rows of yet), `Commit`. READ COMMITTED makes other runs' commits in between
possible; `Committed` says what the statements then do to rows that are no longer open. `Abort` is a
rollback: the ids stay drawn. Ages count ticks since `computed_at`, which is the transaction's
`now()` and hence `lag` old at the commit. Rows drawn by one run are told apart by their key, so a
run draws a single serial.

`Warnings`. Time moves by hours; `issued`, `fallen`, `wind`, `track` are the world, `inForce` and `stored` the
tables, `row` the open judgements. The collection of the list is three steps (`GetWarnings`,
`UpsertWarnings`, `ReleaseMissing`), each may fail; a run of the engine reads station, list and track one after the
other and then judges what it could see. `least` remembers the lowest level the danger really had within the
hour, against which `UnknownIsNotSafe` measures what a run lowers. `MCRiskSync` looks at four feeds, each alone, as
instances `Feed(p)` of this one module over the same variables, which differ in what may turn and for how long.

`Incidents`. A run's `pc` is the next database call; `todo`, `item`, `next` are the Python variables
that live across calls (list of stale incidents, loop variable, `nxt`). `Jobs` are runs with
`user_id=None`, `Polls` runs for one user, which skip settling, messages and the second pass. `state`,
`about`, `note` are columns of `care.incidents`, with `uq_incidents_assessment` as `Taken`. Areas are
sets of places; a judgement's hazard, level and area are constants since no row ever changes them.
A judgement picked for some user is any subset of the evacuation judgements. A message's incident is looked for (`OpenMessage`) and
inserted (`InsertMessage`) in two steps, since no unique index stands behind `MSG_INCIDENT_SQL`.

`EvacCheck`. One incident. `work` holds inserts a dispatch run has still to make, so runs may overlap
and die; an alert already present is not picked, as picking it again ends in the same "already
sent". `req[r]` is an answer with the point its handler has reached; `plan` is what
`run_followups` has decided from the rows it read and not done yet, `meanwhile` (history) the targets answered for since. Times count ticks and stop at
`Long`, beyond which no rule distinguishes them. `Repeated` is the phone: it keeps an answer whose
connection broke and sends it again.

`Delivery`. One area, one phone. `run["job"]` and `run["poll"]` are dispatch runs: what they still insert and
what they will push at their end; `fresh` holds the alerts created after the phone's `_since`,
`due` those made for the account signed in, `shown` the phone's list, `old` the alerts of more than a day ago, which a poll without `since` does not
bring (`DEFAULT_LOOKBACK`).

`ResponseQueue`, `AccountSync`. A step ends at an `await`: what is stored (`stored`, `dirty`, `base`, `snapshot`)
survives a restart, what is under way (`sending`, `retry`, `push`, `pull`) does not. `promised` and `owed` are history:
what the user was told is kept, and the fields whose edit the server has not got. An alert may be answered again while an answer to it is sent
or kept (`openEvacHeader`, `EvacAlarm.onAction`; only the popup that opens by itself looks at `pendingResponseIds`): `crossed` and `replied` remember where
that happened and what the server has replied to. The user edits and pulls begin while a push or a pull is under way; `late`, `exposed` and `older`
remember which edits and copies were then at stake, so that `EditsSurvive` can name the windows instead of leaving them out. A request that fails
may have been carried out (`MayArrive`).

`Accounts`, `Desk`, `Drill`, `ProfileSync`. A request is a process whose `step` is its next statement. `raced`, `disturbed`, `overlapped`,
`mixed` remember that two requests met where the code promises nothing. What is said in an exchange of `ProfileSync` is an occupation
and a sequence of places with their words and names; `PlaceFacts` picks of it what `place_facts` keeps, as positions in that sequence,
and a thread then handles one position per request.

`Guardian`. A question goes through `ReadHistory`, `BeginTurn`, `Classify`, `Manage`, `DirectReply` or `Advise`, the check and
`Record`; `saved` is the checkpointer, `last` what `update_state` has written. `Advice` is one run's content: every
read (zone, shelters, route) is a free choice, and so is what the language model writes. `Evidence` follows numbers, each a pair of a source
and the pass that read it, from the readings to the text and the voice; the check sees those whose unit is in `UNITS` (`Measured`: not counts, hours or the index of
ultraviolet). `RouteBrief` keeps of a text its claim, in words of `AVOID_WORDS` or in others (`Claims`), of
the cache the entries with their time. `DrillData` keeps rows by origin (`real`, `drill`), `Usage` the file and who
holds its lock.

`Navigation`. The map is a handful of legs; `Noticed[z][w]` says which of them GraphHopper sees zone `z` touch when widened `w` times.
`Visits` is one computation per choice of distances, with reachable and unreachable legs: the programme's table is a recursive function
over the sets of houses, each with a last house. `SeaRoute` is a grid whose walls are a free choice; its search settles one cell
per step and keeps what it reached and from where.

## 3. Runs

Run `tlc -config <cfg> <module>.tla` (for example `tlc -config Services.cfg MCServices.tla`).

| run | module, bounds | shows |
|---|---|---|
| `risk_sync` | `MCRiskSync`. Rows: 1 station, 3 rules (two of equal level), 4 readings, 2 overlapping runs, 1 change, 1 abort. Feeds: 1 zone, up to 4 hours and 2 changes of rain, warning, wind, typhoon, 1 failure | `SoloSyncExact`, `SameJudgementSameRow`, `RowsConverge`, `SilenceHolds`: a run alone is exact, rows keep their id, converge and expire; `UnknownIsNotSafe`, `ZonesFollowOffice`: what is unknown does not lower a judgement, zones get the office's level |
| `incidents` | `MCIncidents`. 2 overlapping judgements or 1 message, 1 job, 1 poll, 5 incidents, 1 act of staff, 1 crash | every step is one of `IncidentLife` (`KeepsLife`); uniqueness; `RunEndsOnlyDead`; every evacuation judgement gets its incident (`EvacGetsIncident`) and none outlives its danger (`IncidentsSettle`) |
| `evac_check` | `MCEvacCheck`. 1 resident, 1 household, 1 answer, 1 death, 1 error; a change of judgement, or a household and deaths | silence escalates, who is on the way is asked again, recorded answers are followed up unless a request ends with HTTP 500, households get rows, answers stick, hand-overs have a reason |
| `services` | `MCServices`. Answer queue: 2 alerts, 3 answers, 3 breaks, 1 restart; profile copy: 2 fields, 2 edits and 1 of the assistant, 1 pull at once, 1 failure, 1 start; notes: 3 exchanges, 2 threads; accounts: 2 users, 2 codes, 4 requests; desk: 2 responders, 3 acts; alerts: 3 judgements, 2 users, 1 death, 1 loss; drill: 1 drill, 2 replies | `PromiseHeld`, `PromisedSettled`, `EditsSurvive`, `ProfileIsWhatWasSaid`, `AccountsInOrder`, `ResidentKnowsHelper`, `AlertsArrive`, `DrillAnswerStands` |
| `guidance` | `MCGuidance`. Conversations: 2 users, conversations and questions, 1 retry, 1 lapse, 1 restart; advice: 2 shelters, 2 steps, 14 combinations of places; evidence: single specialists and a pair, 2 passes; texts: 2 callers, 2 requests; drill data: 3 turns; spending: 3 calls, 2 months; walk: 3 zones on 5 legs; boat: a grid of 2 by 3 with one move across land or one cell near the shore (`BoundedInit`); round: 3 houses and at most one pair without a way, the team then starting near what it can reach (`NearAtFirst`; `BestOrder` and `SeaWayHolds` are proved without these two bounds) | `ConversationsApart`, `AdviceFits`, `HonestAnswer`, `OneWorld`, `SpendCounted`, `SeaWayHolds`, `BestOrder`, `EveryQuestionEnds`, `ZonesAnnounced` |

Some properties of the runs join two or three promises of the modules (most with a mutant of their own in `PROJECT.json`): `RowsConverge`
(`DuplicatesBounded`, `SeenConverges`), `SilenceHolds` (`UnseenHeld`, `UnseenExpires`), `IncidentsSettle` (`StaleSettles`, `MessageIncidentEnds`),
`AccountsInOrder` (`NoHomeLeftBehind`, `StaffByCode`), `AlertsArrive` (`AlertsReachPhone`,
`AskedToEvacuate`), `ConversationsApart` (`NoForeignMemory`, `TurnsInOrder`), `AdviceFits` (`DangerAnswered`, `EvacuationFromHere`),
`HonestAnswer` (`NumbersReadNow`, `DoubtIsSaid`, `BriefIsGrounded`).

**Why the bounds are enough.** Every property speaks of one target, one alert, one conversation or one row, and what
disturbs it is one overlapping actor or one fault, which the bounds allow; more of them add symmetric
copies. `KeepUnseen = 0` still tells "computed in this tick" from "older", the only distinction
`ACTIVE_SQL` makes. One change of the observation lets a run carry an outdated view past a commit of
another. Five incidents suffice: given six, the runs always leave one unused (checked by TLC). `EscalateAfter = 2` and
`ReminderInterval = 1` keep the order of the real 10 and 2 minutes and leave room for a reminder before
the hand-over. Rain is summed over two and three hours instead of three and twelve. Three houses let rank and distance disagree, with a leg missing; stops are told apart by their ids, which `VisitRequest`
does not enforce to be unique (`visits.py:113`).
`CACHE_S = 0` and one tick tell a fresh brief from an old one,
as `KeepHours = 0` does a judgement of this hour from an older one. No station of the run begins with a reading of a warning: levels are alike to the code,
and a reading may turn to it. `Given` and `Teams`
leave out a pin beside a named place or a home, and most pairs of specialists, whose results are only joined: the theorems
`AdviceAlwaysFits` and `AnswersAlwaysHonest` hold for all of them. Splitting `evac_check` into two kinds of behaviour (`OneOrOther`), and
the compositions into parts, loses only combinations the parts do not share state in, or, for `evac_check`, a household
enrolled across a change of judgement. `CHECK_DEADLOCK FALSE`: the bounds on acts, deaths and ids let a behaviour come
to rest, and after `Close` nothing need happen.

**Findings**, each shown by a run that TLC refutes:

| run | what happens |
|---|---|
| `incidents_staff_end` | `SUCCESSOR_SQL` looks at open incidents only, so an older incident is carried onto a judgement whose incident staff have ended; the comment at `dispatch.py:94` says it stays ended |
| `incidents_carry` | a poll opens an incident on the replacement judgement before the job settles the old one, which then ends instead of being carried on (`dispatch.py:6`) |
| `evac_untracked` | a run dies between the alert and the target row; the dedupe key keeps every later run from adding the row, so nobody reminds or hands over the resident (`evacuation.py:4`) |
| `evac_help_fails` | a database error after `need_help` was recorded: HTTP 500, which the phone does not queue, and the job skips `need_help` rows, so nobody is called (`evacuation.py:5`) |
| `phone_reanswer` | the success of an older answer's retry removes, by alert id, the newer answer the app has promised to send (`main.dart:662`, `688`); `services` has the same answers and breaks and checks what holds in spite of it, `PromiseHeld` and `PromisedSettled` |
| `assistant_retry_left` | a run sent back and then answered directly leaves `verdict = "retry"` in the checkpoint, and the next question is taken for a retry (`graph.py:237`) |
| `rain_gap` | an hour whose rain was never stored counts as dry, although the query counts the hours found: a judgement closes on it (`hazards.py:29`, `224`); `risk_sync` therefore has `Gaps = FALSE` |

**Disagreements noted while modelling**, without a run of their own:

* Judgement: one open row per target (`engine.py:8`) does not hold while two runs both insert; `SoloSyncExact` and
  `RowsConverge` say what does. A typhoon counts as seen whatever was read (`hazards.py:149`). `LAST_RUN_SQL` (`queries.py:56`) takes any success of
  source `risk`, the follow-up job's included, for a judgement run. Fresh speed with an old gust is judged by both.
* Incidents: with two periodic runs at once the slower one closes an incident the faster has just carried, and each may insert an incident of the same
  message (`dispatch.py:123-129`). Staff who end
  the incident between `CLOSED_BY_STAFF_SQL` and the `INSERT` (`dispatch.py:188`) do not keep the judgement from getting a new one. A run that
  dies after `MSG_INCIDENT_SQL` leaves a message's incident without its households for good (`dispatch.py:230`).
* Alerts: `merge_groups` (`dispatch.py:171-178`) may keep the warning whose incident staff ended and drop its sibling with an open one. Opening
  a push lays its preview over the polled alert (`main.dart:798`, against `test/c5_route_alert_test.dart:80`); `_since` and the list survive a change of account (`main.dart:725`).
* Check: a household row inserted after its owner's answer stays `no_response` (`evacuation.py:76`); an answer may land in an incident closed
  between check and record (`alerts.py:132`).
* Phone: answers refused with HTTP 5xx are dropped. The device's value does not always win (`account_sync.dart:20`, stated as `DeviceWins`): a pull overwrites an
  edit whose push, which it waited for, failed (`:84-87`), and one made after its check (`:82`). An edit made during a push loses its mark to the end
  of that push, for `push` returns the push under way (`:139`, `:153`). `EditsSurvive` names these three windows and says that no other edit is lost.
* Alerts, on the phone: an alert of more than 24 hours ago never reaches a phone that was off until then (`alerts.py:29`, `92`).
* Accounts: two overlapping requests of one user around giving up a household leave one behind (`user.py:318-321`; `raced`).
  `assignment.py:9` is not true of a take whose route call overlaps a release (`disturbed`).
* Drill: the prototype store's repair (`prototype_safety_store.dart:300-316`) may wipe a newer answer; a poll of the demo room read before one's own
  departure erases it (`demo_relay.dart:165`); rows of the fixed tables are unavailable, too, when the scenario API fails (against `demo.py:6`);
  what is said in a drill changes the real profile.
* Assistant: two profile threads at work at once can end in the wrong order (`profile_sync.py:8`). `OpenAIClassifier.last` is shared by all requests (`llm.py:221`).
  `build_evidence` (`flood.py`) says that numbers not in its list are caught: those without a unit of
  `UNITS` are not (`verify.py:24-38`). The card's headline says "정상" also for an unread judgement (`polish.py:66`). A template's lists are cut at four items (`route_brief.py:263`): the caution that names what could not be read may
  go, the danger that the zones are unknown only behind one the route passes. A text the model wrote is not checked for either, and a claim to avoid zones in words other than
  `AVOID_WORDS` passes.
* Routes: `hazards_ok` is read when the answer is put together, after another request may have set it (`service.py:250`); a read that fails over cached zones keeps
  them with `ok`; `_widen_until_clear` looks only at the zones crossed first; `check` reads the zones twice; one unreachable house refuses the whole round.
* Usage: calls whose parsing raises are not counted; a failing write loses its count and may repeat a warning; an unreadable file restarts the month.

## 4. Fairness

* `RiskSync`: every run is weakly fair because the scheduler starts it again every ten minutes and a
  started run ends; time passes. Aborts are bounded, which says only that failures do not go on for ever.
* `Warnings`: collecting and judging, both cron jobs. The hours and the weather have none.
* `Incidents`: the periodic run only. Polls, staff and changes of the judgements have none.
* `EvacCheck`: dispatch and the follow-up job (cron, `jobs.py:269-271`), each planned reminder or
  hand-over (the loop of `run_followups` visits every row), the requests that were received or are
  repeated by the phone. An answer, an enrolment, a carry or a close is never forced.
* `MCServices`: the answer queue's timer and requests and the return of the network; the job of alerts and the phone's poll, both periodic. Users, responders and
  requests of staff have none.
* `MCGuidance`: a question that was asked is worked on by its thread; on a walk the map's timer asks and checks, answers arrive or fail (failures are bounded), and the
  cache grows old. Location is assumed to be available again: without it the app's check timer stops. Walking is never forced.

Liveness is checked under these with crashes, losses and failures bounded, as a system that crashes for ever makes no promise.

## 5. Proofs

All theorems hold for every value of the declared constants that satisfies the named assumptions.

| theorem | property | inductive invariant |
|---|---|---|
| `RiskSync_proofs!TypeCorrect` | `TypeOK` | itself; needs that `Best` is a rule (`FirstRuleAssumption`) |
| `RiskSync_proofs!SoloSyncIsExact` | `SoloSyncExact` | `SoloInv`: `TypeOK`, `SerialInv` (ids of open rows and of drawn ids are below the sequence and never shared, so a row is known by its id), `SnapInv` (an undisturbed run's snapshot is the open rows) |
| `RiskSync_proofs!SameRowKept` | `SameJudgementSameRow` | the same |
| `RiskSync_proofs!DuplicatesNeverPileUp` | `DuplicatesBounded` (of `RowsConverge`) | `SoloInv`, `DuplicatesInv`: every open row can be laid to a run, no two of one target to the same; assumes finitely many runs |
| `RiskSync_proofs!SilenceNeverCloses` | `UnseenHeld` (of `SilenceHolds`) | `SoloInv`, `ExpiredInv`: what an undisturbed run found expired still is when it commits |
| `RiskSync_proofs!AnyTypeCorrect` | `AnyTypeOK` of `MCRiskSync` | `TypeOK` of the rows and `FeedsInv`: the four feeds are steps of one instance of `Warnings` that allows what any of them does |
| `RiskSync_proofs!UnknownNeverSafe` | `UnknownIsNotSafe` | `FeedsInv`, from `FeedInv` of `Warnings` for that instance |
| `Warnings_proofs!FeedsTyped` | `TypeOK` of `Warnings` | itself |
| `Warnings_proofs!LoweredAlwaysJudged` | what a run lowers was low within the hour | `FeedInv`: the lowest level of this hour is no higher than the danger now (`LeastBelow`), and no stored rain, young reading, list of warnings fetched within the hour or part of an engine's view is lower than it (`RainStored`, `WindRead`, `WarningsKept`, `ViewRead`); assumes `~Gaps` |
| `Incidents_proofs!TypeCorrect` | `TypeOK` | itself, with what each program point holds |
| `Incidents_proofs!OneOpenAlways` | `OneOpenIncident` | with `TypeOK`; `Taken` guards insert and carry |
| `Incidents_proofs!OnePerMessageAlways` | `OneIncidentPerMessage` | `FreshInv`: only a periodic run handles messages, and what it saw as missing still is when it inserts, as no second one inserts meanwhile (assumes `OneJob`) |
| `Incidents_proofs!EndsOnlyDeadAlways` | `RunEndsOnlyDead` | `SettleInv`: what a settling run holds is about a judgement that is closed and stays so, as long as no second periodic run carries it away (assumes `OneJob`) |
| `Incidents_proofs!KeepsLifeAlways` | `KeepsLife` | `SettleInv` and `KinInv`: a settling run's list still says what each incident is about, so that the judgement it carries one onto is of the same danger; every step is then an action of `IncidentLife` or a stutter (assumes `OneJob`) |
| `EvacCheck_proofs!TypeCorrect` | `TypeOK` | itself |
| `EvacCheck_proofs!AnswersStick` | `AnswerSticks` | `TypeOK` |
| `EvacCheck_proofs!EscalationsAreDue` | `EscalatedForReason` | `EscalationInv`: a planned hand-over is of a row that is old enough, for none grows younger, and that is unanswered or was answered for since the job read it (`DueWasSilent`); a request at its hand-over has asked for help (`HelpWasAsked`) |
| `EvacCheck_proofs!LateRemindersBounded` | `OneLateReminder` | `LateIsSpent`: once the late reminder is out, none is planned for that target |
| `Services_proofs!PromisedAlwaysKept` | `PromiseHeld` | `QueueInv`: one stored answer per alert, no answer both sent and held, and of an alert two under way only if it was answered twice at once (`crossed`); so whoever removes an answer by its alert removes another's only where the property says so |
| `Services_proofs!EditsAlwaysSurvive` | `EditsSurvive` | `CopyInv`: what differs from the base or from what a push carries was edited, unless an older state was put over the copy (`SendsEdits`); an edit that is not marked, not carried by the push under way or overwritten by a pull past its check is in a named window (`EditsMarked`) |
| `Services_proofs!DrillAnswerAlwaysStands` | `DrillAnswerStands` | `SheetInv`: without overlap or failure the one call under way carries what the phone said last, and with none the sheet says so |
| `Services_proofs!ProfileAlwaysAsSaid` | `ProfileIsWhatWasSaid` | `SaidInv`: while one thread works at a time, it is the youngest exchange that does (`AtWorkAlone`), at most one place is the home (`OneHome`), and field and home are the last that landed (`LastJobKept`, `LastHomeKept`); lemmas on what `PlaceFacts` picks of any sequence |
| `Services_proofs!ServicesTyped` | `TypeOK` of `MCServices` | the types of the seven parts, those of `Delivery` with one stored alert per user and judgement, those of `ProfileSync` with what has landed of what was recorded |
| `Services_proofs!AccountsAlwaysInOrder` | `AccountsInOrder` | `HomeInv`: account ids are used once, and a request that gives up a home has left its account none but those registered meanwhile (`raced`); with `StaffByCode` |
| `Services_proofs!HelperAlwaysKnown` | `ResidentKnowsHelper` | `HelperInv`: what a step has read of a target is still so, what it has written is announced next, and with nobody at work on it the resident's two notes agree with the row, unless two met on it (`disturbed`) |
| `Guidance_proofs!DrillAndRealNeverMix` | `OneWorld` | `WorldInv`: rows kept over the tables are the drill's, only a drill's question waits for them, nothing read is left over from the question before |
| `Guidance_proofs!SpendAlwaysCounted` | `SpendCounted` | `UsageInv`: one thread saves at a time (`OneSaves`), the file holds what was counted (`LedgerInv`), what the saving thread holds is that and its own call (`HeldInv`), a warning not in the file was lost with a write that failed (`WarningsInv`) |
| `Guidance_proofs!OrderAlwaysBest` | `BestOrder` | `RoundInv`: the distances are those measured and the answers those of `Solve`; that the table of the programme holds for every set of houses and every last one the least walk (`Right`) is shown by looking at a smallest set for which it does not (`RightAll`) |
| `Guidance_proofs!SeaWayAlwaysHolds` | `SeaWayHolds` | `BoatInv`: whatever waits costs no less than what is settled, and was reached from it by a move over the sea (`SearchInv`, `LedTo`); so no round of relaxation, which is the reference, gets below a settled cell (`NothingBelow`, `SettledLeast`) nor, at the end, to one never reached (`SearchDone`); the chain back from a berth grows cheaper, so has no cell twice and comes to the boat (`ChainShort`); no piece of a straightened way crosses land (`Bent`) |
| `Assistant_proofs!AnswersAlwaysHonest` | `HonestAnswer` | `GroundsInv`: evidence is of this pass, what the check measures and passed is in it, a text no model touched says its doubts; `BriefInv`: every cached or shown text is honest about the request it is stored under; lemmas on what a list of four leaves of the dangers (`UnknownListed`) |
| `Assistant_proofs!AdviceAlwaysFits` | `AdviceFits` | `AdviceInv`: routes start where the person is or was asked to be, the decision of a danger stands through the route's computation and the writing; lemmas on where `WithRouteFirst` puts the route |
| `Assistant_proofs!ConversationsAlwaysApart` | `ConversationsApart` | `TalkInv`: a conversation has one owner (`Owned`), what is remembered or replied in it was asked in it (`OwnWords`), questions that did not meet run one at a time (`OneAtATime`), and such a question's checkpoints repeat all the memory (`InOrder`) |
| `GuidanceTypes_proofs!GuidanceTyped` | `AnyTypeOK` of `MCGuidance` | the parts' invariants, and what only their types need: no question twice in a memory (`TalkBounds`), evidence of reads of passes so far (`GroundsTypes`), keys that name one text (`BriefTypes`), rows with values (`RowTypes`), ways that come to the goal at their end only (`WalkInv`) |

**What they are about.** The theorems of `RiskSync`, `Incidents`, `EvacCheck` and `Warnings` are about these modules. Those of
the other four are about `MCServices` and `MCGuidance`, whose steps are the parts' steps: any numbers of users, codes, alerts, fields,
questions, threads, targets and faults, but with the tables that those modules define rather than declare (`MCReads`,
`MCSensors`, `MCRoutes`). The first line of each proof reduces a step of the composition to a step of its part. The theorems on `MCRiskSync` are about its four
feeds with their rules and lengths, and about any rows, zones, hours of keeping and failures.

**Two algorithms.** `OrderAlwaysBest` and `SeaWayAlwaysHolds` are proofs of correctness: Held and Karp's programme returns the least walk for any
number of houses and any distances, and the search over the sea returns a least way for any grid. No induction scheme can be instantiated
with the installed provers, so both go by a least counterexample: numbers are well-founded (`NatLessThanWellFounded`), hence a
wrong entry of the table has one over a smallest set, a cell settled too dear a first one on its way. `Stepwise` is what is left of induction, for a set as parameter.

**Assumptions.** `FirstRuleAssumption` says that among any of the rules one comes first, which finiteness of the rules
and the order of `Outranks` give. `ServicesAssumption` and `GuidanceAssumption` gather what the parts ask of their constants: bounds are numbers,
`None` and `Unreadable` are no accounts, ledgers or states, `MAX_ITEMS` leaves room for three items, exchanges say occupations and places (`SaidAssumption`),
a walk over all houses is shorter than `UNREACHABLE` (as any distance of the island is than `1e9`), berths are cells of the grid and there is a port and a shelter to choose; `NavigationAssumption`
that ways are of legs and come to the goal where they end; `WarningsConstants` the same for `Warnings`.
TLC evaluates them all in the passing runs. Two hypotheses restrict the system, each because the property
fails without it: `~Gaps` (run `rain_gap`) and `OneJob`, one periodic run at a time, for `OnePerMessageAlways`, `EndsOnlyDeadAlways` and `KeepsLifeAlways`: of two,
the slower may close what the faster has carried, and each may insert a message's incident. The code does not exclude two (a job's one-shot start run has an id of its own,
`scheduler.py:17-25`); the run `incidents` has one. Nothing is assumed of when users answer or edit: what their steps may undo is
named in the properties.

**How they were found.** Each invariant was first checked by TLC on the instance of its run. Several were not inductive at
first, and what had to be added is what the code relies on without saying so: that account ids are never used again, that
an alert has one stored answer, that the file is read and written under one lock, that a judgement's hazard and area
never change.

**Only model-checked.** Everything with `~>`, `[]<>` or `<>[]`, as liveness and fairness are beyond the prover (`PromisedSettled`,
`AlertsArrive`, `SeenConverges`, `UnseenExpires`, `IncidentsSettle`, `EvacGetsIncident`, `EveryQuestionEnds`, `ZonesAnnounced`, `ZonesFollowOffice`,
and those of `EvacCheck`). The safety halves of two of them, `DuplicatesBounded` of
`RowsConverge` and `UnseenHeld` of `SilenceHolds`, are proved. Every invariant of a passing run is proved. `OneLateReminder` is proved only; `risk_sync` checks
`RiskSync!TypeOK` as a conjunct of `AnyTypeOK`.

## 6. Not modelled

Geometry and wording: the properties tell judgements, alerts, rows and texts apart by their ids or claims. Feed converters, loaders,
dashboards, layers, health and the app's screens have no control to speak of. The language model, GraphHopper and Firebase are outside: their
answers are free choices. Of modelled components: the once-only inserts of message and manual incidents (`dispatch.py:230`, `258-266`), so
`HomeTracked` and what rests on repetition is not claimed for them; two overlapping jobs of `kma.warnings` and simulated rows in `Warnings`; the 50-alert limit, the distances to stations and
`refreshAlertFeed` in `Delivery`; the list of places and `clearLocal` in `AccountSync`; the demo room (`demo_room.py`, `demo_relay.dart`); realtime voice and tracing of the
assistant, and its `user_memory`, which the service always leaves empty (`service.py:249`), so that it is no evidence; the card of `polish.py`; the scripts of `route/scripts`, which are experiments; the app's local fallback for the text about a route.

## 7. Plan

Done: the chain judgement, incident, check with its abstract specification, whose refinement is proved; alerts; the protocols of residents and
staff; the assistant; routes; every safety invariant and every type invariant the runs check.
Next, in this order:

1. Safety of `Delivery` and `Navigation`, which the runs show only through liveness.
2. `EvacCheck` with the source of the incident as a constant: which inserts of message and manual
   incidents a later run repeats and which it does not.
3. The demo room: versions, polls and departures.
