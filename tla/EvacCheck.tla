----------------------------- MODULE EvacCheck ------------------------------
(***************************************************************************)
(* The evacuation check (A12) of one incident of a judgement, all of whose *)
(* inserts every dispatch run makes again (for message and manual ones     *)
(* some are made once): who is alerted and tracked                         *)
(* (server/alerts/dispatch.py), what residents and staff answer            *)
(* (routers/alerts.py respond_alert, routers/admin.py update_target,       *)
(* evacuation.record) and what the job risk.evac_followup reminds and      *)
(* hands over to the responders (evacuation.run_followups).                *)
(*                                                                         *)
(* Every db call is a transaction of its own.  Dispatch runs, requests and *)
(* the follow-up job interleave at each of them, and each can die between  *)
(* two.  How an incident comes to be and ends is the subject of Incidents: *)
(* here it moves on to a next judgement (Carry) and is closed (Close).     *)
(***************************************************************************)
EXTENDS Integers, FiniteSets

CONSTANTS
  Residents,        \* app users in the area of the incident
  Homes,            \* registered households in the area
  Owner,            \* Owner[h]: linked_user_id of household h, or None
  Requests,         \* answers under way at one time
  None,
  LastJudgement,    \* the incident is about judgements 1, 2 .. LastJudgement
  ReminderInterval, \* REMINDER_INTERVAL_MIN   } in ticks
  EscalateAfter,    \* ESCALATE_AFTER_MIN      }
  Recheck,          \* EVACUATING_RECHECK_MIN  }
  MaxAnswers,       \* bound: answers ever given
  MaxDeaths,        \* bound: runs, jobs and connections that die
  MaxErrors         \* bound: requests that end with HTTP 500

ASSUME TargetsAssumption ==
  /\ Residents \cap Homes = {}
  /\ Owner \in [Homes -> Residents \cup {None}]
  /\ None \notin Residents \cup Homes
ASSUME TimesAssumption ==
  /\ LastJudgement \in Nat \ {0}
  /\ ReminderInterval \in Nat /\ EscalateAfter \in Nat /\ Recheck \in Nat
  /\ ReminderInterval <= EscalateAfter
ASSUME BoundsAssumption == MaxAnswers \in Nat /\ MaxDeaths \in Nat /\ MaxErrors \in Nat

Targets == Residents \cup Homes
Judgements == 1..LastJudgement
Answers == {"need_help", "evacuating", "evacuated"}
Statuses == Answers \cup {"no_response"}
Long == IF EscalateAfter > Recheck THEN EscalateAfter ELSE Recheck

VARIABLES
  about,     \* the judgement the incident is about
  closed,    \* closed_at IS NOT NULL
  enrolled,  \* households that are registered and active
  alerts,    \* alerts[u]: judgements user u has an evacuation alert for
  work,      \* inserts the dispatch runs have still to make
  tracked,   \* rows of care.incident_targets
  status,    \* status[t]
  escalated, \* escalated[t]: escalated_at IS NOT NULL
  age,       \* age[t]: ticks since created_at
  quiet,     \* quiet[t]: ticks since last_reminder_at (created_at before any)
  since,     \* since[t]: ticks since status_at (created_at before any)
  logged,    \* logged[t]: statuses in care.evacuation_responses
  req,       \* req[r]: the answer under way in slot r
  plan,      \* what the follow-up job decided and has still to do
  late,      \* history: reminders since an answer that asks for none
  asked,     \* history: targets for which help was recorded
  meanwhile, \* history: targets answered for since the job read them as silent
  answers, deaths, errors

rows == <<tracked, status, escalated, age, quiet, since, logged, late, asked, meanwhile>>
spent == <<answers, deaths, errors>>
vars == <<about, closed, enrolled, alerts, work, rows, req, plan, spent>>

NoRequest == [pc |-> "idle", staff |-> FALSE, target |-> None, status |-> "no_response", ids |-> {}]

Init ==
  /\ about = 1
  /\ closed = FALSE
  /\ enrolled \in SUBSET Homes
  /\ alerts = [u \in Residents |-> {}]
  /\ work = {}
  /\ tracked = {}
  /\ status = [t \in Targets |-> "no_response"]
  /\ escalated = [t \in Targets |-> FALSE]
  /\ age = [t \in Targets |-> 0]
  /\ quiet = [t \in Targets |-> 0]
  /\ since = [t \in Targets |-> 0]
  /\ logged = [t \in Targets |-> {}]
  /\ late = [t \in Targets |-> 0]
  /\ asked = {} /\ meanwhile = {}
  /\ req = [r \in Requests |-> NoRequest]
  /\ plan = {}
  /\ answers = 0 /\ deaths = 0 /\ errors = 0

-----------------------------------------------------------------------------
(* The incident and time.                                                  *)

Carry ==
  /\ ~closed
  /\ about < LastJudgement
  /\ about' = about + 1
  /\ UNCHANGED <<closed, enrolled, alerts, work, rows, req, plan, spent>>

Close ==
  /\ ~closed
  /\ closed' = TRUE
  /\ UNCHANGED <<about, enrolled, alerts, work, rows, req, plan, spent>>

(* POST /admin/households during the incident.                             *)
Enroll(h) ==
  /\ h \notin enrolled
  /\ enrolled' = enrolled \cup {h}
  /\ UNCHANGED <<about, closed, alerts, work, rows, req, plan, spent>>

Older(n) == IF n < Long THEN n + 1 ELSE n

Tick ==
  /\ ~closed
  /\ age' = [t \in Targets |-> IF t \in tracked THEN Older(age[t]) ELSE 0]
  /\ quiet' = [t \in Targets |-> IF t \in tracked THEN Older(quiet[t]) ELSE 0]
  /\ since' = [t \in Targets |-> IF t \in tracked THEN Older(since[t]) ELSE 0]
  /\ UNCHANGED <<about, closed, enrolled, alerts, work, tracked, status, escalated,
                 logged, late, asked, meanwhile, req, plan, spent>>

-----------------------------------------------------------------------------
(* dispatch.run, once ensure_incident returned this open incident: an      *)
(* alert for each resident, and for the runs of the job the household rows.*)
MutantHomesAtStart == IF tracked = {} THEN enrolled ELSE {}
NewHomes == enrolled \ tracked

Pick ==
  /\ ~closed
  /\ \/ \E u \in Residents :
          /\ about \notin alerts[u]
          /\ work' = work \cup {<<"alert", u, about>>}
     \/ /\ NewHomes # {}
        /\ work' = work \cup {<<"homes">>}
  /\ UNCHANGED <<about, closed, enrolled, alerts, rows, req, plan, spent>>

(* insert_alert, INSERT_ALERT_SQL: nothing more is done for an alert that  *)
(* was already sent.                                                       *)
InsertAlert(u, a) ==
  /\ <<"alert", u, a>> \in work
  /\ alerts' = [alerts EXCEPT ![u] = @ \cup {a}]
  /\ work' = (work \ {<<"alert", u, a>>})
             \cup (IF a \in alerts[u] THEN {} ELSE {<<"target", u, a>>})
  /\ UNCHANGED <<about, closed, enrolled, rows, req, plan, spent>>

(* A new row of incident_targets.  An existing one keeps its state:        *)
(* INSERT_TARGET_SQL only points it to the newer alert, TARGET_UPSERT_SQL  *)
(* and HOUSEHOLD_TARGETS_SQL not even that.                                *)
MutantUpsertResets(T) ==
  /\ tracked' = tracked \cup T
  /\ status' = [t \in Targets |-> IF t \in T THEN "no_response" ELSE status[t]]
  /\ UNCHANGED <<escalated, age, quiet, since, logged, late, asked, meanwhile>>

Track(T) ==
  /\ tracked' = tracked \cup T
  /\ UNCHANGED <<status, escalated, age, quiet, since, logged, late, asked, meanwhile>>

InsertTarget(u, a) ==
  /\ <<"target", u, a>> \in work
  /\ work' = work \ {<<"target", u, a>>}
  /\ Track({u})
  /\ UNCHANGED <<about, closed, enrolled, alerts, req, plan, spent>>

InsertHomes ==
  /\ <<"homes">> \in work
  /\ work' = work \ {<<"homes">>}
  /\ Track(enrolled)
  /\ UNCHANGED <<about, closed, enrolled, alerts, req, plan, spent>>

(* A run dies, or the database refuses it, between two of its calls.       *)
RunDies ==
  /\ deaths < MaxDeaths
  /\ deaths' = deaths + 1
  /\ \E w \in work : work' = work \ {w}
  /\ UNCHANGED <<about, closed, enrolled, alerts, rows, req, plan, answers, errors>>

-----------------------------------------------------------------------------
(* Answers.  A resident answers an alert of this incident in the app; a    *)
(* member of staff records an answer for a tracked target.                 *)
Goto(r, label) == req' = [req EXCEPT ![r].pc = label]

Answer(r, t, s, staff) ==
  /\ answers < MaxAnswers
  /\ answers' = answers + 1
  /\ req[r].pc = "idle"
  /\ IF staff THEN t \in tracked ELSE t \in Residents /\ alerts[t] # {}
  /\ req' = [req EXCEPT ![r] =
               [pc |-> "sent", staff |-> staff, target |-> t, status |-> s, ids |-> {}]]
  /\ UNCHANGED <<about, closed, enrolled, alerts, work, rows, plan, deaths, errors>>

(* RESPOND_ALERT_SQL and _open_incident: 409 when the incident is closed.  *)
CheckOpen(r) ==
  /\ req[r].pc = "sent"
  /\ IF closed THEN req' = [req EXCEPT ![r] = NoRequest]
               ELSE Goto(r, IF req[r].staff THEN "link" ELSE "upsert")
  /\ UNCHANGED <<about, closed, enrolled, alerts, work, rows, plan, spent>>

(* TARGET_UPSERT_SQL.                                                      *)
UpsertTarget(r) ==
  /\ req[r].pc = "upsert"
  /\ Track({req[r].target})
  /\ Goto(r, "link")
  /\ UNCHANGED <<about, closed, enrolled, alerts, work, plan, spent>>

(* record, LINKED_SQL: the households of an app user follow.               *)
Linked(t) == {h \in tracked \cap Homes : Owner[h] = t}

ReadLinked(r) ==
  /\ req[r].pc = "link"
  /\ req' = [req EXCEPT ![r].pc = "record", ![r].ids = {req[r].target} \cup Linked(req[r].target)]
  /\ UNCHANGED <<about, closed, enrolled, alerts, work, rows, plan, spent>>

(* RECORD_SQL.                                                             *)
Record(r) ==
  /\ req[r].pc = "record"
  /\ LET over(f, v) == [t \in Targets |-> IF t \in req[r].ids THEN v ELSE f[t]]
     IN  /\ status' = over(status, req[r].status)
         /\ since' = over(since, 0)
         /\ late' = over(late, 0)
  /\ asked' = IF req[r].status = "need_help" THEN asked \cup {req[r].target} ELSE asked
  /\ meanwhile' = meanwhile \cup {t \in req[r].ids : <<t, "escalate">> \in plan}
  /\ Goto(r, "history")
  /\ UNCHANGED <<about, closed, enrolled, alerts, work, tracked, escalated, age, quiet,
                 logged, plan, spent>>

(* HISTORY_SQL; only a call for help goes on.                              *)
MutantNoHandOver(s) == FALSE
HandsOver(s) == s = "need_help"

AddHistory(r) ==
  /\ req[r].pc = "history"
  /\ logged' = [t \in Targets |->
                  IF t \in req[r].ids THEN logged[t] \cup {req[r].status} ELSE logged[t]]
  /\ Goto(r, IF HandsOver(req[r].status) THEN "escalate" ELSE "reply")
  /\ UNCHANGED <<about, closed, enrolled, alerts, work, tracked, status, escalated, age,
                 quiet, since, late, asked, meanwhile, plan, spent>>

EscalateHelp(r) ==
  /\ req[r].pc = "escalate"
  /\ escalated' = [escalated EXCEPT ![req[r].target] = TRUE]
  /\ Goto(r, "reply")
  /\ UNCHANGED <<about, closed, enrolled, alerts, work, tracked, status, age, quiet, since,
                 logged, late, asked, meanwhile, plan, spent>>

Reply(r) ==
  /\ req[r].pc = "reply"
  /\ req' = [req EXCEPT ![r] = NoRequest]
  /\ UNCHANGED <<about, closed, enrolled, alerts, work, rows, plan, spent>>

(* The server process dies or the connection breaks, the reply included:   *)
(* the resident's app keeps the answer and sends it again with every poll  *)
(* (main.dart, the response queue); what staff entered is gone.            *)
MutantRepeatNone(r) == NoRequest
MutantRepeatBlank(r) == IF req[r].staff THEN NoRequest ELSE [NoRequest EXCEPT !.pc = "sent"]
Repeated(r) == IF req[r].staff THEN NoRequest ELSE [req[r] EXCEPT !.pc = "sent", !.ids = {}]

ConnectionDies(r) ==
  /\ req[r].pc # "idle"
  /\ deaths < MaxDeaths
  /\ deaths' = deaths + 1
  /\ req' = [req EXCEPT ![r] = Repeated(r)]
  /\ UNCHANGED <<about, closed, enrolled, alerts, work, rows, plan, answers, errors>>

(* A db call fails and the request ends with HTTP 500: no transient        *)
(* failure for the app, which shows an error and keeps nothing.            *)
RequestFails(r) ==
  /\ req[r].pc \notin {"idle", "reply"}
  /\ errors < MaxErrors
  /\ errors' = errors + 1
  /\ req' = [req EXCEPT ![r] = NoRequest]
  /\ UNCHANGED <<about, closed, enrolled, alerts, work, rows, plan, answers, deaths>>

-----------------------------------------------------------------------------
(* next_action: what to do now for a target the query returned.            *)
Min2(a, b) == IF a < b THEN a ELSE b

MutantRemindFirst(t) ==
  CASE status[t] = "no_response" /\ ~escalated[t] /\ quiet[t] >= ReminderInterval -> "reminder"
    [] status[t] = "no_response" /\ ~escalated[t] /\ age[t] >= EscalateAfter -> "escalate"
    [] status[t] = "evacuating" /\ Min2(since[t], quiet[t]) >= Recheck -> "reminder"
    [] OTHER -> "none"
MutantEscalatedIsDone(t) ==
  CASE escalated[t] -> "none"
    [] status[t] = "no_response" /\ age[t] >= EscalateAfter -> "escalate"
    [] status[t] = "no_response" /\ quiet[t] >= ReminderInterval -> "reminder"
    [] status[t] = "evacuating" /\ Min2(since[t], quiet[t]) >= Recheck -> "reminder"
    [] OTHER -> "none"
MutantEscalatesAnswered(t) ==
  CASE status[t] # "evacuated" /\ ~escalated[t] /\ age[t] >= EscalateAfter -> "escalate"
    [] status[t] = "no_response" /\ ~escalated[t] /\ quiet[t] >= ReminderInterval -> "reminder"
    [] status[t] = "evacuating" /\ Min2(since[t], quiet[t]) >= Recheck -> "reminder"
    [] OTHER -> "none"

NextAction(t) ==
  CASE status[t] = "no_response" /\ ~escalated[t] /\ age[t] >= EscalateAfter -> "escalate"
    [] status[t] = "no_response" /\ ~escalated[t] /\ age[t] < EscalateAfter
         /\ quiet[t] >= ReminderInterval -> "reminder"
    [] status[t] = "evacuating" /\ Min2(since[t], quiet[t]) >= Recheck -> "reminder"
    [] OTHER -> "none"

(* run_followups: FOLLOWUP_SQL reads the app users of an open incident.    *)
Collect ==
  /\ plan = {}
  /\ ~closed
  /\ plan' = {<<t, NextAction(t)>> : t \in {x \in tracked \cap Residents : NextAction(x) # "none"}}
  /\ meanwhile' = {}
  /\ UNCHANGED <<about, closed, enrolled, alerts, work, tracked, status, escalated, age, quiet,
                 since, logged, late, asked, req, spent>>

Remind(t) ==
  /\ <<t, "reminder">> \in plan
  /\ plan' = plan \ {<<t, "reminder">>}
  /\ quiet' = [quiet EXCEPT ![t] = 0]
  /\ late' = [late EXCEPT ![t] =
       IF status[t] \in {"no_response", "evacuating"} THEN @ ELSE Min2(@ + 1, 2)]
  /\ UNCHANGED <<about, closed, enrolled, alerts, work, tracked, status, escalated, age, since,
                 logged, asked, meanwhile, req, spent>>

EscalateSilent(t) ==
  /\ <<t, "escalate">> \in plan
  /\ plan' = plan \ {<<t, "escalate">>}
  /\ escalated' = [escalated EXCEPT ![t] = TRUE]
  /\ UNCHANGED <<about, closed, enrolled, alerts, work, tracked, status, age, quiet, since,
                 logged, late, asked, meanwhile, req, spent>>

JobDies ==
  /\ plan # {}
  /\ deaths < MaxDeaths
  /\ deaths' = deaths + 1
  /\ plan' = {}
  /\ UNCHANGED <<about, closed, enrolled, alerts, work, rows, req, answers, errors>>

-----------------------------------------------------------------------------
Dispatch ==
  \/ Pick
  \/ \E u \in Residents, a \in Judgements : InsertAlert(u, a) \/ InsertTarget(u, a)
  \/ InsertHomes

Serve(r) ==
  \/ CheckOpen(r) \/ UpsertTarget(r) \/ ReadLinked(r) \/ Record(r)
  \/ AddHistory(r) \/ EscalateHelp(r) \/ Reply(r)

FollowUp == Collect \/ \E t \in Residents : Remind(t) \/ EscalateSilent(t)

Next ==
  \/ Carry \/ Close \/ Tick
  \/ \E h \in Homes : Enroll(h)
  \/ Dispatch \/ RunDies
  \/ \E r \in Requests, t \in Targets, s \in Answers, staff \in BOOLEAN : Answer(r, t, s, staff)
  \/ \E r \in Requests : Serve(r) \/ ConnectionDies(r) \/ RequestFails(r)
  \/ FollowUp \/ JobDies

Spec == Init /\ [][Next]_vars

(* Time passes; the scheduler starts dispatch every ten and the follow-ups *)
(* every minute; a request that was received or is repeated is served.     *)
Fairness ==
  /\ WF_vars(Tick) /\ WF_vars(Dispatch) /\ WF_vars(FollowUp)
  /\ \A t \in Residents : WF_vars(Remind(t)) /\ WF_vars(EscalateSilent(t))
  /\ \A r \in Requests : WF_vars(Serve(r))
FairSpec == Spec /\ Fairness

-----------------------------------------------------------------------------
Request == [pc : {"idle", "sent", "upsert", "link", "record", "history", "escalate", "reply"},
            staff : BOOLEAN, target : Targets \cup {None}, status : Statuses, ids : SUBSET Targets]

(* The type of the state; an answer under way names a target.              *)
TypeOK ==
  /\ about \in Judgements
  /\ closed \in BOOLEAN
  /\ enrolled \subseteq Homes
  /\ alerts \in [Residents -> SUBSET Judgements]
  /\ work \subseteq ({"alert", "target"} \X Residents \X Judgements) \cup {<<"homes">>}
  /\ tracked \subseteq Targets
  /\ status \in [Targets -> Statuses]
  /\ escalated \in [Targets -> BOOLEAN]
  /\ age \in [Targets -> 0..Long] /\ quiet \in [Targets -> 0..Long] /\ since \in [Targets -> 0..Long]
  /\ logged \in [Targets -> SUBSET Answers]
  /\ req \in [Requests -> Request]
  /\ \A r \in Requests : req[r].pc # "idle" => req[r].target \in Targets /\ req[r].status \in Answers
  /\ plan \subseteq Residents \X {"reminder", "escalate"}
  /\ late \in [Targets -> 0..2]
  /\ asked \subseteq Targets /\ meanwhile \subseteq Targets
  /\ answers \in 0..MaxAnswers /\ deaths \in 0..MaxDeaths /\ errors \in 0..MaxErrors

(* An answer is never lost to `no_response' again, by the alert of the     *)
(* next judgement, the upsert of a repeated answer or the household rows.  *)
AnswerSticks ==
  [][\A t \in Targets : status[t] # "no_response" => status'[t] # "no_response"]_vars

(* Responders are called only for a resident who asked for help, or whose *)
(* row is ESCALATE_AFTER_MIN old and unanswered.  The job acts on rows it  *)
(* read before it pushed to others: the one exception is a row that was    *)
(* silent when this very job read it and was answered for in the meantime. *)
EscalatedForReason ==
  [][\A t \in Targets : escalated'[t] /\ ~escalated[t] =>
       \/ t \in asked
       \/ /\ age[t] >= EscalateAfter
          /\ status[t] = "no_response" \/ t \in meanwhile]_vars

(* Whoever answered that no reminder is due (evacuated, help asked) gets   *)
(* at most the one reminder the job had already decided on.                *)
OneLateReminder == \A t \in Targets : late[t] <= 1

(* A tracked resident who does not answer is handed to the responders,     *)
(* although the job dies, judgements change and reminders go on.           *)
SilentEscalates ==
  \A u \in Residents :
    (u \in tracked /\ status[u] = "no_response")
      ~> (escalated[u] \/ status[u] # "no_response" \/ closed)

(* A resident under way is asked again and again whether they arrived,     *)
(* handed over or not.                                                     *)
EvacuatingRechecked ==
  \A u \in Residents :
    (status[u] = "evacuating" /\ quiet[u] >= Recheck)
      ~> (status[u] # "evacuating" \/ quiet[u] < Recheck \/ closed)

(* A resident's call for help, once recorded, reaches the responders: the  *)
(* job does not look at need_help rows, only the request itself hands over.*)
HelpRecorded(r, u) ==
  req[r].pc = "history" /\ req[r].status = "need_help" /\ ~req[r].staff /\ req[r].target = u
HelpEscalates ==
  \A r \in Requests, u \in Residents : HelpRecorded(r, u) ~> (escalated[u] \/ closed)

(* What a request has recorded is followed up although connections die     *)
(* and runs fail, as long as no request ends with an error of the server   *)
(* (the app repeats the others): a call for help reaches the responders,   *)
(* and the review of the incident misses no resident's answer.             *)
RecordedIsFollowed ==
  \A r \in Requests, u \in Residents, s \in Answers :
    (req[r].pc = "history" /\ req[r].status = s /\ ~req[r].staff /\ req[r].target = u)
      ~> (errors > 0 \/ closed \/ (s \in logged[u] /\ (s = "need_help" => escalated[u])))

(* A household on the list of the area gets its row, also when it is       *)
(* registered while the incident runs: the job repeats the insert.         *)
HomeTracked == \A h \in Homes : (h \in enrolled) ~> (h \in tracked \/ closed)

(* evacuation.py's header: no answer after an alert means reminders, and   *)
(* after ten minutes the hand-over.                                        *)
AlertedEscalates ==
  \A u \in Residents :
    (alerts[u] # {}) ~> (escalated[u] \/ status[u] # "no_response" \/ closed)
=============================================================================
