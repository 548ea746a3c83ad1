------------------------------ MODULE Delivery -------------------------------
(* How a judgement becomes an alert on a resident's phone: the runs that   *)
(* make alerts (server/alerts/dispatch.py run, by the ten-minute job and   *)
(* by every poll), the pushes they send at their end (server/alerts/       *)
(* fcm.py), the poll (server/app/routers/alerts.py) and the app that       *)
(* merges what both bring (app/lib/main.dart).                             *)
(*                                                                         *)
(* One area and one phone.  Times are relative: `fresh` holds the alerts   *)
(* created after the phone's `since`.  An alert's insertion is one         *)
(* statement and one transaction; a run reads judgements and residents in  *)
(* one step.  Incidents are module Incidents; here staff may end the one   *)
(* of a judgement.                                                         *)
EXTENDS Integers

CONSTANTS
  Users,
  Rows,           \* judgements [id, hazard, level], raised once each
  Residents,      \* users with a place inside the area, away from it; the others are in it
  MaxDeaths,      \* bound on runs that die
  MaxLosses,      \* bound on pushes and poll replies that are lost
  MaxSwitches,    \* bound on changes of account and push setting, restarts, and alerts that age
  None

VARIABLES
  active,         \* rows in force
  raised,         \* rows that were ever in force
  ended,          \* rows whose incident staff ended
  near,           \* users whose reported location is inside and recent
  run,            \* what the job's run and the poll's run are doing
  alerts,         \* user_alerts: [user, row, evac]
  old,            \* alerts made more than DEFAULT_LOOKBACK, 24 hours, ago
  tokenOf,        \* the user the phone's push token is registered for
  pushes,         \* alerts on their way to the phone
  signedIn,             \* the account signed in
  polled,         \* `_since` is set
  fresh,          \* alerts created after `_since`
  poll,           \* the poll under way
  shown,          \* alerts in the app's list, whichever of push and poll brought them
  due,            \* alerts made for the account while it is signed in
  deaths, losses, switches

vars == <<active, raised, ended, near, run, alerts, old, tokenOf, pushes, signedIn, polled, fresh, poll, shown,
          due, deaths, losses, switches>>
server == <<active, raised, ended, near>>
phone == <<signedIn, polled, shown, switches>>

Group == {"flood", "heavy_rain"}
Evac(r) == r.level = "warning"
Idle == [at |-> "idle", todo |-> {}, opened |-> {}, new |-> {}]
NoPoll == [at |-> "idle", user |-> None, full |-> FALSE, since |-> {}, found |-> {}]

Init ==
  /\ active = {} /\ raised \in SUBSET Rows /\ ended = {} /\ near \in SUBSET (Users \ Residents)
  /\ run = [p \in {"job", "poll"} |-> Idle]
  /\ alerts = {} /\ old = {} /\ tokenOf \in Users \cup {None} /\ pushes = {}
  /\ signedIn \in Users \cup {None} /\ polled = FALSE /\ fresh = {} /\ poll = NoPoll /\ shown = {} /\ due = {}
  /\ deaths \in 0..MaxDeaths /\ losses = 0 /\ switches \in 0..MaxSwitches

-----------------------------------------------------------------------------
(* Judgements come and go, and staff end an incident.                      *)
Raise(r) ==
  /\ r \notin raised
  /\ active' = active \cup {r} /\ raised' = raised \cup {r}
  /\ UNCHANGED <<ended, near, run, alerts, old, tokenOf, pushes, phone, fresh, poll, due, deaths, losses>>

Lower(r) ==
  /\ r \in active
  /\ active' = active \ {r}
  /\ UNCHANGED <<raised, ended, near, run, alerts, old, tokenOf, pushes, phone, fresh, poll, due, deaths, losses>>

StaffEnd(r) ==
  /\ r \in active \ ended /\ Evac(r)
  /\ ended' = ended \cup {r}
  /\ UNCHANGED <<active, raised, near, run, alerts, old, tokenOf, pushes, phone, fresh, poll, due, deaths, losses>>

LocationAges(u) ==
  /\ u \in near
  /\ near' = near \ {u}
  /\ UNCHANGED <<active, raised, ended, run, alerts, old, tokenOf, pushes, phone, fresh, poll, due, deaths, losses>>

-----------------------------------------------------------------------------
(* A run.  Per user and hazard the highest row, the older one of equals;   *)
(* then of a group with an evacuation only the highest, flood of equals.   *)
Higher(r, o) == r.level = "warning" /\ o.level = "advisory"
Outranks(r, o) == Higher(r, o) \/ (r.level = o.level /\ r.id < o.id)
Picked(rows) == {r \in rows : \A o \in rows \ {r} : o.hazard = r.hazard => Outranks(r, o)}
(* Mutant: flood leads whatever the levels.                                *)
MutantFloodLeads(r, o) == r.hazard = "flood"
Leads(r, o) == Higher(r, o) \/ (r.level = o.level /\ r.hazard = "flood")
Merged(picked) ==
  {r \in picked :
     LET others == {o \in picked \ {r} : {r.hazard, o.hazard} \subseteq Group}
     IN  (\E o \in others \cup {r} : Evac(o)) => \A o \in others : Leads(r, o)}

(* What a run for these users reads, when the users in n are near.         *)
Work(us, n) ==
  [Idle EXCEPT !.at = "insert", !.todo = (us \cap (n \cup Residents)) \X Merged(Picked(active))]

JobStarts ==
  /\ run["job"].at = "idle"
  /\ run' = [run EXCEPT !["job"] = Work(Users, near)]
  /\ UNCHANGED <<server, alerts, old, tokenOf, pushes, phone, fresh, poll, due, deaths, losses>>

(* What the poll under way counts as created after its server_time.        *)
(* Mutant: server_time is taken when the answer is put together.           *)
MutantServerTimeLate(a) == poll.since
SinceServerTime(a) == IF poll.at = "idle" THEN poll.since ELSE poll.since \cup {a}

(* The incident is looked up once per row and run; a row whose incident    *)
(* staff ended makes a plain alert.  A (user, row) already alerted is left.*)
Insert(p, u, r) ==
  LET opened == IF Evac(r) /\ r \notin ended THEN run[p].opened \cup {r} ELSE run[p].opened
      alert == [user |-> u, row |-> r, evac |-> r \in opened]
      isNew == \A a \in alerts : a.user # u \/ a.row # r
  IN  /\ run[p].at = "insert" /\ <<u, r>> \in run[p].todo
      /\ run' = [run EXCEPT ![p].todo = @ \ {<<u, r>>}, ![p].opened = opened,
                            ![p].new = IF isNew THEN @ \cup {alert} ELSE @]
      /\ IF isNew
         THEN /\ alerts' = alerts \cup {alert}
              /\ fresh' = fresh \cup {alert}
              /\ poll' = [poll EXCEPT !.since = SinceServerTime(alert)]
              /\ due' = IF u = signedIn THEN due \cup {alert} ELSE due
         ELSE UNCHANGED <<alerts, fresh, poll, due>>
      /\ UNCHANGED <<server, old, tokenOf, pushes, phone, deaths, losses>>

(* PUSH_SQL reads the tokens after all inserts: only this phone's matters. *)
ToPush(new) == {a \in new : a.user = tokenOf}

(* FCM takes the message, fails, or calls the token unregistered, which    *)
(* clears it.                                                              *)
Send(p) ==
  LET mine == ToPush(run[p].new)
  IN  /\ run[p].at = "insert" /\ run[p].todo = {}
      /\ run' = [run EXCEPT ![p] = Idle]
      /\ \/ pushes' = pushes \cup mine /\ UNCHANGED <<tokenOf, losses>>
         \/ mine # {} /\ losses < MaxLosses /\ losses' = losses + 1 /\ UNCHANGED pushes
            /\ tokenOf' \in {tokenOf, None}
      /\ poll' = IF p = "poll" THEN [poll EXCEPT !.at = "query"] ELSE poll
      /\ UNCHANGED <<server, alerts, old, phone, fresh, due, deaths>>

(* A database error or a restart ends a run between two statements; a      *)
(* poll's run is caught and the poll answers all the same.                 *)
Dies(p) ==
  /\ run[p].at = "insert" /\ deaths < MaxDeaths
  /\ run' = [run EXCEPT ![p] = Idle] /\ deaths' = deaths + 1
  /\ poll' = IF p = "poll" THEN [poll EXCEPT !.at = "query"] ELSE poll
  /\ UNCHANGED <<server, alerts, old, tokenOf, pushes, phone, fresh, due, losses>>

-----------------------------------------------------------------------------
(* The poll: server_time is taken first, then the location and the user's  *)
(* own run, then the alerts created after the request's since.             *)
Ask(full) ==
  /\ near' = near \cup ({signedIn} \ Residents)
  /\ poll' = [NoPoll EXCEPT !.at = "run", !.user = signedIn, !.full = full]
  /\ run' = [run EXCEPT !["poll"] = Work({signedIn}, near')]

StartPoll ==
  /\ signedIn # None /\ poll.at = "idle" /\ Ask(~polled)
  /\ UNCHANGED <<active, raised, ended, alerts, old, tokenOf, pushes, phone, fresh, due, deaths, losses>>

(* A poll without since looks a day back from its server_time (LIMIT 50 is *)
(* never met here); one with since has no such limit.                      *)
MutantSinceOnly == fresh
Wanted == IF poll.full THEN alerts \ old ELSE fresh

Query ==
  /\ poll.at = "query"
  /\ poll' = [poll EXCEPT !.at = "reply", !.found = {a \in Wanted : a.user = poll.user}]
  /\ UNCHANGED <<server, run, alerts, old, tokenOf, pushes, phone, fresh, due, deaths, losses>>

Reply ==
  /\ poll.at = "reply"
  /\ shown' = shown \cup poll.found
  /\ polled' = TRUE /\ fresh' = poll.since /\ poll' = NoPoll
  /\ UNCHANGED <<server, run, alerts, old, tokenOf, pushes, signedIn, due, deaths, losses, switches>>

ReplyLost ==
  /\ poll.at = "reply" /\ losses < MaxLosses
  /\ poll' = NoPoll /\ losses' = losses + 1
  /\ UNCHANGED <<server, run, alerts, old, tokenOf, pushes, phone, fresh, due, deaths, switches>>

(* A push in the foreground, or opened: it joins the list (mergeAlertsById)*)
(* and a full poll follows, unless one is under way (`_pollInFlight`).     *)
PushShown(a) ==
  /\ a \in pushes
  /\ pushes' = pushes \ {a} /\ shown' = shown \cup {a}
  /\ IF signedIn # None /\ poll.at = "idle" THEN Ask(TRUE) ELSE UNCHANGED <<near, poll, run>>
  /\ UNCHANGED <<active, raised, ended, alerts, old, tokenOf, signedIn, polled, fresh, due, deaths, losses, switches>>

PushLost(a) ==
  /\ a \in pushes
  /\ pushes' = pushes \ {a}
  /\ UNCHANGED <<server, run, alerts, old, tokenOf, phone, fresh, poll, due, deaths, losses>>

-----------------------------------------------------------------------------
(* An alert becomes older than a day: none that a run or a poll under way  *)
(* made, nor for a poll that has taken its server_time.                    *)
DayPasses(a) ==
  /\ a \in alerts \ (old \cup poll.since \cup run["job"].new \cup run["poll"].new)
  /\ poll.at \in {"idle", "reply"}
  /\ switches < MaxSwitches /\ switches' = switches + 1
  /\ old' = old \cup {a}
  /\ UNCHANGED <<server, run, alerts, tokenOf, pushes, signedIn, polled, shown, fresh, poll, due, deaths, losses>>

-----------------------------------------------------------------------------
(* The token and the account.  Changing accounts keeps the token's         *)
(* registration, the list and `_since`; a restart keeps only the account.  *)
Register ==
  /\ signedIn \notin {None, tokenOf} /\ switches < MaxSwitches
  /\ tokenOf' = signedIn /\ switches' = switches + 1
  /\ UNCHANGED <<server, run, alerts, old, pushes, signedIn, polled, shown, fresh, poll, due, deaths, losses>>

DisablePush ==
  /\ signedIn = tokenOf /\ signedIn # None /\ switches < MaxSwitches
  /\ tokenOf' = None /\ switches' = switches + 1
  /\ UNCHANGED <<server, run, alerts, old, pushes, signedIn, polled, shown, fresh, poll, due, deaths, losses>>

SwitchAccount(u) ==
  /\ signedIn \notin {None, u} /\ switches < MaxSwitches
  /\ signedIn' = u /\ due' = {} /\ switches' = switches + 1
  /\ UNCHANGED <<server, run, alerts, old, tokenOf, pushes, polled, shown, fresh, poll, deaths, losses>>

Restart ==
  /\ poll.at = "idle" /\ switches < MaxSwitches
  /\ polled' = FALSE /\ shown' = {} /\ switches' = switches + 1
  /\ UNCHANGED <<server, run, alerts, old, tokenOf, pushes, signedIn, fresh, poll, due, deaths, losses>>

-----------------------------------------------------------------------------
RunStep(p) == Send(p) \/ \E u \in Users, r \in Rows : Insert(p, u, r)
PollStep == Query \/ Reply \/ RunStep("poll") \/ StartPoll

Next ==
  \/ \E r \in Rows : Raise(r) \/ Lower(r) \/ StaffEnd(r)
  \/ \E u \in Users : LocationAges(u) \/ SwitchAccount(u)
  \/ JobStarts \/ \E p \in {"job", "poll"} : RunStep(p) \/ Dies(p)
  \/ \E a \in pushes : PushLost(a) \/ PushShown(a)
  \/ \E a \in alerts : DayPasses(a)
  \/ StartPoll \/ Query \/ Reply \/ ReplyLost \/ Register \/ DisablePush \/ Restart

Spec == Init /\ [][Next]_vars

(* The job comes every ten minutes, the app polls while it is open, and    *)
(* both go on; deaths and losses are the exceptions.                       *)
Fairness ==
  /\ WF_vars(JobStarts \/ RunStep("job"))
  /\ WF_vars(PollStep)
FairSpec == Spec /\ Fairness

-----------------------------------------------------------------------------
Alert == [user : Users, row : Rows, evac : BOOLEAN]

(* Every variable stays in its range; an alert under way in a run, a push  *)
(* or the phone's list is one that was stored, and a user has one alert    *)
(* of a judgement (dispatch.py INSERT_ALERT_SQL).                          *)
TypeOK ==
  /\ active \subseteq raised /\ raised \subseteq Rows /\ ended \subseteq raised
  /\ near \subseteq Users \ Residents /\ {signedIn, tokenOf} \subseteq Users \cup {None}
  /\ alerts \subseteq Alert
  /\ \A a, b \in alerts : a.user = b.user /\ a.row = b.row => a = b
  /\ pushes \cup fresh \cup due \cup poll.since \cup poll.found \subseteq alerts
  /\ shown \cup old \subseteq alerts
  /\ \A p \in {"job", "poll"} : run[p].new \subseteq alerts

(* An alert made for the account signed in reaches the phone's list, and   *)
(* reaches it again after a restart, whichever runs die and whichever      *)
(* pushes and replies are lost: what no push brings, a poll does, since    *)
(* server_time is taken before the query (dispatch.py:269 sends pushes     *)
(* only at the end of a run; alerts.py:81).  But no poll owes an alert     *)
(* that was older than a day before the phone asked: a first poll, and the *)
(* one after a push, look back 24 hours only (alerts.py:29, 92).           *)
Arrived == due \ old \subseteq shown
AlertsReachPhone == ~Arrived ~> Arrived

(* Of flood and heavy rain over a resident one alert asks for the answer:  *)
(* while a warning holds and the resident stays in its area, the resident  *)
(* is asked to evacuate by a row in force, unless staff ended the incident *)
(* of one of the two (dispatch.py merge_groups, policy.py EVAC_GROUPS).    *)
Endangered(u) ==
  /\ u \in near \cup Residents
  /\ \E r \in active : Evac(r) /\ r.hazard \in Group
  /\ \A o \in ended : o.hazard \notin Group
Asked(u) == \E a \in alerts : a.user = u /\ a.evac /\ a.row \in active
AllAsked == \A u \in Users : Endangered(u) => Asked(u)
AskedToEvacuate == ~AllAsked ~> AllAsked
=============================================================================
