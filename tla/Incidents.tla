----------------------------- MODULE Incidents ------------------------------
(***************************************************************************)
(* The life of the evacuation incidents (care.incidents) that              *)
(* server/alerts/dispatch.py derives from the judgements: `run' settles    *)
(* the incidents whose judgement was closed, opens those of evacuation     *)
(* messages, reads the open judgements and ensures an incident for each    *)
(* evacuation judgement, while the engine replaces judgements and staff    *)
(* close incidents.  Every db call is a transaction of its own, so `run'   *)
(* is split at every one of them, and runs overlap: the scheduler's job    *)
(* (Jobs) and the run for one user that GET /alerts makes (Polls).         *)
(*                                                                         *)
(* Who is alerted and tracked in an incident is the subject of EvacCheck.  *)
(***************************************************************************)
EXTENDS Integers, FiniteSets

CONSTANTS
  Assessments,   \* ids of judgements (risk_assessments rows) of evacuation hazards
  Hazard,        \* Hazard[a]
  Level,         \* Level[a], a row's level never changes: LEVEL_NUM
  Area,          \* Area[a]: the places the judgement covers
  Messages,      \* disaster messages that order an evacuation of Guryongpo
  Jobs,          \* periodic runs that may overlap
  Polls,         \* runs for one user
  None,
  MaxIncidents,  \* bound: incidents ever created
  MaxStaffActs,  \* bound: incidents started or closed by staff
  MaxCrashes     \* bound: runs that die midway, calls that fail

Advisory == 2
Warning == 3

ASSUME AssessmentsAssumption ==
  /\ Assessments \subseteq Nat
  /\ Level \in [Assessments -> Advisory..4]
ASSUME RunsAssumption == Jobs \cap Polls = {}
ASSUME BoundsAssumption == MaxIncidents \in Nat /\ MaxStaffActs \in Nat /\ MaxCrashes \in Nat

Runs == Jobs \cup Polls
Ids == 1..MaxIncidents

ASSUME NoneAssumption == None \notin Assessments \cup Messages \cup Ids

VARIABLES
  validity,     \* validity[a]: "future", "open" (valid_to IS NULL) or "closed"
  sent,         \* sent[m]: "future", "recent" (30 min), "past" or "old" (6 h)
  state,        \* state[i]: "unused", "open" or "closed" (closed_at)
  about,        \* about[i]: assessment_id of incident i, or None
  note,         \* note[i]: the disaster message of incident i, or None
  pc,           \* pc[p]: the next database call of run p
  todo,         \* todo[p]: what the loop p is in has still to handle
  item,         \* item[p]: the element in hand
  next,         \* next[p]: the successor found for the stale incident in hand
  closer,       \* history: who closed incident i, "staff" or "run"
  replaces,     \* history: the judgements closed by the commit that opened a
  staffActs,    \* incidents staff started or closed so far
  crashes

vars == <<validity, sent, state, about, note, pc, todo, item, next, closer, replaces, staffActs, crashes>>
world == <<validity, sent, replaces>>
rows == <<state, about, note, closer>>
spent == <<staffActs, crashes>>

Evac(a) == Level[a] >= Warning
Kin(o, n) == Hazard[o] = Hazard[n] /\ Area[o] \cap Area[n] # {}

OpenFor(a) == {i \in Ids : state[i] = "open" /\ about[i] = a}
EndedFor(a) == {i \in Ids : state[i] = "closed" /\ about[i] = a}

(* uq_incidents_assessment: incident i cannot be open on judgement a when  *)
(* another one is.                                                         *)
MutantNoIndex(i, a) == FALSE
Taken(i, a) == OpenFor(a) \ {i} # {}

Init ==
  /\ validity = [a \in Assessments |-> "future"]
  /\ sent = [m \in Messages |-> "future"]
  /\ state = [i \in Ids |-> "unused"]
  /\ about = [i \in Ids |-> None]
  /\ note = [i \in Ids |-> None]
  /\ closer = [i \in Ids |-> None]
  /\ pc = [p \in Runs |-> "idle"]
  /\ todo = [p \in Runs |-> {}]
  /\ item = [p \in Runs |-> None]
  /\ next = [p \in Runs |-> None]
  /\ replaces = [a \in Assessments |-> {}]
  /\ staffActs = 0
  /\ crashes = 0

-----------------------------------------------------------------------------
(* The world the runs read.                                                *)

(* One commit of engine.sync: it closes rows and inserts rows with higher  *)
(* ids.  A change of level is one of each.                                 *)
Judge(C, O) ==
  /\ C \cup O # {}
  /\ \A a \in C : validity[a] = "open"
  /\ \A n \in O : /\ validity[n] = "future"
                  /\ \A a \in Assessments : validity[a] # "future" => a < n
  /\ validity' = [a \in Assessments |->
                    IF a \in C THEN "closed" ELSE IF a \in O THEN "open" ELSE validity[a]]
  /\ replaces' = [a \in Assessments |-> IF a \in O THEN C ELSE replaces[a]]
  /\ UNCHANGED <<sent, rows, pc, todo, item, next, spent>>

(* A disaster message arrives, leaves the 30 minutes of the look-back, and *)
(* its incident (a run takes far less than 6 hours) becomes 6 hours old.   *)
MessageAges(m) ==
  /\ \/ sent[m] = "future" /\ sent' = [sent EXCEPT ![m] = "recent"]
     \/ sent[m] = "recent" /\ sent' = [sent EXCEPT ![m] = "past"]
     \/ /\ sent[m] = "past"
        /\ \A p \in Runs : item[p] # m /\ m \notin todo[p]
        /\ sent' = [sent EXCEPT ![m] = "old"]
  /\ UNCHANGED <<validity, replaces, rows, pc, todo, item, next, spent>>

(* Incidents are created with the lowest unused id.                        *)
Create(a, m) ==
  \E i \in Ids :
    /\ state[i] = "unused"
    /\ \A j \in Ids : state[j] = "unused" => i <= j
    /\ state' = [state EXCEPT ![i] = "open"]
    /\ about' = [about EXCEPT ![i] = a]
    /\ note' = [note EXCEPT ![i] = m]

(* POST /admin/incidents: an incident of no judgement and no message.      *)
StaffStart ==
  /\ staffActs < MaxStaffActs
  /\ staffActs' = staffActs + 1
  /\ Create(None, None)
  /\ UNCHANGED <<world, closer, pc, todo, item, next, crashes>>

(* POST /admin/incidents/{id}/close.                                       *)
StaffClose(i) ==
  /\ state[i] = "open"
  /\ staffActs < MaxStaffActs
  /\ staffActs' = staffActs + 1
  /\ state' = [state EXCEPT ![i] = "closed"]
  /\ closer' = [closer EXCEPT ![i] = "staff"]
  /\ UNCHANGED <<world, about, note, pc, todo, item, next, crashes>>

-----------------------------------------------------------------------------
(* settle_incidents, in the periodic runs only.                            *)
Goto(p, label) == pc' = [pc EXCEPT ![p] = label]
Hold(p, x, n) == item' = [item EXCEPT ![p] = x] /\ next' = [next EXCEPT ![p] = n]

MutantStaleAny ==
  {<<i, about[i]>> : i \in {j \in Ids : state[j] = "open" /\ about[j] # None}}
MutantStaleSuperseded ==
  {<<i, about[i]>> : i \in {j \in Ids : /\ state[j] = "open"
                                        /\ about[j] # None
                                        /\ validity[about[j]] = "closed"
                                        /\ \E n \in Assessments : validity[n] = "open" /\ Kin(about[j], n)}}

StaleIncidents ==
  {<<i, about[i]>> : i \in {j \in Ids : /\ state[j] = "open"
                                        /\ about[j] # None
                                        /\ validity[about[j]] = "closed"}}

ReadStale(p) ==
  /\ p \in Jobs /\ pc[p] = "idle"
  /\ todo' = [todo EXCEPT ![p] = StaleIncidents]
  /\ Goto(p, "settle")
  /\ UNCHANGED <<world, rows, item, next, spent>>

(* SUCCESSOR_SQL: open, the same hazard, at least a warning, overlapping,  *)
(* without an open incident; the highest level, then the lowest id.        *)
Successors(o) ==
  {n \in Assessments : /\ validity[n] = "open" /\ Evac(n) /\ Kin(o, n)
                       /\ OpenFor(n) = {}}

IsFirst(n, S) ==
  \A x \in S \ {n} : Level[n] > Level[x] \/ (Level[n] = Level[x] /\ n < x)

FindSuccessor(p) ==
  /\ pc[p] = "settle"
  /\ \E x \in todo[p] :
       /\ todo' = [todo EXCEPT ![p] = @ \ {x}]
       /\ \/ /\ Successors(x[2]) = {}
             /\ Hold(p, x[1], None) /\ Goto(p, "close")
          \/ \E n \in Successors(x[2]) :
               /\ IsFirst(n, Successors(x[2]))
               /\ Hold(p, x[1], n) /\ Goto(p, "carry")
  /\ UNCHANGED <<world, rows, spent>>

(* CARRY_SQL does not look at closed_at; an open incident that would be    *)
(* the second of its judgement violates uq_incidents_assessment.           *)
Carry(p) ==
  /\ pc[p] = "carry"
  /\ IF state[item[p]] = "open" /\ Taken(item[p], next[p])
       THEN Goto(p, "close") /\ UNCHANGED <<about, item, next>>
       ELSE /\ about' = [about EXCEPT ![item[p]] = next[p]]
            /\ Hold(p, None, None) /\ Goto(p, "settle")
  /\ UNCHANGED <<world, state, note, closer, todo, spent>>

(* Any other error of that call is taken for the same.                     *)
CarryFails(p) ==
  /\ pc[p] = "carry"
  /\ crashes < MaxCrashes
  /\ crashes' = crashes + 1
  /\ Goto(p, "close")
  /\ UNCHANGED <<world, rows, todo, item, next, staffActs>>

CloseStale(p) ==
  /\ pc[p] = "close"
  /\ IF state[item[p]] = "open"
       THEN /\ state' = [state EXCEPT ![item[p]] = "closed"]
            /\ closer' = [closer EXCEPT ![item[p]] = "run"]
       ELSE UNCHANGED <<state, closer>>
  /\ Hold(p, None, None) /\ Goto(p, "settle")
  /\ UNCHANGED <<world, about, note, todo, spent>>

(* CLOSE_OLD_MSG_SQL ends settle_incidents.                                *)
MutantOutdatedNone == {}
MutantOutdatedEarly == {i \in Ids : state[i] = "open" /\ note[i] # None /\ sent[note[i]] # "recent"}
Outdated == {i \in Ids : state[i] = "open" /\ note[i] # None /\ sent[note[i]] = "old"}

CloseOldMessages(p) ==
  /\ pc[p] = "settle" /\ todo[p] = {}
  /\ state' = [i \in Ids |-> IF i \in Outdated THEN "closed" ELSE state[i]]
  /\ closer' = [i \in Ids |-> IF i \in Outdated THEN "run" ELSE closer[i]]
  /\ Goto(p, "messages")
  /\ UNCHANGED <<world, about, note, todo, item, next, spent>>

-----------------------------------------------------------------------------
(* open_message_incidents.                                                 *)
ReadMessages(p) ==
  /\ pc[p] = "messages"
  /\ todo' = [todo EXCEPT ![p] = {m \in Messages : sent[m] = "recent"}]
  /\ Goto(p, "openMessage")
  /\ UNCHANGED <<world, rows, item, next, spent>>

(* MSG_INCIDENT_SQL's NOT EXISTS, whatever became of that incident.  No    *)
(* index keeps the note unique: what the statement saw as it began may be  *)
(* old when it inserts.                                                    *)
MutantHasOpenIncident(m) == \E i \in Ids : note[i] = m /\ state[i] = "open"
HasIncident(m) == \E i \in Ids : note[i] = m

OpenMessage(p) ==
  /\ pc[p] = "openMessage"
  /\ \E m \in todo[p] :
       /\ todo' = [todo EXCEPT ![p] = @ \ {m}]
       /\ IF HasIncident(m)
            THEN UNCHANGED <<pc, item>>
            ELSE item' = [item EXCEPT ![p] = m] /\ Goto(p, "insertMessage")
  /\ UNCHANGED <<world, rows, next, spent>>

InsertMessage(p) ==
  /\ pc[p] = "insertMessage"
  /\ Create(None, item[p])
  /\ Hold(p, None, None) /\ Goto(p, "openMessage")
  /\ UNCHANGED <<world, closer, todo, spent>>

-----------------------------------------------------------------------------
(* The judgements, read once.  A periodic run ensures the incidents of the *)
(* judgements picked for some user (pass 1), then those of all evacuation  *)
(* judgements it has no incident of yet (pass 2); a run for one user only  *)
(* ensures what it picked for that user.                                   *)
MutantPickedOnly(p, picked, evac) == {<<a, 1>> : a \in picked}
Passes(p, picked, evac) ==
  {<<a, 1>> : a \in picked} \cup (IF p \in Jobs THEN {<<a, 2>> : a \in evac} ELSE {})

ReadActive(p) ==
  /\ \/ p \in Jobs /\ pc[p] = "openMessage" /\ todo[p] = {}
     \/ p \in Polls /\ pc[p] = "idle"
  /\ LET evac == {a \in Assessments : validity[a] = "open" /\ Evac(a)}
     IN  \E picked \in SUBSET evac :
           todo' = [todo EXCEPT ![p] = Passes(p, picked, evac)]
  /\ Goto(p, "ensure")
  /\ UNCHANGED <<world, rows, item, next, spent>>

(* ensure_incident: was an incident of this judgement ended?  In pass 1    *)
(* the answer "yes" (None) leaves the judgement to pass 2.                 *)
CheckEnded(p) ==
  /\ pc[p] = "ensure"
  /\ \E x \in todo[p] :
       /\ \A y \in todo[p] : x[2] <= y[2]
       /\ todo' = [todo EXCEPT ![p] = @ \ {x}]
       /\ IF EndedFor(x[1]) # {}
            THEN UNCHANGED <<pc, item>>
            ELSE item' = [item EXCEPT ![p] = x[1]] /\ Goto(p, "insert")
  /\ UNCHANGED <<world, rows, next, spent>>

(* An id was obtained: pass 2 takes it from the dictionary.                *)
Ensured(p) ==
  /\ todo' = [todo EXCEPT ![p] = @ \ {<<item[p], 2>>}]
  /\ item' = [item EXCEPT ![p] = None]
  /\ Goto(p, "ensure")

InsertIncident(p) ==
  /\ pc[p] = "insert"
  /\ IF Taken(None, item[p])
       THEN Goto(p, "fetch") /\ UNCHANGED <<rows, todo, item>>
       ELSE Create(item[p], None) /\ Ensured(p) /\ UNCHANGED closer
  /\ UNCHANGED <<world, next, spent>>

(* The INSERT met an open incident; when that is gone by now, row["id"]    *)
(* raises and the run ends.                                                *)
MutantEndedKeeps(p) ==
  /\ UNCHANGED <<todo, item, next>>
  /\ Goto(p, "idle")

Ended(p) ==
  /\ todo' = [todo EXCEPT ![p] = {}]
  /\ Hold(p, None, None)
  /\ Goto(p, "idle")

FetchIncident(p) ==
  /\ pc[p] = "fetch"
  /\ IF OpenFor(item[p]) # {} THEN Ensured(p) /\ UNCHANGED next ELSE Ended(p)
  /\ UNCHANGED <<world, rows, spent>>

(* The message incidents' alerts and the pushes change no incident.        *)
Finish(p) ==
  /\ pc[p] = "ensure" /\ todo[p] = {}
  /\ Ended(p)
  /\ UNCHANGED <<world, rows, spent>>

(* The process dies, or the database is unreachable for one call.          *)
Crash(p) ==
  /\ pc[p] # "idle"
  /\ crashes < MaxCrashes
  /\ crashes' = crashes + 1
  /\ Ended(p)
  /\ UNCHANGED <<world, rows, staffActs>>

Step(p) ==
  \/ ReadStale(p) \/ FindSuccessor(p) \/ Carry(p) \/ CloseStale(p) \/ CloseOldMessages(p)
  \/ ReadMessages(p) \/ OpenMessage(p) \/ InsertMessage(p)
  \/ ReadActive(p) \/ CheckEnded(p) \/ InsertIncident(p) \/ FetchIncident(p) \/ Finish(p)

Next ==
  \/ \E C, O \in SUBSET Assessments : Judge(C, O)
  \/ \E m \in Messages : MessageAges(m)
  \/ StaffStart
  \/ \E i \in Ids : StaffClose(i)
  \/ \E p \in Runs : Step(p)
  \/ \E p \in Runs : Crash(p) \/ CarryFails(p)

Spec == Init /\ [][Next]_vars

(* The scheduler starts the periodic run every ten minutes and a started   *)
(* run goes on; nothing makes a user poll, a judgement change or staff act.*)
FairSpec == Spec /\ \A p \in Jobs : WF_vars(Step(p))

-----------------------------------------------------------------------------
Labels == {"idle", "settle", "carry", "close", "messages", "openMessage", "insertMessage",
           "ensure", "insert", "fetch"}

ToHandle == (Ids \X Assessments) \cup Messages \cup (Assessments \X {1, 2})

(* The type of the state: what each run holds, by where it stands.         *)
RunTypeOK(p) ==
  /\ pc[p] = "idle" => todo[p] = {} /\ item[p] = None /\ next[p] = None
  /\ pc[p] \in {"settle", "carry", "close"} => todo[p] \subseteq Ids \X Assessments
  /\ pc[p] \in {"openMessage", "insertMessage"} => todo[p] \subseteq Messages
  /\ pc[p] = "insertMessage" => item[p] \in Messages
  /\ pc[p] \in {"ensure", "insert", "fetch"} => todo[p] \subseteq Assessments \X {1, 2}
  /\ pc[p] \in {"carry", "close"} => item[p] \in Ids
  /\ pc[p] = "carry" => next[p] \in Assessments
  /\ pc[p] \in {"insert", "fetch"} => item[p] \in Assessments

TypeOK ==
  /\ validity \in [Assessments -> {"future", "open", "closed"}]
  /\ sent \in [Messages -> {"future", "recent", "past", "old"}]
  /\ state \in [Ids -> {"unused", "open", "closed"}]
  /\ replaces \in [Assessments -> SUBSET Assessments]
  /\ about \in [Ids -> Assessments \cup {None}]
  /\ note \in [Ids -> Messages \cup {None}]
  /\ closer \in [Ids -> {"staff", "run", None}]
  /\ pc \in [Runs -> Labels]
  /\ todo \in [Runs -> SUBSET ToHandle]
  /\ item \in [Runs -> Ids \cup Assessments \cup Messages \cup {None}]
  /\ next \in [Runs -> Assessments \cup {None}]
  /\ \A p \in Runs : RunTypeOK(p)
  /\ staffActs \in 0..MaxStaffActs
  /\ crashes \in 0..MaxCrashes

(* A judgement never has two open incidents, whoever creates one or        *)
(* carries one to it: residents would be asked twice and staff would       *)
(* split.                                                                  *)
OneOpenIncident ==
  \A i, j \in Ids :
    state[i] = "open" /\ state[j] = "open" /\ about[i] # None /\ about[i] = about[j] => i = j

(* With one periodic run at a time, a disaster message makes one incident  *)
(* only: when staff ended it, or after its six hours, no later run opens   *)
(* it again.  Of two that overlap, each may find no incident and insert    *)
(* one.                                                                    *)
OneIncidentPerMessage ==
  \A i, j \in Ids : note[i] # None /\ note[i] = note[j] => i = j

(* With one periodic run at a time, a run ends an incident on its own only *)
(* when the judgement is closed (or the message is six hours old): a       *)
(* danger that still holds keeps its incident, and staff what they         *)
(* started, although the run acts on a list of stale incidents it read     *)
(* several transactions ago.                                               *)
RunEndsOnlyDead ==
  [][\A i \in Ids :
       state[i] = "open" /\ state'[i] = "closed" /\ closer'[i] = "run" =>
         \/ about[i] # None /\ validity[about[i]] = "closed"
         \/ note[i] # None /\ sent[note[i]] = "old"]_vars

(* dispatch.py's header: the incident of a closed judgement is carried to  *)
(* the new judgement of the same hazard and overlapping area (here: the    *)
(* one the very same commit put in its place), and is ended only when      *)
(* there is none.                                                          *)
CarriedIfSuccessor ==
  [][\A p \in Jobs : pc[p] = "settle" /\ pc'[p] = "close" =>
       ~ \E n \in Assessments :
           /\ validity[n] = "open" /\ Evac(n) /\ Kin(about[item'[p]], n)
           /\ about[item'[p]] \in replaces[n]]_vars

(* CLOSED_BY_STAFF_SQL's comment: once staff ended the incident of a       *)
(* judgement, the judgement has no open incident again while it lasts.     *)
(* Here: none is carried to it.                                            *)
StaffEndHolds ==
  [][\A i, j \in Ids :
       state[j] = "open" /\ about'[j] # about[j] /\ closer[i] = "staff"
         => about[i] # about'[j]]_vars

(* The runs together keep the life-cycle promised for an incident, with    *)
(* one periodic run at a time: started once, moved only to a judgement of  *)
(* the same danger that has no open one, ended for good (IncidentLife).    *)
Kindred == {x \in Assessments \X Assessments : Kin(x[1], x[2])}
Life == INSTANCE IncidentLife
KeepsLife == Life!Spec

(* A judgement that asks for an evacuation and lasts gets its incident,    *)
(* whatever crashes, polls and staff do meanwhile.                         *)
EvacGetsIncident ==
  \A a \in Assessments :
    Evac(a) => (validity[a] = "open") ~> (validity[a] = "closed" \/ \E i \in Ids : about[i] = a)

(* No incident stays open on a closed judgement: it ends or goes over to a *)
(* judgement that holds.                                                   *)
StaleSettles ==
  \A i \in Ids :
    (state[i] = "open" /\ about[i] # None /\ validity[about[i]] = "closed")
      ~> (state[i] = "closed" \/ \E a \in Assessments : about[i] = a /\ validity[a] = "open")

(* A message has no signal that its danger is over: its incident ends by   *)
(* itself after six hours.                                                 *)
MessageIncidentEnds ==
  \A m \in Messages :
    (sent[m] = "old" /\ \E i \in Ids : state[i] = "open" /\ note[i] = m)
      ~> (\A i \in Ids : note[i] = m => state[i] = "closed")

(* Both: no danger that is over keeps its incident open for ever.          *)
IncidentsSettle == StaleSettles /\ MessageIncidentEnds
=============================================================================
