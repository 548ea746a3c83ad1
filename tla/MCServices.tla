----------------------------- MODULE MCServices ------------------------------
(* Seven protocols of residents and staff with the server that share no   *)
(* state: the app's queue of answers, its copy of the profile, what the    *)
(* assistant writes into it, the accounts and households, the responders'  *)
(* desk, the alerts and pushes, and drills.  TLC explores each on its own. *)
EXTENDS Integers, Sequences, FiniteSets

CONSTANTS
  Alerts, MaxAnswers, MaxBreaks, MaxRestarts,
  Fields, AiFields, Values, Pulls, MaxEdits, MaxAiEdits, MaxFailures, MaxStarts,
  Uids, Codes, Grants, Requests, MaxAccounts, MaxHouses, MaxRequests,
  Responders, Targets, MaxActs,
  Turns, Said, Writers, Findable, MaxDeletes,
  Users, Rows, Residents, MaxDeaths, MaxLosses, MaxSwitches,
  Statuses, MaxDrills, MaxReplies, MaxDepartures, MaxResets, MaxLost,
  None

VARIABLES
  part,   \* the protocol a behaviour is about
  stored, sending, retry, pendingIds, offline, promised, crossed, replied, answers, breaks, restarts,
  screen, base, dirty, patched, timer, push, pull, profile, snapshot, owed, late, older,
  edits, aiEdits, failures, starts,
  account, role, lastId, claimedBy, revoked, house, request, made, raced,
  open, status, assigned, eta, visits, told, act, acts, calcFailures, disturbed,
  asked, queue, writer, field, places, nextPlace, updates, landed, overlapped, noteFailures, deletes,
  active, raised, ended, near, run, alerts, old, tokenOf, pushes, signedIn, polled, fresh, poll, shown, due,
  deaths, losses, switches,
  sheet, stale, phone, calls, pulling, mixed, missed, drills, replies, departures, resets, lost

Answer == INSTANCE ResponseQueue
Sync == INSTANCE AccountSync
Account == INSTANCE Accounts
Board == INSTANCE Desk WITH failures <- calcFailures

(* A first exchange with a job, a home and two other places, a second that *)
(* changes the job and moves twice, a third that moves the shop, names the *)
(* other place twice, at last without a label, and a place nobody finds.   *)
Home(p) == [kind |-> "home", said |-> p, name |-> None]
Spot(p, n) == [kind |-> "frequent", said |-> p, name |-> n]
MCSaid == [t \in 1..Turns |->
  CASE t = 1 -> [job |-> "fisher", wanted |-> <<Home("a"), Spot("c", "shop"), Spot("b", None)>>]
    [] t = 2 -> [job |-> "farmer", wanted |-> <<Home("c"), Home("b")>>]
    [] OTHER -> [job |-> None, wanted |-> <<Spot("a", "shop"), Spot("b", "net"), Spot("b", None), Spot("x", None)>>]]
Notes == INSTANCE ProfileSync WITH failures <- noteFailures
Alarm == INSTANCE Delivery
Practice == INSTANCE Drill WITH failed <- lost

MCRows == {[id |-> 1, hazard |-> "flood", level |-> "advisory"],
           [id |-> 2, hazard |-> "heavy_rain", level |-> "warning"],
           [id |-> 3, hazard |-> "flood", level |-> "warning"]}

MCGrants == [c \in Codes |-> IF c = "carer code" THEN "caregiver" ELSE "responder"]

(* The assumptions of those modules that state some.                       *)
ASSUME ServicesAssumption ==
  /\ Answer!QueueConstants /\ Sync!SyncConstants
  /\ Account!GrantsAssumption /\ Account!AccountBounds /\ Account!AccountNone
  /\ Board!DeskAssumption /\ Notes!SaidAssumption /\ Practice!DrillConstants

answerVars ==
  <<stored, sending, retry, pendingIds, offline, promised, crossed, replied, answers, breaks, restarts>>
syncVars ==
  <<screen, base, dirty, patched, timer, push, pull, profile, snapshot, owed, late, older, edits, aiEdits,
    failures, starts>>
accountVars == <<account, role, lastId, claimedBy, revoked, house, request, made, raced>>
deskVars == <<open, status, assigned, eta, visits, told, act, acts, calcFailures, disturbed>>
noteVars == <<asked, queue, writer, field, places, nextPlace, updates, landed, overlapped,
              noteFailures, deletes>>
alarmVars == <<active, raised, ended, near, run, alerts, old, tokenOf, pushes, signedIn, polled, fresh, poll,
               shown, due, deaths, losses, switches>>
practiceVars == <<sheet, stale, phone, calls, pulling, mixed, missed, drills, replies, departures, resets, lost>>
vars == <<part, answerVars, syncVars, accountVars, deskVars, noteVars, alarmVars, practiceVars>>

Init ==
  /\ part \in {"answers", "profile", "accounts", "desk", "notes", "alerts", "practice"}
  /\ Answer!Init /\ Sync!Init /\ Account!Init /\ Board!Init /\ Notes!Init /\ Alarm!Init
  /\ Practice!Init
  /\ snapshot = screen /\ ~ patched /\ \A f \in Fields : screen[f] = 1
  /\ near = {} /\ deaths = 0
  (* Either the job alone over all rows, or the phone and one row; the     *)
  (* phone's token is still registered for another account.                *)
  /\ \/ part = "alerts" /\ signedIn = None /\ tokenOf = None /\ switches = MaxSwitches /\ raised = {}
     \/ signedIn = "u2" /\ tokenOf = "u1" /\ switches = 0 /\ raised = {r \in Rows : r.id # 1}

Next ==
  \/ part = "answers" /\ Answer!Next /\ UNCHANGED <<part, syncVars, accountVars, deskVars, noteVars, alarmVars, practiceVars>>
  \/ part = "profile" /\ Sync!Next /\ UNCHANGED <<part, answerVars, accountVars, deskVars, noteVars, alarmVars, practiceVars>>
  \/ part = "accounts" /\ Account!Next /\ UNCHANGED <<part, answerVars, syncVars, deskVars, noteVars, alarmVars, practiceVars>>
  \/ part = "desk" /\ Board!Next /\ UNCHANGED <<part, answerVars, syncVars, accountVars, noteVars, alarmVars, practiceVars>>
  \/ part = "notes" /\ Notes!Next /\ UNCHANGED <<part, answerVars, syncVars, accountVars, deskVars, alarmVars, practiceVars>>
  \/ part = "alerts" /\ Alarm!Next /\ UNCHANGED <<part, answerVars, syncVars, accountVars, deskVars, noteVars, practiceVars>>
  \/ part = "practice" /\ Practice!Next /\ UNCHANGED <<part, answerVars, syncVars, accountVars, deskVars, noteVars, alarmVars>>

Spec == Init /\ [][Next]_vars

(* The answer queue's timer and requests, the alert job and the poll.      *)
FairSpec ==
  /\ Spec
  /\ WF_answerVars(part = "answers" /\ Answer!RetryStep)
  /\ WF_answerVars(part = "answers" /\ Answer!GoOnline)
  /\ WF_alarmVars(part = "alerts" /\ (Alarm!JobStarts \/ Alarm!RunStep("job")))
  /\ WF_alarmVars(part = "alerts" /\ Alarm!PollStep)

(* See ResponseQueue, AccountSync, Accounts, Desk, ProfileSync, Delivery   *)
(* and Drill.                                                              *)
TypeOK ==
  /\ Answer!TypeOK /\ Sync!TypeOK /\ Account!TypeOK /\ Board!TypeOK /\ Notes!TypeOK /\ Alarm!TypeOK
  /\ Practice!TypeOK
PromisedKept == Answer!PromisedKept
PromiseHeld == Answer!PromiseHeld
PromisedSettled == Answer!PromisedSettled

(* Neither what the user edited nor what the assistant learned is lost in  *)
(* the copies of a profile (account_sync.dart).                            *)
EditsSurvive == Sync!EditsSurvive

(* Roles come from codes and homes go with their owners (user.py).         *)
AccountsInOrder == Account!NoHomeLeftBehind /\ Account!StaffByCode

(* See the modules.                                                        *)
ProfileIsWhatWasSaid == Notes!ProfileIsWhatWasSaid
ResidentKnowsHelper == Board!ResidentKnowsHelper
AlertsArrive == Alarm!AlertsReachPhone /\ Alarm!AskedToEvacuate
DrillAnswerStands == Practice!DrillAnswerStands
=============================================================================
