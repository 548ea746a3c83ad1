------------------------------- MODULE Drill --------------------------------
(***************************************************************************)
(* A drill (app/demo_evac.py, routers/dashboard.py): a resident's phone    *)
(* starts a pretended alarm and answers it, the server keeps one row per   *)
(* account, responders of other accounts read it and write when they leave *)
(* for the resident, and the phone reads that back every five seconds      *)
(* (PrototypeSafetyController).  Where people are and whose names are      *)
(* shown is left out, and so is the history, which nothing reads.          *)
(***************************************************************************)
EXTENDS Naturals, FiniteSets

CONSTANTS Statuses,        \* of an answer
          MaxDrills, MaxReplies, MaxDepartures, MaxResets, MaxLost,   \* bounds
          None

DrillConstants == None \notin Statuses   \* AnswerStatus of the app

VARIABLES
  sheet,      \* care.demo_evac of the account: None, or its status and dispatch
  stale,      \* the sheet has not been updated for ACTIVE_HOURS
  phone,      \* alarm: in progress; reply: the answer given, or None; coming: the dispatch shown
  calls,      \* the phone's requests under way
  pulling,    \* pullFromServer: the step, what it read, the answer it sends along
  mixed,      \* requests of the phone overlapped
  missed,     \* an answer's request failed, the phone said so
  drills, replies, departures, resets, failed

drillVars == <<sheet, stale, phone, calls, pulling, mixed, missed, drills, replies, departures, resets, failed>>
bounds == <<drills, replies, departures, resets, failed>>

Idle == [step |-> "idle", got |-> None, reply |-> None]
Call(what, answer) == [kind |-> what, status |-> answer]
Uploading == pulling.step \in {"start", "respond"}

Init ==
  /\ sheet = None /\ stale = FALSE
  /\ phone = [alarm |-> FALSE, reply |-> None, coming |-> None]
  /\ calls = {} /\ pulling = Idle
  /\ mixed = FALSE /\ missed = FALSE
  /\ drills = 0 /\ replies = 0 /\ departures = 0 /\ resets = 0 /\ failed = 0

-----------------------------------------------------------------------------
(* The server, one statement each.                                         *)
MutantBlankStart == [status |-> None, dispatch |-> None]
Started == [status |-> "no_response", dispatch |-> None]                  \* START_SQL
Responded(s) ==                                                           \* RESPOND_SQL
  [status |-> s, dispatch |-> IF sheet = None THEN None ELSE sheet.dispatch]

(* DISPATCH_SQL writes its columns only.                                   *)
MutantWholeRow(d) == [Started EXCEPT !.dispatch = d]
Dispatched(d) == [sheet EXCEPT !.dispatch = d]

Active == sheet # None /\ ~ stale                                         \* ROWS_SQL, LOCATION_SQL, DISPATCH_SQL

Serve(c) ==
  /\ c \in calls /\ calls' = calls \ {c}
  /\ sheet' = CASE c.kind = "start" -> Started
               [] c.kind = "respond" -> Responded(c.status)
               [] c.kind = "reset" -> None
  /\ stale' = FALSE
  /\ UNCHANGED <<phone, pulling, mixed, missed, bounds>>

(* A request that does not arrive is not repeated.                         *)
Lose(c) ==
  /\ c \in calls /\ calls' = calls \ {c}
  /\ failed < MaxLost /\ failed' = failed + 1
  /\ missed' = TRUE
  /\ UNCHANGED <<sheet, stale, phone, pulling, mixed, drills, replies, departures, resets>>

(* A responder leaves, or gives it up (None); 404 without a drill.         *)
Dispatch(d) ==
  /\ departures < MaxDepartures /\ departures' = departures + 1
  /\ IF Active THEN sheet' = Dispatched(d) /\ stale' = FALSE ELSE UNCHANGED <<sheet, stale>>
  /\ UNCHANGED <<phone, calls, pulling, mixed, missed, drills, replies, resets, failed>>

(* Another account turns the drill on anew: every row is deleted.          *)
ResetByOther ==
  /\ resets < MaxResets /\ resets' = resets + 1
  /\ sheet' = None /\ stale' = FALSE
  /\ UNCHANGED <<phone, calls, pulling, mixed, missed, drills, replies, departures, failed>>

HoursPass ==
  /\ Active /\ stale' = TRUE
  /\ UNCHANGED <<sheet, phone, calls, pulling, mixed, missed, bounds>>

-----------------------------------------------------------------------------
(* The phone.  Nothing makes it wait for a request under way.              *)
Send(c) ==
  /\ calls' = calls \cup {c}
  /\ mixed' = (mixed \/ calls # {} \/ Uploading)

StartDrill ==
  /\ drills < MaxDrills /\ drills' = drills + 1
  /\ phone' = [alarm |-> TRUE, reply |-> None, coming |-> None]
  /\ Send(Call("start", None))
  /\ UNCHANGED <<sheet, stale, pulling, missed, replies, departures, resets, failed>>

Reply(s) ==
  /\ phone.alarm /\ replies < MaxReplies /\ replies' = replies + 1
  /\ phone' = [phone EXCEPT !.reply = s]
  /\ Send(Call("respond", s))
  /\ UNCHANGED <<sheet, stale, pulling, missed, drills, departures, resets, failed>>

TurnOff ==
  /\ phone.alarm /\ resets < MaxResets /\ resets' = resets + 1
  /\ phone' = [alarm |-> FALSE, reply |-> None, coming |-> None]
  /\ Send(Call("reset", None))
  /\ UNCHANGED <<sheet, stale, pulling, missed, drills, replies, departures, failed>>

-----------------------------------------------------------------------------
(* pullFromServer: reads the row; if there is none the phone uploads its   *)
(* alarm and the answer it then has, else takes over the dispatch.         *)
PullBegins ==
  /\ pulling.step = "idle" /\ phone.alarm
  /\ pulling' = [Idle EXCEPT !.step = "asked"]
  /\ UNCHANGED <<sheet, stale, phone, calls, mixed, missed, bounds>>

PullReads ==
  /\ pulling.step = "asked"
  /\ pulling' = [pulling EXCEPT !.step = "read", !.got = IF Active THEN sheet ELSE None]
  /\ UNCHANGED <<sheet, stale, phone, calls, mixed, missed, bounds>>

PullTakes ==
  /\ pulling.step = "read" /\ pulling.got # None
  /\ phone' = [phone EXCEPT !.coming = pulling.got.dispatch]
  /\ pulling' = Idle
  /\ UNCHANGED <<sheet, stale, calls, mixed, missed, bounds>>

PullFindsNothing ==
  /\ pulling.step = "read" /\ pulling.got = None
  /\ pulling' = [Idle EXCEPT !.step = "start", !.reply = phone.reply]
  /\ mixed' = (mixed \/ calls # {})
  /\ UNCHANGED <<sheet, stale, phone, calls, missed, bounds>>

PullUploads ==
  /\ Uploading
  /\ sheet' = IF pulling.step = "start" THEN Started ELSE Responded(pulling.reply)
  /\ stale' = FALSE
  /\ pulling' = IF pulling.step = "start" /\ pulling.reply # None
                THEN [pulling EXCEPT !.step = "respond"] ELSE Idle
  /\ UNCHANGED <<phone, calls, mixed, missed, bounds>>

PullFails ==
  /\ pulling.step # "idle" /\ failed < MaxLost /\ failed' = failed + 1
  /\ missed' = (missed \/ pulling.step = "respond")
  /\ pulling' = Idle
  /\ UNCHANGED <<sheet, stale, phone, calls, mixed, drills, replies, departures, resets>>

Next ==
  \/ \E c \in calls : Serve(c) \/ Lose(c)
  \/ \E d \in {"leaves", None} : Dispatch(d)
  \/ ResetByOther \/ HoursPass
  \/ StartDrill \/ (\E s \in Statuses : Reply(s)) \/ TurnOff
  \/ PullBegins \/ PullReads \/ PullTakes \/ PullFindsNothing \/ PullUploads \/ PullFails

Spec == Init /\ [][Next]_drillVars

-----------------------------------------------------------------------------
(* The type of the state.                                                  *)
TypeOK ==
  /\ sheet # None => sheet.status \in Statuses \cup {"no_response"} /\ sheet.dispatch \in {"leaves", None}
  /\ phone.alarm \in BOOLEAN /\ phone.reply \in Statuses \cup {None} /\ phone.coming \in {"leaves", None}
  /\ \A c \in calls : c.kind \in {"start", "respond", "reset"} /\ c.status \in Statuses \cup {None}
  /\ pulling.step \in {"idle", "asked", "read", "start", "respond"}
  /\ {stale, mixed, missed} \subseteq BOOLEAN

(* demo_evac.py:3-5: what responders read of a resident in a drill is the  *)
(* resident's own last answer, whatever responders write, whoever starts   *)
(* the drill anew and however long it lies; unless the phone's requests    *)
(* overtook each other or one failed.                                      *)
DrillAnswerStands ==
  (Active /\ phone.alarm /\ calls = {} /\ ~ Uploading /\ ~ mixed /\ ~ missed) =>
    sheet.status = (IF phone.reply = None THEN "no_response" ELSE phone.reply)
=============================================================================
