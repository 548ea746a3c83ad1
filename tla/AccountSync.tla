---------------------------- MODULE AccountSync -----------------------------
(***************************************************************************)
(* The app's copy of the user's profile (account_sync.dart): edits on the  *)
(* screen are pushed after a second's pause, the server's profile, which   *)
(* the AI edits too, is pulled over the copy, and the app's state as a     *)
(* whole is stored with the account and restored at the app's start.       *)
(*                                                                         *)
(* The user edits at any time, requests under way or not, and any number   *)
(* of pulls may be under way; pushes are one at a time (_running).  A      *)
(* field is one of those the server judges by (profilePatch); places and   *)
(* the contact, matched by ids of their own, are left out.                 *)
(***************************************************************************)
EXTENDS Integers

CONSTANTS
  Fields,
  AiFields,        \* the fields the assistant writes
  Values,
  None,
  Pulls,           \* the pulls that may be under way at once
  MaxEdits,        \* bound: edits of the user
  MaxAiEdits,      \* bound: edits of the AI
  MaxFailures,     \* bound: requests that fail
  MaxStarts        \* bound: times the app is closed and started

SyncConstants ==
  /\ AiFields \subseteq Fields
  /\ None \notin Values /\ Values # {}
  /\ {MaxEdits, MaxAiEdits, MaxFailures, MaxStarts} \subseteq Nat

Profiles == [Fields -> Values]

VARIABLES
  screen,    \* the values on the device
  base,      \* server_profile_base: the values last matched with the server
  dirty,     \* account_sync_dirty
  patched,   \* account_sync_patch_version is the current one
  timer,     \* the debounce timer runs
  push,      \* the push under way: its request and what it captured
  pull,      \* each pullOrPush or pullProfile: where it stands and what it was sent
  profile,   \* server: the user's profile
  snapshot,  \* server: the stored state of the app, or None
  owed,      \* history: fields edited and neither pushed nor overwritten since
  late,      \* history: fields last edited while a push was under way
  older,     \* history: an older state was put over the copy and no profile pulled since
  edits, aiEdits, failures, starts

device == <<screen, base, dirty, patched, timer>>
server == <<profile, snapshot>>
history == <<owed, late, older>>
bounds == <<edits, aiEdits, failures, starts>>
vars == <<device, push, pull, server, history, bounds>>

NoPush == [at |-> "none", patch |-> None, fields |-> {}, free |-> {}]
(* exposed (history): the edits which the pull, past its check for what is *)
(* not pushed yet, may overwrite.                                          *)
NoPull == [at |-> "none", got |-> None, exposed |-> {}]

(* Device and server agree; the account's snapshot dates from then.        *)
Init ==
  /\ screen \in Profiles /\ base = screen /\ profile = screen
  /\ snapshot \in {screen, None}
  /\ dirty = FALSE /\ timer = FALSE /\ patched \in BOOLEAN
  /\ push = NoPush /\ pull = [p \in Pulls |-> NoPull]
  /\ owed = {} /\ late = {} /\ older = FALSE
  /\ edits = 0 /\ aiEdits = 0 /\ failures = 0 /\ starts = 0

-----------------------------------------------------------------------------
(* The screens save a value: changed.                                      *)
MutantTimerOnly == dirty
Marked == TRUE

StillOwed(fields) == owed' = fields /\ late' = late \cap fields

Pushing == push # NoPush
PastCheck(p) == pull[p].at \in {"get", "apply"}

Edit(f, v) ==
  /\ edits < MaxEdits /\ edits' = edits + 1
  /\ v # screen[f]
  /\ screen' = [screen EXCEPT ![f] = v]
  /\ dirty' = Marked
  /\ timer' = TRUE
  /\ owed' = owed \cup {f}
  /\ late' = IF Pushing THEN late \cup {f} ELSE late \ {f}
  /\ pull' = [p \in Pulls |-> IF PastCheck(p) THEN [pull[p] EXCEPT !.exposed = @ \cup {f}] ELSE pull[p]]
  /\ UNCHANGED <<base, patched, push, server, older, aiEdits, failures, starts>>

(* ProfileWriter in the guardian service applies what it heard.            *)
AiEdit(f, v) ==
  /\ aiEdits < MaxAiEdits /\ aiEdits' = aiEdits + 1
  /\ f \in AiFields /\ v # profile[f]
  /\ profile' = [profile EXCEPT ![f] = v]
  /\ UNCHANGED <<device, push, pull, snapshot, history, edits, failures, starts>>

-----------------------------------------------------------------------------
(* push: returns the future of a push already under way, whatever it sends.*)
MutantAllFields == Fields
ChangedFields == {f \in Fields : screen[f] # base[f]}

(* free (history): the fields the push may overwrite on the server.        *)
StartedPush(full) ==
  [at |-> "patch", patch |-> screen, fields |-> IF full THEN Fields ELSE ChangedFields,
   free |-> IF full \/ older THEN Fields ELSE owed]

BeginPush == push' = IF Pushing THEN push ELSE StartedPush(FALSE)

TimerFires ==
  /\ timer /\ timer' = FALSE
  /\ BeginPush
  /\ UNCHANGED <<screen, base, dirty, patched, pull, server, history, bounds>>

(* PATCH /user (no request when nothing changed), then the base.           *)
Patched == [f \in Fields |-> IF f \in push.fields THEN push.patch[f] ELSE profile[f]]

PushPatch ==
  /\ push.at = "patch"
  /\ profile' = Patched
  /\ base' = push.patch
  /\ StillOwed({f \in owed : screen[f] # push.patch[f]})
  /\ push' = [NoPush EXCEPT !.at = "put"]
  /\ UNCHANGED <<screen, dirty, patched, timer, pull, snapshot, older, bounds>>

(* The end of a push: the pulls that wait for it go on, for a failed push  *)
(* is no error to them.                                                    *)
Awaited(at) ==
  CASE at = "wait" -> "get"
    [] at \in {"appWait", "fullWait"} -> "profile"
    [] OTHER -> at

Resumed(q, unsent) ==
  [q EXCEPT !.at = Awaited(@), !.exposed = IF q.at = "wait" THEN unsent ELSE @]

PushEnds(unsent) ==
  /\ push' = NoPush
  /\ pull' = [p \in Pulls |-> Resumed(pull[p], unsent)]
  /\ patched' = (patched \/ \E p \in Pulls : pull[p].at = "fullWait")

(* PUT /user/app-state: the whole state over the old one (or, when it is   *)
(* too large, a refusal, a failure as any other).                          *)
SavedState == screen

PushPut ==
  /\ push.at = "put"
  /\ snapshot' = SavedState
  /\ dirty' = FALSE
  /\ PushEnds({})
  /\ UNCHANGED <<screen, base, timer, profile, history, bounds>>

(* The server carries the request under way out, or never sees it.         *)
MayArrive ==
  \/ UNCHANGED server
  \/ push.at = "patch" /\ profile' = Patched /\ UNCHANGED snapshot
  \/ push.at = "put" /\ snapshot' = SavedState /\ UNCHANGED profile

PushFails ==
  /\ Pushing
  /\ failures < MaxFailures /\ failures' = failures + 1
  /\ MayArrive
  /\ dirty' = TRUE
  /\ PushEnds(owed)
  /\ UNCHANGED <<screen, base, timer, history, edits, aiEdits, starts>>

-----------------------------------------------------------------------------
(* pullProfile: what is not pushed yet is pushed first.  Pulls are begun   *)
(* by the profile screen and, twice, after a chat.                         *)
PullAt(p, at) == pull' = [pull EXCEPT ![p] = [NoPull EXCEPT !.at = at]]

BeginPull(p) ==
  IF dirty \/ timer
    THEN timer' = FALSE /\ BeginPush /\ PullAt(p, "wait")
    ELSE PullAt(p, "get") /\ UNCHANGED <<timer, push>>

Pull(p) ==
  /\ pull[p].at \in {"none", "profile"}
  /\ BeginPull(p)
  /\ UNCHANGED <<screen, base, dirty, patched, server, history, bounds>>

PullGet(p) ==
  /\ pull[p].at = "get"
  /\ pull' = [pull EXCEPT ![p].at = "apply", ![p].got = profile]
  /\ UNCHANGED <<device, push, server, history, bounds>>

(* applyServerProfile: the copy and the base become what the server sent,  *)
(* also under a push that has captured the copy before.                    *)
PullApply(p) ==
  /\ pull[p].at = "apply"
  /\ screen' = pull[p].got /\ base' = pull[p].got
  /\ StillOwed({}) /\ older' = (push.at = "patch")
  /\ PullAt(p, "none")
  /\ UNCHANGED <<dirty, patched, timer, push, server, bounds>>

PullFails(p) ==
  /\ pull[p].at \in {"app", "get", "apply"}
  /\ failures < MaxFailures /\ failures' = failures + 1
  /\ PullAt(p, IF pull[p].at = "app" THEN "profile" ELSE "none")
  /\ UNCHANGED <<device, push, server, history, edits, aiEdits, starts>>

(* The app is killed at any point and started: pullOrPush asks for the     *)
(* snapshot first, then pulls the profile.                                 *)
AppStart(p) ==
  /\ starts < MaxStarts /\ starts' = starts + 1
  /\ timer' = FALSE
  /\ MayArrive
  /\ push' = NoPush
  /\ pull' = [q \in Pulls |-> IF q = p THEN [NoPull EXCEPT !.at = "app"] ELSE NoPull]
  /\ UNCHANGED <<screen, base, dirty, patched, history, edits, aiEdits, failures>>

PullAppGet(p) ==
  /\ pull[p].at = "app"
  /\ pull' = [pull EXCEPT ![p].at = "appApply", ![p].got = snapshot]
  /\ UNCHANGED <<device, push, server, history, bounds>>

Restores(p) == pull[p].got # None /\ ~ dirty

(* applySnapshot, unless there is something to push; a device that has not *)
(* sent its profile by the current rules sends all of it once.             *)
PullAppState(p) ==
  /\ pull[p].at = "appApply"
  /\ IF Restores(p)
       THEN /\ screen' = pull[p].got
            /\ StillOwed({f \in owed : pull[p].got[f] = screen[f]}) /\ older' = TRUE
            /\ IF patched
                 THEN PullAt(p, "profile") /\ UNCHANGED push
                 ELSE PullAt(p, "fullWait")
                      /\ push' = IF Pushing THEN push ELSE [StartedPush(TRUE) EXCEPT !.patch = screen']
       ELSE /\ BeginPush
            /\ PullAt(p, "appWait")
            /\ UNCHANGED <<screen, history>>
  /\ UNCHANGED <<base, dirty, patched, timer, server, bounds>>

Next ==
  \/ \E f \in Fields, v \in Values : Edit(f, v) \/ AiEdit(f, v)
  \/ TimerFires \/ PushPatch \/ PushPut \/ PushFails
  \/ \E p \in Pulls : Pull(p) \/ PullGet(p) \/ PullApply(p) \/ PullFails(p)
  \/ \E p \in Pulls : AppStart(p) \/ PullAppGet(p) \/ PullAppState(p)

Spec == Init /\ [][Next]_vars

-----------------------------------------------------------------------------
TypeOK ==
  /\ screen \in Profiles /\ base \in Profiles /\ profile \in Profiles
  /\ snapshot \in Profiles \cup {None}
  /\ dirty \in BOOLEAN /\ patched \in BOOLEAN /\ timer \in BOOLEAN /\ older \in BOOLEAN
  /\ push \in [at : {"none", "patch", "put"}, patch : Profiles \cup {None},
               fields : SUBSET Fields, free : SUBSET Fields]
  /\ pull \in [Pulls -> [at : {"none", "app", "appApply", "appWait", "fullWait", "profile", "wait", "get", "apply"},
                         got : Profiles \cup {None}, exposed : SUBSET Fields]]
  /\ owed \subseteq Fields /\ late \subseteq Fields
  /\ edits \in 0..MaxEdits /\ aiEdits \in 0..MaxAiEdits
  /\ failures \in 0..MaxFailures /\ starts \in 0..MaxStarts

(* What the user edited reaches the server through failing requests, a     *)
(* killed app and overlapping pulls, but for three windows the code leaves *)
(* open: an edit made while a push was under way may lose its mark to the  *)
(* end of that push (account_sync.dart:139, 153), and a pull overwrites an *)
(* edit made after its check (:82), or one whose push, which it waited     *)
(* for, failed (:84-87).  Every other unsent edit is marked on disk, and   *)
(* no pull and no snapshot is put over it.                                 *)
NoEditForgotten == dirty \/ owed \subseteq late
NoEditOverwritten ==
  \A f \in owed : screen'[f] # screen[f] /\ edits' = edits
    => f \in late \/ \E p \in Pulls : f \in pull[p].exposed /\ pull'[p] = NoPull

(* What the AI learned: a push overwrites on the server only what the user *)
(* edited on this device (:13), unless the copy was overwritten since by a *)
(* snapshot, or by a pull while a push was under way, and no profile       *)
(* pulled after it, or the push is the one of all fields (:65-68).         *)
PushesOnlyEdits ==
  \A f \in Fields : profile'[f] # profile[f] /\ aiEdits' = aiEdits => f \in push.free

EditsSurvive == [][NoEditForgotten' /\ NoEditOverwritten /\ PushesOnlyEdits]_vars

(* account_sync.dart:20: while the device holds an edit it could not push, *)
(* the device's value wins; no pull may overwrite it.                      *)
DeviceWins ==
  [][\A f \in owed, p \in Pulls : pull[p].at = "apply" /\ dirty /\ pull'[p] = NoPull => screen'[f] = screen[f]]_vars
=============================================================================
