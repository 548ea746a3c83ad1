-------------------------------- MODULE Desk ---------------------------------
(***************************************************************************)
(* The responders' desk in one evacuation incident: recording a status,    *)
(* taking a target over or giving it up (PATCH .../targets/{id}), logging  *)
(* a visit, closing the incident (routers/admin.py), and the arrival time  *)
(* and push that go to the resident when a target is taken                 *)
(* (alerts/assignment.py).  A request reads the incident, then the target, *)
(* and writes by what it read; asking the route service in between takes   *)
(* up to three seconds; requests of several responders overlap.            *)
(***************************************************************************)
EXTENDS Integers, FiniteSets

CONSTANTS Responders, Targets,
          MaxActs,      \* bound: requests ever made
          MaxFailures,  \* bound: calls of on_assigned that fail
          None

DeskAssumption ==
  MaxActs \in Nat /\ MaxFailures \in Nat /\ None \notin Responders \cup Targets

VARIABLES
  open,      \* care.incidents.closed_at IS NULL
  status,    \* status[t]: of the target, None when its household was deleted
  assigned,  \* assigned[t]: assigned_to
  eta,       \* eta[t]: whose arrival time assigned_at and assignee_eta_s are
  visits,    \* targets with a visit in care.visit_logs
  told,      \* told[t]: the responder the resident's phone last announced
  act,       \* act[p]: what p asked for, what it has read, and the next step
  acts, failures,
  disturbed  \* history: targets whose last announced assignment met another or failed

vars == <<open, status, assigned, eta, visits, told, act, acts, failures, disturbed>>

Idle == [at |-> "idle"]
TargetStates == {"no_response", "evacuating", "evacuated", "need_help"}

Init ==
  /\ open = TRUE
  /\ status = [t \in Targets |-> "no_response"]
  /\ assigned = [t \in Targets |-> None]
  /\ eta = [t \in Targets |-> None]
  /\ visits = {}
  /\ told = [t \in Targets |-> None]
  /\ act = [p \in Responders |-> Idle]
  /\ acts = 0 /\ failures = 0
  /\ disturbed = {}

Goes(p, next) == act' = [act EXCEPT ![p] = next]
Step(p, label) == Goes(p, [act[p] EXCEPT !.at = label])
Ends(p) == Goes(p, Idle)

(* Other requests that have read target t and are not done with it.        *)
Meeting(p, t) == \E q \in Responders \ {p} : act[q].at \in {"write", "assign", "on_assigned", "push"} /\ act[q].t = t
Disturb(p, t) == disturbed' = IF Meeting(p, t) THEN disturbed \cup {t} ELSE disturbed

(* A request of p: what becomes of t's status and of its assignment, and   *)
(* whether it is a visit.  _open_incident answers 409 once it is closed.   *)
Ask(p, t, new, assign, visit) ==
  /\ act[p] = Idle
  /\ acts < MaxActs /\ acts' = acts + 1
  /\ open
  /\ Goes(p, [at |-> "find", t |-> t, new |-> new, assign |-> assign, visit |-> visit, was |-> None])
  /\ UNCHANGED <<open, status, assigned, eta, visits, told, failures, disturbed>>

(* find_target: 404, or the row whose assigned_to is compared later.       *)
FindTarget(p) ==
  LET t == act[p].t
  IN  /\ act[p].at = "find"
      /\ IF status[t] = None THEN Ends(p)
         ELSE Goes(p, [act[p] EXCEPT !.at = "write", !.was = assigned[t]])
      /\ UNCHANGED <<open, status, assigned, eta, visits, told, acts, failures, disturbed>>

(* VISIT_SQL and evacuation.record (EvacCheck says what else it does); a   *)
(* visit or a history row of a deleted target violates its foreign key,    *)
(* and the request dies.                                                   *)
Write(p) ==
  LET t == act[p].t
      dies == status[t] = None /\ (act[p].visit \/ act[p].new # None)
  IN  /\ act[p].at = "write"
      /\ visits' = IF act[p].visit /\ status[t] # None THEN visits \cup {t} ELSE visits
      /\ status' = IF act[p].new # None /\ status[t] # None THEN [status EXCEPT ![t] = act[p].new] ELSE status
      /\ IF act[p].assign = "keep" \/ dies THEN Ends(p) ELSE Step(p, "assign")
      /\ UNCHANGED <<open, assigned, eta, told, acts, failures, disturbed>>

(* on_assigned runs when a target is given up, and when it is taken by     *)
(* somebody else than the row that was read says.                          *)
MutantOnlyUnassigned(was, new) == new = None \/ was = None
Announces(was, new) == new = None \/ was # new

Assign(p) ==
  LET t == act[p].t
      new == IF act[p].assign = "me" THEN p ELSE None
  IN  /\ act[p].at = "assign"
      /\ assigned' = IF status[t] = None THEN assigned ELSE [assigned EXCEPT ![t] = new]
      /\ IF Announces(act[p].was, new) THEN Step(p, "on_assigned") ELSE Ends(p)
      /\ IF Announces(act[p].was, new) /\ ~ Meeting(p, t)
           THEN disturbed' = disturbed \ {t} ELSE Disturb(p, t)
      /\ UNCHANGED <<open, status, eta, visits, told, acts, failures>>

(* SAVE_SQL after the route's answer, or emptied.                          *)
MutantSavedWord(p) == IF act[p].assign = "me" THEN act[p].assign ELSE None
Saved(p) == IF act[p].assign = "me" THEN p ELSE None

SaveEta(p) ==
  LET t == act[p].t
  IN  /\ act[p].at = "on_assigned"
      /\ eta' = IF status[t] = None THEN eta ELSE [eta EXCEPT ![t] = Saved(p)]
      /\ IF act[p].assign = "me" THEN Step(p, "push") ELSE Ends(p)
      /\ Disturb(p, t)
      /\ UNCHANGED <<open, status, assigned, visits, told, acts, failures>>

Push(p) ==
  LET t == act[p].t
  IN  /\ act[p].at = "push"
      /\ told' = IF status[t] = None THEN told ELSE [told EXCEPT ![t] = p]
      /\ Disturb(p, t)
      /\ Ends(p)
      /\ UNCHANGED <<open, status, assigned, eta, visits, acts, failures>>

(* Whatever goes wrong in on_assigned is logged: the assignment stands.    *)
OnAssignedFails(p) ==
  /\ act[p].at \in {"on_assigned", "push"}
  /\ failures < MaxFailures /\ failures' = failures + 1
  /\ disturbed' = disturbed \cup {act[p].t}
  /\ Ends(p)
  /\ UNCHANGED <<open, status, assigned, eta, visits, told, acts>>

(* The two steps of closing: _open_incident, then the UPDATE.              *)
AskClose(p) ==
  /\ act[p] = Idle
  /\ acts < MaxActs /\ acts' = acts + 1
  /\ open
  /\ Goes(p, [at |-> "close"])
  /\ UNCHANGED <<open, status, assigned, eta, visits, told, failures, disturbed>>

CloseIncident(p) ==
  /\ act[p].at = "close"
  /\ open' = FALSE
  /\ Ends(p)
  /\ UNCHANGED <<status, assigned, eta, visits, told, acts, failures, disturbed>>

(* A household's deletion takes its target and its visits with it.         *)
HouseholdDeleted(t) ==
  /\ status[t] # None
  /\ acts < MaxActs /\ acts' = acts + 1
  /\ status' = [status EXCEPT ![t] = None]
  /\ assigned' = [assigned EXCEPT ![t] = None]
  /\ eta' = [eta EXCEPT ![t] = None]
  /\ visits' = visits \ {t}
  /\ UNCHANGED <<open, told, act, failures, disturbed>>

(* The requests: a status (or only a note), an assignment, both, a visit   *)
(* with or without a status after it (VISIT_STATUS).                       *)
RequestSteps ==
  \E p \in Responders, t \in Targets :
    \/ \E new \in {None, "evacuated", "need_help"}, assign \in {"me", "nobody", "keep"} :
         Ask(p, t, new, assign, FALSE)
    \/ \E new \in {None, "evacuated"} : Ask(p, t, new, "keep", TRUE)

Next ==
  \/ RequestSteps
  \/ \E p \in Responders :
       \/ FindTarget(p) \/ Write(p) \/ Assign(p) \/ SaveEta(p) \/ Push(p) \/ OnAssignedFails(p)
       \/ AskClose(p) \/ CloseIncident(p)
  \/ \E t \in Targets : HouseholdDeleted(t)

Spec == Init /\ [][Next]_vars

(* my_evacuation: the helper's arrival on the resident's card, nobody's    *)
(* when the target is not assigned.                                        *)
MyEvacuation(t) ==
  IF assigned[t] = None THEN [assigned |-> FALSE, eta |-> None] ELSE [assigned |-> TRUE, eta |-> eta[t]]

-----------------------------------------------------------------------------
Acts ==
  {Idle} \cup [at : {"close"}]
    \cup [at : {"find", "write", "assign", "on_assigned", "push"}, t : Targets,
          new : TargetStates \cup {None}, assign : {"me", "nobody", "keep"}, visit : BOOLEAN,
          was : Responders \cup {None}]

(* The type of the state.                                                  *)
TypeOK ==
  /\ open \in BOOLEAN
  /\ status \in [Targets -> TargetStates \cup {None}]
  /\ assigned \in [Targets -> Responders \cup {None}]
  /\ eta \in [Targets -> Responders \cup {None}]
  /\ visits \subseteq Targets
  /\ told \in [Targets -> Responders \cup {None}]
  /\ act \in [Responders -> Acts]
  /\ acts \in 0..MaxActs /\ failures \in 0..MaxFailures
  /\ disturbed \subseteq Targets

(* assignment.py's header: a resident whose visit somebody took is told    *)
(* who comes and when, and reads that person's arrival time: never that of *)
(* an earlier one who gave it up or was replaced.  (Once all requests on   *)
(* the target are through; two that met, and a call of on_assigned that    *)
(* failed, are excepted.)                                                  *)
ResidentKnowsHelper ==
  \A t \in Targets \ disturbed :
    (\A p \in Responders : act[p] = Idle) /\ status[t] # None
      => /\ MyEvacuation(t).assigned => told[t] = assigned[t]
         /\ MyEvacuation(t).eta = assigned[t] /\ eta[t] = assigned[t]
=============================================================================
