------------------------------- MODULE Advice -------------------------------
(***************************************************************************)
(* What one answer of the assistant tells a person in a disaster           *)
(* (guardian_ai/action.py, location.py, flood.py, tools.py): the manager   *)
(* decides the phase, the location agent may compute a route, the advisor  *)
(* decides whether the person is in danger, computes the evacuation route, *)
(* and has a language model write the steps.  Hazard zones, shelters and   *)
(* servers change between any two reads, so what a read returns is a free  *)
(* choice; so is what the language model writes.                           *)
(***************************************************************************)
EXTENDS Naturals, Sequences, SequencesExt

CONSTANTS MaxShelters,  \* bound: shelters read (CANDIDATES in the code)
          MaxSteps,     \* bound: steps the language model writes
          Given,        \* bound: the combinations of places looked at
          None

VARIABLES
  at,      \* the node reached
  ask,     \* the places the question and the app give
  agents,  \* the specialists that answered
  phase,   \* the phase of the disaster
  found,   \* the location agent's route, or None
  read,    \* the zone read at the person's place, and what was said of moving
  plan     \* the advisor's decision and steps

vars == <<at, ask, agents, phase, found, read, plan>>

(* said: a place was named and found; here: the person is there; pin: the  *)
(* conversation's origin; gps: the app sent a position; home: of profile.  *)
Asks == [said : BOOLEAN, here : BOOLEAN, pin : BOOLEAN, gps : BOOLEAN, home : BOOLEAN]
AdviceAssumption == MaxShelters \in Nat /\ MaxSteps \in Nat /\ Given \subseteq Asks

Unread == [zone |-> "outside", canMove |-> "unknown"]
NoPlan == [path |-> "none", emergency |-> FALSE, needRoute |-> FALSE, question |-> FALSE,
           route |-> None, steps |-> <<>>]

Init ==
  /\ at = "manager"
  /\ ask \in {a \in Given : a.here => a.said}
  /\ agents = {} /\ phase = "none" /\ found = None /\ read = Unread /\ plan = NoPlan

-----------------------------------------------------------------------------
(* Which place stands for what.                                            *)
PickLocation(a) ==
  IF a.said THEN "said" ELSE IF a.pin THEN "pin" ELSE IF a.gps THEN "gps"
  ELSE IF a.home THEN "home" ELSE "centre"

(* Where the person is: a place only asked about is not it.                *)
MutantAskedPlace(a) == PickLocation(a)
PickUserLocation(a) ==
  PickLocation(IF a.here THEN a ELSE [a EXCEPT !.said = FALSE])

Known(a) == PickUserLocation(a) # "centre"
AskedPlace(a) == a.said /\ ~ a.here
FromCurrent(a) == [a EXCEPT !.said = FALSE, !.here = FALSE, !.pin = FALSE]
Elsewhere(a) == a.pin \/ a.here

-----------------------------------------------------------------------------
(* Reads: get_weather_warnings, get_risk_at and hazards_at, get_safe_      *)
(* shelters, find_place, request_route.  Each catches every exception.     *)
Warnings == {{"unread"}} \cup SUBSET {"active", "planned", "lifted"}
ZoneReads == {"unread", "inside", "outside"}
ShelterLists == SeqOf({"safe", "unsafe"}, MaxShelters)   \* nearest first; none when unread
Places == {"none", "unread", "inside", "outside"}    \* the destination asked for

DecidePhase(warned, mine, asked) ==
  IF (warned = {"unread"} /\ mine = "unread") \/ "active" \in warned \/ "inside" \in {mine, asked}
  THEN "during"
  ELSE IF "planned" \in warned THEN "before" ELSE IF "lifted" \in warned THEN "after" ELSE "none"

Manager ==
  /\ at = "manager"
  /\ \E warned \in Warnings, mine \in ZoneReads, asked \in ZoneReads :
       /\ asked = "outside" \/ AskedPlace(ask)
       /\ phase' = DecidePhase(warned, mine, asked)
  /\ agents' \in SUBSET {"hazards", "route", "recovery"}
  /\ at' = IF "route" \in agents' THEN "location" ELSE "advisor"
  /\ UNCHANGED <<ask, found, read, plan>>

-----------------------------------------------------------------------------
(* location.collect: the nearest safe shelter, else the nearest; a place   *)
(* known to be in a zone gives way to a safe shelter.                      *)
Chosen(shelters) ==
  IF shelters = <<>> THEN "none" ELSE IF "safe" \in Range(shelters) THEN "safe" ELSE "unsafe"

RouteTarget(place, shelter) ==
  IF place # "none" /\ ~ (place = "inside" /\ shelter = "safe") THEN "place" ELSE shelter

(* The routes collect and route_info may return from `origin`.  On the sea *)
(* the shelters are read again, around the port, unless a place was found. *)
Routes(origin, places) ==
  {IF target = "none" \/ ~ ok THEN None ELSE [from |-> origin, to |-> target] :
     target \in {RouteTarget(place, Chosen(shelters)) : place \in places, shelters \in ShelterLists},
     ok \in BOOLEAN}

LocationRouteAgent ==
  /\ at = "location" /\ at' = "advisor"
  /\ found' \in Routes(PickUserLocation(ask), Places)
  /\ UNCHANGED <<ask, agents, phase, read, plan>>

-----------------------------------------------------------------------------
(* action.decide.  canMove is what the question says; hard, what the       *)
(* profile says.                                                           *)
MutantSeenOnly(zone, known) == zone = "inside"
InDanger(zone, known) == zone # "outside" \/ ~ known

Decide(zone, canMove, hard, damage) ==
  IF phase \in {"none", "before"} THEN [NoPlan EXCEPT !.path = "checklist"]
  ELSE IF phase = "after" THEN [NoPlan EXCEPT !.path = "after", !.question = damage = "unknown"]
  ELSE IF ~ InDanger(zone, Known(ask)) THEN [NoPlan EXCEPT !.path = "safe"]
  ELSE [NoPlan EXCEPT !.path = "danger",
          !.emergency = canMove = "no",
          !.needRoute = canMove # "no",
          !.question = canMove = "unknown" /\ hard]

(* No specialist answered, or only recovery support did: no decision.  A   *)
(* question about the situation only gets no steps, unless in danger.      *)
Advise ==
  /\ at = "advisor"
  /\ \/ /\ agents \subseteq {"recovery"}
        /\ at' = "done" /\ UNCHANGED <<read, plan>>
     \/ /\ ~ agents \subseteq {"recovery"}
        /\ \E zone \in ZoneReads, canMove \in {"yes", "no", "unknown"}, hard \in BOOLEAN,
              damage \in {"yes", "no", "unknown"}, wanted \in BOOLEAN :
             LET decision == Decide(zone, canMove, hard, damage)
                 answered == wanted \/ decision.path = "danger"
             IN  /\ read' = [zone |-> zone, canMove |-> canMove]
                 /\ plan' = IF answered THEN decision ELSE [NoPlan EXCEPT !.path = "situation"]
                 /\ at' = IF ~ answered THEN "done"
                          ELSE IF decision.needRoute THEN "evacuation" ELSE "writer"
  /\ UNCHANGED <<ask, agents, phase, found>>

(* _route_evidence: the location agent's route unless it starts elsewhere; *)
(* else a new one from the current position to a shelter.                  *)
Reusable == found # None /\ ~ Elsewhere(ask)

EvacuationRoute ==
  /\ at = "evacuation" /\ at' = "writer"
  /\ \E route \in IF Reusable THEN {found} ELSE Routes(PickUserLocation(FromCurrent(ask)), {"none"}) :
       plan' = [plan EXCEPT !.route = route]
  /\ UNCHANGED <<ask, agents, phase, found, read>>

-----------------------------------------------------------------------------
(* The steps: calls of 119, sentences that name the route's destination,   *)
(* anything else.  with_route_first moves the route's sentence to the      *)
(* front, or adds one; a call of 119 stays before it.                      *)
StepKinds == {"119", "route", "other"}

FirstRoute(steps) == CHOOSE i \in DOMAIN steps : steps[i] = "route" /\ \A j \in 1..(i - 1) : steps[j] # "route"
MutantRouteKept(steps) == IF "route" \in Range(steps) THEN steps ELSE <<"route">> \o steps
WithRouteFirst(steps) ==
  LET at0 == IF steps # <<>> /\ steps[1] = "119" THEN 1 ELSE 0
      rest == IF "route" \in Range(steps) THEN RemoveAt(steps, FirstRoute(steps)) ELSE steps
  IN  IF "route" \in Range(steps) /\ FirstRoute(steps) <= at0 + 1 THEN steps
      ELSE InsertAt(rest, at0 + 1, "route")

TemplateSteps(emergency, route, guides) ==
  (IF emergency THEN <<"119">> ELSE <<>>) \o (IF route # None THEN <<"route">> ELSE <<>>) \o guides

(* The writer's steps, none when it fails.                                 *)
Written(emergency, written) ==
  IF emergency /\ written # <<>> /\ written[1] # "119" THEN <<"119">> \o written ELSE written

Write ==
  /\ at = "writer" /\ at' = "done"
  /\ \E written \in SeqOf(StepKinds, MaxSteps), guides \in {<<>>, <<"other">>} :
       LET own == Written(plan.emergency, written)
           steps == IF own = <<>> THEN TemplateSteps(plan.emergency, plan.route, guides) ELSE own
       IN  plan' = [plan EXCEPT !.steps =
                      IF plan.needRoute /\ plan.route # None THEN WithRouteFirst(steps) ELSE steps]
  /\ UNCHANGED <<ask, agents, phase, found, read>>

Next == Manager \/ LocationRouteAgent \/ Advise \/ EvacuationRoute \/ Write

Spec == Init /\ [][Next]_vars

-----------------------------------------------------------------------------
Kinds == {"place", "safe", "unsafe"}
RouteRecords == [from : {"said", "pin", "gps", "home", "centre"}, to : Kinds] \cup {None}

(* The type of the state.                                                  *)
TypeOK ==
  /\ at \in {"manager", "location", "advisor", "evacuation", "writer", "done"}
  /\ ask \in Asks /\ agents \subseteq {"hazards", "route", "recovery"}
  /\ phase \in {"none", "before", "during", "after"}
  /\ found \in RouteRecords
  /\ read \in [zone : ZoneReads, canMove : {"yes", "no", "unknown"}]
  /\ plan.path \in {"none", "checklist", "after", "safe", "danger", "situation"}
  /\ {plan.emergency, plan.needRoute, plan.question} \subseteq BOOLEAN
  /\ plan.route \in RouteRecords /\ plan.steps \in Seq(StepKinds)

(* action.py:138-144: in a disaster, a person who is in a zone, or may be, *)
(* is told first of all to call 119, if unable to move, and else where to  *)
(* go, if there is a route: whatever the question was about, whichever     *)
(* read failed, and whatever the language model wrote or left out.         *)
DangerAnswered ==
  at = "done" /\ phase = "during" /\ ~ agents \subseteq {"recovery"}
  /\ (read.zone # "outside" \/ ~ (ask.here \/ ask.pin \/ ask.gps \/ ask.home)) =>
    IF read.canMove = "no" THEN plan.steps # <<>> /\ Head(plan.steps) = "119"
    ELSE plan.route # None =>
           \/ plan.steps # <<>> /\ Head(plan.steps) = "route"
           \/ Len(plan.steps) > 1 /\ SubSeq(plan.steps, 1, 2) = <<"119", "route">>

(* action.py:262: the evacuation route starts where the person is, not at  *)
(* a place the question or the conversation named.                         *)
EvacuationFromHere ==
  plan.route # None =>
    plan.route.from = IF ask.gps THEN "gps" ELSE IF ask.home THEN "home" ELSE "centre"

(* action.py:303: the route of the steps leads to a shelter.               *)
EvacuatesToShelter == plan.route # None => plan.route.to \in {"safe", "unsafe"}
=============================================================================
