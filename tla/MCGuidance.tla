----------------------------- MODULE MCGuidance ------------------------------
(* Nine parts of the guidance a person gets that share no state: the       *)
(* assistant's conversations, the content of one advice, what its numbers  *)
(* rest on, the questions of a drill, what the assistant spends, a guided  *)
(* walk, the text about a drawn route, the way of a boat and a rescue      *)
(* team's round of visits.  TLC explores each on its own, in one run.      *)
EXTENDS Navigation

CONSTANTS
  Users, Conversations, Questions, MAX_RETRY, MaxLapses, MaxRestarts,
  MaxShelters, MaxSteps, Given,
  Teams, MaxPasses, MaxReadChanges, MaxInventions,
  MaxReads, MaxTurns, MaxOutages,
  Costs, Ratios, MaxCalls, MaxMonths, MaxAborts, Unreadable,
  Stops, Distances, UNREACHABLE, Tiers, MaxUnreachable,
  Rows, Columns, Berths, Order, MaxWalls, MaxNear, Shelters,
  Callers, CACHE_S, MAX_ITEMS, MaxAsks, MaxClock, MaxWeather

VARIABLES
  part,   \* what a behaviour is about
  owner, used, aged, saved, last, turn, overlapped, lapses, restarts,
  at, ask, agents, phase, found, read, plan,
  stepAt, source, pass, retries, pending, results, cited, text, voice, wrote, checked, changed, inventions,
  stage, tiers, cost, plans,
  asking, todo, waiting, kept, aging, loader, learnt, turns, outages,
  ledger, month, recording, counted, logged, aborts,
  legAt, walls, near, berth, reached, prev, heap, left, lines, bent, cleared, rescue,
  clock, outside, stored, work, shown, asks, weathers

Talk == INSTANCE Guardian
Answer == INSTANCE Advice
Grounds == INSTANCE Evidence WITH MaxChanges <- MaxReadChanges, changes <- changed
Round == INSTANCE Visits
Spend == INSTANCE Usage
Boat == INSTANCE SeaRoute

(* A pin on the map, when the question names no place and no home is known. *)
MCGiven ==
  {a \in [said : BOOLEAN, here : BOOLEAN, pin : BOOLEAN, gps : BOOLEAN, home : BOOLEAN] :
     a.pin => ~ (a.said \/ a.home)}

(* A small map: from home over a fork to the goal by the shore or the      *)
(* hill, or around by the ring road.  One zone on the shore that needs     *)
(* widening twice to be seen, one on the hill, one around the goal.        *)
MCTo == [out |-> "fork", back |-> "home", shore |-> "goal", hill |-> "goal", ring |-> "goal"]
MCLength == [out |-> 1, back |-> 1, shore |-> 1, hill |-> 2, ring |-> 5]
MCWays ==
  [home |-> {<<"out", "shore">>, <<"out", "hill">>, <<"ring">>},
   fork |-> {<<"shore">>, <<"hill">>, <<"back", "ring">>}, goal |-> {}]
MCCovers == [z1 |-> {"shore"}, z2 |-> {"hill"}, z3 |-> {"shore", "hill", "ring"}]
MCHolds == [z1 |-> {}, z2 |-> {}, z3 |-> {"goal"}]
MCNoticed ==
  [z1 |-> <<{}, {}, {"shore"}>>, z2 |-> <<{}, {"hill"}, {"hill"}>>,
   z3 |-> <<{"ring"}, {"ring"}, {"ring", "hill", "shore"}>>]

(* Two ports on a small grid, the boat in its corner: the nearer port's    *)
(* berth is at sea, the other's perhaps hidden by land.                    *)
MCOrder == <<"p1", "p2">>
MCBerths == [p1 |-> {<<2, 3>>}, p2 |-> {<<1, 3>>, None}]

(* The statements of the assistant's tools and three sensors: one that the *)
(* scenario gives a value, one it does not, and one of ultraviolet.        *)
MCReads ==
  [risk |-> {"risk_assessments"}, runs |-> {"ingest_runs"}, gauges |-> {"observations", "stations"},
   news |-> {"weather_warnings", "disaster_messages", "v_latest_forecasts"},
   shelters |-> {"shelters", "risk_assessments"}, guides |-> {"action_guides"},
   route |-> {"risk_assessments"}]
MCSensors ==
  [gauge |-> [kind |-> "water", scenario |-> TRUE], tide |-> [kind |-> "tide", scenario |-> FALSE],
   sun |-> [kind |-> "uv", scenario |-> FALSE]]
Tools == INSTANCE DrillData WITH Askers <- Questions, Reads <- MCReads, Sensors <- MCSensors

(* A way on land around a zone and through one, after which a read of the  *)
(* zones failed; one by sea computed without the zones and with all there  *)
(* is to be careful of; a round of visits through a zone.                  *)
MCRoutes ==
  {[kind |-> "land", avoided |-> TRUE, passing |-> TRUE, known |-> FALSE, cautions |-> <<"steep">>],
   [kind |-> "sea", avoided |-> FALSE, passing |-> FALSE, known |-> FALSE,
    cautions |-> <<"bend", "steep", "steps">>],
   [kind |-> "visits", avoided |-> FALSE, passing |-> TRUE, known |-> TRUE, cautions |-> <<>>]}
Brief == INSTANCE RouteBrief WITH Routes <- MCRoutes

(* The assumptions of the instantiated modules on their constants.         *)
ASSUME GuidanceAssumption ==
  /\ Talk!GuardianAssumption /\ Answer!AdviceAssumption
  /\ Grounds!EvidenceAssumption /\ Round!VisitsAssumption /\ Spend!UsageAssumption
  /\ Brief!RouteBriefAssumption /\ Tools!DrillDataAssumption /\ Boat!SeaRouteAssumption

talkVars == <<owner, used, aged, saved, last, turn, overlapped, lapses, restarts>>
answerVars == <<at, ask, agents, phase, found, read, plan>>
groundVars == <<stepAt, source, pass, retries, pending, results, cited, text, voice, wrote, checked,
                changed, inventions>>
roundVars == <<stage, tiers, cost, plans>>
toolVars == <<asking, todo, waiting, kept, aging, loader, learnt, turns, outages>>
spendVars == <<ledger, month, recording, counted, logged, aborts>>
boatVars == <<legAt, walls, near, berth, reached, prev, heap, left, lines, bent, cleared, rescue>>
briefVars == <<clock, outside, stored, work, shown, asks, weathers>>
newVars == <<toolVars, spendVars, boatVars, briefVars>>
allVars == <<part, talkVars, answerVars, groundVars, vars, roundVars, newVars>>

AnyInit ==
  /\ part \in {"talk", "answer", "grounds", "tools", "spend", "walk", "brief", "boat", "round"}
  /\ Talk!Init /\ Answer!Init /\ Grounds!Init /\ Tools!Init /\ Spend!Init /\ Init /\ Round!Init /\ Brief!Init
  /\ part = "answer" \/ \A place \in DOMAIN ask : ~ ask[place]
  /\ part = "walk" \/ (zones = {} /\ strategy = "safest")
  /\ part = "round" \/ \A k \in DOMAIN tiers : tiers[k] = 1
  /\ part = "spend" \/ ledger = None
  /\ IF part = "boat" THEN Boat!Init
     ELSE walls = {} /\ near = {} /\ berth = [p \in {"p1", "p2"} |-> <<2, 3>>] /\ Boat!Search

InTalk(A) == part = "talk" /\ A /\ UNCHANGED <<part, answerVars, groundVars, vars, roundVars, newVars>>
InWalk(A) == part = "walk" /\ A /\ UNCHANGED <<part, talkVars, answerVars, groundVars, roundVars, newVars>>
InNew(A) == A /\ UNCHANGED <<part, talkVars, answerVars, groundVars, vars, roundVars>>

AnyNext ==
  \/ InTalk(Talk!Next)
  \/ part = "answer" /\ Answer!Next /\ UNCHANGED <<part, talkVars, groundVars, vars, roundVars, newVars>>
  \/ part = "grounds" /\ Grounds!Next /\ UNCHANGED <<part, talkVars, answerVars, vars, roundVars, newVars>>
  \/ InWalk(Next)
  \/ part = "round" /\ Round!Next /\ UNCHANGED <<part, talkVars, answerVars, groundVars, vars, newVars>>
  \/ part = "tools" /\ InNew(Tools!Next /\ UNCHANGED <<spendVars, boatVars, briefVars>>)
  \/ part = "spend" /\ InNew(Spend!Next /\ UNCHANGED <<toolVars, boatVars, briefVars>>)
  \/ part = "boat" /\ InNew(Boat!Next /\ UNCHANGED <<toolVars, spendVars, briefVars>>)
  \/ part = "brief" /\ InNew(Brief!Next /\ UNCHANGED <<toolVars, spendVars, boatVars>>)

AnySpec == AnyInit /\ [][AnyNext]_allVars

(* To bound the states further: land in the way of the boat or cells close *)
(* to the shore; the tiers up to renumbering the first and the last house; *)
(* and with a pair of houses that has no way, the team starts near all it  *)
(* can reach.  None of these steps is under fairness.                      *)
BoundedInit ==
  /\ AnyInit
  /\ part = "boat" => walls = {} \/ near = {}
  /\ part = "round" => tiers[1] >= tiers[Stops] /\ \E k \in DOMAIN tiers : tiers[k] = 1
NearAtFirst ==
  part = "round" /\ cost # None /\ (\E p \in DOMAIN cost : cost[p] = UNREACHABLE) =>
    \A k \in DOMAIN tiers : cost[<<0, k>>] \in {1, UNREACHABLE}
BoundedNext == AnyNext /\ NearAtFirst'

FairAnySpec ==
  /\ BoundedInit /\ [][BoundedNext]_allVars
  /\ \A q \in Questions : WF_talkVars(part = "talk" /\ Talk!Answering(q))
  /\ WF_vars(part = "walk" /\ AskRoute) /\ WF_vars(part = "walk" /\ CheckBegins)
  /\ WF_vars(part = "walk" /\ CheckEnds) /\ WF_vars(part = "walk" /\ CacheAges)

(* See Guardian, Advice, Evidence, RouteBrief, DrillData, Usage, SeaRoute  *)
(* and Visits; ZonesAnnounced: Navigation.  The type and the sea way are   *)
(* looked at in the part that changes them.                                *)
AnyTypeOK ==
  /\ part = "talk" => Talk!TypeOK
  /\ part = "answer" => Answer!TypeOK
  /\ part = "grounds" => Grounds!TypeOK
  /\ part = "walk" => TypeOK
  /\ part = "round" => Round!TypeOK
  /\ part = "tools" => Tools!TypeOK
  /\ part = "spend" => Spend!TypeOK
  /\ part = "boat" => Boat!TypeOK
  /\ part = "brief" => Brief!TypeOK
ConversationsApart == Talk!NoForeignMemory /\ Talk!TurnsInOrder
RetryIsReturn == Talk!RetryIsReturn
EveryQuestionEnds == Talk!EveryQuestionEnds
AdviceFits == Answer!DangerAnswered /\ Answer!EvacuationFromHere
HonestAnswer == Grounds!NumbersReadNow /\ Grounds!DoubtIsSaid /\ Brief!BriefIsGrounded
OneWorld == Tools!OneWorld
SpendCounted == Spend!SpendCounted
SeaWayHolds == part = "boat" => Boat!SeaWayHolds
BestOrder == Round!BestOrder
=============================================================================
