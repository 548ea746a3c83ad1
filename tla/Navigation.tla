----------------------------- MODULE Navigation -----------------------------
(***************************************************************************)
(* A walk guided by the route service (route/guardian_route) and the app's *)
(* RouteMap: a route around the hazard zones is computed, the phone has it *)
(* checked as the person walks, zones come and go, and the service sees    *)
(* them through a cache that is refilled when it is old.  Roads are the    *)
(* edges of a small map; GraphHopper, which answers with the cheapest way, *)
(* takes some roads through a zone for roads beside it, and the service    *)
(* widens zones to make it see them.                                       *)
(***************************************************************************)
EXTENDS Naturals, Sequences, FiniteSets, SequencesExt

CONSTANTS
  Zones,        \* judged zones: each a hazard row with its own id
  Nodes, Start, Goal,
  Legs, To,     \* roads in one direction, and where they lead
  Ways,         \* Ways[n]: the ways from n to Goal, sequences of legs
  Length,       \* Length[leg]
  Covers,       \* Covers[z]: the legs that z touches
  Holds,        \* Holds[z]: the nodes inside z
  Noticed,      \* Noticed[z][w + 1]: those GraphHopper sees, z widened w times
  MaxChanges, MaxFailures, MaxStrays,
  None

WidenSteps == 2                                   \* WIDEN_STEPS_M has two

(* A way ends where it comes to the goal.                                  *)
ASSUME NavigationAssumption ==
  /\ Start \in Nodes \ {Goal} /\ Goal \in Nodes /\ To \in [Legs -> Nodes] /\ None \notin Seq(Legs)
  /\ \A n \in Nodes \ {Goal} : Ways[n] # {} /\ Ways[n] \subseteq Seq(Legs) \ {<<>>}
  /\ \A n \in Nodes \ {Goal} : \A way \in Ways[n] : \A i \in 1..(Len(way) - 1) : To[way[i]] # Goal
  /\ \A leg \in Legs : Length[leg] \in Nat \ {0}
  /\ \A z \in Zones : Covers[z] \subseteq Legs

VARIABLES
  zones,       \* the zones in force, as the server's API lists them
  cached, old, \* RiskAreaHazardSource: the last list, None before the first
  node,        \* where the person is
  strategy,    \* the route asked for: "safest", or "shortest" (no avoidance)
  path,        \* the legs ahead on the phone's route, None before the first
  off,         \* the person has left the route
  warned,      \* zones the phone names: the route's still_inside, the last check's
  call,        \* the check under way: what its first reading found
  changes, failures, strays

vars == <<zones, cached, old, node, strategy, path, off, warned, call, changes, failures, strays>>

Init ==
  /\ zones \in SUBSET Zones
  /\ cached = None /\ old = TRUE
  /\ node = Start /\ strategy \in {"safest", "shortest"}
  /\ path = None /\ off = FALSE /\ warned = {} /\ call = None
  /\ changes = 0 /\ failures = 0 /\ strays = 0

-----------------------------------------------------------------------------
Touches(way, z) == Range(way) \cap Covers[z] # {}
Inside(way, list) == {z \in list : Touches(way, z)}

(* gh.route: the cheapest way, a leg noticed inside a zone costing 1000    *)
(* times its length (AVOID_PRIORITY).                                      *)
LegCost(leg, list, wide) ==
  Length[leg] * IF \E z \in list : leg \in Noticed[z][IF z \in wide.zones THEN wide.by + 1 ELSE 1]
                THEN 1000 ELSE 1
Cost(way, list, wide) ==
  LET to[i \in 0..Len(way)] == IF i = 0 THEN 0 ELSE to[i - 1] + LegCost(way[i], list, wide)
  IN  to[Len(way)]
Cheapest(n, list, wide) ==
  CHOOSE way \in Ways[n] :
    \A other \in Ways[n] : Cost(way, list, wide) <= Cost(other, list, wide)

Plain == [zones |-> {}, by |-> 0]

(* _widen_until_clear: zones at neither end that the way crosses all the   *)
(* same are widened, until a way crosses none of those.                    *)
AtAnEnd(z, n) == {n, Goal} \cap Holds[z] # {}
WidenUntilClear(n, list, way) ==
  LET crossed == {z \in Inside(way, list) : ~ AtAnEnd(z, n)}
      retry(w) == Cheapest(n, list, [zones |-> crossed, by |-> w])
      clear == {w \in 1..WidenSteps : Inside(retry(w), crossed) = {}}
  IN  IF crossed = {} \/ clear = {} THEN way
      ELSE retry(CHOOSE w \in clear : \A v \in clear : w <= v)

(* route, as a set of triples (which TLC evaluates once): around the zones *)
(* listed, or, for the shortest way, around none.                          *)
SafestRoutes ==
  {<<n, list, WidenUntilClear(n, list, Cheapest(n, list, Plain))>> :
     n \in Nodes \ {Goal}, list \in SUBSET Zones}
Route(n, list) ==
  CHOOSE way \in Ways[n] : <<n, IF strategy = "shortest" THEN {} ELSE list, way>> \in SafestRoutes

-----------------------------------------------------------------------------
(* RiskAreaHazardSource.hazards: the cached list while it is new; else the *)
(* API's; else the last one, or none at all.                               *)
MutantKept == cached
Usable == IF old THEN None ELSE cached

Read(list) ==
  \/ Usable # None /\ list = Usable /\ UNCHANGED <<cached, old, failures>>
  \/ Usable = None /\ list = zones /\ cached' = zones /\ old' = FALSE /\ UNCHANGED failures
  \/ /\ Usable = None /\ failures < MaxFailures /\ failures' = failures + 1
     /\ list = (IF cached = None THEN {} ELSE cached)
     /\ UNCHANGED <<cached, old>>

AskRoute ==
  /\ path = None
  /\ \E list \in SUBSET Zones :
       /\ Read(list)
       /\ path' = Route(node, list)
       /\ warned' = Inside(path', list)
  /\ UNCHANGED <<zones, node, strategy, off, call, changes, strays>>

(* _checkCurrentRoute, every 30 seconds, one at a time; check() reads the  *)
(* zones for the legs ahead, and route() reads them again.                 *)
CheckBegins ==
  /\ path \notin {None, <<>>} /\ call = None
  /\ \E list \in SUBSET Zones :
       /\ Read(list)
       /\ call' = [ahead |-> Inside(path, list)]
  /\ UNCHANGED <<zones, node, strategy, path, off, warned, changes, strays>>

(* A new route is taken when the old one was left, or when it is free of a *)
(* zone that lies ahead; else the zones ahead are only named.              *)
Reroutes(ahead, inside) == off \/ ahead \ inside # {}

CheckEnds ==
  /\ call # None /\ call' = None
  /\ IF ~ off /\ call.ahead = {}
     THEN warned' = {} /\ UNCHANGED <<cached, old, path, off, failures>>
     ELSE \E list \in SUBSET Zones :
            LET way == Route(node, list) IN
              /\ Read(list)
              /\ IF Reroutes(call.ahead, Inside(way, list))
                 THEN path' = way /\ warned' = Inside(way, list) /\ off' = FALSE
                 ELSE warned' = call.ahead /\ UNCHANGED <<path, off>>
  /\ UNCHANGED <<zones, node, strategy, changes, strays>>

(* GraphHopper is down, there is no way, or the answer is lost: the phone  *)
(* keeps the route and checks again.                                       *)
CheckFails ==
  /\ call # None /\ call' = None
  /\ failures < MaxFailures /\ failures' = failures + 1
  /\ UNCHANGED <<zones, cached, old, node, strategy, path, off, warned, changes, strays>>

-----------------------------------------------------------------------------
(* The person walks a leg of the route, or another one (a leg takes longer *)
(* than a check).                                                          *)
Walk ==
  /\ path \notin {None, <<>>} /\ ~ off /\ call = None
  /\ node' = To[Head(path)] /\ path' = Tail(path)
  /\ UNCHANGED <<zones, cached, old, strategy, off, warned, call, changes, failures, strays>>

Stray ==
  /\ strays < MaxStrays /\ strays' = strays + 1
  /\ path \notin {None, <<>>} /\ call = None
  /\ \E way \in Ways[node] :
       /\ Head(way) # Head(path) /\ To[Head(way)] # Goal
       /\ node' = To[Head(way)]
  /\ off' = TRUE
  /\ UNCHANGED <<zones, cached, old, strategy, path, warned, call, changes, failures>>

(* The risk engine judges anew; the cache gets old.                        *)
ZonesChange ==
  /\ changes < MaxChanges /\ changes' = changes + 1
  /\ zones' \in SUBSET Zones \ {zones}
  /\ UNCHANGED <<cached, old, node, strategy, path, off, warned, call, failures, strays>>

CacheAges ==
  /\ ~ old /\ old' = TRUE
  /\ UNCHANGED <<zones, cached, node, strategy, path, off, warned, call, changes, failures, strays>>

Next ==
  \/ AskRoute \/ CheckBegins \/ CheckEnds \/ CheckFails
  \/ Walk \/ Stray \/ ZonesChange \/ CacheAges

Spec == Init /\ [][Next]_vars

(* The phone's timer, the service's answers, and time.                     *)
FairSpec ==
  /\ Spec
  /\ WF_vars(AskRoute) /\ WF_vars(CheckBegins) /\ WF_vars(CheckEnds) /\ WF_vars(CacheAges)

-----------------------------------------------------------------------------
(* The type of the state.                                                  *)
TypeOK ==
  /\ zones \subseteq Zones /\ warned \subseteq Zones
  /\ cached = None \/ cached \subseteq Zones
  /\ {old, off} \subseteq BOOLEAN
  /\ node \in Nodes
  /\ path = None \/ path \in Seq(Legs)
  /\ call = None \/ call.ahead \subseteq Zones

(* service.py:327: a zone on the way ahead, new or unavoidable, is         *)
(* announced or avoided, however the zones changed before, through a       *)
(* cache, failing reads and lost answers, unless it ends.                  *)
Ahead(z) == path \notin {None, <<>>} /\ z \in zones /\ Touches(path, z)
ZonesAnnounced == []<>(\A z \in Zones : Ahead(z) => z \in warned)
=============================================================================
