------------------------------- MODULE Visits --------------------------------
(***************************************************************************)
(* The order in which a rescue team visits several houses (route/          *)
(* guardian_route/visits.py): GraphHopper measures every pair of points,   *)
(* solve() finds the shortest open walk over all houses, freely or by      *)
(* priority tier, with Held and Karp's dynamic programme, and the whole    *)
(* walk is then routed once more.                                          *)
(***************************************************************************)
EXTENDS Naturals, Sequences, FiniteSets, SequencesExt, FiniteSetsExt, Functions

CONSTANTS Stops,        \* number of houses; 0 is where the team starts
          Distances, UNREACHABLE,
          Tiers,
          MaxUnreachable,   \* bound: pairs without a way
          None

VisitsAssumption ==
  /\ Stops \in Nat \ {0} /\ Distances \subseteq Nat /\ UNREACHABLE \in Nat /\ Tiers \subseteq Nat
  /\ \A d \in Distances : d * Stops < UNREACHABLE
  /\ None \notin [cost : Nat, ids : Seq(1..Stops)]

VARIABLES
  stage,
  tiers,     \* tiers[k] of house k; houses are numbered in the order of their ids
  cost,      \* cost[<<i, j>>]: distance from point i to house j, None before
  plans      \* the orders found: shortest and by priority

vars == <<stage, tiers, cost, plans>>

Houses == 1..Stops
Pairs == {p \in (0..Stops) \X Houses : p[1] # p[2]}

Init ==
  /\ stage = "asked" /\ tiers \in [Houses -> Tiers]
  /\ cost = None /\ plans = None

(* plan: every pair is routed around the blocked zones, else through them  *)
(* (which costs its distance like any other way), else it has no way.      *)
Measure ==
  /\ stage = "asked"
  /\ \E gaps \in SUBSET Pairs :
       /\ Cardinality(gaps) <= MaxUnreachable
       /\ \E way \in [Pairs \ gaps -> Distances] :
            cost' = [p \in Pairs |-> IF p \in gaps THEN UNREACHABLE ELSE way[p]]
       /\ stage' = IF \A k \in Houses : <<0, k>> \in gaps THEN "not found" ELSE "measured"
  /\ UNCHANGED <<tiers, plans>>

-----------------------------------------------------------------------------
(* solve.  While a house of a higher tier is left, none of a lower one is  *)
(* visited.                                                                *)
MutantOnlyFirst(k, visited, byPriority) ==
  byPriority => visited # {} \/ \A other \in Houses : tiers[other] >= tiers[k]
Allowed(k, visited, byPriority) ==
  byPriority => \A other \in Houses \ (visited \cup {k}) : tiers[other] >= tiers[k]

(* (cost, ids) as tuples compare.                                          *)
Before(s, t) == \E i \in DOMAIN s : s[i] < t[i] /\ \A j \in 1..(i - 1) : s[j] = t[j]
AtMost(a, b) == a.cost < b.cost \/ (a.cost = b.cost /\ ~ Before(b.ids, a.ids))
Least(set) == IF set = {} THEN None ELSE CHOOSE a \in set : \A b \in set : AtMost(a, b)

Onto(walk, j, k) ==
  IF walk = None THEN None ELSE [cost |-> walk.cost + cost[<<j, k>>], ids |-> Append(walk.ids, k)]

(* best[visited][k]: the best walk over the houses visited that ends at k, *)
(* found from the best ones over fewer houses.                             *)
BestWalk(best, visited, k, byPriority) ==
  IF k \notin visited \/ ~ Allowed(k, visited \ {k}, byPriority) THEN None
  ELSE IF visited = {k} THEN [cost |-> cost[<<0, k>>], ids |-> <<k>>]
  ELSE Least({Onto(best[visited \ {k}][j], j, k) : j \in visited \ {k}} \ {None})

BestWalks(byPriority) ==
  LET best[visited \in SUBSET Houses] == [k \in Houses |-> BestWalk(best, visited, k, byPriority)]
  IN  best

Solve(byPriority) == Least(Range(BestWalks(byPriority)[Houses]) \ {None}).ids

Leg(order, i) == <<IF i = 1 THEN 0 ELSE order[i - 1], order[i]>>

(* build, twice: the walk is routed as one; a leg without a way fails the  *)
(* whole answer.                                                           *)
Build ==
  LET orders == [shortest |-> Solve(FALSE), priority |-> Solve(TRUE)]
      gap == \E w \in DOMAIN orders, i \in Houses : cost[Leg(orders[w], i)] = UNREACHABLE
  IN  /\ stage = "measured"
      /\ stage' = IF gap THEN "not found" ELSE "answered"
      /\ plans' = orders
      /\ UNCHANGED <<tiers, cost>>

Next == Measure \/ Build

Spec == Init /\ [][Next]_vars

-----------------------------------------------------------------------------
(* The type of the state.                                                  *)
TypeOK ==
  /\ stage \in {"asked", "measured", "answered", "not found"}
  /\ tiers \in [Houses -> Tiers]
  /\ cost = None \/ cost \in [Pairs -> Distances \cup {UNREACHABLE}]
  /\ plans = None \/ \A w \in {"shortest", "priority"} : plans[w] \in [Houses -> Houses]

(* The walks over all houses, and what the priority promises of one.       *)
Orders == {s \in [Houses -> Houses] : IsInjective(s)}
Travel(order) ==
  LET to[i \in 0..Len(order)] == IF i = 0 THEN 0 ELSE to[i - 1] + cost[Leg(order, i)]
  IN  to[Len(order)]
ByTier(order) == \A i, j \in Houses : i < j => tiers[order[i]] <= tiers[order[j]]

(* visits.py:3-11: the order answered is a shortest one of those that keep *)
(* the tiers, or of all; of equals the first by id; never one with a gap   *)
(* while another has none.                                                 *)
BestOrder ==
  plans # None => \A byPriority \in BOOLEAN :
    LET order == plans[IF byPriority THEN "priority" ELSE "shortest"]
        length == Travel(order)
        rivals == {s \in Orders : byPriority => ByTier(s)}
        Worse(s, by) == length < by \/ (length = by /\ ~ Before(s, order))
    IN  order \in rivals /\ \A s \in rivals : Worse(s, Travel(s))
=============================================================================
