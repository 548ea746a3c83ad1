------------------------------ MODULE SeaRoute -------------------------------
(***************************************************************************)
(* The way of somebody in a boat to a shelter (route/guardian_route/sea.py *)
(* and RouteService.sea): Dijkstra's search over the sea cells of a grid   *)
(* to the berths of the nearest ports, the straightening of each way found *)
(* and the choice of the port and of the shelter ashore.                   *)
(* Land lies between the cells of a move (walls); whether a longer line    *)
(* stays off the land is found out when it is asked for.  A unit of        *)
(* distance is half a cell.                                                *)
(***************************************************************************)
EXTENDS Integers, Sequences, FiniteSets, SequencesExt, FiniteSetsExt, Functions

CONSTANTS Rows, Columns,   \* of the grid
          Berths,          \* per port, the cells its berth may snap to
          Order,           \* the candidate ports, the nearest by straight line first
          MaxWalls,        \* bound: moves that cross land
          MaxNear,         \* bound: cells close to the shore
          Shelters,        \* numbers, the nearest to the port first
          None

VARIABLES
  legAt,      \* the step reached
  walls,      \* moves that cross land
  near,       \* cells within CLEARANCE_M of the shore
  berth,      \* berth[p]: the cell of its berth, None when none is in sight
  reached,    \* dist
  prev,       \* the cell before
  heap,
  left,       \* goals not popped yet
  lines,      \* lines[p]: the boat, the cells to it and the berth; None
  bent,       \* bent[p]: the indices kept of that line
  cleared,    \* pieces between points of a line found to be off the land
  rescue      \* the response

seaVars == <<legAt, walls, near, berth, reached, prev, heap, left, lines, bent, cleared, rescue>>

Cells == (1..Rows) \X (1..Columns)
Source == <<1, 1>>
Ports == Range(Order)

SeaRouteAssumption ==
  /\ Rows \in Nat \ {0} /\ Columns \in Nat \ {0}
  /\ Order \in Seq(DOMAIN Berths) \ {<<>>} /\ \A p \in Ports : Berths[p] \subseteq Cells \cup {None}
  /\ Shelters \subseteq Nat \ {0} /\ Shelters # {} /\ IsFiniteSet(Shelters)
  /\ None \notin Cells /\ None \notin Seq(Cells)

Gap(i, j) == IF i < j THEN j - i ELSE i - j
Far(c, d) == 2 * Max({Gap(c[1], d[1]), Gap(c[2], d[2])}) + Min({Gap(c[1], d[1]), Gap(c[2], d[2])})
Adjacent(c, d) == Far(c, d) \in {2, 3}
Moves == {{m[1], m[2]} : m \in {n \in Cells \X Cells : Adjacent(n[1], n[2])}}

(* cell_of and is_at_sea are past: the boat is at sea and in its cell.     *)
Search ==
  /\ legAt = "search"
  /\ reached = [c \in {Source} |-> 0]
  /\ prev = [c \in {} |-> None]
  /\ heap = {<<0, Source>>}
  /\ left = Range(berth) \ {None}
  /\ lines = [p \in Ports |-> None]
  /\ bent = [p \in Ports |-> <<1>>] /\ cleared = [p \in Ports |-> {}]
  /\ rescue = None

Init ==
  /\ walls \in UNION {kSubset(k, Moves) : k \in 0..MaxWalls}
  /\ near \in UNION {kSubset(k, Cells) : k \in 0..MaxNear}
  /\ berth \in [Ports -> UNION {Berths[p] : p \in Ports}] /\ \A p \in Ports : berth[p] \in Berths[p]
  /\ Search

-----------------------------------------------------------------------------
(* sea_paths: a move near the shore costs NEAR_COST times its length.      *)
Cost(c, d) == Far(c, d) * (IF d \in near THEN 3 ELSE 1)
MutantOffTheMap(c) == {d \in (0..Rows) \X (0..Columns) : Adjacent(c, d) /\ {c, d} \notin walls}
Around(c) == {d \in Cells : Adjacent(c, d) /\ {c, d} \notin walls}
Shorter(c, d) == d \notin DOMAIN reached \/ reached[c] + Cost(c, d) < reached[d]

(* What is still to be reached once c is popped, or already when the cells *)
(* next to it are reached.                                                 *)
MutantStopsEarly(c) == left \ (Around(c) \cup {c})
StillLeft(c) == left \ {c}

Pop ==
  /\ legAt = "search" /\ heap # {} /\ left # {}
  /\ \E top \in heap :
       LET c == top[2]
           better == {d \in Around(c) : Shorter(c, d)}
       IN  /\ \A other \in heap : other[1] >= top[1]
           /\ IF top[1] > reached[c]
              THEN heap' = heap \ {top} /\ UNCHANGED <<reached, prev, left>>
              ELSE /\ left' = StillLeft(c)
                   /\ reached' = [d \in DOMAIN reached \cup better |->
                                    IF d \in better THEN reached[c] + Cost(c, d) ELSE reached[d]]
                   /\ prev' = [d \in DOMAIN prev \cup better |-> IF d \in better THEN c ELSE prev[d]]
                   /\ heap' = (heap \ {top}) \cup {<<reached[c] + Cost(c, d), d>> : d \in better}
  /\ UNCHANGED <<legAt, walls, near, berth, lines, bent, cleared, rescue>>

(* The cells from the boat's to c, read back along prev.                   *)
Back(way) == IF Head(way) = Source THEN way ELSE <<prev[Head(way)]>> \o way
CellsTo(c) ==
  LET back[n \in 0..(Rows * Columns)] == IF n = 0 THEN <<c>> ELSE Back(back[n - 1])
  IN  back[Rows * Columns]

Searched ==
  /\ legAt = "search" /\ (heap = {} \/ left = {})
  /\ legAt' = "straighten"
  /\ lines' = [p \in Ports |-> IF berth[p] \in DOMAIN reached
                               THEN <<Source>> \o CellsTo(berth[p]) \o <<berth[p]>> ELSE None]
  /\ UNCHANGED <<walls, near, berth, reached, prev, heap, left, bent, cleared, rescue>>

Found(p) == lines[p] # None
Straight(p) == Last(bent[p]) = Len(lines[p])

(* _straighten: from the last point kept to the farthest that is seen      *)
(* without a gap before it.                                                *)
MutantOneFurther(j, end) == IF j < end THEN j + 1 ELSE j
Kept(j, end) == j

Bend(p) ==
  LET i == Last(bent[p])
      end == Len(lines[p])
  IN  /\ legAt = "straighten" /\ Found(p) /\ ~ Straight(p)
      /\ \A q \in Ports : Found(q) /\ ~ Straight(q) => SelectInSeq(Order, LAMBDA x : x = p) <= SelectInSeq(Order, LAMBDA x : x = q)
      /\ \E j \in (i + 1)..end :
           /\ bent' = [bent EXCEPT ![p] = Append(@, Kept(j, end))]
           /\ cleared' = [cleared EXCEPT ![p] = @ \cup {<<i, k>> : k \in (i + 2)..j}]
      /\ UNCHANGED <<legAt, walls, near, berth, reached, prev, heap, left, lines, rescue>>

(* The length of the way as it is bent, and the order of the ports: those  *)
(* without a way come last.                                                *)
LengthTo(p) ==
  LET to[i \in 0..(Len(bent[p]) - 1)] ==
        IF i = 0 THEN 0 ELSE to[i - 1] + Far(lines[p][bent[p][i]], lines[p][bent[p][i + 1]])
  IN  to[Len(bent[p]) - 1]
Better(p, q) == Found(p) /\ (~ Found(q) \/ LengthTo(p) < LengthTo(q))
Best == Order[Min({i \in DOMAIN Order : \A q \in Ports : ~ Better(q, Order[i])})]

(* pick_shelter, of the shelters read (None: no list) and those in a zone, *)
(* below ground in a flood or unsuitable: the nearest fit, else the nearest*)
(* of all.                                                                 *)
Pick(unread, unfit) ==
  IF unread THEN None ELSE Min(IF Shelters \subseteq unfit THEN Shelters ELSE Shelters \ unfit)

(* RouteService.sea, to a destination given (0) or a shelter; the road     *)
(* there, which may not be found, is left out.                             *)
Advise ==
  /\ legAt = "straighten" /\ \A p \in Ports : Found(p) => Straight(p)
  /\ LET port == Best
     IN  \E given, unread \in BOOLEAN, unfit \in SUBSET Shelters :
           LET goal == IF given THEN 0 ELSE Pick(unread, unfit)
           IN  rescue' = [port |-> port, shelter |-> goal, fit |-> goal \notin unfit,
                          note |-> ~ given /\ (unread \/ Shelters \subseteq unfit)]
  /\ legAt' = "advised"
  /\ UNCHANGED <<walls, near, berth, reached, prev, heap, left, lines, bent, cleared>>

Next == Pop \/ Searched \/ (\E p \in Ports : Bend(p)) \/ Advise

Spec == Init /\ [][Next]_seaVars

-----------------------------------------------------------------------------
(* The type of the state.                                                  *)
TypeOK ==
  /\ legAt \in {"search", "straighten", "advised"}
  /\ UNION walls \subseteq Cells /\ near \subseteq Cells /\ left \subseteq Cells
  /\ \A c \in DOMAIN reached : c \in Cells /\ reached[c] \in Nat
  /\ \A c \in DOMAIN prev : c \in Cells /\ prev[c] \in Cells
  /\ \A p \in Ports : bent[p] \in Seq(Nat)
  /\ rescue # None => rescue.port \in Ports /\ {rescue.fit, rescue.note} \subseteq BOOLEAN

(* What the shortest way over the cells costs: the least of those of n     *)
(* moves at most, for more and more moves.  No way costs Unknown.          *)
Unknown == 9 * (Rows * Columns)
Relaxed(least) == [c \in Cells |-> Min({least[c]} \cup {least[b] + Cost(b, c) : b \in Around(c)})]
Shortest ==
  LET least[n \in 0..(Rows * Columns)] ==
        IF n = 0 THEN [c \in Cells |-> IF c = Source THEN 0 ELSE Unknown] ELSE Relaxed(least[n - 1])
  IN  least[Rows * Columns]

(* sea.py:157, 174, 252: every berth that can be reached gets its shortest *)
(* way over the cells, a way from the boat's cell to the berth's, move by  *)
(* move and never across land; no piece of the way shown crosses land; the *)
(* port named is one that can be reached if any can, by the shortest way;  *)
(* and nobody is sent to an unfit shelter without being told.              *)
SeaWayHolds ==
  /\ legAt = "straighten" /\ (\A p \in Ports : bent[p] = <<1>>) =>
       LET least == Shortest
       IN  \A p \in Ports :
             /\ berth[p] # None =>
                  IF Found(p) THEN reached[berth[p]] = least[berth[p]] ELSE least[berth[p]] = Unknown
             /\ Found(p) =>
                  LET way == lines[p]
                  IN  /\ way[2] = Source /\ way[Len(way) - 1] = berth[p]
                      /\ \A n \in 2..(Len(way) - 2) :
                           /\ way[n + 1] \in Around(way[n])
                           /\ reached[way[n + 1]] = reached[way[n]] + Cost(way[n], way[n + 1])
  /\ legAt # "search" =>
       \A p \in Ports : \A n \in 1..(Len(bent[p]) - 1) :
         bent[p][n + 1] = bent[p][n] + 1 \/ <<bent[p][n], bent[p][n + 1]>> \in cleared[p]
  /\ legAt = "advised" =>
       /\ \A p \in Ports : Found(p) => Found(rescue.port) /\ LengthTo(rescue.port) <= LengthTo(p)
       /\ ~ rescue.fit => rescue.note
=============================================================================
