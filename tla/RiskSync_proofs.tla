-------------------------- MODULE RiskSync_proofs ---------------------------
(***************************************************************************)
(* Proofs about RiskSync, for any stations, rules, readings and any number *)
(* of overlapping runs, and of the second engine's feeds beside it in      *)
(* MCRiskSync.                                                             *)
(***************************************************************************)
EXTENDS MCRiskSync, FiniteSetTheorems, WellFoundedInduction, TLAPS

-----------------------------------------------------------------------------
(* What evaluate finds.                                                    *)

Verdict == [key : Keys, level : Levels, rule : {r.id : r \in Rules}]

LEMMA BestIsRule ==
  ASSUME NEW hits \in SUBSET Rules, Raised(hits) # {}
  PROVE  Best(hits) \in Rules
<1>1. Raised(hits) \in SUBSET Rules
  BY DEF Raised
<1>2. \E r \in Raised(hits) : \A q \in Raised(hits) \ {r} : Outranks(r, q)
  BY <1>1, FirstRuleAssumption
<1> QED BY <1>1, <1>2 DEF Best

LEMMA JudgementType ==
  ASSUME NEW s \in Stations, NEW hits \in Readings, hits # NoData, Raised(hits) # {}
  PROVE  Judgement(s, hits) \in Verdict
<1>1. Best(hits) \in Rules
  BY BestIsRule, ReadingsAssumption
<1>2. <<s, Best(hits).hazard>> \in Keys
  BY <1>1 DEF Keys, Hazards
<1>3. Best(hits).level \in Levels
  BY <1>1, RulesAssumption
<1> QED BY <1>1, <1>2, <1>3 DEF Judgement, Verdict

(* One result per station, hence per key.                                  *)
LEMMA ResultOfStation ==
  ASSUME NEW v, NEW res \in Results(v)
  PROVE  /\ res.key[1] \in Seen(v)
         /\ Raised(v[res.key[1]]) # {}
         /\ res = Judgement(res.key[1], v[res.key[1]])
BY DEF Results, Judgement

LEMMA ResultsType ==
  ASSUME NEW v \in [Stations -> Readings]
  PROVE  Results(v) \subseteq Verdict
BY JudgementType DEF Results, Seen

-----------------------------------------------------------------------------
(* Type correctness.                                                       *)

Ages == 0..(KeepUnseen + 1)

LEMMA OlderType == ASSUME NEW n \in Ages PROVE Older(n) \in Ages
BY BoundsAssumption DEF Older, Ages

(* A row whose age changes is the same row.                                *)
LEMMA Aged ==
  ASSUME NEW r \in OpenRow, NEW n \in Ages
  PROVE  LET a == [r EXCEPT !.age = n]
         IN  /\ a \in OpenRow /\ a.age = n
             /\ a.key = r.key /\ a.level = r.level /\ a.rule = r.rule /\ a.serial = r.serial
BY DEF OpenRow, Ages

LEMMA InitType == Init => TypeOK
BY BoundsAssumption, ReadingsAssumption DEF Init, TypeOK

LEMMA EndedTypes ==
  ASSUME TypeOK, NEW p \in Syncers, Ended(p)
  PROVE  /\ pc' \in [Syncers -> {"idle", "observed", "read", "written"}]
         /\ view' \in [Syncers -> [Stations -> Readings]]
         /\ snap' \in [Syncers -> SUBSET SnapRow]
         /\ lag' \in [Syncers -> 0..(KeepUnseen + 1)]
         /\ serial' \in [Syncers -> Nat]
BY BoundsAssumption, ReadingsAssumption DEF TypeOK, Ended

LEMMA ActiveRowsType == ASSUME TypeOK PROVE ActiveRows \in SUBSET SnapRow
<1>1. ASSUME NEW r \in open
      PROVE  [key |-> r.key, level |-> r.level, rule |-> r.rule, serial |-> r.serial,
              expired |-> r.age > KeepUnseen] \in SnapRow
  <2>1. r \in OpenRow
    BY DEF TypeOK
  <2> QED BY <2>1 DEF OpenRow, SnapRow
<1> QED BY <1>1 DEF ActiveRows

LEMMA CommittedType ==
  ASSUME TypeOK, NEW p \in Syncers
  PROVE  Committed(p) \subseteq OpenRow
<1> DEFINE results == Results(view[p])
           closedIds == RowIds(Closed(snap[p], results, Seen(view[p])))
           keptIds == RowIds(Kept(snap[p], results))
           Left(r) == [r EXCEPT !.age = IF RowId(r) \in keptIds THEN lag[p] ELSE @]
           New(res) == [key |-> res.key, level |-> res.level, rule |-> res.rule,
                        serial |-> serial[p], age |-> lag[p]]
<1>1. lag[p] \in Ages /\ serial[p] \in Nat /\ view[p] \in [Stations -> Readings]
  BY DEF TypeOK, Ages
<1>2. ASSUME NEW r \in open PROVE Left(r) \in OpenRow
  <2>1. r \in OpenRow /\ r.age \in Ages
    BY DEF TypeOK, OpenRow, Ages
  <2>2. (IF RowId(r) \in keptIds THEN lag[p] ELSE r.age) \in Ages
    BY <1>1, <2>1
  <2> QED BY <2>1, <2>2, Aged
<1>3. ASSUME NEW res \in results PROVE New(res) \in OpenRow
  <2>1. res \in Verdict
    BY <1>1, ResultsType
  <2> QED BY <1>1, <2>1 DEF Verdict, OpenRow, Ages
<1>4. Opened(snap[p], results) \subseteq results
  BY DEF Opened
<1>5. Committed(p) = {Left(r) : r \in {q \in open : RowId(q) \notin closedIds}}
                     \cup {New(res) : res \in Opened(snap[p], results)}
  BY DEF Committed
<1> HIDE DEF Left, New, results, closedIds
<1> QED BY <1>2, <1>3, <1>4, <1>5

LEMMA NextType == TypeOK /\ [Next]_vars => TypeOK'
<1> SUFFICES ASSUME TypeOK, [Next]_vars PROVE TypeOK'
  OBVIOUS
<1>1. ASSUME NEW s \in Stations, NEW h \in Readings, Reading(s, h) PROVE TypeOK'
  BY <1>1, BoundsAssumption DEF Reading, runVars, TypeOK
<1>2. CASE Tick
  <2>1. open' \subseteq OpenRow
    <3>1. ASSUME NEW r \in open PROVE [r EXCEPT !.age = Older(r.age)] \in OpenRow
      <4>1. r \in OpenRow /\ r.age \in Ages
        BY DEF TypeOK, OpenRow, Ages
      <4> QED BY <4>1, OlderType, Aged
    <3> QED BY <1>2, <3>1 DEF Tick
  <2>2. lag' \in [Syncers -> 0..(KeepUnseen + 1)]
    BY <1>2, OlderType, BoundsAssumption DEF Tick, TypeOK, Ages
  <2> QED BY <1>2, <2>1, <2>2 DEF Tick, TypeOK
<1>3. ASSUME NEW p \in Syncers, Observe(p) PROVE TypeOK'
  BY <1>3 DEF Observe, TypeOK
<1>4. ASSUME NEW p \in Syncers, ReadActive(p) PROVE TypeOK'
  BY <1>4, ActiveRowsType, BoundsAssumption DEF ReadActive, TypeOK
<1>5. ASSUME NEW p \in Syncers, Write(p) PROVE TypeOK'
  BY <1>5 DEF Write, TypeOK
<1>6. ASSUME NEW p \in Syncers, Commit(p) PROVE TypeOK'
  BY <1>6, EndedTypes, CommittedType DEF Commit, TypeOK
<1>7. ASSUME NEW p \in Syncers, Abort(p) PROVE TypeOK'
  BY <1>7, EndedTypes, BoundsAssumption DEF Abort, TypeOK
<1>8. CASE UNCHANGED vars
  BY <1>8 DEF vars, TypeOK
<1> QED BY <1>1, <1>2, <1>3, <1>4, <1>5, <1>6, <1>7, <1>8 DEF Next

(* The types of all variables hold in every reachable state.               *)
THEOREM TypeCorrect == Spec => []TypeOK
BY InitType, NextType, PTL DEF Spec

-----------------------------------------------------------------------------
(* A run that nobody committed into works on what is open.                 *)
Same(w, r) == w.key = r.key /\ w.level = r.level /\ w.rule = r.rule /\ w.serial = r.serial

Inserts(p) == pc[p] = "written" /\ Opened(snap[p], Results(view[p])) # {}

(* Serials are drawn once: rows, and runs about to insert, differ in them. *)
SerialInv ==
  /\ \A r \in open : r.serial < nextSerial
  /\ \A r, q \in open : RowId(r) = RowId(q) => r = q
  /\ \A p \in Syncers : Inserts(p) => /\ serial[p] < nextSerial
                                     /\ \A r \in open : r.serial # serial[p]
  /\ \A p, q \in Syncers : Inserts(p) /\ Inserts(q) /\ p # q => serial[p] # serial[q]

SnapInv ==
  \A p \in Syncers :
    /\ \A v, w \in snap[p] : RowId(v) = RowId(w) => v = w
    /\ undisturbed[p] => /\ pc[p] \in {"read", "written"}
                         /\ \A r \in open : \E w \in snap[p] : Same(w, r)
                         /\ \A w \in snap[p] : \E r \in open : Same(w, r)

SoloInv == TypeOK /\ SerialInv /\ SnapInv

(* The two kinds of rows a commit leaves open.                             *)
Left(p, r) ==
  [r EXCEPT !.age = IF RowId(r) \in RowIds(Kept(snap[p], Results(view[p]))) THEN lag[p] ELSE @]
New(p, res) ==
  [key |-> res.key, level |-> res.level, rule |-> res.rule, serial |-> serial[p], age |-> lag[p]]

ClosedIds(p) == RowIds(Closed(snap[p], Results(view[p]), Seen(view[p])))
OpenedBy(p) == Opened(snap[p], Results(view[p]))

LEMMA CommittedParts ==
  ASSUME NEW p \in Syncers
  PROVE  Committed(p) = {Left(p, r) : r \in {q \in open : RowId(q) \notin ClosedIds(p)}}
                        \cup {New(p, res) : res \in OpenedBy(p)}
BY DEF Committed, Left, New, ClosedIds, OpenedBy

LEMMA LeftSame ==
  ASSUME TypeOK, NEW p \in Syncers, NEW r \in open
  PROVE  Same(Left(p, r), r)
<1>1. r \in OpenRow /\ r.age \in Ages /\ lag[p] \in Ages
  BY DEF TypeOK, OpenRow, Ages
<1>2. (IF RowId(r) \in RowIds(Kept(snap[p], Results(view[p]))) THEN lag[p] ELSE r.age) \in Ages
  BY <1>1
<1> QED BY <1>1, <1>2, Aged DEF Left, Same

LEMMA NewIs ==
  ASSUME NEW p \in Syncers, NEW res
  PROVE  /\ New(p, res).key = res.key /\ New(p, res).level = res.level
         /\ New(p, res).rule = res.rule /\ New(p, res).serial = serial[p]
BY DEF New

(* A row that a commit leaves open comes from one of the two.              *)
LEMMA CommittedCases ==
  ASSUME TypeOK, NEW p \in Syncers, NEW x \in Committed(p)
  PROVE  \/ \E r \in open : RowId(r) \notin ClosedIds(p) /\ x = Left(p, r) /\ Same(x, r)
         \/ \E res \in OpenedBy(p) : /\ x = New(p, res) /\ x.key = res.key /\ x.level = res.level
                                     /\ x.rule = res.rule /\ x.serial = serial[p]
BY CommittedParts, LeftSame, NewIs

-----------------------------------------------------------------------------
LEMMA InitSolo == Init => SoloInv
BY InitType DEF Init, SoloInv, SerialInv, SnapInv, Inserts

LEMMA KeepsInserts ==
  ASSUME NEW q \in Syncers, pc'[q] = pc[q], snap'[q] = snap[q], view'[q] = view[q]
  PROVE  Inserts(q)' <=> Inserts(q)
BY DEF Inserts

LEMMA TickKeeps ==
  ASSUME SoloInv, Tick
  PROVE  SerialInv' /\ SnapInv'
<1>1. ASSUME NEW r \in open
      PROVE  Same([r EXCEPT !.age = Older(r.age)], r)
  <2>1. r \in OpenRow /\ r.age \in Ages
    BY DEF SoloInv, TypeOK, OpenRow, Ages
  <2> QED BY <2>1, OlderType, Aged DEF Same
<1>2. \A x \in open' : \E r \in open : x = [r EXCEPT !.age = Older(r.age)] /\ Same(x, r)
  BY <1>1 DEF Tick
<1>3. \A r \in open : \E x \in open' : Same(x, r)
  BY <1>1 DEF Tick
<1>4. \A q \in Syncers : Inserts(q)' <=> Inserts(q)
  BY KeepsInserts DEF Tick
<1>5. UNCHANGED <<nextSerial, serial, snap, undisturbed, pc>>
  BY DEF Tick
<1>6. \A x \in open' : x.serial < nextSerial
  BY <1>2 DEF Same, SoloInv, SerialInv
<1>7. \A x, y \in open' : RowId(x) = RowId(y) => x = y
  BY <1>2 DEF Same, RowId, SoloInv, SerialInv
<1>8. \A p \in Syncers : Inserts(p) => \A x \in open' : x.serial # serial[p]
  BY <1>2 DEF Same, SoloInv, SerialInv
<1>9. SerialInv'
  BY <1>4, <1>5, <1>6, <1>7, <1>8 DEF SoloInv, SerialInv
<1>10. ASSUME NEW p \in Syncers, undisturbed[p]
       PROVE  /\ \A x \in open' : \E w \in snap[p] : Same(w, x)
              /\ \A w \in snap[p] : \E x \in open' : Same(w, x)
  BY <1>2, <1>3, <1>10 DEF SoloInv, SnapInv, Same
<1>11. SnapInv'
  BY <1>5, <1>10 DEF SoloInv, SnapInv, RowId
<1> QED BY <1>9, <1>11

(* A step of p that leaves the rows and the other runs alone.              *)
LEMMA RunKeepsSerials ==
  ASSUME SoloInv, NEW p \in Syncers, UNCHANGED <<open, nextSerial>>, ~Inserts(p)',
         \A q \in Syncers \ {p} : /\ pc'[q] = pc[q] /\ snap'[q] = snap[q]
                                 /\ view'[q] = view[q] /\ serial'[q] = serial[q]
  PROVE  SerialInv'
<1>1. \A q \in Syncers : Inserts(q)' => q # p /\ Inserts(q) /\ serial'[q] = serial[q]
  BY KeepsInserts
<1> QED BY <1>1 DEF SoloInv, SerialInv, RowId

LEMMA WriteKeeps ==
  ASSUME SoloInv, NEW p \in Syncers, Write(p)
  PROVE  SerialInv' /\ SnapInv'
<1>1. /\ UNCHANGED <<open, view, snap, undisturbed>>
      /\ pc' = [pc EXCEPT ![p] = "written"]
  BY DEF Write
<1>2. SnapInv'
  BY <1>1 DEF SoloInv, TypeOK, SnapInv, RowId, Same
<1>3. \A q \in Syncers \ {p} : Inserts(q)' <=> Inserts(q)
  BY <1>1, KeepsInserts DEF SoloInv, TypeOK
<1>4. CASE OpenedBy(p) = {}
  <2>1. UNCHANGED <<serial, nextSerial>> /\ ~Inserts(p)'
    BY <1>1, <1>4 DEF Write, OpenedBy, Inserts
  <2> QED BY <1>1, <1>2, <2>1, RunKeepsSerials DEF SoloInv, TypeOK
<1>5. CASE OpenedBy(p) # {}
  <2>1. serial' = [serial EXCEPT ![p] = nextSerial] /\ nextSerial' = nextSerial + 1
    BY <1>5 DEF Write, OpenedBy
  <2>2. /\ nextSerial \in Nat
        /\ \A q \in Syncers : serial[q] \in Nat
        /\ \A r \in open : r.serial \in Nat /\ r.serial < nextSerial
    BY DEF SoloInv, TypeOK, OpenRow, SerialInv
  <2>3. serial'[p] = nextSerial /\ \A q \in Syncers \ {p} : serial'[q] = serial[q]
    BY <2>1 DEF SoloInv, TypeOK
  <2>4. \A q \in Syncers : Inserts(q)' => serial'[q] < nextSerial' /\ \A r \in open : r.serial # serial'[q]
    BY <1>3, <2>1, <2>2, <2>3 DEF SoloInv, SerialInv
  <2>5. \A q \in Syncers \ {p} : Inserts(q)' => serial'[q] # serial'[p]
    BY <1>3, <2>2, <2>3 DEF SoloInv, SerialInv
  <2>6. \A q, o \in Syncers : Inserts(q)' /\ Inserts(o)' /\ q # o => serial'[q] # serial'[o]
    BY <1>3, <2>3, <2>5 DEF SoloInv, SerialInv
  <2>7. \A r \in open' : r.serial < nextSerial'
    BY <1>1, <2>1, <2>2
  <2>8. \A r, q \in open' : RowId(r) = RowId(q) => r = q
    BY <1>1 DEF SoloInv, SerialInv
  <2> QED BY <1>1, <1>2, <2>4, <2>6, <2>7, <2>8 DEF SerialInv, RowId
<1> QED BY <1>4, <1>5

LEMMA CommitKeeps ==
  ASSUME SoloInv, NEW p \in Syncers, Commit(p)
  PROVE  SerialInv' /\ SnapInv'
<1>0. TypeOK /\ SerialInv /\ SnapInv
  BY DEF SoloInv
<1>1. /\ \A q \in Syncers \ {p} : /\ pc'[q] = pc[q] /\ snap'[q] = snap[q]
                                  /\ view'[q] = view[q] /\ serial'[q] = serial[q]
      /\ pc'[p] = "idle" /\ snap'[p] = {} /\ UNCHANGED nextSerial
      /\ \A q \in Syncers : ~undisturbed'[q]
  BY <1>0 DEF Commit, Ended, TypeOK
<1>2. SnapInv'
  BY <1>0, <1>1 DEF SnapInv, RowId
<1>3. \A q \in Syncers : Inserts(q)' => q # p /\ Inserts(q) /\ serial'[q] = serial[q]
  BY <1>1, KeepsInserts DEF Inserts
<1>4. OpenedBy(p) # {} => Inserts(p)
  BY DEF Commit, Inserts, OpenedBy
<1>5. open' = Committed(p)
  BY DEF Commit
<1>6. ASSUME NEW x \in open'
      PROVE  x.serial < nextSerial /\ \A q \in Syncers : Inserts(q)' => x.serial # serial'[q]
  <2>1. CASE \E r \in open : Same(x, r)
    BY <1>0, <1>3, <2>1 DEF Same, SerialInv
  <2>2. CASE Inserts(p) /\ x.serial = serial[p]
    BY <1>0, <1>3, <2>2 DEF SerialInv
  <2> QED BY <1>0, <1>4, <1>5, <1>6, <2>1, <2>2, CommittedCases
<1>7. ASSUME NEW x \in open', NEW y \in open', RowId(x) = RowId(y) PROVE x = y
  <2>0. x.key = y.key /\ x.serial = y.serial
    BY <1>7 DEF RowId
  <2>1. ASSUME NEW r \in open, x = Left(p, r), Same(x, r), NEW q \in open, y = Left(p, q), Same(y, q)
        PROVE  x = y
    BY <1>0, <2>0, <2>1 DEF SerialInv, Same, RowId
  <2>2. ASSUME NEW r \in open, NEW z, Same(z, r), OpenedBy(p) # {}
        PROVE  z.serial # serial[p]
    BY <1>0, <1>4, <2>2 DEF SerialInv, Same
  <2>3. ASSUME NEW res \in OpenedBy(p), NEW res2 \in OpenedBy(p), res.key = res2.key
        PROVE  res = res2
    <3>1. res \in Results(view[p]) /\ res2 \in Results(view[p])
      BY DEF OpenedBy, Opened
    <3> QED BY <2>3, <3>1, ResultOfStation
  <2> QED BY <1>0, <1>5, <2>0, <2>1, <2>2, <2>3, CommittedCases
<1>8. SerialInv'
  BY <1>0, <1>1, <1>3, <1>6, <1>7 DEF SerialInv
<1> QED BY <1>2, <1>8

LEMMA NextSolo == SoloInv /\ [Next]_vars => SoloInv'
<1> SUFFICES ASSUME SoloInv, [Next]_vars PROVE SerialInv' /\ SnapInv'
  BY NextType DEF SoloInv
<1>0. TypeOK /\ SerialInv /\ SnapInv
  BY DEF SoloInv
<1>1. ASSUME UNCHANGED <<open, nextSerial, runVars>> PROVE SerialInv' /\ SnapInv'
  BY <1>0, <1>1 DEF runVars, SerialInv, SnapInv, Inserts, RowId, Same
<1>2. ASSUME NEW s \in Stations, NEW h \in Readings, Reading(s, h) PROVE SerialInv' /\ SnapInv'
  BY <1>1, <1>2 DEF Reading
<1>3. ASSUME NEW p \in Syncers, Observe(p) PROVE SerialInv' /\ SnapInv'
  <2>1. ~Inserts(p)' /\ ~undisturbed[p]
    BY <1>0, <1>3 DEF Observe, Inserts, TypeOK, SnapInv
  <2>2. SerialInv'
    BY <1>0, <1>3, <2>1, RunKeepsSerials DEF Observe, TypeOK
  <2>3. SnapInv'
    BY <1>0, <1>3, <2>1 DEF Observe, TypeOK, SnapInv, RowId, Same
  <2> QED BY <2>2, <2>3
<1>4. ASSUME NEW p \in Syncers, ReadActive(p) PROVE SerialInv' /\ SnapInv'
  <2>1. ~Inserts(p)'
    BY <1>0, <1>4 DEF ReadActive, Inserts, TypeOK
  <2>2. SerialInv'
    BY <1>0, <1>4, <2>1, RunKeepsSerials DEF ReadActive, TypeOK
  <2>3. /\ \A v, w \in ActiveRows : RowId(v) = RowId(w) => v = w
        /\ \A r \in open : \E w \in ActiveRows : Same(w, r)
        /\ \A w \in ActiveRows : \E r \in open : Same(w, r)
    <3> DEFINE Read(r) == [key |-> r.key, level |-> r.level, rule |-> r.rule, serial |-> r.serial,
                           expired |-> r.age > KeepUnseen]
    <3>1. ActiveRows = {Read(r) : r \in open}
      BY DEF ActiveRows
    <3>2. \A r \in open : Same(Read(r), r)
      BY DEF Same
    <3>3. \A r \in open : RowId(Read(r)) = RowId(r)
      BY DEF RowId
    <3> HIDE DEF Read
    <3> QED BY <1>0, <3>1, <3>2, <3>3 DEF SerialInv
  <2>4. /\ snap'[p] = ActiveRows /\ pc'[p] = "read" /\ open' = open
        /\ \A q \in Syncers \ {p} : /\ snap'[q] = snap[q] /\ pc'[q] = pc[q]
                                    /\ undisturbed'[q] = undisturbed[q]
    BY <1>0, <1>4 DEF ReadActive, TypeOK
  <2>5. SnapInv'
    BY <1>0, <2>3, <2>4 DEF SnapInv, RowId, Same
  <2> QED BY <2>2, <2>5
<1>5. ASSUME NEW p \in Syncers, Abort(p) PROVE SerialInv' /\ SnapInv'
  <2>1. /\ ~Inserts(p)' /\ snap'[p] = {} /\ ~undisturbed'[p] /\ UNCHANGED <<open, nextSerial>>
        /\ \A q \in Syncers \ {p} : /\ pc'[q] = pc[q] /\ snap'[q] = snap[q] /\ view'[q] = view[q]
                                    /\ serial'[q] = serial[q] /\ undisturbed'[q] = undisturbed[q]
    BY <1>0, <1>5 DEF Abort, Ended, Inserts, TypeOK
  <2>2. SerialInv'
    BY <2>1, RunKeepsSerials
  <2>3. SnapInv'
    BY <1>0, <2>1 DEF SnapInv, RowId, Same
  <2> QED BY <2>2, <2>3
<1>6. CASE UNCHANGED vars
  BY <1>1, <1>6 DEF vars, runVars
<1> QED BY <1>2, <1>3, <1>4, <1>5, <1>6, TickKeeps, WriteKeeps, CommitKeeps DEF Next

-----------------------------------------------------------------------------
(* The commit of a run that nobody committed into.                         *)

LEMMA CurrentUnique ==
  ASSUME NEW rows \in SUBSET SnapRow, NEW v \in Current(rows), NEW w \in Current(rows), v.key = w.key
  PROVE  v.serial = w.serial
<1>1. v \in rows /\ w \in rows /\ v.serial \in Nat /\ w.serial \in Nat
  BY DEF Current, SnapRow
<1>2. v.serial <= w.serial /\ w.serial <= v.serial
  BY <1>1 DEF Current
<1> QED BY <1>1, <1>2

(* An open row that survives is one the run kept or held.                  *)
LEMMA Survivor ==
  ASSUME SoloInv, NEW p \in Syncers, undisturbed[p], NEW r \in open, RowId(r) \notin ClosedIds(p)
  PROVE  \E w \in Kept(snap[p], Results(view[p])) \cup Held(snap[p], Results(view[p]), Seen(view[p])) :
            Same(w, r)
<1>1. PICK w \in snap[p] : Same(w, r)
  BY DEF SoloInv, SnapInv
<1>2. w \notin Closed(snap[p], Results(view[p]), Seen(view[p]))
  BY <1>1 DEF ClosedIds, RowIds, RowId, Same
<1> QED BY <1>1, <1>2 DEF Closed

(* A survivor of a key that has a result is the row of that result.        *)
LEMMA SurvivorAgrees ==
  ASSUME SoloInv, NEW p \in Syncers, undisturbed[p], NEW r \in open, RowId(r) \notin ClosedIds(p),
         r.key[1] \in Seen(view[p]) \/ \E res \in Results(view[p]) : res.key = r.key
  PROVE  \E w \in Current(snap[p]), res \in Results(view[p]) : Same(w, r) /\ SameJudgement(w, res)
<1>1. PICK w \in Kept(snap[p], Results(view[p])) \cup Held(snap[p], Results(view[p]), Seen(view[p])) :
          Same(w, r)
  BY Survivor
<1>2. w \notin Held(snap[p], Results(view[p]), Seen(view[p]))
  BY <1>1 DEF Held, Same
<1> QED BY <1>1, <1>2 DEF Kept

LEMMA SoloOneRow ==
  ASSUME SoloInv, NEW p \in Syncers, Commit(p), undisturbed[p]
  PROVE  OneRowPerTarget'
<1>0. TypeOK /\ SerialInv /\ snap[p] \in SUBSET SnapRow
  BY DEF SoloInv, TypeOK
<1>1. SUFFICES ASSUME NEW x \in Committed(p), NEW y \in Committed(p), x.key = y.key PROVE x = y
  BY DEF Commit, OneRowPerTarget
<1>2. ASSUME NEW r \in open, NEW q \in open, RowId(r) \notin ClosedIds(p), RowId(q) \notin ClosedIds(p),
             r.key = q.key
      PROVE  r = q
  <2>1. PICK v \in Current(snap[p]) : Same(v, r)
    BY <1>2, Survivor DEF Kept, Held
  <2>2. PICK w \in Current(snap[p]) : Same(w, q)
    BY <1>2, Survivor DEF Kept, Held
  <2>3. v.serial = w.serial
    BY <1>0, <1>2, <2>1, <2>2, CurrentUnique DEF Same
  <2> QED BY <1>0, <1>2, <2>1, <2>2, <2>3 DEF Same, SerialInv, RowId
<1>3. ASSUME NEW r \in open, RowId(r) \notin ClosedIds(p), NEW res \in OpenedBy(p), r.key = res.key
      PROVE  FALSE
  <2>1. res \in Results(view[p])
    BY DEF OpenedBy, Opened
  <2>2. PICK w \in Current(snap[p]), res2 \in Results(view[p]) : Same(w, r) /\ SameJudgement(w, res2)
    BY <1>3, <2>1, SurvivorAgrees
  <2>3. res2.key = res.key
    BY <1>3, <2>2 DEF Same, SameJudgement
  <2>4. res2 = res
    BY <2>1, <2>3, ResultOfStation
  <2> QED BY <2>2, <2>4 DEF OpenedBy, Opened
<1>4. ASSUME NEW res \in OpenedBy(p), NEW res2 \in OpenedBy(p), res.key = res2.key PROVE res = res2
  <2>1. res \in Results(view[p]) /\ res2 \in Results(view[p])
    BY DEF OpenedBy, Opened
  <2> QED BY <1>4, <2>1, ResultOfStation
<1>5. CASE \E r \in open : RowId(r) \notin ClosedIds(p) /\ x = Left(p, r) /\ Same(x, r)
  <2>1. PICK r \in open : RowId(r) \notin ClosedIds(p) /\ x = Left(p, r) /\ Same(x, r)
    BY <1>5
  <2>2. ASSUME NEW q \in open, RowId(q) \notin ClosedIds(p), y = Left(p, q), Same(y, q) PROVE x = y
    BY <1>1, <1>2, <2>1, <2>2 DEF Same
  <2>3. ASSUME NEW res \in OpenedBy(p), y.key = res.key PROVE FALSE
    BY <1>1, <1>3, <2>1, <2>3 DEF Same
  <2> QED BY <1>0, <2>2, <2>3, CommittedCases
<1>6. CASE \E res \in OpenedBy(p) : x = New(p, res) /\ x.key = res.key
  <2>1. PICK res \in OpenedBy(p) : x = New(p, res) /\ x.key = res.key
    BY <1>6
  <2>2. ASSUME NEW q \in open, RowId(q) \notin ClosedIds(p), Same(y, q) PROVE FALSE
    BY <1>1, <1>3, <2>1, <2>2 DEF Same
  <2>3. ASSUME NEW res2 \in OpenedBy(p), y = New(p, res2), y.key = res2.key PROVE x = y
    BY <1>1, <1>4, <2>1, <2>3
  <2> QED BY <1>0, <2>2, <2>3, CommittedCases
<1> QED BY <1>0, <1>5, <1>6, CommittedCases

(* What the rows of a seen station say is the judgement, and it is said.   *)
LEMMA SoloSays ==
  ASSUME SoloInv, NEW p \in Syncers, Commit(p), undisturbed[p], NEW s \in Seen(view[p])
  PROVE  Said(RowsOf(open', s)) = Due(s, view[p][s])
<1> DEFINE hits == view[p][s]
           res == Judgement(s, hits)
           says(z) == <<z.key, z.level, z.rule>>
<1>0. TypeOK /\ SerialInv /\ SnapInv /\ open' = Committed(p) /\ hits # NoData /\ s \in Stations
  BY DEF SoloInv, Commit, Seen
<1>1. ASSUME NEW x \in Committed(p), x.key[1] = s
      PROVE  Raised(hits) # {} /\ says(x) = says(res)
  <2>1. ASSUME NEW z \in Results(view[p]), z.key = x.key
        PROVE  Raised(hits) # {} /\ z = res
    BY <1>1, <2>1, ResultOfStation
  <2>2. CASE \E r \in open : RowId(r) \notin ClosedIds(p) /\ Same(x, r)
    <3>1. PICK r \in open : RowId(r) \notin ClosedIds(p) /\ Same(x, r)
      BY <2>2
    <3>2. PICK w \in Current(snap[p]), z \in Results(view[p]) : Same(w, r) /\ SameJudgement(w, z)
      BY <1>1, <3>1, SurvivorAgrees DEF Same
    <3> QED BY <2>1, <3>1, <3>2 DEF Same, SameJudgement
  <2>3. CASE \E z \in OpenedBy(p) : x.key = z.key /\ x.level = z.level /\ x.rule = z.rule
    <3>1. PICK z \in Results(view[p]) : x.key = z.key /\ x.level = z.level /\ x.rule = z.rule
      BY <2>3 DEF OpenedBy, Opened
    <3> QED BY <2>1, <3>1
  <2> QED BY <1>0, <2>2, <2>3, CommittedCases
<1>2. ASSUME Raised(hits) # {}
      PROVE  \E x \in Committed(p) : x.key[1] = s /\ says(x) = says(res)
  <2>1. res \in Results(view[p]) /\ res.key[1] = s
    BY <1>0, <1>2 DEF Results, Judgement
  <2>2. CASE res \in OpenedBy(p)
    <3>1. New(p, res) \in Committed(p)
      BY <2>2, CommittedParts
    <3> HIDE DEF res
    <3> QED BY <2>1, <3>1, NewIs
  <2>3. CASE res \notin OpenedBy(p)
    <3>1. PICK w \in Current(snap[p]) : SameJudgement(w, res)
      BY <2>1, <2>3 DEF OpenedBy, Opened
    <3>2. w \in snap[p] /\ w \in Kept(snap[p], Results(view[p]))
      BY <2>1, <3>1 DEF Kept, Current
    <3>3. PICK r \in open : Same(w, r)
      BY <1>0, <3>2 DEF SnapInv
    <3>4. RowId(r) \notin ClosedIds(p)
      <4>1. ASSUME NEW v \in Closed(snap[p], Results(view[p]), Seen(view[p])), RowId(v) = RowId(r) PROVE FALSE
        <5>1. v \in snap[p] /\ v # w
          BY <3>2 DEF Closed
        <5>2. RowId(v) = RowId(w)
          BY <3>3, <4>1 DEF RowId, Same
        <5> QED BY <1>0, <3>2, <5>1, <5>2 DEF SnapInv
      <4> QED BY <4>1 DEF ClosedIds, RowIds
    <3>5. Left(p, r) \in Committed(p)
      BY <3>4, CommittedParts
    <3>6. Same(Left(p, r), r)
      BY <1>0, LeftSame
    <3> HIDE DEF res
    <3> QED BY <2>1, <3>1, <3>3, <3>5, <3>6 DEF Same, SameJudgement
  <2> QED BY <2>2, <2>3
<1>3. Due(s, hits) = IF Raised(hits) = {} THEN {} ELSE {says(res)}
  BY <1>0 DEF Due, Said
<1>4. Said(RowsOf(open', s)) = {says(x) : x \in {y \in Committed(p) : y.key[1] = s}}
  BY <1>0 DEF Said, RowsOf
<1> HIDE DEF hits, res, says
<1>5. Said(RowsOf(open', s)) = IF Raised(hits) = {} THEN {} ELSE {says(res)}
  BY <1>1, <1>2, <1>4
<1> QED BY <1>3, <1>5 DEF hits

(* Whatever other runs did before, the commit of a run that no other run   *)
(* committed into leaves one row per target, and of the stations it saw    *)
(* exactly the rows its judgements ask for.                                *)
THEOREM SoloSyncIsExact == Spec => SoloSyncExact
<1>1. SoloInv /\ [Next]_vars =>
        [\A p \in Syncers : Commit(p) /\ undisturbed[p] =>
           /\ OneRowPerTarget'
           /\ \A s \in Seen(view[p]) : Said(RowsOf(open', s)) = Due(s, view[p][s])]_vars
  BY SoloOneRow, SoloSays
<1> QED BY <1>1, InitSolo, NextSolo, PTL DEF Spec, SoloSyncExact

LEMMA SoloKeepsRow ==
  ASSUME SoloInv, NEW p \in Syncers, Commit(p), undisturbed[p],
         NEW r \in Current(open), NEW x \in open', Said({r}) = Said({x})
  PROVE  r.serial = x.serial
<1>0. TypeOK /\ SerialInv /\ SnapInv /\ open' = Committed(p) /\ snap[p] \in SUBSET SnapRow /\ r \in open
  BY DEF SoloInv, TypeOK, Commit, Current
<1>1. r.key = x.key /\ r.level = x.level /\ r.rule = x.rule
  <2>1. Said({r}) = {<<r.key, r.level, r.rule>>} /\ Said({x}) = {<<x.key, x.level, x.rule>>}
    BY Zenon DEF Said
  <2>2. <<r.key, r.level, r.rule>> = <<x.key, x.level, x.rule>>
    BY <2>1
  <2> QED BY <2>2
<1>2. PICK w \in snap[p] : Same(w, r)
  BY <1>0 DEF SnapInv
<1>3. w \in Current(snap[p])
  <2> SUFFICES ASSUME NEW v \in snap[p], v.key = w.key PROVE v.serial <= w.serial
    BY <1>2 DEF Current
  <2>1. PICK q \in open : Same(v, q)
    BY <1>0 DEF SnapInv
  <2>2. q.serial <= r.serial
    BY <1>2, <2>1 DEF Current, Same
  <2> QED BY <1>2, <2>1, <2>2 DEF Same
<1>4. CASE \E q \in open : RowId(q) \notin ClosedIds(p) /\ Same(x, q)
  <2>1. PICK q \in open : RowId(q) \notin ClosedIds(p) /\ Same(x, q)
    BY <1>4
  <2>2. PICK v \in Current(snap[p]) : Same(v, q)
    BY <2>1, Survivor DEF Kept, Held
  <2>3. v.serial = w.serial
    BY <1>0, <1>1, <1>2, <1>3, <2>1, <2>2, CurrentUnique DEF Same
  <2> QED BY <1>2, <2>1, <2>2, <2>3 DEF Same
<1>5. CASE \E res \in OpenedBy(p) : x.key = res.key /\ x.level = res.level /\ x.rule = res.rule
  BY <1>1, <1>2, <1>3, <1>5 DEF OpenedBy, Opened, Same, SameJudgement
<1> QED BY <1>0, <1>4, <1>5, CommittedCases

(* A judgement that stays the same keeps its row, so its alerts and its    *)
(* incident, through every commit of a run that nobody committed into.     *)
THEOREM SameRowKept == Spec => SameJudgementSameRow
<1>1. SoloInv /\ [Next]_vars =>
        [\A p \in Syncers : Commit(p) /\ undisturbed[p] =>
           \A r \in Current(open), q \in open' :
              Said({r}) = Said({q}) => r.serial = q.serial]_vars
  BY SoloKeepsRow
<1> QED BY <1>1, InitSolo, NextSolo, PTL DEF Spec, SameJudgementSameRow
-----------------------------------------------------------------------------
(* Duplicates.  Every open row can be laid to a run, no two of one target  *)
(* to the same, such that a run at work has read the rows laid to it.      *)
Ids == RowIds(open)

LaidTo(f) ==
  /\ \A r, q \in open : r.key = q.key /\ f[RowId(r)] = f[RowId(q)] => RowId(r) = RowId(q)
  /\ \A p \in Syncers : pc[p] \in {"read", "written"} =>
       \A i \in Ids : f[i] = p => i \in RowIds(snap[p])

DuplicatesInv == \E f \in [Ids -> Syncers] : LaidTo(f)

LEMMA InitDuplicates == Init => DuplicatesInv
<1> SUFFICES ASSUME Init PROVE \E f \in [{} -> Syncers] : LaidTo(f)
  BY DEF Init, DuplicatesInv, Ids, RowIds
<1> DEFINE none == [i \in {} |-> CHOOSE p \in Syncers : TRUE]
<1>1. none \in [{} -> Syncers]
  OBVIOUS
<1>2. LaidTo(none)
  BY DEF Init, LaidTo
<1> QED BY <1>1, <1>2

(* Steps that leave the ids of the open rows alone and read no others.     *)
LEMMA SameIdsSameLaid ==
  ASSUME DuplicatesInv, Ids' = Ids,
         \A x \in open' : \E r \in open : x.key = r.key /\ RowId(x) = RowId(r),
         \A p \in Syncers : pc'[p] \in {"read", "written"} =>
            \/ pc[p] \in {"read", "written"} /\ snap'[p] = snap[p]
            \/ Ids \subseteq RowIds(snap'[p])
  PROVE  DuplicatesInv'
<1>1. PICK f \in [Ids -> Syncers] : LaidTo(f)
  BY DEF DuplicatesInv
<1>2. \A r, q \in open' : r.key = q.key /\ f[RowId(r)] = f[RowId(q)] => RowId(r) = RowId(q)
  <2> SUFFICES ASSUME NEW x \in open', NEW y \in open', x.key = y.key, f[RowId(x)] = f[RowId(y)]
               PROVE  RowId(x) = RowId(y)
    OBVIOUS
  <2>1. PICK r \in open : x.key = r.key /\ RowId(x) = RowId(r)
    OBVIOUS
  <2>2. PICK q \in open : y.key = q.key /\ RowId(y) = RowId(q)
    OBVIOUS
  <2> QED BY <1>1, <2>1, <2>2 DEF LaidTo
<1>3. \A p \in Syncers : pc'[p] \in {"read", "written"} =>
        \A i \in Ids' : f[i] = p => i \in RowIds(snap'[p])
  BY <1>1 DEF LaidTo, RowIds
<1>4. \E g \in [Ids' -> Syncers] :
        /\ \A r, q \in open' : r.key = q.key /\ g[RowId(r)] = g[RowId(q)] => RowId(r) = RowId(q)
        /\ \A p \in Syncers : pc'[p] \in {"read", "written"} =>
             \A i \in Ids' : g[i] = p => i \in RowIds(snap'[p])
  BY <1>1, <1>2, <1>3
<1> QED BY <1>4 DEF DuplicatesInv, LaidTo, RowIds, RowId

(* Of the rows a run has read at most one of a target stays open, and none *)
(* beside a row that it opens.                                             *)
LEMMA OneStays ==
  ASSUME SoloInv, NEW p \in Syncers, NEW r \in open, RowId(r) \notin ClosedIds(p), RowId(r) \in RowIds(snap[p])
  PROVE  \E w \in Current(snap[p]) :
           /\ RowId(w) = RowId(r)
           /\ \A res \in OpenedBy(p) : res.key # w.key
<1>1. PICK w \in snap[p] : RowId(w) = RowId(r)
  BY DEF RowIds
<1>2. w \notin Closed(snap[p], Results(view[p]), Seen(view[p]))
  BY <1>1 DEF ClosedIds, RowIds
<1>3. w \in Kept(snap[p], Results(view[p])) \cup Held(snap[p], Results(view[p]), Seen(view[p]))
  BY <1>1, <1>2 DEF Closed
<1>4. ASSUME NEW res \in OpenedBy(p), res.key = w.key PROVE FALSE
  <2>1. res \in Results(view[p]) /\ ~ \E q \in Current(snap[p]) : SameJudgement(q, res)
    BY DEF OpenedBy, Opened
  <2>2. w \notin Held(snap[p], Results(view[p]), Seen(view[p]))
    BY <1>4, <2>1 DEF Held
  <2>3. PICK z \in Results(view[p]) : w \in Current(snap[p]) /\ SameJudgement(w, z)
    BY <1>3, <2>2 DEF Kept
  <2>4. z = res
    BY <1>4, <2>1, <2>3, ResultOfStation DEF SameJudgement
  <2> QED BY <2>1, <2>3, <2>4
<1> QED BY <1>1, <1>3, <1>4 DEF Kept, Held

(* A commit lays what it leaves of its rows, and what it opens, to itself. *)
LEMMA CommitDuplicates ==
  ASSUME SoloInv, DuplicatesInv, NEW p \in Syncers, Commit(p)
  PROVE  DuplicatesInv'
<1> DEFINE mine == RowIds(snap[p])
           Old(x, r) == r \in open /\ RowId(r) \notin ClosedIds(p) /\ RowId(x) = RowId(r) /\ x.key = r.key
           Fresh(x, res) == res \in OpenedBy(p) /\ x.key = res.key /\ RowId(x) = <<res.key, serial[p]>>
<1>0. /\ TypeOK /\ SerialInv /\ SnapInv /\ pc[p] = "written" /\ open' = Committed(p)
      /\ snap[p] \in SUBSET SnapRow
  BY DEF SoloInv, TypeOK, Commit
<1>1. PICK f \in [Ids -> Syncers] : LaidTo(f)
  BY DEF DuplicatesInv
<1>2. ASSUME NEW x \in open' PROVE (\E r : Old(x, r)) \/ (\E res : Fresh(x, res))
  BY <1>0, CommittedCases DEF Same, RowId
<1>3. ASSUME NEW x, NEW res, Fresh(x, res) PROVE RowId(x) \notin Ids
  <2>1. Inserts(p)
    BY <1>0, <1>3 DEF OpenedBy, Inserts
  <2> QED BY <1>0, <1>3, <2>1 DEF SerialInv, Ids, RowIds, RowId
<1>4. ASSUME NEW x, NEW r, Old(x, r) PROVE RowId(x) \in Ids
  BY <1>4 DEF Ids, RowIds
<1> DEFINE g == [i \in Ids' |-> IF i \in mine \/ i \notin Ids THEN p ELSE f[i]]
<1>5. \A x \in open' : RowId(x) \in Ids'
  BY DEF Ids, RowIds, RowId
<1>6. g \in [Ids' -> Syncers]
  BY <1>1
<1>7. \A i \in Ids : f[i] = p => i \in mine
  BY <1>0, <1>1 DEF LaidTo
<1>8. ASSUME NEW x \in open', NEW y \in open', x.key = y.key, g[RowId(x)] = g[RowId(y)]
      PROVE  RowId(x) = RowId(y)
  <2>0. /\ g[RowId(x)] = IF RowId(x) \in mine \/ RowId(x) \notin Ids THEN p ELSE f[RowId(x)]
        /\ g[RowId(y)] = IF RowId(y) \in mine \/ RowId(y) \notin Ids THEN p ELSE f[RowId(y)]
    BY <1>5
  <2>1. ASSUME NEW r, Old(x, r), NEW q, Old(y, q), RowId(x) \in mine, RowId(y) \in mine
        PROVE  RowId(x) = RowId(y)
    <3>1. PICK v \in Current(snap[p]) : RowId(v) = RowId(r)
      BY <2>1, OneStays
    <3>2. PICK w \in Current(snap[p]) : RowId(w) = RowId(q)
      BY <2>1, OneStays
    <3>3. v.key = w.key
      BY <1>8, <2>1, <3>1, <3>2 DEF RowId
    <3>4. v.serial = w.serial
      BY <1>0, <3>3, CurrentUnique
    <3> QED BY <2>1, <3>1, <3>2, <3>3, <3>4 DEF RowId
  <2>2. ASSUME NEW r, Old(x, r), NEW q, Old(y, q), RowId(x) \notin mine \/ RowId(y) \notin mine
        PROVE  RowId(x) = RowId(y)
    <3>1. RowId(x) \in Ids /\ RowId(y) \in Ids
      BY <1>4, <2>2
    <3>2. RowId(x) \notin mine /\ RowId(y) \notin mine
      BY <1>7, <1>8, <2>0, <2>2, <3>1
    <3>3. f[RowId(r)] = f[RowId(q)]
      BY <1>8, <2>0, <2>2, <3>1, <3>2
    <3> QED BY <1>1, <1>8, <2>2, <3>3 DEF LaidTo
  <2>3. ASSUME NEW a, NEW b, NEW r, Old(a, r), NEW res, Fresh(b, res), a.key = b.key,
               RowId(a) \in mine \/ f[RowId(a)] = p
        PROVE  FALSE
    <3>1. RowId(r) \in mine
      BY <1>4, <1>7, <2>3
    <3>2. PICK w \in Current(snap[p]) : RowId(w) = RowId(r) /\ \A z \in OpenedBy(p) : z.key # w.key
      BY <2>3, <3>1, OneStays
    <3> QED BY <2>3, <3>2 DEF RowId
  <2>4. ASSUME NEW r, Old(x, r), NEW res, Fresh(y, res) PROVE FALSE
    BY <1>3, <1>4, <1>8, <2>0, <2>3, <2>4
  <2>5. ASSUME NEW r, Old(y, r), NEW res, Fresh(x, res) PROVE FALSE
    BY <1>3, <1>4, <1>8, <2>0, <2>3, <2>5
  <2>6. ASSUME NEW res, Fresh(x, res), NEW res2, Fresh(y, res2) PROVE RowId(x) = RowId(y)
    BY <1>8, <2>6
  <2> HIDE DEF Old, Fresh, g, mine
  <2> QED BY <1>2, <2>1, <2>2, <2>4, <2>5, <2>6
<1>9. ASSUME NEW q \in Syncers, pc'[q] \in {"read", "written"}, NEW i \in Ids', g[i] = q
      PROVE  i \in RowIds(snap'[q])
  <2>1. q # p /\ pc'[q] = pc[q] /\ snap'[q] = snap[q]
    BY <1>0, <1>9 DEF Commit, Ended, TypeOK
  <2>2. i \in Ids /\ f[i] = q
    BY <1>9, <2>1
  <2> QED BY <1>1, <1>9, <2>1, <2>2 DEF LaidTo
<1> HIDE DEF g
<1>10. \E h \in [Ids' -> Syncers] :
        /\ \A r, q \in open' : r.key = q.key /\ h[RowId(r)] = h[RowId(q)] => RowId(r) = RowId(q)
        /\ \A o \in Syncers : pc'[o] \in {"read", "written"} =>
             \A i \in Ids' : h[i] = o => i \in RowIds(snap'[o])
  BY <1>6, <1>8, <1>9
<1> QED BY <1>10 DEF DuplicatesInv, LaidTo, RowIds, RowId

LEMMA NextDuplicates == SoloInv /\ DuplicatesInv /\ [Next]_vars => DuplicatesInv'
<1> SUFFICES ASSUME SoloInv, DuplicatesInv, [Next]_vars PROVE DuplicatesInv'
  OBVIOUS
<1>0. TypeOK
  BY DEF SoloInv
<1>1. ASSUME UNCHANGED open PROVE Ids' = Ids /\ \A x \in open' : \E r \in open : x.key = r.key /\ RowId(x) = RowId(r)
  BY <1>1 DEF Ids, RowIds, RowId
<1>2. ASSUME UNCHANGED <<open, pc, snap>> PROVE DuplicatesInv'
  BY <1>1, <1>2, SameIdsSameLaid
<1>3. CASE Tick
  <2>1. \A r \in open : Same([r EXCEPT !.age = Older(r.age)], r)
    <3> TAKE r \in open
    <3>1. r \in OpenRow /\ r.age \in Ages
      BY <1>0 DEF TypeOK, OpenRow, Ages
    <3> QED BY <3>1, OlderType, Aged DEF Same
  <2>2. \A x \in open' : \E r \in open : Same(x, r)
    BY <1>3, <2>1 DEF Tick
  <2>3. \A r \in open : \E x \in open' : Same(x, r)
    BY <1>3, <2>1 DEF Tick
  <2>4. Ids' = Ids
    BY <2>2, <2>3 DEF Ids, RowIds, RowId, Same
  <2> QED BY <1>3, <2>2, <2>4, SameIdsSameLaid DEF Tick, Same, RowId
<1>4. ASSUME NEW p \in Syncers, Observe(p) \/ Write(p) \/ Abort(p) PROVE DuplicatesInv'
  <2>1. /\ UNCHANGED open
        /\ \A q \in Syncers : pc'[q] \in {"read", "written"} =>
             pc[q] \in {"read", "written"} /\ snap'[q] = snap[q]
    BY <1>0, <1>4 DEF Observe, Write, Abort, Ended, TypeOK
  <2> QED BY <1>1, <2>1, SameIdsSameLaid
<1>5. ASSUME NEW p \in Syncers, ReadActive(p) PROVE DuplicatesInv'
  <2>1. Ids \subseteq RowIds(ActiveRows)
    <3> DEFINE Read(r) == [key |-> r.key, level |-> r.level, rule |-> r.rule, serial |-> r.serial,
                           expired |-> r.age > KeepUnseen]
    <3>1. ActiveRows = {Read(r) : r \in open}
      BY DEF ActiveRows
    <3>2. \A r \in open : RowId(Read(r)) = RowId(r)
      BY DEF RowId
    <3> HIDE DEF Read
    <3> QED BY <3>1, <3>2 DEF Ids, RowIds
  <2>2. /\ UNCHANGED open /\ snap'[p] = ActiveRows
        /\ \A q \in Syncers \ {p} : pc'[q] = pc[q] /\ snap'[q] = snap[q]
    BY <1>0, <1>5 DEF ReadActive, TypeOK
  <2> QED BY <1>1, <2>1, <2>2, SameIdsSameLaid
<1>6. ASSUME NEW s \in Stations, NEW h \in Readings, Reading(s, h) PROVE DuplicatesInv'
  BY <1>2, <1>6 DEF Reading, runVars
<1>7. CASE UNCHANGED vars
  BY <1>2, <1>7 DEF vars
<1> QED BY <1>3, <1>4, <1>5, <1>6, <1>7, CommitDuplicates DEF Next

(* However often runs overlap, a target never has more open rows than      *)
(* there are runs: each commit closes every row of a target it has read    *)
(* but at most one (engine.py, sync), so the duplicates that overlapping   *)
(* runs insert do not pile up.                                             *)
THEOREM DuplicatesNeverPileUp ==
  ASSUME IsFiniteSet(Syncers)
  PROVE  Spec => []DuplicatesBounded
<1>1. Init => SoloInv /\ DuplicatesInv
  BY InitSolo, InitDuplicates
<1>2. SoloInv /\ DuplicatesInv /\ [Next]_vars => SoloInv' /\ DuplicatesInv'
  BY NextSolo, NextDuplicates
<1>3. SoloInv /\ DuplicatesInv => DuplicatesBounded
  <2> SUFFICES ASSUME SoloInv, DuplicatesInv, NEW k \in Keys
               PROVE  Cardinality({r \in open : r.key = k}) <= Cardinality(Syncers)
    BY DEF DuplicatesBounded
  <2>1. PICK f \in [Ids -> Syncers] : LaidTo(f)
    BY DEF DuplicatesInv
  <2> DEFINE S == {r \in open : r.key = k}
             h == [r \in S |-> f[RowId(r)]]
  <2>2. h \in [S -> Syncers]
    BY <2>1 DEF Ids, RowIds
  <2>3. \A r, q \in S : h[r] = h[q] => r = q
    BY <2>1 DEF LaidTo, SoloInv, SerialInv
  <2>4. h \in Injection(S, Syncers)
    BY <2>2, <2>3 DEF Injection, IsInjective
  <2> HIDE DEF h, S
  <2>5. Cardinality(S) <= Cardinality(Syncers)
    BY <2>4, FS_Injection
  <2> QED BY <2>5 DEF S
<1> QED BY <1>1, <1>2, <1>3, PTL DEF Spec

-----------------------------------------------------------------------------
(* Silence.  What an undisturbed run found expired is so when it commits.  *)
ExpiredInv ==
  \A p \in Syncers : undisturbed[p] =>
    \A w \in snap[p], r \in open : RowId(w) = RowId(r) /\ w.expired => r.age > KeepUnseen

LEMMA OlderStays == ASSUME NEW n \in Ages, n > KeepUnseen PROVE Older(n) > KeepUnseen
BY DEF Older

LEMMA NextExpired == SoloInv /\ ExpiredInv /\ [Next]_vars => ExpiredInv'
<1> SUFFICES ASSUME SoloInv, ExpiredInv, [Next]_vars PROVE ExpiredInv'
  OBVIOUS
<1>0. TypeOK /\ SerialInv
  BY DEF SoloInv
<1>1. ASSUME UNCHANGED <<open, snap, undisturbed>> PROVE ExpiredInv'
  BY <1>1 DEF ExpiredInv, RowId
<1>2. CASE Tick
  <2>1. \A r \in open : LET x == [r EXCEPT !.age = Older(r.age)]
                        IN  RowId(x) = RowId(r) /\ (r.age > KeepUnseen => x.age > KeepUnseen)
    <3> TAKE r \in open
    <3>1. r \in OpenRow /\ r.age \in Ages
      BY <1>0 DEF TypeOK, OpenRow, Ages
    <3> QED BY <3>1, OlderType, Aged, OlderStays DEF RowId
  <2>2. \A x \in open' : \E r \in open : RowId(x) = RowId(r) /\ (r.age > KeepUnseen => x.age > KeepUnseen)
    BY <1>2, <2>1 DEF Tick
  <2>3. UNCHANGED <<snap, undisturbed>>
    BY <1>2 DEF Tick
  <2> QED BY <2>2, <2>3 DEF ExpiredInv, RowId
<1>3. ASSUME NEW p \in Syncers, Observe(p) \/ Write(p) PROVE ExpiredInv'
  BY <1>1, <1>3 DEF Observe, Write
<1>4. ASSUME NEW p \in Syncers, ReadActive(p) PROVE ExpiredInv'
  <2>1. \A w \in ActiveRows, r \in open : RowId(w) = RowId(r) /\ w.expired => r.age > KeepUnseen
    <3> SUFFICES ASSUME NEW w \in ActiveRows, NEW r \in open, RowId(w) = RowId(r), w.expired
                 PROVE  r.age > KeepUnseen
      OBVIOUS
    <3>1. PICK q \in open :
            w = [key |-> q.key, level |-> q.level, rule |-> q.rule, serial |-> q.serial,
                 expired |-> q.age > KeepUnseen]
      BY DEF ActiveRows
    <3>2. RowId(q) = RowId(w)
      BY <3>1 DEF RowId
    <3>3. q = r
      BY <1>0, <3>2 DEF SerialInv
    <3>4. w.expired = (q.age > KeepUnseen)
      BY <3>1
    <3> QED BY <3>3, <3>4
  <2>2. /\ UNCHANGED open /\ snap'[p] = ActiveRows
        /\ \A q \in Syncers \ {p} : snap'[q] = snap[q] /\ undisturbed'[q] = undisturbed[q]
    BY <1>0, <1>4 DEF ReadActive, TypeOK
  <2> QED BY <2>1, <2>2 DEF ExpiredInv, RowId
<1>5. ASSUME NEW p \in Syncers, Commit(p) PROVE ExpiredInv'
  BY <1>5 DEF Commit, ExpiredInv
<1>6. ASSUME NEW p \in Syncers, Abort(p) PROVE ExpiredInv'
  <2>1. /\ UNCHANGED open /\ ~ undisturbed'[p]
        /\ \A q \in Syncers \ {p} : snap'[q] = snap[q] /\ undisturbed'[q] = undisturbed[q]
    BY <1>0, <1>6 DEF Abort, Ended, TypeOK
  <2> QED BY <2>1 DEF ExpiredInv, RowId
<1>7. ASSUME NEW s \in Stations, NEW h \in Readings, Reading(s, h) PROVE ExpiredInv'
  BY <1>1, <1>7 DEF Reading, runVars
<1>8. CASE UNCHANGED vars
  BY <1>1, <1>8 DEF vars
<1> QED BY <1>2, <1>3, <1>4, <1>5, <1>6, <1>7, <1>8 DEF Next

(* Among the rows of a target one was drawn last.                          *)
LEMMA SomeCurrent ==
  ASSUME NEW rows \in SUBSET SnapRow, NEW n \in Nat, \A r \in rows : r.serial < n,
         NEW k, \E r \in rows : r.key = k
  PROVE  \E w \in Current(rows) : w.key = k
<1> DEFINE Below == {ss \in Nat \X Nat : ss[1] < ss[2]}
           Gap == {n - r.serial : r \in {q \in rows : q.key = k}}
<1>1. \A r \in rows : r.serial \in Nat /\ n - r.serial \in Nat
  BY DEF SnapRow
<1>2. Gap \subseteq Nat /\ Gap # {}
  BY <1>1
<1>3. IsWellFoundedOn(Below, Nat)
  BY NatLessThanWellFounded DEF OpToRel
<1> HIDE DEF Below
<1>4. PICK d \in Gap : \A e \in Gap : ~ (<<e, d>> \in Below)
  BY <1>2, <1>3, WFMin
<1>5. PICK w \in rows : w.key = k /\ d = n - w.serial
  BY <1>4
<1>6. ASSUME NEW q \in rows, q.key = w.key PROVE q.serial <= w.serial
  <2>1. n - q.serial \in Gap
    BY <1>5, <1>6
  <2>2. ~ (n - q.serial < n - w.serial)
    BY <1>1, <1>2, <1>4, <1>5, <2>1 DEF Below
  <2> QED BY <1>1, <2>2
<1> QED BY <1>5, <1>6 DEF Current

LEMMA SilentStays ==
  ASSUME SoloInv, ExpiredInv, NEW p \in Syncers, NEW k \in Keys, Commit(p), undisturbed[p],
         NEW r \in open, r.key = k, ~ \E x \in open' : x.key = k, k[1] \notin Seen(view[p])
  PROVE  \E q \in open : q.key = k /\ q.age > KeepUnseen
<1>0. /\ TypeOK /\ SerialInv /\ SnapInv /\ snap[p] \in SUBSET SnapRow /\ open' = Committed(p)
      /\ nextSerial \in Nat
  BY DEF SoloInv, TypeOK, Commit
<1>1. \A w \in snap[p] : w.serial < nextSerial
  BY <1>0 DEF SnapInv, SerialInv, Same
<1>2. \E w \in snap[p] : w.key = k
  BY <1>0 DEF SnapInv, Same
<1>3. PICK w \in Current(snap[p]) : w.key = k
  BY <1>0, <1>1, <1>2, SomeCurrent
<1>4. PICK q \in open : Same(w, q)
  BY <1>0, <1>3 DEF SnapInv, Current
<1>5. RowId(q) \in ClosedIds(p)
  <2> SUFFICES ASSUME RowId(q) \notin ClosedIds(p) PROVE FALSE
    OBVIOUS
  <2>1. Left(p, q) \in open' /\ Left(p, q).key = k
    BY <1>0, <1>3, <1>4, CommittedParts, LeftSame DEF Same
  <2> QED BY <2>1
<1>6. PICK v \in Closed(snap[p], Results(view[p]), Seen(view[p])) : RowId(v) = RowId(q)
  BY <1>5 DEF ClosedIds, RowIds
<1>7. v = w
  BY <1>0, <1>3, <1>4, <1>6 DEF Closed, Current, SnapInv, Same, RowId
<1>8. \A res \in Results(view[p]) : res.key # k
  BY ResultOfStation
<1>9. w.expired
  BY <1>3, <1>6, <1>7, <1>8 DEF Closed, Held
<1> QED BY <1>3, <1>4, <1>9 DEF ExpiredInv, Current, Same, RowId

(* A target never looks safe merely because its station fell silent: a run *)
(* that nobody committed into takes a target's last row away only with an  *)
(* observation of the station or after KEEP_UNSEEN_MIN without one         *)
(* (engine.py, sync), whatever others did before.                          *)
THEOREM SilenceNeverCloses == Spec => UnseenHeld
<1> DEFINE Silent ==
      \A p \in Syncers, k \in Keys :
        /\ Commit(p) /\ undisturbed[p]
        /\ \E r \in open : r.key = k
        /\ ~ \E r \in open' : r.key = k
        => \/ k[1] \in Seen(view[p])
           \/ \E r \in open : r.key = k /\ r.age > KeepUnseen
<1>1. Init => SoloInv /\ ExpiredInv
  BY InitSolo DEF Init, ExpiredInv
<1>2. SoloInv /\ ExpiredInv /\ [Next]_vars => SoloInv' /\ ExpiredInv'
  BY NextSolo, NextExpired
<1>3. SoloInv /\ ExpiredInv => Silent
  BY SilentStays
<1> QED BY <1>1, <1>2, <1>3, PTL DEF Spec, UnseenHeld

-----------------------------------------------------------------------------
(* The second engine (Warnings) in the composition: each feed alone is one *)
(* whose office, wind and track may all turn.                              *)
All == INSTANCE Warnings_proofs WITH
  Turning <- {"rain", "typhoon", "wind", "track"}, Amounts <- {0, 2}, MaxHours <- 4, MaxChanges <- 2,
  Short <- 2, Long <- 3, RainRules <- MCRainRules, KeepUnseen <- KeepHours, TrackKept <- 1, Gaps <- FALSE,
  view <- sight, row <- verdict, changes <- turns

LEMMA FeedBounds ==
  ASSUME NEW p \in Feeds
  PROVE  /\ Turned[p] \subseteq {"rain", "typhoon", "wind", "track"} /\ HourlyRain[p] \subseteq {0, 2}
         /\ HoursOf[p] \in 0..4 /\ TurnsOf[p] \in 0..2
BY DEF Feeds, Turned, HourlyRain, HoursOf, TurnsOf

LEMMA AllConstants == All!WarningsConstants
BY FeedsAssumption DEF All!WarningsConstants, Feed!WarningsConstants, Feeds, HourlyRain

LEMMA FeedLevels ==
  ASSUME NEW p
  PROVE  /\ \A f, n : Feed(p)!SumOf(f, n) = All!SumOf(f, n)
         /\ \A f : Feed(p)!RainLevel(f) = All!RainLevel(f)
<1>1. \A f, n : Feed(p)!SumOf(f, n) = All!SumOf(f, n)
  BY DEF Feed!SumOf, All!SumOf, Feed!None, All!None
<1> QED BY <1>1 DEF Feed!RainLevel, All!RainLevel

LEMMA FeedStep ==
  ASSUME NEW p \in Feeds, hours \in Nat, turns \in Nat, Feed(p)!Next
  PROVE  All!Next
<1>1. Feed(p)!Turn => All!Turn
  BY FeedLevels, FeedBounds DEF Feed!Turn, All!Turn, Feed!world, All!world, Feed!store, All!store,
     Feed!engine, All!engine, Feed!Levels, All!Levels, Feed!Keys, All!Keys, Feed!Lower, All!Lower,
     Feed!Danger, All!Danger, Feed!Higher, All!Higher
<1>2. ASSUME Feed(p)!Hour PROVE All!Hour
  <2>1. /\ Feed(p)!Keys = All!Keys /\ Feed(p)!NoRow = All!NoRow /\ Feed(p)!None = All!None
        /\ \A f, v : Feed(p)!Shift(f, v) = All!Shift(f, v)
    BY DEF Feed!Keys, All!Keys, Feed!NoRow, All!NoRow, Feed!None, All!None, Feed!Shift, All!Shift
  <2>2. \A k : (Feed(p)!Danger(k))' = (All!Danger(k))'
    BY FeedLevels DEF Feed!Danger, All!Danger, Feed!Higher, All!Higher
  <2>3. least' = [k \in All!Keys |-> (All!Danger(k))']
    BY <1>2, <2>1, <2>2 DEF Feed!Hour
  <2>4. hours < 4 /\ \E a \in {0, 2} : fallen' = All!Shift(fallen, a)
    BY <1>2, <2>1, FeedBounds DEF Feed!Hour
  <2> QED BY <1>2, <2>1, <2>3, <2>4 DEF Feed!Hour, All!Hour
<1>3. Feed(p)!Fade => All!Fade
  BY FeedLevels, FeedBounds DEF Feed!Fade, All!Fade, Feed!world, All!world, Feed!engine,
     All!engine
<1>4. Feed(p)!WarningsFail => All!WarningsFail
  BY FeedLevels, FeedBounds DEF Feed!WarningsFail, All!WarningsFail, Feed!world, All!world,
     Feed!store, All!store, Feed!engine, All!engine
<1>5. Feed(p)!Aws => All!Aws
  BY FeedLevels, FeedBounds DEF Feed!Aws, All!Aws, Feed!world, All!world, Feed!engine, All!engine
<1>6. Feed(p)!Typhoon => All!Typhoon
  BY FeedLevels, FeedBounds DEF Feed!Typhoon, All!Typhoon, Feed!world, All!world, Feed!engine,
     All!engine, Feed!counts, All!counts
<1>7. Feed(p)!JudgeFails => All!JudgeFails
  BY FeedLevels, FeedBounds DEF Feed!JudgeFails, All!JudgeFails, Feed!world, All!world,
     Feed!store, All!store, Feed!None, All!None
<1>8. Feed(p)!GetWarnings => All!GetWarnings
  BY FeedLevels, FeedBounds DEF Feed!GetWarnings, All!GetWarnings, Feed!world, All!world,
     Feed!store, All!store, Feed!engine, All!engine, Feed!Accepted, All!Accepted, Feed!InTheList,
     All!InTheList
<1>9. Feed(p)!UpsertWarnings => All!UpsertWarnings
  BY FeedLevels, FeedBounds DEF Feed!UpsertWarnings, All!UpsertWarnings, Feed!world, All!world,
     Feed!engine, All!engine, Feed!counts, All!counts
<1>10. Feed(p)!ReleaseMissing => All!ReleaseMissing
  BY FeedLevels, FeedBounds DEF Feed!ReleaseMissing, All!ReleaseMissing, Feed!world, All!world,
     Feed!engine, All!engine, Feed!counts, All!counts, Feed!Unreleased, All!Unreleased
<1>11. Feed(p)!FinishWarnings => All!FinishWarnings
  BY FeedLevels, FeedBounds DEF Feed!FinishWarnings, All!FinishWarnings, Feed!world, All!world,
     Feed!engine, All!engine, Feed!counts, All!counts
<1>12. Feed(p)!ReadStation => All!ReadStation
  BY FeedLevels, FeedBounds DEF Feed!ReadStation, All!ReadStation, Feed!world, All!world,
     Feed!store, All!store, Feed!counts, All!counts, Feed!None, All!None, Feed!WindLevel,
     All!WindLevel, Feed!Higher, All!Higher
<1>13. Feed(p)!ReadAge => All!ReadAge
  BY FeedLevels, FeedBounds DEF Feed!ReadAge, All!ReadAge, Feed!world, All!world, Feed!store,
     All!store, Feed!counts, All!counts, Feed!WarningsValid, All!WarningsValid
<1>14. Feed(p)!ReadWarnings => All!ReadWarnings
  BY FeedLevels, FeedBounds DEF Feed!ReadWarnings, All!ReadWarnings, Feed!world, All!world,
     Feed!store, All!store, Feed!counts, All!counts, Feed!RainWarning, All!RainWarning,
     Feed!TyphoonLevel, All!TyphoonLevel, Feed!Higher, All!Higher
<1>15. Feed(p)!Sync => All!Sync
  BY FeedLevels, FeedBounds DEF Feed!Sync, All!Sync, Feed!world, All!world, Feed!store, All!store,
     Feed!counts, All!counts, Feed!Keys, All!Keys, Feed!Synced, All!Synced, Feed!Judged, All!Judged,
     Feed!LevelOf, All!LevelOf, Feed!NoRow, All!NoRow, Feed!Expired, All!Expired, Feed!None, All!None
<1> QED BY <1>1, <1>2, <1>3, <1>4, <1>5, <1>6, <1>7, <1>8, <1>9, <1>10, <1>11, <1>12, <1>13, <1>14, <1>15
     DEF Feed!Next, All!Next, Feed!Judge, All!Judge, Feed!Collect, All!Collect

(* Hours and turns are counted.                                            *)
Counted == hours \in Nat /\ turns \in Nat

LEMMA AllCounted == ASSUME Counted, All!Next PROVE Counted'
BY DEF Counted, All!Next, All!Judge, All!Collect, All!Turn, All!Hour, All!Fade, All!WarningsFail, All!Aws,
   All!Typhoon, All!JudgeFails, All!GetWarnings, All!UpsertWarnings, All!ReleaseMissing, All!FinishWarnings,
   All!ReadStation, All!ReadAge, All!ReadWarnings, All!Sync, All!counts

FeedsInv == Counted /\ All!FeedInv /\ All!TypeOK

LEMMA AnyInitInv == AnyInit => TypeOK /\ FeedsInv
<1> SUFFICES ASSUME AnyInit PROVE TypeOK /\ FeedsInv
  OBVIOUS
<1>1. All!Init
  BY DEF AnyInit, Feed!Init, All!Init, Feed!Keys, All!Keys, Feed!NoRow, All!NoRow, Feed!None, All!None
<1>2. Counted
  BY <1>1 DEF All!Init, Counted
<1>3. All!FeedInv /\ All!TypeOK
  BY <1>1, AllConstants, All!InitFeed, All!InitTyped
<1> QED BY <1>2, <1>3, InitType DEF AnyInit, FeedsInv

LEMMA AnyNextInv == ASSUME TypeOK, FeedsInv, [AnyNext]_allVars PROVE TypeOK' /\ FeedsInv'
<1>1. CASE UNCHANGED feedVars
  <2>1. UNCHANGED All!vars
    BY <1>1 DEF feedVars, All!vars, All!world, All!store, All!engine, All!counts
  <2>2. All!FeedInv' /\ All!TypeOK'
    BY <2>1, AllConstants, All!NextFeed, All!NextTyped DEF FeedsInv
  <2>3. Counted'
    BY <1>1 DEF feedVars, FeedsInv, Counted
  <2>4. [Next]_vars
    BY DEF AnyNext, allVars, InRows, In
  <2> QED BY <2>2, <2>3, <2>4, NextType DEF FeedsInv
<1>2. CASE \E p \in Feeds : In(p, Feed(p)!Next)
  <2>1. PICK p \in Feeds : Feed(p)!Next /\ UNCHANGED vars
    BY <1>2 DEF In
  <2>2. All!Next
    BY <2>1, FeedStep DEF FeedsInv, Counted
  <2>3. All!FeedInv' /\ All!TypeOK'
    BY <2>2, AllConstants, All!NextFeed, All!NextTyped DEF FeedsInv
  <2>4. Counted'
    BY <2>2, AllCounted DEF FeedsInv
  <2> QED BY <2>1, <2>3, <2>4, NextType DEF FeedsInv
<1> QED BY <1>1, <1>2 DEF AnyNext, allVars, InRows

(* What the rows and the feeds hold keeps its type.                        *)
THEOREM AnyTypeCorrect == AnySpec => []AnyTypeOK
<1>1. FeedsInv => Feed("rain")!TypeOK
  BY DEF FeedsInv, All!TypeOK, Feed!TypeOK, All!Levels, Feed!Levels, All!None, Feed!None, All!Keys, Feed!Keys,
     All!NoRow, Feed!NoRow, HourlyRain, Feeds
<1>2. TypeOK /\ FeedsInv => AnyTypeOK
  BY <1>1 DEF AnyTypeOK
<1> QED BY <1>2, AnyInitInv, AnyNextInv, PTL DEF AnySpec

(* With the rain of every hour stored, the second engine lowers or closes  *)
(* a judgement of rain, wind or landslide only to a level the danger had   *)
(* within the hour, or after it was long unseen (hazards.py:27): in every  *)
(* feed the run looks at, for any zones, time without data and failures.   *)
THEOREM UnknownNeverSafe == AnySpec => UnknownIsNotSafe
<1>1. Feed("rain")!Sync => All!Sync
  BY DEF Feed!Sync, All!Sync, Feed!world, All!world, Feed!store, All!store, Feed!counts, All!counts, Feed!Keys,
     All!Keys, Feed!Synced, All!Synced, Feed!Judged, All!Judged, Feed!LevelOf, All!LevelOf, Feed!NoRow,
     All!NoRow, Feed!Expired, All!Expired, Feed!None, All!None
<1>2. FeedsInv => Feed("rain")!LoweredKnowing
  BY <1>1, AllConstants, All!SyncHonest DEF FeedsInv, Feed!LoweredKnowing, Feed!Lowered, All!Lowered,
     Feed!Expired, All!Expired, Feed!Keys, All!Keys
<1> QED BY <1>2, AnyInitInv, AnyNextInv, PTL DEF AnySpec, UnknownIsNotSafe
=============================================================================
