--------------------------- MODULE Guidance_proofs ---------------------------
(***************************************************************************)
(* Proofs about the parts of the guidance a person gets, within the        *)
(* composition the runs check (MCGuidance): each part's own variables are  *)
(* changed by its own steps only, so that what its steps keep, all keep.   *)
(* The tables of a drill, the spending, the order of a round of visits and *)
(* the way of a boat.                                                      *)
(***************************************************************************)
EXTENDS MCGuidance, SequenceTheorems, FiniteSetTheorems, WellFoundedInduction, TLAPS

-----------------------------------------------------------------------------
(* A drill's questions and real ones (DrillData).                          *)

(* Rows that belong to the drill.                                          *)
OfDrill(row) == row.value = "drill" \/ row.kind \in Tools!RealKinds

Layers == {Tools!StationsLayer, {Tools!Made}}

ToolTypes ==
  /\ asking \in [Questions -> {None, "drill", "real"}]
  /\ todo \in [Questions -> SUBSET DOMAIN MCReads]
  /\ waiting \in [Questions -> SUBSET (DOMAIN MCReads \ {"route"})]
  /\ DOMAIN learnt = Questions
  /\ loader \in [by : {None} \cup (Questions \X DOMAIN MCReads), rows : Seq(Layers)]

(* What is kept over the tables is the drill's, what is being loaded is    *)
(* what the server answers, only a drill's statements wait for it, and     *)
(* nothing read is left over from the question before.                     *)
WorldInv ==
  /\ kept # None => /\ DOMAIN kept = Tools!Covered
                    /\ \A t \in Tools!Covered : \A row \in kept[t] : OfDrill(row)
  /\ Len(loader.rows) <= 3 /\ \A i \in 1..Len(loader.rows) : loader.rows[i] = Tools!Answered(Tools!Parts[i])
  /\ \A a \in Questions : waiting[a] # {} => asking[a] = "drill"
  /\ \A a \in Questions : asking[a] = None => \A h \in learnt[a] : h.rows = {}
  /\ OneWorld

(* The tables of the tools' statements are covered, or the same in a drill.*)
LEMMA TablesCovered ==
  ASSUME NEW sql \in DOMAIN MCReads, sql # "route"
  PROVE  MCReads[sql] \subseteq Tools!Covered \cup Tools!Fixed
BY DEF MCReads, Tools!Covered, Tools!Fixed

LEMMA LayerRows ==
  /\ \A row \in Tools!ObservationRows(Tools!StationsLayer) : OfDrill(row)
  /\ \A row \in {Tools!Made} : OfDrill(row)
BY DEF Tools!ObservationRows, Tools!StationsLayer, Tools!Shown, Tools!Made, OfDrill

LEMMA RowsLoaded ==
  ASSUME NEW got, got[1] = {Tools!Made}, got[2] = Tools!StationsLayer, got[3] = {Tools!Made}
  PROVE  /\ DOMAIN Tools!RowsOf(got) = Tools!Covered
         /\ \A t \in Tools!Covered : \A row \in Tools!RowsOf(got)[t] : OfDrill(row)
BY LayerRows DEF Tools!RowsOf

(* What a statement finds under the drill's rows, and without them.        *)
LEMMA FoundInDrill ==
  ASSUME NEW sql \in DOMAIN MCReads, sql # "route", NEW rows, DOMAIN rows = Tools!Covered,
         \A t \in Tools!Covered : \A row \in rows[t] : OfDrill(row)
  PROVE  \A h \in Tools!Found(sql, rows) : \A row \in h.rows :
           row.value = "drill" \/ h.table \in Tools!Fixed \/ row.kind \in Tools!RealKinds
BY TablesCovered DEF Tools!Found, OfDrill

LEMMA FoundInReality ==
  ASSUME NEW sql \in DOMAIN MCReads
  PROVE  \A h \in Tools!Found(sql, Tools!Uncovered) : \A row \in h.rows : row.value = "real"
BY DEF Tools!Found, Tools!Uncovered, Tools!Stored, Tools!Real

LEMMA NothingFound ==
  ASSUME NEW sql
  PROVE  \A h \in Tools!Unavailable(sql) : h.rows = {}
BY DEF Tools!Unavailable

LEMMA NoneApart == None \notin {"drill", "real"}
BY GuidanceAssumption DEF Tools!DrillDataAssumption

LEMMA WorldInit == Tools!Init => ToolTypes /\ WorldInv
BY DEF Tools!Init, Tools!Free, ToolTypes, WorldInv, OneWorld, Tools!OneWorld

(* What a question hears keeps the two worlds apart when all of it does.   *)
LEMMA HearsKeeps ==
  ASSUME ToolTypes, OneWorld, NEW a \in Questions, NEW what, Tools!Hears(a, what),
         asking' = asking,
         \A q \in Questions : asking[q] = None => \A h \in learnt[q] : h.rows = {},
         \A h \in what : \A row \in h.rows :
           IF asking[a] = "real" THEN row.value = "real"
           ELSE row.value = "drill" \/ h.table \in Tools!Fixed \/ row.kind \in Tools!RealKinds,
         asking[a] = None => \A h \in what : h.rows = {}
  PROVE  /\ DOMAIN learnt' = Questions
         /\ OneWorld'
         /\ \A q \in Questions : asking'[q] = None => \A h \in learnt'[q] : h.rows = {}
<1>1. \A q \in Questions : learnt'[q] = IF q = a THEN learnt[a] \cup what ELSE learnt[q]
  BY DEF Tools!Hears, ToolTypes
<1>2. DOMAIN learnt' = Questions
  BY DEF Tools!Hears, ToolTypes
<1> QED BY <1>1, <1>2 DEF OneWorld, Tools!OneWorld

LEMMA WorldNext ==
  ASSUME ToolTypes, WorldInv, [Tools!Next]_(Tools!drillDataVars)
  PROVE  ToolTypes' /\ WorldInv'
<1>0. OneWorld /\ \A q \in Questions : asking[q] = None => \A h \in learnt[q] : h.rows = {}
  BY DEF WorldInv
<1> USE DEF WorldInv, ToolTypes
<1>1. ASSUME NEW a \in Questions, NEW drill \in BOOLEAN, Tools!Ask(a, drill) PROVE ToolTypes' /\ WorldInv'
  <2>1. PICK sqls \in SUBSET DOMAIN MCReads : todo' = [todo EXCEPT ![a] = sqls]
    BY <1>1 DEF Tools!Ask
  <2>2. ToolTypes'
    BY <1>1, <2>1 DEF Tools!Ask
  <2>3. \A q \in Questions : q # a => asking'[q] = asking[q]
    BY <1>1 DEF Tools!Ask
  <2>4. OneWorld'
    <3> SUFFICES ASSUME NEW q \in Questions, NEW h \in learnt[q], NEW row \in h.rows
                 PROVE  IF asking'[q] = "real" THEN row.value = "real"
                        ELSE row.value = "drill" \/ h.table \in Tools!Fixed \/ row.kind \in Tools!RealKinds
      BY <1>1 DEF Tools!Ask, OneWorld, Tools!OneWorld
    <3>1. q # a
      BY <1>1 DEF Tools!Ask
    <3> QED BY <1>0, <2>3, <3>1 DEF OneWorld, Tools!OneWorld
  <2>5. \A q \in Questions : waiting'[q] # {} => asking'[q] = "drill"
    BY <1>1, <2>3, NoneApart DEF Tools!Ask
  <2>6. \A q \in Questions : asking'[q] = None => \A h \in learnt'[q] : h.rows = {}
    BY <1>0, <1>1, <2>3 DEF Tools!Ask
  <2> QED BY <1>1, <2>2, <2>4, <2>5, <2>6 DEF Tools!Ask
<1>2. ASSUME NEW a \in Questions, Tools!Ends(a) PROVE ToolTypes' /\ WorldInv'
  <2>1. \A q \in Questions : /\ asking'[q] = IF q = a THEN None ELSE asking[q]
                             /\ learnt'[q] = IF q = a THEN {} ELSE learnt[q]
    BY <1>2 DEF Tools!Ends
  <2>2. ToolTypes'
    BY <1>2 DEF Tools!Ends
  <2>3. OneWorld'
    BY <1>0, <2>1 DEF OneWorld, Tools!OneWorld
  <2>4. \A q \in Questions : waiting'[q] # {} => asking'[q] = "drill"
    BY <1>2, <2>1 DEF Tools!Ends
  <2>5. \A q \in Questions : asking'[q] = None => \A h \in learnt'[q] : h.rows = {}
    BY <1>0, <2>1
  <2> QED BY <1>2, <2>2, <2>3, <2>4, <2>5 DEF Tools!Ends
<1>3. ASSUME NEW a \in Questions, NEW sql \in DOMAIN MCReads, Tools!Query(a, sql) PROVE ToolTypes' /\ WorldInv'
  <2>1. asking[a] \in {"drill", "real"} /\ asking' = asking /\ kept' = kept /\ loader' = loader
    BY <1>3 DEF Tools!Query
  <2>2. todo' \in [Questions -> SUBSET DOMAIN MCReads]
    BY <1>3 DEF Tools!Query
  <2>3. CASE sql # "route" /\ Tools!Active(a) /\ waiting' = [waiting EXCEPT ![a] = @ \cup {sql}] /\ UNCHANGED learnt
    <3>1. waiting' \in [Questions -> SUBSET (DOMAIN MCReads \ {"route"})] /\ \A q \in Questions : waiting'[q] # {} => asking[q] = "drill"
      BY <2>3 DEF Tools!Active
    <3>2. OneWorld'
      BY <1>0, <2>1, <2>3 DEF OneWorld, Tools!OneWorld
    <3> QED BY <2>1, <2>2, <2>3, <3>1, <3>2
  <2>4. CASE ~ Tools!Active(a) /\ Tools!Hears(a, Tools!Found(sql, Tools!Uncovered)) /\ UNCHANGED waiting
    <3>1. asking[a] = "real"
      BY <2>1, <2>4 DEF Tools!Active
    <3>2. DOMAIN learnt' = Questions /\ OneWorld'
          /\ \A q \in Questions : asking'[q] = None => \A h \in learnt'[q] : h.rows = {}
      BY <1>0, <1>3, <2>1, <2>4, <3>1, FoundInReality, HearsKeeps DEF Tools!Query
    <3> QED BY <2>1, <2>2, <2>4, <3>2
  <2>5. CASE /\ Tools!Hears(a, {[table |-> "risk_assessments",
                                 rows |-> {IF Tools!Active(a) THEN Tools!Made ELSE Tools!Real}]})
             /\ UNCHANGED waiting
    <3> DEFINE what == {[table |-> "risk_assessments",
                         rows |-> {IF Tools!Active(a) THEN Tools!Made ELSE Tools!Real}]}
    <3>1. \A h \in what : \A row \in h.rows : IF asking[a] = "real" THEN row.value = "real" ELSE row.value = "drill"
      BY <2>1 DEF Tools!Active, Tools!Made, Tools!Real
    <3>2. asking[a] # None
      BY <1>3 DEF Tools!Query
    <3>3. Tools!Hears(a, what)
      BY <2>5
    <3> HIDE DEF what
    <3>4. DOMAIN learnt' = Questions /\ OneWorld'
          /\ \A q \in Questions : asking'[q] = None => \A h \in learnt'[q] : h.rows = {}
      BY <1>0, <2>1, <3>1, <3>2, <3>3, HearsKeeps
    <3> QED BY <2>1, <2>2, <2>5, <3>4
  <2> QED BY <1>3, <2>3, <2>4, <2>5 DEF Tools!Query
<1>4. ASSUME NEW a \in Questions, NEW sql \in DOMAIN MCReads, Tools!QueryFails(a, sql) PROVE ToolTypes' /\ WorldInv'
  <2>1. asking' = asking /\ kept' = kept /\ loader' = loader
    BY <1>4 DEF Tools!QueryFails
  <2>2. /\ todo' \in [Questions -> SUBSET DOMAIN MCReads] /\ waiting' \in [Questions -> SUBSET (DOMAIN MCReads \ {"route"})]
        /\ \A q \in Questions : waiting'[q] # {} => asking'[q] = "drill"
    BY <1>4, <2>1 DEF Tools!QueryFails
  <2>3. Tools!Hears(a, Tools!Unavailable(sql))
    BY <1>4 DEF Tools!QueryFails
  <2>4. DOMAIN learnt' = Questions /\ OneWorld'
        /\ \A q \in Questions : asking'[q] = None => \A h \in learnt'[q] : h.rows = {}
    BY <1>0, <2>1, <2>3, NothingFound, HearsKeeps
  <2> QED BY <2>1, <2>2, <2>4
<1>5. ASSUME NEW a \in Questions, NEW sql \in DOMAIN MCReads, Tools!UseRows(a, sql) PROVE ToolTypes' /\ WorldInv'
  <2>1. asking' = asking /\ kept' = kept /\ loader' = loader /\ todo' = todo
    BY <1>5 DEF Tools!UseRows
  <2>2. /\ waiting' \in [Questions -> SUBSET (DOMAIN MCReads \ {"route"})]
        /\ \A q \in Questions : waiting'[q] # {} => asking'[q] = "drill"
    BY <1>5, <2>1 DEF Tools!UseRows
  <2>3. sql \in waiting[a] /\ asking[a] = "drill" /\ kept # None /\ Tools!Hears(a, Tools!Found(sql, kept))
    BY <1>5 DEF Tools!UseRows
  <2>4. \A h \in Tools!Found(sql, kept) : \A row \in h.rows :
          row.value = "drill" \/ h.table \in Tools!Fixed \/ row.kind \in Tools!RealKinds
    BY <2>3, FoundInDrill
  <2> DEFINE what == Tools!Found(sql, kept)
  <2>5. Tools!Hears(a, what) /\ asking[a] # None /\ asking[a] # "real"
    BY <2>3, NoneApart
  <2> HIDE DEF what
  <2>6. \A h \in what : \A row \in h.rows :
          row.value = "drill" \/ h.table \in Tools!Fixed \/ row.kind \in Tools!RealKinds
    BY <2>4 DEF what
  <2>7. DOMAIN learnt' = Questions /\ OneWorld'
        /\ \A q \in Questions : asking'[q] = None => \A h \in learnt'[q] : h.rows = {}
    BY <1>0, <2>1, <2>5, <2>6, HearsKeeps
  <2> QED BY <2>1, <2>2, <2>7
<1>6. ASSUME NEW a \in Questions, NEW sql \in DOMAIN MCReads, Tools!LoadBegins(a, sql) PROVE ToolTypes' /\ WorldInv'
  <2>1. /\ loader' = [by |-> <<a, sql>>, rows |-> <<>>]
        /\ asking' = asking /\ todo' = todo /\ waiting' = waiting /\ kept' = kept /\ learnt' = learnt
    BY <1>6 DEF Tools!LoadBegins, Tools!Free
  <2>2. loader' \in [by : {None} \cup (Questions \X DOMAIN MCReads), rows : Seq(Layers)]
    BY <2>1
  <2> QED BY <1>0, <2>1, <2>2 DEF OneWorld, Tools!OneWorld
<1>7. ASSUME Tools!Get PROVE ToolTypes' /\ WorldInv'
  <2> DEFINE n == Len(loader.rows)
             new == Tools!Answered(Tools!Parts[n + 1])
  <2>1. n \in Nat /\ n < 3 /\ loader.rows \in Seq(Layers)
    BY <1>7 DEF Tools!Get, Tools!Parts
  <2>2. new \in Layers
    BY DEF Tools!Answered, Layers
  <2>3. /\ loader' = [loader EXCEPT !.rows = Append(@, new)]
        /\ asking' = asking /\ todo' = todo /\ waiting' = waiting /\ kept' = kept /\ learnt' = learnt
    BY <1>7 DEF Tools!Get
  <2>4. \A i \in 1..n : loader.rows[i] = Tools!Answered(Tools!Parts[i])
    OBVIOUS
  <2> HIDE DEF new
  <2>5. loader'.rows = Append(loader.rows, new) /\ loader'.by = loader.by
    BY <2>3
  <2>6. loader' \in [by : {None} \cup (Questions \X DOMAIN MCReads), rows : Seq(Layers)]
    <3>1. Append(loader.rows, new) \in Seq(Layers)
      BY <2>1, <2>2
    <3>2. loader' = [by |-> loader.by, rows |-> Append(loader.rows, new)]
      BY <2>3
    <3> QED BY <3>1, <3>2
  <2>7. Len(loader'.rows) = n + 1 /\ \A i \in 1..n + 1 : loader'.rows[i] = IF i = n + 1 THEN new ELSE loader.rows[i]
    BY <2>1, <2>2, <2>5
  <2>8. \A i \in 1..n + 1 : loader'.rows[i] = Tools!Answered(Tools!Parts[i])
    BY <2>1, <2>4, <2>7 DEF new
  <2>9. Len(loader'.rows) <= 3
    BY <2>1, <2>7
  <2> QED BY <1>0, <2>3, <2>6, <2>7, <2>8, <2>9 DEF OneWorld, Tools!OneWorld
<1>8. ASSUME Tools!Loads PROVE ToolTypes' /\ WorldInv'
  <2>1. /\ Len(loader.rows) = 3 /\ kept' = Tools!RowsOf(loader.rows) /\ loader' = [by |-> None, rows |-> <<>>]
        /\ asking' = asking /\ todo' = todo /\ waiting' = waiting /\ learnt' = learnt
    BY <1>8 DEF Tools!Loads, Tools!Free, Tools!Parts
  <2>2. \A i \in 1..3 : loader.rows[i] = Tools!Answered(Tools!Parts[i])
    BY <2>1
  <2>3. /\ loader.rows[1] = {Tools!Made} /\ loader.rows[2] = Tools!StationsLayer
        /\ loader.rows[3] = {Tools!Made}
    BY <2>2 DEF Tools!Answered, Tools!Parts
  <2>4. DOMAIN kept' = Tools!Covered /\ \A t \in Tools!Covered : \A row \in kept'[t] : OfDrill(row)
    BY <2>1, <2>3, RowsLoaded
  <2>5. loader' \in [by : {None} \cup (Questions \X DOMAIN MCReads), rows : Seq(Layers)]
    BY <2>1
  <2> QED BY <1>0, <2>1, <2>4, <2>5 DEF OneWorld, Tools!OneWorld, OfDrill
<1>9. ASSUME Tools!GetFails PROVE ToolTypes' /\ WorldInv'
  <2>1. PICK a \in Questions, sql \in DOMAIN MCReads : loader.by = <<a, sql>>
    BY <1>9 DEF Tools!GetFails
  <2>2. /\ asking' = asking /\ todo' = todo /\ kept' = kept /\ loader' = [by |-> None, rows |-> <<>>]
        /\ waiting' = [waiting EXCEPT ![a] = @ \ {sql}] /\ Tools!Hears(a, Tools!Unavailable(sql))
    BY <1>9, <2>1 DEF Tools!GetFails, Tools!Free
  <2>3. DOMAIN learnt' = Questions /\ OneWorld'
        /\ \A q \in Questions : asking'[q] = None => \A h \in learnt'[q] : h.rows = {}
    BY <1>0, <2>2, NothingFound, HearsKeeps
  <2>4. /\ waiting' \in [Questions -> SUBSET (DOMAIN MCReads \ {"route"})]
        /\ \A q \in Questions : waiting'[q] # {} => asking'[q] = "drill"
    BY <2>2
  <2>5. loader' \in [by : {None} \cup (Questions \X DOMAIN MCReads), rows : Seq(Layers)]
    BY <2>2
  <2> QED BY <2>2, <2>3, <2>4, <2>5
<1>10. ASSUME Tools!MinutePasses \/ UNCHANGED Tools!drillDataVars PROVE ToolTypes' /\ WorldInv'
  BY <1>0, <1>10 DEF Tools!MinutePasses, Tools!drillDataVars, OneWorld, Tools!OneWorld
<1> QED BY <1>1, <1>2, <1>3, <1>4, <1>5, <1>6, <1>7, <1>8, <1>9, <1>10 DEF Tools!Next

LEMMA ToolSteps == [AnyNext]_allVars => [Tools!Next]_(Tools!drillDataVars)
BY DEF AnyNext, allVars, newVars, toolVars, InTalk, InWalk, InNew, Tools!drillDataVars

(* OneWorld: in a drill no agent reads anything of the real present, also  *)
(* when the drill's rows cannot be had, and what is made up for a drill is *)
(* never read by a real question that runs meanwhile (demo.py:6, 73).      *)
THEOREM DrillAndRealNeverMix == AnySpec => []OneWorld
<1>1. AnyInit => ToolTypes /\ WorldInv
  BY WorldInit DEF AnyInit
<1>2. ToolTypes /\ WorldInv /\ [AnyNext]_allVars => (ToolTypes /\ WorldInv)'
  BY WorldNext, ToolSteps
<1>3. ToolTypes /\ WorldInv => OneWorld
  BY DEF WorldInv
<1> QED BY <1>1, <1>2, <1>3, PTL DEF AnySpec

-----------------------------------------------------------------------------
(* What the assistant spends (Usage).                                      *)

Months == 1..MaxMonths
Records == [month : Months, spent : Nat, warned : SUBSET Ratios]
Steps == {"unused", "waiting", "adding", "writing", "replacing", "done"}

UsageTypes ==
  /\ ledger \in {None, Unreadable} \cup Records
  /\ month \in Months
  /\ recording \in [Spend!Threads -> [step : Steps, cost : Costs \cup {0}, data : {None} \cup Records]]
  /\ counted \in [Months -> Nat]
  /\ logged \in [Months -> [Ratios -> Nat]]
  /\ aborts \in Nat

(* Warned of is what the spending has reached, and it was logged.          *)
Told(data) ==
  /\ data.warned = {r \in Ratios : data.spent >= r}
  /\ \A r \in data.warned : logged[data.month][r] >= 1

(* One thread at a time is between reading the ledger and replacing it;    *)
(* the month may turn meanwhile, and what it holds is of the old month.    *)
OneSaves == \A s, t \in Spend!Threads : {recording[s].step, recording[t].step} \subseteq Spend!Saving => s = t

LedgerInv ==
  /\ ledger \in {None, Unreadable} => \A m \in Months : counted[m] = 0
  /\ ledger \in Records =>
       /\ ledger.month <= month /\ ledger.spent = counted[ledger.month] /\ Told(ledger)
       /\ \A m \in Months : m > ledger.month => counted[m] = 0

Held(t) == recording[t].data
HeldInv ==
  \A t \in Spend!Threads : recording[t].step \in Spend!Saving =>
    /\ Held(t) \in Records /\ Held(t).month <= month /\ Told(Held(t))
    /\ Held(t).spent = counted[Held(t).month] + (IF recording[t].step = "adding" THEN 0 ELSE recording[t].cost)
    /\ ledger \in Records => Held(t).month >= ledger.month

(* A warning that is not in the ledger, or on its way there, was lost with *)
(* a write that failed.                                                    *)
Lasting(m, r) ==
  \/ counted[m] >= r
  \/ \E t \in Spend!Threads : /\ recording[t].step \in {"writing", "replacing"}
                              /\ Held(t).month = m /\ r \in Held(t).warned
WarningsInv ==
  \A m \in Months, r \in Ratios : logged[m][r] <= aborts + (IF Lasting(m, r) THEN 1 ELSE 0)

UsageInv == UsageTypes /\ OneSaves /\ LedgerInv /\ HeldInv /\ WarningsInv
LEMMA UsageNumbers ==
  /\ \A c \in Costs \cup {0} : c \in Nat
  /\ \A r \in Ratios : r \in Nat /\ r > 0
  /\ MaxMonths \in Nat /\ MaxMonths > 0
  /\ None \notin Records /\ Unreadable \notin Records
BY GuidanceAssumption DEF Spend!UsageAssumption, Records, Months

LEMMA FreshRecord ==
  ASSUME month \in Months
  PROVE  Spend!Fresh \in Records /\ Spend!Fresh.month = month /\ Spend!Fresh.spent = 0 /\ Spend!Fresh.warned = {}
BY DEF Spend!Fresh, Records

LEMMA LoadedRecord ==
  ASSUME UsageInv
  PROVE  /\ Spend!Loaded \in Records /\ Spend!Loaded.month = month
         /\ Spend!Loaded.spent = counted[month] /\ Told(Spend!Loaded)
         /\ ledger \in Records => ledger.month <= month
<1>1. month \in Months /\ counted \in [Months -> Nat]
  BY DEF UsageInv, UsageTypes
<1>2. CASE ledger \in Records /\ ledger.month = month
  <2>1. Spend!Loaded = ledger
    BY <1>2, UsageNumbers DEF Spend!Loaded
  <2> QED BY <1>2, <2>1 DEF UsageInv, LedgerInv
<1>3. CASE ~ (ledger \in Records /\ ledger.month = month)
  <2>1. Spend!Loaded = Spend!Fresh
    BY <1>3 DEF Spend!Loaded, UsageInv, UsageTypes
  <2>2. counted[month] = 0
    BY <1>1, <1>3, UsageNumbers DEF UsageInv, UsageTypes, LedgerInv, Months, Records
  <2>3. Told(Spend!Fresh)
    <3>1. \A n \in Ratios : ~ Spend!Fresh.spent >= n
      BY <1>1, FreshRecord, UsageNumbers
    <3> QED BY <1>1, <3>1, FreshRecord DEF Told
  <2> QED BY <1>1, <2>1, <2>2, <2>3, FreshRecord DEF UsageInv, LedgerInv
<1> QED BY <1>2, <1>3

LEMMA UsageInit == Spend!Init => UsageInv
<1> SUFFICES ASSUME Spend!Init PROVE UsageInv
  OBVIOUS
<1>1. UsageTypes
  BY UsageNumbers DEF Spend!Init, Spend!Unused, UsageTypes, Months, Steps
<1>2. ledger \in {None, Unreadable} /\ \A m \in Months : counted[m] = 0
  BY DEF Spend!Init, Months
<1>3. \A t \in Spend!Threads : recording[t].step \notin Spend!Saving
  BY DEF Spend!Init, Spend!Unused, Spend!Saving
<1>4. \A m \in Months, r \in Ratios : logged[m][r] = 0
  BY DEF Spend!Init, Months
<1>5. WarningsInv
  BY <1>1, <1>4, UsageNumbers DEF WarningsInv, UsageTypes
<1> QED BY <1>1, <1>2, <1>3, <1>5, UsageNumbers DEF UsageInv, OneSaves, LedgerInv, HeldInv

(* A thread's step when it does not change what the others hold.           *)
LEMMA ThreadStep ==
  ASSUME UsageTypes, NEW t \in Spend!Threads, NEW step \in Steps, NEW price \in Costs \cup {0},
         NEW data \in {None} \cup Records,
         recording' = [recording EXCEPT ![t] = [step |-> step, cost |-> price, data |-> data]]
  PROVE  /\ recording' \in [Spend!Threads -> [step : Steps, cost : Costs \cup {0}, data : {None} \cup Records]]
         /\ recording'[t] = [step |-> step, cost |-> price, data |-> data]
         /\ \A s \in Spend!Threads : s # t => recording'[s] = recording[s]
BY DEF UsageTypes

LEMMA TwoFields ==
  ASSUME NEW r \in [step : Steps, cost : Costs \cup {0}, data : {None} \cup Records], NEW step, NEW data
  PROVE  [r EXCEPT !.step = step, !.data = data] = [step |-> step, cost |-> r.cost, data |-> data]
<1>1. [r EXCEPT !.step = step, !.data = data] \in [step : {step}, cost : {r.cost}, data : {data}]
  OBVIOUS
<1>2. ASSUME NEW x \in [step : {step}, cost : {r.cost}, data : {data}]
      PROVE  x = [step |-> step, cost |-> r.cost, data |-> data]
  OBVIOUS
<1> QED BY <1>1, <1>2

LEMMA OneField ==
  ASSUME NEW r \in [step : Steps, cost : Costs \cup {0}, data : {None} \cup Records], NEW step
  PROVE  [r EXCEPT !.step = step] = [step |-> step, cost |-> r.cost, data |-> r.data]
<1>1. [r EXCEPT !.step = step] \in [step : {step}, cost : {r.cost}, data : {r.data}]
  OBVIOUS
<1>2. ASSUME NEW x \in [step : {step}, cost : {r.cost}, data : {r.data}]
      PROVE  x = [step |-> step, cost |-> r.cost, data |-> r.data]
  OBVIOUS
<1> QED BY <1>1, <1>2

LEMMA DoneRecord == [Spend!Unused EXCEPT !.step = "done"] = [step |-> "done", cost |-> 0, data |-> None]
<1>1. Spend!Unused \in [step : Steps, cost : Costs \cup {0}, data : {None} \cup Records]
      /\ Spend!Unused.cost = 0 /\ Spend!Unused.data = None
  BY DEF Spend!Unused, Steps
<1> QED BY <1>1, OneField

LEMMA WarnedRecord ==
  ASSUME NEW d \in Records, NEW w
  PROVE  [d EXCEPT !.warned = @ \cup w] = [month |-> d.month, spent |-> d.spent, warned |-> d.warned \cup w]
<1>1. [d EXCEPT !.warned = @ \cup w] \in [month : {d.month}, spent : {d.spent}, warned : {d.warned \cup w}]
  BY DEF Records
<1>2. ASSUME NEW x \in [month : {d.month}, spent : {d.spent}, warned : {d.warned \cup w}]
      PROVE  x = [month |-> d.month, spent |-> d.spent, warned |-> d.warned \cup w]
  OBVIOUS
<1> QED BY <1>1, <1>2

LEMMA FieldStep ==
  ASSUME UsageTypes, NEW t \in Spend!Threads, NEW step, NEW data,
         recording' = [recording EXCEPT ![t].step = step, ![t].data = data]
  PROVE  recording' = [recording EXCEPT ![t] = [step |-> step, cost |-> recording[t].cost, data |-> data]]
<1>1. recording[t] \in [step : Steps, cost : Costs \cup {0}, data : {None} \cup Records]
  BY DEF UsageTypes
<1>2. [recording[t] EXCEPT !.step = step, !.data = data] = [step |-> step, cost |-> recording[t].cost, data |-> data]
  BY <1>1, TwoFields
<1>3. recording' = [recording EXCEPT ![t] = [recording[t] EXCEPT !.step = step, !.data = data]]
  OBVIOUS
<1> QED BY <1>2, <1>3

LEMMA ThreadTypes ==
  ASSUME UsageTypes, NEW t \in Spend!Threads
  PROVE  /\ recording[t].step \in Steps /\ recording[t].cost \in Costs \cup {0}
         /\ recording[t].cost \in Nat /\ Held(t) \in {None} \cup Records
<1>1. recording[t] \in [step : Steps, cost : Costs \cup {0}, data : {None} \cup Records]
  BY DEF UsageTypes
<1> QED BY <1>1, UsageNumbers DEF Held

(* What a thread that saves holds.                                         *)
LEMMA HeldFacts ==
  ASSUME UsageInv, NEW t \in Spend!Threads, recording[t].step \in Spend!Saving
  PROVE  /\ Held(t) \in Records /\ Held(t).month \in Months /\ Held(t).month <= month
         /\ Held(t).spent \in Nat /\ Held(t).warned = {r \in Ratios : Held(t).spent >= r}
         /\ \A r \in Held(t).warned : logged[Held(t).month][r] >= 1
         /\ recording[t].cost \in Nat
         /\ recording[t].step = "adding" => Held(t).spent = counted[Held(t).month]
         /\ recording[t].step # "adding" => Held(t).spent = counted[Held(t).month] + recording[t].cost
         /\ ledger \in Records => Held(t).month >= ledger.month
         /\ \A s \in Spend!Threads : s # t => recording[s].step \notin Spend!Saving
<1>1. /\ Held(t) \in Records /\ Held(t).month <= month /\ Told(Held(t))
      /\ Held(t).spent = counted[Held(t).month] + (IF recording[t].step = "adding" THEN 0 ELSE recording[t].cost)
      /\ ledger \in Records => Held(t).month >= ledger.month
  BY DEF UsageInv, HeldInv
<1>2. Held(t).month \in Months /\ Held(t).spent \in Nat
  BY <1>1 DEF Records
<1>3. counted[Held(t).month] \in Nat /\ recording[t].cost \in Nat
  BY <1>2, ThreadTypes DEF UsageInv, UsageTypes
<1>4. \A s \in Spend!Threads : s # t => recording[s].step \notin Spend!Saving
  BY DEF UsageInv, OneSaves
<1>5. Held(t).warned = {r \in Ratios : Held(t).spent >= r} /\ \A r \in Held(t).warned : logged[Held(t).month][r] >= 1
  BY <1>1 DEF Told
<1>6. /\ recording[t].step = "adding" => Held(t).spent = counted[Held(t).month]
      /\ recording[t].step # "adding" => Held(t).spent = counted[Held(t).month] + recording[t].cost
  BY <1>1, <1>3
<1> QED BY <1>1, <1>2, <1>3, <1>4, <1>5, <1>6

LEMMA HeldKeeps ==
  ASSUME NEW t \in Spend!Threads, NEW data \in Records, Held(t)' = data,
         \A s \in Spend!Threads : s # t => recording'[s].step \notin Spend!Saving,
         data.month <= month', data.warned = {r \in Ratios : data.spent >= r},
         \A r \in data.warned : logged'[data.month][r] >= 1,
         data.spent = counted'[data.month] + (IF recording'[t].step = "adding" THEN 0 ELSE recording'[t].cost),
         ledger' \in Records => data.month >= ledger'.month
  PROVE  HeldInv'
BY DEF HeldInv, Told

LEMMA UsageNext ==
  ASSUME UsageInv, [Spend!Next]_(Spend!usageVars)
  PROVE  UsageInv'
<1> USE DEF UsageInv
<1>0. /\ \A m \in Months : counted[m] \in Nat
      /\ \A m \in Months, r \in Ratios : logged[m][r] \in Nat
      /\ \A t \in Spend!Threads : /\ recording[t].step \in Steps /\ recording[t].cost \in Costs \cup {0}
                                  /\ recording[t].cost \in Nat /\ Held(t) \in {None} \cup Records
      /\ month \in 1..MaxMonths
  BY ThreadTypes DEF UsageTypes, Months
<1>1. ASSUME NEW t \in Spend!Threads, NEW c \in Costs, Spend!Called(t, c) PROVE UsageInv'
  <2>1. /\ recording[t].step = "unused"
        /\ recording' = [recording EXCEPT ![t] = [step |-> "waiting", cost |-> c, data |-> None]]
        /\ ledger' = ledger /\ month' = month /\ counted' = counted /\ logged' = logged /\ aborts' = aborts
    BY <1>1 DEF Spend!Called
  <2>2. /\ recording' \in [Spend!Threads -> [step : Steps, cost : Costs \cup {0}, data : {None} \cup Records]]
        /\ recording'[t] = [step |-> "waiting", cost |-> c, data |-> None]
        /\ \A s \in Spend!Threads : s # t => recording'[s] = recording[s]
    BY <2>1, ThreadStep DEF Steps
  <2>3. UsageTypes' /\ OneSaves' /\ LedgerInv'
    BY <2>1, <2>2 DEF UsageTypes, OneSaves, LedgerInv, Told, Spend!Saving
  <2>4. HeldInv'
    BY <2>1, <2>2 DEF HeldInv, Held, Told, Spend!Saving
  <2>5. WarningsInv'
    BY <1>0, <2>1, <2>2 DEF WarningsInv, Lasting, Held, UsageTypes
  <2> QED BY <2>3, <2>4, <2>5
<1>2. ASSUME NEW t \in Spend!Threads, Spend!Load(t) PROVE UsageInv'
  <2>1. /\ recording[t].step = "waiting" /\ \A s \in Spend!Threads : recording[s].step \notin Spend!Saving
        /\ recording' = [recording EXCEPT ![t] = [step |-> "adding", cost |-> recording[t].cost, data |-> Spend!Loaded]]
        /\ ledger' = ledger /\ month' = month /\ counted' = counted /\ logged' = logged /\ aborts' = aborts
    BY <1>2, FieldStep DEF Spend!Load, Spend!MayEnter
  <2>2. /\ recording' \in [Spend!Threads -> [step : Steps, cost : Costs \cup {0}, data : {None} \cup Records]]
        /\ recording'[t] = [step |-> "adding", cost |-> recording[t].cost, data |-> Spend!Loaded]
        /\ \A s \in Spend!Threads : s # t => recording'[s] = recording[s]
    BY <1>0, <2>1, LoadedRecord, ThreadStep DEF Steps
  <2>3. UsageTypes' /\ OneSaves' /\ LedgerInv'
    BY <2>1, <2>2 DEF UsageTypes, OneSaves, LedgerInv, Told
  <2>4. HeldInv'
    <3>1. Held(t)' = Spend!Loaded /\ \A s \in Spend!Threads : s # t => recording'[s].step \notin Spend!Saving
      BY <2>1, <2>2 DEF Held
    <3>2. PICK data \in Records : data = Spend!Loaded
      BY LoadedRecord
    <3>3. /\ data.month = month /\ data.spent = counted[month] /\ data.warned = {r \in Ratios : data.spent >= r}
          /\ \A r \in data.warned : logged[data.month][r] >= 1
          /\ ledger \in Records => ledger.month <= month
      BY <3>2, LoadedRecord DEF Told
    <3>4. /\ data.spent = counted'[data.month] + (IF recording'[t].step = "adding" THEN 0 ELSE recording'[t].cost)
          /\ data.month <= month' /\ (ledger' \in Records => data.month >= ledger'.month)
      BY <1>0, <2>1, <2>2, <3>3 DEF Months, Records
    <3> QED BY <2>1, <3>1, <3>2, <3>3, <3>4, HeldKeeps
  <2>5. WarningsInv'
    BY <1>0, <2>1, <2>2 DEF WarningsInv, Lasting, Held, UsageTypes, Spend!Saving
  <2> QED BY <2>3, <2>4, <2>5
<1>3. ASSUME NEW t \in Spend!Threads, Spend!Add(t) PROVE UsageInv'
  <2> DEFINE held == Held(t)
             sum == held.spent + recording[t].cost
             data == [month |-> held.month, spent |-> sum, warned |-> {r \in Ratios : sum >= r}]
             firsts == {r \in Ratios : sum >= r} \ held.warned
  <2>0. recording[t].step = "adding" /\ recording[t].step \in Spend!Saving
    BY <1>3 DEF Spend!Add, Spend!Saving
  <2>1. /\ recording[t].step = "adding" /\ held \in Records /\ held.month <= month /\ held.month \in Months
        /\ held.spent = counted[held.month] /\ held.spent \in Nat /\ recording[t].cost \in Nat
        /\ held.warned = {r \in Ratios : held.spent >= r} /\ \A r \in held.warned : logged[held.month][r] >= 1
        /\ ledger \in Records => held.month >= ledger.month
    BY <2>0, HeldFacts
  <2>2. data \in Records
    BY <2>1 DEF Records
  <2>3. held.warned \subseteq {r \in Ratios : sum >= r}
    BY <2>1, UsageNumbers
  <2>4. /\ recording' = [recording EXCEPT ![t] = [step |-> "writing", cost |-> recording[t].cost, data |-> data]]
        /\ logged' = [logged EXCEPT ![held.month] = [r \in Ratios |-> @[r] + (IF r \in firsts THEN 1 ELSE 0)]]
        /\ ledger' = ledger /\ month' = month /\ counted' = counted /\ aborts' = aborts
    <3> DEFINE added == [held EXCEPT !.spent = @ + recording[t].cost]
    <3>1. added = [month |-> held.month, spent |-> sum, warned |-> held.warned]
      BY <2>1 DEF Records
    <3>2. Spend!Reached(added) = firsts
      BY <3>1 DEF Spend!Reached
    <3>3. [added EXCEPT !.warned = @ \cup Spend!Reached(added)] = data
      <4>1. added \in Records
        BY <2>1, <3>1 DEF Records
      <4>2. added.month = held.month /\ added.spent = sum /\ added.warned = held.warned
        BY <3>1
      <4>3. held.warned \cup firsts = {r \in Ratios : sum >= r}
        BY <2>3
      <4> HIDE DEF added, firsts
      <4>4. [added EXCEPT !.warned = @ \cup firsts]
              = [month |-> added.month, spent |-> added.spent, warned |-> added.warned \cup firsts]
        BY <4>1, WarnedRecord
      <4> QED BY <3>2, <4>2, <4>3, <4>4
    <3>4. recording' = [recording EXCEPT ![t].step = "writing", ![t].data = data]
      BY <1>3, <3>3 DEF Spend!Add, Held
    <3>5. logged' = [logged EXCEPT ![held.month] = [r \in Ratios |-> @[r] + (IF r \in firsts THEN 1 ELSE 0)]]
      BY <1>3, <3>1, <3>2 DEF Spend!Add, Held
    <3>6. ledger' = ledger /\ month' = month /\ counted' = counted /\ aborts' = aborts
      BY <1>3 DEF Spend!Add
    <3> HIDE DEF data
    <3>7. recording' = [recording EXCEPT ![t] = [step |-> "writing", cost |-> recording[t].cost, data |-> data]]
      BY <3>4, FieldStep
    <3> QED BY <3>5, <3>6, <3>7
  <2>5. /\ recording' \in [Spend!Threads -> [step : Steps, cost : Costs \cup {0}, data : {None} \cup Records]]
        /\ recording'[t] = [step |-> "writing", cost |-> recording[t].cost, data |-> data]
        /\ \A s \in Spend!Threads : s # t => recording'[s] = recording[s]
    <3> HIDE DEF data
    <3> QED BY <1>0, <2>2, <2>4, ThreadStep DEF Steps
  <2>6. /\ logged' \in [Months -> [Ratios -> Nat]]
        /\ \A m \in Months, r \in Ratios :
             logged'[m][r] = logged[m][r] + (IF m = held.month /\ r \in firsts THEN 1 ELSE 0)
    <3> HIDE DEF firsts
    <3>1. \A r \in Ratios : logged[held.month][r] \in Nat
      BY <1>0, <2>1 DEF Records
    <3> QED BY <1>0, <2>1, <2>4, <3>1 DEF UsageTypes, Records
  <2>7. \A d \in Records : Told(d) => Told(d)'
    BY <1>0, <2>6 DEF Told, Records
  <2>8. \A r \in data.warned : logged'[held.month][r] >= 1
    <3>1. held.month \in Months /\ held.warned \subseteq Ratios
      BY <2>1 DEF Records
    <3> QED BY <1>0, <2>1, <2>6, <3>1
  <2>9. \A s \in Spend!Threads : s # t => recording[s].step \notin Spend!Saving
    BY <2>0, HeldFacts
  <2> HIDE DEF data
  <2>10. UsageTypes' /\ OneSaves' /\ LedgerInv'
    BY <2>1, <2>4, <2>5, <2>6, <2>7, <2>9 DEF UsageTypes, OneSaves, LedgerInv, Spend!Saving
  <2>11. HeldInv'
    <3>1. Held(t)' = data /\ \A s \in Spend!Threads : s # t => recording'[s].step \notin Spend!Saving
      BY <2>5, <2>9 DEF Held
    <3>2. data.month = held.month /\ data.spent = sum /\ data.warned = {r \in Ratios : sum >= r}
      BY DEF data
    <3>3. /\ data.spent = counted'[data.month] + (IF recording'[t].step = "adding" THEN 0 ELSE recording'[t].cost)
          /\ data.month <= month' /\ (ledger' \in Records => data.month >= ledger'.month)
      BY <2>1, <2>4, <2>5, <3>2
    <3>4. PICK d \in Records : d = data
      BY <2>2
    <3> QED BY <2>8, <3>1, <3>2, <3>3, <3>4, HeldKeeps
  <2>12. WarningsInv'
    <3> SUFFICES ASSUME NEW m \in Months, NEW r \in Ratios
                 PROVE  logged'[m][r] <= aborts' + (IF Lasting(m, r)' THEN 1 ELSE 0)
      BY DEF WarningsInv
    <3>1. Lasting(m, r) => Lasting(m, r)'
      <4>1. \A s \in Spend!Threads : recording[s].step \in {"writing", "replacing"} => s # t
        BY <2>1
      <4> QED BY <2>4, <2>5, <4>1 DEF Lasting, Held
    <3>2. CASE m = held.month /\ r \in firsts
      <4>1. ~ counted[m] >= r
        BY <2>1, <3>2
      <4>2. ~ Lasting(m, r)
        BY <2>1, <2>9, <4>1 DEF Lasting, Spend!Saving
      <4>3. Lasting(m, r)'
        BY <2>5, <3>2 DEF Lasting, Held, data
      <4>4. logged'[m][r] = logged[m][r] + 1
        BY <2>6, <3>2
      <4>5. logged[m][r] \in Nat /\ logged[m][r] <= aborts /\ aborts \in Nat /\ aborts' = aborts
        BY <1>0, <2>4, <4>2 DEF WarningsInv, UsageTypes
      <4> HIDE DEF firsts
      <4> QED BY <4>3, <4>4, <4>5
    <3>3. CASE ~ (m = held.month /\ r \in firsts)
      <4>1. logged'[m][r] = logged[m][r]
        BY <1>0, <2>6, <3>3 DEF UsageTypes
      <4>2. /\ logged[m][r] \in Nat /\ aborts \in Nat /\ aborts' = aborts
            /\ logged[m][r] <= aborts + (IF Lasting(m, r) THEN 1 ELSE 0)
        BY <1>0, <2>4 DEF WarningsInv, UsageTypes
      <4> HIDE DEF firsts
      <4> QED BY <3>1, <4>1, <4>2
    <3> QED BY <3>2, <3>3
  <2> QED BY <2>10, <2>11, <2>12
<1>4. ASSUME NEW t \in Spend!Threads, Spend!Write(t) PROVE UsageInv'
  <2>1. /\ recording[t].step = "writing"
        /\ recording' = [recording EXCEPT ![t] = [step |-> "replacing", cost |-> recording[t].cost, data |-> Held(t)]]
        /\ ledger' = ledger /\ month' = month /\ counted' = counted /\ logged' = logged /\ aborts' = aborts
    <3>1. recording' = [recording EXCEPT ![t] = [recording[t] EXCEPT !.step = "replacing"]]
      BY <1>4 DEF Spend!Write
    <3>2. [recording[t] EXCEPT !.step = "replacing"] = [step |-> "replacing", cost |-> recording[t].cost, data |-> Held(t)]
      BY OneField DEF UsageTypes, Held
    <3> QED BY <1>4, <3>1, <3>2 DEF Spend!Write, Spend!Beside
  <2>2. /\ recording' \in [Spend!Threads -> [step : Steps, cost : Costs \cup {0}, data : {None} \cup Records]]
        /\ recording'[t] = [step |-> "replacing", cost |-> recording[t].cost, data |-> Held(t)]
        /\ \A s \in Spend!Threads : s # t => recording'[s] = recording[s]
    BY <1>0, <2>1, ThreadStep DEF Steps
  <2>3. UsageTypes' /\ OneSaves' /\ LedgerInv'
    BY <2>1, <2>2 DEF UsageTypes, OneSaves, LedgerInv, Told, Spend!Saving
  <2>4. HeldInv'
    BY <2>1, <2>2 DEF HeldInv, Held, Told, Spend!Saving
  <2>5. WarningsInv'
    <3> SUFFICES ASSUME NEW m \in Months, NEW r \in Ratios
                 PROVE  logged'[m][r] <= aborts' + (IF Lasting(m, r)' THEN 1 ELSE 0)
      BY DEF WarningsInv
    <3>1. Lasting(m, r) => Lasting(m, r)'
      BY <2>1, <2>2 DEF Lasting, Held
    <3> QED BY <1>0, <2>1, <3>1 DEF WarningsInv, UsageTypes
  <2> QED BY <2>3, <2>4, <2>5
<1>5. ASSUME NEW t \in Spend!Threads, Spend!Replace(t) PROVE UsageInv'
  <2> DEFINE held == Held(t)
             price == recording[t].cost
  <2>0. recording[t].step = "replacing" /\ recording[t].step \in Spend!Saving
    BY <1>5 DEF Spend!Replace, Spend!Saving
  <2>1. /\ recording[t].step = "replacing" /\ held \in Records /\ held.month <= month /\ held.month \in Months
        /\ held.spent = counted[held.month] + price /\ held.spent \in Nat /\ price \in Nat
        /\ held.warned = {r \in Ratios : held.spent >= r} /\ \A r \in held.warned : logged[held.month][r] >= 1
        /\ ledger \in Records => held.month >= ledger.month
    BY <2>0, HeldFacts
  <2>2. /\ recording' = [recording EXCEPT ![t] = [step |-> "done", cost |-> 0, data |-> None]]
        /\ counted' = [counted EXCEPT ![held.month] = @ + price]
        /\ ledger' = held /\ month' = month /\ logged' = logged /\ aborts' = aborts
    BY <1>5, DoneRecord DEF Spend!Replace, Held
  <2>3. /\ recording' \in [Spend!Threads -> [step : Steps, cost : Costs \cup {0}, data : {None} \cup Records]]
        /\ recording'[t] = [step |-> "done", cost |-> 0, data |-> None]
        /\ \A s \in Spend!Threads : s # t => recording'[s] = recording[s]
    BY <2>2, ThreadStep DEF Steps
  <2>4. held.month \in Months /\ held.spent \in Nat
    BY <2>1 DEF Records
  <2>5. /\ counted' \in [Months -> Nat] /\ counted'[held.month] = held.spent
        /\ \A m \in Months : m # held.month => counted'[m] = counted[m]
        /\ \A m \in Months : counted'[m] >= counted[m]
    <3>1. counted'[held.month] = counted[held.month] + price
      BY <2>2, <2>4 DEF UsageTypes
    <3>2. counted[held.month] + price \in Nat
      BY <1>0, <2>1, <2>4
    <3>3. counted' \in [Months -> Nat] /\ \A m \in Months : m # held.month => counted'[m] = counted[m]
      BY <2>2, <2>4, <3>2 DEF UsageTypes
    <3> QED BY <1>0, <2>1, <2>4, <3>1, <3>3
  <2>6. UsageTypes'
    BY <2>1, <2>2, <2>3, <2>5 DEF UsageTypes
  <2>7. \A s \in Spend!Threads : recording'[s].step \notin Spend!Saving
    BY <2>1, <2>3 DEF OneSaves, Spend!Saving
  <2>8. LedgerInv'
    <3>1. \A m \in Months : m > held.month => counted[m] = 0
      BY <1>0, <2>1, <2>4 DEF LedgerInv, UsageTypes, Months, Records
    <3>2. \A m \in Months : m > held.month => counted'[m] = 0
      BY <2>4, <2>5, <3>1 DEF Months
    <3>4. Told(ledger)'
      BY <2>1, <2>2 DEF Told
    <3> QED BY <2>1, <2>2, <2>5, <3>2, <3>4, UsageNumbers DEF LedgerInv
  <2>9. WarningsInv'
    <3> SUFFICES ASSUME NEW m \in Months, NEW r \in Ratios
                 PROVE  logged'[m][r] <= aborts' + (IF Lasting(m, r)' THEN 1 ELSE 0)
      BY DEF WarningsInv
    <3>1. CASE counted[m] >= r
      BY <1>0, <2>2, <2>5, <3>1, UsageNumbers DEF WarningsInv, UsageTypes, Lasting
    <3>2. CASE m = held.month /\ r \in held.warned
      <4>1. counted'[m] >= r
        BY <2>1, <2>5, <3>2 DEF Told
      <4> QED BY <1>0, <2>2, <4>1 DEF WarningsInv, UsageTypes, Lasting
    <3>3. CASE ~ counted[m] >= r /\ ~ (m = held.month /\ r \in held.warned)
      <4>1. \A s \in Spend!Threads : recording[s].step \in {"writing", "replacing"} => s = t
        BY <2>1 DEF OneSaves, Spend!Saving
      <4>2. ~ Lasting(m, r)
        BY <3>3, <4>1 DEF Lasting
      <4> QED BY <1>0, <2>2, <4>2 DEF WarningsInv, UsageTypes
    <3> QED BY <3>1, <3>2, <3>3
  <2> QED BY <2>6, <2>7, <2>8, <2>9 DEF OneSaves, HeldInv
<1>6. ASSUME NEW t \in Spend!Threads, Spend!Fails(t) PROVE UsageInv'
  <2>1. /\ recording[t].step \in {"writing", "replacing"} /\ aborts' = aborts + 1
        /\ recording' = [recording EXCEPT ![t] = [step |-> "done", cost |-> 0, data |-> None]]
        /\ ledger' = ledger /\ month' = month /\ counted' = counted /\ logged' = logged
    BY <1>6, DoneRecord DEF Spend!Fails
  <2>2. /\ recording' \in [Spend!Threads -> [step : Steps, cost : Costs \cup {0}, data : {None} \cup Records]]
        /\ recording'[t] = [step |-> "done", cost |-> 0, data |-> None]
        /\ \A s \in Spend!Threads : s # t => recording'[s] = recording[s]
    BY <2>1, ThreadStep DEF Steps
  <2>3. \A s \in Spend!Threads : recording'[s].step \notin Spend!Saving
    BY <2>1, <2>2 DEF OneSaves, Spend!Saving
  <2>4. UsageTypes' /\ LedgerInv'
    BY <2>1, <2>2 DEF UsageTypes, LedgerInv, Told
  <2>5. WarningsInv'
    BY <1>0, <2>1 DEF WarningsInv, UsageTypes
  <2> QED BY <2>3, <2>4, <2>5 DEF OneSaves, HeldInv
<1>7. ASSUME Spend!Restart PROVE UsageInv'
  <2>1. /\ aborts' = aborts + 1
        /\ recording' = [t \in Spend!Threads |-> IF recording[t].step = "unused" THEN Spend!Unused
                                                 ELSE [step |-> "done", cost |-> 0, data |-> None]]
        /\ ledger' = ledger /\ month' = month /\ counted' = counted /\ logged' = logged
    BY <1>7, DoneRecord DEF Spend!Restart
  <2>2. /\ recording' \in [Spend!Threads -> [step : Steps, cost : Costs \cup {0}, data : {None} \cup Records]]
        /\ \A s \in Spend!Threads : recording'[s].step \notin Spend!Saving
    BY <2>1 DEF Spend!Unused, Steps, Spend!Saving
  <2>3. UsageTypes' /\ LedgerInv'
    BY <2>1, <2>2 DEF UsageTypes, LedgerInv, Told
  <2>4. WarningsInv'
    BY <1>0, <2>1 DEF WarningsInv, UsageTypes
  <2> QED BY <2>2, <2>3, <2>4 DEF OneSaves, HeldInv
<1>8. ASSUME Spend!MonthTurns PROVE UsageInv'
  <2>1. /\ month < MaxMonths /\ month' = month + 1
        /\ ledger' = ledger /\ recording' = recording /\ counted' = counted /\ logged' = logged /\ aborts' = aborts
    BY <1>8 DEF Spend!MonthTurns
  <2>2. month' \in Months
    BY <1>0, <2>1, UsageNumbers DEF Months
  <2>3. \A d \in Records : d.month <= month => d.month <= month'
    BY <1>0, <2>1 DEF Records, Months
  <2>4. UsageTypes' /\ OneSaves' /\ LedgerInv'
    BY <2>1, <2>2, <2>3 DEF UsageTypes, OneSaves, LedgerInv, Told
  <2>5. HeldInv' /\ WarningsInv'
    BY <2>1, <2>3 DEF HeldInv, WarningsInv, Lasting, Held, Told
  <2> QED BY <2>4, <2>5
<1>9. ASSUME UNCHANGED Spend!usageVars PROVE UsageInv'
  BY <1>9 DEF Spend!usageVars, UsageTypes, OneSaves, LedgerInv, HeldInv, WarningsInv, Lasting, Held, Told
<1> QED BY <1>1, <1>2, <1>3, <1>4, <1>5, <1>6, <1>7, <1>8, <1>9 DEF Spend!Next

LEMMA SpendSteps == [AnyNext]_allVars => [Spend!Next]_(Spend!usageVars)
BY DEF AnyNext, allVars, newVars, spendVars, InTalk, InWalk, InNew, Spend!usageVars

LEMMA UsageShows ==
  ASSUME UsageInv
  PROVE  SpendCounted
<1>1. month \in Months /\ counted \in [Months -> Nat] /\ logged \in [Months -> [Ratios -> Nat]] /\ aborts \in Nat
  BY DEF UsageInv, UsageTypes
<1>2. ledger # Unreadable \/ \A m \in DOMAIN counted : counted[m] = 0
  BY <1>1 DEF UsageInv, LedgerInv
<1>3. \A m \in DOMAIN logged, r \in Ratios : logged[m][r] <= 1 + aborts
  BY <1>1 DEF UsageInv, WarningsInv
<1>4. \A r \in Ratios : /\ counted[month] >= r <=> r \in Spend!Loaded.warned
                        /\ r \in Spend!Loaded.warned => logged[month][r] >= 1
  BY LoadedRecord DEF Told
<1> QED BY <1>2, <1>3, <1>4, LoadedRecord DEF SpendCounted, Spend!SpendCounted

(* SpendCounted: what GET /usage shows of the month is what the calls saved *)
(* in it cost, and every share of the budget was warned of when it was     *)
(* reached, however many agents answer at once (usage.py:4-5, 51).         *)
THEOREM SpendAlwaysCounted == AnySpec => []SpendCounted
<1>1. AnyInit => UsageInv
  BY UsageInit DEF AnyInit
<1>2. UsageInv /\ [AnyNext]_allVars => UsageInv'
  BY UsageNext, SpendSteps
<1>3. UsageInv => SpendCounted
  BY UsageShows
<1> QED BY <1>1, <1>2, <1>3, PTL DEF AnySpec

-----------------------------------------------------------------------------
(* A set of numbers that is not empty has a least one.                     *)
Less == {ss \in Nat \X Nat : ss[1] < ss[2]}

LEMMA NatWF == IsWellFoundedOn(Less, Nat)
BY NatLessThanWellFounded DEF OpToRel, Less

LEMMA Least ==
  ASSUME NEW T \in SUBSET Nat, T # {}
  PROVE  \E x \in T : \A y \in T : x <= y
<1>1. PICK x \in T : \A y \in T : ~ (<<y, x>> \in Less)
  BY NatWF, WFMin
<1>2. ASSUME NEW y \in T PROVE x <= y
  <2>1. x \in Nat /\ y \in Nat
    OBVIOUS
  <2>2. <<y, x>> \notin Less
    BY <1>1
  <2>3. ~ (y < x)
    BY <2>1, <2>2 DEF Less
  <2> QED BY <2>1, <2>3
<1> QED BY <1>2

-----------------------------------------------------------------------------
(* The order of a round of visits (Visits): Held and Karp's programme.     *)
H == Round!Houses

LEMMA VisitNumbers ==
  /\ Stops \in Nat \ {0} /\ Distances \subseteq Nat /\ UNREACHABLE \in Nat /\ Tiers \subseteq Nat
  /\ None \notin [cost : Nat, ids : Seq(H)]
  /\ H = 1..Stops /\ H \subseteq Nat /\ IsFiniteSet(H) /\ Cardinality(H) = Stops
<1>1. Stops \in Nat \ {0} /\ Distances \subseteq Nat /\ UNREACHABLE \in Nat /\ Tiers \subseteq Nat
      /\ None \notin [cost : Nat, ids : Seq(H)]
  BY GuidanceAssumption DEF Round!VisitsAssumption, H, Round!Houses
<1>2. H = 1..Stops
  BY DEF H, Round!Houses
<1>3. IsFiniteSet(1..Stops) /\ Cardinality(1..Stops) = Stops
  BY <1>1, FS_Interval
<1> QED BY <1>1, <1>2, <1>3

(* The programme is well defined: the best walks over some houses rest on  *)
(* those over fewer.                                                       *)
Row(best, v, b) == [k \in H |-> Round!BestWalk(best, v, k, b)]
Upto(n) == {v \in SUBSET H : Cardinality(v) <= n}
Fits(f, n, b) == f = [v \in Upto(n) |-> Row(f, v, b)]

LEMMA Subsets == \A v \in SUBSET H : IsFiniteSet(v) /\ Cardinality(v) \in 0..Stops
<1> SUFFICES ASSUME NEW v \in SUBSET H PROVE IsFiniteSet(v) /\ Cardinality(v) \in 0..Stops
  OBVIOUS
<1>1. IsFiniteSet(H) /\ Cardinality(H) = Stops /\ Stops \in Nat
  BY VisitNumbers
<1>2. IsFiniteSet(v) /\ Cardinality(v) <= Stops
  BY <1>1, FS_Subset
<1>3. Cardinality(v) \in Nat
  BY <1>2, FS_CardinalityType
<1> QED BY <1>1, <1>2, <1>3

LEMMA RowSame ==
  ASSUME NEW f, NEW g, NEW v \in SUBSET H, NEW b, \A k \in v : f[v \ {k}] = g[v \ {k}]
  PROVE  Row(f, v, b) = Row(g, v, b)
<1>1. ASSUME NEW k \in H PROVE Round!BestWalk(f, v, k, b) = Round!BestWalk(g, v, k, b)
  BY DEF Round!BestWalk
<1> QED BY <1>1 DEF Row

LEMMA FitsGrows ==
  ASSUME NEW n \in Nat, NEW b, NEW f, Fits(f, n, b)
  PROVE  \E g : Fits(g, n + 1, b)
<1> DEFINE g == [v \in Upto(n + 1) |-> Row(f, v, b)]
<1>1. ASSUME NEW v \in Upto(n + 1), NEW k \in v PROVE f[v \ {k}] = g[v \ {k}]
  <2>1. v \ {k} \in SUBSET H /\ Cardinality(v \ {k}) = Cardinality(v) - 1 /\ Cardinality(v) \in Nat
    BY FS_RemoveElement, Subsets DEF Upto
  <2>2. v \ {k} \in Upto(n) /\ v \ {k} \in Upto(n + 1)
    BY <2>1 DEF Upto
  <2>3. f[v \ {k}] = Row(f, v \ {k}, b)
    BY <2>2 DEF Fits
  <2> QED BY <2>2, <2>3
<1>2. ASSUME NEW v \in Upto(n + 1) PROVE Row(f, v, b) = Row(g, v, b)
  <2> HIDE DEF g
  <2> QED BY <1>1, RowSame DEF Upto
<1>3. g = [v \in Upto(n + 1) |-> Row(g, v, b)]
  BY <1>2
<1> QED BY <1>3 DEF Fits

LEMMA FitsStarts == ASSUME NEW b PROVE \E f : Fits(f, 0, b)
<1>1. \A v \in Upto(0) : v = {}
  BY Subsets, FS_EmptySet DEF Upto
<1>2. \A f : Row(f, {}, b) = [k \in H |-> None]
  BY DEF Row, Round!BestWalk
<1> DEFINE f == [v \in Upto(0) |-> [k \in H |-> None]]
<1>3. f = [v \in Upto(0) |-> Row(f, v, b)]
  BY <1>1, <1>2
<1> QED BY <1>3 DEF Fits

LEMMA FitsAll == ASSUME NEW b PROVE \E f : Fits(f, Stops, b)
<1> DEFINE T == {n \in Nat : ~ \E f : Fits(f, n, b)}
<1>1. SUFFICES T = {}
  BY VisitNumbers
<1>2. SUFFICES ASSUME T # {} PROVE FALSE
  OBVIOUS
<1>3. PICK n \in T : \A m \in T : n <= m
  <2>1. T \in SUBSET Nat
    OBVIOUS
  <2> QED BY <1>2, <2>1, Least
<1>4. n # 0
  BY FitsStarts
<1>5. n - 1 \in Nat /\ n - 1 \notin T
  BY <1>3, <1>4
<1>6. PICK f : Fits(f, n - 1, b)
  BY <1>5
<1>7. \E g : Fits(g, (n - 1) + 1, b)
  BY <1>5, <1>6, FitsGrows
<1> QED BY <1>3, <1>7

LEMMA BestOfAll ==
  ASSUME NEW b
  PROVE  \A v \in SUBSET H : Round!BestWalks(b)[v] = Row(Round!BestWalks(b), v, b)
<1>1. Upto(Stops) = SUBSET H
  <2>1. \A v \in SUBSET H : Cardinality(v) <= Stops
    BY Subsets, VisitNumbers
  <2> QED BY <2>1 DEF Upto
<1>2. \E f : f = [v \in SUBSET H |-> [k \in H |-> Round!BestWalk(f, v, k, b)]]
  <2>1. PICK f : f = [v \in Upto(Stops) |-> Row(f, v, b)]
    BY FitsAll DEF Fits
  <2>2. f = [v \in SUBSET H |-> Row(f, v, b)]
    BY <1>1, <2>1
  <2> QED BY <2>2 DEF Row
<1>3. Round!BestWalks(b) = CHOOSE f : f = [v \in SUBSET H |-> [k \in H |-> Round!BestWalk(f, v, k, b)]]
  BY DEF Round!BestWalks, H
<1>4. Round!BestWalks(b) = [v \in SUBSET H |-> [k \in H |-> Round!BestWalk(Round!BestWalks(b), v, k, b)]]
  BY <1>2, <1>3
<1> QED BY <1>4 DEF Row

-----------------------------------------------------------------------------
(* Sums of numbers one after the other.                                    *)
Sums(f, a, n) == f = [i \in 0..n |-> IF i = 0 THEN 0 ELSE f[i - 1] + a[i]]

LEMMA SumsStep == ASSUME NEW n \in Nat, NEW a, NEW f, Sums(f, a, n) PROVE \E g : Sums(g, a, n + 1)
<1> DEFINE g == [i \in 0..(n + 1) |-> IF i <= n THEN f[i] ELSE f[n] + a[n + 1]]
<1>1. ASSUME NEW i \in 0..(n + 1) PROVE g[i] = IF i = 0 THEN 0 ELSE g[i - 1] + a[i]
  <2>1. CASE i \in 0..n
    <3>1. f[i] = IF i = 0 THEN 0 ELSE f[i - 1] + a[i]
      BY <2>1 DEF Sums
    <3>2. g[i] = f[i] /\ (i # 0 => i - 1 \in 0..(n + 1) /\ g[i - 1] = f[i - 1])
      BY <2>1
    <3> QED BY <3>1, <3>2
  <2>2. CASE i = n + 1
    <3>1. n \in 0..(n + 1) /\ g[n] = f[n] /\ i - 1 = n /\ i # 0 /\ g[i] = f[n] + a[n + 1]
      BY <2>2
    <3> QED BY <2>2, <3>1
  <2> QED BY <2>1, <2>2
<1>2. g = [i \in 0..(n + 1) |-> IF i = 0 THEN 0 ELSE g[i - 1] + a[i]]
  <2>1. g = [i \in 0..(n + 1) |-> g[i]]
    OBVIOUS
  <2> HIDE DEF g
  <2> QED BY <1>1, <2>1
<1> QED BY <1>2 DEF Sums

LEMMA SumsExist == ASSUME NEW n \in Nat, NEW a PROVE \E f : Sums(f, a, n)
<1> DEFINE T == {m \in Nat : ~ \E f : Sums(f, a, m)}
<1>1. SUFFICES ASSUME T # {} PROVE FALSE
  OBVIOUS
<1>2. PICK m \in T : \A x \in T : m <= x
  <2>1. T \in SUBSET Nat
    OBVIOUS
  <2> QED BY <1>1, <2>1, Least
<1>3. m # 0
  <2>1. Sums([i \in 0..0 |-> 0], a, 0)
    BY DEF Sums
  <2> QED BY <1>2, <2>1
<1>4. m - 1 \in Nat /\ m - 1 \notin T
  BY <1>2, <1>3
<1>5. PICK f : Sums(f, a, m - 1)
  BY <1>4
<1>6. \E g : Sums(g, a, (m - 1) + 1)
  BY <1>4, <1>5, SumsStep
<1> QED BY <1>2, <1>6

(* They are the same of the same numbers.                                  *)
LEMMA SumsSame ==
  ASSUME NEW n \in Nat, NEW m \in Nat, n <= m, NEW a, NEW c, \A i \in 1..n : a[i] = c[i],
         NEW f, NEW g, Sums(f, a, n), Sums(g, c, m)
  PROVE  \A i \in 0..n : f[i] = g[i]
<1> DEFINE T == {i \in 0..n : f[i] # g[i]}
<1>1. SUFFICES ASSUME T # {} PROVE FALSE
  OBVIOUS
<1>2. PICK i \in T : \A x \in T : i <= x
  <2>1. T \in SUBSET Nat
    OBVIOUS
  <2> QED BY <1>1, <2>1, Least
<1>3. /\ f[i] = IF i = 0 THEN 0 ELSE f[i - 1] + a[i]
      /\ g[i] = IF i = 0 THEN 0 ELSE g[i - 1] + c[i]
  BY <1>2 DEF Sums
<1>4. i # 0
  BY <1>2, <1>3
<1>5. i - 1 \in 0..n /\ i - 1 \notin T /\ i \in 1..n
  BY <1>2, <1>4
<1>6. f[i - 1] = g[i - 1] /\ a[i] = c[i]
  BY <1>5
<1> QED BY <1>2, <1>3, <1>4, <1>6

LEMMA SumsTyped ==
  ASSUME NEW n \in Nat, NEW a, \A i \in 1..n : a[i] \in Nat, NEW f, Sums(f, a, n)
  PROVE  \A i \in 0..n : f[i] \in Nat
<1> DEFINE T == {i \in 0..n : f[i] \notin Nat}
<1>1. SUFFICES ASSUME T # {} PROVE FALSE
  OBVIOUS
<1>2. PICK i \in T : \A x \in T : i <= x
  <2>1. T \in SUBSET Nat
    OBVIOUS
  <2> QED BY <1>1, <2>1, Least
<1>3. f[i] = IF i = 0 THEN 0 ELSE f[i - 1] + a[i]
  BY <1>2 DEF Sums
<1>4. i # 0
  BY <1>2, <1>3
<1>5. i - 1 \in 0..n /\ i - 1 \notin T /\ i \in 1..n
  BY <1>2, <1>4
<1>6. f[i - 1] \in Nat /\ a[i] \in Nat
  BY <1>5
<1> QED BY <1>2, <1>3, <1>4, <1>6

(* How far a walk is.                                                      *)
LegCosts(s) == [i \in 1..Len(s) |-> cost[Round!Leg(s, i)]]

LEMMA TravelSums ==
  ASSUME NEW s, Len(s) \in Nat
  PROVE  \E f : Sums(f, LegCosts(s), Len(s)) /\ Round!Travel(s) = f[Len(s)]
<1> DEFINE to == CHOOSE f : f = [i \in 0..Len(s) |-> IF i = 0 THEN 0 ELSE f[i - 1] + cost[Round!Leg(s, i)]]
<1>1. ASSUME NEW f
      PROVE  [i \in 0..Len(s) |-> IF i = 0 THEN 0 ELSE f[i - 1] + cost[Round!Leg(s, i)]]
             = [i \in 0..Len(s) |-> IF i = 0 THEN 0 ELSE f[i - 1] + LegCosts(s)[i]]
  <2>1. ASSUME NEW i \in 0..Len(s), i # 0 PROVE LegCosts(s)[i] = cost[Round!Leg(s, i)]
    BY <2>1 DEF LegCosts
  <2> QED BY <2>1
<1>2. \E f : f = [i \in 0..Len(s) |-> IF i = 0 THEN 0 ELSE f[i - 1] + cost[Round!Leg(s, i)]]
  <2>1. PICK f : Sums(f, LegCosts(s), Len(s))
    BY SumsExist
  <2>2. f = [i \in 0..Len(s) |-> IF i = 0 THEN 0 ELSE f[i - 1] + LegCosts(s)[i]]
    BY <2>1 DEF Sums
  <2>3. f = [i \in 0..Len(s) |-> IF i = 0 THEN 0 ELSE f[i - 1] + cost[Round!Leg(s, i)]]
    BY <1>1, <2>2, Zenon
  <2> QED BY <2>3
<1>3. to = [i \in 0..Len(s) |-> IF i = 0 THEN 0 ELSE to[i - 1] + cost[Round!Leg(s, i)]]
  BY <1>2
<1>4. Round!Travel(s) = to[Len(s)]
  BY DEF Round!Travel
<1> HIDE DEF to
<1> QED BY <1>1, <1>3, <1>4 DEF Sums

-----------------------------------------------------------------------------
(* Walks over the houses v, each visited once, in an order that is allowed.*)
IsWalk(s, v) ==
  /\ s \in Seq(H) /\ v = {s[i] : i \in 1..Len(s)}
  /\ \A i, j \in 1..Len(s) : s[i] = s[j] => i = j
Keeps(s, b) == \A i \in 1..Len(s) : Round!Allowed(s[i], {s[j] : j \in 1..(i - 1)}, b)
WalkTo(s, v, k, b) == IsWalk(s, v) /\ Keeps(s, b) /\ Len(s) # 0 /\ s[Len(s)] = k
CostsRead == cost \in [Round!Pairs -> Nat]

LEMMA WalkLength ==
  ASSUME NEW s, NEW v, IsWalk(s, v)
  PROVE  /\ Len(s) \in Nat /\ DOMAIN s = 1..Len(s) /\ \A i \in 1..Len(s) : s[i] \in H
         /\ v \in SUBSET H /\ Len(s) = Cardinality(v)
<1>1. Len(s) \in Nat /\ s \in [1..Len(s) -> H] /\ DOMAIN s = 1..Len(s)
  BY LenProperties DEF IsWalk
<1>2. v \in SUBSET H /\ \A i \in 1..Len(s) : s[i] \in H
  BY <1>1 DEF IsWalk
<1>3. s \in Injection(1..Len(s), v) /\ s \in Surjection(1..Len(s), v)
  BY <1>1 DEF IsWalk, Injection, IsInjective, Surjection
<1>4. IsFiniteSet(1..Len(s)) /\ Cardinality(1..Len(s)) = Len(s)
  BY <1>1, FS_Interval
<1>5. Cardinality(v) = Cardinality(1..Len(s))
  BY <1>3, <1>4, FS_Surjection
<1> QED BY <1>1, <1>2, <1>4, <1>5

LEMMA WalkLegs ==
  ASSUME NEW s, NEW v, IsWalk(s, v), NEW i \in 1..Len(s)
  PROVE  Round!Leg(s, i) \in Round!Pairs
<1>1. Len(s) \in Nat /\ \A m \in 1..Len(s) : s[m] \in 1..Stops
  BY WalkLength, VisitNumbers
<1>2. i # 1 => i - 1 \in 1..Len(s) /\ s[i - 1] # s[i]
  BY <1>1 DEF IsWalk
<1>3. Stops \in Nat /\ Round!Houses = 1..Stops
  BY VisitNumbers DEF H
<1> QED BY <1>1, <1>2, <1>3 DEF Round!Leg, Round!Pairs

LEMMA TravelTyped ==
  ASSUME CostsRead, NEW s, NEW v, IsWalk(s, v)
  PROVE  Round!Travel(s) \in Nat
<1>1. Len(s) \in Nat
  BY WalkLength
<1>2. \A i \in 1..Len(s) : LegCosts(s)[i] \in Nat
  BY WalkLegs DEF LegCosts, CostsRead
<1>3. PICK f : Sums(f, LegCosts(s), Len(s)) /\ Round!Travel(s) = f[Len(s)]
  BY <1>1, TravelSums
<1> DEFINE d == LegCosts(s)
           n == Len(s)
<1>4. n \in Nat /\ (\A i \in 1..n : d[i] \in Nat) /\ Sums(f, d, n)
  BY <1>1, <1>2, <1>3
<1> HIDE DEF d, n
<1>5. f[n] \in Nat
  BY <1>4, SumsTyped
<1> QED BY <1>3, <1>5 DEF n

LEMMA TravelOne == ASSUME NEW k PROVE Round!Travel(<<k>>) = 0 + cost[<<0, k>>]
<1>1. PICK f : Sums(f, LegCosts(<<k>>), 1) /\ Round!Travel(<<k>>) = f[1]
  BY TravelSums, Len(<<k>>) = 1
<1>2. f[1] = f[0] + LegCosts(<<k>>)[1] /\ f[0] = 0
  BY <1>1 DEF Sums
<1>3. LegCosts(<<k>>)[1] = cost[<<0, k>>]
  BY Len(<<k>>) = 1 DEF LegCosts, Round!Leg
<1> QED BY <1>1, <1>2, <1>3

LEMMA TravelFurther ==
  ASSUME NEW s \in Seq(H), Len(s) # 0, NEW k \in H
  PROVE  Round!Travel(Append(s, k)) = Round!Travel(s) + cost[<<s[Len(s)], k>>]
<1> DEFINE t == Append(s, k)
           n == Len(s)
<1>1. n \in Nat /\ n # 0 /\ Len(t) = n + 1 /\ (\A i \in 1..n : t[i] = s[i]) /\ t[n + 1] = k
  BY AppendProperties, LenProperties
<1> HIDE DEF t, n
<1>2. PICK f : Sums(f, LegCosts(s), n) /\ Round!Travel(s) = f[n]
  BY <1>1, TravelSums DEF n
<1>3. PICK g : Sums(g, LegCosts(t), n + 1) /\ Round!Travel(t) = g[n + 1]
  BY <1>1, TravelSums
<1>4. \A i \in 1..n : LegCosts(s)[i] = LegCosts(t)[i]
  <2> SUFFICES ASSUME NEW i \in 1..n PROVE LegCosts(s)[i] = LegCosts(t)[i]
    OBVIOUS
  <2>1. i # 1 => i - 1 \in 1..n
    BY <1>1
  <2>2. Round!Leg(s, i) = Round!Leg(t, i)
    BY <1>1, <2>1 DEF Round!Leg
  <2>3. i \in 1..(n + 1)
    BY <1>1
  <2> QED BY <1>1, <2>2, <2>3 DEF LegCosts, n
<1>5. f[n] = g[n]
  <2> PICK m : m = n + 1
    OBVIOUS
  <2>1. m \in Nat /\ n \in Nat /\ n <= m /\ n \in 0..n
    BY <1>1
  <2>2. ASSUME NEW a, NEW c, Sums(f, a, n), Sums(g, c, m), \A i \in 1..n : a[i] = c[i]
        PROVE  \A i \in 0..n : f[i] = g[i]
    <3> HIDE DEF n
    <3> QED BY <2>1, <2>2, SumsSame, SMTT(20)
  <2>3. \A i \in 0..n : f[i] = g[i]
    BY <1>2, <1>3, <1>4, <2>2
  <2> QED BY <2>1, <2>3
<1>6. g[n + 1] = g[n] + LegCosts(t)[n + 1]
  <2>1. n + 1 \in 0..(n + 1) /\ n + 1 # 0 /\ (n + 1) - 1 = n
    BY <1>1
  <2> QED BY <1>3, <2>1 DEF Sums
<1>7. LegCosts(t)[n + 1] = cost[<<s[n], k>>]
  <2>1. n + 1 \in 1..Len(t) /\ n + 1 # 1 /\ (n + 1) - 1 = n /\ n \in 1..n
    BY <1>1
  <2> QED BY <1>1, <2>1 DEF LegCosts, Round!Leg
<1> QED BY <1>2, <1>3, <1>5, <1>6, <1>7 DEF t, n

(* A walk goes on to a house it has not visited.                           *)
LEMMA WalkOn ==
  ASSUME NEW s, NEW v, IsWalk(s, v), NEW k \in H \ v, NEW b, Keeps(s, b), Round!Allowed(k, v, b)
  PROVE  WalkTo(Append(s, k), v \cup {k}, k, b)
<1> DEFINE t == Append(s, k)
           n == Len(s)
<1>1. /\ t \in Seq(H) /\ n \in Nat /\ Len(t) = n + 1 /\ (\A i \in 1..n : t[i] = s[i]) /\ t[n + 1] = k
  BY AppendProperties, LenProperties DEF IsWalk
<1>2. v = {s[i] : i \in 1..n} /\ \A i, j \in 1..n : s[i] = s[j] => i = j
  BY DEF IsWalk
<1> HIDE DEF t, n
<1>3. \A i \in 1..(n + 1) : i \in 1..n \/ i = n + 1
  BY <1>1
<1>4. v \cup {k} = {t[i] : i \in 1..(n + 1)}
  <2>1. n + 1 \in 1..(n + 1) /\ 1..n \subseteq 1..(n + 1)
    BY <1>1
  <2>2. ASSUME NEW x \in v PROVE \E i \in 1..(n + 1) : t[i] = x
    BY <1>1, <1>2, <2>1
  <2>3. ASSUME NEW i \in 1..(n + 1) PROVE t[i] \in v \cup {k}
    BY <1>1, <1>2, <1>3
  <2> QED BY <1>1, <2>1, <2>2, <2>3
<1>5. ASSUME NEW i \in 1..(n + 1), NEW j \in 1..(n + 1), t[i] = t[j] PROVE i = j
  <2>1. \A m \in 1..n : t[m] \in v /\ t[m] # k
    BY <1>1, <1>2
  <2> QED BY <1>1, <1>2, <1>3, <1>5, <2>1
<1>6. ASSUME NEW i \in 1..(n + 1) PROVE Round!Allowed(t[i], {t[j] : j \in 1..(i - 1)}, b)
  <2>1. {t[j] : j \in 1..(i - 1)} = {s[j] : j \in 1..(i - 1)}
    <3>1. 1..(i - 1) \subseteq 1..n
      BY <1>1
    <3> QED BY <1>1, <3>1
  <2>2. CASE i \in 1..n
    BY <1>1, <2>1, <2>2 DEF Keeps, n
  <2>3. CASE i = n + 1
    <3>1. i - 1 = n
      BY <1>1, <2>3
    <3> QED BY <1>1, <1>2, <2>1, <2>3, <3>1
  <2> QED BY <1>3, <2>2, <2>3
<1>7. IsWalk(t, v \cup {k})
  BY <1>1, <1>4, <1>5 DEF IsWalk
<1>8. Keeps(t, b)
  BY <1>1, <1>6 DEF Keeps
<1>9. WalkTo(t, v \cup {k}, k, b)
  BY <1>1, <1>7, <1>8 DEF WalkTo
<1> QED BY <1>9 DEF t

(* The walk before its last house.                                         *)
Came(s, v, k, b) == \E t, j : j \in v \ {k} /\ WalkTo(t, v \ {k}, j, b) /\ s = Append(t, k)

LEMMA WalkBefore ==
  ASSUME NEW s, NEW v, NEW k, NEW b, WalkTo(s, v, k, b), v # {k}
  PROVE  k \in v /\ Round!Allowed(k, v \ {k}, b) /\ Came(s, v, k, b)
<1> DEFINE n == Len(s) - 1
           t == SubSeq(s, 1, n)
<1>1. /\ s \in Seq(H) /\ Len(s) \in Nat \ {0} /\ n \in Nat /\ Len(s) = n + 1 /\ s[n + 1] = k
      /\ v = {s[i] : i \in 1..(n + 1)} /\ \A i, j \in 1..(n + 1) : s[i] = s[j] => i = j
  BY WalkLength DEF WalkTo, IsWalk
<1> HIDE DEF n
<1>2. n + 1 \in 1..(n + 1) /\ 1..n \subseteq 1..(n + 1) /\ \A i \in 1..(n + 1) : i \in 1..n \/ i = n + 1
  BY <1>1
<1>3. k \in v /\ k \in H
  BY <1>1, <1>2, WalkLength DEF WalkTo
<1>4. v \ {k} = {s[i] : i \in 1..n}
  <2>1. ASSUME NEW i \in 1..n PROVE s[i] \in v \ {k}
    <3>1. i # n + 1 /\ i \in 1..(n + 1)
      BY <1>1
    <3> QED BY <1>1, <1>2, <3>1
  <2>2. ASSUME NEW x \in v \ {k} PROVE \E i \in 1..n : x = s[i]
    BY <1>1, <1>2
  <2> QED BY <2>1, <2>2
<1>5. n # 0
  BY <1>3, <1>4
<1>6. t \in Seq(H) /\ Len(t) = n /\ \A i \in 1..n : t[i] = s[i]
  <2>1. \A i \in 1..n : s[i] \in H
    BY <1>1, <1>2, WalkLength DEF WalkTo
  <2> QED BY <1>1, <1>5, <2>1, SubSeqProperties
<1> HIDE DEF t
<1>7. s = Append(t, k)
  <2>1. Append(t, k) \in Seq(H) /\ Len(Append(t, k)) = n + 1
        /\ \A i \in 1..n : Append(t, k)[i] = s[i]
        /\ Append(t, k)[n + 1] = k
    BY <1>3, <1>6, AppendProperties
  <2> QED BY <1>1, <1>2, <2>1, SeqEqual
<1>8. IsWalk(t, v \ {k})
  BY <1>1, <1>2, <1>4, <1>6 DEF IsWalk
<1>9. ASSUME NEW i \in 1..n PROVE Round!Allowed(t[i], {t[j] : j \in 1..(i - 1)}, b)
  <2>1. {t[j] : j \in 1..(i - 1)} = {s[j] : j \in 1..(i - 1)}
    <3>1. 1..(i - 1) \subseteq 1..n
      BY <1>1
    <3> QED BY <1>6, <3>1
  <2> QED BY <1>1, <1>2, <1>6, <2>1 DEF WalkTo, Keeps
<1>10. Round!Allowed(k, v \ {k}, b)
  <2>1. (n + 1) - 1 = n
    BY <1>1
  <2> QED BY <1>1, <1>2, <1>4, <2>1 DEF WalkTo, Keeps
<1>11. WalkTo(t, v \ {k}, t[n], b) /\ t[n] \in v \ {k}
  <2>1. n \in 1..n
    BY <1>1, <1>5
  <2> QED BY <1>4, <1>5, <1>6, <1>8, <1>9, <2>1 DEF WalkTo, Keeps
<1> QED BY <1>3, <1>7, <1>10, <1>11 DEF Came

LEMMA WalkSingle ==
  ASSUME NEW s, NEW k, NEW b, WalkTo(s, {k}, k, b)
  PROVE  s = <<k>> /\ Round!Allowed(k, {}, b)
<1>1. Len(s) = 1 /\ s \in Seq(H) /\ s[1] = k /\ k \in H
  <2>1. Len(s) = Cardinality({k}) /\ {k} \in SUBSET H
    BY WalkLength DEF WalkTo
  <2> QED BY <2>1, FS_Singleton DEF WalkTo, IsWalk
<1>2. s = <<k>>
  <2>1. <<k>> \in Seq(H) /\ Len(<<k>>) = 1
    BY <1>1
  <2> QED BY <1>1, <2>1, SeqEqual
<1>3. {s[j] : j \in 1..(1 - 1)} = {}
  OBVIOUS
<1> QED BY <1>1, <1>2, <1>3 DEF WalkTo, Keeps

LEMMA SingleWalk ==
  ASSUME NEW k \in H, NEW b, Round!Allowed(k, {}, b)
  PROVE  WalkTo(<<k>>, {k}, k, b)
<1>1. <<k>> \in Seq(H) /\ Len(<<k>>) = 1 /\ <<k>>[1] = k
  OBVIOUS
<1>2. {k} = {<<k>>[i] : i \in 1..1} /\ \A i \in 1..1 : {<<k>>[j] : j \in 1..(i - 1)} = {}
  OBVIOUS
<1> QED BY <1>1, <1>2 DEF WalkTo, IsWalk, Keeps

-----------------------------------------------------------------------------
(* Walks over equally many houses compare, by distance and then by ids.    *)
Rated(n) == {w \in [cost : Nat, ids : Seq(H)] : Len(w.ids) = n}

LEMMA RatedIds ==
  ASSUME NEW n \in Nat, NEW w \in Rated(n)
  PROVE  w.cost \in Nat /\ DOMAIN w.ids = 1..n /\ \A i \in 1..n : w.ids[i] \in Nat
<1>1. w.cost \in Nat /\ w.ids \in Seq(H) /\ Len(w.ids) = n
  BY DEF Rated
<1>2. DOMAIN w.ids = 1..n /\ \A i \in 1..n : w.ids[i] \in H
  BY <1>1, LenProperties
<1> QED BY <1>1, <1>2, VisitNumbers

LEMMA BeforeOneWay ==
  ASSUME NEW n \in Nat, NEW v \in Rated(n), NEW w \in Rated(n), Round!Before(v.ids, w.ids)
  PROVE  ~ Round!Before(w.ids, v.ids)
<1>1. PICK i \in 1..n : v.ids[i] < w.ids[i] /\ \A j \in 1..(i - 1) : v.ids[j] = w.ids[j]
  BY RatedIds DEF Round!Before
<1>2. ASSUME NEW m \in 1..n, w.ids[m] < v.ids[m], \A j \in 1..(m - 1) : w.ids[j] = v.ids[j] PROVE FALSE
  <2>1. \A j \in 1..n : v.ids[j] \in Nat /\ w.ids[j] \in Nat
    BY RatedIds
  <2>2. CASE m < i
    BY <1>1, <1>2, <2>1, <2>2
  <2>3. CASE i < m
    BY <1>1, <1>2, <2>1, <2>3
  <2>4. CASE i = m
    BY <1>1, <1>2, <2>1, <2>4
  <2> QED BY <2>2, <2>3, <2>4
<1> QED BY <1>2, RatedIds DEF Round!Before

LEMMA AtMostTotal ==
  ASSUME NEW n \in Nat, NEW v \in Rated(n), NEW w \in Rated(n)
  PROVE  Round!AtMost(v, w) \/ Round!AtMost(w, v)
BY RatedIds, BeforeOneWay DEF Round!AtMost

LEMMA AtMostItself == ASSUME NEW n \in Nat, NEW w \in Rated(n) PROVE Round!AtMost(w, w)
BY AtMostTotal

LEMMA BeforeThrough ==
  ASSUME NEW n \in Nat, NEW u \in Rated(n), NEW v \in Rated(n), NEW w \in Rated(n),
         Round!Before(w.ids, u.ids)
  PROVE  Round!Before(v.ids, u.ids) \/ Round!Before(w.ids, v.ids)
<1>0. \A j \in 1..n : u.ids[j] \in Nat /\ v.ids[j] \in Nat /\ w.ids[j] \in Nat
  BY RatedIds
<1>1. PICK i \in 1..n : w.ids[i] < u.ids[i] /\ \A j \in 1..(i - 1) : w.ids[j] = u.ids[j]
  BY RatedIds DEF Round!Before
<1> DEFINE T == {j \in 1..i : v.ids[j] # w.ids[j] \/ v.ids[j] # u.ids[j]}
<1>2. i \in T
  BY <1>0, <1>1
<1>3. PICK m \in T : \A j \in T : m <= j
  <2>1. T \in SUBSET Nat
    OBVIOUS
  <2> QED BY <1>2, <2>1, Least
<1>4. m \in 1..n /\ m <= i /\ \A j \in 1..(m - 1) : v.ids[j] = w.ids[j] /\ v.ids[j] = u.ids[j]
  BY <1>3
<1>5. v.ids[m] < u.ids[m] \/ w.ids[m] < v.ids[m]
  <2>1. CASE m = i
    BY <1>0, <1>1, <2>1
  <2>2. CASE m < i
    <3>1. m \in 1..(i - 1) /\ w.ids[m] = u.ids[m]
      BY <1>1, <1>4, <2>2
    <3> QED BY <1>0, <1>3, <1>4, <3>1
  <2> QED BY <1>4, <2>1, <2>2
<1> QED BY <1>4, <1>5, RatedIds DEF Round!Before

LEMMA AtMostThrough ==
  ASSUME NEW n \in Nat, NEW u \in Rated(n), NEW v \in Rated(n), NEW w \in Rated(n),
         Round!AtMost(u, v), Round!AtMost(v, w)
  PROVE  Round!AtMost(u, w)
<1>1. u.cost \in Nat /\ v.cost \in Nat /\ w.cost \in Nat
  BY RatedIds
<1>2. Round!Before(w.ids, u.ids) => Round!Before(v.ids, u.ids) \/ Round!Before(w.ids, v.ids)
  BY BeforeThrough
<1> QED BY <1>1, <1>2 DEF Round!AtMost

LEMMA LeastWalk ==
  ASSUME NEW n \in Nat, NEW W \in SUBSET Rated(n), IsFiniteSet(W), W # {}
  PROVE  Round!Least(W) \in W /\ \A w \in W : Round!AtMost(Round!Least(W), w)
<1> DEFINE Bad(X) == X # {} /\ ~ \E a \in X : \A w \in X : Round!AtMost(a, w)
           T == {Cardinality(X) : X \in {Y \in SUBSET W : Bad(Y)}}
<1>1. \A X \in SUBSET W : IsFiniteSet(X) /\ Cardinality(X) \in Nat
  BY FS_Subset, FS_CardinalityType
<1>2. T = {}
  <2> SUFFICES ASSUME T # {} PROVE FALSE
    OBVIOUS
  <2>1. T \in SUBSET Nat
    BY <1>1
  <2>2. PICK m \in T : \A x \in T : m <= x
    BY <2>1, Least
  <2>3. PICK X \in SUBSET W : Bad(X) /\ Cardinality(X) = m
    BY <2>2
  <2>4. PICK a \in X : TRUE
    BY <2>3
  <2>5. Cardinality(X \ {a}) = m - 1 /\ m \in Nat
    BY <1>1, <2>3, <2>4, FS_RemoveElement
  <2>6. ~ Bad(X \ {a})
    <3>1. ASSUME Bad(X \ {a}) PROVE m - 1 \in T
      <4>1. X \ {a} \in SUBSET W
        BY <2>3
      <4> QED BY <2>5, <3>1, <4>1
    <3>2. m - 1 \notin T
      BY <2>2, <2>5
    <3> QED BY <3>1, <3>2
  <2>7. \A x \in X : x \in Rated(n)
    BY <2>3
  <2>8. CASE X \ {a} = {}
    <3>1. \A w \in X : w = a
      BY <2>8
    <3> QED BY <2>3, <2>4, <2>7, <3>1, AtMostItself
  <2>9. CASE X \ {a} # {}
    <3>1. PICK c \in X \ {a} : \A w \in X \ {a} : Round!AtMost(c, w)
      BY <2>6, <2>9
    <3>2. CASE Round!AtMost(c, a)
      <4>1. \A w \in X : Round!AtMost(c, w)
        BY <3>1, <3>2
      <4> QED BY <2>3, <3>1, <4>1
    <3>3. CASE Round!AtMost(a, c)
      <4>1. \A w \in X : Round!AtMost(a, w)
        BY <2>7, <2>4, <3>1, <3>3, AtMostThrough, AtMostItself
      <4> QED BY <2>3, <2>4, <4>1
    <3> QED BY <2>4, <2>7, <3>1, <3>2, <3>3, AtMostTotal
  <2> QED BY <2>8, <2>9
<1>3. ~ Bad(W)
  BY <1>2
<1>4. \E a \in W : \A w \in W : Round!AtMost(a, w)
  BY <1>3
<1> QED BY <1>4 DEF Round!Least

(* Of two walks gone on to the same house, the better one stays better.    *)
Onward(w, d, k) == [cost |-> w.cost + d, ids |-> Append(w.ids, k)]

LEMMA OnwardRated ==
  ASSUME NEW n \in Nat, NEW w \in Rated(n), NEW d \in Nat, NEW k \in H
  PROVE  /\ Onward(w, d, k) \in Rated(n + 1) /\ Onward(w, d, k).ids[n + 1] = k
         /\ Onward(w, d, k).cost = w.cost + d /\ \A i \in 1..n : Onward(w, d, k).ids[i] = w.ids[i]
<1>1. w.cost \in Nat /\ w.ids \in Seq(H) /\ Len(w.ids) = n
  BY DEF Rated
<1>2. Append(w.ids, k) \in Seq(H) /\ Len(Append(w.ids, k)) = n + 1 /\ Append(w.ids, k)[n + 1] = k
      /\ \A i \in 1..n : Append(w.ids, k)[i] = w.ids[i]
  BY <1>1, AppendProperties
<1> QED BY <1>1, <1>2 DEF Onward, Rated

LEMMA OnwardKeeps ==
  ASSUME NEW n \in Nat, NEW v \in Rated(n), NEW w \in Rated(n), NEW d \in Nat, NEW k \in H, Round!AtMost(v, w)
  PROVE  Round!AtMost(Onward(v, d, k), Onward(w, d, k))
<1> DEFINE x == Onward(v, d, k)
           y == Onward(w, d, k)
<1>1. /\ x.cost = v.cost + d /\ y.cost = w.cost + d /\ x.ids[n + 1] = k /\ y.ids[n + 1] = k
      /\ \A i \in 1..n : x.ids[i] = v.ids[i] /\ y.ids[i] = w.ids[i]
      /\ DOMAIN y.ids = 1..(n + 1)
  BY OnwardRated, RatedIds
<1>2. v.cost \in Nat /\ w.cost \in Nat /\ k \in Nat /\ DOMAIN w.ids = 1..n
  BY RatedIds, VisitNumbers
<1> HIDE DEF x, y
<1>3. ASSUME Round!Before(y.ids, x.ids) PROVE Round!Before(w.ids, v.ids)
  <2>1. PICK i \in 1..(n + 1) : y.ids[i] < x.ids[i] /\ \A j \in 1..(i - 1) : y.ids[j] = x.ids[j]
    BY <1>1, <1>3 DEF Round!Before
  <2>2. i # n + 1
    BY <1>1, <1>2, <2>1
  <2>3. i \in 1..n /\ 1..(i - 1) \subseteq 1..n
    BY <2>1, <2>2
  <2> QED BY <1>1, <1>2, <2>1, <2>3 DEF Round!Before
<1>4. Round!AtMost(x, y)
  BY <1>1, <1>2, <1>3 DEF Round!AtMost
<1> QED BY <1>4 DEF x, y

(* What the programme notes for the houses v: a walk over them, as good as *)
(* any that may be taken.                                                  *)
Measured(s) == [cost |-> Round!Travel(s), ids |-> s]
Best(b, v, k) == Round!BestWalks(b)[v][k]
Right(b, v) ==
  \A k \in H :
    /\ Best(b, v, k) # None => \E s : WalkTo(s, v, k, b) /\ Best(b, v, k) = Measured(s)
    /\ \A s : WalkTo(s, v, k, b) => Best(b, v, k) # None /\ Round!AtMost(Best(b, v, k), Measured(s))

LEMMA MeasuredRated ==
  ASSUME CostsRead, NEW s, NEW v, IsWalk(s, v)
  PROVE  Measured(s) \in Rated(Cardinality(v)) /\ Cardinality(v) \in Nat /\ Measured(s) # None
<1>1. Round!Travel(s) \in Nat /\ s \in Seq(H) /\ Len(s) = Cardinality(v) /\ Len(s) \in Nat
  BY TravelTyped, WalkLength DEF IsWalk
<1>2. Measured(s) \in [cost : Nat, ids : Seq(H)] /\ Measured(s).ids = s
  BY <1>1 DEF Measured
<1>3. Measured(s) \in Rated(Cardinality(v))
  BY <1>1, <1>2 DEF Rated
<1>4. Measured(s) # None
  BY <1>2, VisitNumbers
<1> QED BY <1>1, <1>3, <1>4

LEMMA BestIs == ASSUME NEW b, NEW v \in SUBSET H, NEW k \in H
                PROVE Best(b, v, k) = Round!BestWalk(Round!BestWalks(b), v, k, b)
<1>1. Round!BestWalks(b)[v] = Row(Round!BestWalks(b), v, b)
  BY BestOfAll
<1>2. Row(Round!BestWalks(b), v, b)[k] = Round!BestWalk(Round!BestWalks(b), v, k, b)
  BY DEF Row
<1> QED BY <1>1, <1>2 DEF Best

LEMMA RightBarred ==
  ASSUME NEW b, NEW v \in SUBSET H, NEW k \in H, k \notin v \/ ~ Round!Allowed(k, v \ {k}, b)
  PROVE  Best(b, v, k) = None /\ ~ \E s : WalkTo(s, v, k, b)
<1>1. Best(b, v, k) = None
  BY BestIs DEF Round!BestWalk
<1>2. ASSUME NEW s, WalkTo(s, v, k, b) PROVE FALSE
  <2>1. CASE v = {k}
    <3>1. v \ {k} = {}
      BY <2>1
    <3> QED BY <1>2, <2>1, <3>1, WalkSingle
  <2>2. CASE v # {k}
    BY <1>2, <2>2, WalkBefore
  <2> QED BY <2>1, <2>2
<1> QED BY <1>1, <1>2

LEMMA RightFirst ==
  ASSUME CostsRead, NEW b, NEW k \in H, Round!Allowed(k, {}, b)
  PROVE  /\ WalkTo(<<k>>, {k}, k, b) /\ Best(b, {k}, k) = Measured(<<k>>)
         /\ \A s : WalkTo(s, {k}, k, b) => Best(b, {k}, k) # None /\ Round!AtMost(Best(b, {k}, k), Measured(s))
<1>1. WalkTo(<<k>>, {k}, k, b)
  BY SingleWalk
<1>2. Best(b, {k}, k) = Measured(<<k>>)
  <2>1. {k} \ {k} = {} /\ {k} \in SUBSET H
    OBVIOUS
  <2>2. Best(b, {k}, k) = [cost |-> cost[<<0, k>>], ids |-> <<k>>]
    <3>1. Best(b, {k}, k) = Round!BestWalk(Round!BestWalks(b), {k}, k, b)
      BY <2>1, BestIs
    <3> QED BY <2>1, <3>1 DEF Round!BestWalk
  <2>3. <<0, k>> \in Round!Pairs
    BY VisitNumbers DEF Round!Pairs, H
  <2>4. Round!Travel(<<k>>) = cost[<<0, k>>]
    BY <2>3, TravelOne DEF CostsRead
  <2> QED BY <2>2, <2>4 DEF Measured
<1>3. Measured(<<k>>) # None /\ Round!AtMost(Measured(<<k>>), Measured(<<k>>))
  BY <1>1, MeasuredRated, AtMostItself DEF WalkTo
<1>4. \A s : WalkTo(s, {k}, k, b) => s = <<k>>
  BY WalkSingle
<1> QED BY <1>1, <1>2, <1>3, <1>4

(* Of the walks over fewer houses that may go on to k the best are gone on *)
(* with, and the best of those is taken.                                   *)
LEMMA RightNext ==
  ASSUME CostsRead, NEW b, NEW v \in SUBSET H, NEW k \in v, v # {k}, Round!Allowed(k, v \ {k}, b), Right(b, v \ {k})
  PROVE  /\ Best(b, v, k) # None => \E s : WalkTo(s, v, k, b) /\ Best(b, v, k) = Measured(s)
         /\ \A s : WalkTo(s, v, k, b) => Best(b, v, k) # None /\ Round!AtMost(Best(b, v, k), Measured(s))
<1> DEFINE u == v \ {k}
           n == Cardinality(u)
           On(j) == Round!Onto(Best(b, u, j), j, k)
           W == {On(j) : j \in u} \ {None}
<1>1. u \in SUBSET H /\ k \in H \ u /\ v = u \cup {k} /\ IsFiniteSet(u) /\ n \in Nat
  BY Subsets
<1>2. Best(b, v, k) = Round!Least(W)
  <2>1. Best(b, v, k) = Round!BestWalk(Round!BestWalks(b), v, k, b)
    BY BestIs
  <2> QED BY <2>1 DEF Round!BestWalk, Best
<1>3. ASSUME NEW j \in u, NEW t, WalkTo(t, u, j, b)
      PROVE  /\ Onward(Measured(t), cost[<<j, k>>], k) = Measured(Append(t, k))
             /\ WalkTo(Append(t, k), v, k, b) /\ Measured(Append(t, k)) \in Rated(n + 1)
             /\ Measured(Append(t, k)) # None /\ cost[<<j, k>>] \in Nat /\ Measured(t) \in Rated(n)
  <2>1. t \in Seq(H) /\ Len(t) # 0 /\ t[Len(t)] = j
    BY <1>3 DEF WalkTo, IsWalk
  <2>2. Round!Travel(Append(t, k)) = Round!Travel(t) + cost[<<j, k>>]
    BY <1>1, <2>1, TravelFurther
  <2>3. WalkTo(Append(t, k), v, k, b)
    BY <1>1, <1>3, WalkOn DEF WalkTo
  <2>4. Measured(Append(t, k)) \in Rated(Cardinality(v)) /\ Measured(Append(t, k)) # None /\ Measured(t) \in Rated(n)
    BY <1>3, <2>3, MeasuredRated DEF WalkTo
  <2>5. Cardinality(v) = n + 1
    BY <1>1, FS_AddElement
  <2>6. <<j, k>> \in Round!Pairs
    BY <1>1, VisitNumbers DEF Round!Pairs, H
  <2> QED BY <2>2, <2>3, <2>4, <2>5, <2>6 DEF Onward, Measured, CostsRead
<1>4. ASSUME NEW j \in u, Best(b, u, j) # None
      PROVE  \E t : WalkTo(t, u, j, b) /\ Best(b, u, j) = Measured(t) /\ On(j) = Measured(Append(t, k))
  <2>1. PICK t : WalkTo(t, u, j, b) /\ Best(b, u, j) = Measured(t)
    BY <1>1, <1>4 DEF Right
  <2>2. On(j) = Onward(Measured(t), cost[<<j, k>>], k)
    BY <1>4, <2>1 DEF Round!Onto, Onward
  <2> QED BY <1>3, <2>1, <2>2
<1>5. ASSUME NEW j \in u, Best(b, u, j) = None PROVE On(j) = None
  BY <1>5 DEF Round!Onto
<1> HIDE DEF On, u, n
<1>6. ASSUME NEW w \in W PROVE \E s : WalkTo(s, v, k, b) /\ w = Measured(s) /\ w \in Rated(n + 1)
  BY <1>3, <1>4, <1>5
<1>7. IsFiniteSet(W)
  <2> DEFINE f == [j \in u |-> On(j)]
  <2>1. f \in Surjection(u, {On(j) : j \in u})
    BY DEF Surjection
  <2>2. IsFiniteSet({On(j) : j \in u})
    BY <1>1, <2>1, FS_Surjection
  <2> QED BY <2>2, FS_Subset
<1>8. W # {} => Round!Least(W) \in W /\ \A w \in W : Round!AtMost(Round!Least(W), w)
  <2>1. n + 1 \in Nat /\ W \in SUBSET Rated(n + 1)
    BY <1>1, <1>6
  <2> HIDE DEF W
  <2> QED BY <1>7, <2>1, LeastWalk
<1>9. W = {} => Round!Least(W) = None
  BY DEF Round!Least
<1>10. ASSUME Best(b, v, k) # None PROVE \E s : WalkTo(s, v, k, b) /\ Best(b, v, k) = Measured(s)
  <2>1. Round!Least(W) \in W
    BY <1>2, <1>8, <1>9, <1>10
  <2> QED BY <1>2, <1>6, <2>1
<1>11. ASSUME NEW s, WalkTo(s, v, k, b) PROVE Best(b, v, k) # None /\ Round!AtMost(Best(b, v, k), Measured(s))
  <2>1. PICK t, j : j \in u /\ WalkTo(t, u, j, b) /\ s = Append(t, k)
    <3>1. Came(s, v, k, b)
      BY <1>11, WalkBefore
    <3> QED BY <3>1 DEF Came, u
  <2>2. Best(b, u, j) # None /\ Round!AtMost(Best(b, u, j), Measured(t))
    BY <1>1, <2>1 DEF Right, u
  <2>3. PICK r : WalkTo(r, u, j, b) /\ Best(b, u, j) = Measured(r) /\ On(j) = Measured(Append(r, k))
    BY <1>4, <2>1, <2>2
  <2>4. Round!AtMost(Measured(Append(r, k)), Measured(s))
    <3>1. Round!AtMost(Onward(Measured(r), cost[<<j, k>>], k), Onward(Measured(t), cost[<<j, k>>], k))
      BY <1>1, <1>3, <2>1, <2>2, <2>3, OnwardKeeps
    <3> QED BY <1>3, <2>1, <2>3, <3>1
  <2>5. On(j) \in W
    BY <1>3, <2>1, <2>3
  <2>6. Round!Least(W) \in W /\ Round!AtMost(Round!Least(W), On(j))
    BY <1>8, <2>5
  <2>7. Round!Least(W) \in Rated(n + 1) /\ On(j) \in Rated(n + 1) /\ Measured(s) \in Rated(n + 1)
    BY <1>3, <1>6, <2>1, <2>3, <2>6
  <2>8. Round!AtMost(Round!Least(W), Measured(s))
    BY <1>1, <2>3, <2>4, <2>6, <2>7, AtMostThrough
  <2> QED BY <1>2, <2>6, <2>8
<1> QED BY <1>10, <1>11

LEMMA RightFrom ==
  ASSUME CostsRead, NEW b, NEW v \in SUBSET H, \A k \in v : Right(b, v \ {k})
  PROVE  Right(b, v)
<1> SUFFICES ASSUME NEW k \in H
             PROVE  /\ Best(b, v, k) # None => \E s : WalkTo(s, v, k, b) /\ Best(b, v, k) = Measured(s)
                    /\ \A s : WalkTo(s, v, k, b) =>
                              Best(b, v, k) # None /\ Round!AtMost(Best(b, v, k), Measured(s))
  BY DEF Right
<1>1. CASE k \notin v \/ ~ Round!Allowed(k, v \ {k}, b)
  BY <1>1, RightBarred
<1>2. CASE k \in v /\ v # {k} /\ Round!Allowed(k, v \ {k}, b)
  BY <1>2, RightNext
<1>3. CASE v = {k} /\ Round!Allowed(k, v \ {k}, b)
  <2>1. v \ {k} = {}
    BY <1>3
  <2> QED BY <1>3, <2>1, RightFirst
<1> QED BY <1>1, <1>2, <1>3

LEMMA RightAll == ASSUME CostsRead, NEW b PROVE \A v \in SUBSET H : Right(b, v)
<1> DEFINE Wrong == {v \in SUBSET H : ~ Right(b, v)}
           T == {Cardinality(v) : v \in Wrong}
<1>1. SUFFICES ASSUME T # {} PROVE FALSE
  OBVIOUS
<1>2. T \in SUBSET Nat
  BY Subsets
<1>3. PICK m \in T : \A x \in T : m <= x
  BY <1>1, <1>2, Least
<1>4. PICK v \in SUBSET H : ~ Right(b, v) /\ Cardinality(v) = m
  BY <1>3
<1>5. ASSUME NEW k \in v PROVE Right(b, v \ {k})
  <2>1. Cardinality(v \ {k}) = m - 1 /\ m \in Nat /\ v \ {k} \in SUBSET H
    BY <1>4, Subsets, FS_RemoveElement
  <2>2. m - 1 \notin T
    BY <1>3, <2>1
  <2> QED BY <2>1, <2>2
<1> QED BY <1>4, <1>5, RightFrom

(* There is a walk that may be taken over all houses: one that goes on to  *)
(* a house of the highest tier left.                                       *)
TiersRead == tiers \in [H -> Tiers]

LEMMA NextHouse ==
  ASSUME TiersRead, NEW b, NEW v \in SUBSET H, v # H
  PROVE  \E k \in H \ v : Round!Allowed(k, v, b)
<1> DEFINE T == {tiers[k] : k \in H \ v}
<1>1. T \in SUBSET Nat /\ T # {}
  <2>1. Tiers \subseteq Nat
    BY VisitNumbers DEF Round!VisitsAssumption
  <2>2. \A k \in H \ v : tiers[k] \in Nat
    BY <2>1 DEF TiersRead
  <2>3. PICK k \in H : k \notin v
    OBVIOUS
  <2>4. tiers[k] \in T
    BY <2>3
  <2> QED BY <2>2, <2>4
<1>2. PICK m \in T : \A x \in T : m <= x
  BY <1>1, Least
<1>3. PICK k \in H \ v : tiers[k] = m
  BY <1>2
<1>4. \A other \in H \ (v \cup {k}) : tiers[other] >= tiers[k]
  <2> SUFFICES ASSUME NEW other \in H \ (v \cup {k}) PROVE tiers[other] >= tiers[k]
    OBVIOUS
  <2>1. tiers[other] \in T
    OBVIOUS
  <2> QED BY <1>1, <1>2, <1>3, <2>1
<1> QED BY <1>3, <1>4 DEF Round!Allowed, H

LEMMA SomeWalk ==
  ASSUME TiersRead, NEW b
  PROVE  \E s, k : k \in H /\ WalkTo(s, H, k, b)
<1> DEFINE Reaches(n) == \E s, v : IsWalk(s, v) /\ Keeps(s, b) /\ Len(s) = n
           T == {n \in 0..Stops : ~ Reaches(n)}
<1>1. T = {}
  <2> SUFFICES ASSUME T # {} PROVE FALSE
    OBVIOUS
  <2>1. T \in SUBSET Nat
    BY VisitNumbers
  <2>2. PICK n \in T : \A x \in T : n <= x
    BY <2>1, Least
  <2>3. n # 0
    <3>1. IsWalk(<<>>, {}) /\ Keeps(<<>>, b) /\ Len(<<>>) = 0
      <4>1. <<>> \in Seq(H) /\ Len(<<>>) = 0
        BY EmptySeq
      <4> QED BY <4>1 DEF IsWalk, Keeps
    <3> QED BY <2>2, <3>1
  <2>4. n - 1 \in 0..Stops /\ n - 1 \notin T /\ n \in 1..Stops
    BY <2>2, <2>3, VisitNumbers
  <2>5. PICK s, v : IsWalk(s, v) /\ Keeps(s, b) /\ Len(s) = n - 1
    BY <2>4
  <2>6. v \in SUBSET H /\ Cardinality(v) = n - 1
    BY <2>5, WalkLength
  <2>7. v # H
    BY <2>4, <2>6, VisitNumbers
  <2>8. PICK k \in H \ v : Round!Allowed(k, v, b)
    BY <2>6, <2>7, NextHouse
  <2>9. WalkTo(Append(s, k), v \cup {k}, k, b)
    BY <2>5, <2>8, WalkOn
  <2>10. Len(Append(s, k)) = n
    BY <2>4, <2>5, <2>8, AppendProperties DEF IsWalk
  <2>11. Reaches(n)
    BY <2>9, <2>10 DEF WalkTo
  <2> QED BY <2>2, <2>11
<1>2. Reaches(Stops)
  BY <1>1, VisitNumbers
<1>3. PICK s, v : IsWalk(s, v) /\ Keeps(s, b) /\ Len(s) = Stops
  BY <1>2
<1>4. v \in SUBSET H /\ Cardinality(v) = Stops /\ Len(s) \in Nat /\ \A i \in 1..Len(s) : s[i] \in H
  BY <1>3, WalkLength
<1>5. v = H
  BY <1>4, VisitNumbers, FS_Subset
<1>6. Len(s) # 0 /\ s[Len(s)] \in H
  BY <1>3, <1>4, VisitNumbers
<1> QED BY <1>3, <1>5, <1>6 DEF WalkTo

(* The order answered is a walk over all houses, and the best.             *)
LEMMA SolveBest ==
  ASSUME CostsRead, TiersRead, NEW b
  PROVE  LET order == Round!Solve(b)
         IN  /\ IsWalk(order, H) /\ Keeps(order, b)
             /\ \A s : IsWalk(s, H) /\ Keeps(s, b) => Round!AtMost(Measured(order), Measured(s))
<1> DEFINE W == {Best(b, H, k) : k \in H} \ {None}
<1>0. \A k \in H : /\ Best(b, H, k) # None => \E s : WalkTo(s, H, k, b) /\ Best(b, H, k) = Measured(s)
                  /\ \A s : WalkTo(s, H, k, b) =>
                            Best(b, H, k) # None /\ Round!AtMost(Best(b, H, k), Measured(s))
  <2>1. Right(b, H)
    BY RightAll
  <2> QED BY <2>1 DEF Right
<1>1. Round!Solve(b) = Round!Least(W).ids
  <2>1. Round!BestWalks(b)[H] = Row(Round!BestWalks(b), H, b)
    BY BestOfAll
  <2>2. DOMAIN Round!BestWalks(b)[H] = H
    BY <2>1 DEF Row
  <2>3. Round!Range(Round!BestWalks(b)[H]) = {Best(b, H, k) : k \in H}
    BY <2>2 DEF Round!Range, Best
  <2> QED BY <2>3 DEF Round!Solve, H
<1>2. ASSUME NEW w \in W PROVE \E s : IsWalk(s, H) /\ Keeps(s, b) /\ w = Measured(s) /\ w \in Rated(Stops)
  <2>1. PICK k \in H : w = Best(b, H, k) /\ w # None
    BY <1>2
  <2>2. PICK s : WalkTo(s, H, k, b) /\ w = Measured(s)
    BY <1>0, <2>1
  <2> QED BY <2>2, MeasuredRated, VisitNumbers DEF WalkTo
<1>3. IsFiniteSet(W)
  <2> DEFINE f == [k \in H |-> Best(b, H, k)]
  <2>1. f \in Surjection(H, {Best(b, H, k) : k \in H})
    BY DEF Surjection
  <2>2. IsFiniteSet({Best(b, H, k) : k \in H})
    BY <2>1, FS_Surjection, VisitNumbers
  <2> QED BY <2>2, FS_Subset
<1>4. ASSUME NEW s, IsWalk(s, H), Keeps(s, b) PROVE \E w \in W : Round!AtMost(w, Measured(s))
  <2>1. Len(s) \in Nat /\ Len(s) = Stops /\ \A i \in 1..Len(s) : s[i] \in H
    BY <1>4, WalkLength, VisitNumbers
  <2>2. Stops \in 1..Stops
    BY VisitNumbers
  <2>3. s[Stops] \in H /\ WalkTo(s, H, s[Stops], b)
    BY <1>4, <2>1, <2>2, VisitNumbers DEF WalkTo
  <2> QED BY <1>0, <2>3
<1>5. W # {}
  BY <1>4, SomeWalk DEF WalkTo
<1>6. Round!Least(W) \in W /\ \A w \in W : Round!AtMost(Round!Least(W), w)
  <2>1. Stops \in Nat /\ W \in SUBSET Rated(Stops)
    BY <1>2, VisitNumbers
  <2> HIDE DEF W
  <2> QED BY <1>3, <1>5, <2>1, LeastWalk
<1>7. PICK order : IsWalk(order, H) /\ Keeps(order, b) /\ Round!Least(W) = Measured(order)
  BY <1>2, <1>6
<1>8. Round!Solve(b) = order
  BY <1>1, <1>7 DEF Measured
<1>9. ASSUME NEW s, IsWalk(s, H), Keeps(s, b) PROVE Round!AtMost(Measured(order), Measured(s))
  <2>1. PICK w \in W : Round!AtMost(w, Measured(s))
    BY <1>4, <1>9
  <2>2. Measured(order) \in Rated(Stops) /\ w \in Rated(Stops) /\ Measured(s) \in Rated(Stops)
    BY <1>2, <1>7, <1>9, MeasuredRated, VisitNumbers
  <2>3. Round!AtMost(Measured(order), w)
    BY <1>6, <1>7
  <2> QED BY <2>1, <2>2, <2>3, AtMostThrough, VisitNumbers
<1> QED BY <1>7, <1>8, <1>9

(* The orders of the houses are the walks over all of them; those by tier  *)
(* the ones that leave no house of a higher tier behind.                   *)
LEMMA OrderWalks ==
  ASSUME NEW s \in Round!Orders
  PROVE  IsWalk(s, H) /\ Len(s) = Stops
<1>1. s \in [1..Stops -> H] /\ \A i, j \in 1..Stops : s[i] = s[j] => i = j
  BY VisitNumbers DEF Round!Orders, Round!IsInjective, H
<1>2. Stops \in Nat /\ s \in Seq(H) /\ Len(s) = Stops
  BY <1>1, VisitNumbers
<1>3. IsWalk(s, {s[i] : i \in 1..Len(s)})
  BY <1>1, <1>2 DEF IsWalk
<1>4. {s[i] : i \in 1..Len(s)} \in SUBSET H /\ Stops = Cardinality({s[i] : i \in 1..Len(s)})
  BY <1>2, <1>3, WalkLength
<1>5. {s[i] : i \in 1..Len(s)} = H
  BY <1>4, VisitNumbers, FS_Subset
<1> QED BY <1>2, <1>3, <1>5

LEMMA WalkOrders ==
  ASSUME NEW s, IsWalk(s, H)
  PROVE  s \in Round!Orders /\ Len(s) = Stops
<1>1. Len(s) = Stops /\ DOMAIN s = 1..Stops /\ \A i \in 1..Stops : s[i] \in H
  BY WalkLength, VisitNumbers
<1>2. s \in [1..Stops -> H]
  <2>1. Len(s) \in Nat /\ s \in [1..Len(s) -> H]
    BY LenProperties DEF IsWalk
  <2> QED BY <1>1, <2>1
<1>3. \A i, j \in DOMAIN s : s[i] = s[j] => i = j
  BY <1>1 DEF IsWalk
<1> QED BY <1>1, <1>2, <1>3, VisitNumbers DEF Round!Orders, Round!IsInjective, H

LEMMA TierWalks ==
  ASSUME TiersRead, NEW s \in Round!Orders
  PROVE  Keeps(s, TRUE) <=> Round!ByTier(s)
<1>0. \A k \in H : tiers[k] \in Nat
  BY VisitNumbers DEF TiersRead
<1>1. /\ Len(s) = Stops /\ H = {s[i] : i \in 1..Stops} /\ \A i \in 1..Stops : s[i] \in H
      /\ \A i, j \in 1..Stops : s[i] = s[j] => i = j
  BY OrderWalks, WalkLength, VisitNumbers DEF IsWalk
<1>2. ASSUME Round!ByTier(s), NEW i \in 1..Stops
      PROVE  Round!Allowed(s[i], {s[j] : j \in 1..(i - 1)}, TRUE)
  <2>1. SUFFICES ASSUME NEW other \in H \ ({s[j] : j \in 1..(i - 1)} \cup {s[i]})
                 PROVE  tiers[other] >= tiers[s[i]]
    BY DEF Round!Allowed, H
  <2>2. PICK m \in 1..Stops : other = s[m]
    BY <1>1
  <2>3. i \in Nat /\ m \in Nat /\ Stops \in Nat /\ i < m
    BY <2>1, <2>2, VisitNumbers
  <2>4. tiers[s[i]] <= tiers[s[m]]
    BY <1>2, <2>3, VisitNumbers DEF Round!ByTier, H
  <2> QED BY <1>0, <1>1, <2>2, <2>4
<1>3. ASSUME Keeps(s, TRUE), NEW i \in 1..Stops, NEW j \in 1..Stops, i < j
      PROVE  tiers[s[i]] <= tiers[s[j]]
  <2>1. Round!Allowed(s[i], {s[m] : m \in 1..(i - 1)}, TRUE)
    BY <1>1, <1>3 DEF Keeps
  <2>2. i \in Nat /\ j \in Nat /\ Stops \in Nat
    BY VisitNumbers
  <2>3. s[j] \in H \ ({s[m] : m \in 1..(i - 1)} \cup {s[i]})
    <3>1. ASSUME NEW m \in 1..(i - 1), s[j] = s[m] PROVE FALSE
      <4>1. m \in 1..Stops /\ m # j
        BY <1>3, <2>2
      <4> QED BY <1>1, <3>1, <4>1
    <3>2. s[j] # s[i]
      BY <1>1, <1>3, <2>2
    <3> QED BY <1>1, <3>1, <3>2
  <2>4. tiers[s[j]] >= tiers[s[i]]
    BY <2>1, <2>3 DEF Round!Allowed, H
  <2> QED BY <1>0, <1>1, <2>4
<1>4. Round!ByTier(s) => Keeps(s, TRUE)
  BY <1>1, <1>2 DEF Keeps
<1>5. Keeps(s, TRUE) => Round!ByTier(s)
  BY <1>3, VisitNumbers DEF Round!ByTier, H
<1> QED BY <1>4, <1>5

(* What BestOrder asks of one of the two answers.                          *)
Rivals(b) == {s \in Round!Orders : b => Round!ByTier(s)}
BestOf(order, b) ==
  /\ order \in Rivals(b)
  /\ \A s \in Rivals(b) : \/ Round!Travel(order) < Round!Travel(s)
                          \/ Round!Travel(order) = Round!Travel(s) /\ ~ Round!Before(s, order)

LEMMA SolveAnswers ==
  ASSUME CostsRead, TiersRead, NEW b \in BOOLEAN
  PROVE  BestOf(Round!Solve(b), b)
<1> DEFINE order == Round!Solve(b)
<1>1. /\ IsWalk(order, H) /\ Keeps(order, b)
      /\ \A s : IsWalk(s, H) /\ Keeps(s, b) => Round!AtMost(Measured(order), Measured(s))
  BY SolveBest
<1> HIDE DEF order
<1>2. order \in Rivals(b)
  BY <1>1, WalkOrders, TierWalks DEF Rivals
<1>3. ASSUME NEW s \in Rivals(b) PROVE Round!AtMost(Measured(order), Measured(s))
  <2>1. IsWalk(s, H) /\ (b => Keeps(s, TRUE))
    BY <1>3, OrderWalks, TierWalks DEF Rivals
  <2>2. Keeps(s, b)
    <3>1. CASE b
      BY <2>1, <3>1
    <3>2. CASE ~ b
      BY <3>2 DEF Keeps, Round!Allowed
    <3> QED BY <3>1, <3>2
  <2> QED BY <1>1, <2>1, <2>2
<1>4. \A s \in Rivals(b) : \/ Round!Travel(order) < Round!Travel(s)
                           \/ Round!Travel(order) = Round!Travel(s) /\ ~ Round!Before(s, order)
  <2>1. ASSUME NEW s \in Rivals(b)
        PROVE  \/ Round!Travel(order) < Round!Travel(s)
               \/ Round!Travel(order) = Round!Travel(s) /\ ~ Round!Before(s, order)
    <3>1. Round!AtMost(Measured(order), Measured(s))
      BY <1>3
    <3>2. /\ Measured(order).cost = Round!Travel(order) /\ Measured(order).ids = order
          /\ Measured(s).cost = Round!Travel(s) /\ Measured(s).ids = s
      BY DEF Measured
    <3> QED BY <3>1, <3>2 DEF Round!AtMost
  <2> QED BY <2>1
<1> QED BY <1>2, <1>4 DEF BestOf, order

(* A plan is made once, of the tiers and distances that stay; before it    *)
(* there are distances of every pair, and nothing before those.            *)
RoundMeasured == cost \in [Round!Pairs -> Distances \cup {UNREACHABLE}]
RoundInv ==
  /\ stage \in {"asked", "measured", "answered", "not found"} /\ TiersRead
  /\ cost = None \/ RoundMeasured
  /\ stage = "measured" => RoundMeasured
  /\ stage \in {"asked", "measured"} => plans = None
  /\ BestOrder

LEMMA RoundInit == Round!Init => RoundInv
BY DEF Round!Init, RoundInv, TiersRead, H, BestOrder, Round!BestOrder

LEMMA RoundMeasure == ASSUME RoundInv, Round!Measure PROVE RoundInv'
<1>1. PICK gaps \in SUBSET Round!Pairs :
        /\ \E way \in [Round!Pairs \ gaps -> Distances] :
             cost' = [p \in Round!Pairs |-> IF p \in gaps THEN UNREACHABLE ELSE way[p]]
        /\ stage' = IF \A k \in Round!Houses : <<0, k>> \in gaps THEN "not found" ELSE "measured"
  BY DEF Round!Measure
<1>2. cost' \in [Round!Pairs -> Distances \cup {UNREACHABLE}]
  <2>1. PICK way \in [Round!Pairs \ gaps -> Distances] :
          cost' = [p \in Round!Pairs |-> IF p \in gaps THEN UNREACHABLE ELSE way[p]]
    BY <1>1
  <2> QED BY <2>1
<1>3. tiers' = tiers /\ plans' = None /\ stage' \in {"not found", "measured"}
  BY <1>1 DEF Round!Measure, RoundInv
<1>4. TiersRead' /\ RoundMeasured'
  BY <1>2, <1>3 DEF RoundInv, TiersRead, RoundMeasured, H, Round!Houses, Round!Pairs
<1> QED BY <1>3, <1>4 DEF RoundInv, BestOrder, Round!BestOrder

(* What is said of an order is said of the tiers and the distances.        *)
LEMMA BestStays ==
  ASSUME tiers' = tiers, cost' = cost, NEW w, NEW p, NEW b, BestOf(p, b), plans'[w] = p
  PROVE  BestOf(plans[w], b)'
<1>1. Rivals(b)' = Rivals(b)
  BY DEF Rivals, Round!Orders, Round!ByTier, Round!Houses
<1>2. \A s : Round!Travel(s)' = Round!Travel(s)
  BY DEF Round!Travel, Round!Leg
<1>3. Round!Travel(plans[w])' = Round!Travel(p)
  BY DEF Round!Travel, Round!Leg
<1> QED BY <1>1, <1>2, <1>3 DEF BestOf

LEMMA RoundBuild == ASSUME RoundInv, Round!Build PROVE RoundInv'
<1>1. /\ tiers' = tiers /\ cost' = cost /\ stage' \in {"not found", "answered"}
      /\ plans' = [shortest |-> Round!Solve(FALSE), priority |-> Round!Solve(TRUE)]
      /\ RoundMeasured /\ TiersRead
  <2>1. tiers' = tiers /\ cost' = cost /\ RoundMeasured /\ TiersRead
    BY DEF Round!Build, RoundInv
  <2>2. stage' \in {"not found", "answered"}
    BY DEF Round!Build
  <2>3. plans' = [shortest |-> Round!Solve(FALSE), priority |-> Round!Solve(TRUE)]
    BY DEF Round!Build
  <2> QED BY <2>1, <2>2, <2>3
<1>2. CostsRead
  BY <1>1, VisitNumbers DEF RoundMeasured, CostsRead
<1>3. TiersRead' /\ RoundMeasured'
  BY <1>1 DEF TiersRead, RoundMeasured, H, Round!Houses, Round!Pairs
<1>4. \A b \in BOOLEAN : BestOf(plans[IF b THEN "priority" ELSE "shortest"], b)'
  <2>1. ASSUME NEW b \in BOOLEAN
        PROVE  BestOf(plans[IF b THEN "priority" ELSE "shortest"], b)'
    <3> DEFINE p == Round!Solve(b)
    <3>1. BestOf(p, b)
      BY <1>1, <1>2, SolveAnswers
    <3>2. plans'[IF b THEN "priority" ELSE "shortest"] = p
      BY <1>1
    <3> HIDE DEF p
    <3> QED BY <1>1, <3>1, <3>2, BestStays
  <2> QED BY <2>1
<1>5. BestOrder'
  BY <1>4 DEF BestOrder, Round!BestOrder, BestOf, Rivals
<1> QED BY <1>1, <1>3, <1>5 DEF RoundInv

LEMMA RoundIdle == ASSUME RoundInv, UNCHANGED roundVars PROVE RoundInv'
<1>1. tiers' = tiers /\ cost' = cost /\ plans' = plans /\ stage' = stage
  BY DEF roundVars
<1>2. BestOrder'
  <2>1. CASE plans = None
    BY <1>1, <2>1 DEF BestOrder, Round!BestOrder
  <2>2. CASE plans # None
    <3>1. ASSUME NEW b \in BOOLEAN
          PROVE  BestOf(plans[IF b THEN "priority" ELSE "shortest"], b)'
      <4> DEFINE p == plans[IF b THEN "priority" ELSE "shortest"]
      <4>1. BestOf(p, b)
        BY <2>2 DEF RoundInv, BestOrder, Round!BestOrder, BestOf, Rivals
      <4> QED BY <1>1, <4>1, BestStays
    <3> QED BY <3>1 DEF BestOrder, Round!BestOrder, BestOf, Rivals
  <2> QED BY <2>1, <2>2
<1>3. TiersRead' /\ (RoundMeasured <=> RoundMeasured')
  BY <1>1 DEF RoundInv, TiersRead, RoundMeasured, H, Round!Houses, Round!Pairs
<1> QED BY <1>1, <1>2, <1>3 DEF RoundInv

LEMMA RoundSteps == [AnyNext]_allVars => Round!Measure \/ Round!Build \/ UNCHANGED roundVars
BY DEF AnyNext, allVars, newVars, roundVars, InTalk, InWalk, InNew, Round!Next

(* BestOrder: the order answered, the shortest and the one by priority,    *)
(* visits every house once, keeps the tiers when it is to, and is no       *)
(* longer than any other that does, the first by id of equals.             *)
THEOREM OrderAlwaysBest == AnySpec => []BestOrder
<1>1. AnyInit => RoundInv
  BY RoundInit DEF AnyInit
<1>2. RoundInv /\ [AnyNext]_allVars => RoundInv'
  BY RoundSteps, RoundMeasure, RoundBuild, RoundIdle
<1>3. RoundInv => BestOrder
  BY DEF RoundInv
<1> QED BY <1>1, <1>2, <1>3, PTL DEF AnySpec

(* What holds of 0 and passes on to the next holds of all up to n.         *)
LEMMA Stepwise ==
  ASSUME NEW n \in Nat, NEW P, 0 \in P, \A i \in 0..n : i # 0 /\ i - 1 \in P => i \in P
  PROVE  \A i \in 0..n : i \in P
<1> DEFINE T == {i \in 0..n : i \notin P}
<1>1. SUFFICES ASSUME T # {} PROVE FALSE
  OBVIOUS
<1>2. PICK m \in T : \A x \in T : m <= x
  <2>1. T \in SUBSET Nat
    OBVIOUS
  <2> QED BY <1>1, <2>1, Least
<1>3. m # 0 /\ m - 1 \in 0..n /\ m - 1 \notin T
  BY <1>2
<1> QED BY <1>2, <1>3

-----------------------------------------------------------------------------
(* The way of a boat (SeaRoute): Dijkstra's search, the line, the port.    *)
Size == Rows * Columns

LEMMA SeaNumbers ==
  /\ Rows \in Nat \ {0} /\ Columns \in Nat \ {0} /\ Size \in Nat
  /\ IsFiniteSet(Boat!Cells) /\ Cardinality(Boat!Cells) = Size
  /\ Boat!Source \in Boat!Cells /\ None \notin Boat!Cells /\ None \notin Seq(Boat!Cells)
  /\ Boat!Unknown = 9 * Size
<1>1. /\ Rows \in Nat \ {0} /\ Columns \in Nat \ {0}
      /\ None \notin Boat!Cells /\ None \notin Seq(Boat!Cells)
  BY GuidanceAssumption DEF Boat!SeaRouteAssumption
<1>2. Size \in Nat
  BY <1>1 DEF Size
<1>3. /\ IsFiniteSet(1..Rows) /\ Cardinality(1..Rows) = Rows
      /\ IsFiniteSet(1..Columns) /\ Cardinality(1..Columns) = Columns
  BY <1>1, FS_Interval
<1>4. IsFiniteSet(Boat!Cells) /\ Cardinality(Boat!Cells) = Size
  <2> DEFINE A == 1..Rows
             B == 1..Columns
  <2>1. IsFiniteSet(A) /\ IsFiniteSet(B) /\ Cardinality(A) = Rows /\ Cardinality(B) = Columns
    BY <1>3
  <2>2. Boat!Cells = A \X B
    BY DEF Boat!Cells
  <2> HIDE DEF A, B
  <2>3. IsFiniteSet(A \X B) /\ Cardinality(A \X B) = Cardinality(A) * Cardinality(B)
    BY <2>1, FS_Product
  <2> QED BY <2>1, <2>2, <2>3, Zenon DEF Size
<1>5. Boat!Source \in Boat!Cells
  BY <1>1 DEF Boat!Source, Boat!Cells
<1> QED BY <1>1, <1>2, <1>4, <1>5 DEF Boat!Unknown, Size

LEMMA SeaMin ==
  ASSUME NEW T \in SUBSET Nat, T # {}
  PROVE  Boat!Min(T) \in T /\ \A x \in T : Boat!Min(T) <= x
<1>1. \E x \in T : \A y \in T : x =< y
  BY Least
<1> QED BY <1>1 DEF Boat!Min

LEMMA SeaMax == ASSUME NEW i \in Nat, NEW j \in Nat PROVE Boat!Max({i, j}) \in {i, j}
<1>1. \E x \in {i, j} : \A y \in {i, j} : x >= y
  OBVIOUS
<1> QED BY <1>1 DEF Boat!Max

(* The length of a line between two cells is the same both ways.           *)
LEMMA FarBoth ==
  ASSUME NEW c \in Boat!Cells, NEW d \in Boat!Cells
  PROVE  Boat!Far(c, d) \in Nat /\ Boat!Far(c, d) = Boat!Far(d, c)
<1>1. /\ c[1] \in Nat /\ c[2] \in Nat /\ d[1] \in Nat /\ d[2] \in Nat
  BY SeaNumbers DEF Boat!Cells
<1>2. /\ Boat!Gap(c[1], d[1]) \in Nat /\ Boat!Gap(c[1], d[1]) = Boat!Gap(d[1], c[1])
      /\ Boat!Gap(c[2], d[2]) \in Nat /\ Boat!Gap(c[2], d[2]) = Boat!Gap(d[2], c[2])
  BY <1>1 DEF Boat!Gap
<1>3. Boat!Far(c, d) = Boat!Far(d, c)
  BY <1>2 DEF Boat!Far
<1>4. /\ Boat!Max({Boat!Gap(c[1], d[1]), Boat!Gap(c[2], d[2])}) \in Nat
      /\ Boat!Min({Boat!Gap(c[1], d[1]), Boat!Gap(c[2], d[2])}) \in Nat
  <2>1. Boat!Max({Boat!Gap(c[1], d[1]), Boat!Gap(c[2], d[2])}) \in Nat
    BY <1>2, SeaMax
  <2>2. {Boat!Gap(c[1], d[1]), Boat!Gap(c[2], d[2])} \in SUBSET Nat
    BY <1>2
  <2>3. Boat!Min({Boat!Gap(c[1], d[1]), Boat!Gap(c[2], d[2])}) \in {Boat!Gap(c[1], d[1]), Boat!Gap(c[2], d[2])}
    BY <2>2, SeaMin
  <2> QED BY <2>1, <2>2, <2>3
<1> QED BY <1>3, <1>4 DEF Boat!Far

LEMMA CellItself == ASSUME NEW c \in Boat!Cells PROVE ~ Boat!Adjacent(c, c)
<1>1. c[1] \in Nat /\ c[2] \in Nat
  BY SeaNumbers DEF Boat!Cells
<1>2. Boat!Gap(c[1], c[1]) = 0 /\ Boat!Gap(c[2], c[2]) = 0
  BY <1>1 DEF Boat!Gap
<1>3. {0, 0} \in SUBSET Nat /\ Boat!Max({0, 0}) = 0 /\ Boat!Min({0, 0}) = 0
  <2>1. Boat!Max({0, 0}) \in {0, 0}
    BY SeaMax
  <2>2. Boat!Min({0, 0}) \in {0, 0}
    BY SeaMin, {0, 0} \in SUBSET Nat, {0, 0} # {}
  <2> QED BY <2>1, <2>2
<1>4. Boat!Far(c, c) = 0
  BY <1>2, <1>3 DEF Boat!Far
<1> QED BY <1>4 DEF Boat!Adjacent

LEMMA MoveCosts ==
  ASSUME NEW c \in Boat!Cells, NEW d \in Boat!Around(c)
  PROVE  /\ d \in Boat!Cells /\ d # c /\ c \in Boat!Around(d)
         /\ Boat!Cost(c, d) \in 1..9 /\ Boat!Cost(d, c) \in 1..9
<1>1. d \in Boat!Cells /\ Boat!Far(c, d) \in {2, 3} /\ {c, d} \notin walls
  BY DEF Boat!Around, Boat!Adjacent
<1>2. Boat!Far(d, c) \in {2, 3} /\ {d, c} \notin walls
  BY <1>1, FarBoth
<1>3. d # c
  BY CellItself DEF Boat!Around
<1> QED BY <1>1, <1>2, <1>3 DEF Boat!Cost, Boat!Around, Boat!Adjacent

-----------------------------------------------------------------------------
(* The reference of the search: least costs of at most so many moves.      *)
Outset == [c \in Boat!Cells |-> IF c = Boat!Source THEN 0 ELSE Boat!Unknown]
Rounds(f, n) == f = [i \in 0..n |-> IF i = 0 THEN Outset ELSE Boat!Relaxed(f[i - 1])]
LeastCosts == CHOOSE f : Rounds(f, Size)

LEMMA RoundsGrow == ASSUME NEW n \in Nat, NEW f, Rounds(f, n) PROVE \E g : Rounds(g, n + 1)
<1> DEFINE g == [i \in 0..(n + 1) |-> IF i <= n THEN f[i] ELSE Boat!Relaxed(f[n])]
<1>1. ASSUME NEW i \in 0..(n + 1) PROVE g[i] = IF i = 0 THEN Outset ELSE Boat!Relaxed(g[i - 1])
  <2>1. CASE i \in 0..n
    <3>1. f[i] = IF i = 0 THEN Outset ELSE Boat!Relaxed(f[i - 1])
      BY <2>1 DEF Rounds
    <3>2. g[i] = f[i] /\ (i # 0 => i - 1 \in 0..(n + 1) /\ g[i - 1] = f[i - 1])
      BY <2>1
    <3> QED BY <3>1, <3>2
  <2>2. CASE i = n + 1
    <3>1. n \in 0..(n + 1) /\ g[n] = f[n] /\ i - 1 = n /\ i # 0 /\ g[i] = Boat!Relaxed(f[n])
      BY <2>2
    <3> QED BY <2>2, <3>1
  <2> QED BY <2>1, <2>2
<1>2. g = [i \in 0..(n + 1) |-> IF i = 0 THEN Outset ELSE Boat!Relaxed(g[i - 1])]
  <2>1. g = [i \in 0..(n + 1) |-> g[i]]
    OBVIOUS
  <2> HIDE DEF g
  <2> QED BY <1>1, <2>1
<1> QED BY <1>2 DEF Rounds

LEMMA RoundsExist == Rounds(LeastCosts, Size)
<1> DEFINE P == {n \in 0..Size : \E f : Rounds(f, n)}
<1>1. 0 \in P
  <2>1. Rounds([i \in 0..0 |-> Outset], 0)
    BY DEF Rounds
  <2> QED BY <2>1, SeaNumbers
<1>2. ASSUME NEW i \in 0..Size, i # 0, i - 1 \in P PROVE i \in P
  <2>1. i - 1 \in Nat /\ (i - 1) + 1 = i
    BY <1>2, SeaNumbers
  <2>2. PICK f : Rounds(f, i - 1)
    BY <1>2
  <2>3. \E g : Rounds(g, (i - 1) + 1)
    BY <2>1, <2>2, RoundsGrow
  <2> QED BY <2>1, <2>3
<1>3. Size \in P
  <2> HIDE DEF P
  <2>1. Size \in Nat /\ Size \in 0..Size
    BY SeaNumbers
  <2>2. \A i \in 0..Size : i # 0 /\ i - 1 \in P => i \in P
    BY <1>2
  <2> QED BY <1>1, <2>1, <2>2, Stepwise
<1> QED BY <1>3 DEF LeastCosts

LEMMA ShortestIs == Boat!Shortest = LeastCosts[Size]
BY DEF Boat!Shortest, LeastCosts, Rounds, Size, Outset

LEMMA RoundsTyped ==
  ASSUME NEW n \in 0..Size
  PROVE  LeastCosts[n] \in [Boat!Cells -> Nat] /\ \A c \in Boat!Cells : LeastCosts[n][c] <= Boat!Unknown
<1> DEFINE P == {i \in 0..Size : /\ LeastCosts[i] \in [Boat!Cells -> Nat]
                                 /\ \A c \in Boat!Cells : LeastCosts[i][c] <= Boat!Unknown}
<1>1. \A i \in 0..Size : LeastCosts[i] = IF i = 0 THEN Outset ELSE Boat!Relaxed(LeastCosts[i - 1])
  BY RoundsExist DEF Rounds
<1>2. 0 \in P
  <2>1. 0 \in 0..Size /\ Boat!Unknown \in Nat
    BY SeaNumbers
  <2>2. LeastCosts[0] = Outset
    BY <1>1, <2>1
  <2>3. Outset \in [Boat!Cells -> Nat] /\ \A c \in Boat!Cells : Outset[c] <= Boat!Unknown
    BY <2>1 DEF Outset
  <2> QED BY <2>1, <2>2, <2>3
<1>3. ASSUME NEW i \in 0..Size, i # 0, i - 1 \in P PROVE i \in P
  <2> DEFINE was == LeastCosts[i - 1]
             Near(c) == {was[c]} \cup {was[b] + Boat!Cost(b, c) : b \in Boat!Around(c)}
  <2>1. was \in [Boat!Cells -> Nat] /\ \A c \in Boat!Cells : was[c] <= Boat!Unknown
    BY <1>3
  <2>2. LeastCosts[i] = [c \in Boat!Cells |-> Boat!Min(Near(c))]
    BY <1>1, <1>3 DEF Boat!Relaxed
  <2> HIDE DEF was
  <2>3. ASSUME NEW c \in Boat!Cells PROVE Boat!Min(Near(c)) \in Nat /\ Boat!Min(Near(c)) <= was[c]
    <3>1. \A b \in Boat!Around(c) : was[b] \in Nat /\ Boat!Cost(b, c) \in 1..9
      BY <2>1, MoveCosts
    <3>2. Near(c) \in SUBSET Nat /\ was[c] \in Near(c)
      BY <2>1, <3>1
    <3> HIDE DEF Near
    <3> QED BY <3>2, SeaMin
  <2> HIDE DEF Near
  <2> QED BY <2>1, <2>2, <2>3, SeaNumbers
<1>4. \A i \in 0..Size : i \in P
  <2> HIDE DEF P
  <2> QED BY <1>2, <1>3, SeaNumbers, Stepwise
<1> QED BY <1>4

LEMMA RoundsNext ==
  ASSUME NEW n \in 0..Size, n # 0, NEW c \in Boat!Cells
  PROVE  /\ LeastCosts[n][c] <= LeastCosts[n - 1][c]
         /\ \A b \in Boat!Around(c) : LeastCosts[n][c] <= LeastCosts[n - 1][b] + Boat!Cost(b, c)
         /\ \/ LeastCosts[n][c] = LeastCosts[n - 1][c]
            \/ \E b \in Boat!Around(c) : LeastCosts[n][c] = LeastCosts[n - 1][b] + Boat!Cost(b, c)
<1> DEFINE was == LeastCosts[n - 1]
           Near == {was[c]} \cup {was[b] + Boat!Cost(b, c) : b \in Boat!Around(c)}
<1>1. LeastCosts[n] = Boat!Relaxed(was)
  BY RoundsExist DEF Rounds
<1>2. was \in [Boat!Cells -> Nat]
  <2>1. n - 1 \in 0..Size
    BY SeaNumbers
  <2> QED BY <2>1, RoundsTyped
<1> HIDE DEF was
<1>3. LeastCosts[n][c] = Boat!Min(Near)
  BY <1>1 DEF Boat!Relaxed
<1>4. \A b \in Boat!Around(c) : was[b] \in Nat /\ Boat!Cost(b, c) \in 1..9
  BY <1>2, MoveCosts
<1>5. Near \in SUBSET Nat /\ Near # {}
  BY <1>2, <1>4
<1>6. Boat!Min(Near) \in Near /\ \A x \in Near : Boat!Min(Near) <= x
  <2> HIDE DEF Near
  <2> QED BY <1>5, SeaMin
<1>7. LeastCosts[n][c] \in Near /\ \A x \in Near : LeastCosts[n][c] <= x
  BY <1>3, <1>6
<1> QED BY <1>7 DEF was

LEMMA RoundsFall ==
  ASSUME NEW n \in 0..Size, NEW c \in Boat!Cells
  PROVE  LeastCosts[Size][c] <= LeastCosts[n][c]
<1> DEFINE P == {i \in 0..Size : LeastCosts[Size][c] <= LeastCosts[Size - i][c]}
<1>1. 0 \in P
  BY SeaNumbers, RoundsTyped, Size \in 0..Size
<1>2. ASSUME NEW i \in 0..Size, i # 0, i - 1 \in P PROVE i \in P
  <2>1. Size - (i - 1) \in 0..Size /\ Size - (i - 1) # 0 /\ (Size - (i - 1)) - 1 = Size - i /\ Size - i \in 0..Size
    BY <1>2, SeaNumbers
  <2>2. LeastCosts[Size - (i - 1)][c] <= LeastCosts[(Size - (i - 1)) - 1][c]
    BY <2>1, RoundsNext
  <2>3. /\ LeastCosts[Size][c] \in Nat /\ LeastCosts[Size - i][c] \in Nat /\ LeastCosts[Size - (i - 1)][c] \in Nat
    BY <2>1, RoundsTyped, SeaNumbers, Size \in 0..Size
  <2> QED BY <1>2, <2>1, <2>2, <2>3
<1>3. \A i \in 0..Size : i \in P
  <2> HIDE DEF P
  <2> QED BY <1>1, <1>2, SeaNumbers, Stepwise
<1>4. Size - n \in 0..Size /\ Size - (Size - n) = n
  BY SeaNumbers
<1> QED BY <1>3, <1>4

-----------------------------------------------------------------------------
(* A cell is settled when it was reached and waits no more: then its cost  *)
(* is the least of all there is to come, and the cells around are reached  *)
(* through it or better.  What has been reached over so many settled cells *)
(* is not better than the reference after as many rounds.  The cell before *)
(* one is where its cost comes from.                                       *)
Settled == {c \in DOMAIN reached : <<reached[c], c>> \notin heap}

SearchTypes ==
  /\ UNION walls \subseteq Boat!Cells /\ near \subseteq Boat!Cells /\ left \subseteq Boat!Cells
  /\ berth \in [Boat!Ports -> Boat!Cells \cup {None}]
  /\ DOMAIN reached \subseteq Boat!Cells /\ reached \in [DOMAIN reached -> Nat]
  /\ Boat!Source \in DOMAIN reached /\ reached[Boat!Source] = 0
  /\ prev \in [DOMAIN reached \ {Boat!Source} -> DOMAIN reached]
  /\ \A e \in heap : e \in Nat \X DOMAIN reached /\ reached[e[2]] <= e[1]

LedTo(d) ==
  prev[d] \in Settled /\ d \in Boat!Around(prev[d]) /\ reached[d] = reached[prev[d]] + Boat!Cost(prev[d], d)

SearchInv ==
  /\ \A c \in Settled : \A e \in heap : reached[c] <= e[1]
  /\ \A c \in Settled : \A d \in Boat!Around(c) :
       d \in DOMAIN reached /\ reached[d] <= reached[c] + Boat!Cost(c, d)
  /\ \A c \in DOMAIN reached : /\ reached[c] <= 9 * Cardinality(Settled)
                               /\ LeastCosts[Cardinality(Settled)][c] <= reached[c]
  /\ \A p \in Boat!Ports : berth[p] # None => berth[p] \in left \cup Settled
  /\ \A d \in DOMAIN prev : LedTo(d)

LEMMA SettledNumber ==
  ASSUME SearchTypes
  PROVE  Settled \in SUBSET Boat!Cells /\ IsFiniteSet(Settled) /\ Cardinality(Settled) \in 0..Size
<1>1. Settled \in SUBSET Boat!Cells
  BY DEF Settled, SearchTypes
<1>2. IsFiniteSet(Settled) /\ Cardinality(Settled) <= Cardinality(Boat!Cells)
  BY <1>1, SeaNumbers, FS_Subset
<1>3. Cardinality(Settled) \in Nat
  BY <1>2, FS_CardinalityType
<1> QED BY <1>1, <1>2, <1>3, SeaNumbers

LEMMA CellsReached ==
  ASSUME SearchTypes
  PROVE  /\ \A c \in DOMAIN reached : c \in Boat!Cells /\ reached[c] \in Nat
         /\ \A c \in Settled : c \in DOMAIN reached
         /\ \A c \in DOMAIN reached \ Settled : <<reached[c], c>> \in heap
         /\ \A e \in heap : e[1] \in Nat /\ e[2] \in DOMAIN reached /\ e = <<e[1], e[2]>>
BY DEF SearchTypes, Settled

(* Whatever costs less than all that waits is settled at its least cost.   *)
LEMMA NothingBelow ==
  ASSUME SearchTypes, SearchInv, NEW f \in 0..Boat!Unknown,
         \A c \in DOMAIN reached \ Settled : f <= reached[c],
         NEW n \in 0..Size, NEW c \in Boat!Cells
  PROVE  f <= LeastCosts[n][c] \/ (c \in Settled /\ reached[c] <= LeastCosts[n][c])
<1> DEFINE NoBetter(i, d) == f <= LeastCosts[i][d] \/ (d \in Settled /\ reached[d] <= LeastCosts[i][d])
           P == {i \in 0..Size : \A d \in Boat!Cells : NoBetter(i, d)}
<1>1. 0 \in P
  <2>1. 0 \in 0..Size /\ LeastCosts[0] = Outset
    BY RoundsExist, SeaNumbers DEF Rounds
  <2>2. ASSUME NEW d \in Boat!Cells PROVE NoBetter(0, d)
    <3>1. CASE d = Boat!Source
      <4>1. LeastCosts[0][d] = 0 /\ d \in DOMAIN reached /\ reached[d] = 0
        BY <2>1, <3>1 DEF Outset, SearchTypes
      <4> QED BY <4>1
    <3>2. CASE d # Boat!Source
      <4>1. LeastCosts[0][d] = Boat!Unknown /\ Boat!Unknown \in Nat
        BY <2>1, <3>2, SeaNumbers DEF Outset
      <4> QED BY <4>1
    <3> QED BY <3>1, <3>2
  <2> QED BY <2>1, <2>2
<1>2. ASSUME NEW i \in 0..Size, i # 0, i - 1 \in P PROVE i \in P
  <2>1. i - 1 \in 0..Size /\ \A d \in Boat!Cells : NoBetter(i - 1, d)
    BY <1>2
  <2>2. /\ \A d \in Boat!Cells : LeastCosts[i][d] \in Nat /\ LeastCosts[i - 1][d] \in Nat
        /\ f \in Nat
    BY <2>1, RoundsTyped, SeaNumbers
  <2>3. ASSUME NEW d \in Boat!Cells PROVE NoBetter(i, d)
    <3>1. CASE LeastCosts[i][d] = LeastCosts[i - 1][d]
      BY <2>1, <3>1
    <3>2. ASSUME NEW b \in Boat!Around(d), LeastCosts[i][d] = LeastCosts[i - 1][b] + Boat!Cost(b, d)
          PROVE  NoBetter(i, d)
      <4>1. b \in Boat!Cells /\ d \in Boat!Around(b) /\ Boat!Cost(b, d) \in 1..9
        BY MoveCosts
      <4>2. CASE f <= LeastCosts[i - 1][b]
        <5>1. /\ LeastCosts[i - 1][b] \in Nat /\ Boat!Cost(b, d) \in Nat
              /\ LeastCosts[i][d] = LeastCosts[i - 1][b] + Boat!Cost(b, d)
          BY <2>2, <3>2, <4>1
        <5>2. f <= LeastCosts[i][d]
          BY <2>2, <4>2, <5>1
        <5> QED BY <5>2
      <4>3. CASE b \in Settled /\ reached[b] <= LeastCosts[i - 1][b]
        <5>1. d \in DOMAIN reached /\ reached[d] <= reached[b] + Boat!Cost(b, d)
          BY <4>1, <4>3 DEF SearchInv
        <5>2. reached[d] \in Nat /\ reached[b] \in Nat
          BY <4>3, <5>1, CellsReached
        <5>3. reached[d] <= LeastCosts[i][d]
          BY <2>2, <3>2, <4>1, <4>3, <5>1, <5>2
        <5> QED BY <2>2, <5>1, <5>2, <5>3
      <4> QED BY <2>1, <4>1, <4>2, <4>3
    <3> QED BY <1>2, <3>1, <3>2, RoundsNext
  <2> QED BY <2>3
<1>3. \A i \in 0..Size : i \in P
  <2> HIDE DEF P
  <2> QED BY <1>1, <1>2, SeaNumbers, Stepwise
<1> QED BY <1>3

LEMMA SettledLeast ==
  ASSUME SearchTypes, SearchInv, NEW c \in Settled
  PROVE  reached[c] = Boat!Shortest[c]
<1>1. /\ c \in DOMAIN reached /\ c \in Boat!Cells /\ reached[c] \in Nat
      /\ Cardinality(Settled) \in 0..Size /\ Size \in 0..Size
  BY CellsReached, SettledNumber, SeaNumbers
<1>2. LeastCosts[Size][c] \in Nat /\ LeastCosts[Cardinality(Settled)][c] \in Nat
  BY <1>1, RoundsTyped
<1>3. LeastCosts[Size][c] <= reached[c]
  <2>1. LeastCosts[Size][c] <= LeastCosts[Cardinality(Settled)][c]
    BY <1>1, RoundsFall
  <2>2. LeastCosts[Cardinality(Settled)][c] <= reached[c]
    BY <1>1 DEF SearchInv
  <2> QED BY <1>1, <1>2, <2>1, <2>2
<1>4. reached[c] <= LeastCosts[Size][c]
  <2> DEFINE f == reached[c]
  <2>1. f \in 0..Boat!Unknown
    <3>1. f <= 9 * Cardinality(Settled)
      BY <1>1 DEF SearchInv
    <3> QED BY <1>1, <3>1, SeaNumbers
  <2>2. \A d \in DOMAIN reached \ Settled : f <= reached[d]
    <3>1. ASSUME NEW d \in DOMAIN reached \ Settled PROVE f <= reached[d]
      <4>1. <<reached[d], d>> \in heap
        BY CellsReached
      <4>2. f <= <<reached[d], d>>[1]
        BY <4>1 DEF SearchInv
      <4> QED BY <4>2
    <3> QED BY <3>1
  <2>3. f <= LeastCosts[Size][c] \/ (c \in Settled /\ reached[c] <= LeastCosts[Size][c])
    <3> HIDE DEF f
    <3> QED BY <1>1, <2>1, <2>2, NothingBelow
  <2> QED BY <2>3
<1> QED BY <1>1, <1>2, <1>3, <1>4, ShortestIs

LEMMA UnreachedUnknown ==
  ASSUME SearchTypes, SearchInv, heap = {}, NEW c \in Boat!Cells \ DOMAIN reached
  PROVE  Boat!Shortest[c] = Boat!Unknown
<1> DEFINE f == Boat!Unknown
<1>1. f \in 0..Boat!Unknown /\ Size \in 0..Size
  BY SeaNumbers
<1>2. \A d \in DOMAIN reached \ Settled : f <= reached[d]
  BY DEF Settled
<1>3. f <= LeastCosts[Size][c] \/ (c \in Settled /\ reached[c] <= LeastCosts[Size][c])
  <2> HIDE DEF f
  <2> QED BY <1>1, <1>2, NothingBelow
<1>4. c \notin Settled
  BY CellsReached
<1>5. LeastCosts[Size][c] \in Nat /\ LeastCosts[Size][c] <= Boat!Unknown
  BY <1>1, RoundsTyped
<1> QED BY <1>1, <1>3, <1>4, <1>5, ShortestIs

-----------------------------------------------------------------------------
(* The steps of the search.  The map stays as it is.                       *)
LEMMA SeaStays ==
  ASSUME walls' = walls, near' = near
  PROVE  /\ \A c : (Boat!Around(c))' = Boat!Around(c)
         /\ \A c, d : (Boat!Cost(c, d))' = Boat!Cost(c, d)
         /\ LeastCosts' = LeastCosts /\ (Boat!Shortest)' = Boat!Shortest
<1>1. \A c : (Boat!Around(c))' = Boat!Around(c)
  BY DEF Boat!Around
<1>2. \A c, d : (Boat!Cost(c, d))' = Boat!Cost(c, d)
  BY DEF Boat!Cost
<1>3. LeastCosts' = LeastCosts
  BY DEF LeastCosts, Rounds, Boat!Relaxed, Boat!Cost, Boat!Around
<1>4. (Boat!Shortest)' = Boat!Shortest
  BY DEF Boat!Shortest, Boat!Relaxed, Boat!Cost, Boat!Around
<1> QED BY <1>1, <1>2, <1>3, <1>4

(* An entry that a better one has overtaken changes nothing.               *)
LEMMA PopStale ==
  ASSUME SearchTypes, SearchInv, NEW top \in heap, top[1] > reached[top[2]], heap' = heap \ {top},
         UNCHANGED <<walls, near, berth, reached, prev, left>>
  PROVE  SearchTypes' /\ SearchInv'
<1>1. \A e \in heap : e[1] \in Nat /\ e[2] \in DOMAIN reached /\ reached[e[2]] \in Nat /\ e = <<e[1], e[2]>>
  BY CellsReached
<1>2. Settled' = Settled
  <2>1. ASSUME NEW c \in DOMAIN reached, <<reached[c], c>> = top PROVE FALSE
    <3>1. top[1] = reached[c] /\ top[2] = c
      BY <2>1
    <3> QED BY <1>1, <3>1
  <2>2. \A c \in DOMAIN reached : <<reached[c], c>> \in heap' <=> <<reached[c], c>> \in heap
    BY <2>1
  <2> QED BY <2>2 DEF Settled
<1>3. SearchTypes'
  BY DEF SearchTypes, Boat!Ports, Boat!Range, Boat!Cells, Boat!Source
<1>4. SearchInv'
  <2>1. /\ \A c : (Boat!Around(c))' = Boat!Around(c)
        /\ \A c, d : (Boat!Cost(c, d))' = Boat!Cost(c, d)
        /\ LeastCosts' = LeastCosts
    BY SeaStays
  <2>2. (Boat!Ports)' = Boat!Ports /\ \A d : LedTo(d)' <=> LedTo(d)
    BY <1>2, <2>1 DEF Boat!Ports, LedTo
  <2> QED BY <1>2, <2>1, <2>2 DEF SearchInv
<1> QED BY <1>3, <1>4

(* The nearest cell that waits is settled, and the cells around it are     *)
(* reached through it where that is shorter.                               *)
LEMMA PopFresh ==
  ASSUME SearchTypes, SearchInv, NEW top \in heap, NEW c, NEW better,
         c = top[2], ~ (top[1] > reached[c]), \A e \in heap : e[1] >= top[1],
         better = {d \in Boat!Around(c) : Boat!Shorter(c, d)},
         left' = left \ {c},
         reached' = [d \in DOMAIN reached \cup better |->
                       IF d \in better THEN reached[c] + Boat!Cost(c, d) ELSE reached[d]],
         prev' = [d \in DOMAIN prev \cup better |-> IF d \in better THEN c ELSE prev[d]],
         heap' = (heap \ {top}) \cup {<<reached[c] + Boat!Cost(c, d), d>> : d \in better},
         UNCHANGED <<walls, near, berth>>
  PROVE  SearchTypes' /\ SearchInv'
<1>1. /\ top[1] \in Nat /\ c \in DOMAIN reached /\ c \in Boat!Cells /\ reached[c] \in Nat
      /\ top[1] = reached[c] /\ top = <<reached[c], c>> /\ c \notin Settled
  <2>1. top[1] \in Nat /\ c \in DOMAIN reached /\ c \in Boat!Cells /\ reached[c] \in Nat /\ top = <<top[1], c>>
    BY CellsReached
  <2>2. reached[c] <= top[1]
    BY DEF SearchTypes
  <2>3. top[1] = reached[c]
    BY <2>1, <2>2
  <2> QED BY <2>1, <2>3 DEF Settled
<1>2. \A e \in heap : e[1] \in Nat /\ e[2] \in DOMAIN reached /\ e = <<e[1], e[2]>> /\ reached[c] <= e[1]
  BY <1>1, CellsReached
<1>3. \A b \in Settled : b \in DOMAIN reached /\ reached[b] \in Nat /\ reached[b] <= reached[c]
  BY <1>1, CellsReached DEF SearchInv
<1>4. ASSUME NEW d \in better
      PROVE  /\ d \in Boat!Cells /\ d # c /\ d \notin Settled /\ d # Boat!Source /\ d \in Boat!Around(c)
             /\ c \in Boat!Around(d) /\ Boat!Cost(c, d) \in 1..9
             /\ d \in DOMAIN reached => reached[c] + Boat!Cost(c, d) < reached[d]
  <2>1. d \in Boat!Around(c) /\ (d \in DOMAIN reached => reached[c] + Boat!Cost(c, d) < reached[d])
    BY DEF Boat!Shorter
  <2>2. d \in Boat!Cells /\ d # c /\ c \in Boat!Around(d) /\ Boat!Cost(c, d) \in 1..9
    BY <1>1, <2>1, MoveCosts
  <2>3. d \notin Settled
    BY <1>1, <1>3, <2>1, <2>2
  <2>4. d # Boat!Source
    <3>1. Boat!Source \in DOMAIN reached /\ reached[Boat!Source] = 0
      BY DEF SearchTypes
    <3> QED BY <1>1, <2>1, <2>2, <3>1
  <2> QED BY <2>1, <2>2, <2>3, <2>4
<1>5. DOMAIN reached' = DOMAIN reached \cup better
  OBVIOUS
<1>6. \A d \in better : reached'[d] = reached[c] + Boat!Cost(c, d) /\ reached'[d] \in Nat
  BY <1>1, <1>4
<1>7. \A d \in DOMAIN reached \ better : reached'[d] = reached[d]
  OBVIOUS
<1>8. \A d \in DOMAIN reached : reached'[d] \in Nat /\ reached[d] \in Nat /\ reached'[d] <= reached[d]
  <2>1. ASSUME NEW d \in DOMAIN reached PROVE reached'[d] \in Nat /\ reached[d] \in Nat /\ reached'[d] <= reached[d]
    <3>1. reached[d] \in Nat
      BY CellsReached
    <3>2. CASE d \in better
      BY <1>1, <1>4, <1>6, <3>1, <3>2
    <3>3. CASE d \notin better
      BY <1>7, <3>1, <3>3
    <3> QED BY <3>2, <3>3
  <2> QED BY <2>1
<1>9. Settled' = Settled \cup {c}
  <2>1. ASSUME NEW d \in DOMAIN reached' PROVE <<reached'[d], d>> \in heap' <=> d \notin Settled \cup {c}
    <3>1. CASE d \in better
      BY <1>4, <1>6, <3>1
    <3>2. CASE d \notin better
      <4>1. d \in DOMAIN reached /\ reached'[d] = reached[d]
        BY <1>5, <1>7, <3>2
      <4>2. <<reached[d], d>> \in heap' <=> <<reached[d], d>> \in heap /\ d # c
        BY <1>1, <3>2
      <4> QED BY <1>1, <4>1, <4>2 DEF Settled
    <3> QED BY <3>1, <3>2
  <2>2. Settled \cup {c} \subseteq DOMAIN reached'
    BY <1>1, <1>3, <1>5
  <2>3. Settled' = {d \in DOMAIN reached' : <<reached'[d], d>> \notin heap'}
    BY DEF Settled
  <2> QED BY <2>1, <2>2, <2>3
<1>10. SearchTypes'
  <2>1. /\ UNION walls' \subseteq Boat!Cells /\ near' \subseteq Boat!Cells /\ left' \subseteq Boat!Cells
        /\ berth' \in [Boat!Ports -> Boat!Cells \cup {None}]
    BY DEF SearchTypes
  <2>2. DOMAIN reached' \subseteq Boat!Cells /\ reached' \in [DOMAIN reached' -> Nat]
    <3>1. DOMAIN reached' \subseteq Boat!Cells
      BY <1>4, <1>5, CellsReached
    <3>2. \A d \in DOMAIN reached' : reached'[d] \in Nat
      BY <1>5, <1>6, <1>8
    <3>3. reached' = [d \in DOMAIN reached' |-> reached'[d]]
      OBVIOUS
    <3> QED BY <3>1, <3>2, <3>3
  <2>3. Boat!Source \in DOMAIN reached' /\ reached'[Boat!Source] = 0
    <3>1. Boat!Source \in DOMAIN reached /\ reached[Boat!Source] = 0 /\ Boat!Source \notin better
      BY <1>4 DEF SearchTypes
    <3> QED BY <1>5, <1>7, <3>1
  <2>4. prev' \in [DOMAIN reached' \ {Boat!Source} -> DOMAIN reached']
    <3>1. prev \in [DOMAIN reached \ {Boat!Source} -> DOMAIN reached]
      BY DEF SearchTypes
    <3>2. DOMAIN prev \cup better = DOMAIN reached' \ {Boat!Source}
      BY <1>4, <1>5, <3>1
    <3>3. \A d \in DOMAIN prev \cup better : prev'[d] \in DOMAIN reached'
      BY <1>1, <1>5, <3>1
    <3>4. prev' = [d \in DOMAIN prev \cup better |-> prev'[d]]
      OBVIOUS
    <3> QED BY <3>2, <3>3, <3>4
  <2>5. ASSUME NEW e \in heap' PROVE e \in Nat \X DOMAIN reached' /\ reached'[e[2]] <= e[1]
    <3>1. CASE e \in heap
      <4>1. e \in Nat \X DOMAIN reached /\ reached[e[2]] <= e[1]
        BY <3>1 DEF SearchTypes
      <4>2. e[1] \in Nat /\ e[2] \in DOMAIN reached /\ reached'[e[2]] <= reached[e[2]]
        BY <1>8, <4>1
      <4>3. e \in Nat \X DOMAIN reached'
        BY <1>5, <4>1
      <4> QED BY <1>8, <4>1, <4>2, <4>3
    <3>2. CASE e \notin heap
      <4>1. PICK d \in better : e = <<reached[c] + Boat!Cost(c, d), d>>
        BY <3>2
      <4>2. e[1] = reached'[d] /\ e[2] = d /\ reached'[d] \in Nat /\ d \in DOMAIN reached'
        BY <1>5, <1>6, <4>1
      <4> QED BY <1>6, <4>1, <4>2
    <3> QED BY <3>1, <3>2
  <2> QED BY <2>1, <2>2, <2>3, <2>4, <2>5 DEF SearchTypes, Boat!Ports, Boat!Cells, Boat!Source
<1>11. /\ \A b : (Boat!Around(b))' = Boat!Around(b)
       /\ \A b, d : (Boat!Cost(b, d))' = Boat!Cost(b, d)
       /\ LeastCosts' = LeastCosts /\ (Boat!Ports)' = Boat!Ports
  BY SeaStays DEF Boat!Ports
<1>12. /\ Cardinality(Settled) \in 0..(Size - 1) /\ Cardinality(Settled') = Cardinality(Settled) + 1
       /\ Cardinality(Settled') \in 0..Size
  <2>1. IsFiniteSet(Settled) /\ Settled \in SUBSET Boat!Cells /\ Cardinality(Settled) \in 0..Size
    BY SettledNumber
  <2>2. Cardinality(Settled \cup {c}) = Cardinality(Settled) + 1
    BY <1>1, <2>1, FS_AddElement
  <2>3. Cardinality(Settled \cup {c}) <= Size
    <3>1. Settled \cup {c} \in SUBSET Boat!Cells
      BY <1>1, <2>1
    <3> QED BY <3>1, SeaNumbers, FS_Subset
  <2> QED BY <1>9, <2>1, <2>2, <2>3, SeaNumbers
<1>13. ASSUME NEW b \in Settled', NEW e \in heap' PROVE reached'[b] <= e[1]
  <2>1. b \in DOMAIN reached /\ b \notin better /\ reached'[b] = reached[b] /\ reached[b] \in Nat /\ reached[b] <= reached[c]
    BY <1>1, <1>3, <1>4, <1>7, <1>9
  <2>2. reached[c] <= e[1] /\ e[1] \in Nat
    <3>1. CASE e \in heap
      BY <1>2, <3>1
    <3>2. CASE e \notin heap
      <4>1. PICK d \in better : e = <<reached[c] + Boat!Cost(c, d), d>>
        BY <3>2
      <4> QED BY <1>1, <1>4, <4>1
    <3> QED BY <3>1, <3>2
  <2> QED BY <1>1, <2>1, <2>2
<1>14. ASSUME NEW b \in Settled', NEW d \in Boat!Around(b)
       PROVE  d \in DOMAIN reached' /\ reached'[d] <= reached'[b] + Boat!Cost(b, d)
  <2>1. /\ b \in Boat!Cells /\ reached'[b] = reached[b] /\ reached[b] \in Nat /\ b \in DOMAIN reached
        /\ d \in Boat!Cells /\ Boat!Cost(b, d) \in 1..9
    <3>1. b \in DOMAIN reached /\ b \notin better
      BY <1>1, <1>3, <1>4, <1>9
    <3>2. b \in Boat!Cells /\ reached[b] \in Nat /\ reached'[b] = reached[b]
      BY <1>7, <3>1, CellsReached
    <3> QED BY <3>1, <3>2, MoveCosts
  <2>2. CASE b \in Settled
    <3>1. d \in DOMAIN reached /\ reached[d] <= reached[b] + Boat!Cost(b, d)
      BY <2>2 DEF SearchInv
    <3> QED BY <1>5, <1>8, <2>1, <3>1
  <2>3. CASE b = c /\ d \in better
    BY <1>5, <1>6, <2>1, <2>3
  <2>4. CASE b = c /\ d \notin better
    <3>1. d \in DOMAIN reached /\ ~ (reached[c] + Boat!Cost(c, d) < reached[d])
      BY <2>4 DEF Boat!Shorter
    <3> QED BY <1>5, <1>7, <1>8, <2>1, <2>4, <3>1
  <2> QED BY <1>9, <2>2, <2>3, <2>4
<1>15. ASSUME NEW d \in DOMAIN reached'
       PROVE  /\ reached'[d] <= 9 * Cardinality(Settled')
              /\ LeastCosts[Cardinality(Settled')][d] <= reached'[d]
  <2> DEFINE k == Cardinality(Settled)
  <2>1. k \in 0..(Size - 1) /\ k \in Nat /\ Cardinality(Settled') = k + 1 /\ k + 1 \in 0..Size /\ k + 1 # 0 /\ (k + 1) - 1 = k
    BY <1>12, SeaNumbers
  <2>2. d \in Boat!Cells /\ \A b \in Boat!Cells : LeastCosts[k][b] \in Nat /\ LeastCosts[k + 1][b] \in Nat
    <3>1. d \in Boat!Cells
      BY <1>4, <1>5, CellsReached
    <3>2. \A n \in 0..Size : LeastCosts[n] \in [Boat!Cells -> Nat]
      BY RoundsTyped
    <3>3. k \in 0..Size
      BY <2>1, SeaNumbers
    <3> HIDE DEF k
    <3> QED BY <2>1, <3>1, <3>2, <3>3
  <2>3. /\ LeastCosts[k + 1][d] <= LeastCosts[k][d]
        /\ \A b \in Boat!Around(d) : LeastCosts[k + 1][d] <= LeastCosts[k][b] + Boat!Cost(b, d)
    <3>1. \A n \in 0..Size : n # 0 =>
            /\ LeastCosts[n][d] <= LeastCosts[n - 1][d]
            /\ \A b \in Boat!Around(d) : LeastCosts[n][d] <= LeastCosts[n - 1][b] + Boat!Cost(b, d)
      BY <2>2, RoundsNext
    <3> HIDE DEF k
    <3> QED BY <2>1, <3>1
  <2>4. \A b \in DOMAIN reached : reached[b] <= 9 * k /\ LeastCosts[k][b] <= reached[b]
    BY DEF SearchInv
  <2> HIDE DEF k
  <2>5. CASE d \in better
    <3>1. reached'[d] = reached[c] + Boat!Cost(c, d) /\ Boat!Cost(c, d) \in 1..9 /\ c \in Boat!Around(d)
      BY <1>4, <1>6, <2>5
    <3>2. reached[c] <= 9 * k /\ LeastCosts[k][c] <= reached[c] /\ LeastCosts[k][c] \in Nat
      BY <1>1, <2>2, <2>4
    <3>3. LeastCosts[k + 1][d] <= LeastCosts[k][c] + Boat!Cost(c, d)
      BY <2>3, <3>1
    <3>4. reached'[d] <= 9 * (k + 1)
      BY <1>1, <2>1, <3>1, <3>2
    <3>5. LeastCosts[k + 1][d] <= reached'[d]
      BY <1>1, <2>2, <3>1, <3>2, <3>3
    <3> QED BY <2>1, <3>4, <3>5
  <2>6. CASE d \notin better
    <3>1. d \in DOMAIN reached /\ reached'[d] = reached[d] /\ reached[d] \in Nat
      BY <1>5, <1>7, <1>8, <2>6
    <3>2. reached[d] <= 9 * k /\ LeastCosts[k][d] <= reached[d]
      BY <2>4, <3>1
    <3> QED BY <2>1, <2>2, <2>3, <3>1, <3>2
  <2> QED BY <2>5, <2>6
<1>16. ASSUME NEW p \in Boat!Ports, berth[p] # None PROVE berth[p] \in left' \cup Settled'
  BY <1>9, <1>16 DEF SearchInv
<1>17. ASSUME NEW d \in DOMAIN prev' PROVE LedTo(d)'
  <2>1. CASE d \in better
    <3>1. prev'[d] = c /\ reached'[c] = reached[c] /\ reached'[d] = reached[c] + Boat!Cost(c, d)
      BY <1>1, <1>4, <1>6, <1>7, <2>1
    <3>2. d \in Boat!Around(c) /\ c \in Settled'
      BY <1>4, <1>9, <2>1
    <3> QED BY <1>11, <3>1, <3>2 DEF LedTo
  <2>2. CASE d \notin better
    <3>1. d \in DOMAIN prev /\ prev'[d] = prev[d] /\ d \in DOMAIN reached
      BY <2>2 DEF SearchTypes
    <3>2. LedTo(d)
      BY <3>1 DEF SearchInv
    <3>3. prev[d] \in DOMAIN reached /\ prev[d] \notin better /\ prev[d] \in Settled'
      BY <1>3, <1>4, <1>9, <3>2 DEF LedTo
    <3>4. reached'[d] = reached[d] /\ reached'[prev[d]] = reached[prev[d]]
      BY <1>7, <2>2, <3>1, <3>3
    <3> QED BY <1>11, <3>1, <3>2, <3>3, <3>4 DEF LedTo
  <2> QED BY <2>1, <2>2
<1>18. SearchInv'
  BY <1>11, <1>13, <1>14, <1>15, <1>16, <1>17 DEF SearchInv
<1> QED BY <1>10, <1>18

-----------------------------------------------------------------------------
(* The line to a berth, back along the cells before.                       *)
Backward(f, c, n) == f = [i \in 0..n |-> IF i = 0 THEN <<c>> ELSE Boat!Back(f[i - 1])]

LEMMA BackwardGrows ==
  ASSUME NEW n \in Nat, NEW c, NEW f, Backward(f, c, n) PROVE \E g : Backward(g, c, n + 1)
<1> DEFINE g == [i \in 0..(n + 1) |-> IF i <= n THEN f[i] ELSE Boat!Back(f[n])]
<1>1. ASSUME NEW i \in 0..(n + 1) PROVE g[i] = IF i = 0 THEN <<c>> ELSE Boat!Back(g[i - 1])
  <2>1. CASE i \in 0..n
    <3>1. f[i] = IF i = 0 THEN <<c>> ELSE Boat!Back(f[i - 1])
      BY <2>1 DEF Backward
    <3>2. g[i] = f[i] /\ (i # 0 => i - 1 \in 0..(n + 1) /\ g[i - 1] = f[i - 1])
      BY <2>1
    <3> QED BY <3>1, <3>2
  <2>2. CASE i = n + 1
    <3>1. n \in 0..(n + 1) /\ g[n] = f[n] /\ i - 1 = n /\ i # 0 /\ g[i] = Boat!Back(f[n])
      BY <2>2
    <3> QED BY <2>2, <3>1
  <2> QED BY <2>1, <2>2
<1>2. g = [i \in 0..(n + 1) |-> IF i = 0 THEN <<c>> ELSE Boat!Back(g[i - 1])]
  <2>1. g = [i \in 0..(n + 1) |-> g[i]]
    OBVIOUS
  <2> HIDE DEF g
  <2> QED BY <1>1, <2>1
<1> QED BY <1>2 DEF Backward

(* Cells that each come before the next.                                   *)
Chain(way) ==
  /\ way \in Seq(DOMAIN reached) /\ way # <<>>
  /\ \A n \in 1..(Len(way) - 1) : way[n + 1] \in DOMAIN prev /\ prev[way[n + 1]] = way[n]

LEMMA ChainCells ==
  ASSUME NEW way, Chain(way)
  PROVE  Len(way) \in Nat \ {0} /\ (\A n \in 1..Len(way) : way[n] \in DOMAIN reached) /\ Head(way) = way[1]
<1>1. way \in Seq(DOMAIN reached) /\ way # <<>>
  BY DEF Chain
<1>2. Len(way) \in Nat /\ Len(way) # 0 /\ \A n \in 1..Len(way) : way[n] \in DOMAIN reached
  BY <1>1, LenProperties, EmptySeq, ElementOfSeq
<1> QED BY <1>1, <1>2

LEMMA ChainGrows ==
  ASSUME SearchTypes, NEW way, Chain(way), way[1] # Boat!Source
  PROVE  LET more == <<prev[way[1]]>> \o way
         IN  Chain(more) /\ Len(more) = Len(way) + 1 /\ more[Len(more)] = way[Len(way)]
<1> DEFINE D == DOMAIN reached
           b == prev[way[1]]
           more == <<b>> \o way
<1>1. Len(way) \in Nat \ {0} /\ way[1] \in D /\ way \in Seq(D)
  BY ChainCells DEF Chain
<1>2. b \in D /\ way[1] \in DOMAIN prev
  BY <1>1 DEF SearchTypes
<1>3. <<b>> \in Seq(D) /\ Len(<<b>>) = 1 /\ <<b>>[1] = b
  BY <1>2
<1> HIDE DEF b, D
<1>4. /\ more \in Seq(D) /\ Len(more) = 1 + Len(way)
      /\ \A i \in 1..(1 + Len(way)) : more[i] = IF i <= 1 THEN <<b>>[i] ELSE way[i - 1]
  BY <1>1, <1>3, ConcatProperties
<1>5. more[1] = b /\ \A i \in 1..Len(way) : more[i + 1] = way[i]
  BY <1>1, <1>3, <1>4
<1> HIDE DEF more
<1>6. ASSUME NEW n \in 1..(Len(more) - 1) PROVE more[n + 1] \in DOMAIN prev /\ prev[more[n + 1]] = more[n]
  <2>1. n \in 1..Len(way) /\ more[n + 1] = way[n]
    BY <1>1, <1>4, <1>5
  <2>2. CASE n = 1
    BY <1>2, <1>5, <2>1, <2>2 DEF b
  <2>3. CASE n # 1
    <3>1. n - 1 \in 1..(Len(way) - 1) /\ (n - 1) + 1 = n /\ n - 1 \in 1..Len(way)
      BY <1>1, <2>1, <2>3
    <3>2. way[(n - 1) + 1] \in DOMAIN prev /\ prev[way[(n - 1) + 1]] = way[n - 1]
      BY <3>1 DEF Chain
    <3>3. more[(n - 1) + 1] = way[n - 1]
      BY <1>5, <3>1
    <3> QED BY <2>1, <3>1, <3>2, <3>3
  <2> QED BY <2>2, <2>3
<1>7. more # <<>> /\ Len(more) = Len(way) + 1 /\ more[Len(more)] = way[Len(way)]
  BY <1>1, <1>4, <1>5
<1>8. Chain(more)
  BY <1>4, <1>6, <1>7 DEF Chain, D
<1> QED BY <1>7, <1>8 DEF more, b

(* Along a chain the costs grow, so that it has no cell twice.             *)
LEMMA ChainShort ==
  ASSUME SearchTypes, SearchInv, NEW way, Chain(way)
  PROVE  Len(way) <= Size
<1> DEFINE D == DOMAIN reached
<1>1. Len(way) \in Nat \ {0} /\ \A n \in 1..Len(way) : way[n] \in D /\ way[n] \in Boat!Cells /\ reached[way[n]] \in Nat
  BY ChainCells, CellsReached
<1>2. ASSUME NEW n \in 1..(Len(way) - 1) PROVE reached[way[n]] < reached[way[n + 1]]
  <2>1. way[n + 1] \in DOMAIN prev /\ prev[way[n + 1]] = way[n]
    BY DEF Chain
  <2>2. LedTo(way[n + 1])
    BY <2>1 DEF SearchInv
  <2>3. way[n + 1] \in Boat!Around(way[n]) /\ reached[way[n + 1]] = reached[way[n]] + Boat!Cost(way[n], way[n + 1])
    BY <2>1, <2>2 DEF LedTo
  <2>4. n \in 1..Len(way) /\ n + 1 \in 1..Len(way)
    BY <1>1
  <2>5. Boat!Cost(way[n], way[n + 1]) \in 1..9
    BY <1>1, <2>3, <2>4, MoveCosts
  <2> QED BY <1>1, <2>3, <2>4, <2>5
<1>3. ASSUME NEW m \in 1..Len(way), NEW k \in 1..Len(way), m < k PROVE reached[way[m]] < reached[way[k]]
  <2> DEFINE P == {i \in 0..Len(way) : i > m => reached[way[m]] < reached[way[i]]}
  <2>1. 0 \in P
    BY <1>1
  <2>2. ASSUME NEW i \in 0..Len(way), i # 0, i - 1 \in P PROVE i \in P
    <3>1. CASE ~ (i > m)
      BY <3>1
    <3>2. CASE i > m
      <4>1. i - 1 \in 1..(Len(way) - 1) /\ (i - 1) + 1 = i /\ i \in 1..Len(way) /\ i - 1 \in 1..Len(way) /\ m \in 1..Len(way)
        BY <1>1, <2>2, <3>2
      <4>2. reached[way[i - 1]] < reached[way[i]]
        BY <1>2, <4>1
      <4>3. i - 1 = m \/ reached[way[m]] < reached[way[i - 1]]
        BY <2>2, <3>2, <4>1
      <4>4. reached[way[m]] \in Nat /\ reached[way[i]] \in Nat /\ reached[way[i - 1]] \in Nat
        BY <1>1, <4>1
      <4>5. reached[way[m]] < reached[way[i]]
        BY <4>2, <4>3, <4>4
      <4> QED BY <4>5
    <3> QED BY <3>1, <3>2
  <2>3. \A i \in 0..Len(way) : i \in P
    <3> HIDE DEF P
    <3> QED BY <1>1, <2>1, <2>2, Stepwise
  <2>4. k \in P
    <3> HIDE DEF P
    <3> QED BY <1>1, <2>3
  <2> QED BY <1>3, <2>4
<1>4. ASSUME NEW m \in 1..Len(way), NEW k \in 1..Len(way), way[m] = way[k] PROVE m = k
  <2>1. m \in Nat /\ k \in Nat /\ reached[way[m]] \in Nat
    BY <1>1
  <2>2. ~ (m < k)
    BY <1>3, <1>4, <2>1
  <2>3. ~ (k < m)
    BY <1>3, <1>4, <2>1
  <2> QED BY <2>1, <2>2, <2>3
<1>5. way \in [1..Len(way) -> Boat!Cells]
  <2>1. way \in [1..Len(way) -> D]
    BY LenProperties DEF Chain
  <2> QED BY <1>1, <2>1
<1>6. way \in Injection(1..Len(way), Boat!Cells)
  BY <1>4, <1>5 DEF Injection, IsInjective
<1>7. Cardinality(1..Len(way)) = Len(way)
  BY <1>1, FS_Interval
<1> QED BY <1>6, <1>7, SeaNumbers, FS_Injection

(* The cells from the boat's to one reached are moves whose costs add up.  *)
Moved(way) ==
  \A n \in 1..(Len(way) - 1) :
    way[n + 1] \in Boat!Around(way[n]) /\ reached[way[n + 1]] = reached[way[n]] + Boat!Cost(way[n], way[n + 1])

LEMMA CellsToCells ==
  ASSUME SearchTypes, SearchInv, NEW c \in DOMAIN reached
  PROVE  LET way == Boat!CellsTo(c)
         IN  /\ way \in Seq(Boat!Cells) /\ Len(way) \in Nat \ {0}
             /\ way[1] = Boat!Source /\ way[Len(way)] = c /\ Moved(way)
<1> DEFINE D == DOMAIN reached
           P == {n \in 0..Size : \E f : Backward(f, c, n)}
           ReadBack(way, n) == Chain(way) /\ way[Len(way)] = c /\ (way[1] = Boat!Source \/ Len(way) = n + 1)
           Q(f) == {n \in 0..Size : ReadBack(f[n], n)}
<1>1. \E f : Backward(f, c, Size)
  <2>1. 0 \in P
    <3>1. Backward([i \in 0..0 |-> <<c>>], c, 0)
      BY DEF Backward
    <3> QED BY <3>1, SeaNumbers
  <2>2. ASSUME NEW i \in 0..Size, i # 0, i - 1 \in P PROVE i \in P
    <3>1. i - 1 \in Nat /\ (i - 1) + 1 = i
      BY <2>2, SeaNumbers
    <3>2. PICK f : Backward(f, c, i - 1)
      BY <2>2
    <3>3. \E g : Backward(g, c, (i - 1) + 1)
      BY <3>1, <3>2, BackwardGrows
    <3> QED BY <3>1, <3>3
  <2>3. Size \in P
    <3> HIDE DEF P
    <3> QED BY <2>1, <2>2, SeaNumbers, Size \in 0..Size, Stepwise
  <2> QED BY <2>3
<1>2. PICK f : Backward(f, c, Size) /\ Boat!CellsTo(c) = f[Size]
  <2> DEFINE back == CHOOSE f : f = [i \in 0..Size |-> IF i = 0 THEN <<c>> ELSE Boat!Back(f[i - 1])]
  <2>1. back = [i \in 0..Size |-> IF i = 0 THEN <<c>> ELSE Boat!Back(back[i - 1])]
    BY <1>1 DEF Backward
  <2>2. Boat!CellsTo(c) = back[Size]
    BY DEF Boat!CellsTo, Size
  <2> HIDE DEF back
  <2> QED BY <2>1, <2>2 DEF Backward
<1>3. \A i \in 0..Size : f[i] = IF i = 0 THEN <<c>> ELSE Boat!Back(f[i - 1])
  BY <1>2 DEF Backward
<1>4. 0 \in Q(f)
  <2>1. f[0] = <<c>> /\ 0 \in 0..Size
    BY <1>3, SeaNumbers
  <2>2. <<c>> \in Seq(D) /\ <<c>> # <<>> /\ Len(<<c>>) = 1 /\ <<c>>[1] = c
    OBVIOUS
  <2>3. Chain(<<c>>)
    BY <2>2 DEF Chain
  <2>4. ReadBack(<<c>>, 0)
    BY <2>2, <2>3
  <2> HIDE DEF ReadBack
  <2> QED BY <2>1, <2>4
<1>5. ASSUME NEW i \in 0..Size, i # 0, i - 1 \in Q(f) PROVE i \in Q(f)
  <2> DEFINE way == f[i - 1]
  <2>1. /\ Chain(way) /\ way[Len(way)] = c /\ (way[1] = Boat!Source \/ Len(way) = (i - 1) + 1)
        /\ f[i] = Boat!Back(way)
    BY <1>3, <1>5
  <2>2. Len(way) \in Nat \ {0} /\ Head(way) = way[1]
    BY <2>1, ChainCells
  <2> HIDE DEF way
  <2>3. CASE way[1] = Boat!Source
    <3>1. f[i] = way
      BY <2>1, <2>2, <2>3 DEF Boat!Back
    <3> QED BY <2>1, <2>3, <3>1
  <2>4. CASE way[1] # Boat!Source
    <3> DEFINE more == <<prev[way[1]]>> \o way
    <3>1. f[i] = more
      BY <2>1, <2>2, <2>4 DEF Boat!Back
    <3>2. Chain(more) /\ Len(more) = Len(way) + 1 /\ more[Len(more)] = way[Len(way)]
      BY <2>1, <2>4, ChainGrows
    <3>3. Len(more) = i + 1
      BY <2>1, <2>2, <2>4, <3>2, SeaNumbers
    <3> HIDE DEF more
    <3> QED BY <2>1, <3>1, <3>2, <3>3
  <2> QED BY <2>3, <2>4
<1>6. Size \in Q(f)
  <2> DEFINE S == Q(f)
  <2>1. 0 \in S /\ \A i \in 0..Size : i # 0 /\ i - 1 \in S => i \in S
    BY <1>4, <1>5
  <2> HIDE DEF S
  <2>2. Size \in S
    BY <2>1, SeaNumbers, Size \in 0..Size, Stepwise
  <2> QED BY <2>2 DEF S
<1> DEFINE way == f[Size]
<1>7. Chain(way) /\ way[Len(way)] = c /\ (way[1] = Boat!Source \/ Len(way) = Size + 1)
  BY <1>6
<1> HIDE DEF way
<1>8. way[1] = Boat!Source
  BY <1>7, ChainShort, ChainCells, SeaNumbers
<1>9. way \in Seq(Boat!Cells) /\ Len(way) \in Nat \ {0}
  <2>1. D \subseteq Boat!Cells
    BY DEF SearchTypes
  <2>2. way \in Seq(D)
    BY <1>7 DEF Chain
  <2> HIDE DEF D
  <2>3. way \in Seq(Boat!Cells)
    BY <2>1, <2>2
  <2> QED BY <1>7, <2>3, ChainCells
<1>10. Moved(way)
  <2>1. ASSUME NEW n \in 1..(Len(way) - 1)
        PROVE  /\ way[n + 1] \in Boat!Around(way[n])
               /\ reached[way[n + 1]] = reached[way[n]] + Boat!Cost(way[n], way[n + 1])
    <3>1. way[n + 1] \in DOMAIN prev /\ prev[way[n + 1]] = way[n]
      BY <1>7 DEF Chain
    <3>2. LedTo(way[n + 1])
      BY <3>1 DEF SearchInv
    <3> QED BY <3>1, <3>2 DEF LedTo
  <2> QED BY <2>1 DEF Moved
<1> QED BY <1>2, <1>7, <1>8, <1>9, <1>10 DEF way

-----------------------------------------------------------------------------
(* The lines and the answer.  A line is there for a berth that was         *)
(* reached, the points kept are points of it, and what is left out between *)
(* two of them was found to be off the land.                               *)
LineMoves(p) ==
  /\ lines[p][2] = Boat!Source /\ lines[p][Len(lines[p]) - 1] = berth[p]
  /\ \A n \in 2..(Len(lines[p]) - 2) :
       /\ lines[p][n + 1] \in Boat!Around(lines[p][n])
       /\ reached[lines[p][n + 1]] = reached[lines[p][n]] + Boat!Cost(lines[p][n], lines[p][n + 1])

LinesFound ==
  \A p \in Boat!Ports : IF berth[p] \in DOMAIN reached
                        THEN lines[p] \in Seq(Boat!Cells) /\ Len(lines[p]) > 1 /\ LineMoves(p)
                        ELSE lines[p] = None

SearchDone ==
  \A p \in Boat!Ports : berth[p] # None =>
    IF berth[p] \in DOMAIN reached THEN reached[berth[p]] = Boat!Shortest[berth[p]]
    ELSE Boat!Shortest[berth[p]] = Boat!Unknown

OffLand(p) ==
  \A n \in 1..(Len(bent[p]) - 1) :
    bent[p][n + 1] = bent[p][n] + 1 \/ <<bent[p][n], bent[p][n + 1]>> \in cleared[p]

Bent ==
  /\ bent \in [Boat!Ports -> Seq(Nat)] /\ cleared \in [Boat!Ports -> SUBSET (Nat \X Nat)]
  /\ \A p \in Boat!Ports :
       /\ bent[p] # <<>> /\ OffLand(p)
       /\ Boat!Found(p) => \A i \in 1..Len(bent[p]) : bent[p][i] \in 1..Len(lines[p])

PortBest(port) ==
  port \in Boat!Ports /\ \A p \in Boat!Ports : Boat!Found(p) => Boat!Found(port) /\ Boat!LengthTo(port) <= Boat!LengthTo(p)

BoatInv ==
  /\ legAt \in {"search", "straighten", "advised"}
  /\ SearchTypes /\ SearchInv /\ Bent
  /\ legAt = "search" => /\ lines = [p \in Boat!Ports |-> None]
                         /\ bent = [p \in Boat!Ports |-> <<1>>]
  /\ legAt # "search" => LinesFound /\ SearchDone
  /\ legAt # "advised" => rescue = None
  /\ legAt = "advised" => /\ PortBest(rescue.port)
                          /\ {rescue.fit, rescue.note} \subseteq BOOLEAN /\ (~ rescue.fit => rescue.note)

LEMMA LengthTyped ==
  ASSUME Bent, LinesFound, NEW p \in Boat!Ports, Boat!Found(p)
  PROVE  Boat!LengthTo(p) \in Nat
<1> DEFINE n == Len(bent[p]) - 1
           far(i) == Boat!Far(lines[p][bent[p][i]], lines[p][bent[p][i + 1]])
           a == [i \in 1..n |-> far(i)]
           to == CHOOSE f : f = [i \in 0..n |-> IF i = 0 THEN 0 ELSE f[i - 1] + far(i)]
<1>1. /\ lines[p] \in Seq(Boat!Cells) /\ bent[p] \in Seq(Nat) /\ bent[p] # <<>>
      /\ \A i \in 1..Len(bent[p]) : bent[p][i] \in 1..Len(lines[p])
  BY DEF Bent, LinesFound, Boat!Found
<1>2. Len(bent[p]) \in Nat /\ Len(bent[p]) # 0 /\ n \in Nat
  BY <1>1, LenProperties, EmptySeq
<1>3. \A i \in 1..Len(bent[p]) : lines[p][bent[p][i]] \in Boat!Cells
  BY <1>1, ElementOfSeq
<1>4. ASSUME NEW i \in 1..n PROVE a[i] \in Nat
  <2>1. i \in 1..Len(bent[p]) /\ i + 1 \in 1..Len(bent[p])
    BY <1>2
  <2> QED BY <1>3, <2>1, FarBoth
<1>5. ASSUME NEW f
      PROVE  [i \in 0..n |-> IF i = 0 THEN 0 ELSE f[i - 1] + far(i)]
             = [i \in 0..n |-> IF i = 0 THEN 0 ELSE f[i - 1] + a[i]]
  <2>1. ASSUME NEW i \in 0..n, i # 0 PROVE a[i] = far(i)
    BY <1>2, <2>1
  <2> HIDE DEF a, far, n
  <2> QED BY <2>1
<1>6. \E f : f = [i \in 0..n |-> IF i = 0 THEN 0 ELSE f[i - 1] + far(i)]
  <2> HIDE DEF a, far, n
  <2>1. PICK f : Sums(f, a, n)
    BY <1>2, SumsExist
  <2>2. f = [i \in 0..n |-> IF i = 0 THEN 0 ELSE f[i - 1] + a[i]]
    BY <2>1 DEF Sums
  <2>3. f = [i \in 0..n |-> IF i = 0 THEN 0 ELSE f[i - 1] + far(i)]
    BY <1>5, <2>2, Zenon
  <2> QED BY <2>3
<1>7. to = [i \in 0..n |-> IF i = 0 THEN 0 ELSE to[i - 1] + far(i)]
  <2> HIDE DEF far, n
  <2> QED BY <1>6
<1>8. Boat!LengthTo(p) = to[n]
  BY DEF Boat!LengthTo
<1>9. Sums(to, a, n)
  <2> HIDE DEF to, a, far, n
  <2>1. to = [i \in 0..n |-> IF i = 0 THEN 0 ELSE to[i - 1] + a[i]]
    BY <1>5, <1>7, Zenon
  <2> QED BY <2>1 DEF Sums
<1>10. to[n] \in Nat
  <2> HIDE DEF to, a, far, n
  <2>1. \A i \in 0..n : to[i] \in Nat
    BY <1>2, <1>4, <1>9, SumsTyped
  <2> QED BY <1>2, <2>1
<1> QED BY <1>8, <1>10

LEMMA SeaPorts ==
  /\ Boat!Ports = {Order[i] : i \in 1..Len(Order)} /\ Len(Order) \in Nat /\ DOMAIN Order = 1..Len(Order)
  /\ Len(Order) # 0
<1>1. Order \in Seq(DOMAIN Berths) /\ Order # <<>>
  BY GuidanceAssumption DEF Boat!SeaRouteAssumption
<1>2. Len(Order) \in Nat /\ DOMAIN Order = 1..Len(Order) /\ Len(Order) # 0
  BY <1>1, LenProperties, EmptySeq
<1> QED BY <1>2 DEF Boat!Ports, Boat!Range

(* Of the ports that can be reached one is nearest, so that one is named.  *)
LEMMA BestPort ==
  ASSUME Bent, LinesFound
  PROVE  PortBest(Boat!Best)
<1> DEFINE T == {i \in DOMAIN Order : \A q \in Boat!Ports : ~ Boat!Better(q, Order[i])}
           L == {Boat!LengthTo(q) : q \in {q \in Boat!Ports : Boat!Found(q)}}
<1>1. T # {}
  <2>1. CASE \A q \in Boat!Ports : ~ Boat!Found(q)
    <3>1. 1 \in DOMAIN Order
      BY SeaPorts
    <3> QED BY <2>1, <3>1 DEF Boat!Better
  <2>2. CASE \E q \in Boat!Ports : Boat!Found(q)
    <3>1. L \in SUBSET Nat /\ L # {}
      BY <2>2, LengthTyped
    <3>2. PICK least \in L : \A x \in L : least <= x
      <4> HIDE DEF L
      <4> QED BY <3>1, Least
    <3>3. PICK port \in Boat!Ports : Boat!Found(port) /\ Boat!LengthTo(port) = least
      BY <3>2
    <3>4. PICK i \in DOMAIN Order : Order[i] = port
      BY SeaPorts
    <3>5. ASSUME NEW q \in Boat!Ports, Boat!Better(q, port) PROVE FALSE
      <4>1. Boat!Found(q) /\ Boat!LengthTo(q) < Boat!LengthTo(port)
        BY <3>3, <3>5 DEF Boat!Better
      <4>2. Boat!LengthTo(q) \in L /\ Boat!LengthTo(q) \in Nat /\ least \in Nat
        BY <3>1, <3>2, <4>1, LengthTyped
      <4> QED BY <3>2, <3>3, <4>1, <4>2
    <3> QED BY <3>4, <3>5
  <2> QED BY <2>1, <2>2
<1>2. T \in SUBSET Nat
  BY SeaPorts
<1>3. Boat!Min(T) \in T
  <2> HIDE DEF T
  <2> QED BY <1>1, <1>2, SeaMin
<1>4. Boat!Best = Order[Boat!Min(T)]
  BY DEF Boat!Best
<1>5. PICK i \in T : Boat!Best = Order[i]
  BY <1>3, <1>4
<1>6. Boat!Best \in Boat!Ports /\ \A q \in Boat!Ports : ~ Boat!Better(q, Boat!Best)
  BY <1>5, SeaPorts
<1>7. ASSUME NEW p \in Boat!Ports, Boat!Found(p)
      PROVE  Boat!Found(Boat!Best) /\ Boat!LengthTo(Boat!Best) <= Boat!LengthTo(p)
  <2>1. Boat!Found(Boat!Best) /\ ~ (Boat!LengthTo(p) < Boat!LengthTo(Boat!Best))
    BY <1>6, <1>7 DEF Boat!Better
  <2>2. Boat!LengthTo(p) \in Nat /\ Boat!LengthTo(Boat!Best) \in Nat
    BY <1>6, <1>7, <2>1, LengthTyped
  <2> QED BY <2>1, <2>2
<1> QED BY <1>6, <1>7 DEF PortBest

-----------------------------------------------------------------------------
(* The steps keep all that.                                                *)
LEMMA BoatPop == ASSUME BoatInv, Boat!Pop PROVE BoatInv'
<1>1. PICK top \in heap :
        LET c == top[2]
            better == {d \in Boat!Around(c) : Boat!Shorter(c, d)}
        IN  /\ \A other \in heap : other[1] >= top[1]
            /\ IF top[1] > reached[c]
               THEN heap' = heap \ {top} /\ UNCHANGED <<reached, prev, left>>
               ELSE /\ left' = left \ {c}
                    /\ reached' = [d \in DOMAIN reached \cup better |->
                                     IF d \in better THEN reached[c] + Boat!Cost(c, d) ELSE reached[d]]
                    /\ prev' = [d \in DOMAIN prev \cup better |-> IF d \in better THEN c ELSE prev[d]]
                    /\ heap' = (heap \ {top}) \cup {<<reached[c] + Boat!Cost(c, d), d>> : d \in better}
  BY DEF Boat!Pop, Boat!StillLeft
<1>2. UNCHANGED <<legAt, walls, near, berth, lines, bent, cleared, rescue>> /\ legAt = "search"
  BY DEF Boat!Pop
<1>3. SearchTypes /\ SearchInv
  BY DEF BoatInv
<1>4. SearchTypes' /\ SearchInv'
  <2>1. CASE top[1] > reached[top[2]]
    <3>1. heap' = heap \ {top} /\ UNCHANGED <<reached, prev, left>>
      BY <1>1, <2>1
    <3> QED BY <1>2, <1>3, <2>1, <3>1, PopStale
  <2>2. CASE ~ (top[1] > reached[top[2]])
    <3> DEFINE c == top[2]
               better == {d \in Boat!Around(c) : Boat!Shorter(c, d)}
    <3>1. /\ \A e \in heap : e[1] >= top[1]
          /\ left' = left \ {c}
          /\ reached' = [d \in DOMAIN reached \cup better |->
                           IF d \in better THEN reached[c] + Boat!Cost(c, d) ELSE reached[d]]
          /\ prev' = [d \in DOMAIN prev \cup better |-> IF d \in better THEN c ELSE prev[d]]
          /\ heap' = (heap \ {top}) \cup {<<reached[c] + Boat!Cost(c, d), d>> : d \in better}
      BY <1>1, <2>2
    <3>2. c = top[2] /\ ~ (top[1] > reached[c]) /\ better = {d \in Boat!Around(c) : Boat!Shorter(c, d)}
      BY <2>2
    <3> HIDE DEF c, better
    <3> QED BY <1>2, <1>3, <3>1, <3>2, PopFresh
  <2> QED BY <2>1, <2>2
<1>5. Bent'
  BY <1>2 DEF BoatInv, Bent, OffLand, Boat!Found, Boat!Ports
<1> QED BY <1>2, <1>4, <1>5 DEF BoatInv, Boat!Ports

(* Where only the lines and the answer change, the search stays done.      *)
LEMMA SearchKept ==
  ASSUME BoatInv, UNCHANGED <<walls, near, berth, reached, prev, heap, left>>
  PROVE  /\ SearchTypes' /\ SearchInv' /\ (SearchDone => SearchDone')
         /\ lines' = lines /\ LinesFound => LinesFound'
<1>1. SearchTypes /\ SearchInv
  BY DEF BoatInv
<1>2. /\ \A b : (Boat!Around(b))' = Boat!Around(b)
      /\ \A b, d : (Boat!Cost(b, d))' = Boat!Cost(b, d)
      /\ LeastCosts' = LeastCosts /\ (Boat!Shortest)' = Boat!Shortest
  BY SeaStays
<1>3. (Boat!Ports)' = Boat!Ports /\ Settled' = Settled
  BY DEF Boat!Ports, Settled
<1>4. SearchTypes'
  BY <1>1 DEF SearchTypes, Boat!Ports, Boat!Cells, Boat!Source
<1>5. SearchInv'
  <2>1. \A d : LedTo(d)' <=> LedTo(d)
    BY <1>2, <1>3 DEF LedTo
  <2> QED BY <1>1, <1>2, <1>3, <2>1 DEF SearchInv
<1>6. SearchDone => SearchDone'
  BY <1>2, <1>3 DEF SearchDone, Boat!Unknown
<1>7. ASSUME lines' = lines, LinesFound PROVE LinesFound'
  <2>1. \A p : LineMoves(p)' <=> LineMoves(p)
    BY <1>2, <1>7 DEF LineMoves, Boat!Source
  <2> QED BY <1>3, <1>7, <2>1 DEF LinesFound, Boat!Cells
<1> QED BY <1>4, <1>5, <1>6, <1>7

LEMMA BoatSearched == ASSUME BoatInv, Boat!Searched PROVE BoatInv'
<1>1. /\ legAt = "search" /\ (heap = {} \/ left = {}) /\ legAt' = "straighten"
      /\ lines' = [p \in Boat!Ports |-> IF berth[p] \in DOMAIN reached
                     THEN <<Boat!Source>> \o Boat!CellsTo(berth[p]) \o <<berth[p]>> ELSE None]
      /\ UNCHANGED <<walls, near, berth, reached, prev, heap, left, bent, cleared, rescue>>
  BY DEF Boat!Searched
<1>2. /\ SearchTypes /\ SearchInv /\ Bent /\ rescue' = None
      /\ bent' = [p \in Boat!Ports |-> <<1>>] /\ cleared' = cleared
  BY <1>1 DEF BoatInv
<1>3. SearchTypes' /\ SearchInv'
  BY <1>1, SearchKept
<1>4. LinesFound'
  <2>1. ASSUME NEW p \in Boat!Ports
        PROVE  IF berth[p] \in DOMAIN reached
               THEN lines'[p] \in Seq(Boat!Cells) /\ Len(lines'[p]) > 1 /\ LineMoves(p)'
               ELSE lines'[p] = None
    <3>1. CASE berth[p] \in DOMAIN reached
      <4> DEFINE mid == Boat!CellsTo(berth[p])
      <4>1. /\ mid \in Seq(Boat!Cells) /\ Len(mid) \in Nat \ {0} /\ berth[p] \in Boat!Cells
            /\ mid[1] = Boat!Source /\ mid[Len(mid)] = berth[p] /\ Moved(mid)
        BY <1>2, <3>1, CellsToCells, CellsReached
      <4>2. lines'[p] = <<Boat!Source>> \o mid \o <<berth[p]>>
        BY <1>1, <3>1
      <4>3. <<Boat!Source>> \in Seq(Boat!Cells) /\ <<berth[p]>> \in Seq(Boat!Cells)
            /\ Len(<<Boat!Source>>) = 1 /\ Len(<<berth[p]>>) = 1
        BY <4>1, SeaNumbers
      <4> HIDE DEF mid
      <4>4. /\ <<Boat!Source>> \o mid \in Seq(Boat!Cells) /\ Len(<<Boat!Source>> \o mid) = 1 + Len(mid)
            /\ \A i \in 1..(1 + Len(mid)) :
                 (<<Boat!Source>> \o mid)[i] = IF i <= 1 THEN <<Boat!Source>>[i] ELSE mid[i - 1]
        BY <4>1, <4>3, ConcatProperties
      <4> DEFINE front == <<Boat!Source>> \o mid
      <4>5. /\ front \in Seq(Boat!Cells) /\ Len(front) = Len(mid) + 1
            /\ \A i \in 1..Len(mid) : front[i + 1] = mid[i]
        BY <4>1, <4>4
      <4> HIDE DEF front
      <4>6. /\ front \o <<berth[p]>> \in Seq(Boat!Cells)
            /\ Len(front \o <<berth[p]>>) = Len(front) + 1
            /\ \A i \in 1..(Len(front) + 1) :
                 (front \o <<berth[p]>>)[i] = IF i <= Len(front) THEN front[i] ELSE <<berth[p]>>[i - Len(front)]
        BY <4>3, <4>5, ConcatProperties
      <4> DEFINE line == lines'[p]
      <4>7. line = front \o <<berth[p]>>
        BY <4>2 DEF front
      <4>8. /\ line \in Seq(Boat!Cells) /\ Len(line) = Len(mid) + 2 /\ \A i \in 1..Len(mid) : line[i + 1] = mid[i]
        BY <4>1, <4>5, <4>6, <4>7
      <4> HIDE DEF line
      <4>9. line[2] = Boat!Source /\ line[Len(line) - 1] = berth[p]
        <5>1. 1 \in 1..Len(mid) /\ Len(mid) \in 1..Len(mid) /\ Len(line) - 1 = Len(mid) + 1
          BY <4>1, <4>8
        <5>2. line[1 + 1] = mid[1] /\ line[Len(mid) + 1] = mid[Len(mid)]
          BY <4>8, <5>1
        <5> QED BY <4>1, <5>1, <5>2
      <4>10. ASSUME NEW n \in 2..(Len(line) - 2)
             PROVE  /\ line[n + 1] \in Boat!Around(line[n])
                    /\ reached[line[n + 1]] = reached[line[n]] + Boat!Cost(line[n], line[n + 1])
        <5>1. n - 1 \in 1..(Len(mid) - 1) /\ (n - 1) + 1 = n /\ n - 1 \in 1..Len(mid) /\ n \in 1..Len(mid)
          BY <4>1, <4>8
        <5>2. line[(n - 1) + 1] = mid[n - 1] /\ line[n + 1] = mid[n]
          BY <4>8, <5>1
        <5>3. /\ mid[(n - 1) + 1] \in Boat!Around(mid[n - 1])
              /\ reached[mid[(n - 1) + 1]] = reached[mid[n - 1]] + Boat!Cost(mid[n - 1], mid[(n - 1) + 1])
          BY <4>1, <5>1 DEF Moved
        <5> QED BY <5>1, <5>2, <5>3
      <4>11. /\ \A b : (Boat!Around(b))' = Boat!Around(b)
             /\ \A b, d : (Boat!Cost(b, d))' = Boat!Cost(b, d)
             /\ (Boat!Source)' = Boat!Source /\ berth' = berth /\ reached' = reached
        BY <1>1, SeaStays DEF Boat!Source
      <4>12. LineMoves(p)'
        BY <4>9, <4>10, <4>11 DEF LineMoves, line
      <4>13. line \in Seq(Boat!Cells) /\ Len(line) > 1
        BY <4>1, <4>8
      <4> QED BY <3>1, <4>12, <4>13 DEF line
    <3>2. CASE berth[p] \notin DOMAIN reached
      BY <1>1, <3>2
    <3> QED BY <3>1, <3>2
  <2>2. (Boat!Ports)' = Boat!Ports /\ (Boat!Cells)' = Boat!Cells
    BY DEF Boat!Ports, Boat!Cells
  <2> QED BY <1>1, <2>1, <2>2 DEF LinesFound
<1>5. SearchDone
  <2>1. ASSUME NEW p \in Boat!Ports, berth[p] # None, berth[p] \in DOMAIN reached
        PROVE  reached[berth[p]] = Boat!Shortest[berth[p]]
    <3>1. berth[p] \in Settled
      <4>1. CASE heap = {}
        BY <2>1, <4>1 DEF Settled
      <4>2. CASE left = {}
        BY <1>2, <2>1, <4>2 DEF SearchInv
      <4> QED BY <1>1, <4>1, <4>2
    <3> QED BY <1>2, <3>1, SettledLeast
  <2>2. ASSUME NEW p \in Boat!Ports, berth[p] # None, berth[p] \notin DOMAIN reached
        PROVE  Boat!Shortest[berth[p]] = Boat!Unknown
    <3>1. heap = {}
      <4>1. left # {}
        BY <1>2, <2>2, CellsReached DEF SearchInv
      <4> QED BY <1>1, <4>1
    <3>2. berth[p] \in Boat!Cells
      BY <1>2, <2>2 DEF SearchTypes
    <3> QED BY <1>2, <2>2, <3>1, <3>2, UnreachedUnknown
  <2> QED BY <2>1, <2>2 DEF SearchDone
<1>6. SearchDone'
  BY <1>1, <1>5, SearchKept
<1>7. Bent'
  <2>1. (Boat!Ports)' = Boat!Ports /\ bent' = bent /\ cleared' = cleared
    BY <1>1 DEF Boat!Ports
  <2>2. \A p \in Boat!Ports : OffLand(p)'
    BY <1>2, <2>1 DEF Bent, OffLand
  <2>3. ASSUME NEW p \in Boat!Ports, Boat!Found(p)'
        PROVE  \A i \in 1..Len(bent'[p]) : bent'[p][i] \in 1..Len(lines'[p])
    <3>1. lines'[p] # None
      BY <2>3 DEF Boat!Found
    <3>2. lines'[p] \in Seq(Boat!Cells) /\ Len(lines'[p]) > 1
      BY <1>4, <2>1, <3>1 DEF LinesFound, Boat!Cells
    <3>3. Len(lines'[p]) \in Nat /\ 1 \in 1..Len(lines'[p])
      BY <3>2, LenProperties
    <3>4. bent'[p] = <<1>>
      BY <1>2
    <3> QED BY <3>3, <3>4
  <2> QED BY <1>2, <2>1, <2>2, <2>3 DEF Bent
<1> QED BY <1>1, <1>2, <1>3, <1>4, <1>6, <1>7 DEF BoatInv

LEMMA BoatBend == ASSUME BoatInv, NEW p \in Boat!Ports, Boat!Bend(p) PROVE BoatInv'
<1> DEFINE i == bent[p][Len(bent[p])]
           end == Len(lines[p])
<1>1. PICK j \in (i + 1)..end :
        /\ bent' = [bent EXCEPT ![p] = Append(@, j)]
        /\ cleared' = [cleared EXCEPT ![p] = @ \cup {<<i, k>> : k \in (i + 2)..j}]
  BY DEF Boat!Bend, Boat!Kept, Boat!Last
<1>2. /\ legAt = "straighten" /\ Boat!Found(p)
      /\ UNCHANGED <<legAt, walls, near, berth, reached, prev, heap, left, lines, rescue>>
  BY DEF Boat!Bend
<1>3. /\ SearchTypes /\ SearchInv /\ Bent /\ LinesFound /\ SearchDone /\ rescue = None
  BY <1>2 DEF BoatInv
<1>4. SearchTypes' /\ SearchInv' /\ SearchDone'
  BY <1>2, <1>3, SearchKept
<1>5. LinesFound'
  BY <1>2, <1>3, SearchKept
<1>6. /\ bent[p] \in Seq(Nat) /\ bent[p] # <<>> /\ Len(bent[p]) \in Nat \ {0} /\ end \in Nat
      /\ i \in 1..end /\ i \in Nat /\ j \in Nat /\ j \in 1..end
      /\ \A m \in 1..Len(bent[p]) : bent[p][m] \in 1..end
  <2>1. bent[p] \in Seq(Nat) /\ bent[p] # <<>> /\ \A m \in 1..Len(bent[p]) : bent[p][m] \in 1..end
    BY <1>2, <1>3 DEF Bent
  <2>2. lines[p] \in Seq(Boat!Cells)
    BY <1>2, <1>3 DEF LinesFound, Boat!Found
  <2>3. Len(bent[p]) \in Nat /\ Len(bent[p]) # 0 /\ end \in Nat
    BY <2>1, <2>2, LenProperties, EmptySeq
  <2>4. i \in 1..end
    BY <2>1, <2>3
  <2>5. i \in Nat /\ j \in Nat /\ j \in 1..end
    BY <1>1, <2>3, <2>4
  <2> QED BY <2>1, <2>3, <2>4, <2>5
<1>7. /\ bent'[p] = Append(bent[p], j) /\ cleared'[p] = cleared[p] \cup {<<i, k>> : k \in (i + 2)..j}
      /\ \A q \in Boat!Ports \ {p} : bent'[q] = bent[q] /\ cleared'[q] = cleared[q]
  BY <1>1, <1>3 DEF Bent
<1>8. /\ bent'[p] \in Seq(Nat) /\ bent'[p] # <<>> /\ Len(bent'[p]) = Len(bent[p]) + 1
      /\ \A m \in 1..Len(bent[p]) : bent'[p][m] = bent[p][m]
      /\ bent'[p][Len(bent[p]) + 1] = j
  BY <1>6, <1>7, AppendProperties
<1> HIDE DEF i, end
<1>9. bent' \in [Boat!Ports -> Seq(Nat)] /\ cleared' \in [Boat!Ports -> SUBSET (Nat \X Nat)]
  <2>1. \A q \in Boat!Ports : bent'[q] \in Seq(Nat)
    BY <1>3, <1>7, <1>8 DEF Bent
  <2>2. \A k \in (i + 2)..j : k \in Nat
    BY <1>6
  <2>3. \A q \in Boat!Ports : cleared'[q] \in SUBSET (Nat \X Nat)
    <3>1. \A q \in Boat!Ports : cleared[q] \in SUBSET (Nat \X Nat)
      BY <1>3 DEF Bent
    <3>2. {<<i, k>> : k \in (i + 2)..j} \in SUBSET (Nat \X Nat)
      BY <1>6, <2>2
    <3>3. cleared'[p] \in SUBSET (Nat \X Nat)
      BY <1>7, <3>1, <3>2
    <3> QED BY <1>7, <3>1, <3>3
  <2>4. bent' = [q \in Boat!Ports |-> bent'[q]] /\ cleared' = [q \in Boat!Ports |-> cleared'[q]]
    BY <1>1, <1>3 DEF Bent
  <2> QED BY <2>1, <2>3, <2>4
<1>10. ASSUME NEW n \in 1..(Len(bent'[p]) - 1)
       PROVE  bent'[p][n + 1] = bent'[p][n] + 1 \/ <<bent'[p][n], bent'[p][n + 1]>> \in cleared'[p]
  <2>1. CASE n \in 1..(Len(bent[p]) - 1)
    <3>1. n \in 1..Len(bent[p]) /\ n + 1 \in 1..Len(bent[p])
      BY <1>6, <2>1
    <3>2. bent[p][n + 1] = bent[p][n] + 1 \/ <<bent[p][n], bent[p][n + 1]>> \in cleared[p]
      BY <1>3, <2>1 DEF Bent, OffLand
    <3> QED BY <1>7, <1>8, <3>1, <3>2
  <2>2. CASE n = Len(bent[p])
    <3>1. bent'[p][n] = i /\ bent'[p][n + 1] = j
      <4>1. n \in 1..Len(bent[p]) /\ n + 1 = Len(bent[p]) + 1
        BY <1>6, <2>2
      <4>2. bent'[p][n] = bent[p][n] /\ bent[p][n] = i
        BY <1>8, <2>2, <4>1 DEF i
      <4> QED BY <1>8, <4>1, <4>2
    <3>2. j = i + 1 \/ j \in (i + 2)..j
      BY <1>1, <1>6
    <3> QED BY <1>7, <3>1, <3>2
  <2>3. n = Len(bent[p]) \/ n \in 1..(Len(bent[p]) - 1)
    BY <1>6, <1>8
  <2> QED BY <2>1, <2>2, <2>3
<1>11. Bent'
  <2>1. (Boat!Ports)' = Boat!Ports /\ lines' = lines
    BY <1>2 DEF Boat!Ports
  <2>2. ASSUME NEW q \in Boat!Ports, q # p
        PROVE  /\ bent'[q] # <<>> /\ OffLand(q)'
               /\ Boat!Found(q)' => \A m \in 1..Len(bent'[q]) : bent'[q][m] \in 1..Len(lines'[q])
    BY <1>3, <1>7, <2>1, <2>2 DEF Bent, OffLand, Boat!Found
  <2>3. OffLand(p)'
    BY <1>10 DEF OffLand
  <2>4. \A m \in 1..Len(bent'[p]) : bent'[p][m] \in 1..Len(lines'[p])
    <3>1. ASSUME NEW m \in 1..Len(bent'[p]) PROVE bent'[p][m] \in 1..end
      <4>1. m \in 1..Len(bent[p]) \/ m = Len(bent[p]) + 1
        BY <1>6, <1>8
      <4> QED BY <1>6, <1>8, <4>1
    <3> QED BY <2>1, <3>1 DEF end
  <2> QED BY <1>8, <1>9, <2>1, <2>2, <2>3, <2>4 DEF Bent
<1> QED BY <1>2, <1>3, <1>4, <1>5, <1>11 DEF BoatInv

(* Nobody is sent to an unfit shelter without being told.                  *)
LEMMA PickedFit ==
  ASSUME NEW unread \in BOOLEAN, NEW unfit \in SUBSET Shelters, Boat!Pick(unread, unfit) \in unfit
  PROVE  unread \/ Shelters \subseteq unfit
<1>1. SUFFICES ASSUME ~ unread, ~ (Shelters \subseteq unfit) PROVE FALSE
  OBVIOUS
<1>2. Shelters \ unfit \in SUBSET Nat /\ Shelters \ unfit # {}
  BY <1>1, GuidanceAssumption DEF Boat!SeaRouteAssumption
<1>3. Boat!Min(Shelters \ unfit) \in Shelters \ unfit
  BY <1>2, SeaMin
<1> QED BY <1>1, <1>3 DEF Boat!Pick

LEMMA BoatAdvise == ASSUME BoatInv, Boat!Advise PROVE BoatInv'
<1>1. PICK given \in BOOLEAN, unread \in BOOLEAN, unfit \in SUBSET Shelters :
        rescue' = [port |-> Boat!Best, shelter |-> IF given THEN 0 ELSE Boat!Pick(unread, unfit),
                   fit |-> (IF given THEN 0 ELSE Boat!Pick(unread, unfit)) \notin unfit,
                   note |-> ~ given /\ (unread \/ Shelters \subseteq unfit)]
  BY DEF Boat!Advise
<1>2. /\ legAt = "straighten" /\ legAt' = "advised"
      /\ UNCHANGED <<walls, near, berth, reached, prev, heap, left, lines, bent, cleared>>
  BY DEF Boat!Advise
<1>3. /\ SearchTypes /\ SearchInv /\ Bent /\ LinesFound /\ SearchDone
  BY <1>2 DEF BoatInv
<1>4. SearchTypes' /\ SearchInv' /\ SearchDone'
  BY <1>2, <1>3, SearchKept
<1>5. LinesFound' /\ Bent'
  <2>1. LinesFound'
    BY <1>2, <1>3, SearchKept
  <2>2. Bent'
    BY <1>2, <1>3 DEF Bent, OffLand, Boat!Found, Boat!Ports
  <2> QED BY <2>1, <2>2
<1>6. rescue'.port = Boat!Best /\ PortBest(Boat!Best)
  BY <1>1, <1>3, BestPort
<1>7. PortBest(rescue.port)'
  <2> DEFINE port == Boat!Best
  <2>1. (Boat!Ports)' = Boat!Ports
    BY DEF Boat!Ports
  <2>2. \A q : (Boat!Found(q))' = Boat!Found(q) /\ (Boat!LengthTo(q))' = Boat!LengthTo(q)
    BY <1>2 DEF Boat!Found, Boat!LengthTo, Boat!Far
  <2>3. rescue'.port = port /\ PortBest(port)
    BY <1>6
  <2> HIDE DEF port
  <2>4. (Boat!Found(rescue.port))' = Boat!Found(port) /\ (Boat!LengthTo(rescue.port))' = Boat!LengthTo(port)
    BY <1>2, <2>3 DEF Boat!Found, Boat!LengthTo, Boat!Far
  <2> QED BY <2>1, <2>2, <2>3, <2>4 DEF PortBest
<1>8. {rescue'.fit, rescue'.note} \subseteq BOOLEAN /\ (~ rescue'.fit => rescue'.note)
  <2>1. /\ rescue'.fit = ((IF given THEN 0 ELSE Boat!Pick(unread, unfit)) \notin unfit)
        /\ rescue'.note = (~ given /\ (unread \/ Shelters \subseteq unfit))
    BY <1>1
  <2>2. 0 \notin unfit
    BY GuidanceAssumption DEF Boat!SeaRouteAssumption
  <2>3. CASE given
    BY <2>1, <2>2, <2>3
  <2>4. CASE ~ given
    BY <2>1, <2>4, PickedFit
  <2> QED BY <2>3, <2>4
<1> QED BY <1>2, <1>4, <1>5, <1>7, <1>8 DEF BoatInv

LEMMA BoatInit == ASSUME Boat!Init PROVE BoatInv
<1>1. /\ legAt = "search" /\ reached = [c \in {Boat!Source} |-> 0] /\ prev = [c \in {} |-> None]
      /\ heap = {<<0, Boat!Source>>} /\ left = Boat!Range(berth) \ {None}
      /\ lines = [p \in Boat!Ports |-> None] /\ bent = [p \in Boat!Ports |-> <<1>>]
      /\ cleared = [p \in Boat!Ports |-> {}] /\ rescue = None
  BY DEF Boat!Init, Boat!Search
<1>2. UNION walls \subseteq Boat!Cells /\ near \subseteq Boat!Cells
  <2>1. walls \subseteq Boat!Moves /\ near \subseteq Boat!Cells
    BY DEF Boat!Init, Boat!kSubset
  <2>2. \A m \in Boat!Moves : m \subseteq Boat!Cells
    BY DEF Boat!Moves
  <2> QED BY <2>1, <2>2
<1>3. berth \in [Boat!Ports -> Boat!Cells \cup {None}]
  <2>1. \A p \in Boat!Ports : Berths[p] \subseteq Boat!Cells \cup {None}
    BY GuidanceAssumption DEF Boat!SeaRouteAssumption
  <2>2. berth = [p \in Boat!Ports |-> berth[p]] /\ \A p \in Boat!Ports : berth[p] \in Berths[p]
    BY DEF Boat!Init
  <2> QED BY <2>1, <2>2
<1>4. left \subseteq Boat!Cells /\ \A p \in Boat!Ports : berth[p] # None => berth[p] \in left
  BY <1>1, <1>3 DEF Boat!Range
<1>5. SearchTypes
  <2>1. DOMAIN reached = {Boat!Source} /\ reached[Boat!Source] = 0
    BY <1>1
  <2>2. prev \in [DOMAIN reached \ {Boat!Source} -> DOMAIN reached]
    BY <1>1, <2>1
  <2>3. reached \in [DOMAIN reached -> Nat]
    BY <1>1
  <2> QED BY <1>1, <1>2, <1>3, <1>4, <2>1, <2>2, <2>3, SeaNumbers DEF SearchTypes
<1>6. SearchInv
  <2>1. Settled = {} /\ Cardinality(Settled) = 0
    BY <1>1, FS_EmptySet DEF Settled
  <2>2. LeastCosts[0] = Outset
    BY RoundsExist, SeaNumbers, 0 \in 0..Size DEF Rounds
  <2>3. LeastCosts[0][Boat!Source] = 0
    BY <2>2, SeaNumbers DEF Outset
  <2> QED BY <1>1, <1>4, <2>1, <2>3 DEF SearchInv
<1>7. Bent
  BY <1>1 DEF Bent, OffLand, Boat!Found
<1> QED BY <1>1, <1>5, <1>6, <1>7 DEF BoatInv

LEMMA BoatIdle == ASSUME BoatInv, UNCHANGED boatVars PROVE BoatInv'
<1>1. UNCHANGED <<legAt, walls, near, berth, reached, prev, heap, left, lines, bent, cleared, rescue>>
  BY DEF boatVars
<1>2. SearchTypes' /\ SearchInv' /\ (SearchDone => SearchDone')
  BY <1>1, SearchKept
<1>3. Bent' /\ (LinesFound => LinesFound')
  <2>1. LinesFound => LinesFound'
    BY <1>1, SearchKept
  <2>2. Bent'
    BY <1>1 DEF BoatInv, Bent, OffLand, Boat!Found, Boat!Ports
  <2> QED BY <2>1, <2>2
<1>4. legAt = "advised" => PortBest(rescue.port)'
  <2>1. (Boat!Ports)' = Boat!Ports
    BY DEF Boat!Ports
  <2>2. \A q : (Boat!Found(q))' = Boat!Found(q) /\ (Boat!LengthTo(q))' = Boat!LengthTo(q)
    BY <1>1 DEF Boat!Found, Boat!LengthTo, Boat!Far
  <2>3. (Boat!Found(rescue.port))' = Boat!Found(rescue.port) /\ (Boat!LengthTo(rescue.port))' = Boat!LengthTo(rescue.port)
    BY <1>1 DEF Boat!Found, Boat!LengthTo, Boat!Far
  <2> QED BY <1>1, <2>1, <2>2, <2>3 DEF BoatInv, PortBest
<1> QED BY <1>1, <1>2, <1>3, <1>4 DEF BoatInv, Boat!Ports

LEMMA BoatShows == BoatInv => Boat!SeaWayHolds
<1> SUFFICES ASSUME BoatInv PROVE Boat!SeaWayHolds
  OBVIOUS
<1>1. legAt = "straighten" =>
        \A p \in Boat!Ports : berth[p] # None =>
          IF Boat!Found(p) THEN reached[berth[p]] = Boat!Shortest[berth[p]]
          ELSE Boat!Shortest[berth[p]] = Boat!Unknown
  <2>1. SUFFICES ASSUME legAt = "straighten", NEW p \in Boat!Ports, berth[p] # None
                 PROVE  IF Boat!Found(p) THEN reached[berth[p]] = Boat!Shortest[berth[p]]
                        ELSE Boat!Shortest[berth[p]] = Boat!Unknown
    OBVIOUS
  <2>2. Boat!Found(p) <=> berth[p] \in DOMAIN reached
    BY <2>1, SeaNumbers DEF BoatInv, LinesFound, Boat!Found
  <2> QED BY <2>1, <2>2 DEF BoatInv, SearchDone
<1>2. \A p \in Boat!Ports : OffLand(p)
  BY DEF BoatInv, Bent
<1>3. legAt # "search" => \A p \in Boat!Ports : Boat!Found(p) => LineMoves(p)
  BY DEF BoatInv, LinesFound, Boat!Found
<1>4. legAt = "advised" =>
        /\ \A p \in Boat!Ports : Boat!Found(p) => Boat!Found(rescue.port) /\ Boat!LengthTo(rescue.port) <= Boat!LengthTo(p)
        /\ ~ rescue.fit => rescue.note
  BY DEF BoatInv, PortBest
<1> QED BY <1>1, <1>2, <1>3, <1>4 DEF Boat!SeaWayHolds, OffLand, LineMoves

LEMMA BoatNext == ASSUME BoatInv, Boat!Next PROVE BoatInv'
BY BoatPop, BoatSearched, BoatBend, BoatAdvise DEF Boat!Next

LEMMA BoatSteps == [AnyNext]_allVars => part' = part /\ ((part = "boat" /\ Boat!Next) \/ UNCHANGED boatVars)
BY DEF AnyNext, allVars, newVars, boatVars, InTalk, InWalk, InNew

(* SeaWayHolds: every berth that can be reached gets its shortest way over *)
(* the cells, a way from the boat's cell move by move, no piece of the way *)
(* shown crosses land, the port named is one that can be reached if any    *)
(* can, by the shortest way, and nobody is sent to an unfit shelter        *)
(* without being told (sea.py:157, 174, 252).                              *)
THEOREM SeaWayAlwaysHolds == AnySpec => []SeaWayHolds
<1> DEFINE Inv == part = "boat" => BoatInv
<1>1. AnyInit => Inv
  BY BoatInit DEF AnyInit
<1>2. Inv /\ [AnyNext]_allVars => Inv'
  BY BoatSteps, BoatNext, BoatIdle
<1>3. Inv => SeaWayHolds
  BY BoatShows DEF SeaWayHolds
<1> QED BY <1>1, <1>2, <1>3, PTL DEF AnySpec
=============================================================================
