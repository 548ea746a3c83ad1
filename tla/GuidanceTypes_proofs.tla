------------------------- MODULE GuidanceTypes_proofs -------------------------
(***************************************************************************)
(* Proofs that every part of the guidance (MCGuidance) keeps its type: the *)
(* invariants of Guidance_proofs and Assistant_proofs, and what only the   *)
(* types need.                                                             *)
(***************************************************************************)
EXTENDS Assistant_proofs

-----------------------------------------------------------------------------
(* What only the types need, part by part.                                 *)

(* Numbers of an answer: the model may make up one at a time.              *)
GroundsTypes == Grounds!TypeOK /\ inventions <= MaxInventions /\ (stepAt # "manager" => pass >= 1)

LEMMA GroundsNumbers == MAX_RETRY \in Nat /\ MaxPasses \in Nat /\ MaxReadChanges \in Nat /\ MaxInventions \in Nat
BY GuidanceAssumption DEF Grounds!EvidenceAssumption

LEMMA CountsAlike == ASSUME NEW S PROVE Grounds!Cardinality(S) = Cardinality(S)
BY DEF Grounds!Cardinality, Cardinality

LEMMA Invented ==
  ASSUME GroundsTypes, pass >= 1, NEW sources \in SUBSET Grounds!Sources, NEW extra \in Grounds!Inventable(sources)
  PROVE  extra \subseteq Grounds!Numbers /\ inventions + Grounds!Cardinality(extra) \in 0..MaxInventions
<1>1. pass \in 1..MaxPasses /\ inventions \in 0..MaxInventions
  BY GroundsNumbers DEF GroundsTypes, Grounds!TypeOK
<1>2. CASE extra = {}
  BY <1>1, <1>2, FS_EmptySet, CountsAlike, GroundsNumbers
<1>3. CASE extra # {}
  <2>1. inventions < MaxInventions /\ \E n \in Grounds!MadeUp \cup (sources \X (1..pass)) : extra = {n}
    BY <1>3 DEF Grounds!Inventable
  <2>2. PICK n \in Grounds!MadeUp \cup (sources \X (1..pass)) : extra = {n}
    BY <2>1
  <2>3. n \in Grounds!Numbers
    BY <1>1, <2>2, GroundsNumbers DEF Grounds!Numbers
  <2>4. Cardinality(extra) = 1
    BY <2>2, FS_Singleton
  <2> QED BY <1>1, <2>1, <2>2, <2>3, <2>4, CountsAlike, GroundsNumbers
<1> QED BY <1>2, <1>3

LEMMA EvidenceTyped ==
  ASSUME GroundsTypes, pass >= 1, NEW a \in Grounds!Agents, NEW alarming \in BOOLEAN
  PROVE  /\ Grounds!Consults[a] \subseteq Grounds!Sources
         /\ Grounds!Collected(a, alarming) \subseteq Grounds!Numbers
         /\ Grounds!Missing(a, alarming) \subseteq Grounds!Sources
<1>1. Grounds!Consults[a] \subseteq Grounds!Sources
  BY DEF Grounds!Sources
<1>2. Grounds!Tried(a, alarming) \subseteq Grounds!Sources
  BY <1>1, RiskRead DEF Grounds!Tried
<1>3. pass \in 1..MaxPasses
  BY GroundsNumbers DEF GroundsTypes, Grounds!TypeOK
<1>4. Grounds!Collected(a, alarming) \subseteq Grounds!Numbers
  BY <1>2, <1>3 DEF Grounds!Collected, Grounds!Numbers
<1>5. Grounds!Missing(a, alarming) \subseteq Grounds!Sources
  BY <1>1, <1>2 DEF Grounds!Missing
<1> QED BY <1>1, <1>4, <1>5

LEMMA GroundsTyped == ASSUME Grounds!Init PROVE GroundsTypes
<1>1. source \in [Grounds!Sources -> {"fresh", "stale", "down"}]
  BY DEF Grounds!Init
<1>2. 0 \in 0..MaxPasses /\ 0 \in 0..MAX_RETRY /\ 0 \in 0..MaxReadChanges /\ 0 \in 0..(MaxInventions + 1) /\ 0 <= MaxInventions
  BY GroundsNumbers
<1> QED BY <1>1, <1>2 DEF Grounds!Init, Grounds!TypeOK, GroundsTypes

LEMMA GroundsStay ==
  ASSUME GroundsInv, GroundsTypes, [Grounds!Next]_(Grounds!vars)
  PROVE  GroundsTypes'
<1>0. /\ stepAt \in {"manager", "specialists", "polish", "check", "gate", "done"}
      /\ source \in [Grounds!Sources -> {"fresh", "stale", "down"}]
      /\ pass \in 0..MaxPasses /\ retries \in 0..MAX_RETRY /\ pending \subseteq Grounds!Agents
      /\ \A r \in results :
           /\ r.agent \in Grounds!Agents /\ r.evidence \subseteq Grounds!Numbers /\ r.numbers \subseteq Grounds!Numbers
           /\ r.told \subseteq Grounds!Sources /\ r.unsure \in BOOLEAN
      /\ cited \subseteq Grounds!Numbers /\ text \subseteq Grounds!Numbers /\ voice \subseteq Grounds!Numbers
      /\ wrote \in BOOLEAN /\ checked \in {"none", "ok", "failed", "pass", "retry", "fallback"}
      /\ changed \in 0..MaxReadChanges /\ inventions \in 0..MaxInventions
      /\ stepAt # "manager" => pass >= 1
  BY GroundsNumbers DEF GroundsTypes, Grounds!TypeOK
<1> USE DEF GroundsTypes, Grounds!TypeOK
<1>1. ASSUME Grounds!Change PROVE GroundsTypes'
  <2>1. source' \in [Grounds!Sources -> {"fresh", "stale", "down"}]
    BY <1>0, <1>1 DEF Grounds!Change
  <2>2. changed' \in 0..MaxReadChanges
    BY <1>0, <1>1, GroundsNumbers DEF Grounds!Change
  <2> QED BY <1>0, <1>1, <2>1, <2>2, GroundsNumbers DEF Grounds!Change
<1>2. ASSUME Grounds!Manager PROVE GroundsTypes'
  <2>1. pending' \subseteq Grounds!Agents
    BY <1>2 DEF Grounds!Manager
  <2>2. pass' \in 1..MaxPasses
    BY <1>0, <1>2, GroundsNumbers DEF Grounds!Manager
  <2>3. retries' \in 0..MAX_RETRY
    BY <1>0, <1>2, GroundsNumbers DEF Grounds!Manager
  <2>4. pass' \in 0..MaxPasses /\ pass' >= 1 /\ inventions' \in 0..(MaxInventions + 1) /\ inventions' <= MaxInventions
    BY <1>0, <1>2, <2>2, GroundsNumbers DEF Grounds!Manager
  <2>5. /\ stepAt' = "specialists" /\ results' = {} /\ checked' = "none" /\ wrote' = FALSE /\ cited' = {} /\ text' = {}
        /\ voice' = {} /\ source' = source /\ changed' = changed
    BY <1>2 DEF Grounds!Manager, Grounds!Emptied
  <2> QED BY <1>0, <2>1, <2>3, <2>4, <2>5
<1>3. ASSUME NEW a \in Grounds!Agents, Grounds!Specialist(a) PROVE GroundsTypes'
  <2>1. stepAt = "specialists" /\ pass >= 1
    BY <1>0, <1>3 DEF Grounds!Specialist, GroundsInv
  <2>2. PICK alarming \in BOOLEAN :
          \/ \E extra \in Grounds!Inventable(Grounds!Consults[a]) :
               /\ results' = results \cup {Grounds!Result(a, alarming, Grounds!Writer(a, alarming, extra))}
               /\ wrote' = TRUE /\ Grounds!Invents(extra)
          \/ /\ results' = results \cup {Grounds!Result(a, alarming, Grounds!Template(a, alarming))}
             /\ UNCHANGED <<wrote, inventions>>
    BY <1>3 DEF Grounds!Specialist
  <2>3. \E said : /\ results' = results \cup {Grounds!Result(a, alarming, said)}
                  /\ said.numbers \subseteq Grounds!Numbers /\ said.told \subseteq Grounds!Sources
    <3>1. ASSUME NEW extra \in Grounds!Inventable(Grounds!Consults[a])
          PROVE  /\ Grounds!Writer(a, alarming, extra).numbers \subseteq Grounds!Numbers
                 /\ Grounds!Writer(a, alarming, extra).told \subseteq Grounds!Sources
      BY <2>1, <3>1, Invented, EvidenceTyped DEF Grounds!Writer
    <3>2. /\ Grounds!Template(a, alarming).numbers \subseteq Grounds!Numbers
          /\ Grounds!Template(a, alarming).told \subseteq Grounds!Sources
      BY <2>1, EvidenceTyped DEF Grounds!Template
    <3> QED BY <2>2, <3>1, <3>2
  <2>4. wrote' \in BOOLEAN /\ inventions' \in 0..MaxInventions
    <3>1. ASSUME NEW extra \in Grounds!Inventable(Grounds!Consults[a]), Grounds!Invents(extra)
          PROVE  inventions' \in 0..MaxInventions
      BY <2>1, <3>1, Invented, EvidenceTyped DEF Grounds!Invents
    <3> QED BY <1>0, <2>2, <3>1
  <2>5. PICK said : /\ results' = results \cup {Grounds!Result(a, alarming, said)}
                    /\ said.numbers \subseteq Grounds!Numbers /\ said.told \subseteq Grounds!Sources
    BY <2>3
  <2>6. LET r == Grounds!Result(a, alarming, said)
        IN  /\ r.agent \in Grounds!Agents /\ r.evidence \subseteq Grounds!Numbers /\ r.numbers \subseteq Grounds!Numbers
            /\ r.told \subseteq Grounds!Sources /\ r.unsure \in BOOLEAN
    BY <2>1, <2>5, EvidenceTyped DEF Grounds!Result
  <2>7. \A r \in results' :
          /\ r.agent \in Grounds!Agents /\ r.evidence \subseteq Grounds!Numbers /\ r.numbers \subseteq Grounds!Numbers
          /\ r.told \subseteq Grounds!Sources /\ r.unsure \in BOOLEAN
    BY <1>0, <2>5, <2>6
  <2> QED BY <1>0, <1>3, <2>4, <2>7, GroundsNumbers DEF Grounds!Specialist
<1>4. ASSUME Grounds!ActionAdvisor PROVE GroundsTypes'
  <2>1. stepAt = "specialists" /\ pass >= 1
    BY <1>0, <1>4 DEF Grounds!ActionAdvisor
  <2>2. PICK acting \in BOOLEAN, extra \in Grounds!Inventable({"guides"}) :
          /\ cited' = IF acting /\ source["guides"] = "fresh" THEN {<<"guides", pass>>} ELSE {}
          /\ text' = (UNION {r.numbers : r \in results}) \cup cited' \cup extra
          /\ wrote' = (wrote \/ extra # {}) /\ Grounds!Invents(extra)
    BY <1>4 DEF Grounds!ActionAdvisor
  <2>3. {"guides"} \subseteq Grounds!Sources
    BY DEF Grounds!Sources
  <2>4. extra \subseteq Grounds!Numbers /\ inventions' \in 0..MaxInventions
    BY <2>1, <2>2, <2>3, Invented DEF Grounds!Invents
  <2>5. cited' \subseteq Grounds!Numbers
    BY <1>0, <2>1, <2>2, <2>3, GroundsNumbers DEF Grounds!Numbers
  <2>6. text' \subseteq Grounds!Numbers
    BY <1>0, <2>2, <2>4, <2>5
  <2>7. wrote' \in BOOLEAN
    BY <1>0, <2>2
  <2> QED BY <1>0, <1>4, <2>4, <2>5, <2>6, <2>7, GroundsNumbers DEF Grounds!ActionAdvisor
<1>5. ASSUME Grounds!Polish PROVE GroundsTypes'
  <2>1. stepAt = "polish" /\ pass >= 1
    BY <1>0, <1>5 DEF Grounds!Polish
  <2>2. {"risk"} \subseteq Grounds!Sources
    BY RiskRead
  <2>3. ASSUME NEW inText \in Grounds!Inventable({"risk"}), NEW inVoice \in Grounds!Inventable({"risk"}),
               inText = {} \/ inVoice = {}, text' = text \cup inText, voice' = inVoice, Grounds!Invents(inText \cup inVoice)
        PROVE  text' \subseteq Grounds!Numbers /\ voice' \subseteq Grounds!Numbers /\ inventions' \in 0..MaxInventions
    <3>1. inText \cup inVoice \in Grounds!Inventable({"risk"})
      <4>1. inText \cup inVoice = inText \/ inText \cup inVoice = inVoice
        BY <2>3
      <4> QED BY <2>3, <4>1
    <3>2. inventions' \in 0..MaxInventions
      BY <2>1, <2>2, <2>3, <3>1, Invented DEF Grounds!Invents
    <3>3. inText \subseteq Grounds!Numbers /\ inVoice \subseteq Grounds!Numbers
      BY <2>1, <2>2, <2>3, Invented
    <3> QED BY <1>0, <2>3, <3>2, <3>3
  <2>4. /\ text' \subseteq Grounds!Numbers /\ voice' \subseteq Grounds!Numbers /\ inventions' \in 0..MaxInventions
        /\ wrote' \in BOOLEAN
    BY <1>0, <1>5, <2>3 DEF Grounds!Polish
  <2> QED BY <1>0, <1>5, <2>4, GroundsNumbers DEF Grounds!Polish
<1>6. ASSUME Grounds!HallucinationCheck PROVE GroundsTypes'
  BY <1>0, <1>6, GroundsNumbers DEF Grounds!HallucinationCheck
<1>7. ASSUME Grounds!VerifyGate PROVE GroundsTypes'
  <2>1. retries' \in 0..MAX_RETRY
    BY <1>0, <1>7, GroundsNumbers DEF Grounds!VerifyGate
  <2> QED BY <1>0, <1>7, <2>1, GroundsNumbers DEF Grounds!VerifyGate
<1>8. ASSUME UNCHANGED Grounds!vars PROVE GroundsTypes'
  BY <1>0, <1>8, GroundsNumbers DEF Grounds!vars
<1> QED BY <1>1, <1>2, <1>3, <1>4, <1>5, <1>6, <1>7, <1>8 DEF Grounds!Next

(* One advice: which specialists answer, and which phase it is.            *)
AnswerTypes == agents \subseteq {"hazards", "route", "recovery"} /\ phase \in {"none", "before", "during", "after"}

LEMMA AnswerStay == ASSUME AnswerTypes, [Answer!Next]_(Answer!vars) PROVE AnswerTypes'
<1> USE DEF AnswerTypes
<1>1. ASSUME Answer!Manager PROVE AnswerTypes'
  BY <1>1 DEF Answer!Manager, Answer!DecidePhase
<1>2. ASSUME Answer!LocationRouteAgent \/ Answer!Advise \/ Answer!EvacuationRoute \/ Answer!Write PROVE AnswerTypes'
  BY <1>2 DEF Answer!LocationRouteAgent, Answer!Advise, Answer!EvacuationRoute, Answer!Write
<1>3. ASSUME UNCHANGED Answer!vars PROVE AnswerTypes'
  BY <1>3 DEF Answer!vars
<1> QED BY <1>1, <1>2, <1>3 DEF Answer!Next

LEMMA AnswerShows == ASSUME AdviceInv, AnswerTypes PROVE Answer!TypeOK
BY DEF AdviceInv, AnswerTypes, Answer!TypeOK, Plans

(* The text about a route: an answer is kept once.                         *)
BriefTypes ==
  /\ clock \in 0..MaxClock /\ outside \in [storm : BOOLEAN, down : SUBSET Brief!Reads]
  /\ \A e, o \in stored : e.key = o.key => e = o
  /\ asks \in 0..MaxAsks /\ weathers \in 0..MaxWeather

LEMMA BriefBounds == MaxClock \in Nat /\ MaxAsks \in Nat /\ MaxWeather \in Nat
BY GuidanceAssumption DEF Brief!RouteBriefAssumption

LEMMA BriefTyped == ASSUME Brief!Init PROVE BriefTypes
<1>1. 0 \in 0..MaxClock /\ 0 \in 0..MaxAsks /\ 0 \in 0..MaxWeather
  BY BriefBounds
<1> QED BY <1>1 DEF Brief!Init, BriefTypes

LEMMA BriefStay == ASSUME BriefTypes, [Brief!Next]_(Brief!vars) PROVE BriefTypes'
<1> USE BriefBounds DEF BriefTypes
<1>1. ASSUME Brief!Tick PROVE BriefTypes'
  BY <1>1 DEF Brief!Tick
<1>2. ASSUME Brief!Weather PROVE BriefTypes'
  <2>1. weathers' \in 0..MaxWeather
    BY <1>2 DEF Brief!Weather
  <2>2. outside' \in [storm : BOOLEAN, down : SUBSET Brief!Reads]
    <3>1. ASSUME NEW down \in {{s} : s \in Brief!Reads} \cup {Brief!Reads}, outside' = [outside EXCEPT !.down = down]
          PROVE  outside' \in [storm : BOOLEAN, down : SUBSET Brief!Reads]
      <4>1. down \in SUBSET Brief!Reads
        OBVIOUS
      <4> QED BY <3>1, <4>1
    <3>2. CASE outside' = [outside EXCEPT !.storm = TRUE]
      BY <3>2
    <3> QED BY <1>2, <3>1, <3>2 DEF Brief!Weather
  <2> QED BY <1>2, <2>1, <2>2 DEF Brief!Weather
<1>3. ASSUME NEW c \in Callers, NEW req \in Brief!BriefRequests, Brief!Ask(c, req) PROVE BriefTypes'
  <2>1. stored' \subseteq stored
    BY <1>3 DEF Brief!Ask, Brief!Young
  <2>2. asks' \in 0..MaxAsks
    BY <1>3 DEF Brief!Ask
  <2> QED BY <1>3, <2>1, <2>2 DEF Brief!Ask
<1>4. ASSUME NEW c \in Callers, Brief!Read(c) PROVE BriefTypes'
  BY <1>4 DEF Brief!Read
<1>5. ASSUME NEW c \in Callers, Brief!Finish(c) PROVE BriefTypes'
  <2>1. PICK e : stored' = {o \in stored : o.key # e.key} \cup {e}
    BY <1>5 DEF Brief!Finish, Brief!Kept
  <2>2. \A d, o \in stored' : d.key = o.key => d = o
    BY <2>1
  <2> QED BY <1>5, <2>2 DEF Brief!Finish
<1>6. ASSUME UNCHANGED Brief!vars PROVE BriefTypes'
  BY <1>6 DEF Brief!vars
<1> QED BY <1>1, <1>2, <1>3, <1>4, <1>5, <1>6 DEF Brief!Next

LEMMA BriefShows == ASSUME BriefInv, BriefTypes PROVE Brief!TypeOK
<1>1. \A e \in stored : e.of \in Brief!BriefRequests /\ e.at <= clock
  BY DEF BriefInv, Grounded, Honest
<1>2. \A c \in Callers : work[c] # None =>
        work[c].req \in Brief!BriefRequests /\ (work[c].ev # None => work[c].ev.missing \subseteq Brief!Reads \cup {"zones"})
  BY DEF BriefInv, Works, Evidences
<1> QED BY <1>1, <1>2 DEF BriefTypes, Brief!TypeOK

(* A drill's questions: rows are the drill's or real.                      *)
Valued(rows) == \A row \in rows : row.value \in {"drill", "real"}
RowTypes ==
  /\ aging \in BOOLEAN
  /\ kept # None => \A t \in DOMAIN kept : Valued(kept[t])
  /\ \A a \in Questions : \A h \in learnt[a] : Valued(h.rows)

LEMMA RowsTyped == ASSUME Tools!Init PROVE RowTypes
BY DEF Tools!Init, RowTypes

LEMMA HeardValued ==
  ASSUME RowTypes, ToolTypes, NEW a \in Questions, NEW what, \A h \in what : Valued(h.rows), Tools!Hears(a, what)
  PROVE  \A q \in Questions : \A h \in learnt'[q] : Valued(h.rows)
<1>1. \A q \in Questions : learnt'[q] = IF q = a THEN learnt[a] \cup what ELSE learnt[q]
  BY DEF Tools!Hears, ToolTypes
<1> QED BY <1>1 DEF RowTypes

LEMMA FoundValued ==
  ASSUME NEW sql \in DOMAIN MCReads, NEW rows, \A t \in DOMAIN rows : Valued(rows[t])
  PROVE  \A h \in Tools!Found(sql, rows) : Valued(h.rows)
<1>1. \A t : Valued(Tools!Stored(t))
  BY DEF Tools!Stored, Tools!Real, Valued
<1> QED BY <1>1 DEF Tools!Found

LEMMA RowsStay == ASSUME RowTypes, ToolTypes, WorldInv, [Tools!Next]_(Tools!drillDataVars) PROVE RowTypes'
<1>0. \A sql : \A h \in Tools!Unavailable(sql) : Valued(h.rows)
  BY DEF Tools!Unavailable, Valued
<1>1. ASSUME NEW a \in Questions, NEW drill \in BOOLEAN, Tools!Ask(a, drill) PROVE RowTypes'
  BY <1>1 DEF Tools!Ask, RowTypes
<1>2. ASSUME NEW a \in Questions, Tools!Ends(a) PROVE RowTypes'
  <2>1. \A q \in Questions : learnt'[q] = IF q = a THEN {} ELSE learnt[q]
    BY <1>2 DEF Tools!Ends, ToolTypes
  <2> QED BY <1>2, <2>1 DEF Tools!Ends, RowTypes
<1>3. ASSUME NEW a \in Questions, NEW sql \in DOMAIN MCReads, Tools!Query(a, sql) PROVE RowTypes'
  <2>1. \A h \in Tools!Found(sql, Tools!Uncovered) : Valued(h.rows)
    BY FoundValued DEF Tools!Uncovered
  <2>2. \A h \in {[table |-> "risk_assessments", rows |-> {IF Tools!Active(a) THEN Tools!Made ELSE Tools!Real}]} : Valued(h.rows)
    BY DEF Tools!Made, Tools!Real, Valued
  <2>3. \A q \in Questions : \A h \in learnt'[q] : Valued(h.rows)
    BY <1>3, <2>1, <2>2, HeardValued DEF Tools!Query, RowTypes
  <2> QED BY <1>3, <2>3 DEF Tools!Query, RowTypes
<1>4. ASSUME NEW a \in Questions, NEW sql \in DOMAIN MCReads, Tools!QueryFails(a, sql) PROVE RowTypes'
  BY <1>0, <1>4, HeardValued DEF Tools!QueryFails, RowTypes
<1>5. ASSUME NEW a \in Questions, NEW sql \in DOMAIN MCReads, Tools!UseRows(a, sql) PROVE RowTypes'
  <2>1. \A h \in Tools!Found(sql, kept) : Valued(h.rows)
    BY <1>5, FoundValued DEF Tools!UseRows, RowTypes
  <2> QED BY <1>5, <2>1, HeardValued DEF Tools!UseRows, RowTypes
<1>6. ASSUME NEW a \in Questions, NEW sql \in DOMAIN MCReads, Tools!LoadBegins(a, sql) PROVE RowTypes'
  BY <1>6 DEF Tools!LoadBegins, RowTypes
<1>7. ASSUME Tools!Get PROVE RowTypes'
  BY <1>7 DEF Tools!Get, RowTypes
<1>8. ASSUME Tools!Loads PROVE RowTypes'
  <2>1. Len(loader.rows) = 3 /\ \A i \in 1..3 : loader.rows[i] = Tools!Answered(Tools!Parts[i])
    BY <1>8 DEF Tools!Loads, Tools!Parts, WorldInv
  <2>2. \A i \in 1..3 : Valued(loader.rows[i])
    BY <2>1 DEF Tools!Answered, Tools!StationsLayer, Tools!Made, Valued
  <2>3. Valued(Tools!ObservationRows(loader.rows[2])) /\ Valued({Tools!Made})
    BY <2>2 DEF Tools!ObservationRows, Tools!Made, Valued
  <2>4. \A t \in DOMAIN Tools!RowsOf(loader.rows) : Valued(Tools!RowsOf(loader.rows)[t])
    BY <2>2, <2>3 DEF Tools!RowsOf
  <2> QED BY <1>8, <2>4 DEF Tools!Loads, RowTypes
<1>9. ASSUME Tools!GetFails PROVE RowTypes'
  <2>1. loader.by[1] \in Questions
    BY <1>9 DEF Tools!GetFails, ToolTypes
  <2> QED BY <1>0, <1>9, <2>1, HeardValued DEF Tools!GetFails, RowTypes
<1>10. ASSUME Tools!MinutePasses \/ UNCHANGED Tools!drillDataVars PROVE RowTypes'
  BY <1>10 DEF Tools!MinutePasses, Tools!drillDataVars, RowTypes
<1> QED BY <1>1, <1>2, <1>3, <1>4, <1>5, <1>6, <1>7, <1>8, <1>9, <1>10 DEF Tools!Next

LEMMA ToolShows == ASSUME RowTypes, ToolTypes, WorldInv PROVE Tools!TypeOK
<1>1. Len(loader.rows) \in 0..3
  <2>1. PICK rows \in Seq(Layers) : rows = loader.rows
    BY DEF ToolTypes
  <2>2. Len(rows) \in Nat /\ Len(rows) <= 3
    BY <2>1, LenProperties DEF WorldInv
  <2>3. Len(loader.rows) = Len(rows)
    BY <2>1
  <2>4. PICK n : n = Len(rows)
    OBVIOUS
  <2>5. n \in 0..3
    BY <2>2, <2>4
  <2> QED BY <2>3, <2>4, <2>5, Zenon
<1> QED BY <1>1 DEF RowTypes, ToolTypes, WorldInv, Valued, Tools!TypeOK

(* What is spent, the way by sea and the round: as their invariants say.   *)
LEMMA SpendShows == ASSUME UsageInv PROVE Spend!TypeOK
<1>1. \A t \in Spend!Threads : recording[t].step \in Steps /\ recording[t].cost \in Costs \cup {0}
  BY DEF UsageInv, UsageTypes
<1>2. ledger \notin {None, Unreadable} => ledger \in Records
  BY DEF UsageInv, UsageTypes
<1> QED BY <1>1, <1>2 DEF UsageInv, UsageTypes, Records, Months, Steps, Spend!Saving, Spend!TypeOK

LEMMA BoatShowsTypes == ASSUME BoatInv PROVE Boat!TypeOK
<1>1. \A c \in DOMAIN prev : c \in Boat!Cells /\ prev[c] \in Boat!Cells
  BY DEF BoatInv, SearchTypes
<1> QED BY <1>1 DEF BoatInv, SearchTypes, Bent, PortBest, Boat!TypeOK

LEMMA RoundShowsTypes == ASSUME RoundInv PROVE Round!TypeOK
<1>1. ASSUME plans # None, NEW w \in {"shortest", "priority"} PROVE plans[w] \in [Round!Houses -> Round!Houses]
  <2>1. \A b \in BOOLEAN : plans[IF b THEN "priority" ELSE "shortest"] \in Round!Orders
    BY <1>1 DEF RoundInv, BestOrder, Round!BestOrder
  <2>2. plans["priority"] \in Round!Orders /\ plans["shortest"] \in Round!Orders
    BY <2>1
  <2> QED BY <1>1, <2>2 DEF Round!Orders
<1> QED BY <1>1 DEF RoundInv, TiersRead, RoundMeasured, H, Round!TypeOK

(* A walk: what GraphHopper is asked for exists, and a way on which there  *)
(* is still a leg to go is not at the goal.                                *)
OnTheWay(way) == way \in Seq(Legs) /\ \A i \in 1..(Len(way) - 1) : To[way[i]] # Goal
WalkInv ==
  /\ TypeOK /\ node \in Nodes
  /\ path # None => OnTheWay(path)
  /\ path \notin {None, <<>>} => node # Goal
  /\ path = None => node = Start
  /\ call # None => path \notin {None, <<>>}

LEMMA NodeWays ==
  ASSUME NEW n \in Nodes, n # Goal
  PROVE  Ways[n] # {} /\ \A way \in Ways[n] : OnTheWay(way) /\ way # <<>>
BY NavigationAssumption DEF OnTheWay

LEMMA LegCostTyped == ASSUME NEW leg \in Legs, NEW list, NEW wide PROVE LegCost(leg, list, wide) \in Nat
<1>1. Length[leg] \in Nat
  BY NavigationAssumption
<1> QED BY <1>1 DEF LegCost

LEMMA CostTyped == ASSUME NEW way \in Seq(Legs), NEW list, NEW wide PROVE Cost(way, list, wide) \in Nat
<1> DEFINE n == Len(way)
           at_(i) == LegCost(way[i], list, wide)
           a == [i \in 1..n |-> at_(i)]
           to == CHOOSE f : f = [i \in 0..n |-> IF i = 0 THEN 0 ELSE f[i - 1] + at_(i)]
<1>1. n \in Nat /\ \A i \in 1..n : way[i] \in Legs
  BY LenProperties, ElementOfSeq
<1>2. \A i \in 1..n : a[i] \in Nat
  BY <1>1, LegCostTyped
<1>3. ASSUME NEW f
      PROVE  [i \in 0..n |-> IF i = 0 THEN 0 ELSE f[i - 1] + at_(i)]
             = [i \in 0..n |-> IF i = 0 THEN 0 ELSE f[i - 1] + a[i]]
  <2>1. ASSUME NEW i \in 0..n, i # 0 PROVE a[i] = at_(i)
    BY <1>1, <2>1
  <2> HIDE DEF a, at_, n
  <2> QED BY <2>1
<1>4. \E f : f = [i \in 0..n |-> IF i = 0 THEN 0 ELSE f[i - 1] + at_(i)]
  <2> HIDE DEF a, at_, n
  <2>1. PICK f : Sums(f, a, n)
    BY <1>1, SumsExist
  <2>2. f = [i \in 0..n |-> IF i = 0 THEN 0 ELSE f[i - 1] + a[i]]
    BY <2>1 DEF Sums
  <2>3. f = [i \in 0..n |-> IF i = 0 THEN 0 ELSE f[i - 1] + at_(i)]
    BY <1>3, <2>2, Zenon
  <2> QED BY <2>3
<1>5. to = [i \in 0..n |-> IF i = 0 THEN 0 ELSE to[i - 1] + at_(i)]
  <2> HIDE DEF at_, n
  <2> QED BY <1>4
<1>6. Cost(way, list, wide) = to[n]
  BY DEF Cost
<1>7. Sums(to, a, n)
  <2> HIDE DEF to, a, at_, n
  <2>1. to = [i \in 0..n |-> IF i = 0 THEN 0 ELSE to[i - 1] + a[i]]
    BY <1>3, <1>5, Zenon
  <2> QED BY <2>1 DEF Sums
<1>8. to[n] \in Nat
  <2> HIDE DEF to, a, at_, n
  <2>1. \A i \in 0..n : to[i] \in Nat
    BY <1>1, <1>2, <1>7, SumsTyped
  <2> QED BY <1>1, <2>1
<1> QED BY <1>6, <1>8

LEMMA CheapestIs == ASSUME NEW n \in Nodes, n # Goal, NEW list, NEW wide PROVE Cheapest(n, list, wide) \in Ways[n]
<1> DEFINE T == {Cost(way, list, wide) : way \in Ways[n]}
<1>1. \A way \in Ways[n] : Cost(way, list, wide) \in Nat
  BY NodeWays, CostTyped DEF OnTheWay
<1>2. PICK x \in T : \A y \in T : x <= y
  <2>1. T \in SUBSET Nat /\ T # {}
    BY <1>1, NodeWays
  <2> HIDE DEF T
  <2> QED BY <2>1, Least
<1>3. PICK way \in Ways[n] : x = Cost(way, list, wide)
  OBVIOUS
<1>4. \A other \in Ways[n] : Cost(way, list, wide) <= Cost(other, list, wide)
  BY <1>2, <1>3
<1> QED BY <1>4 DEF Cheapest

LEMMA RouteIs == ASSUME NEW n \in Nodes, n # Goal, NEW list \in SUBSET Zones PROVE Route(n, list) \in Ways[n]
<1> DEFINE asked == IF strategy = "shortest" THEN {} ELSE list
           way == WidenUntilClear(n, asked, Cheapest(n, asked, Plain))
<1>1. way \in Ways[n]
  BY CheapestIs DEF WidenUntilClear
<1>2. <<n, asked, way>> \in SafestRoutes
  BY DEF SafestRoutes
<1> HIDE DEF way
<1> QED BY <1>1, <1>2 DEF Route

LEMMA WalkInit == ASSUME Init PROVE WalkInv
BY NavigationAssumption DEF Init, WalkInv, TypeOK

LEMMA NewWay ==
  ASSUME NEW n \in Nodes, n # Goal, NEW list \in SUBSET Zones
  PROVE  LET way == Route(n, list) IN OnTheWay(way) /\ way # <<>> /\ Inside(way, list) \subseteq Zones
BY RouteIs, NodeWays DEF Inside

LEMMA WayOn ==
  ASSUME NEW way, OnTheWay(way), way # <<>>
  PROVE  /\ OnTheWay(Tail(way)) /\ To[Head(way)] \in Nodes
         /\ Tail(way) # <<>> => To[Head(way)] # Goal
<1> DEFINE rest == Tail(way)
<1>1. way \in Seq(Legs) /\ Len(way) \in Nat /\ Len(way) # 0
  BY LenProperties, EmptySeq DEF OnTheWay
<1>2. /\ Head(way) = way[1] /\ way[1] \in Legs /\ rest \in Seq(Legs) /\ Len(rest) = Len(way) - 1
      /\ \A i \in 1..Len(rest) : rest[i] = way[i + 1]
  BY <1>1, HeadTailProperties, ElementOfSeq
<1> HIDE DEF rest
<1>3. OnTheWay(rest)
  <2>1. ASSUME NEW i \in 1..(Len(rest) - 1) PROVE To[rest[i]] # Goal
    <3>1. rest[i] = way[i + 1] /\ i + 1 \in 1..(Len(way) - 1)
      BY <1>1, <1>2
    <3> QED BY <3>1 DEF OnTheWay
  <2> QED BY <1>2, <2>1 DEF OnTheWay
<1>4. To[Head(way)] \in Nodes
  BY <1>2, NavigationAssumption
<1>5. ASSUME rest # <<>> PROVE To[Head(way)] # Goal
  <2>1. Len(rest) \in Nat /\ Len(rest) # 0
    BY <1>2, <1>5, LenProperties, EmptySeq
  <2>2. 1 \in 1..(Len(way) - 1)
    BY <1>1, <1>2, <2>1
  <2> QED BY <1>2, <2>2 DEF OnTheWay
<1> QED BY <1>3, <1>4, <1>5 DEF rest

LEMMA WalkNext == ASSUME WalkInv, [Next]_vars PROVE WalkInv'
<1>0. /\ zones \subseteq Zones /\ warned \subseteq Zones /\ (cached = None \/ cached \subseteq Zones)
      /\ {old, off} \subseteq BOOLEAN /\ node \in Nodes /\ (call = None \/ call.ahead \subseteq Zones)
  BY DEF WalkInv, TypeOK
<1>00. \A way : OnTheWay(way) => way \in Seq(Legs)
  BY DEF OnTheWay
<1>1. ASSUME AskRoute PROVE WalkInv'
  <2>1. path = None /\ node = Start /\ node # Goal
    BY <1>1, NavigationAssumption DEF AskRoute, WalkInv
  <2>2. PICK list \in SUBSET Zones : Read(list) /\ path' = Route(node, list) /\ warned' = Inside(path', list)
    BY <1>1 DEF AskRoute
  <2>3. OnTheWay(path') /\ path' # <<>> /\ warned' \subseteq Zones
    BY <1>0, <2>1, <2>2, NewWay DEF Inside
  <2>4. (cached' = None \/ cached' \subseteq Zones) /\ old' \in BOOLEAN
    BY <1>0, <2>2 DEF Read
  <2>5. call = None /\ call' = None
    BY <1>1, <2>1 DEF AskRoute, WalkInv
  <2> QED BY <1>0, <1>00, <1>1, <2>1, <2>3, <2>4, <2>5 DEF AskRoute, WalkInv, TypeOK
<1>2. ASSUME CheckBegins PROVE WalkInv'
  <2>1. PICK list \in SUBSET Zones : Read(list) /\ call' = [ahead |-> Inside(path, list)]
    BY <1>2 DEF CheckBegins
  <2>2. call'.ahead \subseteq Zones
    BY <2>1 DEF Inside
  <2>3. (cached' = None \/ cached' \subseteq Zones) /\ old' \in BOOLEAN
    BY <1>0, <2>1 DEF Read
  <2> QED BY <1>0, <1>00, <1>2, <2>2, <2>3 DEF CheckBegins, WalkInv, TypeOK
<1>3. ASSUME CheckEnds PROVE WalkInv'
  <2>1. path \notin {None, <<>>} /\ node # Goal /\ call.ahead \subseteq Zones /\ call' = None
    BY <1>0, <1>3 DEF CheckEnds, WalkInv
  <2>2. UNCHANGED <<zones, node, strategy>>
    BY <1>3 DEF CheckEnds
  <2>3. CASE ~ off /\ call.ahead = {}
    BY <1>0, <1>00, <1>3, <2>1, <2>2, <2>3 DEF CheckEnds, WalkInv, TypeOK
  <2>4. CASE ~ (~ off /\ call.ahead = {})
    <3>1. PICK list \in SUBSET Zones :
            LET way == Route(node, list) IN
              /\ Read(list)
              /\ IF Reroutes(call.ahead, Inside(way, list))
                 THEN path' = way /\ warned' = Inside(way, list) /\ off' = FALSE
                 ELSE warned' = call.ahead /\ UNCHANGED <<path, off>>
      BY <1>3, <2>4 DEF CheckEnds
    <3>2. PICK way : way = Route(node, list)
      OBVIOUS
    <3>3. OnTheWay(way) /\ way # <<>> /\ Inside(way, list) \subseteq Zones
      BY <1>0, <2>1, <3>2, NewWay
    <3>4. (cached' = None \/ cached' \subseteq Zones) /\ old' \in BOOLEAN
      BY <1>0, <3>1 DEF Read
    <3>5. \/ path' = way /\ warned' = Inside(way, list) /\ off' = FALSE
          \/ warned' = call.ahead /\ path' = path /\ off' = off
      BY <3>1, <3>2
    <3>6. /\ OnTheWay(path') /\ path' # <<>> /\ warned' \subseteq Zones /\ off' \in BOOLEAN
      BY <1>0, <2>1, <3>3, <3>5 DEF WalkInv
    <3>7. path' # None
      BY <2>1, <3>2, <3>3, <3>5, NavigationAssumption DEF OnTheWay
    <3> QED BY <1>0, <1>00, <2>1, <2>2, <3>4, <3>6, <3>7 DEF WalkInv, TypeOK
  <2> QED BY <2>3, <2>4
<1>4. ASSUME CheckFails PROVE WalkInv'
  BY <1>0, <1>00, <1>4 DEF CheckFails, WalkInv, TypeOK
<1>5. ASSUME Walk PROVE WalkInv'
  <2>1. path # None /\ OnTheWay(path) /\ path # <<>> /\ call = None
    BY <1>5 DEF Walk, WalkInv
  <2>2. /\ path' = Tail(path) /\ node' = To[Head(path)] /\ OnTheWay(path') /\ node' \in Nodes
        /\ path' # <<>> => node' # Goal
    BY <1>5, <2>1, WayOn DEF Walk
  <2>3. path' # None
    BY <2>1, <2>2, NavigationAssumption DEF OnTheWay
  <2> QED BY <1>0, <1>00, <1>5, <2>1, <2>2, <2>3 DEF Walk, WalkInv, TypeOK
<1>6. ASSUME Stray PROVE WalkInv'
  <2>1. path \notin {None, <<>>} /\ node # Goal /\ OnTheWay(path)
    BY <1>6 DEF Stray, WalkInv
  <2>2. PICK way \in Ways[node] : To[Head(way)] # Goal /\ node' = To[Head(way)]
    BY <1>6 DEF Stray
  <2>3. OnTheWay(way) /\ way # <<>>
    BY <1>0, <2>1, <2>2, NodeWays
  <2>4. node' \in Nodes /\ node' # Goal
    BY <2>2, <2>3, WayOn
  <2> QED BY <1>0, <1>00, <1>6, <2>1, <2>4 DEF Stray, WalkInv, TypeOK
<1>7. ASSUME ZonesChange PROVE WalkInv'
  BY <1>0, <1>00, <1>7 DEF ZonesChange, WalkInv, TypeOK
<1>8. ASSUME CacheAges PROVE WalkInv'
  BY <1>0, <1>00, <1>8 DEF CacheAges, WalkInv, TypeOK
<1>9. ASSUME UNCHANGED vars PROVE WalkInv'
  BY <1>0, <1>00, <1>9 DEF vars, WalkInv, TypeOK
<1> QED BY <1>1, <1>2, <1>3, <1>4, <1>5, <1>6, <1>7, <1>8, <1>9 DEF Next

(* Conversations: a memory is of questions that were answered, none twice, *)
(* and a question's run is sent back at most MAX_RETRY times.              *)
Done == {q \in Questions : turn[q].at = "done"}
Past(s, done) ==
  /\ s \in Seq(Questions)
  /\ \A i \in 1..Len(s) : s[i] \in done /\ \A j \in 1..Len(s) : s[i] = s[j] => i = j
Within(m, done) == Past(m.history, done) /\ m.retries \in 0..MAX_RETRY
Bounded(t, done) == Within(t.state, done) /\ Past(t.read, done) /\ t.passes \in 0..2
TalkBounds ==
  /\ \A c \in overlapped : c \in used
  /\ lapses \in 0..MaxLapses /\ restarts \in 0..MaxRestarts
  /\ \A c \in Conversations : Within(saved[c], Done)
  /\ \A q \in Questions : Bounded(turn[q], Done)

LEMMA TalkNumbers == MAX_RETRY \in Nat /\ MaxLapses \in Nat /\ MaxRestarts \in Nat
BY GuidanceAssumption DEF Talk!GuardianAssumption

LEMMA PastLonger ==
  ASSUME NEW done, NEW more, \A p \in done : p \in more
  PROVE  /\ \A s : Past(s, done) => Past(s, more)
         /\ \A m : Within(m, done) => Within(m, more)
         /\ \A t : Bounded(t, done) => Bounded(t, more)
<1>1. \A s : Past(s, done) => Past(s, more)
  BY DEF Past
<1>2. \A m : Within(m, done) => Within(m, more)
  BY <1>1 DEF Within
<1>3. \A t : Bounded(t, done) => Bounded(t, more)
  BY <1>1, <1>2 DEF Bounded
<1> QED BY <1>1, <1>2, <1>3

LEMMA BlankWithin ==
  ASSUME NEW done
  PROVE  Past(<<>>, done) /\ Within(Talk!Blank, done) /\ Bounded(Talk!NotAsked, done)
<1>1. Past(<<>>, done)
  BY EmptySeq DEF Past
<1>2. Within(Talk!Blank, done)
  BY <1>1, TalkNumbers DEF Within, Talk!Blank
<1> QED BY <1>1, <1>2 DEF Bounded, Talk!NotAsked

LEMMA BoundsMove ==
  ASSUME TalkInv, TalkBounds, NEW q \in Questions, Talk!Running(q), NEW next, NEW m,
         turn' = [turn EXCEPT ![q] = next], saved' = [saved EXCEPT ![turn[q].cid] = m],
         UNCHANGED <<used, overlapped, lapses, restarts>>,
         LET done == IF next.at = "done" THEN Done \cup {q} ELSE Done
         IN  Within(m, done) /\ Bounded(next, done)
  PROVE  TalkBounds'
<1>1. turn[q].cid \in Conversations /\ turn[q].at # "done" /\ turn \in [Questions -> Turns]
      /\ saved \in [Conversations -> Memories]
  BY Runs DEF Talk!Running, TalkInv, TalkTypes
<1>2. turn'[q] = next /\ \A p \in Questions : p # q => turn'[p] = turn[p]
  BY <1>1
<1>3. saved'[turn[q].cid] = m /\ \A c \in Conversations : c # turn[q].cid => saved'[c] = saved[c]
  BY <1>1
<1>4. Done' = IF next.at = "done" THEN Done \cup {q} ELSE Done
  BY <1>1, <1>2 DEF Done
<1>5. Within(m, Done') /\ Bounded(next, Done') /\ \A p \in Done : p \in Done'
  BY <1>4
<1>6. \A c \in Conversations : Within(saved'[c], Done')
  BY <1>3, <1>5, PastLonger DEF TalkBounds
<1>7. \A p \in Questions : Bounded(turn'[p], Done')
  BY <1>2, <1>5, PastLonger DEF TalkBounds
<1>8. /\ \A c \in Conversations : Within(saved[c], Done)'
      /\ \A p \in Questions : Bounded(turn[p], Done)'
  BY <1>6, <1>7 DEF Within, Bounded, Past
<1> QED BY <1>8 DEF TalkBounds

(* What a running question has: a place in a memory and a turn within      *)
(* their bounds.                                                           *)
LEMMA RunsBounded ==
  ASSUME TalkInv, TalkBounds, NEW q \in Questions, Talk!Running(q)
  PROVE  /\ turn[q].cid \in Conversations /\ turn[q].at \notin {"new", "done"} /\ turn[q] \in Turns
         /\ saved[turn[q].cid] \in Memories /\ Within(saved[turn[q].cid], Done) /\ Bounded(turn[q], Done)
BY Runs DEF TalkBounds, Talk!Running

LEMMA AnsweringBounds ==
  ASSUME TalkInv, TalkBounds, NEW q \in Questions, Talk!Answering(q)
  PROVE  TalkBounds'
<1> PICK t : t = turn[q]
  OBVIOUS
<1> PICK m : m = saved[turn[q].cid]
  OBVIOUS
<1>1. Talk!Running(q)
  BY DEF Talk!Answering, Talk!ReadHistory, Talk!BeginTurn, Talk!Classify, Talk!Manage, Talk!DirectReply,
         Talk!Advise, Talk!VerifyGate, Talk!Finalize, Talk!Result, Talk!Record, Talk!Running
<1>2. /\ turn[q].cid \in Conversations /\ t = turn[q] /\ t \in Turns /\ m \in Memories
      /\ Within(m, Done) /\ Bounded(t, Done)
  BY <1>1, RunsBounded
<1>3. UNCHANGED <<used, overlapped, lapses, restarts>>
  BY DEF Talk!Answering, Talk!ReadHistory, Talk!BeginTurn, Talk!Classify, Talk!Manage, Talk!DirectReply,
         Talk!Advise, Talk!VerifyGate, Talk!Finalize, Talk!Result, Talk!Record
<1>4. /\ Past(t.read, Done) /\ Within(t.state, Done) /\ t.passes \in 0..2 /\ Past(m.history, Done)
      /\ m.retries \in 0..MAX_RETRY /\ Past(t.state.history, Done) /\ t.state.retries \in 0..MAX_RETRY
  BY <1>2 DEF Within, Bounded
<1>5. t.state \in Memories
  BY <1>2 DEF Turns
(* A turn that goes on, with the memory written or left as it is.          *)
<1>6. ASSUME NEW next, next.at # "done", Bounded(next, Done), turn' = [turn EXCEPT ![q] = next],
             NEW k, Within(k, Done), saved' = [saved EXCEPT ![turn[q].cid] = k]
      PROVE  TalkBounds'
  BY <1>1, <1>3, <1>6, BoundsMove
<1>7. ASSUME saved' = saved PROVE saved' = [saved EXCEPT ![turn[q].cid] = m]
  BY <1>2, <1>7, SameMemory
<1>8. CASE Talk!ReadHistory(q)
  <2> PICK next : next = [t EXCEPT !.at = "start", !.read = m.history]
    OBVIOUS
  <2>1. turn' = [turn EXCEPT ![q] = next] /\ saved' = saved
    BY <1>8 DEF Talk!ReadHistory, Talk!Goes
  <2>2. next.at = "start" /\ next.read = m.history /\ next.state = t.state /\ next.passes = t.passes
    BY <1>2 DEF Turns
  <2>3. Bounded(next, Done)
    BY <1>4, <2>2 DEF Bounded
  <2> QED BY <1>2, <1>6, <1>7, <2>1, <2>2, <2>3
<1>9. CASE Talk!BeginTurn(q)
  <2> PICK k : k = [m EXCEPT !.history = t.read]
    OBVIOUS
  <2> PICK next : next = [t EXCEPT !.at = "classify", !.state = k, !.passes = 1]
    OBVIOUS
  <2>1. turn' = [turn EXCEPT ![q] = next] /\ saved' = [saved EXCEPT ![turn[q].cid] = k]
    BY <1>9 DEF Talk!BeginTurn, Talk!Goes, Talk!Checkpoint
  <2>2. k.history = t.read /\ k.retries = m.retries
    BY <1>2 DEF Memories
  <2>3. next.at = "classify" /\ next.read = t.read /\ next.state = k /\ next.passes = 1
    BY <1>2 DEF Turns
  <2>4. Within(k, Done)
    BY <1>4, <2>2 DEF Within
  <2>5. 1 \in 0..2
    OBVIOUS
  <2>6. Bounded(next, Done)
    BY <1>4, <2>3, <2>4, <2>5, Zenon DEF Bounded
  <2> QED BY <1>6, <2>1, <2>3, <2>4, <2>6
<1>10. CASE Talk!Classify(q)
  <2>1. PICK heard \in BOOLEAN : turn' = [turn EXCEPT ![q] = [t EXCEPT !.at = "manage", !.heard = heard]]
    BY <1>10 DEF Talk!Classify, Talk!Goes
  <2> PICK next : next = [t EXCEPT !.at = "manage", !.heard = heard]
    OBVIOUS
  <2>2. next.at = "manage" /\ next.read = t.read /\ next.state = t.state /\ next.passes = t.passes
    BY <1>2 DEF Turns
  <2>3. Bounded(next, Done)
    BY <1>4, <2>2 DEF Bounded
  <2>4. saved' = saved
    BY <1>10 DEF Talk!Classify
  <2> QED BY <1>2, <1>6, <1>7, <2>1, <2>2, <2>3, <2>4
<1>11. CASE Talk!Manage(q)
  <2> PICK k : k = IF Talk!IsRetry(t.state) THEN t.state ELSE Talk!NewTurn(t.state)
    OBVIOUS
  <2>1. PICK at_ \in {"advise", "direct"} : turn' = [turn EXCEPT ![q] =
                        [t EXCEPT !.at = at_, !.state = k, !.heard = FALSE,
                                  !.details = IF t.heard THEN last ELSE q]]
    BY <1>11 DEF Talk!Manage, Talk!Goes
  <2> PICK told : told = IF t.heard THEN last ELSE q
    OBVIOUS
  <2> PICK next : next = [t EXCEPT !.at = at_, !.state = k, !.heard = FALSE, !.details = told]
    OBVIOUS
  <2>2. next.at = at_ /\ next.read = t.read /\ next.state = k /\ next.passes = t.passes
    BY <1>2 DEF Turns
  <2>3. k.history = t.state.history /\ k.retries \in 0..MAX_RETRY
    BY <1>4, <1>5, TalkNumbers DEF Talk!NewTurn, Memories
  <2>4. Within(k, Done) /\ Bounded(next, Done)
    BY <1>4, <2>2, <2>3 DEF Bounded, Within
  <2>5. saved' = [saved EXCEPT ![turn[q].cid] = k]
    BY <1>11 DEF Talk!Manage, Talk!Checkpoint
  <2> QED BY <1>6, <2>1, <2>2, <2>4, <2>5
(* The last answer: the run is over.                                       *)
<1>12. CASE Talk!DirectReply(q) \/ Talk!Finalize(q)
  <2> PICK k : k = [t.state EXCEPT !.answer = q]
    OBVIOUS
  <2> PICK next : next = Talk!Replying(q)
    OBVIOUS
  <2>1. turn' = [turn EXCEPT ![q] = next] /\ saved' = [saved EXCEPT ![turn[q].cid] = k]
    BY <1>12 DEF Talk!DirectReply, Talk!Finalize, Talk!Goes, Talk!Checkpoint
  <2>2. k.history = t.state.history /\ k.retries = t.state.retries
    BY <1>5 DEF Memories
  <2>3. next.at = "result" /\ next.read = t.read /\ next.state = Talk!Blank /\ next.passes = 0
    BY DEF Talk!Replying, Talk!NotAsked
  <2>4. Within(k, Done) /\ Bounded(next, Done)
    BY <1>4, <2>2, <2>3, BlankWithin DEF Bounded, Within
  <2> QED BY <1>6, <2>1, <2>3, <2>4
<1>13. CASE Talk!Advise(q)
  <2> PICK next : next = [t EXCEPT !.at = "gate"]
    OBVIOUS
  <2>1. turn' = [turn EXCEPT ![q] = next] /\ saved' = [saved EXCEPT ![turn[q].cid] = t.state]
    BY <1>13 DEF Talk!Advise, Talk!Goes, Talk!Checkpoint
  <2>2. next.at = "gate" /\ next.read = t.read /\ next.state = t.state /\ next.passes = t.passes
    BY <1>2 DEF Turns
  <2>3. Bounded(next, Done)
    BY <1>4, <2>2 DEF Bounded
  <2> QED BY <1>4, <1>6, <2>1, <2>2, <2>3
<1>14. CASE Talk!VerifyGate(q)
  <2>1. PICK k, next :
          /\ turn' = [turn EXCEPT ![q] = next] /\ saved' = [saved EXCEPT ![turn[q].cid] = k]
          /\ \/ /\ t.state.retries < MAX_RETRY /\ k = Talk!Retried(t.state)
                /\ next = [t EXCEPT !.at = "classify", !.state = k, !.passes = 2]
             \/ /\ \E verdict \in {"pass", "fallback"} : k = [t.state EXCEPT !.verdict = verdict]
                /\ next = [t EXCEPT !.at = "finalize", !.state = k]
    <3>1. CASE t.state.retries < MAX_RETRY /\ Talk!Goes(q, [t EXCEPT !.at = "classify", !.state = Talk!Retried(t.state), !.passes = 2])
               /\ Talk!Checkpoint(q, Talk!Retried(t.state))
      BY <3>1 DEF Talk!Goes, Talk!Checkpoint
    <3>2. ASSUME NEW verdict \in {"pass", "fallback"},
                 Talk!Goes(q, [t EXCEPT !.at = "finalize", !.state = [t.state EXCEPT !.verdict = verdict]]),
                 Talk!Checkpoint(q, [t.state EXCEPT !.verdict = verdict])
          PROVE  \E k, next :
          /\ turn' = [turn EXCEPT ![q] = next] /\ saved' = [saved EXCEPT ![turn[q].cid] = k]
          /\ \E v \in {"pass", "fallback"} : k = [t.state EXCEPT !.verdict = v]
          /\ next = [t EXCEPT !.at = "finalize", !.state = k]
      BY <3>2 DEF Talk!Goes, Talk!Checkpoint
    <3> QED BY <1>14, <3>1, <3>2 DEF Talk!VerifyGate, Talk!MayRetry
  <2>2. k.history = t.state.history /\ k.retries \in 0..MAX_RETRY
    <3> PICK r : r = t.state.retries
      OBVIOUS
    <3>1. CASE r < MAX_RETRY /\ k = Talk!Retried(t.state)
      <4>1. k.history = t.state.history /\ k.retries = r + 1
        BY <1>5, <3>1 DEF Talk!Retried, Memories
      <4>2. r + 1 \in 0..MAX_RETRY
        BY <1>4, <3>1, TalkNumbers
      <4> QED BY <4>1, <4>2
    <3>2. ASSUME NEW verdict, k = [t.state EXCEPT !.verdict = verdict]
          PROVE  k.history = t.state.history /\ k.retries = t.state.retries
      BY <1>5, <3>2 DEF Memories
    <3> QED BY <1>4, <2>1, <3>1, <3>2
  <2>3. next.at # "done" /\ next.read = t.read /\ next.state = k /\ next.passes \in 0..2
    <3>1. CASE next = [t EXCEPT !.at = "classify", !.state = k, !.passes = 2]
      BY <1>2, <3>1 DEF Turns
    <3>2. CASE next = [t EXCEPT !.at = "finalize", !.state = k]
      <4>1. next.at = "finalize" /\ next.read = t.read /\ next.state = k /\ next.passes = t.passes
        BY <1>2, <3>2 DEF Turns
      <4> QED BY <1>4, <4>1
    <3> QED BY <2>1, <3>1, <3>2
  <2>4. Within(k, Done) /\ Bounded(next, Done)
    BY <1>4, <2>2, <2>3 DEF Bounded, Within
  <2> QED BY <1>6, <2>1, <2>3, <2>4
<1>15. CASE Talk!Result(q)
  <2> PICK next : next = [t EXCEPT !.at = "record", !.reply = m.answer]
    OBVIOUS
  <2>1. turn' = [turn EXCEPT ![q] = next] /\ saved' = saved
    BY <1>15 DEF Talk!Result, Talk!Goes
  <2>2. next.at = "record" /\ next.read = t.read /\ next.state = t.state /\ next.passes = t.passes
    BY <1>2 DEF Turns
  <2>3. Bounded(next, Done)
    BY <1>4, <2>2 DEF Bounded
  <2> QED BY <1>2, <1>6, <1>7, <2>1, <2>2, <2>3
(* The exchange is recorded after those that were read.                    *)
<1>16. CASE Talk!Record(q)
  <2> PICK was : was = t.read
    OBVIOUS
  <2> PICK n : n = Len(was)
    OBVIOUS
  <2> PICK grown : grown = Append(was, q)
    OBVIOUS
  <2> PICK k : k = [m EXCEPT !.history = grown]
    OBVIOUS
  <2> PICK next : next = [t EXCEPT !.at = "done", !.read = <<>>]
    OBVIOUS
  <2>1. turn' = [turn EXCEPT ![q] = next] /\ saved' = [saved EXCEPT ![turn[q].cid] = k]
    <3>1. saved' = [saved EXCEPT ![turn[q].cid].history = grown]
      BY <1>16 DEF Talk!Record, Talk!Recorded
    <3>2. saved' = [saved EXCEPT ![turn[q].cid] = k]
      BY <3>1
    <3> QED BY <1>16, <3>2 DEF Talk!Record, Talk!Goes
  <2>2. k.history = grown /\ k.retries = m.retries
    BY <1>2 DEF Memories
  <2>3. next.at = "done" /\ next.read = <<>> /\ next.state = t.state /\ next.passes = t.passes
    BY <1>2 DEF Turns
  <2>4. was \in Seq(Questions) /\ n \in Nat /\ \A i \in 1..n : was[i] \in Done /\ \A j \in 1..n : was[i] = was[j] => i = j
    BY <1>4, LenProperties DEF Past
  <2>5. grown \in Seq(Questions) /\ Len(grown) = n + 1 /\ grown[n + 1] = q /\ \A i \in 1..n : grown[i] = was[i]
    BY <2>4, AppendProperties
  <2>6. q \notin Done
    BY <1>1 DEF Talk!Running, Done
  <2>7. ASSUME NEW i \in 1..(n + 1)
        PROVE  grown[i] \in Done \cup {q} /\ \A j \in 1..(n + 1) : grown[i] = grown[j] => i = j
    <3>1. \A j \in 1..(n + 1) : j \in 1..n \/ j = n + 1
      BY <2>4
    <3>2. CASE i = n + 1
      BY <2>4, <2>5, <2>6, <3>1, <3>2
    <3>3. CASE i \in 1..n
      BY <2>4, <2>5, <2>6, <3>1, <3>3
    <3>4. i = n + 1 \/ i \in 1..n
      BY <3>1
    <3> QED BY <3>2, <3>3, <3>4
  <2>8. Past(grown, Done \cup {q})
    BY <2>5, <2>7 DEF Past
  <2>9. \A p \in Done : p \in Done \cup {q}
    OBVIOUS
  <2>10. Within(k, Done \cup {q}) /\ Bounded(next, Done \cup {q})
    BY <1>4, <2>2, <2>3, <2>8, <2>9, PastLonger, BlankWithin DEF Within, Bounded
  <2> QED BY <1>1, <1>3, <2>1, <2>3, <2>10, BoundsMove
<1> QED BY <1>8, <1>9, <1>10, <1>11, <1>12, <1>13, <1>14, <1>15, <1>16 DEF Talk!Answering

(* Steps that answer no question: nothing is done that was not.            *)
LEMMA BoundsAside ==
  ASSUME TalkBounds, Done' = Done,
         \A c \in overlapped' : c \in used', lapses' \in 0..MaxLapses, restarts' \in 0..MaxRestarts,
         \A c \in Conversations : saved'[c] \in {saved[c], Talk!Blank},
         \A q \in Questions : turn'[q] = turn[q] \/ (turn'[q].state = Talk!Blank /\ turn'[q].read = <<>> /\ turn'[q].passes = 0)
  PROVE  TalkBounds'
<1>1. \A c \in Conversations : Within(saved'[c], Done)
  BY BlankWithin DEF TalkBounds
<1>2. \A q \in Questions : Bounded(turn'[q], Done)
  <2>1. ASSUME NEW q \in Questions, turn'[q].state = Talk!Blank /\ turn'[q].read = <<>> /\ turn'[q].passes = 0
        PROVE  Bounded(turn'[q], Done)
    BY <2>1, BlankWithin DEF Bounded
  <2>2. ASSUME NEW q \in Questions, turn'[q] = turn[q]
        PROVE  Bounded(turn'[q], Done)
    BY <2>2 DEF TalkBounds
  <2> QED BY <2>1, <2>2
<1>3. /\ \A c \in Conversations : Within(saved[c], Done)'
      /\ \A p \in Questions : Bounded(turn[p], Done)'
  BY <1>1, <1>2 DEF Within, Bounded, Past
<1> QED BY <1>3 DEF TalkBounds

LEMMA TalkTyped == ASSUME Talk!Init PROVE TalkBounds
<1>1. /\ saved = [c \in Conversations |-> Talk!Blank] /\ turn = [q \in Questions |-> Talk!NotAsked]
      /\ overlapped = {} /\ lapses = 0 /\ restarts = 0
  BY DEF Talk!Init
<1> QED BY <1>1, BlankWithin, TalkNumbers DEF TalkBounds

LEMMA TalkStay ==
  ASSUME TalkInv, TalkBounds, [Talk!Next]_(Talk!vars)
  PROVE  TalkBounds'
<1>0. TalkTypes /\ \A c \in overlapped : c \in used
  BY DEF TalkInv, TalkBounds
<1>1. ASSUME NEW q \in Questions, NEW u \in Users, NEW requested, Talk!Open(q, u, requested) PROVE TalkBounds'
  <2>1. PICK c :
        /\ used' = used \cup {c}
        /\ saved' = [d \in Conversations |-> IF d \in aged THEN Talk!Blank ELSE saved[d]]
        /\ Talk!Goes(q, [Talk!NotAsked EXCEPT !.at = "history", !.user = u, !.cid = c])
        /\ overlapped' = IF Talk!InProgress(c) THEN overlapped \cup {c} ELSE overlapped
    BY <1>1 DEF Talk!Open
  <2> PICK opened : opened = [Talk!NotAsked EXCEPT !.at = "history", !.user = u, !.cid = c]
    OBVIOUS
  <2>2. opened.at = "history" /\ opened.read = <<>> /\ opened.state = Talk!Blank /\ opened.passes = 0
    BY DEF Talk!NotAsked
  <2>3. turn'[q] = opened /\ \A p \in Questions : p # q => turn'[p] = turn[p]
    BY <1>0, <2>1 DEF TalkTypes, Talk!Goes
  <2>4. Done' = Done
    BY <1>1, <2>2, <2>3 DEF Done, Talk!Open
  <2>5. \A d \in overlapped' : d \in used'
    BY <1>0, <2>1
  <2>6. lapses' \in 0..MaxLapses /\ restarts' \in 0..MaxRestarts
    BY <1>1 DEF Talk!Open, TalkBounds
  <2> QED BY <2>1, <2>2, <2>3, <2>4, <2>5, <2>6, BoundsAside
<1>2. ASSUME NEW c \in Conversations, Talk!Lapse(c) PROVE TalkBounds'
  <2>1. lapses' \in 0..MaxLapses
    BY <1>2, TalkNumbers DEF Talk!Lapse, TalkBounds
  <2>2. UNCHANGED <<used, saved, turn, overlapped, restarts>>
    BY <1>2 DEF Talk!Lapse
  <2>3. Done' = Done /\ restarts' \in 0..MaxRestarts
    BY <2>2 DEF Done, TalkBounds
  <2> QED BY <1>0, <2>1, <2>2, <2>3, BoundsAside
<1>3. ASSUME Talk!Restart PROVE TalkBounds'
  <2>1. restarts' \in 0..MaxRestarts /\ lapses' \in 0..MaxLapses
    <3>1. restarts < MaxRestarts /\ restarts' = restarts + 1 /\ lapses' = lapses
      BY <1>3 DEF Talk!Restart
    <3>2. restarts \in 0..MaxRestarts /\ lapses \in 0..MaxLapses
      BY DEF TalkBounds
    <3> QED BY <3>1, <3>2, TalkNumbers
  <2>2. ASSUME NEW q \in Questions
        PROVE  /\ turn'[q] = turn[q] \/ (turn'[q].state = Talk!Blank /\ turn'[q].read = <<>> /\ turn'[q].passes = 0)
               /\ (turn'[q].at = "done") = (turn[q].at = "done")
    <3> PICK ended : ended = [Talk!NotAsked EXCEPT !.at = "lost", !.user = turn[q].user, !.cid = turn[q].cid]
      OBVIOUS
    <3>1. ended.at = "lost" /\ ended.read = <<>> /\ ended.state = Talk!Blank /\ ended.passes = 0
      BY DEF Talk!NotAsked
    <3>2. turn'[q] = IF Talk!Running(q) THEN ended ELSE turn[q]
      BY <1>3 DEF Talk!Restart
    <3> QED BY <3>1, <3>2 DEF Talk!Running
  <2>3. Done' = Done
    BY <2>2 DEF Done
  <2>4. \A c \in Conversations : saved'[c] = Talk!Blank
    BY <1>3 DEF Talk!Restart
  <2>5. UNCHANGED <<used, overlapped>>
    BY <1>3 DEF Talk!Restart
  <2> QED BY <1>0, <2>1, <2>2, <2>3, <2>4, <2>5, BoundsAside
<1>4. ASSUME UNCHANGED Talk!vars PROVE TalkBounds'
  <2>1. UNCHANGED <<used, saved, turn, overlapped, lapses, restarts>>
    BY <1>4 DEF Talk!vars
  <2>2. Done' = Done /\ lapses' \in 0..MaxLapses /\ restarts' \in 0..MaxRestarts
    BY <2>1 DEF Done, TalkBounds
  <2> QED BY <1>0, <2>1, <2>2, BoundsAside
<1> QED BY <1>1, <1>2, <1>3, <1>4, AnsweringBounds DEF Talk!Next, Talk!Asks

(* No memory is longer than there are questions.                           *)
LEMMA PastFits ==
  ASSUME NEW s, NEW done, Past(s, done)
  PROVE  s \in Talk!SeqOf(Questions, Talk!Cardinality(Questions))
<1>1. IsFiniteSet(Questions)
  BY GuidanceAssumption DEF Talk!GuardianAssumption, Talk!IsFiniteSet, IsFiniteSet
<1>2. Talk!Cardinality(Questions) = Cardinality(Questions) /\ Cardinality(Questions) \in Nat
  BY <1>1, FS_CardinalityType DEF Talk!Cardinality, Cardinality
<1>3. s \in Seq(Questions) /\ Len(s) \in Nat
  BY LenProperties DEF Past
<1>4. s \in [1..Len(s) -> Questions] /\ \A i, j \in 1..Len(s) : s[i] = s[j] => i = j
  BY <1>3, LenProperties DEF Past
<1>5. s \in Injection(1..Len(s), Questions)
  BY <1>4 DEF Injection, IsInjective
<1>6. Cardinality(1..Len(s)) = Len(s) /\ IsFiniteSet(1..Len(s))
  <2>1. PICK k : k = Len(s)
    OBVIOUS
  <2>2. k \in Nat /\ 1 \in Int /\ k \in Int
    BY <1>3, <2>1
  <2>3. IsFiniteSet(1..k) /\ Cardinality(1..k) = IF 1 > k THEN 0 ELSE k - 1 + 1
    BY <2>2, FS_Interval
  <2>4. Cardinality(1..k) = k
    BY <2>2, <2>3
  <2> QED BY <2>1, <2>3, <2>4
<1>7. Len(s) <= Cardinality(Questions)
  BY <1>1, <1>5, <1>6, FS_Injection
<1> QED BY <1>2, <1>3, <1>4, <1>7 DEF Talk!SeqOf

LEMMA TalkShowsTypes == ASSUME TalkInv, TalkBounds PROVE Talk!TypeOK
<1>1. TalkTypes
  BY DEF TalkInv
<1>2. ASSUME NEW m \in Memories, NEW done, Within(m, done) PROVE m \in Talk!States
  <2>1. m.history \in Talk!SeqOf(Questions, Talk!Cardinality(Questions))
    BY <1>2, PastFits DEF Within
  <2>2. m = [verdict |-> m.verdict, retries |-> m.retries, answer |-> m.answer, history |-> m.history]
    BY DEF Memories
  <2> QED BY <1>2, <2>1, <2>2 DEF Talk!States, Memories, Within
<1>3. saved \in [Conversations -> Talk!States]
  BY <1>1, <1>2 DEF TalkTypes, TalkBounds
<1>4. ASSUME NEW q \in Questions
      PROVE  /\ turn[q].at \in Talk!Steps
             /\ turn[q].user \in Users \cup {None} /\ turn[q].cid \in Conversations \cup {None}
             /\ turn[q].state \in Talk!States /\ turn[q].passes \in 0..2
             /\ turn[q].details \in Questions \cup {None} /\ turn[q].reply \in Questions \cup {None}
  <2>1. turn[q] \in Turns /\ Bounded(turn[q], Done)
    BY <1>1 DEF TalkTypes, TalkBounds
  <2>2. turn[q].state \in Talk!States
    BY <1>2, <2>1 DEF Turns, Bounded
  <2> QED BY <2>1, <2>2 DEF Turns, Bounded
<1>5. /\ used \subseteq Conversations /\ aged \subseteq used /\ overlapped \subseteq used
      /\ lapses \in 0..MaxLapses /\ restarts \in 0..MaxRestarts
  BY <1>1 DEF TalkTypes, TalkBounds
<1> QED BY <1>1, <1>3, <1>4, <1>5 DEF Talk!TypeOK, TalkTypes

LEMMA AnswerTyped == ASSUME Answer!Init PROVE AnswerTypes
BY DEF Answer!Init, AnswerTypes

LEMMA WalkSteps == [AnyNext]_allVars => [Next]_vars
BY DEF AnyNext, allVars, InTalk, InWalk, InNew

(* The state of every part of a person's guidance is of its type at every  *)
(* step, counters within their bounds: a conversation's memory holds each  *)
(* question at most once and a run is sent back at most MAX_RETRY times,   *)
(* an advice is one the screens know, a number of an answer is of a read   *)
(* or made up, the walk stays on ways that end where they reach the goal.  *)
THEOREM GuidanceTyped == AnySpec => []AnyTypeOK
<1>1. AnySpec => [](TalkInv /\ TalkBounds)
  <2>1. AnyInit => TalkInv /\ TalkBounds
    BY TalkInit, TalkTyped DEF AnyInit
  <2>2. TalkInv /\ TalkBounds /\ [AnyNext]_allVars => (TalkInv /\ TalkBounds)'
    BY TalkSteps, TalkNext, TalkStay
  <2> QED BY <2>1, <2>2, PTL DEF AnySpec
<1>2. AnySpec => [](AdviceInv /\ AnswerTypes)
  <2>1. AnyInit => AdviceInv /\ AnswerTypes
    BY AdviceInit, AnswerTyped DEF AnyInit
  <2>2. AdviceInv /\ AnswerTypes /\ [AnyNext]_allVars => (AdviceInv /\ AnswerTypes)'
    BY AdviceSteps, AdviceNext, AnswerStay
  <2> QED BY <2>1, <2>2, PTL DEF AnySpec
<1>3. AnySpec => [](GroundsInv /\ GroundsTypes)
  <2>1. AnyInit => GroundsInv /\ GroundsTypes
    BY GroundsInit, GroundsTyped DEF AnyInit
  <2>2. GroundsInv /\ GroundsTypes /\ [AnyNext]_allVars => (GroundsInv /\ GroundsTypes)'
    BY GroundsSteps, GroundsNext, GroundsStay
  <2> QED BY <2>1, <2>2, PTL DEF AnySpec
<1>4. AnySpec => []WalkInv
  <2>1. AnyInit => WalkInv
    BY WalkInit DEF AnyInit
  <2>2. WalkInv /\ [AnyNext]_allVars => WalkInv'
    BY WalkSteps, WalkNext
  <2> QED BY <2>1, <2>2, PTL DEF AnySpec
<1>5. AnySpec => []RoundInv
  <2>1. AnyInit => RoundInv
    BY RoundInit DEF AnyInit
  <2>2. RoundInv /\ [AnyNext]_allVars => RoundInv'
    BY RoundSteps, RoundMeasure, RoundBuild, RoundIdle
  <2> QED BY <2>1, <2>2, PTL DEF AnySpec
<1>6. AnySpec => [](ToolTypes /\ WorldInv /\ RowTypes)
  <2>1. AnyInit => ToolTypes /\ WorldInv /\ RowTypes
    BY WorldInit, RowsTyped DEF AnyInit
  <2>2. ToolTypes /\ WorldInv /\ RowTypes /\ [AnyNext]_allVars => (ToolTypes /\ WorldInv /\ RowTypes)'
    BY ToolSteps, WorldNext, RowsStay
  <2> QED BY <2>1, <2>2, PTL DEF AnySpec
<1>7. AnySpec => []UsageInv
  <2>1. AnyInit => UsageInv
    BY UsageInit DEF AnyInit
  <2>2. UsageInv /\ [AnyNext]_allVars => UsageInv'
    BY SpendSteps, UsageNext
  <2> QED BY <2>1, <2>2, PTL DEF AnySpec
<1>8. AnySpec => [](part = "boat" => BoatInv)
  <2>1. AnyInit => (part = "boat" => BoatInv)
    BY BoatInit DEF AnyInit
  <2>2. (part = "boat" => BoatInv) /\ [AnyNext]_allVars => (part = "boat" => BoatInv)'
    BY BoatSteps, BoatNext, BoatIdle
  <2> QED BY <2>1, <2>2, PTL DEF AnySpec
<1>9. AnySpec => [](BriefInv /\ BriefTypes)
  <2>1. AnyInit => BriefInv /\ BriefTypes
    BY BriefInit, BriefTyped DEF AnyInit
  <2>2. BriefInv /\ BriefTypes /\ [AnyNext]_allVars => (BriefInv /\ BriefTypes)'
    BY BriefSteps, BriefNext, BriefStay
  <2> QED BY <2>1, <2>2, PTL DEF AnySpec
<1>10. /\ TalkInv /\ TalkBounds /\ AdviceInv /\ AnswerTypes /\ GroundsInv /\ GroundsTypes
       /\ WalkInv /\ RoundInv /\ ToolTypes /\ WorldInv /\ RowTypes /\ UsageInv
       /\ (part = "boat" => BoatInv) /\ BriefInv /\ BriefTypes
       => AnyTypeOK
  <2>1. WalkInv => TypeOK
    BY DEF WalkInv
  <2>2. GroundsTypes => Grounds!TypeOK
    BY DEF GroundsTypes
  <2> QED BY <2>1, <2>2, TalkShowsTypes, AnswerShows, BriefShows, ToolShows, SpendShows, BoatShowsTypes,
             RoundShowsTypes DEF AnyTypeOK
<1> QED BY <1>1, <1>2, <1>3, <1>4, <1>5, <1>6, <1>7, <1>8, <1>9, <1>10, PTL
=============================================================================
