-------------------------- MODULE Assistant_proofs ---------------------------
(***************************************************************************)
(* Proofs about the assistant's answers, within the composition the run    *)
(* checks (MCGuidance): what an advice contains, what the numbers of an    *)
(* answer rest on, the text about a drawn route, whose words a             *)
(* conversation repeats.                                                   *)
(***************************************************************************)
EXTENDS Guidance_proofs

-----------------------------------------------------------------------------
(* The numbers of an answer (Evidence).                                    *)

(* Until the check nothing counts as checked, the specialists still asked  *)
(* are those of this pass, all evidence is of this pass, what passed the   *)
(* check is in it, and what no language model touched says its doubts.     *)
GroundsInv ==
  /\ pass \in Nat /\ source \in [Grounds!Sources -> {"fresh", "stale", "down"}]
  /\ pending # {} => stepAt = "specialists"
  /\ stepAt \in {"specialists", "polish", "check"} => checked = "none"
  /\ \A r \in results : \A n \in r.evidence : n[2] = pass
  /\ \A n \in cited : n[2] = pass
  /\ checked \in {"ok", "pass"} => Grounds!Supported
  /\ ~ wrote => \A r \in results : r.unsure => "risk" \in r.told

LEMMA RiskRead ==
  /\ "risk" \in Grounds!Sources
  /\ \A a \in Grounds!Hazards : "risk" \in Grounds!Consults[a]
BY DEF Grounds!Sources, Grounds!Agents, Grounds!Consults, Grounds!Hazards, Grounds!FloodReads,
       Grounds!LandslideReads, Grounds!WindReads

(* A judgement that is not fresh is named by the template as missing.      *)
LEMMA DoubtNamed ==
  ASSUME NEW a \in Grounds!Hazards, NEW alarming, source \in [Grounds!Sources -> {"fresh", "stale", "down"}],
         source["risk"] # "fresh"
  PROVE  "risk" \in Grounds!Missing(a, alarming)
<1>1. "risk" \in Grounds!Tried(a, alarming)
  BY RiskRead DEF Grounds!Tried
<1>2. Grounds!Doubtful("risk")
  BY RiskRead DEF Grounds!Doubtful
<1> QED BY <1>1, <1>2 DEF Grounds!Missing

LEMMA GroundsInit == Grounds!Init => GroundsInv
BY DEF Grounds!Init, GroundsInv

LEMMA GroundsNext ==
  ASSUME GroundsInv, [Grounds!Next]_(Grounds!vars)
  PROVE  GroundsInv'
<1> USE DEF GroundsInv
<1>1. ASSUME Grounds!Change PROVE GroundsInv'
  <2>1. source' \in [Grounds!Sources -> {"fresh", "stale", "down"}]
    BY <1>1 DEF Grounds!Change
  <2> QED BY <1>1, <2>1 DEF Grounds!Change
<1>2. ASSUME Grounds!Manager PROVE GroundsInv'
  BY <1>2 DEF Grounds!Manager, Grounds!Emptied, Grounds!Supported
<1>3. ASSUME NEW a \in Grounds!Agents, Grounds!Specialist(a) PROVE GroundsInv'
  <2>1. stepAt = "specialists" /\ checked = "none"
    BY <1>3 DEF Grounds!Specialist
  <2>2. PICK alarming \in BOOLEAN :
          \/ /\ wrote' = TRUE
             /\ \E extra : results' = results \cup {Grounds!Result(a, alarming, Grounds!Writer(a, alarming, extra))}
          \/ results' = results \cup {Grounds!Result(a, alarming, Grounds!Template(a, alarming))} /\ wrote' = wrote
    BY <1>3 DEF Grounds!Specialist
  <2>3. PICK said : /\ results' = results \cup {Grounds!Result(a, alarming, said)}
                    /\ ~ wrote' => said.told = Grounds!Missing(a, alarming) /\ ~ wrote
    BY <2>2 DEF Grounds!Template
  <2> DEFINE new == Grounds!Result(a, alarming, said)
  <2>4. /\ new.evidence = Grounds!Collected(a, alarming) /\ new.told = said.told
        /\ new.unsure = (a \in Grounds!Hazards /\ source["risk"] # "fresh")
    BY DEF Grounds!Result
  <2>5. \A n \in new.evidence : n[2] = pass
    BY <2>4 DEF Grounds!Collected
  <2>6. ~ wrote' /\ new.unsure => "risk" \in new.told
    BY <2>3, <2>4, DoubtNamed
  <2> HIDE DEF new
  <2>7. results' = results \cup {new}
    BY <2>3 DEF new
  <2>8. /\ \A r \in results' : \A n \in r.evidence : n[2] = pass
        /\ ~ wrote' => \A r \in results' : r.unsure => "risk" \in r.told
    BY <2>3, <2>5, <2>6, <2>7
  <2>9. pending' \subseteq pending
    BY <1>3 DEF Grounds!Specialist
  <2> QED BY <1>3, <2>1, <2>8, <2>9 DEF Grounds!Specialist
<1>4. ASSUME Grounds!ActionAdvisor PROVE GroundsInv'
  <2>1. /\ stepAt = "specialists" /\ stepAt' = "polish" /\ checked' = checked /\ pass' = pass /\ source' = source
        /\ pending' = {} /\ results' = results /\ (wrote => wrote')
        /\ cited' \subseteq {<<"guides", pass>>}
    BY <1>4 DEF Grounds!ActionAdvisor
  <2> QED BY <2>1
<1>5. ASSUME Grounds!Polish PROVE GroundsInv'
  <2>1. /\ stepAt = "polish" /\ stepAt' = "check" /\ checked' = checked /\ pass' = pass /\ source' = source
        /\ pending' = pending /\ results' = results /\ cited' = cited
    BY <1>5 DEF Grounds!Polish
  <2>2. wrote => wrote'
    BY <1>5, Zenon DEF Grounds!Polish
  <2> QED BY <2>1, <2>2
<1>6. ASSUME Grounds!HallucinationCheck PROVE GroundsInv'
  BY <1>6 DEF Grounds!HallucinationCheck, Grounds!Supported, Grounds!AllEvidence, Grounds!Measures
<1>7. ASSUME Grounds!VerifyGate PROVE GroundsInv'
  BY <1>7 DEF Grounds!VerifyGate, Grounds!Supported, Grounds!AllEvidence, Grounds!Measures
<1>8. ASSUME UNCHANGED Grounds!vars PROVE GroundsInv'
  BY <1>8 DEF Grounds!vars, Grounds!Supported, Grounds!AllEvidence, Grounds!Measures
<1> QED BY <1>1, <1>2, <1>3, <1>4, <1>5, <1>6, <1>7, <1>8 DEF Grounds!Next

LEMMA GroundsSteps == [AnyNext]_allVars => [Grounds!Next]_(Grounds!vars)
BY DEF AnyNext, allVars, groundVars, InTalk, InWalk, InNew, Grounds!vars

LEMMA GroundsShow ==
  ASSUME GroundsInv
  PROVE  Grounds!NumbersReadNow /\ Grounds!DoubtIsSaid
<1>1. ASSUME NEW n \in Grounds!AllEvidence PROVE n[2] = pass
  <2>1. CASE n \in cited
    BY <2>1 DEF GroundsInv
  <2>2. CASE \E r \in results : n \in r.evidence
    BY <2>2 DEF GroundsInv
  <2>3. n \in cited \/ n \in UNION {r.evidence : r \in results}
    BY DEF Grounds!AllEvidence
  <2> QED BY <2>1, <2>2, <2>3
<1>2. Grounds!NumbersReadNow
  BY <1>1 DEF Grounds!NumbersReadNow, GroundsInv, Grounds!Supported, Grounds!Measures
<1>3. Grounds!DoubtIsSaid
  BY DEF Grounds!DoubtIsSaid, GroundsInv
<1> QED BY <1>2, <1>3

-----------------------------------------------------------------------------
(* The text about a drawn route (RouteBrief).                              *)

Evidences == [strong : SUBSET Brief!Reads, missing : SUBSET (Brief!Reads \cup {"zones"})]
Works == [req : Brief!BriefRequests, ev : Evidences \cup {None}]

(* That the zones are not known, or that some are passed, is listed.       *)
DangerSaid(hazards) == \E i \in DOMAIN hazards : hazards[i] \in {"zones unknown", "passing"}

(* An answer kept was written for the request of its key, by now.          *)
Honest(e) ==
  /\ e.of \in Brief!BriefRequests /\ e.key = e.of
  /\ e.out.says # "reading made up" /\ (e.out.says = "avoids zones" => e.of.route.avoided)
  /\ e.out.template /\ ~ e.of.route.known => DangerSaid(e.out.hazards)
Grounded(e, now) == Honest(e) /\ e.at \in Nat /\ e.at <= now

BriefInv ==
  /\ clock \in Nat /\ outside.down \subseteq Brief!Reads
  /\ work \in [Callers -> Works \cup {None}]
  /\ DOMAIN shown = Callers
  /\ \A e \in stored : Grounded(e, clock)
  /\ \A c \in Callers : shown[c] # None =>
       /\ Grounded(shown[c].entry, clock) /\ shown[c].entry.of = shown[c].asked
       /\ shown[c].when - shown[c].entry.at <= CACHE_S

LEMMA BriefLimits == CACHE_S \in Nat /\ MAX_ITEMS \in Nat /\ MAX_ITEMS >= 3
BY GuidanceAssumption DEF Brief!RouteBriefAssumption

LEMMA BriefNumbers ==
  /\ \A r \in MCRoutes : /\ r.avoided \in BOOLEAN /\ r.passing \in BOOLEAN /\ r.known \in BOOLEAN
BY GuidanceAssumption DEF Brief!RouteBriefAssumption

DangerItems == {"passing", "origin", "destination", "warnings", "zones unknown"}

LEMMA WhenListed ==
  ASSUME NEW told, NEW item \in DangerItems
  PROVE  Brief!When(told, item) \in Seq(DangerItems) /\ Len(Brief!When(told, item)) <= 1
<1>1. CASE told
  BY <1>1 DEF Brief!When
<1>2. CASE ~ told
  BY <1>2 DEF Brief!When
<1> QED BY <1>1, <1>2

(* What a list of one item ends with.                                      *)
LEMMA ListedLast ==
  ASSUME NEW S, NEW s \in Seq(S), NEW x \in S
  PROVE  /\ s \o <<x>> \in Seq(S) /\ Len(s) \in Nat /\ Len(s \o <<x>>) = Len(s) + 1
         /\ Len(s) + 1 \in DOMAIN (s \o <<x>>) /\ (s \o <<x>>)[Len(s) + 1] = x
<1>1. <<x>> \in Seq(S) /\ Len(<<x>>) = 1 /\ <<x>>[1] = x
  OBVIOUS
<1>2. Len(s) \in Nat
  BY LenProperties
<1>3. /\ s \o <<x>> \in Seq(S) /\ Len(s \o <<x>>) = Len(s) + 1
  BY <1>1, ConcatProperties
<1>4. (s \o <<x>>)[Len(s) + 1] = <<x>>[(Len(s) + 1) - Len(s)]
  <2>1. \A i \in 1 .. Len(s) + Len(<<x>>) : (s \o <<x>>)[i] =
                     IF i <= Len(s) THEN s[i] ELSE <<x>>[i - Len(s)]
    BY <1>1, ConcatProperties
  <2>2. Len(s) + 1 \in 1 .. Len(s) + Len(<<x>>) /\ ~ (Len(s) + 1 <= Len(s))
    BY <1>1, <1>2
  <2> QED BY <2>1, <2>2
<1>5. (Len(s) + 1) - Len(s) = 1
  BY <1>2
<1>6. DOMAIN (s \o <<x>>) = 1 .. Len(s) + 1
  BY <1>3, LenProperties
<1>7. Len(s) + 1 \in DOMAIN (s \o <<x>>)
  BY <1>2, <1>6
<1> QED BY <1>1, <1>2, <1>3, <1>4, <1>5, <1>7

LEMMA ListedOne == ASSUME NEW S, NEW x \in S PROVE <<x>> \in Seq(S)
OBVIOUS

(* What begins a list stays its first item when more is added or the list  *)
(* is cut.                                                                 *)
LEMMA FirstStays ==
  ASSUME NEW S, NEW s \in Seq(S), NEW t \in Seq(S), Len(s) >= 1
  PROVE  s \o t \in Seq(S) /\ Len(s \o t) >= 1 /\ (s \o t)[1] = s[1]
<1>1. Len(s) \in Nat /\ Len(t) \in Nat
  BY LenProperties
<1>2. 1 \in 1 .. Len(s) + Len(t) /\ 1 <= Len(s)
  BY <1>1
<1>3. s \o t \in Seq(S) /\ Len(s \o t) = Len(s) + Len(t) /\ (s \o t)[1] = s[1]
  BY <1>2, ConcatProperties
<1> QED BY <1>1, <1>3

LEMMA CutFirst ==
  ASSUME NEW S, NEW s \in Seq(S), Len(s) >= 1
  PROVE  1 \in DOMAIN Brief!Upto(s, Brief!TemplateItems) /\ Brief!Upto(s, Brief!TemplateItems)[1] = s[1]
<1>1. Len(s) \in Nat
  BY LenProperties
<1>2. PICK n : n = IF Len(s) < MAX_ITEMS + 1 THEN Len(s) ELSE MAX_ITEMS + 1
  OBVIOUS
<1>3. n \in Nat /\ n >= 1 /\ n <= Len(s)
  BY <1>1, <1>2, BriefLimits
<1>4. Brief!Upto(s, Brief!TemplateItems) = SubSeq(s, 1, n)
  BY <1>2 DEF Brief!Upto, Brief!TemplateItems
<1>5. \A i \in 1 .. n : s[i] \in S
  BY <1>1, <1>3, ElementOfSeq
<1>6. /\ SubSeq(s, 1, n) \in Seq(S) /\ Len(SubSeq(s, 1, n)) = IF 1 <= n THEN n - 1 + 1 ELSE 0
      /\ \A i \in 1 .. n - 1 + 1 : SubSeq(s, 1, n)[i] = s[1 + i - 1]
  BY <1>3, <1>5, SubSeqProperties
<1>7. Len(SubSeq(s, 1, n)) = n /\ 1 \in 1 .. n - 1 + 1 /\ 1 + 1 - 1 = 1
  BY <1>3, <1>6
<1>8. SubSeq(s, 1, n)[1] = s[1]
  BY <1>6, <1>7
<1>9. 1 \in DOMAIN SubSeq(s, 1, n)
  BY <1>3, <1>6, <1>7, LenProperties
<1> QED BY <1>4, <1>8, <1>9

(* Of the dangers the template lists, "zones unknown" is the last.  It is  *)
(* not cut off when no zone is passed; that one is passed is the first.    *)
LEMMA UnknownListed ==
  ASSUME NEW route \in MCRoutes, ~ route.known, NEW ev
  PROVE  DangerSaid(Brief!Upto(Brief!Dangers(route, ev), Brief!TemplateItems))
<1> DEFINE p == Brief!When(route.passing, "passing")
           a == Brief!When("place" \in ev.strong, "origin")
           b == Brief!When("place" \in ev.strong /\ route.kind # "visits", "destination")
           c == Brief!When("warnings" \in ev.strong, "warnings")
           before == ((p \o a) \o b) \o c
           all == before \o <<"zones unknown">>
           listed == Brief!Upto(Brief!Dangers(route, ev), Brief!TemplateItems)
<1>1. /\ a \in Seq(DangerItems) /\ Len(a) <= 1 /\ b \in Seq(DangerItems) /\ Len(b) <= 1
      /\ c \in Seq(DangerItems) /\ Len(c) <= 1 /\ p \in Seq(DangerItems) /\ Len(p) <= 1
  BY WhenListed DEF DangerItems
<1>2. "zones unknown" \in DangerItems
  BY DEF DangerItems
<1>6. <<"zones unknown">> \in Seq(DangerItems)
  BY <1>2, ListedOne
<1>3. Brief!Dangers(route, ev) = all
  BY DEF Brief!Dangers, Brief!When
<1>4. CASE route.passing
  <2>1. p = <<"passing">>
    BY <1>4 DEF Brief!When
  <2>2. Len(p) >= 1 /\ p[1] = "passing"
    BY <2>1
  <2> HIDE DEF a, b, c, p
  <2>3. p \o a \in Seq(DangerItems) /\ Len(p \o a) >= 1 /\ (p \o a)[1] = "passing"
    BY <1>1, <2>2, FirstStays
  <2>4. /\ (p \o a) \o b \in Seq(DangerItems) /\ Len((p \o a) \o b) >= 1
        /\ ((p \o a) \o b)[1] = "passing"
    BY <1>1, <2>3, FirstStays
  <2>5. before \in Seq(DangerItems) /\ Len(before) >= 1 /\ before[1] = "passing"
    BY <1>1, <2>4, FirstStays
  <2> HIDE DEF before
  <2>7. all \in Seq(DangerItems) /\ Len(all) >= 1 /\ all[1] = "passing"
    BY <1>6, <2>5, FirstStays
  <2> HIDE DEF all
  <2>8. 1 \in DOMAIN listed /\ listed[1] = "passing"
    BY <1>3, <2>7, CutFirst
  <2> QED BY <2>8 DEF DangerSaid
<1>5. CASE ~ route.passing
  <2>0. p = <<>>
    BY <1>5 DEF Brief!When
  <2> HIDE DEF a, b, c, p
  <2>4. p \o a = a
    BY <1>1, <2>0, ConcatEmptySeq
  <2>5. a \o b \in Seq(DangerItems) /\ Len(a \o b) <= 2
    BY <1>1, ConcatProperties
  <2>6. before \in Seq(DangerItems) /\ Len(before) <= 3 /\ Len(before) \in Nat
    BY <1>1, <2>4, <2>5, ConcatProperties, LenProperties
  <2> HIDE DEF before
  <2>8. /\ all \in Seq(DangerItems) /\ Len(all) = Len(before) + 1 /\ Len(before) + 1 \in DOMAIN all
        /\ all[Len(before) + 1] = "zones unknown"
    BY <1>2, <2>6, ListedLast
  <2> HIDE DEF all
  <2>9. listed = all
    <3>1. Len(all) <= MAX_ITEMS + 1 /\ Len(all) \in Nat
      <4>1. PICK n : n = Len(before)
        OBVIOUS
      <4>2. PICK k : k = Len(all)
        OBVIOUS
      <4>3. n \in Nat /\ n <= 3 /\ k = n + 1
        BY <2>6, <2>8, <4>1, <4>2
      <4>4. k <= MAX_ITEMS + 1 /\ k \in Nat
        BY <4>3, BriefLimits
      <4> QED BY <4>2, <4>4
    <3>2. Brief!Upto(all, Brief!TemplateItems) = SubSeq(all, 1, Len(all))
      BY <3>1, BriefLimits DEF Brief!Upto, Brief!TemplateItems
    <3> QED BY <1>3, <2>8, <3>2, SubSeqFull
  <2>10. Len(before) + 1 \in DOMAIN listed /\ listed[Len(before) + 1] = "zones unknown"
    BY <2>8, <2>9
  <2> HIDE DEF listed
  <2>11. DangerSaid(listed)
    BY <2>10 DEF DangerSaid
  <2> QED BY <2>11 DEF listed
<1> QED BY <1>4, <1>5

LEMMA BriefInit == Brief!Init => BriefInv
BY DEF Brief!Init, BriefInv

(* The template of a request whose zones were not known says so, or that   *)
(* some are passed; no text that may be shown has a reading of its own or  *)
(* says in the words looked for that it avoids zones it did not.           *)
LEMMA TextHolds ==
  ASSUME NEW req \in Brief!BriefRequests, NEW ev,
         NEW out \in {Brief!Template(req, ev)} \cup {t \in Brief!Texts : Brief!Accepted(req, t)}
  PROVE  /\ out.says # "reading made up" /\ (out.says = "avoids zones" => req.route.avoided)
         /\ out.template /\ ~ req.route.known => DangerSaid(out.hazards)
<1>1. req.route \in MCRoutes /\ req.route.avoided \in BOOLEAN
  BY BriefNumbers DEF Brief!BriefRequests
<1>2. CASE out = Brief!Template(req, ev)
  <2>1. /\ out.says = (IF req.route.avoided THEN "avoids zones" ELSE "nothing")
        /\ out.hazards = Brief!Upto(Brief!Dangers(req.route, ev), Brief!TemplateItems)
    BY <1>2 DEF Brief!Template
  <2>2. ASSUME ~ req.route.known
        PROVE  DangerSaid(out.hazards)
    BY <1>1, <2>1, <2>2, UnknownListed
  <2> QED BY <1>1, <2>1, <2>2
<1>3. CASE out \in Brief!Texts /\ Brief!Accepted(req, out)
  <2>1. out.template = FALSE /\ out.says # "reading made up"
    BY <1>3 DEF Brief!Texts, Brief!Accepted
  <2>2. out.says = "avoids zones" => Brief!ClaimsAvoidance(req.route, out)
    BY DEF Brief!ClaimsAvoidance
  <2> QED BY <1>3, <2>1, <2>2 DEF Brief!Accepted
<1> QED BY <1>2, <1>3

LEMMA BriefNext ==
  ASSUME BriefInv, [Brief!Next]_(Brief!vars)
  PROVE  BriefInv'
<1>0. /\ clock \in Nat /\ outside.down \subseteq Brief!Reads
      /\ work \in [Callers -> Works \cup {None}] /\ DOMAIN shown = Callers
      /\ \A e \in stored : Grounded(e, clock)
      /\ \A c \in Callers : shown[c] # None =>
           /\ Grounded(shown[c].entry, clock) /\ shown[c].entry.of = shown[c].asked
           /\ shown[c].when - shown[c].entry.at <= CACHE_S
  BY DEF BriefInv
<1>1. ASSUME clock' = clock \/ clock' = clock + 1, NEW e, Grounded(e, clock)
      PROVE  Grounded(e, clock')
  <2>1. PICK at_ : at_ = e.at
    OBVIOUS
  <2>2. PICK now : now = clock'
    OBVIOUS
  <2>3. at_ \in Nat /\ at_ <= clock
    BY <1>1, <2>1 DEF Grounded
  <2>4. at_ <= now
    BY <1>0, <1>1, <2>2, <2>3
  <2> QED BY <1>1, <2>1, <2>2, <2>3, <2>4 DEF Grounded
<1>2. ASSUME clock' = clock \/ clock' = clock + 1, UNCHANGED stored, UNCHANGED shown, UNCHANGED work,
             outside'.down \subseteq Brief!Reads
      PROVE  BriefInv'
  <2>1. \A e \in stored' : Grounded(e, clock')
    BY <1>0, <1>1, <1>2
  <2>2. \A c \in Callers : shown'[c] # None =>
          /\ Grounded(shown[c].entry, clock)' /\ shown'[c].entry.of = shown'[c].asked
          /\ shown'[c].when - shown'[c].entry.at <= CACHE_S
    BY <1>0, <1>1, <1>2
  <2> QED BY <1>0, <1>2, <2>1, <2>2 DEF BriefInv
<1>3. ASSUME Brief!Tick PROVE BriefInv'
  BY <1>0, <1>2, <1>3 DEF Brief!Tick
<1>4. ASSUME Brief!Weather PROVE BriefInv'
  <2>1. outside'.down \subseteq Brief!Reads
    <3>1. CASE outside' = [outside EXCEPT !.storm = TRUE]
      BY <1>0, <3>1
    <3>2. ASSUME NEW down \in {{s} : s \in Brief!Reads} \cup {Brief!Reads},
                 outside' = [outside EXCEPT !.down = down]
          PROVE  outside'.down \subseteq Brief!Reads
      <4>1. down \subseteq Brief!Reads
        OBVIOUS
      <4>2. outside'.down = down \/ outside'.down = outside.down
        BY <3>2
      <4> QED BY <1>0, <4>1, <4>2
    <3> QED BY <1>4, <3>1, <3>2 DEF Brief!Weather
  <2> QED BY <1>2, <1>4, <2>1 DEF Brief!Weather
(* What is shown now: an entry written for the request, young enough.      *)
<1>5. ASSUME NEW c \in Callers, NEW req \in Brief!BriefRequests, NEW e,
             Brief!Show(c, req, e), Grounded(e, clock), e.of = req, clock - e.at <= CACHE_S,
             UNCHANGED <<clock, outside>>, \A o \in stored' : Grounded(o, clock),
             work' \in [Callers -> Works \cup {None}]
      PROVE  BriefInv'
  <2>1. DOMAIN shown' = Callers
    BY <1>0, <1>5 DEF Brief!Show
  <2>2. ASSUME NEW d \in Callers, shown'[d] # None
        PROVE  /\ Grounded(shown'[d].entry, clock') /\ shown'[d].entry.of = shown'[d].asked
               /\ shown'[d].when - shown'[d].entry.at <= CACHE_S
    <3>1. CASE d = c
      <4>1. shown'[d] = [asked |-> req, when |-> clock, entry |-> e]
        BY <1>0, <1>5, <3>1 DEF Brief!Show
      <4> QED BY <1>1, <1>5, <4>1
    <3>2. CASE d # c
      <4>1. shown'[d] = shown[d]
        BY <1>0, <1>5, <3>2 DEF Brief!Show
      <4> QED BY <1>0, <1>1, <1>5, <2>2, <4>1
    <3> QED BY <3>1, <3>2
  <2>3. \A o \in stored' : Grounded(o, clock')
    BY <1>1, <1>5
  <2> QED BY <1>0, <1>5, <2>1, <2>2, <2>3 DEF BriefInv
<1>6. ASSUME NEW c \in Callers, NEW req \in Brief!BriefRequests, Brief!Ask(c, req) PROVE BriefInv'
  <2>1. stored' = {e \in stored : clock - e.at <= CACHE_S}
    BY <1>6 DEF Brief!Ask, Brief!Young
  <2>2. \A o \in stored' : Grounded(o, clock) /\ clock - o.at <= CACHE_S
    BY <1>0, <2>1
  <2>3. ASSUME NEW e \in stored', e.key = req, Brief!Show(c, req, e), UNCHANGED work PROVE BriefInv'
    <3>1. e.of = req /\ Grounded(e, clock) /\ clock - e.at <= CACHE_S
      BY <2>2, <2>3 DEF Grounded, Honest
    <3> QED BY <1>0, <1>5, <1>6, <2>2, <2>3, <3>1 DEF Brief!Ask
  <2>4. ASSUME work' = [work EXCEPT ![c] = [req |-> req, ev |-> None]], UNCHANGED shown PROVE BriefInv'
    <3>1. [req |-> req, ev |-> None] \in Works
      BY DEF Works
    <3>2. work' \in [Callers -> Works \cup {None}]
      BY <1>0, <2>4, <3>1
    <3>3. /\ clock' = clock /\ outside' = outside
      BY <1>6 DEF Brief!Ask
    <3>4. \A o \in stored' : Grounded(o, clock')
      BY <1>1, <2>2, <3>3
    <3>5. \A d \in Callers : shown'[d] # None =>
            /\ Grounded(shown'[d].entry, clock') /\ shown'[d].entry.of = shown'[d].asked
            /\ shown'[d].when - shown'[d].entry.at <= CACHE_S
      BY <1>0, <1>1, <2>4, <3>3
    <3> QED BY <1>0, <2>4, <3>2, <3>3, <3>4, <3>5 DEF BriefInv
  <2> QED BY <1>6, <2>3, <2>4 DEF Brief!Ask, Brief!Key
<1>7. ASSUME NEW c \in Callers, Brief!Read(c) PROVE BriefInv'
  <2>1. work[c] \in Works
    BY <1>0, <1>7 DEF Brief!Read
  <2>2. Brief!BuildEvidence(work[c].req) \in Evidences
    BY <1>0 DEF Brief!BuildEvidence, Evidences
  <2>3. [work[c] EXCEPT !.ev = Brief!BuildEvidence(work[c].req)] \in Works
    BY <2>1, <2>2 DEF Works
  <2>4. work' \in [Callers -> Works \cup {None}]
    BY <1>0, <1>7, <2>3 DEF Brief!Read
  <2>5. /\ clock' = clock /\ outside' = outside /\ stored' = stored /\ shown' = shown
    BY <1>7 DEF Brief!Read
  <2>6. /\ \A o \in stored : Grounded(o, clock')
        /\ \A d \in Callers : shown[d] # None => Grounded(shown'[d].entry, clock')
    BY <1>0, <1>1, <2>5
  <2> QED BY <1>0, <2>4, <2>5, <2>6 DEF BriefInv
<1>8. ASSUME NEW c \in Callers, Brief!Finish(c) PROVE BriefInv'
  <2>1. work[c] \in Works /\ work[c].req \in Brief!BriefRequests
    BY <1>0, <1>8 DEF Brief!Finish, Works
  <2>2. PICK req : req = work[c].req
    OBVIOUS
  <2>3. PICK out \in {Brief!Template(req, work[c].ev)} \cup {t \in Brief!Texts : Brief!Accepted(req, t)} :
          LET e == [key |-> Brief!Key(req), of |-> req, at |-> clock, out |-> out]
          IN  stored' = {o \in stored : o.key # e.key} \cup {e} /\ Brief!Show(c, req, e)
    BY <1>8, <2>2 DEF Brief!Finish, Brief!Kept
  <2> DEFINE e == [key |-> Brief!Key(req), of |-> req, at |-> clock, out |-> out]
  <2>4. /\ out.says # "reading made up" /\ (out.says = "avoids zones" => req.route.avoided)
        /\ out.template /\ ~ req.route.known => DangerSaid(out.hazards)
    BY <2>1, <2>2, <2>3, TextHolds
  <2>5. e.key = req /\ e.of = req /\ e.at = clock /\ e.out = out
    BY DEF Brief!Key
  <2>6. stored' = {o \in stored : o.key # e.key} \cup {e} /\ Brief!Show(c, req, e)
    BY <2>3
  <2> HIDE DEF e
  <2>7. Grounded(e, clock) /\ e.of = req /\ clock - e.at <= CACHE_S
    <3>1. Honest(e)
      BY <2>1, <2>2, <2>4, <2>5 DEF Honest
    <3>2. clock - clock = 0 /\ clock - clock <= CACHE_S /\ clock <= clock
      BY <1>0, BriefLimits
    <3> QED BY <1>0, <2>5, <3>1, <3>2 DEF Grounded
  <2>8. work' \in [Callers -> Works \cup {None}]
    BY <1>0, <1>8 DEF Brief!Finish, Brief!Kept
  <2>9. \A o \in stored' : Grounded(o, clock)
    BY <1>0, <2>6, <2>7
  <2>10. UNCHANGED <<clock, outside>>
    BY <1>8 DEF Brief!Finish, Brief!Kept
  <2> QED BY <1>5, <2>1, <2>2, <2>6, <2>7, <2>8, <2>9, <2>10
<1>9. ASSUME UNCHANGED Brief!vars PROVE BriefInv'
  BY <1>0, <1>2, <1>9 DEF Brief!vars
<1> QED BY <1>3, <1>4, <1>6, <1>7, <1>8, <1>9 DEF Brief!Next

LEMMA BriefSteps == [AnyNext]_allVars => [Brief!Next]_(Brief!vars)
BY DEF AnyNext, allVars, newVars, briefVars, InTalk, InWalk, InNew, Brief!vars

(* Whatever the sources do between two reads, whichever specialists fail   *)
(* and however often the gate sends the run back, the readings in an       *)
(* answer that passed the check were made in its last pass and a judgement *)
(* that is stale or missing is said to be; and a text about a route is for *)
(* the route it is shown with, has no readings but the evidence's, says    *)
(* zones are avoided, in the words looked for, only if some were, and says *)
(* that the zones were not known, or that some are passed.                 *)
THEOREM AnswersAlwaysHonest == AnySpec => []HonestAnswer
<1> DEFINE Inv == GroundsInv /\ BriefInv
<1>1. AnyInit => Inv
  BY GroundsInit, BriefInit DEF AnyInit
<1>2. Inv /\ [AnyNext]_allVars => Inv'
  BY GroundsNext, GroundsSteps, BriefNext, BriefSteps
<1>3. BriefInv => Brief!BriefIsGrounded
  BY DEF BriefInv, Grounded, Honest, DangerSaid, Brief!BriefIsGrounded
<1>4. Inv => HonestAnswer
  BY <1>3, GroundsShow DEF HonestAnswer
<1> QED BY <1>1, <1>2, <1>4, PTL DEF AnySpec

-----------------------------------------------------------------------------
(* What an advice contains (Advice).                                       *)

(* The first mention of the route is one.                                  *)
LEMMA FirstIsRoute ==
  ASSUME NEW steps \in Seq(Answer!StepKinds), "route" \in Answer!Range(steps)
  PROVE  /\ Answer!FirstRoute(steps) \in 1..Len(steps)
         /\ steps[Answer!FirstRoute(steps)] = "route"
<1> DEFINE T == {i \in DOMAIN steps : steps[i] = "route"}
<1>1. DOMAIN steps = 1..Len(steps) /\ Len(steps) \in Nat
  BY LenProperties
<1>2. T \in SUBSET Nat /\ T # {}
  BY <1>1 DEF Answer!Range
<1>3. PICK x \in T : \A y \in T : x <= y
  BY <1>2, Least
<1>4. ASSUME NEW j \in 1..(x - 1) PROVE steps[j] # "route"
  <2>1. j \in DOMAIN steps /\ ~ (x <= j)
    BY <1>1, <1>3
  <2> QED BY <1>3, <2>1
<1>5. x \in DOMAIN steps /\ steps[x] = "route" /\ \A j \in 1..(x - 1) : steps[j] # "route"
  BY <1>3, <1>4
<1> QED BY <1>1, <1>5 DEF Answer!FirstRoute

RouteLeads(steps) ==
  \/ steps # <<>> /\ Head(steps) = "route"
  \/ Len(steps) > 1 /\ SubSeq(steps, 1, 2) = <<"119", "route">>

(* A list whose second item is the route and whose first is a call of 119. *)
LEMMA Second ==
  ASSUME NEW s \in Seq(Answer!StepKinds), Len(s) > 1, s[1] = "119", s[2] = "route"
  PROVE  RouteLeads(s)
<1>1. Len(s) \in Nat
  BY LenProperties
<1>2. 1 \in 1..Len(s) + 1 /\ 2 \in 1 - 1..Len(s)
  BY <1>1
<1>3. /\ SubSeq(s, 1, 2) \in Seq(Answer!StepKinds) /\ Len(SubSeq(s, 1, 2)) = 2
      /\ \A i \in 1..2 : SubSeq(s, 1, 2)[i] = s[1 + i - 1]
  BY <1>1, <1>2, SubSeqProperties
<1>4. SubSeq(s, 1, 2)[1] = "119" /\ SubSeq(s, 1, 2)[2] = "route"
  BY <1>3
<1>5. <<"119", "route">> \in Seq(Answer!StepKinds)
  BY DEF Answer!StepKinds
<1>6. SubSeq(s, 1, 2) = <<"119", "route">>
  <2>1. PICK t : t = SubSeq(s, 1, 2)
    OBVIOUS
  <2>2. t \in Seq(Answer!StepKinds) /\ Len(t) = 2 /\ t[1] = "119" /\ t[2] = "route"
    BY <1>3, <1>4, <2>1
  <2>3. PICK u : u = <<"119", "route">>
    OBVIOUS
  <2>4. u \in Seq(Answer!StepKinds) /\ Len(u) = 2 /\ u[1] = "119" /\ u[2] = "route"
    BY <1>5, <2>3
  <2>5. \A i \in 1..Len(t) : t[i] = u[i]
    BY <2>2, <2>4
  <2> QED BY <2>1, <2>2, <2>3, <2>4, <2>5, SeqEqual
<1> QED BY <1>6 DEF RouteLeads

LEMMA Inserted ==
  ASSUME NEW S, NEW s \in Seq(S), NEW x \in S, NEW i \in 1..2, i <= Len(s) + 1,
         NEW w, w = Answer!InsertAt(s, i, x)
  PROVE  /\ w \in Seq(S) /\ Len(w) >= i
         /\ i = 1 => w[1] = x
         /\ i = 2 => w[1] = s[1] /\ w[2] = x
<1> DEFINE a == SubSeq(s, 1, i - 1)
           b == SubSeq(s, i, Len(s))
<1>1. Len(s) \in Nat
  BY LenProperties
<1>2. /\ a \in Seq(S) /\ Len(a) = i - 1 /\ \A k \in 1..(i - 1) : a[k] = s[k]
      /\ b \in Seq(S) /\ Len(b) \in Nat
  BY <1>1, SubSeqProperties, LenProperties
<1>3. Answer!InsertAt(s, i, x) = (a \o <<x>>) \o b
  BY DEF Answer!InsertAt
<1> HIDE DEF a, b
<1>4. /\ a \o <<x>> \in Seq(S) /\ Len(a \o <<x>>) = i /\ (a \o <<x>>)[i] = x
  <2>1. Len(a) + 1 = i
    BY <1>2
  <2> QED BY <1>2, <2>1, ListedLast
<1>5. i = 2 => (a \o <<x>>)[1] = a[1]
  <2>1. <<x>> \in Seq(S) /\ Len(<<x>>) = 1
    OBVIOUS
  <2> QED BY <1>2, <2>1, ConcatProperties, SMTT(30)
<1>6. PICK c : c = a \o <<x>>
  OBVIOUS
<1>7. /\ c \o b \in Seq(S) /\ Len(c \o b) = i + Len(b) /\ (c \o b)[i] = c[i]
      /\ i = 2 => (c \o b)[1] = c[1]
  BY <1>2, <1>4, <1>6, ConcatProperties
<1> QED BY <1>2, <1>3, <1>4, <1>5, <1>6, <1>7

(* Removing an item after the first leaves the first.                      *)
LEMMA Removed ==
  ASSUME NEW S, NEW s \in Seq(S), NEW i \in 1..Len(s)
  PROVE  /\ Answer!RemoveAt(s, i) \in Seq(S)
         /\ i > 1 => Len(Answer!RemoveAt(s, i)) >= 1 /\ Answer!RemoveAt(s, i)[1] = s[1]
<1> DEFINE a == SubSeq(s, 1, i - 1)
           b == SubSeq(s, i + 1, Len(s))
<1>1. Len(s) \in Nat
  BY LenProperties
<1>2. /\ a \in Seq(S) /\ Len(a) = i - 1 /\ \A k \in 1..(i - 1) : a[k] = s[k]
      /\ b \in Seq(S) /\ Len(b) \in Nat
  BY <1>1, SubSeqProperties, LenProperties
<1>3. Answer!RemoveAt(s, i) = a \o b
  BY DEF Answer!RemoveAt
<1> HIDE DEF a, b
<1>4. /\ a \o b \in Seq(S) /\ Len(a \o b) = Len(a) + Len(b)
      /\ \A k \in 1..Len(a) + Len(b) : (a \o b)[k] = IF k <= Len(a) THEN a[k] ELSE b[k - Len(a)]
  BY <1>2, ConcatProperties
<1>5. ASSUME i > 1 PROVE Len(a \o b) >= 1 /\ (a \o b)[1] = s[1]
  <2>1. PICK n : n = Len(b)
    OBVIOUS
  <2>2. PICK m : m = Len(a)
    OBVIOUS
  <2>3. n \in Nat /\ m \in Nat /\ m >= 1 /\ a[1] = s[1]
    BY <1>1, <1>2, <1>5, <2>1, <2>2
  <2>4. 1 \in 1..m + n /\ 1 <= m /\ m + n >= 1
    BY <2>3
  <2>5. (a \o b)[1] = a[1]
    BY <1>4, <2>1, <2>2, <2>4
  <2> QED BY <1>4, <2>1, <2>2, <2>3, <2>4, <2>5
<1> QED BY <1>3, <1>4, <1>5

(* with_route_first: the way is the first thing said, or the second after  *)
(* a call of 119.                                                          *)
LEMMA WayFirst ==
  ASSUME NEW steps \in Seq(Answer!StepKinds)
  PROVE  Answer!WithRouteFirst(steps) \in Seq(Answer!StepKinds) /\ RouteLeads(Answer!WithRouteFirst(steps))
<1> DEFINE at0 == IF steps # <<>> /\ steps[1] = "119" THEN 1 ELSE 0
           some == "route" \in Answer!Range(steps)
           f == Answer!FirstRoute(steps)
           rest == IF some THEN Answer!RemoveAt(steps, f) ELSE steps
<1>1. Answer!WithRouteFirst(steps) = IF some /\ f <= at0 + 1 THEN steps ELSE Answer!InsertAt(rest, at0 + 1, "route")
  BY DEF Answer!WithRouteFirst
<1>2. some => f \in 1..Len(steps) /\ steps[f] = "route"
  BY FirstIsRoute
<1>3. Len(steps) \in Nat /\ (steps # <<>> => Len(steps) >= 1)
  BY LenProperties, EmptySeq
<1>4. "route" \in Answer!StepKinds
  BY DEF Answer!StepKinds
<1>5. CASE some /\ f <= at0 + 1
  <2>1. CASE f = 1
    BY <1>1, <1>2, <1>5, <2>1 DEF RouteLeads
  <2>2. CASE f # 1
    <3>1. f = 2 /\ steps[1] = "119" /\ Len(steps) > 1
      BY <1>2, <1>3, <1>5, <2>2
    <3> QED BY <1>1, <1>2, <1>5, <3>1, Second
  <2> QED BY <2>1, <2>2
<1>6. CASE ~ (some /\ f <= at0 + 1)
  <2>1. rest \in Seq(Answer!StepKinds) /\ at0 \in {0, 1}
    BY <1>2, Removed
  <2>2. at0 = 1 => Len(rest) >= 1 /\ rest[1] = "119"
    <3>1. CASE some
      BY <1>2, <1>6, <3>1, Removed
    <3>2. CASE ~ some
      BY <1>3, <3>2
    <3> QED BY <3>1, <3>2
  <2>3. Answer!WithRouteFirst(steps) = Answer!InsertAt(rest, at0 + 1, "route")
    BY <1>1, <1>6
  <2> HIDE DEF rest, at0
  <2>4. PICK r : r = rest
    OBVIOUS
  <2>5. PICK i : i = at0 + 1
    OBVIOUS
  <2>6. PICK w : w = Answer!InsertAt(r, i, "route")
    OBVIOUS
  <2>7. r \in Seq(Answer!StepKinds) /\ i \in 1..2 /\ (i = 2 => Len(r) >= 1 /\ r[1] = "119")
    BY <2>1, <2>2, <2>4, <2>5
  <2>8. Len(r) \in Nat /\ i <= Len(r) + 1
    BY <2>7, LenProperties
  <2>9. /\ w \in Seq(Answer!StepKinds) /\ Len(w) >= i
        /\ i = 1 => w[1] = "route"
        /\ i = 2 => w[1] = r[1] /\ w[2] = "route"
    <3>1. PICK x : x = "route"
      OBVIOUS
    <3>2. x \in Answer!StepKinds /\ w = Answer!InsertAt(r, i, x)
      BY <1>4, <2>6, <3>1
    <3> QED BY <2>7, <2>8, <3>1, <3>2, Inserted
  <2>10. RouteLeads(w)
    <3>1. CASE i = 1
      <4>1. w # <<>> /\ Head(w) = w[1]
        BY <2>9, <3>1, HeadTailProperties
      <4> QED BY <2>9, <3>1, <4>1 DEF RouteLeads
    <3>2. CASE i = 2
      <4>1. Len(w) > 1
        BY <2>9, <3>2, LenProperties
      <4> QED BY <2>7, <2>9, <3>2, <4>1, Second
    <3> QED BY <2>7, <3>1, <3>2
  <2> QED BY <2>3, <2>4, <2>5, <2>6, <2>9, <2>10
<1> QED BY <1>5, <1>6

(* Where a person who named no place is taken to be.                       *)
Here == IF ask.gps THEN "gps" ELSE IF ask.home THEN "home" ELSE "centre"
Plans ==
  [path : {"none", "checklist", "after", "safe", "danger", "situation"}, emergency : BOOLEAN,
   needRoute : BOOLEAN, question : BOOLEAN, route : Answer!RouteRecords, steps : Seq(Answer!StepKinds)]
Answered == phase = "during" /\ ~ agents \subseteq {"recovery"}
InDangerNow == Answer!InDanger(read.zone, Answer!Known(ask))

(* A route found starts where the person is, or was asked to be; the       *)
(* decision of a danger stands, with the call or the route it asks for,    *)
(* through the computation of the route and the writing, and what is       *)
(* written obeys it.                                                       *)
AdviceInv ==
  /\ at \in {"manager", "location", "advisor", "evacuation", "writer", "done"}
  /\ ask \in Answer!Asks /\ (ask.here => ask.said)
  /\ found \in Answer!RouteRecords /\ (found # None => found.from = Answer!PickUserLocation(ask))
  /\ read \in [zone : Answer!ZoneReads, canMove : {"yes", "no", "unknown"}]
  /\ plan \in Plans
  /\ plan.route # None => plan.route.from = Here
  /\ at \in {"manager", "location", "advisor"} => plan.route = None
  /\ at \in {"evacuation", "writer"} /\ Answered /\ InDangerNow =>
       plan.emergency = (read.canMove = "no") /\ plan.needRoute = (read.canMove # "no")
  /\ at = "done" /\ Answered /\ InDangerNow =>
       IF read.canMove = "no" THEN plan.steps # <<>> /\ Head(plan.steps) = "119"
       ELSE plan.route # None => RouteLeads(plan.steps)

LEMMA WrittenSteps ==
  /\ \A s \in Answer!SeqOf(Answer!StepKinds, MaxSteps) : s \in Seq(Answer!StepKinds)
  /\ <<>> \in Seq(Answer!StepKinds) /\ <<"119">> \in Seq(Answer!StepKinds)
  /\ <<"route">> \in Seq(Answer!StepKinds) /\ <<"other">> \in Seq(Answer!StepKinds)
<1>1. ASSUME NEW s \in Answer!SeqOf(Answer!StepKinds, MaxSteps) PROVE s \in Seq(Answer!StepKinds)
  <2>1. PICK m \in 0..MaxSteps : s \in [1..m -> Answer!StepKinds]
    BY DEF Answer!SeqOf
  <2>2. m \in Nat
    BY GuidanceAssumption DEF Answer!AdviceAssumption
  <2> QED BY <2>1, <2>2, SeqDef
<1> QED BY <1>1 DEF Answer!StepKinds

(* A call of 119 put before a list is its head.                            *)
LEMMA CallFirst ==
  ASSUME NEW s \in Seq(Answer!StepKinds)
  PROVE  LET w == <<"119">> \o s
         IN  w \in Seq(Answer!StepKinds) /\ w # <<>> /\ Head(w) = "119"
<1> DEFINE w == <<"119">> \o s
<1>1. PICK a : a = <<"119">>
  OBVIOUS
<1>2. a \in Seq(Answer!StepKinds) /\ Len(a) = 1 /\ a[1] = "119" /\ Len(s) \in Nat
  BY <1>1, WrittenSteps, LenProperties
<1>3. /\ a \o s \in Seq(Answer!StepKinds) /\ Len(a \o s) = 1 + Len(s) /\ (a \o s)[1] = a[1]
  <2>1. PICK n : n = Len(s)
    OBVIOUS
  <2>2. 1 \in 1..1 + n /\ 1 <= 1
    BY <1>2, <2>1
  <2> QED BY <1>2, <2>1, <2>2, ConcatProperties, SMTT(30)
<1>4. w = a \o s
  BY <1>1
<1> HIDE DEF w
<1>5. Len(w) # 0
  BY <1>2, <1>3, <1>4
<1>6. w # <<>> /\ Head(w) = w[1]
  BY <1>3, <1>4, <1>5, HeadTailProperties, EmptySeq
<1> QED BY <1>2, <1>3, <1>4, <1>6 DEF w

LEMMA PlaceOfPerson ==
  ASSUME ask \in Answer!Asks, ask.here => ask.said
  PROVE  /\ Answer!PickUserLocation(Answer!FromCurrent(ask)) = Here
         /\ ~ Answer!Elsewhere(ask) => Answer!PickUserLocation(ask) = Here
         /\ Answer!Known(ask) = (ask.here \/ ask.pin \/ ask.gps \/ ask.home)
<1> DEFINE unsaid == [ask EXCEPT !.said = FALSE]
           current == Answer!FromCurrent(ask)
<1>1. /\ unsaid.said = FALSE /\ unsaid.pin = ask.pin /\ unsaid.gps = ask.gps /\ unsaid.home = ask.home
  BY DEF Answer!Asks
<1>2. /\ current.here = FALSE /\ current \in Answer!Asks
      /\ current.pin = FALSE /\ current.gps = ask.gps /\ current.home = ask.home
  BY DEF Answer!Asks, Answer!FromCurrent
<1>3. LET c == [current EXCEPT !.said = FALSE]
      IN  c.said = FALSE /\ c.pin = FALSE /\ c.gps = ask.gps /\ c.home = ask.home
  BY <1>2 DEF Answer!Asks
<1> HIDE DEF current, unsaid
<1>4. Answer!PickUserLocation(current) = Here
  BY <1>2, <1>3 DEF Answer!PickUserLocation, Answer!PickLocation, Here
<1>5. Answer!PickUserLocation(ask) = IF ask.here THEN "said" ELSE IF ask.pin THEN "pin" ELSE Here
  <2>1. Answer!PickUserLocation(ask) = Answer!PickLocation(IF ask.here THEN ask ELSE unsaid)
    BY DEF Answer!PickUserLocation, unsaid
  <2> QED BY <1>1, <2>1 DEF Answer!PickLocation, Here
<1> QED BY <1>4, <1>5 DEF current, Answer!Known, Answer!Elsewhere, Here

(* The routes computed start at the origin and lead somewhere.             *)
LEMMA RouteKinds ==
  ASSUME NEW origin \in {"said", "pin", "gps", "home", "centre"}, NEW places \in SUBSET Answer!Places,
         NEW route \in Answer!Routes(origin, places)
  PROVE  route \in Answer!RouteRecords /\ (route # None => route.from = origin)
<1>1. PICK target \in {Answer!RouteTarget(place, Answer!Chosen(shelters)) :
                          place \in places, shelters \in Answer!ShelterLists}, ok \in BOOLEAN :
        route = IF target = "none" \/ ~ ok THEN None ELSE [from |-> origin, to |-> target]
  BY DEF Answer!Routes
<1>2. PICK place \in places, shelters \in Answer!ShelterLists :
        target = Answer!RouteTarget(place, Answer!Chosen(shelters))
  BY <1>1
<1>3. target = "none" \/ target \in Answer!Kinds
  BY <1>2 DEF Answer!RouteTarget, Answer!Chosen, Answer!Kinds
<1> QED BY <1>1, <1>3 DEF Answer!RouteRecords

LEMMA AdviceInit == Answer!Init => AdviceInv
<1>1. ASSUME Answer!Init PROVE AdviceInv
  <2>1. Answer!NoPlan \in Plans /\ Answer!NoPlan.route = None
    BY WrittenSteps DEF Plans, Answer!NoPlan, Answer!RouteRecords
  <2>2. ask \in Answer!Asks /\ (ask.here => ask.said)
    BY <1>1, GuidanceAssumption DEF Answer!Init, Answer!AdviceAssumption
  <2> QED BY <1>1, <2>1, <2>2 DEF Answer!Init, AdviceInv, Answer!RouteRecords, Answer!Unread, Answer!ZoneReads
<1> QED BY <1>1

LEMMA AdviceNext ==
  ASSUME AdviceInv, [Answer!Next]_(Answer!vars)
  PROVE  AdviceInv'
<1>0. /\ ask \in Answer!Asks /\ (ask.here => ask.said) /\ plan \in Plans
      /\ found \in Answer!RouteRecords /\ (found # None => found.from = Answer!PickUserLocation(ask))
      /\ Answer!PickUserLocation(ask) \in {"said", "pin", "gps", "home", "centre"}
      /\ Here \in {"said", "pin", "gps", "home", "centre"}
  BY DEF AdviceInv, Answer!PickUserLocation, Answer!PickLocation, Here
<1>1. ASSUME Answer!Manager PROVE AdviceInv'
  <2>1. /\ at = "manager" /\ at' \in {"location", "advisor"}
        /\ ask' = ask /\ found' = found /\ read' = read /\ plan' = plan
    BY <1>1 DEF Answer!Manager
  <2> QED BY <2>1 DEF AdviceInv, Here, Answer!PickUserLocation, Answer!PickLocation
<1>2. ASSUME Answer!LocationRouteAgent PROVE AdviceInv'
  <2>1. /\ at = "location" /\ at' = "advisor" /\ ask' = ask /\ read' = read /\ plan' = plan
        /\ found' \in Answer!Routes(Answer!PickUserLocation(ask), Answer!Places)
    BY <1>2 DEF Answer!LocationRouteAgent
  <2>2. /\ found' \in Answer!RouteRecords
        /\ found' # None => found'.from = Answer!PickUserLocation(ask)
    BY <1>0, <2>1, RouteKinds
  <2>3. Answer!PickUserLocation(ask)' = Answer!PickUserLocation(ask) /\ Here' = Here
    BY <2>1 DEF Answer!PickUserLocation, Answer!PickLocation, Here
  <2> QED BY <2>1, <2>2, <2>3 DEF AdviceInv
<1>3. ASSUME Answer!Advise PROVE AdviceInv'
  <2>1. /\ at = "advisor" /\ plan.route = None /\ ask' = ask /\ agents' = agents /\ phase' = phase /\ found' = found
    BY <1>3 DEF Answer!Advise, AdviceInv
  <2>2. /\ Here' = Here /\ Answer!PickUserLocation(ask)' = Answer!PickUserLocation(ask)
        /\ Answered' = Answered /\ Answer!Known(ask') = Answer!Known(ask)
    BY <2>1 DEF Here, Answer!PickUserLocation, Answer!PickLocation, Answered
  <2>3. CASE agents \subseteq {"recovery"} /\ at' = "done" /\ UNCHANGED <<read, plan>>
    BY <1>0, <2>1, <2>2, <2>3 DEF AdviceInv, Answered
  <2>4. CASE ~ agents \subseteq {"recovery"}
    <3>1. PICK zone \in Answer!ZoneReads, canMove \in {"yes", "no", "unknown"}, hard \in BOOLEAN,
               damage \in {"yes", "no", "unknown"}, wanted \in BOOLEAN :
             LET decision == Answer!Decide(zone, canMove, hard, damage)
                 answered == wanted \/ decision.path = "danger"
             IN  /\ read' = [zone |-> zone, canMove |-> canMove]
                 /\ plan' = IF answered THEN decision ELSE [Answer!NoPlan EXCEPT !.path = "situation"]
                 /\ at' = IF ~ answered THEN "done"
                          ELSE IF decision.needRoute THEN "evacuation" ELSE "writer"
      BY <1>3, <2>4 DEF Answer!Advise
    <3>2. PICK decision : decision = Answer!Decide(zone, canMove, hard, damage)
      OBVIOUS
    <3>3. /\ decision \in Plans /\ decision.route = None
          /\ phase = "during" /\ Answer!InDanger(zone, Answer!Known(ask)) =>
               /\ decision.path = "danger" /\ decision.emergency = (canMove = "no")
               /\ decision.needRoute = (canMove # "no")
      BY <3>2, WrittenSteps DEF Answer!Decide, Answer!NoPlan, Plans, Answer!RouteRecords
    <3>4. PICK other : other = [Answer!NoPlan EXCEPT !.path = "situation"]
      OBVIOUS
    <3>5. other \in Plans /\ other.route = None
      BY <3>4, WrittenSteps DEF Answer!NoPlan, Plans, Answer!RouteRecords
    <3>6. /\ read' = [zone |-> zone, canMove |-> canMove]
          /\ plan' = IF wanted \/ decision.path = "danger" THEN decision ELSE other
          /\ at' = IF ~ (wanted \/ decision.path = "danger") THEN "done"
                   ELSE IF decision.needRoute THEN "evacuation" ELSE "writer"
      BY <3>1, <3>2, <3>4
    <3>7. plan' \in Plans /\ plan'.route = None
      BY <3>3, <3>5, <3>6
    <3>8. read'.zone = zone /\ read'.canMove = canMove /\ read' \in [zone : Answer!ZoneReads, canMove : {"yes", "no", "unknown"}]
      BY <3>6
    <3>9. InDangerNow' = Answer!InDanger(zone, Answer!Known(ask))
      BY <2>2, <3>8 DEF InDangerNow, Answer!InDanger
    <3>10. /\ at' \in {"evacuation", "writer"} /\ Answered' /\ InDangerNow' =>
                plan'.emergency = (read'.canMove = "no") /\ plan'.needRoute = (read'.canMove # "no")
           /\ ~ (at' = "done" /\ Answered' /\ InDangerNow')
           /\ at' \in {"evacuation", "writer", "done"}
      BY <2>2, <3>3, <3>6, <3>8, <3>9 DEF Answered
    <3> QED BY <1>0, <2>1, <2>2, <3>7, <3>8, <3>10 DEF AdviceInv
  <2> QED BY <1>3, <2>3, <2>4 DEF Answer!Advise
<1>4. ASSUME Answer!EvacuationRoute PROVE AdviceInv'
  <2>1. /\ at = "evacuation" /\ at' = "writer" /\ ask' = ask /\ agents' = agents /\ phase' = phase
        /\ found' = found /\ read' = read
    BY <1>4 DEF Answer!EvacuationRoute
  <2>2. PICK route \in IF Answer!Reusable THEN {found}
                       ELSE Answer!Routes(Answer!PickUserLocation(Answer!FromCurrent(ask)), {"none"}) :
          plan' = [plan EXCEPT !.route = route]
    BY <1>4 DEF Answer!EvacuationRoute
  <2>3. route \in Answer!RouteRecords /\ (route # None => route.from = Here)
    <3>1. CASE Answer!Reusable
      BY <1>0, <2>2, <3>1, PlaceOfPerson DEF Answer!Reusable
    <3>2. CASE ~ Answer!Reusable
      <4>1. route \in Answer!Routes(Here, {"none"})
        BY <1>0, <2>2, <3>2, PlaceOfPerson
      <4>2. {"none"} \in SUBSET Answer!Places
        BY DEF Answer!Places
      <4> QED BY <1>0, <4>1, <4>2, RouteKinds
    <3> QED BY <3>1, <3>2
  <2>4. /\ plan' \in Plans /\ plan'.route = route
        /\ plan'.emergency = plan.emergency /\ plan'.needRoute = plan.needRoute
    BY <1>0, <2>2, <2>3 DEF Plans
  <2>5. /\ Here' = Here /\ Answer!PickUserLocation(ask)' = Answer!PickUserLocation(ask)
        /\ Answered' = Answered /\ InDangerNow' = InDangerNow
    BY <2>1 DEF Here, Answer!PickUserLocation, Answer!PickLocation, Answered, InDangerNow,
                Answer!InDanger, Answer!Known
  <2> QED BY <2>1, <2>3, <2>4, <2>5 DEF AdviceInv
<1>5. ASSUME Answer!Write PROVE AdviceInv'
  <2>1. /\ at = "writer" /\ at' = "done" /\ ask' = ask /\ agents' = agents /\ phase' = phase
        /\ found' = found /\ read' = read
    BY <1>5 DEF Answer!Write
  <2>2. PICK written \in Answer!SeqOf(Answer!StepKinds, MaxSteps), guides \in {<<>>, <<"other">>} :
          LET own == Answer!Written(plan.emergency, written)
              steps == IF own = <<>> THEN Answer!TemplateSteps(plan.emergency, plan.route, guides) ELSE own
          IN  plan' = [plan EXCEPT !.steps =
                         IF plan.needRoute /\ plan.route # None THEN Answer!WithRouteFirst(steps) ELSE steps]
    BY <1>5 DEF Answer!Write
  <2>3. PICK own : own = Answer!Written(plan.emergency, written)
    OBVIOUS
  <2>4. PICK steps : steps = IF own = <<>> THEN Answer!TemplateSteps(plan.emergency, plan.route, guides) ELSE own
    OBVIOUS
  <2>5. PICK new : new = IF plan.needRoute /\ plan.route # None THEN Answer!WithRouteFirst(steps) ELSE steps
    OBVIOUS
  <2>6. written \in Seq(Answer!StepKinds) /\ guides \in Seq(Answer!StepKinds)
    BY WrittenSteps
  <2>7. own \in Seq(Answer!StepKinds) /\ (plan.emergency /\ own # <<>> => Head(own) = "119")
    <3>1. CASE plan.emergency /\ written # <<>> /\ written[1] # "119"
      BY <2>3, <2>6, <3>1, CallFirst DEF Answer!Written
    <3>2. CASE ~ (plan.emergency /\ written # <<>> /\ written[1] # "119")
      <4>1. own = written
        BY <2>3, <3>2 DEF Answer!Written
      <4>2. written # <<>> => Head(written) = written[1]
        BY <2>6, HeadTailProperties
      <4> QED BY <2>6, <3>2, <4>1, <4>2
    <3> QED BY <3>1, <3>2
  <2>8. LET t == Answer!TemplateSteps(plan.emergency, plan.route, guides)
        IN  t \in Seq(Answer!StepKinds) /\ (plan.emergency => t # <<>> /\ Head(t) = "119")
    <3>1. PICK b : b = IF plan.route # None THEN <<"route">> ELSE <<>>
      OBVIOUS
    <3>2. b \in Seq(Answer!StepKinds)
      BY <3>1, WrittenSteps
    <3>3. b \o guides \in Seq(Answer!StepKinds)
      BY <2>6, <3>2, ConcatProperties
    <3>4. CASE plan.emergency
      <4>1. PICK a : a = <<"119">>
        OBVIOUS
      <4>2. a \in Seq(Answer!StepKinds)
        BY <4>1, WrittenSteps
      <4>3. Answer!TemplateSteps(plan.emergency, plan.route, guides) = (a \o b) \o guides
        BY <3>1, <3>4, <4>1 DEF Answer!TemplateSteps
      <4>4. (a \o b) \o guides = a \o (b \o guides)
        BY <2>6, <3>2, <4>2, ConcatAssociative
      <4> QED BY <3>3, <4>1, <4>3, <4>4, CallFirst
    <3>5. CASE ~ plan.emergency
      <4>1. PICK a : a = <<>>
        OBVIOUS
      <4>2. Answer!TemplateSteps(plan.emergency, plan.route, guides) = (a \o b) \o guides
        BY <3>1, <3>5, <4>1 DEF Answer!TemplateSteps
      <4>3. a \o b = b
        BY <3>2, <4>1, ConcatEmptySeq
      <4> QED BY <3>3, <3>5, <4>2, <4>3
    <3> QED BY <3>4, <3>5
  <2>9. steps \in Seq(Answer!StepKinds) /\ (plan.emergency => steps # <<>> /\ Head(steps) = "119")
    BY <2>4, <2>7, <2>8
  <2>10. /\ new \in Seq(Answer!StepKinds)
         /\ plan.emergency /\ ~ plan.needRoute => new # <<>> /\ Head(new) = "119"
         /\ plan.needRoute /\ plan.route # None => RouteLeads(new)
    BY <2>5, <2>9, WayFirst
  <2>11. plan' = [plan EXCEPT !.steps = new]
    BY <2>2, <2>3, <2>4, <2>5
  <2>12. /\ plan' \in Plans /\ plan'.steps = new /\ plan'.route = plan.route
    BY <1>0, <2>10, <2>11 DEF Plans
  <2>13. /\ Here' = Here /\ Answer!PickUserLocation(ask)' = Answer!PickUserLocation(ask)
         /\ Answered' = Answered /\ InDangerNow' = InDangerNow
    BY <2>1 DEF Here, Answer!PickUserLocation, Answer!PickLocation, Answered, InDangerNow,
                Answer!InDanger, Answer!Known
  <2>14. Answered /\ InDangerNow =>
           plan.emergency = (read.canMove = "no") /\ plan.needRoute = (read.canMove # "no")
    BY <2>1 DEF AdviceInv
  <2>15. Answered' /\ InDangerNow' =>
           IF read'.canMove = "no" THEN plan'.steps # <<>> /\ Head(plan'.steps) = "119"
           ELSE plan'.route # None => RouteLeads(plan'.steps)
    BY <2>1, <2>10, <2>12, <2>13, <2>14
  <2> QED BY <1>0, <2>1, <2>12, <2>13, <2>15 DEF AdviceInv
<1>6. ASSUME UNCHANGED Answer!vars PROVE AdviceInv'
  BY <1>6 DEF Answer!vars, AdviceInv, Answered, InDangerNow, Here, Answer!InDanger, Answer!Known,
              Answer!PickUserLocation, Answer!PickLocation
<1> QED BY <1>1, <1>2, <1>3, <1>4, <1>5, <1>6 DEF Answer!Next

LEMMA AdviceSteps == [AnyNext]_allVars => [Answer!Next]_(Answer!vars)
BY DEF AnyNext, allVars, answerVars, InTalk, InWalk, InNew, Answer!vars

(* Whatever was asked, whichever read failed and whatever the language     *)
(* model wrote or left out: during a disaster a person in a zone, or who   *)
(* may be in one, is told first of all to call 119 when unable to move,    *)
(* else, if there is a route, where to go, and that route starts where the *)
(* person is, not at a place the question or the conversation named.       *)
THEOREM AdviceAlwaysFits == AnySpec => []AdviceFits
<1>1. AnyInit => AdviceInv
  BY AdviceInit DEF AnyInit
<1>2. AdviceInv /\ [AnyNext]_allVars => AdviceInv'
  BY AdviceNext, AdviceSteps
<1>3. AdviceInv => AdviceFits
  <2>1. ASSUME AdviceInv PROVE Answer!EvacuationFromHere
    BY <2>1 DEF AdviceInv, Here, Answer!EvacuationFromHere
  <2>2. ASSUME AdviceInv PROVE Answer!DangerAnswered
    <3>1. InDangerNow = (read.zone # "outside" \/ ~ (ask.here \/ ask.pin \/ ask.gps \/ ask.home))
      BY <2>2, PlaceOfPerson DEF AdviceInv, InDangerNow, Answer!InDanger
    <3> QED BY <2>2, <3>1 DEF AdviceInv, Answered, RouteLeads, Answer!DangerAnswered
  <2> QED BY <2>1, <2>2 DEF AdviceFits
<1> QED BY <1>1, <1>2, <1>3, PTL DEF AnySpec

-----------------------------------------------------------------------------
(* Whose words a conversation repeats (Guardian).                          *)

Memories ==
  [verdict : {"none", "pass", "retry", "fallback"}, retries : Nat, answer : Questions \cup {None},
   history : Seq(Questions)]
Turns ==
  [at : Talk!Steps, user : Users \cup {None}, cid : Conversations \cup {None}, read : Seq(Questions),
   state : Memories, heard : BOOLEAN, details : Questions \cup {None}, passes : Nat,
   reply : Questions \cup {None}]

TalkTypes ==
  /\ owner \in [Conversations -> Users \cup {None}]
  /\ \A c \in used : c \in Conversations
  /\ \A c \in aged : c \in used
  /\ saved \in [Conversations -> Memories]
  /\ last \in Questions \cup {None}
  /\ turn \in [Questions -> Turns]

(* A conversation is one user's, who owns it as long as it is in progress. *)
Owned ==
  /\ \A q \in Questions :
       IF turn[q].at = "new" THEN turn[q] = Talk!NotAsked
       ELSE turn[q].cid \in used /\ turn[q].user \in Users
  /\ \A p, q \in Questions :
       turn[p].cid # None /\ turn[p].cid = turn[q].cid => turn[p].user = turn[q].user
  /\ \A c \in Conversations : owner[c] # None =>
       c \in used /\ \A q \in Questions : turn[q].cid = c => turn[q].user = owner[c]

(* All that is remembered, read or replied in a conversation was asked in  *)
(* it.                                                                     *)
AskedIn(s, c) == \A i \in DOMAIN s : turn[s[i]].cid = c
Kept(m, c) == (m.answer # None => turn[m.answer].cid = c) /\ AskedIn(m.history, c)
Tells(t, c) == Kept(t.state, c) /\ AskedIn(t.read, c) /\ (t.reply # None => turn[t.reply].cid = c)
OwnWords ==
  /\ \A c \in Conversations : Kept(saved[c], c)
  /\ \A q \in Questions : Tells(turn[q], turn[q].cid)

(* Questions that did not meet run one at a time, and no conversation is   *)
(* swept under one.                                                        *)
OneAtATime ==
  /\ \A p, q \in Questions :
       Talk!Running(p) /\ Talk!Running(q) /\ turn[p].cid = turn[q].cid /\ turn[p].cid \notin overlapped => p = q
  /\ \A q \in Questions : Talk!Running(q) => turn[q].cid \notin aged

(* Alone in its conversation, a question has read all its memory, which    *)
(* its checkpoints repeat, and finds its own answer there.                 *)
Thinking == {"classify", "manage", "direct", "advise", "gate", "finalize"}
Ordered(q, t, m) ==
  /\ t.at = "result" => m.answer = q
  /\ t.at \in {"record", "done"} => t.reply = q
  /\ t.at \in {"start", "result", "record"} \cup Thinking => t.read = m.history
  /\ t.at \in Thinking => t.state.history = t.read
InOrder ==
  \A q \in Questions : turn[q].cid \in Conversations \ overlapped =>
    LET t == turn[q]
    IN  /\ t.at # "new" => Ordered(q, t, saved[t.cid])
        /\ t.at = "done" /\ owner[t.cid] # None => \E i \in DOMAIN saved[t.cid].history : saved[t.cid].history[i] = q

TalkInv == TalkTypes /\ Owned /\ OwnWords /\ OneAtATime /\ InOrder

LEMMA NobodyIsNone ==
  /\ None \notin Users /\ None \notin Conversations /\ None \notin Questions
  /\ MAX_RETRY \in Nat
BY GuidanceAssumption DEF Talk!GuardianAssumption

(* A turn that runs is of a conversation and a user.                       *)
LEMMA Runs ==
  ASSUME TalkInv, NEW q \in Questions, Talk!Running(q)
  PROVE  /\ turn[q].cid \in Conversations /\ turn[q].cid \in used /\ turn[q].user \in Users
         /\ turn[q] \in Turns /\ saved[turn[q].cid] \in Memories
         /\ Kept(saved[turn[q].cid], turn[q].cid) /\ Tells(turn[q], turn[q].cid)
         /\ turn[q].cid \notin overlapped => Ordered(q, turn[q], saved[turn[q].cid])
<1>1. turn[q].at # "new"
  BY DEF Talk!Running
<1>2. turn[q].cid \in Conversations /\ turn[q].cid \in used /\ turn[q].user \in Users
  BY <1>1 DEF TalkInv, TalkTypes, Owned
<1> QED BY <1>1, <1>2 DEF TalkInv, TalkTypes, OwnWords, InOrder

(* One step of one question, which changes its own turn and the memory of  *)
(* its conversation.                                                       *)
LEMMA TalkMoves ==
  ASSUME TalkInv, NEW q \in Questions, Talk!Running(q), NEW next \in Turns, NEW m \in Memories,
         next.user = turn[q].user, next.cid = turn[q].cid, next.at # "new",
         turn' = [turn EXCEPT ![q] = next], saved' = [saved EXCEPT ![turn[q].cid] = m],
         last' \in Questions \cup {None}, UNCHANGED <<owner, used, aged, overlapped>>,
         Kept(m, turn[q].cid), Tells(next, turn[q].cid),
         turn[q].cid \notin overlapped =>
           /\ Ordered(q, next, m)
           /\ next.at = "done" => \E i \in DOMAIN m.history : m.history[i] = q
           /\ \A i \in DOMAIN saved[turn[q].cid].history :
                \E j \in DOMAIN m.history : m.history[j] = saved[turn[q].cid].history[i]
  PROVE  TalkInv'
<1>0. TalkTypes /\ Owned /\ OwnWords /\ OneAtATime /\ InOrder
  BY DEF TalkInv
<1>1. PICK c \in Conversations : c = turn[q].cid
  BY Runs
<1>2. c # None /\ turn[q].at # "new" /\ c \notin aged
  BY <1>0, <1>1, NobodyIsNone DEF Talk!Running, OneAtATime
<1>3. /\ turn'[q] = next /\ \A p \in Questions : p # q => turn'[p] = turn[p]
      /\ saved'[c] = m /\ \A d \in Conversations : d # c => saved'[d] = saved[d]
  BY <1>0, <1>1 DEF TalkTypes
<1>4. \A p \in Questions : turn'[p].cid = turn[p].cid /\ turn'[p].user = turn[p].user
  BY <1>1, <1>3
<1>5. \A p \in Questions : Talk!Running(p)' => Talk!Running(p)
  BY <1>3 DEF Talk!Running
<1>6. TalkTypes'
  BY <1>0, <1>1 DEF TalkTypes
<1>7. Owned'
  <2>1. \A p \in Questions : IF turn'[p].at = "new" THEN turn'[p] = Talk!NotAsked
                             ELSE turn'[p].cid \in used' /\ turn'[p].user \in Users
    <3>1. ASSUME NEW p \in Questions, p # q
          PROVE IF turn'[p].at = "new" THEN turn'[p] = Talk!NotAsked
                ELSE turn'[p].cid \in used' /\ turn'[p].user \in Users
      BY <1>0, <1>3, <3>1 DEF Owned
    <3>2. turn'[q].at # "new" /\ turn'[q].cid \in used' /\ turn'[q].user \in Users
      BY <1>0, <1>2, <1>3 DEF Owned
    <3> QED BY <3>1, <3>2
  <2> QED BY <1>0, <1>4, <2>1 DEF Owned
<1>8. ASSUME NEW s \in Seq(Questions), NEW d, AskedIn(s, d)
      PROVE  \A i \in DOMAIN s : turn'[s[i]].cid = d
  <2>1. \A i \in DOMAIN s : s[i] \in Questions
    BY LenProperties, ElementOfSeq
  <2> QED BY <1>4, <1>8, <2>1 DEF AskedIn
<1>9. ASSUME NEW k \in Memories, NEW d, Kept(k, d)
      PROVE  (k.answer # None => turn'[k.answer].cid = d) /\ \A i \in DOMAIN k.history : turn'[k.history[i]].cid = d
  <2>1. k.history \in Seq(Questions) /\ AskedIn(k.history, d) /\ (k.answer # None => k.answer \in Questions)
    BY <1>9 DEF Kept, Memories
  <2> QED BY <1>4, <1>8, <1>9, <2>1 DEF Kept
<1>10. ASSUME NEW t \in Turns, NEW d, Tells(t, d)
       PROVE  /\ (t.state.answer # None => turn'[t.state.answer].cid = d)
              /\ \A i \in DOMAIN t.state.history : turn'[t.state.history[i]].cid = d
              /\ \A i \in DOMAIN t.read : turn'[t.read[i]].cid = d
              /\ (t.reply # None => turn'[t.reply].cid = d)
  <2>1. /\ t.state \in Memories /\ t.read \in Seq(Questions) /\ (t.reply # None => t.reply \in Questions)
        /\ Kept(t.state, d) /\ AskedIn(t.read, d)
    BY <1>10 DEF Tells, Turns
  <2> QED BY <1>4, <1>8, <1>9, <1>10, <2>1 DEF Tells
<1>11. OwnWords'
  <2>1. \A d \in Conversations : saved'[d] \in Memories /\ Kept(saved'[d], d)
    BY <1>0, <1>1, <1>3 DEF OwnWords, TalkTypes
  <2>2. \A p \in Questions : turn'[p] \in Turns /\ Tells(turn'[p], turn'[p].cid)
    BY <1>0, <1>1, <1>3, <1>4 DEF OwnWords, TalkTypes
  <2>3. \A d \in Conversations :
          /\ saved'[d].answer # None => turn'[saved'[d].answer].cid = d
          /\ \A i \in DOMAIN saved'[d].history : turn'[saved'[d].history[i]].cid = d
    BY <1>9, <2>1
  <2>4. \A p \in Questions :
          /\ turn'[p].state.answer # None => turn'[turn'[p].state.answer].cid = turn'[p].cid
          /\ \A i \in DOMAIN turn'[p].state.history : turn'[turn'[p].state.history[i]].cid = turn'[p].cid
          /\ \A i \in DOMAIN turn'[p].read : turn'[turn'[p].read[i]].cid = turn'[p].cid
          /\ turn'[p].reply # None => turn'[turn'[p].reply].cid = turn'[p].cid
    BY <1>10, <2>2
  <2> QED BY <2>3, <2>4 DEF OwnWords, Kept, Tells, AskedIn
<1>12. OneAtATime'
  BY <1>0, <1>4, <1>5 DEF OneAtATime
<1>13. InOrder'
  <2>1. ASSUME NEW p \in Questions, turn'[p].cid \in Conversations \ overlapped
        PROVE  /\ turn'[p].at # "new" => Ordered(p, turn'[p], saved'[turn'[p].cid])
               /\ turn'[p].at = "done" /\ owner[turn'[p].cid] # None =>
                    \E i \in DOMAIN saved'[turn'[p].cid].history : saved'[turn'[p].cid].history[i] = p
    <3>1. CASE p = q
      BY <1>1, <1>3, <2>1, <3>1
    <3>2. CASE p # q /\ turn[p].cid # c
      BY <1>0, <1>1, <1>3, <2>1, <3>2 DEF InOrder
    <3>3. CASE p # q /\ turn[p].cid = c
      <4>1. c \notin overlapped /\ ~ Talk!Running(p) /\ turn'[p] = turn[p]
        BY <1>0, <1>1, <1>3, <2>1, <3>3 DEF OneAtATime
      <4>2. turn[p].at \in {"done", "lost"}
        <5>1. turn[p].at # "new"
          BY <1>0, <1>2, <3>3 DEF Owned, Talk!NotAsked
        <5> QED BY <4>1, <5>1 DEF Talk!Running
      <4>3. turn[p].at = "done" =>
              turn[p].reply = p /\ (owner[c] # None => \E i \in DOMAIN saved[c].history : saved[c].history[i] = p)
        BY <1>0, <2>1, <3>3, <4>1 DEF InOrder, Ordered
      <4>4. Ordered(p, turn[p], m)
        BY <4>2, <4>3 DEF Ordered, Thinking
      <4>5. turn[p].at = "done" /\ owner[c] # None => \E i \in DOMAIN m.history : m.history[i] = p
        BY <1>1, <4>1, <4>3
      <4> QED BY <1>3, <3>3, <4>1, <4>4, <4>5
    <3> QED BY <3>1, <3>2, <3>3
  <2> QED BY <2>1 DEF InOrder, Ordered
<1> QED BY <1>6, <1>7, <1>11, <1>12, <1>13 DEF TalkInv

LEMMA SameMemory ==
  ASSUME TalkInv, NEW c \in Conversations, saved' = saved
  PROVE  saved' = [saved EXCEPT ![c] = saved[c]]
BY DEF TalkInv, TalkTypes

LEMMA ReadHistoryMoves ==
  ASSUME TalkInv, NEW q \in Questions, Talk!ReadHistory(q) PROVE TalkInv'
<1>1. Talk!Running(q)
  BY DEF Talk!ReadHistory, Talk!Running
<1>2. PICK m : m = saved[turn[q].cid]
  OBVIOUS
<1>3. PICK next : next = [turn[q] EXCEPT !.at = "start", !.read = m.history]
  OBVIOUS
<1>4. /\ m \in Memories /\ m.history \in Seq(Questions) /\ turn[q] \in Turns /\ turn[q].at = "history"
      /\ Kept(m, turn[q].cid) /\ Tells(turn[q], turn[q].cid)
  BY <1>1, <1>2, Runs DEF Memories, Talk!ReadHistory
<1>5. /\ next \in Turns /\ next.at = "start" /\ next.user = turn[q].user /\ next.cid = turn[q].cid
      /\ next.read = m.history /\ next.state = turn[q].state /\ next.reply = turn[q].reply
  BY <1>3, <1>4 DEF Turns, Talk!Steps
<1>6. Tells(next, turn[q].cid)
  BY <1>4, <1>5 DEF Tells, Kept
<1>7. Ordered(q, next, m)
  BY <1>5 DEF Ordered, Thinking
<1>8. /\ turn' = [turn EXCEPT ![q] = next] /\ UNCHANGED <<owner, used, aged, overlapped>>
      /\ saved' = saved /\ last' \in Questions \cup {None}
  BY <1>2, <1>3 DEF Talk!ReadHistory, Talk!Goes, TalkInv, TalkTypes
<1>9. saved' = [saved EXCEPT ![turn[q].cid] = m]
  BY <1>1, <1>2, <1>8, Runs, SameMemory
<1> QED BY <1>1, <1>2, <1>4, <1>5, <1>6, <1>7, <1>8, <1>9, TalkMoves

LEMMA BeginTurnMoves ==
  ASSUME TalkInv, NEW q \in Questions, Talk!BeginTurn(q) PROVE TalkInv'
<1>1. Talk!Running(q)
  BY DEF Talk!BeginTurn, Talk!Running
<1>2. PICK m : m = [saved[turn[q].cid] EXCEPT !.history = turn[q].read]
  OBVIOUS
<1>3. PICK next : next = [turn[q] EXCEPT !.at = "classify", !.state = m, !.passes = 1]
  OBVIOUS
<1>4. /\ saved[turn[q].cid] \in Memories /\ turn[q] \in Turns /\ turn[q].at = "start"
      /\ Kept(saved[turn[q].cid], turn[q].cid) /\ Tells(turn[q], turn[q].cid)
      /\ turn[q].cid \notin overlapped => turn[q].read = saved[turn[q].cid].history
  BY <1>1, Runs DEF Talk!BeginTurn, Ordered
<1>5. m \in Memories /\ m.history = turn[q].read /\ m.answer = saved[turn[q].cid].answer
  BY <1>2, <1>4 DEF Memories, Turns
<1>6. /\ next \in Turns /\ next.at = "classify" /\ next.user = turn[q].user /\ next.cid = turn[q].cid
      /\ next.read = turn[q].read /\ next.state = m /\ next.reply = turn[q].reply
  BY <1>3, <1>4, <1>5 DEF Turns, Talk!Steps
<1>7. Kept(m, turn[q].cid) /\ Tells(next, turn[q].cid)
  BY <1>4, <1>5, <1>6 DEF Tells, Kept
<1>8. Ordered(q, next, m)
  BY <1>5, <1>6 DEF Ordered, Thinking
<1>9. /\ turn' = [turn EXCEPT ![q] = next] /\ UNCHANGED <<owner, used, aged, overlapped>>
      /\ saved' = [saved EXCEPT ![turn[q].cid] = m] /\ last' \in Questions \cup {None}
  BY <1>2, <1>3 DEF Talk!BeginTurn, Talk!Goes, Talk!Checkpoint, TalkInv, TalkTypes
<1> QED BY <1>1, <1>4, <1>5, <1>6, <1>7, <1>8, <1>9, TalkMoves

LEMMA ClassifyMoves ==
  ASSUME TalkInv, NEW q \in Questions, Talk!Classify(q) PROVE TalkInv'
<1>1. Talk!Running(q)
  BY DEF Talk!Classify, Talk!Running
<1>2. PICK m : m = saved[turn[q].cid]
  OBVIOUS
<1>3. PICK heard \in BOOLEAN : /\ last' = IF heard THEN q ELSE last
                               /\ Talk!Goes(q, [turn[q] EXCEPT !.at = "manage", !.heard = heard])
  BY DEF Talk!Classify
<1>4. PICK next : next = [turn[q] EXCEPT !.at = "manage", !.heard = heard]
  OBVIOUS
<1>5. /\ m \in Memories /\ turn[q] \in Turns /\ turn[q].at = "classify"
      /\ Kept(m, turn[q].cid) /\ Tells(turn[q], turn[q].cid)
      /\ turn[q].cid \notin overlapped => turn[q].read = m.history /\ turn[q].state.history = turn[q].read
  BY <1>1, <1>2, Runs DEF Talk!Classify, Ordered, Thinking
<1>6. /\ next \in Turns /\ next.at = "manage" /\ next.user = turn[q].user /\ next.cid = turn[q].cid
      /\ next.read = turn[q].read /\ next.state = turn[q].state /\ next.reply = turn[q].reply
  BY <1>4, <1>5 DEF Turns, Talk!Steps
<1>7. Tells(next, turn[q].cid)
  BY <1>5, <1>6 DEF Tells
<1>8. turn[q].cid \notin overlapped => Ordered(q, next, m)
  BY <1>5, <1>6 DEF Ordered, Thinking
<1>9. /\ turn' = [turn EXCEPT ![q] = next] /\ UNCHANGED <<owner, used, aged, overlapped>>
      /\ saved' = saved /\ last' \in Questions \cup {None}
  BY <1>3, <1>4 DEF Talk!Classify, Talk!Goes, TalkInv, TalkTypes
<1>10. saved' = [saved EXCEPT ![turn[q].cid] = m]
  BY <1>1, <1>2, <1>9, Runs, SameMemory
<1> QED BY <1>1, <1>2, <1>5, <1>6, <1>7, <1>8, <1>9, <1>10, TalkMoves

(* A step whose result goes to the checkpoint: the manager, the advice and *)
(* the gate, which leave answer and history as they were.                  *)
LEMMA CheckpointMoves ==
  ASSUME TalkInv, NEW q \in Questions, turn[q].at \in Thinking,
         NEW m \in Memories, m.answer = turn[q].state.answer, m.history = turn[q].state.history,
         NEW next \in Turns, next.at \in Thinking, next.user = turn[q].user, next.cid = turn[q].cid,
         next.read = turn[q].read, next.state = m, next.reply = turn[q].reply,
         Talk!Goes(q, next), Talk!Checkpoint(q, m), UNCHANGED <<owner, used, aged, last, overlapped>>
  PROVE  TalkInv'
<1>1. Talk!Running(q) /\ next.at \notin {"new", "done", "result", "record"}
  BY DEF Talk!Running, Thinking
<1>2. /\ Tells(turn[q], turn[q].cid)
      /\ turn[q].cid \notin overlapped =>
           turn[q].read = saved[turn[q].cid].history /\ turn[q].state.history = turn[q].read
  BY <1>1, Runs DEF Ordered
<1>3. Kept(m, turn[q].cid) /\ Tells(next, turn[q].cid)
  BY <1>2 DEF Tells, Kept
<1>4. turn[q].cid \notin overlapped => Ordered(q, next, m) /\ m.history = saved[turn[q].cid].history
  BY <1>1, <1>2 DEF Ordered, Thinking
<1>5. /\ turn' = [turn EXCEPT ![q] = next] /\ saved' = [saved EXCEPT ![turn[q].cid] = m]
      /\ last' \in Questions \cup {None}
  BY DEF Talk!Goes, Talk!Checkpoint, TalkInv, TalkTypes
<1> QED BY <1>1, <1>3, <1>4, <1>5, TalkMoves

LEMMA ManageMoves ==
  ASSUME TalkInv, NEW q \in Questions, Talk!Manage(q) PROVE TalkInv'
<1>1. /\ turn[q].at = "manage" /\ turn[q] \in Turns /\ turn[q].state \in Memories /\ last \in Questions \cup {None}
  BY DEF Talk!Manage, TalkInv, TalkTypes, Turns
<1>2. PICK m : m = IF Talk!IsRetry(turn[q].state) THEN turn[q].state ELSE Talk!NewTurn(turn[q].state)
  OBVIOUS
<1>3. m \in Memories /\ m.answer = turn[q].state.answer /\ m.history = turn[q].state.history
  BY <1>1, <1>2 DEF Memories, Talk!NewTurn
<1>4. PICK at_ \in {"advise", "direct"} :
        Talk!Goes(q, [turn[q] EXCEPT !.at = at_, !.state = m, !.heard = FALSE,
                                     !.details = IF turn[q].heard THEN last ELSE q])
  BY <1>2 DEF Talk!Manage
<1>5. PICK next : next = [turn[q] EXCEPT !.at = at_, !.state = m, !.heard = FALSE,
                                     !.details = IF turn[q].heard THEN last ELSE q]
  OBVIOUS
<1>6. PICK spoken \in Questions \cup {None} : spoken = IF turn[q].heard THEN last ELSE q
  BY <1>1
<1>7. /\ next \in Turns /\ next.at = at_ /\ next.user = turn[q].user /\ next.cid = turn[q].cid
      /\ next.read = turn[q].read /\ next.state = m /\ next.reply = turn[q].reply
  <2>1. next = [turn[q] EXCEPT !.at = at_, !.state = m, !.heard = FALSE, !.details = spoken]
    BY <1>5, <1>6
  <2>2. turn[q] \in Turns /\ at_ \in Talk!Steps /\ m \in Memories
    BY <1>1, <1>3 DEF Talk!Steps
  <2>3. next \in Turns
    BY <1>6, <2>1, <2>2 DEF Turns
  <2> QED BY <2>1, <2>2, <2>3 DEF Turns
<1>8. /\ Talk!Goes(q, next) /\ Talk!Checkpoint(q, m) /\ UNCHANGED <<owner, used, aged, last, overlapped>>
      /\ turn[q].at \in Thinking /\ next.at \in Thinking
  BY <1>1, <1>2, <1>4, <1>5, <1>7 DEF Talk!Manage, Thinking
<1> QED BY <1>3, <1>7, <1>8, CheckpointMoves

LEMMA AdviseMoves ==
  ASSUME TalkInv, NEW q \in Questions, Talk!Advise(q) PROVE TalkInv'
<1>1. /\ turn[q].at = "advise" /\ turn[q] \in Turns /\ turn[q].state \in Memories
  BY DEF Talk!Advise, TalkInv, TalkTypes, Turns
<1>2. PICK next : next = [turn[q] EXCEPT !.at = "gate"]
  OBVIOUS
<1>3. /\ next \in Turns /\ next.at = "gate" /\ next.user = turn[q].user /\ next.cid = turn[q].cid
      /\ next.read = turn[q].read /\ next.state = turn[q].state /\ next.reply = turn[q].reply
  BY <1>1, <1>2 DEF Turns, Talk!Steps
<1>4. /\ Talk!Goes(q, next) /\ Talk!Checkpoint(q, turn[q].state) /\ UNCHANGED <<owner, used, aged, last, overlapped>>
      /\ turn[q].at \in Thinking /\ next.at \in Thinking
  BY <1>1, <1>2, <1>3 DEF Talk!Advise, Thinking
<1> QED BY <1>1, <1>3, <1>4, CheckpointMoves

LEMMA VerifyGateMoves ==
  ASSUME TalkInv, NEW q \in Questions, Talk!VerifyGate(q) PROVE TalkInv'
<1>1. /\ turn[q].at = "gate" /\ turn[q] \in Turns /\ turn[q].state \in Memories
      /\ UNCHANGED <<owner, used, aged, last, overlapped>>
  BY DEF Talk!VerifyGate, TalkInv, TalkTypes, Turns
<1>2. ASSUME NEW m \in Memories, m.answer = turn[q].state.answer, m.history = turn[q].state.history,
             NEW next, next \in {[turn[q] EXCEPT !.at = "classify", !.state = m, !.passes = 2],
                                 [turn[q] EXCEPT !.at = "finalize", !.state = m]},
             Talk!Goes(q, next), Talk!Checkpoint(q, m)
      PROVE  TalkInv'
  <2>1. /\ next \in Turns /\ next.at \in {"classify", "finalize"} /\ next.user = turn[q].user
        /\ next.cid = turn[q].cid /\ next.read = turn[q].read /\ next.state = m /\ next.reply = turn[q].reply
    <3>1. CASE next = [turn[q] EXCEPT !.at = "classify", !.state = m, !.passes = 2]
      BY <1>1, <1>2, <3>1 DEF Turns, Talk!Steps
    <3>2. CASE next = [turn[q] EXCEPT !.at = "finalize", !.state = m]
      BY <1>1, <1>2, <3>2 DEF Turns, Talk!Steps
    <3> QED BY <1>2, <3>1, <3>2
  <2>2. turn[q].at \in Thinking /\ next.at \in Thinking
    BY <1>1, <2>1 DEF Thinking
  <2> QED BY <1>1, <1>2, <2>1, <2>2, CheckpointMoves
<1>3. CASE /\ Talk!Goes(q, [turn[q] EXCEPT !.at = "classify", !.state = Talk!Retried(turn[q].state), !.passes = 2])
           /\ Talk!Checkpoint(q, Talk!Retried(turn[q].state))
  <2>1. PICK m : m = Talk!Retried(turn[q].state)
    OBVIOUS
  <2>2. m \in Memories /\ m.answer = turn[q].state.answer /\ m.history = turn[q].state.history
    <3>1. PICK n : n = turn[q].state.retries + 1
      OBVIOUS
    <3>2. n \in Nat
      BY <1>1, <3>1 DEF Memories
    <3>3. m = [turn[q].state EXCEPT !.verdict = "retry", !.retries = n]
      BY <2>1, <3>1 DEF Talk!Retried
    <3> QED BY <1>1, <3>2, <3>3 DEF Memories
  <2> QED BY <1>2, <1>3, <2>1, <2>2
<1>4. ASSUME NEW verdict \in {"pass", "fallback"},
             Talk!Goes(q, [turn[q] EXCEPT !.at = "finalize", !.state = [turn[q].state EXCEPT !.verdict = verdict]]),
             Talk!Checkpoint(q, [turn[q].state EXCEPT !.verdict = verdict])
      PROVE  TalkInv'
  <2>1. PICK m : m = [turn[q].state EXCEPT !.verdict = verdict]
    OBVIOUS
  <2>2. m \in Memories /\ m.answer = turn[q].state.answer /\ m.history = turn[q].state.history
    BY <1>1, <2>1 DEF Memories
  <2> QED BY <1>2, <1>4, <2>1, <2>2
<1>5. {"pass"} \cup (IF Talk!MayRetry(turn[q].state) THEN {} ELSE {"fallback"}) \subseteq {"pass", "fallback"}
  OBVIOUS
<1> QED BY <1>3, <1>4, <1>5 DEF Talk!VerifyGate

(* The reply is the question's own, and the run is over.                   *)
LEMMA ReplyMoves ==
  ASSUME TalkInv, NEW q \in Questions, turn[q].at \in {"direct", "finalize"},
         Talk!Goes(q, Talk!Replying(q)), Talk!Checkpoint(q, [turn[q].state EXCEPT !.answer = q]),
         UNCHANGED <<owner, used, aged, last, overlapped>>
  PROVE  TalkInv'
<1>1. Talk!Running(q) /\ turn[q].at \in Thinking
  BY DEF Talk!Running, Thinking
<1>2. PICK m : m = [turn[q].state EXCEPT !.answer = q]
  OBVIOUS
<1>3. PICK next : next = Talk!Replying(q)
  OBVIOUS
<1>4. /\ turn[q] \in Turns /\ turn[q].state \in Memories /\ Tells(turn[q], turn[q].cid)
      /\ turn[q].cid \notin overlapped =>
           turn[q].read = saved[turn[q].cid].history /\ turn[q].state.history = turn[q].read
  BY <1>1, Runs DEF Ordered, Turns
<1>5. m \in Memories /\ m.answer = q /\ m.history = turn[q].state.history
  BY <1>2, <1>4 DEF Memories
<1>6. Talk!Blank \in Memories /\ Talk!Blank.answer = None /\ Talk!Blank.history = <<>>
  BY DEF Talk!Blank, Memories
<1>7. /\ next \in Turns /\ next.at = "result" /\ next.user = turn[q].user /\ next.cid = turn[q].cid
      /\ next.read = turn[q].read /\ next.state = Talk!Blank /\ next.reply = None
  <2>1. next = [at |-> "result", user |-> turn[q].user, cid |-> turn[q].cid, read |-> turn[q].read,
                state |-> Talk!Blank, heard |-> FALSE, details |-> None, passes |-> 0, reply |-> None]
    BY <1>3 DEF Talk!Replying, Talk!NotAsked
  <2>2. /\ turn[q].user \in Users \cup {None} /\ turn[q].cid \in Conversations \cup {None}
        /\ turn[q].read \in Seq(Questions)
    BY <1>4 DEF Turns
  <2>3. next \in Turns
    BY <1>6, <2>1, <2>2 DEF Turns, Talk!Steps
  <2> QED BY <2>1, <2>3
<1>8. Kept(m, turn[q].cid) /\ Tells(next, turn[q].cid)
  BY <1>4, <1>5, <1>6, <1>7 DEF Tells, Kept, AskedIn
<1>9. turn[q].cid \notin overlapped => Ordered(q, next, m) /\ m.history = saved[turn[q].cid].history
  BY <1>4, <1>5, <1>7 DEF Ordered, Thinking
<1>10. /\ turn' = [turn EXCEPT ![q] = next] /\ saved' = [saved EXCEPT ![turn[q].cid] = m]
       /\ last' \in Questions \cup {None}
  BY <1>2, <1>3 DEF Talk!Goes, Talk!Checkpoint, TalkInv, TalkTypes
<1> QED BY <1>1, <1>5, <1>7, <1>8, <1>9, <1>10, TalkMoves

LEMMA ResultMoves ==
  ASSUME TalkInv, NEW q \in Questions, Talk!Result(q) PROVE TalkInv'
<1>1. Talk!Running(q)
  BY DEF Talk!Result, Talk!Running
<1>2. PICK m : m = saved[turn[q].cid]
  OBVIOUS
<1>3. PICK next : next = [turn[q] EXCEPT !.at = "record", !.reply = m.answer]
  OBVIOUS
<1>4. /\ m \in Memories /\ m.answer \in Questions \cup {None} /\ turn[q] \in Turns /\ turn[q].at = "result"
      /\ Kept(m, turn[q].cid) /\ Tells(turn[q], turn[q].cid)
      /\ turn[q].cid \notin overlapped => turn[q].read = m.history /\ m.answer = q
  BY <1>1, <1>2, Runs DEF Memories, Talk!Result, Ordered
<1>5. /\ next \in Turns /\ next.at = "record" /\ next.user = turn[q].user /\ next.cid = turn[q].cid
      /\ next.read = turn[q].read /\ next.state = turn[q].state /\ next.reply = m.answer
  BY <1>3, <1>4 DEF Turns, Talk!Steps
<1>6. Tells(next, turn[q].cid)
  BY <1>4, <1>5 DEF Tells, Kept
<1>7. turn[q].cid \notin overlapped => Ordered(q, next, m)
  BY <1>4, <1>5 DEF Ordered, Thinking
<1>8. /\ turn' = [turn EXCEPT ![q] = next] /\ UNCHANGED <<owner, used, aged, overlapped>>
      /\ saved' = saved /\ last' \in Questions \cup {None}
  BY <1>2, <1>3 DEF Talk!Result, Talk!Goes, TalkInv, TalkTypes
<1>9. saved' = [saved EXCEPT ![turn[q].cid] = m]
  BY <1>1, <1>2, <1>8, Runs, SameMemory
<1> QED BY <1>1, <1>2, <1>4, <1>5, <1>6, <1>7, <1>8, <1>9, TalkMoves

LEMMA RecordMoves ==
  ASSUME TalkInv, NEW q \in Questions, Talk!Record(q) PROVE TalkInv'
<1>1. Talk!Running(q)
  BY DEF Talk!Record, Talk!Running
<1>2. /\ saved[turn[q].cid] \in Memories /\ turn[q] \in Turns /\ turn[q].read \in Seq(Questions) /\ turn[q].at = "record"
      /\ Kept(saved[turn[q].cid], turn[q].cid) /\ Tells(turn[q], turn[q].cid)
      /\ turn[q].cid \notin overlapped => turn[q].reply = q /\ turn[q].read = saved[turn[q].cid].history
      /\ turn[q].cid \in Conversations
  BY <1>1, Runs DEF Talk!Record, Ordered, Turns
<1>3. PICK grown : grown = Append(turn[q].read, q)
  OBVIOUS
<1>4. PICK was : was = turn[q].read
  OBVIOUS
<1>5. PICK n : n = Len(was)
  OBVIOUS
<1>6. /\ grown \in Seq(Questions) /\ Len(grown) = n + 1 /\ n \in Nat /\ grown[n + 1] = q
      /\ \A i \in 1..n : grown[i] = was[i]
  BY <1>2, <1>3, <1>4, <1>5, AppendProperties, LenProperties
<1>7. DOMAIN grown = 1..n + 1 /\ DOMAIN was = 1..n
  BY <1>2, <1>4, <1>5, <1>6, LenProperties
<1>8. PICK m : m = [saved[turn[q].cid] EXCEPT !.history = grown]
  OBVIOUS
<1>9. m \in Memories /\ m.history = grown /\ m.answer = saved[turn[q].cid].answer
  BY <1>2, <1>6, <1>8 DEF Memories
<1>10. PICK next : next = [turn[q] EXCEPT !.at = "done", !.read = <<>>]
  OBVIOUS
<1>11. <<>> \in Seq(Questions)
  BY EmptySeq
<1>12. /\ next \in Turns /\ next.at = "done" /\ next.user = turn[q].user /\ next.cid = turn[q].cid
       /\ next.read = <<>> /\ next.state = turn[q].state /\ next.reply = turn[q].reply
  BY <1>2, <1>10, <1>11 DEF Turns, Talk!Steps
<1>13. Kept(m, turn[q].cid)
  <2>1. \A i \in 1..n : turn[was[i]].cid = turn[q].cid
    BY <1>2, <1>4, <1>7 DEF Tells, AskedIn
  <2>2. \A i \in 1..n + 1 : i \in 1..n \/ i = n + 1
    BY <1>6
  <2>3. \A i \in 1..n + 1 : turn[grown[i]].cid = turn[q].cid
    BY <1>6, <2>1, <2>2
  <2> QED BY <1>2, <1>7, <1>9, <2>3 DEF Kept, AskedIn
<1>14. Tells(next, turn[q].cid)
  BY <1>2, <1>12 DEF Tells, AskedIn
<1>15. ASSUME turn[q].cid \notin overlapped
       PROVE  /\ Ordered(q, next, m)
              /\ \E i \in DOMAIN m.history : m.history[i] = q
              /\ \A i \in DOMAIN saved[turn[q].cid].history :
                   \E j \in DOMAIN m.history : m.history[j] = saved[turn[q].cid].history[i]
  <2>1. Ordered(q, next, m)
    BY <1>2, <1>12, <1>15 DEF Ordered, Thinking
  <2>2. n + 1 \in DOMAIN m.history /\ m.history[n + 1] = q
    BY <1>6, <1>7, <1>9
  <2>3. \A i \in DOMAIN was : i \in DOMAIN m.history /\ m.history[i] = was[i]
    BY <1>6, <1>7, <1>9
  <2>4. was = saved[turn[q].cid].history
    BY <1>2, <1>4, <1>15
  <2> QED BY <2>1, <2>2, <2>3, <2>4
<1>16. /\ turn' = [turn EXCEPT ![q] = next] /\ UNCHANGED <<owner, used, aged, overlapped>>
       /\ saved' = [saved EXCEPT ![turn[q].cid] = m] /\ last' \in Questions \cup {None}
  <2>1. saved' = [saved EXCEPT ![turn[q].cid].history = grown]
    BY <1>3 DEF Talk!Record, Talk!Recorded
  <2>2. saved' = [saved EXCEPT ![turn[q].cid] = m]
    BY <1>8, <2>1
  <2> QED BY <1>10, <2>2 DEF Talk!Record, Talk!Goes, TalkInv, TalkTypes
<1> QED BY <1>1, <1>9, <1>12, <1>13, <1>14, <1>15, <1>16, TalkMoves

LEMMA AnsweringMoves ==
  ASSUME TalkInv, NEW q \in Questions, Talk!Answering(q) PROVE TalkInv'
<1>1. CASE Talk!DirectReply(q)
  BY <1>1, ReplyMoves DEF Talk!DirectReply
<1>2. CASE Talk!Finalize(q)
  BY <1>2, ReplyMoves DEF Talk!Finalize
<1> QED BY <1>1, <1>2, ReadHistoryMoves, BeginTurnMoves, ClassifyMoves, ManageMoves, AdviseMoves,
           VerifyGateMoves, ResultMoves, RecordMoves DEF Talk!Answering

LEMMA BlankIsEmpty ==
  /\ Talk!Blank \in Memories /\ Talk!Blank.answer = None /\ Talk!Blank.history = <<>>
  /\ Talk!NotAsked \in Turns /\ Talk!NotAsked.at = "new" /\ Talk!NotAsked.cid = None
  /\ Talk!NotAsked.read = <<>> /\ Talk!NotAsked.state = Talk!Blank /\ Talk!NotAsked.reply = None
<1>1. Talk!Blank \in Memories /\ Talk!Blank.answer = None /\ Talk!Blank.history = <<>>
  BY DEF Talk!Blank, Memories
<1> QED BY <1>1 DEF Turns, Talk!Steps, Talk!NotAsked

(* What is asked in one conversation keeps its place when other turns      *)
(* begin or end.                                                           *)
LEMMA WordsStay ==
  ASSUME TalkTypes,
         \A p \in Questions : turn[p].cid # None => turn'[p].cid = turn[p].cid
  PROVE  /\ \A m \in Memories, d \in Conversations : Kept(m, d) =>
              /\ m.answer # None => turn'[m.answer].cid = d
              /\ \A i \in DOMAIN m.history : turn'[m.history[i]].cid = d
         /\ \A t \in Turns, d \in Conversations : Tells(t, d) =>
              /\ t.state.answer # None => turn'[t.state.answer].cid = d
              /\ \A i \in DOMAIN t.state.history : turn'[t.state.history[i]].cid = d
              /\ \A i \in DOMAIN t.read : turn'[t.read[i]].cid = d
              /\ t.reply # None => turn'[t.reply].cid = d
<1>1. ASSUME NEW s \in Seq(Questions), NEW d \in Conversations, AskedIn(s, d)
      PROVE  \A i \in DOMAIN s : turn'[s[i]].cid = d
  <2>1. \A i \in DOMAIN s : s[i] \in Questions
    BY LenProperties, ElementOfSeq
  <2> QED BY <1>1, <2>1, NobodyIsNone DEF AskedIn
<1>2. ASSUME NEW m \in Memories, NEW d \in Conversations, Kept(m, d)
      PROVE  /\ m.answer # None => turn'[m.answer].cid = d
             /\ \A i \in DOMAIN m.history : turn'[m.history[i]].cid = d
  <2>1. m.history \in Seq(Questions) /\ AskedIn(m.history, d) /\ (m.answer # None => m.answer \in Questions)
    BY <1>2 DEF Kept, Memories
  <2> QED BY <1>1, <1>2, <2>1, NobodyIsNone DEF Kept
<1>3. ASSUME NEW t \in Turns, NEW d \in Conversations, Tells(t, d)
      PROVE  /\ t.state.answer # None => turn'[t.state.answer].cid = d
             /\ \A i \in DOMAIN t.state.history : turn'[t.state.history[i]].cid = d
             /\ \A i \in DOMAIN t.read : turn'[t.read[i]].cid = d
             /\ t.reply # None => turn'[t.reply].cid = d
  <2>1. /\ t.state \in Memories /\ t.read \in Seq(Questions) /\ (t.reply # None => t.reply \in Questions)
        /\ Kept(t.state, d) /\ AskedIn(t.read, d)
    BY <1>3 DEF Tells, Turns
  <2> QED BY <1>1, <1>2, <1>3, <2>1, NobodyIsNone DEF Tells
<1> QED BY <1>2, <1>3

LEMMA OpenMoves ==
  ASSUME TalkInv, NEW q \in Questions, NEW u \in Users, NEW requested, Talk!Open(q, u, requested)
  PROVE  TalkInv'
<1>0. TalkTypes /\ Owned /\ OwnWords /\ OneAtATime /\ InOrder
  BY DEF TalkInv
<1>1. turn[q].at = "new" /\ turn[q] = Talk!NotAsked /\ turn[q].cid = None /\ u # None
  BY <1>0, BlankIsEmpty, NobodyIsNone DEF Talk!Open, Owned
<1>2. PICK c \in IF Talk!Continues(requested, u) THEN {requested} ELSE Conversations \ used :
        /\ used' = used \cup {c}
        /\ owner' = [d \in Conversations |-> IF d = c THEN u ELSE IF d \in aged THEN None ELSE owner[d]]
        /\ saved' = [d \in Conversations |-> IF d \in aged THEN Talk!Blank ELSE saved[d]]
        /\ aged' = {}
        /\ Talk!Goes(q, [Talk!NotAsked EXCEPT !.at = "history", !.user = u, !.cid = c])
        /\ overlapped' = IF Talk!InProgress(c) THEN overlapped \cup {c} ELSE overlapped
  BY DEF Talk!Open
<1>3. c \in Conversations /\ c \notin aged /\ (owner[c] = u \/ c \notin used) /\ c # None
  BY <1>0, <1>2, NobodyIsNone DEF TalkTypes, Talk!Continues
<1>4. PICK opened : opened = [Talk!NotAsked EXCEPT !.at = "history", !.user = u, !.cid = c]
  OBVIOUS
<1>5. /\ opened \in Turns /\ opened.at = "history" /\ opened.user = u /\ opened.cid = c
      /\ opened.read = <<>> /\ opened.state = Talk!Blank /\ opened.reply = None
  BY <1>3, <1>4, BlankIsEmpty DEF Turns, Talk!Steps
<1>6. turn'[q] = opened /\ \A p \in Questions : p # q => turn'[p] = turn[p]
  BY <1>0, <1>2, <1>4 DEF TalkTypes, Talk!Goes
<1>7. \A p \in Questions : turn[p].cid # None => turn[p].at # "new" /\ turn[p].cid \in used
  BY <1>0, BlankIsEmpty DEF Owned
<1>8. \A p \in Questions : turn[p].cid = c => turn[p].user = u /\ owner[c] = u
  BY <1>0, <1>1, <1>3, <1>7 DEF Owned
<1>9. TalkTypes'
  <2>1. turn' \in [Questions -> Turns]
    BY <1>0, <1>2, <1>4, <1>5 DEF TalkTypes, Talk!Goes
  <2>2. saved' \in [Conversations -> Memories]
    BY <1>0, <1>2, BlankIsEmpty DEF TalkTypes
  <2>3. owner' \in [Conversations -> Users \cup {None}]
    BY <1>0, <1>2 DEF TalkTypes
  <2>4. last' = last
    BY DEF Talk!Open
  <2> QED BY <1>0, <1>2, <1>3, <2>1, <2>2, <2>3, <2>4 DEF TalkTypes
<1>10. Owned'
  <2>1. \A p \in Questions : IF turn'[p].at = "new" THEN turn'[p] = Talk!NotAsked
                             ELSE turn'[p].cid \in used' /\ turn'[p].user \in Users
    <3>1. ASSUME NEW p \in Questions, p # q
          PROVE IF turn'[p].at = "new" THEN turn'[p] = Talk!NotAsked
                ELSE turn'[p].cid \in used' /\ turn'[p].user \in Users
      BY <1>0, <1>2, <1>6, <3>1 DEF Owned
    <3>2. turn'[q].at # "new" /\ turn'[q].cid \in used' /\ turn'[q].user \in Users
      BY <1>2, <1>5, <1>6
    <3> QED BY <3>1, <3>2
  <2>2. \A p \in Questions : turn'[p].cid = c => turn'[p].user = u
    BY <1>5, <1>6, <1>8
  <2>3. ASSUME NEW p \in Questions, NEW r \in Questions, turn'[p].cid # None, turn'[p].cid = turn'[r].cid
        PROVE  turn'[p].user = turn'[r].user
    <3>1. CASE turn'[p].cid = c
      BY <2>2, <2>3, <3>1
    <3>2. CASE turn'[p].cid # c
      <4>1. p # q /\ r # q
        BY <1>5, <1>6, <2>3, <3>2
      <4> QED BY <1>0, <1>6, <2>3, <4>1 DEF Owned
    <3> QED BY <3>1, <3>2
  <2>4. ASSUME NEW d \in Conversations, owner'[d] # None
        PROVE  d \in used' /\ \A p \in Questions : turn'[p].cid = d => turn'[p].user = owner'[d]
    <3>1. CASE d = c
      BY <1>2, <2>2, <3>1
    <3>2. CASE d # c
      <4>1. owner'[d] = owner[d] /\ owner[d] # None
        BY <1>2, <2>4, <3>2
      <4>2. \A p \in Questions : turn'[p].cid = d => turn'[p] = turn[p]
        BY <1>5, <1>6, <3>2
      <4> QED BY <1>0, <1>2, <4>1, <4>2 DEF Owned
    <3> QED BY <3>1, <3>2
  <2> QED BY <2>1, <2>3, <2>4 DEF Owned
<1>11. OwnWords'
  <2>1. \A p \in Questions : turn[p].cid # None => turn'[p].cid = turn[p].cid
    BY <1>1, <1>6
  <2>2. \A d \in Conversations : saved'[d] \in Memories /\ Kept(saved'[d], d)
    BY <1>0, <1>2, BlankIsEmpty DEF OwnWords, TalkTypes, Kept, AskedIn
  <2>3. \A d \in Conversations : /\ saved'[d].answer # None => turn'[saved'[d].answer].cid = d
                                 /\ \A i \in DOMAIN saved'[d].history : turn'[saved'[d].history[i]].cid = d
    BY <1>0, <2>1, <2>2, WordsStay
  <2>4. ASSUME NEW p \in Questions, turn'[p].cid # None
        PROVE  turn'[p] \in Turns /\ turn'[p].cid \in Conversations /\ Tells(turn'[p], turn'[p].cid)
    <3>1. CASE p = q
      BY <1>3, <1>5, <1>6, <3>1, BlankIsEmpty DEF Tells, Kept, AskedIn
    <3>2. CASE p # q
      BY <1>0, <1>6, <1>7, <2>4, <3>2 DEF TalkTypes, OwnWords
    <3> QED BY <3>1, <3>2
  <2>5. ASSUME NEW p \in Questions, turn'[p].cid = None
        PROVE  turn'[p].state.answer = None /\ turn'[p].state.history = <<>> /\ turn'[p].read = <<>> /\ turn'[p].reply = None
    <3>1. p # q /\ turn'[p] = turn[p]
      BY <1>3, <1>5, <1>6, <2>5
    <3>2. turn[p].at = "new"
      BY <1>0, <2>5, <3>1, NobodyIsNone DEF Owned, TalkTypes
    <3> QED BY <1>0, <3>1, <3>2, BlankIsEmpty DEF Owned
  <2>6. \A p \in Questions :
          /\ turn'[p].state.answer # None => turn'[turn'[p].state.answer].cid = turn'[p].cid
          /\ \A i \in DOMAIN turn'[p].state.history : turn'[turn'[p].state.history[i]].cid = turn'[p].cid
          /\ \A i \in DOMAIN turn'[p].read : turn'[turn'[p].read[i]].cid = turn'[p].cid
          /\ turn'[p].reply # None => turn'[turn'[p].reply].cid = turn'[p].cid
    BY <1>0, <2>1, <2>4, <2>5, WordsStay
  <2> QED BY <2>3, <2>6 DEF OwnWords, Kept, Tells, AskedIn
<1>12. OneAtATime'
  <2>1. ASSUME NEW p \in Questions, NEW r \in Questions, Talk!Running(p)', Talk!Running(r)',
               turn'[p].cid = turn'[r].cid, turn'[p].cid \notin overlapped', p # r
        PROVE  FALSE
    <3>1. CASE p # q /\ r # q
      BY <1>0, <1>2, <1>6, <2>1, <3>1 DEF OneAtATime, Talk!Running
    <3>2. CASE p = q \/ r = q
      <4>1. PICK s \in Questions : s # q /\ Talk!Running(s)' /\ turn'[s].cid = c
        BY <1>5, <1>6, <2>1, <3>2
      <4>2. Talk!InProgress(c)
        BY <1>6, <4>1 DEF Talk!InProgress, Talk!Running
      <4> QED BY <1>2, <1>5, <1>6, <2>1, <3>2, <4>2
    <3> QED BY <3>1, <3>2
  <2>2. \A p \in Questions : turn'[p].cid \notin aged'
    BY <1>2
  <2> QED BY <2>1, <2>2 DEF OneAtATime
<1>13. InOrder'
  <2>1. ASSUME NEW p \in Questions, turn'[p].cid \in Conversations \ overlapped'
        PROVE  /\ turn'[p].at # "new" => Ordered(p, turn'[p], saved'[turn'[p].cid])
               /\ turn'[p].at = "done" /\ owner'[turn'[p].cid] # None =>
                    \E i \in DOMAIN saved'[turn'[p].cid].history : saved'[turn'[p].cid].history[i] = p
    <3>1. CASE p = q
      BY <1>5, <1>6, <3>1 DEF Ordered, Thinking
    <3>2. CASE p # q
      <4>1. PICK d \in Conversations : d = turn[p].cid
        BY <1>6, <2>1, <3>2
      <4>2. turn'[p] = turn[p] /\ turn[p].at # "new" /\ d \in used /\ d \notin overlapped
        BY <1>2, <1>6, <1>7, <2>1, <3>2, <4>1, NobodyIsNone
      <4>3. CASE d \notin aged
        <5>1. saved'[d] = saved[d] /\ (owner'[d] # None => owner[d] # None)
          BY <1>1, <1>2, <1>3, <4>1, <4>2, <4>3
        <5> QED BY <1>0, <4>1, <4>2, <5>1 DEF InOrder
      <4>4. CASE d \in aged
        <5>1. owner'[d] = None
          BY <1>2, <1>3, <4>4
        <5>2. turn[p].at \in {"done", "lost"}
          BY <1>0, <4>1, <4>2, <4>4 DEF OneAtATime, Talk!Running
        <5>3. turn[p].at = "done" => turn[p].reply = p
          BY <1>0, <4>1, <4>2 DEF InOrder, Ordered
        <5>4. Ordered(p, turn[p], saved'[d])
          BY <5>2, <5>3 DEF Ordered, Thinking
        <5> QED BY <4>1, <4>2, <5>1, <5>4
      <4> QED BY <4>3, <4>4
    <3> QED BY <3>1, <3>2
  <2> QED BY <2>1 DEF InOrder, Ordered
<1> QED BY <1>9, <1>10, <1>11, <1>12, <1>13 DEF TalkInv

LEMMA LapseMoves ==
  ASSUME TalkInv, NEW c \in Conversations, Talk!Lapse(c) PROVE TalkInv'
<1>0. TalkTypes /\ Owned /\ OwnWords /\ OneAtATime /\ InOrder
  BY DEF TalkInv
<1>1. /\ owner[c] # None /\ ~ Talk!InProgress(c) /\ aged' = aged \cup {c}
      /\ UNCHANGED <<owner, used, saved, last, turn, overlapped>>
  BY DEF Talk!Lapse
<1>2. TalkTypes' /\ Owned'
  BY <1>0, <1>1 DEF TalkTypes, Owned
<1>3. OwnWords'
  BY <1>0, <1>1 DEF OwnWords, Kept, Tells, AskedIn
<1>4. OneAtATime'
  BY <1>0, <1>1 DEF OneAtATime, Talk!Running, Talk!InProgress
<1>5. InOrder'
  BY <1>0, <1>1 DEF InOrder, Ordered
<1> QED BY <1>2, <1>3, <1>4, <1>5 DEF TalkInv

LEMMA RestartMoves ==
  ASSUME TalkInv, Talk!Restart PROVE TalkInv'
<1>0. TalkTypes /\ Owned /\ OwnWords /\ OneAtATime /\ InOrder
  BY DEF TalkInv
<1>1. /\ owner' = [c \in Conversations |-> None] /\ saved' = [c \in Conversations |-> Talk!Blank]
      /\ aged' = {} /\ last' = None /\ UNCHANGED <<used, overlapped>>
  BY DEF Talk!Restart
<1>2. ASSUME NEW p \in Questions
      PROVE  /\ turn'[p] \in Turns /\ turn'[p].user = turn[p].user /\ turn'[p].cid = turn[p].cid
             /\ ~ Talk!Running(p)'
             /\ turn'[p] = turn[p] \/
                  /\ turn[p].at # "new" /\ turn'[p].at = "lost" /\ turn'[p].state = Talk!Blank
                  /\ turn'[p].read = <<>> /\ turn'[p].reply = None
  <2>1. turn[p] \in Turns
    BY <1>0 DEF TalkTypes
  <2>2. CASE ~ Talk!Running(p)
    BY <2>1, <2>2 DEF Talk!Restart, Talk!Running
  <2>3. CASE Talk!Running(p)
    <3>1. PICK ended : ended = [Talk!NotAsked EXCEPT !.at = "lost", !.user = turn[p].user, !.cid = turn[p].cid]
      OBVIOUS
    <3>2. /\ ended \in Turns /\ ended.at = "lost" /\ ended.user = turn[p].user /\ ended.cid = turn[p].cid
          /\ ended.state = Talk!Blank /\ ended.read = <<>> /\ ended.reply = None
      BY <2>1, <3>1, BlankIsEmpty DEF Turns, Talk!Steps
    <3>3. turn'[p] = ended
      BY <2>3, <3>1 DEF Talk!Restart
    <3> QED BY <2>3, <3>2, <3>3 DEF Talk!Running
  <2> QED BY <2>2, <2>3
<1>3. DOMAIN turn' = Questions /\ turn' = [p \in Questions |-> turn'[p]]
  BY DEF Talk!Restart
<1>4. TalkTypes'
  <2>1. turn' \in [Questions -> Turns]
    BY <1>2, <1>3
  <2> QED BY <1>0, <1>1, <2>1, BlankIsEmpty DEF TalkTypes
<1>5. Owned'
  <2>1. \A p \in Questions : IF turn'[p].at = "new" THEN turn'[p] = Talk!NotAsked
                             ELSE turn'[p].cid \in used' /\ turn'[p].user \in Users
    BY <1>0, <1>1, <1>2 DEF Owned
  <2> QED BY <1>0, <1>1, <1>2, <2>1 DEF Owned
<1>6. OwnWords'
  <2>1. \A p \in Questions : turn[p].cid # None => turn'[p].cid = turn[p].cid
    BY <1>2
  <2>2. \A d \in Conversations : /\ saved'[d].answer # None => turn'[saved'[d].answer].cid = d
                                 /\ \A i \in DOMAIN saved'[d].history : turn'[saved'[d].history[i]].cid = d
    BY <1>1, BlankIsEmpty
  <2>3. ASSUME NEW p \in Questions
        PROVE  /\ turn'[p].state.answer # None => turn'[turn'[p].state.answer].cid = turn'[p].cid
               /\ \A i \in DOMAIN turn'[p].state.history : turn'[turn'[p].state.history[i]].cid = turn'[p].cid
               /\ \A i \in DOMAIN turn'[p].read : turn'[turn'[p].read[i]].cid = turn'[p].cid
               /\ turn'[p].reply # None => turn'[turn'[p].reply].cid = turn'[p].cid
    <3>1. CASE turn'[p] # turn[p] \/ turn[p].at = "new"
      <4>1. turn'[p].state = Talk!Blank /\ turn'[p].read = <<>> /\ turn'[p].reply = None
        BY <1>0, <1>2, <3>1, BlankIsEmpty DEF Owned
      <4> QED BY <4>1, BlankIsEmpty
    <3>2. CASE turn'[p] = turn[p] /\ turn[p].at # "new"
      <4>1. turn[p].cid \in Conversations /\ Tells(turn[p], turn[p].cid) /\ turn[p] \in Turns
        BY <1>0, <3>2 DEF TalkTypes, Owned, OwnWords
      <4> QED BY <1>0, <2>1, <3>2, <4>1, WordsStay
    <3> QED BY <3>1, <3>2
  <2> QED BY <2>2, <2>3 DEF OwnWords, Kept, Tells, AskedIn
<1>7. OneAtATime'
  BY <1>1, <1>2 DEF OneAtATime
<1>8. InOrder'
  <2>1. ASSUME NEW p \in Questions, turn'[p].cid \in Conversations \ overlapped'
        PROVE  /\ turn'[p].at # "new" => Ordered(p, turn'[p], saved'[turn'[p].cid])
               /\ owner'[turn'[p].cid] = None
    <3>1. owner'[turn'[p].cid] = None
      BY <1>1, <2>1
    <3>2. ASSUME turn'[p].at # "new"
          PROVE  turn'[p].at \in {"done", "lost"} /\ (turn'[p].at = "done" => turn'[p].reply = p)
      <4>1. turn'[p].at \in {"done", "lost"}
        BY <1>2, <3>2 DEF Talk!Running
      <4>2. turn'[p].at = "done" => turn'[p] = turn[p]
        BY <1>2
      <4>3. turn[p].at = "done" => turn[p].reply = p
        BY <1>0, <1>1, <1>2, <2>1 DEF InOrder, Ordered
      <4> QED BY <4>1, <4>2, <4>3
    <3> QED BY <3>1, <3>2 DEF Ordered, Thinking
  <2> QED BY <2>1 DEF InOrder, Ordered
<1> QED BY <1>4, <1>5, <1>6, <1>7, <1>8 DEF TalkInv

LEMMA TalkInit == Talk!Init => TalkInv
<1>1. ASSUME Talk!Init PROVE TalkInv
  <2>1. /\ owner = [c \in Conversations |-> None] /\ used = {} /\ aged = {} /\ last = None
        /\ saved = [c \in Conversations |-> Talk!Blank] /\ turn = [q \in Questions |-> Talk!NotAsked]
    BY <1>1 DEF Talk!Init
  <2>2. TalkTypes
    BY <2>1, BlankIsEmpty DEF TalkTypes
  <2>3. \A q \in Questions : turn[q] = Talk!NotAsked /\ turn[q].cid = None /\ ~ Talk!Running(q)
    BY <2>1, BlankIsEmpty DEF Talk!Running
  <2>4. Owned
    BY <2>1, <2>3, BlankIsEmpty DEF Owned
  <2>5. OwnWords
    BY <2>1, <2>3, BlankIsEmpty DEF OwnWords, Kept, Tells, AskedIn
  <2>6. OneAtATime /\ InOrder
    BY <2>3, NobodyIsNone DEF OneAtATime, InOrder
  <2> QED BY <2>2, <2>4, <2>5, <2>6 DEF TalkInv
<1> QED BY <1>1

LEMMA TalkNext ==
  ASSUME TalkInv, [Talk!Next]_(Talk!vars)
  PROVE  TalkInv'
<1>1. ASSUME Talk!Asks PROVE TalkInv'
  BY <1>1, OpenMoves DEF Talk!Asks
<1>2. ASSUME UNCHANGED Talk!vars PROVE TalkInv'
  <2>1. UNCHANGED <<owner, used, aged, saved, last, turn, overlapped>>
    BY <1>2 DEF Talk!vars
  <2>2. TalkTypes' /\ Owned'
    BY <2>1 DEF TalkInv, TalkTypes, Owned
  <2>3. OwnWords' /\ OneAtATime'
    BY <2>1 DEF TalkInv, OwnWords, Kept, Tells, AskedIn, OneAtATime, Talk!Running
  <2>4. InOrder'
    BY <2>1 DEF TalkInv, InOrder, Ordered
  <2> QED BY <2>2, <2>3, <2>4 DEF TalkInv
<1> QED BY <1>1, <1>2, AnsweringMoves, LapseMoves, RestartMoves DEF Talk!Next

LEMMA TalkSteps == [AnyNext]_allVars => [Talk!Next]_(Talk!vars)
BY DEF AnyNext, allVars, talkVars, InTalk, InWalk, InNew, Talk!vars

LEMMA TalkShows ==
  ASSUME TalkInv
  PROVE  ConversationsApart
<1>0. TalkTypes /\ Owned /\ OwnWords /\ OneAtATime /\ InOrder
  BY DEF TalkInv
<1>1. ASSUME NEW q \in Questions
      PROVE  /\ \A i \in DOMAIN turn[q].read : turn[turn[q].read[i]].user = turn[q].user
             /\ turn[q].reply # None => turn[turn[q].reply].user = turn[q].user
  <2>1. CASE turn[q].at = "new"
    BY <1>0, <2>1, BlankIsEmpty DEF Owned
  <2>2. CASE turn[q].at # "new"
    <3>1. turn[q].cid # None
      BY <1>0, <2>2, NobodyIsNone DEF Owned, TalkTypes
    <3>2. turn[q].read \in Seq(Questions) /\ turn[q].reply \in Questions \cup {None}
      BY <1>0 DEF TalkTypes, Turns
    <3>3. \A i \in DOMAIN turn[q].read : turn[q].read[i] \in Questions
      BY <3>2, LenProperties, ElementOfSeq
    <3>4. \A p \in Questions : turn[p].cid = turn[q].cid => turn[p].user = turn[q].user
      BY <1>0, <3>1 DEF Owned
    <3> QED BY <1>0, <3>2, <3>3, <3>4 DEF OwnWords, Tells, AskedIn
  <2> QED BY <2>1, <2>2
<1>2. Talk!NoForeignMemory
  BY <1>1 DEF Talk!NoForeignMemory
<1>3. ASSUME NEW q \in Questions, turn[q].cid \notin overlapped
      PROVE  /\ turn[q].at \in {"record", "done"} => turn[q].reply = q
             /\ turn[q].at = "done" /\ owner[turn[q].cid] # None =>
                  q \in Talk!Range(saved[turn[q].cid].history)
  <2>1. turn[q].at \in {"record", "done"} => turn[q].cid \in Conversations
    BY <1>0 DEF Owned, TalkTypes
  <2> QED BY <1>0, <1>3, <2>1 DEF InOrder, Ordered, Talk!Range
<1>4. Talk!TurnsInOrder
  BY <1>3 DEF Talk!TurnsInOrder
<1> QED BY <1>2, <1>4 DEF ConversationsApart

(* Nobody reads another user's memory, whatever conversation id a client   *)
(* sends: a question knows only what its own user said and gets an answer  *)
(* to that user; and in a conversation whose questions never met, each     *)
(* gets its own answer and none is lost from the memory.  Across           *)
(* overlapping questions, expiry and restarts.                             *)
THEOREM ConversationsAlwaysApart == AnySpec => []ConversationsApart
<1>1. AnyInit => TalkInv
  BY TalkInit DEF AnyInit
<1>2. TalkInv /\ [AnyNext]_allVars => TalkInv'
  BY TalkNext, TalkSteps
<1>3. TalkInv => ConversationsApart
  BY TalkShows
<1> QED BY <1>1, <1>2, <1>3, PTL DEF AnySpec
=============================================================================
