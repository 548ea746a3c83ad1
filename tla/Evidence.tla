------------------------------ MODULE Evidence -------------------------------
(***************************************************************************)
(* What the numbers of an answer rest on (guardian_ai/flood.py,            *)
(* specialists.py, recovery.py, tools.py, polish.py, verify.py): the       *)
(* chosen specialists read the database at the same time, each leaves what *)
(* it read as evidence and what it could not read as missing, a language   *)
(* model or a template writes; the advice and the polishing write once     *)
(* more; the check compares the numbers it knows the units of with the     *)
(* evidence and, failing, has all of it done again.  Readings change from  *)
(* one pass to the next, so that a number is a pair of a source and the    *)
(* pass that read it; one of the same value and dimension as a reading     *)
(* counts as that reading.  One specialist's reads are one step.  The      *)
(* evidence of user_memory stays out: the service gives an empty list.     *)
(***************************************************************************)
EXTENDS Naturals, FiniteSets

CONSTANTS MAX_RETRY,      \* state.py
          Teams,          \* bound: the sets of specialists chosen for a question
          MaxPasses,      \* bound: runs over the graph, retries and later questions
          MaxChanges,     \* bound: changes of what the database gives
          MaxInventions   \* bound: numbers the language model does not take from the evidence

EvidenceAssumption == {MAX_RETRY, MaxPasses, MaxChanges, MaxInventions} \subseteq Nat

VARIABLES
  stepAt,      \* the node reached
  source,      \* what a read of each source gives now
  pass,        \* runs over the graph so far
  retries,     \* retry_count
  pending,     \* specialists that have not answered in this pass
  results,     \* specialist_results
  cited,       \* the action plan's evidence
  text,        \* numbers in the answer: draft, then polished
  voice,       \* numbers in the spoken text
  wrote,       \* a language model wrote a part of the answer
  checked,     \* the outcome of the check, and of the gate
  changes, inventions

vars == <<stepAt, source, pass, retries, pending, results, cited, text, voice, wrote, checked, changes,
          inventions>>

FloodReads == {"risk", "water", "rain", "warnings", "messages", "forecast", "shelters"}
LandslideReads == {"risk", "zones", "rain"}
WindReads == {"risk", "wind", "warnings", "forecast"}
LifeReads == {"uv", "air"}
RecoveryReads == {"programs"}
Consults == [flood |-> FloodReads, landslide |-> LandslideReads, wind |-> WindReads,
             life |-> LifeReads, recovery |-> RecoveryReads]
Agents == DOMAIN Consults
Hazards == {"flood", "landslide", "wind"}
Sources == (UNION {Consults[a] : a \in Agents}) \cup {"guides"}
Timed == {"risk", "water", "rain", "wind", "uv", "air"}   \* their readings can be too old

Init ==
  /\ stepAt = "manager" /\ source = [s \in Sources |-> "fresh"]
  /\ pass = 0 /\ retries = 0 /\ pending = {} /\ results = {} /\ cited = {}
  /\ text = {} /\ voice = {} /\ wrote = FALSE /\ checked = "none"
  /\ changes = 0 /\ inventions = 0

(* A query times out, the database goes down or comes back, a station or   *)
(* the risk engine falls silent (while it makes a difference).             *)
Change ==
  /\ changes < MaxChanges /\ changes' = changes + 1 /\ stepAt = "specialists"
  /\ \/ \E s \in UNION {Consults[a] : a \in pending}, how \in {"fresh", "stale", "down"} :
          (how = "stale" => s \in Timed) /\ source' = [source EXCEPT ![s] = how]
     \/ source' = [s \in Sources |-> "down"]
     \/ source' = [s \in Sources |-> "fresh"]
  /\ source' # source
  /\ UNCHANGED <<stepAt, pass, retries, pending, results, cited, text, voice, wrote, checked, inventions>>

-----------------------------------------------------------------------------
(* The manager: results and checks of the last pass are emptied; a         *)
(* question, unlike a retry, starts with no retries.  The plan and the     *)
(* texts are overwritten before they are read.                             *)
Emptied(old) == {}

Manager ==
  /\ stepAt \in {"manager", "done"} /\ pass < MaxPasses
  /\ \E chosen \in Teams \cap SUBSET Agents : chosen # {} /\ pending' = chosen
  /\ results' = Emptied(results)
  /\ retries' = IF checked = "retry" THEN retries ELSE 0
  /\ stepAt' = "specialists" /\ pass' = pass + 1 /\ checked' = "none" /\ wrote' = FALSE
  /\ cited' = {} /\ text' = {} /\ voice' = {}
  /\ UNCHANGED <<source, changes, inventions>>

-----------------------------------------------------------------------------
(* What a specialist reads.  When the judgement cannot be read the hazards' *)
(* specialists do not try the rest, except for the landslide zones; the    *)
(* flood specialist reads shelters from the level "advisory" on.           *)
Tried(a, alarming) ==
  IF a \in Hazards /\ source["risk"] = "down" THEN {"risk"} \cup (Consults[a] \cap {"zones"})
  ELSE Consults[a] \ IF alarming THEN {} ELSE {"shelters"}

(* Old observations are left out; an old judgement is not.                 *)
Usable(s) == source[s] = "fresh" \/ (s = "risk" /\ source[s] = "stale")
Collected(a, alarming) == {<<s, pass>> : s \in {s \in Tried(a, alarming) : Usable(s)}}

(* What it says it could not read.  Never said: messages, old rain and     *)
(* wind, and the flood specialist's forecast when the judgement is down.   *)
MutantOldIsFine(s) == source[s] = "down"
Doubtful(s) == source[s] = "down" \/ (source[s] = "stale" /\ s \in {"risk", "water", "uv", "air"})
Missing(a, alarming) ==
  LET tried == Tried(a, alarming)
      skipped == Consults[a] \ (tried \cup {"shelters"} \cup IF a = "flood" THEN {"forecast"} ELSE {})
  IN  ({s \in tried : Doubtful(s)} \cup skipped) \ {"messages"}

(* Numbers a language model may write besides: made up, as a reading or as *)
(* a count of hours or places, or of another pass (the feedback and the    *)
(* history name them), or left out as too old.                             *)
MadeUp == {<<"nowhere", 0>>, <<"count", 0>>}
Inventable(sources) == {{}} \cup IF inventions < MaxInventions
                                 THEN {{n} : n \in MadeUp \cup (sources \X (1..pass))} ELSE {}
Invents(extra) == inventions' = inventions + Cardinality(extra)

(* What the template says is the evidence, and everything that is missing; *)
(* of a writer only its numbers are counted on.                            *)
Template(a, alarming) == [numbers |-> Collected(a, alarming), told |-> Missing(a, alarming)]
Writer(a, alarming, extra) == [numbers |-> Collected(a, alarming) \cup extra, told |-> {}]

Result(a, alarming, said) ==
  [agent |-> a, evidence |-> Collected(a, alarming), numbers |-> said.numbers, told |-> said.told,
   unsure |-> a \in Hazards /\ source["risk"] # "fresh"]

(* The node: the writer's text, or the template when the writer fails.     *)
Specialist(a) ==
  /\ a \in pending /\ pending' = pending \ {a}
  /\ \E alarming \in BOOLEAN :
       /\ alarming => a = "flood" /\ source["risk"] # "down"
       /\ \/ \E extra \in Inventable(Consults[a]) :
               /\ results' = results \cup {Result(a, alarming, Writer(a, alarming, extra))}
               /\ wrote' = TRUE /\ Invents(extra)
          \/ /\ results' = results \cup {Result(a, alarming, Template(a, alarming))}
             /\ UNCHANGED <<wrote, inventions>>
  /\ UNCHANGED <<stepAt, source, pass, retries, cited, text, voice, checked, changes>>

(* When all have answered: the draft is their summaries and, unless the    *)
(* question is about the situation only, steps citing the guides.          *)
ActionAdvisor ==
  /\ stepAt = "specialists" /\ pending = {} /\ stepAt' = "polish"
  /\ \E acting \in BOOLEAN, extra \in Inventable({"guides"}) :
       /\ cited' = IF acting /\ source["guides"] = "fresh" THEN {<<"guides", pass>>} ELSE {}
       /\ extra # {} => acting
       /\ acting => \E r \in results : r.agent # "recovery"
       /\ text' = (UNION {r.numbers : r \in results}) \cup cited' \cup extra
       /\ wrote' = (wrote \/ extra # {}) /\ Invents(extra)
  /\ UNCHANGED <<source, pass, retries, pending, results, voice, checked, changes>>

(* A short draft, or one the polisher fails on, stays, and its first       *)
(* sentences are spoken; else the language model writes both texts anew.   *)
Polish ==
  /\ stepAt = "polish" /\ stepAt' = "check"
  /\ \/ voice' = text /\ UNCHANGED <<text, wrote, inventions>>
     \/ \E inText, inVoice \in Inventable({"risk"}) :
          /\ inText = {} \/ inVoice = {}
          /\ text' = text \cup inText /\ voice' = inVoice
          /\ wrote' = TRUE /\ Invents(inText \cup inVoice)
  /\ UNCHANGED <<source, pass, retries, pending, results, cited, checked, changes>>

-----------------------------------------------------------------------------
(* The check: the numbers of both texts against all the evidence, of those *)
(* with a unit it knows (UNITS; the index of ultraviolet has none); then   *)
(* the language model's opinion of the rest, none when it fails.           *)
Measured(n) == n[1] \notin {"count", "uv"}
MutantTextOnly(shown, spoken) == {n \in shown : Measured(n)}
Measures(shown, spoken) == {n \in shown \cup spoken : Measured(n)}
AllEvidence == (UNION {r.evidence : r \in results}) \cup cited
Supported == Measures(text, voice) \subseteq AllEvidence

HallucinationCheck ==
  /\ stepAt = "check" /\ stepAt' = "gate"
  /\ checked' \in IF Supported THEN {"ok", "failed"} ELSE {"failed"}
  /\ UNCHANGED <<source, pass, retries, pending, results, cited, text, voice, wrote, changes, inventions>>

(* verify_gate, finalize and fallback: what failed twice goes out marked.  *)
VerifyGate ==
  /\ stepAt = "gate"
  /\ \/ checked = "ok" /\ checked' = "pass" /\ stepAt' = "done" /\ UNCHANGED retries
     \/ /\ checked = "failed" /\ retries < MAX_RETRY
        /\ checked' = "retry" /\ retries' = retries + 1 /\ stepAt' = "manager"
     \/ /\ checked = "failed" /\ retries >= MAX_RETRY
        /\ checked' = "fallback" /\ stepAt' = "done" /\ UNCHANGED retries
  /\ UNCHANGED <<source, pass, pending, results, cited, text, voice, wrote, changes, inventions>>

Next ==
  \/ Change \/ Manager \/ ActionAdvisor \/ Polish \/ HallucinationCheck \/ VerifyGate
  \/ \E a \in Agents : Specialist(a)

Spec == Init /\ [][Next]_vars

-----------------------------------------------------------------------------
Numbers == (Sources \X (1..MaxPasses)) \cup MadeUp

(* The type of the state.                                                  *)
TypeOK ==
  /\ stepAt \in {"manager", "specialists", "polish", "check", "gate", "done"}
  /\ source \in [Sources -> {"fresh", "stale", "down"}]
  /\ pass \in 0..MaxPasses /\ retries \in 0..MAX_RETRY
  /\ pending \subseteq Agents
  /\ \A r \in results :
       /\ r.agent \in Agents /\ r.evidence \subseteq Numbers /\ r.numbers \subseteq Numbers
       /\ r.told \subseteq Sources /\ r.unsure \in BOOLEAN
  /\ cited \subseteq Numbers /\ text \subseteq Numbers /\ voice \subseteq Numbers
  /\ wrote \in BOOLEAN /\ checked \in {"none", "ok", "failed", "pass", "retry", "fallback"}
  /\ changes \in 0..MaxChanges /\ inventions \in 0..MaxInventions + 1

(* verify.py:1: what an answer that counts as checked shows and speaks in  *)
(* metres, millimetres, degrees and the like was read from the data in the *)
(* pass that wrote it: nothing of the pass that failed, of the question    *)
(* before or of the model's own, in whichever of the three places a        *)
(* language model put it.  Counts and indices have no such guarantee.      *)
NumbersReadNow ==
  stepAt = "done" /\ checked = "pass" =>
    \A n \in text \cup voice : Measured(n) => n[2] = pass /\ n \in AllEvidence

(* tools.py:119: on a judgement that could not be read, or is not kept up  *)
(* to date, "normal" is not the last word: an answer written without a     *)
(* language model says, for every hazard it is about, that the judgement   *)
(* is in doubt.                                                            *)
DoubtIsSaid ==
  stepAt = "done" /\ ~ wrote => \A r \in results : r.unsure => "risk" \in r.told
=============================================================================
