---------------------------- MODULE MCIncidents -----------------------------
(* Instances of Incidents for TLC: judgements of one hazard, 1 and 2 at    *)
(* the same place with rising levels, 3 at a place of its own that 2 also  *)
(* covers.                                                                 *)
EXTENDS Incidents

MCHazard == [a \in Assessments |-> "flood"]
MCLevel == [a \in Assessments |-> IF a = 2 THEN 4 ELSE 3]
MCArea == [a \in Assessments |-> CASE a = 1 -> {"harbour"}
                                   [] a = 2 -> {"harbour", "market"}
                                   [] OTHER -> {"market"}]

(* A behaviour has either a second judgement and a user's poll or a        *)
(* disaster message, which neither of them touches.                        *)
OneSubject ==
  \/ \A m \in Messages : sent[m] = "future"
  \/ validity[2] = "future" /\ \A p \in Polls : pc[p] = "idle"

NextOneSubject == Next /\ OneSubject'
SpecOneSubject == Init /\ [][NextOneSubject]_vars
FairOneSubject ==
  SpecOneSubject /\ \A p \in Jobs : WF_vars(Step(p))
=============================================================================
