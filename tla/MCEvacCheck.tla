---------------------------- MODULE MCEvacCheck -----------------------------
(* Instances of EvacCheck for TLC: every household is that of the resident *)
(* u1.                                                                     *)
EXTENDS EvacCheck

CONSTANT u1
MCOwner == [h \in Homes |-> u1]

(* To bound the states, a behaviour has a change of judgement, or a        *)
(* household and deaths.  None of these steps is under fairness.           *)
OneOrOther == about = 1 \/ (enrolled = {} /\ deaths = 0)
BoundedNext == Next /\ OneOrOther'
BoundedSpec == Init /\ [][BoundedNext]_vars /\ Fairness
=============================================================================
