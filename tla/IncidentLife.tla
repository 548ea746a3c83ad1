---------------------------- MODULE IncidentLife -----------------------------
(***************************************************************************)
(* What dispatch.py promises of an incident, whatever runs it takes: it is *)
(* started once, for a judgement (which has one open incident at a time),  *)
(* for a disaster message (which has one incident ever) or by staff; it    *)
(* only moves to a judgement of the same danger; and once ended it stays   *)
(* ended.  Incidents implements it.                                        *)
(***************************************************************************)
CONSTANTS Ids, Assessments, Messages,
          Kindred,   \* pairs of judgements of one hazard whose areas overlap
          None

VARIABLES state, about, note

life == <<state, about, note>>

Free(a, i) == \A j \in Ids \ {i} : ~ (state[j] = "open" /\ about[j] = a)

Init ==
  /\ state = [i \in Ids |-> "unused"]
  /\ about = [i \in Ids |-> None]
  /\ note = [i \in Ids |-> None]

Start(i, a, m) ==
  /\ state[i] = "unused"
  /\ a # None => Free(a, i)
  /\ m # None => \A j \in Ids : note[j] # m
  /\ a = None \/ m = None
  /\ state' = [state EXCEPT ![i] = "open"]
  /\ about' = [about EXCEPT ![i] = a]
  /\ note' = [note EXCEPT ![i] = m]

Move(i, a) ==
  /\ <<about[i], a>> \in Kindred
  /\ state[i] = "open" => Free(a, i)
  /\ about' = [about EXCEPT ![i] = a]
  /\ UNCHANGED <<state, note>>

End(S) ==
  /\ \A i \in S : state[i] = "open"
  /\ state' = [i \in Ids |-> IF i \in S THEN "closed" ELSE state[i]]
  /\ UNCHANGED <<about, note>>

Next ==
  \/ \E i \in Ids, a \in Assessments \cup {None}, m \in Messages \cup {None} : Start(i, a, m)
  \/ \E i \in Ids, a \in Assessments : Move(i, a)
  \/ \E S \in SUBSET Ids : End(S)

Spec == Init /\ [][Next]_life
=============================================================================
