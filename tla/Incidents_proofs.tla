-------------------------- MODULE Incidents_proofs --------------------------
(***************************************************************************)
(* Proofs about Incidents, for any judgements, messages, incidents and any *)
(* number of overlapping runs, except where one periodic run is assumed.   *)
(***************************************************************************)
EXTENDS Incidents, TLAPS

-----------------------------------------------------------------------------
(* Type correctness.                                                       *)

LEMMA InitType == Init => TypeOK
<1> SUFFICES ASSUME Init PROVE TypeOK
  OBVIOUS
<1>1. staffActs \in 0..MaxStaffActs /\ crashes \in 0..MaxCrashes
  BY BoundsAssumption DEF Init
<1>2. \A p \in Runs : RunTypeOK(p)
  BY DEF Init, RunTypeOK
<1> QED BY <1>1, <1>2 DEF Init, TypeOK, Labels

(* A step of run p that keeps the types of what p holds keeps those of all.*)
RunTypes ==
  /\ pc \in [Runs -> Labels]
  /\ todo \in [Runs -> SUBSET ToHandle]
  /\ item \in [Runs -> Ids \cup Assessments \cup Messages \cup {None}]
  /\ next \in [Runs -> Assessments \cup {None}]
  /\ \A p \in Runs : RunTypeOK(p)

WorldTypes ==
  /\ validity \in [Assessments -> {"future", "open", "closed"}]
  /\ sent \in [Messages -> {"future", "recent", "past", "old"}]
  /\ replaces \in [Assessments -> SUBSET Assessments]

RowTypes ==
  /\ state \in [Ids -> {"unused", "open", "closed"}]
  /\ about \in [Ids -> Assessments \cup {None}]
  /\ note \in [Ids -> Messages \cup {None}]
  /\ closer \in [Ids -> {"staff", "run", None}]

SpentTypes == staffActs \in 0..MaxStaffActs /\ crashes \in 0..MaxCrashes

PartTypes == WorldTypes /\ RowTypes /\ RunTypes /\ SpentTypes

LEMMA TypeParts == TypeOK => PartTypes
BY DEF TypeOK, PartTypes, WorldTypes, RowTypes, RunTypes, SpentTypes

LEMMA RunsRest ==
  ASSUME RunTypes, UNCHANGED <<pc, todo, item, next>>
  PROVE  RunTypes'
BY DEF RunTypes, RunTypeOK

LEMMA CreateTypes ==
  ASSUME RowTypes, NEW a \in Assessments \cup {None}, NEW m \in Messages \cup {None},
         Create(a, m), UNCHANGED closer
  PROVE  RowTypes'
BY DEF RowTypes, Create

LEMMA EndedTypes ==
  ASSUME RunTypes, NEW p \in Runs, Ended(p)
  PROVE  RunTypes'
BY DEF Ended, Goto, Hold, Labels, RunTypes, RunTypeOK

LEMMA RunNextTypes ==
  ASSUME TypeOK, NEW p \in Runs, Step(p)
  PROVE  RowTypes' /\ RunTypes'
<1>0. RowTypes /\ RunTypes /\ WorldTypes
  BY TypeParts DEF PartTypes
<1>1. CASE ReadStale(p)
  <2>1. StaleIncidents \subseteq Ids \X Assessments
    BY <1>0 DEF StaleIncidents, RowTypes
  <2>2. StaleIncidents \in SUBSET ToHandle
    BY <2>1 DEF ToHandle
  <2>3. RunTypes'
    BY <1>0, <1>1, <2>1, <2>2 DEF RunTypes, RunTypeOK, ReadStale, Goto, Labels
  <2> QED BY <1>0, <1>1, <2>3 DEF ReadStale, rows, RowTypes
<1>2. CASE FindSuccessor(p)
  <2>0. todo[p] \subseteq Ids \X Assessments
    BY <1>0, <1>2 DEF FindSuccessor, RunTypes, RunTypeOK
  <2>1. PICK x \in todo[p] :
          /\ todo' = [todo EXCEPT ![p] = @ \ {x}]
          /\ \/ Hold(p, x[1], None) /\ Goto(p, "close")
             \/ \E n \in Successors(x[2]) : Hold(p, x[1], n) /\ Goto(p, "carry")
    BY <1>2 DEF FindSuccessor
  <2>2. x[1] \in Ids /\ todo[p] \ {x} \subseteq Ids \X Assessments /\ todo[p] \ {x} \in SUBSET ToHandle
    BY <2>0, <2>1 DEF ToHandle
  <2>3. CASE Hold(p, x[1], None) /\ Goto(p, "close")
    <3>1. RunTypes'
      BY <1>0, <2>1, <2>2, <2>3 DEF RunTypes, RunTypeOK, Hold, Goto, Labels
    <3> QED BY <1>0, <1>2, <3>1 DEF FindSuccessor, rows, RowTypes
  <2>4. ASSUME NEW n \in Successors(x[2]), Hold(p, x[1], n), Goto(p, "carry") PROVE RowTypes' /\ RunTypes'
    <3>1. n \in Assessments
      BY DEF Successors
    <3>2. RunTypes'
      BY <1>0, <2>1, <2>2, <2>4, <3>1 DEF RunTypes, RunTypeOK, Hold, Goto, Labels
    <3> QED BY <1>0, <1>2, <3>2 DEF FindSuccessor, rows, RowTypes
  <2> QED BY <2>1, <2>3, <2>4
<1>3. CASE Carry(p)
  <2>0. todo[p] \subseteq Ids \X Assessments /\ item[p] \in Ids /\ next[p] \in Assessments
    BY <1>0, <1>3 DEF Carry, RunTypes, RunTypeOK
  <2>1. RunTypes'
    BY <1>0, <1>3, <2>0 DEF RunTypes, RunTypeOK, Carry, Hold, Goto, Labels
  <2>2. about' \in [Ids -> Assessments \cup {None}]
    BY <1>0, <1>3, <2>0 DEF Carry, RowTypes
  <2> QED BY <1>0, <1>3, <2>1, <2>2 DEF Carry, RowTypes
<1>4. CASE CloseStale(p)
  <2>0. todo[p] \subseteq Ids \X Assessments /\ item[p] \in Ids
    BY <1>0, <1>4 DEF CloseStale, RunTypes, RunTypeOK
  <2>1. RunTypes'
    BY <1>0, <1>4, <2>0 DEF RunTypes, RunTypeOK, CloseStale, Hold, Goto, Labels
  <2>2. state' \in [Ids -> {"unused", "open", "closed"}] /\ closer' \in [Ids -> {"staff", "run", None}]
    BY <1>0, <1>4, <2>0 DEF CloseStale, RowTypes
  <2> QED BY <1>0, <1>4, <2>1, <2>2 DEF CloseStale, RowTypes
<1>5. CASE CloseOldMessages(p)
  <2>1. RunTypes'
    BY <1>0, <1>5 DEF RunTypes, RunTypeOK, CloseOldMessages, Goto, Labels
  <2> QED BY <1>0, <1>5, <2>1 DEF CloseOldMessages, RowTypes
<1>6. CASE ReadMessages(p)
  <2> DEFINE R == {m \in Messages : sent[m] = "recent"}
  <2>1. R \subseteq Messages /\ R \in SUBSET ToHandle
    BY DEF ToHandle
  <2>2. todo' = [todo EXCEPT ![p] = R]
    BY <1>6 DEF ReadMessages
  <2> HIDE DEF R
  <2>3. RunTypes'
    BY <1>0, <1>6, <2>1, <2>2 DEF RunTypes, RunTypeOK, ReadMessages, Goto, Labels
  <2> QED BY <1>0, <1>6, <2>3 DEF ReadMessages, rows, RowTypes
<1>7. CASE OpenMessage(p)
  <2>0. todo[p] \subseteq Messages
    BY <1>0, <1>7 DEF OpenMessage, RunTypes, RunTypeOK
  <2>1. PICK m \in todo[p] :
          /\ todo' = [todo EXCEPT ![p] = @ \ {m}]
          /\ \/ UNCHANGED <<pc, item>>
             \/ item' = [item EXCEPT ![p] = m] /\ Goto(p, "insertMessage")
    BY <1>7 DEF OpenMessage
  <2>2. todo[p] \ {m} \subseteq Messages /\ todo[p] \ {m} \in SUBSET ToHandle /\ m \in Messages
    BY <2>0 DEF ToHandle
  <2>3. RunTypes'
    BY <1>0, <1>7, <2>1, <2>2 DEF RunTypes, RunTypeOK, OpenMessage, Goto, Labels
  <2> QED BY <1>0, <1>7, <2>3 DEF OpenMessage, rows, RowTypes
<1>13. CASE InsertMessage(p)
  <2>0. todo[p] \subseteq Messages /\ item[p] \in Messages
    BY <1>0, <1>13 DEF InsertMessage, RunTypes, RunTypeOK
  <2>1. RunTypes'
    BY <1>0, <1>13, <2>0 DEF RunTypes, RunTypeOK, InsertMessage, Hold, Goto, Labels
  <2> QED BY <1>0, <1>13, <2>0, <2>1, CreateTypes DEF InsertMessage
<1>8. CASE ReadActive(p)
  <2>1. PICK picked \in SUBSET Assessments, evac \in SUBSET Assessments :
          todo' = [todo EXCEPT ![p] = Passes(p, picked, evac)]
    BY <1>8 DEF ReadActive
  <2>2. /\ Passes(p, picked, evac) \subseteq Assessments \X {1, 2}
        /\ Passes(p, picked, evac) \in SUBSET ToHandle
    BY DEF Passes, ToHandle
  <2>3. RunTypes'
    BY <1>0, <1>8, <2>1, <2>2 DEF RunTypes, RunTypeOK, ReadActive, Goto, Labels
  <2> QED BY <1>0, <1>8, <2>3 DEF ReadActive, rows, RowTypes
<1>9. CASE CheckEnded(p)
  <2>0. todo[p] \subseteq Assessments \X {1, 2}
    BY <1>0, <1>9 DEF CheckEnded, RunTypes, RunTypeOK
  <2>1. PICK x \in todo[p] :
          /\ todo' = [todo EXCEPT ![p] = @ \ {x}]
          /\ \/ UNCHANGED <<pc, item>>
             \/ item' = [item EXCEPT ![p] = x[1]] /\ Goto(p, "insert")
    BY <1>9 DEF CheckEnded
  <2>2. /\ todo[p] \ {x} \subseteq Assessments \X {1, 2} /\ todo[p] \ {x} \in SUBSET ToHandle
        /\ x[1] \in Assessments
    BY <2>0 DEF ToHandle
  <2>3. RunTypes'
    BY <1>0, <1>9, <2>1, <2>2 DEF RunTypes, RunTypeOK, CheckEnded, Goto, Labels
  <2> QED BY <1>0, <1>9, <2>3 DEF CheckEnded, rows, RowTypes
<1>10. CASE InsertIncident(p)
  <2>0. todo[p] \subseteq Assessments \X {1, 2} /\ item[p] \in Assessments
    BY <1>0, <1>10 DEF InsertIncident, RunTypes, RunTypeOK
  <2>1. CASE Taken(None, item[p])
    <3>1. RunTypes'
      BY <1>0, <1>10, <2>0, <2>1 DEF RunTypes, RunTypeOK, InsertIncident, Goto, Labels
    <3> QED BY <1>0, <1>10, <2>1, <3>1 DEF InsertIncident, rows, RowTypes
  <2>2. CASE ~Taken(None, item[p])
    <3>1. RunTypes'
      BY <1>0, <1>10, <2>0, <2>2 DEF RunTypes, RunTypeOK, InsertIncident, Ensured, Goto, Labels
    <3> QED BY <1>0, <1>10, <2>0, <2>2, <3>1, CreateTypes DEF InsertIncident
  <2> QED BY <2>1, <2>2
<1>11. CASE FetchIncident(p)
  <2>0. todo[p] \subseteq Assessments \X {1, 2}
    BY <1>0, <1>11 DEF FetchIncident, RunTypes, RunTypeOK
  <2>1. CASE OpenFor(item[p]) # {}
    <3>1. RunTypes'
      BY <1>0, <1>11, <2>0, <2>1 DEF RunTypes, RunTypeOK, FetchIncident, Ensured, Goto, Labels
    <3> QED BY <1>0, <1>11, <3>1 DEF FetchIncident, rows, RowTypes
  <2>2. CASE OpenFor(item[p]) = {}
    BY <1>0, <1>11, <2>2, EndedTypes DEF FetchIncident, rows, RowTypes
  <2> QED BY <2>1, <2>2
<1>12. CASE Finish(p)
  BY <1>0, <1>12, EndedTypes DEF Finish, rows, RowTypes
<1> QED
  BY <1>1, <1>2, <1>3, <1>4, <1>5, <1>6, <1>7, <1>8, <1>9, <1>10, <1>11, <1>12, <1>13 DEF Step

LEMMA NextType == TypeOK /\ [Next]_vars => TypeOK'
<1> SUFFICES ASSUME TypeOK, [Next]_vars PROVE PartTypes'
  BY DEF TypeOK, PartTypes, WorldTypes, RowTypes, RunTypes, SpentTypes
<1>0. WorldTypes /\ RowTypes /\ RunTypes /\ SpentTypes
  BY TypeParts DEF PartTypes
<1>1. ASSUME NEW C \in SUBSET Assessments, NEW O \in SUBSET Assessments, Judge(C, O) PROVE PartTypes'
  <2>1. WorldTypes'
    BY <1>0, <1>1 DEF Judge, WorldTypes
  <2> QED BY <1>0, <1>1, <2>1, RunsRest DEF PartTypes, Judge, rows, spent, RowTypes, SpentTypes
<1>2. ASSUME NEW m \in Messages, MessageAges(m) PROVE PartTypes'
  <2>1. WorldTypes'
    BY <1>0, <1>2 DEF MessageAges, WorldTypes
  <2> QED BY <1>0, <1>2, <2>1, RunsRest DEF PartTypes, MessageAges, rows, spent, RowTypes, SpentTypes
<1>3. ASSUME NEW i \in Ids, StaffClose(i) PROVE PartTypes'
  <2>1. RowTypes' /\ SpentTypes'
    BY <1>0, <1>3, BoundsAssumption DEF StaffClose, RowTypes, SpentTypes
  <2> QED BY <1>0, <1>3, <2>1, RunsRest DEF PartTypes, StaffClose, world, WorldTypes
<1>4. ASSUME NEW p \in Runs, Step(p) PROVE PartTypes'
  <2>1. UNCHANGED <<world, spent>>
    BY <1>4 DEF Step, ReadStale, FindSuccessor, Carry, CloseStale, CloseOldMessages, ReadMessages,
                OpenMessage, InsertMessage, ReadActive, CheckEnded, InsertIncident, FetchIncident, Finish
  <2>2. WorldTypes' /\ SpentTypes'
    BY <1>0, <2>1 DEF world, spent, WorldTypes, SpentTypes
  <2> QED BY <1>4, <2>2, RunNextTypes DEF PartTypes
<1>5. ASSUME NEW p \in Runs, Crash(p) PROVE PartTypes'
  <2>1. RunTypes'
    BY <1>0, <1>5, EndedTypes DEF Crash
  <2>2. SpentTypes'
    BY <1>0, <1>5, BoundsAssumption DEF Crash, SpentTypes
  <2> QED BY <1>0, <1>5, <2>1, <2>2 DEF PartTypes, Crash, world, rows, WorldTypes, RowTypes
<1>6. ASSUME NEW p \in Runs, CarryFails(p) PROVE PartTypes'
  <2>1. RunTypes'
    BY <1>0, <1>6 DEF CarryFails, Goto, Labels, RunTypes, RunTypeOK
  <2>2. SpentTypes'
    BY <1>0, <1>6, BoundsAssumption DEF CarryFails, SpentTypes
  <2> QED BY <1>0, <1>6, <2>1, <2>2 DEF PartTypes, CarryFails, world, rows, WorldTypes, RowTypes
<1>7. CASE StaffStart
  <2>1. RowTypes'
    BY <1>0, <1>7, CreateTypes DEF StaffStart
  <2>2. SpentTypes'
    BY <1>0, <1>7, BoundsAssumption DEF StaffStart, SpentTypes
  <2> QED BY <1>0, <1>7, <2>1, <2>2, RunsRest DEF PartTypes, StaffStart, world, WorldTypes
<1>8. CASE UNCHANGED vars
  BY <1>0, <1>8, RunsRest DEF PartTypes, vars, WorldTypes, RowTypes, SpentTypes
<1> QED BY <1>1, <1>2, <1>3, <1>4, <1>5, <1>6, <1>7, <1>8 DEF Next

(* The types of all variables hold in every reachable state.               *)
THEOREM TypeCorrect == Spec => []TypeOK
BY InitType, NextType, PTL DEF Spec

-----------------------------------------------------------------------------
(* One open incident for a judgement.                                      *)

(* Ending incidents gives no judgement a second one.                       *)
LEMMA OnlyEnds ==
  ASSUME OneOpenIncident, UNCHANGED about,
         \A i \in Ids : state'[i] = "open" => state[i] = "open"
  PROVE  OneOpenIncident'
BY DEF OneOpenIncident

(* A new incident is the only open one of what it is about.                *)
LEMMA CreatesOnly ==
  ASSUME RowTypes, OneOpenIncident, NEW a, NEW m, Create(a, m),
         a # None => OpenFor(a) = {}
  PROVE  OneOpenIncident'
<1>1. PICK i \in Ids : /\ state' = [state EXCEPT ![i] = "open"]
                       /\ about' = [about EXCEPT ![i] = a]
  BY DEF Create
<1>2. SUFFICES ASSUME NEW k \in Ids, NEW l \in Ids,
                      state'[k] = "open", state'[l] = "open",
                      about'[k] # None, about'[k] = about'[l], k # l
               PROVE  FALSE
  BY DEF OneOpenIncident
<1>3. CASE i \notin {k, l}
  BY <1>1, <1>2, <1>3 DEF OneOpenIncident, RowTypes
<1>4. CASE i = k
  BY <1>1, <1>2, <1>4 DEF OpenFor, RowTypes
<1>5. CASE i = l
  BY <1>1, <1>2, <1>5 DEF OpenFor, RowTypes
<1> QED BY <1>3, <1>4, <1>5

LEMMA NextOneOpen == TypeOK /\ OneOpenIncident /\ [Next]_vars => OneOpenIncident'
<1> SUFFICES ASSUME TypeOK, OneOpenIncident, [Next]_vars PROVE OneOpenIncident'
  OBVIOUS
<1>0. RowTypes /\ RunTypes
  BY TypeParts DEF PartTypes
<1>1. ASSUME UNCHANGED <<state, about>> PROVE OneOpenIncident'
  BY <1>1 DEF OneOpenIncident
<1>2. ASSUME NEW i \in Ids, StaffClose(i) PROVE OneOpenIncident'
  BY <1>0, <1>2, OnlyEnds DEF StaffClose, RowTypes
<1>3. ASSUME NEW p \in Runs, Carry(p) PROVE OneOpenIncident'
  <2>1. item[p] \in Ids /\ next[p] \in Assessments
    BY <1>0, <1>3 DEF Carry, RunTypes, RunTypeOK
  <2>2. CASE state[item[p]] = "open" /\ Taken(item[p], next[p])
    BY <1>1, <1>3, <2>2 DEF Carry
  <2>3. CASE ~(state[item[p]] = "open" /\ Taken(item[p], next[p]))
    <3>1. state' = state /\ about' = [about EXCEPT ![item[p]] = next[p]]
      BY <1>3, <2>3 DEF Carry
    <3>2. state[item[p]] = "open" => \A k \in Ids \ {item[p]} : ~(state[k] = "open" /\ about[k] = next[p])
      BY <2>3 DEF Taken, OpenFor
    <3> QED BY <1>0, <2>1, <3>1, <3>2 DEF OneOpenIncident, RowTypes
  <2> QED BY <2>2, <2>3
<1>4. ASSUME NEW p \in Runs, CloseStale(p) PROVE OneOpenIncident'
  <2>1. item[p] \in Ids
    BY <1>0, <1>4 DEF CloseStale, RunTypes, RunTypeOK
  <2> QED BY <1>0, <1>4, <2>1, OnlyEnds DEF CloseStale, RowTypes
<1>5. ASSUME NEW p \in Runs, CloseOldMessages(p) PROVE OneOpenIncident'
  BY <1>0, <1>5, OnlyEnds DEF CloseOldMessages
<1>6. ASSUME NEW p \in Runs, InsertMessage(p) PROVE OneOpenIncident'
  BY <1>0, <1>6, CreatesOnly DEF InsertMessage
<1>7. ASSUME NEW p \in Runs, InsertIncident(p) PROVE OneOpenIncident'
  <2>1. CASE Taken(None, item[p])
    BY <1>1, <1>7, <2>1 DEF InsertIncident, rows
  <2>2. CASE ~Taken(None, item[p])
    <3>1. Create(item[p], None)
      BY <1>7, <2>2 DEF InsertIncident
    <3>2. OpenFor(item[p]) = {}
      BY <2>2, NoneAssumption DEF Taken, OpenFor
    <3> QED BY <1>0, <3>1, <3>2, CreatesOnly
  <2> QED BY <2>1, <2>2
<1>8. ASSUME NEW p \in Runs,
             \/ ReadStale(p) \/ FindSuccessor(p) \/ ReadMessages(p) \/ OpenMessage(p) \/ ReadActive(p)
             \/ CheckEnded(p) \/ FetchIncident(p) \/ Finish(p) \/ Crash(p) \/ CarryFails(p)
      PROVE  OneOpenIncident'
  BY <1>1, <1>8 DEF ReadStale, FindSuccessor, ReadMessages, OpenMessage, ReadActive, CheckEnded,
                    FetchIncident, Finish, Crash, CarryFails, rows
<1>9. ASSUME \/ \E C, O \in SUBSET Assessments : Judge(C, O)
             \/ \E m \in Messages : MessageAges(m)
             \/ UNCHANGED vars
      PROVE  OneOpenIncident'
  BY <1>1, <1>9 DEF Judge, MessageAges, rows, vars
<1>10. CASE StaffStart
  BY <1>0, <1>10, CreatesOnly DEF StaffStart
<1> QED BY <1>2, <1>3, <1>4, <1>5, <1>6, <1>7, <1>8, <1>9, <1>10 DEF Next, Step

(* However many runs overlap, with each other and with staff, a judgement  *)
(* never has two open incidents: the unique index and the order of the     *)
(* calls in dispatch.py are enough.                                        *)
THEOREM OneOpenAlways == Spec => []OneOpenIncident
<1>1. Init => OneOpenIncident
  BY DEF Init, OneOpenIncident
<1> QED BY <1>1, InitType, NextType, NextOneOpen, PTL DEF Spec

-----------------------------------------------------------------------------
(* One incident for a message.  The statement that inserts it looks for    *)
(* one first, but no index keeps a second out: what a run saw as missing   *)
(* still is when it inserts, because no other run inserts meanwhile.       *)
OneJob == \A p, q \in Jobs : p = q

FreshInv ==
  \A p \in Runs :
    /\ pc[p] \in {"settle", "carry", "close", "messages", "openMessage", "insertMessage"} => p \in Jobs
    /\ pc[p] = "insertMessage" => ~HasIncident(item[p])

(* Another actor's step leaves what run p holds alone.                     *)
LEMMA OthersHold ==
  ASSUME RunTypes, [Next]_vars, NEW p \in Runs, ~Step(p), ~Crash(p), ~CarryFails(p)
  PROVE  pc'[p] = pc[p] /\ todo'[p] = todo[p] /\ item'[p] = item[p] /\ next'[p] = next[p]
<1> DEFINE Untouched == pc'[p] = pc[p] /\ todo'[p] = todo[p] /\ item'[p] = item[p] /\ next'[p] = next[p]
<1>1. ASSUME NEW q \in Runs, q # p, Step(q) \/ Crash(q) \/ CarryFails(q)
      PROVE  Untouched
  <2>1. CASE ReadStale(q) \/ FindSuccessor(q) \/ Carry(q) \/ CloseStale(q)
    BY <1>1, <2>1 DEF ReadStale, FindSuccessor, Carry, CloseStale, Goto, Hold, RunTypes
  <2>2. CASE CloseOldMessages(q) \/ ReadMessages(q) \/ OpenMessage(q) \/ InsertMessage(q) \/ ReadActive(q)
    BY <1>1, <2>2 DEF CloseOldMessages, ReadMessages, OpenMessage, InsertMessage, ReadActive, Hold, Goto, RunTypes
  <2>3. CASE CheckEnded(q) \/ InsertIncident(q) \/ FetchIncident(q) \/ Finish(q) \/ Crash(q) \/ CarryFails(q)
    BY <1>1, <2>3 DEF CheckEnded, InsertIncident, FetchIncident, Finish, Crash, CarryFails, Ended, Ensured,
                            Goto, Hold, RunTypes
  <2> QED BY <1>1, <2>1, <2>2, <2>3 DEF Step
<1>2. ASSUME \/ \E C, O \in SUBSET Assessments : Judge(C, O)
             \/ \E m \in Messages : MessageAges(m)
             \/ StaffStart
             \/ \E i \in Ids : StaffClose(i)
             \/ UNCHANGED vars
      PROVE  Untouched
  BY <1>2 DEF Judge, MessageAges, StaffStart, StaffClose, vars
<1> QED BY <1>1, <1>2 DEF Next

(* All steps but a message's insertion leave the messages of incidents.    *)
LEMMA NotesStay ==
  ASSUME RowTypes, [Next]_vars, \A p \in Runs : ~InsertMessage(p)
  PROVE  \A i \in Ids : note'[i] # None => note'[i] = note[i]
<1> DEFINE Same == \A i \in Ids : note'[i] # None => note'[i] = note[i]
<1>1. ASSUME NEW a, Create(a, None) PROVE Same
  BY <1>1 DEF Create, RowTypes
<1>2. ASSUME NEW p \in Runs, InsertIncident(p) PROVE Same
  <2>1. UNCHANGED note \/ Create(item[p], None)
    BY <1>2 DEF InsertIncident, rows
  <2> QED BY <1>1, <2>1
<1>3. ASSUME NEW p \in Runs,
             \/ ReadStale(p) \/ FindSuccessor(p) \/ Carry(p) \/ CloseStale(p) \/ CloseOldMessages(p)
             \/ ReadMessages(p) \/ OpenMessage(p) \/ ReadActive(p) \/ CheckEnded(p) \/ FetchIncident(p)
             \/ Finish(p) \/ Crash(p) \/ CarryFails(p)
      PROVE  Same
  BY <1>3 DEF ReadStale, FindSuccessor, Carry, CloseStale, CloseOldMessages, ReadMessages, OpenMessage,
              ReadActive, CheckEnded, FetchIncident, Finish, Crash, CarryFails, rows
<1>4. ASSUME \/ \E C, O \in SUBSET Assessments : Judge(C, O)
             \/ \E m \in Messages : MessageAges(m)
             \/ \E i \in Ids : StaffClose(i)
             \/ UNCHANGED vars
      PROVE  Same
  BY <1>4 DEF Judge, MessageAges, StaffClose, rows, vars
<1>5. CASE StaffStart
  BY <1>1, <1>5 DEF StaffStart
<1> QED BY <1>2, <1>3, <1>4, <1>5 DEF Next, Step

LEMMA NextFresh ==
  ASSUME OneJob, TypeOK, FreshInv, [Next]_vars
  PROVE  FreshInv'
<1>0. RowTypes /\ RunTypes
  BY TypeParts DEF PartTypes
<1> SUFFICES ASSUME NEW p \in Runs
             PROVE  /\ pc'[p] \in {"settle", "carry", "close", "messages", "openMessage", "insertMessage"}
                         => p \in Jobs
                    /\ pc'[p] = "insertMessage" => ~HasIncident(item[p])'
  BY DEF FreshInv
<1>1. CASE OpenMessage(p)
  <2>1. PICK m \in todo[p] : IF HasIncident(m) THEN UNCHANGED <<pc, item>>
                             ELSE item' = [item EXCEPT ![p] = m] /\ Goto(p, "insertMessage")
    BY <1>1 DEF OpenMessage
  <2>2. note' = note /\ pc[p] = "openMessage" /\ p \in Jobs
    BY <1>1 DEF OpenMessage, rows, FreshInv
  <2> QED BY <1>0, <2>1, <2>2 DEF HasIncident, Goto, RunTypes
<1>2. CASE \/ ReadStale(p) \/ FindSuccessor(p) \/ Carry(p) \/ CloseStale(p) \/ CloseOldMessages(p)
           \/ ReadMessages(p) \/ InsertMessage(p) \/ CarryFails(p)
  BY <1>0, <1>2 DEF ReadStale, FindSuccessor, Carry, CloseStale, CloseOldMessages, ReadMessages, InsertMessage,
                    CarryFails, Goto, RunTypes, FreshInv
<1>3. CASE \/ ReadActive(p) \/ CheckEnded(p) \/ InsertIncident(p) \/ FetchIncident(p) \/ Finish(p) \/ Crash(p)
  BY <1>0, <1>3 DEF ReadActive, CheckEnded, InsertIncident, FetchIncident, Finish, Crash, Ensured, Ended, Goto,
                    RunTypes
<1>4. CASE ~Step(p) /\ ~Crash(p) /\ ~CarryFails(p)
  <2>1. pc'[p] = pc[p] /\ item'[p] = item[p]
    BY <1>0, <1>4, OthersHold
  <2>2. ASSUME pc[p] = "insertMessage" PROVE ~HasIncident(item[p])'
    <3>1. \A q \in Runs : ~InsertMessage(q)
      <4> SUFFICES ASSUME NEW q \in Runs, InsertMessage(q) PROVE FALSE
        OBVIOUS
      <4>1. q \in Jobs /\ p \in Jobs
        BY <2>2 DEF InsertMessage, FreshInv
      <4> QED BY <1>4, <4>1 DEF OneJob, Step
    <3>2. item[p] # None /\ ~HasIncident(item[p])
      BY <1>0, <2>2, NoneAssumption DEF FreshInv, RunTypes, RunTypeOK
    <3> QED BY <1>0, <2>1, <3>1, <3>2, NotesStay DEF HasIncident
  <2> QED BY <2>1, <2>2 DEF FreshInv
<1> QED BY <1>1, <1>2, <1>3, <1>4 DEF Step

LEMMA NextOnePerMessage ==
  ASSUME TypeOK, FreshInv, OneIncidentPerMessage, [Next]_vars
  PROVE  OneIncidentPerMessage'
<1>0. RowTypes
  BY TypeParts DEF PartTypes
<1>1. ASSUME NEW p \in Runs, InsertMessage(p) PROVE OneIncidentPerMessage'
  <2>1. ~HasIncident(item[p])
    BY <1>1 DEF InsertMessage, FreshInv
  <2>2. PICK i \in Ids : note' = [note EXCEPT ![i] = item[p]]
    BY <1>1 DEF InsertMessage, Create
  <2> QED BY <1>0, <2>1, <2>2 DEF OneIncidentPerMessage, HasIncident, RowTypes
<1>2. CASE \A p \in Runs : ~InsertMessage(p)
  BY <1>0, <1>2, NotesStay DEF OneIncidentPerMessage
<1> QED BY <1>1, <1>2

(* With one periodic run at a time, a message makes one incident, ever,    *)
(* whoever ended it and however often its run died.                        *)
THEOREM OnePerMessageAlways == ASSUME OneJob PROVE Spec => []OneIncidentPerMessage
<1>1. Init => FreshInv /\ OneIncidentPerMessage
  BY DEF Init, FreshInv, OneIncidentPerMessage
<1>2. TypeOK /\ FreshInv /\ OneIncidentPerMessage /\ [Next]_vars => FreshInv' /\ OneIncidentPerMessage'
  BY NextFresh, NextOnePerMessage
<1> QED BY <1>1, <1>2, InitType, NextType, PTL DEF Spec

-----------------------------------------------------------------------------
(* Runs end only what is dead.  The list of stale incidents that a run     *)
(* works through is old by the time an incident's turn comes: the proof    *)
(* rests on that what was found dead stays so, because only the run itself *)
(* could carry it to a judgement that holds.                               *)
Settling(p) == pc[p] \in {"settle", "carry", "close"}

(* Incident i is, or was when it was open last, about a closed judgement.  *)
Dead(i) ==
  /\ state[i] # "unused"
  /\ note[i] = None
  /\ (state[i] = "open" => about[i] \in Assessments /\ validity[about[i]] = "closed")

MessageInv ==
  \A i \in Ids : /\ (note[i] # None => about[i] = None)
                 /\ (state[i] = "unused" => note[i] = None /\ about[i] = None)

SettlesDead(p) ==
  /\ p \in Jobs
  /\ \A x \in todo[p] : Dead(x[1])
  /\ \A x, y \in todo[p] : x[1] = y[1] => x = y
  /\ (pc[p] # "settle" => Dead(item[p]) /\ \A x \in todo[p] : x[1] # item[p])

SettleInv == MessageInv /\ \A p \in Runs : Settling(p) => SettlesDead(p)

LEMMA CreateKeepsDead ==
  ASSUME RowTypes, MessageInv, NEW a, NEW m, Create(a, m), a = None \/ m = None,
         UNCHANGED validity
  PROVE  MessageInv' /\ \A i \in Ids : Dead(i) => Dead(i)'
BY DEF Create, MessageInv, Dead, RowTypes

(* All steps but a carrying keep a dead incident dead.                     *)
LEMMA DeadStays ==
  ASSUME TypeOK, SettleInv, [Next]_vars, \A p \in Runs : ~Carry(p)
  PROVE  MessageInv' /\ \A i \in Ids : Dead(i) => Dead(i)'
<1>0. WorldTypes /\ RowTypes /\ RunTypes /\ MessageInv
  BY TypeParts DEF PartTypes, SettleInv
<1> DEFINE Kept == MessageInv' /\ \A i \in Ids : Dead(i) => Dead(i)'
<1>1. ASSUME UNCHANGED <<state, about, note, validity>> PROVE Kept
  BY <1>0, <1>1 DEF MessageInv, Dead
<1>2. ASSUME NEW C \in SUBSET Assessments, NEW O \in SUBSET Assessments, Judge(C, O) PROVE Kept
  BY <1>0, <1>2 DEF Judge, rows, MessageInv, Dead, WorldTypes
<1>3. ASSUME NEW i \in Ids, StaffClose(i) PROVE Kept
  BY <1>0, <1>3 DEF StaffClose, world, MessageInv, Dead, RowTypes
<1>4. ASSUME NEW p \in Runs, CloseStale(p) PROVE Kept
  BY <1>0, <1>4 DEF CloseStale, world, MessageInv, Dead, RowTypes
<1>5. ASSUME NEW p \in Runs, CloseOldMessages(p) PROVE Kept
  <2>1. UNCHANGED <<validity, about, note>>
    BY <1>5 DEF CloseOldMessages, world
  <2>2. \A i \in Ids : /\ (state'[i] = "unused" <=> state[i] = "unused")
                       /\ (state'[i] = "open" => state[i] = "open")
    BY <1>0, <1>5 DEF CloseOldMessages, Outdated
  <2> QED BY <1>0, <2>1, <2>2 DEF MessageInv, Dead
<1>6. ASSUME NEW p \in Runs, InsertMessage(p) PROVE Kept
  BY <1>0, <1>6, CreateKeepsDead DEF InsertMessage, world
<1>7. ASSUME NEW p \in Runs, InsertIncident(p) PROVE Kept
  <2>1. UNCHANGED <<state, about, note>> \/ Create(item[p], None)
    BY <1>7 DEF InsertIncident, rows
  <2>2. UNCHANGED validity
    BY <1>7 DEF InsertIncident, world
  <2> QED BY <1>0, <1>1, <2>1, <2>2, CreateKeepsDead
<1>8. ASSUME NEW p \in Runs,
             \/ ReadStale(p) \/ FindSuccessor(p) \/ ReadMessages(p) \/ OpenMessage(p) \/ ReadActive(p)
             \/ CheckEnded(p) \/ FetchIncident(p) \/ Finish(p) \/ Crash(p) \/ CarryFails(p)
      PROVE  Kept
  BY <1>1, <1>8 DEF ReadStale, FindSuccessor, ReadMessages, OpenMessage, ReadActive, CheckEnded,
                    FetchIncident, Finish, Crash, CarryFails, rows, world
<1>9. ASSUME (\E m \in Messages : MessageAges(m)) \/ UNCHANGED vars PROVE Kept
  BY <1>1, <1>9 DEF MessageAges, rows, vars
<1>10. CASE StaffStart
  BY <1>0, <1>10, CreateKeepsDead DEF StaffStart, world
<1> QED BY <1>2, <1>3, <1>4, <1>5, <1>6, <1>7, <1>8, <1>9, <1>10 DEF Next, Step

(* A carrying changes the incident in hand only.                           *)
LEMMA CarryKeepsOthers ==
  ASSUME TypeOK, SettleInv, NEW p \in Runs, Carry(p)
  PROVE  /\ MessageInv'
         /\ \A i \in Ids \ {item[p]} : Dead(i) => Dead(i)'
         /\ (pc'[p] # "settle" => (Dead(item[p]) => Dead(item[p])'))
<1>0. RowTypes /\ RunTypes
  BY TypeParts DEF PartTypes
<1>1. item[p] \in Ids /\ Dead(item[p]) /\ pc[p] = "carry"
  BY <1>0 DEF Carry, RunTypes, RunTypeOK, SettleInv, SettlesDead, Settling
<1>2. UNCHANGED <<state, note, validity>>
  BY DEF Carry, world
<1>3. UNCHANGED about \/ about' = [about EXCEPT ![item[p]] = next[p]]
  BY DEF Carry
<1>4. MessageInv'
  BY <1>0, <1>1, <1>2, <1>3 DEF MessageInv, Dead, RowTypes, SettleInv
<1>5. ASSUME pc'[p] # "settle" PROVE UNCHANGED <<about, item>>
  BY <1>0, <1>5 DEF Carry, Goto, RunTypes
<1>6. ASSUME NEW i \in Ids \ {item[p]}, Dead(i) PROVE Dead(i)'
  BY <1>0, <1>1, <1>2, <1>3, <1>6 DEF Dead, RowTypes
<1>7. ASSUME pc'[p] # "settle", Dead(item[p]) PROVE Dead(item[p])'
  BY <1>2, <1>5, <1>7 DEF Dead
<1> QED BY <1>4, <1>6, <1>7

(* The run's own steps.                                                    *)
LEMMA OwnStep ==
  ASSUME OneJob, TypeOK, SettleInv, NEW p \in Runs, Step(p), Settling(p)'
  PROVE  SettlesDead(p)'
<1>0. RowTypes /\ RunTypes /\ WorldTypes /\ MessageInv
  BY TypeParts DEF PartTypes, SettleInv
<1>1. CASE ReadStale(p)
  <2>1. todo'[p] = StaleIncidents /\ pc'[p] = "settle" /\ p \in Jobs
    BY <1>0, <1>1 DEF ReadStale, Goto, RunTypes
  <2>2. UNCHANGED <<state, about, note, validity>>
    BY <1>1 DEF ReadStale, world, rows
  <2>3. \A x \in StaleIncidents : x[1] \in Ids /\ x[2] = about[x[1]] /\ x = <<x[1], x[2]>> /\ Dead(x[1])
    BY <1>0 DEF StaleIncidents, Dead, MessageInv, RowTypes
  <2> QED BY <2>1, <2>2, <2>3 DEF SettlesDead, Dead
<1>2. CASE FindSuccessor(p)
  <2>1. SettlesDead(p)
    BY <1>2 DEF FindSuccessor, SettleInv, Settling
  <2>2. UNCHANGED <<state, about, note, validity>>
    BY <1>2 DEF FindSuccessor, world, rows
  <2>3. PICK x \in todo[p] : todo'[p] = todo[p] \ {x} /\ item'[p] = x[1]
    BY <1>0, <1>2 DEF FindSuccessor, Hold, RunTypes
  <2> QED BY <2>1, <2>2, <2>3 DEF SettlesDead, Dead
<1>3. CASE Carry(p)
  <2>1. SettlesDead(p) /\ pc[p] = "carry"
    BY <1>3 DEF Carry, SettleInv, Settling
  <2>2. todo'[p] = todo[p] /\ (pc'[p] # "settle" => item'[p] = item[p])
    BY <1>0, <1>3 DEF Carry, Goto, Hold, RunTypes
  <2>3. \A x \in todo[p] : x[1] \in Ids \ {item[p]}
    BY <1>0, <2>1 DEF SettlesDead, RunTypes, RunTypeOK
  <2>4. \A x \in todo[p] : Dead(x[1])'
    BY <1>3, <2>1, <2>3, CarryKeepsOthers DEF SettlesDead
  <2>5. pc'[p] # "settle" => Dead(item[p])'
    BY <1>3, <2>1, CarryKeepsOthers DEF SettlesDead
  <2> QED BY <2>1, <2>2, <2>3, <2>4, <2>5 DEF SettlesDead, Dead
<1>4. CASE CloseStale(p)
  <2>1. SettlesDead(p) /\ pc[p] = "close"
    BY <1>4 DEF CloseStale, SettleInv, Settling
  <2>2. todo'[p] = todo[p] /\ pc'[p] = "settle"
    BY <1>0, <1>4 DEF CloseStale, Goto, RunTypes
  <2>3. \A x \in todo[p] : x[1] \in Ids \ {item[p]}
    BY <1>0, <2>1 DEF SettlesDead, RunTypes, RunTypeOK
  <2>4. \A i \in Ids \ {item[p]} : Dead(i) => Dead(i)'
    BY <1>0, <1>4 DEF CloseStale, world, Dead, RowTypes
  <2> QED BY <2>1, <2>2, <2>3, <2>4 DEF SettlesDead
<1>5. CASE \/ CloseOldMessages(p) \/ ReadMessages(p) \/ ReadActive(p) \/ Finish(p)
  BY <1>0, <1>5 DEF CloseOldMessages, ReadMessages, ReadActive, Finish, Ended, Goto, RunTypes, Settling
<1>6. CASE OpenMessage(p) \/ InsertMessage(p) \/ CheckEnded(p) \/ InsertIncident(p) \/ FetchIncident(p)
  BY <1>0, <1>6 DEF OpenMessage, InsertMessage, CheckEnded, InsertIncident, FetchIncident, Ensured, Ended,
                    Hold, Goto, RunTypes, Settling
<1> QED BY <1>1, <1>2, <1>3, <1>4, <1>5, <1>6 DEF Step

(* Nothing another actor does touches what a settling run holds.           *)
LEMMA OthersStep ==
  ASSUME OneJob, TypeOK, SettleInv, [Next]_vars, NEW p \in Runs, Settling(p)',
         ~Step(p), ~Crash(p), ~CarryFails(p)
  PROVE  SettlesDead(p)'
<1>0. RowTypes /\ RunTypes
  BY TypeParts DEF PartTypes
<1>1. pc'[p] = pc[p] /\ todo'[p] = todo[p] /\ item'[p] = item[p]
  BY <1>0, OthersHold
<1>2. SettlesDead(p)
  BY <1>1 DEF SettleInv, Settling
<1>3. \A q \in Runs : ~Carry(q)
  <2> SUFFICES ASSUME NEW q \in Runs, Carry(q) PROVE FALSE
    OBVIOUS
  <2>1. q \in Jobs
    BY DEF Carry, SettleInv, SettlesDead, Settling
  <2>2. p \in Jobs
    BY <1>2 DEF SettlesDead
  <2> QED BY <2>1, <2>2 DEF OneJob, Step
<1>4. \A i \in Ids : Dead(i) => Dead(i)'
  BY <1>3, DeadStays
<1>5. (\A x \in todo[p] : x[1] \in Ids) /\ (pc[p] # "settle" => item[p] \in Ids)
  BY <1>0, <1>1 DEF RunTypes, RunTypeOK, Settling
<1> QED BY <1>1, <1>2, <1>4, <1>5 DEF SettlesDead

LEMMA NextSettle ==
  ASSUME OneJob, TypeOK, SettleInv, [Next]_vars
  PROVE  SettleInv'
<1>1. MessageInv'
  BY DeadStays, CarryKeepsOthers
<1>2. ASSUME NEW p \in Runs, Settling(p)' PROVE SettlesDead(p)'
  <2>1. CASE Step(p)
    BY <1>2, <2>1, OwnStep
  <2>2. CASE Crash(p)
    BY <1>2, <2>2, TypeParts DEF PartTypes, RunTypes, Crash, Ended, Goto, Settling
  <2>3. CASE CarryFails(p)
    <3>1. RunTypes /\ SettlesDead(p)
      BY <2>3, TypeParts DEF PartTypes, CarryFails, SettleInv, Settling
    <3>2. UNCHANGED <<state, about, note, validity, todo, item>> /\ pc[p] = "carry"
      BY <2>3 DEF CarryFails, world, rows
    <3> QED BY <3>1, <3>2 DEF SettlesDead, Dead
  <2> QED BY <1>2, <2>1, <2>2, <2>3, OthersStep
<1> QED BY <1>1, <1>2 DEF SettleInv

LEMMA EndsDead ==
  ASSUME TypeOK, SettleInv, [Next]_vars, NEW i \in Ids,
         state[i] = "open", state'[i] = "closed", closer'[i] = "run"
  PROVE  \/ about[i] # None /\ validity[about[i]] = "closed"
         \/ note[i] # None /\ sent[note[i]] = "old"
<1>0. RowTypes /\ RunTypes /\ MessageInv
  BY TypeParts DEF PartTypes, SettleInv
<1>1. ASSUME NEW p \in Runs, CloseStale(p)
      PROVE  about[i] # None /\ validity[about[i]] = "closed"
  <2>1. i = item[p]
    BY <1>0, <1>1 DEF CloseStale, RowTypes
  <2>2. Dead(item[p])
    BY <1>1 DEF CloseStale, SettleInv, Settling, SettlesDead
  <2> QED BY <2>1, <2>2, NoneAssumption DEF Dead
<1>2. ASSUME NEW p \in Runs, CloseOldMessages(p)
      PROVE  note[i] # None /\ sent[note[i]] = "old"
  <2>1. i \in Outdated
    BY <1>0, <1>2 DEF CloseOldMessages
  <2> QED BY <2>1 DEF Outdated
<1>3. ASSUME NEW a, NEW m, Create(a, m) PROVE FALSE
  BY <1>0, <1>3 DEF Create, RowTypes
<1>4. ASSUME UNCHANGED state PROVE FALSE
  BY <1>4
<1>5. ASSUME NEW k \in Ids, StaffClose(k) PROVE FALSE
  BY <1>0, <1>5 DEF StaffClose, RowTypes
<1>6. ASSUME NEW p \in Runs,
             \/ ReadStale(p) \/ FindSuccessor(p) \/ Carry(p) \/ ReadMessages(p) \/ OpenMessage(p)
             \/ InsertMessage(p) \/ ReadActive(p) \/ CheckEnded(p) \/ InsertIncident(p) \/ FetchIncident(p)
             \/ Finish(p) \/ Crash(p) \/ CarryFails(p)
      PROVE  FALSE
  <2>1. UNCHANGED state \/ \E a, m : Create(a, m)
    BY <1>6 DEF ReadStale, FindSuccessor, Carry, ReadMessages, OpenMessage, InsertMessage, ReadActive, CheckEnded,
                InsertIncident, FetchIncident, Finish, Crash, CarryFails, rows
  <2> QED BY <1>3, <1>4, <2>1
<1>7. ASSUME \/ \E C, O \in SUBSET Assessments : Judge(C, O)
             \/ \E m \in Messages : MessageAges(m)
             \/ UNCHANGED vars
      PROVE  FALSE
  BY <1>4, <1>7 DEF Judge, MessageAges, rows, vars
<1>8. CASE StaffStart
  BY <1>3, <1>8 DEF StaffStart
<1> QED BY <1>1, <1>2, <1>5, <1>6, <1>7, <1>8 DEF Next, Step

(* With one periodic run at a time (and any number of polls), a run never  *)
(* ends the incident of a danger that still holds.                         *)
THEOREM EndsOnlyDeadAlways == ASSUME OneJob PROVE Spec => RunEndsOnlyDead
<1>1. Init => SettleInv
  BY DEF Init, SettleInv, MessageInv, Settling
<1>2. TypeOK /\ SettleInv /\ [Next]_vars => SettleInv'
  BY NextSettle
<1>3. TypeOK /\ SettleInv /\ [Next]_vars =>
        [\A i \in Ids :
           state[i] = "open" /\ state'[i] = "closed" /\ closer'[i] = "run" =>
             \/ about[i] # None /\ validity[about[i]] = "closed"
             \/ note[i] # None /\ sent[note[i]] = "old"]_vars
  BY EndsDead
<1> QED BY <1>1, <1>2, <1>3, InitType, NextType, PTL DEF Spec, RunEndsOnlyDead

-----------------------------------------------------------------------------
(* The runs implement the life-cycle of IncidentLife.  A carrying is a     *)
(* move to a judgement of the same danger because the list of stale        *)
(* incidents still says what each of them is about.                        *)
CarriesKin(p) ==
  /\ \A x \in todo[p] : about[x[1]] = x[2]
  /\ pc[p] = "carry" => <<about[item[p]], next[p]>> \in Kindred

KinInv == \A p \in Runs : Settling(p) => CarriesKin(p)

(* Only a carrying changes what an incident that exists is about.          *)
LEMMA AboutStays ==
  ASSUME TypeOK, [Next]_vars, \A p \in Runs : ~Carry(p),
         NEW i \in Ids, state[i] # "unused"
  PROVE  about'[i] = about[i]
<1>0. RowTypes
  BY TypeParts DEF PartTypes
<1>1. ASSUME NEW a, NEW m, Create(a, m) PROVE about'[i] = about[i]
  BY <1>0, <1>1 DEF Create, RowTypes
<1>2. ASSUME NEW p \in Runs, Step(p) PROVE about'[i] = about[i]
  <2>1. UNCHANGED about \/ \E a, m : Create(a, m)
    BY <1>2 DEF Step, ReadStale, FindSuccessor, CloseStale, CloseOldMessages, ReadMessages, OpenMessage,
                InsertMessage, ReadActive, CheckEnded, InsertIncident, FetchIncident, Finish, rows
  <2> QED BY <1>1, <2>1
<1>3. ASSUME \/ \E C, O \in SUBSET Assessments : Judge(C, O)
             \/ \E m \in Messages : MessageAges(m)
             \/ \E k \in Ids : StaffClose(k)
             \/ \E p \in Runs : Crash(p) \/ CarryFails(p)
             \/ UNCHANGED vars
      PROVE  about'[i] = about[i]
  BY <1>3 DEF Judge, MessageAges, StaffClose, Crash, CarryFails, rows, vars
<1> QED BY <1>1, <1>2, <1>3 DEF Next, StaffStart

(* A run's own step keeps the list of what it settles true.                *)
LEMMA OwnKin ==
  ASSUME OneJob, TypeOK, SettleInv, KinInv, NEW p \in Runs, Step(p), Settling(p)'
  PROVE  CarriesKin(p)'
<1>0. RowTypes /\ RunTypes /\ WorldTypes
  BY TypeParts DEF PartTypes
<1>1. CASE ReadStale(p)
  <2>1. todo'[p] = StaleIncidents /\ pc'[p] = "settle"
    BY <1>0, <1>1 DEF ReadStale, Goto, RunTypes
  <2>2. about' = about
    BY <1>1 DEF ReadStale, rows
  <2>3. \A x \in StaleIncidents : about[x[1]] = x[2]
    BY DEF StaleIncidents
  <2> QED BY <2>1, <2>2, <2>3 DEF CarriesKin
<1>2. CASE FindSuccessor(p)
  <2>1. CarriesKin(p) /\ about' = about /\ todo[p] \subseteq Ids \X Assessments
    BY <1>0, <1>2 DEF FindSuccessor, KinInv, Settling, rows, RunTypes, RunTypeOK
  <2>2. PICK x \in todo[p] :
          /\ todo' = [todo EXCEPT ![p] = @ \ {x}]
          /\ \/ Goto(p, "close")
             \/ \E n \in Successors(x[2]) : Hold(p, x[1], n) /\ Goto(p, "carry")
    BY <1>2 DEF FindSuccessor
  <2>3. \A y \in todo'[p] : about'[y[1]] = y[2]
    BY <1>0, <2>1, <2>2 DEF CarriesKin, RunTypes
  <2>4. CASE Goto(p, "close")
    BY <1>0, <2>3, <2>4 DEF Goto, CarriesKin, RunTypes
  <2>5. ASSUME NEW n \in Successors(x[2]), Hold(p, x[1], n), Goto(p, "carry") PROVE CarriesKin(p)'
    <3>1. item'[p] = x[1] /\ next'[p] = n
      BY <1>0, <2>5 DEF Hold, RunTypes
    <3>2. about[x[1]] = x[2] /\ x[2] \in Assessments
      BY <2>1, <2>2 DEF CarriesKin
    <3>3. n \in Assessments /\ Kin(x[2], n)
      BY DEF Successors
    <3>4. <<about[x[1]], n>> \in Kindred
      BY <3>2, <3>3 DEF Kindred
    <3> QED BY <2>1, <2>3, <3>1, <3>4 DEF CarriesKin
  <2> QED BY <2>2, <2>4, <2>5
<1>3. CASE Carry(p)
  <2>1. SettlesDead(p) /\ CarriesKin(p) /\ pc[p] = "carry"
    BY <1>3 DEF Carry, SettleInv, KinInv, Settling
  <2>2. todo'[p] = todo[p] /\ pc'[p] # "carry"
    BY <1>0, <1>3 DEF Carry, Goto, RunTypes
  <2>3. \A x \in todo[p] : x[1] \in Ids \ {item[p]}
    BY <1>0, <2>1 DEF SettlesDead, RunTypes, RunTypeOK
  <2>4. \A i \in Ids \ {item[p]} : about'[i] = about[i]
    BY <1>0, <1>3 DEF Carry, RowTypes
  <2> QED BY <2>1, <2>2, <2>3, <2>4 DEF CarriesKin
<1>4. CASE CloseStale(p)
  BY <1>0, <1>4 DEF CloseStale, Goto, RunTypes, KinInv, Settling, CarriesKin
<1>5. CASE \/ CloseOldMessages(p) \/ ReadMessages(p) \/ ReadActive(p) \/ Finish(p)
  BY <1>0, <1>5 DEF CloseOldMessages, ReadMessages, ReadActive, Finish, Ended, Goto, RunTypes, Settling
<1>6. CASE OpenMessage(p) \/ InsertMessage(p) \/ CheckEnded(p) \/ InsertIncident(p) \/ FetchIncident(p)
  BY <1>0, <1>6 DEF OpenMessage, InsertMessage, CheckEnded, InsertIncident, FetchIncident, Ensured, Ended,
                    Hold, Goto, RunTypes, Settling
<1> QED BY <1>1, <1>2, <1>3, <1>4, <1>5, <1>6 DEF Step

(* Nor does anything else change what an incident of the list is about.    *)
LEMMA NextKin ==
  ASSUME OneJob, TypeOK, SettleInv, KinInv, [Next]_vars
  PROVE  KinInv'
<1> SUFFICES ASSUME NEW p \in Runs, Settling(p)' PROVE CarriesKin(p)'
  BY DEF KinInv
<1>0. RowTypes /\ RunTypes
  BY TypeParts DEF PartTypes
<1>1. CASE Step(p)
  BY <1>1, OwnKin
<1>2. CASE Crash(p)
  BY <1>0, <1>2 DEF Crash, Ended, Goto, RunTypes, Settling
<1>3. CASE CarryFails(p)
  <2>1. CarriesKin(p) /\ UNCHANGED <<about, todo>> /\ pc'[p] = "close"
    BY <1>0, <1>3 DEF CarryFails, Goto, rows, KinInv, Settling, RunTypes
  <2> QED BY <2>1 DEF CarriesKin
<1>4. CASE ~Step(p) /\ ~Crash(p) /\ ~CarryFails(p)
  <2>1. pc'[p] = pc[p] /\ todo'[p] = todo[p] /\ item'[p] = item[p] /\ next'[p] = next[p]
    BY <1>0, <1>4, OthersHold
  <2>2. SettlesDead(p) /\ CarriesKin(p)
    BY <2>1 DEF SettleInv, KinInv, Settling
  <2>3. \A q \in Runs : ~Carry(q)
    <3> SUFFICES ASSUME NEW q \in Runs, Carry(q) PROVE FALSE
      OBVIOUS
    <3>1. q \in Jobs
      BY DEF Carry, SettleInv, SettlesDead, Settling
    <3>2. p \in Jobs
      BY <2>2 DEF SettlesDead
    <3> QED BY <1>4, <3>1, <3>2 DEF OneJob, Step
  <2>4. \A i \in Ids : state[i] # "unused" => about'[i] = about[i]
    BY <2>3, AboutStays
  <2>5. \A x \in todo[p] : x[1] \in Ids /\ state[x[1]] # "unused"
    BY <1>0, <2>1, <2>2 DEF RunTypes, RunTypeOK, Settling, SettlesDead, Dead
  <2>6. pc[p] = "carry" => item[p] \in Ids /\ state[item[p]] # "unused"
    BY <1>0, <2>2 DEF RunTypes, RunTypeOK, SettlesDead, Dead
  <2> QED BY <2>1, <2>2, <2>4, <2>5, <2>6 DEF CarriesKin
<1> QED BY <1>1, <1>2, <1>3, <1>4

-----------------------------------------------------------------------------
(* Every step maps to a step of the life-cycle, or to none.                *)

LEMMA StartMaps ==
  ASSUME RowTypes, NEW a \in Assessments \cup {None}, NEW m \in Messages \cup {None}, Create(a, m),
         a = None \/ m = None, a # None => OpenFor(a) = {}, m # None => ~HasIncident(m)
  PROVE  Life!Next
<1>1. PICK i \in Ids : /\ state[i] = "unused"
                       /\ state' = [state EXCEPT ![i] = "open"]
                       /\ about' = [about EXCEPT ![i] = a]
                       /\ note' = [note EXCEPT ![i] = m]
  BY DEF Create
<1>2. Life!Start(i, a, m)
  BY <1>1 DEF Life!Start, Life!Free, OpenFor, HasIncident
<1> QED BY <1>2 DEF Life!Next

LEMMA CarryMaps ==
  ASSUME TypeOK, KinInv, NEW p \in Runs, Carry(p)
  PROVE  [Life!Next]_(Life!life)
<1>0. RunTypes /\ RowTypes
  BY TypeParts DEF PartTypes
<1>1. item[p] \in Ids /\ next[p] \in Assessments /\ <<about[item[p]], next[p]>> \in Kindred
  BY <1>0 DEF Carry, RunTypes, RunTypeOK, KinInv, CarriesKin, Settling
<1>2. CASE state[item[p]] = "open" /\ Taken(item[p], next[p])
  BY <1>2 DEF Carry, Life!life
<1>3. CASE ~(state[item[p]] = "open" /\ Taken(item[p], next[p]))
  <2>1. about' = [about EXCEPT ![item[p]] = next[p]] /\ UNCHANGED <<state, note>>
    BY <1>3 DEF Carry
  <2>2. state[item[p]] = "open" => Life!Free(next[p], item[p])
    BY <1>3 DEF Taken, OpenFor, Life!Free
  <2>3. Life!Move(item[p], next[p])
    BY <1>1, <2>1, <2>2 DEF Life!Move
  <2> QED BY <1>1, <2>3 DEF Life!Next
<1> QED BY <1>2, <1>3

LEMMA EndMaps ==
  ASSUME RowTypes, NEW S \in SUBSET Ids, \A i \in S : state[i] = "open",
         state' = [i \in Ids |-> IF i \in S THEN "closed" ELSE state[i]], UNCHANGED <<about, note>>
  PROVE  Life!Next
<1>1. Life!End(S)
  BY DEF Life!End
<1> QED BY <1>1 DEF Life!Next

LEMMA StepMaps ==
  ASSUME TypeOK, KinInv, FreshInv, [Next]_vars
  PROVE  [Life!Next]_(Life!life)
<1>0. RowTypes /\ RunTypes
  BY TypeParts DEF PartTypes
<1>1. ASSUME UNCHANGED <<state, about, note>> PROVE [Life!Next]_(Life!life)
  BY <1>1 DEF Life!life
<1>2. ASSUME NEW i \in Ids, state[i] = "open", state' = [state EXCEPT ![i] = "closed"],
             UNCHANGED <<about, note>>
      PROVE  Life!Next
  <2>1. state' = [k \in Ids |-> IF k \in {i} THEN "closed" ELSE state[k]]
    BY <1>0, <1>2 DEF RowTypes
  <2> QED BY <1>0, <1>2, <2>1, EndMaps
<1>3. ASSUME NEW i \in Ids, StaffClose(i) PROVE Life!Next
  BY <1>2, <1>3 DEF StaffClose
<1>4. ASSUME NEW p \in Runs, CloseStale(p) PROVE [Life!Next]_(Life!life)
  <2>1. item[p] \in Ids /\ UNCHANGED <<about, note>>
    BY <1>0, <1>4 DEF CloseStale, RunTypes, RunTypeOK
  <2>2. CASE state[item[p]] = "open"
    BY <1>2, <1>4, <2>1, <2>2 DEF CloseStale
  <2>3. CASE state[item[p]] # "open"
    BY <1>1, <1>4, <2>1, <2>3 DEF CloseStale
  <2> QED BY <2>2, <2>3
<1>5. ASSUME NEW p \in Runs, CloseOldMessages(p) PROVE Life!Next
  <2>1. Outdated \in SUBSET Ids /\ \A i \in Outdated : state[i] = "open"
    BY DEF Outdated
  <2> QED BY <1>0, <1>5, <2>1, EndMaps DEF CloseOldMessages
<1>6. ASSUME NEW p \in Runs, InsertMessage(p) PROVE Life!Next
  <2>1. item[p] \in Messages /\ ~HasIncident(item[p])
    BY <1>0, <1>6 DEF InsertMessage, RunTypes, RunTypeOK, FreshInv
  <2> QED BY <1>0, <1>6, <2>1, StartMaps DEF InsertMessage
<1>7. ASSUME NEW p \in Runs, InsertIncident(p) PROVE [Life!Next]_(Life!life)
  <2>1. item[p] \in Assessments
    BY <1>0, <1>7 DEF InsertIncident, RunTypes, RunTypeOK
  <2>2. UNCHANGED <<state, about, note>> \/ (~Taken(None, item[p]) /\ Create(item[p], None))
    BY <1>7 DEF InsertIncident, rows
  <2>3. ~Taken(None, item[p]) => OpenFor(item[p]) = {}
    BY NoneAssumption DEF Taken, OpenFor
  <2> QED BY <1>0, <1>1, <2>1, <2>2, <2>3, StartMaps
<1>8. ASSUME NEW p \in Runs,
             \/ ReadStale(p) \/ FindSuccessor(p) \/ ReadMessages(p) \/ OpenMessage(p) \/ ReadActive(p)
             \/ CheckEnded(p) \/ FetchIncident(p) \/ Finish(p) \/ Crash(p) \/ CarryFails(p)
      PROVE  UNCHANGED <<state, about, note>>
  BY <1>8 DEF ReadStale, FindSuccessor, ReadMessages, OpenMessage, ReadActive, CheckEnded,
              FetchIncident, Finish, Crash, CarryFails, rows
<1>9. ASSUME \/ \E C, O \in SUBSET Assessments : Judge(C, O)
             \/ \E m \in Messages : MessageAges(m)
             \/ UNCHANGED vars
      PROVE  UNCHANGED <<state, about, note>>
  BY <1>9 DEF Judge, MessageAges, rows, vars
<1>10. CASE StaffStart
  BY <1>0, <1>10, StartMaps DEF StaffStart
<1> QED BY <1>1, <1>3, <1>4, <1>5, <1>6, <1>7, <1>8, <1>9, <1>10, CarryMaps DEF Next, Step

(* With one periodic run at a time, the runs, the engine, the polls and    *)
(* staff together implement the life-cycle that dispatch.py promises of an *)
(* incident: IncidentLife.                                                 *)
THEOREM KeepsLifeAlways == ASSUME OneJob PROVE Spec => KeepsLife
<1>1. Init => Life!Init
  BY DEF Init, Life!Init
<1>2. Init => SettleInv /\ KinInv /\ FreshInv
  BY DEF Init, SettleInv, KinInv, FreshInv, MessageInv, Settling
<1>3. TypeOK /\ SettleInv /\ KinInv /\ FreshInv /\ [Next]_vars => SettleInv' /\ KinInv' /\ FreshInv'
  BY NextSettle, NextKin, NextFresh
<1>4. TypeOK /\ KinInv /\ FreshInv /\ [Next]_vars => [Life!Next]_(Life!life)
  BY StepMaps
<1> QED BY <1>1, <1>2, <1>3, <1>4, InitType, NextType, PTL DEF Spec, KeepsLife, Life!Spec
=============================================================================
