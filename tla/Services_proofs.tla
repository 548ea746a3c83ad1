--------------------------- MODULE Services_proofs ---------------------------
(***************************************************************************)
(* Proofs about the services, within the composition the runs check        *)
(* (MCServices): what reaches the server or the phone late, the app's      *)
(* queue of answers (ResponseQueue), its copy of the profile (AccountSync),*)
(* the drill (Drill), what the assistant notes (ProfileSync) and the       *)
(* alerts (Delivery); the server's registers, accounts and households      *)
(* (Accounts) and the responders' desk (Desk), for any number of           *)
(* overlapping requests; and the types of all seven.                       *)
(***************************************************************************)
EXTENDS MCServices, SequenceTheorems, WellFoundedInduction, TLAPS

-----------------------------------------------------------------------------
(* Lists of answers.                                                       *)

Elems(s) == {s[i] : i \in DOMAIN s}

(* At most one answer to an alert.                                         *)
OneEach(s) == \A i, j \in DOMAIN s : s[i].alert = s[j].alert => i = j

LEMMA RemoveAtElements ==
  ASSUME NEW S, NEW s \in Seq(S), NEW i \in DOMAIN s
  PROVE  /\ Answer!RemoveAt(s, i) \in Seq(S)
         /\ DOMAIN Answer!RemoveAt(s, i) = 1..Len(s)-1
         /\ \A j \in 1..Len(s)-1 : Answer!RemoveAt(s, i)[j] = IF j < i THEN s[j] ELSE s[j+1]
<1> DEFINE a == SubSeq(s, 1, i-1)
           b == SubSeq(s, i+1, Len(s))
<1>1. i \in 1..Len(s) /\ Len(s) \in Nat
  OBVIOUS
<1>2. a \in Seq(S) /\ Len(a) = i-1 /\ \A j \in 1..i-1 : a[j] = s[j]
  BY <1>1, SubSeqProperties
<1>3. b \in Seq(S) /\ Len(b) = Len(s) - i /\ \A j \in 1..Len(s)-i : b[j] = s[i+j]
  BY <1>1, SubSeqProperties
<1>4. Answer!RemoveAt(s, i) = a \o b
  BY DEF Answer!RemoveAt
<1> HIDE DEF a, b
<1> QED BY <1>1, <1>2, <1>3, <1>4, ConcatProperties, SMTT(30)

(* Taking an alert's answer out of a list leaves exactly the others.       *)
LEMMA WithoutElements ==
  ASSUME NEW S, NEW s \in Seq(S), OneEach(s), NEW a
  PROVE  /\ Answer!Without(s, a) \in Seq(S)
         /\ OneEach(Answer!Without(s, a))
         /\ Elems(Answer!Without(s, a)) = {x \in Elems(s) : x.alert # a}
<1>1. CASE ~ \E i \in DOMAIN s : s[i].alert = a
  BY <1>1 DEF Answer!Without, Elems
<1>2. CASE \E i \in DOMAIN s : s[i].alert = a
  <2>1. PICK i \in DOMAIN s : s[i].alert = a /\ Answer!Without(s, a) = Answer!RemoveAt(s, i)
    BY <1>2 DEF Answer!Without
  <2> DEFINE w == Answer!Without(s, a)
  <2>2. /\ w \in Seq(S)
        /\ DOMAIN w = 1..Len(s)-1
        /\ \A j \in 1..Len(s)-1 : w[j] = IF j < i THEN s[j] ELSE s[j+1]
    BY <2>1, RemoveAtElements
  <2>3. DOMAIN s = 1..Len(s) /\ Len(s) \in Nat
    OBVIOUS
  <2> HIDE DEF w
  <2>4. \A k \in DOMAIN s \ {i} : \E j \in DOMAIN w : w[j] = s[k]
    <3> SUFFICES ASSUME NEW k \in DOMAIN s \ {i} PROVE \E j \in DOMAIN w : w[j] = s[k]
      OBVIOUS
    <3>1. CASE k < i
      BY <2>2, <2>3, <3>1
    <3>2. CASE k > i
      <4>1. k-1 \in 1..Len(s)-1 /\ w[k-1] = s[k]
        BY <2>2, <2>3, <3>2
      <4> QED BY <2>2, <4>1
    <3> QED BY <2>3, <3>1, <3>2
  <2>5. \A j \in DOMAIN w : \E k \in DOMAIN s \ {i} : w[j] = s[k]
    <3> SUFFICES ASSUME NEW j \in DOMAIN w PROVE \E k \in DOMAIN s \ {i} : w[j] = s[k]
      OBVIOUS
    <3>1. CASE j < i
      BY <2>2, <2>3, <3>1
    <3>2. CASE j >= i
      <4>1. j+1 \in DOMAIN s \ {i} /\ w[j] = s[j+1]
        BY <2>2, <2>3, <3>2
      <4> QED BY <4>1
    <3> QED BY <2>2, <2>3, <3>1, <3>2
  <2>6. \A k \in DOMAIN s \ {i} : s[k].alert # a
    BY <2>1 DEF OneEach
  <2>7. Elems(w) = {x \in Elems(s) : x.alert # a}
    BY <2>1, <2>4, <2>5, <2>6 DEF Elems
  <2>8. OneEach(w)
    <3> DEFINE earlier(j) == IF j < i THEN j ELSE j+1
    <3>1. \A j \in DOMAIN w : earlier(j) \in DOMAIN s /\ w[j] = s[earlier(j)]
      BY <2>2, <2>3
    <3>2. \A j, k \in DOMAIN w : earlier(j) = earlier(k) => j = k
      BY <2>2, <2>3
    <3> HIDE DEF earlier
    <3> QED BY <3>1, <3>2 DEF OneEach
  <2> QED BY <2>2, <2>7, <2>8 DEF w
<1> QED BY <1>1, <1>2

LEMMA WithoutType ==
  ASSUME NEW S, NEW s \in Seq(S), NEW a
  PROVE  Answer!Without(s, a) \in Seq(S)
BY RemoveAtElements DEF Answer!Without

LEMMA EnqueuedElements ==
  ASSUME NEW S, NEW s \in Seq(S), OneEach(s), NEW x \in S
  PROVE  /\ Answer!Enqueued(s, x) \in Seq(S)
         /\ OneEach(Answer!Enqueued(s, x))
         /\ Elems(Answer!Enqueued(s, x)) = {y \in Elems(s) : y.alert # x.alert} \cup {x}
<1> DEFINE w == Answer!Without(s, x.alert)
           e == Append(w, x)
<1>1. w \in Seq(S) /\ OneEach(w) /\ Elems(w) = {y \in Elems(s) : y.alert # x.alert}
  BY WithoutElements
<1>2. Answer!Enqueued(s, x) = e
  BY DEF Answer!Enqueued
<1> HIDE DEF w
<1>3. /\ e \in Seq(S) /\ Len(e) = Len(w) + 1 /\ e[Len(w) + 1] = x
      /\ \A i \in 1..Len(w) : e[i] = w[i]
  BY <1>1, AppendProperties
<1> HIDE DEF e
<1>4. DOMAIN e = DOMAIN w \cup {Len(w) + 1} /\ DOMAIN w = 1..Len(w) /\ Len(w) \in Nat
  BY <1>1, <1>3
<1>5. \A i \in DOMAIN w : w[i] \in Elems(w) /\ w[i].alert # x.alert
  BY <1>1 DEF Elems
<1>6. OneEach(e)
  BY <1>1, <1>3, <1>4, <1>5 DEF OneEach
<1>7. Elems(e) = Elems(w) \cup {x}
  BY <1>3, <1>4 DEF Elems
<1> QED BY <1>1, <1>2, <1>3, <1>6, <1>7

(* The head of a list and its tail.                                        *)
LEMMA TailElements ==
  ASSUME NEW S, NEW s \in Seq(S), s # <<>>, OneEach(s)
  PROVE  /\ Tail(s) \in Seq(S) /\ Head(s) \in S
         /\ OneEach(Tail(s))
         /\ Head(s) \in Elems(s)
         /\ Elems(Tail(s)) = {x \in Elems(s) : x.alert # Head(s).alert}
<1>1. /\ Head(s) = s[1] /\ Tail(s) \in Seq(S) /\ Len(Tail(s)) = Len(s)-1
      /\ \A i \in 1..Len(s)-1 : Tail(s)[i] = s[i+1]
  BY HeadTailProperties
<1>2. DOMAIN s = 1..Len(s) /\ DOMAIN Tail(s) = 1..Len(s)-1 /\ 1 \in DOMAIN s /\ Len(s) \in Nat
  BY <1>1, EmptySeq
<1>3. OneEach(Tail(s))
  BY <1>1, <1>2 DEF OneEach
<1>4. \A k \in DOMAIN s : k # 1 => k-1 \in DOMAIN Tail(s) /\ Tail(s)[k-1] = s[k]
  BY <1>1, <1>2
<1>5. \A j \in DOMAIN Tail(s) : j+1 \in DOMAIN s /\ j+1 # 1 /\ Tail(s)[j] = s[j+1]
  BY <1>1, <1>2
<1>6. \A k \in DOMAIN s : k # 1 => s[k].alert # s[1].alert
  BY <1>2 DEF OneEach
<1>7. Elems(Tail(s)) \subseteq {x \in Elems(s) : x.alert # Head(s).alert}
  BY <1>1, <1>5, <1>6 DEF Elems
<1>8. {x \in Elems(s) : x.alert # Head(s).alert} \subseteq Elems(Tail(s))
  <2> SUFFICES ASSUME NEW k \in DOMAIN s, s[k].alert # s[1].alert PROVE s[k] \in Elems(Tail(s))
    BY <1>1 DEF Elems
  <2>1. k-1 \in DOMAIN Tail(s) /\ Tail(s)[k-1] = s[k]
    BY <1>4
  <2> QED BY <2>1 DEF Elems
<1> QED BY <1>1, <1>2, <1>3, <1>7, <1>8 DEF Elems

-----------------------------------------------------------------------------
(* The queue.                                                              *)

QueueTypes ==
  /\ Answer!TypeOK
  /\ retry \in [on : BOOLEAN, todo : Seq(Answer!Answers), now : Answer!Answers \cup {None}]

(* What is under way but for the answers just sent.                        *)
Held == Elems(stored) \cup Elems(retry.todo) \cup ({retry.now} \ {None})

(* Unless an alert was answered twice at once, all that is under way to it *)
(* is one and the same answer: the list's removals by alert then take out  *)
(* the answer they mean.                                                   *)
QueueInv ==
  /\ OneEach(stored) /\ OneEach(retry.todo)
  /\ sending \cap Held = {}
  /\ \A x \in sending \cup Held \cup promised : x.n <= answers
  /\ \A x, y \in sending \cup Held : x.alert = y.alert => x = y \/ x.alert \in crossed
  /\ Answer!PromiseHeld

LEMMA QueueConstantsHold ==
  /\ MaxAnswers \in Nat /\ MaxBreaks \in Nat /\ MaxRestarts \in Nat
  /\ None \notin Answer!Answers
BY ServicesAssumption DEF Answer!QueueConstants, Answer!Answers

LEMMA EmptyType == <<>> \in Seq(Answer!Answers)
BY EmptySeq

LEMMA EmptyList == OneEach(<<>>) /\ Elems(<<>>) = {}
BY DEF OneEach, Elems

LEMMA UnderWayParts == Answer!UnderWay = sending \cup Held
BY DEF Answer!UnderWay, Answer!Elements, Elems, Held

LEMMA ElemsType == ASSUME NEW S, NEW s \in Seq(S) PROVE Elems(s) \subseteq S
BY ElementOfSeq DEF Elems

LEMMA UnderWayTypes ==
  ASSUME QueueTypes
  PROVE  /\ sending \cup Held \cup promised \subseteq Answer!Answers
         /\ \A x \in Answer!Answers : x.alert \in Alerts /\ x.n \in Int
         /\ \A a \in Alerts : replied[a] \in Int
         /\ answers \in Int
<1>1. Elems(stored) \subseteq Answer!Answers /\ Elems(retry.todo) \subseteq Answer!Answers
  BY ElemsType DEF QueueTypes, Answer!TypeOK
<1> QED BY <1>1, QueueConstantsHold DEF QueueTypes, Answer!TypeOK, Held, Answer!Answers

LEMMA HeldPromise ==
  Answer!PromiseHeld <=>
    \A x \in promised :
      \/ x \in Elems(stored)
      \/ x.alert \in crossed /\ (x.n <= replied[x.alert] \/ \E y \in Elems(stored) : y.alert = x.alert)
BY DEF Answer!PromiseHeld, Answer!InList, Answer!Elements, Elems

LEMMA HeldPromiseNext ==
  Answer!PromiseHeld' <=>
    \A x \in promised' :
      \/ x \in Elems(stored')
      \/ x.alert \in crossed' /\ (x.n <= replied'[x.alert] \/ \E y \in Elems(stored') : y.alert = x.alert)
BY DEF Answer!PromiseHeld, Answer!InList, Answer!Elements, Elems

(* Steps that bring nothing new under way.                                 *)
LEMMA QueueRest ==
  ASSUME QueueInv, Answer!PromiseHeld',
         OneEach(stored'), OneEach(retry'.todo), sending' \subseteq sending, Held' \subseteq Held,
         promised' \subseteq promised, UNCHANGED <<answers, crossed>>
  PROVE  QueueInv'
BY DEF QueueInv

(* The server's reply takes the alert's answer out of the list.            *)
LEMMA RemovedPromise ==
  ASSUME QueueTypes, QueueInv, NEW a \in Alerts, stored' = Answer!Without(stored, a),
         Answer!Replies(a), promised' \subseteq promised, crossed' = crossed,
         \A y \in promised' : y.alert = a => a \in crossed
  PROVE  /\ Answer!PromiseHeld'
         /\ OneEach(stored') /\ Elems(stored') \subseteq Elems(stored)
<1>1. OneEach(stored') /\ Elems(stored') = {y \in Elems(stored) : y.alert # a}
  BY WithoutElements DEF QueueInv, QueueTypes, Answer!TypeOK
<1>2. replied' = [replied EXCEPT ![a] = answers]
  BY DEF Answer!Replies
<1>3. ASSUME NEW y \in promised'
      PROVE  \/ y \in Elems(stored')
             \/ y.alert \in crossed' /\ (y.n <= replied'[y.alert] \/ \E z \in Elems(stored') : z.alert = y.alert)
  <2>1. y \in promised /\ y.alert \in Alerts
    BY UnderWayTypes
  <2>2. CASE y.alert = a
    <3>1. y.n <= answers /\ replied'[a] = answers
      BY <1>2, <2>1 DEF QueueInv, QueueTypes, Answer!TypeOK
    <3> QED BY <2>2, <3>1
  <2>3. CASE y.alert # a
    <3>1. replied'[y.alert] = replied[y.alert]
      BY <1>2, <2>1, <2>3 DEF QueueTypes, Answer!TypeOK
    <3>2. \/ y \in Elems(stored)
          \/ y.alert \in crossed /\ (y.n <= replied[y.alert] \/ \E z \in Elems(stored) : z.alert = y.alert)
      BY <2>1, HeldPromise DEF QueueInv
    <3> QED BY <1>1, <2>3, <3>1, <3>2
  <2> QED BY <2>2, <2>3
<1> QED BY <1>1, <1>3, HeldPromiseNext

LEMMA QueueInit == Answer!Init => QueueTypes /\ QueueInv
<1> SUFFICES ASSUME Answer!Init PROVE QueueTypes /\ QueueInv
  OBVIOUS
<1>1. Answer!Idle \in [on : BOOLEAN, todo : Seq(Answer!Answers), now : Answer!Answers \cup {None}]
  BY EmptyType DEF Answer!Idle
<1>2. {0} \subseteq 0..MaxAnswers /\ {0} \subseteq 0..MaxBreaks /\ {0} \subseteq 0..MaxRestarts
  BY QueueConstantsHold
<1>3. QueueTypes
  BY <1>1, <1>2, EmptyType DEF Answer!Init, Answer!TypeOK, QueueTypes
<1>4. QueueInv
  <2>1. Held = {} /\ sending = {} /\ promised = {}
    BY EmptyList DEF Answer!Init, Answer!Idle, Held
  <2> QED BY <2>1, EmptyList, HeldPromise DEF Answer!Init, Answer!Idle, QueueInv
<1> QED BY <1>3, <1>4

LEMMA RepliesType ==
  ASSUME QueueTypes, NEW x \in Answer!Answers, Answer!Replies(x.alert)
  PROVE  replied' \in [Alerts -> 0..MaxAnswers]
BY DEF Answer!Replies, QueueTypes, Answer!TypeOK

LEMMA QueueTypesNext == QueueTypes /\ [Answer!Next]_(Answer!vars) => QueueTypes'
<1> SUFFICES ASSUME QueueTypes, [Answer!Next]_(Answer!vars) PROVE QueueTypes'
  OBVIOUS
<1> USE QueueConstantsHold DEF QueueTypes, Answer!TypeOK
<1>1. ASSUME NEW a \in Alerts, Answer!Submit(a) PROVE QueueTypes'
  <2>1. [alert |-> a, n |-> answers + 1] \in Answer!Answers /\ answers + 1 \in 0..MaxAnswers
    BY <1>1 DEF Answer!Submit, Answer!Answers
  <2> QED BY <1>1, <2>1 DEF Answer!Submit
<1>2. ASSUME NEW x \in sending, Answer!SubmitDone(x) PROVE QueueTypes'
  BY <1>2, WithoutType, RepliesType DEF Answer!SubmitDone
<1>3. ASSUME NEW x \in sending, Answer!SubmitBreaks(x) PROVE QueueTypes'
  <2>1. Answer!Enqueued(stored, x) \in Seq(Answer!Answers)
    BY WithoutType DEF Answer!Enqueued
  <2>2. x.alert \in Alerts /\ breaks + 1 \in 0..MaxBreaks
    BY <1>3 DEF Answer!SubmitBreaks, Answer!Answers
  <2> QED BY <1>3, <2>1, <2>2 DEF Answer!SubmitBreaks, Answer!Kept
<1>4. ASSUME NEW x \in sending, Answer!SubmitRefused(x) PROVE QueueTypes'
  BY <1>4, RepliesType DEF Answer!SubmitRefused
<1>14. ASSUME NEW x \in sending, Answer!SubmitFails(x) PROVE QueueTypes'
  BY <1>14 DEF Answer!SubmitFails
<1>5. CASE Answer!RetryStart
  BY <1>5 DEF Answer!RetryStart
<1>6. CASE Answer!RetryNext
  <2>1. retry.todo # <<>> => Tail(retry.todo) \in Seq(Answer!Answers) /\ Head(retry.todo) \in Answer!Answers
    BY HeadTailProperties
  <2>2. CASE retry.todo = <<>> \/ offline
    BY <1>6, <2>2, EmptyType DEF Answer!RetryNext, Answer!Idle
  <2>3. CASE retry.todo # <<>> /\ ~offline
    <3>1. retry' = [retry EXCEPT !.todo = Tail(@), !.now = Head(retry.todo)]
      BY <1>6, <2>3 DEF Answer!RetryNext
    <3>2. retry' \in [on : BOOLEAN, todo : Seq(Answer!Answers), now : Answer!Answers \cup {None}]
      BY <2>1, <2>3, <3>1
    <3> QED BY <1>6, <3>2 DEF Answer!RetryNext
  <2> QED BY <2>2, <2>3
<1>7. CASE Answer!RetryDone
  BY <1>7, WithoutType, RepliesType DEF Answer!RetryDone
<1>8. CASE Answer!RetryRefused
  BY <1>8, WithoutType, RepliesType DEF Answer!RetryRefused
<1>9. CASE Answer!RetryBreaks
  BY <1>9 DEF Answer!RetryBreaks, Answer!Idle
<1>10. CASE Answer!GoOffline
  BY <1>10 DEF Answer!GoOffline
<1>11. CASE Answer!GoOnline
  BY <1>11 DEF Answer!GoOnline, Answer!Reconnected
<1>12. CASE Answer!Restart
  <2>1. \A i \in DOMAIN stored : stored[i] \in Answer!Answers
    BY ElementOfSeq
  <2>2. {stored[i].alert : i \in DOMAIN stored} \subseteq Alerts
    BY <2>1 DEF Answer!Answers
  <2> QED BY <1>12, <2>2, EmptyType DEF Answer!Restart, Answer!Idle
<1>13. CASE UNCHANGED Answer!vars
  BY <1>13 DEF Answer!vars
<1> QED
  BY <1>1, <1>2, <1>3, <1>4, <1>5, <1>6, <1>7, <1>8, <1>9, <1>10, <1>11, <1>12, <1>13,
     <1>14 DEF Answer!Next, Answer!RetryStep

LEMMA QueueNext ==
  ASSUME QueueTypes, QueueInv, [Answer!Next]_(Answer!vars)
  PROVE  QueueInv'
<1>0. /\ stored \in Seq(Answer!Answers) /\ sending \subseteq Answer!Answers /\ crossed \subseteq Alerts
      /\ retry \in [on : BOOLEAN, todo : Seq(Answer!Answers), now : Answer!Answers \cup {None}]
      /\ None \notin Answer!Answers
  BY QueueConstantsHold DEF QueueTypes, Answer!TypeOK
<1>1. ASSUME NEW a \in Alerts, Answer!Submit(a) PROVE QueueInv'
  <2> DEFINE x == [alert |-> a, n |-> answers + 1]
  <2>1. sending' = sending \cup {x} /\ answers' = answers + 1 /\ Held' = Held
        /\ UNCHANGED <<stored, retry, promised, replied>>
    BY <1>1 DEF Answer!Submit, Held
  <2>2. crossed \subseteq crossed' /\ \A y \in sending \cup Held : y.alert = a => a \in crossed'
    BY <1>1, UnderWayParts DEF Answer!Submit
  <2>3. \A y \in sending \cup Held \cup promised : y.n \in Int /\ y.n <= answers /\ answers \in Int
    BY UnderWayTypes DEF QueueInv
  <2>4. x \notin Held /\ x.n = answers + 1 /\ x.alert = a
    BY <2>3
  <2>5. Answer!PromiseHeld'
    BY <2>1, <2>2, HeldPromise, HeldPromiseNext DEF QueueInv
  <2>6. \A y \in sending' \cup Held' \cup promised' : y.n <= answers'
    BY <2>1, <2>3, <2>4
  <2>7. \A y, z \in sending' \cup Held' : y.alert = z.alert => y = z \/ y.alert \in crossed'
    <3> SUFFICES ASSUME NEW y \in sending' \cup Held', NEW z \in sending' \cup Held', y.alert = z.alert, y # z
                 PROVE  y.alert \in crossed'
      OBVIOUS
    <3>1. CASE y \in sending \cup Held /\ z \in sending \cup Held
      BY <2>2, <3>1 DEF QueueInv
    <3>2. CASE y = x \/ z = x
      BY <2>1, <2>2, <2>4, <3>2
    <3> HIDE DEF x
    <3> QED BY <2>1, <3>1, <3>2
  <2> HIDE DEF x
  <2> QED BY <2>1, <2>4, <2>5, <2>6, <2>7 DEF QueueInv
<1>2. ASSUME NEW x \in sending, Answer!SubmitDone(x) PROVE QueueInv'
  <2>1. \A y \in promised : y.alert = x.alert => x.alert \in crossed
    <3> SUFFICES ASSUME NEW y \in promised, y.alert = x.alert, x.alert \notin crossed PROVE FALSE
      OBVIOUS
    <3>1. y \in Elems(stored)
      BY HeldPromise DEF QueueInv
    <3>2. y = x /\ y \in Held
      BY <3>1 DEF QueueInv, Held
    <3> QED BY <3>2 DEF QueueInv
  <2>2. x.alert \in Alerts
    BY UnderWayTypes
  <2>3. Answer!PromiseHeld' /\ OneEach(stored') /\ Elems(stored') \subseteq Elems(stored)
    BY <1>2, <2>1, <2>2, RemovedPromise DEF Answer!SubmitDone
  <2>4. retry' = retry /\ Held' \subseteq Held
    BY <1>2, <2>3 DEF Answer!SubmitDone, Held
  <2> QED BY <1>2, <2>3, <2>4, QueueRest DEF Answer!SubmitDone, QueueInv
<1>3. ASSUME NEW x \in sending, Answer!SubmitBreaks(x) PROVE QueueInv'
  <2>1. x \in Answer!Answers /\ stored' = Answer!Enqueued(stored, x) /\ retry' = retry
        /\ sending' = sending \ {x} /\ promised' \subseteq promised \cup {x}
        /\ UNCHANGED <<crossed, replied, answers>>
    BY <1>0, <1>3 DEF Answer!SubmitBreaks, Answer!Kept
  <2>2. OneEach(stored') /\ Elems(stored') = {y \in Elems(stored) : y.alert # x.alert} \cup {x}
    <3>1. OneEach(stored)
      BY DEF QueueInv
    <3>2. /\ OneEach(Answer!Enqueued(stored, x))
          /\ Elems(Answer!Enqueued(stored, x)) = {y \in Elems(stored) : y.alert # x.alert} \cup {x}
      <4> DEFINE S == Answer!Answers
      <4>1. stored \in Seq(S) /\ x \in S
        BY <1>0, <2>1
      <4> HIDE DEF S
      <4> QED BY ONLY <3>1, <4>1, EnqueuedElements
    <3>3. stored' = Answer!Enqueued(stored, x)
      BY <2>1
    <3> QED BY <3>2, <3>3
  <2>3. Held' \subseteq Held \cup {x}
    BY <2>1, <2>2 DEF Held
  <2>4. ASSUME NEW y \in promised'
        PROVE  \/ y \in Elems(stored')
               \/ y.alert \in crossed' /\ (y.n <= replied'[y.alert] \/ \E z \in Elems(stored') : z.alert = y.alert)
    <3>1. CASE y = x
      BY <2>2, <3>1
    <3>2. CASE y # x /\ y.alert = x.alert
      <4>1. CASE y \in Elems(stored)
        <5>1. x.alert \in crossed
          BY <3>2, <4>1 DEF QueueInv, Held
        <5> QED BY <2>1, <2>2, <3>2, <5>1
      <4>2. CASE y \notin Elems(stored)
        <5>1. y.alert \in crossed
          BY <2>1, <3>2, <4>2, HeldPromise DEF QueueInv
        <5> QED BY <2>1, <2>2, <3>2, <5>1
      <4> QED BY <4>1, <4>2
    <3>3. CASE y.alert # x.alert
      <4>1. \/ y \in Elems(stored)
            \/ y.alert \in crossed /\ (y.n <= replied[y.alert] \/ \E z \in Elems(stored) : z.alert = y.alert)
        BY <2>1, <3>3, HeldPromise DEF QueueInv
      <4> QED BY <2>1, <2>2, <3>3, <4>1
    <3> QED BY <3>1, <3>2, <3>3
  <2>5. Answer!PromiseHeld'
    BY <2>4, HeldPromiseNext
  <2>6. sending' \cap Held' = {} /\ sending' \cup Held' \subseteq sending \cup Held
    BY <2>1, <2>3 DEF QueueInv
  <2>7. sending' \cup Held' \cup promised' \subseteq sending \cup Held \cup promised
    BY <2>1, <2>6
  <2>8. OneEach(retry'.todo)
    BY <2>1 DEF QueueInv
  <2>9. \A y, z \in sending' \cup Held' : y.alert = z.alert => y = z \/ y.alert \in crossed'
    BY <2>1, <2>6 DEF QueueInv
  <2>10. \A y \in sending' \cup Held' \cup promised' : y.n <= answers'
    BY <2>1, <2>7 DEF QueueInv
  <2> QED BY <2>2, <2>5, <2>6, <2>8, <2>9, <2>10 DEF QueueInv
<1>4. ASSUME NEW x \in sending, Answer!SubmitRefused(x) PROVE QueueInv'
  <2>1. replied' = [replied EXCEPT ![x.alert] = answers] /\ x.alert \in Alerts
    BY <1>4, UnderWayTypes DEF Answer!SubmitRefused, Answer!Replies
  <2>2. \A a \in Alerts : replied'[a] = (IF a = x.alert THEN answers ELSE replied[a])
    BY <2>1 DEF QueueTypes, Answer!TypeOK
  <2>3. \A y \in promised : y.alert \in Alerts /\ y.n <= answers
    BY UnderWayTypes DEF QueueInv
  <2>4. UNCHANGED <<stored, retry, promised, crossed, answers>> /\ Held' = Held
    BY <1>4 DEF Answer!SubmitRefused, Held
  <2>5. Answer!PromiseHeld'
    BY <2>2, <2>3, <2>4, HeldPromise, HeldPromiseNext DEF QueueInv
  <2> QED BY <1>4, <2>4, <2>5, QueueRest DEF Answer!SubmitRefused, QueueInv
<1>5. ASSUME UNCHANGED <<stored, promised, crossed, replied, answers>>, sending' \subseteq sending,
             OneEach(retry'.todo), Held' \subseteq Held
      PROVE  QueueInv'
  <2>1. Answer!PromiseHeld'
    BY <1>5, HeldPromise, HeldPromiseNext DEF QueueInv
  <2> QED BY <1>5, <2>1, QueueRest DEF QueueInv
<1>6. ASSUME NEW x \in sending, Answer!SubmitFails(x) PROVE QueueInv'
  <2>1. Held' = Held
    BY <1>6 DEF Answer!SubmitFails, Held
  <2> QED BY <1>5, <1>6, <2>1 DEF Answer!SubmitFails, QueueInv
<1>7. CASE Answer!RetryStart
  <2>1. retry' = [on |-> TRUE, todo |-> stored, now |-> None] /\ stored' = stored
    BY <1>7 DEF Answer!RetryStart
  <2>2. Held' = Elems(stored) /\ OneEach(retry'.todo)
    BY <2>1 DEF Held, QueueInv
  <2>3. Held' \subseteq Held
    BY <2>2 DEF Held
  <2> QED BY <1>5, <1>7, <2>2, <2>3 DEF Answer!RetryStart
<1>8. CASE Answer!RetryNext
  <2>1. CASE retry.todo = <<>> \/ offline
    <3>1. retry' = Answer!Idle /\ stored' = stored
      BY <1>8, <2>1 DEF Answer!RetryNext
    <3>2. OneEach(retry'.todo) /\ Held' \subseteq Held
      BY <3>1, EmptyList DEF Answer!Idle, Held
    <3> QED BY <1>5, <1>8, <3>2 DEF Answer!RetryNext
  <2>2. CASE retry.todo # <<>> /\ ~offline
    <3>1. retry'.todo = Tail(retry.todo) /\ retry'.now = Head(retry.todo) /\ stored' = stored
      BY <1>0, <1>8, <2>2 DEF Answer!RetryNext
    <3>2. /\ OneEach(Tail(retry.todo)) /\ Head(retry.todo) \in Elems(retry.todo)
          /\ Elems(Tail(retry.todo)) = {y \in Elems(retry.todo) : y.alert # Head(retry.todo).alert}
      BY <1>0, <2>2, TailElements DEF QueueInv
    <3>3. Held' \subseteq Held
      BY <3>1, <3>2 DEF Held
    <3> QED BY <1>5, <1>8, <3>1, <3>2, <3>3 DEF Answer!RetryNext
  <2> QED BY <2>1, <2>2
<1>9. CASE Answer!RetryDone \/ Answer!RetryRefused
  <2> DEFINE x == retry.now
  <2>1. /\ x \in Answer!Answers /\ x \in Held
        /\ stored' = Answer!Without(stored, x.alert) /\ Answer!Replies(x.alert)
        /\ promised' \subseteq promised \ {x}
        /\ retry'.now = None /\ retry'.todo = retry.todo
        /\ UNCHANGED <<sending, crossed, answers>>
    BY <1>0, <1>9 DEF Answer!RetryDone, Answer!RetryRefused, Held
  <2> HIDE DEF x
  <2>2. \A y \in promised' : y.alert = x.alert => x.alert \in crossed
    <3> SUFFICES ASSUME NEW y \in promised', y.alert = x.alert, x.alert \notin crossed PROVE FALSE
      OBVIOUS
    <3>1. y \in Elems(stored) /\ y # x
      BY <2>1, HeldPromise DEF QueueInv
    <3> QED BY <2>1, <3>1 DEF QueueInv, Held
  <2>3. x.alert \in Alerts
    BY <2>1, UnderWayTypes
  <2>4. Answer!PromiseHeld' /\ OneEach(stored') /\ Elems(stored') \subseteq Elems(stored)
    BY <2>1, <2>2, <2>3, RemovedPromise
  <2>5. Held' \subseteq Held
    BY <2>1, <2>4 DEF Held
  <2> QED BY <2>1, <2>4, <2>5, QueueRest DEF QueueInv
<1>10. CASE Answer!RetryBreaks
  <2>1. retry' = Answer!Idle /\ stored' = stored
    BY <1>10 DEF Answer!RetryBreaks
  <2>2. OneEach(retry'.todo) /\ Held' \subseteq Held
    BY <2>1, EmptyList DEF Answer!Idle, Held
  <2> QED BY <1>5, <1>10, <2>2 DEF Answer!RetryBreaks
<1>11. CASE Answer!GoOffline \/ Answer!GoOnline \/ UNCHANGED Answer!vars
  <2>1. UNCHANGED <<stored, promised, crossed, replied, answers, sending, retry>>
    BY <1>11 DEF Answer!GoOffline, Answer!GoOnline, Answer!vars
  <2>2. Held' = Held
    BY <2>1 DEF Held
  <2> QED BY <1>5, <2>1, <2>2 DEF QueueInv
<1>12. CASE Answer!Restart
  <2>1. retry' = Answer!Idle /\ stored' = stored /\ sending' = {}
    BY <1>12 DEF Answer!Restart
  <2>2. OneEach(retry'.todo) /\ Held' \subseteq Held
    BY <2>1, EmptyList DEF Answer!Idle, Held
  <2> QED BY <1>5, <1>12, <2>1, <2>2 DEF Answer!Restart
<1> QED
  BY <1>1, <1>2, <1>3, <1>4, <1>6, <1>7, <1>8, <1>9, <1>10, <1>11, <1>12 DEF Answer!Next, Answer!RetryStep

(* Steps of the composition are steps of the queue or leave it alone.      *)
LEMMA AnswerSteps == [Next]_vars => [Answer!Next]_(Answer!vars)
BY DEF Next, vars, answerVars, Answer!vars

(* An answer the user was told is kept stays in the list until the server  *)
(* has it, the user is asked again or gives a newer one; for an alert that *)
(* was answered twice at once, until the server has replied to one of its  *)
(* answers or another one is kept in its place.                            *)
THEOREM PromisedAlwaysKept == Spec => []PromiseHeld
<1>1. Init => QueueTypes /\ QueueInv
  BY QueueInit DEF Init
<1>2. QueueTypes /\ QueueInv /\ [Next]_vars => QueueTypes' /\ QueueInv'
  BY QueueTypesNext, QueueNext, AnswerSteps
<1>3. QueueInv => PromiseHeld
  BY DEF QueueInv, PromiseHeld
<1> QED BY <1>1, <1>2, <1>3, PTL DEF Spec

-----------------------------------------------------------------------------
(* The copy of the profile.                                                *)

(* A push sends what was on the screen when it began, and of that only     *)
(* what the user edited, unless an older state was put over the copy.      *)
SendsEdits ==
  /\ older \/ Sync!ChangedFields \subseteq owed
  /\ push.at = "patch" =>
       /\ push.fields \subseteq push.free
       /\ older \/ \A f \in Fields : screen[f] # push.patch[f] => f \in owed

(* What the push under way does not carry was edited while it ran, and     *)
(* what a pull past its check overwrites is that, or is exposed to it.     *)
EditsMarked ==
  /\ dirty \/ owed \subseteq late
  /\ push.at = "patch" => \A f \in owed : screen[f] # push.patch[f] => f \in late
  /\ push.at = "put" => owed \subseteq late
  /\ \A p \in Pulls : Sync!PastCheck(p) => owed \subseteq late \cup pull[p].exposed

CopyInv == SendsEdits /\ EditsMarked

LEMMA SyncConstantsHold ==
  /\ AiFields \subseteq Fields /\ None \notin Values /\ Values # {}
  /\ MaxEdits \in Nat /\ MaxAiEdits \in Nat /\ MaxFailures \in Nat /\ MaxStarts \in Nat
BY ServicesAssumption DEF Sync!SyncConstants

PushTypes ==
  [at : {"none", "patch", "put"}, patch : Sync!Profiles \cup {None},
   fields : SUBSET Fields, free : SUBSET Fields]

PullTypes ==
  [at : {"none", "app", "appApply", "appWait", "fullWait", "profile", "wait", "get", "apply"},
   got : Sync!Profiles \cup {None}, exposed : SUBSET Fields]

(* What a pull has been sent is there, and so is what a push sends.        *)
CopyTypes ==
  /\ Sync!TypeOK
  /\ Sync!Pushing <=> push.at # "none"
  /\ push.at = "patch" => push.patch \in Sync!Profiles
  /\ \A p \in Pulls : pull[p].at = "apply" => pull[p].got \in Sync!Profiles

LEMMA CopyParts ==
  Sync!TypeOK <=>
    /\ screen \in Sync!Profiles /\ base \in Sync!Profiles /\ profile \in Sync!Profiles
    /\ snapshot \in Sync!Profiles \cup {None}
    /\ dirty \in BOOLEAN /\ patched \in BOOLEAN /\ timer \in BOOLEAN /\ older \in BOOLEAN
    /\ push \in PushTypes /\ pull \in [Pulls -> PullTypes]
    /\ owed \subseteq Fields /\ late \subseteq Fields
    /\ edits \in 0..MaxEdits /\ aiEdits \in 0..MaxAiEdits
    /\ failures \in 0..MaxFailures /\ starts \in 0..MaxStarts
BY DEF Sync!TypeOK, PushTypes, PullTypes

LEMMA NothingTypes ==
  /\ Sync!NoPush \in PushTypes /\ Sync!NoPush.at = "none" /\ Sync!NoPull \in PullTypes
  /\ Sync!NoPull.at = "none" /\ Sync!NoPull.exposed = {}
  /\ [Sync!NoPull EXCEPT !.at = "none"] = Sync!NoPull
BY DEF Sync!NoPush, Sync!NoPull, PushTypes, PullTypes

LEMMA CopyInit == Sync!Init => CopyTypes /\ CopyInv
<1> SUFFICES ASSUME Sync!Init PROVE CopyTypes /\ CopyInv
  OBVIOUS
<1>1. {0} \subseteq 0..MaxEdits /\ {0} \subseteq 0..MaxAiEdits /\ {0} \subseteq 0..MaxFailures
      /\ {0} \subseteq 0..MaxStarts
  BY SyncConstantsHold
<1>2. push = Sync!NoPush /\ pull = [p \in Pulls |-> Sync!NoPull] /\ pull \in [Pulls -> PullTypes]
  BY NothingTypes DEF Sync!Init
<1>3. Sync!TypeOK
  BY <1>1, <1>2, NothingTypes, CopyParts DEF Sync!Init
<1>4. CopyTypes
  BY <1>2, <1>3, NothingTypes DEF CopyTypes, Sync!Pushing
<1>5. CopyInv
  BY <1>2, NothingTypes DEF Sync!Init, CopyInv, SendsEdits, EditsMarked, Sync!ChangedFields, Sync!PastCheck
<1> QED BY <1>4, <1>5

(* The push that begins.                                                   *)
LEMMA StartedTypes ==
  ASSUME CopyTypes, NEW full \in BOOLEAN
  PROVE  /\ Sync!StartedPush(full) \in PushTypes
         /\ Sync!StartedPush(full).at = "patch" /\ Sync!StartedPush(full).patch = screen
         /\ Sync!StartedPush(full).fields = (IF full THEN Fields ELSE Sync!ChangedFields)
         /\ Sync!StartedPush(full).free = (IF full \/ older THEN Fields ELSE owed)
BY CopyParts DEF Sync!StartedPush, Sync!ChangedFields, PushTypes, CopyTypes

(* A step that begins a push, or joins the one under way.                  *)
LEMMA BegunTypes ==
  ASSUME CopyTypes, Sync!BeginPush
  PROVE  push' \in PushTypes /\ push'.at # "none" /\ Sync!Pushing'
         /\ (push'.at = "patch" => push'.patch \in Sync!Profiles)
<1>1. CASE Sync!Pushing
  BY <1>1, CopyParts DEF Sync!BeginPush, CopyTypes, Sync!Pushing
<1>2. CASE ~Sync!Pushing
  BY <1>2, StartedTypes, CopyParts, NothingTypes DEF Sync!BeginPush, CopyTypes, Sync!Pushing
<1> QED BY <1>1, <1>2

LEMMA BegunInv ==
  ASSUME CopyTypes, CopyInv, Sync!BeginPush, UNCHANGED <<screen, base, owed, late, older>>
  PROVE  /\ SendsEdits'
         /\ push'.at = "patch" => \A f \in owed : screen[f] # push'.patch[f] => f \in late
         /\ push'.at = "put" => owed \subseteq late
<1>1. CASE Sync!Pushing
  <2>1. push' = push
    BY <1>1 DEF Sync!BeginPush
  <2> QED BY <2>1 DEF CopyInv, SendsEdits, EditsMarked, Sync!ChangedFields
<1>2. CASE ~Sync!Pushing
  <2>1. push' = Sync!StartedPush(FALSE)
    BY <1>2 DEF Sync!BeginPush
  <2>2. push'.at = "patch" /\ push'.patch = screen /\ push'.fields = Sync!ChangedFields
        /\ push'.free = (IF older THEN Fields ELSE owed)
    BY <2>1, StartedTypes
  <2> QED BY <2>2 DEF CopyInv, SendsEdits, Sync!ChangedFields
<1> QED BY <1>1, <1>2

(* The end of a push.                                                      *)
LEMMA ResumedTypes ==
  ASSUME NEW q \in PullTypes, NEW unsent \in SUBSET Fields
  PROVE  /\ Sync!Resumed(q, unsent) \in PullTypes
         /\ Sync!Resumed(q, unsent).at = Sync!Awaited(q.at) /\ Sync!Resumed(q, unsent).got = q.got
         /\ Sync!Resumed(q, unsent).exposed = (IF q.at = "wait" THEN unsent ELSE q.exposed)
<1> DEFINE at == Sync!Awaited(q.at)
           exposed == IF q.at = "wait" THEN unsent ELSE q.exposed
<1>1. at \in {"none", "app", "appApply", "appWait", "fullWait", "profile", "wait", "get", "apply"}
  BY DEF Sync!Awaited, PullTypes
<1>2. Sync!Resumed(q, unsent) = [q EXCEPT !.at = at, !.exposed = exposed]
  BY DEF Sync!Resumed
<1>3. exposed \in SUBSET Fields
  BY DEF PullTypes
<1> HIDE DEF at, exposed
<1>4. /\ Sync!Resumed(q, unsent) \in PullTypes /\ Sync!Resumed(q, unsent).at = at
      /\ Sync!Resumed(q, unsent).got = q.got /\ Sync!Resumed(q, unsent).exposed = exposed
  BY <1>1, <1>2, <1>3 DEF PullTypes
<1> QED BY <1>4 DEF at, exposed

LEMMA EndsTypes ==
  ASSUME CopyTypes, NEW unsent \in SUBSET Fields, Sync!PushEnds(unsent)
  PROVE  /\ push' = Sync!NoPush /\ push' \in PushTypes /\ push'.at = "none" /\ ~Sync!Pushing'
         /\ pull' \in [Pulls -> PullTypes] /\ patched' \in BOOLEAN
         /\ \A p \in Pulls :
              /\ pull'[p].at = Sync!Awaited(pull[p].at) /\ pull'[p].got = pull[p].got
              /\ pull'[p].exposed = (IF pull[p].at = "wait" THEN unsent ELSE pull[p].exposed)
<1>1. push' = Sync!NoPush /\ pull' = [p \in Pulls |-> Sync!Resumed(pull[p], unsent)]
  BY DEF Sync!PushEnds
<1>2. patched' \in BOOLEAN
  <2>1. patched' = (patched \/ \E p \in Pulls : pull[p].at = "fullWait")
    BY DEF Sync!PushEnds
  <2> QED BY <2>1
<1>3. push' \in PushTypes /\ push'.at = "none" /\ ~Sync!Pushing'
  BY <1>1, NothingTypes DEF Sync!Pushing
<1>4. pull \in [Pulls -> PullTypes]
  BY CopyParts DEF CopyTypes
<1>5. \A p \in Pulls : pull[p] \in PullTypes /\ pull'[p] = Sync!Resumed(pull[p], unsent)
  BY <1>1, <1>4
<1>6. ASSUME NEW p \in Pulls
      PROVE  /\ pull'[p] \in PullTypes
             /\ pull'[p].at = Sync!Awaited(pull[p].at) /\ pull'[p].got = pull[p].got
             /\ pull'[p].exposed = (IF pull[p].at = "wait" THEN unsent ELSE pull[p].exposed)
  BY <1>5, ResumedTypes
<1>7. pull' \in [Pulls -> PullTypes]
  BY <1>1, <1>5, <1>6
<1> QED BY <1>1, <1>2, <1>3, <1>6, <1>7

LEMMA PullAtTypes ==
  ASSUME CopyTypes, NEW p \in Pulls,
         NEW at \in {"none", "app", "appWait", "fullWait", "profile", "wait", "get"}, Sync!PullAt(p, at)
  PROVE  /\ pull' \in [Pulls -> PullTypes]
         /\ pull'[p].at = at /\ pull'[p].exposed = {}
         /\ at = "none" => pull'[p] = Sync!NoPull
         /\ \A q \in Pulls \ {p} : pull'[q] = pull[q]
<1>1. pull \in [Pulls -> PullTypes] /\ pull' = [pull EXCEPT ![p] = [Sync!NoPull EXCEPT !.at = at]]
  BY CopyParts DEF CopyTypes, Sync!PullAt
<1>2. [Sync!NoPull EXCEPT !.at = at] \in PullTypes /\ [Sync!NoPull EXCEPT !.at = at].at = at
      /\ [Sync!NoPull EXCEPT !.at = at].exposed = {}
  BY DEF Sync!NoPull, PullTypes
<1> QED BY <1>1, <1>2, NothingTypes

LEMMA PatchedType ==
  ASSUME CopyTypes, push.at = "patch"
  PROVE  Sync!Patched \in Sync!Profiles
BY CopyParts DEF CopyTypes, Sync!Patched, Sync!Profiles

LEMMA ArrivedTypes ==
  ASSUME CopyTypes, Sync!MayArrive
  PROVE  profile' \in Sync!Profiles /\ snapshot' \in Sync!Profiles \cup {None}
BY PatchedType, CopyParts DEF CopyTypes, Sync!MayArrive, Sync!SavedState, Sync!server

LEMMA CopyTypesNext ==
  ASSUME CopyTypes, [Sync!Next]_(Sync!vars)
  PROVE  CopyTypes'
<1> DEFINE Rest ==
      /\ Sync!Pushing' <=> push'.at # "none"
      /\ push'.at = "patch" => push'.patch \in Sync!Profiles
      /\ \A p \in Pulls : pull'[p].at = "apply" => pull'[p].got \in Sync!Profiles
      Parts ==
      /\ screen' \in Sync!Profiles /\ base' \in Sync!Profiles /\ profile' \in Sync!Profiles
      /\ snapshot' \in Sync!Profiles \cup {None}
      /\ dirty' \in BOOLEAN /\ patched' \in BOOLEAN /\ timer' \in BOOLEAN /\ older' \in BOOLEAN
      /\ push' \in PushTypes /\ pull' \in [Pulls -> PullTypes]
      /\ owed' \subseteq Fields /\ late' \subseteq Fields
      /\ edits' \in 0..MaxEdits /\ aiEdits' \in 0..MaxAiEdits
      /\ failures' \in 0..MaxFailures /\ starts' \in 0..MaxStarts
<1>a. Parts <=> Sync!TypeOK'
  BY DEF Sync!TypeOK, PushTypes, PullTypes, Sync!Profiles
<1> SUFFICES Parts /\ Rest
  BY <1>a DEF CopyTypes
<1>0. /\ screen \in Sync!Profiles /\ base \in Sync!Profiles /\ profile \in Sync!Profiles
      /\ snapshot \in Sync!Profiles \cup {None}
      /\ dirty \in BOOLEAN /\ patched \in BOOLEAN /\ timer \in BOOLEAN /\ older \in BOOLEAN
      /\ push \in PushTypes /\ pull \in [Pulls -> PullTypes]
      /\ owed \subseteq Fields /\ late \subseteq Fields
      /\ edits \in 0..MaxEdits /\ aiEdits \in 0..MaxAiEdits
      /\ failures \in 0..MaxFailures /\ starts \in 0..MaxStarts
      /\ Sync!Pushing <=> push.at # "none"
      /\ push.at = "patch" => push.patch \in Sync!Profiles
      /\ \A p \in Pulls : pull[p].at = "apply" => pull[p].got \in Sync!Profiles
  BY CopyParts DEF CopyTypes
<1> USE SyncConstantsHold
<1>1. ASSUME NEW f \in Fields, NEW v \in Values, Sync!Edit(f, v) PROVE Parts /\ Rest
  <2>1. screen' \in Sync!Profiles
    BY <1>0, <1>1 DEF Sync!Edit, Sync!Profiles
  <2>2. pull' = [p \in Pulls |-> IF Sync!PastCheck(p) THEN [pull[p] EXCEPT !.exposed = @ \cup {f}] ELSE pull[p]]
    BY <1>1 DEF Sync!Edit
  <2>3. \A p \in Pulls : pull'[p] \in PullTypes /\ pull'[p].at = pull[p].at /\ pull'[p].got = pull[p].got
    BY <1>0, <2>2 DEF PullTypes
  <2>4. pull' \in [Pulls -> PullTypes]
    BY <2>2, <2>3
  <2>5. UNCHANGED <<base, patched, push, profile, snapshot, older, aiEdits, failures, starts>>
        /\ dirty' = TRUE /\ timer' = TRUE /\ edits' \in 0..MaxEdits /\ owed' \subseteq Fields /\ late' \subseteq Fields
    BY <1>0, <1>1 DEF Sync!Edit, Sync!Marked, Sync!server
  <2> QED BY <1>0, <2>1, <2>3, <2>4, <2>5 DEF Sync!Pushing
<1>2. ASSUME NEW f \in Fields, NEW v \in Values, Sync!AiEdit(f, v) PROVE Parts /\ Rest
  <2>1. profile' \in Sync!Profiles
    BY <1>0, <1>2 DEF Sync!AiEdit, Sync!Profiles
  <2> QED BY <1>0, <1>2, <2>1 DEF Sync!AiEdit, Sync!device, Sync!history, Sync!Pushing
<1>3. CASE Sync!TimerFires
  <2>1. push' \in PushTypes /\ push'.at # "none" /\ Sync!Pushing' /\ (push'.at = "patch" => push'.patch \in Sync!Profiles)
    BY <1>3, BegunTypes DEF Sync!TimerFires
  <2> QED BY <1>0, <1>3, <2>1 DEF Sync!TimerFires, Sync!server, Sync!history, Sync!bounds
<1>4. CASE Sync!PushPatch
  <2>1. push' = [Sync!NoPush EXCEPT !.at = "put"] /\ push.patch \in Sync!Profiles /\ Sync!Patched \in Sync!Profiles
    BY <1>0, <1>4, PatchedType DEF Sync!PushPatch
  <2>2. push' \in PushTypes /\ push'.at = "put" /\ push' # Sync!NoPush
    BY <2>1 DEF PushTypes, Sync!NoPush
  <2> QED BY <1>0, <1>4, <2>1, <2>2 DEF Sync!PushPatch, Sync!StillOwed, Sync!bounds, Sync!Pushing
<1>5. ASSUME NEW unsent \in SUBSET Fields, Sync!PushEnds(unsent)
      PROVE  Rest /\ push' \in PushTypes /\ pull' \in [Pulls -> PullTypes] /\ patched' \in BOOLEAN
  <2>1. \A p \in Pulls : pull'[p].at = "apply" => pull[p].at = "apply" /\ pull'[p].got = pull[p].got
    BY <1>5, EndsTypes DEF Sync!Awaited
  <2> QED BY <1>0, <1>5, <2>1, EndsTypes
<1>6. CASE Sync!PushPut
  <2>1. Sync!PushEnds({}) /\ snapshot' = screen /\ dirty' = FALSE
        /\ UNCHANGED <<screen, base, timer, profile, owed, late, older, edits, aiEdits, failures, starts>>
    BY <1>6 DEF Sync!PushPut, Sync!SavedState, Sync!history, Sync!bounds
  <2>2. Rest /\ push' \in PushTypes /\ pull' \in [Pulls -> PullTypes] /\ patched' \in BOOLEAN
    BY <1>5, <2>1
  <2> QED BY <1>0, <2>1, <2>2
<1>7. CASE Sync!PushFails
  <2>1. Sync!PushEnds(owed) /\ Sync!MayArrive /\ dirty' = TRUE /\ failures' \in 0..MaxFailures
        /\ UNCHANGED <<screen, base, timer, owed, late, older, edits, aiEdits, starts>>
    BY <1>0, <1>7 DEF Sync!PushFails, Sync!history
  <2>2. Rest /\ push' \in PushTypes /\ pull' \in [Pulls -> PullTypes] /\ patched' \in BOOLEAN
    BY <1>0, <1>5, <2>1
  <2> QED BY <1>0, <2>1, <2>2, ArrivedTypes
<1>8. ASSUME NEW p \in Pulls, Sync!Pull(p) PROVE Parts /\ Rest
  <2>0. UNCHANGED <<screen, base, dirty, patched, profile, snapshot, owed, late, older, edits, aiEdits,
                    failures, starts>>
    BY <1>8 DEF Sync!Pull, Sync!server, Sync!history, Sync!bounds
  <2>1. CASE dirty \/ timer
    <3>1. timer' = FALSE /\ Sync!BeginPush /\ Sync!PullAt(p, "wait")
      BY <1>8, <2>1 DEF Sync!Pull, Sync!BeginPull
    <3>2. pull' \in [Pulls -> PullTypes] /\ \A q \in Pulls : pull'[q].at = "apply" => pull'[q] = pull[q]
      BY <3>1, PullAtTypes
    <3> QED BY <1>0, <2>0, <3>1, <3>2, BegunTypes
  <2>2. CASE ~(dirty \/ timer)
    <3>1. Sync!PullAt(p, "get") /\ UNCHANGED <<timer, push>>
      BY <1>8, <2>2 DEF Sync!Pull, Sync!BeginPull
    <3>2. pull' \in [Pulls -> PullTypes] /\ \A q \in Pulls : pull'[q].at = "apply" => pull'[q] = pull[q]
      BY <3>1, PullAtTypes
    <3> QED BY <1>0, <2>0, <3>1, <3>2 DEF Sync!Pushing
  <2> QED BY <2>1, <2>2
<1>9. ASSUME NEW p \in Pulls, Sync!PullGet(p) \/ Sync!PullAppGet(p) PROVE Parts /\ Rest
  <2>1. UNCHANGED <<screen, base, dirty, patched, timer, push, profile, snapshot, owed, late, older, edits, aiEdits,
                    failures, starts>>
    BY <1>9 DEF Sync!PullGet, Sync!PullAppGet, Sync!device, Sync!server, Sync!history, Sync!bounds
  <2>2. \/ pull' = [pull EXCEPT ![p].at = "apply", ![p].got = profile]
        \/ pull' = [pull EXCEPT ![p].at = "appApply", ![p].got = snapshot]
    BY <1>9 DEF Sync!PullGet, Sync!PullAppGet
  <2>3. \A q \in Pulls : pull'[q] \in PullTypes /\ (pull'[q].at = "apply" => pull'[q].got \in Sync!Profiles)
    BY <1>0, <2>2 DEF PullTypes
  <2>4. pull' \in [Pulls -> PullTypes]
    BY <1>0, <2>2, <2>3
  <2> QED BY <1>0, <2>1, <2>3, <2>4 DEF Sync!Pushing
<1>10. ASSUME NEW p \in Pulls, Sync!PullApply(p) PROVE Parts /\ Rest
  <2>1. Sync!PullAt(p, "none") /\ screen' = pull[p].got /\ base' = pull[p].got /\ owed' = {} /\ late' = {}
        /\ older' \in BOOLEAN /\ pull[p].got \in Sync!Profiles
        /\ UNCHANGED <<dirty, patched, timer, push, profile, snapshot, edits, aiEdits, failures, starts>>
    BY <1>0, <1>10 DEF Sync!PullApply, Sync!StillOwed, Sync!server, Sync!bounds
  <2>2. pull' \in [Pulls -> PullTypes] /\ \A q \in Pulls : pull'[q].at = "apply" => pull'[q] = pull[q]
    BY <2>1, PullAtTypes
  <2> QED BY <1>0, <2>1, <2>2 DEF Sync!Pushing
<1>11. ASSUME NEW p \in Pulls, Sync!PullFails(p) PROVE Parts /\ Rest
  <2>1. /\ Sync!PullAt(p, "profile") \/ Sync!PullAt(p, "none")
        /\ failures' \in 0..MaxFailures
        /\ UNCHANGED <<screen, base, dirty, patched, timer, push, profile, snapshot, owed, late, older, edits,
                       aiEdits, starts>>
    BY <1>0, <1>11 DEF Sync!PullFails, Sync!device, Sync!server, Sync!history
  <2>2. pull' \in [Pulls -> PullTypes] /\ \A q \in Pulls : pull'[q].at = "apply" => pull'[q] = pull[q]
    BY <2>1, PullAtTypes
  <2> QED BY <1>0, <2>1, <2>2 DEF Sync!Pushing
<1>12. ASSUME NEW p \in Pulls, Sync!AppStart(p) PROVE Parts /\ Rest
  <2>1. pull' = [q \in Pulls |-> IF q = p THEN [Sync!NoPull EXCEPT !.at = "app"] ELSE Sync!NoPull]
        /\ push' = Sync!NoPush /\ timer' = FALSE /\ Sync!MayArrive /\ starts' \in 0..MaxStarts
        /\ UNCHANGED <<screen, base, dirty, patched, owed, late, older, edits, aiEdits, failures>>
    BY <1>0, <1>12 DEF Sync!AppStart, Sync!history
  <2>2. [Sync!NoPull EXCEPT !.at = "app"] \in PullTypes /\ [Sync!NoPull EXCEPT !.at = "app"].at = "app"
    BY DEF Sync!NoPull, PullTypes
  <2>3. pull' \in [Pulls -> PullTypes] /\ \A q \in Pulls : pull'[q].at # "apply"
    BY <2>1, <2>2, NothingTypes
  <2> QED BY <1>0, <2>1, <2>3, ArrivedTypes, NothingTypes DEF Sync!Pushing
<1>13. ASSUME NEW p \in Pulls, Sync!PullAppState(p) PROVE Parts /\ Rest
  <2>0. UNCHANGED <<base, dirty, patched, timer, profile, snapshot, edits, aiEdits, failures, starts>>
    BY <1>13 DEF Sync!PullAppState, Sync!server, Sync!bounds
  <2>1. CASE Sync!Restores(p)
    <3>1. screen' = pull[p].got /\ pull[p].got \in Sync!Profiles /\ older' = TRUE
          /\ owed' \subseteq Fields /\ late' \subseteq Fields
      BY <1>0, <1>13, <2>1 DEF Sync!PullAppState, Sync!Restores, Sync!StillOwed, PullTypes
    <3>2. Sync!PullAt(p, "profile") \/ Sync!PullAt(p, "fullWait")
      BY <1>13, <2>1 DEF Sync!PullAppState
    <3>3. pull' \in [Pulls -> PullTypes] /\ \A q \in Pulls : pull'[q].at = "apply" => pull'[q] = pull[q]
      BY <3>2, PullAtTypes
    <3>4. push' = push \/ push' = [Sync!StartedPush(TRUE) EXCEPT !.patch = screen']
      BY <1>13, <2>1 DEF Sync!PullAppState
    <3>5. [Sync!StartedPush(TRUE) EXCEPT !.patch = screen'] \in PushTypes
          /\ [Sync!StartedPush(TRUE) EXCEPT !.patch = screen'].at = "patch"
          /\ [Sync!StartedPush(TRUE) EXCEPT !.patch = screen'].patch = screen'
      BY <3>1, StartedTypes DEF PushTypes
    <3> QED BY <1>0, <2>0, <3>1, <3>3, <3>4, <3>5, NothingTypes DEF Sync!Pushing
  <2>2. CASE ~Sync!Restores(p)
    <3>1. Sync!BeginPush /\ Sync!PullAt(p, "appWait") /\ UNCHANGED <<screen, owed, late, older>>
      BY <1>13, <2>2 DEF Sync!PullAppState, Sync!history
    <3>2. pull' \in [Pulls -> PullTypes] /\ \A q \in Pulls : pull'[q].at = "apply" => pull'[q] = pull[q]
      BY <3>1, PullAtTypes
    <3> QED BY <1>0, <2>0, <3>1, <3>2, BegunTypes
  <2> QED BY <2>1, <2>2
<1>14. CASE UNCHANGED Sync!vars
  BY <1>0, <1>14 DEF Sync!vars, Sync!device, Sync!server, Sync!history, Sync!bounds, Sync!Pushing
<1> QED
  BY <1>1, <1>2, <1>3, <1>4, <1>6, <1>7, <1>8, <1>9, <1>10, <1>11, <1>12, <1>13, <1>14 DEF Sync!Next

(* Steps that leave the screen, the edits and the push alone.              *)
LEMMA CopyRest ==
  ASSUME CopyInv, UNCHANGED <<screen, base, dirty, push, owed, late, older>>,
         \A p \in Pulls : Sync!PastCheck(p)' =>
            \/ Sync!PastCheck(p) /\ pull[p].exposed \subseteq pull'[p].exposed
            \/ owed \subseteq late
  PROVE  CopyInv'
BY DEF CopyInv, SendsEdits, EditsMarked, Sync!ChangedFields

LEMMA CopyNext ==
  ASSUME CopyTypes, CopyInv, [Sync!Next]_(Sync!vars)
  PROVE  CopyInv'
<1>0. /\ screen \in Sync!Profiles /\ base \in Sync!Profiles
      /\ push \in PushTypes /\ pull \in [Pulls -> PullTypes] /\ owed \subseteq Fields /\ late \subseteq Fields
      /\ Sync!Pushing <=> push.at # "none"
  BY CopyParts DEF CopyTypes
<1>1. ASSUME NEW f \in Fields, NEW v \in Values, Sync!Edit(f, v) PROVE CopyInv'
  <2>1. /\ screen' = [screen EXCEPT ![f] = v] /\ dirty' = TRUE /\ owed' = owed \cup {f}
        /\ late' = IF Sync!Pushing THEN late \cup {f} ELSE late \ {f}
        /\ UNCHANGED <<base, push, older>>
    BY <1>1 DEF Sync!Edit, Sync!Marked
  <2>2. \A g \in Fields : g # f => screen'[g] = screen[g]
    BY <1>0, <2>1 DEF Sync!Profiles
  <2>3. SendsEdits'
    BY <2>1, <2>2 DEF CopyInv, SendsEdits, Sync!ChangedFields
  <2>4. push.at # "none" => late' = late \cup {f}
    BY <1>0, <2>1
  <2>5. push.at = "patch" => \A g \in owed' : screen'[g] # push.patch[g] => g \in late'
    BY <1>0, <2>1, <2>2, <2>4 DEF CopyInv, EditsMarked
  <2>6. push.at = "put" => owed' \subseteq late'
    BY <2>1, <2>4 DEF CopyInv, EditsMarked
  <2>7. ASSUME NEW p \in Pulls, Sync!PastCheck(p)' PROVE owed' \subseteq late' \cup pull'[p].exposed
    <3>1. pull'[p] = IF Sync!PastCheck(p) THEN [pull[p] EXCEPT !.exposed = @ \cup {f}] ELSE pull[p]
      BY <1>1 DEF Sync!Edit
    <3>2. Sync!PastCheck(p)
      BY <2>7, <3>1 DEF Sync!PastCheck
    <3>3. pull'[p].exposed = pull[p].exposed \cup {f}
      BY <1>0, <3>1, <3>2 DEF PullTypes
    <3>4. owed \subseteq late \cup pull[p].exposed
      BY <3>2 DEF CopyInv, EditsMarked
    <3> QED BY <2>1, <3>3, <3>4
  <2> QED BY <2>1, <2>3, <2>5, <2>6, <2>7 DEF CopyInv, EditsMarked
<1>2. ASSUME NEW f \in Fields, NEW v \in Values, Sync!AiEdit(f, v) PROVE CopyInv'
  <2>1. UNCHANGED <<screen, base, dirty, push, owed, late, older, pull>>
    BY <1>2 DEF Sync!AiEdit, Sync!device, Sync!history
  <2> QED BY <2>1, CopyRest DEF Sync!PastCheck
<1>3. CASE Sync!TimerFires
  <2>0. Sync!BeginPush
    BY <1>3 DEF Sync!TimerFires
  <2>1. UNCHANGED <<screen, base, dirty, owed, late, older, pull>> /\ Sync!BeginPush
    <3>1. UNCHANGED <<screen, base, dirty, owed, late, older, pull>>
      BY <1>3 DEF Sync!TimerFires, Sync!history
    <3> QED BY <2>0, <3>1
  <2>2. /\ SendsEdits'
        /\ push'.at = "patch" => \A f \in owed : screen[f] # push'.patch[f] => f \in late
        /\ push'.at = "put" => owed \subseteq late
    BY <2>1, BegunInv
  <2>3. \A p \in Pulls : Sync!PastCheck(p)' => Sync!PastCheck(p)
    BY <2>1 DEF Sync!PastCheck
  <2> QED BY <2>1, <2>2, <2>3 DEF CopyInv, EditsMarked
<1>4. CASE Sync!PushPatch
  <2>1. /\ push.at = "patch" /\ push'.at = "put" /\ base' = push.patch
        /\ owed' = {f \in owed : screen[f] # push.patch[f]} /\ late' = late \cap owed'
        /\ UNCHANGED <<screen, dirty, pull, older>>
    BY <1>4 DEF Sync!PushPatch, Sync!StillOwed, Sync!NoPush
  <2>2. owed' \subseteq late'
    BY <2>1 DEF CopyInv, EditsMarked
  <2>3. SendsEdits'
    BY <2>1 DEF CopyInv, SendsEdits, Sync!ChangedFields
  <2> QED BY <2>1, <2>2, <2>3 DEF CopyInv, EditsMarked
<1>5. ASSUME NEW unsent \in SUBSET Fields, Sync!PushEnds(unsent), owed \subseteq late \cup unsent,
             dirty' \/ owed \subseteq late, UNCHANGED <<screen, base, owed, late, older>>
      PROVE  CopyInv'
  <2>1. push'.at = "none"
    BY <1>5, EndsTypes
  <2>2. ASSUME NEW p \in Pulls, Sync!PastCheck(p)' PROVE owed \subseteq late \cup pull'[p].exposed
    <3>1. /\ pull'[p].at = Sync!Awaited(pull[p].at)
          /\ pull'[p].exposed = (IF pull[p].at = "wait" THEN unsent ELSE pull[p].exposed)
      BY <1>5, EndsTypes
    <3>2. pull[p].at = "wait" \/ Sync!PastCheck(p)
      BY <2>2, <3>1 DEF Sync!PastCheck, Sync!Awaited
    <3> QED BY <1>5, <3>1, <3>2 DEF CopyInv, EditsMarked, Sync!PastCheck
  <2> QED BY <1>5, <2>1, <2>2 DEF CopyInv, SendsEdits, EditsMarked, Sync!ChangedFields
<1>6. CASE Sync!PushPut
  <2>1. push.at = "put" /\ Sync!PushEnds({}) /\ UNCHANGED <<screen, base, owed, late, older>>
    BY <1>6 DEF Sync!PushPut, Sync!history
  <2>2. owed \subseteq late
    BY <2>1 DEF CopyInv, EditsMarked
  <2> QED BY <1>5, <2>1, <2>2
<1>7. CASE Sync!PushFails
  <2>1. Sync!PushEnds(owed) /\ dirty' = TRUE /\ UNCHANGED <<screen, base, owed, late, older>>
    BY <1>7 DEF Sync!PushFails, Sync!history
  <2> QED BY <1>0, <1>5, <2>1
<1>8. ASSUME NEW p \in Pulls, Sync!Pull(p) PROVE CopyInv'
  <2>0. UNCHANGED <<screen, base, dirty, owed, late, older>>
    BY <1>8 DEF Sync!Pull, Sync!history
  <2>1. CASE dirty \/ timer
    <3>1. Sync!BeginPush /\ Sync!PullAt(p, "wait")
      BY <1>8, <2>1 DEF Sync!Pull, Sync!BeginPull
    <3>2. pull'[p].at = "wait" /\ \A q \in Pulls \ {p} : pull'[q] = pull[q]
      BY <3>1, PullAtTypes
    <3>3. \A q \in Pulls : Sync!PastCheck(q)' => pull'[q] = pull[q] /\ Sync!PastCheck(q)
      BY <3>2 DEF Sync!PastCheck
    <3> QED BY <2>0, <3>1, <3>3, BegunInv DEF CopyInv, EditsMarked
  <2>2. CASE ~(dirty \/ timer)
    <3>1. push' = push /\ Sync!PullAt(p, "get")
      BY <1>8, <2>2 DEF Sync!Pull, Sync!BeginPull
    <3>2. owed \subseteq late
      BY <2>2 DEF CopyInv, EditsMarked
    <3> QED BY <2>0, <3>1, <3>2, CopyRest
  <2> QED BY <2>1, <2>2
<1>9. ASSUME NEW p \in Pulls, Sync!PullGet(p) \/ Sync!PullAppGet(p) PROVE CopyInv'
  <2>1. UNCHANGED <<screen, base, dirty, push, owed, late, older>>
    BY <1>9 DEF Sync!PullGet, Sync!PullAppGet, Sync!device, Sync!history
  <2>2. \/ pull[p].at = "get" /\ pull' = [pull EXCEPT ![p].at = "apply", ![p].got = profile]
        \/ pull' = [pull EXCEPT ![p].at = "appApply", ![p].got = snapshot]
    BY <1>9 DEF Sync!PullGet, Sync!PullAppGet
  <2>3. \A q \in Pulls : Sync!PastCheck(q)' => Sync!PastCheck(q) /\ pull'[q].exposed = pull[q].exposed
    BY <1>0, <2>2 DEF Sync!PastCheck, PullTypes
  <2> QED BY <2>1, <2>3, CopyRest
<1>10. ASSUME NEW p \in Pulls, Sync!PullApply(p) PROVE CopyInv'
  <2>1. /\ screen' = pull[p].got /\ base' = pull[p].got /\ owed' = {} /\ late' = {}
        /\ older' = (push.at = "patch") /\ push' = push
    BY <1>10 DEF Sync!PullApply, Sync!StillOwed
  <2> QED BY <2>1 DEF CopyInv, SendsEdits, EditsMarked, Sync!ChangedFields
<1>11. ASSUME NEW p \in Pulls, Sync!PullFails(p) PROVE CopyInv'
  <2>1. UNCHANGED <<screen, base, dirty, push, owed, late, older>>
    BY <1>11 DEF Sync!PullFails, Sync!device, Sync!history
  <2>2. Sync!PullAt(p, "profile") \/ Sync!PullAt(p, "none")
    BY <1>11 DEF Sync!PullFails
  <2>3. \A q \in Pulls : Sync!PastCheck(q)' => pull'[q] = pull[q] /\ Sync!PastCheck(q)
    BY <2>2, PullAtTypes DEF Sync!PastCheck
  <2> QED BY <2>1, <2>3, CopyRest
<1>12. ASSUME NEW p \in Pulls, Sync!AppStart(p) PROVE CopyInv'
  <2>1. UNCHANGED <<screen, base, dirty, owed, late, older>> /\ push'.at = "none"
    BY <1>12, NothingTypes DEF Sync!AppStart, Sync!history
  <2>2. pull' = [q \in Pulls |-> IF q = p THEN [Sync!NoPull EXCEPT !.at = "app"] ELSE Sync!NoPull]
    BY <1>12 DEF Sync!AppStart
  <2>3. \A q \in Pulls : ~ Sync!PastCheck(q)'
    BY <2>2 DEF Sync!PastCheck, Sync!NoPull
  <2> QED BY <2>1, <2>3 DEF CopyInv, SendsEdits, EditsMarked, Sync!ChangedFields
<1>13. ASSUME NEW p \in Pulls, Sync!PullAppState(p) PROVE CopyInv'
  <2>0. UNCHANGED <<base, dirty>>
    BY <1>13 DEF Sync!PullAppState
  <2>1. CASE Sync!Restores(p)
    <3>1. /\ screen' = pull[p].got /\ older' = TRUE
          /\ owed' = {f \in owed : pull[p].got[f] = screen[f]} /\ late' = late \cap owed'
      BY <1>13, <2>1 DEF Sync!PullAppState, Sync!StillOwed
    <3>2. owed' \subseteq late'
      BY <2>1, <3>1 DEF Sync!Restores, CopyInv, EditsMarked
    <3>3. push' = push \/ push' = [Sync!StartedPush(TRUE) EXCEPT !.patch = screen']
      BY <1>13, <2>1 DEF Sync!PullAppState
    <3>4. push'.at = "patch" => push'.fields \subseteq push'.free
      <4>1. CASE push' = push
        BY <4>1 DEF CopyInv, SendsEdits
      <4>2. CASE push' = [Sync!StartedPush(TRUE) EXCEPT !.patch = screen']
        <5>1. push'.fields = Fields /\ push'.free = Fields
          BY <4>2, StartedTypes DEF PushTypes
        <5> QED BY <5>1
      <4> QED BY <3>3, <4>1, <4>2
    <3>5. owed' \subseteq owed /\ late' \subseteq late
      BY <3>1
    <3> QED BY <2>0, <3>1, <3>2, <3>4 DEF CopyInv, SendsEdits, EditsMarked
  <2>2. CASE ~Sync!Restores(p)
    <3>1. Sync!BeginPush /\ Sync!PullAt(p, "appWait") /\ UNCHANGED <<screen, owed, late, older>>
      BY <1>13, <2>2 DEF Sync!PullAppState, Sync!history
    <3>2. \A q \in Pulls : Sync!PastCheck(q)' => pull'[q] = pull[q] /\ Sync!PastCheck(q)
      BY <3>1, PullAtTypes DEF Sync!PastCheck
    <3> QED BY <2>0, <3>1, <3>2, BegunInv DEF CopyInv, EditsMarked
  <2> QED BY <2>1, <2>2
<1>14. CASE UNCHANGED Sync!vars
  BY <1>14, CopyRest DEF Sync!vars, Sync!device, Sync!history, Sync!PastCheck
<1> QED
  BY <1>1, <1>2, <1>3, <1>4, <1>6, <1>7, <1>8, <1>9, <1>10, <1>11, <1>12, <1>13, <1>14 DEF Sync!Next

(* Only a push and the AI write the server's profile.                      *)
LEMMA PushWrites ==
  ASSUME CopyTypes, CopyInv, [Sync!Next]_(Sync!vars)
  PROVE  Sync!PushesOnlyEdits
<1> SUFFICES ASSUME NEW f \in Fields, profile'[f] # profile[f], aiEdits' = aiEdits PROVE f \in push.free
  BY DEF Sync!PushesOnlyEdits
<1>1. push.at = "patch" /\ profile' = Sync!Patched => f \in push.free
  BY DEF Sync!Patched, CopyInv, SendsEdits
<1>2. \A g \in Fields, v \in Values : ~Sync!AiEdit(g, v)
  BY CopyParts DEF Sync!AiEdit, CopyTypes
<1>3. ASSUME NEW g \in Fields, NEW v \in Values, Sync!Edit(g, v) PROVE FALSE
  BY <1>3 DEF Sync!Edit, Sync!server
<1>4. CASE Sync!PushPatch
  BY <1>1, <1>4 DEF Sync!PushPatch
<1>5. Sync!MayArrive => f \in push.free
  BY <1>1 DEF Sync!MayArrive, Sync!server
<1>6. CASE Sync!TimerFires \/ Sync!PushPut \/ UNCHANGED Sync!vars
  BY <1>6 DEF Sync!TimerFires, Sync!PushPut, Sync!server, Sync!vars
<1>7. ASSUME NEW p \in Pulls,
             Sync!Pull(p) \/ Sync!PullGet(p) \/ Sync!PullApply(p) \/ Sync!PullFails(p) \/ Sync!PullAppGet(p)
             \/ Sync!PullAppState(p)
      PROVE  FALSE
  BY <1>7 DEF Sync!Pull, Sync!PullGet, Sync!PullApply, Sync!PullFails, Sync!PullAppGet, Sync!PullAppState, Sync!server
<1> QED BY <1>2, <1>3, <1>4, <1>5, <1>6, <1>7 DEF Sync!Next, Sync!PushFails, Sync!AppStart

(* Only an edit, a pull and a restored snapshot write the copy.            *)
LEMMA PullWrites ==
  ASSUME CopyTypes, CopyInv, [Sync!Next]_(Sync!vars)
  PROVE  Sync!NoEditOverwritten
<1> SUFFICES ASSUME NEW f \in owed, screen'[f] # screen[f], edits' = edits
             PROVE  f \in late \/ \E p \in Pulls : f \in pull[p].exposed /\ pull'[p] = Sync!NoPull
  BY DEF Sync!NoEditOverwritten
<1>1. \A g \in Fields, v \in Values : ~Sync!Edit(g, v)
  BY CopyParts DEF Sync!Edit, CopyTypes
<1>2. ASSUME NEW g \in Fields, NEW v \in Values, Sync!AiEdit(g, v) PROVE FALSE
  BY <1>2 DEF Sync!AiEdit, Sync!device
<1>3. CASE Sync!TimerFires \/ Sync!PushPatch \/ Sync!PushPut \/ Sync!PushFails \/ UNCHANGED Sync!vars
  BY <1>3 DEF Sync!TimerFires, Sync!PushPatch, Sync!PushPut, Sync!PushFails, Sync!vars, Sync!device
<1>4. ASSUME NEW p \in Pulls,
             Sync!Pull(p) \/ Sync!PullGet(p) \/ Sync!PullFails(p) \/ Sync!PullAppGet(p) \/ Sync!AppStart(p)
      PROVE  FALSE
  BY <1>4 DEF Sync!Pull, Sync!PullGet, Sync!PullFails, Sync!PullAppGet, Sync!AppStart, Sync!device
<1>5. ASSUME NEW p \in Pulls, Sync!PullApply(p)
      PROVE  f \in late \/ (f \in pull[p].exposed /\ pull'[p] = Sync!NoPull)
  <2>1. Sync!PastCheck(p) /\ Sync!PullAt(p, "none")
    BY <1>5 DEF Sync!PullApply, Sync!PastCheck
  <2>2. pull'[p] = Sync!NoPull
    BY <2>1, PullAtTypes
  <2> QED BY <2>1, <2>2 DEF CopyInv, EditsMarked
<1>6. ASSUME NEW p \in Pulls, Sync!PullAppState(p) PROVE f \in late
  BY <1>6 DEF Sync!PullAppState, Sync!Restores, CopyInv, EditsMarked
<1> QED BY <1>1, <1>2, <1>3, <1>4, <1>5, <1>6 DEF Sync!Next

LEMMA SyncSteps == [Next]_vars => [Sync!Next]_(Sync!vars)
BY DEF Next, vars, syncVars, Sync!vars, Sync!device, Sync!server, Sync!history, Sync!bounds

(* An edit that has not reached the server is marked on disk and no pull   *)
(* is put over it, but for the named windows, and a push overwrites on the *)
(* server only what the user edited on this device.                        *)
THEOREM EditsAlwaysSurvive == Spec => EditsSurvive
<1>1. Init => CopyTypes /\ CopyInv
  BY CopyInit DEF Init
<1>2. CopyTypes /\ CopyInv /\ [Next]_vars => CopyTypes' /\ CopyInv'
  BY CopyTypesNext, CopyNext, SyncSteps
<1>3. CopyTypes /\ CopyInv /\ CopyInv' /\ [Next]_vars =>
        [Sync!NoEditForgotten' /\ Sync!NoEditOverwritten /\ Sync!PushesOnlyEdits]_(Sync!vars)
  BY PushWrites, PullWrites, SyncSteps DEF Sync!NoEditForgotten, CopyInv, EditsMarked
<1> QED BY <1>1, <1>2, <1>3, PTL DEF Spec, EditsSurvive, Sync!EditsSurvive

-----------------------------------------------------------------------------
(* The drill (Drill): what the phone said last, and what the server holds. *)

PullStates ==
  [step : {"idle", "asked", "read", "start", "respond"},
   got : [status : Statuses \cup {"no_response"}, dispatch : {"leaves", None}] \cup {None},
   reply : Statuses \cup {None}]

SheetTypes ==
  /\ sheet \in [status : Statuses \cup {"no_response"}, dispatch : {"leaves", None}] \cup {None}
  /\ phone \in [alarm : BOOLEAN, reply : Statuses \cup {None}, coming : {"leaves", None}]
  /\ calls \subseteq [kind : {"start", "respond", "reset"}, status : Statuses \cup {None}]
  /\ \A c \in calls : c.kind = "respond" => c.status # None
  /\ pulling \in PullStates
  /\ pulling.step = "respond" => pulling.reply # None
  /\ stale \in BOOLEAN /\ mixed \in BOOLEAN /\ missed \in BOOLEAN

Answered == IF phone.reply = None THEN "no_response" ELSE phone.reply

(* Without overlapping requests and failures the one under way carries     *)
(* what the phone said last, and with none the sheet says so, if there is  *)
(* one.                                                                    *)
SheetInv ==
  ~ mixed /\ ~ missed =>
    /\ \A c, d \in calls : c = d
    /\ Practice!Uploading => calls = {} /\ pulling.reply = phone.reply
    /\ \A c \in calls : /\ c.kind = "start" => phone.reply = None
                        /\ c.kind = "respond" => phone.reply = c.status
                        /\ c.kind = "reset" => ~ phone.alarm
    /\ calls = {} /\ pulling.step # "respond" /\ phone.alarm /\ sheet # None => sheet.status = Answered

LEMMA SheetInit == Practice!Init => SheetTypes /\ SheetInv
<1> SUFFICES ASSUME Practice!Init PROVE SheetTypes /\ SheetInv
  OBVIOUS
<1>1. pulling = [step |-> "idle", got |-> None, reply |-> None] /\ sheet = None /\ calls = {}
      /\ phone = [alarm |-> FALSE, reply |-> None, coming |-> None]
      /\ stale = FALSE /\ mixed = FALSE /\ missed = FALSE
  BY DEF Practice!Init, Practice!Idle
<1>2. SheetTypes
  BY <1>1 DEF SheetTypes, PullStates
<1>3. SheetInv
  BY <1>1 DEF SheetInv, Practice!Uploading
<1> QED BY <1>2, <1>3

LEMMA DrillConstantsHold == None \notin Statuses
BY ServicesAssumption DEF Practice!DrillConstants

(* The rows that are written.                                              *)
LEMMA SheetRows ==
  /\ Practice!Started \in [status : Statuses \cup {"no_response"}, dispatch : {"leaves", None}]
  /\ Practice!Started.status = "no_response"
  /\ SheetTypes => \A x \in Statuses :
       /\ Practice!Responded(x) \in [status : Statuses \cup {"no_response"}, dispatch : {"leaves", None}]
       /\ Practice!Responded(x).status = x
  /\ SheetTypes /\ sheet # None => \A d \in {"leaves", None} :
       /\ Practice!Dispatched(d) \in [status : Statuses \cup {"no_response"}, dispatch : {"leaves", None}]
       /\ Practice!Dispatched(d).status = sheet.status
BY DEF SheetTypes, Practice!Started, Practice!Responded, Practice!Dispatched

LEMMA PullMoves ==
  ASSUME NEW q \in PullStates, NEW l \in {"idle", "asked", "read", "start", "respond"}
  PROVE  /\ [q EXCEPT !.step = l] \in PullStates
         /\ [q EXCEPT !.step = l].step = l /\ [q EXCEPT !.step = l].reply = q.reply
BY DEF PullStates

LEMMA PullIdle == Practice!Idle \in PullStates /\ Practice!Idle.step = "idle"
BY DEF PullStates, Practice!Idle

LEMMA SheetNextTypes ==
  ASSUME SheetTypes, [Practice!Next]_(Practice!drillVars)
  PROVE  SheetTypes'
<1> USE DrillConstantsHold DEF Practice!bounds
<1>1. ASSUME NEW c \in calls, Practice!Serve(c) PROVE SheetTypes'
  <2>1. c.kind \in {"start", "respond", "reset"} /\ (c.kind = "respond" => c.status \in Statuses)
    BY DEF SheetTypes
  <2>2. sheet' \in [status : Statuses \cup {"no_response"}, dispatch : {"leaves", None}] \cup {None}
    BY <1>1, <2>1, SheetRows DEF Practice!Serve
  <2> QED BY <1>1, <2>2 DEF Practice!Serve, SheetTypes
<1>2. ASSUME NEW c \in calls, Practice!Lose(c) PROVE SheetTypes'
  BY <1>2 DEF Practice!Lose, SheetTypes
<1>3. ASSUME NEW d \in {"leaves", None}, Practice!Dispatch(d) PROVE SheetTypes'
  <2>1. sheet' \in [status : Statuses \cup {"no_response"}, dispatch : {"leaves", None}] \cup {None}
    BY <1>3, SheetRows DEF Practice!Dispatch, Practice!Active, SheetTypes
  <2> QED BY <1>3, <2>1 DEF Practice!Dispatch, SheetTypes
<1>4. CASE Practice!ResetByOther
  BY <1>4 DEF Practice!ResetByOther, SheetTypes
<1>5. CASE Practice!HoursPass
  BY <1>5 DEF Practice!HoursPass, SheetTypes
<1>6. CASE Practice!StartDrill
  BY <1>6 DEF Practice!StartDrill, Practice!Send, Practice!Call, SheetTypes
<1>7. ASSUME NEW x \in Statuses, Practice!Reply(x) PROVE SheetTypes'
  BY <1>7 DEF Practice!Reply, Practice!Send, Practice!Call, SheetTypes
<1>8. CASE Practice!TurnOff
  BY <1>8 DEF Practice!TurnOff, Practice!Send, Practice!Call, SheetTypes
<1>9. CASE Practice!PullBegins
  <2>1. pulling' \in PullStates /\ pulling'.step = "asked"
    BY <1>9, PullMoves, PullIdle DEF Practice!PullBegins
  <2> QED BY <1>9, <2>1 DEF Practice!PullBegins, SheetTypes, PullStates
<1>10. CASE Practice!PullReads
  <2>1. pulling' \in PullStates /\ pulling'.step = "read"
    <3> DEFINE g == IF Practice!Active THEN sheet ELSE None
    <3>1. g \in [status : Statuses \cup {"no_response"}, dispatch : {"leaves", None}] \cup {None}
      BY DEF SheetTypes
    <3> HIDE DEF g
    <3>2. pulling' = [pulling EXCEPT !.step = "read", !.got = g]
      BY <1>10 DEF Practice!PullReads, g
    <3>3. pulling \in PullStates
      BY DEF SheetTypes
    <3> QED BY <3>1, <3>2, <3>3 DEF PullStates
  <2> QED BY <1>10, <2>1 DEF Practice!PullReads, SheetTypes, PullStates
<1>11. CASE Practice!PullTakes
  <2>1. pulling' \in PullStates /\ pulling'.step = "idle"
    BY <1>11, PullMoves, PullIdle DEF Practice!PullTakes
  <2>2. pulling.got.dispatch \in {"leaves", None}
    BY <1>11 DEF Practice!PullTakes, SheetTypes, PullStates
  <2> QED BY <1>11, <2>1, <2>2 DEF Practice!PullTakes, SheetTypes, PullStates
<1>12. CASE Practice!PullFindsNothing
  <2>1. pulling' \in PullStates /\ pulling'.step = "start"
    <3>1. phone.reply \in Statuses \cup {None}
      BY DEF SheetTypes
    <3>2. pulling' = [Practice!Idle EXCEPT !.step = "start", !.reply = phone.reply]
      BY <1>12 DEF Practice!PullFindsNothing
    <3> QED BY <3>1, <3>2 DEF PullStates, Practice!Idle
  <2> QED BY <1>12, <2>1 DEF Practice!PullFindsNothing, SheetTypes, PullStates
<1>13. CASE Practice!PullUploads
  <2>1. pulling' \in PullStates /\ (pulling'.step = "respond" => pulling'.reply # None)
    <3>1. CASE pulling.step = "start" /\ pulling.reply # None
      BY <1>13, <3>1, PullMoves, PullIdle DEF Practice!PullUploads, SheetTypes
    <3>2. CASE ~ (pulling.step = "start" /\ pulling.reply # None)
      BY <1>13, <3>2, PullMoves, PullIdle DEF Practice!PullUploads
    <3> QED BY <3>1, <3>2
  <2>2. sheet' \in [status : Statuses \cup {"no_response"}, dispatch : {"leaves", None}]
    <3>1. pulling.step = "respond" => pulling.reply \in Statuses
      BY DEF SheetTypes, PullStates
    <3> QED BY <1>13, <3>1, SheetRows DEF Practice!PullUploads, Practice!Uploading
  <2> QED BY <1>13, <2>1, <2>2 DEF Practice!PullUploads, SheetTypes, PullStates
<1>14. CASE Practice!PullFails
  <2>1. pulling' \in PullStates /\ pulling'.step = "idle"
    BY <1>14, PullMoves, PullIdle DEF Practice!PullFails
  <2> QED BY <1>14, <2>1 DEF Practice!PullFails, SheetTypes, PullStates
<1>15. CASE UNCHANGED Practice!drillVars
  BY <1>15 DEF Practice!drillVars, SheetTypes
<1> QED
  BY <1>1, <1>2, <1>3, <1>4, <1>5, <1>6, <1>7, <1>8, <1>9, <1>10, <1>11, <1>12, <1>13, <1>14, <1>15
     DEF Practice!Next

LEMMA SheetNext ==
  ASSUME SheetTypes, SheetInv, [Practice!Next]_(Practice!drillVars)
  PROVE  SheetInv'
<1> SUFFICES ASSUME ~ mixed', ~ missed' PROVE SheetInv'
  BY DEF SheetInv
<1> USE DrillConstantsHold DEF Practice!bounds, Practice!Uploading
<1>h. ASSUME ~ mixed, ~ missed
      PROVE  /\ \A c, d \in calls : c = d
             /\ Practice!Uploading => calls = {} /\ pulling.reply = phone.reply
             /\ \A c \in calls : /\ c.kind = "start" => phone.reply = None
                                 /\ c.kind = "respond" => phone.reply = c.status
                                 /\ c.kind = "reset" => ~ phone.alarm
             /\ calls = {} /\ pulling.step # "respond" /\ phone.alarm /\ sheet # None
                  => sheet.status = Answered
  BY <1>h DEF SheetInv
<1>1. ASSUME NEW c \in calls, Practice!Serve(c) PROVE SheetInv'
  <2>1. ~ mixed /\ ~ missed /\ calls' = {} /\ ~ Practice!Uploading /\ pulling' = pulling /\ phone' = phone
    BY <1>1, <1>h DEF Practice!Serve
  <2>2. c.kind \in {"start", "respond", "reset"} /\ (c.kind = "respond" => c.status \in Statuses)
    BY DEF SheetTypes
  <2>3. phone.alarm /\ sheet' # None => sheet'.status = Answered
    <3>1. CASE c.kind = "start"
      <4>1. sheet' = Practice!Started /\ phone.reply = None
        BY <1>1, <1>h, <2>1, <3>1 DEF Practice!Serve
      <4> QED BY <4>1, SheetRows DEF Answered
    <3>2. CASE c.kind = "respond"
      <4>1. sheet' = Practice!Responded(c.status) /\ phone.reply = c.status
        BY <1>1, <1>h, <2>1, <3>2 DEF Practice!Serve
      <4> QED BY <2>2, <3>2, <4>1, SheetRows DEF Answered
    <3>3. CASE c.kind = "reset"
      BY <1>h, <2>1, <3>3
    <3> QED BY <2>2, <3>1, <3>2, <3>3
  <2> QED BY <2>1, <2>3 DEF SheetInv, Answered
<1>2. ASSUME NEW c \in calls, Practice!Lose(c) PROVE FALSE
  BY <1>2 DEF Practice!Lose
<1>3. ASSUME NEW d \in {"leaves", None}, Practice!Dispatch(d) PROVE SheetInv'
  <2>1. sheet' # None => sheet # None /\ sheet'.status = sheet.status
    BY <1>3, SheetRows DEF Practice!Dispatch, Practice!Active
  <2> QED BY <1>3, <1>h, <2>1 DEF Practice!Dispatch, SheetInv, Answered
<1>4. CASE Practice!ResetByOther
  BY <1>4, <1>h DEF Practice!ResetByOther, SheetInv
<1>5. CASE Practice!HoursPass
  BY <1>5, <1>h DEF Practice!HoursPass, SheetInv, Answered
<1>6. ASSUME NEW c, Practice!Send(c), pulling' = pulling,
             c.kind = "start" => phone'.reply = None,
             c.kind = "respond" => phone'.reply = c.status,
             c.kind = "reset" => ~ phone'.alarm
      PROVE  SheetInv'
  <2>1. calls = {} /\ calls' = {c} /\ ~ Practice!Uploading
    BY <1>6 DEF Practice!Send
  <2> QED BY <1>6, <2>1 DEF SheetInv
<1>7. CASE Practice!StartDrill
  BY <1>6, <1>7 DEF Practice!StartDrill, Practice!Call
<1>8. ASSUME NEW x \in Statuses, Practice!Reply(x) PROVE SheetInv'
  <2>1. phone'.reply = x
    BY <1>8 DEF Practice!Reply, SheetTypes
  <2> QED BY <1>6, <1>8, <2>1 DEF Practice!Reply, Practice!Call
<1>9. CASE Practice!TurnOff
  BY <1>6, <1>9 DEF Practice!TurnOff, Practice!Call
<1>10. CASE Practice!PullBegins
  <2>1. pulling.step = "idle" /\ pulling'.step = "asked"
    BY <1>10 DEF Practice!PullBegins, Practice!Idle
  <2> QED BY <1>10, <1>h, <2>1 DEF Practice!PullBegins, SheetInv, Answered
<1>11. CASE Practice!PullReads
  <2>1. pulling.step = "asked" /\ pulling'.step = "read"
    BY <1>11 DEF Practice!PullReads, SheetTypes, PullStates
  <2> QED BY <1>11, <1>h, <2>1 DEF Practice!PullReads, SheetInv, Answered
<1>12. CASE Practice!PullTakes
  <2>1. pulling.step = "read" /\ pulling'.step = "idle"
    BY <1>12, PullIdle DEF Practice!PullTakes
  <2>2. phone'.alarm = phone.alarm /\ phone'.reply = phone.reply
    BY <1>12 DEF Practice!PullTakes, SheetTypes
  <2> QED BY <1>12, <1>h, <2>1, <2>2 DEF Practice!PullTakes, SheetInv, Answered
<1>13. CASE Practice!PullFindsNothing
  <2>1. pulling.step = "read" /\ pulling'.step = "start" /\ pulling'.reply = phone.reply
    BY <1>13 DEF Practice!PullFindsNothing, Practice!Idle
  <2>2. calls = {} /\ ~ mixed
    BY <1>13 DEF Practice!PullFindsNothing
  <2> QED BY <1>13, <1>h, <2>1, <2>2 DEF Practice!PullFindsNothing, SheetInv, Answered
<1>14. CASE Practice!PullUploads
  <2>1. ~ mixed /\ ~ missed /\ calls = {} /\ calls' = {} /\ phone' = phone /\ pulling.reply = phone.reply
    BY <1>14, <1>h DEF Practice!PullUploads
  <2>2. CASE pulling.step = "start" /\ pulling.reply # None
    <3>1. pulling'.step = "respond" /\ pulling'.reply = pulling.reply
      BY <1>14, <2>2, PullMoves DEF Practice!PullUploads, SheetTypes
    <3> QED BY <2>1, <3>1 DEF SheetInv
  <2>3. CASE pulling.step = "start" /\ pulling.reply = None
    <3>1. pulling'.step = "idle" /\ sheet' = Practice!Started
      BY <1>14, <2>3, PullIdle DEF Practice!PullUploads
    <3> QED BY <2>1, <2>3, <3>1, SheetRows DEF SheetInv, Answered
  <2>4. CASE pulling.step = "respond"
    <3>1. pulling'.step = "idle" /\ sheet' = Practice!Responded(pulling.reply)
      BY <1>14, <2>4, PullIdle DEF Practice!PullUploads
    <3>2. pulling.reply \in Statuses
      BY <2>4 DEF SheetTypes, PullStates
    <3> QED BY <2>1, <3>1, <3>2, SheetRows DEF SheetInv, Answered
  <2> QED BY <1>14, <2>2, <2>3, <2>4 DEF Practice!PullUploads
<1>15. CASE Practice!PullFails
  <2>1. ~ mixed /\ ~ missed /\ pulling.step # "respond" /\ pulling'.step = "idle"
    BY <1>15, PullIdle DEF Practice!PullFails
  <2> QED BY <1>15, <1>h, <2>1 DEF Practice!PullFails, SheetInv, Answered
<1>16. CASE UNCHANGED Practice!drillVars
  BY <1>16, <1>h DEF Practice!drillVars, SheetInv, Answered
<1> QED
  BY <1>1, <1>2, <1>3, <1>4, <1>5, <1>7, <1>8, <1>9, <1>10, <1>11, <1>12, <1>13, <1>14, <1>15, <1>16
     DEF Practice!Next

(* What responders read of a resident in a drill is the resident's last    *)
(* answer (demo_evac.py), for any answers and any number of drills, unless *)
(* requests of the phone overlapped or one of them failed.                 *)
THEOREM DrillAnswerAlwaysStands == Spec => []DrillAnswerStands
<1>1. Init => SheetTypes /\ SheetInv
  BY SheetInit DEF Init
<1>2. [Next]_vars => [Practice!Next]_(Practice!drillVars)
  BY DEF Next, vars, practiceVars, Practice!drillVars
<1>3. SheetTypes /\ SheetInv /\ [Next]_vars => SheetTypes' /\ SheetInv'
  BY <1>2, SheetNextTypes, SheetNext
<1>4. SheetTypes /\ SheetInv => DrillAnswerStands
  BY DEF SheetInv, DrillAnswerStands, Practice!DrillAnswerStands, Practice!Active, Practice!Uploading, Answered
<1> QED BY <1>1, <1>3, <1>4, PTL DEF Spec
-----------------------------------------------------------------------------
(* What the assistant writes into the profile (ProfileSync).               *)

Started == asked - Len(queue)
Wanted(t) == Said[t].wanted
Listed(k) ==
  /\ k = [id |-> k.id, kind |-> k.kind, label |-> k.label, where |-> k.where]
  /\ k.id \in 1..nextPlace - 1 /\ k.kind \in Notes!PlaceKinds

(* The exchanges wait in order, those begun have a smaller number, and all *)
(* that is recorded was applied.                                           *)
QueueInOrder ==
  /\ asked \in 0..Turns /\ queue \in Seq(Nat) /\ Started \in Nat
  /\ \A i \in 1..Len(queue) : queue[i] = Started + i
PlacesListed ==
  /\ nextPlace \in Nat \ {0}
  /\ \A k \in places : Listed(k)
  /\ \A k, q \in places : k.id = q.id => k = q
JobTyped(r) ==
  /\ r = [turn |-> r.turn, at |-> r.at, known |-> r.known, left |-> r.left, applied |-> r.applied]
  /\ r.at \in {"rest", "extract", "places"}
  /\ r.turn \in 0..Started /\ (r.at # "rest" => r.turn # 0)
  /\ r.applied \subseteq landed
  /\ \A k \in r.known : Listed(k)
  /\ r.at = "places" => r.left \subseteq DOMAIN Wanted(r.turn)
JobsTyped == DOMAIN writer = Writers /\ \A w \in Writers : JobTyped(writer[w])
FactsLanded ==
  /\ updates \subseteq landed
  /\ \A fact \in landed : fact[1] \in 1..Started
NotesTypes == QueueInOrder /\ PlacesListed /\ JobsTyped /\ FactsLanded

(* The thread at work, when no two ever were: it is the last begun; it     *)
(* knows every home there is, by its id, as long as it has one to write,   *)
(* and the home it has still to write is the last one said.                *)
OneHome(rows) == \A k, q \in rows : Notes!IsHome(k) /\ Notes!IsHome(q) => k.id = q.id
HomeLeft(w) == \E i \in writer[w].left : Notes!IsHome(Wanted(writer[w].turn)[i])
KnowsPlaces(w) ==
  /\ OneHome(writer[w].known)
  /\ \A k \in writer[w].known, q \in places : k.id = q.id => k.kind = q.kind
  /\ HomeLeft(w) => \A q \in places : Notes!IsHome(q) => \E k \in writer[w].known : k.id = q.id
  /\ \A i \in writer[w].left :
       Notes!IsHome(Wanted(writer[w].turn)[i]) => Notes!LastHome(i, Wanted(writer[w].turn))
AtWorkAlone ==
  /\ \A v, w \in Writers : writer[v].at # "rest" /\ writer[w].at # "rest" => v = w
  /\ \A w \in Writers : writer[w].at # "rest" => writer[w].turn = Started
  /\ \A w \in Writers : writer[w].at = "places" => KnowsPlaces(w)

JobTurns == {u \in 1..asked : <<u, "job", None>> \in landed}
HomeTurns == {u \in 1..asked : \E fact \in landed : fact[1] = u /\ fact[2] = "home"}
LastJobKept == \A t \in 1..asked : Notes!Newest(t, JobTurns) => field = Said[t].job
LastHomeKept ==
  \A t \in 1..asked : \A i \in DOMAIN Wanted(t) :
    Notes!Newest(t, HomeTurns) /\ Notes!LastHome(i, Wanted(t)) =>
      \A k \in places : Notes!IsHome(k) => k.where = Wanted(t)[i].said
SaidInv == ~ overlapped => AtWorkAlone /\ OneHome(places) /\ LastJobKept /\ LastHomeKept

LEMMA SaidFacts ==
  /\ Turns \in Nat
  /\ \A t \in 1..Turns : /\ Wanted(t) \in Seq(Notes!Wishes)
                         /\ DOMAIN Wanted(t) \subseteq Nat
                         /\ \A i \in DOMAIN Wanted(t) : Wanted(t)[i] \in Notes!Wishes
<1>1. Turns \in Nat /\ \A t \in 1..Turns : Wanted(t) \in Seq(Notes!Wishes)
  BY ServicesAssumption DEF Notes!SaidAssumption, Wanted
<1> QED BY <1>1

LEMMA NotesInit == Notes!Init => NotesTypes /\ SaidInv
<1> SUFFICES ASSUME Notes!Init PROVE NotesTypes /\ SaidInv
  OBVIOUS
<1>1. QueueInOrder
  BY SaidFacts, EmptySeq, Len(<<>>) = 0 DEF Notes!Init, QueueInOrder, Started
<1>2. NotesTypes
  BY <1>1 DEF Notes!Init, NotesTypes, PlacesListed, JobsTyped, JobTyped, Notes!Resting, FactsLanded,
     Started, QueueInOrder
<1>3. SaidInv
  BY DEF Notes!Init, SaidInv, AtWorkAlone, OneHome, LastJobKept, LastHomeKept, JobTurns, HomeTurns, Notes!Resting,
     Notes!Newest
<1> QED BY <1>2, <1>3

-----------------------------------------------------------------------------
(* Types.                                                                  *)

(* Of the threads only w moves, and what the others' jobs refer to stays.  *)
OnlyMoves(w) == DOMAIN writer' = Writers /\ \A v \in Writers \ {w} : writer'[v] = writer[v]

LEMMA JobsStay ==
  ASSUME NotesTypes, NEW w \in Writers, OnlyMoves(w), JobTyped(writer[w])',
         Started' \in Nat, Started' >= Started,
         nextPlace' \in Nat, nextPlace' >= nextPlace, landed \subseteq landed'
  PROVE  JobsTyped'
<1>1. ASSUME NEW v \in Writers \ {w} PROVE JobTyped(writer[v])'
  BY <1>1 DEF NotesTypes, JobsTyped, JobTyped, PlacesListed, QueueInOrder, Listed, Wanted, OnlyMoves
<1> QED BY <1>1 DEF JobsTyped, OnlyMoves

LEMMA AnsweredTypes == ASSUME NotesTypes, Notes!Answered PROVE NotesTypes' /\ Started' = Started
<1>1. /\ queue' \in Seq(Nat) /\ Len(queue') = Len(queue) + 1 /\ queue'[Len(queue) + 1] = asked + 1
      /\ \A i \in 1..Len(queue) : queue'[i] = queue[i]
  BY AppendProperties, SaidFacts DEF Notes!Answered, NotesTypes, QueueInOrder
<1>2. Started' = Started
  BY <1>1, SaidFacts, LenProperties DEF Notes!Answered, Started, NotesTypes, QueueInOrder
<1>3. QueueInOrder'
  BY <1>1, <1>2, SaidFacts, LenProperties DEF Notes!Answered, Started, NotesTypes, QueueInOrder
<1>4. PlacesListed' /\ FactsLanded'
  BY <1>2 DEF Notes!Answered, NotesTypes, PlacesListed, Listed, FactsLanded
<1>5. JobsTyped'
  BY <1>2 DEF Notes!Answered, NotesTypes, JobsTyped, JobTyped, Listed, Wanted
<1> QED BY <1>2, <1>3, <1>4, <1>5 DEF NotesTypes

LEMMA TakeTypes ==
  ASSUME NotesTypes, NEW w \in Writers, Notes!Take(w)
  PROVE  /\ NotesTypes' /\ Started' = Started + 1 /\ OnlyMoves(w)
         /\ writer'[w] = [turn |-> Started', at |-> "extract", known |-> {}, left |-> {}, applied |-> {}]
<1>1. /\ queue' \in Seq(Nat) /\ Len(queue') = Len(queue) - 1 /\ Head(queue) = Started + 1
      /\ \A i \in 1..Len(queue') : queue'[i] = queue[i + 1]
  BY HeadTailProperties, EmptySeq, LenProperties, SaidFacts DEF Notes!Take, NotesTypes, QueueInOrder
<1>2. asked' = asked /\ asked \in 0..Turns /\ Len(queue) \in Nat /\ Len(queue') \in Nat
  BY <1>1, LenProperties DEF Notes!Take, NotesTypes, QueueInOrder
<1>3. Started' = Started + 1 /\ Started \in Nat
  BY <1>1, <1>2, SaidFacts DEF Started, NotesTypes, QueueInOrder
<1>4. QueueInOrder'
  <2>1. ASSUME NEW i \in 1..Len(queue') PROVE queue'[i] = Started' + i
    <3>1. i + 1 \in 1..Len(queue) /\ queue'[i] = queue[i + 1]
      BY <1>1, <1>2
    <3> QED BY <3>1, <1>3 DEF NotesTypes, QueueInOrder
  <2> QED BY <2>1, <1>1, <1>2, <1>3 DEF QueueInOrder
<1>5. PlacesListed' /\ FactsLanded'
  BY <1>3 DEF Notes!Take, NotesTypes, QueueInOrder, PlacesListed, Listed, FactsLanded
<1>6. /\ OnlyMoves(w)
      /\ writer'[w] = [turn |-> Started', at |-> "extract", known |-> {}, left |-> {}, applied |-> {}]
  <2>1. OnlyMoves(w) /\ writer'[w] = [Notes!Resting EXCEPT !.turn = Head(queue), !.at = "extract"]
    BY DEF Notes!Take, OnlyMoves, NotesTypes, JobsTyped
  <2>2. Head(queue) = Started'
    BY <1>1, <1>3
  <2> QED BY <2>1, <2>2 DEF Notes!Resting
<1>7. JobTyped(writer[w])'
  BY <1>3, <1>6 DEF JobTyped
<1>8. JobsTyped'
  BY <1>3, <1>6, <1>7, JobsStay DEF Notes!Take, NotesTypes, PlacesListed
<1> QED BY <1>3, <1>4, <1>5, <1>6, <1>8 DEF NotesTypes

(* A job that ends, and what a thread did before it ended.                 *)
LEMMA QueueStays ==
  ASSUME NotesTypes, UNCHANGED <<asked, queue>>
  PROVE  QueueInOrder' /\ Started' = Started /\ Started \in Nat
BY DEF NotesTypes, QueueInOrder, Started

LEMMA DoneTypes ==
  ASSUME NotesTypes, NEW w \in Writers, Notes!Done(w), UNCHANGED <<asked, queue, nextPlace, landed>>,
         PlacesListed', updates' \subseteq landed
  PROVE  NotesTypes' /\ OnlyMoves(w) /\ writer'[w] = Notes!Resting
<1>1. OnlyMoves(w) /\ writer'[w] = Notes!Resting
  BY DEF Notes!Done, OnlyMoves, NotesTypes, JobsTyped
<1>2. JobTyped(writer[w])'
  BY <1>1, QueueStays DEF JobTyped, Notes!Resting
<1>3. JobsTyped'
  BY <1>1, <1>2, QueueStays, JobsStay DEF NotesTypes, PlacesListed
<1>4. FactsLanded'
  BY QueueStays DEF NotesTypes, FactsLanded
<1> QED BY <1>1, <1>3, <1>4, QueueStays DEF NotesTypes

LEMMA PlacesStay ==
  ASSUME NotesTypes, places' \subseteq places, UNCHANGED nextPlace
  PROVE  PlacesListed'
BY DEF NotesTypes, PlacesListed, Listed

LEMMA DeletePlaceTypes == ASSUME NotesTypes, Notes!DeletePlace PROVE NotesTypes' /\ Started' = Started
<1>1. PlacesListed'
  BY PlacesStay DEF Notes!DeletePlace
<1>2. QueueInOrder' /\ Started' = Started /\ Started \in Nat
  BY QueueStays DEF Notes!DeletePlace
<1>3. JobsTyped'
  BY <1>2 DEF Notes!DeletePlace, NotesTypes, JobsTyped, JobTyped, Listed, Wanted
<1>4. FactsLanded'
  BY <1>2 DEF Notes!DeletePlace, NotesTypes, FactsLanded
<1> QED BY <1>1, <1>2, <1>3, <1>4 DEF NotesTypes

LEMMA RecordTypes ==
  ASSUME NotesTypes, NEW w \in Writers, Notes!Record(w)
  PROVE  NotesTypes' /\ OnlyMoves(w) /\ writer'[w] = Notes!Resting
<1>1. updates' \subseteq landed
  BY DEF Notes!Record, NotesTypes, FactsLanded, JobsTyped, JobTyped
<1> QED BY <1>1, PlacesStay, DoneTypes DEF Notes!Record

LEMMA JobFailsTypes ==
  ASSUME NotesTypes, NEW w \in Writers, Notes!JobFails(w)
  PROVE  NotesTypes' /\ OnlyMoves(w) /\ writer'[w] = Notes!Resting
BY PlacesStay, DoneTypes DEF Notes!JobFails, NotesTypes, FactsLanded

(* The patch of the fields: nothing to say, or a job goes on to its places.*)
JobFact(t) == IF Said[t].job = None THEN {} ELSE {<<t, "job", None>>}
Written(w) ==
  /\ writer'[w] = [turn |-> writer[w].turn, at |-> "places", known |-> places,
                   left |-> Notes!PlaceFacts(Wanted(writer[w].turn)), applied |-> JobFact(writer[w].turn)]
  /\ landed' = landed \cup JobFact(writer[w].turn)
  /\ field' = IF Said[writer[w].turn].job = None THEN field ELSE Said[writer[w].turn].job

LEMMA JobTurn ==
  ASSUME NotesTypes, NEW w \in Writers, writer[w].at # "rest"
  PROVE  writer[w].turn \in 1..Started /\ writer[w].turn \in 1..asked /\ writer[w].turn \in 1..Turns
<1>1. asked \in Nat /\ Turns \in Nat /\ asked <= Turns /\ Started \in Nat /\ Len(queue) \in Nat
  BY SaidFacts, LenProperties DEF NotesTypes, QueueInOrder
<1>2. Started <= asked
  BY <1>1 DEF Started
<1> QED BY <1>1, <1>2 DEF NotesTypes, JobsTyped, JobTyped

LEMMA PostUserTypes ==
  ASSUME NotesTypes, NEW w \in Writers, Notes!PostUser(w)
  PROVE  /\ NotesTypes' /\ OnlyMoves(w)
         /\ \/ writer'[w] = Notes!Resting /\ UNCHANGED <<field, landed>>
            \/ Written(w)
<1> DEFINE t == writer[w].turn
<1>1. UNCHANGED <<asked, queue, places, nextPlace, updates>> /\ writer[w].at = "extract"
  BY DEF Notes!PostUser
<1>2. Started' = Started /\ QueueInOrder' /\ PlacesListed' /\ Started \in Nat
  BY <1>1, QueueStays, PlacesStay
<1>3. t \in 1..Started
  BY <1>1, JobTurn
<1>4. CASE Notes!Done(w) /\ UNCHANGED <<field, landed>>
  BY <1>1, <1>2, <1>4, DoneTypes DEF NotesTypes, FactsLanded
<1>5. CASE ~ (Said[t].job = None /\ Notes!PlaceFacts(Said[t].wanted) = {})
  <2>1. /\ landed' = landed \cup JobFact(t)
        /\ field' = IF Said[t].job = None THEN field ELSE Said[t].job
        /\ writer' = [writer EXCEPT ![w] = [@ EXCEPT !.at = "places", !.known = places,
                        !.left = Notes!PlaceFacts(Said[t].wanted), !.applied = JobFact(t)]]
    BY <1>5 DEF Notes!PostUser, JobFact
  <2> DEFINE r == writer[w]
  <2>2. /\ w \in DOMAIN writer /\ DOMAIN writer = Writers
        /\ r = [turn |-> r.turn, at |-> r.at, known |-> r.known, left |-> r.left, applied |-> r.applied]
    BY DEF NotesTypes, JobsTyped, JobTyped
  <2>3. /\ OnlyMoves(w)
        /\ writer'[w] = [r EXCEPT !.at = "places", !.known = places,
                         !.left = Notes!PlaceFacts(Said[t].wanted), !.applied = JobFact(t)]
    BY <2>1, <2>2 DEF OnlyMoves
  <2>4. writer'[w] = [turn |-> t, at |-> "places", known |-> places,
                      left |-> Notes!PlaceFacts(Said[t].wanted), applied |-> JobFact(t)]
    BY <2>2, <2>3
  <2>5. OnlyMoves(w) /\ Written(w)
    BY <2>1, <2>3, <2>4 DEF Written, Wanted
  <2>6. JobFact(t) \subseteq landed' /\ landed \subseteq landed' /\ t \in 0..Started' /\ t # 0
    BY <1>2, <1>3, <2>1
  <2>7. /\ \A k \in places : Listed(k)'
        /\ Notes!PlaceFacts(Wanted(t)) \subseteq DOMAIN Wanted(t)
    BY <1>1 DEF NotesTypes, PlacesListed, Listed, Notes!PlaceFacts
  <2>8. JobTyped(writer[w])'
    BY <2>4, <2>6, <2>7 DEF JobTyped, Wanted
  <2>9. JobsTyped'
    BY <1>1, <1>2, <2>5, <2>8, <2>6, JobsStay DEF NotesTypes, PlacesListed
  <2>10. FactsLanded'
    BY <1>1, <1>2, <1>3, <2>1 DEF NotesTypes, FactsLanded, JobFact
  <2> QED BY <1>2, <2>5, <2>9, <2>10 DEF NotesTypes
<1>6. CASE Said[t].job = None /\ Notes!PlaceFacts(Said[t].wanted) = {}
  BY <1>4, <1>6 DEF Notes!PostUser
<1> QED BY <1>5, <1>6

-----------------------------------------------------------------------------
(* One place.                                                              *)

(* A set of numbers that is not empty has a least one.                     *)
Less == {ss \in Nat \X Nat : ss[1] < ss[2]}

LEMMA NatWF == IsWellFoundedOn(Less, Nat)
BY NatLessThanWellFounded DEF OpToRel, Less

LEMMA Least ==
  ASSUME NEW T \in SUBSET Nat, T # {}
  PROVE  \E x \in T : \A y \in T : x <= y
<1>1. PICK x \in T : \A y \in T : ~ (<<y, x>> \in Less)
  BY NatWF, WFMin
<1>2. ASSUME NEW y \in T PROVE x <= y
  <2>1. x \in Nat /\ y \in Nat
    OBVIOUS
  <2>2. <<y, x>> \notin Less
    BY <1>1
  <2>3. ~ (y < x)
    BY <2>1, <2>2 DEF Less
  <2> QED BY <2>1, <2>3
<1> QED BY <1>2

(* The last name of a place said several times is one that was said.       *)
LEMMA WishTyped ==
  ASSUME NEW t \in 1..Turns, NEW i \in DOMAIN Wanted(t)
  PROVE  /\ Notes!Wish(Wanted(t), i).kind = Wanted(t)[i].kind
         /\ Notes!Wish(Wanted(t), i).said = Wanted(t)[i].said
         /\ Wanted(t)[i].kind \in Notes!PlaceKinds
         /\ Notes!IsHome(Notes!Wish(Wanted(t), i)) <=> Notes!IsHome(Wanted(t)[i])
<1>1. Wanted(t)[i] \in Notes!Wishes
  BY SaidFacts
<1> QED BY <1>1 DEF Notes!Wish, Notes!Wishes, Notes!IsHome

(* What the request of one place does: it is passed over, patched, added,  *)
(* or refused, which ends the job.                                         *)
Fact(w, p) == <<writer[w].turn, p.kind, p.said>>
PlaceLands(w, i, p) ==
  /\ writer'[w] = [turn |-> writer[w].turn, at |-> "places", known |-> writer[w].known,
                   left |-> writer[w].left \ {i}, applied |-> writer[w].applied \cup {Fact(w, p)}]
  /\ landed' = landed \cup {Fact(w, p)}
Passed(w, i) ==
  /\ writer'[w] = [turn |-> writer[w].turn, at |-> "places", known |-> writer[w].known,
                   left |-> writer[w].left \ {i}, applied |-> writer[w].applied]
  /\ UNCHANGED <<places, nextPlace, landed>>
Moved(q, p) ==
  [id |-> q.id, kind |-> p.kind, label |-> IF Notes!IsHome(p) THEN q.label ELSE Notes!Label(p), where |-> p.said]
Patched(w, i, p) ==
  /\ PlaceLands(w, i, p) /\ UNCHANGED nextPlace
  /\ \E k \in Notes!Same(writer[w].known, p) :
       places' = {IF q.id = k.id THEN Moved(q, p) ELSE q : q \in places}
Added(w, i, p) ==
  /\ PlaceLands(w, i, p) /\ nextPlace' = nextPlace + 1
  /\ Notes!Same(writer[w].known, p) = {}
  /\ places' = places \cup {[id |-> nextPlace, kind |-> p.kind, label |-> Notes!Label(p), where |-> p.said]}
Refused(w) == writer'[w] = Notes!Resting /\ UNCHANGED <<places, nextPlace, landed>>

LEMMA MovedPlace ==
  ASSUME NEW q, Listed(q), NEW p
  PROVE  [q EXCEPT !.kind = p.kind, !.where = p.said,
                   !.label = IF Notes!IsHome(p) THEN @ ELSE Notes!Label(p)] = Moved(q, p)
<1> DEFINE label == IF Notes!IsHome(p) THEN q.label ELSE Notes!Label(p)
           r == [q EXCEPT !.kind = p.kind, !.where = p.said, !.label = label]
<1>1. r = [q EXCEPT !.kind = p.kind, !.where = p.said,
                    !.label = IF Notes!IsHome(p) THEN @ ELSE Notes!Label(p)]
  OBVIOUS
<1>2. q = [id |-> q.id, kind |-> q.kind, label |-> q.label, where |-> q.where]
  BY DEF Listed
<1> HIDE DEF label
<1>3. r.id = q.id /\ r.kind = p.kind /\ r.where = p.said /\ r.label = label
  BY <1>2
<1>4. r = [x \in {"id", "kind", "label", "where"} |-> r[x]]
  BY <1>2
<1> HIDE DEF r
<1>5. r = [id |-> q.id, kind |-> p.kind, label |-> label, where |-> p.said]
  BY <1>3, <1>4
<1> QED BY <1>1, <1>5 DEF Moved, label, r

LEMMA PlaceKnown ==
  ASSUME NotesTypes, NEW w \in Writers, NEW p, Notes!Same(writer[w].known, p) # {}
  PROVE  (CHOOSE k \in Notes!Same(writer[w].known, p) : \A q \in Notes!Same(writer[w].known, p) : k.id <= q.id)
           \in Notes!Same(writer[w].known, p)
<1> DEFINE S == Notes!Same(writer[w].known, p)
           T == {k.id : k \in S}
<1>1. S \subseteq writer[w].known /\ \A k \in writer[w].known : k.id \in Nat
  BY DEF Notes!Same, NotesTypes, JobsTyped, JobTyped, Listed, PlacesListed
<1>2. T \in SUBSET Nat /\ T # {}
  BY <1>1
<1>3. PICK x \in T : \A y \in T : x <= y
  BY <1>2, Least
<1>4. \A q \in S : q.id \in T
  OBVIOUS
<1>5. PICK k \in S : k.id = x
  BY <1>3
<1> HIDE DEF S, T
<1>6. \E q \in S : \A r \in S : q.id <= r.id
  BY <1>3, <1>4, <1>5
<1> QED BY <1>6 DEF S

LEMMA PutPlaceOnce ==
  ASSUME NotesTypes, NEW w \in Writers, Notes!PutPlace(w)
  PROVE  /\ OnlyMoves(w) /\ UNCHANGED <<asked, queue, field, updates, overlapped>> /\ writer[w].at = "places"
         /\ \E i \in writer[w].left :
              /\ Notes!Foremost(Wanted(writer[w].turn), i, writer[w].left)
              /\ LET p == Notes!Wish(Wanted(writer[w].turn), i)
                 IN  Passed(w, i) \/ Patched(w, i, p) \/ Added(w, i, p) \/ Refused(w)
<1> DEFINE wanted == Wanted(writer[w].turn)
           p(i) == Notes!Wish(wanted, i)
           S(i) == Notes!Same(writer[w].known, p(i))
           first(i) == CHOOSE k \in S(i) : \A q \in S(i) : k.id <= q.id
<1>1. UNCHANGED <<asked, queue, field, updates, overlapped>> /\ writer[w].at = "places"
  BY DEF Notes!PutPlace
<1>2. PICK i \in writer[w].left :
        /\ Notes!Foremost(wanted, i, writer[w].left)
        /\ \/ /\ writer' = [writer EXCEPT ![w].left = @ \ {i}]
              /\ UNCHANGED <<places, nextPlace, landed>>
           \/ S(i) # {} /\ Notes!Patch(w, i, p(i), first(i).id) /\ UNCHANGED nextPlace
           \/ S(i) = {} /\ Notes!Post(w, i, p(i))
  BY DEF Notes!PutPlace, Wanted
<1>3. /\ w \in DOMAIN writer /\ DOMAIN writer = Writers
      /\ writer[w] = [turn |-> writer[w].turn, at |-> "places", known |-> writer[w].known,
                      left |-> writer[w].left, applied |-> writer[w].applied]
  BY <1>1 DEF NotesTypes, JobsTyped, JobTyped
<1>4. CASE writer' = [writer EXCEPT ![w].left = @ \ {i}] /\ UNCHANGED <<places, nextPlace, landed>>
  BY <1>1, <1>2, <1>3, <1>4 DEF OnlyMoves, Passed
<1>5. ASSUME Notes!Applied(w, i, p(i)) PROVE OnlyMoves(w) /\ PlaceLands(w, i, p(i))
  <2> DEFINE f == Fact(w, p(i))
             x == [writer[w] EXCEPT !.left = writer[w].left \ {i}, !.applied = writer[w].applied \cup {f}]
  <2> HIDE DEF p
  <2>1. writer' = [writer EXCEPT ![w] = x] /\ landed' = landed \cup {f}
    BY <1>5 DEF Notes!Applied, Fact
  <2> HIDE DEF f
  <2>2. x = [turn |-> writer[w].turn, at |-> "places", known |-> writer[w].known,
             left |-> writer[w].left \ {i}, applied |-> writer[w].applied \cup {f}]
    <3> DEFINE r == writer[w]
               l == r.left \ {i}
               a == r.applied \cup {f}
    <3>1. r = [turn |-> r.turn, at |-> "places", known |-> r.known, left |-> r.left, applied |-> r.applied]
      BY <1>3
    <3>2. x = [r EXCEPT !.left = l, !.applied = a]
      OBVIOUS
    <3> HIDE DEF r, l, a, x
    <3>3. x.turn = r.turn /\ x.at = "places" /\ x.known = r.known /\ x.left = l /\ x.applied = a
      BY <3>1, <3>2
    <3>4. x = [y \in {"turn", "at", "known", "left", "applied"} |-> x[y]]
      BY <3>1, <3>2
    <3>5. x = [turn |-> r.turn, at |-> "places", known |-> r.known, left |-> l, applied |-> a]
      BY <3>3, <3>4
    <3> QED BY <3>5 DEF r, l, a
  <2> HIDE DEF x
  <2>3. OnlyMoves(w) /\ writer'[w] = x
    <3>1. w \in DOMAIN writer /\ DOMAIN writer = Writers
      BY <1>3
    <3> QED BY <2>1, <3>1 DEF OnlyMoves
  <2> QED BY <2>1, <2>2, <2>3 DEF PlaceLands, f
<1>6. CASE S(i) # {} /\ Notes!Patch(w, i, p(i), first(i).id) /\ UNCHANGED nextPlace
  <2>1. first(i) \in S(i)
    BY <1>6, PlaceKnown
  <2> HIDE DEF p, first, S
  <2>2. CASE \E k \in places : k.id = first(i).id
    <3>1. /\ Notes!Applied(w, i, p(i))
          /\ places' = {IF k.id = first(i).id
                        THEN [k EXCEPT !.kind = p(i).kind, !.where = p(i).said,
                                       !.label = IF Notes!IsHome(p(i)) THEN @ ELSE Notes!Label(p(i))]
                        ELSE k : k \in places}
      BY <1>6, <2>2 DEF Notes!Patch
    <3>2. \A k \in places : Listed(k)
      BY DEF NotesTypes, PlacesListed
    <3>3. places' = {IF k.id = first(i).id THEN Moved(k, p(i)) ELSE k : k \in places}
      <4>1. \A k \in places :
              [k EXCEPT !.kind = p(i).kind, !.where = p(i).said,
                        !.label = IF Notes!IsHome(p(i)) THEN @ ELSE Notes!Label(p(i))] = Moved(k, p(i))
        BY <3>2, MovedPlace
      <4>2. \A k \in places : IF k.id = first(i).id
              THEN [k EXCEPT !.kind = p(i).kind, !.where = p(i).said,
                             !.label = IF Notes!IsHome(p(i)) THEN @ ELSE Notes!Label(p(i))] = Moved(k, p(i))
              ELSE TRUE
        BY <4>1
      <4> QED BY <3>1, <4>2
    <3>4. Patched(w, i, p(i))
      BY <1>5, <1>6, <2>1, <3>1, <3>3 DEF Patched, S
    <3> QED BY <1>1, <1>2, <1>5, <3>1, <3>4 DEF p
  <2>3. CASE ~ \E k \in places : k.id = first(i).id
    <3>1. Notes!Done(w) /\ UNCHANGED <<places, nextPlace, landed>>
      BY <1>6, <2>3 DEF Notes!Patch
    <3>2. OnlyMoves(w) /\ Refused(w)
      BY <1>3, <3>1 DEF Notes!Done, OnlyMoves, Refused
    <3> QED BY <1>1, <1>2, <3>2
  <2> QED BY <2>2, <2>3
<1>7. CASE S(i) = {} /\ Notes!Post(w, i, p(i))
  <2>1. Notes!Applied(w, i, p(i))
    BY <1>7 DEF Notes!Post
  <2>2. Added(w, i, p(i))
    BY <1>5, <1>7, <2>1 DEF Notes!Post, Added
  <2> QED BY <1>1, <1>2, <1>5, <2>1, <2>2
<1> QED BY <1>2, <1>4, <1>6, <1>7

LEMMA PutPlaceTypes ==
  ASSUME NotesTypes, NEW w \in Writers, Notes!PutPlace(w)
  PROVE  NotesTypes'
<1> DEFINE t == writer[w].turn
           p(i) == Notes!Wish(Wanted(t), i)
<1>1. /\ OnlyMoves(w) /\ UNCHANGED <<asked, queue, field, updates, overlapped>> /\ writer[w].at = "places"
      /\ \E i \in writer[w].left : Passed(w, i) \/ Patched(w, i, p(i)) \/ Added(w, i, p(i)) \/ Refused(w)
  BY PutPlaceOnce
<1>2. QueueInOrder' /\ Started' = Started /\ Started \in Nat /\ t \in 1..Started /\ t \in 1..Turns
  BY <1>1, QueueStays, JobTurn
<1>3. PICK i \in writer[w].left : Passed(w, i) \/ Patched(w, i, p(i)) \/ Added(w, i, p(i)) \/ Refused(w)
  BY <1>1
<1>4. /\ writer[w].left \subseteq DOMAIN Wanted(t) /\ writer[w].applied \subseteq landed
      /\ \A k \in writer[w].known : Listed(k)
      /\ nextPlace \in Nat \ {0}
  BY <1>1 DEF NotesTypes, JobsTyped, JobTyped, PlacesListed
<1>5. p(i).kind \in Notes!PlaceKinds
  BY <1>2, <1>3, <1>4, WishTyped
<1>6. /\ landed' = landed \/ landed' = landed \cup {Fact(w, p(i))}
      /\ nextPlace' = nextPlace \/ nextPlace' = nextPlace + 1
  BY <1>3 DEF Passed, Patched, Added, PlaceLands, Refused
<1>7. FactsLanded'
  BY <1>1, <1>2, <1>6 DEF FactsLanded, NotesTypes, Fact
<1>8. JobTyped(writer[w])'
  <2>1. \A k \in writer[w].known : Listed(k)'
    BY <1>4, <1>6 DEF Listed
  <2> HIDE DEF p
  <2>2. CASE Passed(w, i)
    BY <1>2, <1>4, <2>1, <2>2 DEF JobTyped, Passed, Wanted
  <2>3. CASE PlaceLands(w, i, p(i))
    BY <1>2, <1>4, <2>1, <2>3 DEF JobTyped, PlaceLands, Wanted
  <2>4. CASE Refused(w)
    BY <1>2, <2>4 DEF JobTyped, Refused, Notes!Resting
  <2> QED BY <1>3, <2>2, <2>3, <2>4 DEF Patched, Added
<1>9. JobsTyped'
  BY <1>1, <1>2, <1>4, <1>6, <1>8, JobsStay
<1>10. PlacesListed'
  <2> HIDE DEF p
  <2>1. CASE UNCHANGED <<places, nextPlace>>
    BY <2>1, PlacesStay
  <2>2. CASE Patched(w, i, p(i))
    <3>1. PICK k \in Notes!Same(writer[w].known, p(i)) :
            places' = {IF q.id = k.id THEN Moved(q, p(i)) ELSE q : q \in places}
      BY <2>2 DEF Patched
    <3>2. \A q \in places : Listed(q)
      BY DEF NotesTypes, PlacesListed
    <3>3. ASSUME NEW q \in places'
          PROVE  Listed(q)' /\ \E o \in places : q.id = o.id /\ q = IF o.id = k.id THEN Moved(o, p(i)) ELSE o
      BY <1>5, <2>2, <3>1, <3>2 DEF Listed, Moved, Patched
    <3>4. ASSUME NEW q \in places', NEW r \in places', q.id = r.id PROVE q = r
      BY <3>2, <3>3, <3>4 DEF Listed, NotesTypes, PlacesListed
    <3> QED BY <1>4, <2>2, <3>3, <3>4 DEF PlacesListed, Patched
  <2>3. CASE Added(w, i, p(i))
    BY <1>4, <1>5, <2>3 DEF Added, NotesTypes, PlacesListed, Listed
  <2> QED BY <1>3, <2>1, <2>2, <2>3 DEF Passed, Refused
<1> QED BY <1>2, <1>7, <1>9, <1>10 DEF NotesTypes

-----------------------------------------------------------------------------
(* The last said stays.                                                    *)

(* What is recorded does not change and no place moves.                    *)
LEMMA SaidStays ==
  ASSUME NotesTypes, UNCHANGED <<landed, field>>, places' \subseteq places,
         asked' \in Nat, asked' >= asked, LastJobKept, LastHomeKept, OneHome(places)
  PROVE  LastJobKept' /\ LastHomeKept' /\ OneHome(places)'
<1>1. asked \in Nat /\ Started \in Nat /\ Started <= asked
  BY SaidFacts, LenProperties DEF NotesTypes, QueueInOrder, Started
<1>2. JobTurns' = JobTurns /\ HomeTurns' = HomeTurns
  <2>1. \A fact \in landed : fact[1] \in 1..asked
    BY <1>1 DEF NotesTypes, FactsLanded
  <2>2. \A u : <<u, "job", None>> \in landed => u \in 1..asked
    BY <2>1
  <2> QED BY <1>1, <2>1, <2>2 DEF JobTurns, HomeTurns
<1>3. JobTurns \subseteq 1..asked /\ HomeTurns \subseteq 1..asked
  BY DEF JobTurns, HomeTurns
<1>4. LastJobKept'
  BY <1>2, <1>3 DEF LastJobKept, Notes!Newest
<1>5. LastHomeKept'
  BY <1>2, <1>3 DEF LastHomeKept, Notes!Newest, Wanted
<1> QED BY <1>4, <1>5 DEF OneHome

LEMMA AnsweredSaid ==
  ASSUME NotesTypes, SaidInv, Notes!Answered, NotesTypes'
  PROVE  SaidInv'
<1>1. SUFFICES ASSUME ~ overlapped PROVE SaidInv'
  BY DEF Notes!Answered, SaidInv
<1>2. Started' = Started
  BY AnsweredTypes
<1>3. LastJobKept' /\ LastHomeKept' /\ OneHome(places)'
  BY <1>1, SaidFacts, SaidStays DEF Notes!Answered, SaidInv, NotesTypes, QueueInOrder
<1>4. AtWorkAlone'
  BY <1>1, <1>2 DEF Notes!Answered, SaidInv, AtWorkAlone, KnowsPlaces, OneHome, HomeLeft, Wanted
<1> QED BY <1>3, <1>4 DEF SaidInv

LEMMA DeletePlaceSaid ==
  ASSUME NotesTypes, SaidInv, Notes!DeletePlace, NotesTypes'
  PROVE  SaidInv'
<1>1. SUFFICES ASSUME ~ overlapped PROVE SaidInv'
  BY DEF Notes!DeletePlace, SaidInv
<1>2. Started' = Started
  BY DeletePlaceTypes
<1>3. LastJobKept' /\ LastHomeKept' /\ OneHome(places)'
  BY <1>1, SaidFacts, SaidStays DEF Notes!DeletePlace, SaidInv, NotesTypes, QueueInOrder
<1>4. AtWorkAlone'
  BY <1>1, <1>2 DEF Notes!DeletePlace, SaidInv, AtWorkAlone, KnowsPlaces, OneHome, HomeLeft, Wanted
<1> QED BY <1>3, <1>4 DEF SaidInv

(* A job begins alone, or the two overlap for good.                        *)
LEMMA TakeSaid ==
  ASSUME NotesTypes, SaidInv, NEW w \in Writers, Notes!Take(w), NotesTypes'
  PROVE  SaidInv'
<1>1. SUFFICES ASSUME ~ overlapped, \A v \in Writers \ {w} : writer[v].at = "rest" PROVE SaidInv'
  BY DEF Notes!Take, SaidInv
<1>2. /\ OnlyMoves(w) /\ writer'[w].turn = Started' /\ writer'[w].at = "extract"
      /\ UNCHANGED <<asked, places, landed, field>>
  <2>1. writer'[w] = [turn |-> Started', at |-> "extract", known |-> {}, left |-> {}, applied |-> {}]
    BY TakeTypes
  <2>2. writer'[w].turn = Started' /\ writer'[w].at = "extract"
    BY <2>1
  <2>3. OnlyMoves(w)
    BY TakeTypes
  <2>4. UNCHANGED <<asked, places, landed, field>>
    BY DEF Notes!Take
  <2> QED BY <2>2, <2>3, <2>4
<1>3. LastJobKept' /\ LastHomeKept' /\ OneHome(places)'
  BY <1>1, <1>2, SaidFacts, SaidStays DEF SaidInv, NotesTypes, QueueInOrder
<1>4. AtWorkAlone'
  BY <1>1, <1>2 DEF AtWorkAlone, OnlyMoves
<1> QED BY <1>3, <1>4 DEF SaidInv

(* A job that ends leaves no thread at work.                               *)
LEMMA DoneSaid ==
  ASSUME NotesTypes, SaidInv, NEW w \in Writers, writer[w].at # "rest", OnlyMoves(w), writer'[w] = Notes!Resting,
         UNCHANGED <<asked, queue, places, landed, field, overlapped>>
  PROVE  SaidInv'
<1>1. SUFFICES ASSUME ~ overlapped PROVE SaidInv'
  BY DEF SaidInv
<1>2. LastJobKept' /\ LastHomeKept' /\ OneHome(places)'
  BY <1>1, SaidFacts, SaidStays DEF SaidInv, NotesTypes, QueueInOrder
<1>3. \A v \in Writers : writer'[v].at = "rest"
  BY <1>1 DEF SaidInv, AtWorkAlone, OnlyMoves, Notes!Resting
<1>4. AtWorkAlone'
  BY <1>3 DEF AtWorkAlone
<1> QED BY <1>2, <1>4 DEF SaidInv

(* The patch of the fields is that of the exchange begun last.             *)
LEMMA PostUserSaid ==
  ASSUME NotesTypes, SaidInv, NEW w \in Writers, Notes!PostUser(w), NotesTypes'
  PROVE  SaidInv'
<1> DEFINE t == writer[w].turn
<1>1. /\ UNCHANGED <<asked, queue, places, nextPlace, overlapped>> /\ writer[w].at = "extract" /\ OnlyMoves(w)
      /\ \/ writer'[w] = Notes!Resting /\ UNCHANGED <<field, landed>>
         \/ Written(w)
  BY PostUserTypes DEF Notes!PostUser
<1>2. CASE writer'[w] = Notes!Resting /\ UNCHANGED <<field, landed>>
  BY <1>1, <1>2, DoneSaid
<1>3. CASE Written(w)
  <2>1. SUFFICES ASSUME ~ overlapped PROVE SaidInv'
    BY <1>1 DEF SaidInv
  <2>2. /\ t = Started /\ t \in 1..asked /\ t \in 1..Turns /\ Started' = Started
        /\ \A v \in Writers \ {w} : writer[v].at = "rest"
        /\ OneHome(places)
    BY <1>1, <2>1, JobTurn, QueueStays DEF SaidInv, AtWorkAlone
  <2>3. /\ writer'[w].turn = t /\ writer'[w].at = "places" /\ writer'[w].known = places
        /\ writer'[w].left = Notes!PlaceFacts(Wanted(t))
    BY <1>3 DEF Written
  <2>4. KnowsPlaces(w)'
    <3>1. ASSUME NEW i \in Notes!PlaceFacts(Wanted(t)), Notes!IsHome(Wanted(t)[i])
          PROVE  Notes!LastHome(i, Wanted(t))
      BY <3>1 DEF Notes!PlaceFacts, Notes!LastHome
    <3> QED BY <1>1, <2>2, <2>3, <3>1 DEF KnowsPlaces, OneHome, Wanted, NotesTypes, PlacesListed
  <2>5. AtWorkAlone'
    BY <1>1, <2>2, <2>3, <2>4 DEF AtWorkAlone, OnlyMoves
  <2>6. \A u : <<u, "job", None>> \in landed' <=>
                 (<<u, "job", None>> \in landed \/ (u = t /\ Said[t].job # None))
    <3>1. landed' = landed \cup JobFact(t)
      BY <1>3 DEF Written
    <3>2. CASE Said[t].job = None
      <4>1. JobFact(t) = {}
        BY <3>2 DEF JobFact
      <4>2. landed' = landed
        BY <3>1, <4>1
      <4> QED BY <3>2, <4>2
    <3>3. CASE Said[t].job # None
      <4>1. \A u : <<u, "job", None>> = <<t, "job", None>> <=> u = t
        OBVIOUS
      <4>2. landed' = landed \cup {<<t, "job", None>>}
        BY <3>1, <3>3 DEF JobFact
      <4> QED BY <3>3, <4>1, <4>2
    <3> QED BY <3>2, <3>3
  <2>7. LastJobKept'
    <3>1. \A u \in JobTurns : u <= t
      BY <2>2 DEF JobTurns, NotesTypes, FactsLanded
    <3>2. CASE Said[t].job = None
      <4>1. JobTurns' = JobTurns /\ field' = field
        BY <1>1, <1>3, <2>6, <3>2 DEF JobTurns, Written
      <4> QED BY <1>1, <2>1, <4>1 DEF SaidInv, LastJobKept
    <3>3. CASE Said[t].job # None
      <4>1. JobTurns' = JobTurns \cup {t} /\ field' = Said[t].job
        BY <1>1, <1>3, <2>2, <2>6, <3>3 DEF JobTurns, Written
      <4>2. \A u \in 1..asked' : Notes!Newest(u, JobTurns') => u = t
        <5>1. t \in Nat /\ asked' = asked /\ asked \in Nat
          BY <1>1, <2>2 DEF NotesTypes, QueueInOrder
        <5> QED BY <3>1, <4>1, <5>1 DEF Notes!Newest
      <4> QED BY <4>1, <4>2 DEF LastJobKept
    <3> QED BY <3>2, <3>3
  <2>8. LastHomeKept' /\ OneHome(places)'
    <3>1. \A fact \in landed' : fact \in landed \/ fact[2] = "job"
      BY <1>3 DEF Written, JobFact
    <3>2. HomeTurns' = HomeTurns
      BY <1>1, <1>3, <3>1 DEF HomeTurns, Written
    <3> QED BY <1>1, <2>1, <3>2 DEF SaidInv, LastHomeKept, OneHome, Wanted
  <2> QED BY <2>5, <2>7, <2>8 DEF SaidInv
<1> QED BY <1>1, <1>2, <1>3

(* The thread at work knows the places as before, and no home is left.     *)
LEMMA StillKnows ==
  ASSUME NEW w \in Writers, NEW i, OnlyMoves(w), \A v \in Writers \ {w} : writer[v].at = "rest",
         writer[w].turn = Started, Started' = Started, KnowsPlaces(w), ~ HomeLeft(w)', UNCHANGED <<asked, queue>>,
         writer'[w].turn = writer[w].turn, writer'[w].at = "places", writer'[w].known = writer[w].known,
         writer'[w].left = writer[w].left \ {i},
         \A k \in writer[w].known, q \in places' : k.id = q.id => k.kind = q.kind
  PROVE  AtWorkAlone'
<1>1. KnowsPlaces(w)'
  BY DEF KnowsPlaces, OneHome, Wanted
<1> QED BY <1>1 DEF AtWorkAlone, OnlyMoves

(* The rows after a patch or a new place.                                  *)
RowWritten(w, p) ==
  \/ \E k \in Notes!Same(writer[w].known, p) :
       places' = {IF q.id = k.id THEN Moved(q, p) ELSE q : q \in places}
  \/ /\ Notes!Same(writer[w].known, p) = {}
     /\ places' = places \cup {[id |-> nextPlace, kind |-> p.kind, label |-> Notes!Label(p), where |-> p.said]}

LEMMA HomeRows ==
  ASSUME NotesTypes, NEW w \in Writers, KnowsPlaces(w), HomeLeft(w), NEW p, Notes!IsHome(p), RowWritten(w, p)
  PROVE  /\ \A q \in places' : Notes!IsHome(q) => q.where = p.said
         /\ OneHome(places)'
         /\ \A k \in writer[w].known, q \in places' : k.id = q.id => k.kind = q.kind
<1>1. \A q \in places : Notes!IsHome(q) => \E k \in writer[w].known : k.id = q.id /\ Notes!IsHome(k)
  BY DEF KnowsPlaces, Notes!IsHome
<1>2. Notes!Same(writer[w].known, p) = {k \in writer[w].known : Notes!IsHome(k)}
  BY DEF Notes!Same, Notes!IsHome
<1>3. CASE \E k \in Notes!Same(writer[w].known, p) :
             places' = {IF q.id = k.id THEN Moved(q, p) ELSE q : q \in places}
  <2>1. PICK k \in writer[w].known :
          Notes!IsHome(k) /\ places' = {IF q.id = k.id THEN Moved(q, p) ELSE q : q \in places}
    BY <1>2, <1>3
  <2>2. \A q \in places : Notes!IsHome(q) <=> q.id = k.id
    BY <1>1, <2>1 DEF KnowsPlaces, OneHome, Notes!IsHome
  <2>3. ASSUME NEW q \in places'
        PROVE  \E o \in places :
                 q.id = o.id /\ q.kind = o.kind /\ (Notes!IsHome(q) => q.id = k.id /\ q.where = p.said)
    <3>1. PICK o \in places : q = IF o.id = k.id THEN Moved(o, p) ELSE o
      BY <2>1
    <3>2. CASE o.id = k.id
      BY <2>2, <3>1, <3>2 DEF Moved, Notes!IsHome
    <3>3. CASE o.id # k.id
      BY <2>2, <3>1, <3>3
    <3> QED BY <3>2, <3>3
  <2> QED BY <2>3 DEF OneHome, KnowsPlaces
<1>4. CASE /\ Notes!Same(writer[w].known, p) = {}
           /\ places' = places \cup {[id |-> nextPlace, kind |-> p.kind, label |-> Notes!Label(p), where |-> p.said]}
  <2>1. \A q \in places : ~ Notes!IsHome(q)
    BY <1>1, <1>2, <1>4
  <2>2. \A k \in writer[w].known : k.id # nextPlace
    BY DEF NotesTypes, JobsTyped, JobTyped, Listed, PlacesListed
  <2> QED BY <1>4, <2>1, <2>2 DEF OneHome, Notes!IsHome, KnowsPlaces
<1> QED BY <1>3, <1>4 DEF RowWritten

LEMMA FrequentRows ==
  ASSUME NotesTypes, NEW w \in Writers, KnowsPlaces(w), OneHome(places), NEW p, ~ Notes!IsHome(p),
         p.kind \in Notes!PlaceKinds, RowWritten(w, p)
  PROVE  /\ \A q \in places' : Notes!IsHome(q) => q \in places
         /\ OneHome(places)'
         /\ \A k \in writer[w].known, q \in places' : k.id = q.id => k.kind = q.kind
<1>1. \A k \in writer[w].known : k.kind \in {"home", "frequent"} /\ k.id # nextPlace
  BY DEF NotesTypes, JobsTyped, JobTyped, Listed, PlacesListed, Notes!PlaceKinds
<1>2. \A k \in Notes!Same(writer[w].known, p) : k \in writer[w].known /\ k.kind = "frequent" /\ p.kind = "frequent"
  BY <1>1 DEF Notes!Same, Notes!IsHome, Notes!PlaceKinds
<1>3. CASE \E k \in Notes!Same(writer[w].known, p) :
             places' = {IF q.id = k.id THEN Moved(q, p) ELSE q : q \in places}
  <2>1. PICK k \in writer[w].known :
          /\ k.kind = "frequent" /\ p.kind = "frequent"
          /\ places' = {IF q.id = k.id THEN Moved(q, p) ELSE q : q \in places}
    BY <1>2, <1>3
  <2>2. ASSUME NEW q \in places'
        PROVE  \E o \in places : q.id = o.id /\ q.kind = o.kind /\ (Notes!IsHome(q) => q = o)
    <3>1. PICK o \in places : q = IF o.id = k.id THEN Moved(o, p) ELSE o
      BY <2>1
    <3>2. CASE o.id = k.id
      BY <2>1, <3>1, <3>2 DEF Moved, Notes!IsHome, KnowsPlaces
    <3>3. CASE o.id # k.id
      BY <3>1, <3>3
    <3> QED BY <3>2, <3>3
  <2> QED BY <2>2 DEF OneHome, KnowsPlaces
<1>4. CASE places' = places \cup {[id |-> nextPlace, kind |-> p.kind, label |-> Notes!Label(p), where |-> p.said]}
  BY <1>1, <1>4 DEF OneHome, Notes!IsHome, KnowsPlaces
<1> QED BY <1>3, <1>4 DEF RowWritten

(* Of one place: only the home that comes first is written as the home; it *)
(* is the last one said in this exchange, the last begun.                  *)
LEMMA PutPlaceSaid ==
  ASSUME NotesTypes, SaidInv, NEW w \in Writers, Notes!PutPlace(w), NotesTypes'
  PROVE  SaidInv'
<1> DEFINE t == writer[w].turn
           said == Wanted(t)
           p(i) == Notes!Wish(said, i)
<1>1. /\ OnlyMoves(w) /\ UNCHANGED <<asked, queue, field, updates, overlapped>> /\ writer[w].at = "places"
      /\ \E i \in writer[w].left :
           /\ Notes!Foremost(said, i, writer[w].left)
           /\ Passed(w, i) \/ Patched(w, i, p(i)) \/ Added(w, i, p(i)) \/ Refused(w)
  BY PutPlaceOnce
<1>2. PICK i \in writer[w].left :
        /\ Notes!Foremost(said, i, writer[w].left)
        /\ Passed(w, i) \/ Patched(w, i, p(i)) \/ Added(w, i, p(i)) \/ Refused(w)
  BY <1>1
<1>3. CASE Refused(w)
  BY <1>1, <1>3, DoneSaid DEF Refused
<1>4. CASE ~ Refused(w)
  <2>1. SUFFICES ASSUME ~ overlapped PROVE SaidInv'
    BY <1>1 DEF SaidInv
  <2>2. /\ t = Started /\ t \in 1..asked /\ t \in 1..Turns /\ Started' = Started
        /\ \A v \in Writers \ {w} : writer[v].at = "rest"
        /\ KnowsPlaces(w) /\ OneHome(places) /\ LastJobKept /\ LastHomeKept
    BY <1>1, <2>1, JobTurn, QueueStays DEF SaidInv, AtWorkAlone
  <2>3. /\ writer[w].left \subseteq DOMAIN said /\ i \in DOMAIN said
        /\ \A k \in writer[w].known : Listed(k)
    BY <1>1, <1>2 DEF NotesTypes, JobsTyped, JobTyped
  <2>4. /\ p(i).kind = said[i].kind /\ p(i).said = said[i].said
        /\ Notes!IsHome(p(i)) <=> Notes!IsHome(said[i])
    BY <2>2, <2>3, WishTyped
  <2>5. /\ writer'[w].turn = t /\ writer'[w].at = "places" /\ writer'[w].known = writer[w].known
        /\ writer'[w].left = writer[w].left \ {i}
    BY <1>2, <1>4 DEF Passed, Patched, Added, PlaceLands
  <2>6. ASSUME NEW j \in writer[w].left \ {i} PROVE ~ Notes!IsHome(said[j])
    <3>1. j \in Nat /\ i \in Nat /\ j # i /\ j \in DOMAIN said
      BY <2>2, <2>3, SaidFacts
    <3>2. CASE ~ Notes!IsHome(said[i])
      BY <1>2, <3>2 DEF Notes!Foremost
    <3>3. CASE Notes!IsHome(said[i])
      <4>1. SUFFICES ASSUME Notes!IsHome(said[j]) PROVE FALSE
        OBVIOUS
      <4>2. Notes!LastHome(i, said) /\ Notes!LastHome(j, said)
        BY <2>2, <3>3, <4>1 DEF KnowsPlaces
      <4>3. ~ (j > i) /\ ~ (i > j)
        BY <2>3, <3>1, <4>2 DEF Notes!LastHome
      <4> QED BY <3>1, <4>3
    <3> QED BY <3>2, <3>3
  <2>7. ~ HomeLeft(w)'
    BY <2>5, <2>6 DEF HomeLeft, Wanted
  <2> HIDE DEF p
  <2>8. CASE Passed(w, i)
    <3>1. LastJobKept' /\ LastHomeKept' /\ OneHome(places)'
      BY <1>1, <2>2, <2>8, SaidFacts, SaidStays DEF Passed, NotesTypes, QueueInOrder
    <3>2. \A k \in writer[w].known, q \in places' : k.id = q.id => k.kind = q.kind
      BY <2>2, <2>8 DEF Passed, KnowsPlaces
    <3> QED BY <1>1, <2>2, <2>3, <2>5, <2>7, <3>1, <3>2, StillKnows DEF SaidInv
  <2>9. CASE Patched(w, i, p(i)) \/ Added(w, i, p(i))
    <3>1. landed' = landed \cup {Fact(w, p(i))} /\ Fact(w, p(i)) = <<t, said[i].kind, said[i].said>>
      BY <2>4, <2>9 DEF Patched, Added, PlaceLands, Fact
    <3>2. said[i].kind \in {"home", "frequent"}
      BY <2>2, <2>3, SaidFacts DEF Notes!Wishes, Notes!PlaceKinds
    <3>3. JobTurns' = JobTurns /\ LastJobKept'
      <4>1. \A u : <<u, "job", None>> # <<t, said[i].kind, said[i].said>>
        BY <3>2
      <4>2. JobTurns' = JobTurns
        BY <1>1, <3>1, <4>1 DEF JobTurns
      <4> QED BY <1>1, <2>2, <4>2 DEF LastJobKept
    <3>4. RowWritten(w, p(i))
      BY <2>9 DEF RowWritten, Patched, Added
    <3>5. CASE Notes!IsHome(said[i])
      <4>1. HomeLeft(w) /\ Notes!LastHome(i, said)
        BY <2>2, <3>5 DEF HomeLeft, KnowsPlaces
      <4>2. /\ \A q \in places' : Notes!IsHome(q) => q.where = said[i].said
            /\ OneHome(places)'
            /\ \A k \in writer[w].known, q \in places' : k.id = q.id => k.kind = q.kind
        BY <2>2, <2>4, <3>4, <3>5, <4>1, HomeRows
      <4>3. t \in HomeTurns' /\ \A u \in HomeTurns' : u <= t
        <5>1. <<t, said[i].kind, said[i].said>>[1] = t /\ <<t, said[i].kind, said[i].said>>[2] = "home"
          BY <3>5 DEF Notes!IsHome
        <5>2. \A fact \in landed' : fact[1] \in 1..Started'
          BY DEF NotesTypes, FactsLanded
        <5> QED BY <1>1, <2>2, <3>1, <5>1, <5>2 DEF HomeTurns
      <4>4. \A u \in 1..asked' : Notes!Newest(u, HomeTurns') => u = t
        <5>1. t \in Nat /\ asked' = asked /\ asked \in Nat
          BY <1>1, <2>2 DEF NotesTypes, QueueInOrder
        <5> QED BY <4>3, <5>1 DEF Notes!Newest
      <4>5. \A j \in DOMAIN said : Notes!LastHome(j, said) => j = i
        BY <2>2, <2>3, <4>1, SaidFacts DEF Notes!LastHome
      <4>6. LastHomeKept'
        BY <4>2, <4>4, <4>5 DEF LastHomeKept, Wanted
      <4>7. AtWorkAlone'
        BY <1>1, <2>2, <2>5, <2>7, <4>2, StillKnows
      <4> QED BY <3>3, <4>2, <4>6, <4>7 DEF SaidInv
    <3>6. CASE ~ Notes!IsHome(said[i])
      <4>1. /\ \A q \in places' : Notes!IsHome(q) => q \in places
            /\ OneHome(places)'
            /\ \A k \in writer[w].known, q \in places' : k.id = q.id => k.kind = q.kind
        BY <2>2, <2>4, <3>2, <3>4, <3>6, FrequentRows DEF Notes!PlaceKinds
      <4>2. <<t, said[i].kind, said[i].said>>[2] # "home"
        BY <3>6 DEF Notes!IsHome
      <4>3. HomeTurns' = HomeTurns
        BY <1>1, <3>1, <4>2 DEF HomeTurns
      <4>4. LastHomeKept'
        BY <1>1, <2>2, <4>1, <4>3 DEF LastHomeKept, Wanted
      <4>5. AtWorkAlone'
        BY <1>1, <2>2, <2>5, <2>7, <4>1, StillKnows
      <4> QED BY <3>3, <4>1, <4>4, <4>5 DEF SaidInv
    <3> QED BY <3>5, <3>6
  <2> QED BY <1>2, <1>4, <2>8, <2>9
<1> QED BY <1>2, <1>3, <1>4

-----------------------------------------------------------------------------
LEMMA NotesStep ==
  ASSUME NotesTypes, SaidInv, [Notes!Next]_(noteVars)
  PROVE  NotesTypes' /\ SaidInv'
<1>1. CASE UNCHANGED noteVars
  <2>1. NotesTypes'
    BY <1>1 DEF noteVars, NotesTypes, QueueInOrder, PlacesListed, JobsTyped, JobTyped, FactsLanded, Started,
       Wanted, Listed
  <2>2. UNCHANGED <<asked, queue, writer, field, places, landed, overlapped>>
    BY <1>1 DEF noteVars
  <2>3. AtWorkAlone' = AtWorkAlone
    <3>1. Started' = Started
      BY <2>2 DEF Started
    <3>2. ASSUME NEW w \in Writers PROVE KnowsPlaces(w)' = KnowsPlaces(w)
      <4>1. HomeLeft(w)' = HomeLeft(w)
        BY <2>2 DEF HomeLeft, Wanted
      <4> QED BY <2>2, <4>1 DEF KnowsPlaces, OneHome, Wanted
    <3> QED BY <2>2, <3>1, <3>2 DEF AtWorkAlone
  <2>4. OneHome(places)' = OneHome(places)
    BY <2>2 DEF OneHome
  <2>5. LastJobKept' = LastJobKept
    BY <2>2 DEF LastJobKept, JobTurns
  <2>6. LastHomeKept' = LastHomeKept
    <3>1. HomeTurns' = HomeTurns
      BY <2>2 DEF HomeTurns
    <3> QED BY <2>2, <3>1 DEF LastHomeKept, Wanted
  <2>7. SaidInv'
    BY <2>2, <2>3, <2>4, <2>5, <2>6 DEF SaidInv
  <2> QED BY <2>1, <2>7
<1>2. CASE Notes!Answered
  BY <1>2, AnsweredTypes, AnsweredSaid
<1>3. CASE Notes!DeletePlace
  BY <1>3, DeletePlaceTypes, DeletePlaceSaid
<1>4. ASSUME NEW w \in Writers, Notes!Take(w) PROVE NotesTypes' /\ SaidInv'
  BY <1>4, TakeTypes, TakeSaid
<1>5. ASSUME NEW w \in Writers, Notes!PostUser(w) PROVE NotesTypes' /\ SaidInv'
  BY <1>5, PostUserTypes, PostUserSaid
<1>6. ASSUME NEW w \in Writers, Notes!PutPlace(w) PROVE NotesTypes' /\ SaidInv'
  BY <1>6, PutPlaceTypes, PutPlaceSaid
<1>7. ASSUME NEW w \in Writers, Notes!Record(w) PROVE NotesTypes' /\ SaidInv'
  <2>1. /\ writer[w].at # "rest"
        /\ UNCHANGED <<asked, queue, places, landed, field, overlapped>>
    BY <1>7 DEF Notes!Record
  <2> QED BY <1>7, <2>1, RecordTypes, DoneSaid
<1>8. ASSUME NEW w \in Writers, Notes!JobFails(w) PROVE NotesTypes' /\ SaidInv'
  <2>1. /\ writer[w].at # "rest"
        /\ UNCHANGED <<asked, queue, places, landed, field, overlapped>>
    BY <1>8 DEF Notes!JobFails
  <2> QED BY <1>8, <2>1, JobFailsTypes, DoneSaid
<1> QED BY <1>1, <1>2, <1>3, <1>4, <1>5, <1>6, <1>7, <1>8 DEF Notes!Next

LEMMA NotesMove == [Next]_vars => [Notes!Next]_noteVars
BY DEF Next, vars

LEMMA SaidKept == ASSUME NotesTypes, SaidInv PROVE ProfileIsWhatWasSaid
<1> SUFFICES ASSUME Notes!Idle, ~ overlapped PROVE Notes!ProfileIsWhatWasSaid
  BY DEF ProfileIsWhatWasSaid, Notes!ProfileIsWhatWasSaid
<1>1. \A k, q \in places : Notes!IsHome(k) /\ Notes!IsHome(q) => k = q
  BY DEF SaidInv, OneHome, NotesTypes, PlacesListed
<1> QED BY <1>1 DEF Notes!ProfileIsWhatWasSaid, SaidInv, LastJobKept, LastHomeKept, JobTurns, HomeTurns, Wanted

(* Once the pool of threads is idle the profile has one home, and it and   *)
(* the occupation are the last the user said of those that reached the     *)
(* server, unless two threads worked at a time: whatever is said, however  *)
(* many exchanges, threads, failures and deletions (profile_sync.py:8).    *)
THEOREM ProfileAlwaysAsSaid == Spec => []ProfileIsWhatWasSaid
<1>1. Init => NotesTypes /\ SaidInv
  BY NotesInit DEF Init
<1>2. NotesTypes /\ SaidInv /\ [Next]_vars => (NotesTypes /\ SaidInv)'
  BY NotesStep, NotesMove
<1>3. NotesTypes /\ SaidInv => ProfileIsWhatWasSaid
  BY SaidKept
<1> QED BY <1>1, <1>2, <1>3, PTL DEF Spec

-----------------------------------------------------------------------------
(* The alerts on their way to the phone (Delivery).                        *)
RunTypes == [at : {"idle", "insert"}, todo : SUBSET (Users \X Rows), opened : SUBSET Rows, new : SUBSET alerts]
PollTypes == [at : {"idle", "run", "query", "reply"}, user : Users \cup {None}, full : BOOLEAN,
              since : SUBSET alerts, found : SUBSET alerts]

(* What is raised, alerted, pushed, asked for and shown, by its kind.      *)
OneAlertEach == \A a, b \in alerts : a.user = b.user /\ a.row = b.row => a = b
AlarmTypes ==
  /\ active \subseteq raised /\ raised \subseteq Rows /\ ended \subseteq raised
  /\ near \subseteq Users \ Residents /\ signedIn \in Users \cup {None} /\ tokenOf \in Users \cup {None}
  /\ alerts \subseteq Alarm!Alert /\ OneAlertEach
  /\ pushes \subseteq alerts /\ fresh \subseteq alerts /\ due \subseteq alerts /\ shown \subseteq alerts
  /\ old \subseteq alerts
  /\ poll \in PollTypes
  /\ run \in [{"job", "poll"} -> RunTypes]

LEMMA AlarmInit == Alarm!Init => AlarmTypes
BY DEF Alarm!Init, AlarmTypes, OneAlertEach, RunTypes, PollTypes, Alarm!Idle, Alarm!NoPoll

(* The work of a run is of known users and of judgements in force.         *)
LEMMA WorkTyped ==
  ASSUME AlarmTypes, NEW us \in SUBSET Users, NEW n, NEW A
  PROVE  Alarm!Work(us, n) \in [at : {"idle", "insert"}, todo : SUBSET (Users \X Rows), opened : SUBSET Rows,
                               new : SUBSET A]
<1>1. Alarm!Merged(Alarm!Picked(active)) \subseteq Rows
  BY DEF Alarm!Merged, Alarm!Picked, AlarmTypes
<1> DEFINE todo == (us \cap (n \cup Residents)) \X Alarm!Merged(Alarm!Picked(active))
<1>2. todo \in SUBSET (Users \X Rows)
  BY <1>1
<1>3. Alarm!Work(us, n) = [Alarm!Idle EXCEPT !.at = "insert", !.todo = todo]
  BY DEF Alarm!Work
<1> HIDE DEF todo
<1> QED BY <1>2, <1>3 DEF Alarm!Idle

LEMMA AskTyped ==
  ASSUME AlarmTypes, NEW full \in BOOLEAN, Alarm!Ask(full), signedIn # None, UNCHANGED alerts
  PROVE  /\ near' \subseteq Users \ Residents /\ poll' \in PollTypes' /\ run' \in [{"job", "poll"} -> RunTypes']
<1>1. {signedIn} \subseteq Users
  BY DEF AlarmTypes
<1>2. Alarm!Work({signedIn}, near') \in RunTypes
  BY <1>1, WorkTyped DEF RunTypes
<1>3. run' \in [{"job", "poll"} -> RunTypes]
  BY <1>2 DEF Alarm!Ask, AlarmTypes
<1>4. poll' \in PollTypes
  BY <1>1 DEF Alarm!Ask, Alarm!NoPoll, PollTypes
<1>5. near' \subseteq Users \ Residents
  BY <1>1 DEF Alarm!Ask, AlarmTypes
<1> QED BY <1>3, <1>4, <1>5 DEF RunTypes, PollTypes

(* A new alert is the only one of its user and judgement.                  *)
LEMMA InsertTyped ==
  ASSUME AlarmTypes, NEW p \in {"job", "poll"}, NEW u \in Users, NEW r \in Rows, Alarm!Insert(p, u, r)
  PROVE  AlarmTypes'
<1> DEFINE opened == IF Alarm!Evac(r) /\ r \notin ended THEN run[p].opened \cup {r} ELSE run[p].opened
           alert == [user |-> u, row |-> r, evac |-> r \in opened]
           isNew == \A a \in alerts : a.user # u \/ a.row # r
           todo == run[p].todo \ {<<u, r>>}
           new == IF isNew THEN run[p].new \cup {alert} ELSE run[p].new
<1>1. /\ run' = [run EXCEPT ![p].todo = todo, ![p].opened = opened, ![p].new = new]
      /\ alerts' = IF isNew THEN alerts \cup {alert} ELSE alerts
      /\ fresh' = IF isNew THEN fresh \cup {alert} ELSE fresh
      /\ poll' = IF isNew THEN [poll EXCEPT !.since = Alarm!SinceServerTime(alert)] ELSE poll
      /\ due' = IF isNew /\ u = signedIn THEN due \cup {alert} ELSE due
      /\ UNCHANGED <<active, raised, ended, near, old, tokenOf, pushes, signedIn, shown>>
  BY DEF Alarm!Insert, Alarm!server, Alarm!phone
<1>2. run[p] \in RunTypes
  BY DEF AlarmTypes
<1>3. opened \in SUBSET Rows /\ todo \in SUBSET (Users \X Rows)
  BY <1>2 DEF RunTypes
<1>4. alert \in Alarm!Alert /\ alert.user = u /\ alert.row = r
  BY DEF Alarm!Alert
<1>5. new \in SUBSET alerts'
  BY <1>1, <1>2 DEF RunTypes
<1>6. alerts \subseteq alerts'
  BY <1>1
<1> HIDE DEF opened, todo, new, alert
<1>7. run' \in [{"job", "poll"} -> RunTypes']
  <2>1. ASSUME NEW q \in {"job", "poll"} PROVE run'[q] \in RunTypes'
    <3>1. CASE q = p
      BY <1>1, <1>2, <1>3, <1>5, <3>1 DEF AlarmTypes, RunTypes
    <3>2. CASE q # p
      BY <1>1, <1>6, <3>2 DEF AlarmTypes, RunTypes
    <3> QED BY <3>1, <3>2
  <2> QED BY <1>1, <2>1 DEF AlarmTypes
<1>8. poll' \in PollTypes'
  BY <1>1, <1>6 DEF AlarmTypes, PollTypes, Alarm!SinceServerTime
<1>9. OneAlertEach' /\ alerts' \subseteq Alarm!Alert
  BY <1>1, <1>4 DEF AlarmTypes, OneAlertEach
<1> QED BY <1>1, <1>6, <1>7, <1>8, <1>9 DEF AlarmTypes

LEMMA IdleTyped ==
  ASSUME AlarmTypes, NEW p \in {"job", "poll"}, run' = [run EXCEPT ![p] = Alarm!Idle],
         poll' = IF p = "poll" THEN [poll EXCEPT !.at = "query"] ELSE poll
  PROVE  run' \in [{"job", "poll"} -> RunTypes] /\ poll' \in PollTypes
BY DEF AlarmTypes, RunTypes, PollTypes, Alarm!Idle

LEMMA AlarmNext == ASSUME AlarmTypes, [Alarm!Next]_(Alarm!vars) PROVE AlarmTypes'
<1> USE DEF AlarmTypes
<1>1. CASE UNCHANGED Alarm!vars
  BY <1>1 DEF Alarm!vars, OneAlertEach, RunTypes, PollTypes
<1>2. ASSUME NEW r \in Rows, Alarm!Raise(r) \/ Alarm!Lower(r) \/ Alarm!StaffEnd(r) PROVE AlarmTypes'
  BY <1>2 DEF Alarm!Raise, Alarm!Lower, Alarm!StaffEnd, Alarm!phone, OneAlertEach, RunTypes, PollTypes
<1>3. ASSUME NEW u \in Users, Alarm!LocationAges(u) \/ Alarm!SwitchAccount(u) PROVE AlarmTypes'
  BY <1>3 DEF Alarm!LocationAges, Alarm!SwitchAccount, Alarm!phone, Alarm!server, OneAlertEach, RunTypes, PollTypes
<1>4. CASE Alarm!JobStarts
  <2>1. Alarm!Work(Users, near) \in RunTypes
    BY WorkTyped DEF RunTypes
  <2>2. run' \in [{"job", "poll"} -> RunTypes]
    BY <1>4, <2>1 DEF Alarm!JobStarts
  <2> QED BY <1>4, <2>2 DEF Alarm!JobStarts, Alarm!phone, Alarm!server, OneAlertEach, RunTypes, PollTypes
<1>5. ASSUME NEW p \in {"job", "poll"}, NEW u \in Users, NEW r \in Rows, Alarm!Insert(p, u, r) PROVE AlarmTypes'
  BY <1>5, InsertTyped
<1>6. ASSUME NEW p \in {"job", "poll"}, Alarm!Send(p) PROVE AlarmTypes'
  <2>1. run' \in [{"job", "poll"} -> RunTypes] /\ poll' \in PollTypes
    BY <1>6, IdleTyped DEF Alarm!Send
  <2>2. Alarm!ToPush(run[p].new) \subseteq alerts
    BY DEF Alarm!ToPush, RunTypes
  <2> QED BY <1>6, <2>1, <2>2 DEF Alarm!Send, Alarm!phone, Alarm!server, OneAlertEach, RunTypes, PollTypes
<1>7. ASSUME NEW p \in {"job", "poll"}, Alarm!Dies(p) PROVE AlarmTypes'
  <2>1. run' \in [{"job", "poll"} -> RunTypes] /\ poll' \in PollTypes
    BY <1>7, IdleTyped DEF Alarm!Dies
  <2> QED BY <1>7, <2>1 DEF Alarm!Dies, Alarm!phone, Alarm!server, OneAlertEach, RunTypes, PollTypes
<1>8. CASE Alarm!StartPoll
  BY <1>8, AskTyped DEF Alarm!StartPoll, Alarm!phone, OneAlertEach
<1>9. ASSUME NEW a \in pushes, Alarm!PushLost(a) PROVE AlarmTypes'
  BY <1>9 DEF Alarm!PushLost, Alarm!phone, Alarm!server, OneAlertEach, RunTypes, PollTypes
<1>10. ASSUME NEW a \in pushes, Alarm!PushShown(a) PROVE AlarmTypes'
  <2>1. near' \subseteq Users \ Residents /\ poll' \in PollTypes' /\ run' \in [{"job", "poll"} -> RunTypes']
    BY <1>10, AskTyped DEF Alarm!PushShown, RunTypes, PollTypes
  <2> QED BY <1>10, <2>1 DEF Alarm!PushShown, OneAlertEach
<1>11. CASE Alarm!Query
  <2> DEFINE found == {a \in Alarm!Wanted : a.user = poll.user}
  <2>1. poll' = [poll EXCEPT !.at = "reply", !.found = found]
    BY <1>11 DEF Alarm!Query
  <2>2. found \in SUBSET alerts
    BY DEF Alarm!Wanted
  <2> HIDE DEF found
  <2>3. poll' \in PollTypes
    BY <2>1, <2>2 DEF PollTypes
  <2> QED BY <1>11, <2>3 DEF Alarm!Query, Alarm!phone, Alarm!server, OneAlertEach, RunTypes, PollTypes
<1>12. CASE Alarm!Reply \/ Alarm!ReplyLost
  <2>1. Alarm!NoPoll \in PollTypes /\ poll.found \subseteq alerts /\ poll.since \subseteq alerts
    BY DEF Alarm!NoPoll, PollTypes
  <2>2. poll' \in PollTypes
    BY <1>12, <2>1 DEF Alarm!Reply, Alarm!ReplyLost
  <2> QED
    BY <1>12, <2>1, <2>2 DEF Alarm!Reply, Alarm!ReplyLost, Alarm!phone, Alarm!server, OneAlertEach, RunTypes,
       PollTypes
<1>13. CASE Alarm!Register \/ Alarm!DisablePush \/ Alarm!Restart
  BY <1>13 DEF Alarm!Register, Alarm!DisablePush, Alarm!Restart, Alarm!server, OneAlertEach, RunTypes, PollTypes
<1>14. ASSUME NEW a \in alerts, Alarm!DayPasses(a) PROVE AlarmTypes'
  BY <1>14 DEF Alarm!DayPasses, Alarm!server, OneAlertEach, RunTypes, PollTypes
<1> QED
  BY <1>1, <1>2, <1>3, <1>4, <1>5, <1>6, <1>7, <1>8, <1>9, <1>10, <1>11, <1>12, <1>13, <1>14 DEF Alarm!Next, Alarm!RunStep

-----------------------------------------------------------------------------
(* Accounts and households.                                                *)

(* Ids are used once, and who is giving up a home has none of their own    *)
(* left but those registered meanwhile.                                    *)
HomeInv ==
  /\ \A u \in Uids : account[u] # None => account[u] <= lastId
  /\ \A u, v \in Uids : account[u] # None /\ account[u] = account[v] => u = v
  /\ \A h \in Account!Registered : house[h].link # None => house[h].link <= lastId
  /\ \A r \in Requests :
       /\ request[r].at = "unlink" => Account!OwnHouses(request[r].me) \subseteq raced
       /\ request[r].at = "erase" => Account!OwnHouses(account[request[r].who]) \subseteq raced
  /\ Account!NoHomeLeftBehind

LEMMA AccountConstants ==
  /\ Grants \in [Codes -> Account!Staff]
  /\ MaxAccounts \in Nat /\ MaxHouses \in Nat /\ MaxRequests \in Nat
  /\ None \notin Uids \cup Codes \cup Nat
  /\ None \notin Account!Ids
BY ServicesAssumption
   DEF Account!GrantsAssumption, Account!AccountBounds, Account!AccountNone, Account!Ids

(* What a request under way has in hand, by its next step.                 *)
LEMMA RequestFields ==
  ASSUME NEW q \in Account!RequestStates
  PROVE  /\ q.at \in {"put", "delete", "unlink"} => q.me \in Account!Ids
         /\ q.at = "erase" => q.who \in Uids
         /\ q.at = "me" => q.who \in Uids /\ q.as \in Account!Staff
         /\ q.at = "find" => q.as \in Account!Staff /\ q.me \in Account!Ids
         /\ q.at = "create" => q.carer \in Account!Ids \cup {None} /\ q.as \in Account!Staff
         /\ q.at = "update" => q.carer \in Account!Ids \cup {None} /\ q.house \in Account!Houses
         /\ q.at = "remove" => q.house \in Account!Houses
BY DEF Account!RequestStates, Account!Idle

LEMMA RequestMade ==
  /\ Account!Idle \in Account!RequestStates
  /\ \A l \in {"put", "delete", "unlink"}, i \in Account!Ids : [at |-> l, me |-> i] \in Account!RequestStates
  /\ \A u \in Uids : [at |-> "erase", who |-> u] \in Account!RequestStates
  /\ \A u \in Uids, a \in Account!Staff : [at |-> "me", who |-> u, as |-> a] \in Account!RequestStates
  /\ \A a \in Account!Staff, i \in Account!Ids : [at |-> "find", as |-> a, me |-> i] \in Account!RequestStates
  /\ \A c \in Account!Ids \cup {None}, a \in Account!Staff :
       [at |-> "create", carer |-> c, as |-> a] \in Account!RequestStates
  /\ \A c \in Account!Ids \cup {None}, h \in Account!Houses :
       [at |-> "update", carer |-> c, house |-> h] \in Account!RequestStates
  /\ \A h \in Account!Houses : [at |-> "remove", house |-> h] \in Account!RequestStates
BY DEF Account!RequestStates

UserTypes ==
  /\ account \in [Uids -> Account!Ids \cup {None}]
  /\ role \in [Uids -> Account!Staff \cup {"resident"}]
  /\ lastId \in 0..MaxAccounts
CodeTypes == claimedBy \in [Codes -> Uids \cup {None}] /\ revoked \in SUBSET Codes
HouseTypes == house \in [Account!Houses -> Account!HouseRows \cup {None}] /\ raced \in SUBSET Account!Houses
RequestTypes == request \in [Requests -> Account!RequestStates] /\ made \in 0..MaxRequests

LEMMA AccountTypeParts == Account!TypeOK <=> UserTypes /\ CodeTypes /\ HouseTypes /\ RequestTypes
BY DEF Account!TypeOK, UserTypes, CodeTypes, HouseTypes, RequestTypes

LEMMA GoesTypes ==
  ASSUME RequestTypes, NEW r \in Requests, NEW q \in Account!RequestStates, Account!Goes(r, q)
  PROVE  request' \in [Requests -> Account!RequestStates]
BY DEF RequestTypes, Account!Goes

LEMMA BeginTypes ==
  ASSUME RequestTypes, Account!Begin
  PROVE  made' \in 0..MaxRequests
BY AccountConstants DEF RequestTypes, Account!Begin

(* The row of a user, found or made.                                       *)
LEMMA EnsureUserTypes ==
  ASSUME UserTypes, NEW u \in Uids, NEW x \in Account!Staff \cup {"resident"}, Account!EnsureUser(u, x)
  PROVE  /\ UserTypes'
         /\ account'[u] \in Account!Ids
         /\ \/ account' = account /\ lastId' = lastId
            \/ /\ account[u] = None /\ lastId' = lastId + 1
               /\ account' = [account EXCEPT ![u] = lastId + 1]
         /\ role' = [role EXCEPT ![u] = x]
<1>1. CASE account[u] # None
  BY <1>1 DEF UserTypes, Account!EnsureUser
<1>2. CASE account[u] = None
  <2>1. lastId < MaxAccounts /\ lastId' = lastId + 1 /\ account' = [account EXCEPT ![u] = lastId + 1]
        /\ role' = [role EXCEPT ![u] = x]
    BY <1>2 DEF Account!EnsureUser
  <2>2. lastId + 1 \in Account!Ids /\ lastId + 1 \in 0..MaxAccounts
    BY <2>1, AccountConstants DEF UserTypes, Account!Ids
  <2> QED BY <1>2, <2>1, <2>2 DEF UserTypes
<1> QED BY <1>1, <1>2

LEMMA AddHouseTypes ==
  ASSUME HouseTypes, NEW row \in Account!HouseRows, Account!AddHouse(row)
  PROVE  /\ house' \in [Account!Houses -> Account!HouseRows \cup {None}]
         /\ \E h \in Account!Houses : house[h] = None /\ house' = [house EXCEPT ![h] = row]
BY DEF HouseTypes, Account!AddHouse

LEMMA RemoveTypes ==
  ASSUME HouseTypes, NEW S, Account!RemoveHouses(S)
  PROVE  /\ house' \in [Account!Houses -> Account!HouseRows \cup {None}]
         /\ \A h \in Account!Houses : house'[h] = IF h \in S THEN None ELSE house[h]
BY DEF HouseTypes, Account!RemoveHouses

LEMMA AccountInitTypes == Account!Init => Account!TypeOK
<1> SUFFICES ASSUME Account!Init PROVE Account!TypeOK
  OBVIOUS
<1>1. UserTypes /\ CodeTypes
  BY AccountConstants DEF Account!Init, UserTypes, CodeTypes
<1>2. HouseTypes /\ RequestTypes
  BY AccountConstants, RequestMade DEF Account!Init, HouseTypes, RequestTypes
<1> QED BY <1>1, <1>2, AccountTypeParts

LEMMA AccountNextTypes ==
  ASSUME Account!TypeOK, [Account!Next]_(Account!vars)
  PROVE  Account!TypeOK'
<1> SUFFICES UserTypes' /\ CodeTypes' /\ HouseTypes' /\ RequestTypes'
  BY DEF Account!TypeOK, UserTypes, CodeTypes, HouseTypes, RequestTypes
<1>0. UserTypes /\ CodeTypes /\ HouseTypes /\ RequestTypes
  BY AccountTypeParts
<1> USE <1>0 DEF Account!users, Account!codes
<1>e. ASSUME NEW r \in Requests, Account!Ends(r) PROVE request' \in [Requests -> Account!RequestStates]
  BY <1>e, GoesTypes, RequestMade DEF Account!Ends
<1>1. ASSUME NEW u \in Uids, Account!Register(u) PROVE UserTypes' /\ CodeTypes' /\ HouseTypes' /\ RequestTypes'
  <2>1. UserTypes' /\ made' \in 0..MaxRequests
    BY <1>1, EnsureUserTypes, BeginTypes DEF Account!Register, UserTypes
  <2> QED BY <1>1, <2>1 DEF Account!Register, CodeTypes, HouseTypes, RequestTypes
<1>2. ASSUME NEW u \in Uids, NEW c \in Codes, Account!ClaimRole(u, c)
      PROVE  UserTypes' /\ CodeTypes' /\ HouseTypes' /\ RequestTypes'
  <2>1. UserTypes' /\ made' \in 0..MaxRequests
    BY <1>2, EnsureUserTypes, BeginTypes, AccountConstants DEF Account!ClaimRole
  <2> QED BY <1>2, <2>1 DEF Account!ClaimRole, CodeTypes, HouseTypes, RequestTypes
<1>3. ASSUME NEW u \in Uids, Account!DropRole(u) PROVE UserTypes' /\ CodeTypes' /\ HouseTypes' /\ RequestTypes'
  <2>1. made' \in 0..MaxRequests
    BY <1>3, BeginTypes DEF Account!DropRole
  <2> QED BY <1>3, <2>1 DEF Account!DropRole, UserTypes, CodeTypes, HouseTypes, RequestTypes
<1>4. ASSUME NEW c \in Codes, Account!RevokeInvite(c) PROVE UserTypes' /\ CodeTypes' /\ HouseTypes' /\ RequestTypes'
  <2>1. made' \in 0..MaxRequests
    BY <1>4, BeginTypes DEF Account!RevokeInvite
  <2> QED BY <1>4, <2>1 DEF Account!RevokeInvite, UserTypes, CodeTypes, HouseTypes, RequestTypes
<1>5. ASSUME NEW r \in Requests, NEW u \in Uids, NEW step \in {"put", "delete"}, Account!FindAccount(r, u, step)
      PROVE  UserTypes' /\ CodeTypes' /\ HouseTypes' /\ RequestTypes'
  <2>1. [at |-> step, me |-> account[u]] \in Account!RequestStates
    BY <1>5, RequestMade DEF Account!FindAccount, UserTypes
  <2>2. made' \in 0..MaxRequests /\ request' \in [Requests -> Account!RequestStates]
    BY <1>5, <2>1, BeginTypes, GoesTypes DEF Account!FindAccount
  <2> QED BY <1>5, <2>2 DEF Account!FindAccount, UserTypes, CodeTypes, HouseTypes, RequestTypes
<1>6. ASSUME NEW r \in Requests, NEW u \in Uids, Account!WithdrawHomes(r, u)
      PROVE  UserTypes' /\ CodeTypes' /\ HouseTypes' /\ RequestTypes'
  <2>1. made' \in 0..MaxRequests /\ request' \in [Requests -> Account!RequestStates]
    BY <1>6, BeginTypes, GoesTypes, RequestMade DEF Account!WithdrawHomes
  <2>2. house' \in [Account!Houses -> Account!HouseRows \cup {None}]
    BY <1>6, RemoveTypes DEF Account!WithdrawHomes
  <2> QED BY <1>6, <2>1, <2>2 DEF Account!WithdrawHomes, UserTypes, CodeTypes, HouseTypes, RequestTypes
<1>7. ASSUME NEW r \in Requests, NEW u \in Uids, Account!RequireStaff(r, u)
      PROVE  UserTypes' /\ CodeTypes' /\ HouseTypes' /\ RequestTypes'
  <2>1. made' \in 0..MaxRequests /\ request' \in [Requests -> Account!RequestStates]
    BY <1>7, BeginTypes, GoesTypes, RequestMade DEF Account!RequireStaff
  <2> QED BY <1>7, <2>1 DEF Account!RequireStaff, UserTypes, CodeTypes, HouseTypes, RequestTypes
<1>8. ASSUME NEW r \in Requests, Account!PutHousehold(r) PROVE UserTypes' /\ CodeTypes' /\ HouseTypes' /\ RequestTypes'
  <2>1. request[r] \in Account!RequestStates /\ request[r].at = "put"
    BY <1>8 DEF Account!PutHousehold, RequestTypes
  <2>2. [source |-> "self", link |-> request[r].me, carer |-> None] \in Account!HouseRows
    BY <2>1, RequestFields DEF Account!HouseRows
  <2>3. house' \in [Account!Houses -> Account!HouseRows \cup {None}]
    BY <1>8, <2>2, AddHouseTypes DEF Account!PutHousehold, HouseTypes
  <2>4. raced' \in SUBSET Account!Houses
    BY <1>8 DEF Account!PutHousehold
  <2>5. request' \in [Requests -> Account!RequestStates]
    BY <1>8, <1>e DEF Account!PutHousehold
  <2> QED BY <1>8, <2>3, <2>4, <2>5 DEF Account!PutHousehold, UserTypes, CodeTypes, HouseTypes, RequestTypes
<1>9. ASSUME NEW r \in Requests, Account!DeleteHousehold(r)
      PROVE  UserTypes' /\ CodeTypes' /\ HouseTypes' /\ RequestTypes'
  <2>1. request[r] \in [at : {"put", "delete", "unlink"}, me : Account!Ids]
    BY <1>9 DEF Account!DeleteHousehold, RequestTypes, Account!RequestStates, Account!Idle
  <2>2. [request[r] EXCEPT !.at = "unlink"] \in Account!RequestStates
    BY <2>1 DEF Account!RequestStates
  <2>3. request' \in [Requests -> Account!RequestStates]
    BY <1>9, <2>2, GoesTypes DEF Account!DeleteHousehold
  <2>4. house' \in [Account!Houses -> Account!HouseRows \cup {None}]
    BY <1>9, RemoveTypes DEF Account!DeleteHousehold
  <2> QED BY <1>9, <2>3, <2>4 DEF Account!DeleteHousehold, UserTypes, CodeTypes, HouseTypes, RequestTypes
<1>10. ASSUME NEW r \in Requests, Account!UnlinkHousehold(r)
       PROVE  UserTypes' /\ CodeTypes' /\ HouseTypes' /\ RequestTypes'
  <2>1. \A h \in Account!Registered : [house[h] EXCEPT !.link = None] \in Account!HouseRows
    BY DEF Account!Registered, HouseTypes, Account!HouseRows
  <2>2. house' \in [Account!Houses -> Account!HouseRows \cup {None}]
    BY <1>10, <2>1 DEF Account!UnlinkHousehold, Account!CutOff, Account!LinkedTo, HouseTypes
  <2>3. request' \in [Requests -> Account!RequestStates]
    BY <1>10, <1>e DEF Account!UnlinkHousehold
  <2> QED BY <1>10, <2>2, <2>3 DEF Account!UnlinkHousehold, UserTypes, CodeTypes, HouseTypes, RequestTypes
<1>11. ASSUME NEW r \in Requests, Account!WithdrawAccount(r)
       PROVE  UserTypes' /\ CodeTypes' /\ HouseTypes' /\ RequestTypes'
  <2>1. request[r].who \in Uids
    BY <1>11, RequestFields DEF Account!WithdrawAccount, RequestTypes
  <2>2. UserTypes'
    BY <1>11, <2>1 DEF Account!WithdrawAccount, UserTypes
  <2>3. \A h \in Account!Houses : house[h] # None =>
          [house[h] EXCEPT !.link = IF @ = account[request[r].who] THEN None ELSE @,
                           !.carer = IF @ = account[request[r].who] THEN None ELSE @] \in Account!HouseRows
    BY DEF HouseTypes, Account!HouseRows
  <2>4. house' \in [Account!Houses -> Account!HouseRows \cup {None}]
    BY <1>11, <2>3 DEF Account!WithdrawAccount, HouseTypes
  <2>5. request' \in [Requests -> Account!RequestStates]
    BY <1>11, <1>e DEF Account!WithdrawAccount
  <2> QED BY <1>11, <2>2, <2>4, <2>5 DEF Account!WithdrawAccount, CodeTypes, HouseTypes, RequestTypes
<1>12. ASSUME NEW r \in Requests, Account!Me(r) PROVE UserTypes' /\ CodeTypes' /\ HouseTypes' /\ RequestTypes'
  <2>1. request[r].who \in Uids /\ request[r].as \in Account!Staff
    BY <1>12, RequestFields DEF Account!Me, RequestTypes
  <2>2. UserTypes' /\ account'[request[r].who] \in Account!Ids
    BY <1>12, <2>1, EnsureUserTypes DEF Account!Me, UserTypes
  <2>3. request' \in [Requests -> Account!RequestStates]
    BY <1>12, <2>1, <2>2, GoesTypes, RequestMade DEF Account!Me
  <2> QED BY <1>12, <2>2, <2>3 DEF Account!Me, CodeTypes, HouseTypes, RequestTypes
<1>13. ASSUME NEW r \in Requests, Account!Choose(r) PROVE UserTypes' /\ CodeTypes' /\ HouseTypes' /\ RequestTypes'
  <2>1. request[r].as \in Account!Staff /\ request[r].me \in Account!Ids
    BY <1>13, RequestFields DEF Account!Choose, RequestTypes
  <2>2. Account!Carers \subseteq Account!Ids \cup {None}
    BY DEF Account!Carers, UserTypes
  <2>3. Account!Visible(r) \subseteq Account!Houses
    BY DEF Account!Visible, Account!Registered
  <2>4. \E q \in Account!RequestStates : Account!Goes(r, q)
    BY <1>13, <2>1, <2>2, <2>3, RequestMade DEF Account!Choose
  <2>5. request' \in [Requests -> Account!RequestStates]
    BY <2>4, GoesTypes
  <2> QED BY <1>13, <2>5 DEF Account!Choose, UserTypes, CodeTypes, HouseTypes, RequestTypes
<1>14. ASSUME NEW r \in Requests, Account!CreateHousehold(r)
       PROVE  UserTypes' /\ CodeTypes' /\ HouseTypes' /\ RequestTypes'
  <2>1. request[r].carer \in Account!Ids \cup {None}
    BY <1>14, RequestFields DEF Account!CreateHousehold, RequestTypes
  <2>2. [source |-> IF request[r].as = "caregiver" THEN "caregiver" ELSE "responder",
         link |-> None, carer |-> request[r].carer] \in Account!HouseRows
    BY <2>1 DEF Account!HouseRows
  <2>3. house' \in [Account!Houses -> Account!HouseRows \cup {None}]
    BY <1>14, <2>2, AddHouseTypes DEF Account!CreateHousehold, HouseTypes
  <2>4. request' \in [Requests -> Account!RequestStates]
    BY <1>14, <1>e DEF Account!CreateHousehold
  <2> QED BY <1>14, <2>3, <2>4 DEF Account!CreateHousehold, UserTypes, CodeTypes, HouseTypes, RequestTypes
<1>15. ASSUME NEW r \in Requests, Account!UpdateHousehold(r)
       PROVE  UserTypes' /\ CodeTypes' /\ HouseTypes' /\ RequestTypes'
  <2>1. request[r].carer \in Account!Ids \cup {None} /\ request[r].house \in Account!Houses
    BY <1>15, RequestFields DEF Account!UpdateHousehold, RequestTypes
  <2>2. house[request[r].house] # None =>
          [house[request[r].house] EXCEPT !.carer = request[r].carer] \in Account!HouseRows
    BY <2>1 DEF HouseTypes, Account!HouseRows
  <2>3. house' \in [Account!Houses -> Account!HouseRows \cup {None}]
    BY <1>15, <2>1, <2>2 DEF Account!UpdateHousehold, HouseTypes
  <2>4. request' \in [Requests -> Account!RequestStates]
    BY <1>15, <1>e DEF Account!UpdateHousehold
  <2> QED BY <1>15, <2>3, <2>4 DEF Account!UpdateHousehold, UserTypes, CodeTypes, HouseTypes, RequestTypes
<1>16. ASSUME NEW r \in Requests, Account!RemoveHousehold(r)
       PROVE  UserTypes' /\ CodeTypes' /\ HouseTypes' /\ RequestTypes'
  <2>1. house' \in [Account!Houses -> Account!HouseRows \cup {None}]
    BY <1>16, RemoveTypes DEF Account!RemoveHousehold
  <2>2. request' \in [Requests -> Account!RequestStates]
    BY <1>16, <1>e DEF Account!RemoveHousehold
  <2> QED BY <1>16, <2>1, <2>2 DEF Account!RemoveHousehold, UserTypes, CodeTypes, HouseTypes, RequestTypes
<1>17. CASE UNCHANGED Account!vars
  BY <1>17 DEF Account!vars, UserTypes, CodeTypes, HouseTypes, RequestTypes
<1> QED
  BY <1>1, <1>2, <1>3, <1>4, <1>5, <1>6, <1>7, <1>8, <1>9, <1>10, <1>11, <1>12, <1>13, <1>14, <1>15, <1>16, <1>17
     DEF Account!Next

-----------------------------------------------------------------------------
(* The homes.  What a request still has to give up, it finds, or somebody  *)
(* registered it meanwhile.                                                *)
Covered(r) ==
  /\ request[r].at = "unlink" => Account!OwnHouses(request[r].me) \subseteq raced
  /\ request[r].at = "erase" => Account!OwnHouses(account[request[r].who]) \subseteq raced

IdsOnce ==
  /\ \A u \in Uids : account[u] # None => account[u] <= lastId
  /\ \A u, v \in Uids : account[u] # None /\ account[u] = account[v] => u = v
  /\ \A h \in Account!Registered : house[h].link # None => house[h].link <= lastId

LEMMA HomeInvParts == HomeInv <=> IdsOnce /\ (\A r \in Requests : Covered(r)) /\ Account!NoHomeLeftBehind
BY DEF HomeInv, IdsOnce, Covered

(* Household h is account i's own.                                         *)
Own(h, i) == house[h] # None /\ i # None /\ house[h].link = i /\ house[h].source = "self"

LEMMA OwnHouse ==
  \A i : Account!OwnHouses(i) = {h \in Account!Houses : Own(h, i)}
BY DEF Account!OwnHouses, Account!LinkedTo, Account!Registered, Own

LEMMA CoveredHouses ==
  ASSUME NEW r \in Requests
  PROVE  Covered(r) <=>
           \A h \in Account!Houses \ raced :
             /\ request[r].at = "unlink" => ~ Own(h, request[r].me)
             /\ request[r].at = "erase" => ~ Own(h, account[request[r].who])
BY DEF Covered, Account!OwnHouses, Account!LinkedTo, Account!Registered, Own

LEMMA HomeInit == Account!Init => HomeInv
BY DEF Account!Init, HomeInv, Account!NoHomeLeftBehind, Account!Registered, Account!Idle

(* A step that makes no home a resident's own and starts giving none up.   *)
LEMMA HomesKept ==
  ASSUME HomeInv, UserTypes, account' = account, lastId' = lastId, raced' = raced,
         \A h \in Account!Houses : house'[h] # None =>
           \/ house'[h].source # "self" /\ house'[h].link = None
           \/ house[h] # None /\ house'[h].source = house[h].source /\ house'[h].link = house[h].link,
         \A r \in Requests : \/ request'[r] = request[r]
                             \/ request'[r].at \notin {"unlink", "erase"}
                             \/ Covered(r)'
  PROVE  HomeInv'
<1>0. IdsOnce /\ (\A r \in Requests : Covered(r)) /\ Account!NoHomeLeftBehind
  BY HomeInvParts
<1>1. IdsOnce'
  BY <1>0 DEF IdsOnce, Account!Registered
<1>2. Account!NoHomeLeftBehind'
  BY <1>0 DEF Account!NoHomeLeftBehind, Account!Registered
<1>3. ASSUME NEW r \in Requests PROVE Covered(r)'
  <2>1. CASE request'[r] = request[r]
    <3>1. ASSUME NEW h \in Account!Houses \ raced, request[r].at = "unlink"
          PROVE  ~ Own(h, request[r].me)'
      <4>1. ~ Own(h, request[r].me)
        BY <1>0, <3>1, CoveredHouses
      <4> QED BY <2>1, <4>1 DEF Own
    <3>2. ASSUME NEW h \in Account!Houses \ raced, request[r].at = "erase"
          PROVE  ~ Own(h, account[request[r].who])'
      <4>1. ~ Own(h, account[request[r].who])
        BY <1>0, <3>2, CoveredHouses
      <4> QED BY <2>1, <4>1 DEF Own
    <3> QED BY <2>1, <3>1, <3>2 DEF Covered, Account!OwnHouses, Account!LinkedTo, Account!Registered, Own
  <2>2. CASE request'[r].at \notin {"unlink", "erase"}
    BY <2>2 DEF Covered
  <2> QED BY <2>1, <2>2
<1> QED BY <1>1, <1>2, <1>3 DEF HomeInv, IdsOnce, Covered

(* A row made for a user starts with a new number, which no home has.      *)
LEMMA UserAdded ==
  ASSUME HomeInv, UserTypes, HouseTypes, NEW u \in Uids, NEW x \in Account!Staff \cup {"resident"},
         Account!EnsureUser(u, x), house' = house, raced' = raced,
         \A r \in Requests : request'[r] = request[r] \/ request'[r].at \notin {"unlink", "erase"}
  PROVE  HomeInv'
<1>0. IdsOnce /\ (\A r \in Requests : Covered(r)) /\ Account!NoHomeLeftBehind
  BY HomeInvParts
<1>1. CASE account' = account /\ lastId' = lastId
  BY <1>1, HomesKept
<1>2. CASE /\ account[u] = None /\ lastId' = lastId + 1
           /\ account' = [account EXCEPT ![u] = lastId + 1]
  <2>1. lastId \in Nat /\ (\A v \in Uids : account[v] # None => account[v] \in Nat)
        /\ (\A h \in Account!Registered : house[h].link # None => house[h].link \in Nat)
    BY AccountConstants DEF UserTypes, HouseTypes, Account!Ids, Account!Registered, Account!HouseRows
  <2>2. account' \in [Uids -> Account!Ids \cup {None}]
    BY EnsureUserTypes DEF UserTypes
  <2>3. IdsOnce'
    <3>1. \A v \in Uids : account'[v] = IF v = u THEN lastId + 1 ELSE account[v]
      BY <1>2 DEF UserTypes
    <3>2. \A v \in Uids : account'[v] # None => account'[v] <= lastId'
      BY <1>0, <1>2, <2>1, <3>1 DEF IdsOnce
    <3>3. \A v, w \in Uids : account'[v] # None /\ account'[v] = account'[w] => v = w
      BY <1>0, <1>2, <2>1, <3>1 DEF IdsOnce
    <3>4. (\A h \in Account!Registered : house[h].link # None => house[h].link <= lastId)'
      BY <1>0, <1>2, <2>1 DEF IdsOnce, Account!Registered
    <3> QED BY <3>2, <3>3, <3>4 DEF IdsOnce
  <2>4. Account!NoHomeLeftBehind'
    BY <1>0 DEF Account!NoHomeLeftBehind, Account!Registered
  <2>5. ASSUME NEW r \in Requests, request'[r] = request[r] PROVE Covered(r)'
    <3>1. ASSUME NEW h \in Account!Houses \ raced, request[r].at = "unlink"
          PROVE  ~ Own(h, request[r].me)'
      <4>1. ~ Own(h, request[r].me)
        BY <1>0, <3>1, CoveredHouses
      <4> QED BY <2>5, <4>1 DEF Own
    <3>2. ASSUME NEW h \in Account!Houses \ raced, request[r].at = "erase"
          PROVE  ~ Own(h, account[request[r].who])'
      <4>1. ~ Own(h, account[request[r].who])
        BY <1>0, <3>2, CoveredHouses
      <4>2. CASE request[r].who = u
        <5>1. account'[request'[r].who] = lastId + 1
          BY <1>2, <2>5, <4>2 DEF UserTypes
        <5>2. h \in Account!Registered => house[h].link # lastId + 1
          BY <1>0, <2>1, AccountConstants DEF IdsOnce
        <5> QED BY <5>1, <5>2 DEF Own, Account!Registered
      <4>3. CASE request[r].who # u
        <5>1. account'[request'[r].who] = account[request[r].who]
          BY <1>2, <2>5, <4>3 DEF UserTypes
        <5> QED BY <4>1, <5>1 DEF Own
      <4> QED BY <4>2, <4>3
    <3> QED BY <2>5, <3>1, <3>2 DEF Covered, Account!OwnHouses, Account!LinkedTo, Account!Registered, Own
  <2>6. ASSUME NEW r \in Requests, request'[r].at \notin {"unlink", "erase"} PROVE Covered(r)'
    BY <2>6 DEF Covered
  <2>7. \A r \in Requests : Covered(r)'
    BY <2>5, <2>6
  <2> QED BY <2>3, <2>4, <2>7 DEF HomeInv, IdsOnce, Covered
<1> QED BY <1>1, <1>2, EnsureUserTypes

LEMMA GoesOn ==
  ASSUME RequestTypes, NEW r \in Requests, NEW q, Account!Goes(r, q)
  PROVE  request'[r] = q /\ \A p \in Requests : p # r => request'[p] = request[p]
BY DEF RequestTypes, Account!Goes

LEMMA EndsAt ==
  ASSUME RequestTypes, NEW r \in Requests, Account!Ends(r)
  PROVE  /\ \A p \in Requests : request'[p] = request[p] \/ request'[p].at = "idle"
         /\ request'[r].at = "idle" /\ \A p \in Requests : p # r => request'[p] = request[p]
BY GoesOn DEF Account!Ends, Account!Idle

LEMMA HomesAtPut ==
  ASSUME HomeInv, UserTypes, HouseTypes, RequestTypes, NEW r \in Requests, Account!PutHousehold(r)
  PROVE  HomeInv'
<1>0. IdsOnce /\ (\A p \in Requests : Covered(p)) /\ Account!NoHomeLeftBehind
  BY HomeInvParts
<1> DEFINE i == request[r].me
<1>1. request[r].at = "put" /\ Account!Ends(r) /\ account' = account /\ lastId' = lastId
  BY DEF Account!PutHousehold, Account!users
<1>2. i \in Account!Ids
  BY <1>1, RequestFields DEF RequestTypes
<1>3. \A p \in Requests : request'[p] = request[p] \/ request'[p].at = "idle"
  BY <1>1, EndsAt
<1>4. CASE house' = house
  <2>1. raced' = raced
    BY <1>4 DEF Account!PutHousehold, HouseTypes
  <2> QED BY <1>1, <1>3, <1>4, <2>1, HomesKept
<1>5. CASE house' # house /\ Account!Alive(i) /\ Account!AddHouse([source |-> "self", link |-> i, carer |-> None])
  <2> DEFINE row == [source |-> "self", link |-> i, carer |-> None]
  <2>1. PICK n \in Account!Houses : house[n] = None /\ house' = [house EXCEPT ![n] = row]
    BY <1>5 DEF Account!AddHouse
  <2>2. \A h \in Account!Houses : house'[h] = IF h = n THEN row ELSE house[h]
    BY <2>1 DEF HouseTypes
  <2>3. i # None /\ i <= lastId
    <3>1. PICK v \in Uids : account[v] = i
      BY <1>5 DEF Account!Alive
    <3> QED BY <1>0, <1>2, <3>1, AccountConstants DEF IdsOnce
  <2>4. \A h \in Account!Houses : h # n => (h \in raced' <=> h \in raced)
    BY <2>2 DEF Account!PutHousehold
  <2>5. Account!GivingUp(i) => n \in raced'
    <3>1. house'[n] # house[n]
      BY <1>5, <2>1, <2>2 DEF HouseTypes
    <3> QED BY <3>1 DEF Account!PutHousehold
  <2>6. IdsOnce'
    BY <1>0, <1>1, <2>2, <2>3 DEF IdsOnce, Account!Registered
  <2>7. Account!NoHomeLeftBehind'
    BY <1>0, <2>2, <2>3, <2>4 DEF Account!NoHomeLeftBehind, Account!Registered
  <2>8. ASSUME NEW p \in Requests PROVE Covered(p)'
    <3>1. CASE request'[p].at = "idle"
      BY <3>1 DEF Covered
    <3>2. CASE request'[p] = request[p]
      <4>1. ASSUME NEW h \in Account!Houses \ raced', request[p].at = "unlink"
            PROVE  ~ Own(h, request[p].me)'
        <5>1. CASE h = n
          BY <2>2, <2>5, <3>2, <4>1, <5>1 DEF Own, Account!GivingUp
        <5>2. CASE h # n
          <6>1. ~ Own(h, request[p].me)
            BY <1>0, <2>4, <4>1, <5>2, CoveredHouses
          <6> QED BY <2>2, <3>2, <5>2, <6>1 DEF Own
        <5> QED BY <5>1, <5>2
      <4>2. ASSUME NEW h \in Account!Houses \ raced', request[p].at = "erase"
            PROVE  ~ Own(h, account[request[p].who])'
        <5>1. CASE h = n
          BY <1>1, <2>2, <2>5, <3>2, <4>2, <5>1 DEF Own, Account!GivingUp
        <5>2. CASE h # n
          <6>1. ~ Own(h, account[request[p].who])
            BY <1>0, <2>4, <4>2, <5>2, CoveredHouses
          <6> QED BY <1>1, <2>2, <3>2, <5>2, <6>1 DEF Own
        <5> QED BY <5>1, <5>2
      <4> QED BY <3>2, <4>1, <4>2 DEF Covered, Account!OwnHouses, Account!LinkedTo, Account!Registered, Own
    <3> QED BY <1>3, <3>1, <3>2
  <2> QED BY <2>6, <2>7, <2>8 DEF HomeInv, IdsOnce, Covered
<1> QED BY <1>4, <1>5 DEF Account!PutHousehold

(* Cutting a household off leaves none of the account's own but those      *)
(* registered meanwhile.                                                   *)
LEMMA HomesAtUnlink ==
  ASSUME HomeInv, UserTypes, HouseTypes, RequestTypes, NEW r \in Requests, Account!UnlinkHousehold(r)
  PROVE  HomeInv'
<1>0. IdsOnce /\ (\A p \in Requests : Covered(p)) /\ Account!NoHomeLeftBehind
  BY HomeInvParts
<1> DEFINE i == request[r].me
<1>1. /\ request[r].at = "unlink" /\ Account!Ends(r)
      /\ account' = account /\ lastId' = lastId /\ raced' = raced
  BY DEF Account!UnlinkHousehold, Account!users
<1>2. \A p \in Requests : request'[p] = request[p] \/ request'[p].at = "idle"
  BY <1>1, EndsAt
<1>3. \A h \in Account!Houses :
        \/ house'[h] = house[h]
        \/ /\ house[h] # None /\ house[h].link = i /\ i # None
           /\ house'[h].link = None /\ house'[h].source = house[h].source
  <2>1. \A h \in Account!Houses :
          house'[h] = IF h \in Account!LinkedTo(i) THEN [house[h] EXCEPT !.link = None] ELSE house[h]
    BY DEF Account!UnlinkHousehold, Account!CutOff
  <2>2. \A h \in Account!LinkedTo(i) : house[h] \in Account!HouseRows /\ house[h].link = i /\ house[h] # None /\ i # None
    BY DEF Account!LinkedTo, Account!Registered, HouseTypes
  <2> QED BY <2>1, <2>2 DEF Account!HouseRows
<1>4. IdsOnce'
  BY <1>0, <1>1, <1>3 DEF IdsOnce, Account!Registered
<1>5. Account!NoHomeLeftBehind'
  <2> SUFFICES ASSUME NEW h \in Account!Houses, house'[h] # None, house'[h].source = "self", house'[h].link = None
               PROVE  h \in raced
    BY <1>1 DEF Account!NoHomeLeftBehind, Account!Registered
  <2>1. CASE house'[h] = house[h]
    BY <1>0, <2>1 DEF Account!NoHomeLeftBehind, Account!Registered
  <2>2. CASE house'[h] # house[h]
    <3>1. Own(h, i)
      BY <1>3, <2>2 DEF Own
    <3> QED BY <1>0, <1>1, <3>1, CoveredHouses
  <2> QED BY <2>1, <2>2
<1>6. ASSUME NEW p \in Requests PROVE Covered(p)'
  <2>1. CASE request'[p].at = "idle"
    BY <2>1 DEF Covered
  <2>2. CASE request'[p] = request[p]
    <3>1. ASSUME NEW h \in Account!Houses \ raced, request[p].at = "unlink"
          PROVE  ~ Own(h, request[p].me)'
      <4>1. ~ Own(h, request[p].me)
        BY <1>0, <3>1, CoveredHouses
      <4> QED BY <1>3, <2>2, <4>1 DEF Own
    <3>2. ASSUME NEW h \in Account!Houses \ raced, request[p].at = "erase"
          PROVE  ~ Own(h, account[request[p].who])'
      <4>1. ~ Own(h, account[request[p].who])
        BY <1>0, <3>2, CoveredHouses
      <4> QED BY <1>1, <1>3, <2>2, <4>1 DEF Own
    <3> QED BY <1>1, <2>2, <3>1, <3>2 DEF Covered, Account!OwnHouses, Account!LinkedTo, Account!Registered, Own
  <2> QED BY <1>2, <2>1, <2>2
<1> QED BY <1>4, <1>5, <1>6 DEF HomeInv, IdsOnce, Covered

(* Giving up a home removes all the account's own ones.                    *)
LEMMA HomesAtRemove ==
  ASSUME HomeInv, UserTypes, HouseTypes, RequestTypes, NEW r \in Requests, NEW i, NEW q,
         Account!RemoveHouses(Account!OwnHouses(i)), Account!Goes(r, q),
         account' = account, lastId' = lastId, raced' = raced,
         \/ q.at = "unlink" /\ q.me = i
         \/ q.at = "erase" /\ account[q.who] = i
  PROVE  HomeInv'
<1>1. \A h \in Account!Houses : house'[h] = IF h \in Account!OwnHouses(i) THEN None ELSE house[h]
  BY RemoveTypes
<1>2. \A h \in Account!Houses : ~ Own(h, i)'
  BY <1>1, OwnHouse DEF Own
<1>3. request'[r] = q /\ \A p \in Requests : p # r => request'[p] = request[p]
  BY GoesOn
<1>4. Covered(r)'
  BY <1>2, <1>3 DEF Covered, Account!OwnHouses, Account!LinkedTo, Account!Registered, Own
<1> QED BY <1>1, <1>3, <1>4, HomesKept

(* An account that goes takes its links along: what was its own had been   *)
(* removed, or was registered meanwhile.                                   *)
LEMMA HomesAtErase ==
  ASSUME HomeInv, UserTypes, HouseTypes, RequestTypes, NEW r \in Requests, Account!WithdrawAccount(r)
  PROVE  HomeInv'
<1>0. IdsOnce /\ (\A p \in Requests : Covered(p)) /\ Account!NoHomeLeftBehind
  BY HomeInvParts
<1> DEFINE u == request[r].who
           i == account[u]
<1>1. request[r].at = "erase" /\ Account!Ends(r) /\ lastId' = lastId /\ raced' = raced
  BY DEF Account!WithdrawAccount
<1>2. u \in Uids
  BY <1>1, RequestFields DEF RequestTypes
<1>3. \A v \in Uids : account'[v] = IF v = u THEN None ELSE account[v]
  BY <1>2 DEF Account!WithdrawAccount, UserTypes
<1>4. \A p \in Requests : request'[p] = request[p] \/ request'[p].at = "idle"
  BY <1>1, EndsAt
<1>5. \A h \in Account!Houses :
        \/ house'[h] = house[h]
        \/ /\ house[h] # None /\ i # None
           /\ house'[h].link = (IF house[h].link = i THEN None ELSE house[h].link)
           /\ house'[h].source = house[h].source
  <2>1. \A h \in Account!Houses :
          house'[h] = IF house[h] = None \/ i = None THEN house[h]
                      ELSE [house[h] EXCEPT !.link = IF @ = i THEN None ELSE @,
                                            !.carer = IF @ = i THEN None ELSE @]
    BY DEF Account!WithdrawAccount
  <2> QED BY <2>1 DEF HouseTypes, Account!HouseRows
<1>6. IdsOnce'
  BY <1>0, <1>1, <1>3, <1>5 DEF IdsOnce, Account!Registered
<1>7. Account!NoHomeLeftBehind'
  <2> SUFFICES ASSUME NEW h \in Account!Houses, house'[h] # None, house'[h].source = "self", house'[h].link = None
               PROVE  h \in raced
    BY <1>1 DEF Account!NoHomeLeftBehind, Account!Registered
  <2>1. CASE house[h].link = None
    BY <1>0, <1>5, <2>1 DEF Account!NoHomeLeftBehind, Account!Registered
  <2>2. CASE house[h].link # None
    <3>1. Own(h, i)
      BY <1>5, <2>2 DEF Own
    <3> QED BY <1>0, <1>1, <3>1, CoveredHouses
  <2> QED BY <2>1, <2>2
<1>8. ASSUME NEW p \in Requests PROVE Covered(p)'
  <2>1. CASE request'[p].at = "idle"
    BY <2>1 DEF Covered
  <2>2. CASE request'[p] = request[p]
    <3>1. ASSUME NEW h \in Account!Houses \ raced, request[p].at = "unlink"
          PROVE  ~ Own(h, request[p].me)'
      <4>1. ~ Own(h, request[p].me)
        BY <1>0, <3>1, CoveredHouses
      <4> QED BY <1>5, <2>2, <4>1 DEF Own
    <3>2. ASSUME NEW h \in Account!Houses \ raced, request[p].at = "erase"
          PROVE  ~ Own(h, account[request[p].who])'
      <4>1. ~ Own(h, account[request[p].who])
        BY <1>0, <3>2, CoveredHouses
      <4>2. request[p].who \in Uids
        BY <3>2, RequestFields DEF RequestTypes
      <4> QED BY <1>3, <1>5, <2>2, <4>1, <4>2 DEF Own
    <3> QED BY <1>1, <2>2, <3>1, <3>2 DEF Covered, Account!OwnHouses, Account!LinkedTo, Account!Registered, Own
  <2> QED BY <1>4, <2>1, <2>2
<1> QED BY <1>6, <1>7, <1>8 DEF HomeInv, IdsOnce, Covered

LEMMA HomeNext ==
  ASSUME Account!TypeOK, HomeInv, [Account!Next]_(Account!vars)
  PROVE  HomeInv'
<1>0. UserTypes /\ CodeTypes /\ HouseTypes /\ RequestTypes
  BY AccountTypeParts
<1> USE <1>0 DEF Account!users, Account!codes
<1>1. ASSUME NEW u \in Uids, Account!Register(u) PROVE HomeInv'
  <2>1. PICK x \in Account!Staff \cup {"resident"} : Account!EnsureUser(u, x)
    BY <1>1 DEF Account!Register, UserTypes
  <2> QED BY <1>1, <2>1, UserAdded DEF Account!Register
<1>2. ASSUME NEW u \in Uids, NEW c \in Codes, Account!ClaimRole(u, c) PROVE HomeInv'
  BY <1>2, UserAdded, AccountConstants DEF Account!ClaimRole
<1>3. ASSUME NEW u \in Uids, Account!DropRole(u) PROVE HomeInv'
  BY <1>3, HomesKept DEF Account!DropRole
<1>4. ASSUME NEW c \in Codes, Account!RevokeInvite(c) PROVE HomeInv'
  BY <1>4, HomesKept DEF Account!RevokeInvite
<1>5. ASSUME NEW r \in Requests, NEW u \in Uids, NEW step \in {"put", "delete"}, Account!FindAccount(r, u, step)
      PROVE  HomeInv'
  <2>1. \A p \in Requests : request'[p] = request[p] \/ request'[p].at \in {"put", "delete"}
    BY <1>5, GoesOn DEF Account!FindAccount
  <2> QED BY <1>5, <2>1, HomesKept DEF Account!FindAccount
<1>6. ASSUME NEW r \in Requests, NEW u \in Uids, Account!WithdrawHomes(r, u) PROVE HomeInv'
  BY <1>6, HomesAtRemove DEF Account!WithdrawHomes
<1>7. ASSUME NEW r \in Requests, NEW u \in Uids, Account!RequireStaff(r, u) PROVE HomeInv'
  <2>1. \A p \in Requests : request'[p] = request[p] \/ request'[p].at = "me"
    BY <1>7, GoesOn DEF Account!RequireStaff
  <2> QED BY <1>7, <2>1, HomesKept DEF Account!RequireStaff
<1>8. ASSUME NEW r \in Requests, Account!PutHousehold(r) PROVE HomeInv'
  BY <1>8, HomesAtPut
<1>9. ASSUME NEW r \in Requests, Account!DeleteHousehold(r) PROVE HomeInv'
  <2>1. request[r] \in [at : {"put", "delete", "unlink"}, me : Account!Ids]
    BY <1>9 DEF Account!DeleteHousehold, RequestTypes, Account!RequestStates, Account!Idle
  <2> DEFINE q == [request[r] EXCEPT !.at = "unlink"]
  <2>2. q.at = "unlink" /\ q.me = request[r].me
    BY <2>1
  <2> QED BY <1>9, <2>2, HomesAtRemove DEF Account!DeleteHousehold
<1>10. ASSUME NEW r \in Requests, Account!UnlinkHousehold(r) PROVE HomeInv'
  BY <1>10, HomesAtUnlink
<1>11. ASSUME NEW r \in Requests, Account!WithdrawAccount(r) PROVE HomeInv'
  BY <1>11, HomesAtErase
<1>12. ASSUME NEW r \in Requests, Account!Me(r) PROVE HomeInv'
  <2>1. request[r].who \in Uids
    BY <1>12, RequestFields DEF Account!Me, RequestTypes
  <2>2. PICK x \in Account!Staff \cup {"resident"} : Account!EnsureUser(request[r].who, x)
    BY <1>12, <2>1 DEF Account!Me, UserTypes
  <2>3. \A p \in Requests : request'[p] = request[p] \/ request'[p].at = "find"
    BY <1>12, GoesOn DEF Account!Me
  <2> QED BY <1>12, <2>1, <2>2, <2>3, UserAdded DEF Account!Me
<1>13. ASSUME NEW r \in Requests, Account!Choose(r) PROVE HomeInv'
  <2>1. \A p \in Requests : request'[p] = request[p] \/ request'[p].at \in {"create", "update", "remove"}
    BY <1>13 DEF Account!Choose, Account!Goes, RequestTypes
  <2> QED BY <1>13, <2>1, HomesKept DEF Account!Choose
<1>14. ASSUME NEW r \in Requests, Account!CreateHousehold(r) PROVE HomeInv'
  <2> DEFINE row == [source |-> IF request[r].as = "caregiver" THEN "caregiver" ELSE "responder",
                     link |-> None, carer |-> request[r].carer]
  <2>1. row.source # "self" /\ row.link = None
    OBVIOUS
  <2>2. \A h \in Account!Houses : house'[h] = house[h] \/ house'[h] = row
    BY <1>14 DEF Account!CreateHousehold, Account!AddHouse, HouseTypes
  <2>3. \A p \in Requests : request'[p] = request[p] \/ request'[p].at = "idle"
    BY <1>14, EndsAt DEF Account!CreateHousehold
  <2> HIDE DEF row
  <2> QED BY <1>14, <2>1, <2>2, <2>3, HomesKept DEF Account!CreateHousehold
<1>15. ASSUME NEW r \in Requests, Account!UpdateHousehold(r) PROVE HomeInv'
  <2>1. request[r].house \in Account!Houses
    BY <1>15, RequestFields DEF Account!UpdateHousehold, RequestTypes
  <2>2. \A h \in Account!Houses :
          \/ house'[h] = house[h]
          \/ /\ house[h] # None
             /\ house'[h].source = house[h].source /\ house'[h].link = house[h].link
    BY <1>15, <2>1 DEF Account!UpdateHousehold, HouseTypes, Account!HouseRows
  <2>3. \A p \in Requests : request'[p] = request[p] \/ request'[p].at = "idle"
    BY <1>15, EndsAt DEF Account!UpdateHousehold
  <2> QED BY <1>15, <2>2, <2>3, HomesKept DEF Account!UpdateHousehold
<1>16. ASSUME NEW r \in Requests, Account!RemoveHousehold(r) PROVE HomeInv'
  <2>1. \A h \in Account!Houses : house'[h] # None => house'[h] = house[h]
    BY <1>16, RemoveTypes DEF Account!RemoveHousehold
  <2>2. \A p \in Requests : request'[p] = request[p] \/ request'[p].at = "idle"
    BY <1>16, EndsAt DEF Account!RemoveHousehold
  <2> QED BY <1>16, <2>1, <2>2, HomesKept DEF Account!RemoveHousehold
<1>17. CASE UNCHANGED Account!vars
  BY <1>17, HomesKept DEF Account!vars
<1> QED
  BY <1>1, <1>2, <1>3, <1>4, <1>5, <1>6, <1>7, <1>8, <1>9, <1>10, <1>11, <1>12, <1>13, <1>14, <1>15, <1>16, <1>17
     DEF Account!Next

(* A role is held by a code bound for ever.                                *)
LEMMA CodesKept ==
  ASSUME Account!StaffByCode, UNCHANGED claimedBy,
         \A u \in Uids : role'[u] \in Account!Staff => role'[u] = role[u]
  PROVE  Account!StaffByCode'
BY DEF Account!StaffByCode

LEMMA CodesNext ==
  ASSUME Account!TypeOK, Account!StaffByCode, [Account!Next]_(Account!vars)
  PROVE  Account!StaffByCode'
<1>0. UserTypes /\ CodeTypes /\ HouseTypes /\ RequestTypes
  BY AccountTypeParts
<1> USE <1>0 DEF Account!users, Account!codes
<1>s. "resident" \notin Account!Staff
  BY DEF Account!Staff
<1>1. ASSUME NEW u \in Uids, Account!Register(u) PROVE Account!StaffByCode'
  BY <1>1, <1>s, CodesKept DEF Account!Register, Account!EnsureUser, UserTypes
<1>2. ASSUME NEW u \in Uids, NEW c \in Codes, Account!ClaimRole(u, c) PROVE Account!StaffByCode'
  <2>1. role' = [role EXCEPT ![u] = Grants[c]] /\ claimedBy' = [claimedBy EXCEPT ![c] = u]
        /\ claimedBy[c] \in {None, u}
    BY <1>2 DEF Account!ClaimRole, Account!EnsureUser, Account!Usable
  <2>2. claimedBy'[c] = u /\ role'[u] = Grants[c]
    BY <2>1 DEF UserTypes, CodeTypes
  <2>3. ASSUME NEW v \in Uids, v # u, role'[v] \in Account!Staff
        PROVE  \E d \in Codes : claimedBy'[d] = v /\ Grants[d] = role'[v]
    <3>1. PICK d \in Codes : claimedBy[d] = v /\ Grants[d] = role[v]
      BY <2>1, <2>3 DEF Account!StaffByCode, UserTypes
    <3>2. d # c
      BY <2>1, <2>3, <3>1, AccountConstants
    <3> QED BY <2>1, <2>3, <3>1, <3>2 DEF UserTypes, CodeTypes
  <2> QED BY <2>2, <2>3 DEF Account!StaffByCode
<1>3. ASSUME NEW u \in Uids, Account!DropRole(u) PROVE Account!StaffByCode'
  BY <1>3, <1>s, CodesKept DEF Account!DropRole, UserTypes
<1>11. ASSUME NEW r \in Requests, Account!WithdrawAccount(r) PROVE Account!StaffByCode'
  BY <1>11, <1>s, CodesKept DEF Account!WithdrawAccount, UserTypes
<1>12. ASSUME NEW r \in Requests, Account!Me(r) PROVE Account!StaffByCode'
  BY <1>12, <1>s, CodesKept DEF Account!Me, Account!EnsureUser, UserTypes
<1>13. CASE UNCHANGED <<role, claimedBy>>
  BY <1>13, CodesKept
<1>14. (\E u \in Uids : \/ Account!Register(u) \/ Account!DropRole(u)
                         \/ \E c \in Codes : Account!ClaimRole(u, c))
       \/ (\E r \in Requests : Account!WithdrawAccount(r) \/ Account!Me(r))
       \/ UNCHANGED <<role, claimedBy>>
  BY DEF Account!Next, Account!vars, Account!RevokeInvite, Account!FindAccount, Account!WithdrawHomes,
         Account!RequireStaff, Account!PutHousehold, Account!DeleteHousehold, Account!UnlinkHousehold,
         Account!Choose, Account!CreateHousehold, Account!UpdateHousehold, Account!RemoveHousehold
<1> QED BY <1>1, <1>2, <1>3, <1>11, <1>12, <1>13, <1>14

(* However many requests overlap: no household a resident registered in    *)
(* the app outlives its account's consent, and whoever is staff holds a    *)
(* code of that role bound to them alone (routers/user.py, CLAIM_SQL).     *)
THEOREM AccountsAlwaysInOrder == Spec => []AccountsInOrder
<1> DEFINE Inv == Account!TypeOK /\ HomeInv /\ Account!StaffByCode
<1>1. Init => Inv
  <2>1. Init => Account!Init
    BY DEF Init
  <2>2. Account!Init => Account!StaffByCode
    BY DEF Account!Init, Account!StaffByCode, Account!Staff
  <2> QED BY <2>1, <2>2, AccountInitTypes, HomeInit
<1>2. [Next]_vars => [Account!Next]_(Account!vars)
  BY DEF Next, vars, accountVars, Account!vars
<1>3. Inv /\ [Next]_vars => Inv'
  BY <1>2, AccountNextTypes, HomeNext, CodesNext
<1>4. Inv => AccountsInOrder
  BY DEF AccountsInOrder, HomeInv
<1> QED BY <1>1, <1>3, <1>4, PTL DEF Spec

-----------------------------------------------------------------------------
(* The desk.  A request is on target t from the moment it has read it.     *)
On(q, t) == act[q].at \in {"write", "assign", "on_assigned", "push"} /\ act[q].t = t
Announcing(q, t) == act[q].at \in {"on_assigned", "push"} /\ act[q].t = t

(* What a request has read still stands, the one that announces announces  *)
(* the assignment there is, and with none the resident has been told.      *)
Helped(t) ==
  /\ \A q \in Responders : act[q].at \in {"write", "assign"} /\ act[q].t = t => act[q].was = assigned[t]
  /\ \A q \in Responders : Announcing(q, t) => assigned[t] = Board!Saved(q)
  /\ \A q \in Responders : act[q].at = "push" /\ act[q].t = t => act[q].assign = "me" /\ eta[t] = q
  /\ (\A q \in Responders : ~ Announcing(q, t)) =>
       eta[t] = assigned[t] /\ (assigned[t] # None => told[t] = assigned[t])

HelperInv == \A t \in Targets \ disturbed : status[t] # None => Helped(t)

LEMMA DeskConstants ==
  MaxActs \in Nat /\ MaxFailures \in Nat /\ None \notin Responders \cup Targets
BY ServicesAssumption DEF Board!DeskAssumption

DeskActs == act \in [Responders -> Board!Acts] /\ acts \in 0..MaxActs
DeskRows ==
  /\ open \in BOOLEAN /\ visits \subseteq Targets /\ disturbed \subseteq Targets
  /\ status \in [Targets -> Board!TargetStates \cup {None}]
  /\ assigned \in [Targets -> Responders \cup {None}]
  /\ eta \in [Targets -> Responders \cup {None}]
  /\ told \in [Targets -> Responders \cup {None}]
  /\ calcFailures \in 0..MaxFailures

LEMMA DeskTypeParts == Board!TypeOK <=> DeskActs /\ DeskRows
BY DEF Board!TypeOK, DeskActs, DeskRows

(* What a request under way has in hand.                                   *)
LEMMA ActFields ==
  ASSUME DeskActs, NEW p \in Responders,
         act[p].at \in {"find", "write", "assign", "on_assigned", "push"}
  PROVE  /\ act[p].t \in Targets /\ act[p].new \in Board!TargetStates \cup {None}
         /\ act[p] \in [at : {"find", "write", "assign", "on_assigned", "push"}, t : Targets,
                        new : Board!TargetStates \cup {None}, assign : {"me", "nobody", "keep"},
                        visit : BOOLEAN, was : Responders \cup {None}]
BY DEF DeskActs, Board!Acts, Board!Idle

LEMMA ActMoves ==
  ASSUME DeskActs, NEW p \in Responders, NEW q, Board!Goes(p, q)
  PROVE  /\ act'[p] = q /\ \A r \in Responders : r # p => act'[r] = act[r]
         /\ q \in Board!Acts => act' \in [Responders -> Board!Acts]
BY DEF DeskActs, Board!Goes

LEMMA ActSteps ==
  ASSUME DeskActs, NEW p \in Responders,
         act[p].at \in {"find", "write", "assign", "on_assigned", "push"},
         NEW l \in {"write", "assign", "on_assigned", "push"}, Board!Step(p, l)
  PROVE  /\ act' \in [Responders -> Board!Acts]
         /\ act'[p] = [act[p] EXCEPT !.at = l]
         /\ act'[p].at = l /\ act'[p].t = act[p].t /\ act'[p].assign = act[p].assign
         /\ act'[p].was = act[p].was
         /\ \A r \in Responders : r # p => act'[r] = act[r]
<1>1. act[p] \in [at : {"find", "write", "assign", "on_assigned", "push"}, t : Targets,
                  new : Board!TargetStates \cup {None}, assign : {"me", "nobody", "keep"},
                  visit : BOOLEAN, was : Responders \cup {None}]
  BY ActFields
<1> DEFINE q == [act[p] EXCEPT !.at = l]
<1>2. q.at = l /\ q.t = act[p].t /\ q.assign = act[p].assign /\ q.was = act[p].was
  BY <1>1
<1>3. q \in Board!Acts
  BY <1>1 DEF Board!Acts
<1> HIDE DEF q
<1>4. Board!Goes(p, q)
  BY DEF Board!Step, q
<1> QED BY <1>2, <1>3, <1>4, ActMoves DEF q

LEMMA ActEnds ==
  ASSUME DeskActs, NEW p \in Responders, Board!Ends(p)
  PROVE  /\ act' \in [Responders -> Board!Acts]
         /\ act'[p].at = "idle"
         /\ \A r \in Responders : r # p => act'[r] = act[r]
<1>1. Board!Idle \in Board!Acts /\ Board!Idle.at = "idle"
  BY DEF Board!Acts, Board!Idle
<1> QED BY <1>1, ActMoves DEF Board!Ends

LEMMA ActAsks ==
  ASSUME DeskActs, acts < MaxActs, acts' = acts + 1
  PROVE  acts' \in 0..MaxActs
BY DeskConstants DEF DeskActs

LEMMA DeskInitTypes == Board!Init => Board!TypeOK
BY DeskConstants DEF Board!Init, Board!TypeOK, Board!Acts, Board!TargetStates

LEMMA DeskNextTypes ==
  ASSUME Board!TypeOK, [Board!Next]_(Board!vars)
  PROVE  Board!TypeOK'
<1> SUFFICES DeskActs' /\ DeskRows'
  BY DEF Board!TypeOK, DeskActs, DeskRows
<1>0. DeskActs /\ DeskRows
  BY DeskTypeParts
<1> USE <1>0
<1>1. ASSUME NEW p \in Responders, NEW t \in Targets, NEW new \in {None, "evacuated", "need_help"},
             NEW assign \in {"me", "nobody", "keep"}, NEW visit \in BOOLEAN,
             Board!Ask(p, t, new, assign, visit)
      PROVE  DeskActs' /\ DeskRows'
  <2> DEFINE q == [at |-> "find", t |-> t, new |-> new, assign |-> assign, visit |-> visit, was |-> None]
  <2>1. q \in Board!Acts
    BY DEF Board!Acts, Board!TargetStates
  <2> HIDE DEF q
  <2>2. act' \in [Responders -> Board!Acts]
    BY <1>1, <2>1, ActMoves DEF Board!Ask, q
  <2> QED BY <1>1, <2>2, ActAsks DEF Board!Ask, DeskActs, DeskRows
<1>2. ASSUME NEW p \in Responders, Board!FindTarget(p) PROVE DeskActs' /\ DeskRows'
  <2>1. CASE Board!Ends(p)
    BY <1>2, <2>1, ActEnds DEF Board!FindTarget, DeskActs, DeskRows
  <2>2. CASE Board!Goes(p, [act[p] EXCEPT !.at = "write", !.was = assigned[act[p].t]])
    <3>1. /\ act[p].t \in Targets
          /\ act[p] \in [at : {"find", "write", "assign", "on_assigned", "push"}, t : Targets,
                         new : Board!TargetStates \cup {None}, assign : {"me", "nobody", "keep"},
                         visit : BOOLEAN, was : Responders \cup {None}]
      BY <1>2, ActFields DEF Board!FindTarget
    <3>2. assigned[act[p].t] \in Responders \cup {None}
      BY <3>1 DEF DeskRows
    <3>3. [act[p] EXCEPT !.at = "write", !.was = assigned[act[p].t]] \in Board!Acts
      BY <3>1, <3>2 DEF Board!Acts
    <3> QED BY <1>2, <2>2, <3>3, ActMoves DEF Board!FindTarget, DeskActs, DeskRows
  <2> QED BY <1>2, <2>1, <2>2 DEF Board!FindTarget
<1>3. ASSUME NEW p \in Responders, Board!Write(p) PROVE DeskActs' /\ DeskRows'
  <2>1. act[p].t \in Targets /\ act[p].new \in Board!TargetStates \cup {None}
    BY <1>3, ActFields DEF Board!Write
  <2>2. act' \in [Responders -> Board!Acts]
    BY <1>3, ActEnds, ActSteps DEF Board!Write
  <2> QED BY <1>3, <2>1, <2>2 DEF Board!Write, DeskActs, DeskRows
<1>4. ASSUME NEW p \in Responders, Board!Assign(p) PROVE DeskActs' /\ DeskRows'
  <2>1. act[p].t \in Targets
    BY <1>4, ActFields DEF Board!Assign
  <2>2. act' \in [Responders -> Board!Acts]
    BY <1>4, ActEnds, ActSteps DEF Board!Assign
  <2>3. assigned' \in [Targets -> Responders \cup {None}] /\ disturbed' \subseteq Targets
    BY <1>4, <2>1 DEF Board!Assign, Board!Disturb, DeskRows
  <2> QED BY <1>4, <2>2, <2>3 DEF Board!Assign, DeskActs, DeskRows
<1>5. ASSUME NEW p \in Responders, Board!SaveEta(p) PROVE DeskActs' /\ DeskRows'
  <2>1. act[p].t \in Targets
    BY <1>5, ActFields DEF Board!SaveEta
  <2>2. act' \in [Responders -> Board!Acts]
    BY <1>5, ActEnds, ActSteps DEF Board!SaveEta
  <2>3. eta' \in [Targets -> Responders \cup {None}] /\ disturbed' \subseteq Targets
    BY <1>5, <2>1 DEF Board!SaveEta, Board!Saved, Board!Disturb, DeskRows
  <2> QED BY <1>5, <2>2, <2>3 DEF Board!SaveEta, DeskActs, DeskRows
<1>6. ASSUME NEW p \in Responders, Board!Push(p) PROVE DeskActs' /\ DeskRows'
  <2>1. act[p].t \in Targets
    BY <1>6, ActFields DEF Board!Push
  <2>2. act' \in [Responders -> Board!Acts]
    BY <1>6, ActEnds DEF Board!Push
  <2>3. told' \in [Targets -> Responders \cup {None}] /\ disturbed' \subseteq Targets
    BY <1>6, <2>1 DEF Board!Push, Board!Disturb, DeskRows
  <2> QED BY <1>6, <2>2, <2>3 DEF Board!Push, DeskActs, DeskRows
<1>7. ASSUME NEW p \in Responders, Board!OnAssignedFails(p) PROVE DeskActs' /\ DeskRows'
  <2>1. act[p].t \in Targets
    BY <1>7, ActFields DEF Board!OnAssignedFails
  <2>2. act' \in [Responders -> Board!Acts]
    BY <1>7, ActEnds DEF Board!OnAssignedFails
  <2>3. calcFailures' \in 0..MaxFailures
    BY <1>7, DeskConstants DEF Board!OnAssignedFails, DeskRows
  <2> QED BY <1>7, <2>1, <2>2, <2>3 DEF Board!OnAssignedFails, DeskActs, DeskRows
<1>8. ASSUME NEW p \in Responders, Board!AskClose(p) PROVE DeskActs' /\ DeskRows'
  <2>1. [at |-> "close"] \in Board!Acts
    BY DEF Board!Acts
  <2> QED BY <1>8, <2>1, ActAsks, ActMoves DEF Board!AskClose, DeskActs, DeskRows
<1>9. ASSUME NEW p \in Responders, Board!CloseIncident(p) PROVE DeskActs' /\ DeskRows'
  BY <1>9, ActEnds DEF Board!CloseIncident, DeskActs, DeskRows
<1>10. ASSUME NEW t \in Targets, Board!HouseholdDeleted(t) PROVE DeskActs' /\ DeskRows'
  BY <1>10, ActAsks DEF Board!HouseholdDeleted, DeskActs, DeskRows
<1>11. CASE UNCHANGED Board!vars
  BY <1>11 DEF Board!vars, DeskActs, DeskRows
<1> QED
  BY <1>1, <1>2, <1>3, <1>4, <1>5, <1>6, <1>7, <1>8, <1>9, <1>10, <1>11
     DEF Board!Next, Board!RequestSteps

(* What happens to one target leaves the others as they are.               *)
LEMMA Elsewhere ==
  ASSUME NEW u, Helped(u),
         \A q \in Responders : act'[q] = act[q] \/ (~ On(q, u) /\ ~ On(q, u)'),
         assigned'[u] = assigned[u], eta'[u] = eta[u], told'[u] = told[u]
  PROVE  Helped(u)'
BY DEF Helped, On, Announcing, Board!Saved

LEMMA DeskInitHelped == Board!Init => HelperInv
BY DEF Board!Init, Board!Idle, HelperInv, Helped, Announcing

LEMMA DeskNextHelped ==
  ASSUME Board!TypeOK, HelperInv, [Board!Next]_(Board!vars)
  PROVE  HelperInv'
<1>0. DeskActs /\ DeskRows
  BY DeskTypeParts
<1> USE <1>0
<1> SUFFICES ASSUME NEW u \in Targets \ disturbed', status'[u] # None
             PROVE  Helped(u)'
  BY DEF HelperInv
<1>h. ASSUME u \notin disturbed, status[u] # None PROVE Helped(u)
  BY <1>h DEF HelperInv
<1>1. ASSUME NEW p \in Responders, NEW t \in Targets, NEW new \in {None, "evacuated", "need_help"},
             NEW assign \in {"me", "nobody", "keep"}, NEW visit \in BOOLEAN,
             Board!Ask(p, t, new, assign, visit)
      PROVE  Helped(u)'
  <2>1. act[p].at = "idle" /\ act'[p].at = "find" /\ \A q \in Responders : q # p => act'[q] = act[q]
    BY <1>1, ActMoves DEF Board!Ask, Board!Idle
  <2> QED BY <1>1, <1>h, <2>1, Elsewhere DEF Board!Ask, On
<1>2. ASSUME NEW p \in Responders, Board!FindTarget(p) PROVE Helped(u)'
  <2>1. Helped(u)
    BY <1>2, <1>h DEF Board!FindTarget
  <2>2. CASE Board!Ends(p)
    BY <1>2, <2>1, <2>2, ActEnds, Elsewhere DEF Board!FindTarget, On
  <2>3. CASE Board!Goes(p, [act[p] EXCEPT !.at = "write", !.was = assigned[act[p].t]])
    <3>1. act[p] \in [at : {"find", "write", "assign", "on_assigned", "push"}, t : Targets,
                      new : Board!TargetStates \cup {None}, assign : {"me", "nobody", "keep"},
                      visit : BOOLEAN, was : Responders \cup {None}]
      BY <1>2, ActFields DEF Board!FindTarget
    <3>2. act'[p].at = "write" /\ act'[p].t = act[p].t /\ act'[p].was = assigned[act[p].t]
          /\ \A q \in Responders : q # p => act'[q] = act[q]
      <4> DEFINE n == [act[p] EXCEPT !.at = "write", !.was = assigned[act[p].t]]
      <4>1. n.at = "write" /\ n.t = act[p].t /\ n.was = assigned[act[p].t]
        BY <3>1
      <4> HIDE DEF n
      <4> QED BY <2>3, <4>1, ActMoves DEF n
    <3> QED BY <1>2, <2>1, <3>2 DEF Board!FindTarget, Helped, Announcing, Board!Saved
  <2> QED BY <1>2, <2>2, <2>3 DEF Board!FindTarget
<1>3. ASSUME NEW p \in Responders, Board!Write(p) PROVE Helped(u)'
  <2>1. act[p].t \in Targets /\ act[p].at = "write"
    BY <1>3, ActFields DEF Board!Write
  <2>2. Helped(u)
    BY <1>3, <1>h, <2>1 DEF Board!Write, DeskRows
  <2>3. assigned' = assigned /\ eta' = eta /\ told' = told
    BY <1>3 DEF Board!Write
  <2>4. CASE Board!Ends(p)
    BY <2>1, <2>2, <2>3, <2>4, ActEnds DEF Helped, Announcing, Board!Saved
  <2>5. CASE Board!Step(p, "assign")
    <3>1. /\ act'[p].at = "assign" /\ act'[p].t = act[p].t /\ act'[p].was = act[p].was
          /\ \A q \in Responders : q # p => act'[q] = act[q]
      BY <2>1, <2>5, ActSteps
    <3> QED BY <2>1, <2>2, <2>3, <3>1 DEF Helped, Announcing, Board!Saved
  <2> QED BY <1>3, <2>4, <2>5 DEF Board!Write
<1>4. ASSUME NEW p \in Responders, Board!Assign(p) PROVE Helped(u)'
  <2> DEFINE t == act[p].t
             new == IF act[p].assign = "me" THEN p ELSE None
  <2>1. t \in Targets /\ act[p].at = "assign" /\ eta' = eta /\ told' = told /\ status' = status
    BY <1>4, ActFields DEF Board!Assign
  <2>2. assigned'[u] = IF u = t THEN new ELSE assigned[u]
    BY <1>4, <2>1 DEF Board!Assign, DeskRows
  <2>3. /\ act'[p].at \in {"idle", "on_assigned"}
        /\ act'[p].at = "on_assigned" <=> Board!Announces(act[p].was, new)
        /\ act'[p].at = "on_assigned" => act'[p].t = t /\ act'[p].assign = act[p].assign
        /\ \A q \in Responders : q # p => act'[q] = act[q]
    BY <1>4, <2>1, ActSteps, ActEnds DEF Board!Assign
  <2>4. CASE u # t
    <3>1. Helped(u)
      BY <1>4, <1>h, <2>1, <2>4 DEF Board!Assign, Board!Disturb
    <3> QED BY <2>1, <2>2, <2>3, <2>4, <3>1, Elsewhere DEF On
  <2>5. CASE u = t
    <3>1. \A q \in Responders \ {p} : ~ On(q, u)
      BY <1>4, <2>5 DEF Board!Assign, Board!Disturb, Board!Meeting, On
    <3>2. \A q \in Responders \ {p} : ~ On(q, u)'
      BY <2>3, <3>1 DEF On
    <3>3. CASE Board!Announces(act[p].was, new)
      <4>1. \A q \in Responders : act'[q].at \notin {"write", "assign"} \/ act'[q].t # u
        BY <2>3, <3>2, <3>3 DEF On
      <4>2. \A q \in Responders : Announcing(q, u)' => q = p
        BY <3>2 DEF On, Announcing
      <4>3. assigned'[u] = Board!Saved(p)' /\ act'[p].at = "on_assigned" /\ Announcing(p, u)'
        BY <2>2, <2>3, <2>5, <3>3 DEF Board!Saved, Announcing
      <4> QED BY <4>1, <4>2, <4>3 DEF Helped, Announcing
    <3>4. CASE ~ Board!Announces(act[p].was, new)
      <4>1. Helped(u)
        BY <1>4, <1>h, <2>1, <2>5, <3>4 DEF Board!Assign, Board!Disturb
      <4>2. act[p].was = new /\ assigned[u] = new
        BY <2>1, <2>5, <3>4, <4>1 DEF Helped, Board!Announces
      <4>3. \A q \in Responders : ~ Announcing(q, u) /\ ~ On(q, u)'
        BY <2>1, <2>3, <3>1, <3>2, <3>4 DEF On, Announcing
      <4> QED BY <2>1, <2>2, <2>5, <4>1, <4>2, <4>3 DEF Helped, On, Announcing
    <3> QED BY <3>3, <3>4
  <2> QED BY <2>4, <2>5
<1>5. ASSUME NEW p \in Responders, Board!SaveEta(p) PROVE Helped(u)'
  <2> DEFINE t == act[p].t
  <2>1. /\ t \in Targets /\ act[p].at = "on_assigned"
        /\ assigned' = assigned /\ told' = told /\ status' = status
    BY <1>5, ActFields DEF Board!SaveEta
  <2>2. Helped(u)
    BY <1>5, <1>h, <2>1 DEF Board!SaveEta, Board!Disturb
  <2>3. eta'[u] = IF u = t THEN Board!Saved(p) ELSE eta[u]
    BY <1>5, <2>1 DEF Board!SaveEta, DeskRows
  <2>4. /\ IF act[p].assign = "me"
             THEN act'[p].at = "push" /\ act'[p].t = t /\ act'[p].assign = "me"
             ELSE act'[p].at = "idle"
        /\ \A q \in Responders : q # p => act'[q] = act[q]
    BY <1>5, <2>1, ActSteps, ActEnds DEF Board!SaveEta
  <2>5. CASE u # t
    BY <2>1, <2>2, <2>3, <2>4, <2>5, Elsewhere DEF On
  <2>6. CASE u = t
    <3>1. \A q \in Responders \ {p} : ~ On(q, u)
      BY <1>5, <2>6 DEF Board!SaveEta, Board!Disturb, Board!Meeting, On
    <3>2. \A q \in Responders \ {p} : ~ On(q, u)'
      BY <2>4, <3>1 DEF On
    <3>3. assigned[u] = Board!Saved(p)
      BY <2>1, <2>2, <2>6 DEF Helped, Announcing
    <3>4. CASE act[p].assign = "me"
      <4>1. assigned[u] = p /\ eta'[u] = p
        BY <2>3, <2>6, <3>3, <3>4 DEF Board!Saved
      <4>2. Announcing(p, u)' /\ (\A q \in Responders : Announcing(q, u)' => q = p) /\ act'[p].assign = "me"
        BY <2>4, <2>6, <3>2, <3>4 DEF On, Announcing
      <4>3. \A q \in Responders : act'[q].at \notin {"write", "assign"} \/ act'[q].t # u
        BY <2>4, <3>2, <3>4 DEF On
      <4> QED BY <2>1, <4>1, <4>2, <4>3 DEF Helped, Announcing, Board!Saved
    <3>5. CASE act[p].assign # "me"
      <4>1. assigned[u] = None /\ eta'[u] = None
        BY <2>3, <2>6, <3>3, <3>5 DEF Board!Saved
      <4>2. \A q \in Responders : ~ On(q, u)'
        BY <2>4, <3>2, <3>5 DEF On
      <4> QED BY <2>1, <4>1, <4>2 DEF Helped, On, Announcing
    <3> QED BY <3>4, <3>5
  <2> QED BY <2>5, <2>6
<1>6. ASSUME NEW p \in Responders, Board!Push(p) PROVE Helped(u)'
  <2> DEFINE t == act[p].t
  <2>1. /\ t \in Targets /\ act[p].at = "push"
        /\ assigned' = assigned /\ eta' = eta /\ status' = status
    BY <1>6, ActFields DEF Board!Push
  <2>2. Helped(u)
    BY <1>6, <1>h, <2>1 DEF Board!Push, Board!Disturb
  <2>3. told'[u] = IF u = t THEN p ELSE told[u]
    BY <1>6, <2>1 DEF Board!Push, DeskRows
  <2>4. act'[p].at = "idle" /\ \A q \in Responders : q # p => act'[q] = act[q]
    BY <1>6, ActEnds DEF Board!Push
  <2>5. CASE u # t
    BY <2>1, <2>2, <2>3, <2>4, <2>5, Elsewhere DEF On
  <2>6. CASE u = t
    <3>1. \A q \in Responders : ~ On(q, u)'
      BY <1>6, <2>4, <2>6 DEF Board!Push, Board!Disturb, Board!Meeting, On
    <3>2. assigned[u] = p /\ eta[u] = p
      BY <2>1, <2>2, <2>6 DEF Helped, Announcing, Board!Saved
    <3> QED BY <2>1, <2>3, <2>6, <3>1, <3>2 DEF Helped, On, Announcing
  <2> QED BY <2>5, <2>6
<1>7. ASSUME NEW p \in Responders, Board!OnAssignedFails(p) PROVE Helped(u)'
  <2>1. Helped(u) /\ u # act[p].t
    BY <1>7, <1>h DEF Board!OnAssignedFails
  <2>2. act'[p].at = "idle" /\ \A q \in Responders : q # p => act'[q] = act[q]
    BY <1>7, ActEnds DEF Board!OnAssignedFails
  <2> QED BY <1>7, <2>1, <2>2, Elsewhere DEF Board!OnAssignedFails, On
<1>8. ASSUME NEW p \in Responders, Board!AskClose(p) PROVE Helped(u)'
  <2>1. act[p].at = "idle" /\ act'[p].at = "close" /\ \A q \in Responders : q # p => act'[q] = act[q]
    BY <1>8, ActMoves DEF Board!AskClose, Board!Idle
  <2> QED BY <1>8, <1>h, <2>1, Elsewhere DEF Board!AskClose, On
<1>9. ASSUME NEW p \in Responders, Board!CloseIncident(p) PROVE Helped(u)'
  <2>1. act[p].at = "close" /\ act'[p].at = "idle" /\ \A q \in Responders : q # p => act'[q] = act[q]
    BY <1>9, ActEnds DEF Board!CloseIncident
  <2> QED BY <1>9, <1>h, <2>1, Elsewhere DEF Board!CloseIncident, On
<1>10. ASSUME NEW t \in Targets, Board!HouseholdDeleted(t) PROVE Helped(u)'
  <2>1. u # t /\ assigned'[u] = assigned[u] /\ eta'[u] = eta[u] /\ told' = told /\ act' = act
        /\ status[u] # None /\ u \notin disturbed
    BY <1>10 DEF Board!HouseholdDeleted, DeskRows
  <2> QED BY <1>h, <2>1, Elsewhere
<1>11. CASE UNCHANGED Board!vars
  BY <1>11, <1>h, Elsewhere DEF Board!vars
<1> QED
  BY <1>1, <1>2, <1>3, <1>4, <1>5, <1>6, <1>7, <1>8, <1>9, <1>10, <1>11
     DEF Board!Next, Board!RequestSteps

(* Once no request is on a target, its resident has been told of the       *)
(* responder it is assigned to and reads that one's arrival time, and      *)
(* nobody's when it is not (alerts/assignment.py), for any responders and  *)
(* targets; requests that met and calls that failed are excepted.          *)
THEOREM HelperAlwaysKnown == Spec => []ResidentKnowsHelper
<1> DEFINE Inv == Board!TypeOK /\ HelperInv
<1>1. Init => Inv
  BY DeskInitTypes, DeskInitHelped DEF Init
<1>2. [Next]_vars => [Board!Next]_(Board!vars)
  BY DEF Next, vars, deskVars, Board!vars
<1>3. Inv /\ [Next]_vars => Inv'
  BY <1>2, DeskNextTypes, DeskNextHelped
<1>4. Inv => ResidentKnowsHelper
  <2> SUFFICES ASSUME Inv, NEW t \in Targets \ disturbed, \A p \in Responders : act[p] = Board!Idle, status[t] # None
               PROVE  /\ Board!MyEvacuation(t).assigned => told[t] = assigned[t]
                      /\ Board!MyEvacuation(t).eta = assigned[t] /\ eta[t] = assigned[t]
    BY DEF ResidentKnowsHelper, Board!ResidentKnowsHelper
  <2>1. Helped(t) /\ \A q \in Responders : ~ Announcing(q, t)
    BY DEF HelperInv, Announcing, Board!Idle
  <2>2. eta[t] = assigned[t] /\ (assigned[t] # None => told[t] = assigned[t])
    BY <2>1 DEF Helped
  <2> QED BY <2>2 DEF Board!MyEvacuation
<1> QED BY <1>1, <1>3, <1>4, PTL DEF Spec

-----------------------------------------------------------------------------
(* All that the composition says of every module's variables.              *)
ServicesTypes ==
  /\ QueueTypes /\ CopyTypes /\ Account!TypeOK /\ Board!TypeOK /\ NotesTypes /\ SaidInv /\ AlarmTypes
  /\ SheetTypes

LEMMA ServicesNext == ServicesTypes /\ [Next]_vars => ServicesTypes'
<1> SUFFICES ASSUME ServicesTypes, [Next]_vars PROVE ServicesTypes'
  OBVIOUS
<1> USE DEF ServicesTypes
<1>1. [Account!Next]_(Account!vars) /\ [Board!Next]_(Board!vars)
  BY DEF Next, vars, accountVars, Account!vars, deskVars, Board!vars
<1>2. [Alarm!Next]_(Alarm!vars) /\ [Practice!Next]_(Practice!drillVars)
  BY DEF Next, vars, alarmVars, Alarm!vars, practiceVars, Practice!drillVars
<1>3. QueueTypes' /\ CopyTypes'
  BY QueueTypesNext, AnswerSteps, CopyTypesNext, SyncSteps
<1>4. Account!TypeOK' /\ Board!TypeOK'
  BY <1>1, AccountNextTypes, DeskNextTypes
<1>5. NotesTypes' /\ SaidInv'
  BY NotesStep, NotesMove
<1>6. AlarmTypes' /\ SheetTypes'
  BY <1>2, AlarmNext, SheetNextTypes
<1> QED BY <1>3, <1>4, <1>5, <1>6

(* Each module's variables stay in their ranges; an alert that is pushed,  *)
(* asked for or shown is one that was stored, and a user has one alert of  *)
(* a judgement (dispatch.py INSERT_ALERT_SQL); what the assistant records  *)
(* as written reached the server (profile_sync.py).                        *)
THEOREM ServicesTyped == Spec => []TypeOK
<1>1. Init => ServicesTypes
  BY QueueInit, CopyInit, AccountInitTypes, DeskInitTypes, NotesInit, AlarmInit, SheetInit DEF Init, ServicesTypes
<1>2. ServicesTypes => TypeOK
  <2> SUFFICES ASSUME ServicesTypes PROVE TypeOK
    OBVIOUS
  <2> USE DEF ServicesTypes
  <2>1. Answer!TypeOK /\ Sync!TypeOK
    BY DEF QueueTypes, CopyTypes
  <2>2. Notes!TypeOK
    <3>1. Started <= asked
      BY EmptySeq, LenProperties DEF NotesTypes, QueueInOrder, Started
    <3>2. \A w \in Writers : writer[w].turn \in 0..asked
      BY <3>1 DEF NotesTypes, JobsTyped, JobTyped, QueueInOrder
    <3>3. \A w \in Writers : writer[w].at \in {"rest", "extract", "places"}
      BY DEF NotesTypes, JobsTyped, JobTyped
    <3>4. \A k \in places : k.id \in 1..nextPlace - 1 /\ k.kind \in {"home", "frequent"}
      BY DEF NotesTypes, PlacesListed, Listed, Notes!PlaceKinds
    <3> QED BY <3>2, <3>3, <3>4 DEF Notes!TypeOK, NotesTypes, QueueInOrder, FactsLanded
  <2>3. Alarm!TypeOK
    <3>1. \A p \in {"job", "poll"} : run[p].new \subseteq alerts
      BY DEF AlarmTypes, RunTypes
    <3>2. poll.since \subseteq alerts /\ poll.found \subseteq alerts
      BY DEF AlarmTypes, PollTypes
    <3> QED BY <3>1, <3>2 DEF Alarm!TypeOK, AlarmTypes, OneAlertEach
  <2>4. Practice!TypeOK
    BY DEF SheetTypes, PullStates, Practice!TypeOK
  <2> QED BY <2>1, <2>2, <2>3, <2>4 DEF TypeOK
<1> QED BY <1>1, <1>2, ServicesNext, PTL DEF Spec
=============================================================================
