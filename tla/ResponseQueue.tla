--------------------------- MODULE ResponseQueue ----------------------------
(***************************************************************************)
(* The phone's side of an evacuation answer: _submitEvacuationResponse     *)
(* sends it, evacuation_response_queue.dart keeps it when the connection   *)
(* breaks, retryQueuedEvacuationResponses sends what is kept, one by one,  *)
(* from a snapshot of the stored list.                                     *)
(*                                                                         *)
(* Once the preferences are loaded, enqueue and remove run to their end in *)
(* one turn of the event loop, so each is one step; what interleaves are   *)
(* the requests between them.  EvacCheck models what an answer does at the *)
(* server.                                                                 *)
(***************************************************************************)
EXTENDS Integers, Sequences, SequencesExt

CONSTANTS
  Alerts,      \* evacuation alerts the phone shows
  None,
  MaxAnswers,  \* bound: answers given
  MaxBreaks,   \* bound: requests whose connection breaks, and times the phone goes offline
  MaxRestarts  \* bound: times the app is closed

QueueConstants ==
  /\ MaxAnswers \in Nat /\ MaxBreaks \in Nat /\ MaxRestarts \in Nat
  /\ None \notin [alert : Alerts, n : 1..MaxAnswers]

Answers == [alert : Alerts, n : 1..MaxAnswers]

VARIABLES
  stored,      \* SharedPreferences: the list of answers to send
  sending,     \* answers _submitEvacuationResponse has sent and awaits
  retry,       \* the retry loop: [on, todo, now]; on is _retryingEvacuationResponses
  pendingIds,  \* pendingResponseIdsProvider
  offline,     \* the app knows that it is offline
  promised,    \* history: answers of which the user reads "kept, will be sent"
  crossed,     \* history: alerts answered again while an answer to them was under way
  replied,     \* history: how many answers were given when the server last replied to one of an alert
  answers,     \* answers given so far
  breaks,
  restarts

vars == <<stored, sending, retry, pendingIds, offline, promised, crossed, replied, answers, breaks, restarts>>

Idle == [on |-> FALSE, todo |-> <<>>, now |-> None]

Init ==
  /\ stored = <<>>
  /\ sending = {}
  /\ retry = Idle
  /\ pendingIds = {}
  /\ offline = FALSE
  /\ promised = {}
  /\ crossed = {} /\ replied = [a \in Alerts |-> 0]
  /\ answers = 0 /\ breaks = 0 /\ restarts = 0

(* The stored list without the answers to alert a: with none of them or    *)
(* one, since an answer enters the list only after those of its alert left *)
(* it (Enqueued).                                                          *)
Without(list, a) ==
  IF \E i \in DOMAIN list : list[i].alert = a
    THEN RemoveAt(list, CHOOSE i \in DOMAIN list : list[i].alert = a)
    ELSE list

Enqueued(list, x) == Append(Without(list, x.alert), x)

(* A newer answer to the same alert takes the place of the promise.        *)
Overtaken(x) == {y \in promised : y.alert = x.alert /\ y.n < x.n}

Elements(list) == {list[i] : i \in DOMAIN list}
UnderWay == sending \cup Elements(stored) \cup Elements(retry.todo) \cup ({retry.now} \ {None})

(* The server confirms or refuses an answer: the user hears of the alert.  *)
Replies(a) == replied' = [replied EXCEPT ![a] = answers]

-----------------------------------------------------------------------------
(* _submitEvacuationResponse.  Only the popup that opens by itself passes  *)
(* over the alerts in pendingIds; the chip of the header (openEvacHeader)  *)
(* and a notification's buttons (EvacAlarm.onAction) answer an alert again *)
(* while an answer to it is sent or kept.                                  *)
Submit(a) ==
  /\ ~ offline
  /\ answers < MaxAnswers
  /\ answers' = answers + 1
  /\ sending' = sending \cup {[alert |-> a, n |-> answers + 1]}
  /\ crossed' = IF \E x \in UnderWay : x.alert = a THEN crossed \cup {a} ELSE crossed
  /\ UNCHANGED <<stored, retry, pendingIds, offline, promised, replied, breaks, restarts>>

SubmitDone(x) ==
  /\ x \in sending
  /\ sending' = sending \ {x}
  /\ stored' = Without(stored, x.alert)
  /\ pendingIds' = pendingIds \ {x.alert}
  /\ promised' = promised \ Overtaken(x)
  /\ Replies(x.alert)
  /\ UNCHANGED <<retry, offline, crossed, answers, breaks, restarts>>

(* A broken connection: keep the answer, tell the user.                    *)
MutantNotKept(x) == stored
Kept(x) == Enqueued(stored, x)

SubmitBreaks(x) ==
  /\ x \in sending
  /\ breaks < MaxBreaks /\ breaks' = breaks + 1
  /\ sending' = sending \ {x}
  /\ stored' = Kept(x)
  /\ pendingIds' = pendingIds \cup {x.alert}
  /\ promised' = (promised \ Overtaken(x)) \cup {x}
  /\ UNCHANGED <<retry, offline, crossed, replied, answers, restarts>>

(* An HTTP error: the user is asked to answer again, and what is kept of   *)
(* the alert stays kept.                                                   *)
SubmitRefused(x) ==
  /\ x \in sending
  /\ sending' = sending \ {x}
  /\ Replies(x.alert)
  /\ UNCHANGED <<stored, retry, pendingIds, offline, promised, crossed, answers, breaks, restarts>>

(* The connection breaks and the list cannot be saved: the user is asked   *)
(* to answer again.                                                        *)
SubmitFails(x) ==
  /\ x \in sending
  /\ breaks < MaxBreaks /\ breaks' = breaks + 1
  /\ sending' = sending \ {x}
  /\ UNCHANGED <<stored, retry, pendingIds, offline, promised, crossed, replied, answers, restarts>>

-----------------------------------------------------------------------------
(* retryQueuedEvacuationResponses: called by every poll, at the app's      *)
(* start and when the phone is online again.                               *)
RetryStart ==
  /\ ~ retry.on /\ ~ offline
  /\ stored # <<>>
  /\ retry' = [on |-> TRUE, todo |-> stored, now |-> None]
  /\ UNCHANGED <<stored, sending, pendingIds, offline, promised, crossed, replied, answers, breaks, restarts>>

RetryNext ==
  /\ retry.on /\ retry.now = None
  /\ retry' = IF retry.todo = <<>> \/ offline
                THEN Idle
                ELSE [retry EXCEPT !.todo = Tail(@), !.now = Head(retry.todo)]
  /\ UNCHANGED <<stored, sending, pendingIds, offline, promised, crossed, replied, answers, breaks, restarts>>

RetryDone ==
  /\ retry.now # None
  /\ stored' = Without(stored, retry.now.alert)
  /\ pendingIds' = pendingIds \ {retry.now.alert}
  /\ promised' = promised \ ({retry.now} \cup Overtaken(retry.now))
  /\ Replies(retry.now.alert)
  /\ retry' = [retry EXCEPT !.now = None]
  /\ UNCHANGED <<sending, offline, crossed, answers, breaks, restarts>>

RetryBreaks ==
  /\ retry.now # None
  /\ breaks < MaxBreaks /\ breaks' = breaks + 1
  /\ retry' = Idle
  /\ UNCHANGED <<stored, sending, pendingIds, offline, promised, crossed, replied, answers, restarts>>

(* An HTTP error: dropped, and the user is asked to answer again.          *)
RetryRefused ==
  /\ retry.now # None
  /\ stored' = Without(stored, retry.now.alert)
  /\ pendingIds' = pendingIds \ {retry.now.alert}
  /\ promised' = promised \ {retry.now}
  /\ Replies(retry.now.alert)
  /\ retry' = [retry EXCEPT !.now = None]
  /\ UNCHANGED <<sending, offline, crossed, answers, breaks, restarts>>

-----------------------------------------------------------------------------
(* checkConnection, every eight seconds.                                   *)
GoOffline ==
  /\ ~ offline
  /\ breaks < MaxBreaks /\ breaks' = breaks + 1
  /\ offline' = TRUE
  /\ UNCHANGED <<stored, sending, retry, pendingIds, promised, crossed, replied, answers, restarts>>

MutantStaysOffline == offline
Reconnected == FALSE

GoOnline ==
  /\ offline /\ offline' = Reconnected
  /\ UNCHANGED <<stored, sending, retry, pendingIds, promised, crossed, replied, answers, breaks, restarts>>

(* The app is closed and started: the list survives, and pendingIds are    *)
(* read from it; an answer under way was promised nothing.                 *)
Restart ==
  /\ restarts < MaxRestarts /\ restarts' = restarts + 1
  /\ sending' = {}
  /\ retry' = Idle
  /\ pendingIds' = {stored[i].alert : i \in DOMAIN stored}
  /\ UNCHANGED <<stored, offline, promised, crossed, replied, answers, breaks>>

RetryStep == RetryStart \/ RetryNext \/ RetryDone \/ RetryRefused

Next ==
  \/ \E a \in Alerts : Submit(a)
  \/ \E x \in sending : SubmitDone(x) \/ SubmitBreaks(x) \/ SubmitRefused(x) \/ SubmitFails(x)
  \/ RetryStep \/ RetryBreaks
  \/ GoOffline \/ GoOnline \/ Restart

Spec == Init /\ [][Next]_vars

(* Polling goes on (main.dart:918), the connection check too; a request    *)
(* ends.  Breaks and restarts are bounded, that is, not for ever.          *)
Fairness == WF_vars(RetryStep) /\ WF_vars(GoOnline)
FairSpec == Spec /\ Fairness

-----------------------------------------------------------------------------
TypeOK ==
  /\ stored \in Seq(Answers)
  /\ sending \subseteq Answers
  /\ retry.on \in BOOLEAN
  /\ retry.todo \in Seq(Answers)
  /\ retry.now \in Answers \cup {None}
  /\ pendingIds \subseteq Alerts
  /\ offline \in BOOLEAN
  /\ promised \subseteq Answers
  /\ crossed \subseteq Alerts /\ replied \in [Alerts -> 0..MaxAnswers]
  /\ answers \in 0..MaxAnswers /\ breaks \in 0..MaxBreaks /\ restarts \in 0..MaxRestarts

(* "보관 후 전송하겠습니다" (main.dart:663): an answer the user was told is  *)
(* kept stays in the list until the server has it, the user is asked again *)
(* or gives a newer one, through retries, breaks and restarts.             *)
InList(x) == x \in Elements(stored)
PromisedKept == \A x \in promised : InList(x)

(* What holds of it: the answer is taken out of the list early only if the *)
(* user answered the alert twice at once, and then the server has replied  *)
(* to one of its answers since, or another one is in the list in its place *)
(* - though one older than it may be: what is removed is the alert, not    *)
(* the answer that was sent (main.dart:676).                               *)
PromiseHeld ==
  \A x \in promised :
     \/ InList(x)
     \/ /\ x.alert \in crossed
        /\ x.n <= replied[x.alert] \/ \E y \in Elements(stored) : y.alert = x.alert

(* ... and in the end the server has replied to an answer of every alert   *)
(* whose answer was kept, although each break stops the whole loop and the *)
(* loop works on a snapshot.                                               *)
Settled == \A x \in promised : x.n <= replied[x.alert]
PromisedSettled == ~ Settled ~> Settled
=============================================================================
