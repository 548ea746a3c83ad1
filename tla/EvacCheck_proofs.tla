-------------------------- MODULE EvacCheck_proofs --------------------------
(***************************************************************************)
(* Proofs about EvacCheck, for any residents, households, number of        *)
(* simultaneous answers and any values of the times and bounds.            *)
(***************************************************************************)
EXTENDS EvacCheck, TLAPS

Serving == {"sent", "upsert", "link", "record", "history", "escalate", "reply"}

-----------------------------------------------------------------------------
(* Type correctness.                                                       *)

LEMMA TimesType ==
  /\ Long \in Nat /\ EscalateAfter <= Long /\ EscalateAfter \in Nat
  /\ \A n \in 0..Long : Older(n) \in 0..Long /\ Older(n) >= n
BY TimesAssumption DEF Long, Older

LEMMA InitType == Init => TypeOK
<1> SUFFICES ASSUME Init PROVE TypeOK
  OBVIOUS
<1>1. /\ req \in [Requests -> Request] /\ \A r \in Requests : req[r].pc = "idle"
  BY DEF Init, NoRequest, Request, Statuses
<1>2. 0 \in 0..Long /\ 0 \in 0..2 /\ 1 \in Judgements
  BY TimesAssumption, TimesType DEF Judgements
<1>3. answers \in 0..MaxAnswers /\ deaths \in 0..MaxDeaths /\ errors \in 0..MaxErrors
  BY BoundsAssumption DEF Init
<1>4. /\ age \in [Targets -> 0..Long] /\ quiet \in [Targets -> 0..Long]
      /\ since \in [Targets -> 0..Long] /\ late \in [Targets -> 0..2]
  BY <1>2 DEF Init
<1> QED
  BY <1>1, <1>2, <1>3, <1>4 DEF Init, TypeOK, Statuses

(* The rows an insert leaves as they are.                                  *)
LEMMA TrackType ==
  ASSUME TypeOK, NEW T \in SUBSET Targets, Track(T)
  PROVE  /\ tracked' \subseteq Targets
         /\ status' = status /\ escalated' = escalated /\ age' = age /\ quiet' = quiet
         /\ since' = since /\ logged' = logged /\ late' = late /\ asked' = asked
         /\ meanwhile' = meanwhile
BY DEF Track, TypeOK

LEMMA GotoType ==
  ASSUME TypeOK, NEW r \in Requests, NEW label \in Serving, Goto(r, label), req[r].pc # "idle"
  PROVE  /\ req' \in [Requests -> Request]
         /\ \A q \in Requests : req'[q].pc # "idle" => req'[q].target \in Targets /\ req'[q].status \in Answers
BY DEF TypeOK, Goto, Request, Serving

(* A slot that takes over a complete request, or none.                     *)
LEMMA SlotType ==
  ASSUME TypeOK, NEW r \in Requests, NEW q \in Request, req' = [req EXCEPT ![r] = q],
         q.pc # "idle" => q.target \in Targets /\ q.status \in Answers
  PROVE  /\ req' \in [Requests -> Request]
         /\ \A x \in Requests : req'[x].pc # "idle" => req'[x].target \in Targets /\ req'[x].status \in Answers
BY DEF TypeOK

LEMMA NoRequestType == NoRequest \in Request /\ NoRequest.pc = "idle"
BY DEF NoRequest, Request, Statuses

LEMMA NextType == TypeOK /\ [Next]_vars => TypeOK'
<1> SUFFICES ASSUME TypeOK, [Next]_vars PROVE TypeOK'
  OBVIOUS
<1> USE TimesType, BoundsAssumption, TargetsAssumption
<1>1. CASE Carry
  BY <1>1, TimesAssumption DEF Carry, TypeOK, rows, spent, Judgements
<1>2. CASE Close
  BY <1>2 DEF Close, TypeOK, rows, spent
<1>3. CASE Tick
  BY <1>3 DEF Tick, TypeOK, spent
<1>4. ASSUME NEW h \in Homes, Enroll(h) PROVE TypeOK'
  BY <1>4 DEF Enroll, TypeOK, rows, spent
<1>5. CASE Pick
  BY <1>5 DEF Pick, TypeOK, rows, spent
<1>6. ASSUME NEW u \in Residents, NEW a \in Judgements, InsertAlert(u, a) PROVE TypeOK'
  BY <1>6 DEF InsertAlert, TypeOK, rows, spent
<1>7. ASSUME NEW u \in Residents, NEW a \in Judgements, InsertTarget(u, a) PROVE TypeOK'
  <2>1. Track({u}) /\ {u} \in SUBSET Targets
    BY <1>7 DEF InsertTarget, Targets
  <2> QED BY <1>7, <2>1, TrackType DEF InsertTarget, TypeOK, spent
<1>8. CASE InsertHomes
  <2>1. Track(enrolled) /\ enrolled \in SUBSET Targets
    BY <1>8 DEF InsertHomes, TypeOK, Targets
  <2> QED BY <1>8, <2>1, TrackType DEF InsertHomes, TypeOK, spent
<1>9. CASE RunDies
  BY <1>9 DEF RunDies, TypeOK, rows
<1>10. ASSUME NEW r \in Requests, NEW t \in Targets, NEW s \in Answers, NEW staff \in BOOLEAN,
              Answer(r, t, s, staff)
       PROVE  TypeOK'
  <2>1. [pc |-> "sent", staff |-> staff, target |-> t, status |-> s, ids |-> {}] \in Request
    BY DEF Request, Statuses
  <2> QED BY <1>10, <2>1 DEF Answer, TypeOK, rows
<1>11. ASSUME NEW r \in Requests, CheckOpen(r) PROVE TypeOK'
  <2>1. CASE closed
    BY <1>11, <2>1, SlotType, NoRequestType DEF CheckOpen, TypeOK, rows, spent
  <2>2. CASE ~closed
    <3>1. \E label \in Serving : Goto(r, label)
      BY <1>11, <2>2 DEF CheckOpen, Serving
    <3> QED BY <1>11, <3>1, GotoType DEF CheckOpen, TypeOK, rows, spent
  <2> QED BY <2>1, <2>2
<1>12. ASSUME NEW r \in Requests, UpsertTarget(r) PROVE TypeOK'
  <2>1. /\ Goto(r, "link") /\ req[r].pc # "idle"
        /\ Track({req[r].target}) /\ {req[r].target} \in SUBSET Targets
    BY <1>12 DEF UpsertTarget, TypeOK
  <2> QED BY <1>12, <2>1, TrackType, GotoType DEF UpsertTarget, TypeOK, spent, Serving
<1>13. ASSUME NEW r \in Requests, ReadLinked(r) PROVE TypeOK'
  <2>1. {req[r].target} \cup Linked(req[r].target) \in SUBSET Targets
    BY <1>13 DEF ReadLinked, TypeOK, Linked, Targets
  <2>0. req[r] \in Request /\ req[r].target \in Targets /\ req[r].status \in Answers
    BY <1>13 DEF ReadLinked, TypeOK
  <2> DEFINE X == {req[r].target} \cup Linked(req[r].target)
             p == [req[r] EXCEPT !.pc = "record"]
             q == [p EXCEPT !.ids = X]
  <2>2. q \in Request /\ q.target \in Targets /\ q.status \in Answers
    <3> HIDE DEF X
    <3>1. p \in Request /\ p.target \in Targets /\ p.status \in Answers
      BY <2>0 DEF Request
    <3> HIDE DEF p
    <3> QED BY <2>1, <3>1 DEF Request, X
  <2>3. req' = [req EXCEPT ![r] = q]
    BY <1>13 DEF ReadLinked, TypeOK, Request
  <2> HIDE DEF q
  <2>4. /\ req' \in [Requests -> Request]
        /\ \A x \in Requests : req'[x].pc # "idle" => req'[x].target \in Targets /\ req'[x].status \in Answers
    BY <2>2, <2>3, SlotType
  <2> QED BY <1>13, <2>4 DEF ReadLinked, TypeOK, rows, spent
<1>14. ASSUME NEW r \in Requests, Record(r) PROVE TypeOK'
  <2>1. Goto(r, "history") /\ req[r].pc # "idle"
    BY <1>14 DEF Record
  <2>2. req[r].status \in Statuses /\ req[r].target \in Targets
    BY <1>14 DEF Record, TypeOK, Statuses
  <2>3. req[r].ids \in SUBSET Targets
    BY DEF TypeOK, Request
  <2>4. asked' \subseteq Targets /\ meanwhile' \subseteq Targets
    BY <1>14, <2>2, <2>3 DEF Record, TypeOK
  <2> QED BY <1>14, <2>1, <2>2, <2>4, GotoType DEF Record, TypeOK, spent, Serving
<1>15. ASSUME NEW r \in Requests, AddHistory(r) PROVE TypeOK'
  <2>1. \E label \in Serving : Goto(r, label)
    BY <1>15 DEF AddHistory, Serving
  <2>2. req[r].pc # "idle" /\ req[r].status \in Answers
    BY <1>15 DEF AddHistory, TypeOK
  <2>3. logged' \in [Targets -> SUBSET Answers]
    BY <1>15, <2>2 DEF AddHistory, TypeOK
  <2> QED BY <1>15, <2>1, <2>2, <2>3, GotoType DEF AddHistory, TypeOK, spent
<1>16. ASSUME NEW r \in Requests, EscalateHelp(r) PROVE TypeOK'
  <2>1. Goto(r, "reply") /\ req[r].pc # "idle"
    BY <1>16 DEF EscalateHelp
  <2> QED BY <1>16, <2>1, GotoType DEF EscalateHelp, TypeOK, spent, Serving
<1>17. ASSUME NEW r \in Requests, Reply(r) PROVE TypeOK'
  BY <1>17, SlotType, NoRequestType DEF Reply, TypeOK, rows, spent
<1>18. ASSUME NEW r \in Requests, ConnectionDies(r) PROVE TypeOK'
  <2>1. /\ Repeated(r) \in Request
        /\ Repeated(r).pc # "idle" => Repeated(r).target \in Targets /\ Repeated(r).status \in Answers
    BY <1>18, NoRequestType DEF ConnectionDies, Repeated, TypeOK, Request
  <2>2. /\ req' \in [Requests -> Request]
        /\ \A x \in Requests : req'[x].pc # "idle" => req'[x].target \in Targets /\ req'[x].status \in Answers
    BY <1>18, <2>1, SlotType DEF ConnectionDies
  <2>3. deaths' \in 0..MaxDeaths
    BY <1>18 DEF ConnectionDies, TypeOK
  <2> QED BY <1>18, <2>2, <2>3 DEF ConnectionDies, TypeOK, rows
<1>19. ASSUME NEW r \in Requests, RequestFails(r) PROVE TypeOK'
  BY <1>19, SlotType, NoRequestType DEF RequestFails, TypeOK, rows
<1>20. CASE Collect
  <2>1. \A t \in Residents : NextAction(t) \in {"reminder", "escalate", "none"}
    BY DEF NextAction
  <2> QED BY <1>20, <2>1 DEF Collect, TypeOK, rows, spent
<1>21. ASSUME NEW t \in Residents, Remind(t) PROVE TypeOK'
  <2>1. t \in Targets
    BY DEF Targets
  <2>2. quiet' \in [Targets -> 0..Long]
    BY <1>21, <2>1 DEF Remind, TypeOK
  <2>3. late' \in [Targets -> 0..2]
    BY <1>21, <2>1 DEF Remind, TypeOK, Min2
  <2> QED BY <1>21, <2>2, <2>3 DEF Remind, TypeOK, spent
<1>22. ASSUME NEW t \in Residents, EscalateSilent(t) PROVE TypeOK'
  BY <1>22 DEF EscalateSilent, TypeOK, spent
<1>23. CASE JobDies
  BY <1>23 DEF JobDies, TypeOK, rows
<1>24. CASE UNCHANGED vars
  BY <1>24 DEF vars, rows, spent, TypeOK
<1> QED
  BY <1>1, <1>2, <1>3, <1>4, <1>5, <1>6, <1>7, <1>8, <1>9, <1>10, <1>11, <1>12, <1>13, <1>14,
     <1>15, <1>16, <1>17, <1>18, <1>19, <1>20, <1>21, <1>22, <1>23, <1>24
  DEF Next, Dispatch, Serve, FollowUp

(* The types of all variables hold in every reachable state.               *)
THEOREM TypeCorrect == Spec => []TypeOK
BY InitType, NextType, PTL DEF Spec

-----------------------------------------------------------------------------
(* An answer never becomes no_response again: only RECORD_SQL writes the   *)
(* status, and what a request records is one of the three answers.         *)
THEOREM AnswersStick == Spec => AnswerSticks
<1>1. TypeOK /\ [Next]_vars => [\A t \in Targets : status[t] # "no_response" => status'[t] # "no_response"]_vars
  <2> SUFFICES ASSUME TypeOK, Next PROVE \A t \in Targets : status[t] # "no_response" => status'[t] # "no_response"
    OBVIOUS
  <2>1. ASSUME NEW r \in Requests, Record(r)
        PROVE  \A t \in Targets : status[t] # "no_response" => status'[t] # "no_response"
    <3>1. req[r].status # "no_response"
      BY <2>1 DEF Record, TypeOK, Answers
    <3> QED BY <2>1, <3>1 DEF Record
  <2>2. ASSUME NEW r \in Requests, ~Record(r), Serve(r) PROVE status' = status
    BY <2>2 DEF Serve, CheckOpen, UpsertTarget, ReadLinked, AddHistory, EscalateHelp, Reply, Track, rows
  <2>3. ASSUME Dispatch PROVE status' = status
    BY <2>3 DEF Dispatch, Pick, InsertAlert, InsertTarget, InsertHomes, Track, rows
  <2>4. ASSUME FollowUp PROVE status' = status
    BY <2>4 DEF FollowUp, Collect, Remind, EscalateSilent, rows
  <2>5. ASSUME ~Dispatch, ~FollowUp, \A r \in Requests : ~Serve(r) PROVE status' = status
    BY <2>5 DEF Next, Carry, Close, Tick, Enroll, RunDies, Answer, ConnectionDies, RequestFails, JobDies, rows
  <2> QED BY <2>1, <2>2, <2>3, <2>4, <2>5
<1> QED BY <1>1, TypeCorrect, PTL DEF Spec, AnswerSticks

-----------------------------------------------------------------------------
(* What the job has decided stays true of the rows until it acts: a target *)
(* that was due for the hand-over only grows older, and stays unanswered   *)
(* unless it answers meanwhile.  And a request that is about to hand over  *)
(* has recorded the call for help.                                         *)
SilentOrMeanwhile(t) == status[t] = "no_response" \/ t \in meanwhile
DueWasSilent ==
  \A t \in Residents :
    <<t, "escalate">> \in plan => t \in tracked /\ age[t] >= EscalateAfter /\ SilentOrMeanwhile(t)
HelpWasAsked ==
  \A r \in Requests :
    \/ req[r].pc = "escalate"
    \/ req[r].pc = "history" /\ req[r].status = "need_help"
    => req[r].target \in asked

EscalationInv == TypeOK /\ DueWasSilent /\ HelpWasAsked

LEMMA NextDue == TypeOK /\ DueWasSilent /\ [Next]_vars => DueWasSilent'
<1> SUFFICES ASSUME TypeOK, DueWasSilent, [Next]_vars PROVE DueWasSilent'
  OBVIOUS
<1>1. ASSUME tracked \subseteq tracked', age' = age, plan' \subseteq plan,
             status' = status, meanwhile' = meanwhile
      PROVE  DueWasSilent'
  BY <1>1 DEF DueWasSilent, SilentOrMeanwhile
<1>2. CASE Tick
  <2>1. \A t \in Residents : t \in Targets /\ (t \in tracked => age'[t] >= age[t] /\ age'[t] \in Nat /\ age[t] \in Nat)
    BY <1>2, TimesType DEF Tick, TypeOK, Targets
  <2> QED BY <1>2, <2>1, TimesType DEF Tick, DueWasSilent, SilentOrMeanwhile
<1>3. CASE Collect
  <2> SUFFICES ASSUME NEW t \in Residents, <<t, "escalate">> \in plan'
               PROVE  t \in tracked /\ age[t] >= EscalateAfter /\ status[t] = "no_response"
    BY <1>3 DEF Collect, DueWasSilent, SilentOrMeanwhile
  <2>1. t \in tracked /\ NextAction(t) = "escalate"
    BY <1>3 DEF Collect
  <2> QED BY <2>1 DEF NextAction
<1>4. ASSUME NEW r \in Requests, Record(r) PROVE DueWasSilent'
  <2> SUFFICES ASSUME NEW t \in Residents, <<t, "escalate">> \in plan
               PROVE  t \in tracked /\ age[t] >= EscalateAfter /\ SilentOrMeanwhile(t)'
    BY <1>4 DEF Record, DueWasSilent
  <2>1. t \in tracked /\ age[t] >= EscalateAfter /\ SilentOrMeanwhile(t) /\ t \in Targets
    BY DEF DueWasSilent, Targets
  <2>2. CASE t \in req[r].ids
    BY <1>4, <2>1, <2>2 DEF Record, SilentOrMeanwhile
  <2>3. CASE t \notin req[r].ids
    BY <1>4, <2>1, <2>3 DEF Record, SilentOrMeanwhile
  <2> QED BY <2>1, <2>2, <2>3
<1>5. ASSUME NEW r \in Requests, Serve(r), ~Record(r) PROVE DueWasSilent'
  BY <1>1, <1>5 DEF Serve, CheckOpen, UpsertTarget, ReadLinked, AddHistory, EscalateHelp,
                    Reply, Track, rows
<1>6. CASE Dispatch
  BY <1>1, <1>6 DEF Dispatch, Pick, InsertAlert, InsertTarget, InsertHomes, Track, rows
<1>7. ASSUME NEW t \in Residents, Remind(t) \/ EscalateSilent(t) PROVE DueWasSilent'
  BY <1>1, <1>7 DEF Remind, EscalateSilent
<1>8. CASE Carry \/ Close \/ RunDies \/ JobDies \/ UNCHANGED vars
  BY <1>1, <1>8 DEF Carry, Close, RunDies, JobDies, rows, vars
<1>9. ASSUME NEW h \in Homes, Enroll(h) PROVE DueWasSilent'
  BY <1>1, <1>9 DEF Enroll, rows
<1>10. ASSUME NEW r \in Requests, NEW t \in Targets, NEW s \in Answers, NEW staff \in BOOLEAN,
              Answer(r, t, s, staff)
       PROVE  DueWasSilent'
  BY <1>1, <1>10 DEF Answer, rows
<1>11. ASSUME NEW r \in Requests, ConnectionDies(r) \/ RequestFails(r) PROVE DueWasSilent'
  BY <1>1, <1>11 DEF ConnectionDies, RequestFails, rows
<1> QED
  BY <1>2, <1>3, <1>4, <1>5, <1>6, <1>7, <1>8, <1>9, <1>10, <1>11 DEF Next, FollowUp

LEMMA NextHelp == TypeOK /\ HelpWasAsked /\ [Next]_vars => HelpWasAsked'
<1> SUFFICES ASSUME TypeOK, HelpWasAsked, [Next]_vars PROVE HelpWasAsked'
  OBVIOUS
<1>1. ASSUME asked \subseteq asked', req' = req PROVE HelpWasAsked'
  BY <1>1 DEF HelpWasAsked
<1>2. ASSUME NEW r \in Requests, asked' = asked,
             NEW label \in {"idle", "sent", "upsert", "link", "record", "reply"},
             NEW q, q.pc = label, req' = [req EXCEPT ![r] = q]
      PROVE  HelpWasAsked'
  BY <1>2 DEF HelpWasAsked, TypeOK
<1>3. ASSUME NEW r \in Requests, asked' = asked,
             NEW label \in {"upsert", "link", "reply"}, Goto(r, label)
      PROVE  HelpWasAsked'
  BY <1>3 DEF HelpWasAsked, TypeOK, Goto, Request
<1>4. ASSUME NEW r \in Requests, CheckOpen(r) PROVE HelpWasAsked'
  <2>1. CASE closed
    BY <1>2, <1>4, <2>1 DEF CheckOpen, NoRequest, rows
  <2> QED BY <1>3, <1>4, <2>1 DEF CheckOpen, rows
<1>5. ASSUME NEW r \in Requests, UpsertTarget(r) PROVE HelpWasAsked'
  BY <1>3, <1>5 DEF UpsertTarget, Track
<1>6. ASSUME NEW r \in Requests, ReadLinked(r) PROVE HelpWasAsked'
  <2>1. req[r] \in Request
    BY DEF TypeOK
  <2>2. asked' = asked /\ \A x \in Requests : x # r => req'[x] = req[x]
    BY <1>6 DEF ReadLinked, rows, TypeOK
  <2>3. req'[r].pc = "record"
    BY <1>6, <2>1 DEF ReadLinked, TypeOK, Request
  <2> QED BY <2>2, <2>3 DEF HelpWasAsked
<1>7. ASSUME NEW r \in Requests, Record(r) PROVE HelpWasAsked'
  <2>1. req[r] \in Request
    BY DEF TypeOK
  <2>2. /\ \A x \in Requests : x # r => req'[x] = req[x]
        /\ req'[r].status = req[r].status /\ req'[r].target = req[r].target
        /\ req'[r].pc = "history"
    BY <1>7, <2>1 DEF Record, Goto, TypeOK, Request
  <2> QED BY <1>7, <2>2 DEF HelpWasAsked, Record
<1>8. ASSUME NEW r \in Requests, AddHistory(r) PROVE HelpWasAsked'
  <2>1. req[r] \in Request
    BY DEF TypeOK
  <2>2. /\ \A x \in Requests : x # r => req'[x] = req[x]
        /\ req'[r].target = req[r].target
        /\ req'[r].pc = IF HandsOver(req[r].status) THEN "escalate" ELSE "reply"
    BY <1>8, <2>1 DEF AddHistory, Goto, TypeOK, Request
  <2> QED BY <1>8, <2>2 DEF HelpWasAsked, AddHistory, HandsOver
<1>9. ASSUME NEW r \in Requests, EscalateHelp(r) PROVE HelpWasAsked'
  BY <1>3, <1>9 DEF EscalateHelp
<1>10. ASSUME NEW r \in Requests, Reply(r) \/ RequestFails(r) PROVE HelpWasAsked'
  BY <1>2, <1>10 DEF Reply, RequestFails, NoRequest, rows
<1>11. ASSUME NEW r \in Requests, ConnectionDies(r) PROVE HelpWasAsked'
  <2>1. Repeated(r).pc \in {"idle", "sent"}
    BY DEF Repeated, NoRequest, TypeOK, Request
  <2> QED BY <1>2, <1>11, <2>1 DEF ConnectionDies, rows
<1>12. ASSUME NEW r \in Requests, NEW t \in Targets, NEW s \in Answers, NEW staff \in BOOLEAN,
              Answer(r, t, s, staff)
       PROVE  HelpWasAsked'
  BY <1>2, <1>12 DEF Answer, rows
<1>13. CASE Dispatch
  BY <1>1, <1>13 DEF Dispatch, Pick, InsertAlert, InsertTarget, InsertHomes, Track, rows
<1>14. CASE FollowUp
  BY <1>1, <1>14 DEF FollowUp, Collect, Remind, EscalateSilent, rows
<1>15. CASE Carry \/ Close \/ Tick \/ RunDies \/ JobDies \/ UNCHANGED vars
  BY <1>1, <1>15 DEF Carry, Close, Tick, RunDies, JobDies, rows, vars
<1>16. ASSUME NEW h \in Homes, Enroll(h) PROVE HelpWasAsked'
  BY <1>1, <1>16 DEF Enroll, rows
<1> QED
  BY <1>4, <1>5, <1>6, <1>7, <1>8, <1>9, <1>10, <1>11, <1>12, <1>13, <1>14, <1>15, <1>16
  DEF Next, Serve

LEMMA EscalationInductive == Spec => []EscalationInv
<1>1. Init => EscalationInv
  BY InitType DEF Init, EscalationInv, DueWasSilent, HelpWasAsked, NoRequest
<1>2. EscalationInv /\ [Next]_vars => EscalationInv'
  BY NextType, NextDue, NextHelp DEF EscalationInv
<1> QED BY <1>1, <1>2, PTL DEF Spec

(* The responders are called for a target only because help was recorded   *)
(* for it, or because it is unanswered after ESCALATE_AFTER_MIN, or was    *)
(* so when the job that calls them read it.                                *)
THEOREM EscalationsAreDue == Spec => EscalatedForReason
<1>1. EscalationInv /\ [Next]_vars =>
        [\A t \in Targets : escalated'[t] /\ ~escalated[t] =>
           \/ t \in asked
           \/ /\ age[t] >= EscalateAfter
              /\ status[t] = "no_response" \/ t \in meanwhile]_vars
  <2> SUFFICES ASSUME EscalationInv, Next, NEW t \in Targets, escalated'[t], ~escalated[t]
               PROVE  t \in asked \/ (age[t] >= EscalateAfter /\ SilentOrMeanwhile(t))
    BY DEF SilentOrMeanwhile
  <2>1. ASSUME NEW r \in Requests, EscalateHelp(r) PROVE t \in asked
    BY <2>1 DEF EscalateHelp, EscalationInv, HelpWasAsked, TypeOK
  <2>2. ASSUME NEW u \in Residents, EscalateSilent(u) PROVE age[t] >= EscalateAfter /\ SilentOrMeanwhile(t)
    BY <2>2 DEF EscalateSilent, EscalationInv, DueWasSilent, TypeOK
  <2>3. ASSUME NEW r \in Requests, Serve(r), ~EscalateHelp(r) PROVE escalated' = escalated
    BY <2>3 DEF Serve, CheckOpen, UpsertTarget, ReadLinked, Record, AddHistory, Reply, Track, rows
  <2>4. ASSUME Dispatch PROVE escalated' = escalated
    BY <2>4 DEF Dispatch, Pick, InsertAlert, InsertTarget, InsertHomes, Track, rows
  <2>5. ASSUME FollowUp, \A u \in Residents : ~EscalateSilent(u) PROVE escalated' = escalated
    BY <2>5 DEF FollowUp, Collect, Remind, rows
  <2>6. ASSUME ~Dispatch, ~FollowUp, \A r \in Requests : ~Serve(r) PROVE escalated' = escalated
    BY <2>6 DEF Next, Carry, Close, Tick, Enroll, RunDies, Answer, ConnectionDies, RequestFails, JobDies, rows
  <2> QED BY <2>1, <2>2, <2>3, <2>4, <2>5, <2>6
<1> QED BY <1>1, EscalationInductive, PTL DEF Spec, EscalatedForReason

-----------------------------------------------------------------------------
(* A target that got its late reminder has none left in the job's plan,    *)
(* and its answer still asks for none: a new plan does not remind it, and  *)
(* a new answer starts the count again.                                    *)
LateIsSpent ==
  \A t \in Targets :
    late[t] # 0 => /\ late[t] = 1
                  /\ status[t] \in {"need_help", "evacuated"}
                  /\ <<t, "reminder">> \notin plan

LEMMA NextLate == TypeOK /\ LateIsSpent /\ [Next]_vars => LateIsSpent'
<1> SUFFICES ASSUME TypeOK, LateIsSpent, [Next]_vars PROVE LateIsSpent'
  OBVIOUS
<1>1. ASSUME late' = late, status' = status, plan' \subseteq plan PROVE LateIsSpent'
  BY <1>1 DEF LateIsSpent
<1>2. CASE Collect
  BY <1>2 DEF Collect, LateIsSpent, NextAction, rows, Targets
<1>3. ASSUME NEW u \in Residents, Remind(u) PROVE LateIsSpent'
  <2> SUFFICES ASSUME NEW t \in Targets, late'[t] # 0
               PROVE  /\ late'[t] = 1
                      /\ status[t] \in {"need_help", "evacuated"}
                      /\ <<t, "reminder">> \notin plan'
    BY <1>3 DEF LateIsSpent, Remind
  <2>1. CASE t = u
    <3>1. late[u] = 0
      BY <1>3, <2>1 DEF Remind, LateIsSpent
    <3>2. status[u] \in {"need_help", "evacuated"}
      BY <1>3, <2>1, <3>1 DEF Remind, TypeOK, Statuses, Answers
    <3> QED BY <1>3, <2>1, <3>1, <3>2 DEF Remind, TypeOK, Min2
  <2>2. CASE t # u
    BY <1>3, <2>2 DEF Remind, LateIsSpent, TypeOK
  <2> QED BY <2>1, <2>2
<1>4. ASSUME NEW r \in Requests, Record(r) PROVE LateIsSpent'
  BY <1>4 DEF Record, LateIsSpent, TypeOK
<1>5. ASSUME NEW r \in Requests, Serve(r), ~Record(r) PROVE LateIsSpent'
  BY <1>1, <1>5 DEF Serve, CheckOpen, UpsertTarget, ReadLinked, AddHistory, EscalateHelp, Reply, Track, rows
<1>6. CASE Dispatch
  BY <1>1, <1>6 DEF Dispatch, Pick, InsertAlert, InsertTarget, InsertHomes, Track, rows
<1>7. ASSUME NEW t \in Residents, EscalateSilent(t) PROVE LateIsSpent'
  BY <1>1, <1>7 DEF EscalateSilent
<1>8. CASE Carry \/ Close \/ Tick \/ RunDies \/ JobDies \/ UNCHANGED vars
  BY <1>1, <1>8 DEF Carry, Close, Tick, RunDies, JobDies, rows, vars
<1>9. ASSUME NEW h \in Homes, Enroll(h) PROVE LateIsSpent'
  BY <1>1, <1>9 DEF Enroll, rows
<1>10. ASSUME NEW r \in Requests, NEW t \in Targets, NEW s \in Answers, NEW staff \in BOOLEAN,
              Answer(r, t, s, staff)
       PROVE  LateIsSpent'
  BY <1>1, <1>10 DEF Answer, rows
<1>11. ASSUME NEW r \in Requests, ConnectionDies(r) \/ RequestFails(r) PROVE LateIsSpent'
  BY <1>1, <1>11 DEF ConnectionDies, RequestFails, rows
<1> QED
  BY <1>2, <1>3, <1>4, <1>5, <1>6, <1>7, <1>8, <1>9, <1>10, <1>11 DEF Next, FollowUp

(* With one follow-up job at a time, whoever answered "evacuated" or asked *)
(* for help is disturbed by at most one more reminder.                     *)
THEOREM LateRemindersBounded == Spec => []OneLateReminder
<1>1. Init => LateIsSpent
  BY DEF Init, LateIsSpent
<1>2. LateIsSpent => OneLateReminder
  <2> SUFFICES ASSUME LateIsSpent, NEW t \in Targets PROVE late[t] <= 1
    BY DEF OneLateReminder
  <2>1. late[t] = 0 \/ late[t] = 1
    BY DEF LateIsSpent
  <2> QED BY <2>1
<1> QED BY <1>1, <1>2, NextLate, TypeCorrect, PTL DEF Spec

=============================================================================
