------------------------------ MODULE Guardian -------------------------------
(***************************************************************************)
(* The conversations of the assistant (guardian_ai/service.py, graph.py,   *)
(* llm.py).  One ChatService answers all users; each question is a request *)
(* in a thread of its own: it opens a conversation, reads its history,     *)
(* runs the graph (manager, specialists, advice, polish, check, gate) over *)
(* the conversation's checkpoint, reads the result back, and records the   *)
(* exchange.  Questions of one conversation may overlap: a voice question  *)
(* interrupts the answer, a client gives up after 60 seconds and asks      *)
(* again.  What the specialists and the advice say is in Advice.           *)
(***************************************************************************)
EXTENDS Naturals, Sequences, FiniteSets, SequencesExt

CONSTANTS Users, Conversations, Questions,
          MAX_RETRY,     \* state.py
          MaxLapses,     \* bound: conversations that pass the TTL
          MaxRestarts,   \* bound: restarts of the server
          None

GuardianAssumption ==
  MAX_RETRY \in Nat /\ MaxLapses \in Nat /\ MaxRestarts \in Nat
    /\ IsFiniteSet(Questions) /\ None \notin Users \cup Conversations \cup Questions

VARIABLES
  owner,       \* _active: whose conversation it is, None when not in progress
  used,        \* conversation ids handed out so far (uuid4: never twice)
  aged,        \* conversations whose last question is older than the TTL
  saved,       \* InMemorySaver: the latest checkpoint of each conversation
  last,        \* OpenAIClassifier.last, shared by all questions
  turn,        \* turn[q]: the request that answers question q
  overlapped,  \* history: conversations in which two questions met
  lapses, restarts

vars == <<owner, used, aged, saved, last, turn, overlapped, lapses, restarts>>

Blank == [verdict |-> "none", retries |-> 0, answer |-> None, history |-> <<>>]
NotAsked == [at |-> "new", user |-> None, cid |-> None, read |-> <<>>, state |-> Blank,
             heard |-> FALSE, details |-> None, passes |-> 0, reply |-> None]

Init ==
  /\ owner = [c \in Conversations |-> None]
  /\ used = {} /\ aged = {}
  /\ saved = [c \in Conversations |-> Blank]
  /\ last = None
  /\ turn = [q \in Questions |-> NotAsked]
  /\ overlapped = {}
  /\ lapses = 0 /\ restarts = 0

Running(q) == turn[q].at \notin {"new", "done", "lost"}
InProgress(c) == \E q \in Questions : Running(q) /\ turn[q].cid = c

Goes(q, next) == turn' = [turn EXCEPT ![q] = next]

-----------------------------------------------------------------------------
(* _open_conversation, under its lock: expired conversations are swept     *)
(* with their memory; a conversation continues for its owner only.         *)
MutantAnybody(c, u) == c \in Conversations \ aged /\ owner[c] # None
Continues(c, u) == c \in Conversations \ aged /\ owner[c] = u

Open(q, u, requested) ==
  /\ turn[q].at = "new"
  /\ \E c \in IF Continues(requested, u) THEN {requested} ELSE Conversations \ used :
       /\ used' = used \cup {c}
       /\ owner' = [d \in Conversations |-> IF d = c THEN u ELSE IF d \in aged THEN None ELSE owner[d]]
       /\ saved' = [d \in Conversations |-> IF d \in aged THEN Blank ELSE saved[d]]
       /\ aged' = {}
       /\ Goes(q, [NotAsked EXCEPT !.at = "history", !.user = u, !.cid = c])
       /\ overlapped' = IF InProgress(c) THEN overlapped \cup {c} ELSE overlapped
  /\ UNCHANGED <<last, lapses, restarts>>

ReadHistory(q) ==
  /\ turn[q].at = "history"
  /\ Goes(q, [turn[q] EXCEPT !.at = "start", !.read = saved[turn[q].cid].history])
  /\ UNCHANGED <<owner, used, aged, saved, last, overlapped, lapses, restarts>>

(* A node's result goes into the run's state, and that to the checkpoint.  *)
Checkpoint(q, state) == saved' = [saved EXCEPT ![turn[q].cid] = state]

(* app.stream: the run takes the latest checkpoint and its own input.      *)
BeginTurn(q) ==
  LET state == [saved[turn[q].cid] EXCEPT !.history = turn[q].read]
  IN  /\ turn[q].at = "start"
      /\ Goes(q, [turn[q] EXCEPT !.at = "classify", !.state = state, !.passes = 1])
      /\ Checkpoint(q, state)
      /\ UNCHANGED <<owner, used, aged, last, overlapped, lapses, restarts>>

(* The classifier answers and leaves what it extracted in .last; or it     *)
(* fails and the keywords decide.                                          *)
Classify(q) ==
  /\ turn[q].at = "classify"
  /\ \E heard \in BOOLEAN :
       /\ last' = IF heard THEN q ELSE last
       /\ Goes(q, [turn[q] EXCEPT !.at = "manage", !.heard = heard])
  /\ UNCHANGED <<owner, used, aged, saved, overlapped, lapses, restarts>>

IsRetry(state) == state.verdict = "retry"
NewTurn(state) == [state EXCEPT !.verdict = "none", !.retries = 0]

(* The rest of manager: a question that is no retry starts anew.  With no  *)
(* specialist selected (an answer to the last plan's question keeps its    *)
(* specialists, unless it only sets the origin) the reply is direct.       *)
Manage(q) ==
  LET t == turn[q]
      state == IF IsRetry(t.state) THEN t.state ELSE NewTurn(t.state)
  IN  /\ t.at = "manage"
      /\ \E next \in {"advise", "direct"} :
           Goes(q, [t EXCEPT !.at = next, !.state = state, !.heard = FALSE,
                             !.details = IF t.heard THEN last ELSE q])
      /\ Checkpoint(q, state)
      /\ UNCHANGED <<owner, used, aged, last, overlapped, lapses, restarts>>

(* The run is over: all that is kept of it is what the service holds.      *)
Replying(q) == [NotAsked EXCEPT !.at = "result", !.user = turn[q].user, !.cid = turn[q].cid,
                                !.read = turn[q].read]

DirectReply(q) ==
  LET state == [turn[q].state EXCEPT !.answer = q]
  IN  /\ turn[q].at = "direct"
      /\ Goes(q, Replying(q))
      /\ Checkpoint(q, state)
      /\ UNCHANGED <<owner, used, aged, last, overlapped, lapses, restarts>>

(* Specialists, action_advisor, polish.                                    *)
Advise(q) ==
  /\ turn[q].at = "advise"
  /\ Goes(q, [turn[q] EXCEPT !.at = "gate"])
  /\ Checkpoint(q, turn[q].state)
  /\ UNCHANGED <<owner, used, aged, last, overlapped, lapses, restarts>>

(* hallucination_check finds a problem or none; verify_gate and            *)
(* route_verdict send the run back, or on.                                 *)
MutantAlwaysAgain(state) == TRUE
MayRetry(state) == state.retries < MAX_RETRY
MutantNotCounted(state) == [state EXCEPT !.verdict = "retry"]
Retried(state) == [state EXCEPT !.verdict = "retry", !.retries = state.retries + 1]

VerifyGate(q) ==
  LET t == turn[q]
      retry == Retried(t.state)
  IN  /\ t.at = "gate"
      /\ \/ /\ MayRetry(t.state)
            /\ Goes(q, [t EXCEPT !.at = "classify", !.state = retry, !.passes = 2])
            /\ Checkpoint(q, retry)
         \/ \E verdict \in {"pass"} \cup IF MayRetry(t.state) THEN {} ELSE {"fallback"} :
              LET state == [t.state EXCEPT !.verdict = verdict]
              IN  Goes(q, [t EXCEPT !.at = "finalize", !.state = state]) /\ Checkpoint(q, state)
      /\ UNCHANGED <<owner, used, aged, last, overlapped, lapses, restarts>>

(* finalize, fallback: the last answer made, checked or not.               *)
Finalize(q) ==
  LET state == [turn[q].state EXCEPT !.answer = q]
  IN  /\ turn[q].at = "finalize"
      /\ Goes(q, Replying(q))
      /\ Checkpoint(q, state)
      /\ UNCHANGED <<owner, used, aged, last, overlapped, lapses, restarts>>

(* get_state: whatever the conversation's latest checkpoint holds.         *)
Result(q) ==
  /\ turn[q].at = "result"
  /\ Goes(q, [turn[q] EXCEPT !.at = "record", !.reply = saved[turn[q].cid].answer])
  /\ UNCHANGED <<owner, used, aged, saved, last, overlapped, lapses, restarts>>

(* update_state: the history that was read, and this exchange.             *)
MutantOnlyThis(read, q) == <<q>>
Recorded(read, q) == Append(read, q)

Record(q) ==
  /\ turn[q].at = "record"
  /\ saved' = [saved EXCEPT ![turn[q].cid].history = Recorded(turn[q].read, q)]
  /\ Goes(q, [turn[q] EXCEPT !.at = "done", !.read = <<>>])
  /\ UNCHANGED <<owner, used, aged, last, overlapped, lapses, restarts>>

-----------------------------------------------------------------------------
(* An hour without a question (an answer never takes that long).           *)
Lapse(c) ==
  /\ lapses < MaxLapses /\ lapses' = lapses + 1
  /\ owner[c] # None /\ c \notin aged /\ ~ InProgress(c)
  /\ aged' = aged \cup {c}
  /\ UNCHANGED <<owner, used, saved, last, turn, overlapped, restarts>>

(* The server restarts: conversations and running requests are gone.       *)
Restart ==
  /\ restarts < MaxRestarts /\ restarts' = restarts + 1
  /\ owner' = [c \in Conversations |-> None]
  /\ saved' = [c \in Conversations |-> Blank]
  /\ aged' = {} /\ last' = None
  /\ turn' = [q \in Questions |-> IF Running(q) THEN [NotAsked EXCEPT !.at = "lost", !.user = turn[q].user,
                                                                   !.cid = turn[q].cid]
                               ELSE turn[q]]
  /\ UNCHANGED <<used, overlapped, lapses>>

Answering(q) ==
  \/ ReadHistory(q) \/ BeginTurn(q) \/ Classify(q) \/ Manage(q) \/ DirectReply(q) \/ Advise(q)
  \/ VerifyGate(q) \/ Finalize(q) \/ Result(q) \/ Record(q)

(* A client names the conversation of its last answer, or none; the phone  *)
(* keeps that id when another account signs in.                            *)
Asks == \E q \in Questions, u \in Users, c \in used \cup {None} : Open(q, u, c)

Next ==
  \/ Asks
  \/ \E q \in Questions : Answering(q)
  \/ \E c \in Conversations : Lapse(c)
  \/ Restart

Spec == Init /\ [][Next]_vars

(* The threads of the requests run; every call they make has a timeout.    *)
Fairness == \A q \in Questions : WF_vars(Answering(q))
FairSpec == Spec /\ Fairness

-----------------------------------------------------------------------------
States ==
  [verdict : {"none", "pass", "retry", "fallback"}, retries : 0..MAX_RETRY,
   answer : Questions \cup {None}, history : SeqOf(Questions, Cardinality(Questions))]
Steps == {"new", "history", "start", "classify", "manage", "direct", "advise", "gate", "finalize",
          "result", "record", "done", "lost"}

(* The type of the state.                                                  *)
TypeOK ==
  /\ owner \in [Conversations -> Users \cup {None}]
  /\ used \subseteq Conversations /\ aged \subseteq used /\ overlapped \subseteq used
  /\ saved \in [Conversations -> States]
  /\ last \in Questions \cup {None}
  /\ \A q \in Questions :
       /\ turn[q].at \in Steps
       /\ turn[q].user \in Users \cup {None} /\ turn[q].cid \in Conversations \cup {None}
       /\ turn[q].state \in States /\ turn[q].passes \in 0..2
       /\ turn[q].details \in Questions \cup {None} /\ turn[q].reply \in Questions \cup {None}
  /\ lapses \in 0..MaxLapses /\ restarts \in 0..MaxRestarts

(* service.py:203: nobody reads another user's memory.  What a question's  *)
(* run knows of earlier exchanges, and the answer it returns, are of the   *)
(* user who asked, whatever conversation id the client sent.               *)
NoForeignMemory ==
  \A q \in Questions :
    LET t == turn[q] IN
      /\ \A i \in DOMAIN t.read : turn[t.read[i]].user = t.user
      /\ t.reply # None => turn[t.reply].user = t.user

(* In a conversation whose questions never met, a question gets its own    *)
(* answer, and the memory is every exchange of the conversation.           *)
TurnsInOrder ==
  \A q \in Questions :
    LET t == turn[q] IN t.cid \notin overlapped =>
      /\ t.at \in {"record", "done"} => t.reply = q
      /\ t.at = "done" /\ owner[t.cid] # None => q \in Range(saved[t.cid].history)

(* graph.py:237: the verdict is "retry" only when verify_gate has sent the *)
(* run back; otherwise the question is new.                                *)
RetryIsReturn ==
  \A q \in Questions :
    turn[q].at = "classify" /\ turn[q].cid \notin overlapped
      => (IsRetry(turn[q].state) <=> turn[q].passes = 2)

(* graph.py:287: what the manager goes by (destination, whether the user   *)
(* can move, the place meant) was extracted from this question.            *)
OwnDetails == \A q \in Questions : turn[q].details \in {None, q}

(* A request that was made is answered, retries or not, unless the server  *)
(* restarts under it.                                                      *)
EveryQuestionEnds == []<>(\A q \in Questions : ~ Running(q))
=============================================================================
