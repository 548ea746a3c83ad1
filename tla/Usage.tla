------------------------------- MODULE Usage --------------------------------
(***************************************************************************)
(* What the assistant spends on its language model (usage.py): every       *)
(* answer's cost is added, under a lock, to a file that holds one month,   *)
(* and a warning is logged when a share of the budget is reached for the   *)
(* first time.  Costs are in a unit of their own; the numbers of calls and *)
(* tokens go the way of the cost and are left out.                         *)
(***************************************************************************)
EXTENDS Naturals, FiniteSets, FiniteSetsExt

CONSTANTS Costs,        \* of a call
          Ratios,       \* budget * WARN_RATIOS
          MaxCalls, MaxMonths,   \* bounds
          MaxAborts,    \* bound: writes that fail and restarts of the service
          Unreadable,   \* a file that is not JSON
          None

UsageAssumption ==
  /\ Costs \subseteq Nat \ {0} /\ Ratios \subseteq Nat \ {0}
  /\ {MaxCalls, MaxMonths, MaxAborts} \subseteq Nat /\ MaxMonths > 0
  /\ {None, Unreadable} \cap [month : 1..MaxMonths, spent : Nat, warned : SUBSET Ratios] = {}

VARIABLES
  ledger,     \* openai_usage.json: None, Unreadable, or a month's record
  month,      \* the clock's
  recording,  \* recording[t]: the thread's step, its cost and the record it holds
  counted,    \* counted[m]: the cost of the calls whose record was saved
  logged,     \* logged[m][r]: times the warning was logged
  aborts

usageVars == <<ledger, month, recording, counted, logged, aborts>>

Threads == 1..MaxCalls
Fresh == [month |-> month, spent |-> 0, warned |-> {}]
Unused == [step |-> "unused", cost |-> 0, data |-> None]
Saving == {"adding", "writing", "replacing"}

Init ==
  /\ ledger \in {None, Unreadable} /\ month = 1
  /\ recording = [t \in Threads |-> Unused]
  /\ counted = [m \in 1..MaxMonths |-> 0]
  /\ logged = [m \in 1..MaxMonths |-> [r \in Ratios |-> 0]]
  /\ aborts = 0

-----------------------------------------------------------------------------
(* _load: a file of another month, none or an unreadable one counts as     *)
(* nothing spent.                                                          *)
Loaded == IF ledger \in {None, Unreadable} \/ ledger.month # month THEN Fresh ELSE ledger

(* The lock of the tracker all agents share.                               *)
MutantNoLock(t) == TRUE
MayEnter(t) == \A other \in Threads : recording[other].step \notin Saving

(* _warn adds the ratios reached and not warned of yet.                    *)
Reached(data) == {r \in Ratios : data.spent >= r} \ data.warned

(* An agent has its answer and calls record().                             *)
Called(t, c) ==
  /\ recording[t].step = "unused" /\ \A s \in Threads : recording[s].step = "unused" => t <= s
  /\ recording' = [recording EXCEPT ![t] = [step |-> "waiting", cost |-> c, data |-> None]]
  /\ UNCHANGED <<ledger, month, counted, logged, aborts>>

Load(t) ==
  /\ recording[t].step = "waiting" /\ MayEnter(t)
  /\ recording' = [recording EXCEPT ![t].step = "adding", ![t].data = Loaded]
  /\ UNCHANGED <<ledger, month, counted, logged, aborts>>

Add(t) ==
  /\ recording[t].step = "adding"
  /\ LET data == [recording[t].data EXCEPT !.spent = @ + recording[t].cost]
     IN  /\ recording' = [recording EXCEPT
              ![t].step = "writing", ![t].data = [data EXCEPT !.warned = @ \cup Reached(data)]]
         /\ logged' = [logged EXCEPT ![data.month] =
              [r \in Ratios |-> @[r] + (IF r \in Reached(data) THEN 1 ELSE 0)]]
  /\ UNCHANGED <<ledger, month, counted, aborts>>

(* _save writes a file beside the ledger, then puts it in its place.       *)
MutantInPlace(t) == Unreadable
Beside(t) == ledger

Write(t) ==
  /\ recording[t].step = "writing"
  /\ ledger' = Beside(t)
  /\ recording' = [recording EXCEPT ![t].step = "replacing"]
  /\ UNCHANGED <<month, counted, logged, aborts>>

Replace(t) ==
  /\ recording[t].step = "replacing"
  /\ ledger' = recording[t].data
  /\ counted' = [counted EXCEPT ![recording[t].data.month] = @ + recording[t].cost]
  /\ recording' = [recording EXCEPT ![t] = [Unused EXCEPT !.step = "done"]]
  /\ UNCHANGED <<month, logged, aborts>>

(* An OSError is logged and the call is not counted.                       *)
Fails(t) ==
  /\ recording[t].step \in {"writing", "replacing"} /\ aborts < MaxAborts
  /\ aborts' = aborts + 1
  /\ recording' = [recording EXCEPT ![t] = [Unused EXCEPT !.step = "done"]]
  /\ UNCHANGED <<ledger, month, counted, logged>>

(* The service dies; the file is what the last whole write left.           *)
Restart ==
  /\ aborts < MaxAborts /\ aborts' = aborts + 1
  /\ recording' = [t \in Threads |-> IF recording[t].step = "unused" THEN Unused
                                     ELSE [Unused EXCEPT !.step = "done"]]
  /\ UNCHANGED <<ledger, month, counted, logged>>

MonthTurns ==
  /\ month < MaxMonths /\ month' = month + 1
  /\ UNCHANGED <<ledger, recording, counted, logged, aborts>>

Next ==
  \/ \E t \in Threads :
       (\E c \in Costs : Called(t, c)) \/ Load(t) \/ Add(t) \/ Write(t) \/ Replace(t) \/ Fails(t)
  \/ Restart \/ MonthTurns

Spec == Init /\ [][Next]_usageVars

-----------------------------------------------------------------------------
(* The type of the state.                                                  *)
TypeOK ==
  /\ ledger \notin {None, Unreadable} => ledger.month \in 1..MaxMonths /\ ledger.spent \in Nat /\ ledger.warned \subseteq Ratios
  /\ month \in 1..MaxMonths
  /\ \A t \in Threads : recording[t].step \in Saving \cup {"unused", "waiting", "done"} /\ recording[t].cost \in Costs \cup {0}
  /\ counted \in [1..MaxMonths -> Nat] /\ logged \in [1..MaxMonths -> [Ratios -> Nat]]

(* usage.py:4-5, 51: what GET /usage shows of the month is what the calls  *)
(* saved in it cost, however the agents' calls overlap, the month turns    *)
(* and the service restarts; every share of the budget it has reached was  *)
(* warned of, and again only if the call that reached it was not saved.    *)
SpendCounted ==
  /\ ledger # Unreadable \/ (\A m \in DOMAIN counted : counted[m] = 0)
  /\ Loaded.spent = counted[month]
  /\ \A r \in Ratios : (counted[month] >= r <=> r \in Loaded.warned) /\ (r \in Loaded.warned => logged[month][r] >= 1)
  /\ \A m \in DOMAIN logged, r \in Ratios : logged[m][r] <= 1 + aborts
=============================================================================
