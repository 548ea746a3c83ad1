---------------------------- MODULE ProfileSync -----------------------------
(***************************************************************************)
(* How what a user says about himself reaches his profile on the server    *)
(* (guardian_ai/profile_sync.py, ChatService._collect).  After an answer   *)
(* the exchange goes to a pool of two threads; each extracts facts, posts  *)
(* the profile fields, adds or moves places one request at a time, and at  *)
(* last records what it applied, for the profile screen.  Any request may  *)
(* fail, which ends the job; the user may delete a place meanwhile.        *)
(***************************************************************************)
EXTENDS Naturals, Sequences, FiniteSets

CONSTANTS
  Turns,         \* number of exchanges, in the order of the conversation
  Said,          \* Said[t]: [job: value or None, wanted: sequence of places said]: see SaidAssumption
  Writers,       \* threads of the pool (max_workers)
  Findable,      \* places the map search finds
  MaxFailures, MaxDeletes,   \* bounds
  None

(* A place that was said: its kind, the words for where it is, its name.   *)
PlaceKinds == {"home", "frequent"}
Wishes == [kind : PlaceKinds, said : STRING, name : {None} \cup STRING]

SaidAssumption ==
  /\ Turns \in Nat
  /\ Said \in [1..Turns -> [job : {None} \cup STRING, wanted : Seq(Wishes)]]

VARIABLES
  asked,       \* exchanges so far
  queue,       \* exchanges waiting for a thread
  writer,      \* writer[w]: the job of thread w
  field,       \* the occupation in user_profiles
  places,      \* user_places: [id, kind, label, where]
  nextPlace,
  updates,     \* care.profile_updates: triples <<turn, field, what was said>>
  landed,      \* history: those whose request succeeded
  overlapped,  \* history: two threads wrote at the same time
  failures, deletes

vars == <<asked, queue, writer, field, places, nextPlace, updates, landed, overlapped,
          failures, deletes>>

Resting == [turn |-> 0, at |-> "rest", known |-> {}, left |-> {}, applied |-> {}]

Init ==
  /\ asked = 0
  /\ queue = <<>>
  /\ writer = [w \in Writers |-> Resting]
  /\ field = None
  /\ places = {} /\ nextPlace = 1
  /\ updates = {} /\ landed = {}
  /\ overlapped = FALSE
  /\ failures = 0 /\ deletes = 0

\* chat: the answer is out, its exchange is handed to the pool.
Answered ==
  /\ asked < Turns
  /\ asked' = asked + 1
  /\ queue' = Append(queue, asked + 1)
  /\ UNCHANGED <<writer, field, places, nextPlace, updates, landed, overlapped, failures, deletes>>

Take(w) ==
  /\ writer[w].at = "rest" /\ queue # <<>>
  /\ writer' = [writer EXCEPT ![w] = [Resting EXCEPT !.turn = Head(queue), !.at = "extract"]]
  /\ queue' = Tail(queue)
  /\ overlapped' = (overlapped \/ \E v \in Writers \ {w} : writer[v].at # "rest")
  /\ UNCHANGED <<asked, field, places, nextPlace, updates, landed, failures, deletes>>

Done(w) == writer' = [writer EXCEPT ![w] = Resting]

(* place_facts, as positions of what was said: of several homes the last;  *)
(* a frequent place said more than once only once, by its last name.       *)
IsHome(p) == p.kind = "home"
Again(wanted, i, j) == ~ IsHome(wanted[i]) /\ ~ IsHome(wanted[j]) /\ wanted[i].said = wanted[j].said
MutantFirstHome(wanted) ==
  {i \in DOMAIN wanted : \A j \in 1..(i - 1) :
     IF IsHome(wanted[i]) THEN ~ IsHome(wanted[j]) ELSE ~ Again(wanted, i, j)}
PlaceFacts(wanted) ==
  {i \in DOMAIN wanted :
     IF IsHome(wanted[i]) THEN \A j \in DOMAIN wanted : j > i => ~ IsHome(wanted[j])
     ELSE \A j \in 1..(i - 1) : ~ Again(wanted, i, j)}
LastName(wanted, i) ==
  wanted[CHOOSE j \in DOMAIN wanted :
           Again(wanted, i, j) /\ \A k \in DOMAIN wanted : Again(wanted, i, k) => k <= j].name
Wish(wanted, i) ==
  IF IsHome(wanted[i]) THEN wanted[i] ELSE [wanted[i] EXCEPT !.name = LastName(wanted, i)]

(* The home comes first, then the others in order.                         *)
Foremost(wanted, i, left) ==
  /\ i \in left
  /\ IsHome(wanted[i]) \/ \A j \in left : ~ IsHome(wanted[j]) /\ i <= j

(* The extractor and to_patch; POST /user writes the fields and answers    *)
(* with the places.  With nothing to say the job is over.                  *)
PostUser(w) ==
  LET t == writer[w].turn
      wanted == PlaceFacts(Said[t].wanted)
  IN  /\ writer[w].at = "extract"
      /\ IF Said[t].job = None /\ wanted = {}
         THEN Done(w) /\ UNCHANGED <<field, landed>>
         ELSE /\ field' = IF Said[t].job = None THEN field ELSE Said[t].job
              /\ LET done == IF Said[t].job = None THEN {} ELSE {<<t, "job", None>>}
                 IN /\ writer' = [writer EXCEPT ![w] = [@ EXCEPT !.at = "places", !.known = places,
                                                                 !.left = wanted, !.applied = done]]
                    /\ landed' = landed \cup done
      /\ UNCHANGED <<asked, queue, places, nextPlace, updates, overlapped, failures, deletes>>

\* The place a wish is about, among those the thread knows of.
Same(known, p) ==
  {k \in known : IF p.kind = "home" THEN k.kind = "home"
                 ELSE k.kind # "home" /\ k.label = (IF p.name = None THEN p.said ELSE p.name)}

Label(p) == IF p.kind = "home" THEN "home" ELSE IF p.name = None THEN p.said ELSE p.name

Skipped(known, p) ==
  \/ p.said \notin Findable
  \/ p.kind # "home" /\ p.name = None /\ Same(known, p) # {}

Applied(w, i, p) ==
  LET job == writer[w]
      fact == <<job.turn, p.kind, p.said>>
  IN  /\ writer' = [writer EXCEPT ![w] = [job EXCEPT !.left = job.left \ {i}, !.applied = job.applied \cup {fact}]]
      /\ landed' = landed \cup {fact}

(* PATCH the place the thread knows, or POST a new one.  The patch of a    *)
(* place deleted meanwhile is refused and ends the job.                    *)
Patch(w, i, p, id) ==
  IF \E k \in places : k.id = id
  THEN /\ places' = {IF k.id = id
                     THEN [k EXCEPT !.kind = p.kind, !.where = p.said,
                                    !.label = IF IsHome(p) THEN @ ELSE Label(p)]
                     ELSE k : k \in places}
       /\ Applied(w, i, p)
  ELSE Done(w) /\ UNCHANGED <<places, landed>>

Post(w, i, p) ==
  /\ places' = places \cup {[id |-> nextPlace, kind |-> p.kind, label |-> Label(p), where |-> p.said]}
  /\ nextPlace' = nextPlace + 1
  /\ Applied(w, i, p)

PutPlace(w) ==
  /\ writer[w].at = "places"
  /\ \E i \in writer[w].left :
       LET wanted == Said[writer[w].turn].wanted
           p == Wish(wanted, i)
           same == Same(writer[w].known, p)
           first == CHOOSE k \in same : \A q \in same : k.id <= q.id
       IN  /\ Foremost(wanted, i, writer[w].left)
           /\ IF Skipped(writer[w].known, p)
              THEN /\ writer' = [writer EXCEPT ![w].left = @ \ {i}]
                   /\ UNCHANGED <<places, nextPlace, landed>>
              ELSE IF same # {} THEN Patch(w, i, p, first.id) /\ UNCHANGED nextPlace
              ELSE Post(w, i, p)
  /\ UNCHANGED <<asked, queue, field, updates, overlapped, failures, deletes>>

(* _record: what was applied; its failure is logged only.                  *)
Record(w) ==
  /\ writer[w].at = "places" /\ writer[w].left = {}
  /\ \/ updates' = updates \cup writer[w].applied /\ UNCHANGED failures
     \/ /\ failures < MaxFailures /\ failures' = failures + 1
        /\ UNCHANGED updates
  /\ Done(w)
  /\ UNCHANGED <<asked, queue, field, places, nextPlace, landed, overlapped, deletes>>

\* The extractor or a request fails: the rest of the job is dropped.
JobFails(w) ==
  /\ writer[w].at # "rest"
  /\ failures < MaxFailures /\ failures' = failures + 1
  /\ Done(w)
  /\ UNCHANGED <<asked, queue, field, places, nextPlace, updates, landed, overlapped, deletes>>

\* DELETE /user/places/{id} from the profile screen.
DeletePlace ==
  /\ deletes < MaxDeletes /\ deletes' = deletes + 1
  /\ \E k \in places : places' = places \ {k}
  /\ UNCHANGED <<asked, queue, writer, field, nextPlace, updates, landed, overlapped, failures>>

Next ==
  \/ Answered \/ DeletePlace
  \/ \E w \in Writers : Take(w) \/ PostUser(w) \/ PutPlace(w) \/ Record(w) \/ JobFails(w)

Spec == Init /\ [][Next]_vars

-----------------------------------------------------------------------------
TypeOK ==
  /\ asked \in 0..Turns
  /\ \A w \in Writers : writer[w].at \in {"rest", "extract", "places"} /\ writer[w].turn \in 0..asked
  /\ \A k \in places : k.id \in 1..nextPlace - 1 /\ k.kind \in {"home", "frequent"}
  /\ updates \subseteq landed

Idle == queue = <<>> /\ \A w \in Writers : writer[w].at = "rest"

(* Once the pool is idle, the user has one home, and it and the occupation *)
(* are the last ones he said of those that reached the server, unless two  *)
(* threads overlapped (profile_sync.py:8 `what was said last wins').       *)
Newest(t, turns) == t \in turns /\ \A u \in turns : u <= t
LastHome(i, wanted) == IsHome(wanted[i]) /\ \A j \in DOMAIN wanted : j > i => ~ IsHome(wanted[j])
ProfileIsWhatWasSaid ==
  Idle /\ ~ overlapped =>
    /\ \A k, q \in places : IsHome(k) /\ IsHome(q) => k = q
    /\ \A t \in 1..asked :
         Newest(t, {u \in 1..asked : <<u, "job", None>> \in landed}) => field = Said[t].job
    /\ \A t \in 1..asked : \A i \in DOMAIN Said[t].wanted :
         /\ Newest(t, {u \in 1..asked : \E fact \in landed : fact[1] = u /\ fact[2] = "home"})
         /\ LastHome(i, Said[t].wanted)
         => \A k \in places : IsHome(k) => k.where = Said[t].wanted[i].said
=============================================================================
