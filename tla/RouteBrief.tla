----------------------------- MODULE RouteBrief ------------------------------
(***************************************************************************)
(* The few sentences about a drawn route (guardian_ai/route_brief.py, the  *)
(* writer of llm.py, POST /api/ai/route-brief): what the app sends of the  *)
(* route and what the tools read of the places, warnings and weather is    *)
(* the evidence; code makes a text of it, a language model may write a     *)
(* better one, which is taken only if the numbers with units the check     *)
(* knows are in the evidence and the words it looks for claim no avoidance *)
(* there was none of.  A minute long the same request gets the same        *)
(* answer, whoever asks; requests run in threads of their own.  Of a text  *)
(* only its claims are kept.                                               *)
(***************************************************************************)
EXTENDS Naturals, Sequences

CONSTANTS
  Callers,     \* requests under way at the same time
  Routes,      \* what is known of a route: see RouteBriefAssumption
  CACHE_S,     \* how long an answer is kept
  MAX_ITEMS,   \* length of a list
  MaxAsks, MaxClock, MaxWeather,   \* bounds: requests, time, changes of what the tools give
  None

(* Whether the zones are known is read when the route is done, and another *)
(* request's read may have failed since: a route that passes or avoids     *)
(* zones may come with none known.                                         *)
RouteBriefAssumption ==
  /\ {CACHE_S, MAX_ITEMS, MaxAsks, MaxClock, MaxWeather} \subseteq Nat /\ MAX_ITEMS >= 3
  /\ \A r \in Routes :
       /\ r.kind \in {"land", "sea", "visits"} /\ r.avoided \in BOOLEAN
       /\ r.passing \in BOOLEAN /\ r.known \in BOOLEAN
       /\ r.cautions \in Seq({"bend", "steep", "steps"})

VARIABLES
  clock,
  outside,   \* the weather, and which of the tools give nothing
  stored,    \* _cache
  work,      \* of each caller: the request computed and what was read for it
  shown,     \* of each caller: the last answer
  asks, weathers

vars == <<clock, outside, stored, work, shown, asks, weathers>>

Reads == {"place", "warnings", "rain", "wind"}
BriefRequests == [route : Routes, demo : BOOLEAN]

Init ==
  /\ clock = 0 /\ outside = [storm |-> FALSE, down |-> {}] /\ stored = {}
  /\ work = [c \in Callers |-> None] /\ shown = [c \in Callers |-> None]
  /\ asks = 0 /\ weathers = 0

Tick ==
  /\ clock < MaxClock /\ asks > 0 /\ clock' = clock + 1
  /\ UNCHANGED <<outside, stored, work, shown, asks, weathers>>

(* A storm begins, a query fails, or the database does (while it makes a   *)
(* difference).                                                            *)
Weather ==
  /\ \E c \in Callers : work[c] # None /\ work[c].ev = None
  /\ weathers < MaxWeather /\ weathers' = weathers + 1
  /\ \/ ~ outside.storm /\ outside' = [outside EXCEPT !.storm = TRUE]
     \/ \E down \in {{s} : s \in Reads} \cup {Reads} :
          down # outside.down /\ outside' = [outside EXCEPT !.down = down]
  /\ UNCHANGED <<clock, stored, work, shown, asks>>

-----------------------------------------------------------------------------
(* build_evidence: in a drill the scenario's storm; calm weather and old   *)
(* readings are left out without a word.                                   *)
BuildEvidence(req) ==
  LET seen == IF req.demo \/ outside.storm THEN Reads \ outside.down ELSE {}
  IN  [strong |-> seen, missing |-> outside.down \cup IF req.route.known THEN {} ELSE {"zones"}]

Upto(items, most) == SubSeq(items, 1, IF Len(items) < most THEN Len(items) ELSE most)
When(told, item) == IF told THEN <<item>> ELSE <<>>

(* template_brief: each list in its order, four items at most, so that the *)
(* last may be left out.  A round of visits has no destination to look at. *)
Dangers(route, ev) ==
  When(route.passing, "passing") \o When("place" \in ev.strong, "origin")
    \o When("place" \in ev.strong /\ route.kind # "visits", "destination")
    \o When("warnings" \in ev.strong, "warnings") \o When(~ route.known, "zones unknown")
Cautions(route, ev) ==
  route.cautions \o When("rain" \in ev.strong, "rain") \o When("wind" \in ev.strong, "wind")
                 \o When(ev.missing # {}, "missing")

MutantItems == MAX_ITEMS
TemplateItems == MAX_ITEMS + 1
Template(req, ev) ==
  [template |-> TRUE,
   says |-> IF req.route.avoided THEN "avoids zones" ELSE "nothing",
   hazards |-> Upto(Dangers(req.route, ev), TemplateItems),
   cautions |-> Upto(Cautions(req.route, ev), TemplateItems)]

(* The language model's text: with a number of its own, a reading or a     *)
(* count of minutes or places; with words of avoiding (AVOID_WORDS), which *)
(* on a way by sea may be about a breakwater, or with a claim to avoid in  *)
(* other words; its lists are not compared with the evidence.              *)
Claims == {"nothing", "reading made up", "count made up", "avoids", "avoids zones", "keeps clear of zones"}
Texts == [template : {FALSE}, says : Claims, hazards : {<<>>}, cautions : {<<>>}]

MutantClaims(route, text) == FALSE
ClaimsAvoidance(route, text) ==
  text.says = "avoids zones" \/ (text.says = "avoids" /\ route.kind # "sea")
Accepted(req, text) ==
  /\ req.route.avoided \/ ~ ClaimsAvoidance(req.route, text)
  /\ text.says # "reading made up"

(* The key is a hash of the whole request.                                 *)
MutantKey(req) == req.route
Key(req) == req

-----------------------------------------------------------------------------
(* RouteBriefService.brief, in the three parts other threads come between: *)
(* under the lock old entries go and the request is looked up;             *)
Young(entries) == {e \in entries : clock - e.at <= CACHE_S}
Show(c, req, entry) == shown' = [shown EXCEPT ![c] = [asked |-> req, when |-> clock, entry |-> entry]]

Ask(c, req) ==
  /\ work[c] = None /\ asks < MaxAsks /\ asks' = asks + 1
  /\ stored' = Young(stored)
  /\ \/ /\ \E e \in stored' : e.key = Key(req) /\ Show(c, req, e)
        /\ UNCHANGED work
     \/ /\ \A e \in stored' : e.key # Key(req)
        /\ work' = [work EXCEPT ![c] = [req |-> req, ev |-> None]] /\ UNCHANGED shown
  /\ UNCHANGED <<clock, outside, weathers>>

(* the tools are asked;                                                    *)
Read(c) ==
  /\ work[c] # None /\ work[c].ev = None
  /\ work' = [work EXCEPT ![c].ev = BuildEvidence(work[c].req)]
  /\ UNCHANGED <<clock, outside, stored, shown, asks, weathers>>

(* the writer answers, or fails, and under the lock the answer is kept     *)
(* over an earlier one.                                                    *)
MutantPiledUp(e) == stored \cup {e}
Kept(e) == {o \in stored : o.key # e.key} \cup {e}

Finish(c) ==
  /\ work[c] # None /\ work[c].ev # None
  /\ LET req == work[c].req
     IN  \E out \in {Template(req, work[c].ev)} \cup {t \in Texts : Accepted(req, t)} :
           LET e == [key |-> Key(req), of |-> req, at |-> clock, out |-> out]
           IN  stored' = Kept(e) /\ Show(c, req, e)
  /\ work' = [work EXCEPT ![c] = None]
  /\ UNCHANGED <<clock, outside, asks, weathers>>

Next ==
  \/ Tick \/ Weather
  \/ \E c \in Callers : Read(c) \/ Finish(c) \/ \E req \in BriefRequests : Ask(c, req)

Spec == Init /\ [][Next]_vars

-----------------------------------------------------------------------------
(* The type of the state; an answer is kept once.                          *)
TypeOK ==
  /\ clock \in 0..MaxClock /\ outside.storm \in BOOLEAN /\ outside.down \subseteq Reads
  /\ \A e \in stored : e.of \in BriefRequests /\ e.at <= clock
  /\ \A e, o \in stored : e.key = o.key => e = o
  /\ \A c \in Callers : work[c] # None =>
       work[c].req \in BriefRequests /\ (work[c].ev # None => work[c].ev.missing \subseteq Reads \cup {"zones"})
  /\ asks \in 0..MaxAsks /\ weathers \in 0..MaxWeather

(* route_brief.py:38: whoever else asked before or at the same time, what  *)
(* is shown was written for this very route and this world, the drill's or *)
(* the real one, no longer ago than the cache's minute; it has no readings *)
(* but the evidence's and on a route that avoided none does not say, in    *)
(* the words looked for, that zones are avoided; and when the zones were   *)
(* not known, the text of the code says so or, if the list is full before  *)
(* it comes to that, that the route passes some.                           *)
BriefIsGrounded ==
  \A c \in Callers : shown[c] # None =>
    LET req == shown[c].asked  out == shown[c].entry.out
    IN  /\ shown[c].entry.of = req /\ shown[c].when - shown[c].entry.at <= CACHE_S
        /\ out.says # "reading made up" /\ (out.says = "avoids zones" => req.route.avoided)
        /\ out.template /\ ~ req.route.known =>
             \E i \in DOMAIN out.hazards : out.hazards[i] \in {"zones unknown", "passing"}
=============================================================================
