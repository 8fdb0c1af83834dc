----------------------------- MODULE Discovery ------------------------------
(***************************************************************************)
(* Discovery (pkg/scraper, run by cmd/agent beside the queue): a refresh   *)
(* asks its sources one kind after the other, Jobicy, RemoteOK, Hacker     *)
(* News, the boards of employers it knows, and the search engines, several *)
(* of a kind at a time, and adds what it finds to the queue the agent's    *)
(* workers drain meanwhile.  The agent can be stopped or killed at any     *)
(* moment, and a write of the database can fail.                           *)
(*                                                                         *)
(* An inquiry is one request of a refresh: the one of Jobicy or of Hacker  *)
(* News, a role at RemoteOK, a board, or a query (role and hiring site).   *)
(***************************************************************************)
EXTENDS SourceCircuit, JobEligibility, PostingUrl, FiniteSets

CONSTANTS
  Inquiries,     \* all a refresh may ask; a board's name is its slug
  Channel,       \* the source each asks, as AddToFunnel records it
  Postings,      \* the postings there are
  Ad,            \* each as published: [url, title, location, codes, remote,
                 \* description]
  Listed,        \* what an inquiry's answer lists
  Recorded,      \* the rows there are at first: [row, source] of some postings
  SerpApiKey,    \* whether the key is configured
  Parallel,      \* the inquiries of a kind under way at a time
  MaxBoards,     \* maxBoardsPerSource
  MaxRetries,    \* maxRetries, of a board and of Yahoo
  Cap,           \* maxPendingPerSource
  Workers        \* WORKER_COUNT

Sources == {"jobicy", "remoteok", "hackernews", "atsfeed:greenhouse",
            "atsfeed:lever", "serpapi", "yahoo"}

(* The kinds in the order a refresh asks them.                             *)
Kinds == <<"jobicy", "remoteok", "hackernews", "board", "search">>
KindOf ==
  [ q \in Inquiries |->
      CASE Channel[q] \in {"atsfeed:greenhouse", "atsfeed:lever"} -> "board"
        [] Channel[q] = "serpapi" -> "search"
        [] OTHER -> Channel[q] ]

ASSUME DiscoveryAssumption ==
  /\ Channel \in [Inquiries -> Sources \ {"yahoo"}]
  /\ Listed \in [Inquiries -> SUBSET Postings]
  /\ DOMAIN Recorded \subseteq Postings
  /\ SerpApiKey \in BOOLEAN
  /\ \A i \in DOMAIN Kinds : Parallel[Kinds[i]] \in Nat \ {0}
  /\ {MaxBoards, MaxRetries, Cap, Workers} \subseteq Nat \ {0}

VARIABLES
  phase,     \* the index in Kinds of what the refresh asks; 0 between two
  stage,     \* where each inquiry of the refresh is
  tries,     \* its attempts so far
  found,     \* what it found, with the source, and has still to add
  owed,      \* the posting it added and has still to note the place of
  fallback,  \* SerpApi answered with an error in this refresh, or has no key
  row,       \* job_funnel.status, as far as discovery tells it apart
  source,    \* job_funnel.discovery_source
  placed,    \* the rows with job_location and is_remote
  knew,      \* the postings held whose place was there when they were loaded
  calm       \* from here on no write fails and no agent stops

inquiryVars == <<phase, stage, tries, found, owed, fallback>>
rowVars == <<row, source, placed>>
queueVars == <<rowVars, knew, calm>>
vars == <<circuitVars, inquiryVars, queueVars>>

Statuses == {"none", "DISCOVERED", "PROCESSING", "SKIPPED", "scored"}

(* The table at first is one an earlier agent, set up alike, has left.     *)
ASSUME RecordedAssumption ==
  /\ Recorded \in [DOMAIN Recorded -> [row : Statuses \ {"none"}, source : Sources]]
  /\ IsFiniteSet(DOMAIN Recorded)
  /\ Cardinality({p \in DOMAIN Recorded : Recorded[p].row = "PROCESSING"}) <= Workers
  /\ \A s \in Sources :
       Cardinality({ p \in DOMAIN Recorded :
                       /\ Recorded[p].row \in {"DISCOVERED", "PROCESSING"}
                       /\ Recorded[p].source = s }) <= Cap + Workers

Stages == {"todo", "asking", "diverted", "yahoo", "adding", "done"}

TypeOK ==
  /\ CircuitTypeOK
  /\ phase \in 0..Len(Kinds)
  /\ stage \in [Inquiries -> Stages]
  /\ tries \in [Inquiries -> 0..MaxRetries]
  /\ found \in [Inquiries -> SUBSET (Postings \X Sources)] /\ owed \in [Inquiries -> SUBSET Postings]
  /\ fallback \in BOOLEAN
  /\ row \in [Postings -> Statuses] /\ source \in [Postings -> Sources \union {"none"}]
  /\ placed \subseteq Postings /\ knew \subseteq Postings /\ calm \in BOOLEAN

Quiet ==
  /\ phase = 0 /\ stage = [q \in Inquiries |-> "done"]
  /\ tries = [q \in Inquiries |-> 0]
  /\ found = [q \in Inquiries |-> {}] /\ owed = [q \in Inquiries |-> {}]
  /\ fallback = FALSE

Init ==
  /\ Closed /\ Quiet
  /\ row = [p \in Postings |-> IF p \in DOMAIN Recorded THEN Recorded[p].row ELSE "none"]
  /\ source = [p \in Postings |-> IF p \in DOMAIN Recorded THEN Recorded[p].source ELSE "none"]
  /\ placed = {} /\ knew = {} /\ calm = FALSE

----------------------------------------------------------------------------
(* The table.                                                              *)

Pending(s) == {p \in Postings : row[p] = "DISCOVERED" /\ source[p] = s}
Held(s) == {p \in Postings : row[p] = "PROCESSING" /\ source[p] = s}

Excluded == {p \in Postings : isExcludedSourceURL(Ad[p].url)}

(* Mutant: the source's pending rows are not counted.                      *)
AddUncapped(p, s) ==
  IF row[p] # "none" THEN UNCHANGED rowVars
  ELSE /\ row' = [row EXCEPT ![p] =
             IF p \in Excluded THEN "SKIPPED" ELSE "DISCOVERED"]
       /\ source' = [source EXCEPT ![p] = s]
       /\ UNCHANGED placed

(* Mutant: what is over the cap is dropped.                                *)
AddOrDrop(p, s) ==
  IF row[p] # "none" \/ Cardinality(Pending(s)) >= Cap THEN UNCHANGED rowVars
  ELSE /\ row' = [row EXCEPT ![p] =
             IF p \in Excluded THEN "SKIPPED" ELSE "DISCOVERED"]
       /\ source' = [source EXCEPT ![p] = s]
       /\ UNCHANGED placed

(* One transaction.  A posting over its source's cap is recorded as        *)
(* skipped, and a later answer that lists it again changes nothing.        *)
AddToFunnel(p, s) ==
  IF row[p] # "none" THEN UNCHANGED rowVars
  ELSE /\ row' = [row EXCEPT ![p] =
             IF p \in Excluded \/ Cardinality(Pending(s)) >= Cap
               THEN "SKIPPED" ELSE "DISCOVERED"]
       /\ source' = [source EXCEPT ![p] = s]
       /\ UNCHANGED placed

UpdateFunnelIdentity(p) ==
  /\ placed' = placed \union {p}
  /\ UNCHANGED <<row, source>>

(* The boards most of the recorded postings of a hiring site are on.       *)
OnSite(site) == {p \in Postings : row[p] # "none" /\ Ad[p].url.site = site}
GetKnownATSCompanies(site) ==
  LET Known == {BoardOf(Ad[p].url) : p \in OnSite(site)} \ {""}
      Count(b) == Cardinality({p \in OnSite(site) : BoardOf(Ad[p].url) = b})
      Size == IF Cardinality(Known) < MaxBoards THEN Cardinality(Known) ELSE MaxBoards
  IN { boards \in SUBSET Known :
         /\ Cardinality(boards) = Size
         /\ \A b \in boards, c \in Known \ boards : Count(b) >= Count(c) }

----------------------------------------------------------------------------
(* What each source lets through.                                          *)

titleLooksRelevant(p) == TitleEligibleForRoles(Ad[p].title)

pollBoard(p) ==
  /\ ~IsKnownJunkJobURL(Ad[p].url) /\ titleLooksRelevant(p)
  /\ LocationAllowed(Ad[p].location, Ad[p].codes)
  /\ Profile.RemoteOnly =>
       RemoteEligible(Ad[p].remote, Ad[p].location, [signals |-> {}])

Admits(q, p) ==
  CASE KindOf[q] = "jobicy" ->
         /\ isPublicJobURL(Ad[p].url) /\ ~IsKnownJunkJobURL(Ad[p].url)
         /\ titleLooksRelevant(p)
    [] KindOf[q] = "hackernews" -> parseHNJobPosting(Ad[p].url)
    [] KindOf[q] = "board" -> pollBoard(p)
    [] KindOf[q] \in {"remoteok", "search"} -> TRUE

Admitted == [q \in Inquiries |-> {p \in Listed[q] : Admits(q, p)}]
ValidResults == [q \in Inquiries |-> {p \in Listed[q] : isValidATSUrl(Ad[p].url)}]

(* Of a board's posting the feed may have named the place.                 *)
NamesPlace(p) ==
  Ad[p].location.countries # {} \/ Ad[p].location.signals # {} \/ Ad[p].codes # {}

----------------------------------------------------------------------------
(* A refresh.                                                              *)

Asked == IF phase = 0 THEN {} ELSE {q \in Inquiries : KindOf[q] = Kinds[phase]}
Active == {q \in Asked : stage[q] \notin {"todo", "done"}}

StartRefresh ==
  /\ phase = 0 /\ phase' = 1
  /\ stage' = [q \in Inquiries |-> "todo"]
  /\ tries' = [q \in Inquiries |-> 0]
  /\ UNCHANGED <<circuitVars, found, owed, fallback, queueVars>>

(* On to the next kind.  Of the boards only the chosen ones are asked, and *)
(* never those of an excluded employer.                                    *)
NextKind ==
  /\ phase # 0 /\ \A q \in Asked : stage[q] = "done"
  /\ phase' = IF phase = Len(Kinds) THEN 0 ELSE phase + 1
  /\ IF phase' # 0 /\ Kinds[phase'] = "board"
       THEN \E gh \in GetKnownATSCompanies("greenhouse.io"),
               lv \in GetKnownATSCompanies("lever.co") :
              stage' = [q \in Inquiries |->
                IF \/ Channel[q] = "atsfeed:greenhouse" /\ q \notin gh
                   \/ Channel[q] = "atsfeed:lever" /\ q \notin lv \ excludedLeverBoards
                  THEN "done" ELSE stage[q]]
       ELSE UNCHANGED stage
  /\ fallback' = (phase' # 0 /\ Kinds[phase'] = "search" /\ ~SerpApiKey)
  /\ UNCHANGED <<circuitVars, tries, found, owed, queueVars>>

Goto(q, to) == stage' = [stage EXCEPT ![q] = to]

(* Jobicy is asked once an hour at most: whether the hour is over is left  *)
(* open here.                                                              *)
Take(q) ==
  /\ q \in Asked /\ stage[q] = "todo" /\ Cardinality(Active) < Parallel[KindOf[q]]
  /\ \/ KindOf[q] = "jobicy" /\ Goto(q, "done")
     \/ Goto(q, IF KindOf[q] = "search" /\ fallback THEN "diverted" ELSE "asking")
  /\ tries' = [tries EXCEPT ![q] = 1]
  /\ UNCHANGED <<circuitVars, phase, found, owed, fallback, queueVars>>

Finds(q, postings, s) ==
  /\ found' = [found EXCEPT ![q] = postings \X {s}]
  /\ Goto(q, IF postings = {} THEN "done" ELSE "adding")

Answers(q) ==
  /\ stage[q] = "asking"
  /\ Finds(q, Admitted[q], Channel[q])
  /\ UNCHANGED <<circuitVars, phase, tries, owed, fallback, queueVars>>

(* Mutant: after the last attempt the count starts again.                  *)
RetriesAfresh(q) ==
  /\ stage[q] = "yahoo" \/ (stage[q] = "asking" /\ KindOf[q] = "board")
  /\ tries' = [tries EXCEPT ![q] = IF @ < MaxRetries THEN @ + 1 ELSE 1]
  /\ UNCHANGED <<circuitVars, phase, stage, found, owed, fallback, queueVars>>

(* A transport error, 429, 5xx or an unreadable body.                      *)
Retries(q) ==
  /\ stage[q] = "yahoo" \/ (stage[q] = "asking" /\ KindOf[q] = "board")
  /\ tries[q] < MaxRetries
  /\ tries' = [tries EXCEPT ![q] = @ + 1]
  /\ UNCHANGED <<circuitVars, phase, stage, found, owed, fallback, queueVars>>

(* The last attempt failed, or the first of a source asked only once, or a *)
(* board is gone for good.                                                 *)
Fails(q) ==
  /\ stage[q] = "asking" /\ Goto(q, "done")
  /\ UNCHANGED <<circuitVars, phase, tries, found, owed, fallback, queueVars>>

SerpApiErrs(q) ==
  /\ stage[q] = "asking" /\ KindOf[q] = "search"
  /\ fallback' = TRUE /\ Goto(q, "diverted")
  /\ UNCHANGED <<circuitVars, phase, tries, found, owed, queueVars>>

AskYahoo(q) ==
  /\ stage[q] = "diverted" /\ allow /\ Goto(q, "yahoo")
  /\ UNCHANGED <<phase, tries, found, owed, fallback, queueVars>>

CircuitOpenSkip(q) ==
  /\ stage[q] = "diverted" /\ Refuses /\ Goto(q, "done")
  /\ UNCHANGED <<circuitVars, phase, tries, found, owed, fallback, queueVars>>

YahooAnswers(q) ==
  /\ stage[q] = "yahoo" /\ recordSuccess
  /\ Finds(q, ValidResults[q], "yahoo")
  /\ UNCHANGED <<phase, tries, owed, fallback, queueVars>>

YahooFails(q) ==
  /\ stage[q] = "yahoo" /\ tries[q] = MaxRetries
  /\ recordFailure /\ Goto(q, "done")
  /\ UNCHANGED <<phase, tries, found, owed, fallback, queueVars>>

(* A status that is not worth a retry: the breaker is told nothing.        *)
YahooRefuses(q) ==
  /\ stage[q] = "yahoo" /\ Goto(q, "done")
  /\ UNCHANGED <<circuitVars, phase, tries, found, owed, fallback, queueVars>>

(* The place of a new posting of a board is a second statement.            *)
Add(q, p, s) ==
  /\ stage[q] = "adding" /\ owed[q] = {} /\ <<p, s>> \in found[q]
  /\ AddToFunnel(p, s)
  /\ LET rest == found[q] \ {<<p, s>>}
         owes == /\ KindOf[q] = "board" /\ NamesPlace(p)
                 /\ row[p] = "none" /\ row'[p] = "DISCOVERED"
     IN /\ found' = [found EXCEPT ![q] = rest]
        /\ owed' = [owed EXCEPT ![q] = IF owes THEN {p} ELSE {}]
        /\ Goto(q, IF rest = {} /\ ~owes THEN "done" ELSE "adding")
  /\ UNCHANGED <<circuitVars, phase, tries, fallback, knew, calm>>

Identify(q) ==
  /\ \E p \in owed[q] : UpdateFunnelIdentity(p)
  /\ owed' = [owed EXCEPT ![q] = {}]
  /\ Goto(q, IF found[q] = {} THEN "done" ELSE "adding")
  /\ UNCHANGED <<circuitVars, phase, tries, found, fallback, knew, calm>>

(* A write that fails is logged: the posting is left for the next refresh, *)
(* its place for ever.                                                     *)
AddFails(q) ==
  /\ owed[q] = {}
  /\ \E f \in found[q] :
       /\ found' = [found EXCEPT ![q] = @ \ {f}]
       /\ Goto(q, IF found'[q] = {} THEN "done" ELSE "adding")
  /\ UNCHANGED <<circuitVars, phase, tries, owed, fallback, queueVars>>

IdentifyFails(q) ==
  /\ owed[q] # {}
  /\ owed' = [owed EXCEPT ![q] = {}]
  /\ Goto(q, IF found[q] = {} THEN "done" ELSE "adding")
  /\ UNCHANGED <<circuitVars, phase, tries, found, fallback, queueVars>>

Tick ==
  /\ cooldown > 0 /\ CooldownPasses
  /\ UNCHANGED <<inquiryVars, queueVars>>

----------------------------------------------------------------------------
(* The queue.                                                              *)

Worked(p, status) ==
  /\ row' = [row EXCEPT ![p] = status]
  /\ UNCHANGED <<circuitVars, inquiryVars, source, placed, calm>>

(* A worker's copy of the row was loaded with its batch, before the claim: *)
(* the place may have been noted since, which is left open here.           *)
Claim(p) ==
  /\ row[p] = "DISCOVERED"
  /\ Cardinality({k \in Postings : row[k] = "PROCESSING"}) < Workers
  /\ \E loaded \in SUBSET (placed \cap {p}) : knew' = knew \union loaded
  /\ Worked(p, "PROCESSING")

GiveBack(p) ==
  /\ row[p] = "PROCESSING"
  /\ knew' = knew \ {p}
  /\ Worked(p, "DISCOVERED")

(* What the gate is given of the posting: the copy, which has no           *)
(* description.                                                            *)
NoText == [countries |-> {}, signals |-> {}]
Joined(codes) == [countries |-> codes \cap {"US"}, signals |-> {}]

RecordedPlace(p) ==
  IF p \notin knew THEN NoText
  ELSE IF Ad[p].location # NoText THEN Ad[p].location ELSE Joined(Ad[p].codes)

Screened(p) ==
  [ title |-> Ad[p].title, location |-> RecordedPlace(p), codes |-> {},
    description |-> NoText, remote |-> p \in knew /\ Ad[p].remote ]

Screen(p) ==
  /\ row[p] = "PROCESSING"
  /\ knew' = knew \ {p}
  /\ Worked(p, IF IsEligibleJob(Screened(p)) THEN "scored" ELSE "SKIPPED")

(* The agent is stopped or killed; nothing waits for discovery.  The next  *)
(* one starts with nothing in memory and reaps the rows that were held.    *)
Restart ==
  /\ newCircuitBreaker
  /\ phase' = 0 /\ stage' = [q \in Inquiries |-> "done"]
  /\ tries' = [q \in Inquiries |-> 0]
  /\ found' = [q \in Inquiries |-> {}] /\ owed' = [q \in Inquiries |-> {}]
  /\ fallback' = FALSE
  /\ knew' = {}
  /\ row' = [p \in Postings |-> IF row[p] = "PROCESSING" THEN "DISCOVERED" ELSE row[p]]
  /\ UNCHANGED <<source, placed, calm>>

----------------------------------------------------------------------------
Refresh(q) ==
  \/ Take(q) \/ Answers(q) \/ Retries(q) \/ Fails(q)
  \/ SerpApiErrs(q) \/ AskYahoo(q) \/ CircuitOpenSkip(q)
  \/ YahooAnswers(q) \/ YahooFails(q) \/ YahooRefuses(q)
  \/ (\E f \in found[q] : Add(q, f[1], f[2])) \/ Identify(q)

Fault ==
  /\ ~calm
  /\ (\E q \in Inquiries : AddFails(q) \/ IdentifyFails(q)) \/ Restart

Calm ==
  /\ ~calm /\ calm' = TRUE
  /\ UNCHANGED <<circuitVars, inquiryVars, rowVars, knew>>

Step == StartRefresh \/ NextKind \/ \E q \in Inquiries : Refresh(q)

Next ==
  \/ Step \/ Tick
  \/ \E p \in Postings : Claim(p) \/ GiveBack(p) \/ Screen(p)
  \/ Fault \/ Calm

(* Discovery goes on as long as the agent runs: every request has a        *)
(* timeout.  Which of the inquiries under way goes on is open, and nothing *)
(* is asked of the workers or the clock.                                   *)
Fairness == WF_vars(Step)

Spec == Init /\ [][Next]_vars /\ Fairness

----------------------------------------------------------------------------
(* A source never has more postings in the queue than its cap, but for     *)
(* those its workers took out and may give back (AddToFunnel).             *)
PendingBounded ==
  \A s \in Sources : Cardinality(Pending(s) \union Held(s)) <= Cap + Workers

(* A refresh comes to its end, whatever its sources answer, and with it    *)
(* the next is due (runDaemonDiscoveryLoop).                               *)
RefreshEnds == phase # 0 ~> phase = 0

(* Once no write fails and no agent stops, a posting some answer brought   *)
(* in is recorded, in the queue or over the cap as skipped, so that it can *)
(* be accounted for (addToFunnelCounted, AddToFunnel).                     *)
PostingIsRecorded ==
  \A p \in Postings :
    (calm /\ \E q \in Inquiries : \E f \in found[q] : f[1] = p) ~> row[p] # "none"

(* circuit_breaker.go says of a half-open circuit that "further calls are  *)
(* refused until that probe resolves via recordSuccess or recordFailure":  *)
(* while calls are refused, a probe is out.                                *)
ProbeIsOutstanding ==
  circuit = "halfOpen" => \E q \in Inquiries : stage[q] = "yahoo"

(* pipeline.go says of its gate, "This is the authoritative check: it runs *)
(* once the full description has been fetched": what is scored is eligible *)
(* with the description read.                                              *)
ScreenedInFull ==
  \A p \in Postings \ DOMAIN Recorded : row[p] = "scored" =>
    IsEligibleJob([Screened(p) EXCEPT
      !.location = Ad[p].location, !.remote = Ad[p].remote,
      !.codes = Ad[p].codes, !.description = Ad[p].description])
=============================================================================
