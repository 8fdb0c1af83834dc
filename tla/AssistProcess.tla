--------------------------- MODULE AssistProcess ---------------------------
(***************************************************************************)
(* cmd/assist: each process claims the lease of one job, opens the one     *)
(* visible browser, polls the row every second, refills the form when the  *)
(* operator asks it to, and on the way out cleans up what it holds.  The   *)
(* dashboard's handlers act on the same rows at any moment, and a process  *)
(* can be killed at any moment, when none of its deferred cleanup runs.    *)
(*                                                                         *)
(* The steps here say what happens to the rows and to the processes; what  *)
(* they also do to questions, answers and apply sessions is added by the   *)
(* modules that extend this one.                                           *)
(***************************************************************************)
EXTENDS AssistedLease

CONSTANT DirectJobs  \* jobs whose ATS is opened by runDirectAssistedBrowser

ASSUME EnvironmentAssumption == DirectJobs \subseteq Jobs

VARIABLES
  phase,  \* where each process is in main()
  job,    \* the job it was launched for
  lapsed  \* history: processes that once let the heartbeat window pass, or
          \* whose row was deleted under them

processVars == <<phase, job, lapsed>>
vars == <<leaseVars, processVars>>

(* The browser is on screen from the claim until the deferred closes run.  *)
OpenPhases ==
  { "starting", "open", "filling", "recording", "finishing", "answering", "typing" }
ClosingPhases == { "discarding", "pausing", "releasing" }
Phases == {"none"} \union OpenPhases \union ClosingPhases

BrowserOpen(p) == phase[p] \in OpenPhases
Running(p) == phase[p] # "none"

TypeOK ==
  /\ LeaseTypeOK
  /\ phase \in [Processes -> Phases]
  /\ job \in [Processes -> Jobs \union {NoJob}]
  /\ \A p \in Processes : Running(p) <=> job[p] # NoJob
  /\ lapsed \subseteq {p \in Processes : Running(p)}

Init ==
  /\ LeaseInit
  /\ phase = [p \in Processes |-> "none"]
  /\ job = [p \in Processes |-> NoJob]
  /\ lapsed = {}

----------------------------------------------------------------------------
(* Starting and polling.                                                   *)

Goto(p, to) == phase' = [phase EXCEPT ![p] = to] /\ UNCHANGED <<job, lapsed>>

Gone(p) ==
  /\ phase' = [phase EXCEPT ![p] = "none"]
  /\ job' = [job EXCEPT ![p] = NoJob]
  /\ lapsed' = lapsed \ {p}

Launch(p, j) ==
  /\ ~Running(p)
  /\ AcquireAssistedLease(j, p)
  /\ phase' = [phase EXCEPT ![p] = "starting"]
  /\ job' = [job EXCEPT ![p] = j]
  /\ UNCHANGED lapsed

BrowserReady(p) ==
  /\ phase[p] = "starting"
  /\ Goto(p, "open")
  /\ UNCHANGED leaseVars

(* Any of the early returns before the page is usable.                     *)
BrowserNeverOpens(p) ==
  /\ phase[p] = "starting"
  /\ Goto(p, "discarding")
  /\ UNCHANGED leaseVars

(* The operator closes the window, or the process is asked to stop.        *)
BrowserCloses(p) ==
  /\ phase[p] = "open"
  /\ Goto(p, "discarding")
  /\ UNCHANGED leaseVars

(* One tick of the loop.  Renewal fails on a completed, pruned, re-claimed *)
(* or expired row.  workFinished is what storage.AssistedWorkFinished says *)
(* of this job's place in the apply session.                               *)
PollLosesLease(p) ==
  /\ phase[p] = "open"
  /\ ~CanRenew(job[p], p)
  /\ Goto(p, "discarding")
  /\ UNCHANGED leaseVars

PollFinished(p) ==
  /\ phase[p] = "open"
  /\ job[p] \notin DirectJobs
  /\ RenewAssistedLease(job[p], p)
  /\ Goto(p, "discarding")

(* Mutants: the loop looks for one of the two requests only.               *)
PollForRequest(p, request, to) ==
  /\ phase[p] = "open"
  /\ job[p] \notin DirectJobs
  /\ RenewAssistedLease(job[p], p)
  /\ Goto(p, IF state[job[p]] = request THEN to ELSE "open")

PollIgnoresContinue(p) == PollForRequest(p, "answers_provided", "answering")
PollIgnoresAnswers(p) == PollForRequest(p, "continue_requested", "filling")

PollContinues(p) ==
  /\ phase[p] = "open"
  /\ job[p] \notin DirectJobs
  /\ RenewAssistedLease(job[p], p)
  /\ Goto(p, CASE state[job[p]] = "continue_requested" -> "filling"
               [] state[job[p]] = "answers_provided" -> "answering"
               [] OTHER -> "open")

(* The direct browser has no page to refill: Continue becomes manual       *)
(* review, and the apply session is never consulted.                       *)
PollDirect(p) ==
  /\ phase[p] = "open"
  /\ job[p] \in DirectJobs
  /\ CanRenew(job[p], p)
  /\ ttl' = [ttl EXCEPT ![job[p]] = LeaseDuration]
  /\ age' = [age EXCEPT ![job[p]] = 0]
  /\ state' = [state EXCEPT ![job[p]] =
                 IF @ = "continue_requested" THEN "manual_review" ELSE @]
  /\ UNCHANGED <<owner, processVars>>

----------------------------------------------------------------------------
(* continueAssistedApplication and applyOperatorAnswers.                   *)

(* Record a transition if the row still allows it; otherwise give up.      *)
RecordOrExit(p, from, to) ==
  \/ /\ CanRecord(job[p], p, from)
     /\ SetState(job[p], to)
     /\ Goto(p, "open")
  \/ /\ ~CanRecord(job[p], p, from)
     /\ Goto(p, "discarding")
     /\ UNCHANGED leaseVars

(* The documents, the PII or the fill itself failed.                       *)
FillNeedsManualReview(p) ==
  /\ phase[p] = "filling"
  /\ RecordOrExit(p, "continue_requested", "manual_review")

(* Recording the outcome is two commits: the questions left, then the state.*)
FillFindsQuestions(p) ==
  /\ phase[p] = "filling"
  /\ Goto(p, "recording")
  /\ UNCHANGED leaseVars

RecordAssistedQuestions(p) ==
  /\ phase[p] = "recording"
  /\ RecordOrExit(p, "continue_requested", "needs_answers")

FillLeavesNothing(p) ==
  /\ phase[p] = "filling"
  /\ Goto(p, "finishing")
  /\ UNCHANGED leaseVars

RecordAssistedRefill(p) ==
  /\ phase[p] = "finishing"
  /\ RecordOrExit(p, "continue_requested", "review_and_submit")

TakeAnswers(p) ==
  /\ phase[p] = "answering"
  /\ Goto(p, "typing")
  /\ UNCHANGED leaseVars

(* The answers are gone or cannot be typed.  Manual review is recorded     *)
(* from continue_requested only, so this attempt is always refused.        *)
AnswersUnusable(p) ==
  /\ phase[p] \in {"answering", "typing"}
  /\ RecordOrExit(p, "continue_requested", "manual_review")

AnswersTyped(p) ==
  /\ phase[p] = "typing"
  /\ RecordOrExit(p, "answers_provided", "review_and_submit")

----------------------------------------------------------------------------
(* The deferred cleanup of main(), three statements in this order.         *)

DiscardAnswers(p) ==
  /\ phase[p] = "discarding"
  /\ Goto(p, "pausing")
  /\ UNCHANGED leaseVars

PauseForClosedBrowser(p) ==
  /\ phase[p] = "pausing"
  /\ Goto(p, "releasing")
  /\ UNCHANGED leaseVars

Release(p) ==
  /\ phase[p] = "releasing"
  /\ Gone(p)
  /\ \/ ReleaseAssistedLease(job[p], p)
     \/ owner[job[p]] # p /\ UNCHANGED leaseVars

(* SIGKILL, a power cut, or launchAssistedApplication's ready timeout.     *)
Crash(p) ==
  /\ Running(p)
  /\ Gone(p)
  /\ LoseOwner(p)

----------------------------------------------------------------------------
(* Handlers of the dashboard, the eligibility reconciler, and the clock.   *)

OperatorContinue(j) == RequestAssistedContinue(j) /\ UNCHANGED processVars
OperatorAnswers(j) == SubmitAssistedAnswers(j) /\ UNCHANGED processVars
OperatorRevalidates(j) == RecordAssistedRevalidation(j) /\ UNCHANGED processVars
OperatorCompletes(j) == CompleteAssisted(j) /\ UNCHANGED processVars
PlanCreated(j) == EnsureAssistedPlan(j) /\ UNCHANGED processVars

RowPruned(j) ==
  /\ RemoveAssistedRow(j)
  /\ lapsed' = lapsed \union {p \in Processes : job[p] = j}
  /\ UNCHANGED <<phase, job>>

(* Opening a page and filling a form send no heartbeat and may take longer *)
(* than the window (45 s for a page, 30 s for a wait, against 30 s); the   *)
(* machine may sleep in any phase.  LeaseDuration - ttl is the time since  *)
(* the last heartbeat.                                                     *)
Tick ==
  /\ Elapse
  /\ lapsed' = lapsed \union
       {p \in Processes : Running(p) /\ LeaseDuration - ttl'[job[p]] >= HeartbeatTimeout}
  /\ UNCHANGED <<phase, job>>

----------------------------------------------------------------------------
ProcessStep(p) ==
  \/ BrowserReady(p) \/ BrowserNeverOpens(p)
  \/ PollLosesLease(p) \/ PollFinished(p) \/ PollContinues(p) \/ PollDirect(p)
  \/ FillNeedsManualReview(p)
  \/ FillFindsQuestions(p) \/ RecordAssistedQuestions(p)
  \/ FillLeavesNothing(p) \/ RecordAssistedRefill(p)
  \/ TakeAnswers(p) \/ AnswersUnusable(p) \/ AnswersTyped(p)
  \/ DiscardAnswers(p) \/ PauseForClosedBrowser(p) \/ Release(p)

OperatorStep(j) ==
  \/ OperatorContinue(j) \/ OperatorAnswers(j) \/ OperatorRevalidates(j)
  \/ OperatorCompletes(j) \/ PlanCreated(j) \/ RowPruned(j)

Next ==
  \/ \E p \in Processes, j \in Jobs : Launch(p, j)
  \/ \E p \in Processes : ProcessStep(p) \/ BrowserCloses(p) \/ Crash(p)
  \/ \E j \in Jobs : OperatorStep(j)
  \/ Tick

Spec == Init /\ [][Next]_vars
----------------------------------------------------------------------------
(* Correctness.                                                            *)

(* The sole visible browser, as far as the code has it: two processes run  *)
(* together only if one of them once let the heartbeat window pass, or had *)
(* its row deleted.  A punctual one is never joined by another, from its   *)
(* claim to its last deferred statement, whatever row the other asks for   *)
(* and whatever the dashboard writes to its own.                           *)
AnotherOnlyAfterLapse ==
  \A p, q \in Processes :
    Running(p) /\ Running(q) /\ p # q => p \in lapsed \/ q \in lapsed

(* A process that has not lapsed owns its row until its last statement,    *)
(* with a heartbeat recent enough that nobody else may claim any row.      *)
HolderLive ==
  \A p \in Processes : Running(p) /\ p \notin lapsed =>
    /\ owner[job[p]] = p
    /\ LeaseDuration - ttl[job[p]] < HeartbeatTimeout
    /\ age[job[p]] <= LeaseDuration - ttl[job[p]]

(* A request to continue is never left on a row no browser ever comes back *)
(* to: ReleaseAssistedLease takes it back together with the lease.         *)
NoOrphanRequest ==
  \A j \in Jobs : state[j] = "continue_requested" => owner[j] # NoOwner

(* The rows, leases and processes implement the abstract desk.             *)
Desk == {<<p, job[p]>> : p \in {q \in Processes : BrowserOpen(q)}}
Unattended == {b \in Desk : b[1] \in lapsed}
Done == {j \in Jobs : state[j] = "completed"}

Abstract == INSTANCE BrowserDesk
            WITH desk <- Desk, unattended <- Unattended, done <- Done

(* A browser is opened only on an undecided application and only beside    *)
(* browsers nobody attends to; one that is given up does not count as      *)
(* attended to again; no outcome is taken back, whatever the processes and *)
(* handlers interleave.                                                    *)
ImplementsDesk == Abstract!Spec

(* A Continue that reaches an open browser is acted on: the row moves on,  *)
(* or no process is left on it.                                            *)
ContinueHandled ==
  \A j \in Jobs :
    (state[j] = "continue_requested" /\ \E p \in Processes : phase[p] = "open" /\ job[p] = j)
      ~> (state[j] # "continue_requested" \/ \A p \in Processes : job[p] # j)

(* A lease whose process was killed runs out, however often the dashboard  *)
(* revalidates the row or asks the dead browser to continue.               *)
DeadLeaseExpires ==
  \A j \in Jobs : (owner[j] = Lost) ~> (owner[j] # Lost \/ ~Unexpired(j))
============================================================================
