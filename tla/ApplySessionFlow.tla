-------------------------- MODULE ApplySessionFlow --------------------------
(***************************************************************************)
(* The apply session together with the browsers it opens: the dashboard's  *)
(* auto-advance, which opens the next application, the browser processes,  *)
(* which report back by what they leave in the tables, and the operator.   *)
(*                                                                         *)
(* Only the steps of AssistProcess that open or close a browser appear:    *)
(* filling forms and answering questions touch neither session nor lease.  *)
(***************************************************************************)
EXTENDS AssistProcess, ApplySession

VARIABLES
  advance,     \* where advanceApplySession is; one runs at a time (a mutex)
  next,        \* the job it is opening
  child,       \* the process it launched
  abandoned    \* history: jobs whose item was left in progress by a browser
               \* that was killed or a launch that a restart cut off

advanceVars == <<advance, next, child>>
codeVars == <<vars, sessionVars, advanceVars>>
flowVars == <<codeVars, abandoned>>

AdvancePhases == {"idle", "picked", "cleared", "launching", "waiting", "failed"}

FlowTypeOK ==
  /\ TypeOK /\ SessionTypeOK
  /\ advance \in AdvancePhases
  /\ next \in Jobs \union {NoJob}
  /\ child \in Processes \union {NoOwner}
  /\ child # NoOwner <=> advance = "waiting"
  /\ abandoned \subseteq Jobs

FlowInit ==
  /\ Init /\ SessionInit
  /\ state = [j \in Jobs |-> "waiting_human"]
  /\ abandoned = {}
  /\ advance = "idle" /\ next = NoJob /\ child = NoOwner

(* The gate in front of every launch.  It may refuse for reasons outside   *)
(* the model: the policy, the ATS, a missing or stale revalidation.        *)
GetAssistedLaunchInfo(j, granted) == granted => Active(j)

(* Mutant: any lease counts, however old its last heartbeat.               *)
someLeaseIsHeld == \E j \in Jobs : owner[j] # NoOwner

assistedBrowserIsLive == \E j \in Jobs : Live(j)

----------------------------------------------------------------------------
(* advanceApplySession, one step per statement.  It is started by Start,   *)
(* Resume, Skip and Confirm, and by a ticker: so, at any time.             *)

AdvanceTo(where, j, p) == advance' = where /\ next' = j /\ child' = p

AdvanceDone == AdvanceTo("idle", NoJob, NoOwner)

PickNext(j) ==
  /\ advance = "idle"
  /\ NextApplySessionJob(j, assistedBrowserIsLive)
  /\ AdvanceTo("picked", j, NoOwner)
  /\ UNCHANGED <<vars, sessionVars>>

CheckNext ==
  /\ advance = "picked"
  /\ GetAssistedLaunchInfo(next, TRUE)
  /\ AdvanceTo("cleared", next, NoOwner)
  /\ UNCHANGED <<vars, sessionVars>>

(* The refusal can come at any moment after the pick, so nothing is lost   *)
(* by taking it together with the write that follows.                      *)
DeferNext ==
  /\ advance = "picked"
  /\ GetAssistedLaunchInfo(next, FALSE)
  /\ AdvanceApplySessionItem(next, "left")
  /\ AdvanceDone
  /\ UNCHANGED vars

MarkNext ==
  /\ advance = "cleared"
  /\ MarkApplySessionItemOpen(next)
  /\ AdvanceTo("launching", next, NoOwner)
  /\ UNCHANGED vars

(* launchAssistedApplication: cmd/assist starts, passes the same gate and  *)
(* claims the lease, or exits without having claimed anything.             *)
ChildClaims(p) ==
  /\ advance = "launching"
  /\ GetAssistedLaunchInfo(next, TRUE)
  /\ Launch(p, next)
  /\ AdvanceTo("waiting", next, p)
  /\ UNCHANGED sessionVars

ChildRefused ==
  /\ advance = "launching"
  /\ AdvanceTo("failed", next, NoOwner)
  /\ UNCHANGED <<vars, sessionVars>>

(* CAREER_ASSIST_READY_TIMEOUT: the child is killed, its defers never run. *)
ReadyTimeout ==
  /\ advance = "waiting"
  /\ Crash(child)
  /\ AdvanceTo("failed", next, NoOwner)
  /\ UNCHANGED sessionVars

PauseAfterFailedLaunch ==
  /\ advance = "failed"
  /\ PauseApplySessionForClosedBrowser(next)
  /\ AdvanceDone
  /\ UNCHANGED vars

AdvanceStep ==
  \/ \E j \in Jobs : PickNext(j)
  \/ CheckNext \/ DeferNext \/ MarkNext
  \/ \E p \in Processes : ChildClaims(p)
  \/ ChildRefused \/ ReadyTimeout \/ PauseAfterFailedLaunch

(* The goroutine is lost; what it had written stays.                       *)
DashboardRestart ==
  /\ advance # "idle"
  /\ AdvanceDone
  /\ UNCHANGED <<vars, sessionVars>>

----------------------------------------------------------------------------
(* The browser processes.                                                  *)

Quiet == UNCHANGED <<sessionVars, advanceVars>>

(* The ready line on stderr is what launchAssistedApplication waits for.   *)
BrowserIsReady(p) ==
  /\ BrowserReady(p)
  /\ IF child = p THEN AdvanceDone ELSE UNCHANGED advanceVars
  /\ UNCHANGED sessionVars

BrowserGoes(p) ==
  /\ BrowserNeverOpens(p) \/ PollLosesLease(p) \/ DiscardAnswers(p)
  /\ Quiet

(* A launcher still waiting for the ready line sees the process exit.      *)
LauncherNotices(p) ==
  IF child = p THEN AdvanceTo("failed", next, NoOwner) ELSE UNCHANGED advanceVars

BrowserReleases(p) ==
  Release(p) /\ LauncherNotices(p) /\ UNCHANGED sessionVars

PollSession(p) ==
  /\ phase[p] = "open"
  /\ IF AssistedWorkFinished(job[p]) THEN PollFinished(p) ELSE PollContinues(p)
  /\ Quiet

PollDirectBrowser(p) == PollDirect(p) /\ Quiet

PauseForClosed(p) ==
  /\ PauseForClosedBrowser(p)
  /\ PauseApplySessionForClosedBrowser(job[p])
  /\ UNCHANGED advanceVars

BrowserStep(p) ==
  \/ BrowserIsReady(p) \/ BrowserGoes(p) \/ BrowserReleases(p) \/ PollSession(p)
  \/ PollDirectBrowser(p) \/ PauseForClosed(p)

WindowClosed(p) == BrowserCloses(p) /\ Quiet

ProcessKilled(p) == Crash(p) /\ LauncherNotices(p) /\ UNCHANGED sessionVars

----------------------------------------------------------------------------
(* The operator, through the dashboard.                                    *)

(* The Open button of a card, in or out of a session.                      *)
ManualLaunch(p, j) ==
  /\ GetAssistedLaunchInfo(j, TRUE)
  /\ Launch(p, j)
  /\ Quiet

(* AssistedWorkOutcome and the row, in one transaction.                    *)
Decide(j, outcome) ==
  /\ OperatorCompletes(j)
  /\ AdvanceApplySessionItem(j, outcome)
  /\ UNCHANGED advanceVars

(* Submission confirmed, or submission not found.                          *)
Confirm(j) == Decide(j, "decided")

(* The queue page checks pages and deletes rows, those of items included;  *)
(* rows it adds belong to no session.                                      *)
QueuePage(j) == (OperatorRevalidates(j) \/ RowPruned(j)) /\ Quiet

Start(selected) == StartApplySession(selected) /\ UNCHANGED <<vars, advanceVars>>

Skip(j) ==
  /\ AdvanceApplySessionItem(j, "left")
  /\ UNCHANGED <<vars, advanceVars>>

Control ==
  /\ \/ SetApplySessionState("paused") \/ SetApplySessionState("running")
     \/ SetApplySessionStopAfterCurrent \/ StopApplySession
  /\ UNCHANGED <<vars, advanceVars>>

OperatorActs ==
  \/ \E p \in Processes, j \in Jobs : ManualLaunch(p, j)
  \/ \E j \in Jobs : Confirm(j) \/ QueuePage(j) \/ Skip(j)
  \/ \E selected \in SUBSET Jobs : Start(selected)
  \/ Control

FlowTick == Tick /\ Quiet

(* A process pauses the session for its job on its way out, unless it is   *)
(* killed before that; then the launcher does, if it still waits for it.   *)
WillPause(p) == phase[p] \notin {"none", "releasing"}
KilledUnpaused(p) == WillPause(p) /\ phase'[p] = "none" /\ p # child

CutOff(j) ==
  \/ \E p \in Processes : job[p] = j /\ KilledUnpaused(p)
  \/ next = j /\ advance \in {"launching", "failed"} /\ DashboardRestart

Abandoning ==
  abandoned' = {j \in Jobs : /\ item'[j] = "in_progress"
                             /\ j \in abandoned \/ CutOff(j)
                             /\ ~\E p \in Processes : job'[p] = j /\ WillPause(p)'}

FlowStep ==
  \/ AdvanceStep \/ DashboardRestart
  \/ \E p \in Processes : BrowserStep(p) \/ WindowClosed(p) \/ ProcessKilled(p)
  \/ OperatorActs
  \/ FlowTick

FlowNext == FlowStep /\ Abandoning

(* The ticker keeps advanceApplySession running and each step of it ends   *)
(* (a launch is cut off by its timeout); browsers that are not killed keep *)
(* taking steps; time passes.  The operator is obliged to nothing.         *)
FlowFairness ==
  /\ WF_codeVars(AdvanceStep)
  /\ \A p \in Processes : WF_codeVars(BrowserStep(p))
  /\ WF_codeVars(FlowTick)

FlowSpec == FlowInit /\ [][FlowNext]_flowVars /\ FlowFairness
----------------------------------------------------------------------------
(* Correctness.                                                            *)

(* NextApplySessionJob offers nothing while an item is in progress, so the *)
(* operator is never in the middle of two applications of one session.     *)
OneInProgress ==
  Open => \A j, k \in Jobs :
            item[j] = "in_progress" /\ item[k] = "in_progress" => j = k

(* "There is no window in which an application is confirmed but the        *)
(* session still thinks it is open": the row and the item change together. *)
OutcomesCommitTogether ==
  [][\A j \in Jobs :
       (Open /\ state[j] # "completed" /\ state'[j] = "completed")
         => ~Unfinished(item', j)]_flowVars

(* AssistedWorkFinished: an outcome given while the session goes on closes *)
(* the browser still open on that application.  The loop of the direct     *)
(* browser does not ask, so nothing is claimed of it.                      *)
OutcomeClosesBrowser ==
  \A p \in Processes, j \in Jobs \ DirectJobs :
    (phase[p] = "open" /\ job[p] = j /\ Open /\ Terminal(j))
      ~> (job[p] # j \/ phase[p] # "open" \/ ~Open)

(* A running session with applications left and no browser on screen.      *)
Stalled ==
  /\ session = "running" /\ ~stopAfter
  /\ \E j \in Jobs : Unfinished(item, j)
  /\ \A j \in Jobs : ~Live(j)

(* No session stays there for good, unless the dashboard keeps restarting  *)
(* or the item in progress was abandoned: by a kill of the browser that    *)
(* was ready, or a restart of the dashboard before the launched one was.   *)
(* Nothing but the operator ever takes such an item up again, though the   *)
(* comment of applySessionTicker names these cases as the ones it covers.  *)
(* Every other end of a browser or a launch leads the session on, or       *)
(* pauses it.                                                              *)
SessionStallsOnlyAbandoned ==
  <>[][~DashboardRestart]_flowVars => []<>(~Stalled \/ abandoned # {})
============================================================================
