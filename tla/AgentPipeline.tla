--------------------------- MODULE AgentPipeline ---------------------------
(***************************************************************************)
(* The agent daemon (cmd/agent): it loads the discovered postings as a     *)
(* batch, its workers take each through the nodes of the pipeline graph,   *)
(* and when the batch is drained it loads the next.  Beside it, at any     *)
(* moment: discovery, the e-mail tracker, the dashboard and the operator's *)
(* commands, all writing the same rows.  The agent can be killed between   *)
(* any two statements; what its workers had in memory is then lost.        *)
(*                                                                         *)
(* A posting is in a batch once and the next batch waits for the last, so  *)
(* where its one worker is with it is a function of the posting.           *)
(***************************************************************************)
EXTENDS JobFunnel, FiniteSets

CONSTANTS
  Workers,          \* WORKER_COUNT
  CycleLimit,       \* the most postings a cycle takes
  AutoSubmitModes,  \* what AutoSubmit may be; re-read at every cycle
  RequeueStatuses   \* the -status values cmd/requeue is run with

ASSUME AgentAssumption ==
  /\ Workers \in Nat \ {0} /\ CycleLimit \in Nat \ {0}
  /\ AutoSubmitModes \subseteq BOOLEAN
  /\ RequeueStatuses \subseteq
       {"BLOCKED_CAPTCHA", "FAILED_SUBMIT", "APPLIED", "RETRY_EXHAUSTED"}

VARIABLES
  agent,     \* the process: down, up, or stopping (its context is cancelled)
  at,        \* where the worker of each posting is; "none" outside a batch
  promoted,  \* the postings of the batch loaded with Intent = "promoted"
  clearing,  \* what a cmd/requeue -clear-dedup has still to clear
  selected,  \* the postings reconciliations of the queue have read and refused
  removed,   \* those of them whose card is still to be deleted
  sent,      \* history: the postings an application has been submitted for
  unchecked  \* history: those whose last duplicate check could not be made

(* What the dashboard and the commands have in memory.                     *)
commandVars == <<clearing, selected, removed>>

agentVars == <<agent, at, promoted, commandVars, sent, unchecked>>
vars == <<funnelVars, agentVars>>

(* "claimed" to "submitted": the row is PROCESSING.  "recording" and the   *)
(* card statuses: the outcome is written, the second statement is not.     *)
Working ==
  { "claimed", "discovery", "fetched", "scoring", "tailoring", "submission",
    "submitted" }
Places == Working \union CardStatuses \union {"none", "queued", "recording"}

Idle(j) == at[j] \in {"none", "queued"}

PipelineTypeOK ==
  /\ FunnelTypeOK
  /\ agent \in {"down", "up", "stopping"}
  /\ at \in [Jobs -> Places]
  /\ promoted \subseteq Jobs /\ sent \subseteq Jobs /\ unchecked \subseteq Jobs
  /\ clearing \subseteq Jobs /\ selected \subseteq Jobs /\ removed \subseteq Jobs

Init ==
  /\ FunnelInit
  /\ agent = "down"
  /\ at = [j \in Jobs |-> "none"]
  /\ promoted = {} /\ sent = {} /\ unchecked = {}
  /\ clearing = {} /\ selected = {} /\ removed = {}

----------------------------------------------------------------------------
(* The process.                                                            *)

Start ==
  /\ agent = "down" /\ agent' = "up"
  /\ ReapStaleProcessingJobs
  /\ UNCHANGED <<at, promoted, commandVars, sent, unchecked>>

(* runAgentQueueCycle.                                                     *)
SweepStale(j) ==
  /\ agent = "up" /\ \A k \in Jobs : at[k] = "none"
  /\ SweepStaleDiscoveredJobs(j)
  /\ UNCHANGED agentVars

LoadBatch ==
  /\ agent = "up" /\ \A j \in Jobs : at[j] = "none"
  /\ \E batch \in SUBSET GetDiscoveredJobs :
       /\ batch # {}
       /\ Cardinality(batch) <= CycleLimit
       /\ Cardinality(batch) = CycleLimit \/ batch = GetDiscoveredJobs
       /\ at' = [j \in Jobs |-> IF j \in batch THEN "queued" ELSE "none"]
       /\ promoted' = {j \in batch : reason[j] = "promoted"}
  /\ UNCHANGED <<funnelVars, agent, commandVars, sent, unchecked>>

(* A signal.  Workers finish the node they are in.                         *)
Cancel ==
  /\ agent = "up" /\ agent' = "stopping"
  /\ UNCHANGED <<funnelVars, at, promoted, commandVars, sent, unchecked>>

Down ==
  /\ agent' = "down"
  /\ at' = [j \in Jobs |-> "none"]
  /\ promoted' = {}
  /\ UNCHANGED <<funnelVars, commandVars, sent, unchecked>>

Exit == agent = "stopping" /\ (\A j \in Jobs : Idle(j)) /\ Down

Crash == agent # "down" /\ Down

----------------------------------------------------------------------------
(* The nodes.  A worker leaves a posting when a node returns StateEnd, and *)
(* graph.Run also leaves it between two nodes once the agent is stopping.  *)

Go(j, to) ==
  /\ at' = [at EXCEPT ![j] = to]
  /\ UNCHANGED <<agent, promoted, commandVars, sent, unchecked>>

Leave(j) == Go(j, "none")
EnterNode(j, node) == IF agent = "up" THEN Go(j, node) ELSE Leave(j)

(* A queued posting needs a worker.                                        *)
Taken(j) ==
  at[j] = "queued" =>
    agent = "up" /\ Cardinality({k \in Jobs : ~Idle(k)}) < Workers

(* What a node may decide about the posting for good.                      *)
Verdicts ==
  [ queued |-> {"INVALID_URL", "RETRY_EXHAUSTED", "SKIPPED"},
    claimed |-> {"INVALID_URL", "SKIPPED"},
    discovery |-> {"INVALID_URL", "BLOCKED_CAPTCHA"},
    fetched |-> {"SKIPPED"},
    scoring |-> {"QUARANTINED", "FAILED_SCORE", "SKIPPED"},
    tailoring |-> {"INVALID_URL"},
    submission |-> {"QUARANTINED", "FAILED_SUBMIT"},
    submitted |-> {"QUARANTINED", "FAILED_SUBMIT"} ]

Settle(j) ==
  /\ at[j] \in DOMAIN Verdicts /\ Taken(j)
  /\ \E s \in Verdicts[at[j]] : UpdateFunnelStatus(j, s)
  /\ Leave(j)

TransientFailure(j) ==
  /\ at[j] \in {"queued", "claimed", "discovery", "scoring", "tailoring"} /\ Taken(j)
  /\ UpdateFunnelStatusRetryable(j)
  /\ Leave(j)

CircuitOpen(j) ==
  /\ at[j] \in {"claimed", "discovery", "tailoring"}
  /\ DeferFunnelStatus(j)
  /\ Leave(j)

Claim(j) ==
  /\ at[j] = "queued" /\ Taken(j)
  /\ UpdateFunnelStatus(j, "PROCESSING")
  /\ Go(j, "claimed")

PreflightPasses(j) ==
  /\ at[j] = "claimed"
  /\ EnterNode(j, "discovery")
  /\ UNCHANGED funnelVars

PageFetched(j) ==
  /\ at[j] = "discovery"
  /\ Go(j, "fetched")
  /\ UNCHANGED funnelVars

AlreadyApplied(j) ==
  /\ at[j] = "fetched" /\ HasApplied(j)
  /\ UpdateFunnelStatus(j, "APPLIED")
  /\ Leave(j)

(* HasApplied answers no when the query fails, too.                        *)
Eligible(j) ==
  /\ at[j] = "fetched"
  /\ \/ ~HasApplied(j) /\ unchecked' = unchecked \ {j}
     \/ unchecked' = unchecked \union {j}
  /\ at' = [at EXCEPT ![j] = IF agent = "up" THEN "scoring" ELSE "none"]
  /\ UNCHANGED <<funnelVars, agent, promoted, commandVars, sent>>

(* A score above the minimum is applied for automatically, or on the       *)
(* operator's promotion; otherwise the posting is left to the operator.    *)
ScorePasses(j) ==
  /\ at[j] = "scoring"
  /\ \E autoSubmit \in AutoSubmitModes :
       IF autoSubmit \/ j \in promoted
         THEN UpdateFunnelStatus(j, "PROCESSING") /\ EnterNode(j, "tailoring")
         ELSE UpdateFunnelStatus(j, "PROCESSED_MANUAL") /\ Leave(j)

StillFresh(j) ==
  /\ at[j] = "tailoring"
  /\ EnterNode(j, "submission")
  /\ UNCHANGED funnelVars

(* The provider's daily quota is spent: the worker cancels the agent.      *)
QuotaExceeded(j) ==
  /\ \/ at[j] = "scoring" /\ UNCHANGED funnelVars
     \/ at[j] = "submission" /\ UpdateFunnelStatus(j, "FAILED_SUBMIT")
  /\ agent' = IF agent = "up" THEN "stopping" ELSE agent
  /\ at' = [at EXCEPT ![j] = "none"]
  /\ UNCHANGED <<promoted, commandVars, sent, unchecked>>

(* The click on the form's submit button: from here on the employer may    *)
(* have the application, whatever AttemptSubmit then makes of the page.    *)
ClickSubmit(j) ==
  /\ at[j] = "submission"
  /\ at' = [at EXCEPT ![j] = "submitted"]
  /\ sent' = sent \union {j}
  /\ UNCHANGED <<funnelVars, agent, promoted, commandVars, unchecked>>

Submitted(j) ==
  /\ at[j] = "submitted"
  /\ UpdateFunnelStatus(j, "APPLIED")
  /\ Go(j, "recording")

RecordApplication(j) ==
  /\ at[j] = "recording"
  /\ RecordApplicationInDB(j)
  /\ Leave(j)

HandedOff ==
  [ submission |-> CardStatuses, submitted |-> CardStatuses \ {"AWAITING_REVIEW"} ]

(* Mutant: documents made are an application recorded, as it once was.     *)
HandOffRecorded(j) ==
  /\ at[j] \in DOMAIN HandedOff
  /\ applied' = applied \union {j}
  /\ UNCHANGED <<retries, backoff, intent, card>>
  /\ \E s \in HandedOff[at[j]] : SetStatus(j, s, "other") /\ Go(j, s)

HandOff(j) ==
  /\ at[j] \in DOMAIN HandedOff
  /\ \E s \in HandedOff[at[j]] : UpdateFunnelStatus(j, s) /\ Go(j, s)

MakePlan(j) ==
  /\ at[j] \in CardStatuses
  /\ EnsureAssistedPlanForURL(j, at[j]) \/ PlanRefused
  /\ Leave(j)

WorkerStep(j) ==
  \/ Settle(j) \/ TransientFailure(j) \/ CircuitOpen(j) \/ Claim(j)
  \/ PreflightPasses(j) \/ PageFetched(j) \/ AlreadyApplied(j) \/ Eligible(j)
  \/ ScorePasses(j) \/ StillFresh(j) \/ QuotaExceeded(j) \/ ClickSubmit(j)
  \/ Submitted(j) \/ RecordApplication(j) \/ HandOff(j) \/ MakePlan(j)

----------------------------------------------------------------------------
(* Everyone else.  An operator who says an application was submitted has   *)
(* submitted it.                                                           *)

OperatorApplies(j) ==
  /\ \/ MarkHandoffApplied(j) \/ MarkJobAppliedManually(j)
     \/ ConfirmAssistedSubmission(j)
  /\ sent' = sent \union {j}
  /\ UNCHANGED <<agent, at, promoted, commandVars, unchecked>>

FunnelChanges(j) ==
  /\ \/ AddToFunnel(j) \/ ApplyOutcome(j) \/ BackoffElapses(j)
     \/ PromoteJobToAssisted(j) \/ SkipQualifiedJob(j) \/ MarkAssistedNotFound(j)
     \/ MigrateLegacyAssisted(j)
  /\ UNCHANGED agentVars

(* Every poll of the dashboard and cmd/pruneassisted reconcile the queue:  *)
(* one SELECT, then for each posting the policy refuses the two statements *)
(* of removeRow, with whatever has happened since.  A posting stays in the *)
(* set if another reconciliation has read it as well; one that fails or is *)
(* killed leaves the rest undone.                                          *)
ReconcileReads(j) ==
  /\ InQueue(j)
  /\ selected' = selected \union {j}
  /\ UNCHANGED <<funnelVars, removed>>

ReconcileRemoves(j) ==
  /\ j \in selected
  /\ RemoveRow(j)
  /\ selected' \in {selected, selected \ {j}}
  /\ removed' = removed \union {j}

ReconcileDeletes(j) ==
  /\ j \in removed
  /\ DeleteCard(j)
  /\ removed' \in {removed, removed \ {j}}
  /\ UNCHANGED selected

ReconcileEnds(j) ==
  /\ selected' = selected \ {j} /\ removed' = removed \ {j}
  /\ UNCHANGED funnelVars

Reconciles(j) ==
  /\ \/ ReconcileReads(j) \/ ReconcileRemoves(j) \/ ReconcileDeletes(j)
     \/ ReconcileEnds(j)
  /\ UNCHANGED <<agent, at, promoted, clearing, sent, unchecked>>

(* cmd/requeue, with or without -clear-dedup: two statements.              *)
Requeue(pattern, clear) ==
  /\ clearing = {}
  /\ \E from \in RequeueStatuses : RequeueByURLPattern(pattern, from)
  /\ clearing' = IF clear THEN pattern ELSE {}
  /\ UNCHANGED <<agent, at, promoted, selected, removed, sent, unchecked>>

ClearDedup ==
  /\ clearing # {} /\ clearing' = {}
  /\ ClearApplicationRecords(clearing)
  /\ UNCHANGED <<agent, at, promoted, selected, removed, sent, unchecked>>

Patterns == (SUBSET Jobs) \ {{}}

Next ==
  \/ Start \/ LoadBatch \/ Cancel \/ Exit \/ Crash
  \/ \E j \in Jobs :
       \/ WorkerStep(j) \/ SweepStale(j)
       \/ OperatorApplies(j) \/ FunnelChanges(j) \/ Reconciles(j)
  \/ \E pattern \in Patterns, clear \in BOOLEAN : Requeue(pattern, clear)
  \/ ClearDedup

Spec == Init /\ [][Next]_vars
----------------------------------------------------------------------------
(* Correctness.                                                            *)

(* The row of a posting in a batch is moved only by its worker, but for    *)
(* the operator's write-off and for a reconciliation that read the row     *)
(* while it was in the queue, before it was taken up again; and nobody     *)
(* makes a row that is worked on one for the next batch.                   *)
WorkedRowIsClaimed ==
  [][\A j \in Jobs :
       /\ at[j] \in Working \union {"queued"}
       /\ at'[j] = at[j]
       /\ status'[j] # status[j]
       => \/ status'[j] = "INVALID_URL"
          \/ status'[j] = "SKIPPED" /\ j \in selected]_vars

(* A dedup row is written only when the application was really submitted,  *)
(* or the posting would be skipped as applied for ever after.              *)
DedupIsEarned == applied \subseteq sent

(* A posting with a dedup row is not applied to again, requeued or not,    *)
(* unless this time the table could not be read: no row is written between *)
(* the check and the click.                                                *)
NoResubmission ==
  [][\A j \in Jobs : ClickSubmit(j) /\ j \in applied => j \in unchecked]_vars

(* What was applied for stays so until the employer answers or cmd/requeue *)
(* takes it up again: no stale batch, late worker or other command undoes  *)
(* it, but for a reconciliation that read the row while it was still in    *)
(* the queue.                                                              *)
AppliedStays ==
  [][\A j \in Jobs :
       status[j] = "APPLIED" =>
         \/ status'[j] \in {"APPLIED", "EMPLOYER_ANSWERED"}
         \/ "APPLIED" \in RequeueStatuses /\ status'[j] = "DISCOVERED"
         \/ status'[j] = "SKIPPED" /\ j \in selected]_vars

(* A killed or stopped agent leaves no row PROCESSING for good.            *)
ProcessingEnds ==
  \A j \in Jobs : status[j] = "PROCESSING" ~> status[j] # "PROCESSING"

(* The posting is no longer in the queue.                                   *)
Resolved(j) == status[j] \notin {"unknown", "DISCOVERED", "PROCESSING"}
============================================================================
