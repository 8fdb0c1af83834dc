----------------------------- MODULE JobFunnel -----------------------------
(***************************************************************************)
(* The tables an application goes through before and after the operator    *)
(* sees it (pkg/storage/manager.go, promote.go, assisted.go): job_funnel,  *)
(* one row per posting; applied_jobs, the record that stops a posting from *)
(* being applied to again; and assisted_applications, here only the card   *)
(* of the operator's queue (its lease and progress are in AssistedLease).  *)
(* Every operator is one statement or one transaction.                     *)
(***************************************************************************)
EXTENDS Naturals

CONSTANTS
  Jobs,              \* the postings
  MaxRetryAttempts   \* 5 in the code

ASSUME RetryAssumption == MaxRetryAttempts \in Nat \ {0}

VARIABLES
  status,   \* job_funnel.status; "unknown" before the posting has a row
  reason,   \* job_funnel.status_reason, where it says "promoted"; else "other"
  retries,  \* job_funnel.retry_count
  backoff,  \* next_eligible_at is in the future
  intent,   \* processing_intent = 'assisted_promotion'
  applied,  \* the postings with a row in applied_jobs
  card      \* original_status of the card; "none", or "completed"

funnelVars == <<status, reason, retries, backoff, intent, applied, card>>

(* eligibleAssistedStatuses, and the two of them that are HandoffStatuses. *)
CardStatuses == {"AWAITING_REVIEW", "MANUAL_REQUIRED", "BLOCKED_CAPTCHA"}
HandoffStatuses == CardStatuses \ {"BLOCKED_CAPTCHA"}

(* QUARANTINED stands for both quarantines, EMPLOYER_ANSWERED for every    *)
(* status the e-mail tracker records.                                      *)
Statuses == CardStatuses \union
  { "unknown", "DISCOVERED", "PROCESSING", "APPLIED", "SKIPPED", "INVALID_URL",
    "RETRY_EXHAUSTED", "QUARANTINED", "FAILED_SCORE", "FAILED_SUBMIT",
    "PROCESSED_MANUAL", "EMPLOYER_ANSWERED" }

FunnelTypeOK ==
  /\ status \in [Jobs -> Statuses]
  /\ reason \in [Jobs -> {"promoted", "other"}]
  /\ retries \in [Jobs -> 0..MaxRetryAttempts]
  /\ backoff \in [Jobs -> BOOLEAN]
  /\ intent \in [Jobs -> BOOLEAN]
  /\ applied \subseteq Jobs
  /\ card \in [Jobs -> CardStatuses \union {"none", "completed"}]

FunnelInit ==
  /\ status = [j \in Jobs |-> "unknown"]
  /\ reason = [j \in Jobs |-> "other"]
  /\ retries = [j \in Jobs |-> 0]
  /\ backoff = [j \in Jobs |-> FALSE]
  /\ intent = [j \in Jobs |-> FALSE]
  /\ applied = {}
  /\ card = [j \in Jobs |-> "none"]

----------------------------------------------------------------------------
(* What the agent writes.                                                  *)

SetStatus(j, s, r) ==
  /\ status' = [status EXCEPT ![j] = s]
  /\ reason' = [reason EXCEPT ![j] = r]

(* UpdateFunnelStatus, ...WithReason, ...WithScore, ...Invalid: none looks *)
(* at the status it replaces, and none of their reasons is read again.     *)
UpdateFunnelStatus(j, s) ==
  /\ SetStatus(j, s, "other")
  /\ UNCHANGED <<retries, backoff, intent, applied, card>>

UpdateFunnelStatusRetryable(j) ==
  LET exhausted == retries[j] + 1 >= MaxRetryAttempts
  IN /\ SetStatus(j, IF exhausted THEN "RETRY_EXHAUSTED" ELSE "DISCOVERED", "other")
     /\ retries' = [retries EXCEPT ![j] = @ + 1]
     /\ backoff' = [backoff EXCEPT ![j] = @ \/ ~exhausted]
     /\ UNCHANGED <<intent, applied, card>>

DeferFunnelStatus(j) ==
  /\ SetStatus(j, "DISCOVERED", "other")
  /\ backoff' = [backoff EXCEPT ![j] = TRUE]
  /\ UNCHANGED <<retries, intent, applied, card>>

(* Mutant: the reaper finds nothing.                                       *)
ReapNothing == UNCHANGED funnelVars

ReapStaleProcessingJobs ==
  /\ status' = [j \in Jobs |->
                  IF status[j] = "PROCESSING" THEN "DISCOVERED" ELSE status[j]]
  /\ UNCHANGED <<reason, retries, backoff, intent, applied, card>>

GetDiscoveredJobs == {j \in Jobs : status[j] = "DISCOVERED" /\ ~backoff[j]}

(* Mutant: no row is ever found.                                           *)
HasNeverApplied(j) == FALSE

HasApplied(j) == j \in applied

RecordApplicationInDB(j) ==
  /\ applied' = applied \union {j}
  /\ UNCHANGED <<status, reason, retries, backoff, intent, card>>

(* Nothing happens if the row has moved on or the policy now refuses it;   *)
(* an existing card, completed or not, is left alone.                      *)
EnsureAssistedPlanForURL(j, s) ==
  /\ card' = [card EXCEPT ![j] =
                IF status[j] = s /\ card[j] = "none" THEN s ELSE card[j]]
  /\ UNCHANGED <<status, reason, retries, backoff, intent, applied>>

PlanRefused == UNCHANGED funnelVars

----------------------------------------------------------------------------
(* What discovery, the maintenance sweep and the commands write.           *)

(* Mutant: the insert updates the row of a posting already known.          *)
AddToFunnelAgain(j) == UpdateFunnelStatus(j, "DISCOVERED")

AddToFunnel(j) ==
  /\ status[j] = "unknown"
  /\ \E s \in {"DISCOVERED", "SKIPPED"} : UpdateFunnelStatus(j, s)

SweepStaleDiscoveredJobs(j) ==
  /\ status[j] = "DISCOVERED"
  /\ UpdateFunnelStatus(j, "SKIPPED")

(* cmd/requeue for a set of postings: the status and, optionally, all of   *)
(* their dedup rows, whatever their status.                                *)
RequeueByURLPattern(pattern, from) ==
  LET rows == {j \in pattern : status[j] = from}
  IN /\ status' = [j \in Jobs |-> IF j \in rows THEN "DISCOVERED" ELSE status[j]]
     /\ retries' = [j \in Jobs |-> IF j \in rows THEN 0 ELSE retries[j]]
     /\ backoff' = [j \in Jobs |-> IF j \in rows THEN FALSE ELSE backoff[j]]
     /\ UNCHANGED <<reason, intent, applied, card>>

ClearApplicationRecords(pattern) ==
  /\ applied' = applied \ pattern
  /\ UNCHANGED <<status, reason, retries, backoff, intent, card>>

(* cmd/reconcile, for a ticked line of the checklist.                      *)
MarkHandoffApplied(j) ==
  /\ status[j] \in HandoffStatuses
  /\ status' = [status EXCEPT ![j] = "APPLIED"]
  /\ applied' = applied \union {j}
  /\ UNCHANGED <<reason, retries, backoff, intent, card>>

(* The e-mail tracker: the employer has answered.                          *)
ApplyOutcome(j) ==
  /\ status[j] \in HandoffStatuses \union {"APPLIED"}
  /\ UpdateFunnelStatus(j, "EMPLOYER_ANSWERED")

----------------------------------------------------------------------------
(* What the dashboard writes.  A row is PROCESSED_MANUAL only with the     *)
(* reason find_only_threshold_met, which promote.go asks for as well.      *)

PromoteJobToAssisted(j) ==
  /\ ~intent[j]
  /\ status[j] = "PROCESSED_MANUAL"
  /\ j \notin applied
  /\ SetStatus(j, "DISCOVERED", "promoted")
  /\ intent' = [intent EXCEPT ![j] = TRUE]
  /\ UNCHANGED <<retries, backoff, applied, card>>

SkipQualifiedJob(j) ==
  /\ status[j] = "PROCESSED_MANUAL"
  /\ SetStatus(j, "SKIPPED", "other")
  /\ intent' = [intent EXCEPT ![j] = FALSE]
  /\ UNCHANGED <<retries, backoff, applied, card>>

MarkJobAppliedManually(j) ==
  /\ status[j] = "PROCESSED_MANUAL"
  /\ j \notin applied
  /\ SetStatus(j, "APPLIED", "other")
  /\ intent' = [intent EXCEPT ![j] = FALSE]
  /\ applied' = applied \union {j}
  /\ UNCHANGED <<retries, backoff, card>>

CardOpen(j) == card[j] \in CardStatuses

ConfirmAssistedSubmission(j) ==
  /\ CardOpen(j)
  /\ status[j] = card[j]
  /\ SetStatus(j, "APPLIED", "other")
  /\ applied' = applied \union {j}
  /\ card' = [card EXCEPT ![j] = "completed"]
  /\ UNCHANGED <<retries, backoff, intent>>

(* Mutant: the posting is written off whatever has become of it.           *)
NotFoundAnyway(j) ==
  /\ CardOpen(j)
  /\ SetStatus(j, "INVALID_URL", "other")
  /\ card' = [card EXCEPT ![j] = "completed"]
  /\ UNCHANGED <<retries, backoff, intent, applied>>

MarkAssistedNotFound(j) ==
  /\ CardOpen(j)
  /\ IF status[j] = "APPLIED"
       THEN UNCHANGED <<status, reason>>
       ELSE SetStatus(j, "INVALID_URL", "other")
  /\ card' = [card EXCEPT ![j] = "completed"]
  /\ UNCHANGED <<retries, backoff, intent, applied>>

(* ReconcileAssistedQueueEligibility: what its SELECT finds, and the two   *)
(* statements of removeRow, which look at neither status nor card.         *)
InQueue(j) == CardOpen(j) /\ status[j] \in CardStatuses

RemoveRow(j) == UpdateFunnelStatus(j, "SKIPPED")

DeleteCard(j) ==
  /\ card' = [card EXCEPT ![j] = "none"]
  /\ UNCHANGED <<status, reason, retries, backoff, intent, applied>>

MigrateLegacyAssisted(j) ==
  /\ status[j] \in CardStatuses
  /\ j \notin applied
  /\ card[j] = "none"
  /\ card' = [card EXCEPT ![j] = status[j]]
  /\ UNCHANGED <<status, reason, retries, backoff, intent, applied>>

BackoffElapses(j) ==
  /\ backoff[j]
  /\ backoff' = [backoff EXCEPT ![j] = FALSE]
  /\ UNCHANGED <<status, reason, retries, intent, applied, card>>
============================================================================
