---------------------------- MODULE AgentProofs -----------------------------
(***************************************************************************)
(* The safety properties of AgentPipeline, for any number of postings,     *)
(* workers and attempts, any requeue statuses and any mode; and that       *)
(* AgentNetwork implements it, inherits what is proved of it, loses no     *)
(* documents and spaces its probes, for any threshold, cooldown and        *)
(* request time, and whatever generating the documents may come to.        *)
(***************************************************************************)
EXTENDS AgentNetwork, TLAPS

USE DEF commandVars, documentVars

(* What a row and its worker know of each other.                           *)

(* A spent retry budget is seen only on rows no worker holds, and stays    *)
(* until cmd/requeue resets it.                                            *)
BudgetLeft(j) ==
  retries[j] = MaxRetryAttempts =>
    at[j] = "none" /\ status[j] \in {"RETRY_EXHAUSTED", "INVALID_URL", "SKIPPED"}

(* A held row is as its worker left it, or was written off, or was removed *)
(* by a reconciliation.                                                    *)
RowClaimed(j) ==
  /\ at[j] = "queued" => status[j] \in {"DISCOVERED", "INVALID_URL", "SKIPPED"}
  /\ at[j] \in Working => status[j] \in {"PROCESSING", "INVALID_URL", "SKIPPED"}

(* Past the duplicate check there is no dedup row, unless it was not made, *)
(* and after the click the posting is among those an application was sent  *)
(* for.                                                                    *)
CheckedForDuplicate(j) ==
  at[j] \in {"scoring", "tailoring", "submission"} => j \notin applied \/ j \in unchecked

SentFirst(j) == at[j] \in {"submitted", "recording"} => j \in sent

RowInv(j) ==
  /\ BudgetLeft(j) /\ RowClaimed(j) /\ CheckedForDuplicate(j) /\ SentFirst(j)

(* A process that is down works on nothing: the reaper is right to take    *)
(* every PROCESSING row for one of a dead run.                             *)
DownIsEmpty == agent = "down" => \A j \in Jobs : at[j] = "none"

IInv ==
  /\ PipelineTypeOK
  /\ DownIsEmpty
  /\ DedupIsEarned
  /\ \A j \in Jobs : RowInv(j)

(* A node settles a posting only with a status no worker holds a row in,   *)
(* and only in the nodes of the pipeline.                                  *)
LEMMA VerdictsSettle ==
  ASSUME NEW n \in DOMAIN Verdicts
  PROVE  /\ n \in Working \union {"queued"}
         /\ Verdicts[n] \subseteq Statuses \ {"PROCESSING", "DISCOVERED"}
BY DEF Verdicts, Working, Statuses, CardStatuses

(* A node hands off only to statuses the operator's queue shows.           *)
LEMMA HandedOffToCards ==
  ASSUME NEW n \in DOMAIN HandedOff
  PROVE  n \in {"submission", "submitted"} /\ HandedOff[n] \subseteq CardStatuses
BY DEF HandedOff, CardStatuses

(* The empty tables and the agent that was never started satisfy it.       *)
LEMMA InitInv == Init => IInv
BY RetryAssumption, SMT DEF Init, FunnelInit, IInv, PipelineTypeOK, FunnelTypeOK, Statuses,
   CardStatuses, Places, Working, DownIsEmpty, DedupIsEarned, RowInv, BudgetLeft,
   RowClaimed, CheckedForDuplicate, SentFirst

----------------------------------------------------------------------------
(* A step about one posting: the rest of every table stays as it is.       *)
OthersKept(j) ==
  /\ \A k \in Jobs \ {j} :
       status'[k] = status[k] /\ retries'[k] = retries[k] /\ at'[k] = at[k]
  /\ applied' \ {j} = applied \ {j}
  /\ sent \subseteq sent' /\ unchecked \ {j} \subseteq unchecked'
  /\ agent' = "down" => agent = "down" /\ at'[j] = "none"

(* If only the row of one posting, its worker and its dedup row change,    *)
(* the invariant is kept for all once it holds for that posting.           *)
LEMMA OneRow ==
  ASSUME NEW j \in Jobs, IInv, PipelineTypeOK', OthersKept(j), RowInv(j)',
         j \in applied' => j \in sent'
  PROVE  IInv'
<1>1. ASSUME NEW k \in Jobs \ {j} PROVE RowInv(k)'
  BY <1>1 DEF IInv, OthersKept, RowInv, BudgetLeft, RowClaimed, CheckedForDuplicate,
     SentFirst
<1>2. DownIsEmpty'
  BY DEF IInv, DownIsEmpty, OthersKept
<1>3. DedupIsEarned'
  BY DEF IInv, DedupIsEarned, OthersKept
<1>. QED BY <1>1, <1>2, <1>3 DEF IInv

(* A worker settles, hands off or returns a posting, and leaves it or goes *)
(* on to a place where nothing is claimed of the row.                      *)
LEMMA LeaveKeepsInv ==
  ASSUME NEW j \in Jobs, IInv, at[j] # "none", PipelineTypeOK',
         NEW to \in {"none"} \union CardStatuses, Go(j, to), OthersKept(j),
         BudgetLeft(j)', applied' = applied
  PROVE  IInv'
<1>1. at'[j] = to /\ sent' = sent
  BY DEF Go, IInv, PipelineTypeOK
<1>2. RowInv(j)'
  BY <1>1 DEF RowInv, RowClaimed, CheckedForDuplicate, SentFirst, Working, CardStatuses
<1>3. j \in applied' => j \in sent'
  BY <1>1 DEF IInv, DedupIsEarned
<1>. QED BY <1>2, <1>3, OneRow

(* Settle: a node that writes a verdict leaves the posting.                *)
LEMMA SettleInv == ASSUME NEW j \in Jobs, IInv, Settle(j) PROVE IInv'
<1>1. PICK s \in Verdicts[at[j]] : UpdateFunnelStatus(j, s)
  BY DEF Settle
<1>2. s \in Statuses /\ at[j] \in Working \union {"queued"} /\ Go(j, "none")
  BY <1>1, VerdictsSettle DEF Settle, Leave
<1>3. at[j] # "none" /\ agent # "down"
  BY <1>2 DEF IInv, DownIsEmpty, Working
<1>4. PipelineTypeOK'
  BY <1>1, <1>2 DEF IInv, PipelineTypeOK, FunnelTypeOK, UpdateFunnelStatus, SetStatus, Go, Places
<1>5. OthersKept(j) /\ BudgetLeft(j)' /\ applied' = applied
  BY <1>1, <1>2, <1>3 DEF IInv, PipelineTypeOK, FunnelTypeOK, UpdateFunnelStatus, SetStatus,
     Go, OthersKept, RowInv, BudgetLeft
<1>. QED BY <1>2, <1>3, <1>4, <1>5, LeaveKeepsInv

(* A counted failure: the budget is not spent before, since a worker holds *)
(* the row, so the count stays within it.                                  *)
LEMMA TransientFailureInv ==
  ASSUME NEW j \in Jobs, IInv, TransientFailure(j) PROVE IInv'
<1>1. at[j] # "none" /\ agent # "down" /\ Go(j, "none")
  BY DEF TransientFailure, Leave, IInv, DownIsEmpty
<1>2. retries[j] \in 0..(MaxRetryAttempts - 1)
  BY <1>1, RetryAssumption DEF IInv, PipelineTypeOK, FunnelTypeOK, RowInv, BudgetLeft
<1>3. PipelineTypeOK' /\ BudgetLeft(j)'
  BY <1>1, <1>2, RetryAssumption DEF TransientFailure, UpdateFunnelStatusRetryable, SetStatus, Go,
     IInv, PipelineTypeOK, FunnelTypeOK, Statuses, Places, BudgetLeft
<1>4. OthersKept(j) /\ applied' = applied
  BY <1>1 DEF TransientFailure, UpdateFunnelStatusRetryable, SetStatus, Go, IInv,
     PipelineTypeOK, FunnelTypeOK, OthersKept
<1>. QED BY <1>1, <1>3, <1>4, LeaveKeepsInv

(* A deferral puts the row back among the discovered, uncounted.           *)
LEMMA CircuitOpenInv == ASSUME NEW j \in Jobs, IInv, CircuitOpen(j) PROVE IInv'
<1>1. at[j] # "none" /\ agent # "down" /\ Go(j, "none")
  BY DEF CircuitOpen, Leave, IInv, DownIsEmpty
<1>2. PipelineTypeOK' /\ BudgetLeft(j)'
  BY <1>1 DEF CircuitOpen, DeferFunnelStatus, SetStatus, Go, IInv, PipelineTypeOK,
     FunnelTypeOK, Statuses, Places, RowInv, BudgetLeft
<1>3. OthersKept(j) /\ applied' = applied
  BY <1>1 DEF CircuitOpen, DeferFunnelStatus, SetStatus, Go, IInv, PipelineTypeOK,
     FunnelTypeOK, OthersKept
<1>. QED BY <1>1, <1>2, <1>3, LeaveKeepsInv

(* A hand-off writes a card status and no dedup row.                       *)
LEMMA HandOffInv == ASSUME NEW j \in Jobs, IInv, HandOff(j) PROVE IInv'
<1>1. PICK s \in HandedOff[at[j]] : UpdateFunnelStatus(j, s) /\ Go(j, s)
  BY DEF HandOff
<1>2. s \in CardStatuses /\ at[j] \in {"submission", "submitted"}
  BY <1>1, HandedOffToCards DEF HandOff
<1>3. agent # "down"
  BY <1>2 DEF IInv, DownIsEmpty
<1>4. PipelineTypeOK'
  BY <1>1, <1>2 DEF IInv, PipelineTypeOK, FunnelTypeOK, UpdateFunnelStatus, SetStatus, Go,
     Places, Statuses
<1>5. OthersKept(j) /\ BudgetLeft(j)' /\ applied' = applied
  BY <1>1, <1>2, <1>3 DEF IInv, PipelineTypeOK, FunnelTypeOK, UpdateFunnelStatus, SetStatus,
     Go, OthersKept, RowInv, BudgetLeft
<1>. QED BY <1>1, <1>2, <1>4, <1>5, LeaveKeepsInv

(* A worker goes on in the pipeline: the row is left PROCESSING, or made   *)
(* so, and what the next place claims of dedup rows and clicks holds.      *)
LEMMA AdvanceKeepsInv ==
  ASSUME NEW j \in Jobs, IInv, at[j] \in Working \union {"queued"},
         NEW to \in Working, at' = [at EXCEPT ![j] = to], agent' = agent,
         sent \subseteq sent', sent' \subseteq Jobs, promoted' = promoted,
         unchecked \ {j} \subseteq unchecked', unchecked' \subseteq Jobs,
         UNCHANGED commandVars,
         \/ UNCHANGED funnelVars /\ at[j] # "queued"
         \/ UpdateFunnelStatus(j, "PROCESSING"),
         to \in {"scoring", "tailoring", "submission"} =>
           j \notin applied \/ j \in unchecked',
         to = "submitted" => j \in sent'
  PROVE  IInv'
<1>1. agent # "down" /\ retries[j] # MaxRetryAttempts /\ at[j] # "none"
  BY DEF IInv, DownIsEmpty, RowInv, BudgetLeft, Working
<1>2. PipelineTypeOK'
  BY DEF IInv, PipelineTypeOK, FunnelTypeOK, UpdateFunnelStatus, SetStatus, funnelVars,
     Places, Statuses
<1>3. applied' = applied /\ retries' = retries /\ at'[j] = to
  BY DEF IInv, PipelineTypeOK, UpdateFunnelStatus, funnelVars
<1>4. OthersKept(j)
  BY <1>1, <1>3 DEF IInv, PipelineTypeOK, FunnelTypeOK, UpdateFunnelStatus, SetStatus,
     funnelVars, OthersKept
<1>5. RowInv(j)'
  BY <1>1, <1>3 DEF IInv, PipelineTypeOK, FunnelTypeOK, RowInv, BudgetLeft, RowClaimed,
     CheckedForDuplicate, SentFirst, UpdateFunnelStatus, SetStatus, funnelVars, Working
<1>6. j \in applied' => j \in sent'
  BY <1>3 DEF IInv, DedupIsEarned
<1>. QED BY <1>2, <1>4, <1>5, <1>6, OneRow

(* Between two nodes of a stopping agent the posting is dropped with its   *)
(* row unchanged.                                                          *)
LEMMA DropKeepsInv ==
  ASSUME NEW j \in Jobs, IInv, at[j] \in Working, Leave(j),
         UNCHANGED funnelVars \/ UpdateFunnelStatus(j, "PROCESSING")
  PROVE  IInv'
<1>1. agent # "down" /\ at[j] # "none" /\ Go(j, "none")
  BY DEF IInv, DownIsEmpty, Working, Leave
<1>2. PipelineTypeOK' /\ BudgetLeft(j)'
  BY <1>1 DEF IInv, PipelineTypeOK, FunnelTypeOK, UpdateFunnelStatus, SetStatus,
     funnelVars, Go, Places, Statuses, RowInv, BudgetLeft
<1>3. OthersKept(j) /\ applied' = applied
  BY <1>1 DEF IInv, PipelineTypeOK, FunnelTypeOK, UpdateFunnelStatus, SetStatus,
     funnelVars, Go, OthersKept
<1>. QED BY <1>1, <1>2, <1>3, LeaveKeepsInv

(* Going to the next node, or dropping the posting if the agent is         *)
(* stopping.                                                               *)
LEMMA EnterNodeInv ==
  ASSUME NEW j \in Jobs, IInv, at[j] \in Working,
         NEW node \in {"discovery", "scoring", "tailoring", "submission"},
         EnterNode(j, node),
         UNCHANGED funnelVars \/ UpdateFunnelStatus(j, "PROCESSING"),
         node \in {"scoring", "tailoring", "submission"} =>
           j \notin applied \/ j \in unchecked
  PROVE  IInv'
<1>1. CASE agent = "up"
  <2>1. Go(j, node) /\ node \in Working /\ at[j] # "queued"
    BY <1>1 DEF EnterNode, Working
  <2>2. /\ at' = [at EXCEPT ![j] = node] /\ sent' = sent /\ sent \subseteq Jobs
        /\ unchecked' = unchecked /\ unchecked \subseteq Jobs
        /\ agent' = agent /\ promoted' = promoted /\ UNCHANGED commandVars
    BY <2>1 DEF Go, IInv, PipelineTypeOK
  <2>. QED BY <2>1, <2>2, AdvanceKeepsInv
<1>2. CASE agent # "up"
  BY <1>2, DropKeepsInv DEF EnterNode
<1>. QED BY <1>1, <1>2

(* The claim makes the row PROCESSING.                                     *)
LEMMA ClaimInv == ASSUME NEW j \in Jobs, IInv, Claim(j) PROVE IInv'
<1>1. /\ at[j] \in Working \union {"queued"} /\ "claimed" \in Working
      /\ at' = [at EXCEPT ![j] = "claimed"] /\ sent' = sent /\ sent \subseteq Jobs
      /\ unchecked' = unchecked /\ unchecked \subseteq Jobs
      /\ agent' = agent /\ promoted' = promoted /\ UNCHANGED commandVars
      /\ UpdateFunnelStatus(j, "PROCESSING")
  BY DEF Claim, Go, Working, IInv, PipelineTypeOK
<1>. QED BY <1>1, AdvanceKeepsInv

(* The preflight check claims nothing new.                                 *)
LEMMA PreflightPassesInv == ASSUME NEW j \in Jobs, IInv, PreflightPasses(j) PROVE IInv'
BY EnterNodeInv DEF PreflightPasses, Working

(* Nor does the page that was fetched.                                     *)
LEMMA PageFetchedInv == ASSUME NEW j \in Jobs, IInv, PageFetched(j) PROVE IInv'
<1>1. /\ at[j] \in Working /\ at[j] # "queued" /\ "fetched" \in Working
      /\ at' = [at EXCEPT ![j] = "fetched"] /\ sent' = sent /\ sent \subseteq Jobs
      /\ unchecked' = unchecked /\ unchecked \subseteq Jobs
      /\ agent' = agent /\ promoted' = promoted /\ UNCHANGED commandVars
      /\ UNCHANGED funnelVars
  BY DEF PageFetched, Go, Working, IInv, PipelineTypeOK
<1>. QED BY <1>1, AdvanceKeepsInv

(* A posting with a dedup row is settled as APPLIED before it is scored.   *)
LEMMA AlreadyAppliedInv == ASSUME NEW j \in Jobs, IInv, AlreadyApplied(j) PROVE IInv'
<1>1. at[j] # "none" /\ agent # "down" /\ Go(j, "none")
  BY DEF AlreadyApplied, Leave, IInv, DownIsEmpty
<1>2. PipelineTypeOK' /\ BudgetLeft(j)'
  BY <1>1 DEF AlreadyApplied, UpdateFunnelStatus, SetStatus, Go, IInv, PipelineTypeOK,
     FunnelTypeOK, Statuses, Places, RowInv, BudgetLeft
<1>3. OthersKept(j) /\ applied' = applied
  BY <1>1 DEF AlreadyApplied, UpdateFunnelStatus, SetStatus, Go, IInv, PipelineTypeOK,
     FunnelTypeOK, OthersKept
<1>. QED BY <1>1, <1>2, <1>3, LeaveKeepsInv

(* The duplicate check is what CheckedForDuplicate records.                *)
LEMMA EligibleInv == ASSUME NEW j \in Jobs, IInv, Eligible(j) PROVE IInv'
<1>1. /\ at[j] = "fetched" /\ agent' = agent /\ agent # "down" /\ sent' = sent
      /\ promoted' = promoted /\ UNCHANGED funnelVars /\ UNCHANGED commandVars
      /\ unchecked \ {j} \subseteq unchecked' /\ unchecked' \subseteq Jobs
      /\ j \notin applied \/ j \in unchecked'
  BY DEF Eligible, HasApplied, IInv, PipelineTypeOK, DownIsEmpty
<1>2. CASE agent = "up"
  <2>1. /\ at' = [at EXCEPT ![j] = "scoring"] /\ at[j] \in Working /\ at[j] # "queued"
        /\ "scoring" \in Working /\ sent' \subseteq Jobs
    BY <1>1, <1>2 DEF Eligible, Working, IInv, PipelineTypeOK
  <2>. QED BY <1>1, <2>1, AdvanceKeepsInv
<1>3. CASE agent # "up"
  <2>1. at' = [at EXCEPT ![j] = "none"]
    BY <1>3 DEF Eligible
  <2>2. PipelineTypeOK'
    BY <1>1, <2>1 DEF IInv, PipelineTypeOK, FunnelTypeOK, funnelVars, Places
  <2>3. OthersKept(j) /\ at'[j] = "none"
    BY <1>1, <2>1 DEF OthersKept, IInv, PipelineTypeOK, funnelVars
  <2>4. RowInv(j)' /\ (j \in applied' => j \in sent')
    BY <1>1, <2>3 DEF IInv, RowInv, BudgetLeft, RowClaimed, CheckedForDuplicate, SentFirst,
       Working, DedupIsEarned, funnelVars
  <2>. QED BY <2>2, <2>3, <2>4, OneRow
<1>. QED BY <1>2, <1>3

(* The score keeps the claim or hands the posting to the operator.         *)
LEMMA ScorePassesInv == ASSUME NEW j \in Jobs, IInv, ScorePasses(j) PROVE IInv'
<1>1. /\ at[j] = "scoring" /\ at[j] \in Working
      /\ j \notin applied \/ j \in unchecked
  BY DEF ScorePasses, Working, IInv, RowInv, CheckedForDuplicate
<1>2. CASE UpdateFunnelStatus(j, "PROCESSING") /\ EnterNode(j, "tailoring")
  BY <1>1, <1>2, EnterNodeInv
<1>3. CASE UpdateFunnelStatus(j, "PROCESSED_MANUAL") /\ Leave(j)
  <2>1. at[j] # "none" /\ agent # "down" /\ Go(j, "none")
    BY <1>1, <1>3 DEF Leave, IInv, DownIsEmpty
  <2>2. PipelineTypeOK' /\ BudgetLeft(j)'
    BY <1>3, <2>1 DEF UpdateFunnelStatus, SetStatus, Go, IInv, PipelineTypeOK,
       FunnelTypeOK, Statuses, Places, RowInv, BudgetLeft
  <2>3. OthersKept(j) /\ applied' = applied
    BY <1>3, <2>1 DEF UpdateFunnelStatus, SetStatus, Go, IInv, PipelineTypeOK,
       FunnelTypeOK, OthersKept
  <2>. QED BY <2>1, <2>2, <2>3, LeaveKeepsInv
<1>. QED BY <1>2, <1>3 DEF ScorePasses

(* The freshness check before the form changes nothing.                    *)
LEMMA StillFreshInv == ASSUME NEW j \in Jobs, IInv, StillFresh(j) PROVE IInv'
<1>1. j \notin applied \/ j \in unchecked
  BY DEF StillFresh, IInv, RowInv, CheckedForDuplicate
<1>. QED BY <1>1, EnterNodeInv DEF StillFresh, Working

(* The click makes the posting one an application was sent for.            *)
LEMMA ClickSubmitInv == ASSUME NEW j \in Jobs, IInv, ClickSubmit(j) PROVE IInv'
<1>1. /\ at[j] \in Working /\ at[j] # "queued" /\ "submitted" \in Working
      /\ at' = [at EXCEPT ![j] = "submitted"] /\ agent' = agent
      /\ promoted' = promoted /\ UNCHANGED commandVars /\ UNCHANGED funnelVars
      /\ sent' = sent \union {j} /\ sent' \subseteq Jobs
      /\ unchecked' = unchecked /\ unchecked \subseteq Jobs
  BY DEF ClickSubmit, Working, IInv, PipelineTypeOK
<1>. QED BY <1>1, AdvanceKeepsInv

(* The spent quota drops the posting and stops the agent, which is not     *)
(* down.                                                                   *)
LEMMA QuotaExceededInv == ASSUME NEW j \in Jobs, IInv, QuotaExceeded(j) PROVE IInv'
<1>1. /\ at[j] \in Working /\ agent # "down" /\ agent' # "down" /\ sent' = sent
      /\ at' = [at EXCEPT ![j] = "none"] /\ unchecked' = unchecked
      /\ UNCHANGED funnelVars \/ UpdateFunnelStatus(j, "FAILED_SUBMIT")
  BY DEF QuotaExceeded, Working, IInv, DownIsEmpty
<1>2. PipelineTypeOK'
  BY <1>1 DEF QuotaExceeded, UpdateFunnelStatus, SetStatus, funnelVars, IInv,
     PipelineTypeOK, FunnelTypeOK, Statuses, Places
<1>3. OthersKept(j) /\ at'[j] = "none" /\ applied' = applied /\ retries' = retries
  BY <1>1 DEF UpdateFunnelStatus, SetStatus, funnelVars, IInv, PipelineTypeOK,
     FunnelTypeOK, OthersKept
<1>4. RowInv(j)' /\ (j \in applied' => j \in sent')
  BY <1>1, <1>3 DEF IInv, RowInv, BudgetLeft, RowClaimed, CheckedForDuplicate, SentFirst,
     Working, DedupIsEarned
<1>. QED BY <1>2, <1>3, <1>4, OneRow

(* The APPLIED row of a posting whose dedup row is still to come.          *)
LEMMA SubmittedInv == ASSUME NEW j \in Jobs, IInv, Submitted(j) PROVE IInv'
<1>1. /\ at[j] = "submitted" /\ agent # "down" /\ agent' = agent /\ sent' = sent
      /\ UpdateFunnelStatus(j, "APPLIED") /\ Go(j, "recording")
  BY DEF Submitted, Go, IInv, DownIsEmpty
<1>2. PipelineTypeOK'
  BY <1>1 DEF UpdateFunnelStatus, SetStatus, Go, IInv, PipelineTypeOK, FunnelTypeOK,
     Statuses, Places
<1>3. OthersKept(j) /\ at'[j] = "recording" /\ applied' = applied /\ retries' = retries
  BY <1>1 DEF UpdateFunnelStatus, SetStatus, Go, IInv, PipelineTypeOK, FunnelTypeOK,
     OthersKept
<1>4. RowInv(j)' /\ (j \in applied' => j \in sent')
  BY <1>1, <1>3 DEF IInv, RowInv, BudgetLeft, RowClaimed, CheckedForDuplicate, SentFirst,
     Working, DedupIsEarned
<1>. QED BY <1>2, <1>3, <1>4, OneRow

(* The dedup row is written for a posting that was submitted.              *)
LEMMA RecordApplicationInv ==
  ASSUME NEW j \in Jobs, IInv, RecordApplication(j) PROVE IInv'
<1>1. /\ at[j] = "recording" /\ agent # "down" /\ agent' = agent /\ sent' = sent
      /\ RecordApplicationInDB(j) /\ Go(j, "none") /\ j \in sent
  BY DEF RecordApplication, Leave, Go, IInv, DownIsEmpty, RowInv, SentFirst
<1>2. PipelineTypeOK'
  BY <1>1 DEF RecordApplicationInDB, Go, IInv, PipelineTypeOK, FunnelTypeOK, Places
<1>3. OthersKept(j) /\ at'[j] = "none" /\ retries' = retries
  BY <1>1 DEF RecordApplicationInDB, Go, IInv, PipelineTypeOK, FunnelTypeOK, OthersKept
<1>4. RowInv(j)' /\ (j \in applied' => j \in sent')
  BY <1>1, <1>3 DEF IInv, RowInv, BudgetLeft, RowClaimed, CheckedForDuplicate, SentFirst,
     Working
<1>. QED BY <1>2, <1>3, <1>4, OneRow

(* The card is the last statement of a hand-off.                           *)
LEMMA MakePlanInv == ASSUME NEW j \in Jobs, IInv, MakePlan(j) PROVE IInv'
<1>1. at[j] \in CardStatuses /\ at[j] # "none" /\ agent # "down" /\ Go(j, "none")
  BY DEF MakePlan, Leave, IInv, DownIsEmpty, CardStatuses
<1>2. /\ status' = status /\ reason' = reason /\ retries' = retries
      /\ backoff' = backoff /\ intent' = intent /\ applied' = applied
  BY DEF MakePlan, EnsureAssistedPlanForURL, PlanRefused, funnelVars
<1>3. card' \in [Jobs -> CardStatuses \union {"none", "completed"}]
  BY <1>1 DEF MakePlan, EnsureAssistedPlanForURL, PlanRefused, funnelVars, IInv,
     PipelineTypeOK, FunnelTypeOK
<1>4. PipelineTypeOK' /\ BudgetLeft(j)' /\ OthersKept(j)
  BY <1>1, <1>2, <1>3 DEF Go, IInv, PipelineTypeOK, FunnelTypeOK, Places, RowInv,
     BudgetLeft, OthersKept
<1>. QED BY <1>1, <1>2, <1>4, LeaveKeepsInv

(* Every step of a worker keeps the invariant.                             *)
LEMMA WorkerStepInv == ASSUME NEW j \in Jobs, IInv, WorkerStep(j) PROVE IInv'
BY SettleInv, TransientFailureInv, CircuitOpenInv, ClaimInv, PreflightPassesInv,
   PageFetchedInv, AlreadyAppliedInv, EligibleInv, ScorePassesInv, StillFreshInv,
   QuotaExceededInv, ClickSubmitInv, SubmittedInv, RecordApplicationInv, HandOffInv,
   MakePlanInv DEF WorkerStep

----------------------------------------------------------------------------
(* The others change only rows no worker holds, but for a write-off and    *)
(* for the removal by a reconciliation.                                    *)

(* A change by somebody else: it writes off or removes the posting, or     *)
(* keeps its status, or finds a status no worker's row has.                *)
LEMMA OutsideKeepsInv ==
  ASSUME NEW j \in Jobs, IInv, PipelineTypeOK', at' = at, agent' = agent,
         retries' = retries, sent \subseteq sent', unchecked' = unchecked,
         \A k \in Jobs \ {j} : status'[k] = status[k],
         \/ status'[j] \in {"INVALID_URL", "SKIPPED"}
         \/ status'[j] = status[j]
         \/ status[j] \in Statuses \ {"DISCOVERED", "PROCESSING", "INVALID_URL",
                                      "SKIPPED", "RETRY_EXHAUSTED"}
         \/ status[j] = "DISCOVERED" /\ at[j] = "none",
         \/ applied' = applied
         \/ /\ status[j] \in CardStatuses \union {"PROCESSED_MANUAL"}
            /\ applied' = applied \union {j} /\ j \in sent'
  PROVE  IInv'
<1>1. OthersKept(j)
  BY DEF OthersKept, IInv, DownIsEmpty
<1>2. RowInv(j)'
  BY DEF IInv, RowInv, BudgetLeft, RowClaimed, CheckedForDuplicate, SentFirst, Working,
     CardStatuses, Statuses
<1>3. j \in applied' => j \in sent'
  BY DEF IInv, DedupIsEarned
<1>. QED BY <1>1, <1>2, <1>3, OneRow

(* The sweep runs between two batches, when no row is held.                *)
LEMMA SweepStaleInv == ASSUME NEW j \in Jobs, IInv, SweepStale(j) PROVE IInv'
<1>1. PipelineTypeOK'
  BY DEF SweepStale, SweepStaleDiscoveredJobs, UpdateFunnelStatus, SetStatus, agentVars,
     IInv, PipelineTypeOK, FunnelTypeOK, Statuses
<1>2. /\ at' = at /\ agent' = agent /\ retries' = retries /\ sent' = sent
      /\ unchecked' = unchecked
      /\ applied' = applied /\ status[j] = "DISCOVERED" /\ at[j] = "none"
      /\ \A k \in Jobs \ {j} : status'[k] = status[k]
  BY DEF SweepStale, SweepStaleDiscoveredJobs, UpdateFunnelStatus, SetStatus, agentVars,
     IInv, PipelineTypeOK, FunnelTypeOK
<1>. QED BY <1>1, <1>2, OutsideKeepsInv

(* The operator's applications start from statuses no worker's row has,    *)
(* and count as sent.                                                      *)
LEMMA OperatorAppliesInv ==
  ASSUME NEW j \in Jobs, IInv, OperatorApplies(j) PROVE IInv'
<1>1. PipelineTypeOK'
  BY DEF OperatorApplies, MarkHandoffApplied, MarkJobAppliedManually,
     ConfirmAssistedSubmission, SetStatus, IInv, PipelineTypeOK, FunnelTypeOK, Statuses
<1>2. /\ at' = at /\ agent' = agent /\ retries' = retries /\ sent' = sent \union {j}
      /\ unchecked' = unchecked
      /\ applied' = applied \union {j}
      /\ status[j] \in CardStatuses \union {"PROCESSED_MANUAL"}
      /\ \A k \in Jobs \ {j} : status'[k] = status[k]
  BY DEF OperatorApplies, MarkHandoffApplied, MarkJobAppliedManually, HandoffStatuses,
     ConfirmAssistedSubmission, CardOpen, SetStatus, IInv, PipelineTypeOK, FunnelTypeOK
<1>3. status[j] \in Statuses \ {"DISCOVERED", "PROCESSING", "INVALID_URL", "SKIPPED",
                               "RETRY_EXHAUSTED"}
  BY <1>2 DEF CardStatuses, Statuses
<1>. QED BY <1>1, <1>2, <1>3, OutsideKeepsInv

(* Discovery, the e-mail tracker and the dashboard: only the write-off     *)
(* looks at no status, and it is one a worker's row may have.              *)
LEMMA FunnelChangesInv ==
  ASSUME NEW j \in Jobs, IInv, FunnelChanges(j) PROVE IInv'
<1>1. /\ at' = at /\ agent' = agent /\ sent' = sent /\ promoted' = promoted
      /\ UNCHANGED commandVars /\ unchecked' = unchecked
  BY DEF FunnelChanges, agentVars
<1>2. CASE AddToFunnel(j) \/ ApplyOutcome(j) \/ SkipQualifiedJob(j)
           \/ PromoteJobToAssisted(j)
  <2>1. PipelineTypeOK'
    <3>1. CASE AddToFunnel(j) \/ ApplyOutcome(j)
      BY <1>1, <3>1 DEF AddToFunnel, ApplyOutcome, UpdateFunnelStatus, SetStatus, IInv,
         PipelineTypeOK, FunnelTypeOK, Statuses
    <3>2. CASE SkipQualifiedJob(j) \/ PromoteJobToAssisted(j)
      BY <1>1, <3>2 DEF SkipQualifiedJob, PromoteJobToAssisted, SetStatus, IInv,
         PipelineTypeOK, FunnelTypeOK, Statuses
    <3>. QED BY <1>2, <3>1, <3>2
  <2>2. /\ retries' = retries /\ applied' = applied
        /\ \A k \in Jobs \ {j} : status'[k] = status[k]
        /\ status[j] \in CardStatuses \union {"unknown", "APPLIED", "PROCESSED_MANUAL"}
    BY <1>2 DEF AddToFunnel, ApplyOutcome, SkipQualifiedJob, UpdateFunnelStatus,
       PromoteJobToAssisted, SetStatus, IInv, PipelineTypeOK, FunnelTypeOK,
       HandoffStatuses
  <2>3. status[j] \in Statuses \ {"DISCOVERED", "PROCESSING", "INVALID_URL", "SKIPPED",
                                 "RETRY_EXHAUSTED"}
    BY <2>2 DEF CardStatuses, Statuses
  <2>. QED BY <1>1, <2>1, <2>2, <2>3, OutsideKeepsInv
<1>3. CASE MarkAssistedNotFound(j) \/ BackoffElapses(j) \/ MigrateLegacyAssisted(j)
  <2>1. PipelineTypeOK'
    BY <1>1, <1>3 DEF MarkAssistedNotFound, BackoffElapses, MigrateLegacyAssisted,
       SetStatus, IInv, PipelineTypeOK, FunnelTypeOK, Statuses
  <2>2. /\ retries' = retries /\ applied' = applied
        /\ status'[j] = status[j] \/ status'[j] = "INVALID_URL"
        /\ \A k \in Jobs \ {j} : status'[k] = status[k]
    BY <1>3 DEF MarkAssistedNotFound, BackoffElapses, MigrateLegacyAssisted, SetStatus,
       IInv, PipelineTypeOK, FunnelTypeOK
  <2>. QED BY <1>1, <2>1, <2>2, OutsideKeepsInv
<1>. QED BY <1>2, <1>3 DEF FunnelChanges

(* A reconciliation writes no status but SKIPPED.                          *)
LEMMA ReconcilesInv ==
  ASSUME NEW j \in Jobs, IInv, Reconciles(j) PROVE IInv'
<1>1. /\ at' = at /\ agent' = agent /\ sent' = sent /\ promoted' = promoted
      /\ clearing' = clearing /\ unchecked' = unchecked
  BY DEF Reconciles
<1>2. selected' \subseteq Jobs /\ removed' \subseteq Jobs
  BY DEF Reconciles, ReconcileReads, ReconcileRemoves, ReconcileDeletes, ReconcileEnds,
     IInv, PipelineTypeOK
<1>3. FunnelTypeOK'
  BY DEF Reconciles, ReconcileReads, ReconcileRemoves, ReconcileDeletes, ReconcileEnds,
     RemoveRow, DeleteCard, UpdateFunnelStatus, SetStatus, funnelVars, IInv,
     PipelineTypeOK, FunnelTypeOK, Statuses
<1>4. /\ retries' = retries /\ applied' = applied
      /\ status'[j] = status[j] \/ status'[j] = "SKIPPED"
      /\ \A k \in Jobs \ {j} : status'[k] = status[k]
  BY DEF Reconciles, ReconcileReads, ReconcileRemoves, ReconcileDeletes, ReconcileEnds,
     RemoveRow, DeleteCard, UpdateFunnelStatus, SetStatus, funnelVars, IInv,
     PipelineTypeOK, FunnelTypeOK
<1>5. PipelineTypeOK'
  BY <1>1, <1>2, <1>3 DEF IInv, PipelineTypeOK
<1>. QED BY <1>1, <1>4, <1>5, OutsideKeepsInv

----------------------------------------------------------------------------
(* The process and the commands, which touch every posting at once.        *)

(* The reaper runs while no worker exists.                                 *)
LEMMA StartInv == ASSUME IInv, Start PROVE IInv'
<1>1. /\ \A j \in Jobs : at[j] = "none"
      /\ at' = at /\ agent' = "up" /\ sent' = sent /\ applied' = applied
      /\ retries' = retries /\ unchecked' = unchecked
  BY DEF Start, ReapStaleProcessingJobs, IInv, DownIsEmpty
<1>2. PipelineTypeOK'
  BY DEF Start, ReapStaleProcessingJobs, IInv, PipelineTypeOK, FunnelTypeOK, Statuses
<1>3. \A j \in Jobs : status[j] # "PROCESSING" => status'[j] = status[j]
  BY DEF Start, ReapStaleProcessingJobs
<1>4. ASSUME NEW j \in Jobs PROVE RowInv(j)'
  BY <1>1, <1>3 DEF IInv, RowInv, BudgetLeft, RowClaimed, CheckedForDuplicate,
     SentFirst, Working
<1>. QED BY <1>1, <1>2, <1>4 DEF IInv, DownIsEmpty, DedupIsEarned

(* A batch is made of discovered rows, whose retry budget is not spent.    *)
LEMMA LoadBatchInv == ASSUME IInv, LoadBatch PROVE IInv'
<1>1. /\ agent = "up" /\ agent' = agent /\ sent' = sent /\ UNCHANGED commandVars
      /\ unchecked' = unchecked
      /\ UNCHANGED funnelVars /\ promoted' \subseteq Jobs
      /\ at' \in [Jobs -> {"none", "queued"}]
      /\ \A j \in Jobs : at'[j] = "queued" => status[j] = "DISCOVERED"
  BY DEF LoadBatch, GetDiscoveredJobs
<1>2. PipelineTypeOK'
  BY <1>1 DEF IInv, PipelineTypeOK, FunnelTypeOK, funnelVars, Places
<1>3. ASSUME NEW j \in Jobs PROVE RowInv(j)'
  BY <1>1, <1>3 DEF IInv, RowInv, BudgetLeft, RowClaimed, CheckedForDuplicate,
     SentFirst, Working, funnelVars
<1>. QED BY <1>1, <1>2, <1>3 DEF IInv, DownIsEmpty, DedupIsEarned, funnelVars

(* A signal writes nothing.                                                *)
LEMMA CancelInv == ASSUME IInv, Cancel PROVE IInv'
BY DEF Cancel, funnelVars, IInv, PipelineTypeOK, FunnelTypeOK, DownIsEmpty, DedupIsEarned,
   RowInv, BudgetLeft, RowClaimed, CheckedForDuplicate, SentFirst

(* A process that is gone holds no row.                                    *)
LEMMA DownInv == ASSUME IInv, Down PROVE IInv'
<1>1. /\ UNCHANGED funnelVars /\ sent' = sent /\ UNCHANGED commandVars
      /\ unchecked' = unchecked
      /\ \A j \in Jobs : at'[j] = "none"
  BY DEF Down
<1>2. PipelineTypeOK'
  BY DEF Down, IInv, PipelineTypeOK, FunnelTypeOK, funnelVars, Places
<1>3. ASSUME NEW j \in Jobs PROVE RowInv(j)'
  BY <1>1, <1>3 DEF IInv, RowInv, BudgetLeft, RowClaimed, CheckedForDuplicate,
     SentFirst, Working, funnelVars
<1>. QED BY <1>1, <1>2, <1>3 DEF IInv, DownIsEmpty, DedupIsEarned, funnelVars

(* cmd/requeue takes no row a worker holds and gives it a new budget.      *)
LEMMA RequeueInv ==
  ASSUME NEW pattern \in Patterns, NEW clear \in BOOLEAN, IInv, Requeue(pattern, clear)
  PROVE  IInv'
<1>1. PICK from \in RequeueStatuses : RequeueByURLPattern(pattern, from)
  BY DEF Requeue
<1>2. from \in {"BLOCKED_CAPTCHA", "FAILED_SUBMIT", "APPLIED", "RETRY_EXHAUSTED"}
  BY <1>1, AgentAssumption
<1>3. /\ at' = at /\ agent' = agent /\ sent' = sent /\ applied' = applied
      /\ selected' = selected /\ removed' = removed /\ unchecked' = unchecked
  BY <1>1 DEF Requeue, RequeueByURLPattern
<1>4. PipelineTypeOK'
  <2>1. FunnelTypeOK'
    <3>1. status' \in [Jobs -> Statuses]
      BY <1>1 DEF RequeueByURLPattern, IInv, PipelineTypeOK, FunnelTypeOK, Statuses
    <3>2. retries' \in [Jobs -> 0..MaxRetryAttempts]
      BY <1>1, RetryAssumption DEF RequeueByURLPattern, IInv, PipelineTypeOK, FunnelTypeOK
    <3>3. backoff' \in [Jobs -> BOOLEAN]
      BY <1>1 DEF RequeueByURLPattern, IInv, PipelineTypeOK, FunnelTypeOK
    <3>. QED BY <1>1, <3>1, <3>2, <3>3 DEF RequeueByURLPattern, IInv, PipelineTypeOK,
         FunnelTypeOK
  <2>2. clearing' \subseteq Jobs /\ promoted' = promoted
    BY DEF Requeue, Patterns
  <2>. QED BY <1>3, <2>1, <2>2 DEF IInv, PipelineTypeOK
<1>5. ASSUME NEW j \in Jobs PROVE RowInv(j)'
  <2>1. \/ status'[j] = status[j] /\ retries'[j] = retries[j]
        \/ status[j] = from /\ status'[j] = "DISCOVERED" /\ retries'[j] = 0
    BY <1>1 DEF RequeueByURLPattern
  <2>2. RowInv(j)
    BY DEF IInv
  <2>. QED BY <1>2, <1>3, <2>1, <2>2, RetryAssumption DEF RowInv, BudgetLeft, RowClaimed,
       CheckedForDuplicate, SentFirst
<1>. QED BY <1>3, <1>4, <1>5 DEF IInv, DownIsEmpty, DedupIsEarned

(* Clearing dedup rows leaves fewer to answer for.                         *)
LEMMA ClearDedupInv == ASSUME IInv, ClearDedup PROVE IInv'
<1>1. /\ UNCHANGED <<status, reason, retries, backoff, intent, card, agent, at, promoted,
                     selected, removed, sent, unchecked>>
      /\ applied' \subseteq applied /\ clearing' = {}
  BY DEF ClearDedup, ClearApplicationRecords
<1>. QED BY <1>1 DEF IInv, PipelineTypeOK, FunnelTypeOK, DownIsEmpty, DedupIsEarned,
     RowInv, BudgetLeft, RowClaimed, CheckedForDuplicate, SentFirst

(* The invariant is inductive.                                             *)
LEMMA NextInv == IInv /\ [Next]_vars => IInv'
<1>. SUFFICES ASSUME IInv, [Next]_vars PROVE IInv'
  OBVIOUS
<1>1. CASE Next
  BY <1>1, StartInv, LoadBatchInv, CancelInv, DownInv, WorkerStepInv, SweepStaleInv,
     OperatorAppliesInv, FunnelChangesInv, ReconcilesInv, RequeueInv, ClearDedupInv
     DEF Next, Exit, Crash
<1>2. CASE UNCHANGED vars
  BY <1>2 DEF vars, funnelVars, agentVars, IInv, PipelineTypeOK, FunnelTypeOK,
     DownIsEmpty, DedupIsEarned, RowInv, BudgetLeft, RowClaimed, CheckedForDuplicate,
     SentFirst
<1>. QED BY <1>1, <1>2

(* Every reachable state satisfies it.                                     *)
THEOREM Inductive == Spec => []IInv
BY InitInv, NextInv, PTL DEF Spec

----------------------------------------------------------------------------
(* The properties of the runs.                                             *)

(* The tables stay within their types; above all no retry count passes     *)
(* MaxRetryAttempts, although nothing in the statement that counts checks  *)
(* the count it starts from.                                               *)
THEOREM PipelineTypeCorrect == Spec => []PipelineTypeOK
<1>1. IInv => PipelineTypeOK
  BY DEF IInv
<1>. QED BY <1>1, Inductive, PTL

(* No dedup row without a submission: hand-offs record none, and the       *)
(* operator's confirmation is one.                                         *)
THEOREM DedupEarned == Spec => []DedupIsEarned
<1>1. IInv => DedupIsEarned
  BY DEF IInv
<1>. QED BY <1>1, Inductive, PTL

(* No application is submitted for a posting that has a dedup row, unless  *)
(* the table could not be read: none is written between the duplicate      *)
(* check of the discovery node and the click, whatever the others do.      *)
THEOREM NotResubmitted == Spec => NoResubmission
<1>1. IInv => \A j \in Jobs : ClickSubmit(j) /\ j \in applied => j \in unchecked
  BY DEF IInv, RowInv, CheckedForDuplicate, ClickSubmit
<1>. QED BY <1>1, Inductive, PTL DEF NoResubmission

(* A worker writes the status of its own posting only, and of that only    *)
(* while it holds its row or has it queued; what it does after handing off *)
(* leaves the status alone.                                                *)
LEMMA WorkersWriteTheirRow ==
  ASSUME NEW j \in Jobs, NEW k \in Jobs, IInv, WorkerStep(k),
         k # j \/ at[j] \notin Working \union {"queued"}
  PROVE  status'[j] = status[j]
<1>1. status \in [Jobs -> Statuses]
  BY DEF IInv, PipelineTypeOK, FunnelTypeOK
<1>2. at[k] \in Working \union {"queued"} => k # j
  OBVIOUS
<1>3. CASE Settle(k)
  BY <1>1, <1>2, <1>3, VerdictsSettle DEF Settle, UpdateFunnelStatus, SetStatus
<1>4. CASE TransientFailure(k) \/ CircuitOpen(k)
  BY <1>1, <1>2, <1>4 DEF TransientFailure, CircuitOpen, UpdateFunnelStatusRetryable,
     DeferFunnelStatus, SetStatus, Working
<1>5. CASE Claim(k) \/ AlreadyApplied(k) \/ ScorePasses(k) \/ Submitted(k)
           \/ QuotaExceeded(k)
  BY <1>1, <1>2, <1>5 DEF Claim, AlreadyApplied, ScorePasses, Submitted, QuotaExceeded,
     UpdateFunnelStatus, SetStatus, Working, funnelVars
<1>6. CASE HandOff(k)
  BY <1>1, <1>2, <1>6, HandedOffToCards DEF HandOff, UpdateFunnelStatus, SetStatus, Working
<1>7. CASE \/ PreflightPasses(k) \/ PageFetched(k) \/ Eligible(k) \/ StillFresh(k)
           \/ ClickSubmit(k) \/ RecordApplication(k) \/ MakePlan(k)
  BY <1>7 DEF PreflightPasses, PageFetched, Eligible, StillFresh, ClickSubmit,
     RecordApplication, RecordApplicationInDB, MakePlan, EnsureAssistedPlanForURL,
     PlanRefused, funnelVars
<1>. QED BY <1>3, <1>4, <1>5, <1>6, <1>7 DEF WorkerStep

(* A worker that writes the status of its posting goes on or leaves it.    *)
LEMMA WorkersMoveOn ==
  ASSUME NEW j \in Jobs, IInv, WorkerStep(j), at[j] \in Working \union {"queued"}
  PROVE  at'[j] # at[j]
<1>1. at \in [Jobs -> Places]
  BY DEF IInv, PipelineTypeOK
<1>2. CASE HandOff(j)
  BY <1>1, <1>2, HandedOffToCards DEF HandOff, Go, Working, CardStatuses
<1>3. CASE \/ Settle(j) \/ TransientFailure(j) \/ CircuitOpen(j) \/ AlreadyApplied(j)
           \/ RecordApplication(j) \/ MakePlan(j) \/ QuotaExceeded(j)
  BY <1>1, <1>3 DEF Settle, TransientFailure, CircuitOpen, AlreadyApplied,
     RecordApplication, MakePlan, QuotaExceeded, Leave, Go, Working
<1>4. CASE \/ Claim(j) \/ PreflightPasses(j) \/ PageFetched(j) \/ Eligible(j)
           \/ ScorePasses(j) \/ StillFresh(j) \/ ClickSubmit(j) \/ Submitted(j)
  BY <1>1, <1>4 DEF Claim, PreflightPasses, PageFetched, Eligible, ScorePasses, StillFresh,
     ClickSubmit, Submitted, EnterNode, Leave, Go, Working
<1>. QED BY <1>2, <1>3, <1>4 DEF WorkerStep

(* The row of a posting in a batch is moved by its worker alone, but for   *)
(* the operator's write-off and a reconciliation that had read the row     *)
(* (claim of pipeline.go, reaper, requeue and removeRow).                  *)
THEOREM RowsOfWorkers == Spec => WorkedRowIsClaimed
<1> DEFINE Moved(j) ==
      /\ at[j] \in Working \union {"queued"}
      /\ at'[j] = at[j]
      /\ status'[j] # status[j]
    Excepted(j) ==
      \/ status'[j] = "INVALID_URL"
      \/ status'[j] = "SKIPPED" /\ j \in selected
<1>1. ASSUME IInv, [Next]_vars, NEW j \in Jobs, Moved(j) PROVE Excepted(j)
  <2>1. /\ status \in [Jobs -> Statuses] /\ agent # "down"
        /\ status[j] \in {"DISCOVERED", "PROCESSING", "INVALID_URL", "SKIPPED"}
        /\ at[j] # "none"
    BY <1>1 DEF IInv, DownIsEmpty, RowInv, RowClaimed, PipelineTypeOK, FunnelTypeOK, Working
  <2>2. ASSUME NEW k \in Jobs, WorkerStep(k) PROVE Excepted(j)
    <3>1. k # j
      BY <1>1, <2>2, WorkersMoveOn
    <3>. QED BY <1>1, <2>2, <3>1, WorkersWriteTheirRow
  <2>3. ASSUME NEW k \in Jobs, SweepStale(k) \/ OperatorApplies(k) PROVE Excepted(j)
    BY <1>1, <2>1, <2>3 DEF SweepStale, SweepStaleDiscoveredJobs, OperatorApplies,
       MarkHandoffApplied, MarkJobAppliedManually, ConfirmAssistedSubmission, CardOpen,
       CardStatuses, HandoffStatuses, UpdateFunnelStatus, SetStatus
  <2>4. ASSUME NEW k \in Jobs, FunnelChanges(k) PROVE Excepted(j)
    BY <1>1, <2>1, <2>4 DEF FunnelChanges, AddToFunnel, ApplyOutcome, BackoffElapses,
       PromoteJobToAssisted, SkipQualifiedJob, MarkAssistedNotFound, CardStatuses,
       HandoffStatuses, MigrateLegacyAssisted, UpdateFunnelStatus, SetStatus
  <2>5. ASSUME NEW k \in Jobs, Reconciles(k) PROVE Excepted(j)
    BY <1>1, <2>1, <2>5 DEF Reconciles, ReconcileReads, ReconcileRemoves, ReconcileDeletes,
       ReconcileEnds, RemoveRow, DeleteCard, UpdateFunnelStatus, SetStatus, funnelVars
  <2>6. CASE Start \/ LoadBatch \/ Cancel \/ Exit \/ Crash \/ ClearDedup
    BY <1>1, <2>1, <2>6 DEF Start, LoadBatch, Cancel, Exit, Crash, Down, ClearDedup,
       ClearApplicationRecords, funnelVars
  <2>7. ASSUME NEW pattern \in Patterns, NEW clear \in BOOLEAN, Requeue(pattern, clear)
        PROVE Excepted(j)
    BY <1>1, <2>1, <2>7, AgentAssumption DEF Requeue, RequeueByURLPattern
  <2>8. CASE UNCHANGED vars
    BY <1>1, <2>8 DEF vars, funnelVars
  <2>. QED BY <1>1, <2>2, <2>3, <2>4, <2>5, <2>6, <2>7, <2>8 DEF Next
<1>2. IInv /\ [Next]_vars => [\A j \in Jobs : Moved(j) => Excepted(j)]_vars
  BY <1>1
<1>. QED BY <1>2, Inductive, PTL DEF Spec, WorkedRowIsClaimed

(* An APPLIED row stays so but for the employer's answer, cmd/requeue      *)
(* -status APPLIED and a reconciliation that had read the row before: no   *)
(* stale batch nor a write-off of the operator undoes it.                  *)
THEOREM AppliedIsKept == Spec => AppliedStays
<1> DEFINE Kept(j) ==
      status[j] = "APPLIED" =>
        \/ status'[j] \in {"APPLIED", "EMPLOYER_ANSWERED"}
        \/ "APPLIED" \in RequeueStatuses /\ status'[j] = "DISCOVERED"
        \/ status'[j] = "SKIPPED" /\ j \in selected
<1>1. ASSUME IInv, [Next]_vars, NEW j \in Jobs, status[j] = "APPLIED" PROVE Kept(j)
  <2>1. at[j] \notin Working \union {"queued"} /\ status \in [Jobs -> Statuses]
    BY <1>1 DEF IInv, RowInv, RowClaimed, PipelineTypeOK, FunnelTypeOK
  <2>2. ASSUME NEW k \in Jobs, WorkerStep(k) PROVE Kept(j)
    BY <1>1, <2>1, <2>2, WorkersWriteTheirRow
  <2>3. ASSUME NEW k \in Jobs, SweepStale(k) \/ OperatorApplies(k) PROVE Kept(j)
    BY <1>1, <2>1, <2>3 DEF SweepStale, SweepStaleDiscoveredJobs, OperatorApplies,
       MarkHandoffApplied, MarkJobAppliedManually, ConfirmAssistedSubmission,
       UpdateFunnelStatus, SetStatus
  <2>4. ASSUME NEW k \in Jobs, FunnelChanges(k) PROVE Kept(j)
    BY <1>1, <2>1, <2>4 DEF FunnelChanges, AddToFunnel, ApplyOutcome, BackoffElapses,
       PromoteJobToAssisted, SkipQualifiedJob, MarkAssistedNotFound, CardStatuses,
       MigrateLegacyAssisted, UpdateFunnelStatus, SetStatus
  <2>8. ASSUME NEW k \in Jobs, Reconciles(k) PROVE Kept(j)
    BY <1>1, <2>1, <2>8 DEF Reconciles, ReconcileReads, ReconcileRemoves, ReconcileDeletes,
       ReconcileEnds, RemoveRow, DeleteCard, UpdateFunnelStatus, SetStatus, funnelVars
  <2>5. CASE Start \/ LoadBatch \/ Cancel \/ Exit \/ Crash \/ ClearDedup
    BY <1>1, <2>5 DEF Start, ReapStaleProcessingJobs, LoadBatch, Cancel, Exit, Crash, Down,
       ClearDedup, ClearApplicationRecords, funnelVars
  <2>6. ASSUME NEW pattern \in Patterns, NEW clear \in BOOLEAN, Requeue(pattern, clear)
        PROVE Kept(j)
    BY <1>1, <2>6 DEF Requeue, RequeueByURLPattern
  <2>7. CASE UNCHANGED vars
    BY <1>1, <2>7 DEF vars, funnelVars
  <2>. QED BY <1>1, <2>2, <2>3, <2>4, <2>5, <2>6, <2>7, <2>8 DEF Next
<1>2. IInv /\ [Next]_vars => \A j \in Jobs : Kept(j)
  BY <1>1
<1>. QED BY <1>2, Inductive, PTL DEF Spec, AppliedStays, Kept

----------------------------------------------------------------------------
(* The agent with its network.                                             *)

(* A step that is one of AgentPipeline's, or leaves its variables alone.   *)
LEMMA WorkerRefines ==
  ASSUME NEW j \in Jobs, NetWorkerStep(j) PROVE Next \/ UNCHANGED vars
<1>1. CASE Request(j)
  BY <1>1 DEF Request
<1>2. CASE Refused(j)
  BY <1>2 DEF Refused, Next, WorkerStep
<1>3. CASE Answered(j)
  BY <1>3 DEF Answered, Next, WorkerStep
<1>4. CASE Unreached(j)
  BY <1>4 DEF Unreached, Next, WorkerStep
<1>5. CASE MakeDocuments(j)
  <2>1. PICK g \in Generations :
          CASE g.result = "documents" -> ClickSubmit(j)
            [] g.result = "quota" -> QuotaExceeded(j)
            [] OTHER -> UpdateFunnelStatus(j, "FAILED_SUBMIT") /\ Leave(j)
    BY <1>5 DEF MakeDocuments
  <2>2. CASE ClickSubmit(j) \/ QuotaExceeded(j)
    BY <2>2 DEF Next, WorkerStep
  <2>3. CASE UpdateFunnelStatus(j, "FAILED_SUBMIT") /\ Leave(j)
    <3>1. at[j] = "submission" /\ Taken(j)
      BY <1>5 DEF MakeDocuments, Taken
    <3>2. "submission" \in DOMAIN Verdicts /\ "FAILED_SUBMIT" \in Verdicts["submission"]
      BY DEF Verdicts
    <3>3. Settle(j)
      BY <2>3, <3>1, <3>2 DEF Settle
    <3>. QED BY <3>3 DEF Next, WorkerStep
  <2>. QED BY <2>1, <2>2, <2>3
<1>6. CASE Quietly(j)
  BY <1>6 DEF Quietly, Next, WorkerStep
<1>. QED BY <1>1, <1>2, <1>3, <1>4, <1>5, <1>6 DEF NetWorkerStep

(* Every step of the network is a step of the pipeline or none.            *)
LEMMA StepRefines == [NetNext]_allVars => [Next]_vars
<1>. SUFFICES ASSUME [NetNext]_allVars PROVE Next \/ UNCHANGED vars
  OBVIOUS
<1>1. ASSUME NEW j \in Jobs, NetWorkerStep(j) PROVE Next \/ UNCHANGED vars
  BY <1>1, WorkerRefines
<1>2. ASSUME NEW j \in Jobs, Discovered(j) PROVE Next
  BY <1>2 DEF Discovered, FunnelChanges, Next
<1>3. CASE Ended
  BY <1>3 DEF Ended, Next
<1>4. CASE Tick
  BY <1>4 DEF Tick
<1>5. CASE (Start \/ LoadBatch \/ Cancel) /\ UNCHANGED netVars
  BY <1>5 DEF Next
<1>6. CASE UNCHANGED allVars
  BY <1>6 DEF allVars
<1>. QED BY <1>1, <1>2, <1>3, <1>4, <1>5, <1>6 DEF NetNext

(* The agent, its breaker, its requests and its models implement the       *)
(* pipeline: whatever is proved of AgentPipeline holds of them.            *)
THEOREM NetRefinesPipeline == NetSpec => RefinesPipeline
<1>1. NetInit => Init
  BY DEF NetInit
<1>. QED BY <1>1, StepRefines, PTL DEF NetSpec, RefinesPipeline, Spec

(* So no worker of the network loses its row to another writer, with the   *)
(* same two exceptions.                                                    *)
THEOREM NetRowsOfWorkers == NetSpec => WorkedRowIsClaimed
BY NetRefinesPipeline, RowsOfWorkers DEF RefinesPipeline

(* And nothing recorded as sent is sent again after a check.               *)
THEOREM NetNotResubmitted == NetSpec => NoResubmission
BY NetRefinesPipeline, NotResubmitted DEF RefinesPipeline

(* What is recorded as sent was sent, and APPLIED stays.                   *)
THEOREM NetRecordsKept == NetSpec => []DedupIsEarned /\ AppliedStays
<1>1. NetSpec => []DedupIsEarned
  BY NetRefinesPipeline, DedupEarned DEF RefinesPipeline
<1>2. NetSpec => AppliedStays
  BY NetRefinesPipeline, AppliedIsKept DEF RefinesPipeline
<1>. QED BY <1>1, <1>2

----------------------------------------------------------------------------
(* The breaker and the requests.                                           *)

RequestTypeOK ==
  /\ CircuitTypeOK
  /\ asked \in [Jobs -> 0..(RequestTime + 1)]
  /\ streak \in 0..Threshold /\ quiet \in 0..Cooldown
  /\ lost \subseteq Jobs /\ refused \subseteq Jobs

(* The breaker counts the streak, and is closed until it is complete; what *)
(* is left of the cooldown has not yet passed in quiet.                    *)
StreakIsCounted == failures = streak /\ (circuit = "closed" <=> streak < Threshold)
CooldownIsQuiet == circuit = "open" => quiet + cooldown >= Cooldown

NetInv == RequestTypeOK /\ StreakIsCounted /\ CooldownIsQuiet

(* The breaker starts closed and nothing has failed.                       *)
LEMMA NetInitInv == NetInit => NetInv
BY CircuitAssumption, NetworkAssumption DEF NetInit, Closed, NetInv, RequestTypeOK,
   CircuitTypeOK, StreakIsCounted, CooldownIsQuiet

(* A step that leaves breaker and requests alone.                          *)
LEMMA NetKept == ASSUME NetInv, UNCHANGED netVars PROVE NetInv'
BY DEF NetInv, RequestTypeOK, CircuitTypeOK, StreakIsCounted, CooldownIsQuiet, netVars, circuitVars

(* Only the histories of lost documents change.                            *)
LEMMA LostKept ==
  ASSUME NetInv, UNCHANGED <<circuitVars, asked, streak, quiet>>, lost' \subseteq Jobs,
         refused' \subseteq Jobs
  PROVE  NetInv'
BY DEF NetInv, RequestTypeOK, CircuitTypeOK, StreakIsCounted, CooldownIsQuiet, circuitVars

(* A request that may be made: the circuit was closed, or its cooldown is  *)
(* over and this is the probe.                                             *)
LEMMA RequestInv == ASSUME NetInv, NEW j \in Jobs, Request(j) PROVE NetInv'
<1>1. RequestTypeOK'
  BY CircuitAssumption, NetworkAssumption DEF Request, allow, NetInv, RequestTypeOK, CircuitTypeOK
<1>2. StreakIsCounted' /\ CooldownIsQuiet'
  BY DEF Request, allow, NetInv, StreakIsCounted, CooldownIsQuiet
<1>. QED BY <1>1, <1>2 DEF NetInv

(* An answer closes the circuit and ends the streak.                       *)
LEMMA AnsweredInv == ASSUME NetInv, NEW j \in Jobs, Answered(j) PROVE NetInv'
<1>1. RequestTypeOK'
  BY CircuitAssumption, NetworkAssumption DEF Answered, Done, recordSuccess, newCircuitBreaker,
     NetInv, RequestTypeOK, CircuitTypeOK
<1>2. StreakIsCounted' /\ CooldownIsQuiet'
  BY CircuitAssumption DEF Answered, recordSuccess, newCircuitBreaker, StreakIsCounted, CooldownIsQuiet
<1>. QED BY <1>1, <1>2 DEF NetInv

(* A failure completes the streak and opens the circuit together, reopens  *)
(* it after a probe, and as a straggler changes nothing.                   *)
LEMMA UnreachedInv == ASSUME NetInv, NEW j \in Jobs, Unreached(j) PROVE NetInv'
<1>. USE CircuitAssumption DEF NetInv, RequestTypeOK, CircuitTypeOK, StreakIsCounted, CooldownIsQuiet
<1>1. /\ asked' \in [Jobs -> 0..(RequestTime + 1)] /\ lost' \subseteq Jobs
      /\ refused' \subseteq Jobs
  BY NetworkAssumption DEF Unreached, Done
<1>2. CASE circuit = "halfOpen"
  BY <1>1, <1>2 DEF Unreached, recordFailure
<1>3. CASE circuit = "open"
  BY <1>1, <1>3 DEF Unreached, recordFailure
<1>4. CASE circuit = "closed"
  BY <1>1, <1>4 DEF Unreached, recordFailure
<1>. QED BY <1>2, <1>3, <1>4

(* The agent ends and its breaker with it.                                 *)
LEMMA EndedInv == ASSUME NetInv, Ended PROVE NetInv'
<1>1. RequestTypeOK'
  BY CircuitAssumption, NetworkAssumption DEF Ended, newCircuitBreaker, NetInv, RequestTypeOK, CircuitTypeOK
<1>2. StreakIsCounted' /\ CooldownIsQuiet'
  BY CircuitAssumption DEF Ended, newCircuitBreaker, StreakIsCounted, CooldownIsQuiet
<1>. QED BY <1>1, <1>2 DEF NetInv

(* Time passes for the requests, the cooldown and the quiet alike.         *)
LEMMA TickInv == ASSUME NetInv, Tick PROVE NetInv'
<1>1. asked' \in [Jobs -> 0..(RequestTime + 1)]
  BY NetworkAssumption DEF Tick, NetInv, RequestTypeOK
<1>2. cooldown' \in 0..Cooldown /\ quiet' \in 0..Cooldown /\ UNCHANGED <<circuit, failures, streak, lost, refused>>
  BY CircuitAssumption DEF Tick, CooldownPasses, NetInv, RequestTypeOK, CircuitTypeOK
<1>3. CooldownIsQuiet'
  BY <1>2, CircuitAssumption DEF Tick, CooldownPasses, NetInv, RequestTypeOK, CircuitTypeOK, CooldownIsQuiet
<1>. QED BY <1>1, <1>2, <1>3 DEF NetInv, RequestTypeOK, CircuitTypeOK, StreakIsCounted

(* Every step keeps the breaker's invariant.                               *)
LEMMA NetNextInv == NetInv /\ [NetNext]_allVars => NetInv'
<1>. SUFFICES ASSUME NetInv, [NetNext]_allVars PROVE NetInv'
  OBVIOUS
<1>1. ASSUME NEW j \in Jobs, NetWorkerStep(j) PROVE NetInv'
  <2>1. CASE Request(j) BY <2>1, RequestInv
  <2>2. CASE Refused(j) BY <2>2, NetKept DEF Refused
  <2>3. CASE Answered(j) BY <2>3, AnsweredInv
  <2>4. CASE Unreached(j) BY <2>4, UnreachedInv
  <2>5. CASE MakeDocuments(j)
    <3>1. lost' \subseteq Jobs /\ refused' \subseteq Jobs
      BY <2>5 DEF MakeDocuments, NetInv, RequestTypeOK
    <3>. QED BY <2>5, <3>1, LostKept DEF MakeDocuments
  <2>6. CASE Quietly(j) BY <2>6, NetKept DEF Quietly
  <2>. QED BY <1>1, <2>1, <2>2, <2>3, <2>4, <2>5, <2>6 DEF NetWorkerStep
<1>2. ASSUME NEW j \in Jobs, Discovered(j) PROVE NetInv'
  BY <1>2, NetKept DEF Discovered
<1>3. CASE Ended BY <1>3, EndedInv
<1>4. CASE Tick BY <1>4, TickInv
<1>5. CASE (Start \/ LoadBatch \/ Cancel) /\ UNCHANGED netVars
  BY <1>5, NetKept
<1>6. CASE UNCHANGED allVars
  BY <1>6, NetKept DEF allVars
<1>. QED BY <1>1, <1>2, <1>3, <1>4, <1>5, <1>6 DEF NetNext

(* The breaker's invariant holds.                                          *)
THEOREM NetInductive == NetSpec => []NetInv
BY NetInitInv, NetNextInv, PTL DEF NetSpec

(* Postings, workers, breaker and requests keep their types.               *)
THEOREM NetTypeCorrect == NetSpec => []NetTypeOK
<1>1. NetSpec => []PipelineTypeOK
  BY NetRefinesPipeline, PipelineTypeCorrect DEF RefinesPipeline
<1>2. PipelineTypeOK /\ NetInv => NetTypeOK
  BY DEF NetTypeOK, NetInv, RequestTypeOK
<1>. QED BY <1>1, <1>2, NetInductive, PTL

(* A system that failed Threshold times in a row is asked once a cooldown  *)
(* at most, by whichever worker, until it answers.                         *)
THEOREM ProbesSpaced == NetSpec => ProbesAreSpaced
<1>1. ASSUME NetInv, NEW j \in Jobs, Request(j), streak = Threshold
      PROVE  quiet >= Cooldown
  <2>1. circuit = "open" /\ cooldown = 0
    BY <1>1, CircuitAssumption DEF Request, allow, Refuses, NetInv, RequestTypeOK, CircuitTypeOK,
       StreakIsCounted
  <2>. QED BY <1>1, <2>1 DEF NetInv, RequestTypeOK, CooldownIsQuiet
<1>2. NetInv /\ [NetNext]_allVars =>
        [\A j \in Jobs : Request(j) /\ streak = Threshold => quiet >= Cooldown]_allVars
  BY <1>1
<1>. QED BY <1>2, NetInductive, PTL DEF NetSpec, ProbesAreSpaced
----------------------------------------------------------------------------
(* The machine the agent starts on has the model of every later call.      *)
THEOREM PreflightCoversCalls ==
  ASSUME NEW c, NEW name, c.provider = newProviderFromEnv(name),
         NEW reachable \in BOOLEAN, NEW installed,
         PreflightModels(c, reachable, installed),
         NEW kind \in Kinds, ModelFor(c, kind) # Remote
  PROVE  reachable /\ ModelFor(c, kind) \in installed
<1>1. c.provider \in Providers
  BY DEF newProviderFromEnv, Providers
<1>2. ModelFor(c, kind) \in Wanted(c)
  <2>1. CASE c.provider = "ollama"
    BY <2>1 DEF ModelFor, Wanted, Kinds
  <2>2. CASE c.provider = "claude"
    BY <2>2 DEF ModelFor, Wanted, Kinds
  <2>3. CASE c.provider = "gemini"
    BY <2>3 DEF ModelFor, Wanted, Kinds
  <2>. QED BY <1>1, <2>1, <2>2, <2>3 DEF Providers
<1>. QED BY <1>2 DEF PreflightModels
----------------------------------------------------------------------------
(* The offload service loses no documents.                                 *)

LEMMA DocumentsAre ==
  /\ DOMAIN Documents = {1, 2, 3}
  /\ DocumentKeys = {"resume", "cover_letter", "interview_prep"}
  /\ \A i \in DOMAIN Documents : Documents[i] \in DocumentKeys
<1>1. DOMAIN Documents = {1, 2, 3}
  BY DEF Documents
<1>. QED BY <1>1 DEF DocumentKeys, Documents

(* Both batches of an attempt go to the service, or from some call on both *)
(* are answered here; either way the documents' calls get one kind of      *)
(* answer if the provider has the same for all of them, and the service    *)
(* reports none of them as failed.                                         *)
LEMMA UniformAnswers ==
  ASSUME NEW attempt, ~Reports(attempt), NEW answer,
         attempt.oversized \intersect DocumentKeys = {},
         \A key \in DocumentKeys : attempt.local[key] = answer,
         NEW route \in BOOLEAN,
         route => /\ attempt.route = TRUE
                  /\ "gap" \in attempt.oversized \/ attempt.service["gap"].reached
  PROVE  LET run == RunCalls(attempt, route, "documents", DocumentKeys) IN
         \/ \A key \in DocumentKeys : run.answers[key] = "text"
         \/ \A key \in DocumentKeys : run.answers[key] = answer
<1>. DEFINE reply == attempt.service["documents"]
            run == RunCalls(attempt, route, "documents", DocumentKeys)
<1>1. DocumentKeys \ attempt.oversized = DocumentKeys /\ DocumentKeys # {}
  BY DocumentsAre
<1>2. CASE route /\ reply.reached
  <2>1. \A key \in DocumentKeys : OffloadedAnswer(reply, key) = "text"
    BY <1>1, <1>2 DEF Reports
  <2>2. \A key \in DocumentKeys : run.answers[key] = OffloadedAnswer(reply, key)
    BY <1>1, <1>2 DEF RunCalls
  <2>. QED BY <2>1, <2>2
<1>3. CASE ~(route /\ reply.reached)
  <2>1. \A key \in DocumentKeys : run.answers[key] = attempt.local[key]
    BY <1>1, <1>3 DEF RunCalls
  <2>. QED BY <2>1
<1>. QED BY <1>2, <1>3

(* An attempt that had nothing but answers of the one kind.                *)
LEMMA AttemptResult ==
  ASSUME NEW attempt, ~Reports(attempt), attempt.route \in BOOLEAN,
         NEW answer \in {"text", "retryable"},
         attempt.oversized \intersect DocumentKeys = {},
         \A key \in DocumentKeys : attempt.local[key] = answer
  PROVE  /\ answer = "text" => ProcessJobApplication(attempt) = "documents"
         /\ ProcessJobApplication(attempt) \in {"documents", "retryable"}
<1>. DEFINE gap == RunCalls(attempt, attempt.route, "gap", {"gap"})
            run == RunCalls(attempt, gap.route, "documents", DocumentKeys)
            reply == [i \in DOMAIN Documents |-> run.answers[Documents[i]]]
            failed == {i \in DOMAIN Documents : reply[i] # "text"}
            first == CHOOSE i \in failed : \A k \in failed : i <= k
<1>1. /\ gap.route \in BOOLEAN
      /\ gap.route => /\ attempt.route = TRUE
                      /\ "gap" \in attempt.oversized \/ attempt.service["gap"].reached
  BY DEF RunCalls
<1>2. \/ \A key \in DocumentKeys : run.answers[key] = "text"
      \/ \A key \in DocumentKeys : run.answers[key] = answer
  BY <1>1, UniformAnswers
<1>. HIDE DEF run
<1>3. ProcessJobApplication(attempt) =
        IF failed = {} THEN "documents"
        ELSE IF reply[first] = "empty" THEN "error" ELSE reply[first]
  BY DEF ProcessJobApplication, run
<1>4. (\A i \in DOMAIN Documents : reply[i] = "text")
        \/ \A i \in DOMAIN Documents : reply[i] = answer
  BY <1>2, DocumentsAre
<1>. HIDE DEF reply
<1>5. CASE \A i \in DOMAIN Documents : reply[i] = "text"
  BY <1>3, <1>5
<1>6. CASE answer = "retryable" /\ \A i \in DOMAIN Documents : reply[i] = answer
  <2>1. failed = {1, 2, 3}
    BY <1>6, DocumentsAre
  <2>2. first \in {1, 2, 3}
    <3>1. \E i \in failed : \A k \in failed : i <= k
      BY <2>1
    <3>. QED BY <2>1, <3>1
  <2>. QED BY <1>3, <1>6, <2>1, <2>2, DocumentsAre
<1>. QED BY <1>4, <1>5, <1>6

(* Every attempt but the last was retryable, and there is a last one.      *)
LEMMA LastIsLast ==
  ASSUME NEW attempts
  PROVE  LastAttempt(attempts) \in 1..MaxAttempts /\ IsLast(attempts, LastAttempt(attempts))
<1>. DEFINE result(n) == ProcessJobApplication(attempts[n])
<1>. \E k \in 1..MaxAttempts : IsLast(attempts, k)
  <2>1. CASE result(1) # "retryable"
    <3>1. IsLast(attempts, 1)
      BY <2>1 DEF IsLast
    <3>. QED BY <3>1 DEF MaxAttempts
  <2>2. CASE result(1) = "retryable" /\ result(2) # "retryable"
    <3>1. IsLast(attempts, 2)
      BY <2>2 DEF IsLast
    <3>. QED BY <3>1 DEF MaxAttempts
  <2>3. CASE result(1) = "retryable" /\ result(2) = "retryable"
    <3>1. IsLast(attempts, 3)
      BY <2>3 DEF IsLast, MaxAttempts
    <3>. QED BY <3>1 DEF MaxAttempts
  <2>. QED BY <2>1, <2>2, <2>3
<1>. QED BY DEF LastAttempt

(* The attempts up to the last are each retryable or a success, and the    *)
(* last is not past the one on which the provider had text for everything. *)
LEMMA NothingOwed ==
  ASSUME NEW attempts,
         \A n \in 1..MaxAttempts : attempts[n].route \in BOOLEAN,
         CouldComplete(attempts), ~ServiceReports(attempts)
  PROVE  GenerateDocs(attempts) = "documents"
<1>. DEFINE last == LastAttempt(attempts)
            result(n) == ProcessJobApplication(attempts[n])
<1>1. PICK n \in 1..MaxAttempts :
        Writes(attempts[n]) /\ \A m \in 1..(n - 1) : Busy(attempts[m])
  BY DEF CouldComplete
<1>2. last \in 1..MaxAttempts /\ IsLast(attempts, last)
  BY LastIsLast
<1>3. \A m \in 1..last : ~Reports(attempts[m])
  BY DEF ServiceReports
<1>. HIDE DEF last
<1>4. n <= last => result(n) = "documents"
  <2>. HAVE n <= last
  <2>1. ~Reports(attempts[n]) /\ attempts[n].route \in BOOLEAN
    BY <1>1, <1>2, <1>3 DEF MaxAttempts
  <2>. QED BY <1>1, <2>1, AttemptResult DEF Writes
<1>5. last < n => result(last) \in {"documents", "retryable"}
  <2>. HAVE last < n
  <2>1. ~Reports(attempts[last]) /\ attempts[last].route \in BOOLEAN /\ Busy(attempts[last])
    BY <1>1, <1>2, <1>3 DEF MaxAttempts
  <2>. QED BY <2>1, AttemptResult DEF Busy
<1>. HIDE DEF result
<1>6. result(last) = "documents"
  <2>1. CASE n < last
    <3>1. result(n) = "retryable"
      BY <1>1, <1>2, <2>1 DEF IsLast, MaxAttempts, result
    <3>. QED BY <1>1, <1>2, <1>4, <2>1, <3>1 DEF MaxAttempts
  <2>2. CASE last < n
    <3>1. result(last) # "retryable"
      BY <1>1, <1>2, <2>2 DEF IsLast, MaxAttempts, result
    <3>. QED BY <1>5, <2>2, <3>1
  <2>3. CASE last = n
    BY <1>1, <1>4, <2>3 DEF MaxAttempts
  <2>. QED BY <1>1, <1>2, <2>1, <2>2, <2>3 DEF MaxAttempts
<1>. QED BY <1>6 DEF GenerateDocs, last, result

(* However and whenever the service is lost, an application whose          *)
(* documents the agent could have written itself gets them: the route is   *)
(* given up for the rest of the job, never the job.  What costs one is a   *)
(* call that the service, reached, reports as failed.                      *)
THEOREM NoDocumentsLost == NetSpec => []DocumentsNotLost
<1>1. NetInit => DocumentsNotLost
  BY DEF NetInit, DocumentsNotLost
<1>2. DocumentsNotLost /\ [NetNext]_allVars => DocumentsNotLost'
  <2>. SUFFICES ASSUME DocumentsNotLost, [NetNext]_allVars PROVE lost' \subseteq refused'
    BY DEF DocumentsNotLost
  <2>1. ASSUME NEW j \in Jobs, MakeDocuments(j) PROVE lost' \subseteq refused'
    <3>1. ASSUME NEW a \in [1..MaxAttempts -> Attempts], CouldComplete(a),
                 ~ServiceReports(a)
          PROVE  GenerateDocs(a) = "documents"
      BY <3>1, NothingOwed, AttemptsAssumption
    <3>2. ASSUME NEW g \in Generations, g.owed, ~g.refused PROVE g.result = "documents"
      <4>1. PICK a \in [1..MaxAttempts -> Attempts] :
              /\ g.result = GenerateDocs(a) /\ g.owed = CouldComplete(a)
              /\ g.refused = ServiceReports(a)
        BY DEF Generations
      <4>. QED BY <3>1, <3>2, <4>1
    <3>3. PICK g \in Generations :
            /\ lost' = IF g.owed /\ g.result # "documents" THEN lost \union {j}
                       ELSE lost \ {j}
            /\ refused' = IF g.refused THEN refused \union {j} ELSE refused \ {j}
      BY <2>1 DEF MakeDocuments
    <3>. QED BY <3>2, <3>3 DEF DocumentsNotLost
  <2>2. CASE UNCHANGED documentVars
    BY <2>2 DEF DocumentsNotLost
  <2>. QED BY <2>1, <2>2 DEF NetNext, NetWorkerStep, Request, Refused, Answered, Unreached,
           Quietly, Discovered, Ended, Tick, netVars, allVars
<1>. QED BY <1>1, <1>2, PTL DEF NetSpec
=============================================================================
