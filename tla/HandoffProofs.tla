---------------------------- MODULE HandoffProofs ----------------------------
(***************************************************************************)
(* What is proved of AnswerFlow and of ApplySessionFlow for any number of  *)
(* jobs, processes and questions.  The steps of both are steps of          *)
(* AssistProcess, so that what is proved there holds beside the questions  *)
(* and answers, and in an apply session, too.                              *)
(***************************************************************************)
EXTENDS AnswerFlow, ApplySessionFlow, AssistProcessProofs

(* What the answers' way depends on, beside their own tables.  A row that  *)
(* somebody owns exists; so a fill that still owns its row was not crossed *)
(* by the automatic pipeline, which fills before there is a row.           *)
OwnedRowsExist == \A j \in Jobs : owner[j] # NoOwner => state[j] # "absent"

RecordingIsMarked ==
  \A p \in Processes :
    phase[p] = "recording" /\ owner[job[p]] = p => source[job[p]] = "assisted"

(* While the owner of a row takes and types answers, the card they came    *)
(* from accepts none.                                                      *)
CardIsClosed ==
  \A p \in Processes :
    phase[p] \in {"answering", "typing"} /\ owner[job[p]] = p
      => state[job[p]] \in {"answers_provided", "completed"}

TakenWhileTyping == \A p \in Processes : taken[p] # {} => phase[p] = "typing"

AnswerInv ==
  /\ AnswerTypeOK /\ OwnedRowsExist /\ RecordingIsMarked
  /\ OutcomeHoldsNoAnswers /\ FillOnScreenIsAssisted /\ TakenWhileTyping

HandoverInv == AnswerInv /\ CardIsClosed /\ HandedOverOnce

USE JobsAssumption, OwnersAssumption, LeaseTimesAssumption, EnvironmentAssumption
----------------------------------------------------------------------------
(* The browser process is the one of AssistProcess.                        *)

LEMMA AnswerStepIsStep ==
  ASSUME NEW p \in Processes, AnswerStep(p)
  PROVE  ProcessStep(p) \/ (FormReached(p) /\ UNCHANGED vars)
<1>1. CASE Polls(p)
  BY <1>1 DEF Polls, ProcessStep
<1>2. CASE Proceeds(p)
  BY <1>2 DEF Proceeds, ProcessStep
<1>3. CASE FormReached(p) \/ FindsNothing(p) \/ \E found \in SUBSET Keys : FindsQuestions(p, found)
  BY <1>3 DEF FormReached, FindsNothing, FindsQuestions, ProcessStep
<1>4. CASE TakesAnswers(p) \/ CannotType(p) \/ Types(p) \/ Discards(p)
  BY <1>4 DEF TakesAnswers, CannotType, Types, Discards, ProcessStep
<1> QED BY <1>1, <1>2, <1>3, <1>4 DEF AnswerStep

LEMMA AnswerNextIsNext == [AnswerNext]_answerVars => [Next]_vars
<1> SUFFICES ASSUME [AnswerNext]_answerVars PROVE [Next]_vars
  OBVIOUS
<1>1. ASSUME NEW p \in Processes, AnswerStep(p)
      PROVE  [Next]_vars
  BY <1>1, AnswerStepIsStep DEF Next
<1>2. ASSUME NEW p \in Processes, Opens(p) \/ Closes(p) \/ Killed(p)
      PROVE  [Next]_vars
  BY <1>2 DEF Opens, Closes, Killed, Next
<1>3. ASSUME NEW j \in Jobs, NEW keys \in SUBSET Keys, ReadsCard(j, keys) \/ Prepares(j, keys)
      PROVE  [Next]_vars
  BY <1>3 DEF ReadsCard, Prepares
<1>4. ASSUME NEW j \in Jobs,
             Submits(j) \/ Continues(j) \/ Completes(j) \/ FillsAutomatically(j) \/ Queue(j)
      PROVE  [Next]_vars
  BY <1>4 DEF Submits, Continues, Completes, FillsAutomatically, Queue, Next, OperatorStep
<1>5. CASE ATick
  BY <1>5 DEF ATick, Next
<1>6. CASE UNCHANGED answerVars
  BY <1>6 DEF answerVars
<1> QED BY <1>1, <1>2, <1>3, <1>4, <1>5, <1>6 DEF AnswerNext

(* The questions and answers come on top: whatever AssistProcess promises, *)
(* the rows, leases and processes of AnswerFlow keep.                      *)
THEOREM AnswersKeepProcess == AnswerSpec => Spec
<1>1. AnswerInit => Init
  BY DEF AnswerInit
<1> QED BY <1>1, AnswerNextIsNext, PTL DEF AnswerSpec, Spec
----------------------------------------------------------------------------
(* Types.                                                                  *)

LEMMA AnswerInitType == AnswerInit => AnswerTypeOK
BY InitType DEF AnswerInit, AnswerTypeOK, QuestionInit, QuestionTypeOK, FillSources

LEMMA ReplacedType ==
  ASSUME NEW asked, NEW found
  PROVE  Replaced(asked, found) \in [Keys -> {"absent", "pending", "answered"}]
BY DEF Replaced

LEMMA AnswerStepType ==
  ASSUME AnswerTypeOK, NEW p \in Processes, AnswerStep(p)
  PROVE  QuestionTypeOK' /\ taken' \in [Processes -> SUBSET Keys] /\ form' = form
<1> USE DEF AnswerTypeOK, QuestionTypeOK, FillSources
<1>1. CASE Elsewhere
  BY <1>1 DEF Elsewhere, questionVars
<1>2. CASE FormReached(p) \/ Types(p)
  BY <1>2 DEF FormReached, Types, MarkFillAttempted, Forget, questionVars
<1>3. ASSUME NEW found \in SUBSET Keys, FindsQuestions(p, found) \/ FindsNothing(p)
      PROVE  QuestionTypeOK' /\ taken' = taken /\ form' = form
  BY <1>3, ReplacedType
  DEF FindsQuestions, FindsNothing, ReplaceApplicationQuestions, questionVars
<1>4. CASE TakesAnswers(p)
  <2>1. pending[job[p]] \subseteq Keys
    <3>1. job[p] \in Jobs
      BY <1>4 DEF TakesAnswers, TakeAnswers, TypeOK, Running
    <3> QED BY <3>1
  <2> QED BY <1>4, <2>1 DEF TakesAnswers, RemovePendingAnswers
<1>5. CASE CannotType(p) \/ Discards(p)
  BY <1>5 DEF CannotType, Discards, Forget, RemovePendingAnswers, questionVars
<1> QED BY <1>1, <1>2, <1>3, <1>4, <1>5 DEF AnswerStep, Polls, Proceeds

LEMMA AnswerNextType == AnswerTypeOK /\ [AnswerNext]_answerVars => AnswerTypeOK'
<1> DEFINE AnswerTables ==
      QuestionTypeOK /\ taken \in [Processes -> SUBSET Keys] /\ form \in [Jobs -> SUBSET Keys]
<1> SUFFICES ASSUME AnswerTypeOK, [AnswerNext]_answerVars PROVE AnswerTypeOK'
  OBVIOUS
<1>1. TypeOK'
  BY AnswerNextIsNext, NextType DEF AnswerTypeOK
<1>2. AnswerTables'
  <2> USE DEF AnswerTypeOK, QuestionTypeOK, FillSources
  <2>1. ASSUME NEW p \in Processes, AnswerStep(p) PROVE AnswerTables'
    BY <2>1, AnswerStepType
  <2>2. ASSUME NEW p \in Processes, Opens(p) \/ Closes(p) \/ Killed(p) PROVE AnswerTables'
    BY <2>2 DEF Opens, Closes, Killed, Elsewhere, Forget, questionVars
  <2>3. ASSUME NEW j \in Jobs, NEW keys \in SUBSET Keys, ReadsCard(j, keys) \/ Prepares(j, keys)
        PROVE  AnswerTables'
    BY <2>3, ReplacedType DEF ReadsCard, Prepares, RecordPreparedQuestions, questionVars
  <2>4. ASSUME NEW j \in Jobs,
               Continues(j) \/ Completes(j) \/ FillsAutomatically(j) \/ Queue(j)
        PROVE  AnswerTables'
    BY <2>4 DEF Continues, Completes, FillsAutomatically, Queue, Elsewhere, questionVars,
                RemovePendingAnswers, MarkFillAttempted
  <2>5. ASSUME NEW j \in Jobs, Submits(j) PROVE AnswerTables'
    BY <2>5 DEF Submits, QueueAnswers, questionVars
  <2>6. CASE ATick \/ UNCHANGED answerVars
    BY <2>6 DEF ATick, Elsewhere, answerVars, questionVars
  <2> QED BY <2>1, <2>2, <2>3, <2>4, <2>5, <2>6 DEF AnswerNext
<1> QED BY <1>1, <1>2 DEF AnswerTypeOK

THEOREM AnswerTypeCorrect == AnswerSpec => []AnswerTypeOK
BY AnswerInitType, AnswerNextType, PTL DEF AnswerSpec
----------------------------------------------------------------------------
(* Outcomes and markers.                                                   *)

(* The rows a statement of a process leaves behind.                        *)
LEMMA ProcessStepRows ==
  ASSUME TypeOK, NEW p \in Processes, ProcessStep(p), NEW k \in Jobs
  PROVE  /\ owner'[k] \in {owner[k], NoOwner}
         /\ state'[k] = "absent" <=> state[k] = "absent"
         /\ state'[k] = "completed" <=> state[k] = "completed"
         /\ state'[k] = "answers_provided" => state[k] = "answers_provided"
         /\ state'[k] = "needs_answers" /\ state[k] # "needs_answers"
              => RecordAssistedQuestions(p) /\ owner[k] = p /\ k = job[p]
         /\ state'[k] # state[k] => owner[k] = p
<1> DEFINE Keeps == /\ owner'[k] \in {owner[k], NoOwner}
                    /\ state'[k] = "absent" <=> state[k] = "absent"
                    /\ state'[k] = "completed" <=> state[k] = "completed"
                    /\ state'[k] = "answers_provided" => state[k] = "answers_provided"
<1> USE DEF TypeOK, LeaseTypeOK
<1>1. job[p] \in Jobs
  BY ProcessStepRuns
<1>2. CASE UNCHANGED leaseVars
  BY <1>2 DEF leaseVars
<1>3. CASE PollFinished(p) \/ PollContinues(p)
  BY <1>3 DEF PollFinished, PollContinues, RenewAssistedLease
<1>4. CASE PollDirect(p)
  BY <1>1, <1>4 DEF PollDirect, CanRenew
<1>5. ASSUME NEW from \in {"continue_requested", "answers_provided"},
             NEW to \in {"manual_review", "needs_answers", "review_and_submit"},
             RecordOrExit(p, from, to)
      PROVE  /\ Keeps
             /\ state'[k] = state[k] \/ (k = job[p] /\ owner[k] = p /\ state'[k] = to)
  BY <1>1, <1>5 DEF RecordOrExit, CanRecord, SetState, leaseVars
<1>6. CASE RecordAssistedQuestions(p)
  BY <1>5, <1>6 DEF RecordAssistedQuestions
<1>7. CASE \/ FillNeedsManualReview(p) \/ RecordAssistedRefill(p)
           \/ AnswersUnusable(p) \/ AnswersTyped(p)
  <2>1. PICK from \in {"continue_requested", "answers_provided"},
             to \in {"manual_review", "review_and_submit"} : RecordOrExit(p, from, to)
    BY <1>7 DEF FillNeedsManualReview, RecordAssistedRefill, AnswersUnusable, AnswersTyped
  <2> QED BY <1>5, <2>1
<1>8. CASE Release(p)
  BY <1>1, <1>8 DEF Release, ReleaseAssistedLease, leaseVars
<1> QED BY <1>2, <1>3, <1>4, <1>6, <1>7, <1>8
        DEF ProcessStep, BrowserReady, BrowserNeverOpens, PollLosesLease,
            FillFindsQuestions, FillLeavesNothing, TakeAnswers, DiscardAnswers,
            PauseForClosedBrowser

LEMMA OwnedRowsStep ==
  ASSUME TypeOK, OwnedRowsExist, [Next]_vars
  PROVE  OwnedRowsExist'
<1> USE DEF TypeOK, LeaseTypeOK, OwnedRowsExist
<1>1. ASSUME NEW p \in Processes, NEW j \in Jobs, Launch(p, j) PROVE OwnedRowsExist'
  BY <1>1 DEF Launch, AcquireAssistedLease
<1>2. ASSUME NEW p \in Processes, ProcessStep(p) PROVE OwnedRowsExist'
  BY <1>2, ProcessStepRows
<1>3. ASSUME NEW p \in Processes, BrowserCloses(p) \/ Crash(p) PROVE OwnedRowsExist'
  BY <1>3 DEF BrowserCloses, Crash, LoseOwner, leaseVars
<1>4. ASSUME NEW j \in Jobs, OperatorStep(j) PROVE OwnedRowsExist'
  BY <1>4 DEF OperatorStep, OperatorContinue, RequestAssistedContinue, OperatorAnswers,
              SubmitAssistedAnswers, OperatorRevalidates, RecordAssistedRevalidation,
              OperatorCompletes, CompleteAssisted, PlanCreated, EnsureAssistedPlan,
              RowPruned, RemoveAssistedRow, SetState
<1>5. CASE Tick \/ UNCHANGED vars
  BY <1>5 DEF Tick, Elapse, vars, leaseVars
<1> QED BY <1>1, <1>2, <1>3, <1>4, <1>5 DEF Next

(* What a step of a process does to questions, answers and the marker.     *)
LEMMA AnswerStepTables ==
  ASSUME AnswerTypeOK, NEW p \in Processes, AnswerStep(p)
  PROVE  /\ \A k \in Jobs : pending'[k] \in {pending[k], {}}
         /\ \A k \in Jobs : source'[k] \in {source[k], "assisted"}
         /\ \A q \in Processes \ {p} : taken'[q] = taken[q]
<1> USE DEF AnswerTypeOK, QuestionTypeOK
<1>1. CASE Elsewhere
  BY <1>1 DEF Elsewhere, questionVars
<1>2. CASE FormReached(p) \/ Types(p)
  BY <1>2 DEF FormReached, Types, MarkFillAttempted, Forget, questionVars
<1>3. ASSUME NEW found \in SUBSET Keys, FindsQuestions(p, found) \/ FindsNothing(p)
      PROVE  /\ UNCHANGED <<pending, taken>>
             /\ \A k \in Jobs : source'[k] \in {source[k], "assisted"}
  BY <1>3 DEF FindsQuestions, FindsNothing, ReplaceApplicationQuestions, questionVars
<1>4. CASE TakesAnswers(p) \/ CannotType(p) \/ Discards(p)
  BY <1>4 DEF TakesAnswers, CannotType, Discards, RemovePendingAnswers, Forget, questionVars
<1> QED BY <1>1, <1>2, <1>3, <1>4 DEF AnswerStep, Polls, Proceeds

LEMMA OthersStay ==
  ASSUME TypeOK, NEW p \in Processes, AnswerStep(p)
  PROVE  \A q \in Processes \ {p} : phase'[q] = phase[q] /\ job'[q] = job[q]
BY AnswerStepIsStep, ProcessStepBrowser DEF vars, processVars

LEMMA TakenStep ==
  ASSUME AnswerTypeOK, TakenWhileTyping, [AnswerNext]_answerVars
  PROVE  TakenWhileTyping'
<1> USE DEF AnswerTypeOK, TypeOK, TakenWhileTyping
<1>1. ASSUME NEW p \in Processes, AnswerStep(p) PROVE TakenWhileTyping'
  <2>1. \A q \in Processes \ {p} : taken'[q] # {} => phase'[q] = "typing"
    BY <1>1, AnswerStepTables, OthersStay
  <2>2. CASE taken[p] = {} /\ ~TakesAnswers(p)
    <3>1. taken'[p] = {}
      BY <1>1, <2>2 DEF AnswerStep, Polls, Proceeds, Elsewhere, FormReached, FindsQuestions,
                        FindsNothing, CannotType, Types, Discards, Forget
    <3> QED BY <2>1, <3>1
  <2>3. CASE TakesAnswers(p)
    <3>1. phase'[p] = "typing"
      BY <2>3 DEF TakesAnswers, TakeAnswers, Goto
    <3> QED BY <2>1, <3>1
  <2>4. CASE phase[p] = "typing"
    <3>1. FormReached(p) \/ CannotType(p) \/ Types(p)
      BY <1>1, <2>4 DEF AnswerStep, Polls, PollContinues, PollLosesLease, Proceeds,
         BrowserReady, BrowserNeverOpens, FillNeedsManualReview, RecordAssistedQuestions,
         RecordAssistedRefill, PauseForClosedBrowser, Release, FindsQuestions,
         FillFindsQuestions, FindsNothing, FillLeavesNothing, TakesAnswers, TakeAnswers,
         Discards, DiscardAnswers
    <3>2. taken'[p] # {} => phase'[p] = "typing"
      BY <2>4, <3>1 DEF FormReached, vars, processVars, CannotType, Types, Forget
    <3> QED BY <2>1, <3>2
  <2> QED BY <2>2, <2>3, <2>4
<1>2. ASSUME NEW p \in Processes, Opens(p) PROVE TakenWhileTyping'
  BY <1>2 DEF Opens, Launch, Running, Elsewhere
<1>3. ASSUME NEW p \in Processes, Closes(p) \/ Killed(p) PROVE TakenWhileTyping'
  BY <1>3 DEF Closes, BrowserCloses, Goto, Elsewhere, Killed, Crash, Gone, Forget
<1>4. CASE UNCHANGED <<taken, phase>>
  BY <1>4
<1>5. ASSUME NEW j \in Jobs, NEW keys \in SUBSET Keys, ReadsCard(j, keys) \/ Prepares(j, keys)
      PROVE  UNCHANGED <<taken, phase>>
  BY <1>5 DEF ReadsCard, Prepares, vars, processVars
<1>6. ASSUME NEW j \in Jobs,
             Submits(j) \/ Continues(j) \/ Completes(j) \/ FillsAutomatically(j) \/ Queue(j)
      PROVE  UNCHANGED <<taken, phase>>
  BY <1>6 DEF Submits, OperatorAnswers, Continues, OperatorContinue, Completes,
              OperatorCompletes, FillsAutomatically, Queue, PlanCreated, RowPruned,
              OperatorRevalidates, Elsewhere, vars, processVars
<1>7. CASE ATick \/ UNCHANGED answerVars
  BY <1>4, <1>7 DEF ATick, Tick, Elsewhere, answerVars, vars, processVars
<1> QED BY <1>1, <1>2, <1>3, <1>4, <1>5, <1>6, <1>7 DEF AnswerNext

LEMMA OutcomeStep ==
  ASSUME AnswerTypeOK, OutcomeHoldsNoAnswers, [AnswerNext]_answerVars
  PROVE  OutcomeHoldsNoAnswers'
<1> USE DEF AnswerTypeOK, TypeOK, LeaseTypeOK, QuestionTypeOK, OutcomeHoldsNoAnswers
<1>1. ASSUME NEW p \in Processes, AnswerStep(p) PROVE OutcomeHoldsNoAnswers'
  <2>1. \A k \in Jobs : state'[k] = "completed" <=> state[k] = "completed"
    BY <1>1, AnswerStepIsStep, ProcessStepRows DEF vars, leaseVars
  <2> QED BY <1>1, <2>1, AnswerStepTables
<1>2. ASSUME NEW p \in Processes, Opens(p) \/ Closes(p) \/ Killed(p)
      PROVE  OutcomeHoldsNoAnswers'
  BY <1>2 DEF Opens, Launch, AcquireAssistedLease, Closes, BrowserCloses, Killed, Crash,
              LoseOwner, Elsewhere, questionVars, leaseVars
<1>3. ASSUME NEW j \in Jobs, NEW keys \in SUBSET Keys, ReadsCard(j, keys) \/ Prepares(j, keys)
      PROVE  OutcomeHoldsNoAnswers'
  BY <1>3 DEF ReadsCard, Prepares, RecordPreparedQuestions, questionVars, vars, leaseVars
<1>4. ASSUME NEW j \in Jobs, Submits(j) PROVE OutcomeHoldsNoAnswers'
  BY <1>4 DEF Submits, OperatorAnswers, SubmitAssistedAnswers, CanSubmit, SetState,
              QueueAnswers, questionVars, vars, leaseVars
<1>5. ASSUME NEW j \in Jobs, Completes(j) PROVE OutcomeHoldsNoAnswers'
  BY <1>5 DEF Completes, OperatorCompletes, CompleteAssisted, SetState, RemovePendingAnswers
<1>6. ASSUME NEW j \in Jobs, Continues(j) \/ FillsAutomatically(j) \/ Queue(j)
      PROVE  OutcomeHoldsNoAnswers'
  BY <1>6 DEF Continues, OperatorContinue, RequestAssistedContinue, FillsAutomatically,
              MarkFillAttempted, Queue, PlanCreated, EnsureAssistedPlan, RowPruned,
              RemoveAssistedRow, OperatorRevalidates, RecordAssistedRevalidation, SetState,
              Elsewhere, questionVars, vars, leaseVars
<1>7. CASE ATick \/ UNCHANGED answerVars
  BY <1>7 DEF ATick, Tick, Elapse, Elsewhere, answerVars, questionVars, vars, leaseVars
<1> QED BY <1>1, <1>2, <1>3, <1>4, <1>5, <1>6, <1>7 DEF AnswerNext

(* Only finding questions leads to recording them.                         *)
LEMMA IntoRecording ==
  ASSUME TypeOK, NEW p \in Processes, AnswerStep(p), phase'[p] = "recording"
  PROVE  UNCHANGED vars \/ \E found \in SUBSET Keys : FindsQuestions(p, found)
<1> USE DEF TypeOK
<1>1. ASSUME NEW to, Goto(p, to) PROVE to = "recording"
  BY <1>1 DEF Goto
<1>2. ASSUME NEW from, NEW to, RecordOrExit(p, from, to) PROVE FALSE
  BY <1>2 DEF RecordOrExit, Goto
<1>3. ~Polls(p)
  BY <1>1 DEF Polls, PollContinues, PollLosesLease
<1>4. ~Proceeds(p)
  BY <1>1, <1>2 DEF Proceeds, BrowserReady, BrowserNeverOpens, FillNeedsManualReview,
     RecordAssistedQuestions, RecordAssistedRefill, PauseForClosedBrowser, Release, Gone
<1>5. ~FindsNothing(p) /\ ~TakesAnswers(p) /\ ~Discards(p)
  BY <1>1 DEF FindsNothing, FillLeavesNothing, TakesAnswers, TakeAnswers, Discards,
              DiscardAnswers
<1>6. ~CannotType(p) /\ ~Types(p)
  BY <1>2 DEF CannotType, AnswersUnusable, Types, AnswersTyped
<1> QED BY <1>3, <1>4, <1>5, <1>6 DEF AnswerStep, FormReached

(* A step after which those who record recorded already, on rows that were *)
(* theirs already.                                                         *)
LEMMA StillRecording ==
  ASSUME TypeOK, RecordingIsMarked, NEW who \in SUBSET Processes,
         \A q \in who : phase'[q] = "recording" => phase[q] = "recording" /\ job'[q] = job[q],
         \A q \in who, k \in Jobs : owner'[k] = q => owner[k] = q \/ phase'[q] # "recording",
         \A k \in Jobs : source'[k] \in {source[k], "assisted"}
  PROVE  \A q \in who :
           phase'[q] = "recording" /\ owner'[job'[q]] = q => source'[job'[q]] = "assisted"
<1> SUFFICES ASSUME NEW q \in who, phase'[q] = "recording", owner'[job'[q]] = q
             PROVE  source'[job'[q]] = "assisted"
  OBVIOUS
<1>1. q \in Processes /\ phase[q] = "recording" /\ job'[q] = job[q]
  OBVIOUS
<1>2. job[q] \in Jobs
  BY <1>1 DEF TypeOK, Running
<1>3. owner[job[q]] = q
  BY <1>1, <1>2
<1> QED BY <1>1, <1>2, <1>3 DEF RecordingIsMarked

LEMMA RecordingStep ==
  ASSUME AnswerTypeOK, OwnedRowsExist, RecordingIsMarked, [AnswerNext]_answerVars
  PROVE  RecordingIsMarked'
<1> USE DEF AnswerTypeOK, TypeOK, LeaseTypeOK, QuestionTypeOK
<1>1. ASSUME NEW p \in Processes, AnswerStep(p) PROVE RecordingIsMarked'
  <2>1. \A k \in Jobs, q \in Processes : owner'[k] = q => owner[k] = q
    <3>1. CASE UNCHANGED vars
      BY <3>1 DEF vars, leaseVars
    <3>2. CASE ProcessStep(p)
      BY <3>2, ProcessStepRows
    <3> QED BY <1>1, <3>1, <3>2, AnswerStepIsStep
  <2>2. \A k \in Jobs : source'[k] \in {source[k], "assisted"}
    BY <1>1, AnswerStepTables
  <2>3. \A q \in Processes \ {p} :
          phase'[q] = "recording" /\ owner'[job'[q]] = q => source'[job'[q]] = "assisted"
    <3> DEFINE others == Processes \ {p}
    <3>1. \A q \in others : phase'[q] = phase[q] /\ job'[q] = job[q]
      BY <1>1, OthersStay
    <3>2. others \in SUBSET Processes /\ \A k \in Jobs, q \in others : owner'[k] = q => owner[k] = q
      BY <2>1
    <3> HIDE DEF others
    <3>3. \A q \in others :
            phase'[q] = "recording" /\ owner'[job'[q]] = q => source'[job'[q]] = "assisted"
      BY <2>2, <3>1, <3>2, StillRecording
    <3> QED BY <3>3 DEF others
  <2>4. phase'[p] = "recording" /\ owner'[job'[p]] = p => source'[job'[p]] = "assisted"
    <3>1. CASE UNCHANGED vars
      <4>1. \A q \in Processes : phase'[q] = phase[q] /\ job'[q] = job[q]
        BY <3>1 DEF vars, processVars
      <4> QED BY <2>1, <2>2, <4>1, StillRecording
    <3>2. ASSUME NEW found \in SUBSET Keys, FindsQuestions(p, found)
          PROVE  source'[job'[p]] = "assisted"
      <4>1. job[p] \in Jobs
        BY <3>2 DEF FindsQuestions, FillFindsQuestions, Running
      <4> QED BY <3>2, <4>1
          DEF FindsQuestions, FillFindsQuestions, Goto, ReplaceApplicationQuestions
    <3> QED BY <1>1, <3>1, <3>2, IntoRecording
  <2> QED BY <2>3, <2>4 DEF RecordingIsMarked
<1>2. ASSUME UNCHANGED source,
             \A q \in Processes :
               phase'[q] = "recording" => phase[q] = "recording" /\ job'[q] = job[q],
             \A q \in Processes, k \in Jobs :
               owner'[k] = q => owner[k] = q \/ phase'[q] # "recording"
      PROVE  RecordingIsMarked'
  BY <1>2, StillRecording DEF RecordingIsMarked
<1>3. ASSUME NEW p \in Processes, NEW j \in Jobs, Launch(p, j), Elsewhere
      PROVE  RecordingIsMarked'
  BY <1>2, <1>3 DEF Launch, AcquireAssistedLease, Elsewhere, questionVars
<1>4. ASSUME NEW p \in Processes, Closes(p) PROVE RecordingIsMarked'
  BY <1>2, <1>4 DEF Closes, BrowserCloses, Goto, leaseVars, Elsewhere, questionVars
<1>5. ASSUME NEW p \in Processes, Killed(p) PROVE RecordingIsMarked'
  <2>1. \A q \in Processes :
          phase'[q] = "recording" => phase[q] = "recording" /\ job'[q] = job[q]
    BY <1>5 DEF Killed, Crash, Gone
  <2>2. \A q \in Processes, k \in Jobs : owner'[k] = q => owner[k] = q
    BY <1>5, OwnersAssumption DEF Killed, Crash, LoseOwner
  <2> QED BY <1>2, <1>5, <2>1, <2>2 DEF Killed, questionVars
<1>6. ASSUME UNCHANGED <<source, phase, job>>,
             \A k \in Jobs : owner'[k] \in {owner[k], NoOwner}
      PROVE  RecordingIsMarked'
  BY <1>2, <1>6
<1>7. ASSUME NEW j \in Jobs, NEW keys \in SUBSET Keys, ReadsCard(j, keys) \/ Prepares(j, keys)
      PROVE  RecordingIsMarked'
  BY <1>6, <1>7
  DEF ReadsCard, Prepares, RecordPreparedQuestions, questionVars, vars, leaseVars, processVars
<1>8. ASSUME NEW j \in Jobs, Submits(j) \/ Continues(j) \/ Completes(j) \/ Queue(j)
      PROVE  RecordingIsMarked'
  BY <1>6, <1>8
  DEF Submits, OperatorAnswers, SubmitAssistedAnswers, QueueAnswers, Continues,
      OperatorContinue, RequestAssistedContinue, Completes, OperatorCompletes,
      CompleteAssisted, RemovePendingAnswers, Queue, PlanCreated, EnsureAssistedPlan,
      RowPruned, RemoveAssistedRow, OperatorRevalidates, RecordAssistedRevalidation,
      SetState, Elsewhere, questionVars, vars, leaseVars, processVars
<1>9. ASSUME NEW j \in Jobs, FillsAutomatically(j) PROVE RecordingIsMarked'
  <2>1. owner[j] = NoOwner
    BY <1>9 DEF FillsAutomatically, OwnedRowsExist
  <2>2. UNCHANGED <<owner, phase, job>> /\ \A k \in Jobs \ {j} : source'[k] = source[k]
    BY <1>9 DEF FillsAutomatically, MarkFillAttempted, vars, leaseVars, processVars
  <2> SUFFICES ASSUME NEW q \in Processes, phase[q] = "recording", owner[job[q]] = q
               PROVE  source'[job[q]] = "assisted"
    BY <2>2 DEF RecordingIsMarked
  <2>3. job[q] \in Jobs \ {j}
    BY <2>1, OwnersAssumption DEF Running
  <2> QED BY <2>2, <2>3 DEF RecordingIsMarked
<1>10. CASE ATick \/ UNCHANGED answerVars
  BY <1>6, <1>10
  DEF ATick, Tick, Elapse, Elsewhere, answerVars, questionVars, vars, leaseVars, processVars
<1> QED BY <1>1, <1>3, <1>4, <1>5, <1>7, <1>8, <1>9, <1>10 DEF AnswerNext, Opens

LEMMA OnScreenStep ==
  ASSUME AnswerTypeOK, RecordingIsMarked, FillOnScreenIsAssisted, [AnswerNext]_answerVars
  PROVE  FillOnScreenIsAssisted'
<1> USE DEF AnswerTypeOK, TypeOK, LeaseTypeOK, QuestionTypeOK, FillOnScreenIsAssisted
<1>1. ASSUME NEW p \in Processes, AnswerStep(p) PROVE FillOnScreenIsAssisted'
  <2> SUFFICES ASSUME NEW k \in Jobs, state'[k] \in {"needs_answers", "answers_provided"}
               PROVE  source'[k] = "assisted"
    OBVIOUS
  <2>1. CASE state[k] \in {"needs_answers", "answers_provided"}
    BY <1>1, <2>1, AnswerStepTables
  <2>2. CASE state[k] \notin {"needs_answers", "answers_provided"}
    <3>1. ProcessStep(p)
      BY <1>1, <2>2, AnswerStepIsStep DEF vars, leaseVars
    <3>2. RecordAssistedQuestions(p) /\ owner[k] = p /\ k = job[p]
      BY <2>2, <3>1, ProcessStepRows
    <3>3. source[k] = "assisted"
      BY <3>2 DEF RecordingIsMarked, RecordAssistedQuestions
    <3> QED BY <1>1, <3>3, AnswerStepTables
  <2> QED BY <2>1, <2>2
<1>2. ASSUME NEW p \in Processes, Opens(p) \/ Closes(p) \/ Killed(p)
      PROVE  FillOnScreenIsAssisted'
  BY <1>2 DEF Opens, Launch, AcquireAssistedLease, Closes, BrowserCloses, Killed, Crash,
              LoseOwner, Elsewhere, questionVars, leaseVars
<1>3. ASSUME NEW j \in Jobs, NEW keys \in SUBSET Keys, ReadsCard(j, keys) \/ Prepares(j, keys)
      PROVE  FillOnScreenIsAssisted'
  BY <1>3 DEF ReadsCard, Prepares, RecordPreparedQuestions, questionVars, vars, leaseVars
<1>4. ASSUME NEW j \in Jobs, Submits(j) \/ Continues(j) \/ Completes(j) \/ Queue(j)
      PROVE  FillOnScreenIsAssisted'
  BY <1>4
  DEF Submits, OperatorAnswers, SubmitAssistedAnswers, CanSubmit, QueueAnswers, Continues,
      OperatorContinue, RequestAssistedContinue, Completes, OperatorCompletes,
      CompleteAssisted, RemovePendingAnswers, Queue, PlanCreated, EnsureAssistedPlan,
      RowPruned, RemoveAssistedRow, OperatorRevalidates, RecordAssistedRevalidation,
      SetState, Elsewhere, questionVars, vars, leaseVars
<1>5. ASSUME NEW j \in Jobs, FillsAutomatically(j) PROVE FillOnScreenIsAssisted'
  BY <1>5 DEF FillsAutomatically, MarkFillAttempted, vars, leaseVars
<1>6. CASE ATick \/ UNCHANGED answerVars
  BY <1>6 DEF ATick, Tick, Elapse, Elsewhere, answerVars, questionVars, vars, leaseVars
<1> QED BY <1>1, <1>2, <1>3, <1>4, <1>5, <1>6 DEF AnswerNext

LEMMA AnswerInvInit == AnswerInit => AnswerInv
<1> SUFFICES ASSUME AnswerInit PROVE AnswerInv
  OBVIOUS
<1>1. AnswerTypeOK
  BY AnswerInitType
<1>2. OwnedRowsExist /\ RecordingIsMarked /\ OutcomeHoldsNoAnswers /\ FillOnScreenIsAssisted
  BY DEF AnswerInit, Init, LeaseInit, QuestionInit, OwnedRowsExist, RecordingIsMarked,
         OutcomeHoldsNoAnswers, FillOnScreenIsAssisted
<1>3. TakenWhileTyping
  BY DEF AnswerInit, TakenWhileTyping
<1> QED BY <1>1, <1>2, <1>3 DEF AnswerInv

LEMMA AnswerInvStep == AnswerInv /\ [AnswerNext]_answerVars => AnswerInv'
<1> SUFFICES ASSUME AnswerInv, [AnswerNext]_answerVars PROVE AnswerInv'
  OBVIOUS
<1>1. AnswerTypeOK'
  BY AnswerNextType DEF AnswerInv
<1>2. OwnedRowsExist'
  BY AnswerNextIsNext, OwnedRowsStep DEF AnswerInv, AnswerTypeOK
<1>3. RecordingIsMarked' /\ OutcomeHoldsNoAnswers' /\ FillOnScreenIsAssisted' /\ TakenWhileTyping'
  BY RecordingStep, OutcomeStep, OnScreenStep, TakenStep DEF AnswerInv
<1> QED BY <1>1, <1>2, <1>3 DEF AnswerInv

LEMMA AnswerInvHolds == AnswerSpec => []AnswerInv
BY AnswerInvInit, AnswerInvStep, PTL DEF AnswerSpec

(* An application with an outcome keeps no answer of the operator's, in    *)
(* whatever order the outcome, the card's submission, a process that takes *)
(* the answers and a prune of the row come.                                *)
THEOREM OutcomeClearsAnswers == AnswerSpec => []OutcomeHoldsNoAnswers
<1>1. AnswerInv => OutcomeHoldsNoAnswers
  BY DEF AnswerInv
<1> QED BY <1>1, AnswerInvHolds, PTL

(* A card that asks about a form on screen says it is the assisted fill's, *)
(* though each marker is a commit of its own and may fail, and though the  *)
(* automatic pipeline writes the same marker.                              *)
THEOREM OnScreenIsAssisted == AnswerSpec => []FillOnScreenIsAssisted
<1>1. AnswerInv => FillOnScreenIsAssisted
  BY DEF AnswerInv
<1> QED BY <1>1, AnswerInvHolds, PTL
----------------------------------------------------------------------------
(* The answers are handed over.                                            *)

LEMMA StepRuns ==
  ASSUME TypeOK, NEW p \in Processes, AnswerStep(p)
  PROVE  /\ Running(p) /\ job[p] \in Jobs
         /\ Running(p)' => job'[p] = job[p]
         /\ \A q \in Processes, k \in Jobs : owner'[k] = q => owner[k] = q
<1>1. Running(p) /\ job[p] \in Jobs
  <2>1. CASE ProcessStep(p)
    BY <2>1, ProcessStepRuns
  <2>2. CASE FormReached(p)
    BY <2>2 DEF FormReached, Running, TypeOK
  <2> QED BY <2>1, <2>2, AnswerStepIsStep
<1>2. Running(p)' => job'[p] = job[p]
  <2>1. CASE UNCHANGED vars
    BY <2>1 DEF vars, processVars
  <2>2. CASE Release(p)
    BY <2>2 DEF Release, Gone, Running, TypeOK
  <2>3. CASE ProcessStep(p) /\ ~Release(p)
    <3>1. UNCHANGED job
      BY <2>3 DEF ProcessStep, BrowserReady, BrowserNeverOpens, PollLosesLease, PollFinished,
         PollContinues, PollDirect, FillNeedsManualReview, FillFindsQuestions,
         RecordAssistedQuestions, FillLeavesNothing, RecordAssistedRefill, TakeAnswers,
         AnswersUnusable, AnswersTyped, DiscardAnswers, PauseForClosedBrowser, RecordOrExit,
         Goto, processVars
    <3> QED BY <3>1
  <2> QED BY <2>1, <2>2, <2>3, AnswerStepIsStep
<1>3. \A q \in Processes, k \in Jobs : owner'[k] = q => owner[k] = q
  <2>1. CASE UNCHANGED vars
    BY <2>1 DEF vars, leaseVars
  <2>2. CASE ProcessStep(p)
    BY <2>2, ProcessStepRows, OwnersAssumption
  <2> QED BY <2>1, <2>2, AnswerStepIsStep
<1> QED BY <1>1, <1>2, <1>3

(* How a process comes to handle answers.                                  *)
LEMMA IntoAnswering ==
  ASSUME TypeOK, NEW p \in Processes, ProcessStep(p), phase'[p] \in {"answering", "typing"}
  PROVE  \/ PollContinues(p) /\ state[job[p]] = "answers_provided" /\ state' = state
         \/ TakeAnswers(p) /\ state' = state
         \/ phase[p] \in {"answering", "typing"} /\ UNCHANGED vars
<1> USE DEF TypeOK
<1>1. ASSUME NEW to, Goto(p, to) PROVE to \in {"answering", "typing"}
  BY <1>1 DEF Goto
<1>2. ASSUME NEW from, NEW to, RecordOrExit(p, from, to) PROVE FALSE
  BY <1>2 DEF RecordOrExit, Goto
<1>3. CASE PollContinues(p)
  <2>1. state[job[p]] = "answers_provided"
    BY <1>1, <1>3 DEF PollContinues
  <2> QED BY <1>3, <2>1 DEF PollContinues, RenewAssistedLease
<1>4. CASE PollDirect(p)
  BY <1>4 DEF PollDirect, processVars
<1>5. CASE TakeAnswers(p)
  BY <1>5 DEF TakeAnswers, leaseVars
<1>6. ~BrowserReady(p) /\ ~BrowserNeverOpens(p) /\ ~PollLosesLease(p) /\ ~PollFinished(p)
  BY <1>1 DEF BrowserReady, BrowserNeverOpens, PollLosesLease, PollFinished
<1>7. ~FillFindsQuestions(p) /\ ~FillLeavesNothing(p) /\ ~DiscardAnswers(p) /\ ~PauseForClosedBrowser(p)
  BY <1>1 DEF FillFindsQuestions, FillLeavesNothing, DiscardAnswers, PauseForClosedBrowser
<1>8. /\ ~FillNeedsManualReview(p) /\ ~RecordAssistedQuestions(p) /\ ~RecordAssistedRefill(p)
      /\ ~AnswersUnusable(p) /\ ~AnswersTyped(p)
  BY <1>2 DEF FillNeedsManualReview, RecordAssistedQuestions, RecordAssistedRefill,
              AnswersUnusable, AnswersTyped
<1>9. ~Release(p)
  BY DEF Release, Gone
<1> QED BY <1>3, <1>4, <1>5, <1>6, <1>7, <1>8, <1>9 DEF ProcessStep

(* What leaves the cards of the rows' owners alone.                        *)
LEMMA CardStays ==
  ASSUME TypeOK, CardIsClosed, NEW who \in SUBSET Processes,
         \A q \in who : phase'[q] \in {"answering", "typing"} =>
           /\ phase[q] \in {"answering", "typing"} /\ job'[q] = job[q]
           /\ owner'[job[q]] = q =>
                owner[job[q]] = q /\ state'[job[q]] \in {state[job[q]], "completed"}
  PROVE  \A q \in who :
           phase'[q] \in {"answering", "typing"} /\ owner'[job'[q]] = q
             => state'[job'[q]] \in {"answers_provided", "completed"}
BY DEF CardIsClosed

LEMMA CardStep ==
  ASSUME AnswerTypeOK, CardIsClosed, [AnswerNext]_answerVars
  PROVE  CardIsClosed'
<1> USE DEF AnswerTypeOK, TypeOK, LeaseTypeOK
<1>1. ASSUME NEW p \in Processes, AnswerStep(p) PROVE CardIsClosed'
  <2>1. \A q \in Processes \ {p} :
          phase'[q] \in {"answering", "typing"} /\ owner'[job'[q]] = q
            => state'[job'[q]] \in {"answers_provided", "completed"}
    <3> DEFINE others == Processes \ {p}
    <3>1. \A q \in others : phase'[q] = phase[q] /\ job'[q] = job[q]
      BY <1>1, OthersStay
    <3>2. \A q \in others, k \in Jobs : owner'[k] = q => owner[k] = q
      BY <1>1, StepRuns
    <3>3. \A q \in others, k \in Jobs : owner[k] = q => state'[k] = state[k]
      <4>1. CASE UNCHANGED vars
        BY <4>1 DEF vars, leaseVars
      <4>2. CASE ProcessStep(p)
        BY <4>2, ProcessStepRows
      <4> QED BY <1>1, <4>1, <4>2, AnswerStepIsStep
    <3>4. \A q \in others : phase[q] \in {"answering", "typing"} => job[q] \in Jobs
      BY DEF Running
    <3>5. others \in SUBSET Processes
      OBVIOUS
    <3> HIDE DEF others
    <3>6. \A q \in others : phase'[q] \in {"answering", "typing"} =>
            /\ phase[q] \in {"answering", "typing"} /\ job'[q] = job[q]
            /\ owner'[job[q]] = q =>
                 owner[job[q]] = q /\ state'[job[q]] \in {state[job[q]], "completed"}
      BY <3>1, <3>2, <3>3, <3>4
    <3>7. \A q \in others :
            phase'[q] \in {"answering", "typing"} /\ owner'[job'[q]] = q
              => state'[job'[q]] \in {"answers_provided", "completed"}
      BY <3>5, <3>6, CardStays
    <3> QED BY <3>7 DEF others
  <2>2. ASSUME phase'[p] \in {"answering", "typing"}, owner'[job'[p]] = p
        PROVE  state'[job'[p]] \in {"answers_provided", "completed"}
    <3>1. job'[p] = job[p] /\ job[p] \in Jobs /\ owner[job[p]] = p
      BY <1>1, <2>2, StepRuns DEF Running
    <3>2. CASE UNCHANGED vars
      BY <2>2, <3>1, <3>2 DEF vars, processVars, leaseVars, CardIsClosed
    <3>3. CASE ProcessStep(p)
      <4>1. CASE PollContinues(p) /\ state[job[p]] = "answers_provided" /\ state' = state
        BY <3>1, <4>1
      <4>2. CASE TakeAnswers(p) /\ state' = state
        BY <3>1, <4>2 DEF TakeAnswers, CardIsClosed
      <4> QED BY <2>2, <3>2, <3>3, <4>1, <4>2, IntoAnswering
    <3> QED BY <1>1, <3>2, <3>3, AnswerStepIsStep
  <2> QED BY <2>1, <2>2 DEF CardIsClosed
<1>2. ASSUME \A q \in Processes : phase'[q] \in {"answering", "typing"} =>
               /\ phase[q] \in {"answering", "typing"} /\ job'[q] = job[q]
               /\ owner'[job[q]] = q =>
                    owner[job[q]] = q /\ state'[job[q]] \in {state[job[q]], "completed"}
      PROVE  CardIsClosed'
  BY <1>2, CardStays DEF CardIsClosed
<1>3. \A q \in Processes : phase[q] \in {"answering", "typing"} => job[q] \in Jobs
  BY DEF Running
<1>4. ASSUME NEW p \in Processes, NEW j \in Jobs, Launch(p, j) PROVE CardIsClosed'
  BY <1>2, <1>3, <1>4 DEF Launch, AcquireAssistedLease, Running
<1>5. ASSUME NEW p \in Processes, Closes(p) \/ Killed(p) PROVE CardIsClosed'
  BY <1>2, <1>3, <1>5, OwnersAssumption
  DEF Closes, BrowserCloses, Goto, Killed, Crash, Gone, LoseOwner, leaseVars
<1>6. ASSUME UNCHANGED <<phase, job, owner>>,
             \A k \in Jobs : CardIsClosed /\ state[k] \in {"answers_provided", "completed"}
                                => state'[k] \in {state[k], "completed"}
      PROVE  CardIsClosed'
  BY <1>3, <1>6 DEF CardIsClosed
<1>7. ASSUME NEW j \in Jobs,
             Submits(j) \/ Continues(j) \/ Completes(j) \/ FillsAutomatically(j)
      PROVE  CardIsClosed'
  BY <1>6, <1>7
  DEF Submits, OperatorAnswers, SubmitAssistedAnswers, CanSubmit, Continues, OperatorContinue,
      RequestAssistedContinue, Completes, OperatorCompletes, CompleteAssisted,
      FillsAutomatically, SetState, vars, processVars, leaseVars
<1>8. ASSUME NEW j \in Jobs, PlanCreated(j) \/ OperatorRevalidates(j) PROVE CardIsClosed'
  BY <1>6, <1>8
  DEF PlanCreated, EnsureAssistedPlan, OperatorRevalidates, RecordAssistedRevalidation,
      SetState, processVars
<1>9. ASSUME NEW j \in Jobs, RowPruned(j) PROVE CardIsClosed'
  BY <1>2, <1>3, <1>9, OwnersAssumption DEF RowPruned, RemoveAssistedRow
<1>10. ASSUME UNCHANGED <<state, owner, phase, job>> PROVE CardIsClosed'
  BY <1>10 DEF CardIsClosed
<1>11. ASSUME NEW j \in Jobs, NEW keys \in SUBSET Keys, ReadsCard(j, keys) \/ Prepares(j, keys)
       PROVE  CardIsClosed'
  BY <1>10, <1>11 DEF ReadsCard, Prepares, vars, processVars, leaseVars
<1>12. CASE ATick \/ UNCHANGED answerVars
  BY <1>10, <1>12 DEF ATick, Tick, Elapse, answerVars, vars, processVars, leaseVars
<1> QED BY <1>1, <1>4, <1>5, <1>7, <1>8, <1>9, <1>11, <1>12 DEF AnswerNext, Opens, Queue

(* Steps that neither take answers nor queue any, and make nobody an owner.*)
LEMMA HandoverStays ==
  ASSUME TypeOK, HandedOverOnce, TakenWhileTyping,
         \A q \in Processes : taken'[q] \in {taken[q], {}},
         \A q \in Processes : taken'[q] # {} =>
           job'[q] = job[q] /\ \A k \in Jobs : owner'[k] = q => owner[k] = q,
         \A k \in Jobs : pending'[k] \subseteq pending[k]
  PROVE  HandedOverOnce'
<1> SUFFICES ASSUME NEW q \in Processes, taken'[q] # {}, owner'[job'[q]] = q
             PROVE  taken'[q] \cap pending'[job'[q]] = {}
  BY DEF HandedOverOnce
<1>1. taken'[q] = taken[q] /\ job'[q] = job[q] /\ Running(q) /\ job[q] \in Jobs
  BY DEF TakenWhileTyping, TypeOK, Running
<1>2. owner[job[q]] = q
  BY <1>1
<1>3. taken[q] \cap pending[job[q]] = {}
  BY <1>1, <1>2 DEF HandedOverOnce
<1>4. pending'[job[q]] \subseteq pending[job[q]]
  BY <1>1
<1> QED BY <1>1, <1>3, <1>4

LEMMA HandoverStep ==
  ASSUME AnswerTypeOK, CardIsClosed, TakenWhileTyping, HandedOverOnce,
         [AnswerNext]_answerVars
  PROVE  HandedOverOnce'
<1> USE DEF AnswerTypeOK, TypeOK, LeaseTypeOK, QuestionTypeOK
<1>1. ASSUME NEW p \in Processes, AnswerStep(p) PROVE HandedOverOnce'
  <2>1. \A q \in Processes, k \in Jobs : owner'[k] = q => owner[k] = q
    BY <1>1, StepRuns
  <2>2. \A k \in Jobs : pending'[k] \subseteq pending[k]
    BY <1>1, AnswerStepTables
  <2>3. \A q \in Processes \ {p} : taken'[q] = taken[q] /\ job'[q] = job[q]
    BY <1>1, AnswerStepTables, OthersStay
  <2>4. CASE TakesAnswers(p)
    <3> SUFFICES ASSUME NEW q \in Processes, taken'[q] # {}, owner'[job'[q]] = q
                 PROVE  taken'[q] \cap pending'[job'[q]] = {}
      BY DEF HandedOverOnce
    <3>1. CASE q = p
      <4>1. job'[p] = job[p] /\ job[p] \in Jobs
        BY <1>1, <2>4, StepRuns DEF TakesAnswers, TakeAnswers, Goto
      <4> QED BY <2>4, <3>1, <4>1 DEF TakesAnswers, RemovePendingAnswers
    <3>2. CASE q # p
      <4>1. taken[q] # {} /\ job'[q] = job[q] /\ job[q] \in Jobs /\ Running(q)
        BY <2>3, <3>2 DEF TakenWhileTyping, Running
      <4>2. owner[job[q]] = q
        BY <2>1, <4>1
      <4>3. taken[q] \cap pending[job[q]] = {}
        BY <4>1, <4>2 DEF HandedOverOnce
      <4>4. taken'[q] = taken[q] /\ pending'[job[q]] \subseteq pending[job[q]]
        BY <2>2, <2>3, <3>2, <4>1
      <4> QED BY <4>1, <4>3, <4>4
    <3> QED BY <3>1, <3>2
  <2>5. CASE ~TakesAnswers(p)
    <3>1. taken'[p] \in {taken[p], {}}
      BY <1>1, <2>5
      DEF AnswerStep, Polls, Proceeds, Elsewhere, FormReached, FindsQuestions, FindsNothing,
          CannotType, Types, Discards, Forget
    <3>2. taken'[p] # {} => job'[p] = job[p]
      <4>1. taken'[p] # {} => phase'[p] = "typing"
        BY <1>1, TakenStep DEF AnswerNext, TakenWhileTyping
      <4> QED BY <1>1, <4>1, StepRuns DEF Running
    <3> QED BY <2>1, <2>2, <2>3, <3>1, <3>2, HandoverStays
  <2> QED BY <2>4, <2>5
<1>2. ASSUME NEW p \in Processes, Opens(p) PROVE HandedOverOnce'
  <2>1. PICK j \in Jobs : Launch(p, j)
    BY <1>2 DEF Opens
  <2>2. \A q \in Processes : taken[q] # {} => q # p
    BY <2>1 DEF Launch, TakenWhileTyping, Running
  <2>3. \A q \in Processes : taken[q] # {} =>
          job'[q] = job[q] /\ \A k \in Jobs : owner'[k] = q => owner[k] = q
    BY <2>1, <2>2 DEF Launch, AcquireAssistedLease
  <2> QED BY <1>2, <2>3, HandoverStays DEF Opens, Elsewhere, questionVars
<1>3. ASSUME NEW p \in Processes, Closes(p) \/ Killed(p) PROVE HandedOverOnce'
  <2>1. \A q \in Processes, k \in Jobs : owner'[k] = q => owner[k] = q
    BY <1>3, OwnersAssumption
    DEF Closes, BrowserCloses, Killed, Crash, LoseOwner, leaseVars
  <2>2. \A q \in Processes : taken'[q] \in {taken[q], {}} /\ (taken'[q] # {} => job'[q] = job[q])
    BY <1>3 DEF Closes, BrowserCloses, Goto, Elsewhere, Killed, Crash, Gone, Forget
  <2> QED BY <1>3, <2>1, <2>2, HandoverStays DEF Closes, Elsewhere, Killed, questionVars
<1>4. ASSUME UNCHANGED <<taken, job>>, \A k \in Jobs : pending'[k] \subseteq pending[k],
             \A k \in Jobs : owner'[k] \in {owner[k], NoOwner}
      PROVE  HandedOverOnce'
  BY <1>4, HandoverStays, OwnersAssumption
<1>5. ASSUME NEW j \in Jobs, NEW keys \in SUBSET Keys, ReadsCard(j, keys) \/ Prepares(j, keys)
      PROVE  HandedOverOnce'
  BY <1>4, <1>5
  DEF ReadsCard, Prepares, RecordPreparedQuestions, questionVars, vars, leaseVars, processVars
<1>6. ASSUME NEW j \in Jobs, Submits(j) PROVE HandedOverOnce'
  <2>1. CASE UNCHANGED <<vars, questionVars>>
    BY <1>4, <1>6, <2>1 DEF Submits, questionVars, vars, leaseVars, processVars
  <2>2. CASE OperatorAnswers(j) /\ QueueAnswers(j, form[j])
    <3>1. state[j] = "needs_answers" /\ UNCHANGED <<taken, phase, job, owner>>
      BY <1>6, <2>2
      DEF Submits, OperatorAnswers, SubmitAssistedAnswers, CanSubmit, SetState, processVars
    <3>2. \A k \in Jobs \ {j} : pending'[k] = pending[k]
      BY <2>2 DEF QueueAnswers
    <3> SUFFICES ASSUME NEW q \in Processes, taken[q] # {}, owner[job[q]] = q
                 PROVE  taken[q] \cap pending'[job[q]] = {}
      BY <3>1 DEF HandedOverOnce
    <3>3. phase[q] = "typing" /\ job[q] \in Jobs \ {j}
      BY <3>1 DEF TakenWhileTyping, CardIsClosed, Running
    <3> QED BY <3>2, <3>3 DEF HandedOverOnce, Running
  <2> QED BY <1>6, <2>1, <2>2 DEF Submits
<1>7. ASSUME NEW j \in Jobs, Continues(j) \/ Completes(j) \/ FillsAutomatically(j) \/ Queue(j)
      PROVE  HandedOverOnce'
  BY <1>4, <1>7
  DEF Continues, OperatorContinue, RequestAssistedContinue, Completes, OperatorCompletes,
      CompleteAssisted, RemovePendingAnswers, FillsAutomatically, MarkFillAttempted, Queue,
      PlanCreated, EnsureAssistedPlan, RowPruned, RemoveAssistedRow, OperatorRevalidates,
      RecordAssistedRevalidation, SetState, Elsewhere, questionVars, vars, leaseVars,
      processVars
<1>8. CASE ATick \/ UNCHANGED answerVars
  BY <1>4, <1>8
  DEF ATick, Tick, Elapse, Elsewhere, answerVars, questionVars, vars, leaseVars, processVars
<1> QED BY <1>1, <1>2, <1>3, <1>5, <1>6, <1>7, <1>8 DEF AnswerNext

LEMMA HandoverInvHolds == AnswerSpec => []HandoverInv
<1>1. AnswerInit => HandoverInv
  <2> SUFFICES ASSUME AnswerInit PROVE HandoverInv
    OBVIOUS
  <2>1. CardIsClosed /\ HandedOverOnce
    BY DEF AnswerInit, Init, CardIsClosed, HandedOverOnce
  <2> QED BY <2>1, AnswerInvInit DEF HandoverInv
<1>2. HandoverInv /\ [AnswerNext]_answerVars => HandoverInv'
  <2> SUFFICES ASSUME HandoverInv, [AnswerNext]_answerVars PROVE HandoverInv'
    OBVIOUS
  <2>1. AnswerInv'
    BY AnswerInvStep DEF HandoverInv
  <2>2. CardIsClosed' /\ HandedOverOnce'
    BY CardStep, HandoverStep DEF HandoverInv, AnswerInv
  <2> QED BY <2>1, <2>2 DEF HandoverInv
<1> QED BY <1>1, <1>2, PTL DEF AnswerSpec

(* With questions and answers on top, too, a browser is joined by another  *)
(* only after it let its heartbeat window pass or its row was deleted.     *)
THEOREM OneProcessAnswers == AnswerSpec => []AnotherOnlyAfterLapse
BY AnswersKeepProcess, OneProcess, PTL

(* An answer that the owner of a row holds is not in the table as well:    *)
(* the take and the delete are one transaction, and the card that could    *)
(* queue it once more stays closed until the owner has typed or dropped    *)
(* it, or has lost its row, however many processes lapsed before.          *)
THEOREM AnswersHandedOver == AnswerSpec => []HandedOverOnce
<1>1. HandoverInv => HandedOverOnce
  BY DEF HandoverInv
<1> QED BY <1>1, HandoverInvHolds, PTL

-----------------------------------------------------------------------------
(* An apply session: the session and the rows agree.                       *)

(* advanceApplySession opens a job only after a pick that found no item in *)
(* progress, and nothing else puts one in progress meanwhile: this is what *)
(* the mutex around it is worth.                                           *)
PickedIsAlone ==
  advance \in {"picked", "cleared"} /\ Open => \A j \in Jobs : item[j] # "in_progress"

AdvanceHasJob == advance # "idle" => next \in Jobs

SessionInv == FlowTypeOK /\ AdvanceHasJob /\ PickedIsAlone /\ OneInProgress

----------------------------------------------------------------------------
(* The browser processes are those of AssistProcess.                       *)

LEMMA BrowserStepIsStep ==
  ASSUME NEW p \in Processes, BrowserStep(p)
  PROVE  ProcessStep(p)
BY DEF BrowserStep, BrowserIsReady, BrowserGoes, BrowserReleases, PollSession,
       PollDirectBrowser, PauseForClosed, ProcessStep

LEMMA AdvanceStepIsStep ==
  ASSUME FlowTypeOK, AdvanceHasJob, AdvanceStep
  PROVE  [Next]_vars
<1>1. CASE UNCHANGED vars
  BY <1>1
<1>2. ASSUME NEW p \in Processes, ChildClaims(p) PROVE [Next]_vars
  <2>1. next \in Jobs
    BY <1>2 DEF ChildClaims, AdvanceHasJob
  <2> QED BY <1>2, <2>1 DEF ChildClaims, Next
<1>3. CASE ReadyTimeout
  <2>1. child \in Processes
    BY <1>3 DEF ReadyTimeout, FlowTypeOK
  <2> QED BY <1>3, <2>1 DEF ReadyTimeout, Next
<1> QED BY <1>1, <1>2, <1>3 DEF AdvanceStep, PickNext, CheckNext, DeferNext, MarkNext,
                                ChildRefused, PauseAfterFailedLaunch

LEMMA FlowNextIsNext ==
  ASSUME FlowTypeOK, AdvanceHasJob, [FlowNext]_flowVars
  PROVE  [Next]_vars
<1>1. CASE AdvanceStep
  BY <1>1, AdvanceStepIsStep
<1>2. CASE DashboardRestart
  BY <1>2 DEF DashboardRestart
<1>3. ASSUME NEW p \in Processes, BrowserStep(p) PROVE [Next]_vars
  BY <1>3, BrowserStepIsStep DEF Next
<1>4. ASSUME NEW p \in Processes, WindowClosed(p) \/ ProcessKilled(p) PROVE [Next]_vars
  BY <1>4 DEF WindowClosed, ProcessKilled, Next
<1>5. CASE OperatorActs
  <2>1. ASSUME NEW j \in Jobs, Confirm(j) \/ QueuePage(j) \/ Skip(j)
        PROVE  [Next]_vars
    BY <2>1 DEF Confirm, Decide, QueuePage, Skip, Next, OperatorStep
  <2>2. ASSUME NEW p \in Processes, NEW j \in Jobs, ManualLaunch(p, j) PROVE [Next]_vars
    BY <2>2 DEF ManualLaunch, Next
  <2> QED BY <1>5, <2>1, <2>2 DEF OperatorActs, Start, Control
<1>6. CASE FlowTick \/ UNCHANGED flowVars
  BY <1>6 DEF FlowTick, flowVars, codeVars, Next
<1> QED BY <1>1, <1>2, <1>3, <1>4, <1>5, <1>6 DEF FlowNext, FlowStep
----------------------------------------------------------------------------
(* Types.                                                                  *)

LEMMA FlowInitType == FlowInit => FlowTypeOK /\ AdvanceHasJob
<1> SUFFICES ASSUME FlowInit PROVE FlowTypeOK /\ AdvanceHasJob
  OBVIOUS
<1>1. TypeOK
  BY InitType DEF FlowInit
<1> QED BY <1>1 DEF FlowInit, SessionInit, FlowTypeOK, SessionTypeOK, SessionStates, ItemStates,
                    AdvancePhases, AdvanceHasJob

LEMMA OutcomeType ==
  ASSUME SessionTypeOK, NEW j \in Jobs, NEW outcome \in TerminalItemStates,
         AdvanceApplySessionItem(j, outcome)
  PROVE  SessionTypeOK'
<1> USE DEF SessionTypeOK, SessionStates, ItemStates, TerminalItemStates
<1>1. CASE UNCHANGED sessionVars
  BY <1>1 DEF sessionVars
<1>2. CASE FinishIfComplete([item EXCEPT ![j] = outcome])
  <2> DEFINE items == [item EXCEPT ![j] = outcome]
  <2>1. items \in [Jobs -> ItemStates]
    OBVIOUS
  <2> HIDE DEF items
  <2> QED BY <1>2, <2>1 DEF FinishIfComplete
<1> QED BY <1>1, <1>2 DEF AdvanceApplySessionItem

LEMMA PauseType ==
  ASSUME SessionTypeOK, NEW j \in Jobs, PauseApplySessionForClosedBrowser(j)
  PROVE  SessionTypeOK'
BY DEF SessionTypeOK, SessionStates, ItemStates, PauseApplySessionForClosedBrowser, sessionVars

(* What advanceApplySession and the session are when a step is over.       *)
Advance ==
  /\ SessionTypeOK
  /\ advance \in AdvancePhases
  /\ next \in Jobs \union {NoJob}
  /\ child \in Processes \union {NoOwner}
  /\ child # NoOwner <=> advance = "waiting"
  /\ AdvanceHasJob

LEMMA AdvanceToType ==
  ASSUME NEW where \in AdvancePhases \ {"waiting", "idle"}, NEW j \in Jobs,
         AdvanceTo(where, j, NoOwner) \/ AdvanceDone, SessionTypeOK'
  PROVE  Advance'
BY DEF Advance, AdvanceTo, AdvanceDone, AdvanceHasJob, AdvancePhases

LEMMA AdvanceStepType ==
  ASSUME FlowTypeOK, AdvanceHasJob, AdvanceStep
  PROVE  Advance'
<1> USE DEF FlowTypeOK, AdvancePhases
<1>1. advance # "idle" => next \in Jobs
  BY DEF AdvanceHasJob
<1>2. ASSUME UNCHANGED sessionVars PROVE SessionTypeOK'
  BY <1>2 DEF SessionTypeOK, sessionVars
<1>3. ASSUME NEW j \in Jobs, PickNext(j) PROVE Advance'
  BY <1>2, <1>3, AdvanceToType DEF PickNext
<1>4. CASE CheckNext \/ ChildRefused \/ ReadyTimeout
  BY <1>1, <1>2, <1>4, AdvanceToType DEF CheckNext, ChildRefused, ReadyTimeout
<1>5. CASE DeferNext
  BY <1>1, <1>5, OutcomeType, AdvanceToType DEF DeferNext, TerminalItemStates
<1>6. CASE MarkNext
  <2>1. SessionTypeOK'
    BY <1>1, <1>6 DEF MarkNext, MarkApplySessionItemOpen, SessionTypeOK, ItemStates
  <2> QED BY <1>1, <1>6, <2>1, AdvanceToType DEF MarkNext
<1>7. ASSUME NEW p \in Processes, ChildClaims(p) PROVE Advance'
  BY <1>1, <1>2, <1>7 DEF ChildClaims, AdvanceTo, Advance, AdvanceHasJob
<1>8. CASE PauseAfterFailedLaunch
  BY <1>1, <1>8, PauseType, AdvanceToType DEF PauseAfterFailedLaunch
<1> QED BY <1>3, <1>4, <1>5, <1>6, <1>7, <1>8 DEF AdvanceStep

LEMMA FlowNextType ==
  ASSUME FlowTypeOK, AdvanceHasJob, [FlowNext]_flowVars
  PROVE  FlowTypeOK' /\ AdvanceHasJob'
<1>1. TypeOK /\ TypeOK' /\ Advance
  BY FlowNextIsNext, NextType DEF FlowTypeOK, Advance
<1>2. ASSUME UNCHANGED sessionVars PROVE SessionTypeOK'
  BY <1>1, <1>2 DEF Advance, SessionTypeOK, sessionVars
<1>3. ASSUME UNCHANGED advanceVars, SessionTypeOK' PROVE Advance'
  BY <1>1, <1>3 DEF Advance, advanceVars, AdvanceHasJob
<1>4. SessionTypeOK
  BY <1>1 DEF Advance
<1>5. ASSUME AdvanceDone, SessionTypeOK' PROVE Advance'
  BY <1>5 DEF Advance, AdvanceDone, AdvanceTo, AdvanceHasJob, AdvancePhases
<1>6. ASSUME NEW p \in Processes, LauncherNotices(p), SessionTypeOK' PROVE Advance'
  <2>1. child = p => next \in Jobs
    BY <1>1, OwnersAssumption DEF Advance, AdvanceHasJob
  <2>2. "failed" \in AdvancePhases \ {"waiting", "idle"}
    BY DEF AdvancePhases
  <2> QED BY <1>3, <1>6, <2>1, <2>2, AdvanceToType DEF LauncherNotices
<1>7. ASSUME AdvanceStep PROVE Advance'
  BY <1>7, AdvanceStepType
<1>8. ASSUME DashboardRestart PROVE Advance'
  BY <1>2, <1>8, <1>5 DEF DashboardRestart
<1>9. ASSUME NEW p \in Processes, BrowserStep(p) PROVE Advance'
  <2>1. CASE BrowserIsReady(p)
    BY <1>2, <1>3, <1>5, <2>1 DEF BrowserIsReady
  <2>2. CASE BrowserGoes(p) \/ PollSession(p) \/ PollDirectBrowser(p)
    BY <1>2, <1>3, <2>2 DEF BrowserGoes, PollSession, PollDirectBrowser, Quiet
  <2>3. CASE BrowserReleases(p)
    BY <1>2, <1>6, <2>3 DEF BrowserReleases
  <2>4. CASE PauseForClosed(p)
    <3>1. job[p] \in Jobs
      BY <1>1, <1>9, BrowserStepIsStep, ProcessStepRuns
    <3> QED BY <1>4, <1>3, <2>4, <3>1, PauseType DEF PauseForClosed
  <2> QED BY <1>9, <2>1, <2>2, <2>3, <2>4 DEF BrowserStep
<1>10. ASSUME NEW p \in Processes, WindowClosed(p) \/ ProcessKilled(p) PROVE Advance'
  BY <1>2, <1>3, <1>6, <1>10 DEF WindowClosed, ProcessKilled, Quiet
<1>11. ASSUME OperatorActs PROVE Advance'
  <2>1. ASSUME NEW j \in Jobs, Confirm(j) \/ QueuePage(j) \/ Skip(j)
        PROVE  SessionTypeOK'
    BY <1>4, <1>2, <2>1, OutcomeType
    DEF Confirm, Decide, QueuePage, Quiet, Skip, TerminalItemStates
  <2>2. ASSUME NEW selected \in SUBSET Jobs, Start(selected) PROVE SessionTypeOK'
    BY <2>2 DEF Start, StartApplySession, SessionTypeOK, SessionStates, ItemStates
  <2>3. ASSUME Control PROVE SessionTypeOK'
    BY <1>4, <2>3 DEF Control, SetApplySessionState, SetApplySessionStopAfterCurrent, StopApplySession,
                SessionTypeOK, SessionStates, ItemStates, TerminalItemStates
  <2>4. ASSUME NEW p \in Processes, NEW j \in Jobs, ManualLaunch(p, j) PROVE SessionTypeOK'
    BY <1>2, <2>4 DEF ManualLaunch, Quiet
  <2>5. UNCHANGED advanceVars
    BY <1>11 DEF OperatorActs, ManualLaunch, Confirm, Decide, QueuePage, Skip, Start,
                Control, Quiet
  <2> QED BY <1>3, <1>11, <2>1, <2>2, <2>3, <2>4, <2>5 DEF OperatorActs
<1>12. ASSUME FlowTick \/ UNCHANGED flowVars PROVE Advance'
  BY <1>2, <1>3, <1>12 DEF FlowTick, Quiet, flowVars, codeVars
<1>13. Advance'
  BY <1>7, <1>8, <1>9, <1>10, <1>11, <1>12 DEF FlowNext, FlowStep
<1>14. abandoned' \subseteq Jobs
  BY DEF FlowNext, Abandoning, FlowTypeOK, flowVars
<1> QED BY <1>1, <1>13, <1>14 DEF Advance, FlowTypeOK

LEMMA FlowTypeHolds == FlowSpec => [](FlowTypeOK /\ AdvanceHasJob)
<1>1. FlowTypeOK /\ AdvanceHasJob /\ [FlowNext]_flowVars => (FlowTypeOK /\ AdvanceHasJob)'
  BY FlowNextType
<1> QED BY <1>1, FlowInitType, PTL DEF FlowSpec

(* The session, its launches and its goroutine keep their types.           *)
THEOREM FlowTypeCorrect == FlowSpec => []FlowTypeOK
BY FlowTypeHolds, PTL

(* A launch by advanceApplySession, a launch by hand, a timeout that kills *)
(* the child and a dashboard that restarts are all things AssistProcess    *)
(* allows, so what is promised there holds of the browsers of a session.   *)
THEOREM SessionsKeepProcess == FlowSpec => Spec
<1>1. FlowInit => Init
  BY DEF FlowInit, Init, LeaseInit
<1>2. FlowTypeOK /\ AdvanceHasJob /\ [FlowNext]_flowVars => [Next]_vars
  BY FlowNextIsNext
<1> QED BY <1>1, <1>2, FlowTypeHolds, PTL DEF FlowSpec, Spec

(* Automatic and manual launches together put a browser beside another     *)
(* only after that one let its window pass or its row was deleted.         *)
THEOREM OneSessionProcess == FlowSpec => []AnotherOnlyAfterLapse
BY SessionsKeepProcess, OneProcess, PTL
----------------------------------------------------------------------------
(* At most one item in progress.                                           *)

(* A step that puts no item in progress, unless in a session just started. *)
NoneAdded ==
  Open' =>
    \/ Open /\ \A j \in Jobs : item'[j] = "in_progress" => item[j] = "in_progress"
    \/ \A j \in Jobs : item'[j] # "in_progress"

LEMMA NoneAddedKeeps ==
  ASSUME NoneAdded
  PROVE  /\ OneInProgress => OneInProgress'
         /\ PickedIsAlone /\ (advance' \in {"picked", "cleared"} => advance \in {"picked", "cleared"})
              => PickedIsAlone'
BY DEF NoneAdded, OneInProgress, PickedIsAlone

LEMMA OutcomeAddsNone ==
  ASSUME SessionTypeOK, NEW j \in Jobs, NEW outcome \in TerminalItemStates,
         AdvanceApplySessionItem(j, outcome)
  PROVE  NoneAdded
<1>1. CASE UNCHANGED sessionVars
  BY <1>1 DEF NoneAdded, sessionVars, Open
<1>2. CASE Open /\ FinishIfComplete([item EXCEPT ![j] = outcome])
  <2> DEFINE items == [item EXCEPT ![j] = outcome]
  <2>1. \A k \in Jobs : items[k] = "in_progress" => item[k] = "in_progress"
    BY DEF SessionTypeOK, TerminalItemStates
  <2> HIDE DEF items
  <2>2. \A k \in Jobs : item'[k] = "in_progress" => items[k] = "in_progress"
    BY <1>2, Zenon DEF FinishIfComplete, items
  <2> QED BY <1>2, <2>1, <2>2 DEF NoneAdded
<1> QED BY <1>1, <1>2 DEF AdvanceApplySessionItem

LEMMA PauseAddsNone ==
  ASSUME SessionTypeOK, NEW j \in Jobs, PauseApplySessionForClosedBrowser(j)
  PROVE  NoneAdded
BY DEF PauseApplySessionForClosedBrowser, SessionTypeOK, NoneAdded, sessionVars, Open

LEMMA BrowserAddsNone ==
  ASSUME FlowTypeOK, NEW p \in Processes, BrowserStep(p)
  PROVE  NoneAdded
<1>1. CASE UNCHANGED sessionVars
  BY <1>1 DEF NoneAdded, sessionVars, Open
<1>2. CASE PauseForClosed(p)
  <2>1. job[p] \in Jobs
    BY BrowserStepIsStep, ProcessStepRuns DEF FlowTypeOK
  <2> QED BY <1>2, <2>1, PauseAddsNone DEF PauseForClosed, FlowTypeOK
<1> QED BY <1>1, <1>2 DEF BrowserStep, BrowserIsReady, BrowserGoes, BrowserReleases,
                          PollSession, PollDirectBrowser, Quiet

LEMMA OperatorAddsNone ==
  ASSUME FlowTypeOK, OperatorActs
  PROVE  NoneAdded
<1> USE DEF FlowTypeOK
<1>1. ASSUME UNCHANGED sessionVars PROVE NoneAdded
  BY <1>1 DEF NoneAdded, sessionVars, Open
<1>2. ASSUME NEW j \in Jobs, Confirm(j) \/ QueuePage(j) \/ Skip(j)
      PROVE  NoneAdded
  BY <1>1, <1>2, OutcomeAddsNone
  DEF Confirm, Decide, QueuePage, Quiet, Skip, TerminalItemStates
<1>3. ASSUME NEW selected \in SUBSET Jobs, Start(selected) PROVE NoneAdded
  BY <1>3 DEF Start, StartApplySession, NoneAdded
<1>4. CASE Control
  BY <1>4 DEF Control, SetApplySessionState, SetApplySessionStopAfterCurrent, StopApplySession,
              NoneAdded, Open
<1>5. ASSUME NEW p \in Processes, NEW j \in Jobs, ManualLaunch(p, j) PROVE NoneAdded
  BY <1>1, <1>5 DEF ManualLaunch, Quiet
<1> QED BY <1>2, <1>3, <1>4, <1>5 DEF OperatorActs

LEMMA AdvanceOne ==
  ASSUME FlowTypeOK, AdvanceHasJob, PickedIsAlone, OneInProgress, AdvanceStep
  PROVE  PickedIsAlone' /\ OneInProgress'
<1> USE DEF FlowTypeOK
<1>1. advance # "idle" => next \in Jobs
  BY DEF AdvanceHasJob
<1>2. ASSUME UNCHANGED sessionVars PROVE NoneAdded
  BY <1>2 DEF NoneAdded, sessionVars, Open
<1>3. ASSUME NEW j \in Jobs, PickNext(j) PROVE PickedIsAlone' /\ OneInProgress'
  BY <1>3 DEF PickNext, NextApplySessionJob, sessionVars, PickedIsAlone, OneInProgress
<1>4. CASE CheckNext
  BY <1>2, <1>4, NoneAddedKeeps DEF CheckNext
<1>5. CASE MarkNext
  <2>1. PickedIsAlone'
    BY <1>5 DEF MarkNext, AdvanceTo, PickedIsAlone
  <2>2. OneInProgress'
    BY <1>1, <1>5 DEF MarkNext, MarkApplySessionItemOpen, SessionTypeOK, PickedIsAlone,
                      OneInProgress, Open
  <2> QED BY <2>1, <2>2
<1>6. ASSUME NoneAdded, advance' \notin {"picked", "cleared"}
      PROVE  PickedIsAlone' /\ OneInProgress'
  BY <1>6, NoneAddedKeeps
<1>7. CASE DeferNext
  BY <1>1, <1>6, <1>7, OutcomeAddsNone
  DEF DeferNext, TerminalItemStates, AdvanceDone, AdvanceTo
<1>8. CASE PauseAfterFailedLaunch
  BY <1>1, <1>6, <1>8, PauseAddsNone DEF PauseAfterFailedLaunch, AdvanceDone, AdvanceTo
<1>9. ASSUME NEW p \in Processes, ChildClaims(p) PROVE PickedIsAlone' /\ OneInProgress'
  BY <1>2, <1>6, <1>9 DEF ChildClaims, AdvanceTo
<1>10. CASE ChildRefused \/ ReadyTimeout
  BY <1>2, <1>6, <1>10 DEF ChildRefused, ReadyTimeout, AdvanceTo
<1> QED BY <1>3, <1>4, <1>5, <1>7, <1>8, <1>9, <1>10 DEF AdvanceStep

LEMMA SessionInvStep == SessionInv /\ [FlowNext]_flowVars => SessionInv'
<1> SUFFICES ASSUME SessionInv, [FlowNext]_flowVars PROVE SessionInv'
  OBVIOUS
<1> USE DEF SessionInv
<1>1. FlowTypeOK' /\ AdvanceHasJob'
  BY FlowNextType
<1>2. ASSUME NoneAdded,
             advance' \in {"picked", "cleared"} => advance \in {"picked", "cleared"}
      PROVE  PickedIsAlone' /\ OneInProgress'
  BY <1>2, NoneAddedKeeps
<1>3. ASSUME UNCHANGED sessionVars PROVE NoneAdded
  BY <1>3 DEF NoneAdded, sessionVars, Open
<1>4. ASSUME AdvanceStep PROVE PickedIsAlone' /\ OneInProgress'
  BY <1>4, AdvanceOne
<1>5. ASSUME DashboardRestart PROVE PickedIsAlone' /\ OneInProgress'
  BY <1>2, <1>3, <1>5 DEF DashboardRestart, AdvanceDone, AdvanceTo
<1>6. ASSUME NEW p \in Processes, BrowserStep(p) PROVE PickedIsAlone' /\ OneInProgress'
  BY <1>2, <1>6, BrowserAddsNone
  DEF BrowserStep, BrowserIsReady, BrowserGoes, BrowserReleases, PollSession,
      PollDirectBrowser, PauseForClosed, Quiet, LauncherNotices, AdvanceDone, AdvanceTo,
      advanceVars
<1>7. ASSUME NEW p \in Processes, WindowClosed(p) \/ ProcessKilled(p)
      PROVE  PickedIsAlone' /\ OneInProgress'
  BY <1>2, <1>3, <1>7
  DEF WindowClosed, ProcessKilled, Quiet, LauncherNotices, AdvanceTo, advanceVars
<1>8. ASSUME OperatorActs PROVE PickedIsAlone' /\ OneInProgress'
  <2>1. UNCHANGED advance
    BY <1>8 DEF OperatorActs, ManualLaunch, Confirm, Decide, QueuePage, Skip, Start,
                Control, Quiet, advanceVars
  <2> QED BY <1>2, <1>8, <2>1, OperatorAddsNone
<1>9. ASSUME FlowTick \/ UNCHANGED flowVars PROVE PickedIsAlone' /\ OneInProgress'
  BY <1>2, <1>3, <1>9 DEF FlowTick, Quiet, flowVars, codeVars, advanceVars
<1> QED BY <1>1, <1>4, <1>5, <1>6, <1>7, <1>8, <1>9 DEF FlowNext, FlowStep

LEMMA SessionInvHolds == FlowSpec => []SessionInv
<1>1. FlowInit => SessionInv
  BY FlowInitType DEF FlowInit, SessionInit, SessionInv, PickedIsAlone, OneInProgress, Open
<1> QED BY <1>1, SessionInvStep, PTL DEF FlowSpec

(* A session has at most one item in progress, though the pick and the     *)
(* mark are two statements, the browser that ends it is another process,   *)
(* and the operator may start, stop and decide in between.                 *)
THEOREM OneItemInProgress == FlowSpec => []OneInProgress
<1>1. SessionInv => OneInProgress
  BY DEF SessionInv
<1> QED BY <1>1, SessionInvHolds, PTL
----------------------------------------------------------------------------
(* Rows and items change together.                                         *)

LEMMA OnlyDecideCompletes ==
  ASSUME FlowTypeOK, AdvanceHasJob, [FlowNext]_flowVars, NEW j \in Jobs,
         state[j] # "completed", state'[j] = "completed"
  PROVE  \E outcome \in TerminalItemStates : Decide(j, outcome)
<1> USE DEF FlowTypeOK, TypeOK, LeaseTypeOK
<1>1. ASSUME state' = state PROVE FALSE
  BY <1>1
<1>2. ASSUME NEW p \in Processes, NEW k \in Jobs, Launch(p, k) PROVE FALSE
  BY <1>2 DEF Launch, AcquireAssistedLease
<1>3. ASSUME NEW p, Crash(p) PROVE FALSE
  BY <1>1, <1>3 DEF Crash, LoseOwner
<1>4. ~AdvanceStep
  <2>1. ASSUME NEW p \in Processes, ChildClaims(p) PROVE FALSE
    BY <1>2, <2>1 DEF ChildClaims, AdvanceHasJob
  <2> QED BY <1>1, <1>3, <2>1
      DEF AdvanceStep, PickNext, CheckNext, DeferNext, MarkNext, ChildRefused, ReadyTimeout,
          PauseAfterFailedLaunch, vars, leaseVars
<1>5. ASSUME NEW p \in Processes, BrowserStep(p) PROVE FALSE
  BY <1>5, BrowserStepIsStep, ProcessStepDone DEF Done
<1>6. ASSUME NEW p \in Processes, WindowClosed(p) \/ ProcessKilled(p) PROVE FALSE
  BY <1>1, <1>3, <1>6 DEF WindowClosed, ProcessKilled, BrowserCloses, leaseVars
<1>7. ASSUME NEW p \in Processes, NEW k \in Jobs, ManualLaunch(p, k) PROVE FALSE
  BY <1>2, <1>7 DEF ManualLaunch
<1>8. ASSUME NEW k \in Jobs, QueuePage(k) \/ Skip(k) PROVE FALSE
  BY <1>1, <1>8 DEF QueuePage, OperatorRevalidates, RecordAssistedRevalidation, RowPruned,
                    RemoveAssistedRow, SetState, Skip, vars, leaseVars
<1>9. ASSUME NEW k \in Jobs, Confirm(k)
      PROVE  \E outcome \in TerminalItemStates : Decide(j, outcome)
  <2>1. k = j
    BY <1>9 DEF Confirm, Decide, OperatorCompletes, CompleteAssisted, SetState
  <2> QED BY <1>9, <2>1 DEF Confirm, TerminalItemStates
<1>10. ASSUME \/ \E selected \in SUBSET Jobs : Start(selected)
              \/ Control \/ DashboardRestart \/ UNCHANGED flowVars
       PROVE  FALSE
  BY <1>1, <1>10 DEF Start, Control, DashboardRestart, flowVars, codeVars, vars, leaseVars
<1>11. ~FlowTick
  BY <1>1 DEF FlowTick, Tick, Elapse
<1> QED BY <1>4, <1>5, <1>6, <1>7, <1>8, <1>9, <1>10, <1>11 DEF FlowNext, FlowStep, OperatorActs

(* "There is no window in which an application is confirmed but the        *)
(* session still thinks it is open": no step completes a row and leaves    *)
(* its item to be worked.                                                  *)
THEOREM OutcomesTogether == FlowSpec => OutcomesCommitTogether
<1>1. FlowTypeOK /\ AdvanceHasJob /\ [FlowNext]_flowVars =>
        [\A j \in Jobs : (Open /\ state[j] # "completed" /\ state'[j] = "completed")
                          => ~Unfinished(item', j)]_flowVars
  <2> SUFFICES ASSUME FlowTypeOK, AdvanceHasJob, [FlowNext]_flowVars, NEW j \in Jobs,
                      Open, state[j] # "completed", state'[j] = "completed"
               PROVE  ~Unfinished(item', j)
    OBVIOUS
  <2>1. PICK outcome \in TerminalItemStates : Decide(j, outcome)
    BY OnlyDecideCompletes
  <2>2. CASE Unfinished(item, j)
    <3>1. item'[j] = outcome
      BY <2>1, <2>2 DEF Decide, AdvanceApplySessionItem, FinishIfComplete, FlowTypeOK,
                        SessionTypeOK, TerminalItemStates
    <3> QED BY <3>1 DEF Unfinished, TerminalItemStates
  <2>3. CASE ~Unfinished(item, j)
    BY <2>1, <2>3 DEF Decide, AdvanceApplySessionItem, sessionVars
  <2> QED BY <2>2, <2>3
<1> QED BY <1>1, FlowTypeHolds, PTL DEF FlowSpec, OutcomesCommitTogether
==============================================================================
