----------------------------- MODULE AnswerFlow -----------------------------
(***************************************************************************)
(* The questions and answers of an assisted application on their way       *)
(* between the employer's form, the tables, the operator's card and back   *)
(* into the form, while the browser process lives and dies as AssistProcess*)
(* says.  cmd/preflight and the automatic pipeline write to the same       *)
(* tables.                                                                 *)
(*                                                                         *)
(* A DBMS error is modelled only where the code goes on after it.          *)
(***************************************************************************)
EXTENDS AssistProcess, AssistedQuestions

VARIABLES
  taken,  \* the answers a process holds in memory
  form    \* the answers of a request serveAssistedAnswers has checked

answerVars == <<vars, questionVars, taken, form>>

AnswerTypeOK ==
  /\ TypeOK /\ QuestionTypeOK
  /\ taken \in [Processes -> SUBSET Keys]
  /\ form \in [Jobs -> SUBSET Keys]

AnswerInit ==
  /\ Init /\ QuestionInit
  /\ taken = [p \in Processes |-> {}]
  /\ form = [j \in Jobs |-> {}]

Forget(p) == taken' = [taken EXCEPT ![p] = {}]

----------------------------------------------------------------------------
(* Steps that touch no question.                                           *)

Elsewhere == UNCHANGED <<questionVars, taken, form>>

Opens(p) == (\E j \in Jobs : Launch(p, j)) /\ Elsewhere

Polls(p) == (PollContinues(p) \/ PollLosesLease(p)) /\ Elsewhere

Proceeds(p) ==
  /\ \/ BrowserReady(p) \/ BrowserNeverOpens(p) \/ FillNeedsManualReview(p)
     \/ RecordAssistedQuestions(p) \/ RecordAssistedRefill(p)
     \/ PauseForClosedBrowser(p) \/ Release(p)
  /\ Elsewhere

Closes(p) == BrowserCloses(p) /\ Elsewhere

----------------------------------------------------------------------------
(* The browser process and the questions.                                  *)

(* OnFormReached; that it may fail, or the form never be reached, is this  *)
(* action not being taken.                                                 *)
FormReached(p) ==
  /\ phase[p] = "filling" \/ (phase[p] = "typing" /\ taken[p] # {})
  /\ MarkFillAttempted(job[p], "assisted")
  /\ UNCHANGED <<vars, taken, form>>

FindsQuestions(p, found) ==
  /\ found # {}
  /\ FillFindsQuestions(p)
  /\ ReplaceApplicationQuestions(job[p], found)
  /\ UNCHANGED <<taken, form>>

(* A failure to record that nothing is left is only logged.                *)
FindsNothing(p) ==
  /\ FillLeavesNothing(p)
  /\ ReplaceApplicationQuestions(job[p], {}) \/ UNCHANGED questionVars
  /\ UNCHANGED <<taken, form>>

(* Mutant: the answers are read and left in the table.                     *)
CopiesAnswers(p) ==
  /\ TakeAnswers(p)
  /\ taken' = [taken EXCEPT ![p] = pending[job[p]]]
  /\ UNCHANGED <<questionVars, form>>

TakesAnswers(p) ==
  /\ TakeAnswers(p)
  /\ taken' = [taken EXCEPT ![p] = pending[job[p]]]
  /\ RemovePendingAnswers(job[p])
  /\ UNCHANGED form

CannotType(p) ==
  /\ AnswersUnusable(p)
  /\ Forget(p)
  /\ UNCHANGED <<questionVars, form>>

Types(p) ==
  /\ taken[p] # {}
  /\ AnswersTyped(p)
  /\ IF CanRecord(job[p], p, "answers_provided")
       THEN MarkFillAttempted(job[p], "assisted")
       ELSE UNCHANGED questionVars
  /\ Forget(p)
  /\ UNCHANGED form

Discards(p) ==
  /\ DiscardAnswers(p)
  /\ RemovePendingAnswers(job[p])
  /\ UNCHANGED <<taken, form>>

Killed(p) == Crash(p) /\ Forget(p) /\ UNCHANGED <<questionVars, form>>

----------------------------------------------------------------------------
(* The operator's card, preparation, and the automatic pipeline.           *)

(* serveAssistedAnswers reads the pending questions, refuses an answer to  *)
(* any other, and submits in a second transaction.                         *)
ReadsCard(j, answered) ==
  /\ answered # {} /\ answered \subseteq GetPendingQuestions(j)
  /\ form' = [form EXCEPT ![j] = answered]
  /\ UNCHANGED <<vars, questionVars, taken>>

Submits(j) ==
  /\ form[j] # {}
  /\ form' = [form EXCEPT ![j] = {}]
  /\ \/ OperatorAnswers(j) /\ QueueAnswers(j, form[j])
     \/ ~CanSubmit(j) /\ UNCHANGED <<vars, questionVars>>
  /\ UNCHANGED taken

Continues(j) == OperatorContinue(j) /\ Elsewhere

(* Mutant: the outcome leaves the queued answers where they are.           *)
CompletesKeepingAnswers(j) == OperatorCompletes(j) /\ Elsewhere

Completes(j) ==
  /\ OperatorCompletes(j)
  /\ RemovePendingAnswers(j)
  /\ UNCHANGED <<taken, form>>

Prepares(j, found) ==
  /\ RecordPreparedQuestions(j, found)
  /\ UNCHANGED <<vars, taken, form>>

(* RecordAutomaticFillAttempt: cmd/agent fills before there is a row.      *)
FillsAutomatically(j) ==
  /\ state[j] = "absent"
  /\ MarkFillAttempted(j, "automatic")
  /\ UNCHANGED <<vars, taken, form>>

(* The queue page: its plans, its pruning, its page checks.                *)
Queue(j) == (PlanCreated(j) \/ RowPruned(j) \/ OperatorRevalidates(j)) /\ Elsewhere

ATick == Tick /\ Elsewhere

----------------------------------------------------------------------------
AnswerStep(p) ==
  \/ Polls(p) \/ Proceeds(p) \/ FormReached(p)
  \/ \E found \in SUBSET Keys : FindsQuestions(p, found)
  \/ FindsNothing(p) \/ TakesAnswers(p) \/ CannotType(p) \/ Types(p) \/ Discards(p)

AnswerNext ==
  \/ \E p \in Processes : AnswerStep(p) \/ Opens(p) \/ Closes(p) \/ Killed(p)
  \/ \E j \in Jobs :
       \/ \E keys \in SUBSET Keys : ReadsCard(j, keys) \/ Prepares(j, keys)
       \/ Submits(j) \/ Continues(j) \/ Completes(j)
       \/ FillsAutomatically(j) \/ Queue(j)
  \/ ATick

AnswerSpec == AnswerInit /\ [][AnswerNext]_answerVars

(* A process that is scheduled keeps taking steps and time passes; nothing *)
(* obliges the operator to do anything, closing the window included.       *)
AnswerFairness ==
  /\ \A p \in Processes : WF_answerVars(AnswerStep(p))
  /\ WF_answerVars(ATick)

AnswerFairSpec == AnswerSpec /\ AnswerFairness
----------------------------------------------------------------------------
(* Correctness.                                                            *)

(* "An answer that has been handed to the assisted browser must not still  *)
(* be sitting in the database", as long as that browser holds its row.  A  *)
(* browser that lost it may still hold answers in memory while the operator*)
(* gives the next one the same answers again.                              *)
HandedOverOnce ==
  \A p \in Processes :
    Running(p) /\ owner[job[p]] = p => taken[p] \cap pending[job[p]] = {}

(* An application with an outcome holds no answer of the operator's, even  *)
(* if the card was submitted at the very moment of the outcome.            *)
OutcomeHoldsNoAnswers ==
  \A j \in Jobs : state[j] = "completed" => pending[j] = {}

(* While the operator is asked about a form on screen, its fill is never   *)
(* reported as one the automatic pipeline made earlier, even when the      *)
(* marker at the beginning of the fill could not be written.               *)
FillOnScreenIsAssisted ==
  \A j \in Jobs :
    state[j] \in {"needs_answers", "answers_provided"} => source[j] = "assisted"

(* Answers given to an open browser are typed into the form or the process *)
(* ends: they are not left waiting beside a browser that runs.             *)
AnswersHandled ==
  \A p \in Processes, j \in Jobs :
    (phase[p] = "open" /\ job[p] = j /\ state[j] = "answers_provided")
      ~> (job[p] # j \/ (pending[j] = {} /\ state[j] # "answers_provided"))
============================================================================
