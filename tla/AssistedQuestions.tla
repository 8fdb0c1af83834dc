------------------------- MODULE AssistedQuestions -------------------------
(***************************************************************************)
(* What a refill could not answer: application_questions, pending_answers  *)
(* and the fill marker of assisted_fill_summary (pkg/storage/questions.go).*)
(* Every action is one transaction.  Prompts and answers are left out; a   *)
(* question is its key, an answer the key of the question it answers.      *)
(***************************************************************************)
EXTENDS JobIds

CONSTANT Keys  \* question_key: the controls an employer's form can have

VARIABLES
  question,  \* status of each question of each job; "absent" without a row
  pending,   \* the keys with a row in pending_answers
  source     \* fill_source, "none" while fill_attempted_at is NULL

questionVars == <<question, pending, source>>

FillSources == {"none", "automatic", "assisted"}

QuestionTypeOK ==
  /\ question \in [Jobs -> [Keys -> {"absent", "pending", "answered"}]]
  /\ pending \in [Jobs -> SUBSET Keys]
  /\ source \in [Jobs -> FillSources]

QuestionInit ==
  /\ question = [j \in Jobs |-> [k \in Keys |-> "absent"]]
  /\ pending = [j \in Jobs |-> {}]
  /\ source = [j \in Jobs |-> "none"]

GetPendingQuestions(j) == {k \in Keys : question[j][k] = "pending"}

----------------------------------------------------------------------------
(* Stale pending rows go, the ones found come back; a row the operator has *)
(* answered keeps its status, also when its question is found again.       *)
Replaced(asked, found) ==
  [k \in Keys |-> CASE asked[k] = "answered" -> "answered"
                    [] k \in found /\ asked[k] # "answered" -> "pending"
                    [] OTHER -> "absent"]

(* Mutant: a marker already there is kept, as fill_attempted_at is.        *)
ReplaceKeepingSource(j, found) ==
  /\ question' = [question EXCEPT ![j] = Replaced(@, found)]
  /\ source' = [source EXCEPT ![j] = IF @ = "none" THEN "assisted" ELSE @]
  /\ UNCHANGED pending

(* The writer a fill uses also leaves a marker that a fill was attempted,  *)
(* should the one at its beginning have failed.                            *)
ReplaceApplicationQuestions(j, found) ==
  /\ question' = [question EXCEPT ![j] = Replaced(@, found)]
  /\ source' = [source EXCEPT ![j] = "assisted"]
  /\ UNCHANGED pending

(* The writer preparation uses cannot say anything of a fill.              *)
RecordPreparedQuestions(j, found) ==
  /\ question' = [question EXCEPT ![j] = Replaced(@, found)]
  /\ UNCHANGED <<pending, source>>

MarkFillAttempted(j, by) ==
  /\ source' = [source EXCEPT ![j] = by]
  /\ UNCHANGED <<question, pending>>

(* The part of SubmitAssistedAnswers that is about questions: only a row   *)
(* still pending is marked, but every submitted answer is queued.          *)
QueueAnswers(j, submitted) ==
  /\ pending' = [pending EXCEPT ![j] = @ \union submitted]
  /\ question' = [question EXCEPT ![j] =
       [k \in Keys |-> IF k \in submitted /\ @[k] = "pending" THEN "answered"
                                                             ELSE @[k]]]
  /\ UNCHANGED source

(* TakePendingAnswers, DiscardPendingAnswers, and the DELETE of an outcome.*)
RemovePendingAnswers(j) ==
  /\ pending' = [pending EXCEPT ![j] = {}]
  /\ UNCHANGED <<question, source>>
============================================================================
