--------------------------- MODULE SubmitAttempt ---------------------------
(***************************************************************************)
(* AttemptSubmit (pkg/submitter): one automatic application.  It opens the *)
(* posting, fills the form with a learned mapping, a dedicated handler,    *)
(* the model or a screenshot, clicks Submit if it may, judges from the     *)
(* page what became of the click, and repairs what the page rejects, three *)
(* times at most.  A closed browser target is replaced once.               *)
(***************************************************************************)
EXTENDS EmployerSite

CONSTANTS
  MaxAttempts,                \* rounds of the loop
  MaxTargetRecoveryAttempts,  \* maxTargetRecoveryAttempts
  Routes,                     \* "linkedin", "dedicated" (an ATS handler), "generic"
  Wordings                    \* which URLs may contain a word of confirmation

ASSUME SubmitAssumption ==
  /\ MaxAttempts \in Nat \ {0} /\ MaxTargetRecoveryAttempts \in Nat
  /\ Routes \subseteq {"linkedin", "dedicated", "generic"}
  /\ Wordings \subseteq SUBSET Urls

VARIABLES
  job,          \* what is given: mode, route, code fetcher, protection widget,
                \* and the URLs with "thank", "success" or "confirmation" in them
  pc, outcome,  \* where the call is, and the error it returned
  attempt, complete, recoveries,            \* the loop's counters
  verdict, applied, uncommitted, emailed,   \* lastVerdict .. emailedCode
  err,          \* dynErr, execErr: "none", "failed", "closed" or "gated"
  baseline,     \* urlBeforeSubmitClick
  mapping,      \* whether form_mappings has a row for the domain
  marked,       \* whether markAutomaticFillAttempted has been called
  touched       \* history: whether a fill handler may have touched the form

loopVars == <<attempt, complete, recoveries, verdict, applied, uncommitted, emailed>>
fillVars == <<err, baseline, mapping, marked, touched>>
vars == <<siteVars, job, pc, outcome, loopVars, fillVars>>

Modes == {"auto", "copilot", "no_click"}
JobsGiven ==
  [mode : Modes, route : Routes, fetcher : BOOLEAN, widget : BOOLEAN, worded : Wordings]
Verdicts ==
  {"none", "confirmed", "code_gate", "rejected", "no_outcome"}
Outcomes ==
  { "none", "submitted", "awaiting_review", "submit_disabled", "captcha",
    "auth_wall", "too_large", "attestation", "uncommittable", "needs_code",
    "no_outcome", "quarantined", "failed" }

(* Where a handler's error is looked at.                                   *)
ResultOf ==
  [ cached |-> "cached_result", learned |-> "learned_result",
    vision |-> "vision_result", dedicated |-> "result" ]
Points ==
  { "open", "inspect", "map_vision", "confirm", "attempt", "reached", "result",
    "await", "read", "enter_code", "await_code", "solve", "done" }
  \union DOMAIN ResultOf \union {"cached_result", "learned_result", "vision_result"}

SubmitTypeOK ==
  /\ SiteTypeOK
  /\ job \in JobsGiven
  /\ pc \in Points /\ outcome \in Outcomes
  /\ attempt \in 1 .. MaxAttempts + 1
  /\ recoveries \in 0 .. MaxTargetRecoveryAttempts
  /\ complete \in BOOLEAN /\ applied \in BOOLEAN
  /\ uncommitted \in BOOLEAN /\ emailed \in BOOLEAN
  /\ verdict \in Verdicts /\ err \in {"none", "failed", "closed", "gated"}
  /\ baseline \in Urls /\ mapping \in {"none", "saved"}
  /\ marked \in BOOLEAN /\ touched \in BOOLEAN

Init ==
  /\ SiteInit
  /\ job \in JobsGiven
  /\ pc = "open" /\ outcome = "none"
  /\ attempt = 1 /\ complete = FALSE /\ recoveries = 0
  /\ verdict = "none" /\ applied = FALSE /\ uncommitted = FALSE /\ emailed = FALSE
  /\ err = "none" /\ baseline = "posting" /\ mapping \in {"none", "saved"}
  /\ marked = FALSE /\ touched = FALSE

----------------------------------------------------------------------------
Goto(point) == pc' = point /\ UNCHANGED <<outcome, job>>
End(o) == pc' = "done" /\ outcome' = o /\ UNCHANGED job
Return(o) == End(o) /\ UNCHANGED <<siteVars, loopVars, fillVars>>

(* Mutant: only copilot mode is asked for.                                 *)
MayClickWhenDisabled == job.mode # "copilot"

(* submitGate, and the sentinel it returns.                                *)
MayClick == job.mode = "auto"

GateOutcome == IF job.mode = "copilot" THEN "awaiting_review" ELSE "submit_disabled"

ReturnGate == Return(GateOutcome)

(* isSubmissionConfirmed: what the page says, then what its URL says, and  *)
(* only then whether it has moved and shows no error.                      *)
Confirmed(from) ==
  \/ Shown.says = "thanks"
  \/ page.url \in job.worded
  \/ page.url # from /\ Shown.says # "error"

(* detectBotProtectionOnPage.                                              *)
BotProtection == job.widget /\ page.open

----------------------------------------------------------------------------
(* Up to the first control.                                                *)

OpenPage ==
  /\ pc = "open"
  /\ \/ Return("failed")
     \/ NewSubmitPage /\ Goto("inspect") /\ UNCHANGED <<loopVars, fillVars>>

(* The checks of a live page, the documents, the account-gated hosts.      *)
InspectPage ==
  /\ pc = "inspect"
  /\ \/ \E o \in {"failed", "auth_wall"} : Return(o)
     \/ page.open /\ \E o \in {"captcha", "quarantined"} : Return(o)

(* GetFormMapping and PreferCachedFormMapping; the fill is recorded.       *)
UseCachedMapping ==
  /\ pc = "inspect" /\ mapping = "saved" /\ page.open
  /\ baseline' = page.url /\ marked' = TRUE
  /\ Goto("cached")
  /\ UNCHANGED <<siteVars, loopVars, err, mapping, touched>>

EnterLoop ==
  /\ pc = "inspect"
  /\ Goto("attempt")
  /\ UNCHANGED <<siteVars, loopVars, fillVars>>

----------------------------------------------------------------------------
(* A fill handler: handleDynamic, handleGreenhouse, handleLever, handleAshby.
   It fills, asks the gate, and clicks if the form has a button it knows.  *)

FillFails ==
  /\ page.open /\ err' = "failed" /\ touched' = TRUE
  /\ UNCHANGED siteVars

FillIsGated ==
  /\ page.open /\ ~MayClick /\ err' = "gated" /\ touched' = TRUE
  /\ UNCHANGED siteVars

FillWithoutButton ==
  /\ page.open /\ MayClick /\ err' = "none" /\ touched' = TRUE
  /\ UNCHANGED siteVars

FillAndClick ==
  /\ MayClick /\ touched' = TRUE
  /\ \E e \in {"none", "failed", "closed"} : ClickSubmit(FALSE, e) /\ err' = e

FillOnClosedPage ==
  CallClosedPage /\ err' = "closed" /\ UNCHANGED touched

RunHandler ==
  /\ pc \in DOMAIN ResultOf /\ Goto(ResultOf[pc])
  /\ FillFails \/ FillIsGated \/ FillWithoutButton \/ FillAndClick \/ FillOnClosedPage
  /\ UNCHANGED <<loopVars, baseline, mapping, marked>>

(* A new context and page for a closed target; then they are inspected.    *)
MayRecover == err = "closed" /\ recoveries < MaxTargetRecoveryAttempts

(* Mutant: the recovery is not counted.                                    *)
RecoverUncounted(point) ==
  /\ MayRecover /\ NewSubmitPage
  /\ Goto(point) /\ complete' = FALSE /\ err' = "none"
  /\ baseline' = IF point = "cached" THEN page'.url ELSE baseline
  /\ UNCHANGED <<attempt, recoveries, verdict, applied, uncommitted, emailed, mapping,
                 marked, touched>>

RecoverTarget(point) ==
  /\ MayRecover /\ recoveries' = recoveries + 1
  /\ NewSubmitPage
  /\ \/ \E o \in {"failed", "captcha"} : End(o) /\ UNCHANGED <<complete, err, baseline>>
     \/ /\ Goto(point) /\ complete' = FALSE /\ err' = "none"
        /\ baseline' = IF point = "cached" THEN page'.url ELSE baseline
  /\ UNCHANGED <<attempt, verdict, applied, uncommitted, emailed, mapping, marked, touched>>

----------------------------------------------------------------------------
(* After a fill with a mapping.                                            *)

(* DeleteFormMapping, then the screenshot.                                 *)
DropMapping ==
  /\ mapping' = "none" /\ Goto("map_vision")
  /\ UNCHANGED <<siteVars, loopVars, err, baseline, marked, touched>>

(* A target that cannot be replaced ends like a fill that failed.          *)
AfterCachedFill ==
  /\ pc = "cached_result"
  /\ \/ RecoverTarget("cached")
     \/ err = "gated" /\ ReturnGate
     \/ err \in {"failed", "closed"} /\ DropMapping
     \/ err = "none" /\ Goto("confirm") /\ UNCHANGED <<siteVars, loopVars, fillVars>>

AfterLearnedFill ==
  /\ pc = "learned_result"
  /\ \/ err = "gated" /\ ReturnGate
     \/ err \in {"failed", "closed"} /\ DropMapping
     \/ err = "none" /\ Goto("result") /\ UNCHANGED <<siteVars, loopVars, fillVars>>

(* attemptQuarantinedVisionSubmit; SaveFormMapping may refuse the mapping. *)
MapWithVision ==
  /\ pc = "map_vision"
  /\ \/ Return("failed")
     \/ page.open /\ Return("quarantined")
     \/ /\ page.open /\ Goto("vision")
        /\ mapping' \in {mapping, "saved"} /\ baseline' = page.url
        /\ UNCHANGED <<siteVars, loopVars, err, marked, touched>>

AfterVisionFill ==
  /\ pc = "vision_result"
  /\ \/ err = "gated" /\ ReturnGate
     \/ err \in {"failed", "closed"} /\ Return("failed")
     \/ err = "none" /\ Goto("confirm") /\ UNCHANGED <<siteVars, loopVars, fillVars>>

(* confirmOrError.                                                         *)
ConfirmOrError ==
  /\ pc = "confirm"
  /\ Return(IF Confirmed(baseline) THEN "submitted" ELSE "failed")

----------------------------------------------------------------------------
(* The first round: reach the form (by Apply, and by the choice on a       *)
(* consent page that stands before the form), and fill it.                 *)

LastAttemptFailed ==
  /\ pc = "attempt" /\ attempt > MaxAttempts
  /\ Return(IF uncommitted THEN "uncommittable" ELSE "failed")

FirstFill(route) ==
  pc = "attempt" /\ attempt <= MaxAttempts /\ ~complete /\ job.route = route

(* handleLinkedIn ends in an error, whatever it has clicked.               *)
HandleLinkedIn ==
  /\ FirstFill("linkedin")
  /\ baseline' = page.url /\ marked' = TRUE /\ Goto("result")
  /\ err' = IF page.open THEN "failed" ELSE "closed"
  /\ UNCHANGED <<siteVars, loopVars, mapping, touched>>

ReachForm ==
  /\ FirstFill("dedicated") \/ FirstFill("generic")
  /\ ClickApply /\ Goto("reached")
  /\ UNCHANGED <<loopVars, fillVars>>

InspectForm ==
  /\ pc = "reached"
  /\ \/ page.open /\ \E o \in {"captcha", "quarantined"} : Return(o)
     \/ job.route = "dedicated" /\ ~page.open /\ Return("failed")
     \/ job.route = "generic" /\ page.open /\ Return("auth_wall")
     \/ job.route = "generic" /\ Return("too_large")

(* Mutants: the fill is not recorded; the URL before Apply is compared.    *)
UseHandlerUnrecorded ==
  /\ pc = "reached" /\ job.route = "dedicated" /\ page.open
  /\ baseline' = page.url /\ Goto("dedicated")
  /\ UNCHANGED <<siteVars, loopVars, err, mapping, marked, touched>>

UseHandlerFromPosting ==
  /\ pc = "reached" /\ job.route = "dedicated" /\ page.open
  /\ marked' = TRUE /\ Goto("dedicated")
  /\ UNCHANGED <<siteVars, loopVars, baseline, err, mapping, touched>>

UseDedicatedHandler ==
  /\ pc = "reached" /\ job.route = "dedicated" /\ page.open
  /\ baseline' = page.url /\ marked' = TRUE /\ Goto("dedicated")
  /\ UNCHANGED <<siteVars, loopVars, err, mapping, touched>>

(* ExtractFormMapping, and the screenshot when the model has no mapping.   *)
LearnMapping ==
  /\ pc = "reached" /\ job.route = "generic" /\ marked' = TRUE
  /\ \/ /\ Goto("learned")
        /\ mapping' \in {mapping, "saved"} /\ baseline' = page.url
     \/ Goto("map_vision") /\ UNCHANGED <<mapping, baseline>>
  /\ UNCHANGED <<siteVars, loopVars, err, touched>>

----------------------------------------------------------------------------
(* What became of the click.                                               *)

(* recoverTarget and below.                                                *)
JudgeClick ==
  /\ pc = "result"
  /\ \/ RecoverTarget("attempt")
     \/ MayRecover /\ Return("failed")
     \/ err = "gated" /\ ReturnGate
     \/ /\ err \in {"failed", "closed"} /\ ~MayRecover
        /\ Return(IF BotProtection THEN "captcha" ELSE "failed")
     \/ /\ err = "none" /\ complete' = TRUE /\ Goto("await")
        /\ UNCHANGED <<siteVars, attempt, recoveries, verdict, applied, uncommitted,
                       emailed, fillVars>>

(* Flagged fields, or error wording on another page than the one clicked.  *)
Rejected == Shown.flagged \/ (Shown.says = "error" /\ page.url # baseline)

(* decideSubmissionOutcome, at the poll that is the last.                  *)
Decided ==
  CASE Confirmed(baseline) -> "confirmed"
    [] ~Confirmed(baseline) /\ Shown.says = "code" -> "code_gate"
    [] ~Confirmed(baseline) /\ Shown.says # "code" /\ Rejected -> "rejected"
    [] OTHER -> "no_outcome"

(* awaitSubmissionOutcome, then the next round.                            *)
AwaitOutcome ==
  /\ pc = "await" /\ verdict' = Decided
  /\ \/ verdict' = "confirmed" /\ End("submitted") /\ UNCHANGED attempt
     \/ /\ verdict' = "no_outcome" /\ BotProtection
        /\ End("captcha") /\ UNCHANGED attempt
     \/ /\ verdict' # "confirmed" /\ ~(verdict' = "no_outcome" /\ BotProtection)
        /\ Goto("attempt") /\ attempt' = attempt + 1
  /\ UNCHANGED <<siteVars, complete, recoveries, applied, uncommitted, emailed, fillVars>>

----------------------------------------------------------------------------
(* The later rounds.                                                       *)

(* An acceptance that has not reached the page yet is not seen.            *)
Recheck ==
  /\ pc = "attempt" /\ attempt <= MaxAttempts /\ complete
  /\ \/ /\ page.open /\ Confirmed(baseline)
        /\ Return("submitted")
     \/ /\ ~(page.open /\ Confirmed(baseline)) /\ Goto("read")
        /\ missed' = (missed \/ answer \in {"thanks", "moved", "code"})
        /\ UNCHANGED <<page, answer, code, accepted, clicks, trail,
                       loopVars, fillVars>>

QuarantineRejection == pc = "read" /\ page.open /\ Return("quarantined")

NothingToFix == ~Shown.flagged /\ verdict = "no_outcome"

(* allFieldsWereSet, under a protection widget and without a challenge.    *)
FlagsAreStale ==
  Shown.flagged /\ applied /\ Shown.says # "code" /\ ~emailed' /\ BotProtection

(* Mutant: only an e-mail counts as a challenge.                           *)
ChallengedByMailOnly(lost) == emailed' \/ (lost /\ job.fetcher)

(* A code was e-mailed, or the form asks for one.                          *)
Challenged(lost) == emailed' \/ (Shown.says = "code" /\ ~lost)

(* pendingSecurityCodeAfter; then the form is narrowed to what it flags,   *)
(* and with that the challenge may be lost from sight.                     *)
ReadRejection ==
  /\ pc = "read"
  /\ emailed' = (job.fetcher /\ code = "arrived")
  /\ \/ NothingToFix /\ End("no_outcome") /\ UNCHANGED missed
     \/ FlagsAreStale /\ End("captcha") /\ UNCHANGED missed
     \/ /\ ~NothingToFix
        /\ \E lost \in BOOLEAN :
             /\ lost => Shown.says = "code" /\ Shown.flagged
             /\ missed' = (missed \/ lost)
             /\ Goto(IF Challenged(lost) THEN "enter_code" ELSE "solve")
  /\ UNCHANGED <<page, answer, code, accepted, clicks, trail>>
  /\ UNCHANGED <<attempt, complete, recoveries, verdict, applied, uncommitted, fillVars>>

(* waitForSecurityCode, fillSecurityCode, and the click.  The gate lets    *)
(* every click of a later round pass: the first fill would have stopped.   *)
EnterCode ==
  /\ pc = "enter_code"
  /\ \/ Return("needs_code")
     \/ /\ job.fetcher /\ (emailed \/ code = "arrived")
        /\ Shown.says = "code" /\ MayClick
        /\ baseline' = page.url
        /\ \/ ClickCode("none") /\ Goto("await_code") /\ UNCHANGED err
           \/ ClickCode("failed") /\ End("needs_code") /\ UNCHANGED err
           \/ ClickCode("closed") /\ Goto("result") /\ err' = "closed"
        /\ UNCHANGED <<loopVars, mapping, marked, touched>>

AwaitCode ==
  /\ pc = "await_code"
  /\ Return(IF Confirmed(baseline) THEN "submitted" ELSE "needs_code")

SolvingFails ==
  /\ pc = "solve"
  /\ \E o \in {"attestation", "too_large", "failed"} : Return(o)

(* SolveValidationErrors, applyValidationFix, and the click.               *)
SolveAndResubmit ==
  /\ pc = "solve" /\ Shown.says \in {"form", "error", "code"}
  /\ applied' = TRUE /\ uncommitted' \in BOOLEAN /\ Goto("result")
  /\ \/ err' = "failed" /\ UNCHANGED <<siteVars, baseline>>
     \/ /\ MayClick /\ baseline' = page.url
        /\ \E e \in {"none", "failed", "closed"} : ClickSubmit(TRUE, e) /\ err' = e
  /\ UNCHANGED <<attempt, complete, recoveries, verdict, emailed, mapping, marked, touched>>

----------------------------------------------------------------------------
CallStep ==
  \/ OpenPage \/ InspectPage \/ UseCachedMapping \/ EnterLoop
  \/ RunHandler \/ AfterCachedFill \/ AfterLearnedFill
  \/ MapWithVision \/ AfterVisionFill \/ ConfirmOrError
  \/ LastAttemptFailed \/ HandleLinkedIn \/ ReachForm \/ InspectForm
  \/ UseDedicatedHandler \/ LearnMapping
  \/ JudgeClick \/ AwaitOutcome \/ Recheck
  \/ QuarantineRejection \/ ReadRejection \/ EnterCode \/ AwaitCode
  \/ SolvingFails \/ SolveAndResubmit

(* A mail that nobody reads makes no difference.                           *)
SiteStep ==
  /\ pc # "done"
  /\ Render \/ TargetCloses \/ (job.fetcher /\ CodeArrives)
  /\ UNCHANGED <<job, pc, outcome, loopVars, fillVars>>

Returned == pc = "done" /\ UNCHANGED vars

Next == CallStep \/ SiteStep \/ Returned

Spec == Init /\ [][Next]_vars
(* Every wait in the call has a timeout.                                   *)
FairSpec == Spec /\ WF_vars(CallStep)

----------------------------------------------------------------------------
(* No handler touches the form before the automatic fill is reported to be
   recorded, on any of the routes to a handler (bugs.md #551).             *)
MarkedBeforeFill == touched => marked

(* In copilot mode, and with automatic clicks disabled, nothing is ever
   submitted, by no handler, no fallback and no retry (submitGate).        *)
NeverClicksUnasked == clicks > 0 => job.mode = "auto"

(* A filled form withheld at the gate is no failed fill: the call returns
   the gate's own error, and keeps the mapping (isSubmitGated).            *)
GateIsFinal ==
  [][err = "gated" =>
       /\ UNCHANGED <<mapping, clicks>>
       /\ outcome' \in {outcome, GateOutcome}]_vars

(* An application counts as submitted only if Submit was clicked on this
   page, and the page has since thanked, or moved and shows no error: never
   because Apply or a redirect had moved it before (bugs #51, #52).  The
   exception is a URL with a word of confirmation in it, which is believed
   with no click and no move, and whatever error the page shows.           *)
SuccessHasEvidence ==
  [][outcome' = "submitted" /\ outcome # "submitted" =>
       \/ trail = "moved" /\ Shown.says # "error"
       \/ trail = "clicked" /\ Shown.says = "thanks"
       \/ page.url \in job.worded]_vars

(* The employer receives an application twice only when the acceptance of
   the first could not be seen: its click ended in an error, the page had
   not rendered it at the re-check, or narrowing hid the code challenge
   (bugs.md #89).                                                          *)
FiledTwiceOnlyUnseen == accepted > 1 => missed

(* A form is submitted once for each round and each recovery begun, and at
   most once more, from the screenshot: no crash, fallback or emailed code
   buys a further click (bugs.md #467).                                    *)
ClicksAreCounted == clicks <= attempt + recoveries + 1

(* The call returns and frees its worker, whatever browser and employer do. *)
AttemptEnds == <>(pc = "done")
=============================================================================
