------------------------ MODULE SubmitAttemptProofs ------------------------
(***************************************************************************)
(* The inductive invariants of SubmitAttempt, and its safety properties    *)
(* for every number of rounds, of recoveries, and every set of routes.     *)
(***************************************************************************)
EXTENDS SubmitAttempt, TLAPS

(* The fill is recorded wherever a handler runs, or has just run.          *)
Recorded ==
  pc \in { "cached", "cached_result", "learned", "learned_result", "map_vision",
           "vision", "vision_result", "dedicated" } => marked

MarkInv == MarkedBeforeFill /\ Recorded

(* A gated fill is waiting to be judged, or its call has returned.         *)
GateInv ==
  err = "gated" =>
    pc \in {"cached_result", "learned_result", "vision_result", "result", "done"}

(* The clicks of the rounds before this one, and of this one.              *)
ClickInv ==
  /\ pc \in { "open", "inspect", "cached", "attempt", "reached", "learned",
              "dedicated", "read", "enter_code", "solve" }
       => clicks < attempt + recoveries
  /\ pc \in { "cached_result", "learned_result", "map_vision", "vision", "result",
              "await", "await_code" }
       => clicks <= attempt + recoveries
  /\ ClicksAreCounted

(* The baseline is read on the page that is judged.                        *)
Judging ==
  \/ pc \in { "cached", "cached_result", "learned", "learned_result", "vision",
              "vision_result", "confirm", "dedicated", "result", "await", "read",
              "enter_code", "await_code", "solve" }
  \/ pc = "attempt" /\ complete

AnswersAreAsked ==
  /\ answer # "none" => trail # "none"
  /\ page.says = "thanks" => trail # "none"

EvidenceInv ==
  /\ AnswersAreAsked
  /\ Judging /\ page.url # baseline => trail = "moved"
  /\ pc \in {"open", "inspect"} => ~complete

(* What is known of an acceptance the program has not missed.              *)
Accepting == {"thanks", "moved", "code"}
FirstFillPoints ==
  { "open", "inspect", "cached", "reached", "learned", "dedicated", "map_vision",
    "vision" }

SeenInv ==
  accepted > 0 /\ ~missed =>
    /\ pc \notin FirstFillPoints
    /\ pc = "attempt" => complete
    /\ pc \in {"cached_result", "learned_result"} => err = "none"
    /\ pc = "result" => err # "closed"
    /\ pc \notin {"await_code", "done"} =>
         \/ answer \in Accepting
         \/ answer = "none" /\ page.says \in {"thanks", "nothing", "code"}
    /\ pc \in {"read", "enter_code", "solve"} => answer = "none"
    /\ pc = "solve" => ~page.open \/ page.says \in {"thanks", "nothing"}

FilingInv ==
  /\ FiledTwiceOnlyUnseen /\ SeenInv
  /\ pc = "await" => complete

(* The rounds of the loop.                                                 *)
RoundInv ==
  pc \in { "reached", "dedicated", "learned", "learned_result", "result", "await",
           "read", "enter_code", "await_code", "solve" } => attempt <= MaxAttempts

IInv ==
  /\ SubmitTypeOK /\ RoundInv /\ MarkInv /\ NeverClicksUnasked /\ GateInv
  /\ ClickInv /\ EvidenceInv /\ FilingInv

----------------------------------------------------------------------------
(* Type correctness.                                                       *)

(* Every move of the site keeps its type.                                  *)
LEMMA SiteTypes ==
  ASSUME SiteTypeOK,
         \/ NewSubmitPage \/ ClickApply \/ CallClosedPage
         \/ \E r \in BOOLEAN, e \in {"none", "failed", "closed"} : ClickSubmit(r, e)
         \/ \E e \in {"none", "failed", "closed"} : ClickCode(e)
         \/ Render \/ CodeArrives \/ TargetCloses
         \/ UNCHANGED siteVars
  PROVE  SiteTypeOK'
  <1> USE DEF SiteTypeOK, Pages, Answers, Urls
  <1>1. CASE NewSubmitPage
    BY <1>1 DEF NewSubmitPage
  <1>2. CASE ClickApply
    BY <1>2 DEF ClickApply
  <1>3. CASE CallClosedPage
    BY <1>3 DEF CallClosedPage, Unseen
  <1>4. ASSUME NEW r \in BOOLEAN, NEW e \in {"none", "failed", "closed"},
               ClickSubmit(r, e)
        PROVE  SiteTypeOK'
    <2>1. /\ page' = [page EXCEPT !.open = e # "closed"]
          /\ clicks' = clicks + 1
          /\ trail' \in {"none", "clicked", "moved"}
      BY <1>4 DEF ClickSubmit, Clicked
    <2>2. page' \in Pages
      BY <2>1
    <2>3. /\ answer' \in Answers /\ code' \in {"none", "sent", "arrived"}
          /\ missed' \in BOOLEAN
          /\ accepted' = accepted \/ accepted' = IF accepted = 0 THEN 1 ELSE 2
      BY <1>4 DEF ClickSubmit, Mail, Unseen
    <2> QED
      BY <2>1, <2>2, <2>3
  <1>5. ASSUME NEW e \in {"none", "failed", "closed"}, ClickCode(e)
        PROVE  SiteTypeOK'
    <2>1. /\ page' = [page EXCEPT !.open = e # "closed"]
          /\ clicks' = clicks + 1 /\ accepted' = accepted
          /\ trail' \in {"none", "clicked", "moved"}
      BY <1>5 DEF ClickCode, Clicked
    <2>2. page' \in Pages
      BY <2>1
    <2>3. /\ answer' \in Answers /\ code' \in {"none", "sent", "arrived"}
          /\ missed' \in BOOLEAN
      BY <1>5 DEF ClickCode, Mail, Unseen
    <2> QED
      BY <2>1, <2>2, <2>3
  <1>6. CASE Render
    <2>1. page' \in Pages
      BY <1>6 DEF Render, Rendered, Elsewhere
    <2> QED
      BY <1>6, <2>1 DEF Render
  <1>7. CASE CodeArrives
    BY <1>7 DEF CodeArrives
  <1>8. CASE TargetCloses
    BY <1>8 DEF TargetCloses
  <1>9. CASE UNCHANGED siteVars
    BY <1>9 DEF siteVars
  <1> QED
    BY <1>1, <1>2, <1>3, <1>4, <1>5, <1>6, <1>7, <1>8, <1>9

LEMMA TypeInit == Init => SubmitTypeOK
  <1> SUFFICES ASSUME Init PROVE SubmitTypeOK
    OBVIOUS
  <1>1. SiteInit
    BY DEF Init
  <1>2. page \in Pages
    BY <1>1 DEF SiteInit, Pages, Urls
  <1>3. SiteTypeOK
    <2>1. missed \in BOOLEAN
      BY <1>1, Zenon DEF SiteInit
    <2>2. /\ answer \in Answers /\ code \in {"none", "sent", "arrived"}
          /\ accepted \in 0 .. 2 /\ clicks \in Nat /\ accepted <= clicks
          /\ trail \in {"none", "clicked", "moved"}
      BY <1>1 DEF SiteInit, Answers
    <2> QED
      BY <1>2, <2>1, <2>2 DEF SiteTypeOK
  <1>4. /\ job \in JobsGiven
        /\ complete \in BOOLEAN /\ applied \in BOOLEAN
        /\ uncommitted \in BOOLEAN /\ emailed \in BOOLEAN
        /\ marked \in BOOLEAN /\ touched \in BOOLEAN
    BY Zenon DEF Init
  <1>5. /\ pc \in Points /\ outcome \in Outcomes /\ verdict \in Verdicts
        /\ err \in {"none", "failed", "closed", "gated"}
        /\ baseline \in Urls /\ mapping \in {"none", "saved"}
    BY DEF Init, Points, ResultOf, Outcomes, Verdicts, Urls
  <1>6. attempt \in 1 .. MaxAttempts + 1 /\ recoveries \in 0 .. MaxTargetRecoveryAttempts
    BY SubmitAssumption DEF Init
  <1> QED
    BY <1>3, <1>4, <1>5, <1>6 DEF SubmitTypeOK

(* What a step does to the site: a move of it, or nothing but a memory of  *)
(* an acceptance that goes unseen.                                         *)
LEMMA SiteMoves ==
  ASSUME [Next]_vars
  PROVE  \/ NewSubmitPage \/ ClickApply \/ CallClosedPage
         \/ \E r \in BOOLEAN, e \in {"none", "failed", "closed"} : ClickSubmit(r, e)
         \/ \E e \in {"none", "failed", "closed"} : ClickCode(e)
         \/ Render \/ CodeArrives \/ TargetCloses
         \/ UNCHANGED siteVars
         \/ Recheck \/ ReadRejection
  <1>1. CASE OpenPage
    BY <1>1 DEF OpenPage, Return, ReturnGate
  <1>2. CASE InspectPage
    BY <1>2 DEF InspectPage, Return, ReturnGate
  <1>3. CASE UseCachedMapping
    BY <1>3 DEF UseCachedMapping, Return, ReturnGate
  <1>4. CASE EnterLoop
    BY <1>4 DEF EnterLoop, Return, ReturnGate
  <1>5. CASE RunHandler
    BY <1>5 DEF RunHandler, Return, ReturnGate, FillFails, FillIsGated,
       FillWithoutButton, FillAndClick, FillOnClosedPage, ResultOf
  <1>6. CASE AfterCachedFill
    BY <1>6 DEF AfterCachedFill, Return, ReturnGate, RecoverTarget, MayRecover,
       DropMapping
  <1>7. CASE AfterLearnedFill
    BY <1>7 DEF AfterLearnedFill, Return, ReturnGate, DropMapping
  <1>8. CASE MapWithVision
    BY <1>8 DEF MapWithVision, Return, ReturnGate
  <1>9. CASE AfterVisionFill
    BY <1>9 DEF AfterVisionFill, Return, ReturnGate
  <1>10. CASE ConfirmOrError
    BY <1>10 DEF ConfirmOrError, Return, ReturnGate
  <1>11. CASE LastAttemptFailed
    BY <1>11 DEF LastAttemptFailed, Return, ReturnGate
  <1>12. CASE HandleLinkedIn
    BY <1>12 DEF HandleLinkedIn, Return, ReturnGate, FirstFill
  <1>13. CASE ReachForm
    BY <1>13 DEF ReachForm, Return, ReturnGate, FirstFill
  <1>14. CASE InspectForm
    BY <1>14 DEF InspectForm, Return, ReturnGate
  <1>15. CASE UseDedicatedHandler
    BY <1>15 DEF UseDedicatedHandler, Return, ReturnGate
  <1>16. CASE LearnMapping
    BY <1>16 DEF LearnMapping, Return, ReturnGate
  <1>17. CASE JudgeClick
    BY <1>17 DEF JudgeClick, Return, ReturnGate, RecoverTarget, MayRecover,
       BotProtection
  <1>18. CASE AwaitOutcome
    BY <1>18 DEF AwaitOutcome, Return, ReturnGate, Decided, BotProtection
  <1>19. CASE QuarantineRejection
    BY <1>19 DEF QuarantineRejection, Return, ReturnGate
  <1>20. CASE EnterCode
    BY <1>20 DEF EnterCode, Return, ReturnGate
  <1>21. CASE AwaitCode
    BY <1>21 DEF AwaitCode, Return, ReturnGate
  <1>22. CASE SolvingFails
    BY <1>22 DEF SolvingFails, Return, ReturnGate
  <1>23. CASE SolveAndResubmit
    BY <1>23 DEF SolveAndResubmit, Return, ReturnGate
  <1>24. CASE SiteStep
    BY <1>24 DEF SiteStep
  <1>25. CASE UNCHANGED vars
    BY <1>25 DEF vars
  <1> QED
    BY <1>1, <1>2, <1>3, <1>4, <1>5, <1>6, <1>7, <1>8, <1>9, <1>10, <1>11, <1>12,
       <1>13, <1>14, <1>15, <1>16, <1>17, <1>18, <1>19, <1>20, <1>21, <1>22, <1>23,
       <1>24, <1>25 DEF Next, CallStep, Returned

LEMMA SiteTypeStep ==
  ASSUME SiteTypeOK, [Next]_vars
  PROVE  SiteTypeOK'
  <1>1. CASE Recheck
    <2>1. missed' \in BOOLEAN
      BY <1>1 DEF Recheck, Return, siteVars, SiteTypeOK
    <2> QED
      BY <1>1, <2>1 DEF Recheck, Return, siteVars, SiteTypeOK
  <1>2. CASE ReadRejection
    <2>1. missed' \in BOOLEAN
      BY <1>2 DEF ReadRejection, SiteTypeOK
    <2> QED
      BY <1>2, <2>1 DEF ReadRejection, SiteTypeOK
  <1> QED
    BY <1>1, <1>2, SiteMoves, SiteTypes

(* The types of the call's own variables, in two parts.                    *)
CallFlags ==
  /\ complete \in BOOLEAN /\ applied \in BOOLEAN
  /\ uncommitted \in BOOLEAN /\ emailed \in BOOLEAN
  /\ marked \in BOOLEAN /\ touched \in BOOLEAN
CallTypes ==
  /\ job \in JobsGiven
  /\ pc \in Points /\ outcome \in Outcomes
  /\ attempt \in 1 .. MaxAttempts + 1
  /\ recoveries \in 0 .. MaxTargetRecoveryAttempts
  /\ verdict \in Verdicts /\ err \in {"none", "failed", "closed", "gated"}
  /\ baseline \in Urls /\ mapping \in {"none", "saved"}

LEMMA FlagStep ==
  ASSUME CallFlags, [Next]_vars
  PROVE  CallFlags'
  <1> USE DEF CallFlags
  <1>1. CASE OpenPage
    BY <1>1 DEF OpenPage, Return, Goto, loopVars, fillVars, End
  <1>2. CASE InspectPage
    BY <1>2 DEF InspectPage, Return, End, loopVars, fillVars
  <1>3. CASE UseCachedMapping
    BY <1>3 DEF UseCachedMapping, Goto, loopVars
  <1>4. CASE EnterLoop
    BY <1>4 DEF EnterLoop, Goto, loopVars, fillVars
  <1>5. CASE RunHandler
    BY <1>5 DEF RunHandler, Goto, FillFails, FillIsGated, FillWithoutButton,
       FillAndClick, FillOnClosedPage, loopVars
  <1>6. CASE AfterCachedFill
    BY <1>6 DEF AfterCachedFill, RecoverTarget, ReturnGate, DropMapping, Goto,
       loopVars, fillVars, MayRecover, End, Return
  <1>7. CASE AfterLearnedFill
    BY <1>7 DEF AfterLearnedFill, ReturnGate, DropMapping, Goto, loopVars, fillVars,
       Return, End
  <1>8. CASE MapWithVision
    BY <1>8 DEF MapWithVision, Return, Goto, loopVars, End, fillVars
  <1>9. CASE AfterVisionFill
    BY <1>9 DEF AfterVisionFill, ReturnGate, Return, Goto, loopVars, fillVars, End
  <1>10. CASE ConfirmOrError
    BY <1>10 DEF ConfirmOrError, Return, End, loopVars, fillVars
  <1>11. CASE LastAttemptFailed
    BY <1>11 DEF LastAttemptFailed, Return, End, loopVars, fillVars
  <1>12. CASE HandleLinkedIn
    BY <1>12 DEF HandleLinkedIn, FirstFill, Goto, loopVars
  <1>13. CASE ReachForm
    BY <1>13 DEF ReachForm, FirstFill, Goto, loopVars, fillVars
  <1>14. CASE InspectForm
    BY <1>14 DEF InspectForm, Return, End, loopVars, fillVars
  <1>15. CASE UseDedicatedHandler
    BY <1>15 DEF UseDedicatedHandler, Goto, loopVars
  <1>16. CASE LearnMapping
    BY <1>16 DEF LearnMapping, Goto, loopVars
  <1>17. CASE JudgeClick
    BY <1>17 DEF JudgeClick, RecoverTarget, MayRecover, Return, ReturnGate, Goto,
       fillVars, End, loopVars
  <1>18. CASE AwaitOutcome
    BY <1>18 DEF AwaitOutcome, End, Goto, fillVars
  <1>19. CASE Recheck
    BY <1>19 DEF Recheck, Return, Goto, loopVars, fillVars, End
  <1>20. CASE QuarantineRejection
    BY <1>20 DEF QuarantineRejection, Return, End, loopVars, fillVars
  <1>21. CASE ReadRejection
    BY <1>21 DEF ReadRejection, End, Goto, fillVars
  <1>22. CASE EnterCode
    BY <1>22 DEF EnterCode, Return, Goto, End, loopVars, fillVars
  <1>23. CASE AwaitCode
    BY <1>23 DEF AwaitCode, Return, End, loopVars, fillVars
  <1>24. CASE SolvingFails
    BY <1>24 DEF SolvingFails, Return, End, loopVars, fillVars
  <1>25. CASE SolveAndResubmit
    BY <1>25 DEF SolveAndResubmit, Goto
  <1>26. CASE SiteStep
    BY <1>26 DEF SiteStep, loopVars, fillVars
  <1>27. CASE UNCHANGED vars
    BY <1>27 DEF vars, loopVars, fillVars
  <1> QED
    BY <1>1, <1>2, <1>3, <1>4, <1>5, <1>6, <1>7, <1>8, <1>9, <1>10, <1>11, <1>12,
       <1>13, <1>14, <1>15, <1>16, <1>17, <1>18, <1>19, <1>20, <1>21, <1>22, <1>23,
       <1>24, <1>25, <1>26, <1>27 DEF Next, CallStep, Returned

LEMMA CallTypeStep ==
  ASSUME CallTypes, RoundInv, page.url \in Urls, page'.url \in Urls, [Next]_vars
  PROVE  CallTypes'
  <1> USE SubmitAssumption DEF CallTypes, Points, ResultOf, Outcomes, Verdicts
  <1>1. CASE OpenPage
    BY <1>1 DEF OpenPage, Return, Goto, loopVars, fillVars, End
  <1>2. CASE InspectPage
    BY <1>2 DEF InspectPage, Return, End, loopVars, fillVars
  <1>3. CASE UseCachedMapping
    BY <1>3 DEF UseCachedMapping, Goto, loopVars
  <1>4. CASE EnterLoop
    BY <1>4 DEF EnterLoop, Goto, loopVars, fillVars
  <1>5. CASE RunHandler
    <2>1. \/ pc = "cached" /\ pc' = "cached_result"
          \/ pc = "learned" /\ pc' = "learned_result"
          \/ pc = "vision" /\ pc' = "vision_result"
          \/ pc = "dedicated" /\ pc' = "result"
      BY <1>5 DEF RunHandler, Goto, ResultOf
    <2>2. err' \in {"none", "failed", "closed", "gated"}
      BY <1>5 DEF RunHandler, FillFails, FillIsGated, FillWithoutButton, FillAndClick,
            FillOnClosedPage
    <2> QED
      BY <1>5, <2>1, <2>2 DEF RunHandler, Goto, ResultOf, loopVars
  <1>6. CASE AfterCachedFill
    BY <1>6 DEF AfterCachedFill, RecoverTarget, ReturnGate, DropMapping, Goto,
       loopVars, fillVars, MayRecover, End, Return, GateOutcome
  <1>7. CASE AfterLearnedFill
    BY <1>7 DEF AfterLearnedFill, ReturnGate, DropMapping, Goto, loopVars, fillVars,
       Return, GateOutcome, End
  <1>8. CASE MapWithVision
    BY <1>8 DEF MapWithVision, Return, Goto, loopVars, End, fillVars
  <1>9. CASE AfterVisionFill
    BY <1>9 DEF AfterVisionFill, ReturnGate, Return, Goto, loopVars, fillVars,
       GateOutcome, End
  <1>10. CASE ConfirmOrError
    BY <1>10 DEF ConfirmOrError, Return, End, loopVars, fillVars
  <1>11. CASE LastAttemptFailed
    BY <1>11 DEF LastAttemptFailed, Return, End, loopVars, fillVars
  <1>12. CASE HandleLinkedIn
    BY <1>12 DEF HandleLinkedIn, FirstFill, Goto, loopVars
  <1>13. CASE ReachForm
    BY <1>13 DEF ReachForm, FirstFill, Goto, loopVars, fillVars
  <1>14. CASE InspectForm
    BY <1>14 DEF InspectForm, Return, End, loopVars, fillVars
  <1>15. CASE UseDedicatedHandler
    BY <1>15 DEF UseDedicatedHandler, Goto, loopVars
  <1>16. CASE LearnMapping
    BY <1>16 DEF LearnMapping, Goto, loopVars
  <1>17. CASE JudgeClick
    BY <1>17 DEF JudgeClick, RecoverTarget, MayRecover, Return, ReturnGate, Goto,
       fillVars, End, loopVars, GateOutcome
  <1>18. CASE AwaitOutcome
    BY <1>18 DEF AwaitOutcome, Decided, End, Goto, fillVars, RoundInv
  <1>19. CASE Recheck
    BY <1>19 DEF Recheck, Return, Goto, loopVars, fillVars, End
  <1>20. CASE QuarantineRejection
    BY <1>20 DEF QuarantineRejection, Return, End, loopVars, fillVars
  <1>21. CASE ReadRejection
    BY <1>21 DEF ReadRejection, End, Goto, fillVars
  <1>22. CASE EnterCode
    BY <1>22 DEF EnterCode, Return, Goto, End, loopVars, fillVars
  <1>23. CASE AwaitCode
    BY <1>23 DEF AwaitCode, Return, End, loopVars, fillVars
  <1>24. CASE SolvingFails
    BY <1>24 DEF SolvingFails, Return, End, loopVars, fillVars
  <1>25. CASE SolveAndResubmit
    BY <1>25 DEF SolveAndResubmit, Goto
  <1>26. CASE SiteStep
    BY <1>26 DEF SiteStep, loopVars, fillVars
  <1>27. CASE UNCHANGED vars
    BY <1>27 DEF vars, loopVars, fillVars
  <1> QED
    BY <1>1, <1>2, <1>3, <1>4, <1>5, <1>6, <1>7, <1>8, <1>9, <1>10, <1>11, <1>12,
       <1>13, <1>14, <1>15, <1>16, <1>17, <1>18, <1>19, <1>20, <1>21, <1>22, <1>23,
       <1>24, <1>25, <1>26, <1>27 DEF Next, CallStep, Returned

LEMMA RoundStep ==
  ASSUME CallTypes, RoundInv, [Next]_vars
  PROVE  RoundInv'
  <1> USE SubmitAssumption DEF CallTypes, RoundInv
  <1>1. CASE OpenPage
    BY <1>1 DEF OpenPage, Return, Goto, loopVars, fillVars, End
  <1>2. CASE InspectPage
    BY <1>2 DEF InspectPage, Return, End, loopVars, fillVars
  <1>3. CASE UseCachedMapping
    BY <1>3 DEF UseCachedMapping, Goto, loopVars
  <1>4. CASE EnterLoop
    BY <1>4 DEF EnterLoop, Goto, loopVars, fillVars
  <1>5. CASE RunHandler
    <2>1. \/ pc = "cached" /\ pc' = "cached_result"
          \/ pc = "learned" /\ pc' = "learned_result"
          \/ pc = "vision" /\ pc' = "vision_result"
          \/ pc = "dedicated" /\ pc' = "result"
      BY <1>5 DEF RunHandler, Goto, ResultOf
    <2> QED
      BY <1>5, <2>1 DEF RunHandler, loopVars
  <1>6. CASE AfterCachedFill
    BY <1>6 DEF AfterCachedFill, RecoverTarget, ReturnGate, DropMapping, Goto,
       loopVars, fillVars, MayRecover, End, Return
  <1>7. CASE AfterLearnedFill
    BY <1>7 DEF AfterLearnedFill, ReturnGate, DropMapping, Goto, loopVars, fillVars,
       Return, End
  <1>8. CASE MapWithVision
    BY <1>8 DEF MapWithVision, Return, Goto, loopVars, End, fillVars
  <1>9. CASE AfterVisionFill
    BY <1>9 DEF AfterVisionFill, ReturnGate, Return, Goto, loopVars, fillVars, End
  <1>10. CASE ConfirmOrError
    BY <1>10 DEF ConfirmOrError, Return, End, loopVars, fillVars
  <1>11. CASE LastAttemptFailed
    BY <1>11 DEF LastAttemptFailed, Return, End, loopVars, fillVars
  <1>12. CASE HandleLinkedIn
    BY <1>12 DEF HandleLinkedIn, FirstFill, Goto, loopVars
  <1>13. CASE ReachForm
    BY <1>13 DEF ReachForm, FirstFill, Goto, loopVars, fillVars
  <1>14. CASE InspectForm
    BY <1>14 DEF InspectForm, Return, End, loopVars, fillVars
  <1>15. CASE UseDedicatedHandler
    BY <1>15 DEF UseDedicatedHandler, Goto, loopVars
  <1>16. CASE LearnMapping
    BY <1>16 DEF LearnMapping, Goto, loopVars
  <1>17. CASE JudgeClick
    BY <1>17 DEF JudgeClick, RecoverTarget, MayRecover, Return, ReturnGate, Goto,
       fillVars, End, loopVars
  <1>18. CASE AwaitOutcome
    BY <1>18 DEF AwaitOutcome, End, Goto, fillVars
  <1>19. CASE Recheck
    BY <1>19 DEF Recheck, Return, Goto, loopVars, fillVars, End
  <1>20. CASE QuarantineRejection
    BY <1>20 DEF QuarantineRejection, Return, End, loopVars, fillVars
  <1>21. CASE ReadRejection
    BY <1>21 DEF ReadRejection, End, Goto, fillVars
  <1>22. CASE EnterCode
    BY <1>22 DEF EnterCode, Return, Goto, End, loopVars, fillVars
  <1>23. CASE AwaitCode
    BY <1>23 DEF AwaitCode, Return, End, loopVars, fillVars
  <1>24. CASE SolvingFails
    BY <1>24 DEF SolvingFails, Return, End, loopVars, fillVars
  <1>25. CASE SolveAndResubmit
    BY <1>25 DEF SolveAndResubmit, Goto
  <1>26. CASE SiteStep
    BY <1>26 DEF SiteStep, loopVars, fillVars
  <1>27. CASE UNCHANGED vars
    BY <1>27 DEF vars, loopVars, fillVars
  <1> QED
    BY <1>1, <1>2, <1>3, <1>4, <1>5, <1>6, <1>7, <1>8, <1>9, <1>10, <1>11, <1>12,
       <1>13, <1>14, <1>15, <1>16, <1>17, <1>18, <1>19, <1>20, <1>21, <1>22, <1>23,
       <1>24, <1>25, <1>26, <1>27 DEF Next, CallStep, Returned

LEMMA TypeParts == SubmitTypeOK <=> SiteTypeOK /\ CallFlags /\ CallTypes
  BY DEF SubmitTypeOK, CallFlags, CallTypes

LEMMA TypeStep ==
  ASSUME SubmitTypeOK, RoundInv, [Next]_vars
  PROVE  SubmitTypeOK' /\ RoundInv'
  <1>1. SiteTypeOK'
    BY SiteTypeStep, TypeParts
  <1>2. page.url \in Urls /\ page'.url \in Urls
    BY <1>1, TypeParts DEF SiteTypeOK, Pages
  <1>3. CallFlags' /\ CallTypes' /\ RoundInv'
    BY <1>2, FlagStep, CallTypeStep, RoundStep, TypeParts
  <1> QED
    BY <1>1, <1>3 DEF SubmitTypeOK, CallFlags, CallTypes

----------------------------------------------------------------------------
(* The invariants.                                                         *)

LEMMA MarkStep ==
  ASSUME CallTypes, MarkInv, [Next]_vars
  PROVE  MarkInv'
  <1> USE DEF CallTypes, MarkInv, MarkedBeforeFill, Recorded
  <1>1. CASE OpenPage
    BY <1>1 DEF OpenPage, Return, Goto, loopVars, fillVars, End
  <1>2. CASE InspectPage
    BY <1>2 DEF InspectPage, Return, End, loopVars, fillVars
  <1>3. CASE UseCachedMapping
    BY <1>3 DEF UseCachedMapping, Goto, loopVars
  <1>4. CASE EnterLoop
    BY <1>4 DEF EnterLoop, Goto, loopVars, fillVars
  <1>5. CASE RunHandler
    <2>1. \/ pc = "cached" /\ pc' = "cached_result"
          \/ pc = "learned" /\ pc' = "learned_result"
          \/ pc = "vision" /\ pc' = "vision_result"
          \/ pc = "dedicated" /\ pc' = "result"
      BY <1>5 DEF RunHandler, Goto, ResultOf
    <2> QED
      BY <1>5, <2>1 DEF RunHandler
  <1>6. CASE AfterCachedFill
    BY <1>6 DEF AfterCachedFill, RecoverTarget, ReturnGate, DropMapping, Goto,
       loopVars, fillVars, MayRecover, End, Return
  <1>7. CASE AfterLearnedFill
    BY <1>7 DEF AfterLearnedFill, ReturnGate, DropMapping, Goto, loopVars, fillVars,
       Return, End
  <1>8. CASE MapWithVision
    BY <1>8 DEF MapWithVision, Return, Goto, loopVars, End, fillVars
  <1>9. CASE AfterVisionFill
    BY <1>9 DEF AfterVisionFill, ReturnGate, Return, Goto, loopVars, fillVars, End
  <1>10. CASE ConfirmOrError
    BY <1>10 DEF ConfirmOrError, Return, End, loopVars, fillVars
  <1>11. CASE LastAttemptFailed
    BY <1>11 DEF LastAttemptFailed, Return, End, loopVars, fillVars
  <1>12. CASE HandleLinkedIn
    BY <1>12 DEF HandleLinkedIn, FirstFill, Goto, loopVars
  <1>13. CASE ReachForm
    BY <1>13 DEF ReachForm, FirstFill, Goto, loopVars, fillVars
  <1>14. CASE InspectForm
    BY <1>14 DEF InspectForm, Return, End, loopVars, fillVars
  <1>15. CASE UseDedicatedHandler
    BY <1>15 DEF UseDedicatedHandler, Goto, loopVars
  <1>16. CASE LearnMapping
    BY <1>16 DEF LearnMapping, Goto, loopVars
  <1>17. CASE JudgeClick
    BY <1>17 DEF JudgeClick, RecoverTarget, MayRecover, Return, ReturnGate, Goto,
       fillVars, End, loopVars
  <1>18. CASE AwaitOutcome
    BY <1>18 DEF AwaitOutcome, End, Goto, fillVars
  <1>19. CASE Recheck
    <2>1. pc' \in {"done", "read"} /\ UNCHANGED <<marked, touched>>
      BY <1>19 DEF Recheck, Return, Goto, End, fillVars
    <2> QED
      BY <2>1
  <1>20. CASE QuarantineRejection
    BY <1>20 DEF QuarantineRejection, Return, End, loopVars, fillVars
  <1>21. CASE ReadRejection
    BY <1>21 DEF ReadRejection, End, Goto, fillVars
  <1>22. CASE EnterCode
    BY <1>22 DEF EnterCode, Return, Goto, End, loopVars, fillVars
  <1>23. CASE AwaitCode
    BY <1>23 DEF AwaitCode, Return, End, loopVars, fillVars
  <1>24. CASE SolvingFails
    BY <1>24 DEF SolvingFails, Return, End, loopVars, fillVars
  <1>25. CASE SolveAndResubmit
    BY <1>25 DEF SolveAndResubmit, Goto
  <1>26. CASE SiteStep
    BY <1>26 DEF SiteStep, loopVars, fillVars
  <1>27. CASE UNCHANGED vars
    BY <1>27 DEF vars, loopVars, fillVars
  <1> QED
    BY <1>1, <1>2, <1>3, <1>4, <1>5, <1>6, <1>7, <1>8, <1>9, <1>10, <1>11, <1>12,
       <1>13, <1>14, <1>15, <1>16, <1>17, <1>18, <1>19, <1>20, <1>21, <1>22, <1>23,
       <1>24, <1>25, <1>26, <1>27 DEF Next, CallStep, Returned

LEMMA GateStep ==
  ASSUME CallTypes, GateInv, [Next]_vars
  PROVE  GateInv'
  <1> USE DEF CallTypes, GateInv
  <1>1. CASE OpenPage
    BY <1>1 DEF OpenPage, Return, Goto, loopVars, fillVars, End
  <1>2. CASE InspectPage
    BY <1>2 DEF InspectPage, Return, End, loopVars, fillVars
  <1>3. CASE UseCachedMapping
    BY <1>3 DEF UseCachedMapping, Goto, loopVars
  <1>4. CASE EnterLoop
    BY <1>4 DEF EnterLoop, Goto, loopVars, fillVars
  <1>5. CASE RunHandler
    <2>1. \/ pc = "cached" /\ pc' = "cached_result"
          \/ pc = "learned" /\ pc' = "learned_result"
          \/ pc = "vision" /\ pc' = "vision_result"
          \/ pc = "dedicated" /\ pc' = "result"
      BY <1>5 DEF RunHandler, Goto, ResultOf
    <2> QED
      BY <2>1
  <1>6. CASE AfterCachedFill
    BY <1>6 DEF AfterCachedFill, RecoverTarget, ReturnGate, DropMapping, Goto,
       loopVars, fillVars, MayRecover, End, Return
  <1>7. CASE AfterLearnedFill
    BY <1>7 DEF AfterLearnedFill, ReturnGate, DropMapping, Goto, loopVars, fillVars,
       Return, End
  <1>8. CASE MapWithVision
    BY <1>8 DEF MapWithVision, Return, Goto, loopVars, End, fillVars
  <1>9. CASE AfterVisionFill
    BY <1>9 DEF AfterVisionFill, ReturnGate, Return, Goto, loopVars, fillVars, End
  <1>10. CASE ConfirmOrError
    BY <1>10 DEF ConfirmOrError, Return, End, loopVars, fillVars
  <1>11. CASE LastAttemptFailed
    BY <1>11 DEF LastAttemptFailed, Return, End, loopVars, fillVars
  <1>12. CASE HandleLinkedIn
    BY <1>12 DEF HandleLinkedIn, FirstFill, Goto, loopVars
  <1>13. CASE ReachForm
    BY <1>13 DEF ReachForm, FirstFill, Goto, loopVars, fillVars
  <1>14. CASE InspectForm
    BY <1>14 DEF InspectForm, Return, End, loopVars, fillVars
  <1>15. CASE UseDedicatedHandler
    BY <1>15 DEF UseDedicatedHandler, Goto, loopVars
  <1>16. CASE LearnMapping
    BY <1>16 DEF LearnMapping, Goto, loopVars
  <1>17. CASE JudgeClick
    BY <1>17 DEF JudgeClick, RecoverTarget, MayRecover, Return, ReturnGate, Goto,
       fillVars, End, loopVars
  <1>18. CASE AwaitOutcome
    BY <1>18 DEF AwaitOutcome, End, Goto, fillVars
  <1>19. CASE Recheck
    BY <1>19 DEF Recheck, Return, Goto, loopVars, fillVars, End
  <1>20. CASE QuarantineRejection
    BY <1>20 DEF QuarantineRejection, Return, End, loopVars, fillVars
  <1>21. CASE ReadRejection
    BY <1>21 DEF ReadRejection, End, Goto, fillVars
  <1>22. CASE EnterCode
    BY <1>22 DEF EnterCode, Return, Goto, End, loopVars, fillVars
  <1>23. CASE AwaitCode
    BY <1>23 DEF AwaitCode, Return, End, loopVars, fillVars
  <1>24. CASE SolvingFails
    BY <1>24 DEF SolvingFails, Return, End, loopVars, fillVars
  <1>25. CASE SolveAndResubmit
    BY <1>25 DEF SolveAndResubmit, Goto
  <1>26. CASE SiteStep
    BY <1>26 DEF SiteStep, loopVars, fillVars
  <1>27. CASE UNCHANGED vars
    BY <1>27 DEF vars, loopVars, fillVars
  <1> QED
    BY <1>1, <1>2, <1>3, <1>4, <1>5, <1>6, <1>7, <1>8, <1>9, <1>10, <1>11, <1>12,
       <1>13, <1>14, <1>15, <1>16, <1>17, <1>18, <1>19, <1>20, <1>21, <1>22, <1>23,
       <1>24, <1>25, <1>26, <1>27 DEF Next, CallStep, Returned

LEMMA ClickMoves ==
  ASSUME [Next]_vars
  PROVE  \/ UNCHANGED clicks
         \/ /\ RunHandler \/ EnterCode \/ SolveAndResubmit
            /\ MayClick /\ clicks' = clicks + 1
  <1>1. CASE OpenPage
    BY <1>1 DEF OpenPage, Return, NewSubmitPage, End, siteVars
  <1>2. CASE InspectPage
    BY <1>2 DEF InspectPage, Return, End, siteVars
  <1>3. CASE UseCachedMapping
    BY <1>3 DEF UseCachedMapping, siteVars
  <1>4. CASE EnterLoop
    BY <1>4 DEF EnterLoop, siteVars
  <1>5. CASE RunHandler
    BY <1>5 DEF RunHandler, FillFails, FillIsGated, FillWithoutButton, FillAndClick,
       FillOnClosedPage, loopVars, siteVars, ClickSubmit, CallClosedPage, Clicked
  <1>6. CASE AfterCachedFill
    BY <1>6 DEF AfterCachedFill, RecoverTarget, ReturnGate, DropMapping, siteVars,
       MayRecover, NewSubmitPage, End, Return
  <1>7. CASE AfterLearnedFill
    BY <1>7 DEF AfterLearnedFill, ReturnGate, DropMapping, siteVars, Return, End
  <1>8. CASE MapWithVision
    BY <1>8 DEF MapWithVision, Return, siteVars, End
  <1>9. CASE AfterVisionFill
    BY <1>9 DEF AfterVisionFill, ReturnGate, Return, siteVars, End
  <1>10. CASE ConfirmOrError
    BY <1>10 DEF ConfirmOrError, Return, End, siteVars
  <1>11. CASE LastAttemptFailed
    BY <1>11 DEF LastAttemptFailed, Return, End, siteVars
  <1>12. CASE HandleLinkedIn
    BY <1>12 DEF HandleLinkedIn, FirstFill, siteVars
  <1>13. CASE ReachForm
    BY <1>13 DEF ReachForm, FirstFill, ClickApply
  <1>14. CASE InspectForm
    BY <1>14 DEF InspectForm, Return, End, siteVars
  <1>15. CASE UseDedicatedHandler
    BY <1>15 DEF UseDedicatedHandler, siteVars
  <1>16. CASE LearnMapping
    BY <1>16 DEF LearnMapping, siteVars
  <1>17. CASE JudgeClick
    BY <1>17 DEF JudgeClick, RecoverTarget, MayRecover, Return, ReturnGate, siteVars,
       NewSubmitPage, End
  <1>18. CASE AwaitOutcome
    BY <1>18 DEF AwaitOutcome, End, siteVars
  <1>19. CASE Recheck
    BY <1>19 DEF Recheck, Return, End, siteVars
  <1>20. CASE QuarantineRejection
    BY <1>20 DEF QuarantineRejection, Return, End, siteVars
  <1>21. CASE ReadRejection
    BY <1>21 DEF ReadRejection, End
  <1>22. CASE EnterCode
    BY <1>22 DEF EnterCode, Return, ClickCode, End, loopVars, siteVars, fillVars,
       Clicked
  <1>23. CASE AwaitCode
    BY <1>23 DEF AwaitCode, Return, End, siteVars
  <1>24. CASE SolvingFails
    BY <1>24 DEF SolvingFails, Return, End, siteVars
  <1>25. CASE SolveAndResubmit
    BY <1>25 DEF SolveAndResubmit, siteVars, ClickSubmit, Clicked
  <1>26. CASE SiteStep
    BY <1>26 DEF SiteStep, Render, TargetCloses, CodeArrives
  <1>27. CASE UNCHANGED vars
    BY <1>27 DEF vars, siteVars
  <1> QED
    BY <1>1, <1>2, <1>3, <1>4, <1>5, <1>6, <1>7, <1>8, <1>9, <1>10, <1>11, <1>12,
       <1>13, <1>14, <1>15, <1>16, <1>17, <1>18, <1>19, <1>20, <1>21, <1>22, <1>23,
       <1>24, <1>25, <1>26, <1>27 DEF Next, CallStep, Returned

LEMMA JobStays ==
  ASSUME [Next]_vars
  PROVE  UNCHANGED job
  <1>1. CASE OpenPage
    BY <1>1 DEF OpenPage, Return, Goto, End
  <1>2. CASE InspectPage
    BY <1>2 DEF InspectPage, Return, End
  <1>3. CASE UseCachedMapping
    BY <1>3 DEF UseCachedMapping, Goto
  <1>4. CASE EnterLoop
    BY <1>4 DEF EnterLoop, Goto
  <1>5. CASE RunHandler
    BY <1>5 DEF RunHandler, Goto, FillFails, FillIsGated, FillWithoutButton,
       FillAndClick, FillOnClosedPage
  <1>6. CASE AfterCachedFill
    BY <1>6 DEF AfterCachedFill, RecoverTarget, ReturnGate, DropMapping, Goto, End,
       Return
  <1>7. CASE AfterLearnedFill
    BY <1>7 DEF AfterLearnedFill, ReturnGate, DropMapping, Goto, Return, End
  <1>8. CASE MapWithVision
    BY <1>8 DEF MapWithVision, Return, Goto, End
  <1>9. CASE AfterVisionFill
    BY <1>9 DEF AfterVisionFill, ReturnGate, Return, Goto, End
  <1>10. CASE ConfirmOrError
    BY <1>10 DEF ConfirmOrError, Return, End
  <1>11. CASE LastAttemptFailed
    BY <1>11 DEF LastAttemptFailed, Return, End
  <1>12. CASE HandleLinkedIn
    BY <1>12 DEF HandleLinkedIn, FirstFill, Goto
  <1>13. CASE ReachForm
    BY <1>13 DEF ReachForm, FirstFill, Goto
  <1>14. CASE InspectForm
    BY <1>14 DEF InspectForm, Return, End
  <1>15. CASE UseDedicatedHandler
    BY <1>15 DEF UseDedicatedHandler, Goto
  <1>16. CASE LearnMapping
    BY <1>16 DEF LearnMapping, Goto
  <1>17. CASE JudgeClick
    BY <1>17 DEF JudgeClick, RecoverTarget, Return, ReturnGate, Goto, End
  <1>18. CASE AwaitOutcome
    BY <1>18 DEF AwaitOutcome, End, Goto
  <1>19. CASE Recheck
    BY <1>19 DEF Recheck, Return, Goto, End
  <1>20. CASE QuarantineRejection
    BY <1>20 DEF QuarantineRejection, Return, End
  <1>21. CASE ReadRejection
    BY <1>21 DEF ReadRejection, End, Goto
  <1>22. CASE EnterCode
    BY <1>22 DEF EnterCode, Return, Goto, End
  <1>23. CASE AwaitCode
    BY <1>23 DEF AwaitCode, Return, End
  <1>24. CASE SolvingFails
    BY <1>24 DEF SolvingFails, Return, End
  <1>25. CASE SolveAndResubmit
    BY <1>25 DEF SolveAndResubmit, Goto
  <1>26. CASE SiteStep
    BY <1>26 DEF SiteStep
  <1>27. CASE UNCHANGED vars
    BY <1>27 DEF vars
  <1> QED
    BY <1>1, <1>2, <1>3, <1>4, <1>5, <1>6, <1>7, <1>8, <1>9, <1>10, <1>11, <1>12,
       <1>13, <1>14, <1>15, <1>16, <1>17, <1>18, <1>19, <1>20, <1>21, <1>22, <1>23,
       <1>24, <1>25, <1>26, <1>27 DEF Next, CallStep, Returned

LEMMA UnaskedStep ==
  ASSUME NeverClicksUnasked, [Next]_vars
  PROVE  NeverClicksUnasked'
  BY ClickMoves, JobStays DEF NeverClicksUnasked, MayClick

LEMMA ClickStep ==
  ASSUME CallTypes, clicks \in Nat, ClickInv, [Next]_vars
  PROVE  ClickInv'
  <1> USE DEF CallTypes, ClickInv, ClicksAreCounted
  <1>0. clicks' = clicks \/ clicks' = clicks + 1
    BY ClickMoves
  <1>1. CASE OpenPage
    BY <1>0, <1>1 DEF OpenPage, Return, NewSubmitPage, Goto, loopVars, fillVars, End,
       siteVars
  <1>2. CASE InspectPage
    BY <1>0, <1>2 DEF InspectPage, Return, End, siteVars, loopVars, fillVars
  <1>3. CASE UseCachedMapping
    BY <1>0, <1>3 DEF UseCachedMapping, Goto, siteVars, loopVars
  <1>4. CASE EnterLoop
    BY <1>0, <1>4 DEF EnterLoop, Goto, siteVars, loopVars, fillVars
  <1>5. CASE RunHandler
    <2>1. \/ pc = "cached" /\ pc' = "cached_result"
          \/ pc = "learned" /\ pc' = "learned_result"
          \/ pc = "vision" /\ pc' = "vision_result"
          \/ pc = "dedicated" /\ pc' = "result"
      BY <1>5 DEF RunHandler, Goto, ResultOf
    <2> QED
      BY <1>0, <1>5, <2>1 DEF RunHandler, loopVars
  <1>6. CASE AfterCachedFill
    BY <1>0, <1>6 DEF AfterCachedFill, RecoverTarget, ReturnGate, DropMapping, Goto,
       siteVars, loopVars, fillVars, MayRecover, NewSubmitPage, End, Return
  <1>7. CASE AfterLearnedFill
    BY <1>0, <1>7 DEF AfterLearnedFill, ReturnGate, DropMapping, Goto, siteVars,
       loopVars, fillVars, Return, End
  <1>8. CASE MapWithVision
    BY <1>0, <1>8 DEF MapWithVision, Return, Goto, siteVars, loopVars, End, fillVars
  <1>9. CASE AfterVisionFill
    BY <1>0, <1>9 DEF AfterVisionFill, ReturnGate, Return, Goto, siteVars, loopVars,
       fillVars, End
  <1>10. CASE ConfirmOrError
    BY <1>0, <1>10 DEF ConfirmOrError, Return, End, siteVars, loopVars, fillVars
  <1>11. CASE LastAttemptFailed
    BY <1>0, <1>11 DEF LastAttemptFailed, Return, End, siteVars, loopVars, fillVars
  <1>12. CASE HandleLinkedIn
    BY <1>0, <1>12 DEF HandleLinkedIn, FirstFill, Goto, siteVars, loopVars
  <1>13. CASE ReachForm
    BY <1>0, <1>13 DEF ReachForm, FirstFill, ClickApply, Goto, loopVars, fillVars
  <1>14. CASE InspectForm
    BY <1>0, <1>14 DEF InspectForm, Return, End, siteVars, loopVars, fillVars
  <1>15. CASE UseDedicatedHandler
    BY <1>0, <1>15 DEF UseDedicatedHandler, Goto, siteVars, loopVars
  <1>16. CASE LearnMapping
    BY <1>0, <1>16 DEF LearnMapping, Goto, siteVars, loopVars
  <1>17. CASE JudgeClick
    BY <1>0, <1>17 DEF JudgeClick, RecoverTarget, MayRecover, Return, ReturnGate,
       Goto, siteVars, fillVars, NewSubmitPage, End, loopVars
  <1>18. CASE AwaitOutcome
    BY <1>0, <1>18 DEF AwaitOutcome, End, Goto, siteVars, fillVars
  <1>19. CASE Recheck
    BY <1>0, <1>19 DEF Recheck, Return, Goto, loopVars, fillVars, End, siteVars
  <1>20. CASE QuarantineRejection
    BY <1>0, <1>20 DEF QuarantineRejection, Return, End, siteVars, loopVars, fillVars
  <1>21. CASE ReadRejection
    BY <1>0, <1>21 DEF ReadRejection, End, Goto, fillVars
  <1>22. CASE EnterCode
    BY <1>0, <1>22 DEF EnterCode, Return, Goto, End, loopVars, siteVars, fillVars
  <1>23. CASE AwaitCode
    BY <1>0, <1>23 DEF AwaitCode, Return, End, siteVars, loopVars, fillVars
  <1>24. CASE SolvingFails
    BY <1>0, <1>24 DEF SolvingFails, Return, End, siteVars, loopVars, fillVars
  <1>25. CASE SolveAndResubmit
    BY <1>0, <1>25 DEF SolveAndResubmit, Goto, siteVars
  <1>26. CASE SiteStep
    BY <1>26 DEF SiteStep, Render, CodeArrives, TargetCloses, loopVars
  <1>27. CASE UNCHANGED vars
    BY <1>0, <1>27 DEF vars, siteVars, loopVars, fillVars
  <1> QED
    BY <1>1, <1>2, <1>3, <1>4, <1>5, <1>6, <1>7, <1>8, <1>9, <1>10, <1>11, <1>12,
       <1>13, <1>14, <1>15, <1>16, <1>17, <1>18, <1>19, <1>20, <1>21, <1>22, <1>23,
       <1>24, <1>25, <1>26, <1>27 DEF Next, CallStep, Returned

(* A click changes neither URL nor text: the server's answer does, later.  *)
LEMMA ClicksShowNothing ==
  ASSUME SiteTypeOK,
         \/ \E r \in BOOLEAN, e \in {"none", "failed", "closed"} : ClickSubmit(r, e)
         \/ \E e \in {"none", "failed", "closed"} : ClickCode(e)
         \/ CallClosedPage \/ TargetCloses \/ CodeArrives \/ UNCHANGED siteVars
  PROVE  /\ page'.url = page.url /\ page'.says = page.says
         /\ trail = "moved" => trail' = "moved"
         /\ AnswersAreAsked => AnswersAreAsked'
  <1> USE DEF SiteTypeOK, Pages, AnswersAreAsked
  <1>1. ASSUME NEW r \in BOOLEAN, NEW e \in {"none", "failed", "closed"},
               ClickSubmit(r, e)
        PROVE  Clicked(e)
    BY <1>1 DEF ClickSubmit
  <1>2. ASSUME NEW e \in {"none", "failed", "closed"}, ClickCode(e)
        PROVE  Clicked(e)
    BY <1>2 DEF ClickCode
  <1>3. ASSUME NEW e \in {"none", "failed", "closed"}, Clicked(e)
        PROVE  /\ page'.url = page.url /\ page'.says = page.says
               /\ trail' # "none" /\ (trail = "moved" => trail' = "moved")
    BY <1>3 DEF Clicked
  <1>4. CASE CallClosedPage \/ TargetCloses \/ CodeArrives \/ UNCHANGED siteVars
    BY <1>4 DEF CallClosedPage, TargetCloses, CodeArrives, siteVars
  <1> QED
    BY <1>1, <1>2, <1>3, <1>4

LEMMA RenderShows ==
  ASSUME SiteTypeOK, AnswersAreAsked, Render
  PROVE  /\ AnswersAreAsked'
         /\ trail = "moved" => trail' = "moved"
         /\ page'.url # page.url => trail' = "moved"
  <1>1. CASE answer \in {"thanks", "moved", "code"}
    BY <1>1 DEF Render, Rendered, AnswersAreAsked, SiteTypeOK, Pages
  <1>2. CASE answer = "rejected"
    <2>1. page'.says \in {"form", "error"}
      BY <1>2 DEF Render, Rendered
    <2> QED
      BY <1>2, <2>1 DEF Render, AnswersAreAsked, SiteTypeOK
  <1> QED
    BY <1>1, <1>2 DEF Render, SiteTypeOK, Answers

LEMMA EvidenceStep ==
  ASSUME SiteTypeOK, CallTypes, EvidenceInv, [Next]_vars
  PROVE  EvidenceInv'
  <1> USE DEF CallTypes
  <1>1. CASE OpenPage
    BY <1>1 DEF OpenPage, Return, NewSubmitPage, Goto, loopVars, fillVars, End,
       siteVars, EvidenceInv, AnswersAreAsked, Judging
  <1>2. CASE InspectPage
    BY <1>2 DEF InspectPage, Return, End, siteVars, loopVars, fillVars, EvidenceInv,
       AnswersAreAsked, Judging
  <1>3. CASE UseCachedMapping
    BY <1>3 DEF UseCachedMapping, Goto, siteVars, loopVars, EvidenceInv,
       AnswersAreAsked, Judging
  <1>4. CASE EnterLoop
    BY <1>4 DEF EnterLoop, Goto, siteVars, loopVars, fillVars, EvidenceInv,
       AnswersAreAsked, Judging
  <1>5. CASE RunHandler
    <2>1. \/ pc = "cached" /\ pc' = "cached_result"
          \/ pc = "learned" /\ pc' = "learned_result"
          \/ pc = "vision" /\ pc' = "vision_result"
          \/ pc = "dedicated" /\ pc' = "result"
      BY <1>5 DEF RunHandler, Goto, ResultOf
    <2>2. /\ page'.url = page.url /\ page'.says = page.says
          /\ trail = "moved" => trail' = "moved"
          /\ AnswersAreAsked'
      BY <1>5, ClicksShowNothing
      DEF RunHandler, FillFails, FillIsGated, FillWithoutButton, FillAndClick,
          FillOnClosedPage,
          EvidenceInv
    <2> QED
      BY <1>5, <2>1, <2>2 DEF RunHandler, Judging, EvidenceInv
  <1>6. CASE AfterCachedFill
    BY <1>6 DEF AfterCachedFill, RecoverTarget, ReturnGate, DropMapping, Goto,
       siteVars, loopVars, fillVars, MayRecover, NewSubmitPage, End, Return,
       EvidenceInv, AnswersAreAsked, Judging
  <1>7. CASE AfterLearnedFill
    BY <1>7 DEF AfterLearnedFill, ReturnGate, DropMapping, Goto, siteVars, loopVars,
       fillVars, Return, End, EvidenceInv, AnswersAreAsked, Judging
  <1>8. CASE MapWithVision
    BY <1>8 DEF MapWithVision, Return, Goto, siteVars, loopVars, End, fillVars,
       EvidenceInv, AnswersAreAsked, Judging
  <1>9. CASE AfterVisionFill
    BY <1>9 DEF AfterVisionFill, ReturnGate, Return, Goto, siteVars, loopVars,
       fillVars, End, EvidenceInv, AnswersAreAsked, Judging
  <1>10. CASE ConfirmOrError
    BY <1>10 DEF ConfirmOrError, Return, End, siteVars, loopVars, fillVars,
       EvidenceInv, AnswersAreAsked, Judging
  <1>11. CASE LastAttemptFailed
    BY <1>11 DEF LastAttemptFailed, Return, End, siteVars, loopVars, fillVars,
       EvidenceInv, AnswersAreAsked, Judging
  <1>12. CASE HandleLinkedIn
    BY <1>12 DEF HandleLinkedIn, FirstFill, Goto, siteVars, loopVars, EvidenceInv,
       AnswersAreAsked, Judging
  <1>13. CASE ReachForm
    <2>1. AnswersAreAsked'
      BY <1>13 DEF ReachForm, ClickApply, EvidenceInv, AnswersAreAsked, SiteTypeOK,
         Pages
    <2>2. pc' = "reached"
      BY <1>13 DEF ReachForm, Goto
    <2> QED
      BY <2>1, <2>2 DEF Judging, EvidenceInv
  <1>14. CASE InspectForm
    BY <1>14 DEF InspectForm, Return, End, siteVars, loopVars, fillVars, EvidenceInv,
       AnswersAreAsked, Judging
  <1>15. CASE UseDedicatedHandler
    BY <1>15 DEF UseDedicatedHandler, Goto, siteVars, loopVars, EvidenceInv,
       AnswersAreAsked, Judging
  <1>16. CASE LearnMapping
    BY <1>16 DEF LearnMapping, Goto, siteVars, loopVars, EvidenceInv, AnswersAreAsked,
       Judging
  <1>17. CASE JudgeClick
    BY <1>17 DEF JudgeClick, RecoverTarget, MayRecover, Return, ReturnGate, Goto,
       siteVars, fillVars, NewSubmitPage, End, loopVars, EvidenceInv, AnswersAreAsked,
       Judging
  <1>18. CASE AwaitOutcome
    BY <1>18 DEF AwaitOutcome, End, Goto, siteVars, fillVars, EvidenceInv,
       AnswersAreAsked, Judging
  <1>19. CASE Recheck
    BY <1>19 DEF Recheck, Return, Goto, loopVars, fillVars, End, siteVars,
       EvidenceInv, AnswersAreAsked, Judging
  <1>20. CASE QuarantineRejection
    BY <1>20 DEF QuarantineRejection, Return, End, siteVars, loopVars, fillVars,
       EvidenceInv, AnswersAreAsked, Judging
  <1>21. CASE ReadRejection
    BY <1>21 DEF ReadRejection, End, Goto, fillVars, EvidenceInv, AnswersAreAsked,
       Judging
  <1>22. CASE EnterCode
    <2>1. /\ page'.url = page.url /\ page'.says = page.says
          /\ trail = "moved" => trail' = "moved"
          /\ AnswersAreAsked'
      BY <1>22, ClicksShowNothing DEF EnterCode, Return, EvidenceInv
    <2>2. \/ baseline' = page.url /\ pc' \in {"await_code", "result"}
          \/ pc' = "done"
      BY <1>22 DEF EnterCode, Return, End, Goto
    <2> QED
      BY <2>1, <2>2 DEF Judging, EvidenceInv
  <1>23. CASE AwaitCode
    BY <1>23 DEF AwaitCode, Return, End, siteVars, loopVars, fillVars, EvidenceInv,
       AnswersAreAsked, Judging
  <1>24. CASE SolvingFails
    BY <1>24 DEF SolvingFails, Return, End, siteVars, loopVars, fillVars, EvidenceInv,
       AnswersAreAsked, Judging
  <1>25. CASE SolveAndResubmit
    <2>1. /\ page'.url = page.url /\ page'.says = page.says
          /\ trail = "moved" => trail' = "moved"
          /\ AnswersAreAsked'
      BY <1>25, ClicksShowNothing DEF SolveAndResubmit, EvidenceInv
    <2>2. baseline' = page.url \/ UNCHANGED baseline
      BY <1>25 DEF SolveAndResubmit
    <2>3. pc = "solve" /\ pc' = "result"
      BY <1>25 DEF SolveAndResubmit, Goto
    <2> QED
      BY <2>1, <2>2, <2>3 DEF Judging, EvidenceInv
  <1>26. CASE SiteStep
    <2>1. UNCHANGED <<pc, complete, baseline>>
      BY <1>26 DEF SiteStep, loopVars, fillVars
    <2>2. /\ AnswersAreAsked'
          /\ trail = "moved" => trail' = "moved"
          /\ page'.url # page.url => trail' = "moved"
      BY <1>26, ClicksShowNothing, RenderShows DEF SiteStep, EvidenceInv
    <2> QED
      BY <2>1, <2>2 DEF Judging, EvidenceInv
  <1>27. CASE UNCHANGED vars
    BY <1>27 DEF vars, siteVars, loopVars, fillVars, EvidenceInv, AnswersAreAsked,
       Judging
  <1> QED
    BY <1>1, <1>2, <1>3, <1>4, <1>5, <1>6, <1>7, <1>8, <1>9, <1>10, <1>11, <1>12,
       <1>13, <1>14, <1>15, <1>16, <1>17, <1>18, <1>19, <1>20, <1>21, <1>22, <1>23,
       <1>24, <1>25, <1>26, <1>27 DEF Next, CallStep, Returned

LEMMA UnseenMeans ==
  ASSUME NEW e, Unseen(e)
  PROVE  missed' <=> missed \/ (e # "none" /\ accepted' > 0)
  BY Zenon DEF Unseen

(* A click that may be the first acceptance, or a further one.             *)
LEMMA ClickFiles ==
  ASSUME SiteTypeOK, accepted = 0 \/ missed,
         NEW r \in BOOLEAN, NEW e \in {"none", "failed", "closed"}, ClickSubmit(r, e)
  PROVE  /\ accepted' > 1 => missed'
         /\ accepted' > 0 /\ ~missed' => e = "none" /\ answer' \in Accepting
  <1>0. missed' <=> missed \/ (e # "none" /\ accepted' > 0)
    BY UnseenMeans DEF ClickSubmit
  <1>1. CASE missed
    BY <1>1, <1>0
  <1>2. CASE accepted = 0 /\ accepted' = 0
    BY <1>2
  <1>3. CASE accepted = 0 /\ accepted' = 1 /\ answer' \in Accepting
    BY <1>3, <1>0
  <1>4. accepted = 0 => accepted' = 0 \/ (accepted' = 1 /\ answer' \in Accepting)
    BY DEF ClickSubmit, Accepting
  <1> QED
    BY <1>1, <1>2, <1>3, <1>4

LEMMA FilingStep ==
  ASSUME SiteTypeOK, CallTypes, FilingInv, [Next]_vars
  PROVE  FilingInv'
  <1> USE DEF CallTypes, FilingInv, FiledTwiceOnlyUnseen, SeenInv, FirstFillPoints,
      SiteTypeOK
  <1>1. CASE OpenPage
    BY <1>1 DEF OpenPage, Return, NewSubmitPage, Goto, loopVars, fillVars, End, siteVars
  <1>2. CASE InspectPage
    BY <1>2 DEF InspectPage, Return, End, siteVars, loopVars, fillVars
  <1>3. CASE UseCachedMapping
    BY <1>3 DEF UseCachedMapping, Goto, siteVars, loopVars
  <1>4. CASE EnterLoop
    BY <1>4 DEF EnterLoop, Goto, siteVars, loopVars, fillVars
  <1>5. CASE RunHandler
    <2>1. \/ pc = "cached" /\ pc' = "cached_result"
          \/ pc = "learned" /\ pc' = "learned_result"
          \/ pc = "vision" /\ pc' = "vision_result"
          \/ pc = "dedicated" /\ pc' = "result"
      BY <1>5 DEF RunHandler, Goto, ResultOf
    <2>2. accepted = 0 \/ missed
      BY <1>5 DEF RunHandler, ResultOf, SiteTypeOK
    <2>3. /\ accepted' > 1 => missed'
          /\ accepted' > 0 /\ ~missed' => err' = "none" /\ answer' \in Accepting
      <3>1. CASE FillFails \/ FillIsGated \/ FillWithoutButton
        BY <2>2, <3>1 DEF FillFails, FillIsGated, FillWithoutButton, siteVars
      <3>2. CASE FillOnClosedPage
        <4>1. UNCHANGED accepted /\ (missed' <=> missed \/ accepted' > 0)
          BY <3>2, UnseenMeans DEF FillOnClosedPage, CallClosedPage
        <4> QED
          BY <2>2, <4>1
      <3>3. CASE FillAndClick
        <4>1. PICK e \in {"none", "failed", "closed"} : ClickSubmit(FALSE,
        e) /\ err' = e
          BY <3>3 DEF FillAndClick
        <4> QED
          BY <2>2, <4>1, ClickFiles
      <3> QED
        BY <1>5, <3>1, <3>2, <3>3 DEF RunHandler
    <2> QED
      BY <2>1, <2>3
  <1>6. CASE AfterCachedFill
    BY <1>6 DEF AfterCachedFill, RecoverTarget, ReturnGate, DropMapping, Goto,
       siteVars, loopVars, fillVars, MayRecover, NewSubmitPage, End, Return
  <1>7. CASE AfterLearnedFill
    BY <1>7 DEF AfterLearnedFill, ReturnGate, DropMapping, Goto, siteVars, loopVars,
       fillVars, Return, End
  <1>8. CASE MapWithVision
    BY <1>8 DEF MapWithVision, Return, Goto, siteVars, loopVars, End, fillVars
  <1>9. CASE AfterVisionFill
    BY <1>9 DEF AfterVisionFill, ReturnGate, Return, Goto, siteVars, loopVars,
       fillVars, End
  <1>10. CASE ConfirmOrError
    BY <1>10 DEF ConfirmOrError, Return, End, siteVars, loopVars, fillVars
  <1>11. CASE LastAttemptFailed
    BY <1>11 DEF LastAttemptFailed, Return, End, siteVars, loopVars, fillVars
  <1>12. CASE HandleLinkedIn
    BY <1>12 DEF HandleLinkedIn, FirstFill, Goto, siteVars, loopVars
  <1>13. CASE ReachForm
    BY <1>13 DEF ReachForm, FirstFill, ClickApply, Goto, loopVars, fillVars
  <1>14. CASE InspectForm
    BY <1>14 DEF InspectForm, Return, End, siteVars, loopVars, fillVars
  <1>15. CASE UseDedicatedHandler
    BY <1>15 DEF UseDedicatedHandler, Goto, siteVars, loopVars
  <1>16. CASE LearnMapping
    BY <1>16 DEF LearnMapping, Goto, siteVars, loopVars
  <1>17. CASE JudgeClick
    BY <1>17 DEF JudgeClick, RecoverTarget, MayRecover, Return, ReturnGate, Goto,
       siteVars, fillVars, NewSubmitPage, End, loopVars
  <1>18. CASE AwaitOutcome
    BY <1>18 DEF AwaitOutcome, End, Goto, siteVars, fillVars
  <1>19. CASE Recheck
    <2>1. /\ pc = "attempt" /\ UNCHANGED <<page, answer, accepted>>
      BY <1>19 DEF Recheck, Return, End, siteVars
    <2>2. \/ pc' = "done" /\ UNCHANGED missed
          \/ pc' = "read" /\ missed' = (missed \/ answer \in Accepting)
      BY <1>19 DEF Recheck, Return, End, Goto, siteVars, Accepting
    <2>3. pc' = "read" => (missed' <=> missed \/ answer \in Accepting)
      BY <2>2, Zenon
    <2> QED
      BY <2>1, <2>2, <2>3 DEF Accepting
  <1>20. CASE QuarantineRejection
    BY <1>20 DEF QuarantineRejection, Return, End, siteVars, loopVars, fillVars
  <1>21. CASE ReadRejection
    <2>1. /\ pc = "read" /\ UNCHANGED <<page, answer, accepted>>
          /\ missed => missed'
      BY <1>21 DEF ReadRejection
    <2>2. pc' \in {"done", "enter_code", "solve"}
      BY <1>21 DEF ReadRejection, End, Goto
    <2>3. pc' = "solve" /\ ~missed' => Shown.says # "code"
      BY <1>21 DEF ReadRejection, End, Goto, Challenged
    <2>4. pc' = "solve" /\ ~missed' => ~page.open \/ page.says # "code"
      BY <2>3 DEF Shown
    <2> QED
      BY <2>1, <2>2, <2>4 DEF Accepting
  <1>22. CASE EnterCode
    <2>1. ASSUME NEW e \in {"none", "failed", "closed"}, ClickCode(e)
          PROVE  /\ accepted' = accepted /\ (missed => missed')
                 /\ accepted' > 0 /\ ~missed' => e = "none" /\ ~missed
      BY <2>1 DEF ClickCode, Unseen
    <2>2. \/ UNCHANGED siteVars /\ pc' = "done"
          \/ ClickCode("none") /\ pc' = "await_code"
          \/ ClickCode("failed") /\ pc' = "done"
          \/ ClickCode("closed") /\ pc' = "result"
      BY <1>22 DEF EnterCode, Return, End, Goto
    <2> QED
      BY <2>1, <2>2
      DEF siteVars
  <1>23. CASE AwaitCode
    BY <1>23 DEF AwaitCode, Return, End, siteVars, loopVars, fillVars
  <1>24. CASE SolvingFails
    BY <1>24 DEF SolvingFails, Return, End, siteVars, loopVars, fillVars
  <1>25. CASE SolveAndResubmit
    <2>1. pc = "solve" /\ pc' = "result"
      BY <1>25 DEF SolveAndResubmit, Goto
    <2>2. accepted = 0 \/ missed
      BY <1>25 DEF SolveAndResubmit, Shown, Pages
    <2>3. /\ accepted' > 1 => missed'
          /\ accepted' > 0 /\ ~missed' => err' = "none" /\ answer' \in Accepting
      <3>1. CASE UNCHANGED siteVars
        BY <2>2, <3>1 DEF siteVars
      <3>2. ASSUME NEW e \in {"none", "failed", "closed"}, ClickSubmit(TRUE, e),
      err' = e
            PROVE  /\ accepted' > 1 => missed'
                   /\ accepted' > 0 /\ ~missed' => err' = "none" /\ answer' \in Accepting
        BY <2>2, <3>2, ClickFiles
      <3> QED
        BY <1>25, <3>1, <3>2 DEF SolveAndResubmit, siteVars
    <2> QED
      BY <2>1, <2>3
  <1>26. CASE SiteStep
    <2>1. UNCHANGED <<pc, complete, err>> /\ pc # "done"
      BY <1>26 DEF SiteStep, loopVars, fillVars
    <2>2. CASE Render
      BY <2>1, <2>2
      DEF Render, Rendered, Accepting,
          SiteTypeOK, Pages
    <2>3. CASE TargetCloses \/ CodeArrives
      BY <2>1, <2>3
      DEF TargetCloses, CodeArrives, Pages
    <2> QED
      BY <1>26, <2>2, <2>3 DEF SiteStep
  <1>27. CASE UNCHANGED vars
    BY <1>27 DEF vars, siteVars, loopVars, fillVars, FilingInv, FiledTwiceOnlyUnseen,
       SeenInv
  <1> QED
    BY <1>1, <1>2, <1>3, <1>4, <1>5, <1>6, <1>7, <1>8, <1>9, <1>10, <1>11, <1>12,
       <1>13, <1>14, <1>15, <1>16, <1>17, <1>18, <1>19, <1>20, <1>21, <1>22, <1>23,
       <1>24, <1>25, <1>26, <1>27 DEF Next, CallStep, Returned

----------------------------------------------------------------------------
(* Putting them together.                                                  *)

LEMMA InvInit == Init => IInv
  <1> SUFFICES ASSUME Init PROVE IInv
    OBVIOUS
  <1>1. SubmitTypeOK
    BY TypeInit
  <1>2. /\ pc = "open" /\ complete = FALSE /\ touched = FALSE /\ err = "none"
        /\ attempt = 1 /\ recoveries = 0
        /\ clicks = 0 /\ accepted = 0 /\ answer = "none" /\ page.says = "nothing"
    BY DEF Init, SiteInit
  <1>3. RoundInv /\ MarkInv /\ NeverClicksUnasked /\ GateInv /\ FilingInv
    BY <1>2 DEF RoundInv, MarkInv, MarkedBeforeFill, Recorded, NeverClicksUnasked,
       GateInv,
       FilingInv, FiledTwiceOnlyUnseen, SeenInv
  <1>4. ClickInv
    BY <1>2 DEF ClickInv, ClicksAreCounted
  <1>5. EvidenceInv
    BY <1>2 DEF EvidenceInv, AnswersAreAsked, Judging
  <1> QED
    BY <1>1, <1>3, <1>4, <1>5 DEF IInv

LEMMA InvStep == IInv /\ [Next]_vars => IInv'
  <1> SUFFICES ASSUME IInv, [Next]_vars PROVE IInv'
    OBVIOUS
  <1>1. SubmitTypeOK /\ RoundInv /\ SiteTypeOK /\ CallTypes /\ clicks \in Nat
    BY TypeParts DEF IInv, SiteTypeOK
  <1>2. SubmitTypeOK' /\ RoundInv'
    BY <1>1, TypeStep
  <1>3. MarkInv' /\ NeverClicksUnasked' /\ GateInv'
    BY <1>1, MarkStep, UnaskedStep, GateStep DEF IInv
  <1>4. ClickInv' /\ EvidenceInv' /\ FilingInv'
    BY <1>1, ClickStep, EvidenceStep, FilingStep DEF IInv
  <1> QED
    BY <1>2, <1>3, <1>4 DEF IInv

LEMMA Invariance == Spec => []IInv
  BY InvInit, InvStep, PTL DEF Spec

(* Every variable of the call and of the site keeps its type: no more than
   MaxAttempts rounds are begun, no more than MaxTargetRecoveryAttempts
   recoveries made, and the server never accepts more than is clicked.     *)
THEOREM SubmitTypeCorrect == Spec => []SubmitTypeOK
  BY Invariance, PTL DEF IInv

(* No handler touches the form before the automatic fill is recorded, on
   any route.                                                              *)
THEOREM FillsAreRecorded == Spec => []MarkedBeforeFill
  BY Invariance, PTL DEF IInv, MarkInv

(* Without the operator's leave nothing is ever clicked.                   *)
THEOREM GateHolds == Spec => []NeverClicksUnasked
  BY Invariance, PTL DEF IInv

(* For any limits, clicks are bounded by rounds and recoveries and one.    *)
THEOREM ClicksBounded == Spec => []ClicksAreCounted
  BY Invariance, PTL DEF IInv, ClickInv

(* A second application is filed only behind an acceptance that could not
   be seen.                                                                *)
THEOREM FiledOnce == Spec => []FiledTwiceOnlyUnseen
  BY Invariance, PTL DEF IInv, FilingInv

(* What a step does while a gated fill is waiting.                         *)
LEMMA GatedStep ==
  ASSUME CallTypes, GateInv, err = "gated", [Next]_vars
  PROVE  UNCHANGED <<mapping, clicks>> /\ outcome' \in {outcome, GateOutcome}
  <1>0. UNCHANGED clicks
    BY ClickMoves DEF GateInv, RunHandler, EnterCode, SolveAndResubmit, ResultOf
  <1> USE DEF GateInv
  <1>1. CASE OpenPage
    BY <1>0, <1>1 DEF OpenPage, Return, Goto, loopVars, fillVars, End, siteVars
  <1>2. CASE InspectPage
    BY <1>0, <1>2 DEF InspectPage, Return, End, siteVars, loopVars, fillVars
  <1>3. CASE UseCachedMapping
    BY <1>0, <1>3 DEF UseCachedMapping, Goto, siteVars, loopVars
  <1>4. CASE EnterLoop
    BY <1>0, <1>4 DEF EnterLoop, Goto, siteVars, loopVars, fillVars
  <1>5. CASE RunHandler
    BY <1>5 DEF RunHandler, ResultOf
  <1>6. CASE AfterCachedFill
    BY <1>0, <1>6 DEF AfterCachedFill, RecoverTarget, ReturnGate, DropMapping, Goto,
       siteVars, loopVars, fillVars, MayRecover, End, Return
  <1>7. CASE AfterLearnedFill
    BY <1>0, <1>7 DEF AfterLearnedFill, ReturnGate, DropMapping, Goto, siteVars,
       loopVars, fillVars, Return, End
  <1>8. CASE MapWithVision
    BY <1>0, <1>8 DEF MapWithVision, Return, Goto, siteVars, loopVars, End, fillVars
  <1>9. CASE AfterVisionFill
    BY <1>0, <1>9 DEF AfterVisionFill, ReturnGate, Return, Goto, siteVars, loopVars,
       fillVars, End
  <1>10. CASE ConfirmOrError
    BY <1>0, <1>10 DEF ConfirmOrError, Return, End, siteVars, loopVars, fillVars
  <1>11. CASE LastAttemptFailed
    BY <1>0, <1>11 DEF LastAttemptFailed, Return, End, siteVars, loopVars, fillVars
  <1>12. CASE HandleLinkedIn
    BY <1>0, <1>12 DEF HandleLinkedIn, FirstFill, Goto, siteVars, loopVars
  <1>13. CASE ReachForm
    BY <1>0, <1>13 DEF ReachForm, FirstFill, Goto, loopVars, fillVars
  <1>14. CASE InspectForm
    BY <1>0, <1>14 DEF InspectForm, Return, End, siteVars, loopVars, fillVars
  <1>15. CASE UseDedicatedHandler
    BY <1>0, <1>15 DEF UseDedicatedHandler, Goto, siteVars, loopVars
  <1>16. CASE LearnMapping
    BY <1>0, <1>16 DEF LearnMapping, Goto, siteVars, loopVars
  <1>17. CASE JudgeClick
    BY <1>0, <1>17 DEF JudgeClick, RecoverTarget, MayRecover, Return, ReturnGate,
       Goto, siteVars, fillVars, End, loopVars
  <1>18. CASE AwaitOutcome
    BY <1>0, <1>18 DEF AwaitOutcome, End, Goto, siteVars, fillVars
  <1>19. CASE Recheck
    BY <1>0, <1>19 DEF Recheck, Return, Goto, loopVars, fillVars, End, siteVars
  <1>20. CASE QuarantineRejection
    BY <1>0, <1>20 DEF QuarantineRejection, Return, End, siteVars, loopVars, fillVars
  <1>21. CASE ReadRejection
    BY <1>0, <1>21 DEF ReadRejection, End, Goto, fillVars
  <1>22. CASE EnterCode
    BY <1>22 DEF EnterCode
  <1>23. CASE AwaitCode
    BY <1>0, <1>23 DEF AwaitCode, Return, End, siteVars, loopVars, fillVars
  <1>24. CASE SolvingFails
    BY <1>0, <1>24 DEF SolvingFails, Return, End, siteVars, loopVars, fillVars
  <1>25. CASE SolveAndResubmit
    BY <1>25 DEF SolveAndResubmit
  <1>26. CASE SiteStep
    BY <1>0, <1>26 DEF SiteStep, fillVars
  <1>27. CASE UNCHANGED vars
    BY <1>0, <1>27 DEF vars, siteVars, loopVars, fillVars
  <1> QED
    BY <1>1, <1>2, <1>3, <1>4, <1>5, <1>6, <1>7, <1>8, <1>9, <1>10, <1>11, <1>12,
       <1>13, <1>14, <1>15, <1>16, <1>17, <1>18, <1>19, <1>20, <1>21, <1>22, <1>23,
       <1>24, <1>25, <1>26, <1>27 DEF Next, CallStep, Returned

(* A fill withheld at the gate ends the call with the gate's own error:
   nothing is clicked any more and the mapping is kept.                    *)
THEOREM GateFinality == Spec => GateIsFinal
  <1>1. IInv /\ [Next]_vars =>
          [err = "gated" =>
             /\ UNCHANGED <<mapping, clicks>>
             /\ outcome' \in {outcome, GateOutcome}]_vars
    BY GatedStep, TypeParts DEF IInv
  <1> QED
    BY <1>1, Invariance, PTL DEF Spec, GateIsFinal

(* The four places a success is reported from.                             *)
LEMMA SuccessStep ==
  ASSUME SiteTypeOK, EvidenceInv, outcome # "submitted", outcome' = "submitted",
  [Next]_vars
  PROVE  \/ trail = "moved" /\ Shown.says # "error"
         \/ trail = "clicked" /\ Shown.says = "thanks"
         \/ page.url \in job.worded
  <1>1. CASE OpenPage
    BY <1>1 DEF OpenPage, Return, Goto, loopVars, fillVars, End
  <1>2. CASE InspectPage
    BY <1>2 DEF InspectPage, Return, End, loopVars, fillVars
  <1>3. CASE UseCachedMapping
    BY <1>3 DEF UseCachedMapping, Goto, loopVars
  <1>4. CASE EnterLoop
    BY <1>4 DEF EnterLoop, Goto, loopVars, fillVars
  <1>5. CASE RunHandler
    BY <1>5 DEF RunHandler, Goto, FillFails, FillIsGated, FillWithoutButton,
       FillAndClick, FillOnClosedPage, loopVars
  <1>6. CASE AfterCachedFill
    BY <1>6 DEF AfterCachedFill, RecoverTarget, ReturnGate, DropMapping, Goto,
       loopVars, fillVars, MayRecover, End, Return, GateOutcome
  <1>7. CASE AfterLearnedFill
    BY <1>7 DEF AfterLearnedFill, ReturnGate, DropMapping, Goto, loopVars, fillVars,
       Return, GateOutcome, End
  <1>8. CASE MapWithVision
    BY <1>8 DEF MapWithVision, Return, Goto, loopVars, End, fillVars
  <1>9. CASE AfterVisionFill
    BY <1>9 DEF AfterVisionFill, ReturnGate, Return, Goto, loopVars, fillVars,
       GateOutcome, End
  <1>10. CASE ConfirmOrError
    BY <1>10 DEF ConfirmOrError, Return, End, Confirmed, Judging, EvidenceInv,
       AnswersAreAsked, Shown, SiteTypeOK
  <1>11. CASE LastAttemptFailed
    BY <1>11 DEF LastAttemptFailed, Return, End, loopVars, fillVars
  <1>12. CASE HandleLinkedIn
    BY <1>12 DEF HandleLinkedIn, FirstFill, Goto, loopVars
  <1>13. CASE ReachForm
    BY <1>13 DEF ReachForm, FirstFill, Goto, loopVars, fillVars
  <1>14. CASE InspectForm
    BY <1>14 DEF InspectForm, Return, End, loopVars, fillVars
  <1>15. CASE UseDedicatedHandler
    BY <1>15 DEF UseDedicatedHandler, Goto, loopVars
  <1>16. CASE LearnMapping
    BY <1>16 DEF LearnMapping, Goto, loopVars
  <1>17. CASE JudgeClick
    BY <1>17 DEF JudgeClick, RecoverTarget, MayRecover, Return, ReturnGate, Goto,
       fillVars, End, loopVars, GateOutcome
  <1>18. CASE AwaitOutcome
    BY <1>18 DEF AwaitOutcome, End, Goto, Decided, Confirmed, Judging, EvidenceInv,
       AnswersAreAsked, Shown, SiteTypeOK
  <1>19. CASE Recheck
    BY <1>19 DEF Recheck, Return, End, Goto, Confirmed, Judging, EvidenceInv,
       AnswersAreAsked, Shown, SiteTypeOK
  <1>20. CASE QuarantineRejection
    BY <1>20 DEF QuarantineRejection, Return, End, loopVars, fillVars
  <1>21. CASE ReadRejection
    BY <1>21 DEF ReadRejection, End, Goto, fillVars
  <1>22. CASE EnterCode
    BY <1>22 DEF EnterCode, Return, Goto, End, loopVars, fillVars
  <1>23. CASE AwaitCode
    BY <1>23 DEF AwaitCode, Return, End, Confirmed, Judging, EvidenceInv,
       AnswersAreAsked, Shown, SiteTypeOK
  <1>24. CASE SolvingFails
    BY <1>24 DEF SolvingFails, Return, End, loopVars, fillVars
  <1>25. CASE SolveAndResubmit
    BY <1>25 DEF SolveAndResubmit, Goto
  <1>26. CASE SiteStep
    BY <1>26 DEF SiteStep, loopVars, fillVars
  <1>27. CASE UNCHANGED vars
    BY <1>27 DEF vars, loopVars, fillVars
  <1> QED
    BY <1>1, <1>2, <1>3, <1>4, <1>5, <1>6, <1>7, <1>8, <1>9, <1>10, <1>11, <1>12,
       <1>13, <1>14, <1>15, <1>16, <1>17, <1>18, <1>19, <1>20, <1>21, <1>22, <1>23,
       <1>24, <1>25, <1>26, <1>27 DEF Next, CallStep, Returned

(* Success is reported only after Submit was clicked on this page and the
   page has thanked since, or moved and shows no error; or its URL has a
   word of confirmation in it.                                             *)
THEOREM SuccessIsEvident == Spec => SuccessHasEvidence
  <1>1. IInv /\ [Next]_vars =>
          [outcome' = "submitted" /\ outcome # "submitted" =>
             \/ trail = "moved" /\ Shown.says # "error"
             \/ trail = "clicked" /\ Shown.says = "thanks"
             \/ page.url \in job.worded]_vars
    BY SuccessStep DEF IInv, SubmitTypeOK
  <1> QED
    BY <1>1, Invariance, PTL DEF Spec, SuccessHasEvidence
=============================================================================
