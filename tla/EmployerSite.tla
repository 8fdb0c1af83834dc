---------------------------- MODULE EmployerSite ----------------------------
(***************************************************************************)
(* What one call of AttemptSubmit acts on: the browser page, the           *)
(* employer's server behind it, and the mailbox a security code arrives    *)
(* in.  A click returns when it is dispatched: what the server answers is  *)
(* shown by the page later, and the page may be dead by then.              *)
(***************************************************************************)
EXTENDS Naturals

VARIABLES
  page,         \* the page: whether it is alive, its URL, and what it shows
  answer,       \* what the server has answered and the page does not show yet
  code,         \* the e-mail with a security code
  accepted,     \* history: applications the server has accepted: 0, 1, or 2 and more
  clicks,       \* history: clicks on a submit control in this call
  trail,        \* history: Submit "clicked" on this page, and "moved" since
  missed        \* history: an acceptance the program has not been able to see

siteVars == <<page, answer, code, accepted, clicks, trail, missed>>

(* The posting, the form its Apply button leads to, and any later page.    *)
Urls == {"posting", "form", "after"}
Pages ==
  [ open : BOOLEAN, url : Urls,
    says : {"form", "error", "code", "thanks", "nothing"}, flagged : BOOLEAN ]
Answers == {"none", "thanks", "moved", "code", "rejected"}

SiteTypeOK ==
  /\ page \in Pages /\ answer \in Answers
  /\ code \in {"none", "sent", "arrived"}
  /\ accepted \in 0 .. 2 /\ clicks \in Nat /\ accepted <= clicks
  /\ trail \in {"none", "clicked", "moved"} /\ missed \in BOOLEAN

SiteInit ==
  /\ page = [open |-> FALSE, url |-> "posting", says |-> "nothing", flagged |-> FALSE]
  /\ answer = "none" /\ code = "none"
  /\ accepted = 0 /\ clicks = 0 /\ trail = "none" /\ missed = FALSE

(* What Content and the locators find: nothing, once the target is closed. *)
Shown ==
  IF page.open THEN page ELSE [page EXCEPT !.says = "nothing", !.flagged = FALSE]

----------------------------------------------------------------------------
(* newSubmitPage: a redirect may end at the form.                          *)
NewSubmitPage ==
  /\ \E u \in {"posting", "form"} :
       page' = [open |-> TRUE, url |-> u, says |-> "form", flagged |-> FALSE]
  /\ answer' = "none" /\ trail' = "none"
  /\ UNCHANGED <<code, accepted, clicks, missed>>

(* clickApplyIfPresent.                                                    *)
ClickApply ==
  /\ \/ page.open /\ page' = [page EXCEPT !.url = "form"]
     \/ UNCHANGED page
  /\ UNCHANGED <<answer, code, accepted, clicks, trail, missed>>

(* An error hides what became of the click.                                *)
Unseen(err) == missed' = (missed \/ (err # "none" /\ accepted' > 0))

Clicked(err) ==
  /\ page.open /\ Shown.says \in {"form", "error", "code"}
  /\ err \in {"none", "failed", "closed"}
  /\ page' = [page EXCEPT !.open = err # "closed"]
  /\ clicks' = clicks + 1
  /\ trail' = IF trail = "none" THEN "clicked" ELSE trail

(* What a click leaves of the mail: submitClickedAt hides an older code.   *)
Mail(renewed) == IF renewed /\ code = "arrived" THEN "none" ELSE code

(* A click that submits the form; renewed when it sets submitClickedAt.    *)
ClickSubmit(renewed, err) ==
  /\ Clicked(err)
  /\ \/ /\ answer' \in {answer, "rejected"} /\ code' = Mail(renewed)
        /\ UNCHANGED accepted
     \/ /\ answer' \in {"thanks", "moved", "code"} /\ accepted' = IF accepted = 0 THEN 1 ELSE 2
        /\ code' = IF answer' = "code" /\ Mail(renewed) = "none"
                   THEN "sent" ELSE Mail(renewed)
  /\ Unseen(err)

(* The click after the emailed code was entered completes what is accepted. *)
ClickCode(err) ==
  /\ Clicked(err)
  /\ answer' \in {answer, "thanks", "moved", "rejected"}
  /\ code' = Mail(TRUE)
  /\ UNCHANGED accepted
  /\ Unseen(err)

(* A call on a page that is gone.                                          *)
CallClosedPage ==
  /\ ~page.open
  /\ UNCHANGED <<page, answer, code, accepted, clicks, trail>>
  /\ Unseen("closed")

----------------------------------------------------------------------------
(* Meanwhile.                                                              *)

Elsewhere == IF page.url = "after" THEN "form" ELSE "after"

(* The code challenge replaces the form and leaves its markers standing.   *)
Rendered ==
  CASE answer = "thanks" -> {[page EXCEPT !.says = "thanks", !.flagged = FALSE]}
    [] answer = "moved" ->
         {[page EXCEPT !.url = Elsewhere, !.says = "nothing", !.flagged = FALSE]}
    [] answer = "code" -> {[page EXCEPT !.says = "code"]}
    [] answer = "rejected" ->
         { p \in [ open : {TRUE}, url : {page.url, Elsewhere},
                   says : {"form", "error"}, flagged : BOOLEAN ] :
             p.flagged \/ p.says = "error" }

Render ==
  /\ page.open /\ answer # "none"
  /\ page' \in Rendered
  /\ trail' = IF page'.url # page.url THEN "moved" ELSE trail
  /\ answer' = "none"
  /\ UNCHANGED <<code, accepted, clicks, missed>>

CodeArrives ==
  /\ code = "sent" /\ code' = "arrived"
  /\ UNCHANGED <<page, answer, accepted, clicks, trail, missed>>

TargetCloses ==
  /\ page.open /\ page' = [page EXCEPT !.open = FALSE]
  /\ UNCHANGED <<answer, code, accepted, clicks, trail, missed>>
=============================================================================
