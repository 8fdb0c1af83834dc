---------------------------- MODULE ApplySession ----------------------------
(***************************************************************************)
(* The apply session of pkg/storage/sessions.go: the run through the jobs  *)
(* the operator selected, one visible browser after the other.  Every      *)
(* action is one statement or one transaction.                             *)
(*                                                                         *)
(* Start refuses while a session is open and every statement filters on    *)
(* the open one, so only the latest session is kept; once it is finished   *)
(* its items stay as they were, until the next Start replaces them.        *)
(***************************************************************************)
EXTENDS JobIds

VARIABLES
  session,    \* state of the latest session; "none" before the first
  stopAfter,  \* stop_after_current
  item        \* state of each job's item in it; "absent" when not selected

sessionVars == <<session, stopAfter, item>>

SessionStates == {"none", "running", "paused", "finished"}

(* The five terminal states are told apart by who ended the work: decided  *)
(* (confirmed, not_found) is the operator's outcome for the application,   *)
(* left (skipped, blocked_deferred, stopped) says nothing of it.           *)
TerminalItemStates == {"decided", "left"}
ItemStates == {"absent", "pending", "in_progress"} \union TerminalItemStates

SessionTypeOK ==
  /\ session \in SessionStates
  /\ stopAfter \in BOOLEAN
  /\ item \in [Jobs -> ItemStates]

SessionInit ==
  /\ session = "none"
  /\ stopAfter = FALSE
  /\ item = [j \in Jobs |-> "absent"]

Open == session \in {"running", "paused"}
Unfinished(items, j) == items[j] \in {"pending", "in_progress"}
Terminal(j) == item[j] \in TerminalItemStates

----------------------------------------------------------------------------
(* auto_advance is always set: the dashboard passes true.                  *)
StartApplySession(selected) ==
  /\ ~Open
  /\ selected # {}
  /\ session' = "running"
  /\ stopAfter' = FALSE
  /\ item' = [j \in Jobs |-> IF j \in selected THEN "pending" ELSE "absent"]

(* Mutant: the check for an item in progress is missing.                   *)
NextBesideInProgress(j, browserIsLive) ==
  /\ session = "running" /\ ~stopAfter
  /\ ~browserIsLive
  /\ item[j] = "pending"
  /\ \A k \in Jobs : k < j => item[k] # "pending"

(* browserIsLive is assistedBrowserIsLive, asked of the lease table.       *)
NextApplySessionJob(j, browserIsLive) ==
  /\ session = "running" /\ ~stopAfter
  /\ \A k \in Jobs : item[k] # "in_progress"
  /\ ~browserIsLive
  /\ item[j] = "pending"
  /\ \A k \in Jobs : k < j => item[k] # "pending"

MarkApplySessionItemOpen(j) ==
  /\ item' = [item EXCEPT ![j] =
                IF Open /\ @ = "pending" THEN "in_progress" ELSE @]
  /\ UNCHANGED <<session, stopAfter>>

(* The work of an open session is over once no item can still be worked,   *)
(* or at the first outcome after the operator asked for stop-after-current.*)
FinishIfComplete(items) ==
  LET over == stopAfter \/ \A k \in Jobs : ~Unfinished(items, k) IN
  /\ session' = IF over THEN "finished" ELSE session
  /\ item' = [k \in Jobs |-> IF over /\ items[k] = "pending" THEN "left"
                                                             ELSE items[k]]
  /\ UNCHANGED stopAfter

(* Mutant: only an item in progress can be given an outcome.               *)
AdvanceInProgressItem(j, outcome) ==
  IF Open /\ item[j] = "in_progress"
    THEN FinishIfComplete([item EXCEPT ![j] = outcome])
    ELSE UNCHANGED sessionVars

AdvanceApplySessionItem(j, outcome) ==
  IF Open /\ Unfinished(item, j)
    THEN FinishIfComplete([item EXCEPT ![j] = outcome])
    ELSE UNCHANGED sessionVars

(* A browser that closed says nothing of the application: the item waits   *)
(* again, and a running session stops to ask.                              *)
PauseApplySessionForClosedBrowser(j) ==
  IF Open /\ item[j] = "in_progress"
    THEN /\ item' = [item EXCEPT ![j] = "pending"]
         /\ session' = "paused"
         /\ UNCHANGED stopAfter
    ELSE UNCHANGED sessionVars

SetApplySessionState(s) ==
  /\ Open
  /\ session' = s
  /\ UNCHANGED <<stopAfter, item>>

SetApplySessionStopAfterCurrent ==
  /\ Open
  /\ stopAfter' = TRUE
  /\ UNCHANGED <<session, item>>

StopApplySession ==
  /\ Open
  /\ session' = "finished"
  /\ item' = [j \in Jobs |-> IF Unfinished(item, j) THEN "left" ELSE item[j]]
  /\ UNCHANGED stopAfter

(* Mutant: only an outcome of the operator's ends the work, no skip.       *)
DecidedWorkFinished(j) == Open /\ item[j] = "decided"

(* What a browser process asks of its own job: has it reached an outcome?  *)
(* Only open sessions are looked at.                                       *)
AssistedWorkFinished(j) == Open /\ Terminal(j)
============================================================================
