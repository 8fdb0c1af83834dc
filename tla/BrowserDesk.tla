---------------------------- MODULE BrowserDesk ----------------------------
(***************************************************************************)
(* What the assisted handoff promises the operator, with no table, lease   *)
(* or clock: a visible browser is opened only on an application that has   *)
(* no outcome yet, and beside another one only if nobody attends to that   *)
(* other any more; an outcome is never taken back.                         *)
(***************************************************************************)
CONSTANTS Jobs, Processes

VARIABLES
  desk,        \* <<process, job>> of each visible browser
  unattended,  \* those given up since, though they may still be on screen
  done         \* the jobs the operator has given an outcome

vars == <<desk, unattended, done>>

Init == desk = {} /\ unattended = {} /\ done = {}

Open(p, j) ==
  /\ desk = unattended
  /\ j \notin done
  /\ \A b \in desk : b[1] # p
  /\ desk' = desk \union {<<p, j>>}
  /\ UNCHANGED <<unattended, done>>

GiveUp(b) ==
  /\ b \in desk
  /\ unattended' = unattended \union {b}
  /\ UNCHANGED <<desk, done>>

Close(b) ==
  /\ b \in desk
  /\ desk' = desk \ {b}
  /\ unattended' = unattended \ {b}
  /\ UNCHANGED done

(* The outcome is the operator's word; the browser may still be open.      *)
Decide(j) ==
  /\ j \notin done
  /\ done' = done \union {j}
  /\ UNCHANGED <<desk, unattended>>

Next ==
  \/ \E p \in Processes, j \in Jobs : Open(p, j)
  \/ \E b \in desk : GiveUp(b) \/ Close(b)
  \/ \E j \in Jobs : Decide(j)

Spec == Init /\ [][Next]_vars
============================================================================
