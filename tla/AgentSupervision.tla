-------------------------- MODULE AgentSupervision --------------------------
(***************************************************************************)
(* Starting and stopping the agent (cmd/agent main, cmd/dashboard          *)
(* serveAgentStart and serveAgentStop).  The agent proves it is the only   *)
(* one by a flock on a file that also holds its PID; the dashboard probes  *)
(* the flock to learn whether an agent runs, and reads the PID to signal   *)
(* it.  The file keeps the PID of the last agent after it is gone.         *)
(*                                                                         *)
(* Between its start and its end the daemon runs cycles: it takes the      *)
(* operator's settings over, drains a batch, and shows what came of it to  *)
(* its watchdog.                                                           *)
(***************************************************************************)
EXTENDS OperatorSettings, Naturals

CONSTANTS
  Agents,       \* the agent processes that are ever launched, by their PID
  ViaGoRun,     \* those the dashboard can only start with "go run"
  None,         \* no process; an empty lock file
  StallCycles   \* watchdogConsecutiveCycles

ASSUME SupervisionAssumption ==
  ViaGoRun \subseteq Agents /\ None \notin Agents /\ StallCycles \in Nat \ {0}

VARIABLES
  stage,    \* of each agent process
  term,     \* the agents a SIGTERM is pending for
  holder,   \* who holds the flock exclusively
  probing,  \* a status probe holds it shared
  pidFile,  \* the PID in the lock file
  start,    \* serveAgentStart: idle, or waiting for the lock of its child
  answer,   \* the last answer of serveAgentStart, and the child it is about
  eff,      \* of the daemon: the effective settings this cycle read
  work,     \* what the snapshot after a batch shows
  watchdog  \* stalledCycles, whether it has seen no cycle yet, lastAlert # ""

lockVars == <<holder, probing, pidFile>>
deskVars == <<start, answer>>
cycleVars == <<eff, work, watchdog>>
vars == <<settingsVars, stage, term, lockVars, deskVars, cycleVars>>

(* "locked" to "claimed": the lock is held, the default action of SIGTERM  *)
(* still applies.                                                          *)
Booting == {"locked", "truncated", "claimed"}
Daemon == {"ready", "reading", "working"}
Stages == {"none", "launched", "exited"} \union Booting \union Daemon

(* A snapshot shows an empty queue or an application more than the last    *)
(* one ("progress"), or neither; then one terminal status makes up three   *)
(* quarters of the outcomes of the day ("stalled") or none does ("mixed"). *)
(* Or it cannot be read.                                                   *)
Snapshots == {"progress", "mixed", "stalled", "unread"}

SupervisionTypeOK ==
  /\ SettingsTypeOK
  /\ stage \in [Agents -> Stages]
  /\ term \subseteq Agents
  /\ holder \in Agents \union {None} /\ probing \in BOOLEAN
  /\ pidFile \in Agents \union {None}
  /\ start \in Agents \union {None}
  /\ answer \in [status : {"none", "started", "failed"}, child : Agents \union {None}]
  /\ eff \in Profiles \union {Corrupt}
  /\ work \in Snapshots
  /\ watchdog \in [stalled : 0..StallCycles, fresh : BOOLEAN, alerted : BOOLEAN]

QuietWatchdog == [stalled |-> 0, fresh |-> TRUE, alerted |-> FALSE]

Init ==
  /\ SettingsInit
  /\ stage = [a \in Agents |-> "none"]
  /\ term = {}
  /\ holder = None /\ probing = FALSE /\ pidFile = None
  /\ start = None /\ answer = [status |-> "none", child |-> None]
  /\ eff = Corrupt /\ work = "progress"
  /\ watchdog = QuietWatchdog

To(a, s) == stage' = [stage EXCEPT ![a] = s]

(* A process ends: the kernel drops its lock, the file keeps its PID.      *)
Exit(a) ==
  /\ To(a, "exited")
  /\ term' = term \ {a}
  /\ holder' = IF holder = a THEN None ELSE holder
  /\ UNCHANGED <<probing, pidFile>>

----------------------------------------------------------------------------
(* The agent.                                                              *)

Take(a) ==
  /\ To(a, "locked") /\ holder' = a
  /\ UNCHANGED <<term, probing, pidFile>>

(* Mutant: a file that can be opened is taken for the lock.                *)
AcquireWithoutLock(a) ==
  /\ stage[a] = "launched"
  /\ IF ~probing THEN Take(a) ELSE Exit(a)
  /\ UNCHANGED <<settingsVars, deskVars, cycleVars>>

(* One attempt.  A probe at this moment refuses it as well as an agent.    *)
acquireSingleInstanceLock(a) ==
  /\ stage[a] = "launched"
  /\ IF holder = None /\ ~probing THEN Take(a) ELSE Exit(a)
  /\ UNCHANGED <<settingsVars, deskVars, cycleVars>>

Truncate(a) ==
  /\ stage[a] = "locked"
  /\ To(a, "truncated") /\ pidFile' = None
  /\ UNCHANGED <<settingsVars, term, holder, probing, deskVars, cycleVars>>

WritePID(a) ==
  /\ stage[a] = "truncated"
  /\ To(a, "claimed") /\ pidFile' = a
  /\ UNCHANGED <<settingsVars, term, holder, probing, deskVars, cycleVars>>

(* main up to the schedule.  It ends here if the database, the models, the *)
(* career profile or a settings file is not usable; from here on a signal  *)
(* only cancels the context.                                               *)
StartUp(a) ==
  /\ stage[a] = "claimed"
  /\ To(a, "ready")
  /\ LoadAtStart
  /\ watchdog' = QuietWatchdog
  /\ UNCHANGED <<term, lockVars, deskVars, eff, work>>

(* A cycle of the daemon: read, take over, drain the batch.                *)
ReadSettings(a) ==
  /\ stage[a] = "ready" /\ a \notin term
  /\ To(a, "reading")
  /\ eff' = IF Readable THEN GetEffectiveSettings ELSE Corrupt
  /\ UNCHANGED <<settingsVars, term, lockVars, deskVars, work, watchdog>>

TakeOverSettings(a) ==
  /\ stage[a] = "reading"
  /\ To(a, "working") /\ eff' = Corrupt
  /\ ApplyInCycle(eff)
  /\ UNCHANGED <<term, lockVars, deskVars, work, watchdog>>

OneMore == IF watchdog.stalled < StallCycles THEN watchdog.stalled + 1 ELSE StallCycles

(* Enough snapshots without progress and a dominant status raise an alert; *)
(* one without a dominant status takes it back.                            *)
Dominated == OneMore = StallCycles /\ work = "stalled"

(* Mutant: the count of the last snapshot is not kept.                     *)
ObserveAfresh ==
  \/ /\ work \in {"mixed", "stalled"}
     /\ watchdog' = [stalled |-> OneMore, fresh |-> TRUE, alerted |-> Dominated]
  \/ /\ work # "unread"
     /\ watchdog' = QuietWatchdog
  \/ /\ work = "unread"
     /\ UNCHANGED watchdog

(* Observe.  For the first snapshot of a process any application that was  *)
(* ever confirmed is progress.                                             *)
Observe ==
  \/ /\ work \in {"mixed", "stalled"}
     /\ watchdog' = [stalled |-> OneMore, fresh |-> FALSE, alerted |-> Dominated]
  \/ /\ work = "progress" \/ (watchdog.fresh /\ work # "unread")
     /\ watchdog' = [stalled |-> 0, fresh |-> FALSE, alerted |-> FALSE]
  \/ /\ work = "unread"
     /\ UNCHANGED watchdog

BatchDone(a) ==
  /\ stage[a] = "working"
  /\ To(a, "ready")
  /\ Observe
  /\ UNCHANGED <<settingsVars, term, lockVars, deskVars, eff, work>>

(* The context is cancelled: the schedule ends after the cycle.            *)
Leave(a) ==
  /\ stage[a] = "ready" /\ a \in term
  /\ Exit(a)
  /\ UNCHANGED <<settingsVars, deskVars, cycleVars>>

AgentStep(a) ==
  \/ acquireSingleInstanceLock(a) \/ Truncate(a) \/ WritePID(a) \/ StartUp(a)
  \/ ReadSettings(a) \/ TakeOverSettings(a) \/ BatchDone(a) \/ Leave(a)

(* It is killed, crashes, or cannot start up.                              *)
Die(a) ==
  /\ stage[a] \notin {"none", "exited"}
  /\ Exit(a)
  /\ eff' = IF stage[a] = "reading" THEN Corrupt ELSE eff
  /\ UNCHANGED <<settingsVars, deskVars, work, watchdog>>

----------------------------------------------------------------------------
(* The dashboard.                                                          *)

(* IsAgentAlive of any request, the start's own included.                  *)
ProbeBegins ==
  /\ ~probing /\ holder = None
  /\ probing' = TRUE
  /\ UNCHANGED <<settingsVars, stage, term, holder, pidFile, deskVars, cycleVars>>

ProbeEnds ==
  /\ probing
  /\ probing' = FALSE
  /\ UNCHANGED <<settingsVars, stage, term, holder, pidFile, deskVars, cycleVars>>

Launch(a) == stage[a] = "none" /\ To(a, "launched")

(* The operator starts an agent in a terminal.                             *)
LaunchByHand(a) ==
  /\ Launch(a)
  /\ UNCHANGED <<settingsVars, term, lockVars, deskVars, cycleVars>>

(* agentMu is held from here to the answer.                                *)
serveAgentStart(a) ==
  /\ start = None /\ holder = None
  /\ Launch(a)
  /\ start' = a
  /\ UNCHANGED <<settingsVars, term, lockVars, answer, cycleVars>>

Answer(status) ==
  /\ answer' = [status |-> status, child |-> start]
  /\ start' = None
  /\ UNCHANGED <<settingsVars, cycleVars>>

(* Mutant: a lock that is held is taken for the child's.                   *)
HeldBySomeone == holder # None

(* What waitForAgentLock compares with the PID of its child.               *)
HeldByChild == holder # None /\ pidFile = start /\ start \notin ViaGoRun

LockEstablished ==
  /\ start # None /\ HeldByChild
  /\ Answer("started")
  /\ UNCHANGED <<stage, term, lockVars>>

(* Kill reaches the child the dashboard started: not what "go run" runs.   *)
KillChild ==
  IF start \in ViaGoRun \/ stage[start] = "exited" THEN UNCHANGED <<stage, term, lockVars>>
  ELSE Exit(start)

(* Another PID is in the file of a held lock, or ten seconds are over.     *)
StartFails ==
  /\ start # None
  /\ KillChild
  /\ Answer("failed")

(* SIGTERM to the PID in the file.                                         *)
Signal(a) ==
  IF stage[a] \in Booting THEN Exit(a)
  ELSE /\ term' = IF stage[a] \in Daemon THEN term \union {a} ELSE term
       /\ UNCHANGED <<stage, lockVars>>

(* What follows, polling the lock until it is free or time is up, changes  *)
(* nothing and holds up no other request.                                  *)
serveAgentStop ==
  /\ start = None /\ holder # None /\ pidFile # None
  /\ Signal(pidFile)
  /\ UNCHANGED <<settingsVars, deskVars, cycleVars>>

OperatorSaves ==
  /\ SaveOperatorSettings
  /\ UNCHANGED <<stage, term, lockVars, deskVars, cycleVars>>

WorkChanges ==
  /\ work' \in Snapshots
  /\ UNCHANGED <<settingsVars, stage, term, lockVars, deskVars, eff, watchdog>>

Next ==
  \/ \E a \in Agents :
       AgentStep(a) \/ Die(a) \/ LaunchByHand(a) \/ serveAgentStart(a)
  \/ ProbeBegins \/ ProbeEnds
  \/ LockEstablished \/ StartFails
  \/ serveAgentStop
  \/ OperatorSaves \/ WorkChanges

Spec == Init /\ [][Next]_vars

(* Agents run on and probes end by themselves; the start has a deadline.   *)
FairSpec ==
  /\ Spec
  /\ \A a \in Agents : WF_vars(AgentStep(a))
  /\ WF_vars(ProbeEnds) /\ WF_vars(LockEstablished \/ StartFails)

----------------------------------------------------------------------------

Holding(a) == stage[a] \in Booting \union Daemon

(* One agent at most is past the lock, and the lock is its: two starts at  *)
(* the same time, a start beside a stop, crashes (single-instance lock).   *)
AtMostOneAgent ==
  \A a, b \in Agents : Holding(a) /\ Holding(b) => a = b /\ holder = a

(* What serveAgentStart answers is so: "started" means that the child got  *)
(* the lock and wrote its PID, a failure that no child is left behind.     *)
StartAnswerIsTrue ==
  /\ answer.status = "started" =>
       stage[answer.child] \in {"claimed", "exited"} \union Daemon
  /\ answer.status = "failed" /\ answer.child \notin ViaGoRun =>
       stage[answer.child] = "exited"

(* What the workers run under is what the file says, as far as it says.    *)
SettingsTaken ==
  Readable =>
    /\ profile.mode = GetEffectiveSettings.mode
    /\ LoadOperatorSettings.countries # Unset =>
         profile.countries = GetEffectiveSettings.countries

(* Once the operator stops changing the file, a daemon that keeps running  *)
(* comes to work under it, although it reads the file twice and keeps      *)
(* what it cannot replace.  A selector that is not set is not promised.    *)
SettingsSettle ==
  <>[](\E a \in Agents : stage[a] \in Daemon)
  => (<>[][UNCHANGED file]_vars => <>[]SettingsTaken)

(* A queue that yields nothing but one terminal status, cycle after cycle, *)
(* has its alert in the end and keeps it: an alert of an earlier stall,    *)
(* which progress or a mixed cycle took back, does not stand in for it,    *)
(* and the first cycle of a process, which may count old applications as   *)
(* progress, only puts it off.                                             *)
StallIsAlerted ==
  <>[](work = "stalled" /\ \E a \in Agents : stage[a] \in Daemon)
  => <>[]watchdog.alerted
=============================================================================
