----------------------- MODULE AgentSupervisionProofs -----------------------
(***************************************************************************)
(* The safety properties of AgentSupervision, for any number of agents,    *)
(* however they are launched, and any settings.                            *)
(***************************************************************************)
EXTENDS AgentSupervision, TLAPS

(* The flock is held by the agent that is past it, and by nobody else.     *)
HolderIsHolding == \A a \in Agents : Holding(a) <=> holder = a

(* The file names an agent only after the agent wrote its PID.             *)
PastClaim == {"claimed", "exited"} \union Daemon
PidIsWritten == pidFile # None => stage[pidFile] \in PastClaim

(* An answer is about a child that was launched.                           *)
AnswerHasChild == answer.status # "none" => answer.child \in Agents

IInv ==
  /\ SupervisionTypeOK
  /\ HolderIsHolding /\ PidIsWritten
  /\ AnswerHasChild /\ StartAnswerIsTrue

(* The flock excludes: two agents past it would both be its holder.        *)
LEMMA ImpliesOneAgent == IInv => AtMostOneAgent
BY DEF IInv, HolderIsHolding, AtMostOneAgent

(* Nothing was launched, nobody holds the lock, nothing was answered.      *)
LEMMA InitInv == ASSUME Init PROVE IInv
<1>1. SettingsTypeOK
  BY SettingsAssumption DEF Init, SettingsInit, ProfileYaml, SettingsTypeOK, Settings, Profiles
<1>2. watchdog \in [stalled : 0..StallCycles, fresh : BOOLEAN, alerted : BOOLEAN]
  BY SupervisionAssumption DEF Init, QuietWatchdog
<1>3. SupervisionTypeOK
  BY <1>1, <1>2 DEF Init, SupervisionTypeOK, Stages, Snapshots
<1>4. HolderIsHolding /\ PidIsWritten /\ AnswerHasChild /\ StartAnswerIsTrue
  BY SupervisionAssumption DEF Init, HolderIsHolding, Holding, Booting, Daemon, PidIsWritten,
     AnswerHasChild, StartAnswerIsTrue
<1>. QED BY <1>3, <1>4 DEF IInv

(* The settings keep their types whatever the file says.                   *)
LEMMA LoadedSettings ==
  ASSUME SettingsTypeOK, Readable
  PROVE  /\ LoadOperatorSettings \in Settings
         /\ GetEffectiveSettings \in Profiles
         /\ ApplyOperatorSettings(profile, LoadOperatorSettings) \in Profiles
<1>1. LoadOperatorSettings \in Settings
  BY SettingsAssumption DEF SettingsTypeOK, Readable, LoadOperatorSettings,
     DefaultOperatorSettings, Settings
<1>2. ProfileYaml \in Profiles
  BY SettingsAssumption DEF ProfileYaml, Profiles
<1>3. ASSUME NEW p \in Profiles, NEW op \in Settings
      PROVE  ApplyOperatorSettings(p, op) \in Profiles
  BY DEF ApplyOperatorSettings, Profiles, Settings
<1>. QED BY <1>1, <1>2, <1>3 DEF GetEffectiveSettings, SettingsTypeOK

----------------------------------------------------------------------------
(* What the processes, the lock and the answers are, the cycle aside.      *)
CoreVars == <<stage, holder, pidFile, start, answer>>

(* A step that changes no process, lock or answer.                         *)
LEMMA CoreKept ==
  ASSUME IInv, SupervisionTypeOK', UNCHANGED CoreVars
  PROVE  IInv'
BY DEF IInv, CoreVars, HolderIsHolding, Holding, PidIsWritten, AnswerHasChild, StartAnswerIsTrue

(* An agent moves on without taking or leaving the lock.                   *)
LEMMA MovesOn ==
  ASSUME IInv, SupervisionTypeOK', NEW a \in Agents, NEW s \in Booting \union Daemon, To(a, s),
         Holding(a), stage[a] \in PastClaim => s \in PastClaim,
         pidFile' = pidFile, UNCHANGED <<holder, answer>>
  PROVE  IInv'
<1>1. \A b \in Agents : stage'[b] = IF b = a THEN s ELSE stage[b]
  BY DEF To, IInv, SupervisionTypeOK
<1>2. HolderIsHolding'
  BY <1>1 DEF IInv, HolderIsHolding, Holding
<1>3. PidIsWritten'
  BY <1>1 DEF IInv, SupervisionTypeOK, PidIsWritten, PastClaim
<1>4. AnswerHasChild' /\ StartAnswerIsTrue'
  BY <1>1, SupervisionAssumption DEF IInv, AnswerHasChild, StartAnswerIsTrue, Holding, Booting, Daemon, PastClaim
<1>. QED BY <1>2, <1>3, <1>4 DEF IInv

(* A process ends and its lock with it.                                    *)
LEMMA ExitKeepsInv ==
  ASSUME IInv, SupervisionTypeOK', NEW a \in Agents, Exit(a),
         AnswerHasChild', answer' = answer
  PROVE  IInv'
<1>1. \A b \in Agents : stage'[b] = IF b = a THEN "exited" ELSE stage[b]
  BY DEF Exit, To, IInv, SupervisionTypeOK
<1>2. HolderIsHolding'
  BY <1>1, SupervisionAssumption DEF Exit, IInv, HolderIsHolding, Holding, Booting, Daemon
<1>3. PidIsWritten'
  BY <1>1 DEF Exit, IInv, SupervisionTypeOK, PidIsWritten, PastClaim
<1>4. StartAnswerIsTrue'
  BY <1>1 DEF IInv, AnswerHasChild, StartAnswerIsTrue
<1>. QED BY <1>2, <1>3, <1>4 DEF IInv

(* What Exit leaves of the types.                                          *)
LEMMA ExitTypes ==
  ASSUME SupervisionTypeOK, NEW a \in Agents, Exit(a)
  PROVE  /\ stage' \in [Agents -> Stages]
         /\ term' \subseteq Agents
         /\ holder' \in Agents \union {None} /\ probing' \in BOOLEAN
         /\ pidFile' \in Agents \union {None}
BY DEF SupervisionTypeOK, Exit, To, Stages

----------------------------------------------------------------------------
(* The agent.                                                              *)

(* One attempt at the lock: the agent has it afterwards, or is gone.       *)
LEMMA acquireInv ==
  ASSUME IInv, NEW a \in Agents, acquireSingleInstanceLock(a) PROVE IInv'
<1>1. CASE Exit(a)
  <2>1. SupervisionTypeOK'
    BY <1>1, ExitTypes DEF acquireSingleInstanceLock, IInv, SupervisionTypeOK, SettingsTypeOK,
       settingsVars, deskVars, cycleVars
  <2>. QED
    BY <1>1, <2>1, ExitKeepsInv DEF acquireSingleInstanceLock, deskVars, IInv, AnswerHasChild
<1>2. CASE Take(a) /\ holder = None
  <2>1. SupervisionTypeOK'
    BY <1>2 DEF Take, To, acquireSingleInstanceLock, IInv, SupervisionTypeOK, SettingsTypeOK,
       settingsVars, deskVars, cycleVars, Stages, Booting
  <2>2. \A b \in Agents : stage'[b] = IF b = a THEN "locked" ELSE stage[b]
    BY <1>2 DEF Take, To, IInv, SupervisionTypeOK
  <2>3. HolderIsHolding'
    BY <1>2, <2>2, SupervisionAssumption DEF Take, IInv, HolderIsHolding, Holding, Booting
  <2>4. PidIsWritten' /\ AnswerHasChild' /\ StartAnswerIsTrue'
    BY <1>2, <2>2 DEF Take, acquireSingleInstanceLock, deskVars, IInv, SupervisionTypeOK,
       PidIsWritten, PastClaim, Daemon, AnswerHasChild, StartAnswerIsTrue
  <2>. QED BY <2>1, <2>3, <2>4 DEF IInv
<1>. QED BY <1>1, <1>2 DEF acquireSingleInstanceLock

(* The file is emptied under the lock, so it names nobody.                 *)
LEMMA TruncateInv == ASSUME IInv, NEW a \in Agents, Truncate(a) PROVE IInv'
<1>1. \A b \in Agents : stage'[b] = IF b = a THEN "truncated" ELSE stage[b]
  BY DEF Truncate, To, IInv, SupervisionTypeOK
<1>2. SupervisionTypeOK'
  BY DEF Truncate, To, IInv, SupervisionTypeOK, SettingsTypeOK, settingsVars, deskVars,
     cycleVars, Stages, Booting
<1>3. HolderIsHolding' /\ PidIsWritten'
  BY <1>1 DEF Truncate, IInv, HolderIsHolding, Holding, Booting, PidIsWritten
<1>4. AnswerHasChild' /\ StartAnswerIsTrue'
  BY <1>1 DEF Truncate, deskVars, IInv, AnswerHasChild, StartAnswerIsTrue, Daemon
<1>. QED BY <1>2, <1>3, <1>4 DEF IInv

(* The file names the holder of the lock.                                  *)
LEMMA WritePIDInv == ASSUME IInv, NEW a \in Agents, WritePID(a) PROVE IInv'
<1>1. \A b \in Agents : stage'[b] = IF b = a THEN "claimed" ELSE stage[b]
  BY DEF WritePID, To, IInv, SupervisionTypeOK
<1>2. SupervisionTypeOK'
  BY DEF WritePID, To, IInv, SupervisionTypeOK, SettingsTypeOK, settingsVars, deskVars,
     cycleVars, Stages, Booting
<1>3. HolderIsHolding' /\ PidIsWritten'
  BY <1>1 DEF WritePID, IInv, HolderIsHolding, Holding, Booting, PidIsWritten, PastClaim
<1>4. AnswerHasChild' /\ StartAnswerIsTrue'
  BY <1>1 DEF WritePID, deskVars, IInv, AnswerHasChild, StartAnswerIsTrue, Daemon
<1>. QED BY <1>2, <1>3, <1>4 DEF IInv

(* The cycle: the settings, the watchdog and the stage keep their types.   *)
LEMMA CycleTypes ==
  ASSUME IInv, NEW a \in Agents,
         StartUp(a) \/ ReadSettings(a) \/ TakeOverSettings(a) \/ BatchDone(a)
  PROVE  SupervisionTypeOK'
<1>. USE DEF IInv, SupervisionTypeOK, To, Stages, Daemon, lockVars, deskVars
<1>1. CASE StartUp(a)
  <2>1. SettingsTypeOK'
    BY <1>1, LoadedSettings DEF StartUp, LoadAtStart, SettingsTypeOK, GetEffectiveSettings
  <2>2. watchdog' \in [stalled : 0..StallCycles, fresh : BOOLEAN, alerted : BOOLEAN]
    BY <1>1, SupervisionAssumption DEF StartUp, QuietWatchdog
  <2>. QED BY <1>1, <2>1, <2>2 DEF StartUp
<1>2. CASE ReadSettings(a)
  BY <1>2, LoadedSettings DEF ReadSettings, settingsVars, SettingsTypeOK
<1>3. CASE TakeOverSettings(a)
  <2>1. SettingsTypeOK'
    <3>1. eff # Corrupt => eff.mode \in Modes
      BY DEF Profiles
    <3>. QED
      BY <1>3, <3>1, LoadedSettings DEF TakeOverSettings, ApplyInCycle, settingsVars, SettingsTypeOK
  <2>. QED BY <1>3, <2>1 DEF TakeOverSettings
<1>4. CASE BatchDone(a)
  <2>1. watchdog.stalled \in 0..StallCycles /\ StallCycles \in Nat \ {0}
    BY SupervisionAssumption
  <2>2. watchdog' \in [stalled : 0..StallCycles, fresh : BOOLEAN, alerted : BOOLEAN]
    <3>1. 0 \in 0..StallCycles /\ OneMore \in 0..StallCycles
      BY <2>1 DEF OneMore
    <3>2. Dominated \in BOOLEAN
      BY DEF Dominated
    <3>3. CASE watchdog' = [stalled |-> OneMore, fresh |-> FALSE, alerted |-> Dominated]
      BY <3>1, <3>2, <3>3
    <3>4. CASE watchdog' = [stalled |-> 0, fresh |-> FALSE, alerted |-> FALSE]
      BY <3>1, <3>4
    <3>5. CASE UNCHANGED watchdog
      BY <3>5
    <3>. QED BY <1>4, <3>3, <3>4, <3>5 DEF BatchDone, Observe
  <2>. QED BY <1>4, <2>2 DEF BatchDone, settingsVars, SettingsTypeOK
<1>. QED BY <1>1, <1>2, <1>3, <1>4

(* Its steps leave the lock where it is.                                   *)
LEMMA CycleInv ==
  ASSUME IInv, NEW a \in Agents,
         StartUp(a) \/ ReadSettings(a) \/ TakeOverSettings(a) \/ BatchDone(a)
  PROVE  IInv'
<1>1. PICK s \in Daemon : To(a, s)
  BY DEF StartUp, ReadSettings, TakeOverSettings, BatchDone, Daemon
<1>2. Holding(a) /\ stage[a] \in PastClaim /\ s \in PastClaim
  BY <1>1 DEF StartUp, ReadSettings, TakeOverSettings, BatchDone, Holding, Booting, Daemon, PastClaim
<1>3. pidFile' = pidFile /\ UNCHANGED <<holder, answer>>
  BY DEF StartUp, ReadSettings, TakeOverSettings, BatchDone, lockVars, deskVars
<1>. QED BY <1>1, <1>2, <1>3, CycleTypes, MovesOn

(* An agent leaves after its cycle, or dies anywhere.                      *)
LEMMA EndInv == ASSUME IInv, NEW a \in Agents, Leave(a) \/ Die(a) PROVE IInv'
<1>1. Exit(a) /\ UNCHANGED <<settingsVars, deskVars, work, watchdog>> /\ eff' \in {eff, Corrupt}
  BY DEF Leave, Die, cycleVars
<1>2. SupervisionTypeOK'
  BY <1>1, ExitTypes DEF IInv, SupervisionTypeOK, SettingsTypeOK, settingsVars, deskVars
<1>. QED BY <1>1, <1>2, ExitKeepsInv DEF deskVars, IInv, AnswerHasChild

----------------------------------------------------------------------------
(* The dashboard.                                                          *)

(* A launched process holds nothing yet.                                   *)
LEMMA LaunchInv ==
  ASSUME IInv, NEW a \in Agents, LaunchByHand(a) \/ serveAgentStart(a) PROVE IInv'
<1>1. stage[a] = "none" /\ \A b \in Agents : stage'[b] = IF b = a THEN "launched" ELSE stage[b]
  BY DEF LaunchByHand, serveAgentStart, Launch, To, IInv, SupervisionTypeOK
<1>2. UNCHANGED <<settingsVars, term, holder, probing, pidFile, answer, eff, work, watchdog>>
  BY DEF LaunchByHand, serveAgentStart, lockVars, deskVars, cycleVars
<1>3. SupervisionTypeOK'
  BY <1>2 DEF LaunchByHand, serveAgentStart, Launch, To, deskVars, IInv, SupervisionTypeOK,
     SettingsTypeOK, settingsVars, Stages
<1>4. HolderIsHolding' /\ PidIsWritten'
  BY <1>1, <1>2 DEF IInv, SupervisionTypeOK, HolderIsHolding, Holding, Booting, Daemon,
     PidIsWritten, PastClaim
<1>5. AnswerHasChild' /\ StartAnswerIsTrue'
  BY <1>1, <1>2 DEF IInv, AnswerHasChild, StartAnswerIsTrue, Daemon
<1>. QED BY <1>3, <1>4, <1>5 DEF IInv

(* "started": the file names the child, so it has claimed the lock.        *)
LEMMA LockEstablishedInv == ASSUME IInv, LockEstablished PROVE IInv'
<1>1. start \in Agents /\ stage[start] \in PastClaim
  BY DEF LockEstablished, HeldByChild, IInv, SupervisionTypeOK, PidIsWritten
<1>2. answer' = [status |-> "started", child |-> start]
      /\ UNCHANGED <<settingsVars, stage, term, holder, probing, pidFile, eff, work, watchdog>>
      /\ start' = None
  BY DEF LockEstablished, Answer, lockVars, cycleVars
<1>3. SupervisionTypeOK'
  BY <1>1, <1>2 DEF IInv, SupervisionTypeOK, SettingsTypeOK, settingsVars
<1>4. HolderIsHolding' /\ PidIsWritten'
  BY <1>2 DEF IInv, HolderIsHolding, Holding, PidIsWritten
<1>5. AnswerHasChild' /\ StartAnswerIsTrue'
  BY <1>1, <1>2 DEF AnswerHasChild, StartAnswerIsTrue, PastClaim
<1>. QED BY <1>3, <1>4, <1>5 DEF IInv

(* The child is gone before the failure is answered, unless "go run" runs  *)
(* it.                                                                     *)
LEMMA StartFailsInv == ASSUME IInv, StartFails PROVE IInv'
<1>1. start \in Agents
  BY DEF StartFails, IInv, SupervisionTypeOK
<1>2. answer' = [status |-> "failed", child |-> start] /\ start' = None
      /\ UNCHANGED <<settingsVars, eff, work, watchdog>>
  BY DEF StartFails, Answer, cycleVars
<1>3. CASE start \in ViaGoRun \/ stage[start] = "exited"
  <2>1. UNCHANGED <<stage, term, holder, probing, pidFile>>
    BY <1>3 DEF StartFails, KillChild, lockVars
  <2>2. SupervisionTypeOK'
    BY <1>1, <1>2, <2>1 DEF IInv, SupervisionTypeOK, SettingsTypeOK, settingsVars
  <2>3. HolderIsHolding' /\ PidIsWritten'
    BY <2>1 DEF IInv, HolderIsHolding, Holding, PidIsWritten
  <2>4. AnswerHasChild' /\ StartAnswerIsTrue'
    BY <1>1, <1>2, <1>3, <2>1 DEF AnswerHasChild, StartAnswerIsTrue
  <2>. QED BY <2>2, <2>3, <2>4 DEF IInv
<1>4. CASE Exit(start)
  <2>1. \A b \in Agents : stage'[b] = IF b = start THEN "exited" ELSE stage[b]
    BY <1>4 DEF Exit, To, IInv, SupervisionTypeOK
  <2>2. SupervisionTypeOK'
    BY <1>1, <1>2, <1>4, ExitTypes DEF IInv, SupervisionTypeOK, SettingsTypeOK, settingsVars
  <2>3. HolderIsHolding'
    BY <1>1, <1>4, <2>1, SupervisionAssumption DEF Exit, IInv, HolderIsHolding, Holding, Booting, Daemon
  <2>4. PidIsWritten'
    BY <1>4, <2>1 DEF Exit, IInv, SupervisionTypeOK, PidIsWritten, PastClaim
  <2>5. AnswerHasChild' /\ StartAnswerIsTrue'
    BY <1>1, <1>2, <2>1 DEF AnswerHasChild, StartAnswerIsTrue
  <2>. QED BY <2>2, <2>3, <2>4, <2>5 DEF IInv
<1>. QED BY <1>3, <1>4 DEF StartFails, KillChild

(* A signal ends an agent that has not yet asked to be notified of it, and *)
(* is kept for one that has.                                               *)
LEMMA serveAgentStopInv == ASSUME IInv, serveAgentStop PROVE IInv'
<1>1. pidFile \in Agents /\ UNCHANGED <<settingsVars, start, answer, eff, work, watchdog>>
  BY DEF serveAgentStop, deskVars, cycleVars, IInv, SupervisionTypeOK
<1>2. CASE Exit(pidFile)
  <2>1. SupervisionTypeOK'
    BY <1>1, <1>2, ExitTypes DEF IInv, SupervisionTypeOK, SettingsTypeOK, settingsVars
  <2>. QED BY <1>1, <1>2, <2>1, ExitKeepsInv DEF IInv, AnswerHasChild
<1>3. CASE UNCHANGED <<stage, lockVars>> /\ term' \in {term, term \union {pidFile}}
  <2>1. SupervisionTypeOK'
    BY <1>1, <1>3 DEF IInv, SupervisionTypeOK, SettingsTypeOK, settingsVars, lockVars
  <2>. QED BY <1>1, <1>3, <2>1, CoreKept DEF CoreVars, lockVars
<1>. QED BY <1>2, <1>3 DEF serveAgentStop, Signal

(* Probes, the operator's file and the work found change no process.       *)
LEMMA AsideInv ==
  ASSUME IInv, ProbeBegins \/ ProbeEnds \/ OperatorSaves \/ WorkChanges PROVE IInv'
<1>1. SupervisionTypeOK'
  BY DEF ProbeBegins, ProbeEnds, OperatorSaves, SaveOperatorSettings, WorkChanges, IInv,
     SupervisionTypeOK, SettingsTypeOK, settingsVars, lockVars, deskVars, cycleVars
<1>2. UNCHANGED CoreVars
  BY DEF ProbeBegins, ProbeEnds, OperatorSaves, WorkChanges, CoreVars, lockVars, deskVars
<1>. QED BY <1>1, <1>2, CoreKept

----------------------------------------------------------------------------
(* Every step keeps the invariant.                                         *)
LEMMA NextInv == IInv /\ [Next]_vars => IInv'
<1>. SUFFICES ASSUME IInv, [Next]_vars PROVE IInv'
  OBVIOUS
<1>1. ASSUME NEW a \in Agents, AgentStep(a) PROVE IInv'
  BY <1>1, acquireInv, TruncateInv, WritePIDInv, CycleInv, EndInv DEF AgentStep
<1>2. ASSUME NEW a \in Agents, Die(a) \/ LaunchByHand(a) \/ serveAgentStart(a) PROVE IInv'
  BY <1>2, EndInv, LaunchInv
<1>3. CASE LockEstablished \/ StartFails \/ serveAgentStop
  BY <1>3, LockEstablishedInv, StartFailsInv, serveAgentStopInv
<1>4. CASE ProbeBegins \/ ProbeEnds \/ OperatorSaves \/ WorkChanges
  BY <1>4, AsideInv
<1>5. CASE UNCHANGED vars
  <2>1. SupervisionTypeOK'
    BY <1>5 DEF vars, lockVars, deskVars, cycleVars, settingsVars, IInv, SupervisionTypeOK,
       SettingsTypeOK
  <2>. QED BY <1>5, <2>1, CoreKept DEF vars, lockVars, deskVars, CoreVars
<1>. QED BY <1>1, <1>2, <1>3, <1>4, <1>5 DEF Next

(* The inductive invariant holds.                                          *)
THEOREM Inductive == Spec => []IInv
<1>1. Init => IInv
  BY InitInv
<1>. QED BY <1>1, NextInv, PTL DEF Spec

(* Processes, lock, answers, settings and watchdog keep their types.       *)
THEOREM SupervisionTypeCorrect == Spec => []SupervisionTypeOK
<1>1. IInv => SupervisionTypeOK
  BY DEF IInv
<1>. QED BY <1>1, Inductive, PTL

(* One agent at most is past the lock file, and the lock is its own.       *)
THEOREM OneAgent == Spec => []AtMostOneAgent
BY ImpliesOneAgent, Inductive, PTL

(* What the dashboard answers about a start is true of the child.          *)
THEOREM StartAnswered == Spec => []StartAnswerIsTrue
<1>1. IInv => StartAnswerIsTrue
  BY DEF IInv
<1>. QED BY <1>1, Inductive, PTL
=============================================================================
