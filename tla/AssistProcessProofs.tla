------------------------ MODULE AssistProcessProofs ------------------------
(***************************************************************************)
(* What is proved of AssistProcess for any number of jobs and processes    *)
(* and any lease times: the types, that requests are not orphaned, that no *)
(* process runs beside a punctual one, and that the tables and processes   *)
(* implement the abstract desk of BrowserDesk.                             *)
(***************************************************************************)
EXTENDS AssistProcess, TLAPS

(* A token is on the row its process works, and on no other: so a process  *)
(* that starts finds its own token on no row.                              *)
OwnersRun == \A p \in Processes, j \in Jobs : owner[j] = p => job[p] = j

(* HolderLive alone is not inductive: a launch must know that its token is *)
(* on no other row, a crash that it takes its token off every row.         *)
IInv == TypeOK /\ HolderLive /\ OwnersRun /\ AnotherOnlyAfterLapse

USE JobsAssumption, OwnersAssumption, LeaseTimesAssumption, EnvironmentAssumption
----------------------------------------------------------------------------
(* Types.                                                                  *)

LEMMA InitType == Init => TypeOK
<1> SUFFICES ASSUME Init PROVE TypeOK
  OBVIOUS
<1>1. LeaseTypeOK
  BY DEF Init, LeaseInit, LeaseTypeOK, AssistedStates
<1>2. phase \in [Processes -> Phases] /\ job \in [Processes -> Jobs \union {NoJob}]
  BY DEF Init, Phases
<1>3. \A p \in Processes : Running(p) <=> job[p] # NoJob
  BY DEF Init, Running
<1> QED BY <1>1, <1>2, <1>3 DEF TypeOK, Init

(* What the steps below share.                                             *)
LEMMA SetStateType ==
  ASSUME LeaseTypeOK, NEW j \in Jobs, NEW s \in AssistedStates, SetState(j, s)
  PROVE  LeaseTypeOK'
BY DEF LeaseTypeOK, SetState

LEMMA GotoType ==
  ASSUME TypeOK, NEW p \in Processes, Running(p), NEW to \in Phases \ {"none"},
         Goto(p, to)
  PROVE  /\ phase' \in [Processes -> Phases]
         /\ job' \in [Processes -> Jobs \union {NoJob}]
         /\ \A q \in Processes : (Running(q) <=> job[q] # NoJob)'
         /\ lapsed' \subseteq {q \in Processes : Running(q)'}
<1>1. phase' \in [Processes -> Phases] /\ job' \in [Processes -> Jobs \union {NoJob}]
  BY DEF TypeOK, Goto
<1>2. \A q \in Processes : (Running(q) <=> job[q] # NoJob)'
  <2> TAKE q \in Processes
  <2>1. CASE q = p
    BY <2>1 DEF TypeOK, Goto, Running, Phases
  <2>2. CASE q # p
    BY <2>2 DEF TypeOK, Goto, Running
  <2> QED BY <2>1, <2>2
<1>3. lapsed' \subseteq {q \in Processes : Running(q)'}
  BY DEF TypeOK, Goto, Running, Phases
<1> QED BY <1>1, <1>2, <1>3

LEMMA GoneType ==
  ASSUME TypeOK, NEW p \in Processes, Gone(p)
  PROVE  /\ phase' \in [Processes -> Phases]
         /\ job' \in [Processes -> Jobs \union {NoJob}]
         /\ \A q \in Processes : (Running(q) <=> job[q] # NoJob)'
         /\ lapsed' \subseteq {q \in Processes : Running(q)'}
BY DEF TypeOK, Gone, Running, Phases

(* A transition of continueAssistedApplication or applyOperatorAnswers.    *)
LEMMA RecordOrExitType ==
  ASSUME TypeOK, NEW p \in Processes, Running(p),
         NEW from \in AssistedStates, NEW to \in AssistedStates,
         RecordOrExit(p, from, to)
  PROVE  TypeOK'
<1>1. job[p] \in Jobs
  BY DEF TypeOK
<1>2. CASE SetState(job[p], to) /\ Goto(p, "open")
  <2>1. LeaseTypeOK'
    BY <1>1, <1>2, SetStateType DEF TypeOK
  <2> QED BY <1>2, <2>1, GotoType DEF TypeOK, Phases, OpenPhases
<1>3. CASE Goto(p, "discarding") /\ UNCHANGED leaseVars
  <2>1. LeaseTypeOK'
    BY <1>3 DEF TypeOK, LeaseTypeOK, leaseVars
  <2> QED BY <1>3, <2>1, GotoType DEF TypeOK, Phases, ClosingPhases
<1> QED BY <1>2, <1>3 DEF RecordOrExit

(* A step that only moves the process on.                                  *)
LEMMA MoveType ==
  ASSUME TypeOK, NEW p \in Processes, Running(p), NEW to \in Phases \ {"none"},
         Goto(p, to), UNCHANGED leaseVars
  PROVE  TypeOK'
<1>1. LeaseTypeOK'
  BY DEF TypeOK, LeaseTypeOK, leaseVars
<1> QED BY <1>1, GotoType DEF TypeOK

(* A heartbeat, after which the process goes on to another phase.          *)
LEMMA RenewType ==
  ASSUME TypeOK, NEW p \in Processes, Running(p), NEW to \in Phases \ {"none"},
         RenewAssistedLease(job[p], p), Goto(p, to)
  PROVE  TypeOK'
<1>1. LeaseTypeOK'
  BY DEF TypeOK, LeaseTypeOK, RenewAssistedLease
<1> QED BY <1>1, GotoType DEF TypeOK

(* A handler of the dashboard leaves the processes where they are.         *)
LEMMA HandlerType ==
  ASSUME TypeOK, NEW j \in Jobs, OperatorStep(j)
  PROVE  TypeOK'
<1>1. LeaseTypeOK' /\ UNCHANGED <<phase, job>>
  <2> USE DEF processVars
  <2>1. CASE OperatorContinue(j)
    BY <2>1, SetStateType
    DEF TypeOK, OperatorContinue, RequestAssistedContinue, AssistedStates
  <2>2. CASE OperatorAnswers(j)
    BY <2>2, SetStateType
    DEF TypeOK, OperatorAnswers, SubmitAssistedAnswers, AssistedStates
  <2>3. CASE OperatorRevalidates(j)
    <3>1. state[j] \in AssistedStates
      BY <2>3 DEF TypeOK, LeaseTypeOK, OperatorRevalidates,
                  RecordAssistedRevalidation, Active
    <3> QED BY <2>3, <3>1, SetStateType
            DEF TypeOK, OperatorRevalidates, RecordAssistedRevalidation
  <2>4. CASE OperatorCompletes(j)
    BY <2>4, SetStateType
    DEF TypeOK, OperatorCompletes, CompleteAssisted, AssistedStates
  <2>5. CASE PlanCreated(j)
    BY <2>5, SetStateType
    DEF TypeOK, PlanCreated, EnsureAssistedPlan, AssistedStates
  <2>6. CASE RowPruned(j)
    BY <2>6 DEF TypeOK, LeaseTypeOK, RowPruned, RemoveAssistedRow
  <2> QED BY <2>1, <2>2, <2>3, <2>4, <2>5, <2>6 DEF OperatorStep
<1>2. lapsed' \subseteq {q \in Processes : Running(q)}
  BY DEF TypeOK, OperatorStep, OperatorContinue, OperatorAnswers, OperatorRevalidates,
         OperatorCompletes, PlanCreated, RowPruned, processVars, Running
<1> QED BY <1>1, <1>2 DEF TypeOK, Running

LEMMA ProcessStepType ==
  ASSUME TypeOK, NEW p \in Processes, ProcessStep(p)
  PROVE  TypeOK'
<1> USE DEF Phases, OpenPhases, ClosingPhases
<1>1. Running(p) /\ job[p] \in Jobs
  <2>1. phase[p] # "none"
    BY DEF ProcessStep, BrowserReady, BrowserNeverOpens, PollLosesLease,
           PollFinished, PollContinues, PollDirect, FillNeedsManualReview,
           FillFindsQuestions, RecordAssistedQuestions, FillLeavesNothing,
           RecordAssistedRefill, TakeAnswers, AnswersUnusable, AnswersTyped,
           DiscardAnswers, PauseForClosedBrowser, Release
  <2> QED BY <2>1 DEF TypeOK, Running
<1>2. CASE BrowserReady(p) \/ BrowserNeverOpens(p) \/ PollLosesLease(p)
  BY <1>1, <1>2, MoveType DEF BrowserReady, BrowserNeverOpens, PollLosesLease
<1>3. CASE PollFinished(p)
  BY <1>1, <1>3, RenewType DEF PollFinished
<1>4. CASE PollContinues(p)
  <2>1. PICK to \in {"filling", "answering", "open"} : Goto(p, to)
    BY <1>4 DEF PollContinues
  <2> QED BY <1>1, <1>4, <2>1, RenewType DEF PollContinues
<1>5. CASE PollDirect(p)
  <2>1. LeaseTypeOK'
    <3>1. state' \in [Jobs -> AssistedStates \union {"absent"}]
      BY <1>1, <1>5 DEF TypeOK, LeaseTypeOK, PollDirect, AssistedStates
    <3>2. ttl' \in [Jobs -> 0..LeaseDuration] /\ age' \in [Jobs -> 0..HeartbeatTimeout]
      BY <1>1, <1>5 DEF TypeOK, LeaseTypeOK, PollDirect
    <3> QED BY <1>5, <3>1, <3>2 DEF TypeOK, LeaseTypeOK, PollDirect
  <2> QED BY <1>5, <2>1 DEF TypeOK, PollDirect, processVars, Running
<1>6. CASE \/ FillNeedsManualReview(p) \/ RecordAssistedQuestions(p)
           \/ RecordAssistedRefill(p) \/ AnswersUnusable(p) \/ AnswersTyped(p)
  BY <1>1, <1>6, RecordOrExitType
  DEF FillNeedsManualReview, RecordAssistedQuestions, RecordAssistedRefill,
      AnswersUnusable, AnswersTyped, AssistedStates
<1>7. CASE FillFindsQuestions(p) \/ FillLeavesNothing(p) \/ TakeAnswers(p)
  BY <1>1, <1>7, MoveType DEF FillFindsQuestions, FillLeavesNothing, TakeAnswers
<1>8. CASE DiscardAnswers(p) \/ PauseForClosedBrowser(p)
  BY <1>1, <1>8, MoveType DEF DiscardAnswers, PauseForClosedBrowser
<1>9. CASE Release(p)
  <2>1. LeaseTypeOK'
    BY <1>1, <1>9 DEF TypeOK, LeaseTypeOK, Release, ReleaseAssistedLease,
                      AssistedStates, leaseVars
  <2> QED BY <1>9, <2>1, GoneType DEF TypeOK, Release
<1> QED BY <1>2, <1>3, <1>4, <1>5, <1>6, <1>7, <1>8, <1>9 DEF ProcessStep

LEMMA NextType == TypeOK /\ [Next]_vars => TypeOK'
<1> SUFFICES ASSUME TypeOK, [Next]_vars PROVE TypeOK'
  OBVIOUS
<1>1. ASSUME NEW p \in Processes, NEW j \in Jobs, Launch(p, j) PROVE TypeOK'
  <2>1. LeaseTypeOK'
    BY <1>1 DEF TypeOK, LeaseTypeOK, Launch, AcquireAssistedLease, AssistedStates
  <2>2. /\ \A q \in Processes : (Running(q) <=> job[q] # NoJob)'
        /\ lapsed' \subseteq {q \in Processes : Running(q)'}
    BY <1>1 DEF TypeOK, Launch, Running
  <2> QED BY <1>1, <2>1, <2>2 DEF TypeOK, Launch, Phases, OpenPhases
<1>2. ASSUME NEW p \in Processes, ProcessStep(p) PROVE TypeOK'
  BY <1>2, ProcessStepType
<1>3. ASSUME NEW p \in Processes, BrowserCloses(p) PROVE TypeOK'
  BY <1>3, MoveType DEF BrowserCloses, Running, Phases, ClosingPhases
<1>4. ASSUME NEW p \in Processes, Crash(p) PROVE TypeOK'
  <2>1. LeaseTypeOK'
    BY <1>4 DEF TypeOK, LeaseTypeOK, Crash, LoseOwner
  <2> QED BY <1>4, <2>1, GoneType DEF TypeOK, Crash
<1>5. ASSUME NEW j \in Jobs, OperatorStep(j) PROVE TypeOK'
  BY <1>5, HandlerType
<1>6. CASE Tick
  <2>1. LeaseTypeOK'
    BY <1>6 DEF TypeOK, LeaseTypeOK, Tick, Elapse
  <2> QED BY <1>6, <2>1 DEF TypeOK, Tick, Running
<1>7. CASE UNCHANGED vars
  BY <1>7 DEF TypeOK, LeaseTypeOK, vars, leaseVars, processVars, Running
<1> QED BY <1>1, <1>2, <1>3, <1>4, <1>5, <1>6, <1>7 DEF Next

(* Every reachable state has the types the tables and processes have: in   *)
(* particular a process holds a job exactly while it runs.                 *)
THEOREM TypeCorrect == Spec => []TypeOK
BY InitType, NextType, PTL DEF Spec
----------------------------------------------------------------------------
(* The browser of a punctual process is alone.                             *)

LEMMA InitHolder == Init => HolderLive /\ OwnersRun /\ AnotherOnlyAfterLapse
BY DEF Init, LeaseInit, HolderLive, OwnersRun, AnotherOnlyAfterLapse, Running

(* Writes that give a row a new heartbeat or a newer updated_at, and leave *)
(* every token and every process where it was.                             *)
LEMMA RowWrite ==
  ASSUME IInv, UNCHANGED <<owner, job, lapsed>>,
         \A q \in Processes : Running(q)' <=> Running(q),
         \A j \in Jobs :
           \/ ttl'[j] = ttl[j] /\ age'[j] \in {age[j], 0}
           \/ ttl'[j] = LeaseDuration /\ age'[j] = 0
  PROVE  HolderLive' /\ OwnersRun' /\ AnotherOnlyAfterLapse'
<1>1. HolderLive'
  <2> SUFFICES ASSUME NEW q \in Processes, Running(q)', q \notin lapsed
               PROVE  /\ owner'[job'[q]] = q
                      /\ LeaseDuration - ttl'[job'[q]] < HeartbeatTimeout
                      /\ age'[job'[q]] <= LeaseDuration - ttl'[job'[q]]
    BY DEF HolderLive
  <2>1. Running(q) /\ job[q] \in Jobs
    BY DEF IInv, TypeOK
  <2>2. /\ owner[job[q]] = q
        /\ LeaseDuration - ttl[job[q]] < HeartbeatTimeout
        /\ age[job[q]] <= LeaseDuration - ttl[job[q]]
    BY <2>1 DEF IInv, HolderLive
  <2>3. ttl[job[q]] \in 0..LeaseDuration /\ age[job[q]] \in 0..HeartbeatTimeout
    BY <2>1 DEF IInv, TypeOK, LeaseTypeOK
  <2>4. job'[q] = job[q] /\ owner'[job[q]] = q
    BY <2>2
  <2>5. CASE ttl'[job[q]] = ttl[job[q]] /\ age'[job[q]] \in {age[job[q]], 0}
    BY <2>2, <2>3, <2>4, <2>5
  <2>6. CASE ttl'[job[q]] = LeaseDuration /\ age'[job[q]] = 0
    BY <2>4, <2>6
  <2> QED BY <2>1, <2>5, <2>6
<1>2. OwnersRun'
  BY DEF IInv, OwnersRun
<1>3. AnotherOnlyAfterLapse'
  BY DEF IInv, AnotherOnlyAfterLapse
<1> QED BY <1>1, <1>2, <1>3

LEMMA GotoRuns ==
  ASSUME TypeOK, NEW p \in Processes, Running(p), NEW to \in Phases \ {"none"},
         Goto(p, to)
  PROVE  /\ UNCHANGED <<job, lapsed>>
         /\ \A q \in Processes : Running(q)' <=> Running(q)
BY DEF TypeOK, Goto, Running, Phases

LEMMA SetStateRows ==
  ASSUME LeaseTypeOK, NEW j \in Jobs, NEW s, SetState(j, s)
  PROVE  /\ UNCHANGED owner
         /\ \A k \in Jobs : ttl'[k] = ttl[k] /\ age'[k] \in {age[k], 0}
BY DEF LeaseTypeOK, SetState

LEMMA RenewRows ==
  ASSUME LeaseTypeOK, NEW j \in Jobs, NEW p, RenewAssistedLease(j, p)
  PROVE  /\ UNCHANGED owner
         /\ \A k \in Jobs : \/ ttl'[k] = ttl[k] /\ age'[k] \in {age[k], 0}
                            \/ ttl'[k] = LeaseDuration /\ age'[k] = 0
BY DEF LeaseTypeOK, RenewAssistedLease

(* The row of a punctual process is live, so nobody can claim any row.     *)
LEMMA RunningIsLive ==
  ASSUME IInv, NEW q \in Processes, Running(q), q \notin lapsed
  PROVE  job[q] \in Jobs /\ Live(job[q])
<1>1. job[q] \in Jobs
  BY DEF IInv, TypeOK
<1>2. /\ owner[job[q]] = q
      /\ LeaseDuration - ttl[job[q]] < HeartbeatTimeout
      /\ age[job[q]] <= LeaseDuration - ttl[job[q]]
  BY DEF IInv, HolderLive
<1>3. ttl[job[q]] \in 0..LeaseDuration /\ age[job[q]] \in 0..HeartbeatTimeout
  BY <1>1 DEF IInv, TypeOK, LeaseTypeOK
<1> QED BY <1>1, <1>2, <1>3 DEF Live, Leased, Unexpired

LEMMA LaunchBesideLapsed ==
  ASSUME IInv, NEW p \in Processes, NEW j \in Jobs, Launch(p, j)
  PROVE  \A q \in Processes : Running(q) => q \in lapsed
BY RunningIsLive DEF Launch, AcquireAssistedLease, CanAcquire

(* One lemma per kind of step, for the three conjuncts beside TypeOK.      *)
LEMMA LaunchHolds ==
  ASSUME IInv, NEW p \in Processes, NEW j \in Jobs, Launch(p, j)
  PROVE  HolderLive' /\ OwnersRun' /\ AnotherOnlyAfterLapse'
<1>1. \A q \in Processes : Running(q)' /\ q \notin lapsed' => q = p
  BY LaunchBesideLapsed DEF IInv, TypeOK, Launch, Running
<1>2. job'[p] = j /\ owner'[j] = p /\ ttl'[j] = LeaseDuration /\ age'[j] = 0
  BY DEF IInv, TypeOK, LeaseTypeOK, Launch, AcquireAssistedLease
<1>3. HolderLive'
  BY <1>1, <1>2 DEF HolderLive
<1>4. \A k \in Jobs : owner[k] # p
  BY DEF IInv, TypeOK, OwnersRun, Launch, Running
<1>5. OwnersRun'
  BY <1>2, <1>4 DEF IInv, TypeOK, LeaseTypeOK, OwnersRun, Launch, AcquireAssistedLease
<1>6. AnotherOnlyAfterLapse'
  BY <1>1 DEF AnotherOnlyAfterLapse
<1> QED BY <1>3, <1>5, <1>6

(* A process that ends, and with it its token, on whichever row it was.    *)
LEMMA EndHolds ==
  ASSUME IInv, NEW p \in Processes, Running(p), Gone(p),
         \A j \in Jobs : owner[j] = p => owner'[j] \notin Processes,
         \A j \in Jobs : owner[j] # p =>
           owner'[j] = owner[j] /\ ttl'[j] = ttl[j] /\ age'[j] = age[j]
  PROVE  HolderLive' /\ OwnersRun' /\ AnotherOnlyAfterLapse'
<1>1. /\ \A q \in Processes : Running(q)' <=> Running(q) /\ q # p
      /\ \A q \in Processes \ {p} : job'[q] = job[q]
      /\ lapsed' = lapsed \ {p}
  BY DEF IInv, TypeOK, Gone, Running
<1>2. HolderLive'
  <2> SUFFICES ASSUME NEW q \in Processes, Running(q), q # p, q \notin lapsed
               PROVE  /\ owner'[job[q]] = q
                      /\ LeaseDuration - ttl'[job[q]] < HeartbeatTimeout
                      /\ age'[job[q]] <= LeaseDuration - ttl'[job[q]]
    BY <1>1 DEF HolderLive
  <2>1. job[q] \in Jobs /\ owner[job[q]] = q
    BY DEF IInv, TypeOK, HolderLive
  <2> QED BY <2>1 DEF IInv, HolderLive
<1>3. \A q \in Processes, k \in Jobs : owner'[k] = q => q # p /\ owner[k] = q
  OBVIOUS
<1>4. OwnersRun'
  BY <1>1, <1>3 DEF IInv, OwnersRun
<1>5. AnotherOnlyAfterLapse'
  BY <1>1 DEF IInv, AnotherOnlyAfterLapse
<1> QED BY <1>2, <1>4, <1>5

LEMMA TickHolds ==
  ASSUME IInv, Tick
  PROVE  HolderLive' /\ OwnersRun' /\ AnotherOnlyAfterLapse'
<1>1. HolderLive'
  <2> SUFFICES ASSUME NEW q \in Processes, Running(q), q \notin lapsed'
               PROVE  /\ owner'[job[q]] = q
                      /\ LeaseDuration - ttl'[job[q]] < HeartbeatTimeout
                      /\ age'[job[q]] <= LeaseDuration - ttl'[job[q]]
    BY DEF HolderLive, Tick, Running
  <2>1. job[q] \in Jobs
    BY DEF IInv, TypeOK
  <2>2. /\ owner[job[q]] = q
        /\ age[job[q]] <= LeaseDuration - ttl[job[q]]
        /\ LeaseDuration - ttl[job[q]] < HeartbeatTimeout
    BY DEF IInv, HolderLive, Tick
  <2>3. ttl[job[q]] \in 0..LeaseDuration /\ age[job[q]] \in 0..HeartbeatTimeout
    BY <2>1 DEF IInv, TypeOK, LeaseTypeOK
  <2>4. ttl'[job[q]] = ttl[job[q]] - 1
    BY <2>1, <2>2, <2>3 DEF Tick, Elapse
  <2>5. LeaseDuration - ttl'[job[q]] < HeartbeatTimeout
    <3>1. ~(LeaseDuration - ttl'[job[q]] >= HeartbeatTimeout)
      BY DEF Tick
    <3> QED BY <2>3, <2>4, <3>1
  <2>6. age'[job[q]] = age[job[q]] + 1
    BY <2>1, <2>2, <2>3 DEF Tick, Elapse
  <2>7. owner'[job[q]] = q
    BY <2>2 DEF Tick, Elapse
  <2> QED BY <2>2, <2>3, <2>4, <2>5, <2>6, <2>7
<1>2. OwnersRun'
  BY DEF IInv, OwnersRun, Tick, Elapse
<1>3. AnotherOnlyAfterLapse'
  BY DEF IInv, AnotherOnlyAfterLapse, Tick, Running
<1> QED BY <1>1, <1>2, <1>3

LEMMA PruneHolds ==
  ASSUME IInv, NEW j \in Jobs, RowPruned(j)
  PROVE  HolderLive' /\ OwnersRun' /\ AnotherOnlyAfterLapse'
<1>1. \A q \in Processes : q \notin lapsed' => q \notin lapsed /\ job[q] # j
  BY DEF RowPruned
<1>2. \A q \in Processes : Running(q) => job[q] \in Jobs
  BY DEF IInv, TypeOK
<1>3. HolderLive'
  BY <1>1, <1>2 DEF IInv, TypeOK, LeaseTypeOK, HolderLive, RowPruned,
                    RemoveAssistedRow, Running
<1>4. OwnersRun'
  BY DEF IInv, TypeOK, LeaseTypeOK, OwnersRun, RowPruned, RemoveAssistedRow
<1>5. AnotherOnlyAfterLapse'
  BY DEF IInv, AnotherOnlyAfterLapse, RowPruned, Running
<1> QED BY <1>3, <1>4, <1>5

LEMMA MoveHolds ==
  ASSUME IInv, NEW p \in Processes, Running(p), NEW to \in Phases \ {"none"},
         Goto(p, to), UNCHANGED leaseVars
  PROVE  HolderLive' /\ OwnersRun' /\ AnotherOnlyAfterLapse'
<1>1. UNCHANGED <<owner, job, lapsed>> /\ \A q \in Processes : Running(q)' <=> Running(q)
  BY GotoRuns DEF IInv, leaseVars
<1>2. \A j \in Jobs : ttl'[j] = ttl[j] /\ age'[j] \in {age[j], 0}
  BY DEF leaseVars
<1> QED BY <1>1, <1>2, RowWrite

LEMMA RenewHolds ==
  ASSUME IInv, NEW p \in Processes, Running(p), NEW to \in Phases \ {"none"},
         RenewAssistedLease(job[p], p), Goto(p, to)
  PROVE  HolderLive' /\ OwnersRun' /\ AnotherOnlyAfterLapse'
<1>1. UNCHANGED <<job, lapsed>> /\ \A q \in Processes : Running(q)' <=> Running(q)
  BY GotoRuns DEF IInv
<1>2. LeaseTypeOK /\ job[p] \in Jobs
  BY DEF IInv, TypeOK
<1> QED BY <1>1, <1>2, RenewRows, RowWrite

LEMMA RecordOrExitHolds ==
  ASSUME IInv, NEW p \in Processes, Running(p), NEW from, NEW to,
         RecordOrExit(p, from, to)
  PROVE  HolderLive' /\ OwnersRun' /\ AnotherOnlyAfterLapse'
<1>1. CASE SetState(job[p], to) /\ Goto(p, "open")
  <2>1. UNCHANGED <<job, lapsed>> /\ \A q \in Processes : Running(q)' <=> Running(q)
    BY <1>1, GotoRuns DEF IInv, Phases, OpenPhases
  <2>2. LeaseTypeOK /\ job[p] \in Jobs
    BY DEF IInv, TypeOK
  <2>3. /\ UNCHANGED owner
        /\ \A k \in Jobs : ttl'[k] = ttl[k] /\ age'[k] \in {age[k], 0}
    BY <1>1, <2>2, SetStateRows
  <2> QED BY <2>1, <2>3, RowWrite
<1>2. CASE Goto(p, "discarding") /\ UNCHANGED leaseVars
  BY <1>2, MoveHolds DEF Phases, ClosingPhases
<1> QED BY <1>1, <1>2 DEF RecordOrExit

LEMMA ProcessStepRuns ==
  ASSUME TypeOK, NEW p \in Processes, ProcessStep(p)
  PROVE  Running(p) /\ job[p] \in Jobs
<1>1. phase[p] # "none"
  BY DEF ProcessStep, BrowserReady, BrowserNeverOpens, PollLosesLease,
         PollFinished, PollContinues, PollDirect, FillNeedsManualReview,
         FillFindsQuestions, RecordAssistedQuestions, FillLeavesNothing,
         RecordAssistedRefill, TakeAnswers, AnswersUnusable, AnswersTyped,
         DiscardAnswers, PauseForClosedBrowser, Release, OpenPhases, ClosingPhases
<1> QED BY <1>1 DEF TypeOK, Running

LEMMA ProcessStepHolds ==
  ASSUME IInv, NEW p \in Processes, ProcessStep(p)
  PROVE  HolderLive' /\ OwnersRun' /\ AnotherOnlyAfterLapse'
<1> USE DEF Phases, OpenPhases, ClosingPhases
<1>1. Running(p) /\ job[p] \in Jobs
  BY ProcessStepRuns DEF IInv
<1>2. CASE BrowserReady(p) \/ BrowserNeverOpens(p) \/ PollLosesLease(p)
  BY <1>1, <1>2, MoveHolds DEF BrowserReady, BrowserNeverOpens, PollLosesLease
<1>3. CASE PollFinished(p)
  BY <1>1, <1>3, RenewHolds DEF PollFinished
<1>4. CASE PollContinues(p)
  <2>1. PICK to \in {"filling", "answering", "open"} : Goto(p, to)
    BY <1>4 DEF PollContinues
  <2> QED BY <1>1, <1>4, <2>1, RenewHolds DEF PollContinues
<1>5. CASE PollDirect(p)
  <2>1. UNCHANGED <<owner, job, lapsed>> /\ \A q \in Processes : Running(q)' <=> Running(q)
    BY <1>5 DEF PollDirect, processVars, Running
  <2>2. \A k \in Jobs : \/ ttl'[k] = ttl[k] /\ age'[k] \in {age[k], 0}
                        \/ ttl'[k] = LeaseDuration /\ age'[k] = 0
    BY <1>1, <1>5 DEF IInv, TypeOK, LeaseTypeOK, PollDirect
  <2> QED BY <2>1, <2>2, RowWrite
<1>6. CASE \/ FillNeedsManualReview(p) \/ RecordAssistedQuestions(p)
           \/ RecordAssistedRefill(p) \/ AnswersUnusable(p) \/ AnswersTyped(p)
  BY <1>1, <1>6, RecordOrExitHolds
  DEF FillNeedsManualReview, RecordAssistedQuestions, RecordAssistedRefill,
      AnswersUnusable, AnswersTyped
<1>7. CASE FillFindsQuestions(p) \/ FillLeavesNothing(p) \/ TakeAnswers(p)
  BY <1>1, <1>7, MoveHolds DEF FillFindsQuestions, FillLeavesNothing, TakeAnswers
<1>8. CASE DiscardAnswers(p) \/ PauseForClosedBrowser(p)
  BY <1>1, <1>8, MoveHolds DEF DiscardAnswers, PauseForClosedBrowser
<1>9. CASE Release(p)
  <2>1. \A j \in Jobs : owner[j] = p => j = job[p]
    BY <1>1 DEF IInv, OwnersRun
  <2>2. Gone(p)
    BY <1>9 DEF Release
  <2>3. \A j \in Jobs : owner[j] = p => owner'[j] \notin Processes
    BY <1>1, <1>9, <2>1
    DEF IInv, TypeOK, LeaseTypeOK, Release, ReleaseAssistedLease, leaseVars
  <2>4. \A j \in Jobs : owner[j] # p =>
          owner'[j] = owner[j] /\ ttl'[j] = ttl[j] /\ age'[j] = age[j]
    BY <1>1, <1>9, <2>1
    DEF IInv, TypeOK, LeaseTypeOK, Release, ReleaseAssistedLease, leaseVars
  <2> QED BY <1>1, <2>2, <2>3, <2>4, EndHolds
<1> QED BY <1>2, <1>3, <1>4, <1>5, <1>6, <1>7, <1>8, <1>9 DEF ProcessStep

LEMMA HandlerHolds ==
  ASSUME IInv, NEW j \in Jobs, OperatorStep(j)
  PROVE  HolderLive' /\ OwnersRun' /\ AnotherOnlyAfterLapse'
<1>1. CASE RowPruned(j)
  BY <1>1, PruneHolds
<1>2. CASE ~RowPruned(j)
  <2>1. (\E s : SetState(j, s)) /\ UNCHANGED processVars
    BY <1>2 DEF OperatorStep, OperatorContinue, OperatorAnswers,
      OperatorRevalidates, OperatorCompletes, PlanCreated, RequestAssistedContinue,
      SubmitAssistedAnswers, RecordAssistedRevalidation, CompleteAssisted,
      EnsureAssistedPlan
  <2>2. /\ UNCHANGED owner
        /\ \A k \in Jobs : ttl'[k] = ttl[k] /\ age'[k] \in {age[k], 0}
    BY <2>1, SetStateRows DEF IInv, TypeOK
  <2>3. UNCHANGED <<job, lapsed>> /\ \A q \in Processes : Running(q)' <=> Running(q)
    BY <2>1 DEF processVars, Running
  <2> QED BY <2>2, <2>3, RowWrite
<1> QED BY <1>1, <1>2

LEMMA NextHolds == IInv /\ [Next]_vars => IInv'
<1> SUFFICES ASSUME IInv, [Next]_vars PROVE IInv'
  OBVIOUS
<1>1. TypeOK'
  BY NextType DEF IInv
<1>2. HolderLive' /\ OwnersRun' /\ AnotherOnlyAfterLapse'
  <2>1. ASSUME NEW p \in Processes, NEW j \in Jobs, Launch(p, j)
        PROVE  HolderLive' /\ OwnersRun' /\ AnotherOnlyAfterLapse'
    BY <2>1, LaunchHolds
  <2>2. ASSUME NEW p \in Processes, ProcessStep(p)
        PROVE  HolderLive' /\ OwnersRun' /\ AnotherOnlyAfterLapse'
    BY <2>2, ProcessStepHolds
  <2>3. ASSUME NEW p \in Processes, BrowserCloses(p)
        PROVE  HolderLive' /\ OwnersRun' /\ AnotherOnlyAfterLapse'
    BY <2>3, MoveHolds DEF BrowserCloses, Running, Phases, ClosingPhases
  <2>4. ASSUME NEW p \in Processes, Crash(p)
        PROVE  HolderLive' /\ OwnersRun' /\ AnotherOnlyAfterLapse'
    BY <2>4, EndHolds DEF Crash, LoseOwner
  <2>5. ASSUME NEW j \in Jobs, OperatorStep(j)
        PROVE  HolderLive' /\ OwnersRun' /\ AnotherOnlyAfterLapse'
    BY <2>5, HandlerHolds
  <2>6. CASE Tick
    BY <2>6, TickHolds
  <2>7. CASE UNCHANGED vars
    BY <2>7 DEF IInv, HolderLive, OwnersRun, AnotherOnlyAfterLapse, Running, vars,
                leaseVars, processVars
  <2> QED BY <2>1, <2>2, <2>3, <2>4, <2>5, <2>6, <2>7 DEF Next
<1> QED BY <1>1, <1>2 DEF IInv

LEMMA InvariantHolds == Spec => []IInv
<1>1. Init => IInv
  BY InitType, InitHolder DEF IInv
<1>2. IInv /\ [Next]_vars => IInv'
  BY NextHolds
<1> QED BY <1>1, <1>2, PTL DEF Spec

(* A process that lets no heartbeat window pass, and whose row nobody      *)
(* deletes, keeps the row, and keeps it from being claimed, until its last *)
(* deferred statement: no page check, outcome, answer, release or claim by *)
(* anybody else takes it away.                                             *)
THEOREM HolderKeepsLease == Spec => []HolderLive
<1>1. IInv => HolderLive
  BY DEF IInv
<1> QED BY <1>1, InvariantHolds, PTL

(* No second cmd/assist process gets past AcquireAssistedLease before the  *)
(* first has released, been killed, let its window pass, or lost its row.  *)
THEOREM OneProcess == Spec => []AnotherOnlyAfterLapse
<1>1. IInv => AnotherOnlyAfterLapse
  BY DEF IInv
<1> QED BY <1>1, InvariantHolds, PTL
----------------------------------------------------------------------------
(* Requests are not orphaned.                                              *)

LEMMA RecordOrExitRequest ==
  ASSUME TypeOK, NoOrphanRequest, NEW p \in Processes, job[p] \in Jobs, NEW from,
         NEW to, to # "continue_requested", RecordOrExit(p, from, to)
  PROVE  NoOrphanRequest'
BY DEF TypeOK, LeaseTypeOK, NoOrphanRequest, RecordOrExit, SetState, leaseVars

LEMMA ProcessStepRequest ==
  ASSUME TypeOK, NoOrphanRequest, NEW p \in Processes, ProcessStep(p)
  PROVE  NoOrphanRequest'
<1>1. job[p] \in Jobs
  BY ProcessStepRuns
<1>2. CASE UNCHANGED leaseVars
  BY <1>2 DEF NoOrphanRequest, leaseVars
<1>3. CASE PollFinished(p) \/ PollContinues(p) \/ PollDirect(p)
  BY <1>1, <1>3 DEF TypeOK, LeaseTypeOK, NoOrphanRequest, PollFinished,
                    PollContinues, PollDirect, RenewAssistedLease
<1>4. CASE \/ FillNeedsManualReview(p) \/ RecordAssistedQuestions(p)
           \/ RecordAssistedRefill(p) \/ AnswersUnusable(p) \/ AnswersTyped(p)
  BY <1>1, <1>4, RecordOrExitRequest
  DEF FillNeedsManualReview, RecordAssistedQuestions, RecordAssistedRefill,
      AnswersUnusable, AnswersTyped
<1>5. CASE Release(p)
  BY <1>1, <1>5 DEF TypeOK, LeaseTypeOK, NoOrphanRequest, Release,
                    ReleaseAssistedLease, leaseVars
<1> QED BY <1>2, <1>3, <1>4, <1>5
        DEF ProcessStep, BrowserReady, BrowserNeverOpens, PollLosesLease,
            FillFindsQuestions, FillLeavesNothing, TakeAnswers, DiscardAnswers,
            PauseForClosedBrowser

LEMMA HandlerRequest ==
  ASSUME TypeOK, NoOrphanRequest, NEW j \in Jobs, OperatorStep(j)
  PROVE  NoOrphanRequest'
<1> USE DEF TypeOK, LeaseTypeOK, NoOrphanRequest
<1>1. CASE OperatorContinue(j)
  BY <1>1 DEF OperatorContinue, RequestAssistedContinue, SetState, Leased
<1>2. CASE OperatorAnswers(j) \/ OperatorCompletes(j) \/ PlanCreated(j)
  BY <1>2 DEF OperatorAnswers, SubmitAssistedAnswers, OperatorCompletes,
              CompleteAssisted, PlanCreated, EnsureAssistedPlan, SetState
<1>3. CASE OperatorRevalidates(j)
  BY <1>3 DEF OperatorRevalidates, RecordAssistedRevalidation, SetState
<1>4. CASE RowPruned(j)
  BY <1>4 DEF RowPruned, RemoveAssistedRow
<1> QED BY <1>1, <1>2, <1>3, <1>4 DEF OperatorStep

(* Whatever is killed, stalls or is pruned, a request to continue stands   *)
(* only on a row with an owner, live or dead, which a launch will replace. *)
THEOREM NoRequestOrphaned == Spec => []NoOrphanRequest
<1>1. Init => NoOrphanRequest
  BY DEF Init, LeaseInit, NoOrphanRequest
<1>2. TypeOK /\ NoOrphanRequest /\ [Next]_vars => NoOrphanRequest'
  <2> SUFFICES ASSUME TypeOK, NoOrphanRequest, [Next]_vars
               PROVE  NoOrphanRequest'
    OBVIOUS
  <2>1. ASSUME NEW p \in Processes, NEW j \in Jobs, Launch(p, j)
        PROVE  NoOrphanRequest'
    BY <2>1 DEF TypeOK, LeaseTypeOK, NoOrphanRequest, Launch, AcquireAssistedLease
  <2>2. ASSUME NEW p \in Processes, ProcessStep(p) PROVE NoOrphanRequest'
    BY <2>2, ProcessStepRequest
  <2>3. ASSUME NEW p \in Processes, BrowserCloses(p) PROVE NoOrphanRequest'
    BY <2>3 DEF BrowserCloses, NoOrphanRequest, leaseVars
  <2>4. ASSUME NEW p \in Processes, Crash(p) PROVE NoOrphanRequest'
    BY <2>4 DEF NoOrphanRequest, Crash, LoseOwner
  <2>5. ASSUME NEW j \in Jobs, OperatorStep(j) PROVE NoOrphanRequest'
    BY <2>5, HandlerRequest
  <2>6. CASE Tick
    BY <2>6 DEF NoOrphanRequest, Tick, Elapse
  <2>7. CASE UNCHANGED vars
    BY <2>7 DEF NoOrphanRequest, vars, leaseVars
  <2> QED BY <2>1, <2>2, <2>3, <2>4, <2>5, <2>6, <2>7 DEF Next
<1> QED BY <1>1, <1>2, TypeCorrect, PTL DEF Spec
----------------------------------------------------------------------------
(* The refinement of BrowserDesk.                                          *)

(* A step of one process, after which its browser is where it was, or not. *)
LEMMA OneBrowserMoves ==
  ASSUME NEW p \in Processes,
         \A q \in Processes \ {p} : phase'[q] = phase[q] /\ job'[q] = job[q],
         BrowserOpen(p)' => BrowserOpen(p) /\ job'[p] = job[p],
         lapsed' \in {lapsed, lapsed \ {p}},
         BrowserOpen(p)' => lapsed' = lapsed,
         Done' = Done
  PROVE  [Abstract!Next]_<<Desk, Unattended, Done>>
<1>1. \A q \in Processes \ {p} :
        (BrowserOpen(q)' <=> BrowserOpen(q)) /\ (q \in lapsed' <=> q \in lapsed)
  BY DEF BrowserOpen
<1>2. CASE BrowserOpen(p)' \/ ~BrowserOpen(p)
  <2>1. Desk' = Desk
    BY <1>1, <1>2 DEF Desk
  <2>2. \A b \in Desk : b[1] \in lapsed' <=> b[1] \in lapsed
    BY <1>1, <1>2 DEF Desk
  <2>3. Unattended' = Unattended
    BY <2>1, <2>2 DEF Unattended
  <2> QED BY <2>1, <2>3
<1>3. CASE BrowserOpen(p) /\ ~BrowserOpen(p)'
  <2> DEFINE b == <<p, job[p]>>
  <2>1. b \in Desk
    BY <1>3 DEF Desk
  <2>2. Desk' = Desk \ {b}
    BY <1>1, <1>3 DEF Desk
  <2>3. \A c \in Desk \ {b} : c[1] \in lapsed' <=> c[1] \in lapsed
    BY <1>1 DEF Desk
  <2>4. Unattended' = Unattended \ {b}
    BY <2>2, <2>3 DEF Unattended
  <2> QED BY <2>1, <2>2, <2>4 DEF Abstract!Next, Abstract!Close
<1> QED BY <1>2, <1>3

(* No statement of a process takes an outcome back, or gives one.          *)
LEMMA ProcessStepDone ==
  ASSUME TypeOK, NEW p \in Processes, ProcessStep(p)
  PROVE  Done' = Done
<1>1. job[p] \in Jobs
  BY ProcessStepRuns
<1>2. CASE UNCHANGED leaseVars
  BY <1>2 DEF Done, leaseVars
<1>3. CASE PollFinished(p) \/ PollContinues(p)
  BY <1>3 DEF Done, PollFinished, PollContinues, RenewAssistedLease
<1>4. CASE PollDirect(p)
  BY <1>1, <1>4 DEF TypeOK, LeaseTypeOK, Done, PollDirect
<1>5. ASSUME NEW from, NEW to, from # "completed", to # "completed",
             RecordOrExit(p, from, to)
      PROVE  Done' = Done
  BY <1>1, <1>5 DEF TypeOK, LeaseTypeOK, Done, RecordOrExit, CanRecord, SetState,
                    leaseVars
<1>6. CASE \/ FillNeedsManualReview(p) \/ RecordAssistedQuestions(p)
           \/ RecordAssistedRefill(p) \/ AnswersUnusable(p) \/ AnswersTyped(p)
  BY <1>5, <1>6
  DEF FillNeedsManualReview, RecordAssistedQuestions, RecordAssistedRefill,
      AnswersUnusable, AnswersTyped
<1>7. CASE Release(p)
  BY <1>1, <1>2, <1>7 DEF TypeOK, LeaseTypeOK, Done, Release, ReleaseAssistedLease
<1> QED BY <1>2, <1>3, <1>4, <1>6, <1>7
        DEF ProcessStep, BrowserReady, BrowserNeverOpens, PollLosesLease,
            FillFindsQuestions, FillLeavesNothing, TakeAnswers, DiscardAnswers,
            PauseForClosedBrowser

(* A process opens its browser at its launch only.                         *)
LEMMA ProcessStepBrowser ==
  ASSUME TypeOK, NEW p \in Processes, ProcessStep(p)
  PROVE  /\ \A q \in Processes \ {p} : phase'[q] = phase[q] /\ job'[q] = job[q]
         /\ BrowserOpen(p)' => BrowserOpen(p) /\ job'[p] = job[p]
         /\ lapsed' = lapsed \/ (lapsed' = lapsed \ {p} /\ ~BrowserOpen(p)')
<1> USE DEF TypeOK, BrowserOpen, OpenPhases, ClosingPhases
<1> DEFINE Moved == /\ \A q \in Processes \ {p} : phase'[q] = phase[q] /\ job'[q] = job[q]
                    /\ BrowserOpen(p)' => BrowserOpen(p) /\ job'[p] = job[p]
                    /\ lapsed' = lapsed
<1>1. CASE UNCHANGED processVars
  BY <1>1 DEF processVars
<1>2. ASSUME NEW to, Goto(p, to), BrowserOpen(p) \/ to \notin OpenPhases
      PROVE  Moved
  BY <1>2 DEF Goto
<1>3. CASE \/ BrowserReady(p) \/ BrowserNeverOpens(p) \/ PollLosesLease(p)
           \/ PollFinished(p) \/ PollContinues(p)
           \/ FillFindsQuestions(p) \/ FillLeavesNothing(p) \/ TakeAnswers(p)
           \/ DiscardAnswers(p) \/ PauseForClosedBrowser(p)
  BY <1>2, <1>3
  DEF BrowserReady, BrowserNeverOpens, PollLosesLease, PollFinished, PollContinues,
      FillFindsQuestions, FillLeavesNothing, TakeAnswers, DiscardAnswers,
      PauseForClosedBrowser
<1>4. CASE \/ FillNeedsManualReview(p) \/ RecordAssistedQuestions(p)
           \/ RecordAssistedRefill(p) \/ AnswersUnusable(p) \/ AnswersTyped(p)
  BY <1>2, <1>4
  DEF FillNeedsManualReview, RecordAssistedQuestions, RecordAssistedRefill,
      AnswersUnusable, AnswersTyped, RecordOrExit
<1>5. CASE Release(p)
  BY <1>5 DEF Release, Gone
<1> QED BY <1>1, <1>3, <1>4, <1>5 DEF ProcessStep, PollDirect

(* Only a process that was not running opens a browser, so a new one stands*)
(* beside those of lapsed processes only, and is not given up itself.      *)
LEMMA LaunchOpens ==
  ASSUME IInv, NEW p \in Processes, NEW j \in Jobs, Launch(p, j)
  PROVE  Abstract!Open(p, j)
<1>1. ~BrowserOpen(p) /\ p \notin lapsed
  BY DEF IInv, TypeOK, Launch, Running, BrowserOpen, OpenPhases
<1>2. \A q \in Processes : BrowserOpen(q) => q \in lapsed
  BY LaunchBesideLapsed DEF BrowserOpen, Running, OpenPhases
<1>3. Desk = Unattended /\ \A b \in Desk : b[1] # p
  BY <1>1, <1>2 DEF Desk, Unattended
<1>4. j \notin Done /\ Done' = Done
  BY DEF IInv, TypeOK, LeaseTypeOK, Done, Launch, AcquireAssistedLease, CanAcquire,
         Active
<1>5. /\ BrowserOpen(p)' /\ job'[p] = j
      /\ \A q \in Processes \ {p} : (BrowserOpen(q)' <=> BrowserOpen(q)) /\ job'[q] = job[q]
      /\ lapsed' = lapsed
  BY DEF IInv, TypeOK, Launch, BrowserOpen, OpenPhases
<1>6. Desk' = Desk \union {<<p, j>>}
  BY <1>1, <1>5 DEF Desk
<1>7. Unattended' = Unattended
  BY <1>1, <1>5, <1>6 DEF Unattended
<1> QED BY <1>3, <1>4, <1>6, <1>7 DEF Abstract!Open

(* At most one browser is attended to: the one a tick or a pruned row can  *)
(* make a given-up one.                                                    *)
LEMMA LapseGivesUp ==
  ASSUME IInv, UNCHANGED <<phase, job>>, lapsed \subseteq lapsed', Done' = Done
  PROVE  [Abstract!Next]_<<Desk, Unattended, Done>>
<1>1. Desk' = Desk
  BY DEF Desk, BrowserOpen
<1>2. CASE Unattended' = Unattended
  BY <1>1, <1>2
<1>3. CASE Unattended' # Unattended
  <2>1. Unattended \subseteq Unattended' /\ Unattended' \subseteq Desk
    BY <1>1 DEF Unattended
  <2>2. PICK b \in Desk : b \in Unattended' /\ b \notin Unattended
    BY <1>3, <2>1
  <2>3. ASSUME NEW c \in Desk, c \notin Unattended PROVE c = b
    <3>1. PICK p \in Processes : BrowserOpen(p) /\ b = <<p, job[p]>>
      BY DEF Desk
    <3>2. PICK q \in Processes : BrowserOpen(q) /\ c = <<q, job[q]>>
      BY DEF Desk
    <3>3. p \notin lapsed /\ q \notin lapsed
      BY <2>2, <2>3, <3>1, <3>2 DEF Unattended
    <3>4. p = q
      BY <3>1, <3>2, <3>3
      DEF IInv, AnotherOnlyAfterLapse, BrowserOpen, Running, OpenPhases
    <3> QED BY <3>1, <3>2, <3>4
  <2>4. Unattended' = Unattended \union {b}
    BY <2>1, <2>2, <2>3
  <2> QED BY <1>1, <2>2, <2>4 DEF Abstract!Next, Abstract!GiveUp
<1> QED BY <1>2, <1>3

LEMMA HandlerDecides ==
  ASSUME IInv, NEW j \in Jobs, OperatorStep(j)
  PROVE  [Abstract!Next]_<<Desk, Unattended, Done>>
<1> USE DEF IInv, TypeOK, LeaseTypeOK
<1>1. CASE RowPruned(j)
  <2>1. Done' = Done
    BY <1>1 DEF RowPruned, RemoveAssistedRow, Active, Done
  <2> QED BY <1>1, <2>1, LapseGivesUp DEF RowPruned
<1>2. ASSUME UNCHANGED processVars PROVE UNCHANGED <<Desk, Unattended>>
  BY <1>2 DEF processVars, Desk, Unattended, BrowserOpen
<1>3. CASE OperatorCompletes(j)
  <2>1. j \notin Done /\ Done' = Done \union {j}
    BY <1>3 DEF OperatorCompletes, CompleteAssisted, Active, SetState, Done
  <2> QED BY <1>2, <1>3, <2>1 DEF OperatorCompletes, Abstract!Next, Abstract!Decide
<1>4. CASE \/ OperatorContinue(j) \/ OperatorAnswers(j) \/ OperatorRevalidates(j)
           \/ PlanCreated(j)
  <2>1. Done' = Done
    BY <1>4
    DEF OperatorContinue, RequestAssistedContinue, OperatorAnswers, SubmitAssistedAnswers,
        CanSubmit, OperatorRevalidates, RecordAssistedRevalidation, Active, PlanCreated,
        EnsureAssistedPlan, SetState, Done
  <2> QED BY <1>2, <1>4, <2>1
      DEF OperatorContinue, OperatorAnswers, OperatorRevalidates, PlanCreated
<1> QED BY <1>1, <1>3, <1>4 DEF OperatorStep

LEMMA StepRefines ==
  ASSUME IInv, [Next]_vars
  PROVE  [Abstract!Next]_<<Desk, Unattended, Done>>
<1>1. ASSUME NEW p \in Processes, NEW j \in Jobs, Launch(p, j)
      PROVE  Abstract!Next
  BY <1>1, LaunchOpens DEF Abstract!Next
<1>2. ASSUME NEW p \in Processes, ProcessStep(p)
      PROVE  [Abstract!Next]_<<Desk, Unattended, Done>>
  BY <1>2, ProcessStepBrowser, ProcessStepDone, OneBrowserMoves DEF IInv
<1>3. ASSUME NEW p \in Processes, BrowserCloses(p) \/ Crash(p)
      PROVE  [Abstract!Next]_<<Desk, Unattended, Done>>
  <2>1. /\ \A q \in Processes \ {p} : phase'[q] = phase[q] /\ job'[q] = job[q]
        /\ ~BrowserOpen(p)'
        /\ lapsed' \in {lapsed, lapsed \ {p}}
    BY <1>3 DEF IInv, TypeOK, BrowserCloses, Crash, Goto, Gone, BrowserOpen,
                OpenPhases
  <2>2. Done' = Done
    BY <1>3 DEF BrowserCloses, Crash, LoseOwner, leaseVars, Done
  <2> QED BY <2>1, <2>2, OneBrowserMoves
<1>4. ASSUME NEW j \in Jobs, OperatorStep(j)
      PROVE  [Abstract!Next]_<<Desk, Unattended, Done>>
  BY <1>4, HandlerDecides
<1>5. CASE Tick
  <2>1. Done' = Done
    BY <1>5 DEF Tick, Elapse, Done
  <2> QED BY <1>5, <2>1, LapseGivesUp DEF Tick
<1>6. CASE UNCHANGED vars
  BY <1>6 DEF vars, leaseVars, processVars, Desk, Unattended, BrowserOpen, Done
<1> QED BY <1>1, <1>2, <1>3, <1>4, <1>5, <1>6 DEF Next

(* The tables, leases and processes implement the desk.  A launch is its   *)
(* Open; the first deferred statement, or a kill, its Close; a heartbeat   *)
(* window that passes, or a row deleted, its GiveUp; Confirm and NotFound  *)
(* are its Decide; all else is a stutter.                                  *)
THEOREM RefinesDesk == Spec => ImplementsDesk
<1>1. Init => Abstract!Init
  <2>1. ASSUME Init
        PROVE  Desk = {}
    BY <2>1 DEF Init, Desk, BrowserOpen, OpenPhases
  <2>2. ASSUME Init
        PROVE  Done = {}
    BY <2>2 DEF Init, LeaseInit, Done
  <2> QED BY <2>1, <2>2 DEF Abstract!Init, Unattended
<1>2. IInv /\ [Next]_vars => [Abstract!Next]_(Abstract!vars)
  BY StepRefines DEF Abstract!vars
<1> QED BY <1>1, <1>2, InvariantHolds, PTL
        DEF Spec, ImplementsDesk, Abstract!Spec
============================================================================
