---------------------------- MODULE AgentNetwork ----------------------------
(***************************************************************************)
(* The agent's workers, their requests to an employer system behind its    *)
(* circuit breaker, and the language models they write documents with.     *)
(* Three nodes of the pipeline ask the system: the preflight check, the    *)
(* fetch of the page, and the freshness check after scoring.  A request is *)
(* under way for a while, and others start and end meanwhile.              *)
(*                                                                         *)
(* The postings are all of one system: the breakers of two systems share   *)
(* nothing.  Beside the agent only discovery is at work here; everything   *)
(* else that happens to a posting is in AgentPipeline, which this refines. *)
(***************************************************************************)
EXTENDS AgentPipeline, SourceCircuit, ModelCalls

CONSTANTS
  RequestTime,  \* the longest a request takes, retries included, in ticks
  Attempts      \* what an attempt at generating documents may meet

ASSUME NetworkAssumption == RequestTime \in Nat \ {0} /\ RequestTime < Cooldown

(* The service is configured and healthy when a job begins, or it is not.  *)
ASSUME AttemptsAssumption == \A a \in Attempts : a.route \in BOOLEAN

VARIABLES
  asked,   \* 0, or how many ticks the posting's request is under way, plus 1
  streak,  \* history: the requests that failed since one was answered
  quiet,   \* history: the ticks since the last request, or since the streak
           \* reached the threshold
  lost,    \* history: the postings that failed for want of documents the
           \* agent could have written without the service
  refused  \* history: those for which the service reported a call as failed

documentVars == <<lost, refused>>
netVars == <<circuitVars, asked, streak, quiet, documentVars>>
allVars == <<vars, netVars>>

NetInit ==
  /\ Init /\ Closed
  /\ asked = [j \in Jobs |-> 0]
  /\ streak = 0 /\ quiet = 0 /\ lost = {} /\ refused = {}

NetTypeOK ==
  /\ PipelineTypeOK /\ CircuitTypeOK
  /\ asked \in [Jobs -> 0..(RequestTime + 1)]
  /\ streak \in 0..Threshold /\ quiet \in 0..Cooldown
  /\ lost \subseteq Jobs /\ refused \subseteq Jobs

Asking == {"claimed", "discovery", "tailoring"}

Request(j) ==
  /\ at[j] \in Asking /\ asked[j] = 0
  /\ allow
  /\ asked' = [asked EXCEPT ![j] = 1]
  /\ quiet' = 0
  /\ UNCHANGED <<vars, streak, documentVars>>

(* Mutant: a refused posting is left as it is, claimed.                    *)
RefusedAndLeft(j) ==
  /\ at[j] \in Asking /\ asked[j] = 0 /\ Refuses
  /\ Leave(j)
  /\ UNCHANGED <<funnelVars, netVars>>

Refused(j) ==
  /\ asked[j] = 0 /\ Refuses
  /\ CircuitOpen(j)
  /\ UNCHANGED netVars

Done(j) == asked' = [asked EXCEPT ![j] = 0]

(* Any answer of the system closes the circuit: the page, a page that is   *)
(* gone, and for the fetch also one that is throttled, or that is not a    *)
(* posting's text and is tried again.                                      *)
Answered(j) ==
  /\ at[j] \in Asking /\ asked[j] > 0 /\ Done(j)
  /\ recordSuccess /\ streak' = 0
  /\ \/ PreflightPasses(j) \/ PageFetched(j) \/ StillFresh(j) \/ Settle(j)
     \/ at[j] = "discovery" /\ TransientFailure(j)
  /\ UNCHANGED <<quiet, documentVars>>

(* Mutant: only a response is recorded, as if a probe always had one.      *)
UnreachedUnrecorded(j) ==
  /\ at[j] \in Asking /\ asked[j] > 0 /\ Done(j)
  /\ TransientFailure(j)
  /\ IF circuit = "halfOpen" THEN UNCHANGED circuitVars ELSE recordFailure
  /\ streak' = IF streak < Threshold THEN streak + 1 ELSE streak
  /\ quiet' = IF streak + 1 = Threshold THEN 0 ELSE quiet
  /\ UNCHANGED documentVars

(* No response: a dial, a timeout, or the agent is stopping.               *)
Unreached(j) ==
  /\ at[j] \in Asking /\ asked[j] > 0 /\ Done(j)
  /\ TransientFailure(j)
  /\ recordFailure
  /\ streak' = IF streak < Threshold THEN streak + 1 ELSE streak
  /\ quiet' = IF streak + 1 = Threshold THEN 0 ELSE quiet
  /\ UNCHANGED documentVars

(* AttemptSubmit has the documents made before it clicks.  What the        *)
(* attempts may come to does not depend on the posting.                    *)
Generations ==
  { [ result |-> GenerateDocs(a),
      owed |-> CouldComplete(a),
      refused |-> ServiceReports(a) ] :
    a \in [1..MaxAttempts -> Attempts] }

MakeDocuments(j) ==
  /\ at[j] = "submission"
  /\ \E g \in Generations :
       /\ CASE g.result = "documents" -> ClickSubmit(j)
            [] g.result = "quota" -> QuotaExceeded(j)
            [] OTHER -> UpdateFunnelStatus(j, "FAILED_SUBMIT") /\ Leave(j)
       /\ lost' = IF g.owed /\ g.result # "documents" THEN lost \union {j}
                  ELSE lost \ {j}
       /\ refused' = IF g.refused THEN refused \union {j} ELSE refused \ {j}
  /\ UNCHANGED <<circuitVars, asked, streak, quiet>>

(* The steps that ask no one.  The database answers here.                  *)
Quietly(j) ==
  /\ at[j] \notin Asking
  /\ \/ Settle(j) \/ TransientFailure(j) \/ Claim(j) \/ AlreadyApplied(j)
     \/ Eligible(j) \/ ScorePasses(j) \/ Submitted(j) \/ RecordApplication(j)
     \/ HandOff(j) \/ MakePlan(j)
     \/ at[j] = "scoring" /\ QuotaExceeded(j)
  /\ UNCHANGED <<unchecked, netVars>>

NetWorkerStep(j) ==
  Request(j) \/ Refused(j) \/ Answered(j) \/ Unreached(j) \/ MakeDocuments(j) \/ Quietly(j)

Discovered(j) ==
  (AddToFunnel(j) \/ BackoffElapses(j)) /\ UNCHANGED <<agentVars, netVars>>

(* The breaker is in the agent's memory.                                   *)
Ended ==
  /\ Exit \/ Crash
  /\ newCircuitBreaker
  /\ asked' = [j \in Jobs |-> 0] /\ streak' = 0
  /\ UNCHANGED <<quiet, documentVars>>

Tick ==
  /\ \A j \in Jobs : asked[j] <= RequestTime
  /\ asked' = [j \in Jobs |-> IF asked[j] = 0 THEN 0 ELSE asked[j] + 1]
  /\ CooldownPasses
  /\ quiet' = IF quiet < Cooldown THEN quiet + 1 ELSE quiet
  /\ UNCHANGED <<vars, streak, documentVars>>

NetNext ==
  \/ (Start \/ LoadBatch \/ Cancel) /\ UNCHANGED netVars
  \/ Ended \/ Tick
  \/ \E j \in Jobs : NetWorkerStep(j) \/ Discovered(j)

(* As in AgentPipeline; every wait in a node has a timeout, so a request   *)
(* ends, and time passes.                                                  *)
NetFairness ==
  /\ WF_allVars(Start /\ UNCHANGED netVars) /\ WF_allVars(LoadBatch /\ UNCHANGED netVars)
  /\ WF_allVars(Exit /\ Ended) /\ WF_allVars(Tick)
  /\ \A j \in Jobs :
       /\ WF_allVars(NetWorkerStep(j))
       /\ WF_allVars(BackoffElapses(j) /\ UNCHANGED <<agentVars, netVars>>)

NetSpec == NetInit /\ [][NetNext]_allVars /\ NetFairness
----------------------------------------------------------------------------
(* Correctness.                                                            *)

(* Whatever the workers meet on the network, a posting goes only through   *)
(* the steps of AgentPipeline: in particular no refused, unanswered or     *)
(* half-made application leaves its row behind as claimed.                 *)
RefinesPipeline == Spec

(* Once a system has failed Threshold times in a row it is left alone for  *)
(* a cooldown, and then asked once at a time, a cooldown apart, until it   *)
(* answers: workers that are all in trouble at once do not hammer it, and  *)
(* requests from before the circuit opened change nothing about that.      *)
ProbesAreSpaced ==
  [][\A j \in Jobs : Request(j) /\ streak = Threshold => quiet >= Cooldown]_allVars

(* However often fetching and scoring fail and however long the system is  *)
(* unreachable, a posting leaves the queue: a deferral by an open circuit  *)
(* is not counted, but the circuit cannot stay shut to every probe.  Only  *)
(* restarts and the end of a provider's quota must come to an end.         *)
Interruption == Cancel \/ Crash \/ \E j \in Jobs : QuotaExceeded(j)

DeferralsEnd ==
  <>[][~Interruption]_allVars =>
    \A j \in Jobs : status[j] = "DISCOVERED" ~> Resolved(j)

(* The offload service is an optimization: however and whenever it is      *)
(* lost, no job fails that the agent could have completed on its own.      *)
(* Only a call that the service itself reports as failed, which the client *)
(* does not repeat in the process, can cost one.                           *)
DocumentsNotLost == lost \subseteq refused
============================================================================
