--------------------------- MODULE AssistedLease ---------------------------
(***************************************************************************)
(* The assisted_applications table of pkg/storage/assisted.go: one row per *)
(* job handed to the operator, holding the progress of the handoff         *)
(* (assisted_state) and the lease of the one visible browser working it.   *)
(* Every action is one SQL statement or one transaction, so it is atomic.  *)
(*                                                                         *)
(* Time is relative and discrete.  ttl[j] is what is left until            *)
(* lease_expires_at and age[j] is the time since updated_at, capped at the *)
(* heartbeat window because no statement distinguishes older values, and   *)
(* counted only while the row is leased, when something reads it.          *)
(***************************************************************************)
EXTENDS JobIds

CONSTANTS
  Processes,         \* cmd/assist processes, each with its random owner token
  NoOwner,           \* lease_owner = ''
  Lost,              \* the token of a process that is gone: never seen again
  HeartbeatTimeout,  \* assistedLeaseHeartbeatTimeout (30 s), in ticks
  LeaseDuration      \* AssistedLeaseDuration (20 min), in ticks

ASSUME OwnersAssumption ==
  NoOwner \notin Processes /\ Lost \notin Processes /\ NoOwner # Lost

ASSUME LeaseTimesAssumption ==
  /\ HeartbeatTimeout \in Nat \ {0}
  /\ LeaseDuration \in Nat
  /\ HeartbeatTimeout < LeaseDuration

VARIABLES
  state,  \* assisted_state of each row; "absent" when the job has no row
  owner,  \* lease_owner
  ttl,    \* lease_expires_at - now, 0 when NULL or past
  age     \* now - updated_at, capped

leaseVars == <<state, owner, ttl, age>>

AssistedStates ==
  { "waiting_human", "continue_requested", "needs_answers", "answers_provided",
    "review_and_submit", "manual_review", "completed" }

LeaseTypeOK ==
  /\ state \in [Jobs -> AssistedStates \union {"absent"}]
  /\ owner \in [Jobs -> Processes \union {NoOwner, Lost}]
  /\ ttl \in [Jobs -> 0..LeaseDuration]
  /\ age \in [Jobs -> 0..HeartbeatTimeout]

(* Rows enter through MigrateLegacyAssisted or EnsureAssistedPlanForURL,   *)
(* without a lease.                                                        *)
LeaseInit ==
  /\ state \in [Jobs -> {"absent", "waiting_human"}]
  /\ owner = [j \in Jobs |-> NoOwner]
  /\ ttl = [j \in Jobs |-> 0]
  /\ age = [j \in Jobs |-> 0]

----------------------------------------------------------------------------
(* What the WHERE clauses test.                                            *)

Active(j) == state[j] \notin {"absent", "completed"}

Unexpired(j) == ttl[j] > 0

(* All the dashboard asks before it hands something to the browser.        *)
Leased(j) == owner[j] # NoOwner /\ Unexpired(j)

Live(j) == Leased(j) /\ age[j] < HeartbeatTimeout

(* Mutants: the NOT EXISTS is missing; a completed row can be claimed.     *)
CanAcquireBesideAnother(j) == Active(j) /\ ~Live(j)
CanAcquireDecided(j) == state[j] # "absent" /\ \A k \in Jobs : ~Live(k)

(* Neither this row nor, unlike Live(j) itself, any other row is held.     *)
CanAcquire(j) ==
  /\ Active(j)
  /\ ~Live(j)
  /\ \A k \in Jobs \ {j} : ~Live(k)

CanRenew(j, p) == Active(j) /\ owner[j] = p /\ Unexpired(j)

CanSubmit(j) == state[j] = "needs_answers" /\ Leased(j)

CanRecord(j, p, from) == state[j] = from /\ owner[j] = p /\ Unexpired(j)

----------------------------------------------------------------------------
(* The statements.                                                         *)

(* Every write to a row also sets updated_at = now.                        *)
SetState(j, s) ==
  /\ state' = [state EXCEPT ![j] = s]
  /\ age' = [age EXCEPT ![j] = 0]
  /\ UNCHANGED <<owner, ttl>>

AcquireAssistedLease(j, p) ==
  /\ CanAcquire(j)
  /\ state' = [state EXCEPT ![j] = "waiting_human"]
  /\ owner' = [owner EXCEPT ![j] = p]
  /\ ttl' = [ttl EXCEPT ![j] = LeaseDuration]
  /\ age' = [age EXCEPT ![j] = 0]

RenewAssistedLease(j, p) ==
  /\ CanRenew(j, p)
  /\ ttl' = [ttl EXCEPT ![j] = LeaseDuration]
  /\ age' = [age EXCEPT ![j] = 0]
  /\ UNCHANGED <<state, owner>>

(* Mutant: without the CASE on assisted_state.                             *)
ReleaseKeepingState(j, p) ==
  /\ owner[j] = p
  /\ owner' = [owner EXCEPT ![j] = NoOwner]
  /\ ttl' = [ttl EXCEPT ![j] = 0]
  /\ age' = [age EXCEPT ![j] = 0]
  /\ UNCHANGED state

ReleaseAssistedLease(j, p) ==
  /\ owner[j] = p
  /\ owner' = [owner EXCEPT ![j] = NoOwner]
  /\ ttl' = [ttl EXCEPT ![j] = 0]
  /\ age' = [age EXCEPT ![j] = 0]
  /\ state' = [state EXCEPT ![j] =
                 IF @ = "continue_requested" THEN "waiting_human" ELSE @]

(* The dashboard's statements name no owner: any unexpired lease will do.  *)
RequestAssistedContinue(j) ==
  /\ state[j] = "waiting_human" /\ Leased(j)
  /\ SetState(j, "continue_requested")

SubmitAssistedAnswers(j) ==
  /\ CanSubmit(j)
  /\ SetState(j, "answers_provided")

(* Mutant: a page check counts as a heartbeat of the browser.              *)
RevalidationRenews(j) ==
  /\ Active(j)
  /\ ttl' = [ttl EXCEPT ![j] = IF @ > 0 THEN LeaseDuration ELSE 0]
  /\ age' = [age EXCEPT ![j] = 0]
  /\ UNCHANGED <<state, owner>>

RecordAssistedRevalidation(j) ==
  /\ Active(j)
  /\ SetState(j, state[j])

(* ConfirmAssistedSubmission and MarkAssistedNotFound; the lease is left   *)
(* for its owner to notice and release.                                    *)
CompleteAssisted(j) ==
  /\ Active(j)
  /\ SetState(j, "completed")

(* ReconcileAssistedQueueEligibility deletes a row that fails the policy,  *)
(* whoever holds its lease.                                                *)
RemoveAssistedRow(j) ==
  /\ Active(j)
  /\ state' = [state EXCEPT ![j] = "absent"]
  /\ owner' = [owner EXCEPT ![j] = NoOwner]
  /\ ttl' = [ttl EXCEPT ![j] = 0]
  /\ age' = [age EXCEPT ![j] = 0]

EnsureAssistedPlan(j) ==
  /\ state[j] = "absent"
  /\ SetState(j, "waiting_human")

(* A killed process leaves its row as it is; its token, random and never   *)
(* drawn again, is from now on like that of any other dead process.        *)
LoseOwner(p) ==
  /\ owner' = [j \in Jobs |-> IF owner[j] = p THEN Lost ELSE owner[j]]
  /\ UNCHANGED <<state, ttl, age>>

Elapse ==
  /\ ttl' = [j \in Jobs |-> IF ttl[j] > 0 THEN ttl[j] - 1 ELSE 0]
  /\ age' = [j \in Jobs |-> IF owner[j] # NoOwner /\ age[j] < HeartbeatTimeout
                               THEN age[j] + 1 ELSE age[j]]
  /\ UNCHANGED <<state, owner>>
============================================================================
