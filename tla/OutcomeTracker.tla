--------------------------- MODULE OutcomeTracker ---------------------------
(***************************************************************************)
(* The e-mail tracker (cmd/tracker): every fifteen minutes it selects the  *)
(* inbox and reads, each in a bounded batch, the new mail above a durable  *)
(* checkpoint and the backlog the checkpoint's row still names, and writes *)
(* the outcomes it finds to job_funnel.  It may be killed between any two  *)
(* statements, a database or mail call may fail, mail is deleted, and the  *)
(* server may renumber the mailbox (a new UIDVALIDITY).                    *)
(*                                                                         *)
(* The date of a message or of a row is the number of messages delivered   *)
(* before it.  IMAP compares days, which only lowers the backlog's floor.  *)
(***************************************************************************)
EXTENDS OutcomeMail, Naturals, Sequences, FiniteSetsExt

CONSTANTS
  BatchSize,      \* trackerRangeBatchSize
  MaxMail,        \* bounds the messages delivered
  MaxFaults,      \* bounds the failed calls and the crashes
  MaxGenerations  \* bounds the renumberings of the mailbox

ASSUME TrackerAssumption ==
  /\ BatchSize \in Nat \ {0}
  /\ MaxMail \in Nat /\ MaxFaults \in Nat /\ MaxGenerations \in Nat \ {0}

VARIABLES
  inbox,      \* the message of each UID given out so far, or Gone
  validity,   \* UIDVALIDITY
  arrived,    \* the date of each message; 0 before it is delivered
  row,        \* job_funnel: status, and the date of the application or hand-off
  movedBy,    \* history: the message that wrote the outcome of a row
  cursor,     \* the row of tracker_cursor, or NoCursor
  processed,  \* processed_emails
  unmatched,  \* unmatched_outcomes
  ambiguous,  \* history: the messages left to the operator
  unchecked,  \* history: the acknowledged messages whose check failed
  pc, seen,   \* the scan: its step, and what it read when it began
  todo,       \* the messages of the batch, <<UID, message>>
  highest,    \* the last of them that was handled
  upto,       \* where the checkpoint goes when the batch is done
  faults

mailVars == <<inbox, validity, arrived>>
rowVars  == <<row, movedBy>>
ackVars  == <<processed, unmatched, ambiguous, unchecked>>
scanVars == <<pc, seen, todo, highest, upto>>
vars == <<mailVars, rowVars, ackVars, cursor, scanVars, faults>>

CONSTANTS Gone, None

(* MANUAL_REQUIRED and AWAITING_REVIEW are alike here: handed off.         *)
Trackable == {"APPLIED", "HANDED_OFF"}
Outcomes == {"REJECTED", "INTERVIEW_REQUESTED"}
UidNext == Len(inbox) + 1
Uids == DOMAIN inbox
Present == {u \in Uids : inbox[u] # Gone}
Clock == Cardinality({m \in Mails : arrived[m] > 0})
Open == {p \in Postings : row[p].status \in Trackable}

NoCursor == [validity |-> 0, forward |-> 0, next |-> 1, ceiling |-> 1,
             complete |-> TRUE]

NothingSeen == [next |-> 1, tracked |-> {}]

Init ==
  /\ inbox = << >> /\ validity = 1 /\ arrived = [m \in Mails |-> 0]
  /\ row = [p \in Postings |-> [status |-> "DISCOVERED", date |-> 0]]
  /\ movedBy = [p \in Postings |-> None]
  /\ cursor = NoCursor
  /\ processed = {} /\ unmatched = {} /\ ambiguous = {} /\ unchecked = {}
  /\ pc = "idle" /\ seen = NothingSeen
  /\ todo = {} /\ highest = 0 /\ upto = 0
  /\ faults = 0

----------------------------------------------------------------------------
(* The mail server and the owner of the mailbox.                           *)

Deliver ==
  \E m \in Mails :
    /\ arrived[m] = 0 /\ Clock < MaxMail
    /\ inbox' = Append(inbox, m)
    /\ arrived' = [arrived EXCEPT ![m] = Clock + 1]
    /\ UNCHANGED <<validity, rowVars, ackVars, cursor, scanVars, faults>>

Delete ==
  \E u \in Present :
    /\ inbox' = [inbox EXCEPT ![u] = Gone]
    /\ UNCHANGED <<validity, arrived, rowVars, ackVars, cursor, scanVars, faults>>

(* The messages that remain get new UIDs, in the same order; not under a   *)
(* session that has selected the mailbox.                                  *)
Renumber ==
  /\ pc = "idle" /\ validity < MaxGenerations
  /\ \E kept \in [1..Cardinality(Present) -> Present] :
       /\ \A i, k \in DOMAIN kept : i < k => kept[i] < kept[k]
       /\ inbox' = [i \in DOMAIN kept |-> inbox[kept[i]]]
  /\ validity' = validity + 1
  /\ UNCHANGED <<arrived, rowVars, ackVars, cursor, scanVars, faults>>

----------------------------------------------------------------------------
(* The other writers of job_funnel: the agent applies or hands off, the    *)
(* operator confirms a handed-off application.                             *)

OpenRow(p, status) ==
  /\ row' = [row EXCEPT ![p] = [status |-> status, date |-> Clock]]
  /\ UNCHANGED <<mailVars, movedBy, ackVars, cursor, scanVars, faults>>

Apply ==
  \E p \in Postings :
    row[p].status = "DISCOVERED" /\ OpenRow(p, "APPLIED")

HandOff ==
  \E p \in Postings :
    row[p].status = "DISCOVERED" /\ OpenRow(p, "HANDED_OFF")

Confirm ==
  \E p \in Postings :
    row[p].status = "HANDED_OFF" /\ OpenRow(p, "APPLIED")

----------------------------------------------------------------------------
(* One scan.  Its copy of the cursor is the row itself, which nobody else  *)
(* writes: one tracker process runs.                                       *)

EndScan ==
  pc' = "idle" /\ todo' = {} /\ highest' = 0 /\ upto' = 0 /\ seen' = NothingSeen

(* A call fails and the scan returns its error, or the process is killed.  *)
Fail ==
  /\ pc # "idle" /\ faults < MaxFaults
  /\ faults' = faults + 1
  /\ EndScan
  /\ UNCHANGED <<mailVars, rowVars, ackVars, cursor>>

(* COALESCE(applied_at, discovered_at): the rows are older than any mail.  *)
TrackableSince(p) == IF row[p].status = "APPLIED" THEN row[p].date ELSE 0

(* The messages SINCE the earliest open application, as UIDs.              *)
SinceEarliest ==
  { u \in Present : \E p \in Open : arrived[inbox[u]] > TrackableSince(p) }

(* A checkpoint from scratch: new mail starts after what is there, and the *)
(* backlog at the first message that may belong to an open row.            *)
bootstrapTrackerCursor ==
  cursor' = [validity |-> validity, forward |-> UidNext - 1, ceiling |-> UidNext,
             next |-> IF SinceEarliest = {} THEN UidNext ELSE Min(SinceEarliest),
             complete |-> SinceEarliest = {}]

(* The companies a message can match; INTERVIEW_REQUESTED rows are among   *)
(* them and yet no candidates.                                             *)
GetTrackedCompanies ==
  { CompanyOf[p] : p \in
      {q \in Postings : row[q].status \in Trackable \union {"INTERVIEW_REQUESTED"}} }

(* scanInbox up to the first fetch.  Without the list of companies the     *)
(* scan goes on and can match nothing.                                     *)
StartScan ==
  /\ pc = "idle" /\ Present # {}
  /\ \/ /\ seen' = [next |-> UidNext, tracked |-> GetTrackedCompanies]
        /\ UNCHANGED faults
     \/ /\ faults < MaxFaults /\ faults' = faults + 1
        /\ seen' = [next |-> UidNext, tracked |-> {}]
  /\ IF cursor.validity # validity THEN bootstrapTrackerCursor ELSE UNCHANGED cursor
  /\ pc' = "forward"
  /\ UNCHANGED <<mailVars, rowVars, ackVars, todo, highest, upto>>

Capped(from, to) == Min({to, from + BatchSize - 1})
ForwardRange == (cursor.forward + 1) .. Capped(cursor.forward + 1, seen.next - 1)
CatchupRange == cursor.next .. Capped(cursor.next, cursor.ceiling - 1)

(* fetchUIDRange: what is in the mailbox now.                              *)
fetchUIDRange(range, step) ==
  /\ todo' = {<<u, inbox[u]>> : u \in range \intersect Present}
  /\ highest' = 0 /\ upto' = Max(range)
  /\ pc' = step
  /\ UNCHANGED <<mailVars, rowVars, ackVars, cursor, seen, faults>>

FetchForward ==
  /\ pc = "forward" /\ ForwardRange # {}
  /\ fetchUIDRange(ForwardRange, "newMail")

NoForward ==
  /\ pc = "forward" /\ ForwardRange = {}
  /\ pc' = "catchup"
  /\ UNCHANGED <<mailVars, rowVars, ackVars, cursor, seen, todo, highest, upto, faults>>

FetchCatchup ==
  /\ pc = "catchup" /\ ~cursor.complete
  /\ fetchUIDRange(CatchupRange, "backlog")

NoCatchup ==
  /\ pc = "catchup" /\ cursor.complete
  /\ EndScan
  /\ UNCHANGED <<mailVars, rowVars, ackVars, cursor, faults>>

(* processMessages takes the batch in the order of the UIDs.               *)
Current == CHOOSE t \in todo : \A other \in todo : t[1] <= other[1]

NextMessage ==
  /\ todo' = todo \ {Current} /\ highest' = Current[1]
  /\ UNCHANGED <<pc, seen, upto>>

(* Mutant: only mail without an outcome is acknowledged.                   *)
AcknowledgeReadMail(m) ==
  IF classifyEmail(m) = "" THEN processed' = processed \union {m}
  ELSE UNCHANGED processed

Acknowledge(m) ==
  processed' = IF Content[m].id THEN processed \union {m} ELSE processed

RecordUnmatched(m) ==
  unmatched' = IF Content[m].id THEN unmatched \union {m} ELSE unmatched

SkipMessage ==
  /\ todo # {}
  /\ ~Content[Current[2]].envelope \/ Current[2] \in processed
  /\ NextMessage
  /\ UNCHANGED <<mailVars, rowVars, ackVars, cursor, faults>>

AtMessage == todo # {} /\ Content[Current[2]].envelope

(* WasEmailProcessed says no when its query fails, and then a message that *)
(* was acknowledged is handled like a new one.                             *)
ToHandle ==
  /\ AtMessage
  /\ \/ Current[2] \notin processed /\ UNCHANGED <<unchecked, faults>>
     \/ /\ Current[2] \in processed /\ faults < MaxFaults
        /\ unchecked' = unchecked \union {Current[2]}
        /\ faults' = faults + 1

MarkEmailProcessed ==
  /\ ToHandle
  /\ LET m == Current[2] IN classifyEmail(m) = "" /\ Acknowledge(m)
  /\ NextMessage
  /\ UNCHANGED <<mailVars, rowVars, unmatched, ambiguous, cursor>>

(* updateDBWithTrackerResult for the company the message matched, or with  *)
(* none: one transaction, in which an acknowledgement that is there already *)
(* is no error.                                                            *)
applyOutcome(p, m) ==
  /\ row' = [row EXCEPT ![p] = [status |-> classifyEmail(m), date |-> 0]]
  /\ movedBy' = [movedBy EXCEPT ![p] = m]
  /\ UNCHANGED <<unmatched, ambiguous>>

updateDBWithTrackerResult ==
  /\ ToHandle
  /\ LET m == Current[2]
         matched == MatchingCompanies(seen.tracked, m)
     IN /\ classifyEmail(m) # ""
        /\ \E company \in IF matched = {} THEN {None} ELSE matched :
             LET candidates == {p \in Open : CompanyOf[p] = company} IN
             \/ candidates = {} /\ RecordUnmatched(m) /\ UNCHANGED <<rowVars, ambiguous>>
             \/ \E p \in Chosen(candidates, m) : applyOutcome(p, m)
             \/ /\ candidates # {} /\ Chosen(candidates, m) = {}
                /\ ambiguous' = ambiguous \union {m}
                /\ UNCHANGED <<rowVars, unmatched>>
        /\ Acknowledge(m)
  /\ NextMessage
  /\ UNCHANGED <<mailVars, cursor>>

(* Mutant: the checkpoint passes the message that failed.                  *)
StopNowhere ==
  /\ AtMessage /\ faults < MaxFaults
  /\ faults' = faults + 1
  /\ todo' = {}
  /\ UNCHANGED <<mailVars, rowVars, ackVars, cursor, pc, seen, highest, upto>>

(* A failed acknowledgement: nothing of this message is written, and the   *)
(* checkpoint stops at the message before it.  The failure that kept it    *)
(* from being acknowledged may have kept it from being recognized.         *)
StopBatch ==
  /\ AtMessage /\ faults < MaxFaults
  /\ faults' = faults + 1
  /\ todo' = {} /\ upto' = highest
  /\ UNCHANGED <<mailVars, rowVars, ackVars, cursor, pc, seen, highest>>

AdvanceForwardUID ==
  /\ pc = "newMail" /\ todo = {}
  /\ cursor' = IF upto > cursor.forward THEN [cursor EXCEPT !.forward = upto] ELSE cursor
  /\ pc' = "catchup" /\ highest' = 0 /\ upto' = 0
  /\ UNCHANGED <<mailVars, rowVars, ackVars, seen, todo, faults>>

(* Mutant: the backlog moves to the last message found (bug #534).         *)
AdvanceCatchupToHighest ==
  /\ pc = "backlog" /\ todo = {}
  /\ cursor' = IF highest + 1 > cursor.next
               THEN [cursor EXCEPT !.next = highest + 1,
                                   !.complete = @ \/ highest + 1 >= cursor.ceiling]
               ELSE cursor
  /\ EndScan
  /\ UNCHANGED <<mailVars, rowVars, ackVars, faults>>

AdvanceCatchupUID ==
  /\ pc = "backlog" /\ todo = {}
  /\ cursor' = IF upto + 1 > cursor.next
               THEN [cursor EXCEPT !.next = upto + 1,
                                   !.complete = @ \/ upto + 1 >= cursor.ceiling]
               ELSE cursor
  /\ EndScan
  /\ UNCHANGED <<mailVars, rowVars, ackVars, faults>>

Scan ==
  \/ StartScan
  \/ FetchForward \/ NoForward \/ FetchCatchup \/ NoCatchup
  \/ SkipMessage \/ MarkEmailProcessed \/ updateDBWithTrackerResult
  \/ AdvanceForwardUID \/ AdvanceCatchupUID

Others == Deliver \/ Delete \/ Renumber \/ Apply \/ HandOff \/ Confirm

Next == Scan \/ Fail \/ StopBatch \/ Others

Spec == Init /\ [][Next]_vars

(* main scans every fifteen minutes for ever.                              *)
FairSpec == Spec /\ WF_vars(Scan)

----------------------------------------------------------------------------
(* What the checkpoint promises.                                           *)

(* The message may announce the outcome of an open application: it came    *)
(* after the application, or after the operator got it to make.            *)
Awaited(m) == \E p \in Open : arrived[m] > row[p].date

Passed(u) ==
  /\ cursor.validity = validity
  /\ u <= cursor.forward
  /\ cursor.complete \/ ~(cursor.next <= u /\ u < cursor.ceiling)

(* No message is passed over: the durable checkpoint never moves past an   *)
(* awaited message that is not acknowledged, whatever call failed, wherever *)
(* the scan was killed, across deleted mail and a renumbered mailbox        *)
(* (the promise of StartTracker and processMessages).                      *)
NothingSkipped ==
  \A u \in Present :
    LET m == inbox[u] IN
    Passed(u) /\ Content[m].id /\ Content[m].envelope /\ Awaited(m)
      => m \in processed

(* A message that can be acknowledged moves at most one application,       *)
(* however often its UID is fetched again after a crash, a stopped batch   *)
(* or a renumbering.  The one exception is a message that was acknowledged *)
(* and whose check then failed: WasEmailProcessed answers no, and the      *)
(* second acknowledgement, ON CONFLICT DO NOTHING, does not keep the       *)
(* second outcome from being committed.                                    *)
AcknowledgedMovesOne ==
  \A p, q \in Postings :
    p # q /\ movedBy[p] = movedBy[q] /\ movedBy[p] # None
      => ~Content[movedBy[p]].id \/ movedBy[p] \in unchecked

(* Every awaited message that stays in the mailbox is handled in the end:  *)
(* a gap of deleted mail, a failed batch or a renumbering stalls no range. *)
MailHandled ==
  \A m \in Mails :
    (\E u \in Present : inbox[u] = m) /\ Awaited(m) /\ Content[m].id
      ~> \/ m \in processed \/ ~Content[m].envelope \/ ~Awaited(m)
         \/ ~\E u \in Present : inbox[u] = m
=============================================================================
