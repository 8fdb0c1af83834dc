---------------------------- MODULE TrackerProofs ----------------------------
(***************************************************************************)
(* What is proved of OutcomeTracker, for any mail, any batch size and any  *)
(* number of failures: the checkpoint passes over no message that may      *)
(* still matter, and no message moves two applications unless the check of *)
(* an acknowledged one failed.                                             *)
(***************************************************************************)
EXTENDS OutcomeTracker, SequenceTheorems, FiniteSetTheorems, TLAPS

ScanSteps == {"idle", "forward", "newMail", "catchup", "backlog"}
Batches == {"newMail", "backlog"}
Statuses == {"DISCOVERED"} \union Trackable \union Outcomes
Cursors ==
  [validity : Nat, forward : Nat, next : Nat, ceiling : Nat, complete : BOOLEAN]

TrackerTypeOK ==
  /\ inbox \in Seq(Mails \union {Gone}) /\ validity \in Nat \ {0}
  /\ arrived \in [Mails -> Nat]
  /\ row \in [Postings -> [status : Statuses, date : Nat]]
  /\ cursor \in Cursors
  /\ pc \in ScanSteps /\ seen.next \in Nat
  /\ todo \subseteq Nat \X Mails /\ highest \in Nat /\ upto \in Nat

(* Dates are places in the order of delivery.                              *)
Delivered == {m \in Mails : arrived[m] > 0}

ClockRuns ==
  /\ IsFiniteSet(Delivered) /\ \A m \in Mails : arrived[m] <= Clock
  /\ \A u \in Present : arrived[inbox[u]] > 0

(* A checkpoint of another numbering is of no account; one of this         *)
(* numbering speaks of UIDs that were given out, and so does a scan.       *)
CheckpointInMailbox ==
  /\ cursor.validity <= validity
  /\ cursor.validity = validity => cursor.forward < UidNext /\ cursor.ceiling <= UidNext
  /\ cursor.complete \/ cursor.next < cursor.ceiling
  /\ pc # "idle" => cursor.validity = validity /\ seen.next <= UidNext

BatchInMailbox ==
  /\ IF pc \in Batches THEN upto < UidNext ELSE todo = {}
  /\ \A t \in todo : /\ highest < t[1] /\ t[1] <= upto
                     /\ t[1] \in Uids /\ inbox[t[1]] \in {t[2], Gone}
  /\ \A s, t \in todo : s[1] = t[1] => s = t

(* The messages that must not be passed over.                              *)
Due ==
  { m \in Mails : /\ Content[m].id /\ Content[m].envelope
                  /\ Awaited(m) /\ m \notin processed }

(* The range a batch will move the checkpoint over holds no such message   *)
(* but those still to be handled.  This is what StopBatch and the deletion *)
(* of mail must not break.                                                 *)
FirstOfBatch == IF pc = "newMail" THEN cursor.forward + 1 ELSE cursor.next

BatchCovers ==
  pc \in Batches =>
    \A u \in Present :
      inbox[u] \in Due /\ FirstOfBatch <= u /\ u <= upto => <<u, inbox[u]>> \in todo

TrackerInv ==
  /\ TrackerTypeOK /\ ClockRuns /\ CheckpointInMailbox /\ BatchInMailbox
  /\ BatchCovers /\ NothingSkipped

MovedIsProcessed ==
  \A p \in Postings :
    movedBy[p] # None /\ Content[movedBy[p]].id => movedBy[p] \in processed
----------------------------------------------------------------------------
(* Numbers and sets.                                                       *)

LEMMA NatMin ==
  ASSUME NEW S \in SUBSET Nat, S # {}
  PROVE  /\ Min(S) \in S
         /\ \A x \in S : Min(S) <= x
<1> DEFINE R == {ss \in Nat \X Nat : ss[1] < ss[2]}
<1>1. IsWellFoundedOn(R, Nat)
  BY NatLessThanWellFounded DEF OpToRel
<1>2. \E x \in S : \A y \in S : ~ (<<y, x>> \in R)
  <2> HIDE DEF R
  <2> QED BY <1>1, WFMin
<1>3. \A x, y \in S : ~ (<<y, x>> \in R) => x <= y
  OBVIOUS
<1>4. \E x \in S : \A y \in S : x <= y
  BY <1>2, <1>3
<1> QED BY <1>4 DEF Min

LEMMA LastOfRange ==
  ASSUME NEW a \in Int, NEW b \in Int, a <= b
  PROVE  Max(a .. b) = b
<1>1. b \in a .. b /\ \A y \in a .. b : b >= y
  OBVIOUS
<1>2. \A x \in a .. b : (\A y \in a .. b : x >= y) => x = b
  BY <1>1
<1> QED BY <1>1, <1>2 DEF Max

LEMMA MinOfTwo ==
  ASSUME NEW a \in Int, NEW b \in Int
  PROVE  Min({a, b}) = IF a <= b THEN a ELSE b
<1> DEFINE S == {a, b}
           least == IF a <= b THEN a ELSE b
<1>1. least \in S /\ \A y \in S : least <= y
  OBVIOUS
<1>2. \A x \in S : (\A y \in S : x <= y) => x = least
  OBVIOUS
<1> QED BY <1>1, <1>2 DEF Min

(* A range that is fetched is not empty, and ends where the checkpoint     *)
(* will be moved to.                                                       *)
LEMMA CappedRange ==
  ASSUME NEW from \in Nat, NEW to \in Int, from .. Capped(from, to) # {}
  PROVE  /\ Max(from .. Capped(from, to)) = Capped(from, to)
         /\ Capped(from, to) \in Nat
         /\ from <= Capped(from, to) /\ Capped(from, to) <= to
<1>1. BatchSize \in Nat \ {0} /\ from + BatchSize - 1 \in Int
  BY TrackerAssumption
<1>2. Capped(from, to) = IF to <= from + BatchSize - 1 THEN to ELSE from + BatchSize - 1
  BY <1>1, MinOfTwo DEF Capped
<1>3. Capped(from, to) \in Int /\ from <= Capped(from, to) /\ Capped(from, to) <= to
  BY <1>1, <1>2
<1> HIDE DEF Capped
<1> QED BY <1>3, LastOfRange

LEMMA CurrentIsFirst ==
  ASSUME todo \subseteq Nat \X Mails, todo # {}
  PROVE  /\ Current \in todo
         /\ \A t \in todo : Current[1] <= t[1]
<1> DEFINE S == {t[1] : t \in todo}
<1>1. S \in SUBSET Nat /\ S # {}
  OBVIOUS
<1>2. PICK x \in S : \A y \in S : x <= y
  BY <1>1, NatMin
<1>3. \E t \in todo : \A other \in todo : t[1] <= other[1]
  BY <1>2
<1> QED BY <1>3 DEF Current

LEMMA PresentMail ==
  ASSUME TrackerTypeOK, NEW u \in Present
  PROVE  /\ u \in Nat /\ 1 <= u /\ u < UidNext /\ u \in Uids
         /\ inbox[u] \in Mails /\ inbox[u] # Gone
BY DEF TrackerTypeOK, Present, Uids, UidNext

LEMMA UidNextNat ==
  ASSUME TrackerTypeOK
  PROVE  UidNext \in Nat \ {0}
BY DEF TrackerTypeOK, UidNext

LEMMA ClockNat ==
  ASSUME ClockRuns
  PROVE  Clock = Cardinality(Delivered) /\ Clock \in Nat
BY FS_CardinalityType DEF Clock, Delivered, ClockRuns

(* No step makes an old message one that must not be passed over: a row is *)
(* opened at the date of today, closed, or left alone.                     *)
LEMMA NothingNewDue ==
  ASSUME TrackerTypeOK, ClockRuns, processed \subseteq processed',
         NEW m \in Mails, arrived'[m] = arrived[m],
         \A p \in Postings : \/ row'[p] = row[p]
                             \/ row'[p].status \notin Trackable
                             \/ row'[p].date = Clock
  PROVE  m \in Due' => m \in Due
<1> SUFFICES ASSUME m \in Due' PROVE m \in Due
  OBVIOUS
<1>1. PICK p \in Postings : row'[p].status \in Trackable /\ arrived'[m] > row'[p].date
  BY DEF Due, Awaited, Open
<1>2. arrived[m] <= Clock /\ arrived[m] \in Nat /\ Clock \in Nat
  BY ClockNat DEF ClockRuns, TrackerTypeOK
<1>3. row'[p] = row[p]
  BY <1>1, <1>2
<1>4. Awaited(m)
  BY <1>1, <1>3 DEF Awaited, Open
<1> QED BY <1>4 DEF Due

(* A state in which nothing due is passed over.                            *)
LEMMA NothingDuePassed ==
  TrackerTypeOK => (NothingSkipped <=> \A u \in Present : Passed(u) => inbox[u] \notin Due)
BY PresentMail DEF NothingSkipped, Due

LEMMA NothingDuePassedNext ==
  ASSUME TrackerTypeOK', \A u \in Present' : Passed(u)' => inbox'[u] \notin Due'
  PROVE  NothingSkipped'
<1>1. \A u \in Present' : inbox'[u] \in Mails
  BY DEF TrackerTypeOK, Present, Uids
<1> QED BY <1>1 DEF NothingSkipped, Due

LEMMA InitInv == Init => TrackerInv
<1> SUFFICES ASSUME Init PROVE TrackerInv
  OBVIOUS
<1>1. TrackerTypeOK
  BY DEF Init, TrackerTypeOK, Statuses, Cursors, NoCursor, NothingSeen, ScanSteps
<1>2. Present = {} /\ Delivered = {}
  BY DEF Init, Present, Uids, Delivered
<1>3. ClockRuns
  <2>1. IsFiniteSet(Delivered) /\ Clock = 0
    BY <1>2, FS_EmptySet DEF Clock, Delivered
  <2> QED BY <1>2, <2>1 DEF ClockRuns, Init
<1>4. CheckpointInMailbox
  BY DEF Init, CheckpointInMailbox, NoCursor, UidNext
<1> QED BY <1>1, <1>2, <1>3, <1>4 DEF TrackerInv, Init, BatchInMailbox, BatchCovers,
      NothingSkipped, Batches

----------------------------------------------------------------------------
(* The mailbox.                                                            *)

LEMMA DeliverInv == TrackerInv /\ Deliver => TrackerInv'
<1> SUFFICES ASSUME TrackerInv, NEW mail \in Mails, arrived[mail] = 0,
                    inbox' = Append(inbox, mail),
                    arrived' = [arrived EXCEPT ![mail] = Clock + 1],
                    UNCHANGED <<validity, rowVars, ackVars, cursor, scanVars, faults>>
             PROVE  TrackerInv'
  BY DEF Deliver
<1> USE DEF TrackerInv, rowVars, ackVars, scanVars
<1>1. Clock \in Nat /\ Clock = Cardinality(Delivered)
  BY ClockNat
<1>2. /\ Len(inbox') = Len(inbox) + 1 /\ Len(inbox) \in Nat
      /\ inbox' \in Seq(Mails \union {Gone})
      /\ inbox'[Len(inbox) + 1] = mail
      /\ \A u \in Uids : u \in Uids' /\ inbox'[u] = inbox[u]
  BY DEF TrackerTypeOK, Uids
<1>3. /\ arrived' \in [Mails -> Nat] /\ arrived'[mail] = Clock + 1
      /\ \A m \in Mails : m # mail => arrived'[m] = arrived[m]
  BY <1>1 DEF TrackerTypeOK
<1>4. TrackerTypeOK'
  BY <1>2, <1>3 DEF TrackerTypeOK
<1>5. \A u \in Present' : u = Len(inbox) + 1 \/ (u \in Present /\ inbox'[u] = inbox[u])
  BY <1>2 DEF Present, Uids, TrackerTypeOK
<1>6. ClockRuns'
  <2>1. Delivered' = Delivered \union {mail} /\ mail \notin Delivered
    <3>1. \A m \in Mails : arrived'[m] > 0 <=> m = mail \/ arrived[m] > 0
      BY <1>1, <1>3
    <3> QED BY <3>1 DEF Delivered
  <2>2. IsFiniteSet(Delivered') /\ Cardinality(Delivered') = Cardinality(Delivered) + 1
    BY <2>1, FS_AddElement DEF ClockRuns
  <2>3. Clock' = Clock + 1
    BY <1>1, <2>2 DEF Clock, Delivered
  <2>4. \A m \in Mails : arrived'[m] <= Clock'
    BY <1>1, <1>3, <2>3 DEF ClockRuns, TrackerTypeOK
  <2>5. \A u \in Present' : arrived'[inbox'[u]] > 0
    <3> SUFFICES ASSUME NEW u \in Present' PROVE arrived'[inbox'[u]] > 0
      OBVIOUS
    <3>1. CASE u = Len(inbox) + 1
      BY <1>1, <1>2, <1>3, <3>1
    <3>2. CASE u \in Present /\ inbox'[u] = inbox[u]
      <4>1. inbox[u] \in Mails /\ arrived[inbox[u]] > 0
        BY <3>2, PresentMail DEF ClockRuns
      <4> QED BY <1>1, <1>3, <3>2, <4>1
    <3> QED BY <1>5, <3>1, <3>2
  <2> QED BY <2>2, <2>4, <2>5 DEF ClockRuns
<1>7. CheckpointInMailbox'
  BY <1>2 DEF CheckpointInMailbox, UidNext, TrackerTypeOK, Cursors
<1>8. BatchInMailbox'
  <2>1. \A t \in todo : inbox[t[1]] = inbox'[t[1]]
    BY <1>2 DEF BatchInMailbox
  <2>2. IF pc \in Batches THEN upto < UidNext' ELSE todo = {}
    BY <1>2 DEF BatchInMailbox, UidNext, TrackerTypeOK
  <2> QED BY <1>2, <2>1, <2>2 DEF BatchInMailbox, Batches
<1>9. \A u \in Present : inbox[u] \in Due' => inbox[u] \in Due
  <2> SUFFICES ASSUME NEW u \in Present PROVE inbox[u] \in Due' => inbox[u] \in Due
    OBVIOUS
  <2>1. inbox[u] \in Mails /\ arrived'[inbox[u]] = arrived[inbox[u]]
    BY <1>3, PresentMail DEF ClockRuns
  <2> QED BY <2>1, NothingNewDue
<1>10. BatchCovers'
  <2> SUFFICES ASSUME pc \in Batches, NEW u \in Present', inbox'[u] \in Due',
                      FirstOfBatch <= u, u <= upto
               PROVE  <<u, inbox'[u]>> \in todo
    BY DEF BatchCovers, FirstOfBatch
  <2>1. u # Len(inbox) + 1
    BY <1>2 DEF BatchInMailbox, UidNext, TrackerTypeOK
  <2> QED BY <1>5, <1>9, <2>1 DEF BatchCovers
<1>11. NothingSkipped'
  <2> SUFFICES ASSUME NEW u \in Present', Passed(u)', inbox'[u] \in Due'
               PROVE  FALSE
    BY <1>4, NothingDuePassedNext
  <2>1. u # Len(inbox) + 1
    BY <1>2 DEF Passed, CheckpointInMailbox, UidNext, TrackerTypeOK, Cursors
  <2>2. u \in Present /\ inbox[u] \in Due /\ Passed(u)
    BY <1>5, <1>9, <2>1 DEF Passed
  <2> QED BY <2>2, NothingDuePassed
<1> QED BY <1>4, <1>6, <1>7, <1>8, <1>10, <1>11

LEMMA DeleteInv == TrackerInv /\ Delete => TrackerInv'
<1> SUFFICES ASSUME TrackerInv, NEW d \in Present,
                    inbox' = [inbox EXCEPT ![d] = Gone],
                    UNCHANGED <<validity, arrived, rowVars, ackVars, cursor, scanVars, faults>>
             PROVE  TrackerInv'
  BY DEF Delete
<1> USE DEF TrackerInv, rowVars, ackVars, scanVars
<1>1. /\ inbox' \in Seq(Mails \union {Gone}) /\ Len(inbox') = Len(inbox)
      /\ Uids' = Uids /\ \A u \in Uids : inbox'[u] = IF u = d THEN Gone ELSE inbox[u]
  BY DEF TrackerTypeOK, Uids, Present
<1>2. \A u \in Present' : u \in Present /\ inbox'[u] = inbox[u]
  BY <1>1 DEF Present
<1>3. TrackerTypeOK'
  BY <1>1 DEF TrackerTypeOK
<1>4. ClockRuns'
  BY <1>2 DEF ClockRuns, Delivered, Clock
<1>5. CheckpointInMailbox'
  BY <1>1 DEF CheckpointInMailbox, UidNext
<1>6. BatchInMailbox'
  BY <1>1 DEF BatchInMailbox, UidNext, Batches
<1>7. \A u \in Present' : inbox'[u] \in Due' => inbox'[u] \in Due
  BY <1>2, PresentMail, NothingNewDue
<1>8. BatchCovers'
  <2> SUFFICES ASSUME pc \in Batches, NEW u \in Present', inbox'[u] \in Due',
                      FirstOfBatch <= u, u <= upto
               PROVE  <<u, inbox'[u]>> \in todo
    BY DEF BatchCovers, FirstOfBatch, Batches
  <2> QED BY <1>2, <1>7 DEF BatchCovers
<1>9. NothingSkipped'
  <2> SUFFICES ASSUME NEW u \in Present', Passed(u)', inbox'[u] \in Due'
               PROVE  FALSE
    BY <1>3, NothingDuePassedNext
  <2>1. u \in Present /\ inbox[u] \in Due /\ Passed(u)
    BY <1>2, <1>7 DEF Passed
  <2> QED BY <2>1, NothingDuePassed
<1> QED BY <1>3, <1>4, <1>5, <1>6, <1>8, <1>9

(* The checkpoint is one of the old numbering, which passes over nothing   *)
(* in the new one.                                                         *)
LEMMA RenumberInv == TrackerInv /\ Renumber => TrackerInv'
<1> SUFFICES ASSUME TrackerInv, pc = "idle",
                    NEW kept \in [1..Cardinality(Present) -> Present],
                    inbox' = [i \in DOMAIN kept |-> inbox[kept[i]]],
                    validity' = validity + 1,
                    UNCHANGED <<arrived, rowVars, ackVars, cursor, scanVars, faults>>
             PROVE  TrackerInv'
  BY DEF Renumber
<1> USE DEF TrackerInv, rowVars, ackVars, scanVars
<1>1. Cardinality(Present) \in Nat
  <2>1. Present \subseteq 1..Len(inbox) /\ Len(inbox) \in Nat
    BY DEF Present, Uids, TrackerTypeOK
  <2>2. IsFiniteSet(1..Len(inbox))
    BY <2>1, FS_Interval
  <2>3. IsFiniteSet(Present)
    BY <2>1, <2>2, FS_Subset
  <2> QED BY <2>3, FS_CardinalityType
<1>2. inbox' \in Seq(Mails) /\ \A u \in Uids' : kept[u] \in Present /\ inbox'[u] = inbox[kept[u]]
  <2>1. DOMAIN kept = 1..Cardinality(Present)
    OBVIOUS
  <2>2. \A i \in DOMAIN kept : kept[i] \in Present /\ inbox[kept[i]] \in Mails
    BY PresentMail
  <2>3. inbox' \in [1..Cardinality(Present) -> Mails]
    BY <2>1, <2>2
  <2>4. inbox' \in Seq(Mails)
    BY <1>1, <2>3
  <2>5. Uids' = DOMAIN kept
    BY DEF Uids
  <2> QED BY <2>2, <2>4, <2>5
<1>3. TrackerTypeOK'
  BY <1>2 DEF TrackerTypeOK
<1>4. ClockRuns'
  BY <1>2 DEF ClockRuns, Delivered, Clock, Present
<1>5. cursor'.validity # validity' /\ cursor'.validity <= validity' /\ pc' = "idle" /\ todo' = {}
  BY DEF CheckpointInMailbox, BatchInMailbox, Batches, TrackerTypeOK, Cursors
<1>6. CheckpointInMailbox' /\ BatchInMailbox' /\ BatchCovers' /\ NothingSkipped'
  BY <1>5 DEF CheckpointInMailbox, BatchInMailbox, BatchCovers, NothingSkipped, Passed, Batches
<1> QED BY <1>3, <1>4, <1>6

----------------------------------------------------------------------------
(* What the steps that leave the mailbox alone have in common.             *)

LEMMA MailboxStays ==
  ASSUME TrackerInv, TrackerTypeOK', UNCHANGED mailVars, processed \subseteq processed',
         \A p \in Postings : \/ row'[p] = row[p]
                             \/ row'[p].status \notin Trackable
                             \/ row'[p].date = Clock
  PROVE  /\ ClockRuns'
         /\ Present' = Present /\ Uids' = Uids /\ UidNext' = UidNext
         /\ \A u \in Present : inbox[u] \in Due' => inbox[u] \in Due
         /\ cursor' = cursor => NothingSkipped'
<1> USE DEF mailVars
<1>0. TrackerTypeOK /\ ClockRuns /\ NothingSkipped
  BY DEF TrackerInv
<1>1. Present' = Present /\ Uids' = Uids /\ UidNext' = UidNext
  BY DEF Present, Uids, UidNext
<1>2. ClockRuns'
  BY <1>0, <1>1 DEF ClockRuns, Delivered, Clock
<1>3. \A u \in Present : inbox[u] \in Due' => inbox[u] \in Due
  BY <1>0, PresentMail, NothingNewDue
<1>4. ASSUME cursor' = cursor PROVE NothingSkipped'
  <2> SUFFICES ASSUME NEW u \in Present', Passed(u)', inbox'[u] \in Due'
               PROVE  FALSE
    BY NothingDuePassedNext
  <2>1. u \in Present /\ inbox[u] \in Due /\ Passed(u)
    BY <1>1, <1>3, <1>4 DEF Passed
  <2> QED BY <1>0, <2>1, NothingDuePassed
<1> QED BY <1>1, <1>2, <1>3, <1>4

LEMMA RowsInv ==
  ASSUME TrackerInv, TrackerTypeOK',
         UNCHANGED <<mailVars, ackVars, cursor, scanVars>>,
         \A p \in Postings : row'[p] = row[p] \/ row'[p].date = Clock
  PROVE  TrackerInv'
<1> USE DEF TrackerInv, ackVars, scanVars
<1>1. /\ ClockRuns' /\ NothingSkipped'
      /\ Present' = Present /\ Uids' = Uids /\ UidNext' = UidNext
      /\ \A u \in Present : inbox[u] \in Due' => inbox[u] \in Due
  BY MailboxStays
<1>2. CheckpointInMailbox' /\ BatchInMailbox'
  BY <1>1 DEF CheckpointInMailbox, BatchInMailbox, Batches, mailVars
<1>3. BatchCovers'
  BY <1>1 DEF BatchCovers, FirstOfBatch, Batches, mailVars
<1> QED BY <1>1, <1>2, <1>3

LEMMA OpenRowInv ==
  ASSUME TrackerInv, NEW p \in Postings, NEW status \in Statuses, OpenRow(p, status)
  PROVE  TrackerInv'
<1>1. Clock \in Nat
  BY ClockNat DEF TrackerInv
<1>2. \A q \in Postings :
        row'[q] = IF q = p THEN [status |-> status, date |-> Clock] ELSE row[q]
  BY DEF OpenRow, TrackerInv, TrackerTypeOK
<1>3. TrackerTypeOK'
  BY <1>1 DEF OpenRow, TrackerInv, TrackerTypeOK, mailVars, ackVars, scanVars
<1>4. UNCHANGED <<mailVars, ackVars, cursor, scanVars>>
  BY DEF OpenRow
<1>5. \A q \in Postings : row'[q] = row[q] \/ row'[q].date = Clock
  BY <1>2
<1> QED BY <1>3, <1>4, <1>5, RowsInv

LEMMA EndScanInv ==
  ASSUME TrackerInv, EndScan, UNCHANGED <<mailVars, rowVars, ackVars, cursor>>
  PROVE  TrackerInv'
<1> USE DEF TrackerInv, ackVars, rowVars
<1>1. TrackerTypeOK'
  BY DEF TrackerTypeOK, EndScan, mailVars, NothingSeen, ScanSteps
<1>2. /\ ClockRuns' /\ NothingSkipped' /\ UidNext' = UidNext
  BY <1>1, MailboxStays
<1>3. pc' \notin Batches /\ pc' = "idle" /\ todo' = {}
  BY DEF EndScan, Batches
<1>4. CheckpointInMailbox' /\ BatchInMailbox' /\ BatchCovers'
  BY <1>2, <1>3 DEF CheckpointInMailbox, BatchInMailbox, BatchCovers, mailVars
<1> QED BY <1>1, <1>2, <1>4

----------------------------------------------------------------------------
(* The scan, up to the messages.                                           *)

(* The checkpoint of a new numbering leaves every message that may matter  *)
(* to the backlog.                                                         *)
LEMMA BootstrapInv ==
  ASSUME TrackerTypeOK, ClockRuns, bootstrapTrackerCursor,
         UNCHANGED <<mailVars, rowVars, ackVars>>
  PROVE  /\ cursor' \in Cursors
         /\ cursor'.validity = validity
         /\ cursor'.forward < UidNext /\ cursor'.ceiling <= UidNext
         /\ cursor'.complete \/ cursor'.next < cursor'.ceiling
         /\ \A u \in Present : Passed(u)' => inbox[u] \notin Due
<1>1. SinceEarliest \in SUBSET Nat /\ \A u \in SinceEarliest : u < UidNext
  BY PresentMail DEF SinceEarliest
<1>2. SinceEarliest # {} =>
        /\ Min(SinceEarliest) \in Nat /\ Min(SinceEarliest) < UidNext
        /\ \A u \in SinceEarliest : Min(SinceEarliest) <= u
  BY <1>1, NatMin
<1>3. /\ cursor'.validity = validity /\ cursor'.forward = UidNext - 1
      /\ cursor'.ceiling = UidNext /\ cursor'.complete = (SinceEarliest = {})
      /\ cursor'.next = IF SinceEarliest = {} THEN UidNext ELSE Min(SinceEarliest)
  BY DEF bootstrapTrackerCursor
<1>4. UidNext \in Nat \ {0} /\ validity \in Nat
  BY DEF UidNext, TrackerTypeOK
<1>5. cursor' \in Cursors
  BY <1>2, <1>4 DEF bootstrapTrackerCursor, Cursors
<1>6. ASSUME NEW u \in Present, inbox[u] \in Due PROVE ~Passed(u)'
  <2>1. PICK p \in Open : arrived[inbox[u]] > row[p].date
    BY <1>6 DEF Due, Awaited
  <2>2. TrackableSince(p) <= row[p].date /\ TrackableSince(p) \in Nat /\ row[p].date \in Nat
    BY DEF TrackableSince, TrackerTypeOK, Open
  <2>3. arrived[inbox[u]] \in Nat
    BY PresentMail DEF TrackerTypeOK
  <2>4. u \in SinceEarliest
    BY <2>1, <2>2, <2>3 DEF SinceEarliest
  <2>5. cursor'.next <= u /\ u < cursor'.ceiling /\ ~cursor'.complete
    BY <1>1, <1>2, <1>3, <2>4
  <2> QED BY <2>5 DEF Passed
<1>7. \A u \in Present : Passed(u)' => inbox[u] \notin Due
  BY <1>6
<1>8. cursor'.complete \/ cursor'.next < cursor'.ceiling
  BY <1>2, <1>3
<1>9. cursor'.forward < UidNext /\ cursor'.ceiling <= UidNext
  BY <1>3, <1>4
<1> QED BY <1>3, <1>5, <1>7, <1>8, <1>9

LEMMA StartScanInv == TrackerInv /\ StartScan => TrackerInv'
<1> SUFFICES ASSUME TrackerInv, StartScan PROVE TrackerInv'
  OBVIOUS
<1> USE DEF TrackerInv, ackVars, rowVars
<1>1. /\ pc = "idle" /\ pc' = "forward" /\ seen'.next = UidNext
      /\ UNCHANGED <<mailVars, rowVars, ackVars, todo, highest, upto>>
      /\ IF cursor.validity # validity THEN bootstrapTrackerCursor ELSE UNCHANGED cursor
  BY DEF StartScan
<1>2. UidNext \in Nat
  BY DEF UidNext, TrackerTypeOK
<1>3. cursor' \in Cursors
  BY <1>1, BootstrapInv DEF TrackerTypeOK
<1>4. TrackerTypeOK'
  BY <1>1, <1>2, <1>3 DEF TrackerTypeOK, mailVars, ScanSteps
<1>5. /\ ClockRuns' /\ Present' = Present /\ UidNext' = UidNext
      /\ \A u \in Present : inbox[u] \in Due' => inbox[u] \in Due
      /\ cursor' = cursor => NothingSkipped'
  BY <1>1, <1>4, MailboxStays
<1>6. CheckpointInMailbox' /\ NothingSkipped'
  <2>1. CASE cursor.validity = validity
    BY <1>1, <1>2, <1>5, <2>1 DEF CheckpointInMailbox, mailVars
  <2>2. CASE cursor.validity # validity
    <3>1. /\ cursor'.validity = validity
          /\ cursor'.forward < UidNext /\ cursor'.ceiling <= UidNext
          /\ cursor'.complete \/ cursor'.next < cursor'.ceiling
          /\ \A u \in Present : Passed(u)' => inbox[u] \notin Due
      BY <1>1, <2>2, BootstrapInv
    <3>2. CheckpointInMailbox'
      BY <1>1, <1>2, <1>5, <3>1 DEF CheckpointInMailbox, mailVars, TrackerTypeOK
    <3>3. \A u \in Present' : Passed(u)' => inbox'[u] \notin Due'
      BY <1>1, <1>5, <3>1 DEF mailVars
    <3> QED BY <1>4, <3>2, <3>3, NothingDuePassedNext
  <2> QED BY <2>1, <2>2
<1>7. pc' \notin Batches /\ todo' = {}
  BY <1>1 DEF BatchInMailbox, Batches
<1>8. BatchInMailbox' /\ BatchCovers'
  BY <1>7 DEF BatchInMailbox, BatchCovers
<1> QED BY <1>8, <1>4, <1>5, <1>6, <1>7

(* A batch is what the mailbox holds of the range the checkpoint will be   *)
(* moved over.                                                             *)
LEMMA FetchInv ==
  ASSUME TrackerInv, pc # "idle",
         NEW step \in Batches, NEW from \in Nat, NEW last \in Nat,
         step = "newMail" => from = cursor.forward + 1,
         step # "newMail" => from = cursor.next,
         last < UidNext, Max(from .. last) = last,
         fetchUIDRange(from .. last, step)
  PROVE  TrackerInv'
<1>2. /\ todo' = {<<u, inbox[u]>> : u \in (from .. last) \intersect Present}
      /\ highest' = 0 /\ upto' = last /\ pc' = step
      /\ UNCHANGED <<mailVars, rowVars, ackVars, cursor, seen>>
  BY DEF fetchUIDRange
<1> USE DEF TrackerInv, ackVars, rowVars
<1>3. \A t \in todo' : /\ t[1] \in Nat /\ t[1] \in Uids /\ 0 < t[1] /\ t[1] <= last
                       /\ t[2] = inbox[t[1]] /\ t = <<t[1], t[2]>>
                       /\ t \in Nat \X Mails
  <2> SUFFICES ASSUME NEW u \in (from .. last) \intersect Present
               PROVE  u \in Nat /\ u \in Uids /\ 0 < u /\ u <= last /\ inbox[u] \in Mails
    BY <1>2
  <2>1. u \in Nat /\ u \in Uids /\ 1 <= u /\ inbox[u] \in Mails
    BY PresentMail
  <2> QED BY <2>1
<1>4. todo' \subseteq Nat \X Mails
  BY <1>3
<1>5. TrackerTypeOK'
  BY <1>2, <1>4 DEF TrackerTypeOK, mailVars, ScanSteps, Batches
<1>6. /\ ClockRuns' /\ NothingSkipped'
      /\ Present' = Present /\ Uids' = Uids /\ UidNext' = UidNext
      /\ \A u \in Present : inbox[u] \in Due' => inbox[u] \in Due
  BY <1>2, <1>5, MailboxStays
<1>7. CheckpointInMailbox'
  BY <1>2, <1>6 DEF CheckpointInMailbox, mailVars
<1>8. BatchInMailbox'
  <2>1. \A s, t \in todo' : s[1] = t[1] => s = t
    BY <1>3
  <2> QED BY <1>2, <1>3, <1>6, <2>1 DEF BatchInMailbox, mailVars
<1>9. BatchCovers'
  <2> SUFFICES ASSUME NEW u \in Present', FirstOfBatch' <= u, u <= upto'
               PROVE  <<u, inbox'[u]>> \in todo'
    BY DEF BatchCovers
  <2>1. FirstOfBatch' = from
    BY <1>2 DEF FirstOfBatch
  <2>2. u \in Nat /\ u \in Present
    BY <1>6, PresentMail
  <2>3. u \in (from .. last) \intersect Present
    BY <1>2, <2>1, <2>2
  <2> QED BY <1>2, <2>3 DEF mailVars
<1> QED BY <1>5, <1>6, <1>7, <1>8, <1>9

LEMMA FetchForwardInv == TrackerInv /\ FetchForward => TrackerInv'
<1> SUFFICES ASSUME TrackerInv, FetchForward PROVE TrackerInv'
  OBVIOUS
<1> DEFINE from == cursor.forward + 1
           last == Capped(from, seen.next - 1)
<1>1. cursor.forward \in Nat /\ seen.next \in Nat
  BY DEF TrackerInv, TrackerTypeOK, Cursors
<1>2. UidNext \in Nat /\ seen.next <= UidNext /\ pc # "idle"
  BY UidNextNat DEF TrackerInv, CheckpointInMailbox, FetchForward
<1>3. from \in Nat /\ seen.next - 1 \in Int
  BY <1>1
<1>4. last \in Nat /\ last <= seen.next - 1 /\ Max(from .. last) = last
  BY <1>3, CappedRange DEF FetchForward, ForwardRange
<1>5. fetchUIDRange(from .. last, "newMail")
  BY DEF FetchForward, ForwardRange
<1> HIDE DEF last
<1>6. last < UidNext
  BY <1>1, <1>2, <1>4
<1> QED BY <1>2, <1>3, <1>4, <1>5, <1>6, FetchInv DEF Batches

LEMMA FetchCatchupInv == TrackerInv /\ FetchCatchup => TrackerInv'
<1> SUFFICES ASSUME TrackerInv, FetchCatchup PROVE TrackerInv'
  OBVIOUS
<1> DEFINE from == cursor.next
           last == Capped(from, cursor.ceiling - 1)
<1>1. from \in Nat /\ cursor.ceiling \in Nat
  BY DEF TrackerInv, TrackerTypeOK, Cursors
<1>2. UidNext \in Nat /\ cursor.ceiling <= UidNext /\ from < cursor.ceiling /\ pc # "idle"
  BY UidNextNat DEF TrackerInv, CheckpointInMailbox, FetchCatchup
<1>3. cursor.ceiling - 1 \in Int /\ from <= cursor.ceiling - 1
  BY <1>1, <1>2
<1>4. from .. last # {}
  <2>1. BatchSize \in Nat \ {0} /\ from + BatchSize - 1 \in Int
    BY <1>1, TrackerAssumption
  <2>2. last \in Int /\ from <= last
    BY <1>1, <1>3, <2>1, MinOfTwo DEF Capped
  <2> QED BY <1>1, <2>2
<1>5. last \in Nat /\ last <= cursor.ceiling - 1 /\ Max(from .. last) = last
  BY <1>1, <1>3, <1>4, CappedRange
<1>6. fetchUIDRange(from .. last, "backlog")
  BY DEF FetchCatchup, CatchupRange
<1> HIDE DEF last
<1>7. last < UidNext
  BY <1>1, <1>2, <1>5
<1> QED BY <1>1, <1>2, <1>5, <1>6, <1>7, FetchInv DEF Batches

LEMMA NoForwardInv == TrackerInv /\ NoForward => TrackerInv'
<1> SUFFICES ASSUME TrackerInv, NoForward PROVE TrackerInv'
  OBVIOUS
<1> USE DEF TrackerInv, NoForward, ackVars, rowVars
<1>1. TrackerTypeOK'
  BY DEF TrackerTypeOK, mailVars, ScanSteps
<1>2. /\ ClockRuns' /\ NothingSkipped' /\ UidNext' = UidNext
  BY <1>1, MailboxStays
<1>3. pc' \notin Batches /\ todo' = {}
  BY DEF BatchInMailbox, Batches
<1>4. CheckpointInMailbox' /\ BatchInMailbox' /\ BatchCovers'
  BY <1>2, <1>3 DEF CheckpointInMailbox, BatchInMailbox, BatchCovers, mailVars
<1> QED BY <1>1, <1>2, <1>4

----------------------------------------------------------------------------
(* The messages of a batch.                                                *)

(* A message leaves the batch when it need not be seen again.              *)
LEMMA NextMessageInv ==
  ASSUME TrackerInv, TrackerTypeOK', todo # {}, NextMessage,
         UNCHANGED <<mailVars, cursor>>, processed \subseteq processed',
         \A p \in Postings : row'[p] = row[p] \/ row'[p].status \notin Trackable,
         Current[2] \notin Due'
  PROVE  TrackerInv'
<1> USE DEF TrackerInv
<1>1. /\ ClockRuns' /\ NothingSkipped'
      /\ Present' = Present /\ Uids' = Uids /\ UidNext' = UidNext
      /\ \A u \in Present : inbox[u] \in Due' => inbox[u] \in Due
  BY MailboxStays
<1>2. Current \in todo /\ \A t \in todo : Current[1] <= t[1]
  BY CurrentIsFirst DEF TrackerTypeOK
<1>3. /\ todo' = todo \ {Current} /\ highest' = Current[1]
      /\ UNCHANGED <<pc, seen, upto>>
  BY DEF NextMessage
<1>4. CheckpointInMailbox'
  BY <1>1, <1>3 DEF CheckpointInMailbox, mailVars
<1>5. BatchInMailbox'
  <2>1. \A t \in todo' : highest' < t[1]
    <3> SUFFICES ASSUME NEW t \in todo' PROVE highest' < t[1]
      OBVIOUS
    <3>1. t \in todo /\ t # Current /\ Current[1] <= t[1] /\ Current[1] # t[1]
      BY <1>2, <1>3 DEF BatchInMailbox
    <3> QED BY <1>2, <1>3, <3>1 DEF TrackerTypeOK
  <2> QED BY <1>1, <1>3, <2>1 DEF BatchInMailbox, mailVars
<1>6. BatchCovers'
  <2> SUFFICES ASSUME pc \in Batches, NEW u \in Present, inbox[u] \in Due',
                      FirstOfBatch <= u, u <= upto
               PROVE  <<u, inbox[u]>> \in todo'
    BY <1>1, <1>3 DEF BatchCovers, FirstOfBatch, mailVars
  <2>1. <<u, inbox[u]>> \in todo
    BY <1>1 DEF BatchCovers
  <2> QED BY <1>3, <2>1
<1> QED BY <1>1, <1>4, <1>5, <1>6

(* What a handled message is: one of the mailbox, read in full.            *)
LEMMA CurrentMail ==
  ASSUME TrackerTypeOK, todo # {}
  PROVE  /\ Current \in todo /\ Current[1] \in Nat /\ Current[2] \in Mails
         /\ todo \ {Current} \subseteq Nat \X Mails
BY CurrentIsFirst DEF TrackerTypeOK

LEMMA AcknowledgedIsNotDue ==
  ASSUME NEW m, Acknowledge(m)
  PROVE  processed \subseteq processed' /\ m \notin Due'
BY DEF Acknowledge, Due

LEMMA SkipMessageInv == TrackerInv /\ SkipMessage => TrackerInv'
<1> SUFFICES ASSUME TrackerInv, SkipMessage PROVE TrackerInv'
  OBVIOUS
<1> USE DEF SkipMessage, rowVars, ackVars
<1>1. TrackerTypeOK'
  BY CurrentMail DEF TrackerInv, TrackerTypeOK, mailVars, NextMessage
<1>2. Current[2] \notin Due'
  BY DEF Due
<1> QED BY <1>1, <1>2, NextMessageInv

LEMMA MarkEmailProcessedInv == TrackerInv /\ MarkEmailProcessed => TrackerInv'
<1> SUFFICES ASSUME TrackerInv, MarkEmailProcessed PROVE TrackerInv'
  OBVIOUS
<1> USE DEF MarkEmailProcessed, ToHandle, AtMessage, rowVars
<1>1. TrackerTypeOK'
  BY CurrentMail DEF TrackerInv, TrackerTypeOK, mailVars, NextMessage
<1>2. processed \subseteq processed' /\ Current[2] \notin Due'
  BY AcknowledgedIsNotDue
<1> QED BY <1>1, <1>2, NextMessageInv

(* An outcome is written to one row, or to none.                           *)
LEMMA OutcomeWritten ==
  ASSUME updateDBWithTrackerResult
  PROVE  \/ UNCHANGED rowVars
         \/ \E p \in Open : applyOutcome(p, Current[2])
<1>1. \A candidates, m : Chosen(candidates, m) \subseteq candidates
  BY DEF Chosen, filterCandidates
<1> QED BY <1>1 DEF updateDBWithTrackerResult

LEMMA updateDBInv == TrackerInv /\ updateDBWithTrackerResult => TrackerInv'
<1> SUFFICES ASSUME TrackerInv, updateDBWithTrackerResult PROVE TrackerInv'
  OBVIOUS
<1>1. /\ todo # {} /\ NextMessage /\ UNCHANGED <<mailVars, cursor>>
      /\ Acknowledge(Current[2]) /\ classifyEmail(Current[2]) # ""
  BY DEF updateDBWithTrackerResult, ToHandle, AtMessage
<1>2. classifyEmail(Current[2]) \in Outcomes
  BY <1>1 DEF classifyEmail, Outcomes
<1>3. /\ row' \in [Postings -> [status : Statuses, date : Nat]]
      /\ \A p \in Postings : row'[p] = row[p] \/ row'[p].status \notin Trackable
  <2>1. CASE UNCHANGED rowVars
    BY <2>1 DEF rowVars, TrackerInv, TrackerTypeOK
  <2>2. CASE \E p \in Open : applyOutcome(p, Current[2])
    <3>1. PICK p \in Postings :
            row' = [row EXCEPT ![p] = [status |-> classifyEmail(Current[2]), date |-> 0]]
      BY <2>2 DEF applyOutcome, Open
    <3> QED BY <1>2, <3>1
          DEF TrackerInv, TrackerTypeOK, Statuses, Trackable, Outcomes
  <2> QED BY <2>1, <2>2, OutcomeWritten
<1>4. TrackerTypeOK'
  BY <1>1, <1>3, CurrentMail DEF TrackerInv, TrackerTypeOK, mailVars, NextMessage
<1>5. processed \subseteq processed' /\ Current[2] \notin Due'
  BY <1>1, AcknowledgedIsNotDue
<1> QED BY <1>1, <1>3, <1>4, <1>5, NextMessageInv

(* The checkpoint will stop before the message that failed: those before   *)
(* it were handled, so nothing due is left up to there.                    *)
LEMMA StopBatchInv == TrackerInv /\ StopBatch => TrackerInv'
<1> SUFFICES ASSUME TrackerInv, StopBatch PROVE TrackerInv'
  OBVIOUS
<1> USE DEF TrackerInv, StopBatch, AtMessage, ackVars, rowVars
<1>1. TrackerTypeOK'
  BY DEF TrackerTypeOK, mailVars
<1>2. /\ ClockRuns' /\ NothingSkipped'
      /\ Present' = Present /\ UidNext' = UidNext
      /\ \A u \in Present : inbox[u] \in Due' => inbox[u] \in Due
  BY <1>1, MailboxStays
<1>3. CheckpointInMailbox'
  BY <1>2 DEF CheckpointInMailbox, mailVars
<1>4. /\ pc \in Batches /\ upto < UidNext /\ highest < upto
      /\ \A t \in todo : highest < t[1]
  <2>1. \A t \in todo : t[1] \in Nat
    BY DEF TrackerTypeOK
  <2>2. pc \in Batches /\ upto < UidNext
    BY DEF BatchInMailbox
  <2> QED BY <2>1, <2>2 DEF BatchInMailbox, TrackerTypeOK
<1>5. BatchInMailbox'
  <2>1. highest < UidNext
    BY <1>4, UidNextNat DEF TrackerTypeOK
  <2> QED BY <1>2, <2>1 DEF BatchInMailbox, Batches
<1>6. BatchCovers'
  <2> SUFFICES ASSUME NEW u \in Present, inbox[u] \in Due', FirstOfBatch <= u, u <= highest
               PROVE  FALSE
    BY <1>2 DEF BatchCovers, FirstOfBatch, mailVars
  <2>1. u \in Nat /\ u <= upto
    BY <1>4, PresentMail DEF TrackerTypeOK
  <2>2. <<u, inbox[u]>> \in todo
    BY <1>2, <1>4, <2>1 DEF BatchCovers
  <2>3. highest < u
    BY <1>4, <2>2
  <2> QED BY <2>1, <2>3 DEF TrackerTypeOK
<1> QED BY <1>1, <1>2, <1>3, <1>5, <1>6

----------------------------------------------------------------------------
(* The checkpoint moves over a range that holds nothing due any more.      *)

LEMMA AdvanceForwardInv == TrackerInv /\ AdvanceForwardUID => TrackerInv'
<1> SUFFICES ASSUME TrackerInv, AdvanceForwardUID PROVE TrackerInv'
  OBVIOUS
<1> USE DEF TrackerInv, AdvanceForwardUID, ackVars, rowVars
<1>1. /\ cursor \in Cursors /\ upto \in Nat /\ cursor.validity = validity
      /\ upto < UidNext
  BY DEF TrackerTypeOK, CheckpointInMailbox, BatchInMailbox, Batches
<1>2. /\ cursor' \in Cursors
      /\ cursor'.validity = cursor.validity /\ cursor'.next = cursor.next
      /\ cursor'.ceiling = cursor.ceiling /\ cursor'.complete = cursor.complete
      /\ cursor'.forward = IF upto > cursor.forward THEN upto ELSE cursor.forward
  BY <1>1 DEF Cursors
<1>3. TrackerTypeOK'
  BY <1>2 DEF TrackerTypeOK, mailVars, ScanSteps
<1>4. /\ ClockRuns' /\ Present' = Present /\ UidNext' = UidNext
      /\ \A u \in Present : inbox[u] \in Due' => inbox[u] \in Due
  BY <1>3, MailboxStays
<1>5. CheckpointInMailbox'
  BY <1>1, <1>2, <1>4 DEF CheckpointInMailbox, mailVars
<1>6. pc' \notin Batches /\ todo' = {}
  BY DEF Batches
<1>7. BatchInMailbox' /\ BatchCovers'
  BY <1>6 DEF BatchInMailbox, BatchCovers
<1>8. NothingSkipped'
  <2> SUFFICES ASSUME NEW u \in Present, Passed(u)', inbox[u] \in Due PROVE FALSE
    BY <1>3, <1>4, NothingDuePassedNext DEF mailVars
  <2>1. ~Passed(u)
    BY NothingDuePassed
  <2>2. u \in Nat /\ cursor.forward \in Nat
    BY <1>1, PresentMail DEF Cursors
  <2>3. cursor.forward + 1 <= u /\ u <= upto
    BY <1>1, <1>2, <2>1, <2>2 DEF Passed, mailVars
  <2> QED BY <2>3 DEF BatchCovers, FirstOfBatch, Batches
<1> QED BY <1>3, <1>4, <1>5, <1>7, <1>8

LEMMA AdvanceCatchupInv == TrackerInv /\ AdvanceCatchupUID => TrackerInv'
<1> SUFFICES ASSUME TrackerInv, AdvanceCatchupUID PROVE TrackerInv'
  OBVIOUS
<1> USE DEF TrackerInv, AdvanceCatchupUID, EndScan, ackVars, rowVars
<1>1. /\ cursor \in Cursors /\ upto \in Nat /\ cursor.validity = validity
      /\ cursor.next \in Nat /\ cursor.ceiling \in Nat /\ cursor.complete \in BOOLEAN
  BY DEF TrackerTypeOK, CheckpointInMailbox, Cursors
<1> DEFINE overtaken == upto + 1 > cursor.next /\ upto + 1 >= cursor.ceiling
<1>2. /\ cursor' \in Cursors
      /\ cursor'.validity = cursor.validity /\ cursor'.forward = cursor.forward
      /\ cursor'.ceiling = cursor.ceiling
      /\ cursor'.next = IF upto + 1 > cursor.next THEN upto + 1 ELSE cursor.next
      /\ cursor'.complete <=> (cursor.complete \/ overtaken)
  <2>1. CASE upto + 1 > cursor.next
    <3> DEFINE done == cursor.complete \/ upto + 1 >= cursor.ceiling
    <3>1. cursor' = [cursor EXCEPT !.next = upto + 1, !.complete = done]
      BY <2>1
    <3>2. done \in BOOLEAN /\ upto + 1 \in Nat
      BY <1>1
    <3> HIDE DEF done, AdvanceCatchupUID
    <3>3. /\ cursor' \in Cursors
          /\ cursor'.validity = cursor.validity /\ cursor'.forward = cursor.forward
          /\ cursor'.ceiling = cursor.ceiling /\ cursor'.next = upto + 1
          /\ cursor'.complete = done
      BY <1>1, <3>1, <3>2 DEF Cursors
    <3>4. cursor'.complete <=> (cursor.complete \/ overtaken)
      BY <2>1, <3>3, Zenon DEF done
    <3>5. cursor'.next = IF upto + 1 > cursor.next THEN upto + 1 ELSE cursor.next
      BY <2>1, <3>3
    <3> QED BY <3>3, <3>4, <3>5, Zenon
  <2>2. CASE ~(upto + 1 > cursor.next)
    <3>1. cursor' = cursor
      BY <2>2
    <3> QED BY <1>1, <2>2, <3>1
  <2> QED BY <2>1, <2>2
<1>3. TrackerTypeOK'
  BY <1>2 DEF TrackerTypeOK, mailVars, ScanSteps, NothingSeen
<1>4. /\ ClockRuns' /\ Present' = Present /\ UidNext' = UidNext
      /\ \A u \in Present : inbox[u] \in Due' => inbox[u] \in Due
  BY <1>3, MailboxStays
<1>5. CheckpointInMailbox'
  BY <1>1, <1>2, <1>4 DEF CheckpointInMailbox, mailVars
<1>6. pc' \notin Batches /\ todo' = {}
  BY DEF Batches
<1>7. BatchInMailbox' /\ BatchCovers'
  BY <1>6 DEF BatchInMailbox, BatchCovers
<1>8. NothingSkipped'
  <2> SUFFICES ASSUME NEW u \in Present, Passed(u)', inbox[u] \in Due PROVE FALSE
    BY <1>3, <1>4, NothingDuePassedNext DEF mailVars
  <2>1. ~Passed(u)
    BY NothingDuePassed
  <2>2. u \in Nat
    BY PresentMail
  <2>3. /\ u <= cursor.forward /\ ~cursor.complete
        /\ cursor.next <= u /\ u < cursor.ceiling
    BY <1>1, <1>2, <2>1 DEF Passed, mailVars
  <2>4. cursor'.complete \/ u < cursor'.next
    BY <1>1, <1>2, <2>2, <2>3 DEF Passed
  <2>5. u <= upto
    BY <1>1, <1>2, <2>2, <2>3, <2>4
  <2> QED BY <2>3, <2>5 DEF BatchCovers, FirstOfBatch, Batches
<1> QED BY <1>3, <1>4, <1>5, <1>7, <1>8

----------------------------------------------------------------------------
LEMMA StutterInv == TrackerInv /\ UNCHANGED vars => TrackerInv'
<1> SUFFICES ASSUME TrackerInv, UNCHANGED vars PROVE TrackerInv'
  OBVIOUS
<1>1. TrackerTypeOK' /\ UNCHANGED <<mailVars, ackVars, cursor, scanVars>> /\ row' = row
  BY DEF vars, mailVars, rowVars, ackVars, scanVars, TrackerInv, TrackerTypeOK
<1> QED BY <1>1, RowsInv

LEMMA OtherWritersInv == TrackerInv /\ (Apply \/ HandOff \/ Confirm) => TrackerInv'
<1>1. "APPLIED" \in Statuses /\ "HANDED_OFF" \in Statuses
  BY DEF Statuses, Trackable
<1> QED BY <1>1, OpenRowInv DEF Apply, HandOff, Confirm

LEMMA TrackerInvIsKept == TrackerInv /\ [Next]_vars => TrackerInv'
<1> SUFFICES ASSUME TrackerInv, [Next]_vars PROVE TrackerInv'
  OBVIOUS
<1>1. CASE Scan
  <2>1. CASE StartScan           BY <2>1, StartScanInv
  <2>2. CASE FetchForward        BY <2>2, FetchForwardInv
  <2>3. CASE NoForward           BY <2>3, NoForwardInv
  <2>4. CASE FetchCatchup        BY <2>4, FetchCatchupInv
  <2>5. CASE NoCatchup           BY <2>5, EndScanInv DEF NoCatchup
  <2>6. CASE SkipMessage         BY <2>6, SkipMessageInv
  <2>7. CASE MarkEmailProcessed  BY <2>7, MarkEmailProcessedInv
  <2>8. CASE updateDBWithTrackerResult BY <2>8, updateDBInv
  <2>9. CASE AdvanceForwardUID   BY <2>9, AdvanceForwardInv
  <2>10. CASE AdvanceCatchupUID  BY <2>10, AdvanceCatchupInv
  <2> QED BY <1>1, <2>1, <2>2, <2>3, <2>4, <2>5, <2>6, <2>7, <2>8, <2>9, <2>10 DEF Scan
<1>2. CASE Fail           BY <1>2, EndScanInv DEF Fail
<1>3. CASE StopBatch      BY <1>3, StopBatchInv
<1>4. CASE Deliver        BY <1>4, DeliverInv
<1>5. CASE Delete         BY <1>5, DeleteInv
<1>6. CASE Renumber       BY <1>6, RenumberInv
<1>7. CASE Apply \/ HandOff \/ Confirm  BY <1>7, OtherWritersInv
<1>8. CASE UNCHANGED vars BY <1>8, StutterInv
<1> QED BY <1>1, <1>2, <1>3, <1>4, <1>5, <1>6, <1>7, <1>8 DEF Next, Others

LEMMA TrackerInvAlways == Spec => []TrackerInv
BY InitInv, TrackerInvIsKept, PTL DEF Spec

(* The state of the tracker is what the code can hold: a checkpoint is a   *)
(* row of tracker_cursor, a batch is messages of the mailbox.              *)
THEOREM TrackerTypeCorrect == Spec => []TrackerTypeOK
BY TrackerInvAlways, PTL DEF TrackerInv

(* The checkpoint passes over no message that may announce an outcome and  *)
(* is not acknowledged, for any mail and any batch size, whatever calls    *)
(* fail (StartTracker, processMessages).                                   *)
THEOREM NoMessageSkipped == Spec => []NothingSkipped
BY TrackerInvAlways, PTL DEF TrackerInv

----------------------------------------------------------------------------
(* One message moves one application.                                      *)

MoverInv ==
  /\ movedBy \in [Postings -> Mails \union {None}]
  /\ MovedIsProcessed
  /\ AcknowledgedMovesOne

LEMMA MoverInvIsKept == TrackerTypeOK /\ MoverInv /\ [Next]_vars => MoverInv'
<1> SUFFICES ASSUME TrackerTypeOK, MoverInv, [Next]_vars PROVE MoverInv'
  OBVIOUS
<1> USE DEF MoverInv
<1>1. CASE updateDBWithTrackerResult
  <2> DEFINE mail == Current[2]
  <2>1. /\ mail \in Mails /\ Acknowledge(mail) /\ unchecked \subseteq unchecked'
        /\ mail \in processed => mail \in unchecked'
    BY <1>1, CurrentMail DEF updateDBWithTrackerResult, ToHandle, AtMessage
  <2>2. CASE UNCHANGED rowVars
    BY <2>1, <2>2 DEF rowVars, MovedIsProcessed, AcknowledgedMovesOne, Acknowledge
  <2>3. CASE \E p \in Open : applyOutcome(p, mail)
    <3>1. PICK p \in Postings : movedBy' = [movedBy EXCEPT ![p] = mail]
      BY <2>3 DEF applyOutcome, Open
    <3> HIDE DEF mail
    <3>2. /\ movedBy' \in [Postings -> Mails \union {None}] /\ movedBy'[p] = mail
          /\ \A q \in Postings : q # p => movedBy'[q] = movedBy[q]
      BY <2>1, <3>1
    <3>3. /\ processed \subseteq processed'
          /\ Content[mail].id => mail \in processed'
      BY <2>1 DEF Acknowledge
    <3>4. MovedIsProcessed'
      BY <3>2, <3>3 DEF MovedIsProcessed
    <3>5. \A q \in Postings :
            movedBy[q] = mail /\ mail # None /\ Content[mail].id => mail \in unchecked'
      BY <2>1 DEF MovedIsProcessed
    <3>6. AcknowledgedMovesOne'
      BY <2>1, <3>2, <3>5 DEF AcknowledgedMovesOne
    <3> QED BY <3>2, <3>4, <3>6
  <2> QED BY <1>1, <2>2, <2>3, OutcomeWritten
<1>2. CASE ~updateDBWithTrackerResult
  <2>1. /\ movedBy' = movedBy /\ processed \subseteq processed'
        /\ unchecked \subseteq unchecked'
    <3>1. CASE Scan
      BY <1>2, <3>1 DEF Scan, rowVars, ackVars, Acknowledge, EndScan, fetchUIDRange,
           StartScan, FetchForward, NoForward, FetchCatchup, NoCatchup, SkipMessage,
           MarkEmailProcessed, ToHandle, AdvanceForwardUID, AdvanceCatchupUID
    <3>2. CASE Fail \/ StopBatch \/ UNCHANGED vars
      BY <3>2 DEF Fail, StopBatch, vars, rowVars, ackVars
    <3>3. CASE Others
      BY <3>3 DEF Others, Deliver, Delete, Renumber, Apply, HandOff, Confirm, OpenRow,
           rowVars, ackVars
    <3> QED BY <3>1, <3>2, <3>3 DEF Next
  <2> QED BY <2>1 DEF MovedIsProcessed, AcknowledgedMovesOne
<1> QED BY <1>1, <1>2

(* An acknowledged message moves one application, for any mail and any     *)
(* failures but that of its own check: the outcome and the acknowledgement *)
(* are written together (updateDBWithTrackerResult), and a message that is *)
(* acknowledged is taken up again only when the check failed for it        *)
(* (WasEmailProcessed).                                                    *)
THEOREM MessageMovesOne == Spec => []AcknowledgedMovesOne
<1>1. Init => MoverInv
  BY DEF Init, MoverInv, MovedIsProcessed, AcknowledgedMovesOne
<1>2. Spec => []MoverInv
  BY <1>1, TrackerTypeCorrect, MoverInvIsKept, PTL DEF Spec
<1> QED BY <1>2, PTL DEF MoverInv
=============================================================================
