--------------------------- MODULE DiscoveryProofs ---------------------------
(***************************************************************************)
(* What is proved of Discovery, for any sources, postings, answers and     *)
(* failures: the cap of a source holds up to what its workers took out.    *)
(***************************************************************************)
EXTENDS Discovery, FiniteSetTheorems, TLAPS

(* The rows that wait for a worker or are with one.                        *)
Waiting == {"DISCOVERED", "PROCESSING"}
Queued(s) == {p \in Postings : row[p] \in Waiting /\ source[p] = s}
Processing == {p \in Postings : row[p] = "PROCESSING"}

TableOK ==
  /\ row \in [Postings -> Statuses] /\ source \in [Postings -> Sources \union {"none"}]
  /\ found \in [Inquiries -> SUBSET (Postings \X Sources)]

(* The cap is checked against the rows that wait; that it also bounds the  *)
(* rows a worker may give back rests on the number of workers.             *)
QueueInv ==
  /\ TableOK
  /\ IsFiniteSet({p \in Postings : row[p] # "none"})
  /\ Cardinality(Processing) <= Workers
  /\ PendingBounded

----------------------------------------------------------------------------
LEMMA QueuedBoth ==
  \A s \in Sources : /\ Pending(s) \union Held(s) = Queued(s)
                     /\ (Pending(s) \union Held(s))' = Queued(s)'
BY DEF Pending, Held, Queued, Waiting

(* Every set of rows in the table is finite.                               *)
LEMMA RowsFinite ==
  ASSUME QueueInv, NEW S, S \subseteq {p \in Postings : row[p] # "none"}
  PROVE  IsFiniteSet(S) /\ Cardinality(S) \in Nat
BY FS_Subset, FS_CardinalityType DEF QueueInv

LEMMA SmallerSet ==
  ASSUME QueueInv, NEW S, S \subseteq {p \in Postings : row[p] # "none"}, NEW T \in SUBSET S
  PROVE  Cardinality(T) <= Cardinality(S) /\ Cardinality(T) \in Nat
<1>1. IsFiniteSet(S)
  BY RowsFinite
<1> QED BY <1>1, FS_Subset, FS_CardinalityType

LEMMA BoundsAre == Cap \in Nat \ {0} /\ Workers \in Nat \ {0}
BY DiscoveryAssumption

(* A step after which no source has a row in the queue it had not before.  *)
LEMMA QueueShrinks ==
  ASSUME QueueInv, TableOK',
         \A p \in Postings : row'[p] # "none" => row[p] # "none",
         \A p \in Postings : row'[p] \in Waiting => row[p] \in Waiting /\ source'[p] = source[p],
         Cardinality(Processing') <= Workers
  PROVE  QueueInv'
<1>1. IsFiniteSet({p \in Postings : row'[p] # "none"})
  BY RowsFinite
<1>2. ASSUME NEW s \in Sources
      PROVE  Cardinality(Queued(s)') <= Cap + Workers
  <2>1. Queued(s)' \subseteq Queued(s) /\ Queued(s) \subseteq {p \in Postings : row[p] # "none"}
    BY DEF Queued, Waiting
  <2>2. Cardinality(Queued(s)') <= Cardinality(Queued(s)) /\ Cardinality(Queued(s)') \in Nat
        /\ Cardinality(Queued(s)) \in Nat
    BY <2>1, SmallerSet, RowsFinite
  <2>3. Cardinality(Queued(s)) <= Cap + Workers
    BY QueuedBoth DEF QueueInv, PendingBounded
  <2> QED BY <2>2, <2>3, BoundsAre
<1>3. PendingBounded'
  BY <1>2, QueuedBoth DEF PendingBounded
<1> QED BY <1>1, <1>3 DEF QueueInv

(* A posting is let into the queue of a source that has room: with what    *)
(* the workers hold, the source is at most one over the sum.               *)
LEMMA AddKeepsQueue ==
  ASSUME QueueInv, TableOK', NEW p \in Postings, NEW s \in Sources, AddToFunnel(p, s)
  PROVE  QueueInv'
<1>1. CASE UNCHANGED rowVars
  <2>1. row' = row /\ source' = source
    BY <1>1 DEF rowVars
  <2>2. Processing' = Processing
    BY <2>1 DEF Processing
  <2> QED BY <2>1, <2>2, QueueShrinks DEF QueueInv
<1>2. CASE row[p] = "none" /\ source' = [source EXCEPT ![p] = s]
           /\ row' = [row EXCEPT ![p] = "SKIPPED"]
  <2>1. \A k \in Postings : row'[k] = (IF k = p THEN "SKIPPED" ELSE row[k])
                           /\ source'[k] = (IF k = p THEN s ELSE source[k])
    BY <1>2 DEF QueueInv, TableOK
  <2>2. Processing' = Processing
    BY <1>2, <2>1 DEF Processing
  <2>3. IsFiniteSet({k \in Postings : row'[k] # "none"})
    <3>1. {k \in Postings : row'[k] # "none"} = {k \in Postings : row[k] # "none"} \union {p}
      BY <1>2, <2>1
    <3> QED BY <3>1, FS_AddElement DEF QueueInv
  <2>4. \A t \in Sources : Queued(t)' = Queued(t)
    BY <1>2, <2>1 DEF Queued, Waiting
  <2>5. PendingBounded'
    BY <2>4, QueuedBoth DEF QueueInv, PendingBounded
  <2> QED BY <2>2, <2>3, <2>5 DEF QueueInv
<1>3. CASE row[p] = "none" /\ source' = [source EXCEPT ![p] = s]
           /\ row' = [row EXCEPT ![p] = "DISCOVERED"] /\ ~(Cardinality(Pending(s)) >= Cap)
  <2>1. \A k \in Postings : row'[k] = (IF k = p THEN "DISCOVERED" ELSE row[k])
                           /\ source'[k] = (IF k = p THEN s ELSE source[k])
    BY <1>3 DEF QueueInv, TableOK
  <2>2. Processing' = Processing
    BY <1>3, <2>1 DEF Processing
  <2>3. IsFiniteSet({k \in Postings : row'[k] # "none"})
    <3>1. {k \in Postings : row'[k] # "none"} = {k \in Postings : row[k] # "none"} \union {p}
      BY <1>3, <2>1
    <3> QED BY <3>1, FS_AddElement DEF QueueInv
  <2>4. \A t \in Sources \ {s} : Queued(t)' = Queued(t)
    BY <1>3, <2>1 DEF Queued, Waiting
  <2>5. Queued(s)' = Queued(s) \union {p} /\ p \notin Queued(s)
    BY <1>3, <2>1 DEF Queued, Waiting
  <2>6. Cardinality(Queued(s)) <= Cap - 1 + Workers
    <3>1. /\ IsFiniteSet(Pending(s)) /\ Cardinality(Pending(s)) \in Nat
          /\ IsFiniteSet(Held(s)) /\ Cardinality(Held(s)) \in Nat
      BY RowsFinite DEF Pending, Held
    <3>2. Cardinality(Held(s)) <= Cardinality(Processing) /\ Cardinality(Processing) \in Nat
      BY SmallerSet, RowsFinite DEF Held, Processing
    <3>3. Pending(s) \cap Held(s) = {}
      BY DEF Pending, Held
    <3>4. Cardinality(Queued(s)) = Cardinality(Pending(s)) + Cardinality(Held(s))
      <4>1. Cardinality(Pending(s) \union Held(s))
              = Cardinality(Pending(s)) + Cardinality(Held(s)) - Cardinality(Pending(s) \cap Held(s))
        BY <3>1, FS_Union
      <4>2. Cardinality(Pending(s) \cap Held(s)) = 0
        BY <3>3, FS_EmptySet
      <4> QED BY <3>1, <4>1, <4>2, QueuedBoth
    <3>5. Cardinality(Pending(s)) <= Cap - 1
      BY <1>3, <3>1, BoundsAre
    <3> QED BY <3>1, <3>2, <3>4, <3>5, BoundsAre DEF QueueInv
  <2>7. Cardinality(Queued(s)') = Cardinality(Queued(s)) + 1 /\ Cardinality(Queued(s)) \in Nat
    <3>1. IsFiniteSet(Queued(s)) /\ Cardinality(Queued(s)) \in Nat
      BY RowsFinite DEF Queued, Waiting
    <3> QED BY <2>5, <3>1, FS_AddElement
  <2>8. Cardinality(Queued(s)') <= Cap + Workers
    BY <2>6, <2>7, BoundsAre
  <2>9. PendingBounded'
    BY <2>4, <2>8, QueuedBoth DEF QueueInv, PendingBounded
  <2> QED BY <2>2, <2>3, <2>9 DEF QueueInv
<1> QED BY <1>1, <1>2, <1>3 DEF AddToFunnel

----------------------------------------------------------------------------
(* The steps of a refresh change the table through AddToFunnel only.       *)

LEMMA RowsKept ==
  ASSUME QueueInv, TableOK', row' = row, source' = source
  PROVE  QueueInv'
<1>1. Processing' = Processing
  BY DEF Processing
<1> QED BY <1>1, QueueShrinks DEF QueueInv

LEMMA FoundKept ==
  ASSUME TableOK, NEW q \in Inquiries, NEW postings \in SUBSET Postings, NEW s \in Sources,
         Finds(q, postings, s), UNCHANGED rowVars
  PROVE  TableOK'
BY DEF Finds, TableOK, rowVars

LEMMA RefreshKeepsQueue ==
  ASSUME QueueInv, NEW q \in Inquiries, Refresh(q)
  PROVE  QueueInv'
<1>1. TableOK
  BY DEF QueueInv
<1> USE DEF queueVars, rowVars
<1>2. CASE Take(q) \/ Retries(q) \/ Fails(q) \/ SerpApiErrs(q) \/ AskYahoo(q)
           \/ CircuitOpenSkip(q) \/ YahooFails(q) \/ YahooRefuses(q) \/ Identify(q)
  <2>1. row' = row /\ source' = source /\ found' = found
    BY <1>2 DEF Take, Retries, Fails, SerpApiErrs, AskYahoo, CircuitOpenSkip, YahooFails,
         YahooRefuses, Identify, UpdateFunnelIdentity
  <2> QED BY <1>1, <2>1, RowsKept DEF TableOK
<1>3. CASE Answers(q)
  <2>1. Admitted[q] \subseteq Postings /\ Channel[q] \in Sources
    BY DiscoveryAssumption DEF Admitted
  <2>2. Finds(q, Admitted[q], Channel[q]) /\ UNCHANGED rowVars
    BY <1>3 DEF Answers
  <2>3. TableOK'
    BY <1>1, <2>1, <2>2, FoundKept
  <2> QED BY <2>2, <2>3, RowsKept
<1>4. CASE YahooAnswers(q)
  <2>1. ValidResults[q] \subseteq Postings /\ "yahoo" \in Sources
    BY DiscoveryAssumption DEF ValidResults, Sources
  <2>2. Finds(q, ValidResults[q], "yahoo") /\ UNCHANGED rowVars
    BY <1>4 DEF YahooAnswers
  <2>3. TableOK'
    BY <1>1, <2>1, <2>2, FoundKept
  <2> QED BY <2>2, <2>3, RowsKept
<1>5. CASE \E f \in found[q] : Add(q, f[1], f[2])
  <2>1. PICK f \in found[q] : Add(q, f[1], f[2])
    BY <1>5
  <2>2. f[1] \in Postings /\ f[2] \in Sources
    BY <1>1, <2>1 DEF TableOK
  <2>3. /\ AddToFunnel(f[1], f[2])
        /\ found' = [found EXCEPT ![q] = found[q] \ {<<f[1], f[2]>>}]
    BY <2>1 DEF Add
  <2>4. row' \in [Postings -> Statuses] /\ source' \in [Postings -> Sources \union {"none"}]
    BY <1>1, <2>2, <2>3 DEF AddToFunnel, TableOK, Statuses
  <2>5. TableOK'
    BY <1>1, <2>3, <2>4 DEF TableOK
  <2> QED BY <2>2, <2>3, <2>5, AddKeepsQueue
<1> QED BY <1>2, <1>3, <1>4, <1>5 DEF Refresh

----------------------------------------------------------------------------
(* The workers, and the end of the agent.                                  *)

LEMMA ClaimKeepsQueue ==
  ASSUME QueueInv, NEW p \in Postings, Claim(p)
  PROVE  QueueInv'
<1>1. /\ row[p] = "DISCOVERED" /\ row' = [row EXCEPT ![p] = "PROCESSING"]
      /\ source' = source /\ found' = found
      /\ Cardinality(Processing) < Workers
  BY DEF Claim, Worked, inquiryVars, Processing
<1>2. TableOK'
  BY <1>1 DEF QueueInv, TableOK, Statuses
<1>3. \A k \in Postings : row'[k] = IF k = p THEN "PROCESSING" ELSE row[k]
  BY <1>1 DEF QueueInv, TableOK
<1>4. Cardinality(Processing') <= Workers
  <2>1. Processing' = Processing \union {p} /\ p \notin Processing
    BY <1>1, <1>3 DEF Processing
  <2>2. IsFiniteSet(Processing) /\ Cardinality(Processing) \in Nat
    BY RowsFinite DEF Processing
  <2>3. Cardinality(Processing') = Cardinality(Processing) + 1
    BY <2>1, <2>2, FS_AddElement
  <2> QED BY <1>1, <2>2, <2>3, BoundsAre
<1> QED BY <1>1, <1>2, <1>3, <1>4, QueueShrinks DEF Waiting

LEMMA ReleaseKeepsQueue ==
  ASSUME QueueInv, NEW p \in Postings, GiveBack(p) \/ Screen(p)
  PROVE  QueueInv'
<1>1. PICK status \in {"DISCOVERED", "scored", "SKIPPED"} :
        /\ row[p] = "PROCESSING" /\ row' = [row EXCEPT ![p] = status]
        /\ source' = source /\ found' = found
  BY DEF GiveBack, Screen, Worked, inquiryVars
<1>2. TableOK'
  BY <1>1 DEF QueueInv, TableOK, Statuses
<1>3. \A k \in Postings : row'[k] = IF k = p THEN status ELSE row[k]
  BY <1>1 DEF QueueInv, TableOK
<1>4. Processing' \subseteq Processing
  BY <1>1, <1>3 DEF Processing
<1>5. Cardinality(Processing') <= Workers
  <2>1. Processing \subseteq {k \in Postings : row[k] # "none"}
    BY DEF Processing
  <2>2. /\ Cardinality(Processing') <= Cardinality(Processing)
        /\ Cardinality(Processing') \in Nat /\ Cardinality(Processing) \in Nat
    BY <1>4, <2>1, SmallerSet, RowsFinite
  <2> QED BY <2>2, BoundsAre DEF QueueInv
<1> QED BY <1>1, <1>2, <1>3, <1>5, QueueShrinks DEF Waiting

LEMMA FaultKeepsQueue ==
  ASSUME QueueInv, Fault
  PROVE  QueueInv'
<1>1. TableOK
  BY DEF QueueInv
<1>2. CASE \E q \in Inquiries : AddFails(q) \/ IdentifyFails(q)
  <2>1. row' = row /\ source' = source
    BY <1>2 DEF AddFails, IdentifyFails, queueVars, rowVars
  <2>2. TableOK'
    BY <1>1, <1>2, <2>1 DEF AddFails, IdentifyFails, TableOK
  <2> QED BY <2>1, <2>2, RowsKept
<1>3. CASE Restart
  <2>1. /\ \A k \in Postings : row'[k] = IF row[k] = "PROCESSING" THEN "DISCOVERED" ELSE row[k]
        /\ source' = source /\ TableOK'
    BY <1>1, <1>3 DEF Restart, TableOK, Statuses
  <2>2. Processing' = {}
    BY <2>1 DEF Processing
  <2>3. Cardinality(Processing') <= Workers
    BY <2>2, FS_EmptySet, BoundsAre
  <2> QED BY <2>1, <2>3, QueueShrinks DEF Waiting
<1> QED BY <1>2, <1>3 DEF Fault

----------------------------------------------------------------------------
LEMMA InitQueue == Init => QueueInv
<1> SUFFICES ASSUME Init PROVE QueueInv
  OBVIOUS
<1>1. /\ \A p \in DOMAIN Recorded : /\ p \in Postings
                                   /\ Recorded[p].row \in Statuses \ {"none"}
                                   /\ Recorded[p].source \in Sources
  BY DiscoveryAssumption, RecordedAssumption
<1>2. \A p \in Postings :
        /\ row[p] = IF p \in DOMAIN Recorded THEN Recorded[p].row ELSE "none"
        /\ source[p] = IF p \in DOMAIN Recorded THEN Recorded[p].source ELSE "none"
  BY DEF Init
<1>3. TableOK
  BY <1>1 DEF Init, Quiet, TableOK, Statuses
<1>4. {p \in Postings : row[p] # "none"} = DOMAIN Recorded
  BY <1>1, <1>2
<1>5. Processing = {p \in DOMAIN Recorded : Recorded[p].row = "PROCESSING"}
  BY <1>1, <1>2 DEF Processing
<1>6. ASSUME NEW s \in Sources
      PROVE  Queued(s) = { p \in DOMAIN Recorded :
                             /\ Recorded[p].row \in {"DISCOVERED", "PROCESSING"}
                             /\ Recorded[p].source = s }
  BY <1>1, <1>2 DEF Queued, Waiting
<1>7. PendingBounded
  BY <1>6, QueuedBoth, RecordedAssumption DEF PendingBounded
<1> QED BY <1>3, <1>4, <1>5, <1>7, RecordedAssumption DEF QueueInv

LEMMA QueueInvIsKept == QueueInv /\ [Next]_vars => QueueInv'
<1> SUFFICES ASSUME QueueInv, [Next]_vars PROVE QueueInv'
  OBVIOUS
<1>1. CASE \E q \in Inquiries : Refresh(q)
  BY <1>1, RefreshKeepsQueue
<1>2. CASE \E p \in Postings : Claim(p) \/ GiveBack(p) \/ Screen(p)
  BY <1>2, ClaimKeepsQueue, ReleaseKeepsQueue
<1>3. CASE Fault
  BY <1>3, FaultKeepsQueue
<1>4. CASE StartRefresh \/ NextKind \/ Tick \/ Calm \/ UNCHANGED vars
  <2>1. row' = row /\ source' = source /\ found' = found
    BY <1>4 DEF StartRefresh, NextKind, Tick, Calm, vars, inquiryVars, queueVars, rowVars
  <2> QED BY <2>1, RowsKept DEF QueueInv, TableOK
<1> QED BY <1>1, <1>2, <1>3, <1>4 DEF Next, Step

(* No source has more postings in the queue than its cap and what its      *)
(* workers took out, for any number of sources, workers and failures       *)
(* (AddToFunnel, ClaimForProcessing, the reaper).                          *)
THEOREM SourceBounded == Spec => []PendingBounded
<1>1. Spec => []QueueInv
  BY InitQueue, QueueInvIsKept, PTL DEF Spec
<1> QED BY <1>1, PTL DEF QueueInv
=============================================================================
