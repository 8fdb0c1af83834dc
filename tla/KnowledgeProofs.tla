--------------------------- MODULE KnowledgeProofs ---------------------------
(***************************************************************************)
(* What is proved of ApplicationKnowledge, for any questions, requests,    *)
(* profiles and scopes: what a look through the queue reports, and that    *)
(* declarations are typed and bound only as the operator has said.         *)
(***************************************************************************)
EXTENDS ApplicationKnowledge, WellFoundedInduction, TLAPS

IsLooking(r) == request[r].step \in {"resolve", "mark"}

(* Every request is a record with a step, and keeps a fixed shape while it *)
(* looks through the queue.                                                *)
RequestShape(x) ==
  /\ "step" \in DOMAIN x
  /\ x.step = "resolve" => DOMAIN x = {"step", "facts", "todo"}
  /\ x.step = "mark" => DOMAIN x = {"step", "facts", "todo", "question", "autoFill"}

RequestsOK ==
  /\ request = [r \in Requests |-> request[r]]
  /\ \A r \in Requests : RequestShape(request[r])

(* What the vault fills, for a reader of the profile the request has read. *)
Fills(r, q) == Concludes(q, request[r].facts).autoFill

(* While a request looks at the queue undisturbed, nothing that was found  *)
(* before is about to be written.                                          *)
FindingsHold ==
  undisturbed # {} =>
    \A x \in Requests : request[x].step = "mark" =>
      request[x].autoFill = Fills(x, request[x].question)

IsToLookAt(r, q) ==
  q \in request[r].todo \/ (request[r].step = "mark" /\ q = request[r].question)

(* What it has left behind it is as it found it.                           *)
LookedAtIsCurrent ==
  \A r \in undisturbed :
    /\ r \in Requests /\ IsLooking(r)
    /\ \A q \in Open : IsToLookAt(r, q) \/ (q \in fillable <=> Fills(r, q))

LookInv == pending \subseteq Questions /\ RequestsOK /\ FindingsHold /\ LookedAtIsCurrent

----------------------------------------------------------------------------
(* Nothing the vault concludes and no open question changes in a step that *)
(* leaves a look undisturbed.                                              *)
LEMMA NothingDisturbed ==
  ASSUME NEW r \in Requests, LooksAlone(r)
  PROVE  /\ Open' = Open
         /\ vault' = vault
         /\ pending' = pending
         /\ IsLooking(r)'
         /\ \/ r \in undisturbed
            \/ /\ request[r].step = "queue"
               /\ \A x \in Requests : request[x].step # "mark"
BY DEF LooksAlone, Open, IsLooking

(* A step that leaves the findings under way as they are, and adds such as *)
(* hold.                                                                   *)
LEMMA FindingsKept ==
  ASSUME LookInv, undisturbed' \subseteq {r \in Requests : LooksAlone(r)},
         \A x \in Requests : request'[x].step = "mark" =>
           \/ /\ request[x].step = "mark" /\ request'[x].facts = request[x].facts
              /\ request'[x].question = request[x].question
              /\ request'[x].autoFill = request[x].autoFill
           \/ request'[x].autoFill = Concludes(request'[x].question, request'[x].facts).autoFill
  PROVE  FindingsHold'
<1> SUFFICES ASSUME NEW r \in Requests, LooksAlone(r), NEW x \in Requests,
                    request'[x].step = "mark"
             PROVE  request'[x].autoFill
                      = Concludes(request'[x].question, request'[x].facts).autoFill
  BY NothingDisturbed DEF FindingsHold, Fills, Concludes
<1>1. CASE /\ request[x].step = "mark" /\ request'[x].facts = request[x].facts
           /\ request'[x].question = request[x].question
           /\ request'[x].autoFill = request[x].autoFill
  <2>1. undisturbed # {}
    BY <1>1, NothingDisturbed
  <2> QED BY <1>1, <2>1 DEF LookInv, FindingsHold, Fills
<1> QED BY <1>1

(* What was looked at stays current in a step that marks nothing and takes *)
(* nothing from what is still to be looked at.                             *)
LEMMA LookKept ==
  ASSUME LookInv, undisturbed' = {r \in Requests : LooksAlone(r)}, fillable' = fillable,
         \A r \in Requests : IsLooking(r)' /\ IsLooking(r) =>
           /\ request'[r].facts = request[r].facts
           /\ \A q : IsToLookAt(r, q) => IsToLookAt(r, q)',
         \A r \in Requests : IsLooking(r)' /\ request[r].step = "queue" =>
           \A q \in Open : IsToLookAt(r, q)'
  PROVE  LookedAtIsCurrent'
<1> SUFFICES ASSUME NEW r \in Requests, LooksAlone(r)
             PROVE  /\ IsLooking(r)'
                    /\ \A q \in Open :
                         IsToLookAt(r, q)' \/ (q \in fillable <=> Concludes(q, request'[r].facts).autoFill)
  BY NothingDisturbed DEF LookedAtIsCurrent, Fills, Concludes
<1>1. CASE r \in undisturbed
  BY <1>1, NothingDisturbed DEF LookInv, LookedAtIsCurrent, Fills
<1>2. CASE request[r].step = "queue"
  BY <1>2, NothingDisturbed
<1> QED BY <1>1, <1>2, NothingDisturbed

(* A request goes on, and the others stay where they are.                  *)
LEMMA BecomesShape ==
  ASSUME RequestsOK, NEW r \in Requests, NEW what, RequestShape(what), Becomes(r, what)
  PROVE  /\ RequestsOK'
         /\ request'[r] = what
         /\ \A x \in Requests \ {r} : request'[x] = request[x]
BY DEF Becomes, RequestsOK

----------------------------------------------------------------------------
(* The steps of a request that looks through the queue.                    *)

LEMMA OtherStep ==
  ASSUME LookInv, undisturbed' = {r \in Requests : LooksAlone(r)}, fillable' = fillable,
         NEW r \in Requests, NEW what, Becomes(r, what),
         "step" \in DOMAIN what, what.step \notin {"resolve", "mark"}
  PROVE  RequestsOK' /\ FindingsHold' /\ LookedAtIsCurrent'
<1>1. RequestShape(what)
  BY DEF RequestShape
<1>2. /\ RequestsOK' /\ request'[r] = what
      /\ \A x \in Requests \ {r} : request'[x] = request[x]
  BY <1>1, BecomesShape DEF LookInv
<1>3. FindingsHold'
  BY <1>2, FindingsKept
<1>4. LookedAtIsCurrent'
  BY <1>2, LookKept DEF IsLooking, IsToLookAt
<1> QED BY <1>2, <1>3, <1>4

LEMMA LookStarts ==
  ASSUME LookInv, undisturbed' = {r \in Requests : LooksAlone(r)},
         NEW r \in Requests, ReadQueue(r)
  PROVE  LookInv'
<1> DEFINE what == [step |-> "resolve", facts |-> request[r].facts, todo |-> Open]
<1>1. /\ request[r].step = "queue" /\ Becomes(r, what)
      /\ fillable' = fillable /\ pending' = pending
  BY DEF ReadQueue, QueueUnchanged
<1>2. what.step = "resolve" /\ what.todo = Open /\ RequestShape(what)
  BY DEF RequestShape
<1> HIDE DEF what
<1>3. /\ RequestsOK' /\ request'[r] = what
      /\ \A x \in Requests \ {r} : request'[x] = request[x]
  BY <1>1, <1>2, BecomesShape DEF LookInv
<1>4. FindingsHold'
  BY <1>2, <1>3, FindingsKept
<1>5. LookedAtIsCurrent'
  BY <1>1, <1>2, <1>3, LookKept DEF IsLooking, IsToLookAt
<1> QED BY <1>1, <1>3, <1>4, <1>5 DEF LookInv

LEMMA LookGoesOn ==
  ASSUME LookInv, undisturbed' = {r \in Requests : LooksAlone(r)},
         NEW r \in Requests, ResolveQueued(r)
  PROVE  LookInv'
<1> DEFINE facts == request[r].facts
<1>1. PICK q : Becomes(r, [step |-> "mark", facts |-> facts, todo |-> request[r].todo \ {q},
                           question |-> q, autoFill |-> Concludes(q, facts).autoFill])
  BY DEF ResolveQueued
<1> DEFINE what == [step |-> "mark", facts |-> facts, todo |-> request[r].todo \ {q},
                    question |-> q, autoFill |-> Concludes(q, facts).autoFill]
<1>2. request[r].step = "resolve" /\ fillable' = fillable /\ pending' = pending
  BY DEF ResolveQueued, QueueUnchanged
<1>3. /\ what.step = "mark" /\ what.todo = request[r].todo \ {q} /\ what.question = q
      /\ what.facts = facts
      /\ what.autoFill = Concludes(q, facts).autoFill /\ RequestShape(what)
  BY DEF RequestShape
<1>4. Becomes(r, what)
  BY <1>1
<1> HIDE DEF what
<1>5. /\ RequestsOK' /\ request'[r] = what
      /\ \A x \in Requests \ {r} : request'[x] = request[x]
  BY <1>3, <1>4, BecomesShape DEF LookInv
<1>6. FindingsHold'
  BY <1>3, <1>5, FindingsKept
<1>7. LookedAtIsCurrent'
  BY <1>2, <1>3, <1>5, LookKept DEF IsLooking, IsToLookAt
<1> QED BY <1>2, <1>5, <1>6, <1>7 DEF LookInv

(* What is marked is what the vault still concludes, so the question needs *)
(* no further look.                                                        *)
LEMMA LookMarks ==
  ASSUME LookInv, undisturbed' = {r \in Requests : LooksAlone(r)},
         NEW x \in Requests, SetQuestionResolution(x)
  PROVE  LookInv'
<1> DEFINE d == request[x]
           what == [step |-> "resolve", facts |-> d.facts, todo |-> d.todo]
<1>1. /\ d.step = "mark" /\ Becomes(x, what) /\ pending' = pending
      /\ fillable' = IF d.question \notin pending THEN fillable
                     ELSE IF d.autoFill THEN fillable \union {d.question}
                     ELSE fillable \ {d.question}
  BY DEF SetQuestionResolution
<1>2. /\ what.step = "resolve" /\ what.facts = d.facts /\ what.todo = d.todo
      /\ RequestShape(what)
  BY DEF RequestShape
<1> HIDE DEF what
<1>3. /\ RequestsOK' /\ request'[x] = what
      /\ \A y \in Requests \ {x} : request'[y] = request[y]
  BY <1>1, <1>2, BecomesShape DEF LookInv
<1>4. FindingsHold'
  BY <1>2, <1>3, FindingsKept
<1>5. LookedAtIsCurrent'
  <2> SUFFICES ASSUME NEW r \in Requests, LooksAlone(r), NEW q \in Open
               PROVE  IsToLookAt(r, q)' \/ (q \in fillable' <=> Fills(r, q))
    <3>1. ASSUME NEW r \in Requests, LooksAlone(r) PROVE request'[r].facts = request[r].facts
      BY <1>1, <1>2, <1>3, <3>1 DEF LooksAlone
    <3> QED BY <3>1, NothingDisturbed DEF LookedAtIsCurrent, Fills, Concludes
  <2>1. r \in undisturbed /\ q \in pending /\ d.facts = request[r].facts
    BY <1>1, <1>2, <1>3, NothingDisturbed DEF Open, LooksAlone
  <2>2. d.autoFill = Fills(r, d.question)
    BY <1>1, <2>1 DEF LookInv, FindingsHold, Fills
  <2>3. CASE q = d.question
    BY <1>1, <2>1, <2>2, <2>3
  <2>4. CASE q # d.question
    <3>1. q \in fillable' <=> q \in fillable
      BY <1>1, <2>4
    <3>2. IsToLookAt(r, q) => IsToLookAt(r, q)'
      BY <1>2, <1>3, <2>4 DEF IsToLookAt
    <3> QED BY <2>1, <3>1, <3>2 DEF LookInv, LookedAtIsCurrent
  <2> QED BY <2>3, <2>4
<1> QED BY <1>1, <1>3, <1>4, <1>5 DEF LookInv

(* A look is undisturbed by the form of a job being read again only where  *)
(* that was by a reader of the same profile, and left the questions of the *)
(* job as they were: all still open.                                       *)
LEMMA ReplaceKeepsLooks ==
  ASSUME LookInv, NEW j \in Jobs, NEW facts, Replace(j, facts),
         undisturbed' = {r \in Requests : LooksAlone(r) /\ request[r].facts = facts}
  PROVE  LookInv'
<1>1. /\ pending' = (pending \ Asked(j)) \union (Unfilled(Asked(j), facts) \ answered)
      /\ fillable' = fillable \ Asked(j)
  BY DEF Replace
<1>2. /\ request' = [r \in Requests |-> request'[r]]
      /\ \A r \in Requests :
           \/ request[r].step \notin {"resolve", "mark"} /\ request'[r] = request[r]
           \/ /\ request[r].step = "mark" /\ request[r].question \in Asked(j)
              /\ request'[r] = [step |-> "resolve", facts |-> request[r].facts,
                                 todo |-> request[r].todo \ Asked(j)]
           \/ /\ request[r].step \in {"resolve", "mark"}
              /\ ~(request[r].step = "mark" /\ request[r].question \in Asked(j))
              /\ request'[r] = [request[r] EXCEPT !.todo = request[r].todo \ Asked(j)]
  BY DEF Replace
<1>3. ASSUME NEW r \in Requests
      PROVE  /\ RequestShape(request'[r])
             /\ request'[r].step = "mark" =>
                  /\ request[r].step = "mark" /\ request'[r].facts = request[r].facts
                  /\ request'[r].question = request[r].question
                  /\ request'[r].autoFill = request[r].autoFill
             /\ IsLooking(r)' => IsLooking(r) /\ request'[r].facts = request[r].facts
             /\ IsLooking(r)' => \A q : IsToLookAt(r, q) => q \in Asked(j) \/ IsToLookAt(r, q)'
  <2>1. RequestShape(request[r])
    BY DEF LookInv, RequestsOK
  <2>2. CASE request[r].step \notin {"resolve", "mark"} /\ request'[r] = request[r]
    BY <2>1, <2>2 DEF IsLooking
  <2>3. CASE /\ request[r].step = "mark" /\ request[r].question \in Asked(j)
             /\ request'[r] = [step |-> "resolve", facts |-> request[r].facts,
                                todo |-> request[r].todo \ Asked(j)]
    BY <2>3 DEF RequestShape, IsLooking, IsToLookAt
  <2>4. CASE /\ request[r].step \in {"resolve", "mark"}
             /\ ~(request[r].step = "mark" /\ request[r].question \in Asked(j))
             /\ request'[r] = [request[r] EXCEPT !.todo = request[r].todo \ Asked(j)]
    BY <2>1, <2>4 DEF RequestShape, IsLooking, IsToLookAt
  <2> QED BY <1>2, <2>2, <2>3, <2>4
<1>4. RequestsOK'
  BY <1>2, <1>3 DEF RequestsOK
<1>5. FindingsHold'
  BY <1>3, FindingsKept
<1>6. LookedAtIsCurrent'
  <2> SUFFICES ASSUME NEW r \in Requests, LooksAlone(r), request[r].facts = facts, NEW q \in Open
               PROVE  IsToLookAt(r, q)' \/ (q \in fillable' <=> Fills(r, q))
    BY <1>3, NothingDisturbed DEF LookedAtIsCurrent, Fills, Concludes
  <2>1. r \in undisturbed /\ q \in pending /\ pending' = pending /\ IsLooking(r)'
    BY <1>3, NothingDisturbed DEF Open, IsLooking
  <2>2. CASE q \in Asked(j)
    BY <1>1, <2>1, <2>2 DEF Unfilled, Fills
  <2>3. CASE q \notin Asked(j)
    BY <1>1, <1>3, <2>1, <2>3 DEF LookInv, LookedAtIsCurrent
  <2> QED BY <2>2, <2>3
<1>7. pending' \subseteq Questions
  BY <1>1 DEF LookInv, Unfilled, Asked
<1> QED BY <1>4, <1>5, <1>6, <1>7 DEF LookInv

----------------------------------------------------------------------------
(* The other steps mark nothing.                                           *)

(* Steps of one request, none of which is part of a look.                  *)
LEMMA DecisionKeepsLooks ==
  ASSUME LookInv, undisturbed' = {r \in Requests : LooksAlone(r)}, NEW r \in Requests,
         \/ Approves(r) \/ SaveGroup(r) \/ CheckPhrasings(r) \/ BindPhrasings(r)
         \/ Reports(r) \/ openKnowledgeService(r) \/ CommitEdit(r)
         \/ \E row \in DOMAIN vault.row, reuse \in BOOLEAN : Edit(r, row, reuse)
         \/ \E facts \in Profiles : SaveProfile(r, facts)
  PROVE  LookInv'
<1>1. /\ fillable' = fillable /\ pending' = pending
      /\ \E what : /\ Becomes(r, what) /\ "step" \in DOMAIN what
                   /\ what.step \notin {"resolve", "mark"}
  <2> USE DEF QueueUnchanged, Idle, ToQueue
  <2>1. CASE Approves(r)
    BY <2>1 DEF Approves, LoadGroup
  <2>2. CASE SaveGroup(r)
    <3> DEFINE d == request[r]
               row == RowOf(QuestionOf[d.group].prompt, d.scope)
               check == [step |-> "check", row |-> row, same |-> d.same,
                         phrasings |-> PhrasingsOf[d.group], facts |-> d.facts]
               queue == ToQueue(d.facts)
    <3>1. Becomes(r, Idle) \/ Becomes(r, IF PhrasingsOf[d.group] # {} THEN check ELSE queue)
      BY <2>2 DEF SaveGroup, Saves
    <3>2. /\ "step" \in DOMAIN check /\ check.step = "check"
          /\ "step" \in DOMAIN queue /\ queue.step = "queue"
          /\ "step" \in DOMAIN Idle /\ Idle.step = "idle"
      OBVIOUS
    <3>3. fillable' = fillable /\ pending' = pending
      BY <2>2 DEF SaveGroup
    <3> HIDE DEF check, queue
    <3>4. Becomes(r, Idle) \/ Becomes(r, check) \/ Becomes(r, queue)
      BY <3>1
    <3> QED BY <3>2, <3>3, <3>4
  <2>3. CASE CheckPhrasings(r)
    <3>1. "step" \in DOMAIN request[r]
      BY DEF LookInv, RequestsOK, RequestShape
    <3> DEFINE bind == [request[r] EXCEPT !.step = "bind"]
               queue == ToQueue(request[r].facts)
    <3>2. /\ "step" \in DOMAIN bind /\ bind.step = "bind"
          /\ "step" \in DOMAIN queue /\ queue.step = "queue"
          /\ "step" \in DOMAIN Idle /\ Idle.step = "idle"
      BY <3>1
    <3>3. Becomes(r, bind) \/ Becomes(r, queue) \/ Becomes(r, Idle)
      BY <2>3 DEF CheckPhrasings
    <3>4. fillable' = fillable /\ pending' = pending
      BY <2>3 DEF CheckPhrasings
    <3> HIDE DEF bind, queue
    <3> QED BY <3>2, <3>3, <3>4
  <2>4. CASE BindPhrasings(r) \/ Reports(r) \/ openKnowledgeService(r) \/ CommitEdit(r)
    BY <2>4 DEF BindPhrasings, Reports, openKnowledgeService, CommitEdit
  <2>5. CASE \E row \in DOMAIN vault.row, reuse \in BOOLEAN : Edit(r, row, reuse)
    BY <2>5 DEF Edit
  <2>6. CASE \E facts \in Profiles : SaveProfile(r, facts)
    BY <2>6 DEF SaveProfile
  <2> QED BY <2>1, <2>2, <2>3, <2>4, <2>5, <2>6
<1> QED BY <1>1, OtherStep DEF LookInv

LEMMA ElsewhereKeepsLooks ==
  ASSUME LookInv, undisturbed' = {r \in Requests : LooksAlone(r)},
         request' = request, fillable' = fillable, pending' \subseteq pending
  PROVE  LookInv'
<1>1. RequestsOK'
  BY DEF LookInv, RequestsOK
<1>2. FindingsHold'
  BY FindingsKept
<1>3. LookedAtIsCurrent'
  BY LookKept DEF IsLooking, IsToLookAt
<1> QED BY <1>1, <1>2, <1>3 DEF LookInv

LEMMA RestartEndsLooks ==
  ASSUME LookInv, undisturbed' = {r \in Requests : LooksAlone(r)}, Restart
  PROVE  LookInv'
<1>1. /\ request' = [r \in Requests |-> Idle] /\ pending' = pending
      /\ Idle.step = "idle" /\ "step" \in DOMAIN Idle
  BY DEF Restart, Idle
<1>2. undisturbed' = {}
  BY <1>1 DEF LooksAlone
<1> QED BY <1>1, <1>2 DEF LookInv, RequestsOK, RequestShape, FindingsHold, LookedAtIsCurrent

----------------------------------------------------------------------------
LEMMA InitLook == KnowledgeInit => LookInv
BY DEF KnowledgeInit, LookInv, RequestsOK, RequestShape, FindingsHold, LookedAtIsCurrent, Idle

LEMMA LookInvIsKept == LookInv /\ [KnowledgeNext]_knowledgeVars => LookInv'
<1> SUFFICES ASSUME LookInv, [KnowledgeNext]_knowledgeVars PROVE LookInv'
  OBVIOUS
<1>1. CASE UNCHANGED knowledgeVars
  BY <1>1 DEF knowledgeVars, LookInv, RequestsOK, FindingsHold, LookedAtIsCurrent, IsLooking,
     IsToLookAt, Open, Fills, Concludes
<1>2. CASE \E facts \in profiles :
             /\ FormIsRead(facts)
             /\ undisturbed' = {r \in Requests : LooksAlone(r) /\ request[r].facts = facts}
  BY <1>2, ReplaceKeepsLooks DEF FormIsRead, Prepare, OpenForm
<1>3. CASE KnowledgeStep /\ undisturbed' = {r \in Requests : LooksAlone(r)}
  <2>0. undisturbed' = {r \in Requests : LooksAlone(r)}
    BY <1>3
  <2>2. CASE \E r \in Requests : ReadQueue(r) \/ ResolveQueued(r) \/ SetQuestionResolution(r)
    BY <2>0, <2>2, LookStarts, LookGoesOn, LookMarks
  <2>3. CASE \E r \in Requests :
               \/ Approves(r) \/ SaveGroup(r) \/ CheckPhrasings(r) \/ BindPhrasings(r)
               \/ Reports(r) \/ openKnowledgeService(r) \/ CommitEdit(r)
               \/ \E row \in DOMAIN vault.row, reuse \in BOOLEAN : Edit(r, row, reuse)
               \/ \E facts \in Profiles : SaveProfile(r, facts)
    BY <2>0, <2>3, DecisionKeepsLooks
  <2>4. CASE \/ \E j \in Jobs : CloseForm(j)
             \/ \E q \in Questions, scope \in Scopes, keep, box \in BOOLEAN :
                  Remember(q, scope, keep, box)
             \/ \E row \in DOMAIN vault.row : Withdraw(row)
    <3>1. request' = request /\ fillable' = fillable /\ pending' \subseteq pending
      BY <2>4 DEF CloseForm, Remember, Withdraw, QueueUnchanged
    <3> QED BY <2>0, <3>1, ElsewhereKeepsLooks
  <2>5. CASE Restart
    BY <2>0, <2>5, RestartEndsLooks
  <2> QED BY <1>3, <2>2, <2>3, <2>4, <2>5 DEF KnowledgeStep, Proceeds
<1> QED BY <1>1, <1>2, <1>3 DEF KnowledgeNext

(* Whatever other requests, browsers and preparation did before, and       *)
(* whatever profiles they have read: after a look through the queue that   *)
(* nothing disturbed, what is shown as filled without asking is what the   *)
(* vault fills for a reader of the request's own profile (ReEvaluate).     *)
THEOREM ReportHolds == KnowledgeSpec => []ReportIsAsRead
<1>1. LookInv => ReportIsAsRead
  BY DEF LookInv, LookedAtIsCurrent, ReportIsAsRead, IsToLookAt, Fills
<1> QED BY <1>1, InitLook, LookInvIsKept, PTL DEF KnowledgeSpec

----------------------------------------------------------------------------
(* Declarations: the data.                                                 *)

(* The keys a declaration is looked up by, and those its answer may be     *)
(* filed under.                                                            *)
DeclaredNames == {Normalize(p) : p \in UNION {AnsweredAs(q) : q \in Declarations}}
DeclaredKeys == {Normalize(p) : p \in UNION {FiledAs(q) : q \in Declarations}}

OneGroup(group) == group \in Groups /\ \A x, y \in group : GroupOf[x] = GroupOf[y]

LEMMA NamesAreKeys == DeclaredNames \subseteq DeclaredKeys
BY DEF DeclaredNames, DeclaredKeys, FiledAs

(* Only the words of a wording tell whether it is a declaration.           *)
LEMMA SameWordsAlike ==
  ASSUME NEW x, NEW y, Normalize(x.prompt) = Normalize(y.prompt), x.company = y.company
  PROVE  IsDeclaration(x) <=> IsDeclaration(y)
BY DEF IsDeclaration, Tokens

(* What is stored under the key of a declaration is stored as one.         *)
LEMMA FiledIsDeclaration ==
  ASSUME NEW w, w.company \in Employers, Normalize(w.prompt) \in DeclaredKeys
  PROVE  Classify(w) = "sensitive"
<1>1. PICK q \in Declarations : \E p \in FiledAs(q) : Normalize(w.prompt) = Normalize(p)
  BY DEF DeclaredKeys
<1> PICK p \in FiledAs(q) : Normalize(w.prompt) = Normalize(p)
  BY <1>1
<1>2. IsDeclaration([prompt |-> p, company |-> w.company])
  BY DEF Declarations
<1>3. IsDeclaration(w)
  BY <1>2, SameWordsAlike
<1> QED BY <1>3 DEF Classify

LEMMA InboxIsGrouped ==
  ASSUME LookInv, NEW group \in Inbox
  PROVE  OneGroup(group)
BY DEF LookInv, Inbox, Unfilled, Open, OneGroup, Groups

LEMMA LeastNat ==
  ASSUME NEW S \in SUBSET Nat, S # {}
  PROVE  \E n \in S : \A m \in S : n <= m
<1>1. PICK n \in S : \A m \in S : ~(<<m, n>> \in OpToRel(<, Nat))
  BY NatLessThanWellFounded, WFMin
<1>2. \A m \in S : m \in Nat /\ n \in Nat /\ ~(m < n)
  BY <1>1 DEF OpToRel
<1> QED BY <1>2

(* The wording of a group is the one of a question in it.                  *)
Shortest(group) == CHOOSE x \in group : \A y \in group : Len(x.prompt) <= Len(y.prompt)

WordingFrom(q) ==
  IF FamilyOf[q] \in DOMAIN seedQuestions THEN seedQuestions[FamilyOf[q]]
  ELSE IF FamilyOf[q] = "" /\ SkillExperienceSubject(q) # <<>>
       THEN SkillExperienceQuestion(SkillExperienceSubject(q))
  ELSE q.prompt

LEMMA WordingIs == \A group : canonicalPromptFor(group) = WordingFrom(Shortest(group))
BY DEF canonicalPromptFor, WordingFrom, Shortest

LEMMA WordingOfGroup ==
  ASSUME NEW group \in Groups
  PROVE  \E y \in group : canonicalPromptFor(group) = canonicalPromptFor({y})
<1>1. group # {} /\ \A x \in group : Len(x.prompt) \in Nat
  BY QuestionsAssumption DEF Groups
<1>2. \E x \in group : \A y \in group : Len(x.prompt) <= Len(y.prompt)
  <2>1. PICK n \in {Len(x.prompt) : x \in group} : \A m \in {Len(x.prompt) : x \in group} : n <= m
    BY <1>1, LeastNat
  <2> QED BY <2>1
<1>3. Shortest(group) \in group
  BY <1>2 DEF Shortest
<1>4. Shortest({Shortest(group)}) = Shortest(group)
  <2>1. ASSUME NEW c \in group PROVE Shortest({c}) = c
    BY <1>1 DEF Shortest
  <2> QED BY <1>3, <2>1
<1> QED BY <1>3, <1>4, WordingIs

LEMMA QuestionOfGroup ==
  ASSUME NEW group \in Groups
  PROVE  /\ QuestionOf[group].prompt = canonicalPromptFor(group)
         /\ QuestionOf[group].company \in Employers
<1> DEFINE first(x) == \A y \in group : y.control = "textarea" => x.control = "textarea"
           q == CHOOSE x \in group : first(x)
<1>1. \E x \in group : first(x)
  <2>1. CASE \E x \in group : x.control = "textarea"
    BY <2>1
  <2>2. CASE \A x \in group : x.control # "textarea"
    BY <2>2 DEF Groups
  <2> QED BY <2>1, <2>2
<1>2. q \in group
  BY <1>1
<1>3. q \in Questions /\ {"prompt", "control", "required", "company"} \subseteq DOMAIN q
  BY <1>2, QuestionsAssumption DEF Groups
<1>4. QuestionOf[group]
        = [q EXCEPT !.prompt = canonicalPromptFor(group),
                    !.required = \E x \in group : x.required,
                    !.company = IF Cardinality({x.company : x \in group}) = 1 THEN @ ELSE <<>>]
  BY DEF QuestionOf, questionFromGroup
<1> HIDE DEF q
<1> QED BY <1>3, <1>4 DEF Employers

(* The wordings of a declaration are bound to keys it is filed under.      *)
LEMMA PhrasingsAreFiled ==
  ASSUME NEW group, OneGroup(group), NEW p \in PhrasingsOf[group],
         Normalize(p) \in DeclaredNames
  PROVE  Normalize(canonicalPromptFor(group)) \in DeclaredKeys
<1>1. PICK x \in group : p = x.prompt
  BY DEF PhrasingsOf, ExtraPhrasings, OneGroup
<1>2. PICK q \in Declarations : \E a \in AnsweredAs(q) : Normalize(p) = Normalize(a)
  BY DEF DeclaredNames
<1>3. PICK y \in group : canonicalPromptFor(group) = canonicalPromptFor({y})
  BY WordingOfGroup DEF OneGroup
<1>4. x \in Questions /\ y \in Questions /\ GroupOf[y] = GroupOf[x]
  BY <1>1, <1>3 DEF OneGroup, Groups
<1>5. canonicalPromptFor({y}) \in FiledAs(q)
  BY <1>1, <1>2, <1>4 DEF FiledAs
<1> QED BY <1>3, <1>5 DEF DeclaredKeys

----------------------------------------------------------------------------
(* Declarations: the invariant.                                            *)

VaultShape ==
  /\ {"row", "alias"} \subseteq DOMAIN vault
  /\ \A r \in DOMAIN vault.row :
       {"kind", "sensitivity", "reuse", "revoked"} \subseteq DOMAIN vault.row[r]

(* Rows of a declaration are stored as one; only what was saved with both  *)
(* boxes has reuse, or what an edit gave it back that came too late.       *)
RowsGranted ==
  \A r \in DOMAIN vault.row : r[1] \in DeclaredKeys =>
    /\ vault.row[r].sensitivity = "sensitive"
    /\ Live(vault, r) /\ vault.row[r].reuse => MayBeReused(r)

(* A declaration is bound to a row of one, by the operator.                *)
AliasesFiled ==
  \A a \in DOMAIN vault.alias : a[1] \in DeclaredNames =>
    vault.alias[a][1] \in DeclaredKeys /\ a \in confirmed /\ a[2] \in Scopes

IsConfirmed(r) == r[1] \in DeclaredNames => r \in confirmed /\ r[2] \in Scopes

GrantsConfirmed == \A r : MayBeReused(r) => IsConfirmed(r)

VaultInv == VaultShape /\ RowsGranted /\ AliasesFiled /\ GrantsConfirmed

(* What a request has read and has still to write.                         *)
SavesGroup(d) == OneGroup(d.group) /\ d.scope \in Scopes

BindsFiled(d) ==
  /\ DOMAIN d = {"step", "row", "same", "phrasings", "facts"}
  /\ d.row[2] \in Scopes
  /\ (\E p \in d.phrasings : Normalize(p) \in DeclaredNames) => d.row[1] \in DeclaredKeys
  /\ d.step = "bind" /\ d.row[1] \in DeclaredKeys => d.same

(* An edit that gives a declaration reuse has seen that it had it.         *)
EditsAllowed(d) ==
  /\ d.reuse /\ d.row[1] \in DeclaredKeys => d.seen
  /\ d.seen => IsConfirmed(d.row)

IsFiled(x) ==
  /\ request[x].step = "save" => SavesGroup(request[x])
  /\ request[x].step \in {"check", "bind"} => BindsFiled(request[x])
  /\ request[x].step = "edit" => EditsAllowed(request[x])

GrantInv == VaultInv /\ \A x \in Requests : IsFiled(x)

----------------------------------------------------------------------------
(* Declarations: the operations of the vault.                              *)

LEMMA KeyOfRow == \A prompt, scope : /\ RowOf(prompt, scope)[1] = Normalize(prompt)
                                    /\ RowOf(prompt, scope)[2] = scope
                                    /\ AliasOf(prompt, scope) = RowOf(prompt, scope)
BY DEF RowOf, AliasOf, QuestionKey

(* An answer to a question of any employer is saved: as a declaration's,   *)
(* with both boxes or as an absence, if that is what the wording is.       *)
LEMMA StoreKeepsVault ==
  ASSUME VaultInv, NEW prompt, NEW scope \in Scopes, NEW kind, NEW sensitivity, NEW reuse,
         vault' = storeApprovedAnswer(vault, prompt, scope, Answer(kind, sensitivity, reuse)),
         Normalize(prompt) \in DeclaredKeys =>
           /\ sensitivity = "sensitive"
           /\ kind = "absence" \/ RowOf(prompt, scope) \in granted',
         granted' \ {RowOf(prompt, scope)} = granted \ {RowOf(prompt, scope)},
         regranted' = regranted \ {RowOf(prompt, scope)},
         confirmed \subseteq confirmed',
         reuse \/ RowOf(prompt, scope) \in granted' \/ kind = "absence" =>
           AliasOf(prompt, scope) \in confirmed'
  PROVE  VaultInv'
<1> DEFINE new == RowOf(prompt, scope)
           answer == Answer(kind, sensitivity, reuse)
<1>1. /\ new[1] = Normalize(prompt) /\ new[2] = scope /\ AliasOf(prompt, scope) = new
  BY KeyOfRow
<1>2. /\ DOMAIN answer = {"kind", "sensitivity", "reuse", "revoked"}
      /\ answer.kind = kind /\ answer.sensitivity = sensitivity /\ answer.reuse = reuse
  BY DEF Answer
<1> HIDE DEF new, answer
<1>3. /\ DOMAIN vault' = {"row", "alias"}
      /\ vault'.row = Replaced(vault.row, {new}, answer)
      /\ vault'.alias = IF reuse THEN Replaced(vault.alias, {new}, new) ELSE vault.alias
  BY <1>1, <1>2 DEF storeApprovedAnswer, new, answer
<1>4. /\ DOMAIN vault'.row = DOMAIN vault.row \union {new}
      /\ \A r \in DOMAIN vault'.row : vault'.row[r] = IF r = new THEN answer ELSE vault.row[r]
  BY <1>3 DEF Replaced
<1>5. \A a \in DOMAIN vault'.alias :
        \/ reuse /\ a = new /\ vault'.alias[a] = new
        \/ a \in DOMAIN vault.alias /\ vault'.alias[a] = vault.alias[a]
  BY <1>3 DEF Replaced
<1>6. VaultShape'
  <2>1. ASSUME NEW r \in DOMAIN vault'.row
        PROVE  {"kind", "sensitivity", "reuse", "revoked"} \subseteq DOMAIN vault'.row[r]
    <3>1. CASE r = new
      BY <1>2, <1>4, <3>1
    <3>2. CASE r # new
      BY <1>4, <3>2 DEF VaultInv, VaultShape
    <3> QED BY <3>1, <3>2
  <2> QED BY <1>3, <2>1 DEF VaultShape
<1>7. /\ \A r : r # new => (MayBeReused(r)' <=> MayBeReused(r))
      /\ MayBeReused(new)' <=> kind = "absence" \/ new \in granted'
  BY <1>2, <1>4 DEF new, MayBeReused
<1>8. RowsGranted'
  BY <1>1, <1>2, <1>4, <1>7 DEF VaultInv, RowsGranted, Live, new
<1>9. AliasesFiled'
  BY <1>1, <1>5, NamesAreKeys DEF VaultInv, AliasesFiled, new
<1>10. GrantsConfirmed'
  BY <1>1, <1>7 DEF VaultInv, GrantsConfirmed, IsConfirmed, new
<1> QED BY <1>6, <1>8, <1>9, <1>10 DEF VaultInv

(* The wordings bound to a declaration's row are confirmed.                *)
LEMMA BindKeepsVault ==
  ASSUME VaultInv, NEW row, NEW phrasings, NEW same, row[2] \in Scopes,
         (\E p \in phrasings : Normalize(p) \in DeclaredNames) => row[1] \in DeclaredKeys /\ same,
         vault' = AddAliases(vault, row, phrasings), UNCHANGED grants,
         confirmed' = IF same THEN confirmed \union {AliasOf(p, row[2]) : p \in phrasings}
                              ELSE confirmed \ {AliasOf(p, row[2]) : p \in phrasings}
  PROVE  /\ VaultInv'
         /\ \A r : IsConfirmed(r) => IsConfirmed(r)'
<1> DEFINE bound == {AliasOf(p, row[2]) : p \in phrasings}
<1>1. \A a \in bound : a[2] = row[2] /\ (a[1] \in DeclaredNames => row[1] \in DeclaredKeys /\ same)
  BY KeyOfRow
<1>2. /\ {"row", "alias"} \subseteq DOMAIN vault' /\ vault'.row = vault.row
      /\ \A a \in DOMAIN vault'.alias :
           \/ a \in bound /\ vault'.alias[a] = row
           \/ a \in DOMAIN vault.alias /\ vault'.alias[a] = vault.alias[a]
  BY DEF VaultInv, VaultShape, AddAliases, Replaced
<1> HIDE DEF bound
<1>3. \A a : a[1] \in DeclaredNames =>
        (a \in confirmed => a \in confirmed') /\ (a \in bound => a \in confirmed')
  BY <1>1 DEF bound
<1>4. VaultShape' /\ RowsGranted'
  BY <1>2 DEF VaultInv, VaultShape, RowsGranted, Live, MayBeReused, grants
<1>5. AliasesFiled'
  BY <1>1, <1>2, <1>3 DEF VaultInv, AliasesFiled
<1>6. \A r : IsConfirmed(r) => IsConfirmed(r)'
  BY <1>3 DEF IsConfirmed
<1>7. GrantsConfirmed'
  BY <1>2, <1>6 DEF VaultInv, GrantsConfirmed, MayBeReused, grants
<1> QED BY <1>4, <1>5, <1>6, <1>7 DEF VaultInv

(* An edit or a withdrawal changes one row; what has reuse afterwards may  *)
(* have it, and what may have it is confirmed.                             *)
LEMMA ChangeKeepsVault ==
  ASSUME VaultInv, confirmed' = confirmed,
         {"row", "alias"} \subseteq DOMAIN vault',
         DOMAIN vault'.row = DOMAIN vault.row,
         \A r \in DOMAIN vault.row :
           /\ DOMAIN vault'.row[r] = DOMAIN vault.row[r]
           /\ vault'.row[r].kind = vault.row[r].kind
           /\ vault'.row[r].sensitivity = vault.row[r].sensitivity
           /\ Live(vault', r) /\ vault'.row[r].reuse /\ r[1] \in DeclaredKeys => MayBeReused(r)',
         \A r : MayBeReused(r)' => MayBeReused(r) \/ IsConfirmed(r),
         \A a \in DOMAIN vault'.alias :
           a \in DOMAIN vault.alias /\ vault'.alias[a] = vault.alias[a]
  PROVE  VaultInv'
<1>1. VaultShape'
  BY DEF VaultInv, VaultShape
<1>2. RowsGranted'
  BY DEF VaultInv, RowsGranted
<1>3. AliasesFiled'
  BY DEF VaultInv, AliasesFiled
<1>4. GrantsConfirmed'
  BY DEF VaultInv, GrantsConfirmed, IsConfirmed
<1> QED BY <1>1, <1>2, <1>3, <1>4 DEF VaultInv

----------------------------------------------------------------------------
(* Declarations: the steps.                                                *)

LEMMA WaitsFiled ==
  ASSUME GrantInv,
         \A r : IsConfirmed(r) => IsConfirmed(r)',
         NEW x \in Requests, request'[x] = request[x]
  PROVE  IsFiled(x)'
BY DEF GrantInv, IsFiled, EditsAllowed, SavesGroup, BindsFiled

(* What neither saves nor binds nor edits has nothing to answer for.       *)
LEMMA OtherFiled ==
  ASSUME NEW x, request'[x].step \notin {"save", "check", "bind", "edit"}
  PROVE  IsFiled(x)'
BY DEF IsFiled

LEMMA VaultUntouched ==
  ASSUME GrantInv, vault' = vault, UNCHANGED grants, confirmed' = confirmed,
         \A x \in Requests : request'[x] = request[x] \/ IsFiled(x)'
  PROVE  GrantInv'
<1>1. VaultInv'
  BY DEF GrantInv, VaultInv, VaultShape, RowsGranted, Live, AliasesFiled, GrantsConfirmed,
     IsConfirmed, MayBeReused, grants
<1>2. \A x \in Requests : IsFiled(x)'
  BY WaitsFiled DEF IsConfirmed
<1> QED BY <1>1, <1>2 DEF GrantInv

LEMMA BecomesIs ==
  ASSUME LookInv, NEW r \in Requests, NEW what, Becomes(r, what)
  PROVE  request'[r] = what /\ \A x \in Requests \ {r} : request'[x] = request[x]
BY DEF Becomes, LookInv, RequestsOK

LEMMA ReplaceKeepsGrants ==
  ASSUME LookInv, GrantInv, NEW j \in Jobs, NEW facts, Replace(j, facts),
         UNCHANGED <<vault, grants, confirmed>>
  PROVE  GrantInv'
<1>1. ASSUME NEW x \in Requests PROVE request'[x] = request[x] \/ IsFiled(x)'
  <2>1. \/ request'[x] = request[x]
        \/ request'[x] = [step |-> "resolve", facts |-> request[x].facts,
                          todo |-> request[x].todo \ Asked(j)]
        \/ /\ request[x].step \in {"resolve", "mark"}
           /\ request'[x] = [request[x] EXCEPT !.todo = request[x].todo \ Asked(j)]
    BY DEF Replace
  <2>2. RequestShape(request[x])
    BY DEF LookInv, RequestsOK
  <2>3. request'[x] = request[x] \/ request'[x].step \in {"resolve", "mark"}
    BY <2>1, <2>2 DEF RequestShape
  <2> QED BY <2>3, OtherFiled
<1> QED BY <1>1, VaultUntouched

LEMMA LookKeepsGrants ==
  ASSUME LookInv, GrantInv, NEW r \in Requests,
         \/ ReadQueue(r) \/ ResolveQueued(r) \/ SetQuestionResolution(r) \/ Reports(r)
         \/ openKnowledgeService(r)
         \/ \E facts \in Profiles : SaveProfile(r, facts)
  PROVE  GrantInv'
<1>1. /\ vault' = vault /\ UNCHANGED grants /\ confirmed' = confirmed
      /\ \E what : Becomes(r, what) /\ what.step \notin {"save", "check", "bind", "edit"}
  BY DEF ReadQueue, ResolveQueued, SetQuestionResolution, Reports, openKnowledgeService, SaveProfile,
     Idle, ToQueue
<1> PICK what : Becomes(r, what) /\ what.step \notin {"save", "check", "bind", "edit"}
  BY <1>1
<1>2. \A x \in Requests : request'[x] = request[x] \/ IsFiled(x)'
  BY BecomesIs, OtherFiled
<1> QED BY <1>1, <1>2, VaultUntouched

LEMMA ApprovesKeepsGrants ==
  ASSUME LookInv, GrantInv, NEW r \in Requests, Approves(r)
  PROVE  GrantInv'
<1>1. PICK group \in Inbox, absence \in BOOLEAN, box \in BOOLEAN, same \in BOOLEAN, scope \in Scopes :
        LoadGroup(r, group, absence, scope, box, same)
  BY DEF Approves
<1> DEFINE what == [step |-> "save", group |-> group, sensitivity |-> GroupSensitivity(group),
                    absence |-> absence, scope |-> scope, box |-> box, same |-> same,
                    facts |-> configured]
<1>2. Becomes(r, what) /\ vault' = vault /\ UNCHANGED grants /\ confirmed' = confirmed
  BY <1>1 DEF LoadGroup
<1>3. what.step = "save" /\ what.group = group /\ what.scope = scope
  OBVIOUS
<1> HIDE DEF what
<1>4. request'[r] = what /\ \A x \in Requests \ {r} : request'[x] = request[x]
  BY <1>2, BecomesIs
<1>5. IsFiled(r)'
  BY <1>3, <1>4, InboxIsGrouped DEF IsFiled, SavesGroup
<1> QED BY <1>2, <1>4, <1>5, VaultUntouched

LEMMA CheckKeepsGrants ==
  ASSUME LookInv, GrantInv, NEW r \in Requests, CheckPhrasings(r)
  PROVE  GrantInv'
<1> DEFINE d == request[r]
           bind == [d EXCEPT !.step = "bind"]
           queue == ToQueue(d.facts)
<1>1. /\ d.step = "check" /\ BindsFiled(d)
      /\ vault' = vault /\ UNCHANGED grants /\ confirmed' = confirmed
  BY DEF CheckPhrasings, GrantInv, IsFiled
<1>2. \/ Becomes(r, bind) /\ Bindable(vault, d.row, d.same)
      \/ Becomes(r, queue) \/ Becomes(r, Idle)
  BY DEF CheckPhrasings
<1>3. CASE Becomes(r, bind) /\ Bindable(vault, d.row, d.same)
  <2>1. /\ bind.step = "bind" /\ bind.row = d.row /\ bind.same = d.same
        /\ bind.phrasings = d.phrasings /\ DOMAIN bind = DOMAIN d
    BY <1>1 DEF BindsFiled
  <2>2. d.row[1] \in DeclaredKeys => d.same
    BY <1>3 DEF Bindable, Live, GrantInv, VaultInv, RowsGranted
  <2>3. BindsFiled(bind)
    BY <1>1, <2>1, <2>2 DEF BindsFiled
  <2> HIDE DEF bind
  <2>4. request'[r] = bind /\ \A x \in Requests \ {r} : request'[x] = request[x]
    BY <1>3, BecomesIs
  <2>5. IsFiled(r)'
    BY <2>1, <2>3, <2>4 DEF IsFiled, BindsFiled
  <2> QED BY <1>1, <2>4, <2>5, VaultUntouched
<1>4. CASE Becomes(r, queue) \/ Becomes(r, Idle)
  <2>1. queue.step = "queue" /\ Idle.step = "idle"
    BY DEF Idle, ToQueue
  <2> HIDE DEF queue
  <2>2. \A x \in Requests : request'[x] = request[x] \/ IsFiled(x)'
    BY <1>4, <2>1, BecomesIs, OtherFiled
  <2> QED BY <1>1, <2>2, VaultUntouched
<1> QED BY <1>2, <1>3, <1>4

LEMMA VaultWritten ==
  ASSUME GrantInv, VaultInv', \A r : IsConfirmed(r) => IsConfirmed(r)',
         \A x \in Requests : request'[x] = request[x] \/ IsFiled(x)'
  PROVE  GrantInv'
BY WaitsFiled DEF GrantInv

LEMMA SaveKeepsGrants ==
  ASSUME LookInv, GrantInv, NEW r \in Requests, SaveGroup(r)
  PROVE  GrantInv'
<1> DEFINE d == request[r]
           w == QuestionOf[d.group]
           row == RowOf(w.prompt, d.scope)
           check == [step |-> "check", row |-> row, same |-> d.same,
                     phrasings |-> PhrasingsOf[d.group], facts |-> d.facts]
           queue == ToQueue(d.facts)
<1>1. d.step = "save" /\ OneGroup(d.group) /\ d.scope \in Scopes
  BY DEF SaveGroup, GrantInv, IsFiled, SavesGroup
<1>2. Idle.step = "idle" /\ queue.step = "queue"
  BY DEF Idle, ToQueue
<1>3. CASE Becomes(r, Idle) /\ UNCHANGED <<vault, grants, confirmed>>
  <2>1. \A x \in Requests : request'[x] = request[x] \/ IsFiled(x)'
    BY <1>2, <1>3, BecomesIs, OtherFiled
  <2> QED BY <1>3, <2>1, VaultUntouched
<1>4. CASE Saves(r, d, w)
  <2> DEFINE kind == IF d.absence THEN "absence" ELSE "value"
             sensitivity == IF d.absence THEN Classify(w) ELSE SaveSensitivity(w, d.sensitivity)
  <2>1. /\ vault' = storeApprovedAnswer(vault, w.prompt, d.scope, Answer(kind, sensitivity, TRUE))
        /\ granted' = IF (IF d.absence THEN "routine" ELSE sensitivity) = "sensitive"
                      THEN granted \union {row} ELSE granted \ {row}
        /\ regranted' = regranted \ {row}
        /\ confirmed' = confirmed \union {AliasOf(w.prompt, d.scope)}
    BY <1>4 DEF Saves, SaveAbsence, Save, GrantedBy, Rebinds
  <2>2. Becomes(r, check) \/ Becomes(r, queue)
    BY <1>4 DEF Saves
  <2>3. w.prompt = canonicalPromptFor(d.group) /\ w.company \in Employers
    BY <1>1, QuestionOfGroup DEF OneGroup
  <2>4. Normalize(w.prompt) \in DeclaredKeys =>
          sensitivity = "sensitive" /\ (kind = "absence" \/ row \in granted')
    BY <2>1, <2>3, FiledIsDeclaration DEF SaveSensitivity
  <2>5. granted' \ {row} = granted \ {row}
    BY <2>1
  <2> HIDE DEF w, kind, sensitivity
  <2>6. VaultInv' /\ \A x : IsConfirmed(x) => IsConfirmed(x)'
    BY <1>1, <2>1, <2>4, <2>5, StoreKeepsVault DEF GrantInv, IsConfirmed
  <2>7. CASE Becomes(r, check)
    <3>1. /\ check.step = "check" /\ check.row = row /\ check.phrasings = PhrasingsOf[d.group]
          /\ DOMAIN check = {"step", "row", "same", "phrasings", "facts"}
      OBVIOUS
    <3>2. row[1] = Normalize(w.prompt) /\ row[2] = d.scope
      BY KeyOfRow
    <3>3. (\E p \in PhrasingsOf[d.group] : Normalize(p) \in DeclaredNames) => row[1] \in DeclaredKeys
      BY <1>1, <2>3, <3>2, PhrasingsAreFiled
    <3> HIDE DEF check, row
    <3>4. BindsFiled(check)
      BY <1>1, <3>1, <3>2, <3>3 DEF BindsFiled
    <3>5. request'[r] = check /\ \A x \in Requests \ {r} : request'[x] = request[x]
      BY <2>7, BecomesIs
    <3>6. IsFiled(r)'
      BY <3>1, <3>4, <3>5 DEF IsFiled, BindsFiled
    <3> QED BY <2>6, <3>5, <3>6, VaultWritten
  <2>8. CASE Becomes(r, queue)
    <3> HIDE DEF queue
    <3>1. \A x \in Requests : request'[x] = request[x] \/ IsFiled(x)'
      BY <1>2, <2>8, BecomesIs, OtherFiled
    <3> QED BY <2>6, <3>1, VaultWritten
  <2> QED BY <2>2, <2>7, <2>8
<1> QED BY <1>3, <1>4 DEF SaveGroup

LEMMA BindKeepsGrants ==
  ASSUME LookInv, GrantInv, NEW r \in Requests, BindPhrasings(r)
  PROVE  GrantInv'
<1> DEFINE d == request[r]
           queue == ToQueue(d.facts)
<1>1. /\ d.step = "bind" /\ BindsFiled(d) /\ Becomes(r, queue) /\ UNCHANGED grants
      /\ vault' = AddAliases(vault, d.row, d.phrasings)
      /\ confirmed' = IF d.same THEN confirmed \union {AliasOf(p, d.row[2]) : p \in d.phrasings}
                                ELSE confirmed \ {AliasOf(p, d.row[2]) : p \in d.phrasings}
  BY DEF BindPhrasings, GrantInv, IsFiled
<1>2. VaultInv' /\ \A x : IsConfirmed(x) => IsConfirmed(x)'
  BY <1>1, BindKeepsVault DEF BindsFiled, GrantInv
<1>3. queue.step = "queue"
  BY DEF ToQueue
<1> HIDE DEF queue
<1>4. \A x \in Requests : request'[x] = request[x] \/ IsFiled(x)'
  BY <1>1, <1>3, BecomesIs, OtherFiled
<1> QED BY <1>2, <1>4, VaultWritten

(* What is given its reuse had it when it was read.                        *)
LEMMA EditKeepsGrants ==
  ASSUME LookInv, GrantInv, NEW r \in Requests, NEW row, NEW reuse, Edit(r, row, reuse)
  PROVE  GrantInv'
<1> DEFINE edit == [step |-> "edit", row |-> row, reuse |-> reuse, seen |-> MayBeReused(row)]
<1>1. /\ Becomes(r, edit) /\ vault' = vault /\ UNCHANGED grants /\ confirmed' = confirmed
      /\ Editable(vault, row, reuse)
  BY DEF Edit
<1>2. /\ edit.step = "edit" /\ edit.row = row /\ edit.reuse = reuse
      /\ edit.seen = MayBeReused(row)
  OBVIOUS
<1>3. reuse /\ row[1] \in DeclaredKeys => MayBeReused(row)
  BY <1>1 DEF Editable, Live, GrantInv, VaultInv, RowsGranted
<1>4. MayBeReused(row) => IsConfirmed(row)
  BY DEF GrantInv, VaultInv, GrantsConfirmed
<1> HIDE DEF edit
<1>5. request'[r] = edit /\ \A x \in Requests \ {r} : request'[x] = request[x]
  BY <1>1, BecomesIs
<1>6. IsFiled(r)'
  BY <1>1, <1>2, <1>3, <1>4, <1>5 DEF IsFiled, EditsAllowed, IsConfirmed
<1> QED BY <1>1, <1>5, <1>6, VaultUntouched

(* Whoever took the reuse back meanwhile: what is given it again had it    *)
(* from the operator before, by a wording confirmed.                       *)
LEMMA CommitKeepsGrants ==
  ASSUME LookInv, GrantInv, NEW r \in Requests, CommitEdit(r)
  PROVE  GrantInv'
<1> DEFINE d == request[r]
<1>1. /\ EditsAllowed(d) /\ vault' = UpdateAnswer(vault, d.row, d.reuse) /\ Becomes(r, Idle)
      /\ confirmed' = confirmed
      /\ IF ~d.reuse THEN granted' = granted \ {d.row} /\ regranted' = regranted \ {d.row}
         ELSE /\ granted' = granted
              /\ regranted' = IF d.seen /\ Live(vault, d.row) /\ ~MayBeReused(d.row)
                              THEN regranted \union {d.row} ELSE regranted
  BY DEF CommitEdit, Ungranted, GrantInv, IsFiled
<1> HIDE DEF d
<1>2. /\ DOMAIN vault' = {"row", "alias"} /\ DOMAIN vault'.row = DOMAIN vault.row
      /\ \A x \in DOMAIN vault.row :
           \/ /\ vault'.row[x] = vault.row[x] /\ (x = d.row => ~Live(vault, x))
           \/ x = d.row /\ Live(vault, x) /\ vault'.row[x] = [vault.row[x] EXCEPT !.reuse = d.reuse]
  BY <1>1 DEF UpdateAnswer, Live
<1>3. \A a \in DOMAIN vault'.alias : a \in DOMAIN vault.alias /\ vault'.alias[a] = vault.alias[a]
  BY <1>1 DEF UpdateAnswer, Unbound
<1>4. \A x \in DOMAIN vault.row :
        /\ DOMAIN vault'.row[x] = DOMAIN vault.row[x]
        /\ vault'.row[x].kind = vault.row[x].kind
        /\ vault'.row[x].sensitivity = vault.row[x].sensitivity
        /\ vault'.row[x].reuse =>
             IF x = d.row /\ Live(vault, x) THEN d.reuse ELSE vault.row[x].reuse
        /\ Live(vault', x) => Live(vault, x)
  BY <1>2 DEF GrantInv, VaultInv, VaultShape, Live
<1>5. /\ \A x : x # d.row => (MayBeReused(x)' <=> MayBeReused(x))
      /\ d.reuse /\ d.seen /\ Live(vault, d.row) => \A x : x = d.row => MayBeReused(x)'
      /\ \A x : MayBeReused(x)' => MayBeReused(x) \/ (x = d.row /\ d.seen)
  BY <1>1, <1>2, <1>4 DEF MayBeReused
<1>6. ASSUME NEW x \in DOMAIN vault.row, Live(vault', x), vault'.row[x].reuse,
             x[1] \in DeclaredKeys
      PROVE  MayBeReused(x)'
  <2>1. CASE x = d.row
    <3>1. Live(vault, d.row) /\ d.reuse
      BY <1>4, <1>6, <2>1
    <3>2. d.seen
      BY <1>1, <1>6, <2>1, <3>1 DEF EditsAllowed
    <3> QED BY <1>5, <2>1, <3>1, <3>2
  <2>2. CASE x # d.row
    BY <1>4, <1>5, <1>6, <2>2 DEF GrantInv, VaultInv, RowsGranted
  <2> QED BY <2>1, <2>2
<1>7. \A x : MayBeReused(x)' => MayBeReused(x) \/ IsConfirmed(x)
  BY <1>1, <1>5 DEF EditsAllowed
<1>8. VaultInv'
  BY <1>1, <1>2, <1>3, <1>4, <1>6, <1>7, ChangeKeepsVault DEF GrantInv
<1>9. \A x \in Requests : request'[x] = request[x] \/ IsFiled(x)'
  <2>1. Idle.step = "idle"
    BY DEF Idle
  <2> QED BY <1>1, <2>1, BecomesIs, OtherFiled
<1> QED BY <1>1, <1>8, <1>9, VaultWritten DEF IsConfirmed

LEMMA WithdrawKeepsGrants ==
  ASSUME GrantInv, NEW row, Withdraw(row)
  PROVE  GrantInv'
<1>1. /\ row \in DOMAIN vault.row /\ vault' = Revoke(vault, row) /\ request' = request
      /\ granted' = granted \ {row} /\ regranted' = regranted \ {row} /\ confirmed' = confirmed
  BY DEF Withdraw, Ungranted, Live
<1>2. /\ DOMAIN vault' = {"row", "alias"} /\ DOMAIN vault'.row = DOMAIN vault.row
      /\ \A x \in DOMAIN vault.row \ {row} : vault'.row[x] = vault.row[x]
      /\ vault'.row[row] = [vault.row[row] EXCEPT !.revoked = TRUE, !.reuse = FALSE]
  BY <1>1 DEF Revoke
<1>3. \A a \in DOMAIN vault'.alias : a \in DOMAIN vault.alias /\ vault'.alias[a] = vault.alias[a]
  BY <1>1 DEF Revoke, Unbound
<1>4. \A x \in DOMAIN vault.row :
        /\ DOMAIN vault'.row[x] = DOMAIN vault.row[x]
        /\ vault'.row[x].kind = vault.row[x].kind
        /\ vault'.row[x].sensitivity = vault.row[x].sensitivity
        /\ Live(vault', x) => x # row /\ Live(vault, x)
        /\ vault'.row[x].reuse => vault.row[x].reuse
  BY <1>1, <1>2 DEF GrantInv, VaultInv, VaultShape, Live
<1>5. \A x : /\ x # row => (MayBeReused(x)' <=> MayBeReused(x))
             /\ MayBeReused(x)' => MayBeReused(x)
  BY <1>1, <1>2, <1>4 DEF MayBeReused
<1>6. \A x \in DOMAIN vault.row :
        Live(vault', x) /\ vault'.row[x].reuse /\ x[1] \in DeclaredKeys => MayBeReused(x)'
  BY <1>4, <1>5 DEF GrantInv, VaultInv, RowsGranted
<1>7. VaultInv'
  BY <1>1, <1>2, <1>3, <1>4, <1>5, <1>6, ChangeKeepsVault DEF GrantInv
<1> QED BY <1>1, <1>7, VaultWritten DEF IsConfirmed

(* Without both boxes the answer to a declaration is not kept.             *)
LEMMA RememberKeepsGrants ==
  ASSUME LookInv, GrantInv, NEW q \in Questions, NEW scope \in Scopes, NEW keep, NEW box,
         Remember(q, scope, keep, box)
  PROVE  GrantInv'
<1> DEFINE reuse == q \in declared \/ ClassOf[q] = "sensitive" => box
           row == RowOf(q.prompt, scope)
<1>1. request' = request
  BY DEF Remember
<1>2. CASE UNCHANGED <<vault, grants, confirmed>>
  BY <1>1, <1>2, VaultUntouched
<1>3. CASE ~ UNCHANGED <<vault, grants, confirmed>>
  <2>1. /\ MayStore(ClassOf[q], reuse) /\ vault' = Save(vault, q, scope, "", reuse)
        /\ GrantedBy(row, ClassOf[q])
        /\ IF reuse THEN Rebinds(AliasOf(q.prompt, scope)) ELSE UNCHANGED confirmed
    BY <1>3 DEF Remember
  <2>2. ClassOf[q] = Classify(q) /\ SaveSensitivity(q, "") = Classify(q)
    BY DEF ClassOf, SaveSensitivity
  <2>3. vault' = storeApprovedAnswer(vault, q.prompt, scope, Answer("value", ClassOf[q], reuse))
    BY <2>1, <2>2 DEF Save
  <2>4. Normalize(q.prompt) \in DeclaredKeys => ClassOf[q] = "sensitive"
    BY <2>2, FiledIsDeclaration DEF Employers
  <2>5. /\ ClassOf[q] = "sensitive" => reuse /\ row \in granted'
        /\ ClassOf[q] # "sensitive" => row \notin granted'
        /\ granted' \ {row} = granted \ {row} /\ regranted' = regranted \ {row}
    BY <2>1 DEF MayStore, GrantedBy
  <2>6. confirmed \subseteq confirmed' /\ (reuse => AliasOf(q.prompt, scope) \in confirmed')
    BY <2>1 DEF Rebinds
  <2> HIDE DEF reuse
  <2>7. VaultInv'
    BY <2>3, <2>4, <2>5, <2>6, StoreKeepsVault DEF GrantInv
  <2> QED BY <1>1, <2>6, <2>7, VaultWritten DEF IsConfirmed
<1> QED BY <1>2, <1>3

(* A suggestion has no reuse, and that for a declaration is one.           *)
LEMMA SeedKeepsVault ==
  ASSUME NEW v, {"row", "alias"} \subseteq DOMAIN v, NEW facts
  PROVE  LET w == SeedFromPII(v, facts)
         IN /\ {"row", "alias"} \subseteq DOMAIN w /\ w.alias = v.alias
            /\ DOMAIN v.row \subseteq DOMAIN w.row
            /\ \A r \in DOMAIN v.row : w.row[r] = v.row[r]
            /\ \A r \in DOMAIN w.row \ DOMAIN v.row :
                 /\ {"kind", "sensitivity", "reuse", "revoked"} \subseteq DOMAIN w.row[r]
                 /\ ~w.row[r].reuse /\ w.row[r].kind = "value"
                 /\ r[1] \in DeclaredKeys => w.row[r].sensitivity = "sensitive"
<1> DEFINE ids == {i \in DOMAIN patterns : patterns[i].id \in facts \cap DOMAIN seedQuestions}
           seed(i) == RowOf(seedQuestions[patterns[i].id], ScopeGlobal)
           suggested(r) == CHOOSE i \in ids : seed(i) = r
           rows == [ r \in DOMAIN v.row \union {seed(i) : i \in ids} |->
                       IF r \in DOMAIN v.row THEN v.row[r]
                       ELSE Answer("value", patterns[suggested(r)].sensitivity, FALSE) ]
           w == SeedFromPII(v, facts)
<1>1. w = [v EXCEPT !.row = rows]
  BY DEF SeedFromPII
<1>2. {"row", "alias"} \subseteq DOMAIN w /\ w.alias = v.alias /\ w.row = rows
  <2> HIDE DEF rows, w
  <2> QED BY <1>1
<1>3. ASSUME NEW r \in {seed(i) : i \in ids}, r[1] \in DeclaredKeys
      PROVE  patterns[suggested(r)].sensitivity = "sensitive"
  <2>1. suggested(r) \in ids /\ seed(suggested(r)) = r
    OBVIOUS
  <2> HIDE DEF ids
  <2> DEFINE i == suggested(r)
             q == [prompt |-> seedQuestions[patterns[i].id], company |-> <<>>]
  <2>2. Normalize(q.prompt) = r[1]
    BY <2>1, KeyOfRow
  <2>3. q.company \in Employers
    BY DEF Employers
  <2> HIDE DEF q
  <2>4. Classify(q) = "sensitive"
    BY <1>3, <2>2, <2>3, FiledIsDeclaration
  <2>5. IsDeclaration(q)
    BY <2>4 DEF Classify
  <2> QED BY <2>1, <2>5, SeedsAssumption DEF ids, q
<1>4. /\ DOMAIN v.row \subseteq DOMAIN rows /\ \A r \in DOMAIN v.row : rows[r] = v.row[r]
      /\ \A r \in DOMAIN rows \ DOMAIN v.row :
           /\ r \in {seed(i) : i \in ids}
           /\ rows[r] = Answer("value", patterns[suggested(r)].sensitivity, FALSE)
  <2> HIDE DEF ids, seed, suggested
  <2> QED OBVIOUS
<1>5. ASSUME NEW sensitivity
      PROVE  LET a == Answer("value", sensitivity, FALSE)
             IN /\ {"kind", "sensitivity", "reuse", "revoked"} \subseteq DOMAIN a
                /\ ~a.reuse /\ a.kind = "value" /\ a.sensitivity = sensitivity
  BY DEF Answer
<1> HIDE DEF rows, suggested, seed, ids
<1>6. ASSUME NEW r \in DOMAIN rows \ DOMAIN v.row
      PROVE  /\ {"kind", "sensitivity", "reuse", "revoked"} \subseteq DOMAIN rows[r]
             /\ ~rows[r].reuse /\ rows[r].kind = "value"
             /\ r[1] \in DeclaredKeys => rows[r].sensitivity = "sensitive"
  <2> DEFINE sensitivity == patterns[suggested(r)].sensitivity
             a == Answer("value", sensitivity, FALSE)
  <2>1. r \in {seed(i) : i \in ids} /\ rows[r] = a
    BY <1>4
  <2>2. r[1] \in DeclaredKeys => sensitivity = "sensitive"
    BY <1>3, <2>1
  <2> HIDE DEF sensitivity
  <2>3. {"kind", "sensitivity", "reuse", "revoked"} \subseteq DOMAIN a
    BY <1>5
  <2>4. ~a.reuse /\ a.kind = "value" /\ a.sensitivity = sensitivity
    BY <1>5
  <2> HIDE DEF a
  <2> QED BY <2>1, <2>2, <2>3, <2>4
<1> QED BY <1>2, <1>4, <1>6

LEMMA RestartKeepsGrants ==
  ASSUME GrantInv, Restart
  PROVE  GrantInv'
<1>1. /\ vault' = SeedFromPII(vault, configured) /\ confirmed' = confirmed
      /\ granted' = granted /\ regranted' = regranted
      /\ request' = [r \in Requests |-> Idle]
  BY DEF Restart, grants
<1>2. {"row", "alias"} \subseteq DOMAIN vault
  BY DEF GrantInv, VaultInv, VaultShape
<1>3. /\ {"row", "alias"} \subseteq DOMAIN vault' /\ vault'.alias = vault.alias
      /\ DOMAIN vault.row \subseteq DOMAIN vault'.row
      /\ \A r \in DOMAIN vault.row : vault'.row[r] = vault.row[r]
      /\ \A r \in DOMAIN vault'.row \ DOMAIN vault.row :
           /\ {"kind", "sensitivity", "reuse", "revoked"} \subseteq DOMAIN vault'.row[r]
           /\ ~vault'.row[r].reuse /\ vault'.row[r].kind = "value"
           /\ r[1] \in DeclaredKeys => vault'.row[r].sensitivity = "sensitive"
  BY <1>1, <1>2, SeedKeepsVault
<1>4. VaultShape'
  BY <1>3 DEF GrantInv, VaultInv, VaultShape
<1>5. \A r : MayBeReused(r)' <=> MayBeReused(r)
  BY <1>1, <1>3 DEF MayBeReused
<1>6. RowsGranted'
  BY <1>3, <1>5 DEF GrantInv, VaultInv, RowsGranted, Live
<1>7. AliasesFiled' /\ GrantsConfirmed'
  BY <1>1, <1>3, <1>5 DEF GrantInv, VaultInv, AliasesFiled, GrantsConfirmed, IsConfirmed
<1>8. \A x \in Requests : IsFiled(x)'
  <2>1. Idle.step = "idle"
    BY DEF Idle
  <2> QED BY <1>1, <2>1, OtherFiled
<1> QED BY <1>1, <1>4, <1>6, <1>7, <1>8, VaultWritten DEF VaultInv, IsConfirmed

LEMMA InitGrants == KnowledgeInit => GrantInv
<1> SUFFICES ASSUME KnowledgeInit PROVE GrantInv
  OBVIOUS
<1>1. /\ vault = SeedFromPII(EmptyVault, configured) /\ granted = {} /\ regranted = {}
      /\ request = [r \in Requests |-> Idle]
  BY DEF KnowledgeInit
<1>2. /\ {"row", "alias"} \subseteq DOMAIN EmptyVault
      /\ DOMAIN EmptyVault.row = {} /\ DOMAIN EmptyVault.alias = {}
  BY DEF EmptyVault
<1>3. /\ {"row", "alias"} \subseteq DOMAIN vault /\ DOMAIN vault.alias = {}
      /\ \A r \in DOMAIN vault.row :
           /\ {"kind", "sensitivity", "reuse", "revoked"} \subseteq DOMAIN vault.row[r]
           /\ ~vault.row[r].reuse /\ vault.row[r].kind = "value"
           /\ r[1] \in DeclaredKeys => vault.row[r].sensitivity = "sensitive"
  BY <1>1, <1>2, SeedKeepsVault
<1>4. VaultInv
  BY <1>1, <1>3 DEF VaultInv, VaultShape, RowsGranted, AliasesFiled, GrantsConfirmed, MayBeReused
<1>5. \A x \in Requests : IsFiled(x)
  BY <1>1 DEF IsFiled, Idle
<1> QED BY <1>4, <1>5 DEF GrantInv

LEMMA GrantInvIsKept == LookInv /\ GrantInv /\ [KnowledgeNext]_knowledgeVars => GrantInv'
<1> SUFFICES ASSUME LookInv, GrantInv, [KnowledgeNext]_knowledgeVars PROVE GrantInv'
  OBVIOUS
<1>1. CASE UNCHANGED knowledgeVars
  BY <1>1, VaultUntouched DEF knowledgeVars
<1>2. CASE KnowledgeNext
  <2>1. CASE \E facts \in profiles : FormIsRead(facts)
    BY <2>1, ReplaceKeepsGrants DEF FormIsRead, Prepare, OpenForm
  <2>2. CASE \E j \in Jobs : CloseForm(j)
    BY <2>2, VaultUntouched DEF CloseForm
  <2>3. CASE \E r \in Requests :
               \/ ReadQueue(r) \/ ResolveQueued(r) \/ SetQuestionResolution(r) \/ Reports(r)
               \/ openKnowledgeService(r)
               \/ \E facts \in Profiles : SaveProfile(r, facts)
    BY <2>3, LookKeepsGrants
  <2>4. CASE \E r \in Requests : Approves(r) \/ SaveGroup(r)
    BY <2>4, ApprovesKeepsGrants, SaveKeepsGrants
  <2>5. CASE \E r \in Requests : CheckPhrasings(r) \/ BindPhrasings(r)
    BY <2>5, CheckKeepsGrants, BindKeepsGrants
  <2>6. CASE \E q \in Questions, scope \in Scopes, keep, box \in BOOLEAN :
               Remember(q, scope, keep, box)
    BY <2>6, RememberKeepsGrants
  <2>7. CASE \E r \in Requests : \E row \in DOMAIN vault.row, reuse \in BOOLEAN : Edit(r, row, reuse)
    BY <2>7, EditKeepsGrants
  <2>8. CASE \E r \in Requests : CommitEdit(r)
    BY <2>8, CommitKeepsGrants
  <2>9. CASE \E row \in DOMAIN vault.row : Withdraw(row)
    BY <2>9, WithdrawKeepsGrants
  <2>10. CASE Restart
    BY <2>10, RestartKeepsGrants
  <2> QED
    BY <1>2, <2>1, <2>2, <2>3, <2>4, <2>5, <2>6, <2>7, <2>8, <2>9, <2>10
    DEF KnowledgeNext, KnowledgeStep, Proceeds
<1> QED BY <1>1, <1>2

----------------------------------------------------------------------------
(* Declarations: what the vault answers.                                   *)

(* A question is looked up by its wording, and by what it is reduced to.   *)
LEMMA LookedUpAs ==
  ASSUME NEW q \in Questions
  PROVE  /\ DOMAIN LookUpsOf[q] \subseteq Nat
         /\ \A i \in DOMAIN LookUpsOf[q] :
              \/ \E scope : LookUpsOf[q][i] = resolveFromAlias(q, scope)
              \/ \E p \in AnsweredAs(q) : \E scope :
                   LookUpsOf[q][i] = resolveFromKey(Normalize(p), scope)
<1> DEFINE scopes == {CompanyScope(q.company), ATSScope(q.ats), ScopeGlobal}
           L == {resolveFromAlias(q, scope) : scope \in scopes} \union
                  {resolveFromKey(Normalize(p), scope) : p \in AnsweredAs(q), scope \in scopes}
           Specific(scope) == IF scope = ScopeGlobal THEN <<>> ELSE LookUps(q, scope)
<1>1. LookUpsOf[q] = Specific(CompanyScope(q.company)) \o Specific(ATSScope(q.ats))
                       \o LookUps(q, ScopeGlobal)
  BY DEF LookUpsOf
<1>2. ASSUME NEW scope \in scopes PROVE LookUps(q, scope) \in Seq(L)
  <2> DEFINE wording == resolveFromAlias(q, scope)
             key == resolveFromKey(QuestionKey(q.prompt), scope)
             skill == resolveFromKey(QuestionKey(SkillExperienceQuestion(SkillExperienceSubject(q))),
                                     scope)
  <2>1. wording \in L /\ key \in L
    BY DEF AnsweredAs, QuestionKey
  <2>2. SkillExperienceSubject(q) # <<>> => skill \in L
    BY DEF AnsweredAs, QuestionKey
  <2>3. LookUps(q, scope)
          = <<wording, key>> \o (IF SkillExperienceSubject(q) = <<>> THEN <<>> ELSE <<skill>>)
    BY DEF LookUps
  <2> HIDE DEF L, wording, key, skill
  <2> QED BY <2>1, <2>2, <2>3
<1>3. \A scope \in scopes : Specific(scope) \in Seq(L)
  <2> HIDE DEF L, scopes
  <2> QED BY <1>2
<1>4. LookUpsOf[q] \in Seq(L)
  <2> HIDE DEF L, Specific
  <2> QED BY <1>1, <1>2, <1>3
<1>5. DOMAIN LookUpsOf[q] \subseteq Nat /\ \A i \in DOMAIN LookUpsOf[q] : LookUpsOf[q][i] \in L
  <2> HIDE DEF L
  <2> QED BY <1>4
<1> HIDE DEF scopes
<1> QED BY <1>5

(* What answers a question is live: what its wording is bound to, or the   *)
(* row of its key or of its skill's.                                       *)
LEMMA AnsweredBy ==
  ASSUME NEW q \in Questions, StoredRow(vault, q) # NoRow
  PROVE  LET r == StoredRow(vault, q)
         IN /\ Live(vault, r)
            /\ \/ \E scope : /\ AliasOf(q.prompt, scope) \in DOMAIN vault.alias
                             /\ r = vault.alias[AliasOf(q.prompt, scope)]
               \/ \E p \in AnsweredAs(q) : \E scope : r = RowOf(p, scope)
<1> DEFINE looked(i) == LookUpsOf[q][i]
           found == {i \in DOMAIN LookUpsOf[q] : Live(vault, Named(vault, looked(i)))}
           i == CHOOSE n \in found : \A k \in found : n <= k
           r == Named(vault, looked(i))
<1>1. found # {} /\ StoredRow(vault, q) = r
  BY DEF StoredRow
<1>2. found \subseteq Nat
  BY LookedUpAs
<1>3. i \in found
  <2> HIDE DEF found
  <2> QED BY <1>1, <1>2, LeastNat
<1>4. i \in DOMAIN LookUpsOf[q] /\ Live(vault, r)
  BY <1>3
<1>5. \/ \E scope : looked(i) = resolveFromAlias(q, scope)
      \/ \E p \in AnsweredAs(q) : \E scope : looked(i) = resolveFromKey(Normalize(p), scope)
  BY <1>4, LookedUpAs
<1> HIDE DEF looked, i, found
<1>6. CASE \E scope : looked(i) = resolveFromAlias(q, scope)
  <2> PICK scope : looked(i) = resolveFromAlias(q, scope)
    BY <1>6
  <2>1. r = IF AliasOf(q.prompt, scope) \in DOMAIN vault.alias
            THEN vault.alias[AliasOf(q.prompt, scope)] ELSE NoRow
    BY DEF Named, resolveFromAlias
  <2> QED BY <1>1, <1>4, <2>1
<1>7. CASE \E p \in AnsweredAs(q) : \E scope : looked(i) = resolveFromKey(Normalize(p), scope)
  <2> PICK p \in AnsweredAs(q) : \E scope : looked(i) = resolveFromKey(Normalize(p), scope)
    BY <1>7
  <2> PICK scope : looked(i) = resolveFromKey(Normalize(p), scope)
    OBVIOUS
  <2>1. r = RowOf(p, scope)
    BY DEF Named, resolveFromKey, RowOf, QuestionKey
  <2> QED BY <1>1, <1>4, <2>1
<1> QED BY <1>5, <1>6, <1>7

(* A declaration fills a field from a live row of its own: one saved with  *)
(* both boxes, by a wording the operator has confirmed.                    *)
LEMMA DeclarationFilled ==
  ASSUME GrantInv, NEW q \in Declarations, NEW facts,
         Concludes(q, facts).autoFill, ~Concludes(q, facts).absence
  PROVE  /\ Concludes(q, facts).row \in granted \union regranted
         /\ \E s \in Scopes, prompt \in AnsweredAs(q) : AliasOf(prompt, s) \in confirmed
<1> DEFINE r == StoredRow(vault, q)
<1>1. /\ q \in Questions /\ q.prompt \in AnsweredAs(q)
      /\ \A p \in AnsweredAs(q) : Normalize(p) \in DeclaredNames
  BY DEF Declarations, AnsweredAs, DeclaredNames
<1>2. ClassOf[q] = "sensitive"
  BY <1>1, NamesAreKeys, FiledIsDeclaration DEF ClassOf, Employers
<1>3. r # NoRow
  <2>1. ~resolveFromPattern(q).autoFill
    BY <1>2 DEF resolveFromPattern, escalated, Resolution
  <2>2. ~Resolution(FALSE, FALSE, ClassOf[q], NoRow, FALSE).autoFill
    BY DEF Resolution
  <2> QED BY <2>1, <2>2 DEF Concludes, Resolve
<1>4. Concludes(q, facts).row = r /\ vault.row[r].reuse /\ vault.row[r].kind # "absence"
  <2>1. Concludes(q, facts) = resolutionFrom(vault, q, r)
    BY <1>3 DEF Concludes, Resolve
  <2> DEFINE absence == vault.row[r].kind = "absence"
             fills == vault.row[r].reuse /\ ~(absence /\ q.required)
             sensitivity == escalated(q, vault.row[r].sensitivity)
  <2>2. Concludes(q, facts) = Resolution(TRUE, fills, sensitivity, r, absence)
    BY <2>1 DEF resolutionFrom
  <2> HIDE DEF absence, fills, sensitivity, r
  <2>3. Concludes(q, facts).row = r /\ absence = Concludes(q, facts).absence /\ fills = Concludes(q, facts).autoFill
    BY <2>2 DEF Resolution
  <2>4. fills /\ ~absence
    BY <2>3
  <2> QED BY <2>3, <2>4 DEF fills, absence
<1>5. /\ r \in DOMAIN vault.row /\ Live(vault, r)
      /\ \/ \E scope : /\ AliasOf(q.prompt, scope) \in DOMAIN vault.alias
                       /\ r = vault.alias[AliasOf(q.prompt, scope)]
         \/ \E p \in AnsweredAs(q) : \E scope : r = RowOf(p, scope)
  BY <1>1, <1>3, AnsweredBy DEF Live
<1> HIDE DEF r
<1>6. CASE \E scope : /\ AliasOf(q.prompt, scope) \in DOMAIN vault.alias
                      /\ r = vault.alias[AliasOf(q.prompt, scope)]
  <2> PICK scope : /\ AliasOf(q.prompt, scope) \in DOMAIN vault.alias
                   /\ r = vault.alias[AliasOf(q.prompt, scope)]
    BY <1>6
  <2>1. /\ AliasOf(q.prompt, scope)[1] \in DeclaredNames
        /\ AliasOf(q.prompt, scope)[2] = scope
    BY <1>1, KeyOfRow
  <2>2. r[1] \in DeclaredKeys /\ AliasOf(q.prompt, scope) \in confirmed /\ scope \in Scopes
    BY <2>1 DEF GrantInv, VaultInv, AliasesFiled
  <2>3. r \in granted \union regranted
    BY <1>4, <1>5, <2>2 DEF GrantInv, VaultInv, RowsGranted, MayBeReused
  <2> QED BY <1>1, <1>4, <2>2, <2>3
<1>7. CASE \E p \in AnsweredAs(q) : \E scope : r = RowOf(p, scope)
  <2> PICK p \in AnsweredAs(q) : \E scope : r = RowOf(p, scope)
    BY <1>7
  <2> PICK scope : r = RowOf(p, scope)
    OBVIOUS
  <2>1. r[1] \in DeclaredNames /\ r[2] = scope /\ AliasOf(p, scope) = r
    BY <1>1, KeyOfRow
  <2>2. r \in granted \union regranted
    BY <1>4, <1>5, <2>1, NamesAreKeys DEF GrantInv, VaultInv, RowsGranted, MayBeReused
  <2>3. r \in confirmed /\ scope \in Scopes
    BY <2>1, <2>2 DEF GrantInv, VaultInv, GrantsConfirmed, MayBeReused, IsConfirmed
  <2> QED BY <1>4, <2>1, <2>2, <2>3
<1> QED BY <1>5, <1>6, <1>7

(* Whatever is saved, bound, edited, withdrawn and configured, by however  *)
(* many requests at once: a declaration is typed into a form only from a   *)
(* row last saved as one, with both boxes, whose reuse was not withdrawn   *)
(* since -- or was given back by an edit that had read the row before the  *)
(* withdrawal (store.go, resolve.go).                                      *)
THEOREM DeclarationsGranted == KnowledgeSpec => []DeclarationsAreGranted
<1>1. GrantInv => DeclarationsAreGranted
  BY DeclarationFilled DEF DeclarationsAreGranted
<1> QED BY <1>1, InitLook, LookInvIsKept, InitGrants, GrantInvIsKept, PTL DEF KnowledgeSpec

(* And only by a wording the operator has said to mean the same            *)
(* (AddAliases), or saved it by.                                           *)
THEOREM WordingsConfirmed == KnowledgeSpec => []DeclaredWordingsConfirmed
<1>1. GrantInv => DeclaredWordingsConfirmed
  BY DeclarationFilled DEF DeclaredWordingsConfirmed
<1> QED BY <1>1, InitLook, LookInvIsKept, InitGrants, GrantInvIsKept, PTL DEF KnowledgeSpec
=============================================================================
