------------------------ MODULE ApplicationKnowledge ------------------------
(***************************************************************************)
(* What the queue of applications asks, and how the operator answers it    *)
(* once (pkg/knowledge over the vault): the open questions of every job,   *)
(* grouped; an approval that stores one answer, binds the wordings of its  *)
(* group and looks through the queue again; edits and withdrawals from     *)
(* other tabs between those steps; assisted browsers and preparation that  *)
(* read the vault and replace the questions meanwhile.                     *)
(*                                                                         *)
(* A question is [job, prompt, control, options, required, company, ats].  *)
(***************************************************************************)
EXTENDS AnswerVault, Integers, FiniteSets

CONSTANTS
  Jobs,          \* queued applications
  Requests,      \* the dashboard's requests that may be under way at once
  Profiles,      \* what pii.yaml may have configured: sets of families
  Scopes,        \* the scopes the operator may choose
  DecisionLimit, \* bound: decisions the operator takes
  ChangeLimit    \* bound: decisions there may be in all with an edit or a withdrawal

VARIABLES
  vault,       \* approved_answers and answer_aliases
  pending,     \* rows of application_questions with status pending
  declared,    \* rows stored as sensitive
  answered,    \* rows with status answered
  fillable,    \* rows marked auto_fillable
  held,        \* jobs a live assisted browser has the lease of
  configured,  \* the families pii.yaml has a value for
  profiles,    \* what it has had configured so far: what a reader may have read
  request,     \* what each request of the dashboard is doing
  decisions,   \* decisions taken so far
  granted,     \* history: rows last saved as a declaration with both boxes, and
               \* whose reuse was not withdrawn since
  regranted,   \* history: rows whose withdrawn reuse an edit gave back that had
               \* read them before
  confirmed,   \* history: aliases the operator said mean the same
  undisturbed  \* history: requests since whose look at the queue nothing changed

grants == <<granted, regranted>>

knowledgeVars == <<vault, pending, declared, answered, fillable, held, configured, profiles,
                   request, decisions, grants, confirmed, undisturbed>>

Idle == [step |-> "idle"]

Asked(j) == {q \in Questions : q.job = j}

Open == {q \in pending : q.job \notin held}

(* By a reader that has read the profile facts.                            *)
Concludes(q, facts) == Resolve(vault, q, facts)

Unfilled(S, facts) == {q \in S : ~Concludes(q, facts).autoFill}

----------------------------------------------------------------------------
(* Groups.                                                                 *)

groupKey(q) ==
  IF FamilyOf[q] # "" THEN <<"pattern", FamilyOf[q]>>
  ELSE IF SkillExperienceSubject(q) # <<>> THEN <<"experience">> \o SkillExperienceSubject(q)
  ELSE <<"q">> \o QuestionKey(q.prompt)

GroupOf == [q \in Questions |-> groupKey(q)]

(* The groups of the inbox, each the set of its questions.                 *)
Inbox ==
  LET unfilled == Unfilled(Open, configured)
  IN { {q \in unfilled : GroupOf[q] = GroupOf[x]} : x \in unfilled }

(* The strictest reading wins.                                             *)
GroupSensitivity(group) ==
  LET readings == {Concludes(q, configured).sensitivity : q \in group}
  IN IF "sensitive" \in readings THEN "sensitive"
     ELSE IF "generate_per_job" \in readings THEN "generate_per_job" ELSE "routine"

OptionsVary(group) == Cardinality({q.options : q \in group} \ {{}}) > 1

(* The wording an answer is filed under: the vault's own where there is    *)
(* one, else the shortest seen.                                            *)
canonicalPromptFor(group) ==
  LET q == CHOOSE x \in group : \A y \in group : Len(x.prompt) <= Len(y.prompt)
  IN IF FamilyOf[q] \in DOMAIN seedQuestions THEN seedQuestions[FamilyOf[q]]
     ELSE IF FamilyOf[q] = "" /\ SkillExperienceSubject(q) # <<>>
          THEN SkillExperienceQuestion(SkillExperienceSubject(q))
     ELSE q.prompt

questionFromGroup(group) ==
  LET q == CHOOSE x \in group : \A y \in group : y.control = "textarea" => x.control = "textarea"
  IN [q EXCEPT !.prompt = canonicalPromptFor(group),
               !.required = \E x \in group : x.required,
               !.company = IF Cardinality({x.company : x \in group}) = 1 THEN @ ELSE <<>>]

(* The other wordings of a group, to be bound to its answer.               *)
ExtraPhrasings(group) ==
  {q.prompt : q \in {x \in group : Normalize(x.prompt) # Normalize(canonicalPromptFor(group))}}

(* Constants of a group, computed once.                                    *)
Groups == (SUBSET Questions) \ {{}}

QuestionOf == [group \in Groups |-> questionFromGroup(group)]

PhrasingsOf == [group \in Groups |-> ExtraPhrasings(group)]

GroupClassOf == [group \in Groups |-> Classify(questionFromGroup(group))]

----------------------------------------------------------------------------
(* Readers of the vault that rewrite the questions of one job.             *)

(* The rows are deleted and written anew: a re-evaluation still under way  *)
(* no longer finds them.  The profile was read when the reader started.    *)
Replace(j, facts) ==
  /\ LET asks == Unfilled(Asked(j), facts)
     IN /\ pending' = (pending \ Asked(j)) \union (asks \ answered)
        /\ declared' = (declared \ Asked(j)) \union
                         {q \in asks : Concludes(q, facts).sensitivity = "sensitive"}
  /\ fillable' = fillable \ Asked(j)
  /\ request' = [r \in Requests |->
       IF request[r].step \notin {"resolve", "mark"} THEN request[r]
       ELSE IF request[r].step = "mark" /\ request[r].question \in Asked(j)
       THEN [step |-> "resolve", facts |-> request[r].facts, todo |-> request[r].todo \ Asked(j)]
       ELSE [request[r] EXCEPT !.todo = @ \ Asked(j)]]

(* cmd/preflight inspects a form; it asks nobody whether a browser holds   *)
(* the job.                                                                *)
Prepare(j, facts) ==
  /\ Replace(j, facts)
  /\ UNCHANGED <<vault, answered, held, configured, decisions, grants, confirmed>>

(* An assisted browser opens the form, fills what it may, and asks the     *)
(* operator the rest.                                                      *)
OpenForm(j, facts) ==
  /\ j \notin held
  /\ held' = held \union {j}
  /\ Replace(j, facts)
  /\ UNCHANGED <<vault, answered, configured, decisions, grants, confirmed>>

CloseForm(j) ==
  /\ j \in held
  /\ held' = held \ {j}
  /\ UNCHANGED <<vault, pending, declared, answered, fillable, configured, request, decisions,
                 grants, confirmed>>

----------------------------------------------------------------------------
(* The operator's decisions.                                               *)

DecidesWithin(limit) == decisions < limit /\ decisions' = decisions + 1

Decides == DecidesWithin(DecisionLimit)

Becomes(r, what) == request' = [request EXCEPT ![r] = what]

QueueUnchanged == UNCHANGED <<pending, declared, answered, fillable, held, configured>>

(* A look through the queue is next, with the profile the request has read.*)
ToQueue(facts) == [step |-> "queue", facts |-> facts]

(* Approve and ApproveAbsence: the profile and the group are read, and the *)
(* group checked, first.                                                   *)
LoadGroup(r, group, absence, scope, box, same) ==
  /\ IF absence THEN GroupSensitivity(group) # "generate_per_job" ELSE ~OptionsVary(group)
  /\ Becomes(r, [step |-> "save", group |-> group, sensitivity |-> GroupSensitivity(group),
                 absence |-> absence, scope |-> scope, box |-> box, same |-> same,
                 facts |-> configured])
  /\ QueueUnchanged /\ UNCHANGED <<vault, grants, confirmed>>

(* What a save with both boxes, or one without, is remembered for.         *)
GrantedBy(row, sensitivity) ==
  /\ granted' = IF sensitivity = "sensitive" THEN granted \union {row} ELSE granted \ {row}
  /\ regranted' = regranted \ {row}

(* An edit without reuse and a withdrawal take it back.                    *)
Ungranted(row) == granted' = granted \ {row} /\ regranted' = regranted \ {row}

(* What the operator has said of a declaration's answer, or an edit that   *)
(* came too late.                                                          *)
MayBeReused(row) ==
  \/ row \in granted \union regranted
  \/ row \in DOMAIN vault.row /\ vault.row[row].kind = "absence"

(* The wording saved is bound to its own answer.                           *)
Rebinds(alias) == confirmed' = confirmed \union {alias}

(* The other wordings of the group are next.                               *)
Saves(r, d, q) ==
  LET row == RowOf(q.prompt, d.scope)
  IN /\ vault' = IF d.absence THEN SaveAbsence(vault, q, d.scope)
                              ELSE Save(vault, q, d.scope, d.sensitivity, TRUE)
     /\ GrantedBy(row, IF d.absence THEN "routine" ELSE SaveSensitivity(q, d.sensitivity))
     /\ Rebinds(AliasOf(q.prompt, d.scope))
     /\ Becomes(r, IF PhrasingsOf[d.group] # {}
                   THEN [step |-> "check", row |-> row, same |-> d.same,
                         phrasings |-> PhrasingsOf[d.group], facts |-> d.facts]
                   ELSE ToQueue(d.facts))

(* The second box counts for a declaration; an absence is always to be     *)
(* reused, and nobody is asked a second time.  Nothing that is stored here *)
(* is without reuse.                                                       *)
SaveGroup(r) ==
  LET d == request[r]
      q == QuestionOf[d.group]
      declaration == "sensitive" \in {d.sensitivity, GroupClassOf[d.group]}
      reuse == d.absence \/ (declaration => d.box)
      sensitivity == IF d.absence THEN GroupClassOf[d.group] ELSE SaveSensitivity(q, d.sensitivity)
  IN /\ d.step = "save"
     /\ IF HasKey(q) /\ MayStore(sensitivity, reuse) THEN Saves(r, d, q)
        ELSE Becomes(r, Idle) /\ UNCHANGED <<vault, grants, confirmed>>
     /\ QueueUnchanged /\ UNCHANGED decisions

(* Wordings of a declaration that nobody confirmed are left alone; an      *)
(* answer withdrawn meanwhile ends the request with an error.              *)
CheckPhrasings(r) ==
  LET d == request[r]
  IN /\ d.step = "check"
     /\ IF Bindable(vault, d.row, d.same) THEN Becomes(r, [d EXCEPT !.step = "bind"])
        ELSE IF Bindable(vault, d.row, TRUE) THEN Becomes(r, ToQueue(d.facts))
        ELSE Becomes(r, Idle)
     /\ QueueUnchanged /\ UNCHANGED <<vault, decisions, grants, confirmed>>

BindPhrasings(r) ==
  LET d == request[r]
      bound == {AliasOf(p, d.row[2]) : p \in d.phrasings}
  IN /\ d.step = "bind"
     /\ vault' = AddAliases(vault, d.row, d.phrasings)
     /\ confirmed' = IF d.same THEN confirmed \union bound ELSE confirmed \ bound
     /\ Becomes(r, ToQueue(d.facts))
     /\ QueueUnchanged /\ UNCHANGED <<decisions, grants>>

(* ReEvaluate: the open questions no browser holds, one after the other.   *)
ReadQueue(r) ==
  /\ request[r].step = "queue"
  /\ Becomes(r, [step |-> "resolve", facts |-> request[r].facts, todo |-> Open])
  /\ QueueUnchanged /\ UNCHANGED <<vault, decisions, grants, confirmed>>

ResolveQueued(r) ==
  /\ request[r].step = "resolve" /\ request[r].todo # {}
  /\ LET q == CHOOSE x \in request[r].todo :
                \A y \in request[r].todo : x.job < y.job \/ (x.job = y.job /\ (y.required => x.required))
     IN Becomes(r, [step |-> "mark", facts |-> request[r].facts, todo |-> request[r].todo \ {q},
                    question |-> q, autoFill |-> Concludes(q, request[r].facts).autoFill])
  /\ QueueUnchanged /\ UNCHANGED <<vault, decisions, grants, confirmed>>

(* Mutant: what can no longer be filled stays marked.                      *)
MarkOnlyAnswered(r) ==
  LET d == request[r]
  IN /\ d.step = "mark"
     /\ fillable' = IF d.autoFill /\ d.question \in pending
                    THEN fillable \union {d.question} ELSE fillable
     /\ Becomes(r, [step |-> "resolve", facts |-> d.facts, todo |-> d.todo])
     /\ UNCHANGED <<vault, pending, declared, answered, held, configured, decisions,
                    grants, confirmed>>

(* Only a question still pending is marked.                                *)
SetQuestionResolution(r) ==
  LET d == request[r]
  IN /\ d.step = "mark"
     /\ fillable' = IF d.question \notin pending THEN fillable
                    ELSE IF d.autoFill THEN fillable \union {d.question}
                    ELSE fillable \ {d.question}
     /\ Becomes(r, [step |-> "resolve", facts |-> d.facts, todo |-> d.todo])
     /\ UNCHANGED <<vault, pending, declared, answered, held, configured, decisions,
                    grants, confirmed>>

Reports(r) ==
  /\ request[r].step = "resolve" /\ request[r].todo = {}
  /\ Becomes(r, Idle)
  /\ QueueUnchanged /\ UNCHANGED <<vault, decisions, grants, confirmed>>

(* rememberApprovedAnswers: the answer typed on a card is also kept, if    *)
(* the operator says so.  The card is answered whether the vault takes it  *)
(* or not.                                                                 *)
Remember(q, scope, keep, box) ==
  LET reuse == q \in declared \/ ClassOf[q] = "sensitive" => box
      row == RowOf(q.prompt, scope)
  IN /\ q \in pending /\ q.job \in held /\ Decides
     /\ pending' = pending \ {q} /\ answered' = answered \union {q}
     /\ IF keep /\ HasKey(q) /\ MayStore(ClassOf[q], reuse)
        THEN /\ vault' = Save(vault, q, scope, "", reuse)
             /\ GrantedBy(row, ClassOf[q])
             /\ IF reuse THEN Rebinds(AliasOf(q.prompt, scope)) ELSE UNCHANGED confirmed
        ELSE UNCHANGED <<vault, grants, confirmed>>
     /\ UNCHANGED <<declared, fillable, held, configured, request>>

(* serveAnswerVault, PATCH: the row is read and checked, and written       *)
(* later, whatever became of its reuse in between.                         *)
Edit(r, row, reuse) ==
  /\ request[r] = Idle /\ DecidesWithin(ChangeLimit)
  /\ Editable(vault, row, reuse)
  /\ Becomes(r, [step |-> "edit", row |-> row, reuse |-> reuse, seen |-> MayBeReused(row)])
  /\ QueueUnchanged /\ UNCHANGED <<vault, grants, confirmed>>

CommitEdit(r) ==
  LET d == request[r]
  IN /\ d.step = "edit"
     /\ vault' = UpdateAnswer(vault, d.row, d.reuse)
     /\ IF ~d.reuse THEN Ungranted(d.row)
        ELSE /\ regranted' = IF d.seen /\ Live(vault, d.row) /\ ~MayBeReused(d.row)
                             THEN regranted \union {d.row} ELSE regranted
             /\ UNCHANGED granted
     /\ Becomes(r, Idle)
     /\ QueueUnchanged /\ UNCHANGED <<decisions, confirmed>>

(* serveAnswerVault, DELETE.                                               *)
Withdraw(row) ==
  /\ Live(vault, row) /\ DecidesWithin(ChangeLimit)
  /\ vault' = Revoke(vault, row)
  /\ Ungranted(row)
  /\ QueueUnchanged /\ UNCHANGED <<request, confirmed>>

(* serveKnowledgeProfile, POST: the file is replaced; then it is read, and *)
(* the queue looked at.                                                    *)
SaveProfile(r, facts) ==
  /\ request[r] = Idle /\ Decides
  /\ facts # configured /\ configured' = facts
  /\ Becomes(r, [step |-> "open"])
  /\ UNCHANGED <<vault, pending, declared, answered, fillable, held, grants, confirmed>>

openKnowledgeService(r) ==
  /\ request[r].step = "open"
  /\ Becomes(r, ToQueue(configured))
  /\ QueueUnchanged /\ UNCHANGED <<vault, decisions, grants, confirmed>>

(* The dashboard ends and starts again, which seeds the vault.             *)
Restart ==
  /\ vault' = SeedFromPII(vault, configured)
  /\ request' = [r \in Requests |-> Idle]
  /\ UNCHANGED <<pending, declared, answered, fillable, held, configured, decisions,
                 grants, confirmed>>

----------------------------------------------------------------------------
KnowledgeInit ==
  /\ configured \in Profiles /\ profiles = {configured}
  /\ vault = SeedFromPII(EmptyVault, configured)
  /\ pending = {} /\ declared = {} /\ answered = {} /\ fillable = {} /\ held = {}
  /\ request = [r \in Requests |-> Idle] /\ decisions = 0
  /\ granted = {} /\ regranted = {} /\ confirmed = {} /\ undisturbed = {}

(* A box is left empty where nothing asks for it.                          *)
Approves(r) ==
  /\ request[r] = Idle /\ Decides
  /\ \E group \in Inbox, absence, box, same \in BOOLEAN, scope \in Scopes :
    /\ box => ~absence /\ "sensitive" \in {GroupSensitivity(group), GroupClassOf[group]}
    /\ same => PhrasingsOf[group] # {}
    /\ LoadGroup(r, group, absence, scope, box, same)

Proceeds(r) ==
  \/ SaveGroup(r) \/ CheckPhrasings(r) \/ BindPhrasings(r)
  \/ ReadQueue(r) \/ ResolveQueued(r) \/ SetQuestionResolution(r) \/ Reports(r)
  \/ openKnowledgeService(r) \/ CommitEdit(r)

(* A request that looks through the queue while nothing else changes, no   *)
(* other request is about to write what it found before, and none that has *)
(* read another profile marks anything.                                    *)
LooksAlone(r) ==
  /\ request'[r].step \in {"resolve", "mark"}
  /\ \/ r \in undisturbed
     \/ request[r].step = "queue" /\ \A x \in Requests : request[x].step # "mark"
  /\ \A x \in Requests : request[x].step = "mark" /\ request'[x].step # "mark" =>
       request[x].facts = request[r].facts
  /\ UNCHANGED <<vault, pending, held>>

(* The questions of a job are written anew by a reader of some profile.    *)
FormIsRead(facts) == \E j \in Jobs : Prepare(j, facts) \/ OpenForm(j, facts)

KnowledgeStep ==
  \/ \E j \in Jobs : CloseForm(j)
  \/ \E r \in Requests : Approves(r) \/ Proceeds(r)
  \/ \E q \in Questions, scope \in Scopes, keep, box \in BOOLEAN : Remember(q, scope, keep, box)
  \/ \E r \in Requests, row \in DOMAIN vault.row, reuse \in BOOLEAN : Edit(r, row, reuse)
  \/ \E row \in DOMAIN vault.row : Withdraw(row)
  \/ \E r \in Requests, facts \in Profiles : SaveProfile(r, facts)
  \/ Restart

KnowledgeNext ==
  /\ \/ /\ KnowledgeStep
        /\ undisturbed' = {r \in Requests : LooksAlone(r)}
     \/ \E facts \in profiles :
          /\ FormIsRead(facts)
          /\ undisturbed' = {r \in Requests : LooksAlone(r) /\ request[r].facts = facts}
  /\ profiles' = profiles \union {configured'}

KnowledgeSpec == KnowledgeInit /\ [][KnowledgeNext]_knowledgeVars

----------------------------------------------------------------------------
(* Properties.                                                             *)

(* The wordings whose row answers a question of that wording: its own, and *)
(* the one all questions for years of a skill are reduced to.              *)
AnsweredAs(q) ==
  {q.prompt} \union
  {SkillExperienceQuestion(s) : s \in {SkillExperienceSubject(q)} \ {<<>>}}

Employers == {q.company : q \in Questions} \union {<<>>}

(* The wordings an answer to it may be filed under: those, and the one of  *)
(* the group of any question worded like them.                             *)
FiledAs(q) ==
  LET alike == {x \in Questions : \E p \in AnsweredAs(q) : Normalize(x.prompt) = Normalize(p)}
  IN AnsweredAs(q) \union
       {canonicalPromptFor({y}) : y \in {z \in Questions : \E x \in alike : GroupOf[z] = GroupOf[x]}}

(* The questions that are declarations whoever asks them, and that are     *)
(* filed under wordings that are declarations too.                         *)
Declarations ==
  { q \in Questions :
      \A company \in Employers, prompt \in FiledAs(q) :
        IsDeclaration([prompt |-> prompt, company |-> company]) }

(* store.go, sensitivity.go: a declaration is never typed into a form      *)
(* unless its answer was last saved as one, with both boxes, and its reuse *)
(* not withdrawn since -- neither from configured facts nor by a bound     *)
(* wording or a broader scope, and by an edit in one case only: the edit   *)
(* had read the row before the withdrawal, and wrote it after.             *)
(*                                                                         *)
(* Left out are two kinds of declarations whose answer may have been kept  *)
(* as a routine one: a wording that is one only by an employer's name, and *)
(* one the operator let a routine question stand for, by approving it in   *)
(* the group of that question.                                             *)
DeclarationsAreGranted ==
  \A q \in Declarations, facts \in profiles :
    LET a == Concludes(q, facts)
    IN a.autoFill /\ ~a.absence => a.row \in granted \union regranted

(* AddAliases: that two wordings of a declaration ask the same is the      *)
(* operator's to say, but for those that ask for years of one skill.       *)
DeclaredWordingsConfirmed ==
  \A q \in Declarations, facts \in profiles :
    LET a == Concludes(q, facts)
    IN a.autoFill /\ ~a.absence =>
         \E s \in Scopes, prompt \in AnsweredAs(q) : AliasOf(prompt, s) \in confirmed

(* ReEvaluate: after a look through the queue that nothing disturbed, the  *)
(* questions shown as filled without asking are those that would be by a   *)
(* browser that has read the profile the request has: the one configured,  *)
(* unless that was saved anew since the request was opened.                *)
ReportIsAsRead ==
  \A r \in undisturbed : request[r].step = "resolve" /\ request[r].todo = {} =>
    \A q \in Open : q \in fillable <=> Concludes(q, request[r].facts).autoFill
=============================================================================
