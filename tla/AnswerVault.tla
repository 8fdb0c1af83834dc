---------------------------- MODULE AnswerVault ----------------------------
(***************************************************************************)
(* The Approved Answer Vault (pkg/answers/store.go, resolve.go): the rows  *)
(* of approved_answers and answer_aliases, what each operation does to     *)
(* them in its one transaction, and what the vault answers to a question.  *)
(*                                                                         *)
(* A row is named by its unique pair of key and scope; rows are never      *)
(* deleted.  The text of an answer and where it came from are left out:    *)
(* every caller of Save passes an operator's provenance.                   *)
(***************************************************************************)
EXTENDS QuestionWords, TLC

CONSTANT Questions  \* what the forms ask: [prompt, control, required, company, ats, ..]

ASSUME QuestionsAssumption ==
  \A q \in Questions : /\ {"prompt", "control", "required", "company"} \subseteq DOMAIN q
                       /\ q.prompt \in Seq(STRING)

NoRow == <<>>

ScopeGlobal == <<"global">>

ATSScope(provider) == IF provider = "" THEN ScopeGlobal ELSE <<"ats", provider>>

CompanyScope(company) ==
  IF normalizeCompany(company) = <<>> THEN ScopeGlobal
                                      ELSE <<"company">> \o normalizeCompany(company)

Answer(kind, sensitivity, reuse) ==
  [kind |-> kind, sensitivity |-> sensitivity, reuse |-> reuse, revoked |-> FALSE]

EmptyVault == [row |-> [r \in {} |-> r], alias |-> [a \in {} |-> a]]

Live(v, r) == r \in DOMAIN v.row /\ ~v.row[r].revoked

RowOf(prompt, scope) == <<QuestionKey(prompt), scope>>

AliasOf(prompt, scope) == <<Normalize(prompt), scope>>

(* The wording of a family that is no declaration has nothing of one.      *)
ASSUME SeedsAssumption ==
  \A i \in {k \in DOMAIN patterns : patterns[k].id \in DOMAIN seedQuestions} :
    IsDeclaration([prompt |-> seedQuestions[patterns[i].id], company |-> <<>>])
      => patterns[i].sensitivity = "sensitive"

----------------------------------------------------------------------------
(* What the operator decides.                                              *)

(* A caller may raise the classification of a question, never lower it.    *)
SaveSensitivity(q, asked) == IF asked = "sensitive" THEN asked ELSE Classify(q)

HasKey(q) == QuestionKey(q.prompt) # <<>>

MayStore(sensitivity, reuse) ==
  /\ sensitivity # "generate_per_job"
  /\ sensitivity = "sensitive" => reuse

(* Rows or aliases are put in the place of what is there.                  *)
Replaced(table, names, value) ==
  [n \in DOMAIN table \union names |-> IF n \in names THEN value ELSE table[n]]

(* An approval replaces the row and takes a revocation back; with reuse    *)
(* the wording is bound to it, whatever it was bound to before.            *)
storeApprovedAnswer(v, prompt, scope, answer) ==
  [ row |-> Replaced(v.row, {RowOf(prompt, scope)}, answer),
    alias |-> IF answer.reuse
              THEN Replaced(v.alias, {AliasOf(prompt, scope)}, RowOf(prompt, scope))
              ELSE v.alias ]

Save(v, q, scope, asked, reuse) ==
  storeApprovedAnswer(v, q.prompt, scope, Answer("value", SaveSensitivity(q, asked), reuse))

SaveAbsence(v, q, scope) ==
  storeApprovedAnswer(v, q.prompt, scope, Answer("absence", Classify(q), TRUE))

(* Mutant: nobody is asked whether the wordings mean the same.             *)
BindableUnconfirmed(v, r, confirmed) == Live(v, r) /\ v.row[r].reuse

(* AddAliases, what is read before its transaction and what is written.    *)
Bindable(v, r, confirmed) ==
  /\ Live(v, r) /\ v.row[r].reuse
  /\ v.row[r].sensitivity = "sensitive" => confirmed

AddAliases(v, r, prompts) ==
  [v EXCEPT !.alias = Replaced(@, {AliasOf(p, r[2]) : p \in {x \in prompts : Normalize(x) # <<>>}}, r)]

Unbound(v, r) ==
  [a \in {x \in DOMAIN v.alias : v.alias[x] # r} |-> v.alias[a]]

(* Mutant: an edit may grant what it likes.                                *)
AnyEdit(v, r, reuse) == Live(v, r)

(* UpdateAnswer, what is read before its transaction and what is written.  *)
(* A declaration that has lost its reuse is not given it back by an edit.  *)
Editable(v, r, reuse) ==
  /\ Live(v, r)
  /\ v.row[r].sensitivity = "sensitive" /\ reuse => v.row[r].reuse

UpdateAnswer(v, r, reuse) ==
  [ row |-> IF Live(v, r) THEN [v.row EXCEPT ![r].reuse = reuse] ELSE v.row,
    alias |-> IF reuse THEN v.alias ELSE Unbound(v, r) ]

Revoke(v, r) ==
  [ row |-> [v.row EXCEPT ![r].revoked = TRUE, ![r].reuse = FALSE],
    alias |-> Unbound(v, r) ]

(* Suggestions for the configured facts; a row there is, revoked or not,   *)
(* stays as it is.                                                         *)
SeedFromPII(v, configured) ==
  LET ids == {i \in DOMAIN patterns : patterns[i].id \in configured \cap DOMAIN seedQuestions}
      seed(i) == RowOf(seedQuestions[patterns[i].id], ScopeGlobal)
      suggested(r) == CHOOSE i \in ids : seed(i) = r
  IN [v EXCEPT !.row =
        [ r \in DOMAIN @ \union {seed(i) : i \in ids} |->
            IF r \in DOMAIN @ THEN @[r]
            ELSE Answer("value", patterns[suggested(r)].sensitivity, FALSE) ]]

----------------------------------------------------------------------------
(* What the vault answers.                                                 *)

resolveFromAlias(q, scope) == <<"alias", AliasOf(q.prompt, scope)>>

resolveFromKey(key, scope) == <<"row", <<key, scope>>>>

(* What is looked up in one scope: the wording's alias, its own key, and   *)
(* the key of the skill it asks about, if it does.                         *)
LookUps(q, scope) ==
  << resolveFromAlias(q, scope), resolveFromKey(QuestionKey(q.prompt), scope) >>
    \o (IF SkillExperienceSubject(q) = <<>> THEN <<>>
        ELSE << resolveFromKey(QuestionKey(SkillExperienceQuestion(SkillExperienceSubject(q))),
                               scope) >>)

(* All look-ups of a question, the most specific scope first.  This and    *)
(* what follows are constants of a question, computed once.                *)
LookUpsOf ==
  [q \in Questions |->
     LET Specific(scope) == IF scope = ScopeGlobal THEN <<>> ELSE LookUps(q, scope)
     IN Specific(CompanyScope(q.company)) \o Specific(ATSScope(q.ats)) \o LookUps(q, ScopeGlobal)]

ClassOf == [q \in Questions |-> Classify(q)]

FamilyOf == [q \in Questions |-> MatchedPatternID(q)]

PatternSensitivity == [q \in Questions |-> IF FamilyOf[q] = "" THEN "" ELSE patterns[matchPattern(q)].sensitivity]

(* The row a look-up names: what the wording is bound to, or the key; no   *)
(* row has an empty key.                                                   *)
Named(v, lookup) ==
  IF lookup[1] = "row" THEN lookup[2]
  ELSE IF lookup[2] \in DOMAIN v.alias THEN v.alias[lookup[2]] ELSE NoRow

(* The row that answers a question: the first that is live.                *)
StoredRow(v, q) ==
  LET found == {i \in DOMAIN LookUpsOf[q] : Live(v, Named(v, LookUpsOf[q][i]))}
  IN IF found = {} THEN NoRow
     ELSE Named(v, LookUpsOf[q][CHOOSE i \in found : \A k \in found : i <= k])

Resolution(resolved, autoFill, sensitivity, row, absence) ==
  [resolved |-> resolved, autoFill |-> autoFill, sensitivity |-> sensitivity,
   row |-> row, absence |-> absence]

escalated(q, sensitivity) == IF ClassOf[q] = "sensitive" THEN "sensitive" ELSE sensitivity

(* A row fills a field if its reuse is granted; the decision to leave one  *)
(* blank is no answer where the form requires one.                         *)
resolutionFrom(v, q, r) ==
  LET absence == v.row[r].kind = "absence"
  IN Resolution(TRUE, v.row[r].reuse /\ ~(absence /\ q.required),
                escalated(q, v.row[r].sensitivity), r, absence)

(* A configured fact fills a field unless the family or the wording says   *)
(* that it is a declaration.                                               *)
resolveFromPattern(q) ==
  LET sensitivity == escalated(q, PatternSensitivity[q])
  IN Resolution(TRUE, sensitivity = "routine", sensitivity, NoRow, FALSE)

Resolve(v, q, configured) ==
  LET row == StoredRow(v, q)
  IN IF row # NoRow THEN resolutionFrom(v, q, row)
     ELSE IF FamilyOf[q] \in configured THEN resolveFromPattern(q)
     ELSE Resolution(FALSE, FALSE, ClassOf[q], NoRow, FALSE)
============================================================================
