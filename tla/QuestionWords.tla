--------------------------- MODULE QuestionWords ---------------------------
(***************************************************************************)
(* What the vault reads off the wording of a question (pkg/answers):       *)
(* its key, how carefully it has to be handled, the skill it asks about    *)
(* and the curated family it belongs to.                                   *)
(*                                                                         *)
(* A wording is a sequence of lower-case words without markup.  Of several *)
(* spellings of a word the lists name one.  The keys of two long wordings  *)
(* are taken to differ when the wordings do.                               *)
(***************************************************************************)
EXTENDS Naturals, Sequences, SequencesExt

questionStopWords ==
  {"a", "the", "do", "did", "you", "your", "are", "is", "was", "be", "been", "will", "would",
   "please", "if", "of", "for", "to", "in", "on", "at", "we", "this", "and",
   "or", "currently", "ever", "have", "any", "there", "it", "as", "with"}

requiredMarkers == {"required", "optional", "*"}

Normalize(prompt) ==
  SelectSeq(prompt, LAMBDA w : w \notin questionStopWords \union requiredMarkers)

Tokens(prompt) == ToSet(Normalize(prompt))

QuestionKey(prompt) == Normalize(prompt)

companySuffixes == {"inc", "llc", "ltd", "corp", "gmbh"}

normalizeCompany(company) == SelectSeq(company, LAMBDA w : w \notin companySuffixes)

----------------------------------------------------------------------------
(* How carefully a question has to be handled.                             *)

(* Work permits, criminal record, clearance, protected characteristics,    *)
(* pay, legal declarations.                                                *)
sensitiveMarkers ==
  {"authorized", "eligible", "sponsorship", "visa", "citizen", "felony", "convicted",
   "background", "drug", "clearance", "disability", "accommodation", "veteran",
   "protected", "gender", "race", "orientation", "pronouns", "age", "birth",
   "salary", "pay", "certify", "attest", "affirm", "acknowledge", "consent",
   "agree", "terms", "policy", "accurate"}

generatedMarkers ==
  {"why", "interest", "excites", "motivates", "drew", "describe", "tell", "explain", "cover"}

generatedRequiresFreeText == {"textarea", "text", ""}

longFreeTextPrompt == 12  \* 120 characters in the code; words here

(* The employer's own name is no declaration.  A control without a label   *)
(* that can be read is the least safe to answer.                           *)
IsDeclaration(q) ==
  LET present == Tokens(q.prompt) \ Tokens(q.company)
  IN present = {} \/ present \cap sensitiveMarkers # {}

IsEssay(q) ==
  /\ q.control \in generatedRequiresFreeText
  /\ \/ (Tokens(q.prompt) \ Tokens(q.company)) \cap generatedMarkers # {}
     \/ q.control = "textarea" /\ Len(Normalize(q.prompt)) >= longFreeTextPrompt

Classify(q) ==
  IF IsDeclaration(q) THEN "sensitive"
  ELSE IF IsEssay(q) THEN "generate_per_job" ELSE "routine"

----------------------------------------------------------------------------
(* "How many years of <skill>?"                                            *)

experienceDurationTokens == {"years", "long", "duration"}

experienceSubjectTokens == {"experience", "work", "worked", "use", "used"}

experienceGenericTokens ==
  experienceDurationTokens \union experienceSubjectTokens \union
  {"how", "what", "many", "much", "about", "number", "hands", "professional",
   "total", "relevant", "industry", "full", "time", "minimum", "least", "required"}

(* The words left, or none when it is not a question for years of a skill. *)
SkillExperienceSubject(q) ==
  IF /\ Tokens(q.prompt) \cap experienceDurationTokens # {}
     /\ Tokens(q.prompt) \cap experienceSubjectTokens # {}
  THEN SelectSeq(Normalize(q.prompt),
                 LAMBDA w : w \notin experienceGenericTokens \union Tokens(q.company))
  ELSE <<>>

SkillExperienceQuestion(subject) ==
  <<"how", "many", "years", "of">> \o subject \o <<"experience", "do", "you", "have">>

----------------------------------------------------------------------------
(* The curated families.                                                   *)

Family(id, requireAll, deny, sensitivity) ==
  [id |-> id, requireAll |-> requireAll, deny |-> deny, sensitivity |-> sensitivity]

declarationPatterns ==
  << Family("sponsorship", {{"sponsorship", "visa"}}, {}, "sensitive"),
     Family("work_authorization", {{"authorized", "eligible", "legally"}, {"work", "employment"}},
            {"sponsorship", "visa"}, "sensitive"),
     Family("security_clearance", {{"clearance", "classified"}}, {}, "sensitive"),
     Family("criminal_history", {{"felony", "convicted", "criminal"}}, {}, "sensitive"),
     Family("desired_salary", {{"salary", "pay", "wage"}}, {}, "sensitive") >>

linkPatterns ==
  << Family("linkedin", {{"linkedin"}}, {}, "routine"),
     Family("github", {{"github", "git"}}, {}, "routine"),
     Family("twitter", {{"twitter", "x"}}, {"linkedin", "github"}, "routine"),
     Family("portfolio", {{"portfolio", "website", "personal", "blog"}},
            {"linkedin", "github"}, "routine") >>

(* An education prompt with one of these asks for an essay.                *)
educationEssayTokens == generatedMarkers \union {"elaborate", "summarize", "prepared", "choose"}

workPatterns ==
  << Family("years_experience", {{"years"}, {"experience"}}, {"specific", "particular"}, "routine"),
     Family("current_title", {{"current", "present"}, {"title", "role"}}, {}, "routine"),
     Family("current_employer", {{"current", "present", "most", "recent"}, {"employer", "company"}},
            {}, "routine"),
     Family("remote_preference", {{"remote", "onsite", "hybrid"}}, {}, "routine"),
     Family("willing_to_relocate", {{"relocate"}}, {}, "routine"),
     Family("notice_period", {{"notice"}}, {}, "routine"),
     Family("earliest_start", {{"start", "available"}, {"date", "when", "earliest"}}, {}, "routine"),
     Family("certifications", {{"certifications"}}, {}, "routine"),
     Family("education", {{"education", "university", "degree"}, {"background", "highest", "level"}},
            educationEssayTokens, "sensitive"),
     Family("how_did_you_hear", {{"hear", "find", "learn", "source", "referral"}}, {}, "routine"),
     Family("previously_employed", {{"previously", "before", "former"}, {"employed", "worked"}},
            {}, "routine"),
     Family("over_18", {{"18", "eighteen"}}, {}, "sensitive") >>

(* Somebody who is not the applicant.                                      *)
otherPartyTokens ==
  {"reference", "referral", "manager", "recruiter", "contact", "emergency",
   "spouse", "parent", "employer", "company", "school", "university"}

OwnFact(id, requireAll, deny) ==
  Family(id, requireAll, deny \union otherPartyTokens, "routine")

contactPatterns ==
  << OwnFact("first_name", {{"first", "given", "preferred"}, {"name"}}, {}),
     OwnFact("last_name", {{"last", "surname", "family"}, {"name"}}, {}),
     OwnFact("full_name", {{"name"}}, {}),
     OwnFact("email", {{"email", "mail"}}, {}),
     OwnFact("phone", {{"phone", "mobile"}}, {}),
     OwnFact("city", {{"city", "town"}}, {}),
     OwnFact("state_region", {{"state", "province", "region"}}, {"united", "country"}),
     OwnFact("postal_code", {{"zip", "postal"}}, {}),
     OwnFact("country", {{"country"}}, {"zone", "code", "citizen", "nationality", "passport"}),
     OwnFact("street_address", {{"street", "address"}}, {"email", "ip", "web"}) >>

patterns == declarationPatterns \o linkPatterns \o workPatterns \o contactPatterns

matchesPattern(q, candidate) ==
  /\ candidate.id = "years_experience" => SkillExperienceSubject(q) = <<>>
  /\ Tokens(q.prompt) \cap candidate.deny = {}
  /\ \A group \in candidate.requireAll : Tokens(q.prompt) \cap group # {}

(* The first family that claims the question, 0 for none.                  *)
matchPattern(q) == SelectInSeq(patterns, LAMBDA candidate : matchesPattern(q, candidate))

MatchedPatternID(q) == IF matchPattern(q) = 0 THEN "" ELSE patterns[matchPattern(q)].id

(* The wording a family's answer is filed under.  The contact facts and    *)
(* the twitter link have none.                                             *)
seedQuestions ==
  [sponsorship |-> <<"will", "you", "now", "or", "future", "require", "visa", "sponsorship">>,
   work_authorization |-> <<"are", "you", "legally", "authorized", "to", "work">>,
   security_clearance |-> <<"do", "you", "hold", "active", "security", "clearance">>,
   criminal_history |-> <<"have", "you", "been", "convicted", "of", "a", "felony">>,
   desired_salary |-> <<"what", "is", "your", "desired", "salary">>,
   linkedin |-> <<"linkedin", "profile", "url">>,
   github |-> <<"github", "profile", "url">>,
   portfolio |-> <<"portfolio", "or", "personal", "website", "url">>,
   years_experience |-> <<"how", "many", "years", "of", "professional", "experience">>,
   current_title |-> <<"what", "is", "your", "current", "job", "title">>,
   current_employer |-> <<"who", "is", "your", "current", "employer">>,
   notice_period |-> <<"what", "is", "your", "notice", "period">>,
   willing_to_relocate |-> <<"are", "you", "willing", "to", "relocate">>,
   remote_preference |-> <<"what", "is", "your", "remote", "work", "preference">>,
   earliest_start |-> <<"what", "is", "your", "earliest", "available", "start", "date">>,
   certifications |-> <<"what", "professional", "certifications", "do", "you", "hold">>,
   education |-> <<"what", "is", "your", "education", "background">>,
   how_did_you_hear |-> <<"how", "did", "you", "hear", "about", "this", "role">>,
   previously_employed |-> <<"have", "you", "previously", "been", "employed", "by", "this", "company">>,
   over_18 |-> <<"are", "you", "at", "least", "18", "years", "of", "age">>]
============================================================================
