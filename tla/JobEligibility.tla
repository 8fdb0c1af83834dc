--------------------------- MODULE JobEligibility ---------------------------
(***************************************************************************)
(* The eligibility gate (pkg/config: eligibility.go, title_policy.go,      *)
(* location.go).  Discovery asks parts of it of a feed's posting, the      *)
(* pipeline and the queue's reconciliation all of it.                      *)
(*                                                                         *)
(* A title and a role are sequences of words, as normalised.  A location   *)
(* or a description is what the gate finds in it: the countries it names   *)
(* ("countries") and whether it says "remote" or holds one of the phrases  *)
(* that contradict it, such as "hybrid" ("signals").                       *)
(***************************************************************************)
EXTENDS Sequences, Naturals

CONSTANT Profile
  \* [RemoteOnly, AllowedCountries, Roles, AllowManagementRoles,
  \*  RejectStretchSeniority]

Words(title) == {title[i] : i \in DOMAIN title}

ContainsPhrase(title, phrase) ==
  \E i \in 0..(Len(title) - Len(phrase)) : SubSeq(title, i + 1, i + Len(phrase)) = phrase

----------------------------------------------------------------------------
(* The title.                                                              *)

managementTitleWords == {"director", "vp", "chief", "manager"}
managementTitlePhrases == {<<"vice", "president">>, <<"head", "of">>}
seniorityStretchWords == {"principal", "staff"}

platformOccupationNouns ==
  {"engineer", "architect", "specialist", "developer", "administrator", "consultant"}

distinctiveRoleWords ==
  { "backend", "devops", "devsecops", "platform", "infrastructure",
    "reliability", "sre", "automation", "python", "golang", "go",
    "observability", "kubernetes", "ci", "cd", "sdet", "integration",
    "release", "agent", "agentic", "llm", "rag" }

ManagementTrackTitle(title) ==
  \/ Words(title) \cap managementTitleWords # {}
  \/ \E phrase \in managementTitlePhrases : ContainsPhrase(title, phrase)

stretchSeniorityTitle(title) == Words(title) \cap seniorityStretchWords # {}

platformFollowedByOccupationNoun(title) ==
  \E i \in 1..(Len(title) - 1) :
    title[i] = "platform" /\ title[i + 1] \in platformOccupationNouns

PhraseMatch(title, roles) ==
  roles = {} \/ \E role \in roles : role # <<>> /\ ContainsPhrase(title, role)

WordMatch(title, roles) ==
  \E role \in roles : \E word \in Words(role) \cap Words(title) :
    /\ ~ContainsPhrase(title, role)
    /\ word \in distinctiveRoleWords
    /\ word = "platform" => platformFollowedByOccupationNoun(title)

(* "primary", "adjacent" and "stretch" are fits, the rest rejections.      *)
ClassifyTitle(title) ==
  LET phrase == PhraseMatch(title, Profile.Roles)
  IN IF ManagementTrackTitle(title) /\ ~Profile.AllowManagementRoles
       THEN "management_track_excluded"
     ELSE IF ~phrase /\ ~WordMatch(title, Profile.Roles) THEN "role_track_mismatch"
     ELSE IF stretchSeniorityTitle(title)
       THEN IF Profile.RejectStretchSeniority THEN "seniority_outside_target" ELSE "stretch"
     ELSE IF phrase THEN "primary" ELSE "adjacent"

Fits == {"primary", "adjacent", "stretch"}
TitleEligibleForRoles(title) == ClassifyTitle(title) \in Fits

----------------------------------------------------------------------------
(* The place.  Codes a feed states outright win over what its text names.  *)

CountryCodesFor(location, codes) ==
  IF codes # {} THEN codes ELSE location.countries

(* At intake a posting is turned away only on evidence.                    *)
LocationAllowed(location, codes) ==
  \/ Profile.AllowedCountries = {}
  \/ CountryCodesFor(location, codes) = {}
  \/ CountryCodesFor(location, codes) \cap Profile.AllowedCountries # {}

GeographyEligible(location, codes) ==
  LET named == CountryCodesFor(location, codes)
  IN IF Profile.AllowedCountries = {} \/ named \cap Profile.AllowedCountries # {}
       THEN "allowed"
     ELSE IF named = {} THEN "unknown" ELSE "outside"

(* One contradiction anywhere outweighs every claim.                       *)
RemoteEligible(claimed, location, description) ==
  LET signals == location.signals \union description.signals
  IN "office" \notin signals /\ (claimed \/ "remote" \in signals)

----------------------------------------------------------------------------
(* The gate: the first reason that applies.  A place nobody could make out *)
(* comes last, so that only what is otherwise actionable is held for it.   *)
ScreenJob(job) ==
  LET geography == GeographyEligible(job.location, job.codes)
  IN IF geography = "outside" THEN "outside_allowed_countries"
     ELSE IF Profile.RemoteOnly
             /\ ~RemoteEligible(job.remote, job.location, job.description)
       THEN "pruned_ineligible_remote"
     ELSE IF ~TitleEligibleForRoles(job.title) THEN ClassifyTitle(job.title)
     ELSE IF geography = "unknown" THEN "location_unknown" ELSE "eligible"

IsEligibleJob(job) == ScreenJob(job) = "eligible"
============================================================================
