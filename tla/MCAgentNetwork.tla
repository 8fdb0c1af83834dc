--------------------------- MODULE MCAgentNetwork ---------------------------
(* Two postings of one employer system, two workers, and every way the     *)
(* models and the offload service can fail an application.                 *)
EXTENDS AgentNetwork

Written == [k \in CallKeys |-> "text"]

LocalAnswers ==
  { Written, [Written EXCEPT !["gap"] = "error"], [k \in CallKeys |-> "retryable"],
    [Written EXCEPT !["cover_letter"] = "retryable"],
    [Written EXCEPT !["cover_letter"] = "empty"],
    [Written EXCEPT !["resume"] = "quota"] }

NoErrors == [k \in {} |-> "error"]
Lost == [reached |-> FALSE, results |-> NoErrors, errors |-> NoErrors]
Sound == [reached |-> TRUE, results |-> Written, errors |-> NoErrors]
Twice == [Sound EXCEPT !.errors = [k \in {"resume"} |-> "retryable"]]
Silent == [Sound EXCEPT !.results = [k \in {"gap"} |-> "text"]]

Services ==
  {"none", "lost at once", "lost after the gap", "sound", "twice", "silent"}

Service(s) ==
  [ gap |-> IF s \in {"none", "lost at once"} THEN Lost ELSE Sound,
    documents |-> CASE s = "sound" -> Sound [] s = "twice" -> Twice
                    [] s = "silent" -> Silent [] OTHER -> Lost ]

Attempt(s, l, o) ==
  [route |-> s # "none", oversized |-> o, service |-> Service(s), local |-> l]

MCAttempts ==
  { Attempt(s, l, {}) : s \in Services, l \in LocalAnswers }
    \union { Attempt("none", Written, o) : o \in {{"gap"}, {"resume"}} }
=============================================================================
