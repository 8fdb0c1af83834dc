----------------------------- MODULE ModelCalls -----------------------------
(***************************************************************************)
(* The language models (pkg/mcp): which model a call goes to, what is      *)
(* asked of the machine before the agent starts, and how the documents of  *)
(* one application are generated: in the process, or by the offload        *)
(* service while it answers.                                               *)
(*                                                                         *)
(* A call is answered with text, with nothing at all ("empty"), or with an *)
(* error that classifyGenerationError makes "retryable", "quota" or        *)
(* "error".                                                                *)
(***************************************************************************)
EXTENDS Naturals, Sequences

Answers == {"text", "empty", "retryable", "quota", "error"}

----------------------------------------------------------------------------
(* Providers.  A configuration is a record of the provider and the names   *)
(* of the local models; Unset for a fast model that is not configured.     *)

Unset == "unset"
Remote == "remote"  \* a call that needs nothing local
Kinds == {"generate", "score", "vision", "embed", "offload"}

Providers == {"ollama", "claude", "gemini"}
newProviderFromEnv(name) == IF name \in Providers THEN name ELSE "ollama"

(* The models PreflightModels looks for among the installed ones.          *)
Wanted(c) ==
  CASE c.provider = "ollama" -> {c.model, c.vision, c.embed} \union ({c.fast} \ {Unset})
    [] c.provider = "claude" -> {c.embed}
    [] OTHER -> {}

PreflightModels(c, reachable, installed) ==
  Wanted(c) # {} => reachable /\ Wanted(c) \subseteq installed

(* The model a call goes to.  Only scoring opts into the fast one, and     *)
(* only Ollama can be offloaded to the service.                            *)
ModelFor(c, kind) ==
  CASE c.provider = "ollama" /\ kind = "embed" -> c.embed
    [] c.provider = "ollama" /\ kind = "vision" -> c.vision
    [] c.provider = "ollama" /\ kind = "score" /\ c.fast # Unset -> c.fast
    [] c.provider = "ollama" -> c.model
    [] c.provider = "claude" /\ kind = "embed" -> c.embed
    [] OTHER -> Remote

----------------------------------------------------------------------------
(* The documents of one application.  An attempt is described by           *)
(*   route      whether the service was configured and healthy             *)
(*   oversized  the calls refused for the length of their prompt           *)
(*   service    its reply to each of the two batches: whether it could be  *)
(*              reached and understood, results by key, errors by key      *)
(*   local      what the provider answers to each call                     *)

Documents == <<"resume", "cover_letter", "interview_prep">>
DocumentKeys == {Documents[i] : i \in DOMAIN Documents}
CallKeys == {"gap"} \union DocumentKeys

(* A key reported both ways, or neither, is an error of the service.       *)
OffloadedAnswer(reply, key) ==
  IF key \in DOMAIN reply.errors THEN reply.errors[key]
  ELSE IF key \in DOMAIN reply.results THEN reply.results[key]
  ELSE "error"

(* Mutant: the service's transport error is the calls' error.              *)
RunWithoutFallback(attempt, route, batch, keys) ==
  LET admitted == keys \ attempt.oversized
      reply == attempt.service[batch]
      Answer(key) ==
        IF key \notin admitted THEN "error"
        ELSE IF route THEN IF reply.reached THEN OffloadedAnswer(reply, key) ELSE "error"
        ELSE attempt.local[key]
  IN [answers |-> [key \in keys |-> Answer(key)], route |-> route]

(* tailoringSession.run: the service is dropped for the rest of the job    *)
(* when it cannot be reached.                                              *)
RunCalls(attempt, route, batch, keys) ==
  LET admitted == keys \ attempt.oversized
      reply == attempt.service[batch]
      dropped == route /\ admitted # {} /\ ~reply.reached
      Answer(key) ==
        IF key \notin admitted THEN "error"
        ELSE IF route /\ ~dropped THEN OffloadedAnswer(reply, key)
        ELSE attempt.local[key]
  IN [answers |-> [key \in keys |-> Answer(key)], route |-> route /\ ~dropped]

(* The gap analysis only enriches the prompts.  The first document, in     *)
(* order, that there is no text for decides what the attempt comes to.     *)
ProcessJobApplication(attempt) ==
  LET gap == RunCalls(attempt, attempt.route, "gap", {"gap"})
      run == RunCalls(attempt, gap.route, "documents", DocumentKeys)
      answer == [i \in DOMAIN Documents |-> run.answers[Documents[i]]]
      failed == {i \in DOMAIN Documents : answer[i] # "text"}
      first == CHOOSE i \in failed : \A k \in failed : i <= k
  IN IF failed = {} THEN "documents"
     ELSE IF answer[first] = "empty" THEN "error"
     ELSE answer[first]

MaxAttempts == 3

(* processRetryLoop: a retryable failure is tried again, nothing else is.  *)
IsLast(attempts, n) ==
  /\ \A m \in 1..(n - 1) : ProcessJobApplication(attempts[m]) = "retryable"
  /\ n = MaxAttempts \/ ProcessJobApplication(attempts[n]) # "retryable"

LastAttempt(attempts) == CHOOSE n \in 1..MaxAttempts : IsLast(attempts, n)

GenerateDocs(attempts) == ProcessJobApplication(attempts[LastAttempt(attempts)])

(* What the agent could have written without the service: on some attempt  *)
(* the provider has text for every document, and before it was only busy.  *)
Writes(attempt) ==
  /\ attempt.oversized \intersect DocumentKeys = {}
  /\ \A key \in DocumentKeys : attempt.local[key] = "text"

Busy(attempt) ==
  /\ attempt.oversized \intersect DocumentKeys = {}
  /\ \A key \in DocumentKeys : attempt.local[key] = "retryable"

CouldComplete(attempts) ==
  \E n \in 1..MaxAttempts :
    Writes(attempts[n]) /\ \A m \in 1..(n - 1) : Busy(attempts[m])

(* The service took both batches and has for one of the documents anything *)
(* but text: an error of its own or of its provider, or no result.         *)
Reports(attempt) ==
  LET reply == attempt.service["documents"]
  IN /\ attempt.route
     /\ "gap" \in attempt.oversized \/ attempt.service["gap"].reached
     /\ reply.reached
     /\ \E key \in DocumentKeys \ attempt.oversized : OffloadedAnswer(reply, key) # "text"

ServiceReports(attempts) ==
  \E n \in 1..LastAttempt(attempts) : Reports(attempts[n])
============================================================================
