-------------------------- MODULE MCOutcomeTracker --------------------------
(* Two applications at one company.  One message names the first of them,  *)
(* one names neither, one is not about a job.                              *)
EXTENDS OutcomeTracker

CONSTANTS p1, p2, acme, named, vague, bare, receipt

MCPostings == {p1, p2}
MCCompanyOf == [p \in MCPostings |-> acme]
MCMails == {named, vague, receipt}

Message(phrases, ids, id) ==
  [phrases |-> phrases, domain |-> {}, subject |-> {acme}, atsIds |-> ids,
   titles |-> {}, id |-> id, envelope |-> TRUE]
MCContent ==
  [ m \in {named, vague, receipt, bare} |->
      CASE m = named   -> Message({"rejection"}, {p1}, TRUE)
        [] m = vague   -> Message({"interview", "recruiting"}, {}, TRUE)
        [] m = receipt -> Message({"notJob", "rejection"}, {}, TRUE)
        [] m = bare    -> Message({"rejection"}, {p1}, FALSE) ]
=============================================================================
