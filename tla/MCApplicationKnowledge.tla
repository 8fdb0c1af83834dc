----------------------- MODULE MCApplicationKnowledge -----------------------
(* Two employers, one of them called Affirm: a declaration one of them     *)
(* words as the vault does and the other requires, and a question that a   *)
(* configured fact answers, though the name of the employer in it would    *)
(* make it a declaration anywhere else.                                    *)
EXTENDS ApplicationKnowledge

Asks(job, company, prompt, required) ==
  [job |-> job, prompt |-> prompt, control |-> "radio", options |-> {},
   required |-> required, company |-> company, ats |-> ""]

Acme == <<"acme", "inc">>
Affirm == <<"affirm">>

MCQuestions ==
  { Asks(1, Acme, <<"do", "you", "need", "visa", "sponsorship">>, TRUE),
    Asks(2, Affirm, seedQuestions.sponsorship, FALSE),
    Asks(2, Affirm, <<"previously", "employed", "at", "affirm">>, FALSE) }

MCScopes == {ScopeGlobal}
MCProfiles == {{}, {"sponsorship", "previously_employed"}}
RequestSymmetry == Permutations(Requests)
=============================================================================
