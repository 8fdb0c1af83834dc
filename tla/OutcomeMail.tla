---------------------------- MODULE OutcomeMail ----------------------------
(***************************************************************************)
(* What the e-mail tracker reads from a message (pkg/tracker/imap.go): the *)
(* outcome it announces, the tracked company it is about, and which of     *)
(* that company's applications it names.  A message is a record            *)
(*   [phrases, domain, subject, atsIds, titles, id, envelope]             *)
(* phrases: the kinds of wording found in subject and body; domain and     *)
(* subject: the company names found there; atsIds: the postings whose ATS  *)
(* id is in the text; titles: those with a title word in the subject; id   *)
(* and envelope: whether it has a Message-ID and a readable header.        *)
(***************************************************************************)
EXTENDS FiniteSets

CONSTANTS
  Postings,         \* the rows of job_funnel
  CompanyOf,        \* company_name of a row
  Mails,            \* the messages that may arrive
  Content,          \* the record of a message
  UnmatchableNames, \* shorter than four letters, or a genericCompanyLabel
  CommonWords       \* commonWordCompanies

Phrases == {"notJob", "rejection", "interview", "recruiting"}
Companies == {CompanyOf[p] : p \in Postings}

ASSUME MailAssumption ==
  \A m \in Mails :
    Content[m] \in [phrases : SUBSET Phrases,
                    domain : SUBSET Companies, subject : SUBSET Companies,
                    atsIds : SUBSET Postings, titles : SUBSET Postings,
                    id : BOOLEAN, envelope : BOOLEAN]

(* classifyEmail; "" when the message affects no application.              *)
classifyEmail(m) ==
  LET found == Content[m].phrases IN
  IF "notJob" \in found THEN ""
  ELSE IF "rejection" \in found THEN "REJECTED"
  ELSE IF {"interview", "recruiting"} \subseteq found
       THEN "INTERVIEW_REQUESTED"
  ELSE ""

(* The companies matchTrackedCompany may return: it takes the first of a   *)
(* list the database returns in no stated order.                           *)
MatchingCompanies(tracked, m) ==
  { c \in tracked \ UnmatchableNames :
      c \in Content[m].domain \/ c \in Content[m].subject \ CommonWords }

(* The rows left when several of the company could be meant.               *)
filterCandidates(candidates, m) ==
  LET byId    == candidates \intersect Content[m].atsIds
      byTitle == candidates \intersect Content[m].titles
  IN IF byId # {} THEN byId ELSE IF byTitle # {} THEN byTitle ELSE candidates

(* The rows the outcome is written to: one, or none and the message is     *)
(* left to the operator.                                                   *)
Chosen(candidates, m) ==
  IF Cardinality(candidates) = 1 THEN candidates
  ELSE LET left == filterCandidates(candidates, m)
       IN IF Cardinality(left) = 1 THEN left ELSE {}
=============================================================================
