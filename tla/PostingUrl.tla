------------------------------ MODULE PostingUrl -----------------------------
(***************************************************************************)
(* What discovery reads off a posting's URL (pkg/scraper/funnel.go and     *)
(* hackernews.go, pkg/storage/manager.go).  A URL is                       *)
(*   [scheme, label, site, path, query]                                    *)
(* where label and site make up the host ("acme" and "lever.co", label ""  *)
(* for the bare site), path is the sequence of its segments in lower case  *)
(* and query the set of its parameters.                                    *)
(***************************************************************************)
EXTENDS Sequences, Naturals

(* Boards where the employer is a segment of the path, and where it is a   *)
(* label of the host.                                                      *)
pathTenantATS ==
  { "smartrecruiters.com", "lever.co", "greenhouse.io", "ashbyhq.com",
    "workable.com", "jobvite.com" }
subdomainTenantATS ==
  { "myworkdayjobs.com", "applytojob.com", "breezy.hr", "recruitee.com",
    "pinpointhq.com", "bamboohr.com", "homerun.co" }

OneSegmentIsTheIndex(url) ==
  \/ url.site \in pathTenantATS
  \/ url.site \in {"applytojob.com", "recruitee.com"} /\ url.label # ""

SearchPage(url) ==
  LET searches == {i \in 1..Len(url.path) : url.path[i] = "search"}
  IN \/ url.site = "workable.com" /\ \E i \in searches : i < Len(url.path)
     \/ url.site = "jobvite.com" /\ searches # {}

BambooPosting(url) ==
  /\ Len(url.path) >= 2
  /\ url.path[1] = "careers" \/ SubSeq(url.path, 1, 2) = <<"jobs", "questions">>

(* A page that can never be one posting: an index, a search, a landing or  *)
(* error page.                                                             *)
IsKnownJunkJobURL(url) ==
  \/ url.query \cap {"error", "workplaceType"} # {}
  \/ url.site = "workday.com"
  \/ url.site \in {"homerun.co", "bamboohr.com"} /\ url.label \in {"", "www"}
  \/ url.site \in {"smartrecruiters.com", "pinpointhq.com"} /\ url.label = "developers"
  \/ url.site = "bamboohr.com" /\ url.label # "" /\ ~BambooPosting(url)
  \/ SearchPage(url)
  \/ OneSegmentIsTheIndex(url) /\ Len(url.path) <= 1

(* What a search result must be: a posting on a board the agent knows.     *)
isValidATSUrl(url) ==
  /\ ~IsKnownJunkJobURL(url)
  /\ url.site \in pathTenantATS \union (subdomainTenantATS \ {"breezy.hr"})

isPublicJobURL(url) == url.scheme \in {"http", "https"} /\ url.site # ""

(* A link a Hacker News comment may point to.                              *)
parseHNJobPosting(url) ==
  /\ url.scheme \in {"http", "https"}
  /\ url.site \notin {"localhost", "127.0.0.1", "169.254.169.254", "ycombinator.com"}

(* Sources that never led to an application.                               *)
excludedLeverBoards == {"jobgether"}
isExcludedSourceURL(url) ==
  \/ url.site = "breezy.hr"
  \/ /\ url.site = "lever.co"
     /\ \E i \in 1..Len(url.path) : url.path[i] \in excludedLeverBoards

(* The board a URL is on: the first segment of its path.                   *)
BoardOf(url) == IF url.path = <<>> THEN "" ELSE url.path[1]
============================================================================
