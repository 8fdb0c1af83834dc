----------------------------- MODULE MCDiscovery ----------------------------
EXTENDS Discovery

MCProfile ==
  [ RemoteOnly |-> TRUE, AllowedCountries |-> {"US"},
    Roles |-> {<<"platform", "engineer">>},
    AllowManagementRoles |-> FALSE, RejectStretchSeniority |-> FALSE ]

(* A posting on a board, in the United States and remote but for what its  *)
(* description says.                                                       *)
Board(site, slug, codes, text) ==
  [ url |-> [scheme |-> "https", label |-> "jobs", site |-> site,
             path |-> <<slug, "1">>, query |-> {}],
    title |-> <<"platform", "engineer">>, remote |-> TRUE, codes |-> codes,
    location |-> [countries |-> {"US"}, signals |-> {"remote"}],
    description |-> [countries |-> {}, signals |-> text] ]

MCAd ==
  [ p \in Postings |->
      CASE p = "globex1" -> Board("greenhouse.io", "globex", {}, {})
        [] p = "acme2" -> Board("greenhouse.io", "acme", {}, {"office"})
        [] OTHER -> Board("greenhouse.io", "acme", {}, {}) ]

MCChannel ==
  [ q \in Inquiries |->
      CASE q \in {"acme", "globex"} -> "atsfeed:greenhouse"
        [] q \in {"query1", "query2"} -> "serpapi"
        [] OTHER -> q ]

MCListed ==
  [ q \in Inquiries |->
      CASE q \in {"acme", "query1"} -> {"acme1", "acme2"}
        [] q \in {"globex", "query2"} -> {"globex1"}
        [] OTHER -> {} ]

(* Both wait in the queue, one over the cap: a worker gave it back.        *)
MCRecorded ==
  [ p \in {"acme1", "globex1"} |->
      [row |-> "DISCOVERED", source |-> "atsfeed:greenhouse"] ]

MCParallel == [i \in {"jobicy", "remoteok", "hackernews", "board", "search"} |-> 2]
=============================================================================
