---------------------------- MODULE MCTenderIngest ----------------------------
(***************************************************************************)
(* TenderIngest for TLC.                                                   *)
(***************************************************************************)
EXTENDS TenderIngest, TLC

MCProfile == [keywords |-> <<"road", "", "road">>, sectors |-> << >>, countries |-> <<"MA", "SN">>]

MCHostOf ==
  [u1 |-> "market", u2 |-> "agency", u3 |-> "portal", u4 |-> "city", home |-> "portal", news |-> "portal",
   calls |-> "city", away |-> "market"]

\* Two titles and one reference, written in several ways.
MCComparable ==
  [road |-> "road", Road |-> "road", bridge |-> "bridge", AO_7 |-> "AO7", AO7 |-> "AO7", none |-> "none"]

Reading(url, title, reference, deadline) ==
  {[url |-> url, title |-> title, reference |-> reference, deadline |-> deadline,
    is_tender |-> TRUE, confidence |-> 80]}

Page(links, reading) ==
  [forbidden |-> FALSE, answers |-> <<"network", "server_error", "ok">>, html |-> TRUE, links |-> links,
   reading |-> reading]

Entry(url, title) == [url |-> url, title |-> title, score |-> 50]

\* One reference ties the two titles; a notice is repeated with a later
\* deadline.  The portal lists pages that are not calls for tenders, and
\* links that lead elsewhere.
MCWeb ==
  [engine |-> [q \in ToSet(build_queries(MCProfile)) |->
                {<<[Entry("away", "away") EXCEPT !.score = 5], Entry("u1", "road")>>}],
   feeds |-> [feed |-> {<<Entry("", "road"), Entry("u2", "road")>>}],
   pages |-> [u1 |-> Page(<< >>, Reading("", "", "none", {})),
              u2 |-> Page(<< >>, Reading("u2", "Road", "AO_7", {10})),
              u3 |-> Page(<< >>, Reading("u3", "bridge", "AO7", {24})),
              u4 |-> [Page(<< >>, Reading("u4", "road", "none", {24})) EXCEPT !.answers = <<"ok">>],
              home |-> Page(<<"away", "news", "u3">>, {}),
              calls |-> [Page(<<"u4">>, {}) EXCEPT !.answers = <<"ok">>]]]

\* The web when a host does not want to be read, and another is down.
MCWebs ==
  {MCWeb, [MCWeb EXCEPT !.pages["u2"].forbidden = TRUE,
                        !.pages["u3"].answers = <<"network", "network", "network", "ok">>]}

Site(kind, base_url, paths, pattern, render_js) ==
  [kind |-> kind, base_url |-> base_url, listing_paths |-> paths, link_pattern |-> pattern, render_js |-> render_js,
   allow_external |-> FALSE, max_links |-> 2, max_results |-> 2, max_urls |-> 1]

MCSources ==
  {Site("search_engine", "", << >>, {}, FALSE), Site("rss", "feed", << >>, {}, FALSE),
   Site("portal", "home", <<"home">>, {"u3"}, FALSE), Site("website", "calls", <<"calls">>, {}, TRUE),
   Site("api", "", << >>, {}, FALSE)}

\* The third tender matters as long as the passes have not overlapped.
FewTenders == overlapped => Len(tenders) <= 2

PassSymmetry == Permutations(Passes)
=============================================================================
