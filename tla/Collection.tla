------------------------------ MODULE Collection ------------------------------
(***************************************************************************)
(* What a search pass reads on the web, one source at a time: the source   *)
(* is turned into addresses (by a search engine, a feed, or the links of   *)
(* its listing pages), the pages that are not known are read, up to a      *)
(* limit, and a model makes a candidate of those that are calls for        *)
(* tenders.  Nothing here fails: what cannot be read is left out.          *)
(*                                                                         *)
(* The web at one moment is a record: `engine` gives the answers of the    *)
(* search engine to each query, `feeds` the entries of each feed, `pages`  *)
(* what lies at each address.  A page has                                  *)
(*   - forbidden: what the robots.txt of its host says, if there is one    *)
(*   - answers: what the server does at each attempt                       *)
(*   - html: is there a text to read?                                      *)
(*   - links: the addresses it leads to, in order                          *)
(*   - reading: what the model makes of its text, {} if the model fails    *)
(* What may fail is a set of at most one answer.                           *)
(***************************************************************************)
EXTENDS Naturals, Sequences, SequencesExt

CONSTANTS
  Comparable,   \* the form in which each text that is compared is compared
  HostOf        \* the host of each address

-----------------------------------------------------------------------------
(* The queries of a search profile. *)

First(n, seq) == SubSeq(seq, 1, IF Len(seq) < n THEN Len(seq) ELSE n)

The(S) == CHOOSE x \in S : TRUE

MAX_QUERIES == 8

\* The terms that are not blank, each once, in their order.
_clean(values) ==
  FoldLeft(LAMBDA kept, v : IF v = "" \/ Contains(kept, v) THEN kept ELSE Append(kept, v), << >>, values)

\* Every combination, the first keyword first.
build_queries(profile) ==
  LET Terms(values) == IF _clean(values) = << >> THEN <<"">> ELSE _clean(values)
      Each(k) == FlattenSeq([i \in DOMAIN Terms(profile.sectors) |->
                   [j \in DOMAIN Terms(profile.countries) |->
                     <<Terms(profile.keywords)[k], Terms(profile.sectors)[i], Terms(profile.countries)[j]>>]])
      all == FlattenSeq([k \in DOMAIN Terms(profile.keywords) |-> Each(k)])
  IN  First(MAX_QUERIES, all)

-----------------------------------------------------------------------------
(* A page. *)

RETRIES == 3

\* The first answer that is not worth another attempt, or the last one.
_get_with_retry(answers, attempts) ==
  LET tried == First(attempts, answers)
      settled == SelectSeq(tried, LAMBDA a : a \notin {"network", "server_error"})
  IN  IF settled # << >> THEN Head(settled) ELSE Last(tried)

is_web_url(web, url) == url \in DOMAIN web.pages

\* A robots.txt that is missing or cannot be read forbids nothing.
allowed(page) == ~ page.forbidden

\* CrawlResult.ok.  A browser makes one attempt.
fetch(web, url, render_js) ==
  /\ is_web_url(web, url)
  /\ allowed(web.pages[url])
  /\ _get_with_retry(web.pages[url].answers, IF render_js THEN 1 ELSE RETRIES) = "ok"

extract_links(page) == IF page.html THEN page.links ELSE << >>

MIN_CONFIDENCE == 60

\* LLMTenderExtractor.extract: the candidates, none or one.
extract(web, url) ==
  LET page == web.pages[url]
  IN  IF ~ page.html THEN {}
      ELSE {[c EXCEPT !.url = url] : c \in {r \in page.reading : r.is_tender /\ r.confidence >= MIN_CONFIDENCE}}

-----------------------------------------------------------------------------
(* A source: kind, and the parts of its `config`. *)

MIN_SCORE == 10

\* TavilySearch.search: the entries with an address that are near enough.
search(entries, max_results) ==
  SelectSeq(First(max_results, entries), LAMBDA e : e.url # "" /\ e.score >= MIN_SCORE)

\* RssConnector.parse: the entries that have an address.
parse(entries) == SelectSeq(entries, LAMBDA e : e.url # "")

\* The links of the listing pages, in order, until there are enough of them;
\* a listing page that cannot be read is an error.
_discover_listing(source, web) ==
  LET Kept(path) ==
        SelectSeq(extract_links(web.pages[path]), LAMBDA link :
          /\ source.allow_external \/ HostOf[link] = HostOf[source.base_url]
          /\ source.link_pattern = {} \/ link \in source.link_pattern)
      Visit(found, path) ==
        IF \A f \in found : Len(f) >= source.max_links THEN found
        ELSE IF ~ fetch(web, path, source.render_js) THEN {}
        ELSE {First(source.max_links, f \o Kept(path)) : f \in found}
  IN  {[i \in DOMAIN f |-> [url |-> f[i], title |-> f[i]]] :
         f \in FoldLeft(Visit, {<< >>}, source.listing_paths)}

\* The addresses and the titles they are seen under; {} if one of the queries,
\* the feed or a listing page fails, and for a source that is not supported.
_discover(source, queries, web) ==
  CASE source.kind = "search_engine" ->
         IF \E i \in DOMAIN queries : web.engine[queries[i]] = {} THEN {}
         ELSE {FlattenSeq([i \in DOMAIN queries |-> search(The(web.engine[queries[i]]), source.max_results)])}
    [] source.kind = "rss" /\ source.base_url # "" ->
         {parse(entries) : entries \in web.feeds[source.base_url]}
    [] source.kind \in {"portal", "website"} /\ source.base_url # "" -> _discover_listing(source, web)
    [] OTHER -> {}

\* Each address once, where it comes first, under the title that comes last.
Unique(results) ==
  LET Later(r) == SelectSeq(results, LAMBDA x : x.url = r.url)
      Add(kept, r) == IF \E i \in DOMAIN kept : kept[i].url = r.url THEN kept ELSE Append(kept, Last(Later(r)))
  IN  FoldLeft(Add, << >>, results)

\* The candidates of a source, in order.  The limit counts the pages that are
\* read, with or without success, but not those that are known.
collect_source(source, queries, known, web) ==
  LET Chosen(results) == First(source.max_urls, SelectSeq(Unique(results), LAMBDA r : r.url \notin known))
      Titled(c, r) == IF c.title = "" THEN [c EXCEPT !.title = r.title] ELSE c
      Read(r) == IF fetch(web, r.url, source.render_js) THEN {Titled(c, r) : c \in extract(web, r.url)} ELSE {}
      Add(found, r) == IF Read(r) = {} THEN found ELSE Append(found, The(Read(r)))
      results == _discover(source, queries, web)
  IN  IF results = {} THEN << >> ELSE FoldLeft(Add, << >>, Chosen(The(results)))

-----------------------------------------------------------------------------
(* A candidate becomes a notice. *)

rejection_reason(c) ==
  IF ~ c.is_tender THEN {"not_tender"}
  ELSE IF c.confidence < MIN_CONFIDENCE THEN {"low_confidence"}
  ELSE IF c.title = "" THEN {"empty_title"}
  ELSE IF c.url = "" THEN {"empty_url"} ELSE {}

norm_text(text) == Comparable[text]

\* "none" for a reference that is missing, or made of separators only.
norm_reference(reference) == Comparable[reference]

\* The fields are kept in the form that is compared.
normalize(c) ==
  [url |-> c.url, title |-> norm_text(c.title), reference |-> norm_reference(c.reference), deadline |-> c.deadline]

\* The notices of a source.
notices(source, queries, known, web) ==
  LET valid == SelectSeq(collect_source(source, queries, known, web), LAMBDA c : rejection_reason(c) = {})
  IN  [i \in DOMAIN valid |-> normalize(valid[i])]
=============================================================================
