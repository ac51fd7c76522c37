----------------------------- MODULE TenderDossier -----------------------------
(***************************************************************************)
(* The file of one tender: its documents ("pieces"), fetched from the URLs *)
(* that notices announce or deposited by hand, the reading that a model    *)
(* makes of them, and the score that follows what is known of the tender.  *)
(*                                                                         *)
(* Search passes, jobs and requests write the same row side by side.  Each *)
(* works on the tender as it read it, an analysis for as long as it lasts, *)
(* and `extra` is one column: whoever adds a key to it writes it whole.    *)
(*                                                                         *)
(* The requirements and the questions, which an analysis goes through      *)
(* before its last step, are in modules of their own; here, only the share *)
(* of them that is met.  What a score does to the status of the tender is  *)
(* in TenderLifecycle.  The company and the search profile do not change.  *)
(*                                                                         *)
(* The deadline and the reference stand for every field that a merge       *)
(* fills.                                                                  *)
(* A date or a ratio that may be missing is a set of at most one; so are   *)
(* the budgets.  The URLs of a notice are taken in any order.  A file      *)
(* stands for its key and its digest, and for the text extracted from it.  *)
(***************************************************************************)
EXTENDS Scoring, UnitOfWork, Sequences, SequencesExt

CONSTANTS
  Notices,     \* what is published about the tender
  Files,       \* the files that a URL may give or a user deposit
  Readable,    \* those whose text can be extracted
  Readings,    \* what the model may read in the pieces
  Ratios,      \* the shares of the requirements that may be met
  Adjustments, \* what the model may add to a score
  Company, Profile, Text,
  Sessions,    \* the sessions of the passes, the jobs and the requests
  MaxPieces    \* bound on the pieces

ASSUME DossierAssumption ==
  /\ \A n \in Notices : IsFiniteSet(n.urls) /\ "" \notin n.urls
  /\ Readable \subseteq Files /\ "none" \notin Files
  /\ \A r \in Readings : r.name # "none"
  /\ Ratios \subseteq 0 .. Full /\ Adjustments \subseteq Int
  /\ MaxPieces \in Nat

VARIABLES
  tender,     \* the tender's row
  pieces,     \* tender_documents, in the order they were created
  analysis,   \* the reading that tender_analyses holds
  score,      \* the tender's score, {} if it has none
  due,        \* has the tender changed since a score was last computed for it?
  session,    \* what each session holds
  overlapped  \* has a session been opened while another was open?

vars == <<tender, pieces, analysis, score, due, session, overlapped>>

Closed == [pc |-> "closed"]

\* A piece whose URL is "" was deposited by hand.  `text` is the file that
\* extracted_text was read from.
TenderDocument(url) ==
  [source_url |-> url, download |-> "pending", file |-> "none", extraction |-> "pending", text |-> "none"]

Urls(rows) == {rows[d].source_url : d \in DOMAIN rows}

\* The rows, and a new piece for each of these URLs.
Registered(rows, urls) ==
  {rows \o [i \in DOMAIN order |-> TenderDocument(order[i])] :
     order \in Bijection(1 .. Cardinality(urls), urls)}

\* The pieces, with one for each of these URLs that has none.
register_urls(known, urls) == Registered(known, urls \ Urls(known))

\* IngestService._create: the tender as the first notice tells it, and a
\* scoring job to come.
Created(n) ==
  [deadline |-> n.deadline, reference |-> n.reference,
   extra |-> [document_urls |-> n.urls, technologies |-> n.technologies,
              required_certifications |-> n.required_certifications,
              requested |-> "none", eligibility |-> {}]]

Init ==
  /\ \E n \in Notices : tender = Created(n) /\ pieces \in register_urls(<< >>, n.urls)
  /\ analysis = "none"
  /\ score = {}
  /\ due = TRUE
  /\ session = [s \in Sessions |-> Closed]
  /\ overlapped = FALSE

-----------------------------------------------------------------------------
(* Sessions. *)

IsOpen(s) == session[s].pc # "closed"

\* Session s goes on with this.
GoesOn(s, held) == session' = [session EXCEPT ![s] = held]

Close(s) == GoesOn(s, Closed)

\* Session s opens, with the tender as it is.
Open(s, held) ==
  /\ ~ IsOpen(s)
  /\ GoesOn(s, held)
  /\ overlapped' = (overlapped \/ \E r \in Sessions : IsOpen(r))

\* Session s commits `new` in place of the tender it read.
WriteTender(s, new) == tender' = Written(tender, session[s].tender, new)

\* A process dies, a model does not answer, a request is refused.
Abort(s) ==
  /\ IsOpen(s)
  /\ Close(s)
  /\ UNCHANGED <<tender, pieces, analysis, score, due, overlapped>>

-----------------------------------------------------------------------------
(* Another notice of the same tender: DedupService.merge_into. *)

OpenMerge(s, n) ==
  /\ Open(s, [pc |-> "merge", tender |-> tender, notice |-> n, known |-> Urls(pieces)])
  /\ UNCHANGED <<tender, pieces, analysis, score, due>>

\* What is missing is filled.
Filled(old, new, missing) == IF old = missing THEN new ELSE old

Merged(t, n) ==
  [deadline |-> Filled(t.deadline, n.deadline, {}), reference |-> Filled(t.reference, n.reference, ""),
   extra |-> [t.extra EXCEPT !.document_urls = @ \union n.urls,
                             !.technologies = @ \union n.technologies,
                             !.required_certifications = @ \union n.required_certifications]]

\* Wrong: a piece is added for every URL of the notice.
Announced_all(known, urls) == urls

\* The URLs of the notice that no piece has.
Announced(known, urls) == urls \ known

\* The merge is committed, and the pass will ask for a score.
Merge(s) ==
  /\ session[s].pc = "merge"
  /\ LET n == session[s].notice
         new == Announced(session[s].known, n.urls)
     IN  /\ Len(pieces) + Cardinality(new) <= MaxPieces
         /\ WriteTender(s, Merged(session[s].tender, n))
         /\ pieces' \in Registered(pieces, new)
  /\ due' = TRUE
  /\ Close(s)
  /\ UNCHANGED <<analysis, score, overlapped>>

-----------------------------------------------------------------------------
(* Pieces: TenderDocumentService. *)

\* POST /tenders/{id}/documents
upload_manual(file) ==
  /\ Len(pieces) < MaxPieces
  /\ pieces' = pieces \o <<[TenderDocument("") EXCEPT !.download = "done", !.file = file]>>
  /\ UNCHANGED <<tender, analysis, score, due, session, overlapped>>

\* The pieces that the job of session s still has to go through.
Todo(s) == IF session[s].pc \in {"download", "index"} THEN session[s].todo ELSE {}

ToFetch(rows) == {d \in DOMAIN rows : rows[d].download # "done" /\ rows[d].source_url # ""}

\* What a job holds: the tender, the rows, and the pieces left to go through.
Job(pc, t, purpose, known, todo) ==
  [pc |-> pc, tender |-> t, purpose |-> purpose, known |-> known, todo |-> todo]

\* A job that downloads: download_tender_documents, or the analysis, of which
\* it is the first part.  (Every announced URL has its piece already.)
OpenDownload(s, purpose) ==
  /\ \E known \in register_urls(pieces, tender.extra.document_urls) :
       /\ pieces' = known
       /\ Open(s, Job("download", tender, purpose, known, ToFetch(known)))
  /\ UNCHANGED <<tender, analysis, score, due>>

\* Wrong: a piece that could not be had counts as done.
Downloaded_anyway(row, file) == [row EXCEPT !.download = "done", !.file = file]

\* The piece once its file was stored, or refused ("none").
Downloaded(row, file) ==
  IF file = "none" THEN [row EXCEPT !.download = "failed"]
  ELSE [row EXCEPT !.download = "done", !.file = file]

\* Session s commits these new rows for the pieces it knows.
WritePieces(s, rows) ==
  pieces' = [d \in DOMAIN pieces |->
    IF d \in DOMAIN rows THEN Written(pieces[d], session[s].known[d], rows[d]) ELSE pieces[d]]

\* download_tender_documents commits each piece.
DownloadOne(s, d, file) ==
  /\ session[s].pc = "download" /\ session[s].purpose = "fetch"
  /\ LET row == Downloaded(session[s].known[d], file)
     IN  /\ WritePieces(s, [e \in {d} |-> row])
         /\ GoesOn(s, Job("download", session[s].tender, "fetch",
                          [session[s].known EXCEPT ![d] = row], session[s].todo \ {d}))
  /\ UNCHANGED <<tender, analysis, score, due, overlapped>>

EndDownload(s) ==
  /\ session[s].pc = "download" /\ session[s].purpose = "fetch" /\ Todo(s) = {}
  /\ Close(s)
  /\ UNCHANGED <<tender, pieces, analysis, score, due, overlapped>>

ToIndex(rows) == {d \in DOMAIN rows : rows[d].download = "done" /\ rows[d].extraction # "done"}

\* The analysis commits its downloads together, and goes on.
DownloadAll(s, files) ==
  /\ session[s].pc = "download" /\ session[s].purpose = "analyze"
  /\ LET rows == [d \in DOMAIN session[s].known |->
           IF d \in Todo(s) THEN Downloaded(session[s].known[d], files[d])
           ELSE session[s].known[d]]
     IN  /\ WritePieces(s, rows)
         /\ GoesOn(s, Job("index", session[s].tender, "analyze", rows, ToIndex(rows)))
  /\ UNCHANGED <<tender, analysis, score, due, overlapped>>

\* Wrong: a file that cannot be read counts as read.
Outcomes_any(file) == {"done", "failed"}

\* How an extraction may end: the file may be missing from the storage, or
\* unreadable.
Outcomes(file) == IF file \in Readable THEN {"done", "failed"} ELSE {"failed"}

\* The piece once its extraction has ended; a failure leaves the text.
Indexed(row, outcome) ==
  IF outcome = "done" THEN [row EXCEPT !.extraction = "done", !.text = row.file]
  ELSE [row EXCEPT !.extraction = "failed"]

\* One piece is indexed.
IndexOne(s, d, outcome) ==
  /\ session[s].pc = "index"
  /\ outcome \in Outcomes(session[s].known[d].file)
  /\ LET row == Indexed(session[s].known[d], outcome)
     IN  /\ WritePieces(s, [e \in {d} |-> row])
         /\ GoesOn(s, Job("index", session[s].tender, "analyze",
                          [session[s].known EXCEPT ![d] = row], session[s].todo \ {d}))
  /\ UNCHANGED <<tender, analysis, score, due, overlapped>>

-----------------------------------------------------------------------------
(* The reading: AnalysisService. *)

\* The pieces that can be read; an analysis that has none fails (no_documents).
build_corpus(rows) == {d \in DOMAIN rows : rows[d].extraction = "done" /\ rows[d].text # "none"}

\* Wrong: `extra` is made anew.
_enrich_tender_bare(t, r) ==
  [deadline |-> Filled(t.deadline, r.deadline, {}), reference |-> Filled(t.reference, r.reference, ""),
   extra |-> [document_urls |-> {}, technologies |-> {}, required_certifications |-> {},
              requested |-> r.name, eligibility |-> {}]]

\* What is missing is filled, nothing known is replaced.
_enrich_tender(t, r) ==
  [deadline |-> Filled(t.deadline, r.deadline, {}), reference |-> Filled(t.reference, r.reference, ""),
   extra |-> [t.extra EXCEPT !.requested = r.name]]

\* The reading replaces the last one; the tender is the one that the job read
\* when it began.
analyze(s, r) ==
  /\ session[s].pc = "index" /\ Todo(s) = {}
  /\ build_corpus(session[s].known) # {}
  /\ analysis' = r.name
  /\ LET new == _enrich_tender(session[s].tender, r)
     IN  /\ WriteTender(s, new)
         /\ GoesOn(s, [pc |-> "evaluate", tender |-> new])
  /\ UNCHANGED <<pieces, score, due, overlapped>>

-----------------------------------------------------------------------------
(* Eligibility and score. *)

\* What the engine scores of tender t.
Scored(t) ==
  [technologies |-> t.extra.technologies, required_certifications |-> t.extra.required_certifications,
   eligibility |-> t.extra.eligibility] @@ Text

\* What score_tender may store for tender t: a model that fails adjusts nothing.
Scores(t) ==
  LET b == breakdown(Scored(t), Company, Profile)
  IN  {{[breakdown |-> b, total |-> Adjusted(total, a)]} : total \in Totals(b), a \in Adjustments \union {0}}

\* An evaluation (evaluate_eligibility) or an answer to a question.
OpenEvaluation(s) ==
  /\ Open(s, [pc |-> "evaluate", tender |-> tender])
  /\ UNCHANGED <<tender, pieces, analysis, score, due>>

\* Wrong: the score is computed before the new ratio is known.
Rated_late(t, rated) == t

\* The tender that refresh has scored: the one with its new ratio.
Rated(t, rated) == rated

\* EligibilityEngine.refresh, the last step of an evaluation and of an
\* analysis: the ratio and the score are committed together.
refresh(s, ratio) ==
  /\ session[s].pc = "evaluate"
  /\ LET new == [session[s].tender EXCEPT !.extra = [@ EXCEPT !.eligibility = {ratio}]]
     IN  /\ WriteTender(s, new)
         /\ score' \in Scores(Rated(session[s].tender, new))
  /\ due' = FALSE
  /\ Close(s)
  /\ UNCHANGED <<pieces, analysis, overlapped>>

\* calculate_match_score, on demand or after a search pass.
OpenScore(s) ==
  /\ Open(s, [pc |-> "score", tender |-> tender])
  /\ UNCHANGED <<tender, pieces, analysis, score, due>>

score_tender(s) ==
  /\ session[s].pc = "score"
  /\ score' \in Scores(session[s].tender)
  /\ due' = FALSE
  /\ Close(s)
  /\ UNCHANGED <<tender, pieces, analysis, overlapped>>

-----------------------------------------------------------------------------
Next ==
  \/ \E file \in Files : upload_manual(file)
  \/ \E s \in Sessions :
       \/ \E n \in Notices : OpenMerge(s, n)
       \/ Merge(s)
       \/ \E purpose \in {"fetch", "analyze"} : OpenDownload(s, purpose)
       \/ \E d \in Todo(s), file \in Files \union {"none"} : DownloadOne(s, d, file)
       \/ EndDownload(s)
       \/ \E files \in [Todo(s) -> Files \union {"none"}] : DownloadAll(s, files)
       \/ \E d \in Todo(s), outcome \in {"done", "failed"} : IndexOne(s, d, outcome)
       \/ \E r \in Readings : analyze(s, r)
       \/ OpenEvaluation(s)
       \/ \E ratio \in Ratios : refresh(s, ratio)
       \/ OpenScore(s) \/ score_tender(s)
       \/ Abort(s)

Spec == Init /\ [][Next]_vars

-----------------------------------------------------------------------------
(* Properties. *)

\* Every variable has its type.
TypeOK ==
  /\ tender.extra.eligibility \subseteq Ratios
  /\ \A d \in DOMAIN pieces :
       /\ pieces[d].download \in {"pending", "done", "failed"}
       /\ pieces[d].file \in Files \union {"none"}
       /\ pieces[d].extraction \in {"pending", "done", "failed"}
       /\ pieces[d].text \in Files \union {"none"}
  /\ analysis \in {r.name : r \in Readings} \union {"none"}
  /\ Cardinality(score) <= 1 /\ due \in BOOLEAN /\ overlapped \in BOOLEAN
  /\ DOMAIN session = Sessions

\* However the jobs overlap, and whatever a job that was late has written, a
\* piece shows as downloaded only with a file, and as indexed only with a file
\* and with the text of one that could be read (tender_documents.py:88-93,
\* indexing.py:57-70).  As long as no two sessions have overlapped, this text
\* is that of the file it shows; after that it need not be: an analysis that is
\* late stores what it fetched in a piece that another has indexed since.
PiecesAreHeld ==
  \A d \in DOMAIN pieces :
    /\ pieces[d].download = "done" => pieces[d].file # "none"
    /\ pieces[d].extraction = "done" => pieces[d].file # "none" /\ pieces[d].text \in Readable
    /\ ~ overlapped /\ pieces[d].extraction = "done" => pieces[d].text = pieces[d].file

\* As long as no two sessions have overlapped, each announced URL has one
\* piece, whoever found it first (tender_documents.py:63, dedup.py:178-182).
OnePiecePerUrl ==
  ~ overlapped => \A u \in tender.extra.document_urls :
    Cardinality({d \in DOMAIN pieces : pieces[d].source_url = u}) = 1

\* Under the same condition nothing that was known of the tender is replaced
\* or forgotten (analysis.py:128, dedup.py:154): what a notice announced, what
\* the reading found and what the evaluation concluded live in one column.
NothingIsLost ==
  [][~ overlapped' =>
       /\ tender.deadline # {} => tender'.deadline = tender.deadline
       /\ tender.reference # "" => tender'.reference = tender.reference
       /\ tender.extra.document_urls \subseteq tender'.extra.document_urls
       /\ tender.extra.technologies \subseteq tender'.extra.technologies
       /\ tender.extra.required_certifications \subseteq tender'.extra.required_certifications
       /\ tender.extra.requested # "none" => tender'.extra.requested # "none"
       /\ tender.extra.eligibility # {} => tender'.extra.eligibility # {}]_vars

\* Under the same condition the score is that of the tender as it is, unless
\* a search pass has changed it and not had it scored yet (eligibility.py:342,
\* search.py:77-80); an analysis may come in between.
ScoreFollowsTender ==
  ~ overlapped /\ ~ due =>
    \E x \in score : x.breakdown = breakdown(Scored(tender), Company, Profile)
=============================================================================
