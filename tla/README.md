# A verification project for the tender platform

The platform (README.md of the repository) is a single-company application that
collects calls for tender, recognises the ones it knows, scores them, reads
their documents, checks whether the company is eligible, asks the questions that
are missing an answer, and prepares an application that a person validates.
This directory holds TLA+ models of its back end (`src/backend/app`), the
configurations TLC checks them with, and proofs for TLAPS. Paths below are
relative to `src/backend/app` unless they begin with `src/`.

Contents: the system; the models and the code; the runs; the bounds; the fairness;
the proofs; what was found; what is not modelled; the plan.

## 1. The system

One PostgreSQL database holds all state. Three kinds of process work on it:

* the FastAPI process: each request opens a session (`core/db.py:24-34`), commits
  at its end or rolls back;
* two Celery worker processes (`--concurrency=2` in `src/docker-compose.yml`): each
  message runs one task under `run_job` (`workers/tracking.py`), in a session
  that lives for the whole task, minutes when a model is called;
* Celery beat, which sends two tasks a night (`workers/celery_app.py:42-56`).

They interact through the tables, through the file storage and through the Redis queue, and
through nothing else: there is no lock, no version column, no `SELECT ... FOR UPDATE`. Sessions are
made with `expire_on_commit=False` and `autoflush=False`, so a session goes on
with the rows it read first, and an UPDATE carries the columns whose value
differs from what was read. Nearly all that is hard in this code comes from there.

| component | state | operations | talks to | hard behaviour | what makes it correct | modules |
|---|---|---|---|---|---|---|
| tender life cycle (`services/tender_status.py`, `api/v1/scoring.py`) | `tenders.status`, the history | transition, decide, promotion after a score, opening an application | score jobs, applications | checks made on a snapshot | status moves by the table; history tells the truth; no submission without validation | TenderStatus, StatusMachine, TenderLifecycle |
| jobs (`services/jobs.py`, `workers/tracking.py`) | `jobs` rows, the queue | enqueue, dispatch, start, end, acknowledge | every job | faults of broker, commits, processes; repeated messages | a job ends, once, with an outcome that agrees with what happened | JobBoard, Jobs |
| company profile and summary (`services/knowledge.py`, `api/v1/company.py`) | the profile tables, the text | change a fact, ask for a refresh, refresh | jobs | check then enqueue; a refresh that began before the change | the text is written from all the facts | CompanySummary |
| collection (`services/collect.py`, `connectors/`, `services/query_builder.py`) | none | search, parse a feed, list links, fetch with retries, extract, filter | the web, a model | hosts that fail or refuse, limits, what is known already | a pass goes on, and reads what it may | Collection |
| search, ingestion, deduplication, deadlines (`workers/tasks/search.py`, `services/ingest.py`, `services/dedup.py`, `services/deadlines.py`) | tenders, links | a pass over the sources, the nightly refresh | collection, scoring jobs | two passes; a pass that fails half-way; dates | one tender per market, each scored, urgency and activity that follow the date | TenderIngest |
| tender documents, analysis (`services/tender_documents.py`, `services/analysis.py`) | pieces, an analysis, `tenders.extra` | register, download, deposit, index, read, enrich | sources, model, indexing, eligibility | jobs that overlap on the same pieces; partial failures; `extra` written whole by three services | a piece shows what it holds; nothing known is lost | TenderDossier |
| scoring (`services/scoring.py`, `services/score_service.py`) | scores | eight criteria, the adjustment of a model | tender, profile | arithmetic; a score of a tender that has changed since | bounds; the score is that of the tender as it is | Scoring, TenderDossier |
| requirements (`services/requirements.py`) | `tender_requirements` | extraction, edition | model, questions | a model that fails for one document; edits between two extractions | one row per requirement, a stable code, the user's work kept | RequirementExtraction |
| eligibility and questions (`services/eligibility.py`, `services/questions.py`) | verdicts, questions, the summary in `tenders.extra` | judge, refine, evaluate, ask, answer, skip, set by hand | jobs, model | jobs beside requests | hand over answers over rules; never ask twice; no compliance without proof | EligibilityRules, EligibilityReview |
| company documents (`services/documents.py`) | documents, versions, files | upload, new version, edit, archive, the nightly expiry | storage, jobs | an upload that commits twice; the day of expiry | no file twice; status that follows the date | DocumentLibrary |
| indexing (`services/indexing.py`, `services/extraction.py`, `services/chunking.py`) | extraction state, chunks | extract, cut, compute vectors, replace | storage, model, jobs | jobs late, twice, in any order | the chunks are the whole text of the last version | Extraction, Chunking, DocumentIndex |
| applications (`services/applications.py`, `services/generation.py`, `services/fact_guard.py`, `services/templates.py`) | application, documents, sections, exported files, templates | add documents, generate section by section, guard, review, export | model, storage | commits in the middle; workers that die; plans that change; two requests | warnings cover the text; a file is what its name says | Templates, FactGuard, Applications |
| database session (`core/db.py`) | | what a commit writes | all | | | UnitOfWork |
| authentication, audit, schemas, prompts, internal search, CRUD, front end, migrations | | | | | | not modelled |

`PROJECT.json` lists every component with its status, and the hazards at
their lines.

## 2. The models and the code

Definitions keep the names the source gives them; the `map` of `PROJECT.json` gives the lines
of each. Operators preceded by `Wrong:` are plausible bugs that the properties must catch;
no specification uses them.

### What all have in common

**UnitOfWork** has one operator, `Written`: a row after a session that read `old`
commits `new`. A session is a record in a function `session`: its step (`pc`), the rows
it read, what it has left to do. It opens on what it reads, and each of its commits is one action.
A process that dies, a model that does not answer, a request that is refused is a session that is dropped.

Some properties hold only while no two sessions have overlapped, because the code
locks nothing. They say so themselves (`overlapped`, `overlaps`, `raced`, `Smooth`), with a variable that remembers
whether it happened, so that one run explores both worlds: what is stated with
the condition is promised to sessions one by one only, and what is stated without it holds even when
sessions overlap.

### Life cycle, jobs, summary

**TenderStatus** is the table `TRANSITIONS` and the guards of `decide`.
**StatusMachine** is the abstract specification: one status, moved by permitted
transitions or by a decision (two transitions in one commit).
**TenderLifecycle** is the code: a session loads the tender (`Load`), then
`PostStatus`, `PostDecision`, `ScoreTender` or `CheckApplication` and
`OpenApplication` check the snapshot, write status and history rows and commit
(`Write`), or fail (`Rollback`). It has what the scoring job and
`ApplicationService.create_for_tender` change. Until two sessions meet it implements StatusMachine.

**JobBoard** is the abstract jobs table: posted, taken at most once, ended for good.
**Jobs** follows each step from the insertion of the row to the acknowledgement:

| fault in `Faults` | what it models | where |
|---|---|---|
| `broker` | the publication raises, nothing was sent | `jobs.py:36-42` |
| `publish` | sent twice by the client's retry, or sent although it raises | `task_publish_retry_policy` |
| `database` | the commit of the job's status fails | `tracking.py:29,37,52` |
| `caller` | the API process dies between commit and dispatch | `jobs.py:35-37` |
| `kill` | a worker process is killed or over `task_time_limit`; the message is acknowledged | `task_acks_late` without `task_reject_on_worker_lost` |
| `host` | the worker's host dies; the message is delivered again | `task_acks_late` |

`Succeed`, `Raise` and `RaiseUnrecorded` are the three ends of `run_job`. A
redelivered message runs the job again from whatever its row says.

**CompanySummary** uses JobBoard as its jobs table. A request looks for an active job, commits
its change with its own job if there was none (`enqueue_once` adds the row in the same
session), dispatches it; the job reads the facts, calls the model, writes. Facts and
text are sets of changes, which is all that "up to date" speaks of. `late` remembers that a
change was left to a job that had read the facts already, `dead` which rows say `running` for a worker that was killed (`Kill`); `Overlap`
says whether a request may begin while another is served.

### From the web to the tender

**Collection** has what one source yields: `build_queries`, the three ways to discover addresses
(`search`, `parse`, `_discover_listing`), `_get_with_retry`, `allowed`, `extract`, the limits of `collect_source`
and the reasons to reject a candidate. The web of the moment is a constant of the run, a page with its answers
at each attempt; `Comparable` gives the form in which two titles or references are compared.
**TenderIngest**: passes, each a `search_tenders` job (`Launch`). `Collect` picks a source, one of the webs and
one of the notices Collection gives for them; `Skip` leaves a URL that was linked meanwhile; `Match` applies the rules of
`find_duplicate` in their order, `Create` and `Merge` commit (`source_links.url` is unique), `Finish`
and `EnqueueScoring` are the end of the job, `Midnight` and `RefreshDeadlines`
the nights. `Fail` may end a pass anywhere. The semantic rule may find any
tender of its window or none.

**TenderDossier** is the file of one tender. Merges (`OpenMerge`, `Merge`) add URLs and fill what is missing;
`download_tender_documents` commits piece by piece (`DownloadOne`), `analyze_tender` commits its downloads together
(`DownloadAll`), each indexing (`IndexOne`: a piece keeps the name of the file its `text` was read from), the reading with what it adds to the tender (`analyze`, `_enrich_tender`)
and the ratio with the score (`refresh`). An evaluation, a score on demand and a deposit run beside them.
A session keeps the tender it read, so the three writers of `extra` may undo one another: `overlapped` tells.
**Scoring** is the arithmetic: eight criteria, their weights, the rounding (`Totals` is a set, since Python rounds
a binary approximation), `Adjusted`.

### Requirements and eligibility

**RequirementExtraction**: what the documents say (`Outputs`), `merge_outputs`, the reconciliation (`Plan`) and `next_code`, recursive
functions over lists of outputs; `extract` (with any set of documents the model failed on) and the two kinds of `PATCH`
(`update_requirement`). A transaction holds the rows it read; `raced` tells that two were open at once.

**EligibilityRules**: the rule of each category (`judge`), the excerpts a search gives,
what the model's verdict and citations may change (`refine`, `_guard`). **EligibilityReview** uses it in
four kinds of session (`analyze`, `evaluate`, `generate`,
`request`). A job reads the rows when it opens, the questions when it first needs
them, and commits after the extraction, the evaluation and the generation. The company may change before
each evaluation. The history variables `hand`, `overlapped`, `failed` serve the properties only.

### The company's documents

**DocumentLibrary**: requests upload (with the commit that precedes the indexing job and the one that ends the request),
add versions, edit dates, archive; `RefreshExpiry` is the job of the night. `cut` remembers that an upload stopped between its commits.
**Extraction** and **Chunking** are functions: what is read of a file or an archive (members too big, nested,
encrypted, suspicious, damaged), and how a text is cut, with the end of a chunk carried to the next. `WholeText`
says what is expected of the chunks of a text: no word lost, none added, none of them too long.
**DocumentIndex**: one document, requests that hold the row they read, jobs that
extract, delete the chunks they see, compute vectors and commit it all. A DELETE waits for another job's
DELETE of the same rows (`behind`). A job may be lost, or delivered again. `Reading` and `Pieces`
are given to it; `TextAssumption`, which TLC evaluates, says that they are what Extraction and Chunking make of the files, and that
what is found in a file is a text: pages of paragraphs of sentences of words.

### Applications

**Templates** has the ten default plans, the validation of a plan and the seeding; two assumptions that TLC
evaluates say that the default plans are valid and that seeding can be repeated without touching a user's plan.
**FactGuard** is `check`: claims of a text that the facts do not support.
**Applications** is what sessions do with them: `OpenAddition` and `AddDocuments` (two requests may both see a template missing;
there is no unique key), `StartGeneration`, then for each document `BeginDocument` (which commits `generating`),
`WriteSection` one at a time, `FinishDocument` with the guard's warnings, and `EndGeneration`, which sets the status
of the application from the documents as the job read them, and writes it only if it differs from the status read; `OpenExport`, `PutFile`, `CommitExport`. `Kill` drops
a session at any step.

An `MC` module with the same name adds the sets and the symmetry TLC needs; a
`Proofs` module holds the theorems.

## 3. The runs

| run | question | properties |
|---|---|---|
| `lifecycle` | what survives sessions that overwrite each other, and does the tender implement the machine until they do? | MilestonesPassed, HistoryHonest, ApplicationOpenedOnce, RelevantIsQualified, FollowsMachine |
| `jobs_faults` | what holds under every fault at once? | NoMessageWithoutRow |
| `jobs_ends` | with a broker that may refuse, does the table implement the board and does every job end? | OutcomeIsExact, UnfinishedIsInHand, FollowsBoard, EveryJobEnds |
| `summary_serial` | requests one by one: does a refresh undo another, does every change come to be told, is the summary complete when all is quiet? | UpToDateAtRest, SummaryNeverForgets, ChangesAreTold |
| `ingest` | is a market one tender, is each tender scored, do urgency and activity follow the date, whatever the sources yield? | DeadlinesAreFollowed, WillBeScored, NoTwins |
| `dossier` | does a piece hold what it shows, has a URL one piece, does the score follow the tender, is anything known lost? | PiecesAreHeld, OnePiecePerUrl, ScoreFollowsTender, NothingIsLost |
| `extraction` | are codes distinct and stable, is an extraction faithful to what was read? | CodesAreDistinct, IdentityIsStable, ExtractionIsFaithful |
| `extraction_hand` (violation) | does a requirement edited by hand survive? | HandSurvives |
| `review` | who decides a verdict, is it proven, is a question asked twice, does the summary agree? | HandPrevails, AnswerPrevails, NeverAskedTwice, SummaryIsCurrent, ComplianceIsProven, HandIsRemembered |
| `library` | may a file come twice, does a status tell the truth about a date? | NoDuplicateUpload, StatusFollowsDate |
| `index` | whatever the order of the jobs, what do the chunks say? | ChunksTellTheirVersion, IndexCatchesUp, NeverUnindexed |
| `applications` | what may a reader of the application count on? | ReviewHasText, KeysAreStored, OneDocumentPerTemplate, FilesTellTheirVersion, WarningsCoverText, GenerationEnds |

What they show, beyond the sentence that precedes each property in its module:

* **However sessions overlap**: the history never lies and no milestone is skipped; a message has its row; a mark
  of the user's hand stays; a touched tender is on the list of a pass; a piece that shows as downloaded or read has a file, even
  when a job writes late what it read early; a document never leaves the index because of a job that fails; the key of
  an exported file is on the storage; an application in review has a text.
* **Until sessions overlap** (and, where said, until one fails): the status machine, no twins, one piece per URL, nothing lost,
  the score that follows the tender, the hand that prevails, the answer that decides, the proof of a compliance, no file twice, the
  status that follows the date, one document per template, warnings that cover the text, a file of a draft whose name tells the version its texts were written for.
* **Eventually**: a job that was enqueued ends; a document does not stay `generating`; a change of the profile is told by the summary, unless
  a refresh failed, lost its worker or had read the facts already.

The type invariant of each module (`TypeOK`) is stated and, where there is a `Proofs` module with a theorem of that name,
proved; it is in no run, since it says nothing that the properties do not exercise. `VersionsAreNumbered` is proved and in no run either.

Deadlock is not checked where the system may rest: all requests
answered, all jobs ended, or a bound reached. The life cycle, which has no rest, is checked for it.

## 4. The bounds

* `lifecycle`: 2 sessions, 6 history rows (`MaxHistory`). Each session's check and write are
  the only interleaving, so two exhibit every overtaking; six rows go from NOUVEAU to SOUMIS.
* `jobs_*`: 2 workers (as deployed), 2 or 3 jobs, at most 2 copies of a message (`MaxCopies`): one
  retry or one redelivery beside the original. Three jobs for two workers make one wait.
* `summary_serial`: 3 requests: one whose job runs, one it covers, one after.
* `ingest`: 2 passes; five sources, one of each kind and one whose kind is not supported; 2 webs, one with a host that forbids and one
  that is down at every attempt; 4 notices (a title repeated with a later date, a reference that ties two titles, one without date);
  one page per source and pass (`max_urls`), so that what is known decides which;
  days 0, 10 and 12 with deadlines 10 and 24, so that the last day and the day
  after are seen, and the urgency takes four values; 3 tenders (`MaxTenders`), 2 once passes have overlapped (`FewTenders`).
* `dossier`: 2 sessions, 2 notices, the second telling more, 2 readings, one of which contradicts, a file that can be read and one
  that cannot, 2 ratios, 3 pieces (`MaxPieces`). `FewPieces`: of the URLs announced together one order is followed; a third piece comes
  before the first reading; after an overlap one piece is followed and no score, the properties left being about pieces. The company
  and the profile are one case chosen so that every criterion is neither empty nor full; the adjustment exceeds its bound.
* `extraction`: 2 documents that share a requirement and disagree on its being mandatory, 3 requirements
  in 2 categories, 2 sessions, 5 rows ever inserted (`MaxRows`); overlapping sessions are followed to 3 rows (`FewRows`).
* `review`: 1 requirement, of each kind in turn (judged by a document, by technologies of the tender or of the company, by the team, by projects, by hand), 2 sessions, 2 questions
  (`MaxQuestions`), 3 companies, a model that claims a compliance with and without proof. Sessions treat requirements independently but
  for the summary. `FewQuestions` cuts histories with a second question once something went wrong.
* `library`: 2 contents, 2 categories, 2 documents, 2 versions, 3 days with dates on the first and the second;
  `NotLongOverlapped` does not follow requests that have met beyond one document and the second day: the properties exclude them.
* `index`: 2 files, 2 requests, 3 jobs (`MaxJobs`): an upload and two changes, in any order. One file is an archive with
  a scan, a letter of several chunks and an archive inside; the other has no word. Chunks have 8 characters and
  carry 4, in place of 1500 and 200, so that every way to cut occurs on a short text; `EveryTextIsWhole` checks all texts of two short sentences with six settings;
  `ChunksAreWhole` proves it for every text and every setting.
* `applications`: 2 sessions, 2 templates, one with a plan of two sections that may lose one, 2 documents, 2 versions, a text with every
  kind of claim, right and wrong. `FewGenerations`: with two documents each is written once and not exported; after an overlap one document is followed to
  its first version, under the plan it began with, and no worker dies. What only two documents can show
  (the order of a job, the status of the application) needs no second version; what needs one (files, warnings) needs no second document.

Symmetry is used for invariants and step properties, never for liveness.

## 5. The fairness

Jobs: `FairSpec` assumes weak fairness of the two steps
that end a call of `enqueue` (a process that lives goes on); of taking a message
when there is one (the worker's loop); of starting; of the end of `fn` in one of
its three ways, guaranteed by `task_time_limit` (30 minutes); of the acknowledgement. It assumes nothing about
who is served first, nor that the broker accepts anything. `EveryJobEnds` is checked with the `broker` fault
alone: under `kill`, `caller` or `database` it is false, since nobody sweeps jobs left pending or running.

CompanySummary: `FairSpec` assumes weak fairness of `Send` (a request that lives sends its job or is refused) and of `Work` (a worker
takes the message; the job is three steps and a call of the model, which answers or fails). It makes no request come, and no job fail. `ChangesAreTold` excludes
the jobs that failed or died.

Applications: weak fairness of `Generate(s)`, the steps of a job that its worker takes as long as it lives: a model
answers or times out, and a job is a loop over a list. Nothing is assumed of requests, exports, or of a worker being replaced:
`GenerationEnds` excludes a worker that died, which leaves the document `generating` for ever, and sessions that overlapped,
where a late commit may put `generating` back.

## 6. The proofs

All theorems hold for every value of the constants; TLC checked each formula on a small
instance first. Assumptions on constants are those the modules name. `PROJECT.json` lists the theorems and
the property each states.

**TenderLifecycleProofs.** `IInv` is the conjunction of the run's invariants and
`SnapshotsSound`. The last is what makes it inductive: a session that commits
a write checked against a stale status can only keep `MilestonesPassed` if the
status it read had its milestones in the history too, and milestones are never
lost because the history only grows. `WriteStep` treats the commit of one or two entries once,
`NoWrite` the sessions that end without one, and `Preserved` has one step per action. `SerialSessionsFollowTheMachine`
adds that until sessions overlap the snapshot is the status (`Fresh`) and maps every step to a move, a
decision or a stutter of StatusMachine.

**JobsProofs.** Three inductive invariants, each under the faults it survives:

| theorems | invariant | assumption |
|---|---|---|
| `TypesAreKept`, `WorkersFindTheirJob`, `FailuresAreExplained` | `Recorded`: the row precedes the message, a failure has an error | none: all faults |
| `NothingIsLeftBehind` | `UnfinishedIsInHand` with `Recorded` | `Durable`: no `database`, `caller`, `kill` |
| `JobsRunOnce`, `OutcomesAreExact`, `JobsFollowTheBoard` | `Once`: one holder, row and holder agree | `Unrepeated`: no `publish`, `host` |

The runs check the second and third groups with `broker` only; the theorems
say exactly which faults may be added. `Touches` and its lemmas state once what a
worker step changes, and the steps' proofs use that instead of nested EXCEPTs.

**CompanyProofs.** The profile: `Reads` (a job enqueued was committed with its change)
gives `RefreshesReadTheirChange` for requests that overlap in any way. `Serial` adds, when they do not, that one request is
served at a time, that at most one job is active, and what the job has read relative to the text; it
gives `OneRefreshAtATime`, `RefreshesAreKept` and `SummariesNeverForget`. `Complete` says that every fact is in the text or
will be read by the active job, unless a change came late or a job failed: `SummariesAreComplete`. A job whose worker died
stays active, so that none of these invariants needs to speak of it; nothing is at rest any more either.

The library: `LibraryTypesAreKept` however requests overlap. `Orderly` adds, until they do, that one request is open and holds the document
as it is (`Lone`), and that a status tells the truth on the day of the last refresh (`Truthful`); it gives `UploadsAreUnique` and
`StatusesFollowDates`. `EditedFollows` is where an edit may not leave a status that its new date denies, and `OrderlyMidnight` where a day
begins on which nothing is promised before the nightly job.

**RequirementProofs, the review.** `Saves` states once what every commit writes, and
`ExtractSaves`, `EvaluateSaves`, `PatchSaves` and `AnswerSaves` show that each action is such a commit.
`MarksAreKept` follows from `CommitStep` for sessions that overlap in any way: a commit writes only the columns it
changed, and none changes a mark back. `HandsPrevail` needs `Alone`: until two sessions have overlapped, only
one is open and the rows it holds are the rows of the table. With it the
engine's commits leave a marked row as it is (`EngineCommit`), and those of the user move the status
together with `hand` (`UserCommit`). `Shape` gives the rows and the sessions their fields, no more: the statuses do not matter.

`CompliancesAreProven` goes through the rules one by one: what each gives is `Warranted` (`RulesWarranted`), the guard of the model keeps it so
(`GuardWarranted`), and `Compliance` carries it along the commits. The exceptions are those that the property names (`NeedsNoProof`): a
technology that the tender demands and the profile writes otherwise, and an experience of zero projects. `Steady` is for sessions that neither overlap nor fail: the last
answer decides an unmarked row that no session is about to judge (`Settled`), the open session has the questions as they are (`Informed`), a
requirement has at most one question, and the summary is that of the statuses but for the marked rows. It gives `AnswersPrevail`,
`QuestionsAreAskedOnce` and `SummaryStaysCurrent`.

**RequirementProofs, the extraction.** The algorithms are loops over lists. No induction rule with an operator parameter can be used here, but the loops need
induction over the numbers of a list only, and that follows from the well-foundedness of `<` on Nat, a fact about
sets: `LeastNumber`, `Induction` (a *set* that has 0 and the next of each of its numbers has them all), and `Recursion` (a step that is a *function* defines one
function on 0 .. N). With these, `OutputsOf` says what `Outputs` is for any documents, `OutputsAreMerged` what `merge_outputs` makes of any list
(each description once, mandatory as soon as one output says so), and `PlanHolds` what the reconciliation makes of any
list and any rows: a row is matched once, a new code and a new id are new (`NewCodeIsNew`), each output finds
a row or makes one. The inductive invariant `Orderly` says that ids and code numbers stay below the next id (`Numbered`), that an id
tells a row (`Identified`), that a transaction that has not raced holds the table as it is (`Undisturbed`), and that codes are distinct. It gives `CodesStayDistinct`, and
with `PlanHolds` the step properties `IdentitiesAreStable` (for any races) and `ExtractionsAreFaithful`.

**TenderIngestProofs.** `Typed` carries the types, among them that what a pass holds are notices (an assumption on what the sources
yield, which TLC evaluates for the webs of the run). `TouchedWillBeScored` needs nothing else: `touched` and `unscored` grow together. `Solo` is for passes that do
not overlap: `OnePass` (what the pass looked up is still so), `Found` (no tender answers
to the rules when none was found), `Distinct` (no twins) and `Dated` (activity and urgency against the day). It gives `NoTwinsAreMade` and
`DeadlinesStayFollowed`. The order of the rules matters in `Found`: a notice that no rule
matched has a reference, a fingerprint and a title of its own among active tenders.

**DocumentIndexProofs.** `Typed`; `Numbered` (until two requests overlap, the versions are a list without a gap, the open request holds the
document as it is, and every job and chunk tells a version of that list) gives `VersionsStayNumbered` and `ChunksStayTrue`;
`IndexIsNeverEmptied` is read off the steps and needs no invariant. `CatchingUp` gives `TheIndexCatchesUp`: unless two jobs overlapped or one was lost,
there is a job to come that has read or will read the last version, or the index tells it. That the index tells the whole
of the text is `ChunksAreWhole`, the theorem about Chunking, for any text, limit and overlap: `WholeText` of what `chunk_pages` returns.
Chunking is written with recursive functions, and its loops are followed by induction on the numbers of their lists, as for the extraction
(`FlattenIsAChain`, `LengthIsASum`, `SplitIsAChain`). From the inside out: a piece is packed of whole words (`SplitIsWhole`, `UnitsAreWhole`);
the end carried is not longer than the overlap, even when it cuts a word (`TailIsShort`); a unit either fits or closes the chunk (`UnitGrows`),
and a title, a paragraph, a page and a document add what they hold and nothing else to their page (`TitleGrows`, `ParagraphGrows`,
`PageIsTold`, `DocumentIsAChain`). The invariant of the loops is `Kept`: the chunks closed so far are within the limits and carry from a chunk of
the same page and section, and the open one will be. The only assumption is `TextAssumption`.

**ApplicationsProofs.** `Typed`; `Filed` (the key that an export will commit is on the storage) gives `KeysStayStored`, and `Told` (what shows as a
draft, in the table or in the rows of a job, has a text) gives `ReviewsHaveText`, both for sessions that overlap in any way and die anywhere.
`Alone` is for sessions that do not: the open session's rows are in step with the tables (`InStep`), every draft has its warnings
(`Sound`) and a template has one document (`OneEach`). It gives `TemplatesHaveOneDocument`, `WarningsAreComplete` and `FilesHaveTheirText` (of the files
made from a draft before any overlap, `clean`). The proof of `Sound`
is where a dead generation matters: its document is `generating`, not a draft, and the sections it left are read again by the next `FinishDocument`.

**TenderDossierProofs.** `Typed`; `Filed` (a job never knows of a file or a text that the row has lost, since no step takes one away: `Turns`)
makes what a piece shows inductive although commits write column by column, `download` from one job and `file` from another. `Alone` (the open session knows
the tender and the pieces as they are; a merge knows the URLs; no URL has two pieces; the text of an indexed piece is that of its file, `InOrder`;
the score is that of the tender unless it is due) gives the rest of `PiecesAreHeld` (`FilesAreKept` takes its parts from the three),
`UrlsHaveOnePiece`, `ScoresFollowTheTender` and the step property `TendersForgetNothing`.

Every invariant, step property and refinement that a passing run checks is stated by a theorem. Model-checked only: liveness
(`EveryJobEnds`, `GenerationEnds`, `ChangesAreTold`), which needs fairness and ENABLED, and the violation.

## 7. What was found

One run expects a violation, of a sentence that the code does not keep: `extraction_hand`. A document the model fails on is skipped,
and every requirement that only it states is deleted, the ones edited by hand "pour survivre aux ré-extractions"
(`api/v1/requirements.py:3`) included.

Met while modelling, and visible in the models without a run of their own. Many are the conditions of the properties.

Sessions that overlap:

* `transition` checks the status it read: a decision or a promotion
  prepared on an old status takes a tender out of ARCHIVE, against "machine à états"
  (`services/tender_status.py:1`); hence the condition of `FollowsMachine`;
* `enqueue_once` counts a running refresh as one that "relira tout" (`services/jobs.py:54`);
  it may have read the facts before the change, which no job then reads: `late` in `UpToDateAtRest`;
* an evaluation that read a row before the user set its status overwrites the status and
  leaves the mark (`services/eligibility.py:439-441`);
* two passes that overlap replace a value already filled, against "sans jamais écraser" (`services/dedup.py:2`);
* `extra` is written whole by a merge, an analysis and an evaluation: two at once lose what one of them added;
* an analysis that began while a piece was not downloaded yet stores the file it fetched in a piece that another job has fetched and
  indexed since (`workers/tasks/analysis.py:28-37`, `services/tender_documents.py:88-93`): the piece shows one file, which nobody
  may be able to read, and the text of another. `PiecesAreHeld` says what is left: a text that could be read, and that of the file until sessions overlap;
* two first requests may both insert a company (`services/company.py:37`; not modelled).

Dates and limits:

* a merge that fills in a deadline which is past leaves the tender active until the next night;
* a merge into an inactive tender gives it an urgency (`services/ingest.py:118`) where
  `services/ingest.py:133` says "inactive, sans urgence";
* the semantic window is -4 to +3 days, deadlines being stored at the end of the day
  (`services/dedup.py:134`), where `services/dedup.py:128` says ± 3;
* the limit of a source counts the pages that yield nothing (`services/collect.py:102`), and those are not remembered: a source whose
  first pages are never calls for tenders is read no further, pass after pass.

Failures:

* a pass that fails while it enqueues scoring jobs leaves tenders unscored (`workers/tasks/search.py:83`);
* an archive member that is encrypted raises something else than `ExtractionError` (`services/extraction.py:178`), against "toute erreur
  de lecture devient une `ExtractionError`" (`services/extraction.py:3-4`): the job fails instead of the document;
* after an extraction that fails, the chunks of the replaced text stay (`services/indexing.py:113`), where
  `services/documents.py:196` says they are replaced;
* an upload whose job is refused answers 503 on a document that exists, and whose status has not followed its date
  (`services/documents.py:157`); sending the file again answers that it is a duplicate;
* a job row left `running` by a killed worker counts in `enqueue_once` for ever (`services/jobs.py:56-58`): no refresh is enqueued any
  more, where `services/jobs.py:55` says "quand un job en cours rend l'appel inutile". Hence `dead` in `ChangesAreTold`; a sweep of old rows would do;
* a worker killed in a generation leaves its document `generating` (`services/generation.py:118`).

Rules:

* a new analysis replaces the summary of the tender (`services/analysis.py:129`), under "sans jamais écraser une valeur déjà connue"
  (`services/analysis.py:128`); the summary is not modelled, and `NothingIsLost` is about the deadline and `extra`;
* a technical requirement may be CONFORME without evidence, when the profile names the technology otherwise than the requirement
  (`services/eligibility.py:215`); hence the exception of `ComplianceIsProven`;
* the model may cite any excerpt that was found, those cut from the context it was given included
  (`services/eligibility.py:370,384`).

Code without a caller: `regenerate_section` (`services/generation.py:173`) is called by no endpoint; no path sets the document status
`draft` (`models/document.py:29`); no endpoint deletes a template, although `ON DELETE SET NULL` says what would happen (`models/application.py:78`).

## 8. What is not modelled

Texts, prompts, vectors, HTML, files: values are opaque, and what a model or a
parser makes of them is a choice. Audit rows (appended in the same
commit as what they record). Authentication (one user, stateless tokens). The internal search, list queries and the generic CRUD of sources,
profiles and company tables: reads, and single-row writes without rules of their own. The cleaning of a page's text, countries,
currencies and column lengths of a notice. The context given to the model for a section (`services/generation_context.py`) and the layout of an exported
file. The two storages: a file is there or not. The front end, a client whose requests are the actions of the modules. Migrations. The clock within a day. Process
counts other than those deployed.

The summary of a tender, a text like the others.

Two hazards of `PROJECT.json` have no property, and say why: the semantic window and the limit of a source.

## 9. The plan

Done: life cycle with its abstract machine; jobs with the abstract board, faults and liveness; summary; collection and
ingestion; the tender's file, analysis and score; requirements; rules, review and questions; the company's documents, their extraction,
cutting and indexing; templates, guard, generation and export; eight proof modules.

Left, the most important first:

1. compose TenderDossier with EligibilityReview: the ratio is a choice in the one and the statuses' in the other;
2. the creation of the company's row, and the profile tables beside the summary that is written from them;
3. the internal search: which documents a query may return, given the index of DocumentIndex and the statuses of DocumentLibrary.
