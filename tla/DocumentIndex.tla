----------------------------- MODULE DocumentIndex -----------------------------
(***************************************************************************)
(* One company document and its chunks in the knowledge base: requests     *)
(* upload it, add versions and ask for it to be indexed again; each leaves *)
(* an index_document job behind, and two worker processes run these jobs   *)
(* side by side, in no particular order.                                   *)
(*                                                                         *)
(* A job works on the document as it read it when it began.  The chunks it *)
(* replaces are those it saw when it deleted them, and it commits the      *)
(* deletion with the new chunks, once their vectors have been computed.    *)
(*                                                                         *)
(* A content stands for a file, its storage key, its digest and its text;  *)
(* one chunk of the model stands for all those that a job makes of a text, *)
(* its pieces, if there are any.  Whether the document is archived is left out: the index  *)
(* of an archived document is like any other.                              *)
(***************************************************************************)
EXTENDS Extraction, Chunking, UnitOfWork, FiniteSets

CONSTANTS
  Contents,  \* the files that may be uploaded
  FileOf,    \* what each holds,
  Reading,   \* what is read of it,
  Pieces,    \* and the pieces of each document read
  MaxChars,  \* the length of a chunk,
  Overlap,   \* and what it carries from the one before
  Requests,  \* the sessions of the requests
  MaxJobs    \* bound on the index_document jobs

ASSUME IndexAssumption ==
  /\ "none" \notin Contents /\ MaxJobs \in Nat
  /\ MaxChars \in Nat \ {0} /\ Overlap \in Nat

Jobs == 1 .. MaxJobs

\* A content that is stored is read, and every document found in it cut.
_extract(content) == extract(FileOf[content])

_build_chunks(documents) == [d \in DOMAIN documents |-> chunk_pages(documents[d], MaxChars, Overlap)]

ASSUME TextAssumption ==
  /\ Reading = [c \in Contents |-> _extract(c)]
  /\ Pieces = [c \in Contents |-> _build_chunks(Reading[c].documents)]
  /\ \A c \in Contents : Reading[c].documents \in Seq(Text)

Blank(content) == FlattenSeq(Pieces[content]) = << >>

VARIABLES
  doc,       \* the company_documents row, version 0 before the upload
  versions,  \* document_versions
  chunks,    \* document_chunks
  request,   \* the row each request holds, if it is open
  job,       \* the jobs, in the order they were enqueued
  enqueued,  \* how many there are
  overlaps,  \* who has worked side by side so far
  mishap     \* has a job been lost, or found the document unreadable?

vars == <<doc, versions, chunks, request, job, enqueued, overlaps, mishap>>

Doc == [version : Nat, content : Contents \union {"none"},
        extraction : {"pending", "done", "failed"}, text : Contents \union {"none"}]

Version == [number : Nat \ {0}, content : Contents]

Chunk == [job : Jobs, version : Nat \ {0}, content : Contents]

Absent == [version |-> 0, content |-> "none", extraction |-> "pending", text |-> "none"]

Closed == [open |-> FALSE, doc |-> Absent]

\* `doomed` are the chunks the job has deleted but not committed, `behind`
\* the jobs whose locks on these chunks it waits for.
NoJob == [pc |-> "none", doc |-> Absent, doomed |-> {}, behind |-> {}]

Init ==
  /\ doc = Absent
  /\ versions = << >>
  /\ chunks = {}
  /\ request = [r \in Requests |-> Closed]
  /\ job = [j \in Jobs |-> NoJob]
  /\ enqueued = 0
  /\ overlaps = {}
  /\ mishap = FALSE

-----------------------------------------------------------------------------
(* Who works side by side. *)

Open == {r \in Requests : request[r].open}

Working == {j \in Jobs : job[j].pc \in {"extracting", "embedding"}}

\* What becomes of `overlaps` when a session of this kind opens.
Joins(kind) ==
  overlaps' = overlaps
    \union (IF kind = "request" /\ Open # {} THEN {"requests"} ELSE {})
    \union (IF kind = "job" /\ Working # {} THEN {"jobs"} ELSE {})
    \union (IF (IF kind = "request" THEN Working ELSE Open) # {} THEN {"both"} ELSE {})

-----------------------------------------------------------------------------
(* DocumentService. *)

\* enqueue_indexing: the request's changes are committed with the job, then
\* the message is sent; a job that is not sent is lost.
Enqueued ==
  /\ enqueued < MaxJobs
  /\ enqueued' = enqueued + 1
  /\ \/ job' = [job EXCEPT ![enqueued + 1].pc = "queued"] /\ UNCHANGED mishap
     \/ job' = [job EXCEPT ![enqueued + 1].pc = "ended"] /\ mishap' = TRUE

Close(r) == request' = [request EXCEPT ![r] = Closed]

Upload(content) ==
  /\ doc.version = 0
  /\ doc' = [Absent EXCEPT !.version = 1, !.content = content]
  /\ versions' = <<[number |-> 1, content |-> content]>>
  /\ Enqueued
  /\ UNCHANGED <<chunks, request, overlaps>>

\* The request reads the document.
Load(r) ==
  /\ ~ request[r].open /\ doc.version > 0
  /\ request' = [request EXCEPT ![r] = [open |-> TRUE, doc |-> doc]]
  /\ Joins("request")
  /\ UNCHANGED <<doc, versions, chunks, job, enqueued, mishap>>

Abort(r) ==
  /\ request[r].open
  /\ Close(r)
  /\ UNCHANGED <<doc, versions, chunks, job, enqueued, overlaps, mishap>>

\* The document with a new version: its text has to be extracted again.
Renewed(read, content) ==
  [version |-> read.version + 1, content |-> content, extraction |-> "pending", text |-> "none"]

\* _add_version
VersionOf(read, content) == [number |-> read.version + 1, content |-> content]

AddVersion(r, content) ==
  /\ request[r].open
  /\ doc' = Written(doc, request[r].doc, Renewed(request[r].doc, content))
  /\ versions' = Append(versions, VersionOf(request[r].doc, content))
  /\ Enqueued
  /\ Close(r)
  /\ UNCHANGED <<chunks, overlaps>>

Reindex(r) ==
  /\ request[r].open
  /\ Enqueued
  /\ Close(r)
  /\ UNCHANGED <<doc, versions, chunks, overlaps>>

-----------------------------------------------------------------------------
(* index_document and IndexingService. *)

\* Wrong: a document that shows as indexed is left alone.
Begin_skipping(j) ==
  /\ job[j].pc = "queued"
  /\ job' = [job EXCEPT ![j].pc = IF doc.extraction = "done" THEN "ended" ELSE "extracting",
                        ![j].doc = doc]
  /\ Joins("job")
  /\ UNCHANGED <<doc, versions, chunks, request, enqueued, mishap>>

\* The job reads the document.
Begin(j) ==
  /\ job[j].pc = "queued"
  /\ job' = [job EXCEPT ![j].pc = "extracting", ![j].doc = doc]
  /\ Joins("job")
  /\ UNCHANGED <<doc, versions, chunks, request, enqueued, mishap>>

Ended(j) == job' = [job EXCEPT ![j] = [NoJob EXCEPT !.pc = "ended"]]

\* The file is missing or unreadable: the chunks of the last text that could
\* be read stay.
ExtractFails(j) ==
  /\ job[j].pc = "extracting" /\ Reading[job[j].doc.content].outcome \in {"read", "failed"}
  /\ doc' = Written(doc, job[j].doc, [job[j].doc EXCEPT !.extraction = "failed"])
  /\ Ended(j)
  /\ mishap' = TRUE
  /\ UNCHANGED <<versions, chunks, request, enqueued, overlaps>>

\* Wrong: the deletion is committed at once.
Delete_committed(j) ==
  /\ job[j].pc = "extracting" /\ Reading[job[j].doc.content].outcome = "read"
  /\ job' = [job EXCEPT ![j].pc = "embedding", ![j].doomed = chunks]
  /\ chunks' = {}
  /\ UNCHANGED <<doc, versions, request, enqueued, overlaps, mishap>>

\* The chunks are deleted, before the vectors are computed.
Delete(j) ==
  /\ job[j].pc = "extracting" /\ Reading[job[j].doc.content].outcome = "read"
  /\ job' = [job EXCEPT
       ![j].pc = "embedding",
       ![j].doomed = chunks,
       ![j].behind = {i \in Jobs \ {j} : job[i].pc = "embedding" /\ job[i].doomed \cap chunks # {}}]
  /\ UNCHANGED <<doc, versions, chunks, request, enqueued, overlaps, mishap>>

\* Wrong: the version is read again.
ChunkOf_reread(j) == [job |-> j, version |-> doc.version, content |-> job[j].doc.content]

\* _build_chunks: the text of the file, the version of the row that was read.
ChunkOf(j) == [job |-> j, version |-> job[j].doc.version, content |-> job[j].doc.content]

Replaced(old, doomed, chunk) == (old \ doomed) \union (IF Blank(chunk.content) THEN {} ELSE {chunk})

\* The vectors are there and everything is committed.
Index(j) ==
  /\ job[j].pc = "embedding"
  /\ \A i \in job[j].behind : job[i].pc # "embedding"
  /\ chunks' = Replaced(chunks, job[j].doomed, ChunkOf(j))
  /\ doc' = Written(doc, job[j].doc,
                    [job[j].doc EXCEPT !.extraction = "done", !.text = job[j].doc.content])
  /\ Ended(j)
  /\ UNCHANGED <<versions, request, enqueued, overlaps, mishap>>

\* The process dies, or the reading breaks, and the job is lost.
Die(j) ==
  /\ j \in Working
  /\ Ended(j)
  /\ mishap' = TRUE
  /\ UNCHANGED <<doc, versions, chunks, request, enqueued, overlaps>>

\* The host dies and the job is delivered again.
DieAndReturn(j) ==
  /\ j \in Working
  /\ job' = [job EXCEPT ![j] = [NoJob EXCEPT !.pc = "queued"]]
  /\ UNCHANGED <<doc, versions, chunks, request, enqueued, overlaps, mishap>>

-----------------------------------------------------------------------------
Request(r) ==
  \/ Load(r) \/ Abort(r) \/ Reindex(r)
  \/ \E content \in Contents : AddVersion(r, content)

Work(j) ==
  Begin(j) \/ ExtractFails(j) \/ Delete(j) \/ Index(j) \/ Die(j) \/ DieAndReturn(j)

Next ==
  \/ \E content \in Contents : Upload(content)
  \/ \E r \in Requests : Request(r)
  \/ \E j \in Jobs : Work(j)

Spec == Init /\ [][Next]_vars

-----------------------------------------------------------------------------
(* Properties that hold whoever works side by side. *)

\* Every variable has its type.
TypeOK ==
  /\ doc \in Doc
  /\ versions \in Seq(Version)
  /\ chunks \subseteq Chunk
  /\ request \in [Requests -> [open : BOOLEAN, doc : Doc]]
  /\ job \in [Jobs -> [pc : {"none", "queued", "extracting", "embedding", "ended"},
                       doc : Doc, doomed : SUBSET Chunk, behind : SUBSET Jobs]]
  /\ enqueued \in 0 .. MaxJobs
  /\ overlaps \subseteq {"requests", "jobs", "both"}
  /\ mishap \in BOOLEAN

\* A document that was found by a search is found during its indexing too,
\* and after a failed one (indexing.py:3-4, one transaction from 45 to 70): it
\* leaves the index only when a job has read a text without a word.
NeverUnindexed ==
  [][chunks # {} => chunks' # {} \/ \E j \in Jobs : Index(j) /\ Blank(job[j].doc.content)]_vars

-----------------------------------------------------------------------------
(* Properties that depend on who has worked side by side. *)

\* Unless two requests have, the versions are numbered without a gap and the
\* last one is the document's (documents.py:179-186).
VersionsAreNumbered ==
  "requests" \notin overlaps =>
    /\ Len(versions) = doc.version
    /\ \A i \in DOMAIN versions : versions[i].number = i
    /\ versions # << >> => Last(versions).content = doc.content

\* Under the same condition a chunk tells the version its text comes from,
\* however late its job read the document (indexing.py:32-38).
ChunksTellTheirVersion ==
  "requests" \notin overlaps =>
    \A c \in chunks : [number |-> c.version, content |-> c.content] \in Range(versions)

AtRest == Open = {} /\ \A j \in Jobs : job[j].pc \in {"none", "ended"}

\* Are the pieces of c the whole text of d?
Holds == [c \in Contents |-> [d \in Contents |->
  /\ DOMAIN Pieces[c] = DOMAIN Reading[d].documents
  /\ \A i \in DOMAIN Pieces[c] : WholeText(Pieces[c][i], Reading[d].documents[i], MaxChars, Overlap)]]

\* The index holds the whole text of the last version, and nothing else.
UpToDate ==
  /\ doc.text = doc.content
  /\ \A c \in chunks :
       /\ c.version = doc.version
       /\ Holds[c.content][doc.content]

\* Unless two jobs have, and if no job was lost or failed, the document that
\* everybody has left is indexed in its last version, in whatever order the
\* jobs came and even if some came twice (documents.py:196).  Unless anybody
\* has worked beside anybody, an extraction that is done is that of the last
\* version at any time, failures included.
IndexCatchesUp ==
  /\ AtRest /\ doc.version > 0 /\ "jobs" \notin overlaps /\ ~ mishap =>
       doc.extraction = "done" /\ UpToDate /\ (chunks = {} => Blank(doc.content))
  /\ overlaps = {} /\ doc.extraction = "done" => UpToDate
=============================================================================
