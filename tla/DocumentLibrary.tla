---------------------------- MODULE DocumentLibrary ----------------------------
(***************************************************************************)
(* The company's documents: requests upload them, give them new versions,  *)
(* change their dates and archive them, and a nightly task moves those     *)
(* whose date is past between `valid` and `expired` (RB-007).              *)
(*                                                                         *)
(* An upload commits twice: with its indexing job, before the status has   *)
(* been set by the date, then at the end of the request, which is not      *)
(* reached if the job cannot be sent.                                      *)
(*                                                                         *)
(* A content stands for a file that was accepted, its digest and its key   *)
(* on the storage, where files are only added.  A date that may be missing *)
(* is a set of at most one day.  Names, tags and the other descriptions    *)
(* are left out; indexing is in DocumentIndex.                             *)
(***************************************************************************)
EXTENDS UnitOfWork, Naturals, Sequences

CONSTANTS
  Contents,    \* the files
  Categories,  \* the categories in use
  Expiries,    \* the dates of expiry that a document may be given
  LastDay,     \* the last day that is looked at
  Sessions,    \* the sessions of the requests
  MaxDocs,     \* bound on the documents
  MaxVersion   \* bound on the versions of a document

ASSUME LibraryAssumption ==
  /\ LastDay \in Nat /\ MaxDocs \in Nat /\ MaxVersion \in Nat \ {0}
  /\ \A e \in Expiries : e \subseteq Nat

VARIABLES
  docs,       \* company_documents, in the order they were created
  session,    \* what each request holds
  today,
  refreshed,  \* the last day the nightly task ran
  overlapped, \* has a request met another, the nightly task or midnight?
  cut         \* has an upload stopped between its commits since that task ran?

libraryVars == <<docs, session, today, refreshed, overlapped, cut>>

Docs == DOMAIN docs

Closed == [pc |-> "closed"]

LibraryInit ==
  /\ docs = << >>
  /\ session = [s \in Sessions |-> Closed]
  /\ today = 0
  /\ refreshed = 0
  /\ overlapped = FALSE
  /\ cut = FALSE

-----------------------------------------------------------------------------
(* Dates. *)

is_expired(doc) == \E day \in doc.expires_at : day < today

\* Only a valid document that has not expired is ever selected.
is_usable(doc) == doc.status = "valid" /\ ~ is_expired(doc)

\* Wrong: a document that has expired stays so.
sync_expiry_status_once(doc) ==
  IF doc.status = "valid" /\ is_expired(doc) THEN [doc EXCEPT !.status = "expired"] ELSE doc

sync_expiry_status(doc) ==
  IF doc.status = "valid" /\ is_expired(doc) THEN [doc EXCEPT !.status = "expired"]
  ELSE IF doc.status = "expired" /\ ~ is_expired(doc) THEN [doc EXCEPT !.status = "valid"]
  ELSE doc

IsOpen(s) == session[s].pc # "closed"

\* refresh_expiry_statuses, every night, in one statement each way: drafts
\* and archived documents are left alone.
RefreshExpiry ==
  /\ refreshed # today
  /\ docs' = [d \in Docs |-> sync_expiry_status(docs[d])]
  /\ refreshed' = today
  /\ cut' = FALSE
  /\ overlapped' = (overlapped \/ \E s \in Sessions : IsOpen(s))
  /\ UNCHANGED <<session, today>>

Midnight ==
  /\ today < LastDay
  /\ today' = today + 1
  /\ overlapped' = (overlapped \/ \E s \in Sessions : IsOpen(s))
  /\ UNCHANGED <<docs, session, refreshed, cut>>

-----------------------------------------------------------------------------
(* Requests. *)

Open(s, held) ==
  /\ ~ IsOpen(s)
  /\ session' = [session EXCEPT ![s] = held]
  /\ overlapped' = (overlapped \/ \E r \in Sessions : IsOpen(r))

Close(s) == session' = [session EXCEPT ![s] = Closed]

\* Session s commits `new` for the document it read.
Write(s, new) ==
  docs' = [docs EXCEPT ![session[s].doc] = Written(@, session[s].read, new)]

\* Wrong: a document that has expired is not a duplicate.
IsDuplicate_valid(doc, content, category) ==
  doc.content = content /\ doc.category = category /\ doc.status = "valid"

IsDuplicate(doc, content, category) ==
  doc.content = content /\ doc.category = category /\ doc.status # "archived"

\* POST /documents: a duplicate is refused.
OpenUpload(s, content, category, expires_at) ==
  /\ ~ \E d \in Docs : IsDuplicate(docs[d], content, category)
  /\ Open(s, [pc |-> "upload", content |-> content, category |-> category, expires_at |-> expires_at])
  /\ UNCHANGED <<docs, today, refreshed, cut>>

\* upload(): the document is committed with its indexing job.  `original`
\* tells, for the properties, that it is still as it was uploaded.
Insert(s) ==
  /\ session[s].pc = "upload" /\ Len(docs) < MaxDocs
  /\ LET doc == [content |-> session[s].content, category |-> session[s].category, version |-> 1,
                 status |-> "valid", expires_at |-> session[s].expires_at, original |-> TRUE]
     IN  /\ docs' = Append(docs, doc)
         /\ session' = [session EXCEPT ![s] = [pc |-> "sync", doc |-> Len(docs) + 1, read |-> doc]]
  /\ UNCHANGED <<today, refreshed, overlapped, cut>>

\* The job was sent: upload_document() ends.
EndUpload(s) ==
  /\ session[s].pc = "sync"
  /\ Write(s, sync_expiry_status(session[s].read))
  /\ Close(s)
  /\ UNCHANGED <<today, refreshed, overlapped, cut>>

\* The request fails: an upload whose job could not be sent answers 503 and
\* leaves the document that it has committed.
Interrupt(s) ==
  /\ IsOpen(s)
  /\ cut' = (cut \/ session[s].pc = "sync")
  /\ Close(s)
  /\ UNCHANGED <<docs, today, refreshed, overlapped>>

\* A request about document d reads it.
OpenEdit(s, d) ==
  /\ Open(s, [pc |-> "edit", doc |-> d, read |-> docs[d]])
  /\ UNCHANGED <<docs, today, refreshed, cut>>

\* PATCH /documents/{id}
Update(s, category, expires_at) ==
  /\ session[s].pc = "edit"
  /\ LET read == session[s].read
         new == [read EXCEPT !.category = category, !.expires_at = expires_at,
                             !.original = @ /\ category = read.category]
     IN  Write(s, sync_expiry_status(new))
  /\ Close(s)
  /\ UNCHANGED <<today, refreshed, overlapped, cut>>

\* POST /documents/{id}/versions: the status waits for the date to change.
new_version(s, content) ==
  /\ session[s].pc = "edit"
  /\ session[s].read.status # "archived"
  /\ session[s].read.version < MaxVersion
  /\ Write(s, [session[s].read EXCEPT !.content = content, !.version = @ + 1, !.original = FALSE])
  /\ Close(s)
  /\ UNCHANGED <<today, refreshed, overlapped, cut>>

\* DELETE /documents/{id}
archive(s) ==
  /\ session[s].pc = "edit"
  /\ Write(s, [session[s].read EXCEPT !.status = "archived"])
  /\ Close(s)
  /\ UNCHANGED <<today, refreshed, overlapped, cut>>

LibraryNext ==
  \/ RefreshExpiry \/ Midnight
  \/ \E s \in Sessions :
       \/ \E content \in Contents, category \in Categories, e \in Expiries :
            OpenUpload(s, content, category, e)
       \/ Insert(s) \/ EndUpload(s) \/ Interrupt(s)
       \/ \E d \in Docs : OpenEdit(s, d)
       \/ \E category \in Categories, e \in Expiries : Update(s, category, e)
       \/ \E content \in Contents : new_version(s, content)
       \/ archive(s)

LibrarySpec == LibraryInit /\ [][LibraryNext]_libraryVars

-----------------------------------------------------------------------------
(* Properties. *)

\* company_documents, where no request creates a draft.
Document == [content : Contents, category : Categories, version : 1 .. MaxVersion,
             status : {"valid", "expired", "archived"}, expires_at : Expiries, original : BOOLEAN]

\* What a request holds: what it will insert, or a document that it has read.
Held == {Closed}
  \union [pc : {"upload"}, content : Contents, category : Categories, expires_at : Expiries]
  \union [pc : {"sync", "edit"}, doc : Docs, read : Document]

\* Every variable has its type.
LibraryTypeOK ==
  /\ docs \in Seq(Document)
  /\ session \in [Sessions -> Held]
  /\ today \in 0 .. LastDay /\ refreshed \in 0 .. today
  /\ overlapped \in BOOLEAN /\ cut \in BOOLEAN

\* As long as no request has met another, one file is not uploaded twice in a
\* category (documents.py:112), even when the first upload answered 503 or
\* the document has expired since; new versions and changes of category are
\* not tested.
NoDuplicateUpload ==
  ~ overlapped => \A c, d \in Docs :
    /\ docs[c].original /\ docs[d].original
    /\ docs[c].content = docs[d].content /\ docs[c].category = docs[d].category
    /\ docs[c].status # "archived" /\ docs[d].status # "archived"
    => c = d

\* Under the same condition, once the night's task has run, a document is
\* `valid` exactly as long as it may be selected, and `expired` only past its
\* date, whatever requests come that day (api/v1/documents.py:51); not so
\* while an upload is between its commits, or once one has stopped there.
StatusFollowsDate ==
  ~ overlapped /\ ~ cut /\ refreshed = today /\ (\A s \in Sessions : session[s].pc # "sync") =>
    \A d \in Docs :
      /\ docs[d].status = "valid" => is_usable(docs[d])
      /\ docs[d].status = "expired" => is_expired(docs[d])
=============================================================================
