----------------------------- MODULE CompanyProofs -----------------------------
(***************************************************************************)
(* Theorems about the company's space: CompanySummary, for any set of      *)
(* requests, and DocumentLibrary, for any files, categories, dates and     *)
(* requests.  The two specifications have no variable in common.           *)
(***************************************************************************)
EXTENDS CompanySummary, DocumentLibrary, TLAPS

-----------------------------------------------------------------------------
(* The summary.  The first two theorems hold whatever the requests do, the *)
(* others when they do not overlap.                                        *)

LEMMA TypeInit == Init => TypeOK
BY DEF Init, TypeOK, JobTable!Init

LEMMA TypeStep == TypeOK /\ [Next]_vars => TypeOK'
<1> SUFFICES ASSUME TypeOK, [Next]_vars PROVE TypeOK'
  OBVIOUS
<1> USE DEF TypeOK, Goes, JobTable!Move
<1>0. ASSUME NEW r \in Requests, CommitChange(r)
      PROVE  TypeOK'
  <2>1. late' \in BOOLEAN
    BY <1>0 DEF CommitChange
  <2>2. /\ request' \in [Requests -> {"idle", "alone", "covered", "dispatching", "answered"}]
        /\ facts' \subseteq Requests /\ UNCHANGED <<board, progress, read, summary, dead>>
    BY <1>0 DEF CommitChange
  <2> QED
    BY <2>1, <2>2
<1>1. ASSUME NEW r \in Requests, LookForJob(r) \/ Abort(r) \/ Kill(r)
      PROVE  TypeOK'
  BY <1>1 DEF LookForJob, Abort, Kill
<1>2. ASSUME NEW r \in Requests, Enqueue(r) \/ Dispatch(r) \/ DispatchRefused(r)
      PROVE  TypeOK'
  BY <1>2 DEF Enqueue, Dispatch, DispatchRefused, JobTable!Post, JobTable!Refuse
<1>3. ASSUME NEW r \in Requests, Begin(r) \/ Finish(r) \/ Fail(r)
      PROVE  TypeOK'
  BY <1>3 DEF Begin, Finish, Fail, JobTable!Begin, JobTable!Finish, JobTable!Fail
<1>4. ASSUME NEW r \in Requests, ReadFacts(r) \/ WriteSummary(r)
      PROVE  TypeOK'
  BY <1>4 DEF ReadFacts, WriteSummary, Advances
<1>5. CASE UNCHANGED vars
  BY <1>5 DEF vars
<1> QED
  BY <1>0, <1>1, <1>2, <1>3, <1>4, <1>5 DEF Next

\* Type correctness.
THEOREM TypesAreKept == Spec => []TypeOK
BY TypeInit, TypeStep, PTL DEF Spec

-----------------------------------------------------------------------------
(* The job of a request and its change. *)

\* A request that has not enqueued has no job, and a change whose job was
\* posted is committed with it.
PostedIsCommitted ==
  \A r \in Requests :
    /\ request[r] \in {"idle", "alone", "covered"} => board[r] = "absent"
    /\ board[r] # "absent" => r \in facts
    /\ board[r] \in {"absent", "pending"} => progress[r] = 0

Reads == TypeOK /\ PostedIsCommitted /\ JobReadsItsChange

LEMMA ReadsInit == Init => Reads
BY TypeInit DEF Init, Reads, PostedIsCommitted, JobReadsItsChange, JobTable!Init

LEMMA ReadsStep == Reads /\ [Next]_vars => Reads'
<1> SUFFICES ASSUME Reads, [Next]_vars PROVE Reads'
  OBVIOUS
<1>t. TypeOK /\ TypeOK'
  BY TypeStep DEF Reads
<1> DEFINE Kept == PostedIsCommitted' /\ JobReadsItsChange'
<1> USE DEF Reads, TypeOK, PostedIsCommitted, JobReadsItsChange, Goes, JobTable!Move
<1>1. ASSUME NEW r \in Requests, LookForJob(r) \/ Abort(r) \/ CommitChange(r) \/ Kill(r)
      PROVE  Kept
  BY <1>1, <1>t DEF LookForJob, Abort, CommitChange, Kill
<1>2. ASSUME NEW r \in Requests, Enqueue(r) PROVE Kept
  BY <1>2, <1>t DEF Enqueue, JobTable!Post
<1>3. ASSUME NEW r \in Requests, Dispatch(r) \/ DispatchRefused(r) PROVE Kept
  BY <1>3, <1>t DEF Dispatch, DispatchRefused, JobTable!Refuse
<1>4. ASSUME NEW r \in Requests, Begin(r) \/ Finish(r) \/ Fail(r) PROVE Kept
  BY <1>4, <1>t DEF Begin, Finish, Fail, JobTable!Begin, JobTable!Finish, JobTable!Fail
<1>5. ASSUME NEW r \in Requests, ReadFacts(r) PROVE Kept
  BY <1>5, <1>t DEF ReadFacts, Advances
<1>6. ASSUME NEW r \in Requests, WriteSummary(r) PROVE Kept
  BY <1>6, <1>t DEF WriteSummary, Advances
<1>7. CASE UNCHANGED vars
  BY <1>7 DEF vars
<1> QED
  BY <1>t, <1>1, <1>2, <1>3, <1>4, <1>5, <1>6, <1>7 DEF Next

\* A refresh reads the change of the request that enqueued it, however the
\* requests overlap and however soon the job starts.
THEOREM RefreshesReadTheirChange == Spec => []JobReadsItsChange
<1>1. Reads => JobReadsItsChange
  BY DEF Reads
<1> QED
  BY <1>1, ReadsInit, ReadsStep, PTL DEF Spec

-----------------------------------------------------------------------------
(* Requests that do not overlap. *)

Serving(r) == request[r] \in {"alone", "covered", "dispatching"}

\* One request is served at a time, and the one that found no job is still
\* right when it enqueues its own.
OneRequest ==
  /\ \A q, r \in Requests : Serving(q) /\ Serving(r) => q = r
  /\ \A r \in Requests : request[r] = "alone" => Active = {}

\* What the summary and the jobs know, and in which order they learnt it.
Knowledge ==
  /\ summary \subseteq facts
  /\ \A r \in Requests :
       /\ read[r] \subseteq facts
       /\ board[r] = "running" /\ progress[r] = 20 => summary \subseteq read[r]
       /\ board[r] = "running" /\ progress[r] = 100 => read[r] \subseteq summary

Serial == Reads /\ OneRequest /\ OneActiveJob /\ Knowledge /\ RefreshIsNotUndone

LEMMA SerialInit == Init => Serial
BY ReadsInit DEF Init, Serial, OneRequest, Serving, OneActiveJob, Active, Knowledge,
                 RefreshIsNotUndone, JobTable!Init

LEMMA SerialStep ==
  ASSUME ~ Overlap, Serial, [Next]_vars
  PROVE  Serial' /\ summary \subseteq summary'
<1>t. Reads /\ Reads' /\ TypeOK /\ TypeOK'
  BY ReadsStep DEF Serial, Reads
<1> DEFINE Kept == /\ OneRequest' /\ OneActiveJob' /\ Knowledge' /\ RefreshIsNotUndone'
                   /\ summary \subseteq summary'
<1> USE DEF TypeOK, Goes, JobTable!Move
<1>1. ASSUME NEW r \in Requests, LookForJob(r) PROVE Kept
  BY <1>1, <1>t DEF LookForJob, MayStart, Serial, OneRequest, Serving, OneActiveJob, Active,
                    Knowledge, RefreshIsNotUndone
<1>2. ASSUME NEW r \in Requests, Abort(r) \/ CommitChange(r) \/ Kill(r) PROVE Kept
  BY <1>2, <1>t DEF Abort, CommitChange, Kill, Serial, OneRequest, Serving, OneActiveJob, Active,
                    Knowledge, RefreshIsNotUndone
<1>3. ASSUME NEW r \in Requests, Enqueue(r) PROVE Kept
  BY <1>3, <1>t DEF Enqueue, JobTable!Post, Serial, OneRequest, Serving, OneActiveJob, Active,
                    Knowledge, RefreshIsNotUndone
<1>4. ASSUME NEW r \in Requests, Dispatch(r) \/ DispatchRefused(r) PROVE Kept
  BY <1>4, <1>t DEF Dispatch, DispatchRefused, JobTable!Refuse, Serial, OneRequest, Serving,
                    OneActiveJob, Active, Knowledge, RefreshIsNotUndone
<1>5. ASSUME NEW r \in Requests, Begin(r) PROVE Kept
  BY <1>5, <1>t DEF Begin, JobTable!Begin, Serial, Reads, PostedIsCommitted, OneRequest,
                    Serving, OneActiveJob, Active, Knowledge, RefreshIsNotUndone
<1>6. ASSUME NEW r \in Requests, Finish(r) \/ Fail(r) PROVE Kept
  BY <1>6, <1>t DEF Finish, Fail, JobTable!Finish, JobTable!Fail, Serial, OneRequest, Serving,
                    OneActiveJob, Active, Knowledge, RefreshIsNotUndone
<1>7. ASSUME NEW r \in Requests, ReadFacts(r) PROVE Kept
  BY <1>7, <1>t DEF ReadFacts, Advances, Serial, OneRequest, Serving, OneActiveJob, Active,
                    Knowledge, RefreshIsNotUndone
<1>8. ASSUME NEW r \in Requests, WriteSummary(r) PROVE Kept
  BY <1>8, <1>t DEF WriteSummary, Advances, Serial, OneRequest, Serving, OneActiveJob, Active,
                    Knowledge, RefreshIsNotUndone
<1>9. CASE UNCHANGED vars
  BY <1>9, <1>t DEF vars, Serial, OneRequest, Serving, OneActiveJob, Active, Knowledge,
                    RefreshIsNotUndone
<1> QED
  BY <1>t, <1>1, <1>2, <1>3, <1>4, <1>5, <1>6, <1>7, <1>8, <1>9 DEF Next, Serial

\* enqueue_once keeps its promise to requests that do not overlap.
THEOREM OneRefreshAtATime == ASSUME ~ Overlap PROVE Spec => []OneActiveJob
<1>1. Serial /\ [Next]_vars => Serial'
  BY SerialStep
<1>2. Serial => OneActiveJob
  BY DEF Serial
<1> QED
  BY <1>1, <1>2, SerialInit, PTL DEF Spec

\* A refresh that is done is not undone by a later failure or a later text.
THEOREM RefreshesAreKept == ASSUME ~ Overlap PROVE Spec => []RefreshIsNotUndone
<1>1. Serial /\ [Next]_vars => Serial'
  BY SerialStep
<1>2. Serial => RefreshIsNotUndone
  BY DEF Serial
<1> QED
  BY <1>1, <1>2, SerialInit, PTL DEF Spec

\* The summary never forgets a change it was written from.
THEOREM SummariesNeverForget == ASSUME ~ Overlap PROVE Spec => SummaryNeverForgets
<1>1. Serial /\ [Next]_vars => Serial' /\ (summary \subseteq summary')
  BY SerialStep
<1> QED
  BY <1>1, SerialInit, PTL DEF Spec, SummaryNeverForgets

-----------------------------------------------------------------------------
(* Nothing is left out of the summary. *)

\* A change is in the summary, or a job has read it, or a job will read it.
Accounted(r) ==
  \/ r \in summary
  \/ \E q \in Requests : board[q] = "running" /\ progress[q] = 20 /\ r \in read[q]
  \/ Unread # {}

\* Unless a change came too late, or a job failed with what it had read.
Complete ==
  ~ late /\ ~ Failed =>
    \A r \in facts : Accounted(r)

LEMMA CompleteInit == Init => Complete
BY DEF Init, Complete

LEMMA CompleteStep ==
  ASSUME ~ Overlap, Serial, Complete, [Next]_vars
  PROVE  Complete'
<1>t. TypeOK /\ TypeOK'
  BY TypeStep DEF Serial, Reads
<1>s. summary \subseteq summary'
  BY SerialStep
<1> USE DEF TypeOK, Goes, JobTable!Move, Complete, Accounted, Unread, Active, Failed
<1>1. ASSUME NEW r \in Requests, LookForJob(r) \/ Abort(r) \/ CommitChange(r) \/ Kill(r)
      PROVE  Complete'
  BY <1>1, <1>t DEF LookForJob, Abort, CommitChange, Kill
<1>2. ASSUME NEW r \in Requests, Enqueue(r)
      PROVE  Complete'
  <2>1. board'[r] = "pending" /\ progress'[r] = 0
    BY <1>2, <1>t DEF Enqueue, JobTable!Post, Serial, Reads, PostedIsCommitted
  <2> QED
    BY <2>1
<1>3. ASSUME NEW r \in Requests, Dispatch(r) \/ DispatchRefused(r)
      PROVE  Complete'
  BY <1>3, <1>t DEF Dispatch, DispatchRefused, JobTable!Refuse
<1>4. ASSUME NEW r \in Requests, Begin(r)
      PROVE  Complete'
  BY <1>4, <1>t DEF Begin, JobTable!Begin
<1>5. ASSUME NEW r \in Requests, ReadFacts(r)
      PROVE  Complete'
  <2>1. /\ board'[r] = "running" /\ progress'[r] = 20
        /\ read'[r] = facts /\ facts' = facts
    BY <1>5, <1>t DEF ReadFacts, Advances
  <2> QED
    BY <2>1
<1>6. ASSUME NEW r \in Requests, WriteSummary(r)
      PROVE  Complete'
  <2>1. /\ board[r] = "running" /\ progress[r] = 20 /\ summary' = read[r]
        /\ UNCHANGED <<board, facts, read, late>>
        /\ \A q \in Requests : q # r => progress'[q] = progress[q]
    BY <1>6, <1>t DEF WriteSummary, Advances
  <2>2. \A q \in Requests : board[q] = "running" => q = r
    BY <2>1 DEF Serial, OneActiveJob
  <2>3. Unread = {}
    BY <2>1, <1>6, <1>t DEF Serial, OneActiveJob
  <2> QED
    BY <1>s, <2>1, <2>2, <2>3
<1>7. ASSUME NEW r \in Requests, Finish(r)
      PROVE  Complete'
  <2>1. /\ board[r] = "running" /\ progress[r] = 100
        /\ UNCHANGED <<facts, progress, read, summary, late>>
        /\ board'[r] = "done"
        /\ \A q \in Requests : q # r => board'[q] = board[q]
    BY <1>7, <1>t DEF Finish, JobTable!Finish
  <2> QED
    BY <1>t, <2>1
<1>8. ASSUME NEW r \in Requests, Fail(r)
      PROVE  Complete'
  BY <1>8, <1>t DEF Fail, JobTable!Fail
<1>9. CASE UNCHANGED vars
  BY <1>9 DEF vars
<1> QED
  BY <1>1, <1>2, <1>3, <1>4, <1>5, <1>6, <1>7, <1>8, <1>9 DEF Next

\* With everything at rest the summary was written from all the facts, unless
\* a change was left to a job that had already read them or a job failed.
THEOREM SummariesAreComplete == ASSUME ~ Overlap PROVE Spec => []UpToDateAtRest
<1>1. Serial /\ Complete /\ [Next]_vars => Serial' /\ Complete'
  BY SerialStep, CompleteStep
<1>2. Serial /\ Complete => UpToDateAtRest
  BY DEF Serial, Complete, Accounted, Unread, Knowledge, UpToDateAtRest, AtRest, Failed, Active
<1> QED
  BY <1>1, <1>2, SerialInit, CompleteInit, PTL DEF Spec

-----------------------------------------------------------------------------
(* The documents, whatever the requests do: the types.                     *)

LEMMA SyncedDocument ==
  ASSUME NEW doc \in Document
  PROVE  /\ sync_expiry_status(doc) \in Document
         /\ \E status : sync_expiry_status(doc) = [doc EXCEPT !.status = status]
         /\ sync_expiry_status(doc).status = "archived" <=> doc.status = "archived"
<1>1. /\ doc = [doc EXCEPT !.status = doc.status]
      /\ [doc EXCEPT !.status = "valid"] \in Document
      /\ [doc EXCEPT !.status = "expired"] \in Document
  BY DEF Document
<1> QED
  BY <1>1 DEF sync_expiry_status, Document

LEMMA WrittenDocument ==
  ASSUME NEW current \in Document, NEW old \in Document, NEW new \in Document
  PROVE  Written(current, old, new) \in Document /\ (current = old => Written(current, old, new) = new)
<1> DEFINE fields == {"content", "category", "version", "status", "expires_at", "original"}
           w == Written(current, old, new)
<1>1. w = [f \in fields |-> IF new[f] # old[f] THEN new[f] ELSE current[f]]
  BY DEF Written, Document
<1>2. w = [content |-> w.content, category |-> w.category, version |-> w.version,
           status |-> w.status, expires_at |-> w.expires_at, original |-> w.original]
  BY <1>1
<1>3. \A f \in fields : w[f] = new[f] \/ w[f] = current[f]
  BY <1>1
<1>4. /\ w.content \in Contents /\ w.category \in Categories /\ w.version \in 1 .. MaxVersion
      /\ w.status \in {"valid", "expired", "archived"} /\ w.expires_at \in Expiries
      /\ w.original \in BOOLEAN
  <2>1. /\ w["content"] \in Contents /\ w["category"] \in Categories /\ w["version"] \in 1 .. MaxVersion
        /\ w["status"] \in {"valid", "expired", "archived"} /\ w["expires_at"] \in Expiries
        /\ w["original"] \in BOOLEAN
    BY <1>3 DEF Document
  <2> QED
    BY <2>1
<1>5. ASSUME current = old PROVE w = new
  <2>1. w = [f \in fields |-> new[f]]
    BY <1>1, <1>5
  <2> QED
    BY <2>1 DEF Document
<1> HIDE DEF w
<1>6. w \in Document
  BY <1>2, <1>4 DEF Document
<1> QED
  BY <1>5, <1>6 DEF w

\* What an edit may make of a document.
Edited(old, new) ==
  \/ \E category \in Categories, e \in Expiries :
       LET changed == [old EXCEPT !.category = category, !.expires_at = e,
                                  !.original = @ /\ category = old.category]
       IN  new = sync_expiry_status(changed)
  \/ \E content \in Contents :
       /\ old.status # "archived" /\ old.version < MaxVersion
       /\ new = [old EXCEPT !.content = content, !.version = @ + 1, !.original = FALSE]
  \/ new = [old EXCEPT !.status = "archived"]

LEMMA EditedDocument ==
  ASSUME NEW old \in Document, NEW new, Edited(old, new)
  PROVE  new \in Document
<1>1. ASSUME NEW category \in Categories, NEW e \in Expiries
      PROVE  [old EXCEPT !.category = category, !.expires_at = e,
                         !.original = @ /\ category = old.category] \in Document
  <2>1. (old.original /\ category = old.category) \in BOOLEAN
    OBVIOUS
  <2> QED
    BY <2>1 DEF Document
<1>2. ASSUME NEW content \in Contents, old.version < MaxVersion
      PROVE  [old EXCEPT !.content = content, !.version = @ + 1, !.original = FALSE] \in Document
  <2>1. old.version + 1 \in 1 .. MaxVersion
    BY <1>2, LibraryAssumption DEF Document
  <2> QED
    BY <2>1 DEF Document
<1>3. [old EXCEPT !.status = "archived"] \in Document
  BY DEF Document
<1>4. ASSUME NEW category \in Categories, NEW e \in Expiries
      PROVE  sync_expiry_status([old EXCEPT !.category = category, !.expires_at = e,
                                            !.original = @ /\ category = old.category]) \in Document
  BY <1>1, SyncedDocument
<1> QED
  BY <1>2, <1>3, <1>4, Zenon DEF Edited

\* A request that writes the document it has read, and ends.
Rewrites(s, new) ==
  /\ docs' = [docs EXCEPT ![session[s].doc] = Written(@, session[s].read, new)]
  /\ session' = [session EXCEPT ![s] = Closed]
  /\ UNCHANGED <<today, refreshed, overlapped, cut>>

LEMMA HeldDocument ==
  ASSUME LibraryTypeOK, NEW s \in Sessions, session[s].pc \in {"sync", "edit"}
  PROVE  session[s].doc \in Docs /\ session[s].read \in Document
<1>1. session[s] \in Held
  BY DEF LibraryTypeOK
<1> QED
  BY <1>1 DEF Held, Closed

LEMMA EditStep ==
  ASSUME LibraryTypeOK, NEW s \in Sessions,
         \/ EndUpload(s)
         \/ \E category \in Categories, e \in Expiries : Update(s, category, e)
         \/ \E content \in Contents : new_version(s, content)
         \/ archive(s)
  PROVE  /\ session[s].pc \in {"sync", "edit"}
         /\ \E new : /\ Rewrites(s, new)
                     /\ \/ session[s].pc = "sync" /\ new = sync_expiry_status(session[s].read)
                        \/ session[s].pc = "edit" /\ Edited(session[s].read, new)
<1> DEFINE Goal == /\ session[s].pc \in {"sync", "edit"}
                   /\ \E new : /\ Rewrites(s, new)
                               /\ \/ session[s].pc = "sync" /\ new = sync_expiry_status(session[s].read)
                                  \/ session[s].pc = "edit" /\ Edited(session[s].read, new)
<1> SUFFICES Goal
  OBVIOUS
<1>1. CASE EndUpload(s)
  <2>1. session[s].pc = "sync" /\ Rewrites(s, sync_expiry_status(session[s].read))
    BY <1>1 DEF EndUpload, Write, Close, Rewrites
  <2> QED
    BY <2>1
<1>2. ASSUME NEW new, session[s].pc = "edit", Rewrites(s, new), Edited(session[s].read, new)
      PROVE  Goal
  BY <1>2
<1>3. ASSUME NEW category \in Categories, NEW e \in Expiries, Update(s, category, e) PROVE Goal
  <2> DEFINE new == sync_expiry_status([session[s].read EXCEPT !.category = category, !.expires_at = e,
                                          !.original = @ /\ category = session[s].read.category])
  <2>1. session[s].pc = "edit" /\ Rewrites(s, new)
    BY <1>3 DEF Update, Write, Close, Rewrites
  <2>2. Edited(session[s].read, new)
    BY DEF Edited
  <2> HIDE DEF new
  <2> QED
    BY <1>2, <2>1, <2>2
<1>4. ASSUME NEW content \in Contents, new_version(s, content) PROVE Goal
  <2> DEFINE new == [session[s].read EXCEPT !.content = content, !.version = @ + 1, !.original = FALSE]
  <2>1. session[s].pc = "edit" /\ Rewrites(s, new)
    BY <1>4 DEF new_version, Write, Close, Rewrites
  <2>2. Edited(session[s].read, new)
    BY <1>4 DEF new_version, Edited
  <2> HIDE DEF new
  <2> QED
    BY <1>2, <2>1, <2>2
<1>5. CASE archive(s)
  <2> DEFINE new == [session[s].read EXCEPT !.status = "archived"]
  <2>1. session[s].pc = "edit" /\ Rewrites(s, new)
    BY <1>5 DEF archive, Write, Close, Rewrites
  <2>2. Edited(session[s].read, new)
    BY DEF Edited
  <2> HIDE DEF new
  <2> QED
    BY <1>2, <2>1, <2>2
<1> HIDE DEF Goal
<1> QED
  BY <1>1, <1>3, <1>4, <1>5

LEMMA LibraryTypesStep == LibraryTypeOK /\ [LibraryNext]_libraryVars => LibraryTypeOK'
<1> SUFFICES ASSUME LibraryTypeOK, [LibraryNext]_libraryVars PROVE LibraryTypeOK'
  OBVIOUS
<1>0. Docs = 1 .. Len(docs) /\ Len(docs) \in Nat /\ \A d \in Docs : docs[d] \in Document
  BY DEF LibraryTypeOK, Docs
<1>1. ASSUME UNCHANGED <<docs, today, refreshed>>, overlapped' \in BOOLEAN, cut' \in BOOLEAN,
             NEW s \in Sessions, NEW held \in Held, session' = [session EXCEPT ![s] = held]
      PROVE  LibraryTypeOK'
  BY <1>1 DEF LibraryTypeOK, Held, Docs
<1>2. CASE RefreshExpiry
  <2>1. docs' \in Seq(Document) /\ Len(docs') = Len(docs)
    BY <1>0, <1>2, SyncedDocument DEF RefreshExpiry
  <2>2. overlapped' \in BOOLEAN /\ cut' \in BOOLEAN
    BY <1>2 DEF RefreshExpiry
  <2>3. session' = session /\ today' = today /\ refreshed' = today
    BY <1>2 DEF RefreshExpiry
  <2>4. DOMAIN docs' = DOMAIN docs
    BY <1>0, <2>1 DEF Docs
  <2> QED
    BY <2>1, <2>2, <2>3, <2>4 DEF LibraryTypeOK, Held, Docs
<1>3. CASE Midnight
  <2>1. today' \in 0 .. LastDay /\ refreshed' \in 0 .. today'
    BY <1>3, LibraryAssumption DEF Midnight, LibraryTypeOK
  <2>2. overlapped' \in BOOLEAN
    BY <1>3 DEF Midnight
  <2>3. UNCHANGED <<docs, session, cut>>
    BY <1>3 DEF Midnight
  <2> QED
    BY <2>1, <2>2, <2>3 DEF LibraryTypeOK, Held, Docs
<1>4. ASSUME NEW s \in Sessions, NEW content \in Contents, NEW category \in Categories,
             NEW e \in Expiries, OpenUpload(s, content, category, e)
      PROVE  LibraryTypeOK'
  <2> DEFINE held == [pc |-> "upload", content |-> content, category |-> category, expires_at |-> e]
  <2>1. held \in Held
    BY DEF Held
  <2>2. overlapped' \in BOOLEAN /\ cut' \in BOOLEAN
    BY <1>4 DEF OpenUpload, Open, LibraryTypeOK
  <2>3. UNCHANGED <<docs, today, refreshed>> /\ session' = [session EXCEPT ![s] = held]
    BY <1>4 DEF OpenUpload, Open
  <2> QED
    BY <1>1, <2>1, <2>2, <2>3
<1>5. ASSUME NEW s \in Sessions, NEW d \in Docs, OpenEdit(s, d) PROVE LibraryTypeOK'
  <2> DEFINE held == [pc |-> "edit", doc |-> d, read |-> docs[d]]
  <2>1. held \in Held
    BY <1>0 DEF Held
  <2>2. overlapped' \in BOOLEAN /\ cut' \in BOOLEAN
    BY <1>5 DEF OpenEdit, Open, LibraryTypeOK
  <2>3. UNCHANGED <<docs, today, refreshed>> /\ session' = [session EXCEPT ![s] = held]
    BY <1>5 DEF OpenEdit, Open
  <2> QED
    BY <1>1, <2>1, <2>2, <2>3
<1>6. ASSUME NEW s \in Sessions, Interrupt(s) PROVE LibraryTypeOK'
  <2>1. overlapped' \in BOOLEAN /\ cut' \in BOOLEAN
    BY <1>6 DEF Interrupt, LibraryTypeOK
  <2>2. UNCHANGED <<docs, today, refreshed>> /\ session' = [session EXCEPT ![s] = Closed]
    BY <1>6 DEF Interrupt, Close
  <2> QED
    BY <1>1, <2>1, <2>2 DEF Held
<1>7. ASSUME NEW s \in Sessions, Insert(s) PROVE LibraryTypeOK'
  <2> DEFINE doc == [content |-> session[s].content, category |-> session[s].category, version |-> 1,
                     status |-> "valid", expires_at |-> session[s].expires_at, original |-> TRUE]
  <2>1. doc \in Document
    <3>1. session[s] \in Held /\ session[s].pc = "upload"
      BY <1>7 DEF Insert, LibraryTypeOK
    <3> QED
      BY <3>1, LibraryAssumption DEF Held, Closed, Document
  <2>2. /\ docs' = Append(docs, doc)
        /\ session' = [session EXCEPT ![s] = [pc |-> "sync", doc |-> Len(docs) + 1, read |-> doc]]
        /\ UNCHANGED <<today, refreshed, overlapped, cut>>
    BY <1>7 DEF Insert
  <2> HIDE DEF doc
  <2>3. docs' \in Seq(Document) /\ DOMAIN docs' = 1 .. (Len(docs) + 1)
    BY <2>1, <2>2 DEF LibraryTypeOK
  <2>4. Docs \subseteq Docs' /\ Len(docs) + 1 \in Docs'
    BY <1>0, <2>3 DEF Docs
  <2>5. session' \in [Sessions -> Held']
    BY <2>1, <2>2, <2>4 DEF LibraryTypeOK, Held
  <2> QED
    BY <2>2, <2>3, <2>5 DEF LibraryTypeOK
<1>8. ASSUME NEW s \in Sessions,
             \/ EndUpload(s)
             \/ \E category \in Categories, e \in Expiries : Update(s, category, e)
             \/ \E content \in Contents : new_version(s, content)
             \/ archive(s)
      PROVE  LibraryTypeOK'
  <2>1. session[s].doc \in Docs /\ session[s].read \in Document
    BY <1>8, EditStep, HeldDocument
  <2>2. PICK new \in Document : Rewrites(s, new)
    BY <1>8, <2>1, EditStep, EditedDocument, SyncedDocument
  <2>3. docs' \in Seq(Document) /\ DOMAIN docs' = DOMAIN docs
    <3>1. Written(docs[session[s].doc], session[s].read, new) \in Document
      BY <1>0, <2>1, WrittenDocument
    <3> QED
      BY <2>1, <2>2, <3>1 DEF Rewrites, LibraryTypeOK, Docs
  <2>4. session' \in [Sessions -> Held']
    BY <2>2, <2>3 DEF Rewrites, LibraryTypeOK, Held, Docs
  <2> QED
    BY <2>2, <2>3, <2>4 DEF Rewrites, LibraryTypeOK
<1>9. CASE UNCHANGED libraryVars
  BY <1>9 DEF libraryVars, LibraryTypeOK, Held, Docs
<1> QED
  BY <1>2, <1>3, <1>4, <1>5, <1>6, <1>7, <1>8, <1>9 DEF LibraryNext

LEMMA LibraryTypesInit == LibraryInit => LibraryTypeOK
<1> SUFFICES ASSUME LibraryInit PROVE LibraryTypeOK
  OBVIOUS
<1>1. docs \in Seq(Document)
  BY DEF LibraryInit
<1>2. session \in [Sessions -> Held]
  BY DEF LibraryInit, Held
<1>3. today \in 0 .. LastDay /\ refreshed \in 0 .. today
  BY LibraryAssumption DEF LibraryInit
<1> QED
  BY <1>1, <1>2, <1>3 DEF LibraryInit, LibraryTypeOK

\* Type correctness of the library: whatever the requests do, a request only
\* holds a document that is there.
THEOREM LibraryTypesAreKept == LibrarySpec => []LibraryTypeOK
BY LibraryTypesInit, LibraryTypesStep, PTL DEF LibrarySpec

-----------------------------------------------------------------------------
(* The documents, as long as no request has met another, the nightly task  *)
(* or midnight: a request knows what the table holds.                      *)

Lone ==
  ~ overlapped =>
    /\ \A r, s \in Sessions : IsOpen(r) /\ IsOpen(s) => r = s
    /\ \A s \in Sessions : session[s].pc \in {"sync", "edit"} => session[s].read = docs[session[s].doc]
    /\ \A s \in Sessions : session[s].pc = "upload" =>
         ~ \E d \in Docs : IsDuplicate(docs[d], session[s].content, session[s].category)

\* The status tells the truth about the date.
Follows(doc) ==
  /\ doc.status = "valid" => ~ is_expired(doc)
  /\ doc.status = "expired" => is_expired(doc)

\* Only an upload between its commits may not have set the status yet.
Truthful ==
  ~ overlapped /\ ~ cut /\ refreshed = today =>
    \A d \in Docs :
      (\A s \in Sessions : ~ (session[s].pc = "sync" /\ session[s].doc = d)) => Follows(docs[d])

Orderly == LibraryTypeOK /\ Lone /\ NoDuplicateUpload /\ Truthful

\* A document that is active and as it was uploaded was so before.
Remains(old, new) ==
  new.original /\ new.status # "archived" =>
    /\ old.original /\ old.status # "archived"
    /\ new.content = old.content /\ new.category = old.category

LEMMA SyncedFollows ==
  ASSUME NEW doc \in Document
  PROVE  Follows(sync_expiry_status(doc)) /\ Remains(doc, sync_expiry_status(doc))
BY DEF sync_expiry_status, Follows, Remains, is_expired, Document

LEMMA EditedFollows ==
  ASSUME NEW old \in Document, NEW new, Edited(old, new)
  PROVE  Remains(old, new) /\ (Follows(old) => Follows(new))
<1>1. ASSUME NEW category \in Categories, NEW e \in Expiries,
             NEW changed, changed = [old EXCEPT !.category = category, !.expires_at = e,
                                                !.original = @ /\ category = old.category],
             new = sync_expiry_status(changed)
      PROVE  Remains(old, new) /\ Follows(new)
  <2>1. changed \in Document
    <3>1. (old.original /\ category = old.category) \in BOOLEAN
      OBVIOUS
    <3> QED
      BY <1>1, <3>1 DEF Document
  <2>2. Remains(old, changed)
    BY <1>1 DEF Document, Remains
  <2>3. Remains(changed, new) /\ Follows(new)
    BY <1>1, <2>1, SyncedFollows
  <2> QED
    BY <2>2, <2>3 DEF Remains
<1>2. ASSUME NEW content \in Contents,
             new = [old EXCEPT !.content = content, !.version = @ + 1, !.original = FALSE]
      PROVE  Remains(old, new) /\ (Follows(old) => Follows(new))
  BY <1>2 DEF Document, Remains, Follows, is_expired
<1>3. ASSUME new = [old EXCEPT !.status = "archived"] PROVE Remains(old, new) /\ Follows(new)
  BY <1>3 DEF Document, Remains, Follows
<1> QED
  BY <1>1, <1>2, <1>3 DEF Edited

LEMMA OpenSession ==
  ASSUME LibraryTypeOK, NEW s \in Sessions
  PROVE  /\ IsOpen(s) <=> session[s] # Closed
         /\ session[s].pc \in {"closed", "upload", "sync", "edit"}
<1>1. session[s] \in Held
  BY DEF LibraryTypeOK
<1> QED
  BY <1>1 DEF Held, Closed, IsOpen

\* A request that opens, alone, on documents that stay as they are.
LEMMA OrderlyOpen ==
  ASSUME Orderly, LibraryTypeOK', NEW s \in Sessions, NEW held, Open(s, held),
         UNCHANGED <<docs, today, refreshed, cut>>,
         held.pc \in {"upload", "edit"},
         held.pc = "edit" => held.read = docs[held.doc],
         held.pc = "upload" => ~ \E d \in Docs : IsDuplicate(docs[d], held.content, held.category)
  PROVE  Orderly'
<1>1. CASE overlapped'
  BY <1>1 DEF Orderly, Lone, NoDuplicateUpload, Truthful
<1>2. CASE ~ overlapped'
  <2>1. ~ overlapped /\ \A t \in Sessions : ~ IsOpen(t)
    BY <1>2 DEF Open, Orderly, LibraryTypeOK
  <2>2. session'[s] = held /\ \A t \in Sessions \ {s} : session'[t] = session[t]
    BY DEF Open, Orderly, LibraryTypeOK
  <2>3. \A t \in Sessions \ {s} : session'[t].pc = "closed"
    BY <2>1, <2>2 DEF IsOpen
  <2>4. Lone'
    BY <2>2, <2>3 DEF Lone, IsOpen, Docs, IsDuplicate
  <2>5. NoDuplicateUpload'
    BY <2>1 DEF Orderly, NoDuplicateUpload, Docs
  <2>6. Truthful'
    BY <2>1, <2>2, <2>3 DEF Orderly, Truthful, Docs, Follows, is_expired, IsOpen
  <2> QED
    BY <2>4, <2>5, <2>6 DEF Orderly
<1> QED
  BY <1>1, <1>2

\* A request that commits what it makes of its document, and ends.
LEMMA OrderlyEdit ==
  ASSUME Orderly, LibraryTypeOK', NEW s \in Sessions,
         \/ EndUpload(s)
         \/ \E category \in Categories, e \in Expiries : Update(s, category, e)
         \/ \E content \in Contents : new_version(s, content)
         \/ archive(s)
  PROVE  Orderly'
<1> DEFINE d == session[s].doc
           old == session[s].read
<1>1. LibraryTypeOK /\ session[s].pc \in {"sync", "edit"} /\ d \in Docs /\ old \in Document
  BY EditStep, HeldDocument DEF Orderly
<1>2. PICK new : /\ Rewrites(s, new)
                 /\ \/ session[s].pc = "sync" /\ new = sync_expiry_status(old)
                    \/ session[s].pc = "edit" /\ Edited(old, new)
  BY <1>1, EditStep
<1>3. /\ new \in Document /\ Remains(old, new)
      /\ Follows(new) \/ (session[s].pc = "edit" /\ (Follows(old) => Follows(new)))
  BY <1>1, <1>2, SyncedDocument, SyncedFollows, EditedDocument, EditedFollows
<1>4. overlapped' = overlapped /\ UNCHANGED <<today, refreshed, cut>>
  BY <1>2 DEF Rewrites
<1>5. CASE overlapped
  BY <1>4, <1>5 DEF Orderly, Lone, NoDuplicateUpload, Truthful
<1>6. CASE ~ overlapped
  <2>1. old = docs[d] /\ \A t \in Sessions \ {s} : ~ IsOpen(t)
    BY <1>1, <1>6 DEF Orderly, Lone, IsOpen
  <2>2. /\ DOMAIN docs' = Docs /\ docs'[d] = new
        /\ \A c \in Docs \ {d} : docs'[c] = docs[c]
    BY <1>1, <1>2, <1>3, <2>1, WrittenDocument DEF Rewrites, Docs
  <2>3. \A t \in Sessions : session'[t].pc = "closed"
    BY <1>1, <1>2, <2>1 DEF Rewrites, LibraryTypeOK, IsOpen, Closed
  <2>4. Lone'
    BY <2>3 DEF Lone, IsOpen
  <2>5. NoDuplicateUpload'
    <3> SUFFICES ASSUME NEW a \in Docs, NEW b \in Docs, a # b,
                        docs'[a].original, docs'[b].original,
                        docs'[a].content = docs'[b].content, docs'[a].category = docs'[b].category,
                        docs'[a].status # "archived", docs'[b].status # "archived"
                 PROVE  FALSE
      BY <2>2 DEF NoDuplicateUpload, Docs
    <3>1. \A c \in {a, b} : Remains(docs[c], docs'[c])
      BY <1>3, <2>1, <2>2 DEF Remains
    <3> QED
      BY <1>6, <3>1 DEF Remains, Orderly, NoDuplicateUpload
  <2>6. Truthful'
    <3> SUFFICES ASSUME ~ cut, refreshed = today, NEW c \in Docs PROVE Follows(docs[c])'
      BY <1>4, <1>6, <2>2 DEF Truthful, Docs
    <3>1. today' = today
      BY <1>4
    <3>2. CASE c = d
      <4>1. Follows(new)
        <5>1. session[s].pc = "edit" => Follows(old)
          BY <1>1, <1>6, <2>1 DEF Orderly, Truthful, IsOpen
        <5> QED
          BY <1>3, <5>1
      <4> QED
        BY <2>2, <3>1, <3>2, <4>1 DEF Follows, is_expired
    <3>3. CASE c # d
      <4>1. Follows(docs[c])
        BY <1>6, <2>1, <3>3 DEF Orderly, Truthful, IsOpen
      <4> QED
        BY <2>2, <3>1, <3>3, <4>1 DEF Follows, is_expired
    <3> QED
      BY <3>2, <3>3
  <2> QED
    BY <2>4, <2>5, <2>6 DEF Orderly
<1> QED
  BY <1>5, <1>6

LEMMA OrderlyInsert ==
  ASSUME Orderly, LibraryTypeOK', NEW s \in Sessions, Insert(s)
  PROVE  Orderly'
<1> DEFINE doc == [content |-> session[s].content, category |-> session[s].category, version |-> 1,
                   status |-> "valid", expires_at |-> session[s].expires_at, original |-> TRUE]
           n == Len(docs) + 1
<1>1. /\ session[s].pc = "upload" /\ docs' = Append(docs, doc)
      /\ session' = [session EXCEPT ![s] = [pc |-> "sync", doc |-> n, read |-> doc]]
      /\ UNCHANGED <<today, refreshed, overlapped, cut>>
  BY DEF Insert
<1>2. doc.content = session[s].content /\ doc.category = session[s].category
  OBVIOUS
<1> HIDE DEF doc
<1>3. /\ Docs = 1 .. Len(docs) /\ Len(docs) \in Nat /\ Docs' = Docs \union {n} /\ n \notin Docs
      /\ docs'[n] = doc /\ \A d \in Docs : docs'[d] = docs[d]
  BY <1>1 DEF Orderly, LibraryTypeOK, Docs
<1>4. CASE overlapped
  BY <1>1, <1>4 DEF Orderly, Lone, NoDuplicateUpload, Truthful
<1>5. CASE ~ overlapped
  <2>1. \A t \in Sessions \ {s} : ~ IsOpen(t)
    BY <1>1, <1>5 DEF Orderly, Lone, IsOpen
  <2>2. /\ session'[s] = [pc |-> "sync", doc |-> n, read |-> doc]
        /\ \A t \in Sessions \ {s} : session'[t].pc = "closed"
    BY <1>1, <2>1 DEF Orderly, LibraryTypeOK, IsOpen
  <2>3. Lone'
    BY <1>3, <2>2 DEF Lone, IsOpen
  <2>4. ~ \E d \in Docs : IsDuplicate(docs[d], session[s].content, session[s].category)
    BY <1>1, <1>5 DEF Orderly, Lone
  <2>5. NoDuplicateUpload'
    BY <1>2, <1>3, <1>5, <2>4 DEF Orderly, NoDuplicateUpload, IsDuplicate
  <2>6. Truthful'
    <3>0. session'[s].pc = "sync" /\ session'[s].doc = n
      BY <2>2
    <3> HIDE DEF n
    <3> SUFFICES ASSUME ~ cut, refreshed = today, NEW d \in Docs', d # n PROVE Follows(docs[d])'
      BY <1>1, <3>0 DEF Truthful
    <3>1. d \in Docs /\ docs'[d] = docs[d] /\ today' = today
      BY <1>1, <1>3
    <3>2. \A t \in Sessions : session[t].pc # "sync"
      BY <1>1, <2>1 DEF IsOpen
    <3>3. Follows(docs[d])
      BY <1>5, <3>1, <3>2 DEF Orderly, Truthful
    <3> QED
      BY <3>1, <3>3 DEF Follows, is_expired
  <2> QED
    BY <2>3, <2>5, <2>6 DEF Orderly
<1> QED
  BY <1>4, <1>5

LEMMA OrderlyInterrupt ==
  ASSUME Orderly, LibraryTypeOK', NEW s \in Sessions, Interrupt(s)
  PROVE  Orderly'
<1>1. /\ cut' = (cut \/ session[s].pc = "sync") /\ UNCHANGED <<docs, today, refreshed, overlapped>>
      /\ session'[s] = Closed /\ \A t \in Sessions \ {s} : session'[t] = session[t]
  BY DEF Interrupt, Close, Orderly, LibraryTypeOK
<1>2. session'[s].pc = "closed" /\ Docs' = Docs
  BY <1>1 DEF Closed, Docs
<1>3. Lone'
  BY <1>1, <1>2 DEF Orderly, Lone, IsOpen, IsDuplicate
<1>4. NoDuplicateUpload'
  BY <1>1, <1>2 DEF Orderly, NoDuplicateUpload
<1>5. Truthful'
  BY <1>1, <1>2 DEF Orderly, Truthful, Follows, is_expired
<1> QED
  BY <1>3, <1>4, <1>5 DEF Orderly

LEMMA OrderlyNight ==
  ASSUME Orderly, LibraryTypeOK', RefreshExpiry
  PROVE  Orderly'
<1>1. /\ overlapped' = (overlapped \/ \E s \in Sessions : IsOpen(s))
      /\ UNCHANGED <<session, today>>
      /\ Docs' = Docs /\ \A d \in Docs : docs'[d] = sync_expiry_status(docs[d])
  BY DEF RefreshExpiry, Docs
<1>2. \A d \in Docs : docs[d] \in Document
  BY DEF Orderly, LibraryTypeOK, Docs
<1>3. CASE overlapped'
  BY <1>3 DEF Orderly, Lone, NoDuplicateUpload, Truthful
<1>4. CASE ~ overlapped'
  <2>1. ~ overlapped /\ \A s \in Sessions : session'[s].pc = "closed"
    BY <1>1, <1>4 DEF IsOpen
  <2>2. Lone'
    BY <2>1 DEF Lone, IsOpen
  <2>3. \A d \in Docs : Follows(docs'[d]) /\ Remains(docs[d], docs'[d])
    BY <1>1, <1>2, SyncedFollows
  <2>4. NoDuplicateUpload'
    BY <1>1, <2>1, <2>3 DEF Orderly, NoDuplicateUpload, Remains
  <2>5. Truthful'
    BY <1>1, <2>3 DEF Truthful, Follows, is_expired
  <2> QED
    BY <2>2, <2>4, <2>5 DEF Orderly
<1> QED
  BY <1>3, <1>4

LEMMA OrderlyMidnight ==
  ASSUME Orderly, LibraryTypeOK', Midnight
  PROVE  Orderly'
<1>1. /\ overlapped' = (overlapped \/ \E s \in Sessions : IsOpen(s))
      /\ UNCHANGED <<docs, session, refreshed, cut>> /\ today' = today + 1
  BY DEF Midnight
<1>2. refreshed' # today'
  BY <1>1, LibraryAssumption DEF Orderly, LibraryTypeOK
<1>3. Truthful'
  BY <1>2 DEF Truthful
<1>4. Lone' /\ NoDuplicateUpload'
  BY <1>1 DEF Orderly, Lone, IsOpen, NoDuplicateUpload, Docs, IsDuplicate
<1> QED
  BY <1>3, <1>4 DEF Orderly

LEMMA OrderlyStep == Orderly /\ [LibraryNext]_libraryVars => Orderly'
<1> SUFFICES ASSUME Orderly, [LibraryNext]_libraryVars PROVE Orderly'
  OBVIOUS
<1>1. LibraryTypeOK'
  BY LibraryTypesStep DEF Orderly
<1>2. ASSUME NEW s \in Sessions, NEW content \in Contents, NEW category \in Categories,
             NEW e \in Expiries, OpenUpload(s, content, category, e)
      PROVE  Orderly'
  <2> DEFINE held == [pc |-> "upload", content |-> content, category |-> category, expires_at |-> e]
  <2>1. /\ Open(s, held) /\ UNCHANGED <<docs, today, refreshed, cut>>
        /\ ~ \E d \in Docs : IsDuplicate(docs[d], held.content, held.category)
    BY <1>2 DEF OpenUpload
  <2>2. held.pc = "upload"
    OBVIOUS
  <2> HIDE DEF held
  <2> QED
    BY <1>1, <2>1, <2>2, OrderlyOpen
<1>3. ASSUME NEW s \in Sessions, NEW d \in Docs, OpenEdit(s, d) PROVE Orderly'
  <2> DEFINE held == [pc |-> "edit", doc |-> d, read |-> docs[d]]
  <2>1. Open(s, held) /\ UNCHANGED <<docs, today, refreshed, cut>>
    BY <1>3 DEF OpenEdit
  <2>2. held.pc = "edit" /\ held.read = docs[held.doc]
    OBVIOUS
  <2> HIDE DEF held
  <2> QED
    BY <1>1, <2>1, <2>2, OrderlyOpen
<1>4. CASE UNCHANGED libraryVars
  BY <1>1, <1>4 DEF libraryVars, Orderly, Lone, IsOpen, NoDuplicateUpload, Truthful, Docs, IsDuplicate,
                    Follows, is_expired
<1> QED
  BY <1>1, <1>2, <1>3, <1>4, OrderlyInsert, OrderlyInterrupt, OrderlyNight, OrderlyMidnight, OrderlyEdit
     DEF LibraryNext

LEMMA OrderlyInit == LibraryInit => Orderly
<1> SUFFICES ASSUME LibraryInit PROVE Orderly
  OBVIOUS
<1>1. Docs = {} /\ \A s \in Sessions : session[s].pc = "closed"
  BY DEF LibraryInit, Docs, Closed
<1> QED
  BY <1>1, LibraryTypesInit DEF Orderly, Lone, IsOpen, NoDuplicateUpload, Truthful

LEMMA OrderlyAlways == LibrarySpec => []Orderly
BY OrderlyInit, OrderlyStep, PTL DEF LibrarySpec

\* As long as no request has met another, a file is not uploaded twice in a
\* category, be the first upload cut short or the document expired since.
THEOREM UploadsAreUnique == LibrarySpec => []NoDuplicateUpload
<1>1. Orderly => NoDuplicateUpload
  BY DEF Orderly
<1> QED
  BY <1>1, OrderlyAlways, PTL

\* Until then, and but for an upload that was cut, the statuses say what the
\* dates say once the nightly task has run.
THEOREM StatusesFollowDates == LibrarySpec => []StatusFollowsDate
<1>1. Orderly => StatusFollowsDate
  BY DEF Orderly, Truthful, StatusFollowsDate, Follows, is_usable
<1> QED
  BY <1>1, OrderlyAlways, PTL
=============================================================================
