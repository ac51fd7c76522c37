----------------------------- MODULE Applications -----------------------------
(***************************************************************************)
(* The application prepared for one tender: documents made from templates, *)
(* the jobs that have their sections written by a model, and their export  *)
(* to files.                                                               *)
(*                                                                         *)
(* A session works on the rows it read and commits what it changed.  A     *)
(* generation job commits after each section, so that a worker that dies   *)
(* leaves a document half rewritten; an export writes its file before it   *)
(* commits the file's key.                                                 *)
(*                                                                         *)
(* A template is named by its document type.  A text is the version it was *)
(* written for and the claims the guard finds in it (none if the model     *)
(* failed); a file, the versions its texts were written for.  The facts of *)
(* the company do not change.  Titles, positions, sources, missing         *)
(* information and the progress messages are left out.                     *)
(***************************************************************************)
EXTENDS Templates, FactGuard, UnitOfWork

CONSTANTS
  Types,       \* the document types in use
  OwnTemplates,\* the templates the user made before the seeding
  UserPlans,   \* the plans a user may give each template
  Wishes,      \* the sets of templates a user may ask to add
  Writings,    \* the claims the model may write in a section
  Facts,       \* what the guard knows of the company
  Sessions,    \* the sessions of the requests and of the jobs
  MaxDocs,     \* bound on the documents
  MaxVersion   \* bound on the versions of a document

ASSUME ApplicationsAssumption ==
  /\ IsFiniteSet(Types) /\ Types \subseteq DocumentType
  /\ \A t \in Types : \A plan \in UserPlans[t] : ValidPlan(plan)
  /\ Wishes \subseteq SUBSET Types
  /\ MaxDocs \in Nat /\ MaxVersion \in Nat

VARIABLES
  templates,   \* the plan of each template that exists
  docs,        \* application_documents, in the order they were created
  sections,    \* the sections of each document: a text for each key
  application, \* applications.status
  files,       \* the exported files on the storage
  session,     \* what each session holds
  overlapped,  \* has a session been opened while another was open?
  killed       \* has a session died before its end?

mishaps == <<overlapped, killed>>

vars == <<templates, docs, sections, application, files, session, mishaps>>

Closed == [pc |-> "closed"]

NoTemplate == "none"

\* `export` is the version whose file export_storage_key names, 0 if none.
NewDocument(type) ==
  [template |-> type, status |-> "pending", version |-> 0, export |-> 0, warnings |-> {}]

\* The function of no sections, no files, no templates.
None == [x \in {} |-> 0]

Init ==
  /\ templates = [t \in Types |-> Seeded(OwnTemplates)[t]]
  /\ docs = << >>
  /\ sections = << >>
  /\ application = "draft"
  /\ files = None
  /\ session = [s \in Sessions |-> Closed]
  /\ overlapped = FALSE
  /\ killed = FALSE

-----------------------------------------------------------------------------
(* Sessions. *)

Docs == DOMAIN docs

IsOpen(s) == session[s].pc # "closed"

Open(s, held) ==
  /\ ~ IsOpen(s)
  /\ session' = [session EXCEPT ![s] = held]
  /\ overlapped' = (overlapped \/ \E r \in Sessions : IsOpen(r))
  /\ UNCHANGED killed

\* Session s goes on with this.
GoesOn(s, held) == session' = [session EXCEPT ![s] = held]

Close(s) == GoesOn(s, Closed)

\* The process dies, or the session ends on an error it does not handle:
\* what was committed stays.
Kill(s) ==
  /\ IsOpen(s)
  /\ Close(s)
  /\ killed' = TRUE
  /\ UNCHANGED <<templates, docs, sections, application, files, overlapped>>

-----------------------------------------------------------------------------
(* Templates and documents. *)

\* PATCH /templates/{id}: documents already written keep their sections.
UpdateTemplate(t, plan) ==
  /\ t \in DOMAIN templates
  /\ templates' = [templates EXCEPT ![t] = plan]
  /\ UNCHANGED <<docs, sections, application, files, session, mishaps>>

\* The row of a template is deleted (no endpoint does it): its documents
\* lose their template.
RemoveTemplate(t) ==
  /\ t \in DOMAIN templates
  /\ templates' = [u \in DOMAIN templates \ {t} |-> templates[u]]
  /\ docs' = [d \in Docs |->
       IF docs[d].template = t THEN [docs[d] EXCEPT !.template = NoTemplate] ELSE docs[d]]
  /\ UNCHANGED <<sections, application, files, session, mishaps>>

\* POST /applications/{id}/documents reads the templates and the documents.
OpenAddition(s, wish) ==
  /\ wish \subseteq DOMAIN templates
  /\ Open(s, [pc |-> "add", wish |-> wish, known |-> {docs[d].template : d \in Docs}])
  /\ UNCHANGED <<templates, docs, sections, application, files>>

\* Wrong: the templates the application has are not left out.
Missing_all(wish, known) == wish

\* The templates asked for that the application does not have yet.
Missing(wish, known) == wish \ known

\* The documents, with one more for each of these templates.
Added(created) ==
  {docs \o [i \in DOMAIN order |-> NewDocument(order[i])] :
     order \in Bijection(1 .. Cardinality(created), created)}

\* add_documents, and its commit, in the order of the request; a template
\* deleted meanwhile fails the foreign key.
AddDocuments(s) ==
  /\ session[s].pc = "add"
  /\ LET created == Missing(session[s].wish, session[s].known)
     IN  /\ Len(docs) + Cardinality(created) <= MaxDocs
         /\ IF created \subseteq DOMAIN templates
            THEN /\ docs' \in Added(created)
                 /\ sections' = sections \o [i \in 1 .. Cardinality(created) |-> None]
            ELSE UNCHANGED <<docs, sections>>
  /\ Close(s)
  /\ UNCHANGED <<templates, application, files, mishaps>>

-----------------------------------------------------------------------------
(* generate_application_documents. *)

\* What a job holds: the application's status as it read it, the rows, the
\* documents left, and of the document it is writing the keys left and the
\* sections it knows.
Job(pc, read, rows, todo, plan, held) ==
  [pc |-> pc, read |-> read, docs |-> rows, todo |-> todo, plan |-> plan, held |-> held]

\* The documents asked for, all of them when none is named, are looked up in
\* the application that the job reads.
StartGeneration(s, wanted) ==
  /\ wanted # {} /\ wanted \subseteq Docs
  /\ \A d \in wanted : docs[d].version < MaxVersion
  /\ Open(s, Job("job", application, docs, wanted, << >>, None))
  /\ UNCHANGED <<templates, docs, sections, application, files>>

\* They are taken in the order of the application.
Current(s) == Min(session[s].todo)

\* Document d as session s commits it.
WriteDocument(s, d, new) == docs' = [docs EXCEPT ![d] = Written(@, session[s].docs[d], new)]

\* The rows it then holds.
Rows(s, d, new) == [session[s].docs EXCEPT ![d] = new]

\* The document has no plan: it fails, the next ones go on.
RefuseDocument(s) ==
  /\ session[s].pc = "job" /\ session[s].todo # {}
  /\ LET d == Current(s)
         new == [session[s].docs[d] EXCEPT !.status = "failed"]
     IN  /\ docs[d].template = NoTemplate
         /\ WriteDocument(s, d, new)
         /\ GoesOn(s, Job("job", session[s].read, Rows(s, d, new), session[s].todo \ {d}, << >>, None))
  /\ UNCHANGED <<templates, sections, application, files, mishaps>>

\* Wrong: the sections the document has are not looked up.
Existing_none(d) == None

\* The sections of document d, by key.
Existing(d) == sections[d]

\* generate_document reads the plan and the sections; the document shows as
\* being generated when the first progress report commits.
BeginDocument(s) ==
  /\ session[s].pc = "job" /\ session[s].todo # {}
  /\ LET d == Current(s)
         new == [session[s].docs[d] EXCEPT !.status = "generating"]
     IN  /\ docs[d].template # NoTemplate
         /\ WriteDocument(s, d, new)
         /\ GoesOn(s, Job("sections", session[s].read, Rows(s, d, new), session[s].todo,
                          section_keys(templates[docs[d].template]), Existing(d)))
  /\ UNCHANGED <<templates, sections, application, files, mishaps>>

\* The text the model gives for the next section: its claims, or a failure
\* that leaves none.
Texts(s) ==
  LET d == Current(s)
  IN  {[for |-> session[s].docs[d].version + 1, claims |-> c] : c \in Writings \union {<< >>}}

\* A key is new to the session and another session has inserted it: the flush
\* fails, and with it every later use of the session (uq_section_document_key).
Conflict(s, key) == key \notin DOMAIN session[s].held /\ key \in DOMAIN sections[Current(s)]

\* The sections `old` with this text under this key.
With(old, key, text) == [k \in DOMAIN old \union {key} |-> IF k = key THEN text ELSE old[k]]

\* The job fails; the document stays as it was last committed.
LoseJob(s) ==
  /\ session[s].pc = "sections"
  /\ Conflict(s, Head(session[s].plan))
  /\ Close(s)
  /\ UNCHANGED <<templates, docs, sections, application, files, mishaps>>

\* The sections in the database once session s has committed this one: a text
\* that did not change is not written.
Stored(s, key, text) ==
  LET held == session[s].held
  IN  [sections EXCEPT ![Current(s)] =
         IF key \in DOMAIN held /\ held[key] = text THEN @ ELSE With(@, key, text)]

\* The section is written; the next progress report commits it.
WriteSection(s) ==
  /\ session[s].pc = "sections" /\ Len(session[s].plan) > 1
  /\ LET key == Head(session[s].plan)
     IN  /\ ~ Conflict(s, key)
         /\ \E text \in Texts(s) :
              /\ sections' = Stored(s, key, text)
              /\ GoesOn(s, Job("sections", session[s].read, session[s].docs, session[s].todo,
                              Tail(session[s].plan), With(session[s].held, key, text)))
  /\ UNCHANGED <<templates, docs, application, files, mishaps>>

\* What the guard reports on all the sections the session knows, those an
\* older plan has left included.
review(held) ==
  UNION {{<<k, c>> : c \in check(held[k].claims, Facts)} : k \in DOMAIN held}

\* Wrong: a document written again keeps its version number.
Finished_numbered_once(document, warnings) ==
  [document EXCEPT !.version = 1, !.status = "draft", !.warnings = warnings]

\* Wrong: the status is left to the caller.
Finished_generating(document, warnings) ==
  [document EXCEPT !.version = @ + 1, !.warnings = warnings]

Finished(document, warnings) ==
  [document EXCEPT !.version = @ + 1, !.status = "draft", !.warnings = warnings]

\* The last section is written, the document reviewed, and all committed.
FinishDocument(s) ==
  /\ session[s].pc = "sections" /\ Len(session[s].plan) = 1
  /\ LET d == Current(s)
         key == Head(session[s].plan)
     IN  /\ ~ Conflict(s, key)
         /\ \E text \in Texts(s) :
              LET held == With(session[s].held, key, text)
                  new == Finished(session[s].docs[d], review(held))
              IN  /\ sections' = Stored(s, key, text)
                  /\ WriteDocument(s, d, new)
                  /\ GoesOn(s, Job("job", session[s].read, Rows(s, d, new), session[s].todo \ {d}, << >>, None))
  /\ UNCHANGED <<templates, application, files, mishaps>>

\* Wrong: the documents that failed are not set apart.
StatusAfter_any(current, statuses) == IF "pending" \in statuses THEN current ELSE "review"

\* set_status_after_generation
StatusAfter(current, statuses) ==
  IF statuses \intersect {"draft", "validated"} # {} THEN "review"
  ELSE IF statuses = {"failed"} THEN "draft" ELSE current

\* A status that is still the one the job read is not written.
EndGeneration(s) ==
  /\ session[s].pc = "job" /\ session[s].todo = {}
  /\ LET read == session[s].read
         new == StatusAfter(read, {session[s].docs[d].status : d \in DOMAIN session[s].docs})
     IN  application' = IF new = read THEN application ELSE new
  /\ Close(s)
  /\ UNCHANGED <<templates, docs, sections, files, mishaps>>

-----------------------------------------------------------------------------
(* Export and download. *)

\* POST .../export, and a download of a document that has no file yet.
OpenExport(s, d) ==
  /\ d \in Docs /\ docs[d].version > 0
  /\ Open(s, [pc |-> "put", doc |-> d, row |-> docs[d]])
  /\ UNCHANGED <<templates, docs, sections, application, files>>

export_key(d, row) == <<d, row.version>>

\* The sections are read, the file is made and stored.  `clean` says that no
\* generation was half-way, for the properties only.
PutFile(s) ==
  /\ session[s].pc = "put"
  /\ LET d == session[s].doc
     IN  files' = [name \in DOMAIN files \union {export_key(d, session[s].row)} |->
           IF name = export_key(d, session[s].row)
           THEN [versions |-> {text.for : text \in Range(sections[d])},
                 clean |-> ~ overlapped /\ session[s].row.status = "draft"]
           ELSE files[name]]
  /\ GoesOn(s, [session[s] EXCEPT !.pc = "commit"])
  /\ UNCHANGED <<templates, docs, sections, application, mishaps>>

\* Session s commits the key of the file.
KeyWritten(s) ==
  LET read == session[s].row
  IN  docs' = [docs EXCEPT ![session[s].doc] = Written(@, read, [read EXCEPT !.export = read.version])]

\* Wrong: the key may be committed before the file is stored.
CommitExport_early(s) ==
  /\ session[s].pc \in {"put", "commit"}
  /\ KeyWritten(s)
  /\ Close(s)
  /\ UNCHANGED <<templates, sections, application, files, mishaps>>

CommitExport(s) ==
  /\ session[s].pc = "commit"
  /\ KeyWritten(s)
  /\ Close(s)
  /\ UNCHANGED <<templates, sections, application, files, mishaps>>

-----------------------------------------------------------------------------
\* The steps of a job that its worker takes as long as it lives.
Generate(s) ==
  \/ RefuseDocument(s) \/ BeginDocument(s)
  \/ LoseJob(s) \/ WriteSection(s) \/ FinishDocument(s) \/ EndGeneration(s)

Next ==
  \/ \E t \in Types : RemoveTemplate(t) \/ \E plan \in UserPlans[t] : UpdateTemplate(t, plan)
  \/ \E s \in Sessions :
       \/ \E wish \in Wishes : OpenAddition(s, wish)
       \/ AddDocuments(s)
       \/ \E wanted \in SUBSET Docs : StartGeneration(s, wanted)
       \/ Generate(s)
       \/ \E d \in Docs : OpenExport(s, d)
       \/ PutFile(s) \/ CommitExport(s)
       \/ Kill(s)

\* A worker that lives goes on with its job: the model answers or times out.
Spec == Init /\ [][Next]_vars /\ \A s \in Sessions : WF_vars(Generate(s))

-----------------------------------------------------------------------------
(* Properties that hold however the sessions overlap. *)

\* Every variable has its type.
TypeOK ==
  /\ DOMAIN templates \subseteq Types
  /\ \A d \in Docs :
       /\ docs[d].template \in Types \union {NoTemplate}
       /\ docs[d].status \in {"pending", "generating", "draft", "failed"}
       /\ docs[d].version \in 0 .. MaxVersion /\ docs[d].export \in 0 .. MaxVersion
  /\ DOMAIN sections = Docs
  /\ application \in {"draft", "review"}
  /\ DOMAIN session = Sessions
  /\ overlapped \in BOOLEAN /\ killed \in BOOLEAN

\* An application is in review only if there is a text to read in it
\* (applications.py:141-142), even when a job read documents that others
\* have generated since.
ReviewHasText == application = "review" => \E d \in Docs : docs[d].version > 0

\* The file that a download serves is on the storage, wherever an export
\* stopped (applications.py:113-114).
KeysAreStored ==
  \A d \in Docs : docs[d].export # 0 => <<d, docs[d].export>> \in DOMAIN files

-----------------------------------------------------------------------------
(* Properties that hold as long as no two sessions have overlapped. *)

\* A template has one document in the application (applications.py:73-74).
OneDocumentPerTemplate ==
  ~ overlapped => \A c, d \in Docs :
    docs[c].template = docs[d].template /\ docs[c].template # NoTemplate => c = d

\* The file of a version has its text, not that of a later generation
\* (applications.py:107), even one that died half-way; not so if it was made
\* during a generation.
FilesTellTheirVersion ==
  \A name \in DOMAIN files : files[name].clean => name[2] = Max(files[name].versions)

\* Whatever a draft says that the facts do not support is in its warnings
\* (generation.py:8-9), the sections left by an older plan included.
WarningsCoverText ==
  ~ overlapped => \A d \in Docs : docs[d].status = "draft" =>
    \A k \in DOMAIN sections[d] : \A c \in check(sections[d][k].claims, Facts) :
      <<k, c>> \in docs[d].warnings

Generating == \E d \in Docs : docs[d].status = "generating"

\* No document shows as being generated for ever, unless a worker has died
\* (generation.py:118, tasks/generation.py:47-51): the moment comes when none
\* does.
GenerationEnds == Generating ~> (~ Generating \/ overlapped \/ killed)
=============================================================================
