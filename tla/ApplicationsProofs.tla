--------------------------- MODULE ApplicationsProofs ---------------------------
(***************************************************************************)
(* Theorems about Applications, for any templates, plans, texts, facts and *)
(* sessions.                                                               *)
(***************************************************************************)
EXTENDS Applications, SequenceTheorems, FunctionTheorems, FiniteSetTheorems, TLAPS

-----------------------------------------------------------------------------
(* Numbers and lists. *)

LEMMA LeastNumber ==
  ASSUME NEW S, S \subseteq Nat, S # {}
  PROVE  Min(S) \in S
<1> DEFINE R == {ss \in Nat \X Nat : ss[1] < ss[2]}
<1>1. IsWellFoundedOn(R, Nat)
  BY NatLessThanWellFounded DEF OpToRel
<1>2. PICK x \in S : \A y \in S : ~ (<<y, x>> \in R)
  <2> HIDE DEF R
  <2> QED
    BY <1>1, WFMin
<1>3. ASSUME NEW y \in S PROVE x <= y
  <2>1. <<y, x>> \in Nat \X Nat /\ <<y, x>>[1] = y /\ <<y, x>>[2] = x
    OBVIOUS
  <2>2. ~ (y < x)
    BY <1>2, <2>1
  <2> QED
    BY <2>2
<1> QED
  BY <1>3 DEF Min

\* The greatest number of a set is the one that bounds it.
LEMMA GreatestNumber ==
  ASSUME NEW S, S \subseteq Nat, NEW n \in S, \A m \in S : m <= n
  PROVE  Max(S) = n
<1>1. \A m \in S : n >= m
  OBVIOUS
<1>2. Max(S) \in S /\ \A m \in S : Max(S) >= m
  BY <1>1 DEF Max
<1>3. Max(S) >= n /\ Max(S) <= n /\ Max(S) \in Nat
  BY <1>2
<1> QED
  BY <1>3

\* A sequence, of whatever it holds.
IsList(s) == \E S : s \in Seq(S)

LEMMA ListDomain ==
  ASSUME NEW s, IsList(s)
  PROVE  Len(s) \in Nat /\ DOMAIN s = 1 .. Len(s) /\ s = [i \in 1 .. Len(s) |-> s[i]]
<1>1. PICK S : s \in Seq(S)
  BY DEF IsList
<1> QED
  BY <1>1, LenProperties

LEMMA ListOf ==
  ASSUME NEW n \in Nat, NEW s, s = [i \in 1 .. n |-> s[i]]
  PROVE  IsList(s) /\ Len(s) = n
<1> DEFINE S == {s[i] : i \in 1 .. n}
<1>1. s \in [1 .. n -> S]
  OBVIOUS
<1>2. s \in Seq(S)
  BY <1>1, SeqDef
<1>3. Len(s) \in Nat /\ DOMAIN s = 1 .. Len(s) /\ DOMAIN s = 1 .. n
  BY <1>1, <1>2, LenProperties
<1>4. Len(s) = n
  BY <1>3
<1> QED
  BY <1>2, <1>4 DEF IsList

LEMMA ListConcat ==
  ASSUME NEW s, NEW t, IsList(s), IsList(t)
  PROVE  /\ IsList(s \o t)
         /\ Len(s \o t) = Len(s) + Len(t)
         /\ \A i \in 1 .. Len(s) : (s \o t)[i] = s[i]
         /\ \A i \in Len(s) + 1 .. Len(s) + Len(t) : (s \o t)[i] = t[i - Len(s)]
<1>1. PICK S : s \in Seq(S)
  BY DEF IsList
<1>2. PICK T : t \in Seq(T)
  BY DEF IsList
<1>3. s \in Seq(S \union T) /\ t \in Seq(S \union T)
  BY <1>1, <1>2, SeqMonotonic
<1>4. Len(s) \in Nat /\ Len(t) \in Nat
  BY <1>3, LenProperties
<1> QED
  BY <1>3, <1>4, ConcatProperties DEF IsList

-----------------------------------------------------------------------------
(* Rows. *)

IsDocument(r) ==
  /\ r = [template |-> r.template, status |-> r.status, version |-> r.version,
          export |-> r.export, warnings |-> r.warnings]
  /\ r.template \in Types \union {NoTemplate}
  /\ r.status \in {"pending", "generating", "draft", "failed"}
  /\ r.version \in 0 .. MaxVersion /\ r.export \in 0 .. MaxVersion

LEMMA NewRow ==
  ASSUME NEW t \in Types
  PROVE  IsDocument(NewDocument(t)) /\ NewDocument(t).template = t
         /\ NewDocument(t).version = 0 /\ NewDocument(t).export = 0
         /\ NewDocument(t).status = "pending"
BY ApplicationsAssumption DEF NewDocument, IsDocument

\* What a commit writes, column by column.
LEMMA WrittenRow ==
  ASSUME NEW r, NEW old, NEW new, IsDocument(r), IsDocument(old), IsDocument(new)
  PROVE  LET w == Written(r, old, new)
         IN  /\ IsDocument(w)
             /\ w.template = IF new.template # old.template THEN new.template ELSE r.template
             /\ w.status = IF new.status # old.status THEN new.status ELSE r.status
             /\ w.version = IF new.version # old.version THEN new.version ELSE r.version
             /\ w.export = IF new.export # old.export THEN new.export ELSE r.export
             /\ w.warnings = IF new.warnings # old.warnings THEN new.warnings ELSE r.warnings
<1> DEFINE w == Written(r, old, new)
<1>1. DOMAIN r = {"template", "status", "version", "export", "warnings"}
  BY DEF IsDocument
<1>2. w = [f \in {"template", "status", "version", "export", "warnings"} |->
             IF new[f] # old[f] THEN new[f] ELSE r[f]]
  BY <1>1 DEF Written
<1>3. /\ w.template = IF new.template # old.template THEN new.template ELSE r.template
      /\ w.status = IF new.status # old.status THEN new.status ELSE r.status
      /\ w.version = IF new.version # old.version THEN new.version ELSE r.version
      /\ w.export = IF new.export # old.export THEN new.export ELSE r.export
      /\ w.warnings = IF new.warnings # old.warnings THEN new.warnings ELSE r.warnings
  BY <1>2
<1>4. w = [template |-> w.template, status |-> w.status, version |-> w.version,
           export |-> w.export, warnings |-> w.warnings]
  BY <1>2
<1> HIDE DEF w
<1>5. /\ w.template \in Types \union {NoTemplate}
      /\ w.status \in {"pending", "generating", "draft", "failed"}
      /\ w.version \in 0 .. MaxVersion /\ w.export \in 0 .. MaxVersion
  BY <1>3 DEF IsDocument
<1>6. IsDocument(w)
  BY <1>4, <1>5 DEF IsDocument
<1> QED
  BY <1>3, <1>6 DEF w

-----------------------------------------------------------------------------
(* What the sessions hold. *)

IsAddition(h) ==
  /\ h = [pc |-> "add", wish |-> h.wish, known |-> h.known]
  /\ h.wish \subseteq Types

IsJob(h) ==
  /\ h = [pc |-> h.pc, read |-> h.read, docs |-> h.docs, todo |-> h.todo, plan |-> h.plan, held |-> h.held]
  /\ h.pc \in {"job", "sections"}
  /\ h.docs = [d \in DOMAIN h.docs |-> h.docs[d]]
  /\ \A d \in DOMAIN h.docs : IsDocument(h.docs[d])
  /\ h.todo \subseteq DOMAIN h.docs
  /\ \A d \in h.todo : h.docs[d].version < MaxVersion
  /\ h.pc = "sections" => h.todo # {}

IsExport(h) ==
  /\ h = [pc |-> h.pc, doc |-> h.doc, row |-> h.row]
  /\ h.pc \in {"put", "commit"}
  /\ IsDocument(h.row)

\* h is what a session may hold when these documents exist.
MayHold(h, ids) ==
  \/ h = Closed
  \/ IsAddition(h)
  \/ IsJob(h) /\ DOMAIN h.docs \subseteq ids
  \/ IsExport(h) /\ h.doc \in ids

Typed ==
  /\ DOMAIN templates \subseteq Types
  /\ IsList(docs) /\ \A d \in Docs : IsDocument(docs[d])
  /\ IsList(sections) /\ Len(sections) = Len(docs)
  /\ application \in {"draft", "review"}
  /\ session = [s \in Sessions |-> session[s]]
  /\ \A s \in Sessions : MayHold(session[s], Docs)
  /\ overlapped \in BOOLEAN /\ killed \in BOOLEAN

LEMMA DocsAreNumbers ==
  ASSUME Typed
  PROVE  Len(docs) \in Nat /\ Docs = 1 .. Len(docs) /\ DOMAIN sections = Docs
BY ListDomain DEF Typed, Docs

LEMMA Stages ==
  ASSUME NEW h
  PROVE  /\ h = Closed => h.pc = "closed"
         /\ IsAddition(h) => h.pc = "add"
         /\ IsJob(h) => h.pc \in {"job", "sections"}
         /\ IsExport(h) => h.pc \in {"put", "commit"}
<1>1. h = Closed => h.pc = "closed"
  BY DEF Closed
<1>2. IsAddition(h) => h.pc = "add"
  BY DEF IsAddition
<1>3. IsJob(h) => h.pc \in {"job", "sections"}
  BY DEF IsJob
<1>4. IsExport(h) => h.pc \in {"put", "commit"}
  BY DEF IsExport
<1> QED
  BY <1>1, <1>2, <1>3, <1>4

LEMMA Additions ==
  ASSUME Typed, NEW s \in Sessions, session[s].pc = "add"
  PROVE  IsAddition(session[s])
BY Stages DEF Typed, MayHold

LEMMA Exports ==
  ASSUME Typed, NEW s \in Sessions, session[s].pc \in {"put", "commit"}
  PROVE  IsExport(session[s]) /\ session[s].doc \in Docs
BY Stages DEF Typed, MayHold

LEMMA JobsHold ==
  ASSUME Typed, NEW s \in Sessions, session[s].pc \in {"job", "sections"}
  PROVE  IsJob(session[s]) /\ DOMAIN session[s].docs \subseteq Docs
BY Stages DEF Typed, MayHold

\* The document a job is at is one that it read.
LEMMA CurrentDocument ==
  ASSUME Typed, NEW s \in Sessions, session[s].pc \in {"job", "sections"}, session[s].todo # {}
  PROVE  /\ Current(s) \in session[s].todo
         /\ Current(s) \in DOMAIN session[s].docs
         /\ Current(s) \in Docs
         /\ IsDocument(session[s].docs[Current(s)])
         /\ session[s].docs[Current(s)].version < MaxVersion
<1>1. IsJob(session[s]) /\ DOMAIN session[s].docs \subseteq Docs /\ Docs \subseteq Nat
  BY JobsHold, DocsAreNumbers
<1>2. session[s].todo \subseteq DOMAIN session[s].docs
  BY <1>1 DEF IsJob
<1>3. Current(s) \in session[s].todo
  BY <1>1, <1>2, LeastNumber DEF Current
<1>4. Current(s) \in DOMAIN session[s].docs
  BY <1>2, <1>3
<1> QED
  BY <1>1, <1>3, <1>4 DEF IsJob

LEMMA SessionsStep ==
  ASSUME Typed, NEW s \in Sessions, NEW h, session' = [session EXCEPT ![s] = h]
  PROVE  /\ session' = [r \in Sessions |-> session'[r]]
         /\ session'[s] = h
         /\ \A r \in Sessions : r # s => session'[r] = session[r]
BY DEF Typed

\* A session goes on: the others hold what they held.
LEMMA HoldsStep ==
  ASSUME Typed, Docs \subseteq Docs', NEW s \in Sessions,
         session' = [r \in Sessions |-> session'[r]],
         \A r \in Sessions : r # s => session'[r] = session[r],
         MayHold(session'[s], Docs')
  PROVE  \A r \in Sessions : MayHold(session'[r], Docs')
BY DEF Typed, MayHold

\* One document is written.
LEMMA RowsStep ==
  ASSUME Typed, NEW d \in Docs, NEW old, NEW new, IsDocument(old), IsDocument(new),
         docs' = [docs EXCEPT ![d] = Written(@, old, new)]
  PROVE  /\ IsList(docs') /\ Len(docs') = Len(docs) /\ Docs' = Docs
         /\ docs'[d] = Written(docs[d], old, new)
         /\ \A e \in Docs : e # d => docs'[e] = docs[e]
         /\ \A e \in Docs' : IsDocument(docs'[e])
<1>1. docs = [e \in 1 .. Len(docs) |-> docs[e]] /\ Docs = 1 .. Len(docs) /\ Len(docs) \in Nat
  BY DocsAreNumbers, ListDomain DEF Typed
<1>2. docs' = [e \in 1 .. Len(docs) |-> docs'[e]]
  BY <1>1
<1>3. IsList(docs') /\ Len(docs') = Len(docs)
  BY <1>1, <1>2, ListOf
<1>4. Docs' = Docs
  BY <1>1, <1>2 DEF Docs
<1>5. docs'[d] = Written(docs[d], old, new) /\ \A e \in Docs : e # d => docs'[e] = docs[e]
  BY <1>1
<1>6. \A e \in Docs : IsDocument(docs[e])
  BY DEF Typed
<1>7. IsDocument(docs'[d])
  BY <1>5, <1>6, WrittenRow
<1> QED
  BY <1>3, <1>4, <1>5, <1>6, <1>7

\* A job has a new row for the document it is at.
LEMMA JobRows ==
  ASSUME NEW h, IsJob(h), NEW d \in DOMAIN h.docs, NEW new, IsDocument(new),
         NEW g, g = [pc |-> g.pc, read |-> g.read, docs |-> g.docs, todo |-> g.todo, plan |-> g.plan, held |-> g.held],
         g.pc \in {"job", "sections"}, g.docs = [h.docs EXCEPT ![d] = new],
         g.todo \subseteq h.todo, d \in g.todo => new.version < MaxVersion,
         g.pc = "sections" => g.todo # {}
  PROVE  IsJob(g) /\ DOMAIN g.docs = DOMAIN h.docs /\ g.docs[d] = new
         /\ \A e \in DOMAIN h.docs : e # d => g.docs[e] = h.docs[e]
<1>1. DOMAIN g.docs = DOMAIN h.docs /\ g.docs[d] = new
      /\ \A e \in DOMAIN h.docs : e # d => g.docs[e] = h.docs[e]
  BY DEF IsJob
<1>2. g.docs = [e \in DOMAIN g.docs |-> g.docs[e]]
  BY DEF IsJob
<1>3. \A e \in DOMAIN g.docs : IsDocument(g.docs[e])
  BY <1>1 DEF IsJob
<1>4. g.todo \subseteq DOMAIN g.docs
  BY <1>1 DEF IsJob
<1>5. \A e \in g.todo : g.docs[e].version < MaxVersion
  BY <1>1, <1>4 DEF IsJob
<1> QED
  BY <1>1, <1>2, <1>3, <1>4, <1>5 DEF IsJob

-----------------------------------------------------------------------------
(* The steps of a job. *)

\* Job s, at document d, commits `new` for it and holds h.
Advances(s, d, new, h) ==
  /\ d = Current(s) /\ d \in Docs /\ d \in DOMAIN session[s].docs
  /\ IsDocument(new)
  /\ WriteDocument(s, d, new)
  /\ IsJob(session[s]) /\ DOMAIN session[s].docs \subseteq Docs
  /\ IsJob(h) /\ DOMAIN h.docs = DOMAIN session[s].docs /\ h.docs[d] = new
  /\ \A e \in DOMAIN h.docs : e # d => h.docs[e] = session[s].docs[e]
  /\ session' = [session EXCEPT ![s] = h]

LEMMA RefuseAdvances ==
  ASSUME Typed, NEW s \in Sessions, RefuseDocument(s)
  PROVE  Advances(s, Current(s), [session[s].docs[Current(s)] EXCEPT !.status = "failed"], session'[s])
<1> DEFINE d == Current(s)
           old == session[s].docs[d]
           new == [old EXCEPT !.status = "failed"]
           h == session[s]
           g == Job("job", h.read, Rows(s, d, new), h.todo \ {d}, << >>, None)
<1>1. IsJob(h) /\ d \in DOMAIN h.docs /\ d \in Docs /\ IsDocument(old) /\ h.pc = "job"
      /\ DOMAIN h.docs \subseteq Docs
  BY CurrentDocument, JobsHold DEF RefuseDocument
<1>2. session' = [session EXCEPT ![s] = g]
  BY DEF RefuseDocument, GoesOn
<1>3. WriteDocument(s, d, new)
  BY DEF RefuseDocument
<1>4. IsDocument(new)
  BY <1>1 DEF IsDocument
<1> HIDE DEF d, old, new
<1>5. /\ g = [pc |-> g.pc, read |-> g.read, docs |-> g.docs, todo |-> g.todo, plan |-> g.plan, held |-> g.held]
      /\ g.pc = "job" /\ g.docs = [h.docs EXCEPT ![d] = new] /\ g.todo = h.todo \ {d}
  BY DEF Job, Rows
<1>6. session'[s] = g
  BY <1>2, SessionsStep
<1> HIDE DEF g
<1>7. IsJob(g) /\ DOMAIN g.docs = DOMAIN h.docs /\ g.docs[d] = new
      /\ \A e \in DOMAIN h.docs : e # d => g.docs[e] = h.docs[e]
  BY <1>1, <1>4, <1>5, JobRows
<1> QED
  BY <1>1, <1>2, <1>3, <1>4, <1>6, <1>7 DEF Advances, d, old, new

LEMMA BeginAdvances ==
  ASSUME Typed, NEW s \in Sessions, BeginDocument(s)
  PROVE  /\ Advances(s, Current(s), [session[s].docs[Current(s)] EXCEPT !.status = "generating"], session'[s])
         /\ session'[s].pc = "sections" /\ session'[s].todo = session[s].todo
         /\ session'[s].held = Existing(Current(s))
<1> DEFINE d == Current(s)
           old == session[s].docs[d]
           new == [old EXCEPT !.status = "generating"]
           h == session[s]
           g == Job("sections", h.read, Rows(s, d, new), h.todo,
                    section_keys(templates[docs[d].template]), Existing(d))
<1>1. IsJob(h) /\ d \in DOMAIN h.docs /\ d \in Docs /\ IsDocument(old) /\ h.pc = "job" /\ h.todo # {}
      /\ DOMAIN h.docs \subseteq Docs /\ old.version < MaxVersion
  BY CurrentDocument, JobsHold DEF BeginDocument
<1>2. session' = [session EXCEPT ![s] = g]
  BY DEF BeginDocument, GoesOn
<1>3. WriteDocument(s, d, new)
  BY DEF BeginDocument
<1>4. IsDocument(new) /\ new.version = old.version
  BY <1>1 DEF IsDocument
<1> HIDE DEF d, old, new
<1>5. /\ g = [pc |-> g.pc, read |-> g.read, docs |-> g.docs, todo |-> g.todo, plan |-> g.plan, held |-> g.held]
      /\ g.pc = "sections" /\ g.docs = [h.docs EXCEPT ![d] = new] /\ g.todo = h.todo
      /\ g.held = Existing(d)
  BY DEF Job, Rows
<1>6. session'[s] = g
  BY <1>2, SessionsStep
<1> HIDE DEF g
<1>7. IsJob(g) /\ DOMAIN g.docs = DOMAIN h.docs /\ g.docs[d] = new
      /\ \A e \in DOMAIN h.docs : e # d => g.docs[e] = h.docs[e]
  BY <1>1, <1>4, <1>5, JobRows
<1> QED
  BY <1>1, <1>2, <1>3, <1>4, <1>5, <1>6, <1>7 DEF Advances, d, old, new

LEMMA FinishAdvances ==
  ASSUME Typed, NEW s \in Sessions, FinishDocument(s)
  PROVE  \E text \in Texts(s) :
           LET key == Head(session[s].plan)
               held == With(session[s].held, key, text)
           IN  /\ sections' = Stored(s, key, text)
               /\ Advances(s, Current(s), Finished(session[s].docs[Current(s)], review(held)), session'[s])
               /\ session'[s].pc = "job"
<1> DEFINE d == Current(s)
           old == session[s].docs[d]
           h == session[s]
           key == Head(h.plan)
<1>1. PICK text \in Texts(s) :
        LET held == With(h.held, key, text)
            new == Finished(old, review(held))
        IN  /\ sections' = Stored(s, key, text)
            /\ WriteDocument(s, d, new)
            /\ GoesOn(s, Job("job", h.read, Rows(s, d, new), h.todo \ {d}, << >>, None))
  BY DEF FinishDocument
<1> DEFINE warnings == review(With(h.held, key, text))
           new == Finished(old, warnings)
           g == Job("job", h.read, Rows(s, d, new), h.todo \ {d}, << >>, None)
<1>a. h.pc = "sections"
  BY DEF FinishDocument
<1>b. h.todo # {}
  BY <1>a, JobsHold DEF IsJob
<1>2. IsJob(h) /\ d \in DOMAIN h.docs /\ d \in Docs /\ IsDocument(old)
      /\ DOMAIN h.docs \subseteq Docs /\ old.version < MaxVersion
  BY <1>a, <1>b, CurrentDocument, JobsHold
<1>3. sections' = Stored(s, key, text) /\ WriteDocument(s, d, new)
  BY <1>1
<1>4. session' = [session EXCEPT ![s] = g]
  BY <1>1 DEF GoesOn
<1> HIDE DEF warnings, d, old
<1>5. IsDocument(new)
  <2>1. old.version + 1 \in 0 .. MaxVersion
    BY <1>2, ApplicationsAssumption DEF IsDocument
  <2>2. DOMAIN old = {"template", "status", "version", "export", "warnings"}
    BY <1>2 DEF IsDocument
  <2>3. new = [old EXCEPT !.version = old.version + 1, !.status = "draft", !.warnings = warnings]
    BY DEF Finished
  <2>4. /\ new.template = old.template /\ new.status = "draft" /\ new.version = old.version + 1
        /\ new.export = old.export
        /\ new = [f \in {"template", "status", "version", "export", "warnings"} |-> new[f]]
    BY <2>2, <2>3
  <2> HIDE DEF new
  <2>5. new = [template |-> new.template, status |-> new.status, version |-> new.version,
               export |-> new.export, warnings |-> new.warnings]
    BY <2>4
  <2> QED
    BY <1>2, <2>1, <2>4, <2>5 DEF IsDocument
<1> HIDE DEF new
<1>6. /\ g = [pc |-> g.pc, read |-> g.read, docs |-> g.docs, todo |-> g.todo, plan |-> g.plan, held |-> g.held]
      /\ g.pc = "job" /\ g.docs = [h.docs EXCEPT ![d] = new] /\ g.todo = h.todo \ {d}
  BY DEF Job, Rows
<1>7. session'[s] = g
  BY <1>4, SessionsStep
<1> HIDE DEF g
<1>8. IsJob(g) /\ DOMAIN g.docs = DOMAIN h.docs /\ g.docs[d] = new
      /\ \A e \in DOMAIN h.docs : e # d => g.docs[e] = h.docs[e]
  BY <1>2, <1>5, <1>6, JobRows
<1>9. Advances(s, d, new, g)
  BY <1>2, <1>3, <1>4, <1>5, <1>8 DEF Advances, d
<1> QED
  BY <1>3, <1>6, <1>7, <1>9 DEF d, old, new, warnings, key

\* The next section: the rows stay as they are.
LEMMA WriteSectionStep ==
  ASSUME Typed, NEW s \in Sessions, WriteSection(s)
  PROVE  \E text \in Texts(s) :
           LET key == Head(session[s].plan)
               h == session'[s]
           IN  /\ sections' = Stored(s, key, text)
               /\ session[s].pc = "sections" /\ h.pc = "sections" /\ IsJob(h)
               /\ h.docs = session[s].docs /\ h.todo = session[s].todo
               /\ h.held = With(session[s].held, key, text)
               /\ session' = [session EXCEPT ![s] = h]
<1> DEFINE h == session[s]
           key == Head(h.plan)
<1>1. PICK text \in Texts(s) :
        /\ sections' = Stored(s, key, text)
        /\ GoesOn(s, Job("sections", h.read, h.docs, h.todo, Tail(h.plan), With(h.held, key, text)))
  BY DEF WriteSection
<1> DEFINE held == With(h.held, key, text)
           g == Job("sections", h.read, h.docs, h.todo, Tail(h.plan), held)
<1>2. IsJob(h) /\ h.pc = "sections"
  BY JobsHold DEF WriteSection
<1>3. session' = [session EXCEPT ![s] = g]
  BY <1>1 DEF GoesOn
<1> HIDE DEF held, key
<1>4. /\ g = [pc |-> g.pc, read |-> g.read, docs |-> g.docs, todo |-> g.todo, plan |-> g.plan, held |-> g.held]
      /\ g.pc = "sections" /\ g.docs = h.docs /\ g.todo = h.todo /\ g.held = held
  BY DEF Job
<1>5. session'[s] = g
  BY <1>3, SessionsStep
<1> HIDE DEF g
<1>6. IsJob(g)
  BY <1>2, <1>4 DEF IsJob
<1> QED
  BY <1>1, <1>2, <1>3, <1>4, <1>5, <1>6 DEF held, key

-----------------------------------------------------------------------------
(* The other steps. *)

LEMMA AddedRows ==
  ASSUME Typed, NEW created, created \subseteq Types, docs' \in Added(created),
         sections' = sections \o [i \in 1 .. Cardinality(created) |-> None]
  PROVE  /\ IsList(docs') /\ IsList(sections') /\ Len(sections') = Len(docs')
         /\ Docs \subseteq Docs'
         /\ \A d \in Docs : docs'[d] = docs[d] /\ sections'[d] = sections[d]
         /\ \A d \in Docs' : d \notin Docs =>
              /\ \E t \in created : docs'[d] = NewDocument(t)
              /\ IsDocument(docs'[d]) /\ sections'[d] = None
         /\ \A c, d \in Docs' : c \notin Docs /\ d \notin Docs /\ docs'[c].template = docs'[d].template => c = d
<1> DEFINE n == Cardinality(created)
<1>1. PICK order \in Bijection(1 .. n, created) : docs' = docs \o [i \in DOMAIN order |-> NewDocument(order[i])]
  BY DEF Added
<1>2. /\ n \in Nat
      /\ DOMAIN order = 1 .. n
      /\ \A i \in 1 .. n : order[i] \in created
      /\ \A i, j \in 1 .. n : order[i] = order[j] => i = j
  <2>1. n \in Nat
    BY ApplicationsAssumption, FS_Subset, FS_CardinalityType
  <2> QED
    BY <2>1, Fun_BijectionProperties
<1>3. Len(docs) \in Nat /\ Docs = 1 .. Len(docs) /\ IsList(docs) /\ IsList(sections) /\ Len(sections) = Len(docs)
  BY DocsAreNumbers DEF Typed
<1> DEFINE more == [i \in 1 .. n |-> NewDocument(order[i])]
           none == [i \in 1 .. n |-> None]
<1> HIDE DEF n
<1>4. IsList(more) /\ Len(more) = n /\ IsList(none) /\ Len(none) = n
  BY <1>2, ListOf
<1>5. docs' = docs \o more /\ sections' = sections \o none
  BY <1>1, <1>2 DEF n
<1>6. \A i \in 1 .. n : more[i] = NewDocument(order[i]) /\ none[i] = None
  OBVIOUS
<1> HIDE DEF more, none
<1>7. /\ IsList(docs') /\ Len(docs') = Len(docs) + n
      /\ IsList(sections') /\ Len(sections') = Len(docs) + n
      /\ \A d \in Docs : docs'[d] = docs[d] /\ sections'[d] = sections[d]
      /\ \A d \in Len(docs) + 1 .. Len(docs) + n :
           docs'[d] = NewDocument(order[d - Len(docs)]) /\ sections'[d] = None
  <2>1. \A d \in Len(docs) + 1 .. Len(docs) + n : d - Len(docs) \in 1 .. n
    BY <1>2, <1>3
  <2>2. /\ IsList(docs') /\ Len(docs') = Len(docs) + n
        /\ \A d \in 1 .. Len(docs) : docs'[d] = docs[d]
        /\ \A d \in Len(docs) + 1 .. Len(docs) + n : docs'[d] = more[d - Len(docs)]
    <3>1. /\ IsList(docs \o more) /\ Len(docs \o more) = Len(docs) + Len(more)
          /\ \A d \in 1 .. Len(docs) : (docs \o more)[d] = docs[d]
          /\ \A d \in Len(docs) + 1 .. Len(docs) + Len(more) : (docs \o more)[d] = more[d - Len(docs)]
      BY <1>3, <1>4, ListConcat
    <3> QED
      BY <1>4, <1>5, <3>1
  <2>3. /\ IsList(sections') /\ Len(sections') = Len(docs) + n
        /\ \A d \in 1 .. Len(docs) : sections'[d] = sections[d]
        /\ \A d \in Len(docs) + 1 .. Len(docs) + n : sections'[d] = none[d - Len(docs)]
    <3>1. /\ IsList(sections \o none) /\ Len(sections \o none) = Len(sections) + Len(none)
          /\ \A d \in 1 .. Len(sections) : (sections \o none)[d] = sections[d]
          /\ \A d \in Len(sections) + 1 .. Len(sections) + Len(none) :
               (sections \o none)[d] = none[d - Len(sections)]
      BY <1>3, <1>4, ListConcat
    <3> QED
      BY <1>3, <1>4, <1>5, <3>1
  <2> QED
    BY <1>3, <1>6, <2>1, <2>2, <2>3
<1>8. Docs' = 1 .. Len(docs) + n
  BY <1>7, ListDomain DEF Docs
<1>9. \A d \in Docs' : d \notin Docs => d \in Len(docs) + 1 .. Len(docs) + n /\ d - Len(docs) \in 1 .. n
  BY <1>2, <1>3, <1>8
<1>10. \A d \in Docs' : d \notin Docs =>
         docs'[d] = NewDocument(order[d - Len(docs)]) /\ sections'[d] = None
         /\ order[d - Len(docs)] \in created
  BY <1>2, <1>7, <1>9
<1>11. ASSUME NEW d \in Docs', d \notin Docs
       PROVE  IsDocument(docs'[d]) /\ docs'[d].template = order[d - Len(docs)]
  BY <1>10, <1>11, NewRow
<1>12. ASSUME NEW c \in Docs', NEW d \in Docs', c \notin Docs, d \notin Docs,
              docs'[c].template = docs'[d].template
       PROVE  c = d
  BY <1>2, <1>3, <1>8, <1>9, <1>11, <1>12
<1>13. Docs \subseteq Docs'
  BY <1>2, <1>3, <1>8
<1>14. \A d \in Docs' : d \notin Docs => \E t \in created : docs'[d] = NewDocument(t)
  BY <1>10
<1> QED
  BY <1>7, <1>10, <1>11, <1>12, <1>13, <1>14

LEMMA RemovedRows ==
  ASSUME Typed, NEW t, RemoveTemplate(t)
  PROVE  /\ IsList(docs') /\ Len(docs') = Len(docs) /\ Docs' = Docs
         /\ \A d \in Docs :
              /\ IsDocument(docs'[d])
              /\ docs'[d].template \in {docs[d].template, NoTemplate}
              /\ docs'[d].status = docs[d].status /\ docs'[d].version = docs[d].version
              /\ docs'[d].export = docs[d].export /\ docs'[d].warnings = docs[d].warnings
<1>1. Len(docs) \in Nat /\ Docs = 1 .. Len(docs)
  BY DocsAreNumbers
<1>2. docs' = [d \in Docs |->
         IF docs[d].template = t THEN [docs[d] EXCEPT !.template = NoTemplate] ELSE docs[d]]
  BY DEF RemoveTemplate
<1>3. Docs' = Docs /\ docs' = [d \in 1 .. Len(docs) |-> docs'[d]]
  BY <1>1, <1>2 DEF Docs
<1>4. IsList(docs') /\ Len(docs') = Len(docs)
  BY <1>1, <1>3, ListOf
<1>5. ASSUME NEW d \in Docs
      PROVE  /\ IsDocument(docs'[d])
             /\ docs'[d].template \in {docs[d].template, NoTemplate}
             /\ docs'[d].status = docs[d].status /\ docs'[d].version = docs[d].version
             /\ docs'[d].export = docs[d].export /\ docs'[d].warnings = docs[d].warnings
  <2>1. IsDocument(docs[d])
    BY DEF Typed
  <2>2. docs'[d] = docs[d] \/ docs'[d] = [docs[d] EXCEPT !.template = NoTemplate]
    BY <1>2
  <2> QED
    BY <2>1, <2>2 DEF IsDocument
<1> QED
  BY <1>3, <1>4, <1>5

LEMMA PutFileStep ==
  ASSUME Typed, NEW s \in Sessions, PutFile(s)
  PROVE  /\ IsExport(session'[s]) /\ session'[s].pc = "commit"
         /\ session'[s].doc = session[s].doc /\ session'[s].row = session[s].row
         /\ session' = [session EXCEPT ![s] = session'[s]]
<1> DEFINE h == session[s]
           g == [h EXCEPT !.pc = "commit"]
<1>1. IsExport(h)
  BY Exports DEF PutFile
<1>2. session' = [session EXCEPT ![s] = g]
  BY DEF PutFile, GoesOn
<1>3. session'[s] = g
  BY <1>2, SessionsStep
<1>4. IsExport(g) /\ g.pc = "commit" /\ g.doc = h.doc /\ g.row = h.row
  BY <1>1 DEF IsExport
<1> QED
  BY <1>2, <1>3, <1>4

LEMMA CommitExportStep ==
  ASSUME Typed, NEW s \in Sessions, CommitExport(s)
  PROVE  LET read == session[s].row
             new == [read EXCEPT !.export = read.version]
         IN  /\ IsExport(session[s]) /\ session[s].doc \in Docs
             /\ IsDocument(read) /\ IsDocument(new)
             /\ new.template = read.template /\ new.status = read.status /\ new.version = read.version
             /\ new.export = read.version /\ new.warnings = read.warnings
             /\ docs' = [docs EXCEPT ![session[s].doc] = Written(@, read, new)]
<1>1. IsExport(session[s]) /\ session[s].doc \in Docs
  BY Exports DEF CommitExport
<1>2. IsDocument(session[s].row)
  BY <1>1 DEF IsExport
<1> QED
  BY <1>1, <1>2 DEF CommitExport, KeyWritten, IsDocument

LEMMA SectionsStep ==
  ASSUME Typed, NEW s \in Sessions, Current(s) \in Docs, NEW key, NEW text, sections' = Stored(s, key, text)
  PROVE  /\ IsList(sections') /\ Len(sections') = Len(sections)
         /\ \A d \in Docs : d # Current(s) => sections'[d] = sections[d]
         /\ sections'[Current(s)] =
              IF key \in DOMAIN session[s].held /\ session[s].held[key] = text
              THEN sections[Current(s)] ELSE With(sections[Current(s)], key, text)
<1>1. sections = [d \in 1 .. Len(sections) |-> sections[d]] /\ Len(sections) \in Nat
      /\ Docs = 1 .. Len(sections)
  BY DocsAreNumbers, ListDomain DEF Typed
<1> DEFINE d == Current(s)
           w == IF key \in DOMAIN session[s].held /\ session[s].held[key] = text
                THEN sections[d] ELSE With(sections[d], key, text)
<1>2. sections' = [sections EXCEPT ![d] = w]
  BY DEF Stored
<1> HIDE DEF d, w
<1>3. sections' = [e \in 1 .. Len(sections) |-> sections'[e]]
  BY <1>1, <1>2
<1>4. IsList(sections') /\ Len(sections') = Len(sections)
  BY <1>1, <1>3, ListOf
<1>5. d \in DOMAIN sections
  BY <1>1 DEF d
<1>6. sections'[d] = w /\ \A e \in Docs : e # d => sections'[e] = sections[e]
  BY <1>1, <1>2, <1>5
<1> QED
  BY <1>4, <1>6 DEF d, w

LEMMA OpenStep ==
  ASSUME Typed, NEW s \in Sessions, NEW h, Open(s, h)
  PROVE  /\ session' = [session EXCEPT ![s] = h] /\ ~ IsOpen(s)
         /\ session' = [r \in Sessions |-> session'[r]] /\ session'[s] = h
         /\ \A r \in Sessions : r # s => session'[r] = session[r]
         /\ overlapped' = (overlapped \/ \E r \in Sessions : IsOpen(r)) /\ killed' = killed
<1>1. session' = [session EXCEPT ![s] = h]
  BY DEF Open
<1> QED
  BY <1>1, SessionsStep DEF Open

\* A step that ends a session, or opens one, and changes neither the documents
\* nor their sections.
LEMMA SessionOnly ==
  ASSUME Typed, NEW s \in Sessions, NEW h, MayHold(h, Docs), session' = [session EXCEPT ![s] = h],
         UNCHANGED <<templates, docs, sections>>, application' \in {"draft", "review"},
         overlapped' \in BOOLEAN, killed' \in BOOLEAN
  PROVE  Typed'
<1>1. Docs' = Docs
  BY DEF Docs
<1>2. session' = [r \in Sessions |-> session'[r]] /\ session'[s] = h
      /\ \A r \in Sessions : r # s => session'[r] = session[r]
  BY SessionsStep
<1>3. \A r \in Sessions : MayHold(session'[r], Docs')
  BY <1>1, <1>2, HoldsStep
<1>4. \A d \in Docs' : IsDocument(docs'[d])
  BY <1>1 DEF Typed
<1> QED
  BY <1>2, <1>3, <1>4 DEF Typed

\* A step of a job that commits a document.
LEMMA AdvancesTyped ==
  ASSUME Typed, NEW s \in Sessions, NEW d, NEW new, NEW h, Advances(s, d, new, h),
         UNCHANGED <<templates, application, mishaps>>,
         IsList(sections'), Len(sections') = Len(sections)
  PROVE  Typed'
<1>1. /\ IsList(docs') /\ Len(docs') = Len(docs) /\ Docs' = Docs
      /\ \A e \in Docs' : IsDocument(docs'[e])
  <2>1. d \in Docs /\ IsDocument(session[s].docs[d]) /\ IsDocument(new)
        /\ docs' = [docs EXCEPT ![d] = Written(@, session[s].docs[d], new)]
    BY DEF Advances, WriteDocument, IsJob
  <2> QED
    BY <2>1, RowsStep
<1>2. MayHold(h, Docs') /\ session' = [session EXCEPT ![s] = h]
  BY <1>1 DEF Advances, MayHold
<1>3. session' = [r \in Sessions |-> session'[r]] /\ session'[s] = h
      /\ \A r \in Sessions : r # s => session'[r] = session[r]
  BY <1>2, SessionsStep
<1>4. \A r \in Sessions : MayHold(session'[r], Docs')
  BY <1>1, <1>2, <1>3, HoldsStep
<1> QED
  BY <1>1, <1>3, <1>4 DEF Typed, mishaps

LEMMA TypedInit == Init => Typed
<1> SUFFICES ASSUME Init PROVE Typed
  OBVIOUS
<1>1. IsList(docs) /\ Docs = {} /\ IsList(sections) /\ Len(sections) = Len(docs)
  <2>1. << >> \in Seq({})
    OBVIOUS
  <2> QED
    BY <2>1 DEF Init, IsList, Docs
<1>2. \A s \in Sessions : MayHold(session[s], Docs)
  BY DEF Init, MayHold
<1> QED
  BY <1>1, <1>2 DEF Init, Typed

LEMMA TypedStep == Typed /\ [Next]_vars => Typed'
<1> SUFFICES ASSUME Typed, [Next]_vars PROVE Typed'
  OBVIOUS
<1>a. MayHold(Closed, Docs)
  BY DEF MayHold
<1>b. application \in {"draft", "review"} /\ overlapped \in BOOLEAN /\ killed \in BOOLEAN
  BY DEF Typed
<1>1. ASSUME NEW t \in Types, NEW plan \in UserPlans[t], UpdateTemplate(t, plan) PROVE Typed'
  BY <1>1 DEF UpdateTemplate, Typed, mishaps, Docs
<1>2. ASSUME NEW t \in Types, RemoveTemplate(t) PROVE Typed'
  <2>1. /\ IsList(docs') /\ Len(docs') = Len(docs) /\ Docs' = Docs
        /\ \A d \in Docs' : IsDocument(docs'[d])
    BY <1>2, RemovedRows
  <2>2. DOMAIN templates' \subseteq Types
    BY <1>2 DEF RemoveTemplate, Typed
  <2> QED
    BY <1>2, <2>1, <2>2 DEF RemoveTemplate, Typed, mishaps
<1>3. ASSUME NEW s \in Sessions, NEW wish \in Wishes, OpenAddition(s, wish) PROVE Typed'
  <2> DEFINE h == [pc |-> "add", wish |-> wish, known |-> {docs[d].template : d \in Docs}]
  <2>1. IsAddition(h)
    BY ApplicationsAssumption DEF IsAddition
  <2>2. Open(s, h) /\ UNCHANGED <<templates, docs, sections, application>>
    BY <1>3 DEF OpenAddition
  <2> HIDE DEF h
  <2>3. session' = [session EXCEPT ![s] = h] /\ overlapped' \in BOOLEAN /\ killed' \in BOOLEAN
    BY <1>b, <2>2, OpenStep
  <2> QED
    BY <1>b, <2>1, <2>2, <2>3, SessionOnly DEF MayHold
<1>4. ASSUME NEW s \in Sessions, AddDocuments(s) PROVE Typed'
  <2>1. IsAddition(session[s])
    BY <1>4, Additions DEF AddDocuments
  <2> DEFINE created == Missing(session[s].wish, session[s].known)
  <2>2. created \subseteq Types
    BY <2>1 DEF IsAddition, Missing
  <2>3. session' = [session EXCEPT ![s] = Closed] /\ UNCHANGED <<templates, application, mishaps>>
    BY <1>4 DEF AddDocuments, Close, GoesOn
  <2>4. CASE UNCHANGED <<docs, sections>>
    BY <1>a, <1>b, <2>3, <2>4, SessionOnly DEF mishaps
  <2>5. CASE docs' \in Added(created) /\ sections' = sections \o [i \in 1 .. Cardinality(created) |-> None]
    <3> HIDE DEF created
    <3>1. /\ IsList(docs') /\ IsList(sections') /\ Len(sections') = Len(docs') /\ Docs \subseteq Docs'
          /\ \A d \in Docs : docs'[d] = docs[d]
          /\ \A d \in Docs' : d \notin Docs => IsDocument(docs'[d])
      BY <2>2, <2>5, AddedRows
    <3>2. \A d \in Docs' : IsDocument(docs'[d])
      BY <3>1 DEF Typed
    <3>3. MayHold(Closed, Docs')
      BY DEF MayHold
    <3>4. session' = [r \in Sessions |-> session'[r]] /\ session'[s] = Closed
          /\ \A r \in Sessions : r # s => session'[r] = session[r]
      BY <2>3, SessionsStep
    <3>5. \A r \in Sessions : MayHold(session'[r], Docs')
      BY <3>1, <3>3, <3>4, HoldsStep
    <3> QED
      BY <2>3, <3>1, <3>2, <3>4, <3>5 DEF Typed, mishaps
  <2> QED
    BY <1>4, <2>4, <2>5 DEF AddDocuments
<1>5. ASSUME NEW s \in Sessions, NEW wanted \in SUBSET Docs, StartGeneration(s, wanted) PROVE Typed'
  <2> DEFINE h == Job("job", application, docs, wanted, << >>, None)
  <2>1. IsJob(h) /\ DOMAIN h.docs \subseteq Docs
    <3>1. /\ h = [pc |-> h.pc, read |-> h.read, docs |-> h.docs, todo |-> h.todo, plan |-> h.plan, held |-> h.held]
          /\ h.pc = "job" /\ h.docs = docs /\ h.todo = wanted
      BY DEF Job
    <3>2. docs = [d \in DOMAIN docs |-> docs[d]] /\ DOMAIN docs = Docs
      BY ListDomain DEF Typed, Docs
    <3>3. \A d \in wanted : docs[d].version < MaxVersion
      BY <1>5 DEF StartGeneration
    <3> HIDE DEF h
    <3> QED
      BY <3>1, <3>2, <3>3 DEF IsJob, Typed
  <2>2. Open(s, h) /\ UNCHANGED <<templates, docs, sections, application>>
    BY <1>5 DEF StartGeneration
  <2> HIDE DEF h
  <2>3. session' = [session EXCEPT ![s] = h] /\ overlapped' \in BOOLEAN /\ killed' \in BOOLEAN
    BY <1>b, <2>2, OpenStep
  <2> QED
    BY <1>b, <2>1, <2>2, <2>3, SessionOnly DEF MayHold
<1>6. ASSUME NEW s \in Sessions, RefuseDocument(s) PROVE Typed'
  BY <1>6, RefuseAdvances, AdvancesTyped DEF RefuseDocument, Typed
<1>7. ASSUME NEW s \in Sessions, BeginDocument(s) PROVE Typed'
  BY <1>7, BeginAdvances, AdvancesTyped DEF BeginDocument, Typed
<1>8. ASSUME NEW s \in Sessions, LoseJob(s) PROVE Typed'
  BY <1>8, <1>a, <1>b, SessionOnly DEF LoseJob, Close, GoesOn, mishaps
<1>9. ASSUME NEW s \in Sessions, WriteSection(s) PROVE Typed'
  <2>1. PICK text \in Texts(s) :
          /\ sections' = Stored(s, Head(session[s].plan), text)
          /\ session[s].pc = "sections" /\ IsJob(session'[s])
          /\ session'[s].docs = session[s].docs
          /\ session' = [session EXCEPT ![s] = session'[s]]
    BY <1>9, WriteSectionStep
  <2>2. IsJob(session[s]) /\ DOMAIN session[s].docs \subseteq Docs /\ Current(s) \in Docs
    <3>1. session[s].todo # {}
      BY <2>1, JobsHold DEF IsJob
    <3> QED
      BY <2>1, <3>1, JobsHold, CurrentDocument
  <2>3. IsList(sections') /\ Len(sections') = Len(sections)
    BY <2>1, <2>2, SectionsStep
  <2>4. UNCHANGED <<templates, docs, application, mishaps>> /\ Docs' = Docs
    BY <1>9 DEF WriteSection, Docs
  <2>5. MayHold(session'[s], Docs')
    BY <2>1, <2>2, <2>4 DEF MayHold
  <2>6. session' = [r \in Sessions |-> session'[r]]
        /\ \A r \in Sessions : r # s => session'[r] = session[r]
    BY <2>1, SessionsStep
  <2>7. \A r \in Sessions : MayHold(session'[r], Docs')
    BY <2>4, <2>5, <2>6, HoldsStep
  <2> QED
    BY <2>3, <2>4, <2>6, <2>7 DEF Typed, mishaps
<1>10. ASSUME NEW s \in Sessions, FinishDocument(s) PROVE Typed'
  <2>1. PICK text \in Texts(s) :
          LET held == With(session[s].held, Head(session[s].plan), text)
          IN  /\ sections' = Stored(s, Head(session[s].plan), text)
              /\ Advances(s, Current(s), Finished(session[s].docs[Current(s)], review(held)), session'[s])
    BY <1>10, FinishAdvances
  <2>2. Current(s) \in Docs
    BY <2>1 DEF Advances
  <2>3. IsList(sections') /\ Len(sections') = Len(sections)
    BY <2>1, <2>2, SectionsStep
  <2>4. UNCHANGED <<templates, application, mishaps>>
    BY <1>10 DEF FinishDocument
  <2> QED
    BY <2>1, <2>3, <2>4, AdvancesTyped
<1>11. ASSUME NEW s \in Sessions, EndGeneration(s) PROVE Typed'
  <2>1. application' \in {"draft", "review"}
    BY <1>b, <1>11 DEF EndGeneration, StatusAfter, Typed
  <2> QED
    BY <1>11, <1>a, <1>b, <2>1, SessionOnly DEF EndGeneration, Close, GoesOn, mishaps
<1>12. ASSUME NEW s \in Sessions, NEW d \in Docs, OpenExport(s, d) PROVE Typed'
  <2> DEFINE h == [pc |-> "put", doc |-> d, row |-> docs[d]]
  <2>1. IsExport(h) /\ h.doc \in Docs
    BY DEF IsExport, Typed
  <2>2. Open(s, h) /\ UNCHANGED <<templates, docs, sections, application>>
    BY <1>12 DEF OpenExport
  <2> HIDE DEF h
  <2>3. session' = [session EXCEPT ![s] = h] /\ overlapped' \in BOOLEAN /\ killed' \in BOOLEAN
    BY <1>b, <2>2, OpenStep
  <2> QED
    BY <1>b, <2>1, <2>2, <2>3, SessionOnly DEF MayHold
<1>13. ASSUME NEW s \in Sessions, PutFile(s) PROVE Typed'
  <2>1. IsExport(session'[s]) /\ session'[s].doc \in Docs /\ session' = [session EXCEPT ![s] = session'[s]]
    BY <1>13, PutFileStep, Exports DEF PutFile
  <2>2. MayHold(session'[s], Docs)
    BY <2>1 DEF MayHold
  <2> QED
    BY <1>13, <1>b, <2>1, <2>2, SessionOnly DEF PutFile, mishaps
<1>14. ASSUME NEW s \in Sessions, CommitExport(s) PROVE Typed'
  <2>1. /\ IsList(docs') /\ Len(docs') = Len(docs) /\ Docs' = Docs
        /\ \A d \in Docs' : IsDocument(docs'[d])
    BY <1>14, CommitExportStep, RowsStep
  <2>2. session' = [session EXCEPT ![s] = Closed] /\ UNCHANGED <<templates, sections, application, mishaps>>
    BY <1>14 DEF CommitExport, Close, GoesOn
  <2>3. session' = [r \in Sessions |-> session'[r]] /\ session'[s] = Closed
        /\ \A r \in Sessions : r # s => session'[r] = session[r]
    BY <2>2, SessionsStep
  <2>4. \A r \in Sessions : MayHold(session'[r], Docs')
    BY <1>a, <2>1, <2>3, HoldsStep
  <2> QED
    BY <2>1, <2>2, <2>3, <2>4 DEF Typed, mishaps
<1>15. ASSUME NEW s \in Sessions, Kill(s) PROVE Typed'
  BY <1>15, <1>a, <1>b, SessionOnly DEF Kill, Close, GoesOn
<1>16. CASE UNCHANGED vars
  BY <1>16 DEF vars, mishaps, Typed, Docs
<1> QED
  BY <1>1, <1>2, <1>3, <1>4, <1>5, <1>6, <1>7, <1>8, <1>9, <1>10, <1>11, <1>12, <1>13, <1>14, <1>15, <1>16
  DEF Next, Generate

\* The documents, their sections and the sessions stay of their types.
THEOREM ApplicationTypesAreKept == Spec => []TypeOK
<1>1. Typed => TypeOK
  <2> SUFFICES ASSUME Typed PROVE TypeOK
    OBVIOUS
  <2>1. DOMAIN sections = Docs
    BY DocsAreNumbers
  <2>2. \A d \in Docs :
          /\ docs[d].template \in Types \union {NoTemplate}
          /\ docs[d].status \in {"pending", "generating", "draft", "failed"}
          /\ docs[d].version \in 0 .. MaxVersion /\ docs[d].export \in 0 .. MaxVersion
    BY DEF Typed, IsDocument
  <2> QED
    BY <2>1, <2>2 DEF Typed, TypeOK
<1> QED
  BY <1>1, TypedInit, TypedStep, PTL DEF Spec

-----------------------------------------------------------------------------
(* The keys and their files. *)

\* The key in row r of document d is the name of a file.
Backed(d, r, names) == r.export # 0 => <<d, r.export>> \in names

\* That holds of the rows that the sessions hold too, and a session that is
\* to commit a key has stored its file.
Filed ==
  /\ \A d \in Docs : Backed(d, docs[d], DOMAIN files)
  /\ \A s \in Sessions :
       /\ session[s].pc \in {"job", "sections"} =>
            \A d \in DOMAIN session[s].docs : Backed(d, session[s].docs[d], DOMAIN files)
       /\ session[s].pc \in {"put", "commit"} => Backed(session[s].doc, session[s].row, DOMAIN files)
       /\ session[s].pc = "commit" => <<session[s].doc, session[s].row.version>> \in DOMAIN files

\* The documents stay, and the session ends or opens.
LEMMA FiledElsewhere ==
  ASSUME Typed, Filed, NEW s \in Sessions, NEW h, session' = [session EXCEPT ![s] = h],
         UNCHANGED files, \A d \in Docs' : Backed(d, docs'[d], DOMAIN files),
         h.pc \in {"job", "sections"} => \A d \in DOMAIN h.docs : Backed(d, h.docs[d], DOMAIN files),
         h.pc \in {"put", "commit"} => Backed(h.doc, h.row, DOMAIN files),
         h.pc = "commit" => <<h.doc, h.row.version>> \in DOMAIN files
  PROVE  Filed'
<1>1. session'[s] = h /\ \A r \in Sessions : r # s => session'[r] = session[r]
  BY SessionsStep
<1> QED
  BY <1>1 DEF Filed

\* What a job commits of its document.
LEMMA AdvancesRows ==
  ASSUME Typed, NEW s \in Sessions, NEW d, NEW new, NEW h, Advances(s, d, new, h)
  PROVE  /\ d \in Docs /\ IsDocument(docs[d]) /\ IsDocument(session[s].docs[d]) /\ IsDocument(new)
         /\ d \in DOMAIN session[s].docs
         /\ Docs' = Docs /\ docs'[d] = Written(docs[d], session[s].docs[d], new)
         /\ \A e \in Docs : e # d => docs'[e] = docs[e]
<1> DEFINE old == session[s].docs[d]
<1>1. d \in Docs /\ IsDocument(docs[d]) /\ IsDocument(old) /\ IsDocument(new)
      /\ docs' = [docs EXCEPT ![d] = Written(@, old, new)]
      /\ d \in DOMAIN session[s].docs
  BY DEF Advances, WriteDocument, IsJob, Typed
<1>2. /\ Docs' = Docs /\ docs'[d] = Written(docs[d], old, new)
      /\ \A e \in Docs : e # d => docs'[e] = docs[e]
  BY <1>1, RowsStep, ZenonT(40)
<1> QED
  BY <1>1, <1>2

LEMMA AdvancesFiled ==
  ASSUME Typed, Filed, NEW s \in Sessions, NEW d, NEW new, NEW h, Advances(s, d, new, h),
         session[s].pc \in {"job", "sections"}, h.pc \in {"job", "sections"}, UNCHANGED files,
         new.export = session[s].docs[d].export
  PROVE  Filed'
<1> DEFINE old == session[s].docs[d]
<1>1. d \in Docs /\ IsDocument(docs[d]) /\ IsDocument(old) /\ IsDocument(new)
      /\ d \in DOMAIN session[s].docs
  BY AdvancesRows
<1>2. /\ Docs' = Docs /\ docs'[d] = Written(docs[d], old, new)
      /\ \A e \in Docs : e # d => docs'[e] = docs[e]
  BY AdvancesRows
<1>3. docs'[d].export = docs[d].export
  BY <1>1, <1>2, WrittenRow
<1>4. \A e \in Docs' : Backed(e, docs'[e], DOMAIN files)
  BY <1>2, <1>3 DEF Filed, Backed
<1>5. \A e \in DOMAIN h.docs : Backed(e, h.docs[e], DOMAIN files)
  BY <1>1 DEF Advances, Filed, Backed
<1> QED
  BY <1>4, <1>5, FiledElsewhere DEF Advances

LEMMA FiledStep == Typed /\ Filed /\ [Next]_vars => Filed'
<1> SUFFICES ASSUME Typed, Filed, [Next]_vars PROVE Filed'
  OBVIOUS
<1>a. Closed.pc = "closed"
  BY DEF Closed
<1>b. ASSUME UNCHANGED docs PROVE \A d \in Docs' : Backed(d, docs'[d], DOMAIN files)
  BY <1>b DEF Filed, Docs
<1>1. ASSUME NEW t \in Types, NEW plan \in UserPlans[t], UpdateTemplate(t, plan) PROVE Filed'
  BY <1>1 DEF UpdateTemplate, Filed, Docs
<1>2. ASSUME NEW t \in Types, RemoveTemplate(t) PROVE Filed'
  <2>1. Docs' = Docs /\ \A d \in Docs : docs'[d].export = docs[d].export
    BY <1>2, RemovedRows
  <2> QED
    BY <1>2, <2>1 DEF RemoveTemplate, Filed, Backed
<1>3. ASSUME NEW s \in Sessions, NEW wish \in Wishes, OpenAddition(s, wish) PROVE Filed'
  <2> DEFINE h == [pc |-> "add", wish |-> wish, known |-> {docs[d].template : d \in Docs}]
  <2>1. Open(s, h) /\ UNCHANGED <<docs, files>> /\ h.pc = "add"
    BY <1>3 DEF OpenAddition
  <2> HIDE DEF h
  <2> QED
    BY <1>b, <2>1, OpenStep, FiledElsewhere
<1>4. ASSUME NEW s \in Sessions, AddDocuments(s) PROVE Filed'
  <2> DEFINE created == Missing(session[s].wish, session[s].known)
  <2>1. created \subseteq Types
    BY <1>4, Additions DEF AddDocuments, IsAddition, Missing
  <2>2. session' = [session EXCEPT ![s] = Closed] /\ UNCHANGED files
    BY <1>4 DEF AddDocuments, Close, GoesOn
  <2>3. \A d \in Docs' : Backed(d, docs'[d], DOMAIN files)
    <3>1. CASE UNCHANGED docs
      BY <1>b, <3>1
    <3>2. CASE docs' \in Added(created) /\ sections' = sections \o [i \in 1 .. Cardinality(created) |-> None]
      <4> HIDE DEF created
      <4>1. /\ \A d \in Docs : docs'[d] = docs[d]
            /\ \A d \in Docs' : d \notin Docs => \E t \in created : docs'[d] = NewDocument(t)
        BY <2>1, <3>2, AddedRows
      <4>2. \A t : NewDocument(t).export = 0
        BY DEF NewDocument
      <4> QED
        BY <4>1, <4>2 DEF Filed, Backed
    <3> QED
      BY <1>4, <3>1, <3>2 DEF AddDocuments
  <2> QED
    BY <1>a, <2>2, <2>3, FiledElsewhere
<1>5. ASSUME NEW s \in Sessions, NEW wanted \in SUBSET Docs, StartGeneration(s, wanted) PROVE Filed'
  <2> DEFINE h == Job("job", application, docs, wanted, << >>, None)
  <2>1. Open(s, h) /\ UNCHANGED <<docs, files>> /\ h.pc = "job" /\ h.docs = docs
    BY <1>5 DEF StartGeneration, Job
  <2> HIDE DEF h
  <2>2. \A d \in DOMAIN h.docs : Backed(d, h.docs[d], DOMAIN files)
    BY <2>1 DEF Filed, Docs
  <2> QED
    BY <1>b, <2>1, <2>2, OpenStep, FiledElsewhere
<1>6. ASSUME NEW s \in Sessions, RefuseDocument(s) PROVE Filed'
  <2> DEFINE old == session[s].docs[Current(s)]
             new == [old EXCEPT !.status = "failed"]
  <2>1. Advances(s, Current(s), new, session'[s]) /\ session[s].pc = "job" /\ UNCHANGED files
    BY <1>6, RefuseAdvances DEF RefuseDocument
  <2>2. new.export = old.export
    BY <2>1, ZenonT(40) DEF Advances, IsJob, IsDocument
  <2>3. session'[s].pc \in {"job", "sections"}
    BY <2>1 DEF Advances, IsJob
  <2> HIDE DEF new
  <2> QED
    BY <2>1, <2>2, <2>3, AdvancesFiled
<1>7. ASSUME NEW s \in Sessions, BeginDocument(s) PROVE Filed'
  <2> DEFINE old == session[s].docs[Current(s)]
             new == [old EXCEPT !.status = "generating"]
  <2>1. Advances(s, Current(s), new, session'[s]) /\ session[s].pc = "job" /\ UNCHANGED files
        /\ session'[s].pc = "sections"
    BY <1>7, BeginAdvances DEF BeginDocument
  <2>2. new.export = old.export
    BY <2>1, ZenonT(40) DEF Advances, IsJob, IsDocument
  <2> HIDE DEF new
  <2> QED
    BY <2>1, <2>2, AdvancesFiled
<1>8. ASSUME NEW s \in Sessions, LoseJob(s) PROVE Filed'
  BY <1>8, <1>a, <1>b, FiledElsewhere DEF LoseJob, Close, GoesOn
<1>9. ASSUME NEW s \in Sessions, WriteSection(s) PROVE Filed'
  <2>1. /\ session[s].pc = "sections" /\ session'[s].pc = "sections"
        /\ session'[s].docs = session[s].docs /\ session' = [session EXCEPT ![s] = session'[s]]
    BY <1>9, WriteSectionStep
  <2>2. UNCHANGED <<docs, files>>
    BY <1>9 DEF WriteSection
  <2>3. \A d \in DOMAIN session'[s].docs : Backed(d, session'[s].docs[d], DOMAIN files)
    BY <2>1 DEF Filed
  <2> QED
    BY <1>b, <2>1, <2>2, <2>3, FiledElsewhere
<1>10. ASSUME NEW s \in Sessions, FinishDocument(s) PROVE Filed'
  <2> DEFINE old == session[s].docs[Current(s)]
  <2>1. PICK text \in Texts(s) :
          LET held == With(session[s].held, Head(session[s].plan), text)
          IN  Advances(s, Current(s), Finished(old, review(held)), session'[s]) /\ session'[s].pc = "job"
    BY <1>10, FinishAdvances
  <2> DEFINE warnings == review(With(session[s].held, Head(session[s].plan), text))
             new == Finished(old, warnings)
  <2>2. Advances(s, Current(s), new, session'[s]) /\ session'[s].pc = "job"
    BY <2>1
  <2> HIDE DEF warnings
  <2>3. IsDocument(old)
    BY <2>2 DEF Advances, IsJob
  <2>4. new.export = old.export
    BY <2>3 DEF Finished, IsDocument
  <2>5. session[s].pc = "sections" /\ UNCHANGED files
    BY <1>10 DEF FinishDocument
  <2> HIDE DEF new
  <2> QED
    BY <2>2, <2>4, <2>5, AdvancesFiled
<1>11. ASSUME NEW s \in Sessions, EndGeneration(s) PROVE Filed'
  BY <1>11, <1>a, <1>b, FiledElsewhere DEF EndGeneration, Close, GoesOn
<1>12. ASSUME NEW s \in Sessions, NEW d \in Docs, OpenExport(s, d) PROVE Filed'
  <2> DEFINE h == [pc |-> "put", doc |-> d, row |-> docs[d]]
  <2>1. Open(s, h) /\ UNCHANGED <<docs, files>> /\ h.pc = "put" /\ Backed(h.doc, h.row, DOMAIN files)
    BY <1>12 DEF OpenExport, Filed
  <2> HIDE DEF h
  <2> QED
    BY <1>b, <2>1, OpenStep, FiledElsewhere
<1>13. ASSUME NEW s \in Sessions, PutFile(s) PROVE Filed'
  <2>1. /\ session'[s].pc = "commit" /\ session'[s].doc = session[s].doc
        /\ session'[s].row = session[s].row
        /\ \A r \in Sessions : r # s => session'[r] = session[r]
    BY <1>13, PutFileStep, SessionsStep
  <2>2. DOMAIN files' = DOMAIN files \union {<<session[s].doc, session[s].row.version>>}
    BY <1>13 DEF PutFile, export_key
  <2>3. UNCHANGED docs /\ Docs' = Docs /\ session[s].pc = "put"
    BY <1>13 DEF PutFile, Docs
  <2> QED
    BY <2>1, <2>2, <2>3 DEF Filed, Backed
<1>14. ASSUME NEW s \in Sessions, CommitExport(s) PROVE Filed'
  <2> DEFINE d == session[s].doc
             read == session[s].row
             new == [read EXCEPT !.export = read.version]
  <2>1. /\ d \in Docs /\ IsDocument(read) /\ IsDocument(new) /\ new.export = read.version
        /\ docs' = [docs EXCEPT ![d] = Written(@, read, new)]
    BY <1>14, CommitExportStep
  <2> HIDE DEF new, d, read
  <2>2. /\ Docs' = Docs /\ docs'[d] = Written(docs[d], read, new)
        /\ \A e \in Docs : e # d => docs'[e] = docs[e]
    BY <2>1, RowsStep, ZenonT(40)
  <2>3. docs'[d].export \in {read.version, docs[d].export}
    BY <2>1, <2>2, WrittenRow DEF Typed
  <2>4. <<d, read.version>> \in DOMAIN files
    BY <1>14 DEF CommitExport, Filed, d, read
  <2>5. \A e \in Docs' : Backed(e, docs'[e], DOMAIN files)
    BY <2>2, <2>3, <2>4 DEF Filed, Backed
  <2> QED
    BY <1>14, <1>a, <2>5, FiledElsewhere DEF CommitExport, Close, GoesOn
<1>15. ASSUME NEW s \in Sessions, Kill(s) PROVE Filed'
  BY <1>15, <1>a, <1>b, FiledElsewhere DEF Kill, Close, GoesOn
<1>16. CASE UNCHANGED vars
  BY <1>16 DEF vars, mishaps, Filed, Docs
<1> QED
  BY <1>1, <1>2, <1>3, <1>4, <1>5, <1>6, <1>7, <1>8, <1>9, <1>10, <1>11, <1>12, <1>13, <1>14, <1>15, <1>16
  DEF Next, Generate

\* The file that a download serves is on the storage, wherever an export
\* stopped and however the sessions overlap.
THEOREM KeysStayStored == Spec => []KeysAreStored
<1>1. Init => Filed
  <2> SUFFICES ASSUME Init PROVE Filed
    OBVIOUS
  <2>1. Docs = {} /\ \A s \in Sessions : session[s].pc = "closed"
    BY DEF Init, Docs, Closed
  <2> QED
    BY <2>1 DEF Filed
<1>2. Typed /\ Filed => KeysAreStored
  BY DEF Filed, Backed, KeysAreStored
<1> QED
  BY <1>1, <1>2, TypedInit, TypedStep, FiledStep, PTL DEF Spec

-----------------------------------------------------------------------------
(* The status of the application. *)

\* What shows as written, in the table or in the rows of a job, has a text in
\* the table.
Told ==
  /\ \A d \in Docs : docs[d].status = "draft" => docs[d].version > 0
  /\ \A s \in Sessions : session[s].pc \in {"job", "sections"} =>
       \A d \in DOMAIN session[s].docs : session[s].docs[d].status = "draft" => docs[d].version > 0
  /\ ReviewHasText

\* No document loses its text.
KeepsText == \A d \in Docs : d \in Docs' /\ (docs[d].version > 0 => docs'[d].version > 0)

LEMMA ToldElsewhere ==
  ASSUME Typed, Told, NEW s \in Sessions, NEW h, session' = [session EXCEPT ![s] = h], KeepsText,
         \A d \in Docs' : docs'[d].status = "draft" => docs'[d].version > 0,
         h.pc \in {"job", "sections"} =>
           \A d \in DOMAIN h.docs : h.docs[d].status = "draft" => docs'[d].version > 0,
         application' = application \/ ReviewHasText'
  PROVE  Told'
<1>1. session'[s] = h /\ \A r \in Sessions : r # s => session'[r] = session[r]
  BY SessionsStep
<1>2. ASSUME NEW r \in Sessions, session'[r].pc \in {"job", "sections"},
             NEW d \in DOMAIN session'[r].docs, session'[r].docs[d].status = "draft"
      PROVE  docs'[d].version > 0
  <2>1. CASE r = s
    BY <1>1, <1>2, <2>1
  <2>2. CASE r # s
    <3>1. session'[r] = session[r] /\ d \in Docs
      BY <1>1, <1>2, <2>2, JobsHold
    <3> QED
      BY <1>2, <3>1 DEF Told, KeepsText
  <2> QED
    BY <2>1, <2>2
<1>3. ReviewHasText'
  BY DEF Told, ReviewHasText, KeepsText
<1> QED
  BY <1>2, <1>3 DEF Told

LEMMA AdvancesTold ==
  ASSUME Typed, Told, NEW s \in Sessions, NEW d, NEW new, NEW h, Advances(s, d, new, h),
         session[s].pc \in {"job", "sections"}, UNCHANGED application,
         new.version = session[s].docs[d].version \/ new.version > 0,
         new.status = "draft" => new.version > 0 /\ new.version # session[s].docs[d].version
  PROVE  Told'
<1> DEFINE old == session[s].docs[d]
<1>1. d \in Docs /\ IsDocument(docs[d]) /\ IsDocument(old) /\ IsDocument(new)
      /\ d \in DOMAIN session[s].docs
  BY AdvancesRows
<1>2. /\ Docs' = Docs /\ docs'[d] = Written(docs[d], old, new)
      /\ \A e \in Docs : e # d => docs'[e] = docs[e]
  BY AdvancesRows
<1> HIDE DEF old
<1>3. /\ docs'[d].version = IF new.version # old.version THEN new.version ELSE docs[d].version
      /\ docs'[d].status = IF new.status # old.status THEN new.status ELSE docs[d].status
  BY <1>1, <1>2, WrittenRow
<1>4. new.status = "draft" => docs'[d].version > 0
  BY <1>3 DEF old
<1>5. KeepsText
  BY <1>2, <1>3 DEF KeepsText, old
<1>6. \A e \in Docs' : docs'[e].status = "draft" => docs'[e].version > 0
  BY <1>1, <1>2, <1>3, <1>4, <1>5 DEF Told, KeepsText
<1>7. \A e \in DOMAIN h.docs : h.docs[e].status = "draft" => docs'[e].version > 0
  BY <1>1, <1>2, <1>4, <1>5 DEF Advances, Told, KeepsText
<1> QED
  BY <1>5, <1>6, <1>7, ToldElsewhere DEF Advances

LEMMA ToldStep == Typed /\ Told /\ [Next]_vars => Told'
<1> SUFFICES ASSUME Typed, Told, [Next]_vars PROVE Told'
  OBVIOUS
<1>a. Closed.pc = "closed"
  BY DEF Closed
<1>b. ASSUME UNCHANGED docs
      PROVE  KeepsText /\ \A d \in Docs' : docs'[d].status = "draft" => docs'[d].version > 0
  BY <1>b DEF Told, Docs, KeepsText
<1>1. ASSUME NEW t \in Types, NEW plan \in UserPlans[t], UpdateTemplate(t, plan) PROVE Told'
  BY <1>1 DEF UpdateTemplate, Told, Docs, ReviewHasText
<1>2. ASSUME NEW t \in Types, RemoveTemplate(t) PROVE Told'
  <2>1. /\ Docs' = Docs
        /\ \A d \in Docs : docs'[d].status = docs[d].status /\ docs'[d].version = docs[d].version
    BY <1>2, RemovedRows
  <2>2. session' = session /\ application' = application
    BY <1>2 DEF RemoveTemplate
  <2>3. \A s \in Sessions : session[s].pc \in {"job", "sections"} => DOMAIN session[s].docs \subseteq Docs
    BY JobsHold
  <2> QED
    BY <2>1, <2>2, <2>3 DEF Told, ReviewHasText
<1>3. ASSUME NEW s \in Sessions, NEW wish \in Wishes, OpenAddition(s, wish) PROVE Told'
  <2> DEFINE h == [pc |-> "add", wish |-> wish, known |-> {docs[d].template : d \in Docs}]
  <2>1. Open(s, h) /\ UNCHANGED <<docs, application>> /\ h.pc = "add"
    BY <1>3 DEF OpenAddition
  <2> HIDE DEF h
  <2> QED
    BY <1>b, <2>1, OpenStep, ToldElsewhere
<1>4. ASSUME NEW s \in Sessions, AddDocuments(s) PROVE Told'
  <2> DEFINE created == Missing(session[s].wish, session[s].known)
  <2>1. created \subseteq Types
    BY <1>4, Additions DEF AddDocuments, IsAddition, Missing
  <2>2. session' = [session EXCEPT ![s] = Closed] /\ UNCHANGED application
    BY <1>4 DEF AddDocuments, Close, GoesOn
  <2>3. KeepsText /\ \A d \in Docs' : docs'[d].status = "draft" => docs'[d].version > 0
    <3>1. CASE UNCHANGED docs
      BY <1>b, <3>1
    <3>2. CASE docs' \in Added(created) /\ sections' = sections \o [i \in 1 .. Cardinality(created) |-> None]
      <4> HIDE DEF created
      <4>1. /\ Docs \subseteq Docs' /\ \A d \in Docs : docs'[d] = docs[d]
            /\ \A d \in Docs' : d \notin Docs => \E t \in created : docs'[d] = NewDocument(t)
        BY <2>1, <3>2, AddedRows
      <4>2. \A t : NewDocument(t).status = "pending"
        BY DEF NewDocument
      <4> QED
        BY <4>1, <4>2 DEF Told, KeepsText
    <3> QED
      BY <1>4, <3>1, <3>2 DEF AddDocuments
  <2> QED
    BY <1>a, <2>2, <2>3, ToldElsewhere
<1>5. ASSUME NEW s \in Sessions, NEW wanted \in SUBSET Docs, StartGeneration(s, wanted) PROVE Told'
  <2> DEFINE h == Job("job", application, docs, wanted, << >>, None)
  <2>1. Open(s, h) /\ UNCHANGED <<docs, application>> /\ h.pc = "job" /\ h.docs = docs
    BY <1>5 DEF StartGeneration, Job
  <2> HIDE DEF h
  <2>2. \A d \in DOMAIN h.docs : h.docs[d].status = "draft" => docs'[d].version > 0
    BY <2>1 DEF Told, Docs
  <2> QED
    BY <1>b, <2>1, <2>2, OpenStep, ToldElsewhere
<1>6. ASSUME NEW s \in Sessions, RefuseDocument(s) PROVE Told'
  <2> DEFINE old == session[s].docs[Current(s)]
             new == [old EXCEPT !.status = "failed"]
  <2>1. Advances(s, Current(s), new, session'[s]) /\ session[s].pc = "job" /\ UNCHANGED application
    BY <1>6, RefuseAdvances DEF RefuseDocument
  <2>2. new.version = old.version /\ new.status = "failed"
    BY <2>1, ZenonT(40) DEF Advances, IsJob, IsDocument
  <2> HIDE DEF new
  <2> QED
    BY <2>1, <2>2, AdvancesTold
<1>7. ASSUME NEW s \in Sessions, BeginDocument(s) PROVE Told'
  <2> DEFINE old == session[s].docs[Current(s)]
             new == [old EXCEPT !.status = "generating"]
  <2>1. Advances(s, Current(s), new, session'[s]) /\ session[s].pc = "job" /\ UNCHANGED application
    BY <1>7, BeginAdvances DEF BeginDocument
  <2>2. new.version = old.version /\ new.status = "generating"
    BY <2>1, ZenonT(40) DEF Advances, IsJob, IsDocument
  <2> HIDE DEF new
  <2> QED
    BY <2>1, <2>2, AdvancesTold
<1>8. ASSUME NEW s \in Sessions, LoseJob(s) PROVE Told'
  BY <1>8, <1>a, <1>b, ToldElsewhere DEF LoseJob, Close, GoesOn
<1>9. ASSUME NEW s \in Sessions, WriteSection(s) PROVE Told'
  <2>1. /\ session[s].pc = "sections" /\ session'[s].pc = "sections"
        /\ session'[s].docs = session[s].docs /\ session' = [session EXCEPT ![s] = session'[s]]
    BY <1>9, WriteSectionStep
  <2>2. UNCHANGED <<docs, application>>
    BY <1>9 DEF WriteSection
  <2>3. \A d \in DOMAIN session'[s].docs : session'[s].docs[d].status = "draft" => docs'[d].version > 0
    BY <2>1, <2>2 DEF Told
  <2> QED
    BY <1>b, <2>1, <2>2, <2>3, ToldElsewhere
<1>10. ASSUME NEW s \in Sessions, FinishDocument(s) PROVE Told'
  <2> DEFINE old == session[s].docs[Current(s)]
  <2>1. PICK text \in Texts(s) :
          LET held == With(session[s].held, Head(session[s].plan), text)
          IN  Advances(s, Current(s), Finished(old, review(held)), session'[s])
    BY <1>10, FinishAdvances
  <2> DEFINE warnings == review(With(session[s].held, Head(session[s].plan), text))
             new == Finished(old, warnings)
  <2>2. Advances(s, Current(s), new, session'[s])
    BY <2>1
  <2> HIDE DEF warnings
  <2>3. IsDocument(old)
    BY <2>2 DEF Advances, IsJob
  <2>4. new.version = old.version + 1
    BY <2>3 DEF Finished, IsDocument
  <2>5. new.version > 0 /\ new.version # old.version
    <3>1. old.version \in Nat
      BY <2>3, ApplicationsAssumption DEF IsDocument
    <3> HIDE DEF new
    <3> QED
      BY <2>4, <3>1
  <2>6. session[s].pc = "sections" /\ UNCHANGED application
    BY <1>10 DEF FinishDocument
  <2> HIDE DEF new
  <2> QED
    BY <2>2, <2>5, <2>6, AdvancesTold
<1>11. ASSUME NEW s \in Sessions, EndGeneration(s) PROVE Told'
  <2> DEFINE statuses == {session[s].docs[d].status : d \in DOMAIN session[s].docs}
  <2>1. /\ session[s].pc = "job" /\ session' = [session EXCEPT ![s] = Closed] /\ UNCHANGED docs
        /\ \/ application' = application
           \/ application' = StatusAfter(session[s].read, statuses) /\ application' # session[s].read
    BY <1>11 DEF EndGeneration, Close, GoesOn
  <2>2. \A d \in DOMAIN session[s].docs :
          session[s].docs[d].status # "validated" /\ d \in Docs
    BY <2>1, JobsHold DEF IsJob, IsDocument
  <2>3. application' = application \/ ReviewHasText'
    <3>1. CASE \E d \in DOMAIN session[s].docs : session[s].docs[d].status = "draft"
      <4>1. PICK d \in DOMAIN session[s].docs : session[s].docs[d].status = "draft"
        BY <3>1
      <4>2. d \in Docs' /\ docs'[d].version > 0
        BY <2>1, <2>2, <4>1 DEF Told, Docs
      <4> QED
        BY <4>2 DEF ReviewHasText
    <3>2. CASE \A d \in DOMAIN session[s].docs : session[s].docs[d].status # "draft"
      <4>1. statuses \intersect {"draft", "validated"} = {}
        BY <2>2, <3>2
      <4> HIDE DEF statuses
      <4>2. application' = application \/ application' = "draft"
        BY <2>1, <4>1 DEF StatusAfter
      <4> QED
        BY <4>2 DEF ReviewHasText
    <3> QED
      BY <3>1, <3>2
  <2> HIDE DEF statuses
  <2> QED
    BY <1>a, <1>b, <2>1, <2>3, ToldElsewhere
<1>12. ASSUME NEW s \in Sessions, NEW d \in Docs, OpenExport(s, d) PROVE Told'
  <2> DEFINE h == [pc |-> "put", doc |-> d, row |-> docs[d]]
  <2>1. Open(s, h) /\ UNCHANGED <<docs, application>> /\ h.pc = "put"
    BY <1>12 DEF OpenExport
  <2> HIDE DEF h
  <2> QED
    BY <1>b, <2>1, OpenStep, ToldElsewhere
<1>13. ASSUME NEW s \in Sessions, PutFile(s) PROVE Told'
  <2>1. session'[s].pc = "commit" /\ session' = [session EXCEPT ![s] = session'[s]]
    BY <1>13, PutFileStep
  <2> QED
    BY <1>13, <1>b, <2>1, ToldElsewhere DEF PutFile
<1>14. ASSUME NEW s \in Sessions, CommitExport(s) PROVE Told'
  <2> DEFINE d == session[s].doc
             read == session[s].row
             new == [read EXCEPT !.export = read.version]
  <2>1. /\ d \in Docs /\ IsDocument(read) /\ IsDocument(new)
        /\ new.status = read.status /\ new.version = read.version
        /\ docs' = [docs EXCEPT ![d] = Written(@, read, new)]
    BY <1>14, CommitExportStep
  <2> HIDE DEF new, d, read
  <2>2. /\ Docs' = Docs /\ docs'[d] = Written(docs[d], read, new)
        /\ \A e \in Docs : e # d => docs'[e] = docs[e]
    BY <2>1, RowsStep, ZenonT(40)
  <2>3. docs'[d].status = docs[d].status /\ docs'[d].version = docs[d].version
    BY <2>1, <2>2, WrittenRow DEF Typed
  <2>4. KeepsText /\ \A e \in Docs' : docs'[e].status = "draft" => docs'[e].version > 0
    BY <2>2, <2>3 DEF Told, KeepsText
  <2> QED
    BY <1>14, <1>a, <2>4, ToldElsewhere DEF CommitExport, Close, GoesOn
<1>15. ASSUME NEW s \in Sessions, Kill(s) PROVE Told'
  BY <1>15, <1>a, <1>b, ToldElsewhere DEF Kill, Close, GoesOn
<1>16. CASE UNCHANGED vars
  BY <1>16 DEF vars, mishaps, Told, Docs, ReviewHasText
<1> QED
  BY <1>1, <1>2, <1>3, <1>4, <1>5, <1>6, <1>7, <1>8, <1>9, <1>10, <1>11, <1>12, <1>13, <1>14, <1>15, <1>16
  DEF Next, Generate

\* An application in review has a text to read, even when a job set its
\* status from documents that others have generated since.
THEOREM ReviewsHaveText == Spec => []ReviewHasText
<1>1. Init => Told
  <2> SUFFICES ASSUME Init PROVE Told
    OBVIOUS
  <2>1. Docs = {} /\ application = "draft" /\ \A s \in Sessions : session[s].pc = "closed"
    BY DEF Init, Docs, Closed
  <2> QED
    BY <2>1 DEF Told, ReviewHasText
<1>2. Told => ReviewHasText
  BY DEF Told
<1> QED
  BY <1>1, <1>2, TypedInit, TypedStep, ToldStep, PTL DEF Spec
-----------------------------------------------------------------------------
(* One session at a time. *)

\* The row that a session read is the one in the table, but for its template
\* and its file.
Agrees(r, q) == r.status = q.status /\ r.version = q.version /\ r.warnings = q.warnings

\* What session h holds is in accordance with the tables.
InStep(h, rows, texts) ==
  /\ h.pc = "add" =>
       \A d \in DOMAIN rows : rows[d].template # NoTemplate => rows[d].template \in h.known
  /\ h.pc \in {"job", "sections"} =>
       DOMAIN h.docs = DOMAIN rows /\ \A d \in DOMAIN rows : Agrees(h.docs[d], rows[d])
  /\ h.pc = "sections" =>
       rows[Min(h.todo)].status = "generating" /\ h.held = texts[Min(h.todo)]
  /\ h.pc = "put" => Agrees(h.row, rows[h.doc])

\* The sections of a document were written for its versions, the last of them
\* for the last if no generation is half-way, and then its warnings cover them.
Sound(r, text) ==
  /\ text = [k \in DOMAIN text |-> text[k]]
  /\ \A k \in DOMAIN text : text[k].for \in Nat /\ text[k].for <= r.version + 1
  /\ r.status = "draft" =>
       /\ \A k \in DOMAIN text : text[k].for <= r.version
       /\ \E k \in DOMAIN text : text[k].for = r.version
       /\ review(text) \subseteq r.warnings

OneEach(rows) ==
  \A c, d \in DOMAIN rows : rows[c].template = rows[d].template /\ rows[c].template # NoTemplate => c = d

Alone ==
  ~ overlapped =>
    /\ \A r, s \in Sessions : IsOpen(r) /\ IsOpen(s) => r = s
    /\ \A s \in Sessions : InStep(session[s], docs, sections)
    /\ \A d \in Docs : Sound(docs[d], sections[d])
    /\ OneEach(docs)

\* Session s now holds h, and it is the only one open.
LEMMA AloneElsewhere ==
  ASSUME Typed, Alone, NEW s \in Sessions, NEW h, session' = [session EXCEPT ![s] = h],
         ~ overlapped' => \A r \in Sessions : r # s => session[r].pc = "closed",
         ~ overlapped' => InStep(h, docs', sections'),
         ~ overlapped' => \A d \in Docs' : Sound(docs'[d], sections'[d]),
         ~ overlapped' => OneEach(docs')
  PROVE  Alone'
<1> SUFFICES ASSUME ~ overlapped' PROVE Alone'
  BY DEF Alone
<1>1. session'[s] = h /\ \A r \in Sessions : r # s => session'[r] = session[r]
  BY SessionsStep
<1>2. \A r \in Sessions : r # s => session'[r].pc = "closed"
  BY <1>1
<1>3. \A r, q \in Sessions : IsOpen(r)' /\ IsOpen(q)' => r = q
  BY <1>2 DEF IsOpen
<1>4. \A r \in Sessions : InStep(session'[r], docs', sections')
  <2> SUFFICES ASSUME NEW r \in Sessions PROVE InStep(session'[r], docs', sections')
    OBVIOUS
  <2>1. CASE r = s
    BY <1>1, <2>1
  <2>2. CASE r # s
    BY <1>2, <2>2 DEF InStep
  <2> QED
    BY <2>1, <2>2
<1>5. \A r, q \in Sessions : IsOpen(r)' /\ IsOpen(q)' => r = q
  BY <1>3
<1> QED
  BY <1>3, <1>4 DEF Alone

LEMMA OnlyOne ==
  ASSUME Alone, ~ overlapped, NEW s \in Sessions, session[s].pc # "closed"
  PROVE  \A r \in Sessions : r # s => session[r].pc = "closed"
BY DEF Alone, IsOpen

\* A session opens.
LEMMA AloneOpens ==
  ASSUME Typed, Alone, NEW s \in Sessions, NEW h, Open(s, h), UNCHANGED <<docs, sections>>,
         ~ overlapped => InStep(h, docs, sections)
  PROVE  Alone'
<1>1. session' = [session EXCEPT ![s] = h]
      /\ (~ overlapped' => ~ overlapped /\ \A r \in Sessions : ~ IsOpen(r))
  BY OpenStep
<1>2. ~ overlapped' => \A r \in Sessions : r # s => session[r].pc = "closed"
  BY <1>1 DEF IsOpen
<1>3. Docs' = Docs
  BY DEF Docs
<1>4. ~ overlapped' => InStep(h, docs', sections')
  BY <1>1
<1>5. ~ overlapped' => (\A d \in Docs' : Sound(docs'[d], sections'[d])) /\ OneEach(docs')
  BY <1>1, <1>3 DEF Alone
<1> QED
  BY <1>1, <1>2, <1>4, <1>5, AloneElsewhere

\* The session that is open goes on or ends; it writes nothing.
LEMMA AloneGoesOn ==
  ASSUME Typed, Alone, NEW s \in Sessions, NEW h, session' = [session EXCEPT ![s] = h],
         session[s].pc # "closed", UNCHANGED <<docs, sections, overlapped>>,
         ~ overlapped => InStep(h, docs, sections)
  PROVE  Alone'
<1>1. ~ overlapped' => \A r \in Sessions : r # s => session[r].pc = "closed"
  BY OnlyOne
<1>2. Docs' = Docs
  BY DEF Docs
<1>3. ~ overlapped' => InStep(h, docs', sections')
  OBVIOUS
<1>4. ~ overlapped' => (\A d \in Docs' : Sound(docs'[d], sections'[d])) /\ OneEach(docs')
  BY <1>2 DEF Alone
<1> QED
  BY <1>1, <1>3, <1>4, AloneElsewhere

\* What the commit of a job makes of the rows, when it is alone.
LEMMA AloneRows ==
  ASSUME Typed, Alone, ~ overlapped, NEW s \in Sessions, NEW d, NEW new, NEW h, Advances(s, d, new, h),
         session[s].pc \in {"job", "sections"}, new.template = session[s].docs[d].template
  PROVE  /\ Docs' = Docs /\ d \in Docs
         /\ Agrees(new, docs'[d]) /\ docs'[d].template = docs[d].template
         /\ \A e \in Docs : e # d => docs'[e] = docs[e]
         /\ DOMAIN h.docs = Docs' /\ \A e \in Docs' : Agrees(h.docs[e], docs'[e])
         /\ OneEach(docs')
<1> DEFINE old == session[s].docs[d]
<1>1. /\ d \in Docs /\ IsDocument(docs[d]) /\ IsDocument(old) /\ IsDocument(new)
      /\ Docs' = Docs /\ docs'[d] = Written(docs[d], old, new)
      /\ \A e \in Docs : e # d => docs'[e] = docs[e]
  BY AdvancesRows
<1>2. /\ DOMAIN session[s].docs = Docs
      /\ \A e \in Docs : Agrees(session[s].docs[e], docs[e])
  <2>1. InStep(session[s], docs, sections)
    BY DEF Alone
  <2> QED
    BY <2>1 DEF InStep, Docs
<1>3. Agrees(old, docs[d])
  BY <1>1, <1>2
<1>4. new.template = old.template
  OBVIOUS
<1> HIDE DEF old
<1>5. /\ docs'[d].template = docs[d].template
      /\ docs'[d].status = IF new.status # old.status THEN new.status ELSE docs[d].status
      /\ docs'[d].version = IF new.version # old.version THEN new.version ELSE docs[d].version
      /\ docs'[d].warnings = IF new.warnings # old.warnings THEN new.warnings ELSE docs[d].warnings
  BY <1>1, <1>4, WrittenRow
<1>6. Agrees(new, docs'[d])
  BY <1>3, <1>5 DEF Agrees
<1>7. DOMAIN h.docs = Docs' /\ \A e \in Docs' : Agrees(h.docs[e], docs'[e])
  <2>1. DOMAIN h.docs = DOMAIN session[s].docs /\ h.docs[d] = new
        /\ \A e \in DOMAIN h.docs : e # d => h.docs[e] = session[s].docs[e]
    BY DEF Advances
  <2> QED
    BY <1>1, <1>2, <1>6, <2>1
<1>8. OneEach(docs')
  <2>1. OneEach(docs) /\ \A e \in Docs : docs'[e].template = docs[e].template
    BY <1>1, <1>5 DEF Alone
  <2>2. DOMAIN docs' = DOMAIN docs
    BY <1>1 DEF Docs
  <2> QED
    BY <2>1, <2>2 DEF OneEach, Docs
<1> QED
  BY <1>1, <1>5, <1>6, <1>7, <1>8

\* The section that a job writes, when it is alone.
LEMMA AloneSections ==
  ASSUME Typed, Alone, ~ overlapped, NEW s \in Sessions, session[s].pc = "sections",
         NEW key, NEW text, sections' = Stored(s, key, text)
  PROVE  LET d == Current(s)
         IN  /\ d \in Docs /\ d = Min(session[s].todo)
             /\ docs[d].status = "generating"
             /\ sections'[d] = With(sections[d], key, text)
             /\ session[s].held = sections[d]
             /\ \A e \in Docs : e # d => sections'[e] = sections[e]
<1> DEFINE d == Current(s)
           held == session[s].held
<1>1. d \in Docs /\ d = Min(session[s].todo)
  <2>1. session[s].todo # {}
    BY JobsHold DEF IsJob
  <2> QED
    BY <2>1, CurrentDocument DEF Current
<1>2. docs[d].status = "generating" /\ held = sections[d]
  <2>1. InStep(session[s], docs, sections)
    BY DEF Alone
  <2> QED
    BY <1>1, <2>1 DEF InStep
<1>3. held = [k \in DOMAIN held |-> held[k]]
  BY <1>1, <1>2 DEF Alone, Sound
<1>4. /\ \A e \in Docs : e # d => sections'[e] = sections[e]
      /\ sections'[d] = IF key \in DOMAIN held /\ held[key] = text
                        THEN sections[d] ELSE With(sections[d], key, text)
  BY <1>1, SectionsStep
<1> HIDE DEF d, held
<1>5. ASSUME key \in DOMAIN held, held[key] = text
      PROVE  With(held, key, text) = held
  <2>1. DOMAIN held \union {key} = DOMAIN held
    BY <1>5
  <2>2. With(held, key, text) = [k \in DOMAIN held |-> IF k = key THEN text ELSE held[k]]
    BY <2>1 DEF With
  <2>3. \A k \in DOMAIN held : (IF k = key THEN text ELSE held[k]) = held[k]
    BY <1>5
  <2>4. [k \in DOMAIN held |-> IF k = key THEN text ELSE held[k]] = [k \in DOMAIN held |-> held[k]]
    BY <2>3
  <2> QED
    BY <1>3, <2>2, <2>4
<1>6. sections'[d] = With(sections[d], key, text)
  BY <1>2, <1>4, <1>5
<1> QED
  BY <1>1, <1>2, <1>4, <1>6 DEF d, held

\* A text written for the next version.
LEMMA SoundWith ==
  ASSUME NEW r, NEW q, NEW old, NEW key, NEW text, r.version \in Nat, Sound(r, old),
         text.for = r.version + 1,
         \/ q.version = r.version /\ q.status # "draft"
         \/ q.version = r.version + 1 /\ q.warnings = review(With(old, key, text))
  PROVE  Sound(q, With(old, key, text))
<1> DEFINE w == With(old, key, text)
<1>1. /\ w = [k \in DOMAIN w |-> w[k]] /\ DOMAIN w = DOMAIN old \union {key}
      /\ w[key] = text
      /\ \A k \in DOMAIN w : w[k] = text \/ (k \in DOMAIN old /\ w[k] = old[k])
  <2>1. w = [k \in DOMAIN old \union {key} |-> IF k = key THEN text ELSE old[k]]
    BY DEF With
  <2> HIDE DEF w
  <2>2. DOMAIN w = DOMAIN old \union {key}
    BY <2>1
  <2>3. w = [k \in DOMAIN w |-> w[k]]
    BY <2>1
  <2>4. w[key] = text
    BY <2>1
  <2>5. \A k \in DOMAIN w : k # key => w[k] = old[k]
    BY <2>1
  <2>6. ASSUME NEW k \in DOMAIN w PROVE w[k] = text \/ (k \in DOMAIN old /\ w[k] = old[k])
    <3>1. CASE k = key
      BY <2>4, <3>1
    <3>2. CASE k # key
      BY <2>2, <2>5, <3>2
    <3> QED
      BY <3>1, <3>2
  <2> QED
    BY <2>2, <2>3, <2>4, <2>6
<1> HIDE DEF w
<1>2. \A k \in DOMAIN w : w[k].for \in Nat /\ w[k].for <= r.version + 1
  BY <1>1 DEF Sound
<1>3. CASE q.version = r.version /\ q.status # "draft"
  BY <1>1, <1>2, <1>3 DEF Sound, w
<1>4. CASE q.version = r.version + 1 /\ q.warnings = review(With(old, key, text))
  <2>1. \A k \in DOMAIN w : w[k].for <= q.version + 1
    BY <1>2, <1>4
  <2>2. key \in DOMAIN w /\ w[key].for = q.version
    BY <1>1, <1>4
  <2>3. review(w) \subseteq q.warnings
    BY <1>4 DEF w
  <2> QED
    BY <1>1, <1>2, <1>4, <2>1, <2>2, <2>3 DEF Sound, w
<1> QED
  BY <1>3, <1>4

LEMMA AloneStep == Typed /\ Alone /\ [Next]_vars => Alone'
<1> SUFFICES ASSUME Typed, Alone, [Next]_vars PROVE Alone'
  OBVIOUS
<1>a. Closed.pc = "closed" /\ InStep(Closed, docs, sections) /\ InStep(Closed, docs', sections')
  BY DEF Closed, InStep
<1>1. ASSUME NEW t \in Types, NEW plan \in UserPlans[t], UpdateTemplate(t, plan) PROVE Alone'
  BY <1>1 DEF UpdateTemplate, mishaps, Alone, Docs, IsOpen
<1>2. ASSUME NEW t \in Types, RemoveTemplate(t) PROVE Alone'
  <2>1. /\ Docs' = Docs
        /\ \A d \in Docs :
             /\ docs'[d].template \in {docs[d].template, NoTemplate}
             /\ docs'[d].status = docs[d].status /\ docs'[d].version = docs[d].version
             /\ docs'[d].warnings = docs[d].warnings
    BY <1>2, RemovedRows
  <2>2. UNCHANGED <<session, sections, overlapped>>
    BY <1>2 DEF RemoveTemplate, mishaps
  <2> SUFFICES ASSUME ~ overlapped PROVE Alone'
    BY <2>2 DEF Alone
  <2>3. \A r, q \in Sessions : IsOpen(r)' /\ IsOpen(q)' => r = q
    BY <2>2 DEF Alone, IsOpen
  <2>4. ASSUME NEW s \in Sessions PROVE InStep(session'[s], docs', sections')
    <3> DEFINE h == session[s]
    <3>1. InStep(h, docs, sections) /\ session'[s] = h
      BY <2>2 DEF Alone
    <3>2. h.pc = "add" => \A d \in Docs' : docs'[d].template # NoTemplate => docs'[d].template \in h.known
      BY <2>1, <3>1 DEF InStep, Docs
    <3>3. h.pc \in {"job", "sections"} =>
            DOMAIN h.docs = Docs' /\ \A d \in Docs' : Agrees(h.docs[d], docs'[d])
      BY <2>1, <3>1 DEF InStep, Docs, Agrees
    <3>4. h.pc = "sections" => docs'[Min(h.todo)].status = "generating" /\ h.held = sections'[Min(h.todo)]
      <4> SUFFICES ASSUME h.pc = "sections"
                   PROVE  docs'[Min(h.todo)].status = "generating" /\ h.held = sections'[Min(h.todo)]
        OBVIOUS
      <4>1. Min(h.todo) \in Docs
        <5>1. h.todo # {}
          BY JobsHold DEF IsJob
        <5> QED
          BY <5>1, CurrentDocument DEF Current
      <4> HIDE DEF h
      <4> QED
        BY <2>1, <2>2, <3>1, <4>1 DEF InStep
    <3>5. h.pc = "put" => Agrees(h.row, docs'[h.doc])
      BY <2>1, <3>1, Exports DEF InStep, Agrees
    <3> HIDE DEF h
    <3> QED
      BY <3>1, <3>2, <3>3, <3>4, <3>5 DEF InStep, Docs
  <2>5. \A d \in Docs' : Sound(docs'[d], sections'[d])
    BY <2>1, <2>2 DEF Alone, Sound
  <2>6. OneEach(docs')
    BY <2>1 DEF Alone, OneEach, Docs
  <2> QED
    BY <2>3, <2>4, <2>5, <2>6 DEF Alone
<1>3. ASSUME NEW s \in Sessions, NEW wish \in Wishes, OpenAddition(s, wish) PROVE Alone'
  <2> DEFINE h == [pc |-> "add", wish |-> wish, known |-> {docs[d].template : d \in Docs}]
  <2>1. Open(s, h) /\ UNCHANGED <<docs, sections>>
    BY <1>3 DEF OpenAddition
  <2>2. InStep(h, docs, sections)
    BY DEF InStep, Docs
  <2> HIDE DEF h
  <2> QED
    BY <2>1, <2>2, AloneOpens
<1>4. ASSUME NEW s \in Sessions, AddDocuments(s) PROVE Alone'
  <2> DEFINE h == session[s]
             created == Missing(h.wish, h.known)
  <2>1. /\ h.pc = "add" /\ created \subseteq Types
        /\ session' = [session EXCEPT ![s] = Closed] /\ UNCHANGED overlapped
    BY <1>4, Additions DEF AddDocuments, IsAddition, Missing, Close, GoesOn, mishaps
  <2>2. CASE UNCHANGED <<docs, sections>>
    BY <1>a, <2>1, <2>2, AloneGoesOn
  <2>3. CASE docs' \in Added(created) /\ sections' = sections \o [i \in 1 .. Cardinality(created) |-> None]
    <3>1. \A t \in created : t \notin h.known
      BY DEF Missing
    <3> HIDE DEF created
    <3>2. /\ Docs \subseteq Docs'
          /\ \A d \in Docs : docs'[d] = docs[d] /\ sections'[d] = sections[d]
          /\ \A d \in Docs' : d \notin Docs =>
               (\E t \in created : docs'[d] = NewDocument(t)) /\ sections'[d] = None
          /\ \A c, d \in Docs' : c \notin Docs /\ d \notin Docs /\ docs'[c].template = docs'[d].template => c = d
      BY <2>1, <2>3, AddedRows
    <3> SUFFICES ASSUME ~ overlapped PROVE Alone'
      BY <2>1 DEF Alone
    <3>3. \A r \in Sessions : r # s => session[r].pc = "closed"
      BY <2>1, OnlyOne
    <3>4. \A d \in Docs : docs[d].template # NoTemplate => docs[d].template \in h.known
      <4>1. InStep(h, docs, sections)
        BY DEF Alone
      <4> HIDE DEF h
      <4> QED
        BY <2>1, <4>1 DEF InStep, Docs
    <3>5. \A d \in Docs' : d \notin Docs => docs'[d].template \in created /\ Sound(docs'[d], sections'[d])
      <4>1. ASSUME NEW t \in created PROVE NewDocument(t).template = t /\ Sound(NewDocument(t), None)
        BY DEF NewDocument, Sound, None
      <4> QED
        BY <3>2, <4>1
    <3>6. \A d \in Docs' : Sound(docs'[d], sections'[d])
      BY <3>2, <3>5 DEF Alone
    <3>7. OneEach(docs')
      <4> SUFFICES ASSUME NEW c \in Docs', NEW d \in Docs', docs'[c].template = docs'[d].template,
                          docs'[c].template # NoTemplate
                   PROVE  c = d
        BY DEF OneEach, Docs
      <4>1. CASE c \in Docs /\ d \in Docs
        BY <3>2, <4>1 DEF Alone, OneEach, Docs
      <4>2. CASE c \notin Docs /\ d \notin Docs
        BY <3>2, <4>2
      <4>3. CASE c \in Docs /\ d \notin Docs
        BY <3>1, <3>2, <3>4, <3>5, <4>3
      <4>4. CASE c \notin Docs /\ d \in Docs
        BY <3>1, <3>2, <3>4, <3>5, <4>4
      <4> QED
        BY <4>1, <4>2, <4>3, <4>4
    <3> QED
      BY <1>a, <2>1, <3>3, <3>6, <3>7, AloneElsewhere
  <2> QED
    BY <1>4, <2>2, <2>3 DEF AddDocuments
<1>5. ASSUME NEW s \in Sessions, NEW wanted \in SUBSET Docs, StartGeneration(s, wanted) PROVE Alone'
  <2> DEFINE h == Job("job", application, docs, wanted, << >>, None)
  <2>1. Open(s, h) /\ UNCHANGED <<docs, sections>> /\ h.pc = "job" /\ h.docs = docs
    BY <1>5 DEF StartGeneration, Job
  <2> HIDE DEF h
  <2>2. InStep(h, docs, sections)
    BY <2>1 DEF InStep, Agrees
  <2> QED
    BY <2>1, <2>2, AloneOpens
<1>6. ASSUME NEW s \in Sessions, RefuseDocument(s) PROVE Alone'
  <2> DEFINE d == Current(s)
             old == session[s].docs[d]
             new == [old EXCEPT !.status = "failed"]
             h == session'[s]
  <2>1. Advances(s, d, new, h) /\ session[s].pc = "job" /\ UNCHANGED <<sections, overlapped>>
    BY <1>6, RefuseAdvances DEF RefuseDocument, mishaps
  <2>2. /\ new.version = old.version /\ new.status = "failed" /\ new.template = old.template
        /\ h.pc = "job" /\ session' = [session EXCEPT ![s] = h]
    <3>1. new.version = old.version /\ new.status = "failed" /\ new.template = old.template
      BY <2>1, ZenonT(40) DEF Advances, IsJob, IsDocument
    <3>2. h.pc = "job"
      BY <1>6, SessionsStep DEF RefuseDocument, GoesOn, Job
    <3> QED
      BY <2>1, <3>1, <3>2 DEF Advances
  <2> SUFFICES ASSUME ~ overlapped PROVE Alone'
    BY <2>1 DEF Alone
  <2> HIDE DEF new, h
  <2>3. /\ Docs' = Docs /\ d \in Docs /\ Agrees(new, docs'[d])
        /\ \A e \in Docs : e # d => docs'[e] = docs[e]
        /\ DOMAIN h.docs = Docs' /\ \A e \in Docs' : Agrees(h.docs[e], docs'[e])
        /\ OneEach(docs')
    BY <2>1, <2>2, AloneRows
  <2>4. docs'[d].status = "failed" /\ docs'[d].version = docs[d].version
    <3>1. Agrees(old, docs[d])
      <4>1. InStep(session[s], docs, sections)
        BY DEF Alone
      <4> QED
        BY <2>1, <2>3, <4>1 DEF InStep, Docs
    <3> QED
      BY <2>2, <2>3, <3>1 DEF Agrees
  <2>5. \A e \in Docs' : Sound(docs'[e], sections'[e])
    <3>1. Sound(docs'[d], sections'[d])
      BY <2>1, <2>3, <2>4 DEF Alone, Sound
    <3> QED
      BY <2>1, <2>3, <3>1 DEF Alone
  <2>6. InStep(h, docs', sections')
    BY <2>2, <2>3 DEF InStep, Docs
  <2>7. \A r \in Sessions : r # s => session[r].pc = "closed"
    BY <2>1, OnlyOne
  <2> QED
    BY <2>2, <2>3, <2>5, <2>6, <2>7, AloneElsewhere
<1>7. ASSUME NEW s \in Sessions, BeginDocument(s) PROVE Alone'
  <2> DEFINE d == Current(s)
             old == session[s].docs[d]
             new == [old EXCEPT !.status = "generating"]
             h == session'[s]
  <2>1. /\ Advances(s, d, new, h) /\ session[s].pc = "job" /\ UNCHANGED <<sections, overlapped>>
        /\ h.pc = "sections" /\ h.todo = session[s].todo /\ h.held = sections[d]
    BY <1>7, BeginAdvances DEF BeginDocument, mishaps, Existing
  <2>2. /\ new.version = old.version /\ new.status = "generating" /\ new.template = old.template
        /\ session' = [session EXCEPT ![s] = h] /\ d = Min(h.todo)
    <3>1. d = Min(h.todo)
      BY <2>1 DEF Current
    <3>2. session' = [session EXCEPT ![s] = h] /\ IsDocument(old)
      BY <2>1 DEF Advances, IsJob
    <3> HIDE DEF d, h, old
    <3>3. new.version = old.version /\ new.status = "generating" /\ new.template = old.template
      BY <3>2 DEF IsDocument
    <3> QED
      BY <3>1, <3>2, <3>3
  <2> SUFFICES ASSUME ~ overlapped PROVE Alone'
    BY <2>1 DEF Alone
  <2> HIDE DEF new, h
  <2>3. /\ Docs' = Docs /\ d \in Docs /\ Agrees(new, docs'[d])
        /\ \A e \in Docs : e # d => docs'[e] = docs[e]
        /\ DOMAIN h.docs = Docs' /\ \A e \in Docs' : Agrees(h.docs[e], docs'[e])
        /\ OneEach(docs')
    BY <2>1, <2>2, AloneRows
  <2>4. docs'[d].status = "generating" /\ docs'[d].version = docs[d].version
    <3>1. Agrees(old, docs[d])
      <4>1. InStep(session[s], docs, sections)
        BY DEF Alone
      <4> QED
        BY <2>1, <2>3, <4>1 DEF InStep, Docs
    <3> QED
      BY <2>2, <2>3, <3>1 DEF Agrees
  <2>5. \A e \in Docs' : Sound(docs'[e], sections'[e])
    <3>1. Sound(docs'[d], sections'[d])
      BY <2>1, <2>3, <2>4 DEF Alone, Sound
    <3> QED
      BY <2>1, <2>3, <3>1 DEF Alone
  <2>6. InStep(h, docs', sections')
    BY <2>1, <2>2, <2>3, <2>4 DEF InStep, Docs
  <2>7. \A r \in Sessions : r # s => session[r].pc = "closed"
    BY <2>1, OnlyOne
  <2> QED
    BY <2>2, <2>3, <2>5, <2>6, <2>7, AloneElsewhere
<1>8. ASSUME NEW s \in Sessions, LoseJob(s) PROVE Alone'
  <2>1. session[s].pc = "sections" /\ session' = [session EXCEPT ![s] = Closed]
        /\ UNCHANGED <<docs, sections, overlapped>>
    BY <1>8 DEF LoseJob, Close, GoesOn, mishaps
  <2> QED
    BY <1>a, <2>1, AloneGoesOn
<1>9. ASSUME NEW s \in Sessions, WriteSection(s) PROVE Alone'
  <2> DEFINE key == Head(session[s].plan)
             h == session'[s]
             d == Current(s)
  <2>1. PICK text \in Texts(s) :
          /\ sections' = Stored(s, key, text)
          /\ session[s].pc = "sections" /\ h.pc = "sections"
          /\ h.docs = session[s].docs /\ h.todo = session[s].todo
          /\ h.held = With(session[s].held, key, text)
          /\ session' = [session EXCEPT ![s] = h]
    BY <1>9, WriteSectionStep
  <2>2. UNCHANGED <<docs, overlapped>>
    BY <1>9 DEF WriteSection, mishaps
  <2> SUFFICES ASSUME ~ overlapped PROVE Alone'
    BY <2>2 DEF Alone
  <2> HIDE DEF key
  <2>3. /\ d \in Docs /\ d = Min(session[s].todo) /\ docs[d].status = "generating"
        /\ sections'[d] = With(sections[d], key, text) /\ session[s].held = sections[d]
        /\ \A e \in Docs : e # d => sections'[e] = sections[e]
    BY <2>1, AloneSections
  <2>4. InStep(session[s], docs, sections) /\ Sound(docs[d], sections[d]) /\ OneEach(docs)
    BY <2>3 DEF Alone
  <2>5. text.for = docs[d].version + 1 /\ docs[d].version \in Nat
    <3>1. text.for = session[s].docs[d].version + 1
      BY DEF Texts
    <3>2. Agrees(session[s].docs[d], docs[d])
      BY <2>1, <2>3, <2>4 DEF InStep, Docs
    <3>3. docs[d].version \in Nat
      <4>1. IsDocument(docs[d])
        BY <2>3 DEF Typed
      <4> QED
        BY <4>1, ApplicationsAssumption DEF IsDocument
    <3> QED
      BY <3>1, <3>2, <3>3 DEF Agrees
  <2>6. Sound(docs[d], sections'[d])
    BY <2>3, <2>4, <2>5, SoundWith
  <2> HIDE DEF h
  <2>7. \A e \in Docs' : Sound(docs'[e], sections'[e])
    BY <2>2, <2>3, <2>6 DEF Alone, Docs
  <2>8. InStep(h, docs', sections')
    BY <2>1, <2>2, <2>3, <2>4 DEF InStep
  <2>9. \A r \in Sessions : r # s => session[r].pc = "closed"
    BY <2>1, OnlyOne
  <2> QED
    BY <2>1, <2>2, <2>4, <2>7, <2>8, <2>9, AloneElsewhere
<1>10. ASSUME NEW s \in Sessions, FinishDocument(s) PROVE Alone'
  <2> DEFINE key == Head(session[s].plan)
             d == Current(s)
             old == session[s].docs[d]
             h == session'[s]
  <2>1. PICK text \in Texts(s) :
          LET held == With(session[s].held, key, text)
          IN  /\ sections' = Stored(s, key, text)
              /\ Advances(s, d, Finished(old, review(held)), h)
              /\ h.pc = "job"
    BY <1>10, FinishAdvances
  <2> DEFINE warnings == review(With(session[s].held, key, text))
             new == Finished(old, warnings)
  <2>2. sections' = Stored(s, key, text) /\ Advances(s, d, new, h) /\ h.pc = "job"
    BY <2>1
  <2>3. session[s].pc = "sections" /\ UNCHANGED overlapped
    BY <1>10 DEF FinishDocument, mishaps
  <2> SUFFICES ASSUME ~ overlapped PROVE Alone'
    BY <2>3 DEF Alone
  <2> HIDE DEF key, warnings
  <2>4. /\ new.version = old.version + 1 /\ new.template = old.template
        /\ new.warnings = warnings /\ IsDocument(old)
    <3>1. IsDocument(old)
      BY <2>2 DEF Advances, IsJob
    <3> QED
      BY <3>1 DEF Finished, IsDocument
  <2> HIDE DEF new, h
  <2>5. /\ d \in Docs /\ docs[d].status = "generating"
        /\ sections'[d] = With(sections[d], key, text) /\ session[s].held = sections[d]
        /\ \A e \in Docs : e # d => sections'[e] = sections[e]
    BY <2>2, <2>3, AloneSections
  <2>6. /\ Docs' = Docs /\ Agrees(new, docs'[d])
        /\ \A e \in Docs : e # d => docs'[e] = docs[e]
        /\ DOMAIN h.docs = Docs' /\ \A e \in Docs' : Agrees(h.docs[e], docs'[e])
        /\ OneEach(docs')
    BY <2>2, <2>3, <2>4, AloneRows
  <2>7. old.version = docs[d].version /\ docs[d].version \in Nat /\ text.for = docs[d].version + 1
    <3>1. text.for = old.version + 1
      BY DEF Texts
    <3>2. Agrees(old, docs[d])
      <4>1. InStep(session[s], docs, sections)
        BY DEF Alone
      <4> QED
        BY <2>3, <2>5, <4>1 DEF InStep, Docs
    <3>3. docs[d].version \in Nat
      <4>1. IsDocument(docs[d])
        BY <2>5 DEF Typed
      <4> QED
        BY <4>1, ApplicationsAssumption DEF IsDocument
    <3> QED
      BY <3>1, <3>2, <3>3 DEF Agrees
  <2>8. Sound(docs'[d], sections'[d])
    <3>1. Sound(docs[d], sections[d])
      BY <2>5 DEF Alone
    <3>2. docs'[d].version = docs[d].version + 1 /\ docs'[d].warnings = review(With(sections[d], key, text))
      BY <2>4, <2>5, <2>6, <2>7 DEF Agrees, warnings
    <3> QED
      BY <2>5, <2>7, <3>1, <3>2, SoundWith
  <2>9. \A e \in Docs' : Sound(docs'[e], sections'[e])
    BY <2>5, <2>6, <2>8 DEF Alone
  <2>10. InStep(h, docs', sections')
    BY <2>2, <2>6 DEF InStep, Docs
  <2>11. \A r \in Sessions : r # s => session[r].pc = "closed"
    BY <2>3, OnlyOne
  <2>12. session' = [session EXCEPT ![s] = h]
    BY <2>2 DEF Advances
  <2> QED
    BY <2>6, <2>9, <2>10, <2>11, <2>12, AloneElsewhere
<1>11. ASSUME NEW s \in Sessions, EndGeneration(s) PROVE Alone'
  <2>1. session[s].pc = "job" /\ session' = [session EXCEPT ![s] = Closed]
        /\ UNCHANGED <<docs, sections, overlapped>>
    BY <1>11 DEF EndGeneration, Close, GoesOn, mishaps
  <2> QED
    BY <1>a, <2>1, AloneGoesOn
<1>12. ASSUME NEW s \in Sessions, NEW d \in Docs, OpenExport(s, d) PROVE Alone'
  <2> DEFINE h == [pc |-> "put", doc |-> d, row |-> docs[d]]
  <2>1. Open(s, h) /\ UNCHANGED <<docs, sections>>
    BY <1>12 DEF OpenExport
  <2>2. InStep(h, docs, sections)
    BY DEF InStep, Agrees
  <2> HIDE DEF h
  <2> QED
    BY <2>1, <2>2, AloneOpens
<1>13. ASSUME NEW s \in Sessions, PutFile(s) PROVE Alone'
  <2>1. session'[s].pc = "commit" /\ session' = [session EXCEPT ![s] = session'[s]]
    BY <1>13, PutFileStep
  <2>2. session[s].pc = "put" /\ UNCHANGED <<docs, sections, overlapped>>
    BY <1>13 DEF PutFile, mishaps
  <2>3. InStep(session'[s], docs, sections)
    BY <2>1 DEF InStep
  <2> QED
    BY <2>1, <2>2, <2>3, AloneGoesOn
<1>14. ASSUME NEW s \in Sessions, CommitExport(s) PROVE Alone'
  <2> DEFINE d == session[s].doc
             read == session[s].row
             new == [read EXCEPT !.export = read.version]
  <2>1. /\ d \in Docs /\ IsDocument(read) /\ IsDocument(new)
        /\ new.template = read.template /\ new.status = read.status /\ new.version = read.version
        /\ new.warnings = read.warnings
        /\ docs' = [docs EXCEPT ![d] = Written(@, read, new)]
    BY <1>14, CommitExportStep
  <2>2. /\ session[s].pc = "commit" /\ UNCHANGED <<sections, overlapped>>
        /\ session' = [session EXCEPT ![s] = Closed]
    BY <1>14 DEF CommitExport, Close, GoesOn, mishaps
  <2> SUFFICES ASSUME ~ overlapped PROVE Alone'
    BY <2>2 DEF Alone
  <2> HIDE DEF new, d, read
  <2>3. /\ Docs' = Docs /\ docs'[d] = Written(docs[d], read, new)
        /\ \A e \in Docs : e # d => docs'[e] = docs[e]
    BY <2>1, RowsStep, ZenonT(40)
  <2>4. /\ docs'[d].status = docs[d].status /\ docs'[d].version = docs[d].version
        /\ docs'[d].warnings = docs[d].warnings /\ docs'[d].template = docs[d].template
    BY <2>1, <2>3, WrittenRow DEF Typed
  <2>5. \A e \in Docs' : Sound(docs'[e], sections'[e])
    <3>1. Sound(docs'[d], sections'[d])
      BY <2>1, <2>2, <2>4 DEF Alone, Sound
    <3> QED
      BY <2>2, <2>3, <3>1 DEF Alone
  <2>6. OneEach(docs')
    <3>1. \A e \in Docs : docs'[e].template = docs[e].template
      BY <2>3, <2>4
    <3> QED
      BY <2>3, <3>1 DEF Alone, OneEach, Docs
  <2>7. \A r \in Sessions : r # s => session[r].pc = "closed"
    BY <2>2, OnlyOne
  <2> QED
    BY <1>a, <2>2, <2>5, <2>6, <2>7, AloneElsewhere
<1>15. ASSUME NEW s \in Sessions, Kill(s) PROVE Alone'
  <2>1. session[s].pc # "closed" /\ session' = [session EXCEPT ![s] = Closed]
        /\ UNCHANGED <<docs, sections, overlapped>>
    BY <1>15 DEF Kill, Close, GoesOn, IsOpen
  <2> QED
    BY <1>a, <2>1, AloneGoesOn
<1>16. CASE UNCHANGED vars
  BY <1>16 DEF vars, mishaps, Alone, Docs, IsOpen
<1> QED
  BY <1>1, <1>2, <1>3, <1>4, <1>5, <1>6, <1>7, <1>8, <1>9, <1>10, <1>11, <1>12, <1>13, <1>14, <1>15, <1>16
  DEF Next, Generate

LEMMA AloneInit == Init => Alone
<1> SUFFICES ASSUME Init PROVE Alone
  OBVIOUS
<1>1. Docs = {} /\ DOMAIN docs = {} /\ \A s \in Sessions : session[s].pc = "closed"
  BY DEF Init, Docs, Closed
<1> QED
  BY <1>1 DEF Alone, IsOpen, InStep, OneEach

\* The templates already in the application are left out of an addition: no
\* template has two documents, as long as no two requests add at once.
THEOREM TemplatesHaveOneDocument == Spec => []OneDocumentPerTemplate
<1>1. Alone => OneDocumentPerTemplate
  BY DEF Alone, OneEach, OneDocumentPerTemplate, Docs
<1> QED
  BY <1>1, TypedInit, TypedStep, AloneInit, AloneStep, PTL DEF Spec

\* The guard reads every section the document has, so that a draft warns of
\* each unsupported claim it holds, those in the sections of an older plan
\* included.
THEOREM WarningsAreComplete == Spec => []WarningsCoverText
<1>1. Typed /\ Alone => WarningsCoverText
  <2> SUFFICES ASSUME Typed, Alone, ~ overlapped, NEW d \in Docs, docs[d].status = "draft",
                      NEW k \in DOMAIN sections[d], NEW c \in check(sections[d][k].claims, Facts)
               PROVE  <<k, c>> \in docs[d].warnings
    BY DEF WarningsCoverText
  <2>1. review(sections[d]) \subseteq docs[d].warnings
    BY DEF Alone, Sound
  <2>2. <<k, c>> \in review(sections[d])
    BY DEF review
  <2> QED
    BY <2>1, <2>2
<1> QED
  BY <1>1, TypedInit, TypedStep, AloneInit, AloneStep, PTL DEF Spec

LEMMA FilesStep == Typed /\ Alone /\ FilesTellTheirVersion /\ [Next]_vars => FilesTellTheirVersion'
<1> SUFFICES ASSUME Typed, Alone, FilesTellTheirVersion, [Next]_vars PROVE FilesTellTheirVersion'
  OBVIOUS
<1>1. ASSUME NEW s \in Sessions, PutFile(s) PROVE FilesTellTheirVersion'
  <2> DEFINE d == session[s].doc
             row == session[s].row
             file == [versions |-> {text.for : text \in Range(sections[d])},
                      clean |-> ~ overlapped /\ row.status = "draft"]
  <2>1. files' = [name \in DOMAIN files \union {export_key(d, row)} |->
          IF name = export_key(d, row) THEN file ELSE files[name]]
    BY <1>1 DEF PutFile
  <2>2. ASSUME file.clean PROVE row.version = Max(file.versions)
    <3>1. ~ overlapped /\ row.status = "draft" /\ session[s].pc = "put"
      BY <1>1, <2>2 DEF PutFile
    <3>2. d \in Docs /\ Agrees(row, docs[d]) /\ Sound(docs[d], sections[d])
      <4>1. d \in Docs
        BY <3>1, Exports
      <4>2. InStep(session[s], docs, sections) /\ Sound(docs[d], sections[d])
        BY <3>1, <4>1 DEF Alone
      <4> QED
        BY <3>1, <4>1, <4>2 DEF InStep
    <3> DEFINE S == {text.for : text \in Range(sections[d])}
    <3>3. S = {sections[d][k].for : k \in DOMAIN sections[d]}
      BY DEF Range
    <3>4. docs[d].status = "draft" /\ docs[d].version = row.version
      BY <3>1, <3>2 DEF Agrees
    <3>5. S \subseteq Nat /\ row.version \in S /\ \A m \in S : m <= row.version
      <4> HIDE DEF d, row, S
      <4> QED
        BY <3>2, <3>3, <3>4 DEF Sound
    <3> HIDE DEF S
    <3>6. Max(S) = row.version
      BY <3>5, GreatestNumber
    <3> QED
      BY <3>6 DEF S
  <2>3. export_key(d, row)[2] = row.version
    BY DEF export_key
  <2> HIDE DEF file, d, row
  <2> QED
    BY <2>1, <2>2, <2>3 DEF FilesTellTheirVersion
<1>2. CASE UNCHANGED files
  BY <1>2 DEF FilesTellTheirVersion
<1>3. (\E s \in Sessions : PutFile(s)) \/ UNCHANGED files
  BY DEF Next, Generate, UpdateTemplate, RemoveTemplate, OpenAddition, AddDocuments, StartGeneration,
    RefuseDocument, BeginDocument, LoseJob, WriteSection, FinishDocument, EndGeneration, OpenExport,
    CommitExport, Kill, vars
<1> QED
  BY <1>1, <1>2, <1>3

\* A file made of a draft has the texts written for the version it is named
\* after, whatever generations died half-way before, as long as none runs
\* meanwhile.
THEOREM FilesHaveTheirText == Spec => []FilesTellTheirVersion
<1>1. Init => FilesTellTheirVersion
  BY DEF Init, None, FilesTellTheirVersion
<1> QED
  BY <1>1, TypedInit, TypedStep, AloneInit, AloneStep, FilesStep, PTL DEF Spec
=============================================================================
