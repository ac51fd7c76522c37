-------------------------- MODULE TenderDossierProofs --------------------------
(***************************************************************************)
(* Theorems about TenderDossier, for any notices, files, readings and      *)
(* sessions.                                                               *)
(***************************************************************************)
EXTENDS TenderDossier, SequenceTheorems, FunctionTheorems, FiniteSetTheorems, TLAPS

-----------------------------------------------------------------------------
(* Lists. *)

\* A sequence, of whatever it holds.
IsList(s) == \E S : s \in Seq(S)

LEMMA ListDomain ==
  ASSUME NEW s, IsList(s)
  PROVE  Len(s) \in Nat /\ DOMAIN s = 1 .. Len(s) /\ s = [i \in 1 .. Len(s) |-> s[i]]
<1>1. PICK S : s \in Seq(S)
  BY DEF IsList
<1> QED
  BY <1>1, LenProperties

LEMMA ListOf ==
  ASSUME NEW n \in Nat, NEW s, s = [i \in 1 .. n |-> s[i]]
  PROVE  IsList(s) /\ Len(s) = n
<1> DEFINE S == {s[i] : i \in 1 .. n}
<1>1. s \in [1 .. n -> S]
  OBVIOUS
<1>2. s \in Seq(S)
  BY <1>1, SeqDef
<1>3. Len(s) \in Nat /\ DOMAIN s = 1 .. Len(s) /\ DOMAIN s = 1 .. n
  BY <1>1, <1>2, LenProperties
<1>4. Len(s) = n
  BY <1>3
<1> QED
  BY <1>2, <1>4 DEF IsList

LEMMA ListConcat ==
  ASSUME NEW s, NEW t, IsList(s), IsList(t)
  PROVE  /\ IsList(s \o t)
         /\ Len(s \o t) = Len(s) + Len(t)
         /\ \A i \in 1 .. Len(s) : (s \o t)[i] = s[i]
         /\ \A i \in Len(s) + 1 .. Len(s) + Len(t) : (s \o t)[i] = t[i - Len(s)]
<1>1. PICK S : s \in Seq(S)
  BY DEF IsList
<1>2. PICK T : t \in Seq(T)
  BY DEF IsList
<1>3. s \in Seq(S \union T) /\ t \in Seq(S \union T)
  BY <1>1, <1>2, SeqMonotonic
<1>4. Len(s) \in Nat /\ Len(t) \in Nat
  BY <1>3, LenProperties
<1> QED
  BY <1>3, <1>4, ConcatProperties DEF IsList

-----------------------------------------------------------------------------
(* Rows. *)

IsPiece(r) ==
  /\ r = [source_url |-> r.source_url, download |-> r.download, file |-> r.file, extraction |-> r.extraction,
          text |-> r.text]
  /\ r.download \in {"pending", "done", "failed"}
  /\ r.file \in Files \union {"none"}
  /\ r.extraction \in {"pending", "done", "failed"}
  /\ r.text \in Readable \union {"none"}

\* A piece shows as downloaded or indexed only with a file, and as indexed only
\* with a text.
Held(r) ==
  /\ r.download = "done" => r.file # "none"
  /\ r.extraction = "done" => r.file # "none" /\ r.text # "none"

\* The text of a piece is that of its file, which is there for good.
InOrder(r) == r.extraction = "done" => r.download = "done" /\ r.text = r.file

\* What is there in the one is there in the other.
Keeps(old, new) ==
  /\ old.file # "none" => new.file # "none"
  /\ old.text # "none" => new.text # "none"

LEMMA NewPiece ==
  ASSUME NEW u
  PROVE  LET r == TenderDocument(u)
         IN  IsPiece(r) /\ Held(r) /\ InOrder(r) /\ r.source_url = u
BY DEF TenderDocument, IsPiece, Held, InOrder

\* What a commit writes, column by column.
LEMMA WrittenPiece ==
  ASSUME NEW r, NEW old, NEW new, IsPiece(r), IsPiece(old), IsPiece(new)
  PROVE  LET w == Written(r, old, new)
         IN  /\ IsPiece(w)
             /\ w.source_url = IF new.source_url # old.source_url THEN new.source_url ELSE r.source_url
             /\ w.download = IF new.download # old.download THEN new.download ELSE r.download
             /\ w.file = IF new.file # old.file THEN new.file ELSE r.file
             /\ w.extraction = IF new.extraction # old.extraction THEN new.extraction ELSE r.extraction
             /\ w.text = IF new.text # old.text THEN new.text ELSE r.text
<1> DEFINE w == Written(r, old, new)
<1>1. DOMAIN r = {"source_url", "download", "file", "extraction", "text"}
  BY DEF IsPiece
<1>2. w = [f \in {"source_url", "download", "file", "extraction", "text"} |->
             IF new[f] # old[f] THEN new[f] ELSE r[f]]
  BY <1>1 DEF Written
<1>3. /\ w.source_url = IF new.source_url # old.source_url THEN new.source_url ELSE r.source_url
      /\ w.download = IF new.download # old.download THEN new.download ELSE r.download
      /\ w.file = IF new.file # old.file THEN new.file ELSE r.file
      /\ w.extraction = IF new.extraction # old.extraction THEN new.extraction ELSE r.extraction
      /\ w.text = IF new.text # old.text THEN new.text ELSE r.text
  BY <1>2
<1>4. w = [source_url |-> w.source_url, download |-> w.download, file |-> w.file,
           extraction |-> w.extraction, text |-> w.text]
  BY <1>2
<1> HIDE DEF w
<1>5. /\ w.download \in {"pending", "done", "failed"}
      /\ w.file \in Files \union {"none"}
      /\ w.extraction \in {"pending", "done", "failed"}
      /\ w.text \in Readable \union {"none"}
  BY <1>3 DEF IsPiece
<1>6. IsPiece(w)
  BY <1>4, <1>5 DEF IsPiece
<1> QED
  BY <1>3, <1>6 DEF w

\* A commit of one who read the row as it is.
LEMMA WrittenFresh ==
  ASSUME NEW r, NEW new, IsPiece(r), IsPiece(new)
  PROVE  Written(r, r, new) = new
<1> DEFINE w == Written(r, r, new)
<1>1. IsPiece(w) /\ w.source_url = new.source_url /\ w.download = new.download /\ w.file = new.file
      /\ w.extraction = new.extraction /\ w.text = new.text
  BY WrittenPiece
<1> HIDE DEF w
<1>2. w = new
  BY <1>1 DEF IsPiece
<1> QED
  BY <1>2 DEF w

\* What a job may make of a piece.
Turns(old, new) ==
  /\ IsPiece(new) /\ new.source_url = old.source_url
  /\ Held(old) => Held(new)
  /\ InOrder(old) => InOrder(new)
  /\ Keeps(old, new)

\* A piece is fetched as long as it has not been.
LEMMA DownloadedTurns ==
  ASSUME NEW r, IsPiece(r), r.download # "done", NEW file \in Files \union {"none"}
  PROVE  Turns(r, Downloaded(r, file))
<1> DEFINE new == Downloaded(r, file)
<1>1. CASE file = "none"
  <2>1. new = [r EXCEPT !.download = "failed"]
    BY <1>1 DEF Downloaded
  <2>2. /\ IsPiece(new) /\ new.source_url = r.source_url /\ new.download = "failed"
        /\ new.file = r.file /\ new.extraction = r.extraction /\ new.text = r.text
    BY <2>1 DEF IsPiece
  <2> HIDE DEF new
  <2>3. Turns(r, new)
    BY <2>2 DEF Turns, Held, InOrder, Keeps
  <2> QED
    BY <2>3 DEF new
<1>2. CASE file # "none"
  <2>1. new = [r EXCEPT !.download = "done", !.file = file]
    BY <1>2 DEF Downloaded
  <2>2. /\ IsPiece(new) /\ new.source_url = r.source_url /\ new.download = "done"
        /\ new.file = file /\ new.extraction = r.extraction /\ new.text = r.text
    BY <2>1 DEF IsPiece
  <2> HIDE DEF new
  <2>3. Turns(r, new)
    BY <1>2, <2>2 DEF Turns, Held, InOrder, Keeps
  <2> QED
    BY <2>3 DEF new
<1> QED
  BY <1>1, <1>2

\* A piece is indexed once it has been fetched.
LEMMA IndexedTurns ==
  ASSUME NEW r, IsPiece(r), r.download = "done", NEW outcome \in Outcomes(r.file)
  PROVE  Turns(r, Indexed(r, outcome)) /\ Indexed(r, outcome).download = "done"
<1> DEFINE new == Indexed(r, outcome)
<1>1. outcome \in {"done", "failed"} /\ (outcome = "done" => r.file \in Readable /\ r.file # "none")
  BY DossierAssumption DEF Outcomes
<1>2. /\ IsPiece(new) /\ new.source_url = r.source_url /\ new.download = r.download
      /\ new.file = r.file /\ new.extraction = outcome
      /\ new.text = IF outcome = "done" THEN r.file ELSE r.text
  <2>1. CASE outcome = "done"
    <3>1. new = [r EXCEPT !.extraction = "done", !.text = r.file]
      BY <2>1 DEF Indexed
    <3> HIDE DEF new
    <3> QED
      BY <1>1, <2>1, <3>1 DEF IsPiece
  <2>2. CASE outcome # "done"
    <3>1. new = [r EXCEPT !.extraction = "failed"] /\ outcome = "failed"
      BY <1>1, <2>2 DEF Indexed
    <3> HIDE DEF new
    <3> QED
      BY <2>2, <3>1 DEF IsPiece
  <2> QED
    BY <2>1, <2>2
<1> HIDE DEF new
<1>3. Turns(r, new) /\ new.download = "done"
  BY <1>1, <1>2 DEF Turns, Held, InOrder, Keeps
<1> QED
  BY <1>3 DEF new

\* A commit takes the file of no piece, nor its text.
LEMMA WrittenHolds ==
  ASSUME NEW r, NEW old, NEW new, IsPiece(r), IsPiece(old), Turns(old, new), Held(r), Held(old), Keeps(old, r)
  PROVE  LET w == Written(r, old, new)
         IN  Held(w) /\ Keeps(r, w) /\ Keeps(new, w)
<1> DEFINE w == Written(r, old, new)
<1>1. IsPiece(new) /\ Held(new) /\ Keeps(old, new)
  BY DEF Turns
<1>2. /\ w.download = IF new.download # old.download THEN new.download ELSE r.download
      /\ w.file = IF new.file # old.file THEN new.file ELSE r.file
      /\ w.extraction = IF new.extraction # old.extraction THEN new.extraction ELSE r.extraction
      /\ w.text = IF new.text # old.text THEN new.text ELSE r.text
  BY <1>1, WrittenPiece
<1> HIDE DEF w
<1>3. Keeps(r, w) /\ Keeps(new, w)
  BY <1>1, <1>2 DEF Keeps
<1>4. Held(w)
  BY <1>1, <1>2, <1>3 DEF Held, Keeps
<1> QED
  BY <1>3, <1>4 DEF w

-----------------------------------------------------------------------------
(* The tender. *)

IsExtra(x) ==
  /\ x = [document_urls |-> x.document_urls, technologies |-> x.technologies,
          required_certifications |-> x.required_certifications, requested |-> x.requested,
          eligibility |-> x.eligibility]
  /\ IsFiniteSet(x.document_urls) /\ "" \notin x.document_urls
  /\ x.eligibility \subseteq Ratios

IsTender(t) ==
  /\ t = [deadline |-> t.deadline, reference |-> t.reference, extra |-> t.extra]
  /\ IsExtra(t.extra)

\* A session that is alone commits what it has.
LEMMA WrittenTender ==
  ASSUME NEW t, NEW old, NEW new, IsTender(t), IsTender(old), IsTender(new)
  PROVE  /\ IsTender(Written(t, old, new))
         /\ t = old => Written(t, old, new) = new
<1> DEFINE w == Written(t, old, new)
<1>1. DOMAIN t = {"deadline", "reference", "extra"}
  BY DEF IsTender
<1>2. w = [f \in {"deadline", "reference", "extra"} |-> IF new[f] # old[f] THEN new[f] ELSE t[f]]
  BY <1>1 DEF Written
<1>3. /\ w.deadline = IF new.deadline # old.deadline THEN new.deadline ELSE t.deadline
      /\ w.reference = IF new.reference # old.reference THEN new.reference ELSE t.reference
      /\ w.extra = IF new.extra # old.extra THEN new.extra ELSE t.extra
  BY <1>2
<1>4. w = [deadline |-> w.deadline, reference |-> w.reference, extra |-> w.extra]
  BY <1>2
<1> HIDE DEF w
<1>5. IsExtra(w.extra)
  BY <1>3 DEF IsTender
<1>6. IsTender(w)
  BY <1>4, <1>5 DEF IsTender
<1>7. ASSUME t = old PROVE w = new
  <2>1. w.deadline = new.deadline /\ w.reference = new.reference /\ w.extra = new.extra
    BY <1>3, <1>7
  <2>2. new = [deadline |-> new.deadline, reference |-> new.reference, extra |-> new.extra]
    BY DEF IsTender
  <2> QED
    BY <1>4, <2>1, <2>2
<1> QED
  BY <1>6, <1>7 DEF w

LEMMA CreatedTender ==
  ASSUME NEW n \in Notices
  PROVE  IsTender(Created(n)) /\ Created(n).extra.document_urls = n.urls
BY DossierAssumption DEF Created, IsTender, IsExtra

LEMMA MergedTender ==
  ASSUME NEW t, IsTender(t), NEW n \in Notices
  PROVE  /\ IsTender(Merged(t, n))
         /\ t.deadline # {} => Merged(t, n).deadline = t.deadline
         /\ t.reference # "" => Merged(t, n).reference = t.reference
         /\ Merged(t, n).extra.document_urls = t.extra.document_urls \union n.urls
         /\ t.extra.technologies \subseteq Merged(t, n).extra.technologies
         /\ t.extra.required_certifications \subseteq Merged(t, n).extra.required_certifications
         /\ Merged(t, n).extra.requested = t.extra.requested
         /\ Merged(t, n).extra.eligibility = t.extra.eligibility
<1> DEFINE x == t.extra
           urls == x.document_urls \union n.urls
           technologies == x.technologies \union n.technologies
           certifications == x.required_certifications \union n.required_certifications
           y == [x EXCEPT !.document_urls = urls, !.technologies = technologies,
                          !.required_certifications = certifications]
<1>1. IsExtra(x) /\ IsFiniteSet(n.urls) /\ "" \notin n.urls
  BY DossierAssumption DEF IsTender
<1>2. Merged(t, n) = [deadline |-> Filled(t.deadline, n.deadline, {}),
                      reference |-> Filled(t.reference, n.reference, ""), extra |-> y]
  BY DEF Merged
<1> HIDE DEF x
<1>a. DOMAIN x = {"document_urls", "technologies", "required_certifications", "requested", "eligibility"}
  BY <1>1 DEF IsExtra
<1> HIDE DEF urls, technologies, certifications
<1>3. /\ y.document_urls = urls /\ y.technologies = technologies
      /\ y.required_certifications = certifications
      /\ y.requested = x.requested /\ y.eligibility = x.eligibility
      /\ y = [document_urls |-> y.document_urls, technologies |-> y.technologies,
              required_certifications |-> y.required_certifications, requested |-> y.requested,
              eligibility |-> y.eligibility]
  <2>1. y = [f \in DOMAIN x |->
               CASE f = "document_urls" -> urls
                 [] f = "technologies" -> technologies
                 [] f = "required_certifications" -> certifications
                 [] f = "requested" -> x.requested
                 [] f = "eligibility" -> x.eligibility]
    BY <1>a
  <2> HIDE DEF y
  <2>2. DOMAIN y = {"document_urls", "technologies", "required_certifications", "requested", "eligibility"}
        /\ y = [f \in DOMAIN y |-> y[f]]
    BY <1>a, <2>1
  <2>3. /\ y.document_urls = urls /\ y.technologies = technologies
        /\ y.required_certifications = certifications
        /\ y.requested = x.requested /\ y.eligibility = x.eligibility
    BY <1>a, <2>1
  <2> QED
    BY <2>2, <2>3
<1> HIDE DEF y
<1>4. IsFiniteSet(urls)
  BY <1>1, FS_Union DEF IsExtra, urls
<1>5. IsExtra(y)
  <2>1. "" \notin y.document_urls /\ y.eligibility \subseteq Ratios
    BY <1>1, <1>3 DEF IsExtra, urls
  <2> QED
    BY <1>3, <1>4, <2>1 DEF IsExtra
<1> DEFINE m == Merged(t, n)
<1>b. m = [deadline |-> Filled(t.deadline, n.deadline, {}),
           reference |-> Filled(t.reference, n.reference, ""), extra |-> y]
  BY <1>2
<1> HIDE DEF m
<1>6. m = [deadline |-> m.deadline, reference |-> m.reference, extra |-> m.extra] /\ m.extra = y
      /\ m.deadline = Filled(t.deadline, n.deadline, {}) /\ m.reference = Filled(t.reference, n.reference, "")
  BY <1>b
<1>7. IsTender(m)
  BY <1>5, <1>6 DEF IsTender
<1> QED
  BY <1>3, <1>6, <1>7 DEF Filled, x, m, urls, technologies, certifications

LEMMA EnrichedTender ==
  ASSUME NEW t, IsTender(t), NEW r \in Readings
  PROVE  LET new == _enrich_tender(t, r)
         IN  /\ IsTender(new)
             /\ t.deadline # {} => new.deadline = t.deadline
             /\ t.reference # "" => new.reference = t.reference
             /\ new.extra.document_urls = t.extra.document_urls
             /\ new.extra.technologies = t.extra.technologies
             /\ new.extra.required_certifications = t.extra.required_certifications
             /\ new.extra.requested # "none"
             /\ new.extra.eligibility = t.extra.eligibility
<1> DEFINE x == t.extra
           y == [x EXCEPT !.requested = r.name]
<1>1. IsExtra(x) /\ r.name # "none"
  BY DossierAssumption DEF IsTender
<1>2. _enrich_tender(t, r) = [deadline |-> Filled(t.deadline, r.deadline, {}),
                              reference |-> Filled(t.reference, r.reference, ""), extra |-> y]
  BY DEF _enrich_tender
<1> HIDE DEF x
<1>a. DOMAIN x = {"document_urls", "technologies", "required_certifications", "requested", "eligibility"}
  BY <1>1 DEF IsExtra
<1>3. /\ y.document_urls = x.document_urls /\ y.technologies = x.technologies
      /\ y.required_certifications = x.required_certifications
      /\ y.requested = r.name /\ y.eligibility = x.eligibility
      /\ y = [document_urls |-> y.document_urls, technologies |-> y.technologies,
              required_certifications |-> y.required_certifications, requested |-> y.requested,
              eligibility |-> y.eligibility]
  BY <1>a
<1> HIDE DEF y
<1>4. IsExtra(y)
  BY <1>1, <1>3 DEF IsExtra
<1> DEFINE m == _enrich_tender(t, r)
<1>b. m = [deadline |-> Filled(t.deadline, r.deadline, {}),
           reference |-> Filled(t.reference, r.reference, ""), extra |-> y]
  BY <1>2
<1> HIDE DEF m
<1>5. m = [deadline |-> m.deadline, reference |-> m.reference, extra |-> m.extra] /\ m.extra = y
      /\ m.deadline = Filled(t.deadline, r.deadline, {}) /\ m.reference = Filled(t.reference, r.reference, "")
  BY <1>b
<1>6. IsTender(m)
  BY <1>4, <1>5 DEF IsTender
<1> QED
  BY <1>1, <1>3, <1>5, <1>6 DEF Filled, x, m

LEMMA RatedTender ==
  ASSUME NEW t, IsTender(t), NEW ratio \in Ratios
  PROVE  LET new == [t EXCEPT !.extra = [@ EXCEPT !.eligibility = {ratio}]]
         IN  /\ IsTender(new)
             /\ new.deadline = t.deadline /\ new.reference = t.reference
             /\ new.extra.document_urls = t.extra.document_urls
             /\ new.extra.technologies = t.extra.technologies
             /\ new.extra.required_certifications = t.extra.required_certifications
             /\ new.extra.requested = t.extra.requested
             /\ new.extra.eligibility # {}
<1> DEFINE x == t.extra
           y == [x EXCEPT !.eligibility = {ratio}]
           new == [t EXCEPT !.extra = y]
<1>1. IsExtra(x)
  BY DEF IsTender
<1> HIDE DEF x
<1>a. DOMAIN x = {"document_urls", "technologies", "required_certifications", "requested", "eligibility"}
  BY <1>1 DEF IsExtra
<1>b. /\ y.document_urls = x.document_urls /\ y.technologies = x.technologies
      /\ y.required_certifications = x.required_certifications
      /\ y.requested = x.requested /\ y.eligibility = {ratio}
      /\ y = [document_urls |-> y.document_urls, technologies |-> y.technologies,
              required_certifications |-> y.required_certifications, requested |-> y.requested,
              eligibility |-> y.eligibility]
  BY <1>a
<1> HIDE DEF y
<1>2. IsExtra(y) /\ y.eligibility # {}
  BY <1>1, <1>b DEF IsExtra
<1>3. /\ new.deadline = t.deadline /\ new.reference = t.reference /\ new.extra = y
      /\ new = [deadline |-> new.deadline, reference |-> new.reference, extra |-> new.extra]
  BY DEF IsTender
<1> HIDE DEF new
<1>4. IsTender(new)
  BY <1>2, <1>3 DEF IsTender
<1> QED
  BY <1>2, <1>b, <1>3, <1>4 DEF x, y, new

-----------------------------------------------------------------------------
(* New pieces. *)

LEMMA RegisteredRows ==
  ASSUME NEW rows, IsList(rows), NEW urls, IsFiniteSet(urls), NEW new \in Registered(rows, urls)
  PROVE  /\ IsList(new) /\ DOMAIN rows \subseteq DOMAIN new
         /\ \A d \in DOMAIN rows : new[d] = rows[d]
         /\ \A d \in DOMAIN new : d \notin DOMAIN rows => \E u \in urls : new[d] = TenderDocument(u)
         /\ \A c, d \in DOMAIN new :
              c \notin DOMAIN rows /\ d \notin DOMAIN rows /\ new[c].source_url = new[d].source_url => c = d
         /\ Urls(new) = Urls(rows) \union urls
<1> DEFINE n == Cardinality(urls)
<1>1. PICK order \in Bijection(1 .. n, urls) : new = rows \o [i \in DOMAIN order |-> TenderDocument(order[i])]
  BY DEF Registered
<1>2. /\ n \in Nat
      /\ DOMAIN order = 1 .. n
      /\ \A i \in 1 .. n : order[i] \in urls
      /\ \A i, j \in 1 .. n : order[i] = order[j] => i = j
      /\ \A u \in urls : \E i \in 1 .. n : order[i] = u
  <2>1. n \in Nat
    BY FS_CardinalityType
  <2> QED
    BY <2>1, Fun_BijectionProperties
<1>3. Len(rows) \in Nat /\ DOMAIN rows = 1 .. Len(rows)
  BY ListDomain
<1> DEFINE more == [i \in 1 .. n |-> TenderDocument(order[i])]
<1> HIDE DEF n
<1>4. IsList(more) /\ Len(more) = n /\ new = rows \o more
  BY <1>1, <1>2, ListOf DEF n
<1>5. \A i \in 1 .. n : more[i] = TenderDocument(order[i]) /\ more[i].source_url = order[i]
  BY NewPiece
<1> HIDE DEF more
<1>6. /\ IsList(new) /\ Len(new) = Len(rows) + n
      /\ \A d \in 1 .. Len(rows) : new[d] = rows[d]
      /\ \A d \in Len(rows) + 1 .. Len(rows) + n : new[d] = more[d - Len(rows)]
  BY <1>4, ListConcat
<1>7. DOMAIN new = 1 .. Len(rows) + n
  BY <1>6, ListDomain
<1>8. ASSUME NEW d \in DOMAIN new, d \notin DOMAIN rows
      PROVE  d - Len(rows) \in 1 .. n /\ new[d] = TenderDocument(order[d - Len(rows)])
             /\ new[d].source_url = order[d - Len(rows)]
  <2>1. d \in Len(rows) + 1 .. Len(rows) + n /\ d - Len(rows) \in 1 .. n
    BY <1>2, <1>3, <1>7, <1>8
  <2> QED
    BY <1>5, <1>6, <2>1
<1>9. DOMAIN rows \subseteq DOMAIN new /\ \A d \in DOMAIN rows : new[d] = rows[d]
  BY <1>2, <1>3, <1>6, <1>7
<1>10. \A d \in DOMAIN new : d \notin DOMAIN rows => \E u \in urls : new[d] = TenderDocument(u)
  BY <1>2, <1>8
<1>11. ASSUME NEW c \in DOMAIN new, NEW d \in DOMAIN new, c \notin DOMAIN rows, d \notin DOMAIN rows,
              new[c].source_url = new[d].source_url
       PROVE  c = d
  <2>1. c - Len(rows) = d - Len(rows)
    BY <1>2, <1>8, <1>11
  <2>2. c \in Int /\ d \in Int
    BY <1>2, <1>3, <1>7
  <2> QED
    BY <1>3, <2>1, <2>2
<1>12. Urls(new) = Urls(rows) \union urls
  <2>1. ASSUME NEW d \in DOMAIN new PROVE new[d].source_url \in Urls(rows) \union urls
    <3>1. CASE d \in DOMAIN rows
      BY <1>9, <3>1 DEF Urls
    <3>2. CASE d \notin DOMAIN rows
      BY <1>2, <1>8, <3>2
    <3> QED
      BY <3>1, <3>2
  <2>2. \A d \in DOMAIN rows : rows[d].source_url \in Urls(new)
    BY <1>9 DEF Urls
  <2>3. ASSUME NEW u \in urls PROVE u \in Urls(new)
    <3>1. PICK i \in 1 .. n : order[i] = u
      BY <1>2
    <3>2. /\ Len(rows) + i \in Len(rows) + 1 .. Len(rows) + n /\ (Len(rows) + i) - Len(rows) = i
          /\ Len(rows) + i \in 1 .. Len(rows) + n
      BY <1>2, <1>3, <3>1
    <3>3. new[Len(rows) + i] = more[i] /\ Len(rows) + i \in DOMAIN new
      BY <1>6, <1>7, <3>2
    <3> QED
      BY <1>5, <3>1, <3>3 DEF Urls
  <2> QED
    BY <2>1, <2>2, <2>3 DEF Urls
<1> QED
  BY <1>6, <1>9, <1>10, <1>11, <1>12

-----------------------------------------------------------------------------
(* What the sessions hold. *)

IsMerge(h) ==
  /\ h = [pc |-> "merge", tender |-> h.tender, notice |-> h.notice, known |-> h.known]
  /\ IsTender(h.tender) /\ h.notice \in Notices

IsJob(h) ==
  /\ h = [pc |-> h.pc, tender |-> h.tender, purpose |-> h.purpose, known |-> h.known, todo |-> h.todo]
  /\ h.pc \in {"download", "index"} /\ h.purpose \in {"fetch", "analyze"}
  /\ IsTender(h.tender)
  /\ h.known = [d \in DOMAIN h.known |-> h.known[d]]
  /\ \A d \in DOMAIN h.known : IsPiece(h.known[d])
  /\ h.todo \subseteq DOMAIN h.known
  /\ \A d \in h.todo : h.known[d].download = "done" <=> h.pc = "index"

IsShort(h) ==
  /\ h = [pc |-> h.pc, tender |-> h.tender]
  /\ h.pc \in {"evaluate", "score"}
  /\ IsTender(h.tender)

\* h is what a session may hold when these pieces exist.
MayHold(h, ids) ==
  \/ h = Closed
  \/ IsMerge(h)
  \/ IsJob(h) /\ DOMAIN h.known \subseteq ids
  \/ IsShort(h)

Typed ==
  /\ IsTender(tender)
  /\ IsList(pieces) /\ \A d \in DOMAIN pieces : IsPiece(pieces[d])
  /\ analysis \in {r.name : r \in Readings} \union {"none"}
  /\ score = {} \/ \E x : score = {x}
  /\ session = [s \in Sessions |-> session[s]]
  /\ \A s \in Sessions : MayHold(session[s], DOMAIN pieces)
  /\ due \in BOOLEAN /\ overlapped \in BOOLEAN

LEMMA Stages ==
  ASSUME NEW h
  PROVE  /\ h = Closed => h.pc = "closed"
         /\ IsMerge(h) => h.pc = "merge"
         /\ IsJob(h) => h.pc \in {"download", "index"}
         /\ IsShort(h) => h.pc \in {"evaluate", "score"}
<1>1. h = Closed => h.pc = "closed"
  BY DEF Closed
<1>2. IsMerge(h) => h.pc = "merge"
  BY DEF IsMerge
<1>3. IsJob(h) => h.pc \in {"download", "index"}
  BY DEF IsJob
<1>4. IsShort(h) => h.pc \in {"evaluate", "score"}
  BY DEF IsShort
<1> QED
  BY <1>1, <1>2, <1>3, <1>4

LEMMA MergeHolds ==
  ASSUME Typed, NEW s \in Sessions, session[s].pc = "merge"
  PROVE  IsMerge(session[s])
BY Stages DEF Typed, MayHold

LEMMA JobHolds ==
  ASSUME Typed, NEW s \in Sessions, session[s].pc \in {"download", "index"}
  PROVE  IsJob(session[s]) /\ DOMAIN session[s].known \subseteq DOMAIN pieces
BY Stages DEF Typed, MayHold

LEMMA ShortHolds ==
  ASSUME Typed, NEW s \in Sessions, session[s].pc \in {"evaluate", "score"}
  PROVE  IsShort(session[s])
BY Stages DEF Typed, MayHold

LEMMA SessionsStep ==
  ASSUME Typed, NEW s \in Sessions, NEW h, session' = [session EXCEPT ![s] = h]
  PROVE  /\ session' = [r \in Sessions |-> session'[r]]
         /\ session'[s] = h
         /\ \A r \in Sessions : r # s => session'[r] = session[r]
BY DEF Typed

\* A session goes on: the others hold what they held.
LEMMA HoldsStep ==
  ASSUME Typed, DOMAIN pieces \subseteq DOMAIN pieces', NEW s \in Sessions, NEW h,
         session' = [session EXCEPT ![s] = h], MayHold(h, DOMAIN pieces')
  PROVE  /\ session' = [r \in Sessions |-> session'[r]]
         /\ \A r \in Sessions : MayHold(session'[r], DOMAIN pieces')
<1>1. /\ session' = [r \in Sessions |-> session'[r]]
      /\ session'[s] = h
      /\ \A r \in Sessions : r # s => session'[r] = session[r]
  BY SessionsStep
<1> QED
  BY <1>1 DEF Typed, MayHold

\* A session opens with h, or goes on with it, or ends; the rows stay.
LEMMA TypedElsewhere ==
  ASSUME Typed, NEW s \in Sessions, NEW h, session' = [session EXCEPT ![s] = h],
         MayHold(h, DOMAIN pieces), pieces' = pieces, IsTender(tender'),
         analysis' \in {r.name : r \in Readings} \union {"none"},
         score' = score \/ \E x : score' = {x},
         due' \in BOOLEAN, overlapped' \in BOOLEAN
  PROVE  Typed'
<1>1. DOMAIN pieces' = DOMAIN pieces
  OBVIOUS
<1>2. /\ session' = [r \in Sessions |-> session'[r]]
      /\ \A r \in Sessions : MayHold(session'[r], DOMAIN pieces')
  BY <1>1, HoldsStep
<1> QED
  BY <1>2 DEF Typed

-----------------------------------------------------------------------------
(* The steps of a job. *)

\* Job s commits these rows and holds h.
Advances(s, rows, h) ==
  /\ IsJob(session[s]) /\ DOMAIN session[s].known \subseteq DOMAIN pieces
  /\ DOMAIN rows \subseteq DOMAIN session[s].known
  /\ \A d \in DOMAIN rows : Turns(session[s].known[d], rows[d])
  /\ WritePieces(s, rows)
  /\ IsJob(h) /\ h.tender = session[s].tender /\ DOMAIN h.known = DOMAIN session[s].known
  /\ \A d \in DOMAIN h.known : h.known[d] = IF d \in DOMAIN rows THEN rows[d] ELSE session[s].known[d]
  /\ session' = [session EXCEPT ![s] = h]

LEMMA PiecesStep ==
  ASSUME Typed, NEW s \in Sessions, NEW rows, NEW h, Advances(s, rows, h)
  PROVE  /\ IsList(pieces') /\ DOMAIN pieces' = DOMAIN pieces
         /\ \A d \in DOMAIN rows :
              d \in DOMAIN pieces /\ pieces'[d] = Written(pieces[d], session[s].known[d], rows[d])
         /\ \A d \in DOMAIN pieces : d \notin DOMAIN rows => pieces'[d] = pieces[d]
         /\ \A d \in DOMAIN pieces : IsPiece(pieces'[d]) /\ pieces'[d].source_url = pieces[d].source_url
<1> DEFINE known == session[s].known
<1>1. /\ DOMAIN rows \subseteq DOMAIN known /\ DOMAIN known \subseteq DOMAIN pieces
      /\ \A d \in DOMAIN rows : Turns(known[d], rows[d]) /\ IsPiece(known[d])
      /\ pieces' = [d \in DOMAIN pieces |->
           IF d \in DOMAIN rows THEN Written(pieces[d], known[d], rows[d]) ELSE pieces[d]]
  BY DEF Advances, WritePieces, IsJob
<1>2. Len(pieces) \in Nat /\ DOMAIN pieces = 1 .. Len(pieces)
  BY ListDomain DEF Typed
<1> HIDE DEF known
<1>3. /\ DOMAIN pieces' = DOMAIN pieces
      /\ \A d \in DOMAIN rows : d \in DOMAIN pieces /\ pieces'[d] = Written(pieces[d], known[d], rows[d])
      /\ \A d \in DOMAIN pieces : d \notin DOMAIN rows => pieces'[d] = pieces[d]
      /\ pieces' = [d \in DOMAIN pieces |-> pieces'[d]]
  BY <1>1
<1>4. IsList(pieces')
  BY <1>2, <1>3, ListOf
<1>5. ASSUME NEW d \in DOMAIN pieces
      PROVE  IsPiece(pieces'[d]) /\ pieces'[d].source_url = pieces[d].source_url
  <2>1. IsPiece(pieces[d])
    BY DEF Typed
  <2>2. CASE d \in DOMAIN rows
    <3>1. IsPiece(known[d]) /\ IsPiece(rows[d]) /\ rows[d].source_url = known[d].source_url
      BY <1>1, <2>2 DEF Turns
    <3> QED
      BY <1>3, <2>1, <2>2, <3>1, WrittenPiece
  <2>3. CASE d \notin DOMAIN rows
    BY <1>3, <2>1, <2>3
  <2> QED
    BY <2>2, <2>3
<1> QED
  BY <1>3, <1>4, <1>5 DEF known

\* What job g holds once it has a new row for one piece.
AfterOne(g, d, new, pc, purpose) == Job(pc, g.tender, purpose, [g.known EXCEPT ![d] = new], g.todo \ {d})

LEMMA JobRow ==
  ASSUME NEW g, IsJob(g), NEW d \in DOMAIN g.known, NEW new, IsPiece(new),
         NEW pc, g.pc = pc, NEW purpose \in {"fetch", "analyze"}
  PROVE  LET h == AfterOne(g, d, new, pc, purpose)
         IN  /\ IsJob(h) /\ h.tender = g.tender /\ DOMAIN h.known = DOMAIN g.known
             /\ \A e \in DOMAIN h.known : h.known[e] = IF e = d THEN new ELSE g.known[e]
<1> DEFINE h == AfterOne(g, d, new, pc, purpose)
           known == [g.known EXCEPT ![d] = new]
           todo == g.todo \ {d}
<1>1. g.known = [e \in DOMAIN g.known |-> g.known[e]] /\ (\A e \in DOMAIN g.known : IsPiece(g.known[e]))
      /\ IsTender(g.tender) /\ todo \subseteq DOMAIN g.known /\ d \notin todo
      /\ pc \in {"download", "index"} /\ (\A e \in todo : g.known[e].download = "done" <=> pc = "index")
  BY DEF IsJob
<1>2. /\ DOMAIN known = DOMAIN g.known
      /\ \A e \in DOMAIN known : known[e] = IF e = d THEN new ELSE g.known[e]
      /\ known = [e \in DOMAIN known |-> known[e]]
  BY <1>1
<1> HIDE DEF known, todo
<1>3. /\ h = [pc |-> h.pc, tender |-> h.tender, purpose |-> h.purpose, known |-> h.known, todo |-> h.todo]
      /\ h.pc = pc /\ h.tender = g.tender /\ h.purpose = purpose /\ h.known = known /\ h.todo = todo
  <2>1. h = [pc |-> pc, tender |-> g.tender, purpose |-> purpose, known |-> known, todo |-> todo]
    BY DEF AfterOne, Job, known, todo
  <2> HIDE DEF h
  <2> QED
    BY <2>1
<1> HIDE DEF h
<1>4. \A e \in DOMAIN known : IsPiece(known[e])
  BY <1>1, <1>2
<1>5. IsJob(h)
  <2>1. \A e \in todo : known[e].download = "done" <=> pc = "index"
    BY <1>1, <1>2
  <2> QED
    BY <1>1, <1>2, <1>3, <1>4, <2>1 DEF IsJob
<1>6. \A e \in DOMAIN h.known : h.known[e] = IF e = d THEN new ELSE g.known[e]
  BY <1>2, <1>3
<1> QED
  BY <1>2, <1>3, <1>5, <1>6 DEF h

LEMMA DownloadOneAdvances ==
  ASSUME Typed, NEW s \in Sessions, NEW d \in Todo(s), NEW file \in Files \union {"none"}, DownloadOne(s, d, file)
  PROVE  \E rows, h : Advances(s, rows, h)
<1> DEFINE g == session[s]
           row == Downloaded(g.known[d], file)
           rows == [e \in {d} |-> row]
           h == AfterOne(g, d, row, "download", "fetch")
<1>1. g.pc = "download" /\ WritePieces(s, rows) /\ session' = [session EXCEPT ![s] = h]
  BY DEF DownloadOne, GoesOn, AfterOne
<1>2. IsJob(g) /\ DOMAIN g.known \subseteq DOMAIN pieces /\ d \in g.todo
  BY <1>1, JobHolds DEF Todo
<1>3. d \in DOMAIN g.known /\ IsPiece(g.known[d]) /\ g.known[d].download # "done"
  BY <1>1, <1>2 DEF IsJob
<1>4. Turns(g.known[d], row)
  BY <1>3, DownloadedTurns
<1> HIDE DEF row
<1>5. IsPiece(row)
  BY <1>4 DEF Turns
<1>6. /\ IsJob(h) /\ h.tender = g.tender /\ DOMAIN h.known = DOMAIN g.known
      /\ \A e \in DOMAIN h.known : h.known[e] = IF e \in DOMAIN rows THEN rows[e] ELSE g.known[e]
  <2>1. h = AfterOne(g, d, row, "download", "fetch") /\ DOMAIN rows = {d} /\ rows[d] = row
    OBVIOUS
  <2> HIDE DEF h, rows, g
  <2>2. /\ IsJob(h) /\ h.tender = g.tender /\ DOMAIN h.known = DOMAIN g.known
        /\ \A e \in DOMAIN h.known : h.known[e] = IF e = d THEN row ELSE g.known[e]
    BY <1>1, <1>2, <1>3, <1>5, <2>1, JobRow
  <2> QED
    BY <2>1, <2>2
<1> HIDE DEF h
<1>7. DOMAIN rows \subseteq DOMAIN g.known /\ \A e \in DOMAIN rows : Turns(g.known[e], rows[e])
  BY <1>3, <1>4
<1> HIDE DEF rows
<1>8. Advances(s, rows, h)
  BY <1>1, <1>2, <1>6, <1>7 DEF Advances
<1> QED
  BY <1>8

LEMMA IndexOneAdvances ==
  ASSUME Typed, NEW s \in Sessions, NEW d \in Todo(s), NEW outcome \in {"done", "failed"}, IndexOne(s, d, outcome)
  PROVE  \E rows, h : Advances(s, rows, h)
<1> DEFINE g == session[s]
           row == Indexed(g.known[d], outcome)
           rows == [e \in {d} |-> row]
           h == AfterOne(g, d, row, "index", "analyze")
<1>1. g.pc = "index" /\ WritePieces(s, rows) /\ session' = [session EXCEPT ![s] = h]
      /\ outcome \in Outcomes(g.known[d].file)
  BY DEF IndexOne, GoesOn, AfterOne
<1>2. IsJob(g) /\ DOMAIN g.known \subseteq DOMAIN pieces /\ d \in g.todo
  BY <1>1, JobHolds DEF Todo
<1>3. d \in DOMAIN g.known /\ IsPiece(g.known[d]) /\ g.known[d].download = "done"
  BY <1>1, <1>2 DEF IsJob
<1>4. Turns(g.known[d], row)
  BY <1>1, <1>3, IndexedTurns
<1> HIDE DEF row
<1>5. IsPiece(row)
  BY <1>4 DEF Turns
<1>6. /\ IsJob(h) /\ h.tender = g.tender /\ DOMAIN h.known = DOMAIN g.known
      /\ \A e \in DOMAIN h.known : h.known[e] = IF e \in DOMAIN rows THEN rows[e] ELSE g.known[e]
  <2>1. h = AfterOne(g, d, row, "index", "analyze") /\ DOMAIN rows = {d} /\ rows[d] = row
    OBVIOUS
  <2> HIDE DEF h, rows, g
  <2>2. /\ IsJob(h) /\ h.tender = g.tender /\ DOMAIN h.known = DOMAIN g.known
        /\ \A e \in DOMAIN h.known : h.known[e] = IF e = d THEN row ELSE g.known[e]
    BY <1>1, <1>2, <1>3, <1>5, <2>1, JobRow
  <2> QED
    BY <2>1, <2>2
<1> HIDE DEF h
<1>7. DOMAIN rows \subseteq DOMAIN g.known /\ \A e \in DOMAIN rows : Turns(g.known[e], rows[e])
  BY <1>3, <1>4
<1> HIDE DEF rows
<1>8. Advances(s, rows, h)
  BY <1>1, <1>2, <1>6, <1>7 DEF Advances
<1> QED
  BY <1>8

LEMMA DownloadAllAdvances ==
  ASSUME Typed, NEW s \in Sessions, NEW files \in [Todo(s) -> Files \union {"none"}], DownloadAll(s, files)
  PROVE  \E rows, h : Advances(s, rows, h)
<1> DEFINE g == session[s]
           rows == [d \in DOMAIN g.known |->
             IF d \in Todo(s) THEN Downloaded(g.known[d], files[d]) ELSE g.known[d]]
           h == Job("index", g.tender, "analyze", rows, ToIndex(rows))
<1>1. g.pc = "download" /\ WritePieces(s, rows) /\ session' = [session EXCEPT ![s] = h]
  BY DEF DownloadAll, GoesOn
<1>2. IsJob(g) /\ DOMAIN g.known \subseteq DOMAIN pieces
  BY <1>1, JobHolds
<1>3. \A d \in DOMAIN g.known : IsPiece(g.known[d]) /\ (d \in Todo(s) => g.known[d].download # "done")
  BY <1>1, <1>2 DEF IsJob, Todo
<1>4. ASSUME NEW d \in DOMAIN g.known PROVE Turns(g.known[d], rows[d])
  <2>1. CASE d \in Todo(s)
    <3>1. rows[d] = Downloaded(g.known[d], files[d]) /\ files[d] \in Files \union {"none"}
      BY <2>1
    <3> QED
      BY <1>3, <2>1, <3>1, DownloadedTurns
  <2>2. CASE d \notin Todo(s)
    BY <1>3, <2>2 DEF Turns, Keeps
  <2> QED
    BY <2>1, <2>2
<1>5. DOMAIN rows = DOMAIN g.known /\ rows = [d \in DOMAIN rows |-> rows[d]] /\ ToIndex(rows) \subseteq DOMAIN rows
      /\ \A d \in ToIndex(rows) : rows[d].download = "done"
  BY DEF ToIndex
<1> HIDE DEF rows
<1>6. \A d \in DOMAIN rows : IsPiece(rows[d])
  BY <1>4, <1>5 DEF Turns
<1>7. /\ h = [pc |-> h.pc, tender |-> h.tender, purpose |-> h.purpose, known |-> h.known, todo |-> h.todo]
      /\ h.pc = "index" /\ h.tender = g.tender /\ h.purpose = "analyze" /\ h.known = rows
      /\ h.todo = ToIndex(rows)
  BY DEF Job
<1> HIDE DEF h
<1>8. IsJob(h)
  BY <1>2, <1>5, <1>6, <1>7 DEF IsJob
<1>9. Advances(s, rows, h)
  BY <1>1, <1>2, <1>4, <1>5, <1>7, <1>8 DEF Advances
<1> QED
  BY <1>9

-----------------------------------------------------------------------------
(* The other steps. *)

LEMMA MergeStep ==
  ASSUME Typed, NEW s \in Sessions, Merge(s)
  PROVE  LET h == session[s]
             urls == Announced(h.known, h.notice.urls)
         IN  /\ IsMerge(h) /\ IsFiniteSet(urls) /\ "" \notin urls
             /\ IsTender(Merged(h.tender, h.notice))
             /\ tender' = Written(tender, h.tender, Merged(h.tender, h.notice)) /\ IsTender(tender')
             /\ pieces' \in Registered(pieces, urls) /\ session' = [session EXCEPT ![s] = Closed]
<1> DEFINE h == session[s]
           urls == Announced(h.known, h.notice.urls)
           new == Merged(h.tender, h.notice)
<1>1. IsMerge(h)
  BY MergeHolds DEF Merge
<1>2. IsTender(h.tender) /\ h.notice \in Notices
  BY <1>1 DEF IsMerge
<1>3. IsFiniteSet(urls) /\ "" \notin urls
  <2>1. IsFiniteSet(h.notice.urls) /\ "" \notin h.notice.urls
    BY <1>2, DossierAssumption
  <2>2. urls \subseteq h.notice.urls
    BY DEF Announced
  <2> QED
    BY <2>1, <2>2, FS_Subset
<1>4. IsTender(new)
  BY <1>2, MergedTender
<1>5. tender' = Written(tender, h.tender, new) /\ pieces' \in Registered(pieces, urls)
      /\ session' = [session EXCEPT ![s] = Closed]
  BY DEF Merge, WriteTender, Close, GoesOn
<1>6. IsTender(tender')
  BY <1>2, <1>4, <1>5, WrittenTender DEF Typed
<1> QED
  BY <1>1, <1>3, <1>4, <1>5, <1>6

LEMMA OpenDownloadStep ==
  ASSUME Typed, NEW s \in Sessions, NEW purpose \in {"fetch", "analyze"}, OpenDownload(s, purpose)
  PROVE  LET urls == tender.extra.document_urls \ Urls(pieces)
             h == session'[s]
         IN  /\ IsFiniteSet(urls) /\ "" \notin urls
             /\ pieces' \in Registered(pieces, urls)
             /\ IsJob(h) /\ h.tender = tender /\ h.known = pieces'
             /\ session' = [session EXCEPT ![s] = h]
<1> DEFINE urls == tender.extra.document_urls \ Urls(pieces)
           h == Job("download", tender, purpose, pieces', ToFetch(pieces'))
<1>1. pieces' \in Registered(pieces, urls) /\ session' = [session EXCEPT ![s] = h]
  BY DEF OpenDownload, register_urls, Open, GoesOn
<1>2. IsFiniteSet(urls) /\ "" \notin urls
  <2>1. IsFiniteSet(tender.extra.document_urls) /\ "" \notin tender.extra.document_urls
    BY DEF Typed, IsTender, IsExtra
  <2> QED
    BY <2>1, FS_Subset
<1>3. IsList(pieces) /\ \A d \in DOMAIN pieces : IsPiece(pieces[d])
  BY DEF Typed
<1> HIDE DEF urls
<1>4. /\ IsList(pieces')
      /\ \A d \in DOMAIN pieces : pieces'[d] = pieces[d]
      /\ \A d \in DOMAIN pieces' : d \notin DOMAIN pieces => \E u \in urls : pieces'[d] = TenderDocument(u)
  BY <1>1, <1>2, <1>3, RegisteredRows
<1>5. \A d \in DOMAIN pieces' : IsPiece(pieces'[d])
  BY <1>3, <1>4, NewPiece
<1>6. pieces' = [d \in DOMAIN pieces' |-> pieces'[d]]
  BY <1>4, ListDomain
<1>7. ToFetch(pieces') \subseteq DOMAIN pieces' /\ \A d \in ToFetch(pieces') : pieces'[d].download # "done"
  BY DEF ToFetch
<1>8. /\ h = [pc |-> h.pc, tender |-> h.tender, purpose |-> h.purpose, known |-> h.known, todo |-> h.todo]
      /\ h.pc = "download" /\ h.tender = tender /\ h.purpose = purpose /\ h.known = pieces'
      /\ h.todo = ToFetch(pieces')
  BY DEF Job
<1>9. session'[s] = h
  BY <1>1, SessionsStep
<1> HIDE DEF h
<1>10. IsJob(h)
  BY <1>5, <1>6, <1>7, <1>8 DEF IsJob, Typed
<1> QED
  BY <1>1, <1>2, <1>8, <1>9, <1>10 DEF urls

LEMMA UploadStep ==
  ASSUME Typed, NEW file \in Files, upload_manual(file)
  PROVE  /\ IsList(pieces') /\ DOMAIN pieces \subseteq DOMAIN pieces'
         /\ \A d \in DOMAIN pieces : pieces'[d] = pieces[d]
         /\ \A d \in DOMAIN pieces' : d \notin DOMAIN pieces =>
              IsPiece(pieces'[d]) /\ Held(pieces'[d]) /\ InOrder(pieces'[d]) /\ pieces'[d].source_url = ""
<1> DEFINE r == [TenderDocument("") EXCEPT !.download = "done", !.file = file]
           more == <<r>>
<1>1. pieces' = pieces \o more
  BY DEF upload_manual
<1>2. IsPiece(r) /\ Held(r) /\ InOrder(r) /\ r.source_url = ""
  <2> DEFINE t == TenderDocument("")
             new == [t EXCEPT !.download = "done", !.file = file]
  <2>1. t = [source_url |-> t.source_url, download |-> t.download, file |-> t.file, extraction |-> t.extraction,
             text |-> t.text]
        /\ t.source_url = "" /\ t.extraction = "pending" /\ t.text = "none"
    BY DEF TenderDocument
  <2>2. r = new /\ file # "none"
    BY DossierAssumption
  <2> HIDE DEF t, r
  <2>3. new.source_url = "" /\ new.download = "done" /\ new.file = file /\ new.extraction = "pending"
        /\ new.text = "none"
        /\ new = [source_url |-> new.source_url, download |-> new.download, file |-> new.file,
                  extraction |-> new.extraction, text |-> new.text]
    <3>1. DOMAIN t = {"source_url", "download", "file", "extraction", "text"}
      BY <2>1
    <3>2. new = [f \in DOMAIN t |-> CASE f = "source_url" -> t.source_url
                                     [] f = "download" -> "done"
                                     [] f = "file" -> file
                                     [] f = "extraction" -> t.extraction
                                     [] f = "text" -> t.text]
      BY <3>1
    <3> HIDE DEF new
    <3>3. new.source_url = "" /\ new.download = "done" /\ new.file = file /\ new.extraction = "pending"
          /\ new.text = "none"
      BY <2>1, <3>1, <3>2
    <3>4. DOMAIN new = {"source_url", "download", "file", "extraction", "text"} /\ new = [f \in DOMAIN new |-> new[f]]
      BY <3>1, <3>2
    <3> QED
      BY <3>3, <3>4
  <2> HIDE DEF new
  <2>4. r.source_url = "" /\ r.download = "done" /\ r.file = file /\ r.extraction = "pending"
        /\ r.text = "none"
        /\ r = [source_url |-> r.source_url, download |-> r.download, file |-> r.file,
                extraction |-> r.extraction, text |-> r.text]
    BY <2>2, <2>3
  <2>5. IsPiece(r)
    BY <2>4 DEF IsPiece
  <2> QED
    BY <2>2, <2>4, <2>5 DEF Held, InOrder
<1> HIDE DEF r
<1>3. IsList(more) /\ Len(more) = 1 /\ more[1] = r
  <2>1. more \in Seq({r}) /\ Len(more) = 1 /\ more[1] = r
    OBVIOUS
  <2> QED
    BY <2>1 DEF IsList
<1> HIDE DEF more
<1>4. IsList(pieces) /\ Len(pieces) \in Nat /\ DOMAIN pieces = 1 .. Len(pieces)
  BY ListDomain DEF Typed
<1>5. /\ IsList(pieces') /\ Len(pieces') = Len(pieces) + 1
      /\ \A d \in 1 .. Len(pieces) : pieces'[d] = pieces[d]
      /\ \A d \in Len(pieces) + 1 .. Len(pieces) + 1 : pieces'[d] = more[d - Len(pieces)]
  <2>1. /\ IsList(pieces \o more) /\ Len(pieces \o more) = Len(pieces) + Len(more)
        /\ \A d \in 1 .. Len(pieces) : (pieces \o more)[d] = pieces[d]
        /\ \A d \in Len(pieces) + 1 .. Len(pieces) + Len(more) : (pieces \o more)[d] = more[d - Len(pieces)]
    BY <1>3, <1>4, ListConcat
  <2> QED
    BY <1>1, <1>3, <2>1
<1>6. DOMAIN pieces' = 1 .. Len(pieces) + 1
  BY <1>5, ListDomain
<1>7. ASSUME NEW d \in DOMAIN pieces', d \notin DOMAIN pieces PROVE pieces'[d] = r
  <2>1. d = Len(pieces) + 1 /\ d - Len(pieces) = 1
    BY <1>4, <1>6, <1>7
  <2> QED
    BY <1>3, <1>4, <1>5, <2>1
<1>8. DOMAIN pieces \subseteq DOMAIN pieces'
  BY <1>4, <1>6
<1>9. \A d \in DOMAIN pieces : pieces'[d] = pieces[d]
  BY <1>4, <1>5
<1>10. \A d \in DOMAIN pieces' : d \notin DOMAIN pieces =>
         IsPiece(pieces'[d]) /\ Held(pieces'[d]) /\ InOrder(pieces'[d]) /\ pieces'[d].source_url = ""
  BY <1>2, <1>7
<1> QED
  BY <1>5, <1>8, <1>9, <1>10

LEMMA AnalyzeStep ==
  ASSUME Typed, NEW s \in Sessions, NEW r \in Readings, analyze(s, r)
  PROVE  LET old == session[s].tender
             new == _enrich_tender(old, r)
             h == [pc |-> "evaluate", tender |-> new]
         IN  /\ IsTender(old) /\ IsTender(new) /\ IsShort(h)
             /\ tender' = Written(tender, old, new) /\ IsTender(tender')
             /\ session' = [session EXCEPT ![s] = h]
<1> DEFINE old == session[s].tender
           new == _enrich_tender(old, r)
           h == [pc |-> "evaluate", tender |-> new]
<1>1. tender' = Written(tender, old, new) /\ session' = [session EXCEPT ![s] = h] /\ session[s].pc = "index"
  BY DEF analyze, WriteTender, GoesOn
<1>2. IsTender(old)
  BY <1>1, JobHolds DEF IsJob
<1>3. IsTender(new)
  BY <1>2, EnrichedTender
<1> HIDE DEF new
<1>4. IsShort(h)
  BY <1>3 DEF IsShort
<1>5. IsTender(tender')
  BY <1>1, <1>2, <1>3, WrittenTender DEF Typed
<1> QED
  BY <1>1, <1>2, <1>3, <1>4, <1>5 DEF new

LEMMA RefreshStep ==
  ASSUME Typed, NEW s \in Sessions, NEW ratio \in Ratios, refresh(s, ratio)
  PROVE  LET old == session[s].tender
             new == [old EXCEPT !.extra = [@ EXCEPT !.eligibility = {ratio}]]
         IN  /\ IsTender(old) /\ IsTender(new)
             /\ tender' = Written(tender, old, new) /\ IsTender(tender')
             /\ score' \in Scores(new)
             /\ session' = [session EXCEPT ![s] = Closed]
<1> DEFINE old == session[s].tender
           new == [old EXCEPT !.extra = [@ EXCEPT !.eligibility = {ratio}]]
<1>1. tender' = Written(tender, old, new) /\ session' = [session EXCEPT ![s] = Closed]
      /\ session[s].pc = "evaluate" /\ score' \in Scores(new)
  BY DEF refresh, WriteTender, Close, GoesOn, Rated
<1>2. IsTender(old)
  BY <1>1, ShortHolds DEF IsShort
<1>3. IsTender(new)
  BY <1>2, RatedTender
<1> HIDE DEF new
<1>5. IsTender(tender')
  BY <1>1, <1>2, <1>3, WrittenTender DEF Typed
<1> QED
  BY <1>1, <1>2, <1>3, <1>5 DEF new

LEMMA ScoreOf ==
  ASSUME NEW t, NEW x \in Scores(t)
  PROVE  \E y : x = {y} /\ y.breakdown = breakdown(Scored(t), Company, Profile)
<1> DEFINE b == breakdown(Scored(t), Company, Profile)
<1>1. PICK total \in Totals(b), a \in Adjustments \union {0} :
        x = {[breakdown |-> b, total |-> Adjusted(total, a)]}
  BY DEF Scores
<1> HIDE DEF b
<1> DEFINE y == [breakdown |-> b, total |-> Adjusted(total, a)]
<1>2. x = {y} /\ y.breakdown = b
  BY <1>1
<1> QED
  BY <1>2 DEF b

-----------------------------------------------------------------------------
(* Types. *)

LEMMA NewPieces ==
  ASSUME Typed, NEW urls, IsFiniteSet(urls), pieces' \in Registered(pieces, urls)
  PROVE  /\ IsList(pieces') /\ DOMAIN pieces \subseteq DOMAIN pieces'
         /\ \A d \in DOMAIN pieces : pieces'[d] = pieces[d]
         /\ \A d \in DOMAIN pieces' : d \notin DOMAIN pieces =>
              IsPiece(pieces'[d]) /\ Held(pieces'[d]) /\ InOrder(pieces'[d]) /\ pieces'[d].source_url \in urls
<1>1. IsList(pieces)
  BY DEF Typed
<1>2. /\ IsList(pieces') /\ DOMAIN pieces \subseteq DOMAIN pieces'
      /\ \A d \in DOMAIN pieces : pieces'[d] = pieces[d]
      /\ \A d \in DOMAIN pieces' : d \notin DOMAIN pieces => \E u \in urls : pieces'[d] = TenderDocument(u)
  BY <1>1, RegisteredRows
<1> QED
  BY <1>2, NewPiece

\* Pieces are added.
Grown ==
  /\ IsList(pieces') /\ DOMAIN pieces \subseteq DOMAIN pieces'
  /\ \A d \in DOMAIN pieces : pieces'[d] = pieces[d]
  /\ \A d \in DOMAIN pieces' : d \notin DOMAIN pieces =>
       IsPiece(pieces'[d]) /\ Held(pieces'[d]) /\ InOrder(pieces'[d])

LEMMA GrownPieces ==
  ASSUME Typed, Grown
  PROVE  \A d \in DOMAIN pieces' : IsPiece(pieces'[d])
BY DEF Typed, Grown

\* A tender that was just collected has the types.
LEMMA TypedInit == Init => Typed
<1> SUFFICES ASSUME Init PROVE Typed
  OBVIOUS
<1>1. PICK n \in Notices : tender = Created(n) /\ pieces \in register_urls(<< >>, n.urls)
  BY DEF Init
<1> DEFINE none == << >>
           urls == n.urls \ Urls(none)
<1>2. IsFiniteSet(urls) /\ IsTender(tender)
  <2>1. IsFiniteSet(n.urls) /\ urls \subseteq n.urls
    BY DossierAssumption
  <2> QED
    BY <1>1, <2>1, FS_Subset, CreatedTender
<1>3. IsList(none) /\ DOMAIN none = {}
  <2>1. none \in Seq({})
    OBVIOUS
  <2>2. DOMAIN none = {}
    OBVIOUS
  <2> QED
    BY <2>1, <2>2 DEF IsList
<1>4. pieces \in Registered(none, urls)
  BY <1>1 DEF register_urls
<1> HIDE DEF none, urls
<1>5. IsList(pieces) /\ \A d \in DOMAIN pieces : \E u \in urls : pieces[d] = TenderDocument(u)
  BY <1>2, <1>3, <1>4, RegisteredRows
<1>6. \A d \in DOMAIN pieces : IsPiece(pieces[d])
  BY <1>5, NewPiece
<1>7. session = [s \in Sessions |-> session[s]] /\ \A s \in Sessions : session[s] = Closed
  BY DEF Init
<1> QED
  BY <1>2, <1>5, <1>6, <1>7 DEF Init, Typed, MayHold

\* Every step keeps the types.
LEMMA TypedStep == Typed /\ [Next]_vars => Typed'
<1> SUFFICES ASSUME Typed, [Next]_vars PROVE Typed'
  OBVIOUS
<1>1. ASSUME NEW file \in Files, upload_manual(file) PROVE Typed'
  <2>1. Grown
    BY <1>1, UploadStep DEF Grown
  <2>2. session' = session /\ tender' = tender /\ analysis' = analysis /\ score' = score
        /\ due' = due /\ overlapped' = overlapped
    BY <1>1 DEF upload_manual
  <2>3. \A s \in Sessions : MayHold(session[s], DOMAIN pieces')
    BY <2>1 DEF Typed, Grown, MayHold
  <2> QED
    BY <2>1, <2>2, <2>3, GrownPieces DEF Typed, Grown
<1>2. ASSUME NEW s \in Sessions, NEW n \in Notices, OpenMerge(s, n) PROVE Typed'
  <2> DEFINE h == [pc |-> "merge", tender |-> tender, notice |-> n, known |-> Urls(pieces)]
  <2>1. IsMerge(h)
    BY DEF IsMerge, Typed
  <2>2. session' = [session EXCEPT ![s] = h] /\ overlapped' \in BOOLEAN
        /\ UNCHANGED <<tender, pieces, analysis, score, due>>
    BY <1>2 DEF OpenMerge, Open, GoesOn, Typed
  <2> HIDE DEF h
  <2>3. MayHold(h, DOMAIN pieces)
    BY <2>1 DEF MayHold
  <2> QED
    BY <2>2, <2>3, TypedElsewhere DEF Typed
<1>3. ASSUME NEW s \in Sessions, Merge(s) PROVE Typed'
  <2> DEFINE urls == Announced(session[s].known, session[s].notice.urls)
  <2>1. IsFiniteSet(urls) /\ IsTender(tender') /\ pieces' \in Registered(pieces, urls)
        /\ session' = [session EXCEPT ![s] = Closed]
    BY <1>3, MergeStep
  <2> HIDE DEF urls
  <2>2. Grown
    BY <2>1, NewPieces DEF Grown
  <2>3. /\ session' = [r \in Sessions |-> session'[r]]
        /\ \A r \in Sessions : MayHold(session'[r], DOMAIN pieces')
    BY <2>1, <2>2, HoldsStep DEF MayHold, Grown
  <2>4. analysis' = analysis /\ score' = score /\ due' \in BOOLEAN /\ overlapped' = overlapped
    BY <1>3 DEF Merge
  <2> QED
    BY <2>1, <2>2, <2>3, <2>4, GrownPieces DEF Typed, Grown
<1>4. ASSUME NEW s \in Sessions, NEW purpose \in {"fetch", "analyze"}, OpenDownload(s, purpose) PROVE Typed'
  <2> DEFINE urls == tender.extra.document_urls \ Urls(pieces)
  <2>1. IsFiniteSet(urls) /\ pieces' \in Registered(pieces, urls) /\ IsJob(session'[s])
        /\ session'[s].known = pieces' /\ session' = [session EXCEPT ![s] = session'[s]]
    BY <1>4, OpenDownloadStep
  <2> HIDE DEF urls
  <2>2. Grown
    BY <2>1, NewPieces DEF Grown
  <2>3. MayHold(session'[s], DOMAIN pieces')
    BY <2>1 DEF MayHold
  <2>4. /\ session' = [r \in Sessions |-> session'[r]]
        /\ \A r \in Sessions : MayHold(session'[r], DOMAIN pieces')
    BY <2>1, <2>2, <2>3, HoldsStep DEF Grown
  <2>5. tender' = tender /\ analysis' = analysis /\ score' = score /\ due' = due /\ overlapped' \in BOOLEAN
    BY <1>4 DEF OpenDownload, Open, Typed
  <2> QED
    BY <2>2, <2>4, <2>5, GrownPieces DEF Typed, Grown
<1>5. ASSUME NEW s \in Sessions, NEW rows, NEW h, Advances(s, rows, h),
             UNCHANGED <<tender, analysis, score, due, overlapped>>
      PROVE  Typed'
  <2>1. IsList(pieces') /\ DOMAIN pieces' = DOMAIN pieces /\ \A d \in DOMAIN pieces : IsPiece(pieces'[d])
    BY <1>5, PiecesStep
  <2>2. MayHold(h, DOMAIN pieces') /\ session' = [session EXCEPT ![s] = h]
    BY <1>5, <2>1 DEF Advances, MayHold
  <2>3. /\ session' = [r \in Sessions |-> session'[r]]
        /\ \A r \in Sessions : MayHold(session'[r], DOMAIN pieces')
    BY <2>1, <2>2, HoldsStep
  <2> QED
    BY <1>5, <2>1, <2>3 DEF Typed
<1>6. ASSUME NEW s \in Sessions, NEW d \in Todo(s), NEW file \in Files \union {"none"}, DownloadOne(s, d, file)
      PROVE  Typed'
  BY <1>5, <1>6, DownloadOneAdvances DEF DownloadOne
<1>7. ASSUME NEW s \in Sessions, NEW files \in [Todo(s) -> Files \union {"none"}], DownloadAll(s, files)
      PROVE  Typed'
  BY <1>5, <1>7, DownloadAllAdvances DEF DownloadAll
<1>8. ASSUME NEW s \in Sessions, NEW d \in Todo(s), NEW outcome \in {"done", "failed"}, IndexOne(s, d, outcome)
      PROVE  Typed'
  BY <1>5, <1>8, IndexOneAdvances DEF IndexOne
<1>9. ASSUME NEW s \in Sessions, session' = [session EXCEPT ![s] = Closed],
             UNCHANGED <<tender, pieces, analysis, score, due, overlapped>>
      PROVE  Typed'
  <2>1. MayHold(Closed, DOMAIN pieces)
    BY DEF MayHold
  <2> QED
    BY <1>9, <2>1, TypedElsewhere DEF Typed
<1>10. ASSUME NEW s \in Sessions, EndDownload(s) \/ Abort(s) PROVE Typed'
  BY <1>9, <1>10 DEF EndDownload, Abort, Close, GoesOn
<1>11. ASSUME NEW s \in Sessions, NEW r \in Readings, analyze(s, r) PROVE Typed'
  <2> DEFINE h == [pc |-> "evaluate", tender |-> _enrich_tender(session[s].tender, r)]
  <2>1. IsShort(h) /\ IsTender(tender') /\ session' = [session EXCEPT ![s] = h]
    BY <1>11, AnalyzeStep
  <2> HIDE DEF h
  <2>2. MayHold(h, DOMAIN pieces)
    BY <2>1 DEF MayHold
  <2>3. analysis' \in {x.name : x \in Readings} /\ UNCHANGED <<pieces, score, due, overlapped>>
    BY <1>11 DEF analyze
  <2> QED
    BY <2>1, <2>2, <2>3, TypedElsewhere DEF Typed
<1>12. ASSUME NEW s \in Sessions, NEW pc \in {"evaluate", "score"}, Open(s, [pc |-> pc, tender |-> tender]),
              UNCHANGED <<tender, pieces, analysis, score, due>>
       PROVE  Typed'
  <2> DEFINE h == [pc |-> pc, tender |-> tender]
  <2>1. IsShort(h)
    BY DEF IsShort, Typed
  <2>2. session' = [session EXCEPT ![s] = h] /\ overlapped' \in BOOLEAN
    BY <1>12 DEF Open, GoesOn, Typed
  <2> HIDE DEF h
  <2>3. MayHold(h, DOMAIN pieces)
    BY <2>1 DEF MayHold
  <2> QED
    BY <1>12, <2>2, <2>3, TypedElsewhere DEF Typed
<1>13. ASSUME NEW s \in Sessions, OpenEvaluation(s) \/ OpenScore(s) PROVE Typed'
  BY <1>12, <1>13 DEF OpenEvaluation, OpenScore
<1>14. ASSUME NEW s \in Sessions, NEW ratio \in Ratios, refresh(s, ratio) PROVE Typed'
  <2> DEFINE new == [session[s].tender EXCEPT !.extra = [@ EXCEPT !.eligibility = {ratio}]]
  <2>1. IsTender(tender') /\ score' \in Scores(new) /\ session' = [session EXCEPT ![s] = Closed]
    BY <1>14, RefreshStep
  <2> HIDE DEF new
  <2>2. \E x : score' = {x}
    BY <2>1, ScoreOf
  <2>3. MayHold(Closed, DOMAIN pieces)
    BY DEF MayHold
  <2>4. due' = FALSE /\ UNCHANGED <<pieces, analysis, overlapped>>
    BY <1>14 DEF refresh
  <2> QED
    BY <2>1, <2>2, <2>3, <2>4, TypedElsewhere DEF Typed
<1>15. ASSUME NEW s \in Sessions, score_tender(s) PROVE Typed'
  <2>1. score' \in Scores(session[s].tender) /\ session' = [session EXCEPT ![s] = Closed]
        /\ due' = FALSE /\ UNCHANGED <<tender, pieces, analysis, overlapped>>
    BY <1>15 DEF score_tender, Close, GoesOn
  <2>2. \E x : score' = {x}
    BY <2>1, ScoreOf
  <2>3. MayHold(Closed, DOMAIN pieces)
    BY DEF MayHold
  <2> QED
    BY <2>1, <2>2, <2>3, TypedElsewhere DEF Typed
<1>16. CASE UNCHANGED vars
  BY <1>16 DEF Typed, vars
<1> QED
  BY <1>1, <1>2, <1>3, <1>4, <1>6, <1>7, <1>8, <1>10, <1>11, <1>13, <1>14, <1>15, <1>16 DEF Next

\* Every variable keeps its type.
THEOREM DossierTypesAreKept == Spec => []TypeOK
<1>1. Typed => TypeOK
  <2> SUFFICES ASSUME Typed PROVE TypeOK
    OBVIOUS
  <2>1. Cardinality(score) <= 1
    <3>1. CASE score = {}
      BY <3>1, FS_EmptySet
    <3>2. CASE \E x : score = {x}
      <4>1. Cardinality(score) = 1
        BY <3>2, FS_Singleton
      <4> QED
        BY <4>1
    <3> QED
      BY <3>1, <3>2 DEF Typed
  <2>2. DOMAIN session = Sessions
    BY DEF Typed
  <2>3. tender.extra.eligibility \subseteq Ratios
    BY DEF Typed, IsTender, IsExtra
  <2>4. \A d \in DOMAIN pieces : IsPiece(pieces[d]) /\ pieces[d].text \in Files \union {"none"}
    BY DossierAssumption DEF Typed, IsPiece
  <2> QED
    BY <2>1, <2>2, <2>3, <2>4 DEF Typed, TypeOK, IsPiece
<1> QED
  BY <1>1, TypedInit, TypedStep, PTL DEF Spec

-----------------------------------------------------------------------------
(* No piece loses its file or its text. *)

IsRunning(s) == session[s].pc \in {"download", "index"}

\* What each job knows of the pieces, and that a file or a text that it knows
\* of is there.
Filed ==
  /\ \A d \in DOMAIN pieces : Held(pieces[d])
  /\ \A s \in Sessions : IsRunning(s) =>
       \A d \in DOMAIN session[s].known :
         /\ Held(session[s].known[d])
         /\ Keeps(session[s].known[d], pieces[d])

\* Pieces are added; a session that goes on holds no rows, or those.
LEMMA FiledGrown ==
  ASSUME Typed, Filed, Grown,
         \A r \in Sessions : session'[r] # session[r] =>
           session'[r].pc \notin {"download", "index"} \/ session'[r].known = pieces'
  PROVE  Filed'
<1>1. \A d \in DOMAIN pieces' : Held(pieces'[d])
  BY DEF Filed, Grown
<1>2. ASSUME NEW r \in Sessions, IsRunning(r)', NEW d \in DOMAIN session'[r].known
      PROVE  /\ Held(session'[r].known[d])
             /\ Keeps(session'[r].known[d], pieces'[d])
  <2>1. CASE session'[r] = session[r]
    <3>1. IsRunning(r) /\ DOMAIN session[r].known \subseteq DOMAIN pieces
      BY <1>2, <2>1, JobHolds DEF IsRunning
    <3>2. d \in DOMAIN pieces /\ pieces'[d] = pieces[d]
      BY <1>2, <2>1, <3>1 DEF Grown
    <3> QED
      BY <1>2, <2>1, <3>1, <3>2 DEF Filed
  <2>2. CASE session'[r] # session[r]
    <3>1. session'[r].known = pieces'
      BY <1>2, <2>2 DEF IsRunning
    <3>2. Keeps(pieces'[d], pieces'[d])
      BY DEF Keeps
    <3> QED
      BY <1>1, <1>2, <3>1, <3>2
  <2> QED
    BY <2>1, <2>2
<1> QED
  BY <1>1, <1>2 DEF Filed

LEMMA FiledAdvances ==
  ASSUME Typed, Filed, NEW s \in Sessions, NEW rows, NEW h, Advances(s, rows, h)
  PROVE  Filed'
<1> DEFINE g == session[s]
<1>1. /\ DOMAIN pieces' = DOMAIN pieces /\ DOMAIN g.known \subseteq DOMAIN pieces
      /\ DOMAIN rows \subseteq DOMAIN g.known
      /\ \A d \in DOMAIN rows : Turns(g.known[d], rows[d]) /\ IsPiece(g.known[d]) /\ IsPiece(pieces[d])
      /\ \A d \in DOMAIN rows : pieces'[d] = Written(pieces[d], g.known[d], rows[d])
      /\ \A d \in DOMAIN pieces : d \notin DOMAIN rows => pieces'[d] = pieces[d]
  <2>1. /\ DOMAIN rows \subseteq DOMAIN g.known /\ DOMAIN g.known \subseteq DOMAIN pieces
        /\ \A d \in DOMAIN rows : Turns(g.known[d], rows[d]) /\ IsPiece(g.known[d])
    BY DEF Advances, IsJob
  <2>2. \A d \in DOMAIN pieces : IsPiece(pieces[d])
    BY DEF Typed
  <2> QED
    BY <2>1, <2>2, PiecesStep
<1>2. /\ session'[s] = h /\ \A r \in Sessions : r # s => session'[r] = session[r]
  BY SessionsStep DEF Advances
<1>3. /\ DOMAIN h.known = DOMAIN g.known
      /\ \A d \in DOMAIN h.known : h.known[d] = IF d \in DOMAIN rows THEN rows[d] ELSE g.known[d]
  BY DEF Advances
<1>4. \A d \in DOMAIN g.known : Held(g.known[d]) /\ Keeps(g.known[d], pieces[d])
  <2>1. IsRunning(s)
    BY Stages DEF Advances, IsRunning
  <2> QED
    BY <2>1 DEF Filed
<1> HIDE DEF g
<1>5. ASSUME NEW d \in DOMAIN rows
      PROVE  Held(pieces'[d]) /\ Keeps(pieces[d], pieces'[d]) /\ Keeps(rows[d], pieces'[d])
  <2>1. Held(pieces[d])
    BY <1>1 DEF Filed
  <2> QED
    BY <1>1, <1>4, <2>1, WrittenHolds
<1>6. \A d \in DOMAIN pieces : Held(pieces'[d]) /\ Keeps(pieces[d], pieces'[d])
  BY <1>1, <1>5 DEF Filed, Keeps
<1>7. ASSUME NEW r \in Sessions, IsRunning(r)', NEW d \in DOMAIN session'[r].known
      PROVE  /\ Held(session'[r].known[d])
             /\ Keeps(session'[r].known[d], pieces'[d])
  <2>1. CASE r = s
    <3>1. session'[r] = h /\ d \in DOMAIN g.known
      BY <1>2, <1>3, <1>7, <2>1
    <3>2. CASE d \in DOMAIN rows
      <4>1. Held(rows[d])
        BY <1>1, <1>4, <3>2 DEF Turns
      <4> QED
        BY <1>3, <1>5, <1>7, <3>1, <3>2, <4>1
    <3>3. CASE d \notin DOMAIN rows
      BY <1>1, <1>3, <1>4, <1>7, <3>1, <3>3
    <3> QED
      BY <3>2, <3>3
  <2>2. CASE r # s
    <3>1. session'[r] = session[r]
      BY <1>2, <2>2
    <3>2. IsRunning(r) /\ DOMAIN session[r].known \subseteq DOMAIN pieces
      BY <1>7, <3>1, JobHolds DEF IsRunning
    <3>3. Held(session[r].known[d]) /\ Keeps(session[r].known[d], pieces[d])
      BY <1>7, <3>1, <3>2 DEF Filed
    <3>4. Keeps(pieces[d], pieces'[d])
      BY <1>6, <1>7, <3>1, <3>2
    <3> QED
      BY <3>1, <3>3, <3>4 DEF Keeps
  <2> QED
    BY <2>1, <2>2
<1> QED
  BY <1>1, <1>6, <1>7 DEF Filed

\* No job runs yet, and no piece has a file.
LEMMA FiledInit == Init => Filed
<1> SUFFICES ASSUME Init PROVE Filed
  OBVIOUS
<1>1. PICK n \in Notices : pieces \in register_urls(<< >>, n.urls)
  BY DEF Init
<1> DEFINE none == << >>
           urls == n.urls \ Urls(none)
<1>2. IsFiniteSet(urls)
  BY DossierAssumption, FS_Subset
<1>3. IsList(none) /\ DOMAIN none = {}
  <2>1. none \in Seq({})
    OBVIOUS
  <2>2. DOMAIN none = {}
    OBVIOUS
  <2> QED
    BY <2>1, <2>2 DEF IsList
<1>4. pieces \in Registered(none, urls)
  BY <1>1 DEF register_urls
<1> HIDE DEF none, urls
<1>5. \A d \in DOMAIN pieces : \E u \in urls : pieces[d] = TenderDocument(u)
  BY <1>2, <1>3, <1>4, RegisteredRows
<1>6. \A d \in DOMAIN pieces : Held(pieces[d])
  BY <1>5, NewPiece
<1>7. \A s \in Sessions : session[s].pc = "closed"
  BY DEF Init, Closed
<1> QED
  BY <1>6, <1>7 DEF Filed, IsRunning

\* No step takes a file away from a piece, nor shows one that it lacks.
LEMMA FiledStep == Typed /\ Filed /\ [Next]_vars => Filed'
<1> SUFFICES ASSUME Typed, Filed, [Next]_vars PROVE Filed'
  OBVIOUS
<1>1. ASSUME NEW file \in Files, upload_manual(file) PROVE Filed'
  <2>1. Grown
    BY <1>1, UploadStep DEF Grown
  <2>2. session' = session
    BY <1>1 DEF upload_manual
  <2> QED
    BY <2>1, <2>2, FiledGrown
<1>2. ASSUME NEW s \in Sessions, Merge(s) PROVE Filed'
  <2>1. Grown /\ session' = [session EXCEPT ![s] = Closed]
    BY <1>2, MergeStep, NewPieces DEF Grown
  <2>2. \A r \in Sessions : session'[r] # session[r] => session'[r].pc = "closed"
    BY <2>1, SessionsStep, Stages
  <2> QED
    BY <2>1, <2>2, FiledGrown
<1>3. ASSUME NEW s \in Sessions, NEW purpose \in {"fetch", "analyze"}, OpenDownload(s, purpose) PROVE Filed'
  <2>1. Grown /\ session'[s].known = pieces' /\ session' = [session EXCEPT ![s] = session'[s]]
    BY <1>3, OpenDownloadStep, NewPieces DEF Grown
  <2>2. \A r \in Sessions : session'[r] # session[r] => session'[r].known = pieces'
    BY <2>1, SessionsStep
  <2> QED
    BY <2>1, <2>2, FiledGrown
<1>4. ASSUME NEW s \in Sessions, NEW d \in Todo(s), NEW file \in Files \union {"none"}, DownloadOne(s, d, file)
      PROVE  Filed'
  BY <1>4, DownloadOneAdvances, FiledAdvances
<1>5. ASSUME NEW s \in Sessions, NEW files \in [Todo(s) -> Files \union {"none"}], DownloadAll(s, files)
      PROVE  Filed'
  BY <1>5, DownloadAllAdvances, FiledAdvances
<1>6. ASSUME NEW s \in Sessions, NEW d \in Todo(s), NEW outcome \in {"done", "failed"}, IndexOne(s, d, outcome)
      PROVE  Filed'
  BY <1>6, IndexOneAdvances, FiledAdvances
<1>7. ASSUME NEW s \in Sessions, NEW h, session' = [session EXCEPT ![s] = h], pieces' = pieces,
             h.pc \notin {"download", "index"}
      PROVE  Filed'
  <2>1. Grown
    BY <1>7 DEF Grown, Typed
  <2>2. \A r \in Sessions : session'[r] # session[r] => session'[r].pc \notin {"download", "index"}
    BY <1>7, SessionsStep
  <2> QED
    BY <2>1, <2>2, FiledGrown
<1>8. ASSUME NEW s \in Sessions, NEW n \in Notices, OpenMerge(s, n) PROVE Filed'
  BY <1>7, <1>8 DEF OpenMerge, Open, GoesOn
<1>9. ASSUME NEW s \in Sessions, EndDownload(s) \/ Abort(s) \/ score_tender(s) PROVE Filed'
  BY <1>7, <1>9 DEF EndDownload, Abort, score_tender, Close, GoesOn, Closed
<1>10. ASSUME NEW s \in Sessions, NEW r \in Readings, analyze(s, r) PROVE Filed'
  BY <1>7, <1>10 DEF analyze, GoesOn
<1>11. ASSUME NEW s \in Sessions, OpenEvaluation(s) \/ OpenScore(s) PROVE Filed'
  BY <1>7, <1>11 DEF OpenEvaluation, OpenScore, Open, GoesOn
<1>12. ASSUME NEW s \in Sessions, NEW ratio \in Ratios, refresh(s, ratio) PROVE Filed'
  BY <1>7, <1>12 DEF refresh, Close, GoesOn, Closed
<1>13. CASE UNCHANGED vars
  <2>1. Grown /\ session' = session
    BY <1>13 DEF Grown, Typed, vars
  <2> QED
    BY <2>1, FiledGrown
<1> QED
  BY <1>1, <1>2, <1>3, <1>4, <1>5, <1>6, <1>8, <1>9, <1>10, <1>11, <1>12, <1>13 DEF Next

-----------------------------------------------------------------------------
(* One session at a time. *)

\* No URL has two pieces.
OneEach(rows) ==
  \A c, d \in DOMAIN rows :
    rows[c].source_url = rows[d].source_url /\ rows[c].source_url # "" => c = d

\* What a session holds is still so.
InStep(h, t, rows) ==
  /\ h.tender = t
  /\ h.pc = "merge" => Urls(rows) \ {""} \subseteq h.known /\ h.known \subseteq Urls(rows)
  /\ h.pc \in {"download", "index"} =>
       DOMAIN h.known \subseteq DOMAIN rows /\ \A d \in DOMAIN h.known : h.known[d] = rows[d]

\* The score is that of tender t.
Rates(x, t) == \E y \in x : y.breakdown = breakdown(Scored(t), Company, Profile)

\* As long as the sessions have taken turns, the one that is open knows the
\* tender and the pieces as they are.
Alone ==
  ~ overlapped =>
    /\ \A r, s \in Sessions : IsOpen(r) /\ IsOpen(s) => r = s
    /\ \A s \in Sessions : IsOpen(s) => InStep(session[s], tender, pieces)
    /\ OneEach(pieces) /\ \A d \in DOMAIN pieces : InOrder(pieces[d])
    /\ tender.extra.document_urls \subseteq Urls(pieces)
    /\ ~ due => Rates(score, tender)

LEMMA AloneAfter ==
  ASSUME Typed, NEW s \in Sessions, NEW h, session' = [session EXCEPT ![s] = h],
         \A r \in Sessions : r # s => ~ IsOpen(r),
         h.pc # "closed" => InStep(h, tender', pieces'),
         OneEach(pieces'), \A d \in DOMAIN pieces' : InOrder(pieces'[d]),
         tender'.extra.document_urls \subseteq Urls(pieces'),
         ~ due' => Rates(score', tender')
  PROVE  Alone'
<1>1. session'[s] = h /\ \A r \in Sessions : r # s => session'[r] = session[r]
  BY SessionsStep
<1>2. \A r \in Sessions : IsOpen(r)' => r = s /\ session'[r] = h
  BY <1>1 DEF IsOpen
<1> QED
  BY <1>2 DEF Alone, IsOpen

LEMMA OnlyOne ==
  ASSUME Alone, ~ overlapped, NEW s \in Sessions, IsOpen(s)
  PROVE  InStep(session[s], tender, pieces) /\ \A r \in Sessions : r # s => ~ IsOpen(r)
BY DEF Alone

\* New pieces for URLs that have none.
LEMMA OneEachMore ==
  ASSUME Typed, OneEach(pieces), NEW urls, IsFiniteSet(urls), pieces' \in Registered(pieces, urls),
         \A u \in urls : u \notin Urls(pieces)
  PROVE  OneEach(pieces') /\ Urls(pieces') = Urls(pieces) \union urls
<1>1. IsList(pieces)
  BY DEF Typed
<1>2. /\ \A d \in DOMAIN pieces : pieces'[d] = pieces[d]
      /\ \A c, d \in DOMAIN pieces' :
           c \notin DOMAIN pieces /\ d \notin DOMAIN pieces /\ pieces'[c].source_url = pieces'[d].source_url
             => c = d
      /\ Urls(pieces') = Urls(pieces) \union urls
  BY <1>1, RegisteredRows
<1>3. \A d \in DOMAIN pieces' : d \notin DOMAIN pieces => pieces'[d].source_url \in urls
  BY NewPieces
<1>4. \A d \in DOMAIN pieces : pieces'[d].source_url \in Urls(pieces)
  BY <1>2 DEF Urls
<1>5. ASSUME NEW c \in DOMAIN pieces', NEW d \in DOMAIN pieces', pieces'[c].source_url = pieces'[d].source_url,
             pieces'[c].source_url # ""
      PROVE  c = d
  <2>1. CASE c \in DOMAIN pieces /\ d \in DOMAIN pieces
    BY <1>2, <1>5, <2>1 DEF OneEach
  <2>2. CASE c \notin DOMAIN pieces /\ d \notin DOMAIN pieces
    BY <1>2, <1>5, <2>2
  <2>3. CASE c \in DOMAIN pieces /\ d \notin DOMAIN pieces
    BY <1>3, <1>4, <1>5, <2>3
  <2>4. CASE c \notin DOMAIN pieces /\ d \in DOMAIN pieces
    BY <1>3, <1>4, <1>5, <2>4
  <2> QED
    BY <2>1, <2>2, <2>3, <2>4
<1> QED
  BY <1>2, <1>5 DEF OneEach

\* What the merge adds, when it was alone.
LEMMA MergeAlone ==
  ASSUME Typed, Alone, ~ overlapped, NEW s \in Sessions, Merge(s)
  PROVE  /\ \E n \in Notices : tender' = Merged(tender, n)
         /\ OneEach(pieces') /\ tender'.extra.document_urls \subseteq Urls(pieces')
         /\ \A d \in DOMAIN pieces' : InOrder(pieces'[d])
         /\ session' = [session EXCEPT ![s] = Closed]
<1> DEFINE h == session[s]
           n == h.notice
           urls == Announced(h.known, n.urls)
<1>1. /\ IsMerge(h) /\ IsFiniteSet(urls) /\ "" \notin urls
      /\ IsTender(Merged(h.tender, n))
      /\ tender' = Written(tender, h.tender, Merged(h.tender, n))
      /\ pieces' \in Registered(pieces, urls) /\ session' = [session EXCEPT ![s] = Closed]
  BY MergeStep
<1>2. IsOpen(s) /\ h.pc = "merge"
  BY DEF Merge, IsOpen
<1>3. h.tender = tender /\ Urls(pieces) \ {""} \subseteq h.known /\ h.known \subseteq Urls(pieces)
  BY <1>2, OnlyOne DEF InStep
<1>4. n \in Notices /\ IsTender(tender)
  BY <1>1 DEF IsMerge, Typed
<1>5. tender' = Merged(tender, n)
  BY <1>1, <1>3, <1>4, WrittenTender
<1>6. \A u \in urls : u \notin Urls(pieces)
  BY <1>1, <1>3 DEF Announced
<1>7. OneEach(pieces') /\ Urls(pieces') = Urls(pieces) \union urls
  <2>1. OneEach(pieces)
    BY DEF Alone
  <2> HIDE DEF urls
  <2> QED
    BY <1>1, <1>6, <2>1, OneEachMore
<1>8. tender'.extra.document_urls = tender.extra.document_urls \union n.urls
  BY <1>4, <1>5, MergedTender
<1>9. tender'.extra.document_urls \subseteq Urls(pieces')
  BY <1>3, <1>7, <1>8 DEF Alone, Announced
<1>10. \A d \in DOMAIN pieces' : InOrder(pieces'[d])
  <2> HIDE DEF urls
  <2> QED
    BY <1>1, NewPieces DEF Alone
<1> QED
  BY <1>1, <1>4, <1>5, <1>7, <1>9, <1>10

LEMMA AnalyzeAlone ==
  ASSUME Typed, Alone, ~ overlapped, NEW s \in Sessions, NEW r \in Readings, analyze(s, r)
  PROVE  tender' = _enrich_tender(tender, r)
<1>1. /\ IsTender(_enrich_tender(session[s].tender, r))
      /\ tender' = Written(tender, session[s].tender, _enrich_tender(session[s].tender, r))
  BY AnalyzeStep
<1>2. session[s].tender = tender /\ IsTender(tender)
  BY OnlyOne DEF analyze, IsOpen, InStep, Typed
<1> QED
  BY <1>1, <1>2, WrittenTender

LEMMA RefreshAlone ==
  ASSUME Typed, Alone, ~ overlapped, NEW s \in Sessions, NEW ratio \in Ratios, refresh(s, ratio)
  PROVE  tender' = [tender EXCEPT !.extra = [@ EXCEPT !.eligibility = {ratio}]] /\ score' \in Scores(tender')
<1> DEFINE old == session[s].tender
           new == [old EXCEPT !.extra = [@ EXCEPT !.eligibility = {ratio}]]
<1>1. IsTender(new) /\ tender' = Written(tender, old, new) /\ score' \in Scores(new)
  BY RefreshStep
<1>2. old = tender /\ IsTender(tender)
  BY OnlyOne DEF refresh, IsOpen, InStep, Typed
<1> HIDE DEF new
<1>3. tender' = new
  BY <1>1, <1>2, WrittenTender
<1> QED
  BY <1>1, <1>2, <1>3 DEF new

\* The first tender has one piece per URL, and no score yet.
LEMMA AloneInit == Init => Alone
<1> SUFFICES ASSUME Init PROVE Alone
  OBVIOUS
<1>1. PICK n \in Notices : tender = Created(n) /\ pieces \in register_urls(<< >>, n.urls)
  BY DEF Init
<1> DEFINE none == << >>
           urls == n.urls \ Urls(none)
<1>2. IsFiniteSet(urls)
  BY DossierAssumption, FS_Subset
<1>3. IsList(none) /\ DOMAIN none = {}
  <2>1. none \in Seq({})
    OBVIOUS
  <2>2. DOMAIN none = {}
    OBVIOUS
  <2> QED
    BY <2>1, <2>2 DEF IsList
<1>4. pieces \in Registered(none, urls) /\ n.urls \subseteq urls
  BY <1>1, <1>3 DEF register_urls, Urls
<1> HIDE DEF none, urls
<1>5. /\ \A c, d \in DOMAIN pieces :
           c \notin DOMAIN none /\ d \notin DOMAIN none /\ pieces[c].source_url = pieces[d].source_url => c = d
      /\ Urls(pieces) = Urls(none) \union urls
  BY <1>2, <1>3, <1>4, RegisteredRows
<1>6. OneEach(pieces)
  BY <1>3, <1>5 DEF OneEach
<1>7. tender.extra.document_urls \subseteq Urls(pieces)
  BY <1>1, <1>4, <1>5, CreatedTender
<1>8. \A s \in Sessions : ~ IsOpen(s)
  BY DEF Init, Closed, IsOpen
<1>9. due
  BY DEF Init
<1>10. \A d \in DOMAIN pieces : InOrder(pieces[d])
  <2>1. \A d \in DOMAIN pieces : \E u \in urls : pieces[d] = TenderDocument(u)
    BY <1>2, <1>3, <1>4, RegisteredRows
  <2> QED
    BY <2>1, NewPiece
<1> QED
  BY <1>6, <1>7, <1>8, <1>9, <1>10 DEF Alone

\* Until sessions overlap, the one that is open knows the tender as it is.
LEMMA AloneStep == Typed /\ Alone /\ [Next]_vars => Alone'
<1> SUFFICES ASSUME Typed, Alone, [Next]_vars PROVE Alone'
  OBVIOUS
<1>0. ~ overlapped =>
        /\ OneEach(pieces) /\ \A d \in DOMAIN pieces : InOrder(pieces[d])
        /\ tender.extra.document_urls \subseteq Urls(pieces) /\ (~ due => Rates(score, tender))
  BY DEF Alone
<1>1. ASSUME NEW file \in Files, upload_manual(file) PROVE Alone'
  <2>1. /\ DOMAIN pieces \subseteq DOMAIN pieces' /\ \A d \in DOMAIN pieces : pieces'[d] = pieces[d]
        /\ \A d \in DOMAIN pieces' : d \notin DOMAIN pieces => InOrder(pieces'[d]) /\ pieces'[d].source_url = ""
    BY <1>1, UploadStep
  <2>2. UNCHANGED <<tender, score, due, session, overlapped>>
    BY <1>1 DEF upload_manual
  <2>3. Urls(pieces) \subseteq Urls(pieces') /\ Urls(pieces') \ {""} \subseteq Urls(pieces)
    BY <2>1 DEF Urls
  <2>4. OneEach(pieces) => OneEach(pieces')
    BY <2>1 DEF OneEach
  <2>5. \A s \in Sessions :
          InStep(session[s], tender, pieces) => InStep(session[s], tender, pieces')
    BY <2>1, <2>3 DEF InStep
  <2>6. ~ overlapped => \A d \in DOMAIN pieces' : InOrder(pieces'[d])
    BY <1>0, <2>1
  <2> QED
    BY <2>2, <2>3, <2>4, <2>5, <2>6 DEF Alone, IsOpen
<1>2. ASSUME NEW s \in Sessions, NEW h, Open(s, h), h.tender = tender,
             h.pc \notin {"download", "index"}, h.pc = "merge" => h.known = Urls(pieces),
             UNCHANGED <<tender, pieces, score, due>>
      PROVE  Alone'
  <2> SUFFICES ASSUME ~ overlapped' PROVE Alone'
    BY DEF Alone
  <2>1. ~ overlapped /\ (\A r \in Sessions : ~ IsOpen(r)) /\ session' = [session EXCEPT ![s] = h]
    BY <1>2 DEF Open, GoesOn
  <2>2. InStep(h, tender', pieces')
    BY <1>2 DEF InStep
  <2>3. /\ OneEach(pieces') /\ \A d \in DOMAIN pieces' : InOrder(pieces'[d])
        /\ tender'.extra.document_urls \subseteq Urls(pieces') /\ (~ due' => Rates(score', tender'))
    BY <1>0, <1>2, <2>1
  <2> QED
    BY <2>1, <2>2, <2>3, AloneAfter
<1>3. ASSUME NEW s \in Sessions, NEW n \in Notices, OpenMerge(s, n) PROVE Alone'
  BY <1>2, <1>3 DEF OpenMerge
<1>4. ASSUME NEW s \in Sessions, OpenEvaluation(s) \/ OpenScore(s) PROVE Alone'
  BY <1>2, <1>4 DEF OpenEvaluation, OpenScore
<1>5. ASSUME NEW s \in Sessions, NEW purpose \in {"fetch", "analyze"}, OpenDownload(s, purpose) PROVE Alone'
  <2> SUFFICES ASSUME ~ overlapped' PROVE Alone'
    BY DEF Alone
  <2> DEFINE urls == tender.extra.document_urls \ Urls(pieces)
             h == session'[s]
  <2>1. IsFiniteSet(urls) /\ pieces' \in Registered(pieces, urls)
        /\ IsJob(h) /\ h.tender = tender /\ h.known = pieces' /\ session' = [session EXCEPT ![s] = h]
    BY <1>5, OpenDownloadStep
  <2>2. ~ overlapped /\ (\A r \in Sessions : ~ IsOpen(r)) /\ UNCHANGED <<tender, score, due>>
    BY <1>5 DEF OpenDownload, Open
  <2>3. \A u \in urls : u \notin Urls(pieces)
    OBVIOUS
  <2> HIDE DEF urls, h
  <2>4. OneEach(pieces') /\ Urls(pieces') = Urls(pieces) \union urls
    BY <1>0, <2>1, <2>2, <2>3, OneEachMore
  <2>5. tender'.extra.document_urls \subseteq Urls(pieces') /\ (~ due' => Rates(score', tender'))
    BY <1>0, <2>2, <2>4
  <2>6. InStep(h, tender', pieces')
    BY <2>1, <2>2, Stages DEF InStep
  <2>7. \A d \in DOMAIN pieces' : InOrder(pieces'[d])
    BY <1>0, <2>1, <2>2, NewPieces
  <2> QED
    BY <2>1, <2>2, <2>4, <2>5, <2>6, <2>7, AloneAfter
<1>6. ASSUME NEW s \in Sessions, Merge(s) PROVE Alone'
  <2> SUFFICES ASSUME ~ overlapped PROVE Alone'
    BY <1>6 DEF Alone, Merge
  <2>1. OneEach(pieces') /\ tender'.extra.document_urls \subseteq Urls(pieces')
        /\ session' = [session EXCEPT ![s] = Closed] /\ \A d \in DOMAIN pieces' : InOrder(pieces'[d])
    BY <1>6, MergeAlone
  <2>2. due' /\ IsOpen(s)
    BY <1>6 DEF Merge, IsOpen
  <2>3. \A r \in Sessions : r # s => ~ IsOpen(r)
    BY <2>2, OnlyOne
  <2>4. Closed.pc = "closed"
    BY DEF Closed
  <2> QED
    BY <2>1, <2>2, <2>3, <2>4, AloneAfter
<1>7. ASSUME NEW s \in Sessions, NEW rows, NEW h, Advances(s, rows, h),
             UNCHANGED <<tender, score, due, overlapped>>
      PROVE  Alone'
  <2> SUFFICES ASSUME ~ overlapped PROVE Alone'
    BY <1>7 DEF Alone
  <2>1. /\ IsOpen(s) /\ h.tender = session[s].tender /\ h.pc # "merge"
        /\ session' = [session EXCEPT ![s] = h]
    BY <1>7, Stages DEF Advances, IsOpen
  <2>2. /\ session[s].tender = tender /\ \A r \in Sessions : r # s => ~ IsOpen(r)
        /\ \A d \in DOMAIN session[s].known : session[s].known[d] = pieces[d]
    <3>1. session[s].pc \in {"download", "index"}
      BY <1>7, Stages DEF Advances
    <3> QED
      BY <2>1, <3>1, OnlyOne DEF InStep
  <2>3. DOMAIN pieces' = DOMAIN pieces
        /\ \A d \in DOMAIN pieces : pieces'[d].source_url = pieces[d].source_url
    BY <1>7, PiecesStep
  <2>4. OneEach(pieces') /\ Urls(pieces') = Urls(pieces)
    BY <1>0, <2>3 DEF OneEach, Urls
  <2> DEFINE known == session[s].known
  <2>7. /\ DOMAIN rows \subseteq DOMAIN known /\ DOMAIN known \subseteq DOMAIN pieces
        /\ \A d \in DOMAIN rows : Turns(known[d], rows[d])
        /\ DOMAIN h.known = DOMAIN known
        /\ \A d \in DOMAIN h.known : h.known[d] = IF d \in DOMAIN rows THEN rows[d] ELSE known[d]
    BY <1>7 DEF Advances
  <2>8. /\ \A d \in DOMAIN rows : d \in DOMAIN pieces /\ pieces'[d] = Written(pieces[d], known[d], rows[d])
        /\ \A d \in DOMAIN pieces : d \notin DOMAIN rows => pieces'[d] = pieces[d]
    BY <1>7, PiecesStep
  <2> HIDE DEF known
  <2>9. ASSUME NEW d \in DOMAIN rows PROVE pieces'[d] = rows[d] /\ InOrder(rows[d])
    <3>1. known[d] = pieces[d] /\ Turns(pieces[d], rows[d]) /\ d \in DOMAIN pieces
      BY <2>2, <2>7, <2>8 DEF known
    <3>2. IsPiece(pieces[d]) /\ InOrder(pieces[d]) /\ IsPiece(rows[d])
      BY <1>0, <3>1 DEF Typed, Turns
    <3>3. InOrder(rows[d])
      BY <3>1, <3>2 DEF Turns
    <3> QED
      BY <2>8, <3>1, <3>2, <3>3, WrittenFresh
  <2>10. \A d \in DOMAIN pieces' : InOrder(pieces'[d])
    BY <1>0, <2>3, <2>8, <2>9
  <2>11. DOMAIN h.known \subseteq DOMAIN pieces' /\ \A d \in DOMAIN h.known : h.known[d] = pieces'[d]
    BY <2>2, <2>3, <2>7, <2>8, <2>9 DEF known
  <2>5. InStep(h, tender', pieces')
    BY <1>7, <2>1, <2>2, <2>11 DEF InStep
  <2>6. tender'.extra.document_urls \subseteq Urls(pieces') /\ (~ due' => Rates(score', tender'))
    BY <1>0, <1>7, <2>4
  <2> QED
    BY <2>1, <2>2, <2>4, <2>5, <2>6, <2>10, AloneAfter
<1>8. ASSUME NEW s \in Sessions, NEW d \in Todo(s), NEW file \in Files \union {"none"}, DownloadOne(s, d, file)
      PROVE  Alone'
  BY <1>7, <1>8, DownloadOneAdvances DEF DownloadOne
<1>9. ASSUME NEW s \in Sessions, NEW files \in [Todo(s) -> Files \union {"none"}], DownloadAll(s, files)
      PROVE  Alone'
  BY <1>7, <1>9, DownloadAllAdvances DEF DownloadAll
<1>10. ASSUME NEW s \in Sessions, NEW d \in Todo(s), NEW outcome \in {"done", "failed"}, IndexOne(s, d, outcome)
       PROVE  Alone'
  BY <1>7, <1>10, IndexOneAdvances DEF IndexOne
<1>11. ASSUME NEW s \in Sessions, NEW h, IsOpen(s), session' = [session EXCEPT ![s] = h],
              h.pc # "closed" => h.tender = tender' /\ h.pc \notin {"merge", "download", "index"},
              UNCHANGED <<pieces, overlapped>>, ~ overlapped => tender'.extra.document_urls = tender.extra.document_urls,
              ~ overlapped /\ ~ due' => Rates(score', tender')
       PROVE  Alone'
  <2> SUFFICES ASSUME ~ overlapped PROVE Alone'
    BY <1>11 DEF Alone
  <2>1. \A r \in Sessions : r # s => ~ IsOpen(r)
    BY <1>11, OnlyOne
  <2>2. h.pc # "closed" => InStep(h, tender', pieces')
    BY <1>11 DEF InStep
  <2> QED
    BY <1>0, <1>11, <2>1, <2>2, AloneAfter
<1>12. ASSUME NEW s \in Sessions, EndDownload(s) \/ Abort(s) PROVE Alone'
  <2>1. IsOpen(s) /\ session' = [session EXCEPT ![s] = Closed]
        /\ UNCHANGED <<pieces, overlapped, tender, score, due>>
    BY <1>12 DEF EndDownload, Abort, Close, GoesOn, IsOpen
  <2>2. Closed.pc = "closed"
    BY DEF Closed
  <2> QED
    BY <1>0, <1>11, <2>1, <2>2
<1>13. ASSUME NEW s \in Sessions, NEW r \in Readings, analyze(s, r) PROVE Alone'
  <2> SUFFICES ASSUME ~ overlapped PROVE Alone'
    BY <1>13 DEF Alone, analyze
  <2> DEFINE new == _enrich_tender(tender, r)
             h == [pc |-> "evaluate", tender |-> tender']
  <2>1. tender' = new /\ IsOpen(s) /\ UNCHANGED <<pieces, overlapped, score, due>>
    BY <1>13, AnalyzeAlone DEF analyze, IsOpen
  <2>2. session[s].tender = tender
    BY <2>1, OnlyOne DEF InStep
  <2>3. session' = [session EXCEPT ![s] = h]
    BY <1>13, <2>1, <2>2 DEF analyze, GoesOn
  <2>4. /\ new.extra.document_urls = tender.extra.document_urls
        /\ new.extra.technologies = tender.extra.technologies
        /\ new.extra.required_certifications = tender.extra.required_certifications
        /\ new.extra.eligibility = tender.extra.eligibility
    BY EnrichedTender DEF Typed
  <2>5. Scored(tender') = Scored(tender)
    BY <2>1, <2>4 DEF Scored
  <2>6. ~ due' => Rates(score', tender')
    BY <1>0, <2>1, <2>5 DEF Rates
  <2>7. h.pc = "evaluate" /\ h.tender = tender'
    OBVIOUS
  <2> HIDE DEF new, h
  <2> QED
    BY <1>11, <2>1, <2>3, <2>4, <2>6, <2>7
<1>14. ASSUME NEW s \in Sessions, NEW ratio \in Ratios, refresh(s, ratio) PROVE Alone'
  <2> SUFFICES ASSUME ~ overlapped PROVE Alone'
    BY <1>14 DEF Alone, refresh
  <2> DEFINE new == [tender EXCEPT !.extra = [@ EXCEPT !.eligibility = {ratio}]]
  <2>1. tender' = new /\ score' \in Scores(tender')
    BY <1>14, RefreshAlone
  <2>2. new.extra.document_urls = tender.extra.document_urls
    BY RatedTender DEF Typed
  <2> HIDE DEF new
  <2>3. Rates(score', tender')
    BY <2>1, ScoreOf DEF Rates
  <2>4. IsOpen(s) /\ session' = [session EXCEPT ![s] = Closed] /\ UNCHANGED <<pieces, overlapped>>
    BY <1>14 DEF refresh, Close, GoesOn, IsOpen
  <2>5. Closed.pc = "closed"
    BY DEF Closed
  <2> QED
    BY <1>11, <2>1, <2>2, <2>3, <2>4, <2>5
<1>15. ASSUME NEW s \in Sessions, score_tender(s) PROVE Alone'
  <2> SUFFICES ASSUME ~ overlapped PROVE Alone'
    BY <1>15 DEF Alone, score_tender
  <2>1. IsOpen(s) /\ session' = [session EXCEPT ![s] = Closed] /\ UNCHANGED <<tender, pieces, overlapped>>
        /\ score' \in Scores(session[s].tender)
    BY <1>15 DEF score_tender, Close, GoesOn, IsOpen
  <2>2. session[s].tender = tender
    BY <2>1, OnlyOne DEF InStep
  <2>3. Rates(score', tender')
    BY <2>1, <2>2, ScoreOf DEF Rates
  <2>4. Closed.pc = "closed"
    BY DEF Closed
  <2> QED
    BY <1>11, <2>1, <2>3, <2>4
<1>16. CASE UNCHANGED vars
  BY <1>16 DEF Alone, IsOpen, vars
<1> QED
  BY <1>1, <1>3, <1>4, <1>5, <1>6, <1>8, <1>9, <1>10, <1>12, <1>13, <1>14, <1>15, <1>16 DEF Next

\* However the jobs overlap, and whatever a job that is late writes, a piece
\* shows as downloaded only with a file, and as indexed only with a file and
\* with a text that could be read.  As long as no two sessions have overlapped,
\* this is the text of its file.
THEOREM FilesAreKept == Spec => []PiecesAreHeld
<1>1. Typed /\ Filed /\ Alone => PiecesAreHeld
  <2> SUFFICES ASSUME Typed, Filed, Alone, NEW d \in DOMAIN pieces
               PROVE  /\ pieces[d].download = "done" => pieces[d].file # "none"
                      /\ pieces[d].extraction = "done" => pieces[d].file # "none" /\ pieces[d].text \in Readable
                      /\ ~ overlapped /\ pieces[d].extraction = "done" => pieces[d].text = pieces[d].file
    BY DEF PiecesAreHeld
  <2>1. Held(pieces[d]) /\ IsPiece(pieces[d])
    BY DEF Typed, Filed
  <2>2. ~ overlapped => InOrder(pieces[d])
    BY DEF Alone
  <2> QED
    BY <2>1, <2>2 DEF Held, IsPiece, InOrder
<1> QED
  BY <1>1, TypedInit, TypedStep, FiledInit, FiledStep, AloneInit, AloneStep, PTL DEF Spec

\* As long as no two sessions have overlapped, each announced URL has one
\* piece.
THEOREM UrlsHaveOnePiece == Spec => []OnePiecePerUrl
<1>1. Typed /\ Alone => OnePiecePerUrl
  <2> SUFFICES ASSUME Typed, Alone, ~ overlapped, NEW u \in tender.extra.document_urls
               PROVE  Cardinality({d \in DOMAIN pieces : pieces[d].source_url = u}) = 1
    BY DEF OnePiecePerUrl
  <2>1. u # "" /\ u \in Urls(pieces)
    BY DEF Typed, IsTender, IsExtra, Alone
  <2>2. PICK d \in DOMAIN pieces : pieces[d].source_url = u
    BY <2>1 DEF Urls
  <2>3. {c \in DOMAIN pieces : pieces[c].source_url = u} = {d}
    BY <2>1, <2>2 DEF Alone, OneEach
  <2> QED
    BY <2>3, FS_Singleton
<1> QED
  BY <1>1, TypedInit, TypedStep, AloneInit, AloneStep, PTL DEF Spec

\* As long as no two sessions have overlapped, the score is that of the tender
\* as it is, unless a search pass has changed it since.
THEOREM ScoresFollowTheTender == Spec => []ScoreFollowsTender
<1>1. Alone => ScoreFollowsTender
  BY DEF Alone, ScoreFollowsTender, Rates
<1> QED
  BY <1>1, TypedInit, TypedStep, AloneInit, AloneStep, PTL DEF Spec

\* As long as no two sessions have overlapped, nothing that is known of the
\* tender is replaced or forgotten.
THEOREM TendersForgetNothing == Spec => NothingIsLost
<1> DEFINE Remembers ==
      /\ tender.deadline # {} => tender'.deadline = tender.deadline
      /\ tender.reference # "" => tender'.reference = tender.reference
      /\ tender.extra.document_urls \subseteq tender'.extra.document_urls
      /\ tender.extra.technologies \subseteq tender'.extra.technologies
      /\ tender.extra.required_certifications \subseteq tender'.extra.required_certifications
      /\ tender.extra.requested # "none" => tender'.extra.requested # "none"
      /\ tender.extra.eligibility # {} => tender'.extra.eligibility # {}
<1>1. Typed /\ Alone /\ [Next]_vars => [~ overlapped' => Remembers]_vars
  <2> SUFFICES ASSUME Typed, Alone, Next, ~ overlapped' PROVE Remembers
    BY DEF vars
  <2>1. CASE tender' = tender
    BY <2>1
  <2>2. ASSUME NEW s \in Sessions, Merge(s) PROVE Remembers
    <3>1. ~ overlapped
      BY <2>2 DEF Merge
    <3>2. PICK n \in Notices : tender' = Merged(tender, n)
      BY <2>2, <3>1, MergeAlone
    <3> DEFINE new == Merged(tender, n)
    <3>3. /\ tender.deadline # {} => new.deadline = tender.deadline
          /\ tender.reference # "" => new.reference = tender.reference
          /\ new.extra.document_urls = tender.extra.document_urls \union n.urls
          /\ tender.extra.technologies \subseteq new.extra.technologies
          /\ tender.extra.required_certifications \subseteq new.extra.required_certifications
          /\ new.extra.requested = tender.extra.requested
          /\ new.extra.eligibility = tender.extra.eligibility
      BY MergedTender DEF Typed
    <3> HIDE DEF new
    <3>4. new.deadline = tender'.deadline /\ new.reference = tender'.reference /\ new.extra = tender'.extra
      BY <3>2 DEF new
    <3> QED
      BY <3>3, <3>4
  <2>3. ASSUME NEW s \in Sessions, NEW r \in Readings, analyze(s, r) PROVE Remembers
    <3>1. ~ overlapped
      BY <2>3 DEF analyze
    <3>2. tender' = _enrich_tender(tender, r)
      BY <2>3, <3>1, AnalyzeAlone
    <3> QED
      BY <3>2, EnrichedTender DEF Typed
  <2>4. ASSUME NEW s \in Sessions, NEW ratio \in Ratios, refresh(s, ratio) PROVE Remembers
    <3>1. ~ overlapped
      BY <2>4 DEF refresh
    <3> DEFINE new == [tender EXCEPT !.extra = [@ EXCEPT !.eligibility = {ratio}]]
    <3>2. tender' = new
      BY <2>4, <3>1, RefreshAlone
    <3>3. /\ new.deadline = tender.deadline /\ new.reference = tender.reference
          /\ new.extra.document_urls = tender.extra.document_urls
          /\ new.extra.technologies = tender.extra.technologies
          /\ new.extra.required_certifications = tender.extra.required_certifications
          /\ new.extra.requested = tender.extra.requested
          /\ new.extra.eligibility # {}
      BY RatedTender DEF Typed
    <3> HIDE DEF new
    <3> QED
      BY <3>2, <3>3
  <2>5. \/ tender' = tender
        \/ \E s \in Sessions :
             \/ Merge(s)
             \/ \E r \in Readings : analyze(s, r)
             \/ \E ratio \in Ratios : refresh(s, ratio)
    BY ZenonT(40) DEF Next, upload_manual, OpenMerge, OpenDownload, DownloadOne, EndDownload, DownloadAll, IndexOne,
           OpenEvaluation, OpenScore, score_tender, Abort
  <2> QED
    BY <2>1, <2>2, <2>3, <2>4, <2>5
<1> QED
  BY <1>1, TypedInit, TypedStep, AloneInit, AloneStep, PTL DEF Spec, NothingIsLost
=============================================================================
