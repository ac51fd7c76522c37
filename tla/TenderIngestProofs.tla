-------------------------- MODULE TenderIngestProofs --------------------------
(***************************************************************************)
(* Theorems about TenderIngest, for any sources, any web, any days and any *)
(* number of passes.                                                       *)
(***************************************************************************)
EXTENDS TenderIngest, TLAPS

-----------------------------------------------------------------------------
(* Operators. *)

LEMMA LeastIsThere ==
  \A S \in SUBSET (1 .. 4) : S # {} => Min(S) \in S /\ \A k \in S : Min(S) <= k
<1> SUFFICES ASSUME NEW S \in SUBSET (1 .. 4), S # {}
             PROVE  \E x \in S : \A y \in S : x <= y
  BY DEF Min
<1>1. CASE 1 \in S
  BY <1>1
<1>2. CASE 1 \notin S /\ 2 \in S
  BY <1>2
<1>3. CASE 1 \notin S /\ 2 \notin S /\ 3 \in S
  BY <1>3
<1>4. CASE 1 \notin S /\ 2 \notin S /\ 3 \notin S
  <2>1. \A x \in S : x = 4
    BY <1>4
  <2>2. 4 \in S
    BY <2>1
  <2> QED
    BY <2>1, <2>2
<1> QED
  BY <1>1, <1>2, <1>3, <1>4

\* A deadline has an urgency, a tender without one has none.
LEMMA UrgencyOfDeadline ==
  \A d : compute_urgency(d) \in UrgencyLevels /\ (compute_urgency(d) = "none" <=> d = {})
<1> SUFFICES ASSUME NEW d
             PROVE  compute_urgency(d) \in UrgencyLevels /\ (compute_urgency(d) = "none" <=> d = {})
  OBVIOUS
<1>1. CASE d = {}
  BY <1>1 DEF compute_urgency, UrgencyLevels
<1>2. CASE d # {}
  <2> DEFINE left == (CHOOSE x \in d : TRUE) - today
             reached == {k \in DOMAIN Levels : left >= Levels[k].from}
  <2>1. compute_urgency(d) = IF reached = {} THEN "critical" ELSE Levels[Min(reached)].level
    BY <1>2 DEF compute_urgency
  <2>2. DOMAIN Levels = 1 .. 3 /\ \A k \in 1 .. 3 : Levels[k].level \in {"low", "medium", "high"}
    BY DEF Levels
  <2>3. reached \subseteq 1 .. 3
    BY <2>2
  <2> HIDE DEF left, reached
  <2>4. reached # {} => Min(reached) \in 1 .. 3
    <3>1. reached \in SUBSET (1 .. 4)
      BY <2>3
    <3> QED
      BY <2>3, <3>1, LeastIsThere
  <2>5. compute_urgency(d) \in {"low", "medium", "high", "critical"}
    BY <2>1, <2>2, <2>4
  <2> QED
    BY <1>2, <2>5 DEF UrgencyLevels
<1> QED
  BY <1>1, <1>2

LEMMA CreateType ==
  \A n \in Notice : create(n) \in Tender
<1> SUFFICES ASSUME NEW n \in Notice PROVE create(n) \in Tender
  OBVIOUS
<1>1. n.url \in Urls /\ n.title \in Titles /\ n.reference \in References /\ n.deadline \in Deadlines
  BY DEF Notice
<1>2. {n.url} \in SUBSET Urls
  BY <1>1
<1>3. (~ Expired(n.deadline)) \in BOOLEAN
  BY DEF Expired
<1>4. (IF Expired(n.deadline) THEN "none" ELSE compute_urgency(n.deadline)) \in UrgencyLevels
  BY UrgencyOfDeadline DEF UrgencyLevels
<1> QED
  BY <1>1, <1>2, <1>3, <1>4 DEF create, Tender

\* A merge fills the reference and the deadline that are missing.
LEMMA MergeIntoFields ==
  \A t \in Tender, n \in Notice :
    LET m == merge_into(t, n)
    IN  /\ m \in Tender
        /\ m.title = t.title /\ m.fingerprint = t.fingerprint /\ m.active = t.active
        /\ m.reference = (IF t.reference = "none" THEN n.reference ELSE t.reference)
        /\ m.deadline = (IF t.deadline = {} THEN n.deadline ELSE t.deadline)
        /\ m.urgency = compute_urgency(m.deadline)
        /\ m.links = t.links \union {n.url}
<1> SUFFICES ASSUME NEW t \in Tender, NEW n \in Notice
             PROVE  LET m == merge_into(t, n)
                    IN  /\ m \in Tender
                        /\ m.title = t.title /\ m.fingerprint = t.fingerprint /\ m.active = t.active
                        /\ m.reference = (IF t.reference = "none" THEN n.reference ELSE t.reference)
                        /\ m.deadline = (IF t.deadline = {} THEN n.deadline ELSE t.deadline)
                        /\ m.urgency = compute_urgency(m.deadline)
                        /\ m.links = t.links \union {n.url}
  OBVIOUS
<1> DEFINE reference == IF t.reference = "none" THEN n.reference ELSE t.reference
           deadline == IF t.deadline = {} THEN n.deadline ELSE t.deadline
           urgency == compute_urgency(deadline)
           links == t.links \union {n.url}
<1>1. reference \in References /\ deadline \in Deadlines /\ links \in SUBSET Urls
  BY DEF Notice, Tender
<1>2. urgency \in UrgencyLevels
  BY UrgencyOfDeadline
<1>3. merge_into(t, n) = [t EXCEPT !.reference = reference, !.deadline = deadline,
                                   !.urgency = urgency, !.links = links]
  BY DEF merge_into
<1>4. urgency = compute_urgency(deadline)
  OBVIOUS
<1> HIDE DEF reference, deadline, urgency, links
<1>5. /\ merge_into(t, n) \in Tender
      /\ merge_into(t, n).title = t.title /\ merge_into(t, n).fingerprint = t.fingerprint
      /\ merge_into(t, n).active = t.active /\ merge_into(t, n).reference = reference
      /\ merge_into(t, n).deadline = deadline /\ merge_into(t, n).urgency = urgency
      /\ merge_into(t, n).links = links
  BY <1>1, <1>2, <1>3 DEF Tender
<1> QED
  BY <1>4, <1>5 DEF reference, deadline, links

\* The row once a pass has written it.
LEMMA WrittenFields ==
  \A a, b, c \in Tender :
    LET w == Written(a, b, c)
        Field(f) == IF c[f] # b[f] THEN c[f] ELSE a[f]
    IN  /\ w \in Tender
        /\ w.title = Field("title") /\ w.reference = Field("reference")
        /\ w.deadline = Field("deadline") /\ w.fingerprint = Field("fingerprint")
        /\ w.active = Field("active") /\ w.urgency = Field("urgency")
<1> SUFFICES ASSUME NEW a \in Tender, NEW b \in Tender, NEW c \in Tender
             PROVE  LET w == Written(a, b, c)
                        Field(f) == IF c[f] # b[f] THEN c[f] ELSE a[f]
                    IN  /\ w \in Tender
                        /\ w.title = Field("title") /\ w.reference = Field("reference")
                        /\ w.deadline = Field("deadline") /\ w.fingerprint = Field("fingerprint")
                        /\ w.active = Field("active") /\ w.urgency = Field("urgency")
  OBVIOUS
<1> DEFINE Field(f) == IF c[f] # b[f] THEN c[f] ELSE a[f]
<1>1. Written(a, b, c) =
        [title |-> Field("title"), reference |-> Field("reference"), deadline |-> Field("deadline"),
         fingerprint |-> Field("fingerprint"), active |-> Field("active"),
         urgency |-> Field("urgency"), links |-> Field("links")]
  BY DEF Written, Tender
<1>2. /\ Field("title") \in Titles /\ Field("reference") \in References
      /\ Field("deadline") \in Deadlines /\ Field("fingerprint") \in Deadlines
      /\ Field("urgency") \in UrgencyLevels /\ Field("links") \in SUBSET Urls
  BY DEF Tender
<1>3. Field("active") \in BOOLEAN
  BY DEF Tender
<1> HIDE DEF Field
<1>4. Written(a, b, c) \in Tender
  BY <1>1, <1>2, <1>3 DEF Tender
<1>5. LET w == Written(a, b, c)
      IN  /\ w.title = Field("title") /\ w.reference = Field("reference")
          /\ w.deadline = Field("deadline") /\ w.fingerprint = Field("fingerprint")
          /\ w.active = Field("active") /\ w.urgency = Field("urgency")
  BY <1>1
<1> QED
  BY <1>4, <1>5 DEF Field

\* The tenders with t as tender i.
With(i, t) == [j \in DOMAIN tenders \union {i} |-> IF j = i THEN t ELSE tenders[j]]

LEMMA WithIsASequence ==
  ASSUME tenders \in Seq(Tender), NEW i \in 1 .. Len(tenders) + 1, NEW t \in Tender
  PROVE  /\ With(i, t) \in Seq(Tender)
         /\ DOMAIN With(i, t) = DOMAIN tenders \union {i}
         /\ With(i, t)[i] = t
         /\ \A j \in DOMAIN tenders \ {i} : With(i, t)[j] = tenders[j]
         /\ Len(With(i, t)) >= Len(tenders)
<1>1. PICK n \in Nat : DOMAIN tenders \union {i} = 1 .. n
  <2>1. Len(tenders) \in Nat /\ DOMAIN tenders = 1 .. Len(tenders)
    OBVIOUS
  <2>2. CASE i = Len(tenders) + 1
    <3>1. DOMAIN tenders \union {i} = 1 .. Len(tenders) + 1
      BY <2>1, <2>2
    <3> QED
      BY <2>1, <3>1
  <2>3. CASE i # Len(tenders) + 1
    <3>1. DOMAIN tenders \union {i} = 1 .. Len(tenders)
      BY <2>1, <2>3
    <3> QED
      BY <2>1, <3>1
  <2> QED
    BY <2>2, <2>3
<1>2. With(i, t) \in [1 .. n -> Tender]
  BY <1>1 DEF With
<1>3. With(i, t) \in Seq(Tender) /\ Len(With(i, t)) = n
  BY <1>2
<1>4. n >= Len(tenders)
  <2>1. Len(tenders) \in 1 .. n \/ Len(tenders) = 0
    BY <1>1
  <2> QED
    BY <2>1
<1> QED
  BY <1>1, <1>3, <1>4 DEF With

LEMMA RefreshedFields ==
  \A t \in Tender :
    LET r == Refreshed(t)
    IN  /\ r \in Tender
        /\ r.title = t.title /\ r.reference = t.reference /\ r.deadline = t.deadline
        /\ r.fingerprint = t.fingerprint
        /\ r.active => t.active /\ r.urgency = compute_urgency(t.deadline)
        /\ ~ r.active => Expired(t.deadline) \/ ~ t.active
        /\ r.urgency = "none" \/ r.urgency = compute_urgency(t.deadline) \/ r.urgency = t.urgency
<1> SUFFICES ASSUME NEW t \in Tender
             PROVE  LET r == Refreshed(t)
                    IN  /\ r \in Tender
                        /\ r.title = t.title /\ r.reference = t.reference /\ r.deadline = t.deadline
                        /\ r.fingerprint = t.fingerprint
                        /\ r.active => t.active /\ r.urgency = compute_urgency(t.deadline)
                        /\ ~ r.active => Expired(t.deadline) \/ ~ t.active
                        /\ r.urgency = "none" \/ r.urgency = compute_urgency(t.deadline) \/ r.urgency = t.urgency
  OBVIOUS
<1>1. CASE ~ t.active
  BY <1>1 DEF Refreshed
<1>2. CASE t.active /\ Expired(t.deadline)
  <2>1. Refreshed(t) = [t EXCEPT !.active = FALSE, !.urgency = "none"]
    BY <1>2 DEF Refreshed
  <2> QED
    BY <1>2, <2>1 DEF Tender, UrgencyLevels
<1>3. CASE t.active /\ ~ Expired(t.deadline)
  <2> DEFINE u == compute_urgency(t.deadline)
  <2>1. Refreshed(t) = [t EXCEPT !.urgency = u] /\ u \in UrgencyLevels
    BY <1>3, UrgencyOfDeadline DEF Refreshed
  <2> HIDE DEF u
  <2>2. [t EXCEPT !.urgency = u] \in Tender /\ [t EXCEPT !.urgency = u].urgency = u
    BY <2>1 DEF Tender
  <2>3. /\ [t EXCEPT !.urgency = u].title = t.title /\ [t EXCEPT !.urgency = u].reference = t.reference
        /\ [t EXCEPT !.urgency = u].deadline = t.deadline
        /\ [t EXCEPT !.urgency = u].fingerprint = t.fingerprint
        /\ [t EXCEPT !.urgency = u].active = t.active
    BY DEF Tender
  <2> QED
    BY <1>3, <2>1, <2>2, <2>3 DEF u
<1> QED
  BY <1>1, <1>2, <1>3

\* A notice whose address is not linked is merged by its reference first, and
\* makes a new tender only if nothing resembles it.
LEMMA SurestFirst ==
  ASSUME tenders \in Seq(Tender), NEW n, ByUrl(n) = {}, NEW i \in find_duplicate(n)
  PROVE  /\ i \in 0 .. Len(tenders)
         /\ i = 0 => ByReference(n) = {} /\ ByFingerprint(n) = {} /\ ByTitle(n) = {}
         /\ ByReference(n) # {} => i \in ByReference(n)
<1>1. DOMAIN tenders = 1 .. Len(tenders) /\ Len(tenders) \in Nat
  OBVIOUS
<1>2. /\ ByReference(n) \subseteq DOMAIN tenders /\ ByFingerprint(n) \subseteq DOMAIN tenders
      /\ ByTitle(n) \subseteq DOMAIN tenders /\ ByEmbedding(n) \subseteq DOMAIN tenders
  BY DEF ByReference, ByFingerprint, ByTitle, ByEmbedding, Such
<1> DEFINE rules == Rules(n)
           hits == {k \in DOMAIN rules : rules[k] # {}}
<1>3. /\ DOMAIN rules = 1 .. 4 /\ rules[1] = {} /\ rules[2] = ByReference(n)
      /\ rules[3] = ByFingerprint(n) /\ rules[4] = ByTitle(n)
  BY DEF Rules
<1>4. i \in IF hits # {} THEN rules[Min(hits)] ELSE ByEmbedding(n) \union {0}
  BY DEF find_duplicate
<1> HIDE DEF rules
<1>5. CASE hits = {}
  <2>1. ByReference(n) = {} /\ ByFingerprint(n) = {} /\ ByTitle(n) = {}
    BY <1>3, <1>5
  <2> QED
    BY <1>1, <1>2, <1>4, <1>5, <2>1
<1>6. CASE hits # {}
  <2>1. hits \in SUBSET (1 .. 4) /\ 1 \notin hits
    BY <1>3
  <2>2. Min(hits) \in hits /\ \A k \in hits : Min(hits) <= k
    BY <1>6, <2>1, LeastIsThere
  <2>3. i \in rules[Min(hits)] /\ Min(hits) \in {2, 3, 4}
    BY <1>4, <1>6, <2>1, <2>2
  <2>4. i \in DOMAIN tenders
    BY <1>2, <1>3, <2>3
  <2>5. ByReference(n) # {} => Min(hits) = 2
    <3>1. ByReference(n) # {} => 2 \in hits
      BY <1>3
    <3>2. 2 \in hits => Min(hits) <= 2
      BY <2>2
    <3> QED
      BY <2>3, <3>1, <3>2
  <2> QED
    BY <1>1, <1>3, <2>3, <2>4, <2>5
<1> QED
  BY <1>5, <1>6

-----------------------------------------------------------------------------
(* Types. *)

List == Seq(Nat \ {0})

Resting == [pc : {"idle", "collecting", "scoring"}, touched : List]
Matching == [pc : {"matching"}, touched : List, notice : Notice]
Writing == [pc : {"writing"}, touched : List, notice : Notice, match : Nat, read : Tender]

Passing ==
  /\ pass \in [Passes -> Resting \union Matching \union Writing]
  /\ \A p \in Passes :
       /\ Range(pass[p].touched) \subseteq DOMAIN tenders
       /\ pass[p].pc = "writing" => pass[p].match \in 0 .. Len(tenders)
       /\ pass[p].pc = "scoring" => pass[p].touched # << >>
       /\ pass[p].pc = "idle" => pass[p] = Idle

Typed ==
  /\ tenders \in Seq(Tender) /\ unscored \subseteq DOMAIN tenders
  /\ Passing
  /\ today \in Days /\ refreshed \in Days /\ refreshed <= today
  /\ overlapped \in BOOLEAN /\ failed \in BOOLEAN

LEMMA Lists == << >> \in List /\ \A s \in List, i \in Nat \ {0} : Append(s, i) \in List
BY DEF List

LEMMA TypedInit == Init => Typed
<1> SUFFICES ASSUME Init PROVE Typed
  OBVIOUS
<1>1. tenders \in Seq(Tender) /\ unscored \subseteq DOMAIN tenders
  BY DEF Init
<1>2. today \in Days /\ refreshed \in Days /\ refreshed <= today
  BY IngestAssumption DEF Init
<1>3. overlapped \in BOOLEAN
  BY DEF Init
<1>4. failed \in BOOLEAN
  BY DEF Init
<1>5. Idle \in Resting /\ Range(Idle.touched) = {} /\ Idle.pc = "idle"
  BY Lists DEF Idle, Resting, Range
<1>6. Passing
  BY <1>5 DEF Init, Passing
<1> QED
  BY <1>1, <1>2, <1>3, <1>4, <1>6 DEF Typed

\* A pass does p's step, and the tenders only grow in number.
LEMMA PassingStep ==
  ASSUME Passing, NEW p \in Passes, NEW new \in Resting \union Matching \union Writing,
         pass' = [pass EXCEPT ![p] = new],
         DOMAIN tenders \subseteq DOMAIN tenders', Len(tenders) <= Len(tenders'),
         Len(tenders) \in Nat, Len(tenders') \in Nat,
         Range(new.touched) \subseteq DOMAIN tenders',
         new.pc = "writing" => new.match \in 0 .. Len(tenders'),
         new.pc = "scoring" => new.touched # << >>,
         new.pc = "idle" => new = Idle
  PROVE  Passing'
<1>1. pass' \in [Passes -> Resting \union Matching \union Writing]
  BY DEF Passing
<1>2. \A q \in Passes : pass'[q] = IF q = p THEN new ELSE pass[q]
  BY DEF Passing
<1>3. \A q \in Passes \ {p} : pass[q].pc = "writing" => pass[q].match \in 0 .. Len(tenders')
  BY DEF Passing
<1> QED
  BY <1>1, <1>2, <1>3 DEF Passing

LEMMA TailOfList ==
  ASSUME NEW s \in List, s # << >>
  PROVE  /\ Tail(s) \in List /\ Range(Tail(s)) \subseteq Range(s)
         /\ Range(s) \subseteq Range(Tail(s)) \union {Head(s)}
         /\ Len(s) # 1 => Tail(s) # << >>
         /\ Len(s) = 1 => Range(s) = {Head(s)}
<1>1. s \in Seq(Nat \ {0}) /\ Len(s) \in Nat \ {0} /\ DOMAIN s = 1 .. Len(s)
  BY DEF List
<1>2. Tail(s) \in Seq(Nat \ {0}) /\ Len(Tail(s)) = Len(s) - 1 /\ DOMAIN Tail(s) = 1 .. Len(s) - 1
  BY <1>1
<1>3. \A k \in 1 .. Len(s) - 1 : Tail(s)[k] = s[k + 1]
  BY <1>1
<1>4. Range(Tail(s)) \subseteq Range(s)
  BY <1>1, <1>2, <1>3 DEF Range
<1>5. Head(s) = s[1]
  BY <1>1
<1>6. ASSUME NEW k \in 1 .. Len(s) PROVE s[k] \in Range(Tail(s)) \union {Head(s)}
  <2>1. CASE k = 1
    BY <1>5, <2>1
  <2>2. CASE k # 1
    <3>1. k - 1 \in 1 .. Len(s) - 1 /\ s[k] = Tail(s)[k - 1]
      BY <1>1, <1>3, <2>2
    <3> QED
      BY <1>2, <3>1 DEF Range
  <2> QED
    BY <2>1, <2>2
<1>7. Range(s) \subseteq Range(Tail(s)) \union {Head(s)}
  BY <1>1, <1>6 DEF Range
<1>8. Len(s) = 1 => Range(s) = {Head(s)}
  BY <1>1, <1>5 DEF Range
<1>9. Len(s) # 1 => Tail(s) # << >>
  <2>1. Len(s) # 1 => Len(Tail(s)) # 0
    BY <1>1, <1>2
  <2> QED
    BY <2>1
<1> QED
  BY <1>2, <1>4, <1>7, <1>8, <1>9 DEF List

LEMMA TouchedRange ==
  ASSUME Passing, NEW p \in Passes, NEW i \in Nat \ {0}
  PROVE  Touched(p, i) \in List /\ Range(Touched(p, i)) = Range(pass[p].touched) \union {i}
<1> DEFINE s == pass[p].touched
<1>1. s \in List
  BY DEF Passing, Resting, Matching, Writing
<1> HIDE DEF s
<1>2. CASE i \in Range(s)
  BY <1>1, <1>2 DEF Touched, s
<1>3. CASE i \notin Range(s)
  <2>1. Touched(p, i) = Append(s, i)
    BY <1>3 DEF Touched, s
  <2>2. Append(s, i) \in List /\ Range(Append(s, i)) = Range(s) \union {i}
    <3>1. s \in Seq(Nat \ {0})
      BY <1>1 DEF List
    <3>2. /\ Append(s, i) \in Seq(Nat \ {0}) /\ DOMAIN Append(s, i) = 1 .. Len(s) + 1
          /\ Append(s, i)[Len(s) + 1] = i /\ \A k \in 1 .. Len(s) : Append(s, i)[k] = s[k]
      BY <3>1
    <3>3. DOMAIN s = 1 .. Len(s) /\ Len(s) \in Nat
      BY <3>1
    <3>4. 1 .. Len(s) + 1 = (1 .. Len(s)) \union {Len(s) + 1}
      BY <3>3
    <3>5. Range(Append(s, i)) = Range(s) \union {i}
      BY <3>2, <3>3, <3>4 DEF Range
    <3> QED
      BY <3>2, <3>5 DEF List
  <2> QED
    BY <2>1, <2>2 DEF s
<1> QED
  BY <1>2, <1>3

\* What a commit does.
LEMMA CommitStep ==
  ASSUME Typed, NEW p \in Passes, pass[p] \in Writing, NEW i \in 1 .. Len(tenders) + 1, NEW t \in Tender,
         Commit(p, i, t)
  PROVE  /\ tenders' = With(i, t) /\ tenders' \in Seq(Tender) /\ Len(tenders) <= Len(tenders')
         /\ DOMAIN tenders \subseteq DOMAIN tenders' /\ Typed'
         /\ unscored' = unscored \union {i}
         /\ \A q \in Passes \ {p} : pass'[q] = pass[q]
         /\ Range(pass'[p].touched) = Range(pass[p].touched) \union {i}
         /\ pass'[p].pc = "collecting"
<1> DEFINE new == [pc |-> "collecting", touched |-> Touched(p, i)]
<1>1. tenders \in Seq(Tender) /\ Passing
  BY DEF Typed
<1>2. /\ tenders' = With(i, t) /\ unscored' = unscored \union {i}
      /\ pass' = [pass EXCEPT ![p] = new]
      /\ UNCHANGED <<today, refreshed, overlapped, failed>>
  BY DEF Commit, With
<1>3. /\ tenders' \in Seq(Tender) /\ DOMAIN tenders' = DOMAIN tenders \union {i}
      /\ Len(tenders) <= Len(tenders') /\ Len(tenders) \in Nat /\ Len(tenders') \in Nat
  <2>1. /\ With(i, t) \in Seq(Tender) /\ DOMAIN With(i, t) = DOMAIN tenders \union {i}
        /\ Len(With(i, t)) >= Len(tenders)
    BY <1>1, WithIsASequence
  <2>2. Len(tenders) \in Nat /\ Len(With(i, t)) \in Nat
    BY <1>1, <2>1
  <2> QED
    BY <1>2, <2>1, <2>2
<1>4. Touched(p, i) \in List /\ Range(Touched(p, i)) = Range(pass[p].touched) \union {i}
  BY <1>1, TouchedRange
<1>5. /\ new \in Resting \union Matching \union Writing /\ new.pc = "collecting"
      /\ Range(new.touched) = Range(pass[p].touched) \union {i}
      /\ Range(new.touched) \subseteq DOMAIN tenders'
  BY <1>1, <1>3, <1>4 DEF Resting, Passing
<1> HIDE DEF new
<1>6. Passing'
  BY <1>1, <1>2, <1>3, <1>5, PassingStep
<1>7. Typed'
  BY <1>2, <1>3, <1>6 DEF Typed
<1>8. pass'[p] = new /\ \A q \in Passes \ {p} : pass'[q] = pass[q]
  BY <1>1, <1>2 DEF Passing
<1> QED
  BY <1>2, <1>3, <1>5, <1>7, <1>8

\* A pass that does not write changes its own state only.
Moves(p, new) ==
  /\ new \in Resting \union Matching \union Writing
  /\ pass' = [pass EXCEPT ![p] = new]
  /\ Range(new.touched) \subseteq Range(pass[p].touched)
  /\ new.pc = "writing" => new.match \in 0 .. Len(tenders)
  /\ new.pc = "scoring" => new.touched # << >>
  /\ new.pc = "idle" => new = Idle
  /\ UNCHANGED <<tenders, today, refreshed>>

LEMMA MovesStep ==
  ASSUME Typed, NEW p \in Passes, NEW new, Moves(p, new), unscored' \subseteq unscored,
         overlapped' \in BOOLEAN, failed' \in BOOLEAN
  PROVE  Typed' /\ pass'[p] = new /\ \A q \in Passes \ {p} : pass'[q] = pass[q]
<1>1. Passing /\ Len(tenders) \in Nat
  BY DEF Typed
<1>2. Range(new.touched) \subseteq DOMAIN tenders
  BY <1>1 DEF Passing, Moves
<1>3. Passing'
  <2>1. tenders' = tenders /\ Len(tenders) <= Len(tenders) /\ DOMAIN tenders \subseteq DOMAIN tenders
    BY <1>1 DEF Moves
  <2>2. /\ new \in Resting \union Matching \union Writing
        /\ pass' = [pass EXCEPT ![p] = new]
        /\ new.pc = "writing" => new.match \in 0 .. Len(tenders)
        /\ new.pc = "scoring" => new.touched # << >>
        /\ new.pc = "idle" => new = Idle
    BY DEF Moves
  <2> QED
    BY <1>1, <1>2, <2>1, <2>2, PassingStep
<1>4. Typed'
  BY <1>3 DEF Typed, Moves
<1> QED
  BY <1>1, <1>4 DEF Moves, Passing

LEMMA PassOf ==
  ASSUME Typed, NEW p \in Passes
  PROVE  /\ pass[p].touched \in List
         /\ pass[p].pc = "matching" => pass[p] \in Matching
         /\ pass[p].pc = "writing" => pass[p] \in Writing
         /\ pass[p].pc = "idle" <=> pass[p] = Idle
BY DEF Typed, Passing, Resting, Matching, Writing, Idle

LEMMA LaunchStep ==
  ASSUME Typed, NEW p \in Passes, Launch(p)
  PROVE  LET new == [pc |-> "collecting", touched |-> << >>]
         IN  Moves(p, new) /\ pass[p].touched = << >>
<1> DEFINE new == [pc |-> "collecting", touched |-> << >>]
<1>1. new \in Resting /\ Range(new.touched) = {} /\ new.pc = "collecting"
  BY Lists DEF Resting, Range
<1>2. pass' = [pass EXCEPT ![p] = new] /\ UNCHANGED <<tenders, today, refreshed>> /\ pass[p].touched = << >>
  BY DEF Launch, Idle
<1> HIDE DEF new
<1>3. Moves(p, new)
  BY <1>1, <1>2 DEF Moves
<1> QED
  BY <1>2, <1>3 DEF new

LEMMA CollectStep ==
  ASSUME Typed, NEW p \in Passes, NEW source \in Sources, NEW web \in Webs, Collect(p, source, web)
  PROVE  \E n \in Notice : Moves(p, [pc |-> "matching", touched |-> pass[p].touched, notice |-> n])
<1>1. Known \in SUBSET Urls
  <2>1. Range(tenders) \subseteq Tender
    BY DEF Typed, Range
  <2>2. \A t \in Tender : t.links \subseteq Urls
    BY DEF Tender
  <2> QED
    BY <2>1, <2>2 DEF Known
<1>2. PICK n \in ToSet(notices(source, Queries, Known, web)) :
        pass' = [pass EXCEPT ![p] = [pc |-> "matching", touched |-> @.touched, notice |-> n]]
  BY DEF Collect
<1>3. n \in Notice
  BY <1>1, IngestAssumption
<1> DEFINE new == [pc |-> "matching", touched |-> pass[p].touched, notice |-> n]
<1>4. new \in Matching /\ new.touched = pass[p].touched /\ new.pc = "matching"
  BY <1>3, PassOf DEF Matching
<1>5. pass' = [pass EXCEPT ![p] = new] /\ UNCHANGED <<tenders, today, refreshed>>
  BY <1>2 DEF Collect
<1> HIDE DEF new
<1>6. Moves(p, new)
  BY <1>4, <1>5 DEF Moves
<1> QED
  BY <1>3, <1>6 DEF new

LEMMA SkipStep ==
  ASSUME Typed, NEW p \in Passes, Skip(p)
  PROVE  Moves(p, [pc |-> "collecting", touched |-> pass[p].touched])
<1> DEFINE new == [pc |-> "collecting", touched |-> pass[p].touched]
<1>1. new \in Resting /\ new.touched = pass[p].touched /\ new.pc = "collecting"
  BY PassOf DEF Resting
<1>2. pass' = [pass EXCEPT ![p] = new] /\ UNCHANGED <<tenders, today, refreshed>>
  BY DEF Skip
<1> HIDE DEF new
<1>3. Moves(p, new)
  BY <1>1, <1>2 DEF Moves
<1> QED
  BY <1>3 DEF new

LEMMA MatchStep ==
  ASSUME Typed, NEW p \in Passes, NEW i \in 0 .. MaxTenders, Match(p, i)
  PROVE  LET n == pass[p].notice
             read == IF i = 0 THEN create(n) ELSE tenders[i]
         IN  /\ n \in Notice /\ read \in Tender /\ ByUrl(n) = {} /\ i \in find_duplicate(n)
             /\ i \in 0 .. Len(tenders)
             /\ Moves(p, [pc |-> "writing", touched |-> pass[p].touched, notice |-> n, match |-> i,
                          read |-> read])
<1> DEFINE n == pass[p].notice
           read == IF i = 0 THEN create(n) ELSE tenders[i]
           new == [pc |-> "writing", touched |-> pass[p].touched, notice |-> n, match |-> i, read |-> read]
<1>1. pass[p] \in Matching /\ ByUrl(n) = {} /\ i \in find_duplicate(n)
  BY PassOf DEF Match
<1>2. n \in Notice /\ pass[p].touched \in List
  BY <1>1 DEF Matching
<1>3. tenders \in Seq(Tender)
  BY DEF Typed
<1>4. i \in 0 .. Len(tenders)
  BY <1>1, <1>3, SurestFirst
<1>5. read \in Tender
  BY <1>2, <1>3, <1>4, CreateType
<1>6. pass' = [pass EXCEPT ![p] = new] /\ UNCHANGED <<tenders, today, refreshed>>
  BY DEF Match
<1> HIDE DEF n, read
<1>7. i \in Nat
  BY <1>3, <1>4
<1>8. /\ new \in Writing /\ new.touched = pass[p].touched /\ new.pc = "writing" /\ new.match = i
  BY <1>2, <1>5, <1>7 DEF Writing
<1> HIDE DEF new
<1>9. Moves(p, new)
  BY <1>4, <1>6, <1>8 DEF Moves
<1> QED
  BY <1>1, <1>2, <1>4, <1>5, <1>9 DEF n, read, new

LEMMA FinishStep ==
  ASSUME Typed, NEW p \in Passes, Finish(p)
  PROVE  \E new : /\ Moves(p, new) /\ Range(new.touched) = Range(pass[p].touched)
                  /\ new.pc \in {"idle", "scoring"}
<1>1. CASE pass[p].touched = << >>
  <2>1. Idle \in Resting /\ Idle.touched = << >> /\ Idle.pc = "idle" /\ Range(<< >>) = {}
    BY Lists DEF Resting, Idle, Range
  <2>2. pass' = [pass EXCEPT ![p] = Idle] /\ UNCHANGED <<tenders, today, refreshed>>
    BY <1>1 DEF Finish
  <2>3. Moves(p, Idle)
    BY <2>1, <2>2 DEF Moves
  <2> QED
    BY <1>1, <2>1, <2>3
<1>2. CASE pass[p].touched # << >>
  <2> DEFINE new == [pc |-> "scoring", touched |-> pass[p].touched]
  <2>1. new \in Resting /\ new.touched = pass[p].touched /\ new.pc = "scoring"
    BY PassOf DEF Resting
  <2>2. pass' = [pass EXCEPT ![p] = new] /\ UNCHANGED <<tenders, today, refreshed>>
    BY <1>2 DEF Finish
  <2> HIDE DEF new
  <2>3. Moves(p, new)
    BY <1>2, <2>1, <2>2 DEF Moves
  <2> QED
    BY <2>1, <2>3
<1> QED
  BY <1>1, <1>2

LEMMA EnqueueStep ==
  ASSUME Typed, NEW p \in Passes, EnqueueScoring(p)
  PROVE  /\ unscored' = unscored \ {Head(pass[p].touched)}
         /\ \E new : /\ Moves(p, new) /\ new.pc \in {"idle", "scoring"}
                     /\ Range(pass[p].touched) \subseteq Range(new.touched) \union {Head(pass[p].touched)}
<1> DEFINE s == pass[p].touched
<1>1. s \in List /\ s # << >> /\ pass[p].pc = "scoring"
  BY PassOf DEF EnqueueScoring, Typed, Passing
<1>2. unscored' = unscored \ {Head(s)} /\ UNCHANGED <<tenders, today, refreshed>>
  BY DEF EnqueueScoring
<1>3. CASE Len(s) = 1
  <2>1. Idle \in Resting /\ Range(Idle.touched) = {} /\ Idle.pc = "idle"
    BY Lists DEF Resting, Idle, Range
  <2>2. pass' = [pass EXCEPT ![p] = Idle]
    BY <1>3 DEF EnqueueScoring
  <2>3. Moves(p, Idle)
    BY <1>2, <2>1, <2>2 DEF Moves
  <2>4. Range(s) = {Head(s)}
    BY <1>1, <1>3, TailOfList
  <2> QED
    BY <1>2, <2>1, <2>3, <2>4
<1>4. CASE Len(s) # 1
  <2> DEFINE new == [pc |-> "scoring", touched |-> Tail(s)]
  <2>3. pass' = [pass EXCEPT ![p] = new]
    BY <1>4 DEF EnqueueScoring
  <2>4. /\ Tail(s) \in List /\ Range(Tail(s)) \subseteq Range(s) /\ Tail(s) # << >>
        /\ Range(s) \subseteq Range(Tail(s)) \union {Head(s)}
    BY <1>1, <1>4, TailOfList
  <2>5. new \in Resting /\ new.touched = Tail(s) /\ new.pc = "scoring"
    BY <2>4 DEF Resting
  <2> HIDE DEF new
  <2>6. Moves(p, new)
    BY <1>2, <2>3, <2>4, <2>5 DEF Moves
  <2> QED
    BY <1>2, <2>4, <2>5, <2>6
<1> QED
  BY <1>3, <1>4

LEMMA FailStep ==
  ASSUME Typed, NEW p \in Passes, Fail(p)
  PROVE  Moves(p, Idle)
<1>1. Idle \in Resting /\ Range(Idle.touched) = {} /\ Idle.pc = "idle"
  BY Lists DEF Resting, Idle, Range
<1> QED
  BY <1>1 DEF Fail, Moves

LEMMA RefreshStep ==
  ASSUME Typed, RefreshDeadlines
  PROVE  /\ tenders' \in Seq(Tender) /\ DOMAIN tenders' = DOMAIN tenders /\ Len(tenders') = Len(tenders)
         /\ \A i \in DOMAIN tenders : tenders'[i] = Refreshed(tenders[i])
<1>1. tenders \in Seq(Tender) /\ DOMAIN tenders = 1 .. Len(tenders) /\ Len(tenders) \in Nat
  BY DEF Typed
<1>2. tenders' = [i \in 1 .. Len(tenders) |-> Refreshed(tenders[i])]
  BY <1>1 DEF RefreshDeadlines
<1>3. \A i \in 1 .. Len(tenders) : Refreshed(tenders[i]) \in Tender
  BY <1>1, RefreshedFields
<1>4. tenders' \in [1 .. Len(tenders) -> Tender]
  BY <1>2, <1>3
<1>5. tenders' \in Seq(Tender) /\ Len(tenders') = Len(tenders)
  BY <1>1, <1>4
<1> QED
  BY <1>1, <1>2, <1>5

\* The tender that a pass writes.
Merged(p) ==
  LET i == pass[p].match
      new == Written(tenders[i], pass[p].read, merge_into(pass[p].read, pass[p].notice))
  IN  [new EXCEPT !.links = tenders[i].links \union @]

LEMMA MergedFields ==
  ASSUME tenders \in Seq(Tender), NEW p \in Passes, pass[p] \in Writing, pass[p].match \in DOMAIN tenders
  PROVE  LET new == Written(tenders[pass[p].match], pass[p].read, merge_into(pass[p].read, pass[p].notice))
         IN  /\ Merged(p) \in Tender
             /\ Merged(p).title = new.title /\ Merged(p).reference = new.reference
             /\ Merged(p).deadline = new.deadline /\ Merged(p).fingerprint = new.fingerprint
             /\ Merged(p).active = new.active /\ Merged(p).urgency = new.urgency
<1> DEFINE t == tenders[pass[p].match]
           new == Written(t, pass[p].read, merge_into(pass[p].read, pass[p].notice))
           links == t.links \union new.links
<1>1. t \in Tender /\ pass[p].read \in Tender /\ pass[p].notice \in Notice
  BY DEF Writing
<1>2. merge_into(pass[p].read, pass[p].notice) \in Tender
  BY <1>1, MergeIntoFields
<1>3. new \in Tender
  BY <1>1, <1>2, WrittenFields
<1>4. links \in SUBSET Urls
  BY <1>1, <1>3 DEF Tender
<1>5. Merged(p) = [new EXCEPT !.links = links]
  BY DEF Merged
<1> HIDE DEF new, links
<1>6. /\ Merged(p) \in Tender
      /\ Merged(p).title = new.title /\ Merged(p).reference = new.reference
      /\ Merged(p).deadline = new.deadline /\ Merged(p).fingerprint = new.fingerprint
      /\ Merged(p).active = new.active /\ Merged(p).urgency = new.urgency
  BY <1>3, <1>4, <1>5 DEF Tender
<1> QED
  BY <1>6 DEF new

LEMMA CreateStep ==
  ASSUME Typed, NEW p \in Passes, Create(p)
  PROVE  LET i == Len(tenders) + 1
             n == pass[p].notice
         IN  /\ pass[p] \in Writing /\ pass[p].match = 0 /\ n \in Notice
             /\ i \in 1 .. Len(tenders) + 1 /\ create(n) \in Tender /\ Commit(p, i, create(n))
<1>1. pass[p] \in Writing /\ pass[p].match = 0
  BY PassOf DEF Create
<1>2. pass[p].notice \in Notice
  BY <1>1 DEF Writing
<1>3. Len(tenders) + 1 \in 1 .. Len(tenders) + 1
  BY DEF Typed
<1> QED
  BY <1>1, <1>2, <1>3, CreateType DEF Create

LEMMA MergeStep ==
  ASSUME Typed, NEW p \in Passes, Merge(p)
  PROVE  LET i == pass[p].match
         IN  /\ pass[p] \in Writing /\ i \in DOMAIN tenders /\ i \in 1 .. Len(tenders) + 1
             /\ Merged(p) \in Tender /\ Commit(p, i, Merged(p))
<1>1. pass[p] \in Writing /\ pass[p].match # 0 /\ pass[p].match \in 0 .. Len(tenders)
  BY PassOf DEF Merge, Typed, Passing
<1>2. tenders \in Seq(Tender)
  BY DEF Typed
<1>3. pass[p].match \in DOMAIN tenders /\ pass[p].match \in 1 .. Len(tenders) + 1
  BY <1>1, <1>2
<1>4. Merged(p) \in Tender
  BY <1>1, <1>2, <1>3, MergedFields
<1> QED
  BY <1>1, <1>3, <1>4 DEF Merge, Merged

LEMMA TypedStep == Typed /\ [Next]_vars => Typed'
<1> SUFFICES ASSUME Typed, [Next]_vars PROVE Typed'
  OBVIOUS
<1>b. overlapped \in BOOLEAN /\ failed \in BOOLEAN
  BY DEF Typed
<1>1. CASE Midnight
  <2>1. today' \in Days /\ today' > today /\ UNCHANGED <<tenders, unscored, pass, refreshed, overlapped, failed>>
    BY <1>1 DEF Midnight
  <2>2. refreshed <= today'
    BY <2>1, IngestAssumption DEF Typed
  <2> QED
    BY <2>1, <2>2 DEF Typed, Passing
<1>2. CASE RefreshDeadlines
  <2>1. UNCHANGED <<unscored, pass, today, overlapped, failed>> /\ refreshed' = today
    BY <1>2 DEF RefreshDeadlines
  <2>2. /\ tenders' \in Seq(Tender) /\ DOMAIN tenders' = DOMAIN tenders
        /\ Len(tenders') = Len(tenders)
    BY <1>2, RefreshStep
  <2>3. today' <= today
    BY <2>1, IngestAssumption DEF Typed
  <2> QED
    BY <2>1, <2>2, <2>3 DEF Typed, Passing
<1>3. ASSUME NEW p \in Passes, Launch(p) PROVE Typed'
  <2>1. overlapped' \in BOOLEAN
    BY <1>3, <1>b DEF Launch
  <2>2. failed' \in BOOLEAN /\ unscored' \subseteq unscored
    BY <1>3, <1>b DEF Launch
  <2> QED
    BY <1>3, <2>1, <2>2, LaunchStep, MovesStep
<1>4. ASSUME NEW p \in Passes, NEW source \in Sources, NEW web \in Webs, Collect(p, source, web)
      PROVE  Typed'
  <2>1. failed' \in BOOLEAN /\ overlapped' \in BOOLEAN /\ unscored' \subseteq unscored
    BY <1>4, <1>b DEF Collect
  <2> QED
    BY <1>4, <2>1, CollectStep, MovesStep
<1>5. ASSUME NEW p \in Passes, Skip(p) PROVE Typed'
  <2>1. failed' \in BOOLEAN /\ overlapped' \in BOOLEAN /\ unscored' \subseteq unscored
    BY <1>5, <1>b DEF Skip
  <2> QED
    BY <1>5, <2>1, SkipStep, MovesStep
<1>6. ASSUME NEW p \in Passes, NEW i \in 0 .. MaxTenders, Match(p, i) PROVE Typed'
  <2>1. failed' \in BOOLEAN /\ overlapped' \in BOOLEAN /\ unscored' \subseteq unscored
    BY <1>6, <1>b DEF Match
  <2> QED
    BY <1>6, <2>1, MatchStep, MovesStep
<1>7. ASSUME NEW p \in Passes, Finish(p) PROVE Typed'
  <2>1. failed' \in BOOLEAN /\ overlapped' \in BOOLEAN /\ unscored' \subseteq unscored
    BY <1>7, <1>b DEF Finish
  <2> QED
    BY <1>7, <2>1, FinishStep, MovesStep
<1>8. ASSUME NEW p \in Passes, EnqueueScoring(p) PROVE Typed'
  <2>1. failed' \in BOOLEAN /\ overlapped' \in BOOLEAN /\ unscored' \subseteq unscored
    BY <1>8, <1>b DEF EnqueueScoring
  <2> QED
    BY <1>8, <2>1, EnqueueStep, MovesStep
<1>9. ASSUME NEW p \in Passes, Fail(p) PROVE Typed'
  <2>1. failed' \in BOOLEAN
    BY <1>9 DEF Fail
  <2>2. overlapped' \in BOOLEAN /\ unscored' \subseteq unscored
    BY <1>9, <1>b DEF Fail
  <2> QED
    BY <1>9, <2>1, <2>2, FailStep, MovesStep
<1>10. ASSUME NEW p \in Passes, Create(p) PROVE Typed'
  BY <1>10, CreateStep, CommitStep
<1>11. ASSUME NEW p \in Passes, Merge(p) PROVE Typed'
  BY <1>11, MergeStep, CommitStep
<1>12. CASE UNCHANGED vars
  BY <1>12 DEF vars, Typed, Passing
<1> QED
  BY <1>1, <1>2, <1>3, <1>4, <1>5, <1>6, <1>7, <1>8, <1>9, <1>10, <1>11, <1>12 DEF Next

\* Type correctness.
THEOREM IngestTypesAreKept == Spec => []TypeOK
<1>1. Typed => TypeOK
  <2> SUFFICES ASSUME Typed PROVE TypeOK
    OBVIOUS
  <2>1. ASSUME NEW p \in Passes
        PROVE  /\ pass[p].pc \in {"idle", "collecting", "matching", "writing", "scoring"}
               /\ pass[p].touched \in Seq(DOMAIN tenders)
    <3>1. pass[p].touched \in Seq(Nat \ {0}) /\ Range(pass[p].touched) \subseteq DOMAIN tenders
      BY PassOf DEF List, Typed, Passing
    <3>2. \A k \in 1 .. Len(pass[p].touched) : pass[p].touched[k] \in DOMAIN tenders
      BY <3>1 DEF Range
    <3>3. pass[p].touched \in Seq(DOMAIN tenders)
      BY <3>1, <3>2
    <3>4. pass[p].pc \in {"idle", "collecting", "matching", "writing", "scoring"}
      BY DEF Typed, Passing, Resting, Matching, Writing
    <3> QED
      BY <3>3, <3>4
  <2> QED
    BY <2>1 DEF Typed, TypeOK
<1> QED
  BY <1>1, TypedInit, TypedStep, PTL DEF Spec

-----------------------------------------------------------------------------
(* Scores. *)

LEMMA ScoredStep == Typed /\ WillBeScored /\ [Next]_vars => WillBeScored'
<1> SUFFICES ASSUME Typed, WillBeScored, [Next]_vars, ~ failed',
                    NEW i \in unscored'
             PROVE  \E p \in Passes : i \in Range(pass'[p].touched)
  BY DEF WillBeScored
<1> DEFINE Listed == \E p \in Passes : i \in Range(pass'[p].touched)
<1>0. i \in unscored /\ ~ failed => \E q \in Passes : i \in Range(pass[q].touched)
  BY DEF WillBeScored
<1>m. ASSUME NEW p \in Passes, NEW new, Moves(p, new), i \in unscored, ~ failed,
             i \in Range(pass[p].touched) => i \in Range(new.touched)
      PROVE  Listed
  <2>1. pass'[p] = new /\ \A q \in Passes \ {p} : pass'[q] = pass[q]
    BY <1>m DEF Moves, Typed, Passing
  <2> QED
    BY <1>0, <1>m, <2>1
<1>c. ASSUME NEW p \in Passes, NEW k, NEW t \in Tender, pass[p] \in Writing, k \in 1 .. Len(tenders) + 1,
             Commit(p, k, t)
      PROVE  Listed
  <2>1. /\ unscored' = unscored \union {k}
        /\ \A q \in Passes \ {p} : pass'[q] = pass[q]
        /\ Range(pass'[p].touched) = Range(pass[p].touched) \union {k}
    BY <1>c, CommitStep
  <2>2. ~ failed
    BY <1>c DEF Commit
  <2> QED
    BY <1>0, <2>1, <2>2
<1>1. CASE Midnight \/ RefreshDeadlines \/ UNCHANGED vars
  BY <1>0, <1>1 DEF Midnight, RefreshDeadlines, vars
<1>2. ASSUME NEW p \in Passes, Launch(p) PROVE Listed
  <2>1. i \in unscored /\ ~ failed
    BY <1>2 DEF Launch
  <2>2. Moves(p, [pc |-> "collecting", touched |-> << >>]) /\ pass[p].touched = << >>
    BY <1>2, LaunchStep
  <2> QED
    BY <1>m, <2>1, <2>2 DEF Range
<1>3. ASSUME NEW p \in Passes, NEW source \in Sources, NEW web \in Webs, Collect(p, source, web)
      PROVE  Listed
  <2>1. i \in unscored /\ ~ failed
    BY <1>3 DEF Collect
  <2> QED
    BY <1>3, <1>m, <2>1, CollectStep
<1>4. ASSUME NEW p \in Passes, Skip(p) PROVE Listed
  <2>1. i \in unscored /\ ~ failed
    BY <1>4 DEF Skip
  <2> QED
    BY <1>4, <1>m, <2>1, SkipStep
<1>5. ASSUME NEW p \in Passes, NEW k \in 0 .. MaxTenders, Match(p, k) PROVE Listed
  <2>1. i \in unscored /\ ~ failed
    BY <1>5 DEF Match
  <2> QED
    BY <1>5, <1>m, <2>1, MatchStep
<1>6. ASSUME NEW p \in Passes, Finish(p) PROVE Listed
  <2>1. i \in unscored /\ ~ failed
    BY <1>6 DEF Finish
  <2> QED
    BY <1>6, <1>m, <2>1, FinishStep
<1>7. ASSUME NEW p \in Passes, EnqueueScoring(p) PROVE Listed
  <2>1. ~ failed
    BY <1>7 DEF EnqueueScoring
  <2>2. i \in unscored /\ i # Head(pass[p].touched)
    BY <1>7, EnqueueStep
  <2> QED
    BY <1>7, <1>m, <2>1, <2>2, EnqueueStep
<1>8. ASSUME NEW p \in Passes, Fail(p) PROVE Listed
  BY <1>8 DEF Fail
<1>9. ASSUME NEW p \in Passes, Create(p) PROVE Listed
  BY <1>9, <1>c, CreateStep
<1>10. ASSUME NEW p \in Passes, Merge(p) PROVE Listed
  BY <1>10, <1>c, MergeStep
<1> QED
  BY <1>1, <1>2, <1>3, <1>4, <1>5, <1>6, <1>7, <1>8, <1>9, <1>10 DEF Next

\* However the passes overlap, no tender that one of them touched is forgotten
\* as long as none has failed.
THEOREM TouchedWillBeScored == Spec => []WillBeScored
<1>1. Init => WillBeScored
  BY DEF Init, WillBeScored
<1> QED
  BY <1>1, TypedInit, TypedStep, ScoredStep, PTL DEF Spec

-----------------------------------------------------------------------------
(* Passes that do not overlap. *)

OnePass == \A p, q \in Passes : pass[p] # Idle /\ pass[q] # Idle => p = q

Twins(t, u) ==
  \/ t.reference = u.reference /\ t.reference # "none"
  \/ t.title = u.title /\ (t.fingerprint = u.fingerprint \/ (t.active /\ u.active))

\* What a pass that is about to write has found is still so.
StillNew(n) == ByReference(n) = {} /\ ByFingerprint(n) = {} /\ ByTitle(n) = {}

StillTheSame(row, t, n) ==
  /\ row.title = t.title /\ row.reference = t.reference /\ row.deadline = t.deadline
  /\ row.fingerprint = t.fingerprint
  /\ t.reference = "none" /\ n.reference # "none" => ByReference(n) = {}
  /\ row.deadline = {} => row.urgency = "none"

Found ==
  \A p \in Passes : pass[p].pc = "writing" =>
    IF pass[p].match = 0 THEN StillNew(pass[p].notice)
    ELSE StillTheSame(pass[p].read, tenders[pass[p].match], pass[p].notice)

Distinct == \A i, j \in DOMAIN tenders : i # j => ~ Twins(tenders[i], tenders[j])

\* Of a tender, what depends on the day and on the nightly task.
Dated(t) ==
  /\ ~ t.active => Expired(t.deadline)
  /\ t.active /\ refreshed = today => t.urgency = compute_urgency(t.deadline)
  /\ t.deadline = {} => t.urgency = "none"

Solo ==
  /\ Typed
  /\ ~ overlapped => OnePass /\ Found /\ Distinct /\ \A i \in DOMAIN tenders : Dated(tenders[i])

LEMMA SoloInit == Init => Solo
<1> SUFFICES ASSUME Init PROVE Solo
  OBVIOUS
<1>1. \A p \in Passes : pass[p] = Idle /\ pass[p].pc = "idle"
  BY DEF Init, Idle
<1>2. DOMAIN tenders = {}
  BY DEF Init
<1> QED
  BY <1>1, <1>2, TypedInit DEF Solo, OnePass, Found, Distinct

\* The new tender is the twin of none.
LEMMA NewIsDistinct ==
  ASSUME tenders \in Seq(Tender), NEW n \in Notice, StillNew(n), NEW j \in DOMAIN tenders
  PROVE  ~ Twins(create(n), tenders[j]) /\ ~ Twins(tenders[j], create(n))
<1>1. /\ create(n).title = n.title /\ create(n).reference = n.reference
      /\ create(n).fingerprint = n.deadline
  BY DEF create
<1>2. ~ (n.reference # "none" /\ tenders[j].reference = n.reference)
  BY DEF StillNew, ByReference, Such
<1>3. ~ (tenders[j].title = n.title /\ tenders[j].fingerprint = n.deadline)
  BY DEF StillNew, ByFingerprint, Such
<1>4. ~ (tenders[j].active /\ tenders[j].title = n.title)
  BY DEF StillNew, ByTitle, Such
<1> QED
  BY <1>1, <1>2, <1>3, <1>4 DEF Twins

\* What a merge makes of a tender that is as the pass read it.
LEMMA MergedWhenSame ==
  ASSUME tenders \in Seq(Tender), NEW p \in Passes, pass[p] \in Writing, pass[p].match \in DOMAIN tenders,
         StillTheSame(pass[p].read, tenders[pass[p].match], pass[p].notice)
  PROVE  LET t == tenders[pass[p].match]
             n == pass[p].notice
             m == Merged(p)
         IN  /\ m.title = t.title /\ m.fingerprint = t.fingerprint /\ m.active = t.active
             /\ m.reference = (IF t.reference = "none" THEN n.reference ELSE t.reference)
             /\ m.deadline = (IF t.deadline = {} THEN n.deadline ELSE t.deadline)
             /\ m.urgency = (IF compute_urgency(m.deadline) # pass[p].read.urgency
                             THEN compute_urgency(m.deadline) ELSE t.urgency)
<1> DEFINE t == tenders[pass[p].match]
           n == pass[p].notice
           row == pass[p].read
           new == merge_into(row, n)
           w == Written(t, row, new)
<1>1. t \in Tender /\ row \in Tender /\ n \in Notice
  BY DEF Writing
<1>2. /\ row.title = t.title /\ row.reference = t.reference /\ row.deadline = t.deadline
      /\ row.fingerprint = t.fingerprint
  BY DEF StillTheSame
<1>3. /\ Merged(p).title = w.title /\ Merged(p).reference = w.reference
      /\ Merged(p).deadline = w.deadline /\ Merged(p).fingerprint = w.fingerprint
      /\ Merged(p).active = w.active /\ Merged(p).urgency = w.urgency
  BY MergedFields
<1> HIDE DEF t, n, row
<1>4. /\ new \in Tender
      /\ new.title = row.title /\ new.fingerprint = row.fingerprint /\ new.active = row.active
      /\ new.reference = (IF row.reference = "none" THEN n.reference ELSE row.reference)
      /\ new.deadline = (IF row.deadline = {} THEN n.deadline ELSE row.deadline)
      /\ new.urgency = compute_urgency(new.deadline)
  BY <1>1, MergeIntoFields
<1> HIDE DEF new
<1>5. /\ w.title = (IF new.title # row.title THEN new.title ELSE t.title)
      /\ w.reference = (IF new.reference # row.reference THEN new.reference ELSE t.reference)
      /\ w.deadline = (IF new.deadline # row.deadline THEN new.deadline ELSE t.deadline)
      /\ w.fingerprint = (IF new.fingerprint # row.fingerprint THEN new.fingerprint ELSE t.fingerprint)
      /\ w.active = (IF new.active # row.active THEN new.active ELSE t.active)
      /\ w.urgency = (IF new.urgency # row.urgency THEN new.urgency ELSE t.urgency)
  BY <1>1, <1>4, WrittenFields
<1> HIDE DEF w
<1>6. w.deadline = (IF t.deadline = {} THEN n.deadline ELSE t.deadline) /\ w.deadline = new.deadline
  BY <1>2, <1>4, <1>5
<1>7. w.reference = (IF t.reference = "none" THEN n.reference ELSE t.reference)
  BY <1>2, <1>4, <1>5
<1>8. w.title = t.title /\ w.fingerprint = t.fingerprint /\ w.active = t.active
  BY <1>4, <1>5
<1>9. w.urgency = (IF compute_urgency(w.deadline) # row.urgency THEN compute_urgency(w.deadline) ELSE t.urgency)
  BY <1>4, <1>5, <1>6
<1> QED
  BY <1>3, <1>6, <1>7, <1>8, <1>9 DEF t, n, row

LEMMA TwinsOfEachOther == \A t, u : Twins(t, u) => Twins(u, t)
<1> SUFFICES ASSUME NEW t, NEW u, Twins(t, u) PROVE Twins(u, t)
  OBVIOUS
<1>1. CASE t.reference = u.reference /\ t.reference # "none"
  BY <1>1 DEF Twins
<1>2. CASE t.title = u.title /\ t.fingerprint = u.fingerprint
  BY <1>2 DEF Twins
<1>3. CASE t.title = u.title /\ t.active /\ u.active
  BY <1>3 DEF Twins
<1> QED
  BY <1>1, <1>2, <1>3 DEF Twins

LEMMA MergedIsDistinct ==
  ASSUME tenders \in Seq(Tender), NEW p \in Passes, pass[p] \in Writing, pass[p].match \in DOMAIN tenders,
         StillTheSame(pass[p].read, tenders[pass[p].match], pass[p].notice), Distinct,
         NEW j \in DOMAIN tenders \ {pass[p].match}
  PROVE  ~ Twins(Merged(p), tenders[j]) /\ ~ Twins(tenders[j], Merged(p))
<1> DEFINE t == tenders[pass[p].match]
           n == pass[p].notice
           m == Merged(p)
<1>1. /\ m.title = t.title /\ m.fingerprint = t.fingerprint /\ m.active = t.active
      /\ m.reference = (IF t.reference = "none" THEN n.reference ELSE t.reference)
  BY MergedWhenSame
<1>2. ~ Twins(t, tenders[j])
  BY DEF Distinct
<1>3. t.reference = "none" /\ n.reference # "none" => tenders[j].reference # n.reference
  BY DEF StillTheSame, ByReference, Such
<1> HIDE DEF t, n, m
<1>4. CASE t.reference = "none"
  <2>1. ~ Twins(m, tenders[j])
    BY <1>1, <1>2, <1>3, <1>4 DEF Twins
  <2> QED
    BY <2>1, TwinsOfEachOther DEF m
<1>5. CASE t.reference # "none"
  <2>1. ~ Twins(m, tenders[j])
    BY <1>1, <1>2, <1>5 DEF Twins
  <2> QED
    BY <2>1, TwinsOfEachOther DEF m
<1> QED
  BY <1>4, <1>5

LEMMA MergedIsDated ==
  ASSUME tenders \in Seq(Tender), NEW p \in Passes, pass[p] \in Writing, pass[p].match \in DOMAIN tenders,
         StillTheSame(pass[p].read, tenders[pass[p].match], pass[p].notice),
         Dated(tenders[pass[p].match])
  PROVE  Dated(Merged(p))
<1> DEFINE t == tenders[pass[p].match]
           n == pass[p].notice
           row == pass[p].read
           m == Merged(p)
<1>1. /\ m.active = t.active
      /\ m.deadline = (IF t.deadline = {} THEN n.deadline ELSE t.deadline)
      /\ m.urgency = (IF compute_urgency(m.deadline) # row.urgency
                      THEN compute_urgency(m.deadline) ELSE t.urgency)
  BY MergedWhenSame
<1>2. row.deadline = t.deadline /\ (row.deadline = {} => row.urgency = "none")
  BY DEF StillTheSame
<1>3. ~ Expired({})
  BY DEF Expired
<1>4. compute_urgency(m.deadline) = "none" <=> m.deadline = {}
  BY UrgencyOfDeadline
<1> HIDE DEF t, n, row, m
<1>5. Dated(t)
  BY DEF t
<1>6. ~ m.active => Expired(m.deadline)
  BY <1>1, <1>3, <1>5 DEF Dated
<1>7. m.active /\ refreshed = today => m.urgency = compute_urgency(m.deadline)
  BY <1>1, <1>2, <1>4, <1>5 DEF Dated
<1>8. m.deadline = {} => m.urgency = "none"
  BY <1>1, <1>4, <1>5 DEF Dated
<1> QED
  BY <1>6, <1>7, <1>8 DEF Dated, m

LEMMA CreatedIsDated ==
  ASSUME NEW n \in Notice
  PROVE  Dated(create(n))
<1>1. /\ create(n).active = ~ Expired(n.deadline) /\ create(n).deadline = n.deadline
      /\ create(n).urgency = (IF Expired(n.deadline) THEN "none" ELSE compute_urgency(n.deadline))
  BY DEF create
<1>2. compute_urgency(n.deadline) = "none" <=> n.deadline = {}
  BY UrgencyOfDeadline
<1> QED
  BY <1>1, <1>2 DEF Dated

LEMMA SameDay ==
  ASSUME today' = today
  PROVE  \A d : (Expired(d)' <=> Expired(d)) /\ compute_urgency(d)' = compute_urgency(d)
BY DEF Expired, compute_urgency

LEMMA DatedSameDay ==
  ASSUME UNCHANGED <<today, refreshed>>
  PROVE  \A t : Dated(t) => Dated(t)'
<1> SUFFICES ASSUME NEW t, Dated(t) PROVE Dated(t)'
  OBVIOUS
<1>1. (Expired(t.deadline)' <=> Expired(t.deadline))
      /\ compute_urgency(t.deadline)' = compute_urgency(t.deadline)
  BY SameDay
<1> QED
  BY <1>1 DEF Dated

\* A pass that moves without writing.
LEMMA SoloMove ==
  ASSUME Solo, ~ overlapped, NEW p \in Passes, pass[p] # Idle, NEW new, Moves(p, new), new.pc # "writing"
  PROVE  OnePass' /\ Found' /\ Distinct' /\ \A i \in DOMAIN tenders' : Dated(tenders[i])'
<1>1. UNCHANGED <<tenders, today, refreshed>> /\ pass'[p] = new
      /\ \A q \in Passes \ {p} : pass'[q] = pass[q]
  BY DEF Moves, Solo, Typed, Passing
<1>2. OnePass'
  BY <1>1 DEF Solo, OnePass
<1>3. Found'
  BY <1>1 DEF Solo, Found, StillNew, StillTheSame, ByReference, ByFingerprint, ByTitle, Such
<1>4. Distinct'
  BY <1>1 DEF Solo, Distinct
<1>5. \A i \in DOMAIN tenders' : Dated(tenders[i])'
  BY <1>1, DatedSameDay DEF Solo
<1> QED
  BY <1>2, <1>3, <1>4, <1>5

\* A pass that writes a tender that is the twin of no other.
LEMMA SoloCommit ==
  ASSUME Solo, ~ overlapped, NEW p \in Passes, pass[p] \in Writing,
         NEW k \in 1 .. Len(tenders) + 1, NEW t \in Tender, Commit(p, k, t), Dated(t),
         \A j \in DOMAIN tenders \ {k} : ~ Twins(t, tenders[j]) /\ ~ Twins(tenders[j], t)
  PROVE  OnePass' /\ Found' /\ Distinct' /\ \A i \in DOMAIN tenders' : Dated(tenders[i])'
<1>1. tenders \in Seq(Tender) /\ Typed
  BY DEF Solo, Typed
<1>2. /\ tenders' = With(k, t) /\ pass'[p].pc = "collecting"
      /\ \A q \in Passes \ {p} : pass'[q] = pass[q]
  BY <1>1, CommitStep
<1>3. /\ DOMAIN tenders' = DOMAIN tenders \union {k} /\ tenders'[k] = t
      /\ \A j \in DOMAIN tenders \ {k} : tenders'[j] = tenders[j]
  BY <1>1, <1>2, WithIsASequence
<1>4. pass[p] # Idle
  BY DEF Writing, Idle
<1>5. OnePass'
  BY <1>2, <1>4 DEF Solo, OnePass
<1>6. \A q \in Passes : pass'[q].pc # "writing"
  BY <1>2, <1>4 DEF Solo, OnePass, Idle
<1>7. Found'
  BY <1>6 DEF Found
<1>8. Distinct'
  BY <1>3 DEF Solo, Distinct
<1>9. UNCHANGED <<today, refreshed>>
  BY DEF Commit
<1>10. \A i \in DOMAIN tenders' : Dated(tenders'[i])
  BY <1>3 DEF Solo
<1>11. \A i \in DOMAIN tenders' : Dated(tenders[i])'
  BY <1>9, <1>10, DatedSameDay
<1> QED
  BY <1>5, <1>7, <1>8, <1>11

LEMMA SoloStep == Solo /\ [Next]_vars => Solo'
<1> DEFINE Goal == OnePass' /\ Found' /\ Distinct' /\ \A i \in DOMAIN tenders' : Dated(tenders[i])'
<1> SUFFICES ASSUME Solo, [Next]_vars, ~ overlapped' PROVE Goal
  BY TypedStep DEF Solo
<1>0. Typed /\ Passing /\ tenders \in Seq(Tender)
  BY DEF Solo, Typed
<1>a. ~ overlapped => OnePass /\ Found /\ Distinct /\ \A i \in DOMAIN tenders : Dated(tenders[i])
  BY DEF Solo
<1>1. CASE Midnight
  <2>1. today' \in Days /\ today' > today /\ UNCHANGED <<tenders, pass, refreshed, overlapped>>
    BY <1>1 DEF Midnight
  <2>2. refreshed' # today'
    BY <1>0, <2>1, IngestAssumption DEF Typed
  <2>3. \A i \in DOMAIN tenders : Expired(tenders[i].deadline) => Expired(tenders[i].deadline)'
    <3> SUFFICES ASSUME NEW i \in DOMAIN tenders, NEW d \in tenders[i].deadline, d < today
                 PROVE  d < today'
      BY <2>1 DEF Expired
    <3>1. tenders[i] \in Tender
      BY <1>0
    <3>2. tenders[i].deadline \subseteq Nat
      BY <3>1, IngestAssumption DEF Tender
    <3>3. d \in Nat /\ today \in Nat /\ today' \in Nat
      BY <1>0, <2>1, <3>2, IngestAssumption DEF Typed
    <3> QED
      BY <2>1, <3>3
  <2>4. \A i \in DOMAIN tenders' : Dated(tenders[i])'
    BY <1>a, <2>1, <2>2, <2>3 DEF Dated
  <2>5. OnePass' /\ Distinct'
    BY <1>a, <2>1 DEF OnePass, Distinct
  <2>6. Found'
    BY <1>a, <2>1 DEF Found, StillNew, StillTheSame, ByReference, ByFingerprint, ByTitle, Such
  <2> QED
    BY <2>4, <2>5, <2>6
<1>2. CASE RefreshDeadlines
  <2>1. UNCHANGED <<pass, today, overlapped>> /\ refreshed' = today
    BY <1>2 DEF RefreshDeadlines
  <2>2. DOMAIN tenders' = DOMAIN tenders
    BY <1>0, <1>2, RefreshStep
  <2>3. ASSUME NEW i \in DOMAIN tenders
        PROVE  /\ tenders'[i].title = tenders[i].title /\ tenders'[i].reference = tenders[i].reference
               /\ tenders'[i].deadline = tenders[i].deadline
               /\ tenders'[i].fingerprint = tenders[i].fingerprint
               /\ tenders'[i].active => /\ tenders[i].active
                                        /\ tenders'[i].urgency = compute_urgency(tenders[i].deadline)
               /\ ~ tenders'[i].active => Expired(tenders[i].deadline)
               /\ tenders'[i].deadline = {} => tenders'[i].urgency = "none"
    <3>1. tenders[i] \in Tender /\ tenders'[i] = Refreshed(tenders[i]) /\ Dated(tenders[i])
      BY <1>0, <1>2, <1>a, <2>1, RefreshStep
    <3> DEFINE t == tenders[i]
               r == Refreshed(t)
    <3>2. /\ r.title = t.title /\ r.reference = t.reference /\ r.deadline = t.deadline
          /\ r.fingerprint = t.fingerprint
          /\ r.active => t.active /\ r.urgency = compute_urgency(t.deadline)
          /\ ~ r.active => Expired(t.deadline) \/ ~ t.active
          /\ r.urgency = "none" \/ r.urgency = compute_urgency(t.deadline) \/ r.urgency = t.urgency
      BY <3>1, RefreshedFields
    <3>3. compute_urgency({}) = "none"
      BY UrgencyOfDeadline
    <3> HIDE DEF r
    <3> QED
      BY <3>1, <3>2, <3>3 DEF Dated, r
  <2>4. OnePass'
    BY <1>a, <2>1 DEF OnePass
  <2>5. Distinct'
    <3> SUFFICES ASSUME NEW i \in DOMAIN tenders, NEW j \in DOMAIN tenders, i # j,
                        Twins(tenders'[i], tenders'[j])
                 PROVE  Twins(tenders[i], tenders[j])
      BY <1>a, <2>1, <2>2 DEF Distinct
    <3>1. CASE tenders'[i].reference = tenders'[j].reference /\ tenders'[i].reference # "none"
      BY <2>3, <3>1 DEF Twins
    <3>2. CASE tenders'[i].title = tenders'[j].title /\ tenders'[i].fingerprint = tenders'[j].fingerprint
      BY <2>3, <3>2 DEF Twins
    <3>3. CASE tenders'[i].title = tenders'[j].title /\ tenders'[i].active /\ tenders'[j].active
      BY <2>3, <3>3 DEF Twins
    <3> QED
      BY <3>1, <3>2, <3>3 DEF Twins
  <2>6. Found'
    <3>1. ASSUME NEW n
          PROVE  /\ ByReference(n)' \subseteq ByReference(n) /\ ByFingerprint(n)' \subseteq ByFingerprint(n)
                 /\ ByTitle(n)' \subseteq ByTitle(n)
      BY <2>2, <2>3 DEF ByReference, ByFingerprint, ByTitle, Such
    <3> SUFFICES ASSUME NEW p \in Passes, pass[p].pc = "writing"
                 PROVE  IF pass[p].match = 0 THEN StillNew(pass[p].notice)'
                        ELSE StillTheSame(pass[p].read, tenders[pass[p].match], pass[p].notice)'
      BY <2>1 DEF Found
    <3>2. CASE pass[p].match = 0
      BY <1>a, <2>1, <3>1, <3>2 DEF Found, StillNew
    <3>3. CASE pass[p].match # 0
      <4>1. pass[p].match \in DOMAIN tenders
        BY <1>0, <3>3 DEF Passing
      <4>2. StillTheSame(pass[p].read, tenders[pass[p].match], pass[p].notice)
        BY <1>a, <2>1, <3>3 DEF Found
      <4> QED
        BY <2>1, <2>3, <3>1, <3>3, <4>1, <4>2 DEF StillTheSame
    <3> QED
      BY <3>2, <3>3
  <2>7. \A i \in DOMAIN tenders' : Dated(tenders[i])'
    <3>1. \A d : (Expired(d)' <=> Expired(d)) /\ compute_urgency(d)' = compute_urgency(d)
      BY <2>1, SameDay
    <3> QED
      BY <2>1, <2>2, <2>3, <3>1 DEF Dated
  <2> QED
    BY <2>4, <2>5, <2>6, <2>7
<1>3. ASSUME NEW p \in Passes, Launch(p) PROVE Goal
  <2>1. ~ overlapped /\ \A q \in Passes : pass[q] = Idle
    BY <1>3 DEF Launch
  <2> DEFINE new == [pc |-> "collecting", touched |-> << >>]
  <2>2. Moves(p, new)
    BY <1>0, <1>3, LaunchStep
  <2>3. UNCHANGED <<tenders, today, refreshed>> /\ pass'[p].pc = "collecting"
        /\ \A q \in Passes \ {p} : pass'[q] = Idle
    BY <1>0, <2>1, <2>2 DEF Moves, Passing
  <2>4. OnePass'
    BY <2>3 DEF OnePass
  <2>5. \A q \in Passes : pass'[q].pc # "writing"
    BY <2>3 DEF Idle
  <2>6. Distinct' /\ \A i \in DOMAIN tenders' : Dated(tenders[i])'
    BY <1>a, <2>1, <2>3, DatedSameDay DEF Distinct
  <2> QED
    BY <2>4, <2>5, <2>6 DEF Found
<1>4. ASSUME NEW p \in Passes, NEW source \in Sources, NEW web \in Webs, Collect(p, source, web)
      PROVE  Goal
  <2>1. ~ overlapped /\ pass[p] # Idle
    BY <1>4 DEF Collect, Idle
  <2>2. PICK n \in Notice : Moves(p, [pc |-> "matching", touched |-> pass[p].touched, notice |-> n])
    BY <1>0, <1>4, CollectStep
  <2> QED
    BY <2>1, <2>2, SoloMove
<1>5. ASSUME NEW p \in Passes, Skip(p) PROVE Goal
  <2>1. ~ overlapped /\ pass[p] # Idle
    BY <1>5 DEF Skip, Idle
  <2> QED
    BY <1>0, <1>5, <2>1, SkipStep, SoloMove
<1>6. ASSUME NEW p \in Passes, NEW i \in 0 .. MaxTenders, Match(p, i) PROVE Goal
  <2> DEFINE n == pass[p].notice
             read == IF i = 0 THEN create(n) ELSE tenders[i]
             new == [pc |-> "writing", touched |-> pass[p].touched, notice |-> n, match |-> i, read |-> read]
  <2>1. ~ overlapped /\ pass[p] # Idle
    BY <1>6 DEF Match, Idle
  <2>2. /\ ByUrl(n) = {} /\ i \in find_duplicate(n) /\ i \in 0 .. Len(tenders)
        /\ Moves(p, new)
    BY <1>0, <1>6, MatchStep
  <2>3. /\ i = 0 => StillNew(n)
        /\ ByReference(n) # {} => i \in ByReference(n)
    BY <1>0, <2>2, SurestFirst DEF StillNew
  <2>4. i # 0 => StillTheSame(tenders[i], tenders[i], n)
    <3> SUFFICES ASSUME i # 0 PROVE StillTheSame(tenders[i], tenders[i], n)
      OBVIOUS
    <3>1. i \in DOMAIN tenders
      BY <1>0, <2>2
    <3>2. tenders[i].deadline = {} => tenders[i].urgency = "none"
      BY <1>a, <2>1, <3>1 DEF Dated
    <3>3. tenders[i].reference = "none" /\ n.reference # "none" => ByReference(n) = {}
      BY <2>3 DEF ByReference, Such
    <3> QED
      BY <3>2, <3>3 DEF StillTheSame
  <2>5. /\ UNCHANGED <<tenders, today, refreshed>>
        /\ pass'[p] = new /\ \A q \in Passes \ {p} : pass'[q] = pass[q]
    BY <1>0, <2>2 DEF Moves, Passing
  <2>6. pass'[p].pc = "writing" /\ pass'[p].match = i /\ pass'[p].notice = n
        /\ (i # 0 => pass'[p].read = tenders[i])
    BY <2>5
  <2> HIDE DEF n, read, new
  <2>7. OnePass'
    BY <1>a, <2>1, <2>5 DEF OnePass
  <2>8. Found'
    <3>1. ASSUME NEW q \in Passes \ {p}
          PROVE  pass'[q].pc # "writing"
      BY <1>a, <2>1, <2>5 DEF OnePass, Idle
    <3>2. \A x : StillNew(x) => StillNew(x)'
      BY <2>5 DEF StillNew, ByReference, ByFingerprint, ByTitle, Such
    <3>3. i # 0 => StillTheSame(pass'[p].read, tenders'[i], pass'[p].notice)
      BY <2>4, <2>5, <2>6
    <3> QED
      BY <2>5, <2>6, <3>1, <3>2, <3>3, <2>3
         DEF Found, StillNew, StillTheSame, ByReference, ByFingerprint, ByTitle, Such
  <2>9. Distinct' /\ \A k \in DOMAIN tenders' : Dated(tenders[k])'
    BY <1>a, <2>1, <2>5, DatedSameDay DEF Distinct
  <2> QED
    BY <2>7, <2>8, <2>9
<1>7. ASSUME NEW p \in Passes, Finish(p) PROVE Goal
  <2>1. ~ overlapped /\ pass[p] # Idle
    BY <1>7 DEF Finish, Idle
  <2>2. PICK new : Moves(p, new) /\ new.pc \in {"idle", "scoring"}
    BY <1>0, <1>7, FinishStep
  <2> QED
    BY <2>1, <2>2, SoloMove
<1>8. ASSUME NEW p \in Passes, EnqueueScoring(p) PROVE Goal
  <2>1. ~ overlapped /\ pass[p] # Idle
    BY <1>8 DEF EnqueueScoring, Idle
  <2>2. PICK new : Moves(p, new) /\ new.pc \in {"idle", "scoring"}
    BY <1>0, <1>8, EnqueueStep
  <2> QED
    BY <2>1, <2>2, SoloMove
<1>9. ASSUME NEW p \in Passes, Fail(p) PROVE Goal
  <2>1. ~ overlapped /\ pass[p] # Idle /\ Idle.pc # "writing"
    BY <1>9 DEF Fail, Idle
  <2> QED
    BY <1>0, <1>9, <2>1, FailStep, SoloMove
<1>10. ASSUME NEW p \in Passes, Create(p) PROVE Goal
  <2> DEFINE k == Len(tenders) + 1
             n == pass[p].notice
  <2>1. /\ pass[p] \in Writing /\ pass[p].match = 0 /\ n \in Notice
        /\ k \in 1 .. Len(tenders) + 1 /\ create(n) \in Tender /\ Commit(p, k, create(n))
    BY <1>0, <1>10, CreateStep
  <2>2. ~ overlapped /\ pass[p].pc = "writing"
    BY <2>1 DEF Commit, Writing
  <2>3. StillNew(n)
    BY <1>a, <2>1, <2>2 DEF Found
  <2>4. \A j \in DOMAIN tenders \ {k} : ~ Twins(create(n), tenders[j]) /\ ~ Twins(tenders[j], create(n))
    BY <1>0, <2>1, <2>3, NewIsDistinct
  <2>5. Dated(create(n))
    BY <2>1, CreatedIsDated
  <2> HIDE DEF k, n
  <2> QED
    BY <2>1, <2>2, <2>4, <2>5, SoloCommit
<1>11. ASSUME NEW p \in Passes, Merge(p) PROVE Goal
  <2> DEFINE k == pass[p].match
             m == Merged(p)
  <2>1. /\ pass[p] \in Writing /\ k \in DOMAIN tenders
        /\ k \in 1 .. Len(tenders) + 1 /\ m \in Tender /\ Commit(p, k, m)
    BY <1>0, <1>11, MergeStep
  <2>2. ~ overlapped /\ pass[p].pc = "writing" /\ k # 0
    BY <1>11, <2>1 DEF Commit, Writing, Merge
  <2>3. StillTheSame(pass[p].read, tenders[k], pass[p].notice) /\ Dated(tenders[k]) /\ Distinct
    BY <1>a, <2>1, <2>2 DEF Found
  <2>4. \A j \in DOMAIN tenders \ {k} : ~ Twins(m, tenders[j]) /\ ~ Twins(tenders[j], m)
    BY <1>0, <2>1, <2>3, MergedIsDistinct
  <2>5. Dated(m)
    BY <1>0, <2>1, <2>3, MergedIsDated
  <2> HIDE DEF k, m
  <2> QED
    BY <2>1, <2>2, <2>4, <2>5, SoloCommit
<1>12. CASE UNCHANGED vars
  <2>1. UNCHANGED <<tenders, pass, today, refreshed, overlapped>>
    BY <1>12 DEF vars
  <2>2. \A i \in DOMAIN tenders' : Dated(tenders[i])'
    BY <1>a, <2>1, DatedSameDay
  <2> QED
    BY <1>a, <2>1, <2>2
       DEF OnePass, Found, Distinct, StillNew, StillTheSame, ByReference, ByFingerprint, ByTitle, Such
<1> QED
  BY <1>1, <1>2, <1>3, <1>4, <1>5, <1>6, <1>7, <1>8, <1>9, <1>10, <1>11, <1>12 DEF Next

\* Passes that do not overlap make no twins, whatever the order in which the
\* notices come and whatever the model finds near enough.
THEOREM NoTwinsAreMade == Spec => []NoTwins
<1>1. Solo => NoTwins
  <2> SUFFICES ASSUME Solo, ~ overlapped, NEW i \in DOMAIN tenders, NEW j \in DOMAIN tenders, i # j
               PROVE  LET t == tenders[i]
                          u == tenders[j]
                      IN  /\ t.reference = u.reference => t.reference = "none"
                          /\ t.title = u.title =>
                               t.fingerprint # u.fingerprint /\ ~ (t.active /\ u.active)
    BY DEF NoTwins
  <2>1. ~ Twins(tenders[i], tenders[j])
    BY DEF Solo, Distinct
  <2> QED
    BY <2>1 DEF Twins
<1> QED
  BY <1>1, SoloInit, SoloStep, PTL DEF Spec

\* As long as no two passes have overlapped, only what is past is out of the
\* list, and the urgency is that of the day once the nightly task has run.
THEOREM DeadlinesStayFollowed == Spec => []DeadlinesAreFollowed
<1>1. Solo => DeadlinesAreFollowed
  BY DEF Solo, Dated, DeadlinesAreFollowed
<1> QED
  BY <1>1, SoloInit, SoloStep, PTL DEF Spec
=============================================================================
