----------------------------- MODULE TenderIngest -----------------------------
(***************************************************************************)
(* Search passes and the tenders they bring in: a pass collects the        *)
(* notices of each source, recognises the tenders it knows (RB-001),       *)
(* enriches them or creates new ones, and at its end asks for the score of *)
(* those it touched.  A nightly task retires the tenders whose deadline is *)
(* past (RB-002).  Two passes may run side by side.                        *)
(*                                                                         *)
(* A source yields one notice at a time, and what becomes of it is         *)
(* committed before the next source is read.  The sources are read in any  *)
(* order, and the web may change each time.  Every notice names its buyer, *)
(* the same for one title or one reference; titles are equal or unlike.  Of the fields      *)
(* that a merge fills, the reference stands for all but the deadline.  A   *)
(* date that may be missing is a set of at most one day.                   *)
(***************************************************************************)
EXTENDS Collection, UnitOfWork, Integers, FiniteSets

CONSTANTS
  Profile,     \* the search profile
  Sources,     \* the sources that are enabled
  Webs,        \* what the web may be when a source is read
  Passes,      \* the search_tenders jobs
  Days,        \* the days that are looked at
  MaxTenders   \* bound on the tenders created

\* What the model may read.
Readings == UNION {UNION {web.pages[url].reading : url \in DOMAIN web.pages} : web \in Webs}

Queries == build_queries(Profile)

Titles == Range(Comparable)
References == {norm_reference(r.reference) : r \in Readings}
Deadlines == {r.deadline : r \in Readings} \union {{}}
Urls == DOMAIN HostOf
UrgencyLevels == {"none", "low", "medium", "high", "critical"}

Notice == [url : Urls, title : Titles, reference : References, deadline : Deadlines]

ASSUME IngestAssumption ==
  /\ Days \subseteq Nat /\ 0 \in Days
  /\ \A d \in Deadlines : d \subseteq Nat /\ Cardinality(d) <= 1
  /\ \A s \in Sources : s.max_urls = 1
  /\ MaxTenders \in Nat
  /\ \A source \in Sources, known \in SUBSET Urls, web \in Webs :
       ToSet(notices(source, Queries, known, web)) \subseteq Notice

VARIABLES
  tenders,    \* the tenders, in the order they were created
  unscored,   \* those touched since their last scoring job was asked for
  pass,       \* the passes
  today,
  refreshed,  \* the last day the nightly task ran
  overlapped, \* has a pass begun while another was running?
  failed      \* has a pass ended on an error?

vars == <<tenders, unscored, pass, today, refreshed, overlapped, failed>>

\* `fingerprint` is the deadline that its fingerprint was computed with.
Tender == [title : Titles, reference : References, deadline : Deadlines, fingerprint : Deadlines,
           active : BOOLEAN, urgency : UrgencyLevels, links : SUBSET Urls]

Idle == [pc |-> "idle", touched |-> << >>]

Init ==
  /\ tenders = << >>
  /\ unscored = {}
  /\ pass = [p \in Passes |-> Idle]
  /\ today = 0
  /\ refreshed = 0
  /\ overlapped = FALSE
  /\ failed = FALSE

-----------------------------------------------------------------------------
(* Deadlines. *)

Expired(deadline) == \E d \in deadline : d < today

\* From this many days left on, the level is at most this one.
Levels == <<[from |-> 15, level |-> "low"], [from |-> 8, level |-> "medium"],
            [from |-> 3, level |-> "high"]>>

compute_urgency(deadline) ==
  IF deadline = {} THEN "none"
  ELSE LET left == (CHOOSE d \in deadline : TRUE) - today
           reached == {k \in DOMAIN Levels : left >= Levels[k].from}
       IN  IF reached = {} THEN "critical" ELSE Levels[Min(reached)].level

Refreshed(t) ==
  IF ~ t.active THEN t
  ELSE IF Expired(t.deadline) THEN [t EXCEPT !.active = FALSE, !.urgency = "none"]
  ELSE [t EXCEPT !.urgency = compute_urgency(t.deadline)]

\* refresh_tender_deadlines, every night.
RefreshDeadlines ==
  /\ refreshed # today
  /\ tenders' = [i \in DOMAIN tenders |-> Refreshed(tenders[i])]
  /\ refreshed' = today
  /\ UNCHANGED <<unscored, pass, today, overlapped, failed>>

Midnight ==
  /\ \E d \in Days : d > today /\ (\A e \in Days : e > today => d <= e) /\ today' = d
  /\ UNCHANGED <<tenders, unscored, pass, refreshed, overlapped, failed>>

-----------------------------------------------------------------------------
(* Deduplication. *)

Such(P(_)) == {i \in DOMAIN tenders : P(tenders[i])}

ByUrl(n) == Such(LAMBDA t : n.url \in t.links)

ByReference(n) == Such(LAMBDA t : n.reference # "none" /\ t.reference = n.reference)

ByFingerprint(n) == Such(LAMBDA t : t.title = n.title /\ t.fingerprint = n.deadline)

ByTitle(n) == Such(LAMBDA t : t.active /\ t.title = n.title)

SEMANTIC_WINDOW_DAYS == 3

\* The neighbours that the model may find near enough.  The lower bound is
\* the end of the day before the window, which is in the interval.
ByEmbedding(n) ==
  Such(LAMBDA t : t.active /\ \A d \in n.deadline, e \in t.deadline :
         e \in d - SEMANTIC_WINDOW_DAYS - 1 .. d + SEMANTIC_WINDOW_DAYS)

\* Wrong: the title is compared before the reference.
Rules_title(n) == <<ByUrl(n), ByTitle(n), ByReference(n), ByFingerprint(n)>>

\* From the surest to the loosest.
Rules(n) == <<ByUrl(n), ByReference(n), ByFingerprint(n), ByTitle(n)>>

\* The tenders that n may be merged into; 0 stands for a new one.
find_duplicate(n) ==
  LET hits == {k \in DOMAIN Rules(n) : Rules(n)[k] # {}}
  IN  IF hits # {} THEN Rules(n)[Min(hits)] ELSE ByEmbedding(n) \union {0}

\* Wrong: the urgency is left as it was.
merge_into_quiet(t, n) ==
  [t EXCEPT !.reference = IF @ = "none" THEN n.reference ELSE @,
            !.deadline = IF @ = {} THEN n.deadline ELSE @,
            !.links = @ \union {n.url}]

\* What is missing is filled, nothing is replaced; the urgency follows.
merge_into(t, n) ==
  LET deadline == IF t.deadline = {} THEN n.deadline ELSE t.deadline
  IN  [t EXCEPT !.reference = IF @ = "none" THEN n.reference ELSE @,
                !.deadline = deadline, !.urgency = compute_urgency(deadline),
                !.links = @ \union {n.url}]

\* A new tender whose deadline is past is born inactive.
create(n) ==
  [title |-> n.title, reference |-> n.reference, deadline |-> n.deadline,
   fingerprint |-> n.deadline, active |-> ~ Expired(n.deadline),
   urgency |-> IF Expired(n.deadline) THEN "none" ELSE compute_urgency(n.deadline),
   links |-> {n.url}]

-----------------------------------------------------------------------------
(* A pass: search_tenders and IngestService. *)

Launch(p) ==
  /\ pass[p] = Idle
  /\ pass' = [pass EXCEPT ![p] = [pc |-> "collecting", touched |-> << >>]]
  /\ overlapped' = (overlapped \/ \E q \in Passes : pass[q] # Idle)
  /\ UNCHANGED <<tenders, unscored, today, refreshed, failed>>

Known == UNION {t.links : t \in Range(tenders)}

\* The source is read, and yields a notice.  Nothing changes if it does not.
Collect(p, source, web) ==
  /\ pass[p].pc = "collecting"
  /\ \E n \in ToSet(notices(source, Queries, Known, web)) :
       pass' = [pass EXCEPT ![p] = [pc |-> "matching", touched |-> @.touched, notice |-> n]]
  /\ UNCHANGED <<tenders, unscored, today, refreshed, overlapped, failed>>

\* The URL has been linked to a tender since.
Skip(p) ==
  /\ pass[p].pc = "matching"
  /\ ByUrl(pass[p].notice) # {}
  /\ pass' = [pass EXCEPT ![p] = [pc |-> "collecting", touched |-> @.touched]]
  /\ UNCHANGED <<tenders, unscored, today, refreshed, overlapped, failed>>

\* The pass reads tender i, which n will be merged into.
Match(p, i) ==
  /\ pass[p].pc = "matching"
  /\ ByUrl(pass[p].notice) = {}
  /\ i \in find_duplicate(pass[p].notice)
  /\ pass' = [pass EXCEPT ![p] =
       [pc |-> "writing", touched |-> @.touched, notice |-> @.notice, match |-> i,
        read |-> IF i = 0 THEN create(@.notice) ELSE tenders[i]]]
  /\ UNCHANGED <<tenders, unscored, today, refreshed, overlapped, failed>>

\* Wrong: only new tenders are scored.
Touched_created(p, i) ==
  IF pass[p].match = 0 THEN Append(pass[p].touched, i) ELSE pass[p].touched

\* The tenders created or merged into by the pass, each once.
Touched(p, i) ==
  IF i \in Range(pass[p].touched) THEN pass[p].touched ELSE Append(pass[p].touched, i)

\* Tender i becomes t; source_links.url is unique.
Commit(p, i, t) ==
  /\ ByUrl(pass[p].notice) = {}
  /\ tenders' = [j \in DOMAIN tenders \union {i} |-> IF j = i THEN t ELSE tenders[j]]
  /\ unscored' = unscored \union {i}
  /\ pass' = [pass EXCEPT ![p] = [pc |-> "collecting", touched |-> Touched(p, i)]]
  /\ UNCHANGED <<today, refreshed, overlapped, failed>>

Create(p) ==
  /\ pass[p].pc = "writing" /\ pass[p].match = 0
  /\ Len(tenders) < MaxTenders
  /\ Commit(p, Len(tenders) + 1, create(pass[p].notice))

\* The links are rows of their own, the rest is written column by column.
Merge(p) ==
  /\ pass[p].pc = "writing" /\ pass[p].match # 0
  /\ LET i == pass[p].match
         new == Written(tenders[i], pass[p].read, merge_into(pass[p].read, pass[p].notice))
     IN  Commit(p, i, [new EXCEPT !.links = tenders[i].links \union @])

\* The last source is done.
Finish(p) ==
  /\ pass[p].pc = "collecting"
  /\ pass' = [pass EXCEPT ![p] =
       IF @.touched = << >> THEN Idle ELSE [pc |-> "scoring", touched |-> @.touched]]
  /\ UNCHANGED <<tenders, unscored, today, refreshed, overlapped, failed>>

\* _enqueue_scoring: one job for each tender touched.
EnqueueScoring(p) ==
  /\ pass[p].pc = "scoring"
  /\ unscored' = unscored \ {Head(pass[p].touched)}
  /\ pass' = [pass EXCEPT ![p] =
       IF Len(@.touched) = 1 THEN Idle ELSE [pc |-> "scoring", touched |-> Tail(@.touched)]]
  /\ UNCHANGED <<tenders, today, refreshed, overlapped, failed>>

\* The pass fails: a URL that another pass has linked since (IntegrityError),
\* a model or a broker that does not answer, or the death of the process.
\* What was committed stays (the code commits the last source's notice with
\* the first scoring job only, so that one may be lost instead).
Fail(p) ==
  /\ pass[p] # Idle
  /\ pass' = [pass EXCEPT ![p] = Idle]
  /\ failed' = TRUE
  /\ UNCHANGED <<tenders, unscored, today, refreshed, overlapped>>

-----------------------------------------------------------------------------
Next ==
  \/ Midnight \/ RefreshDeadlines
  \/ \E p \in Passes :
       \/ Launch(p) \/ Skip(p) \/ Create(p) \/ Merge(p)
       \/ Finish(p) \/ EnqueueScoring(p) \/ Fail(p)
       \/ \E source \in Sources, web \in Webs : Collect(p, source, web)
       \/ \E i \in 0 .. MaxTenders : Match(p, i)

Spec == Init /\ [][Next]_vars

-----------------------------------------------------------------------------
(* Properties that hold however the passes overlap. *)

\* Every variable has its type.
TypeOK ==
  /\ tenders \in Seq(Tender)
  /\ unscored \subseteq DOMAIN tenders
  /\ \A p \in Passes :
       /\ pass[p].pc \in {"idle", "collecting", "matching", "writing", "scoring"}
       /\ pass[p].touched \in Seq(DOMAIN tenders)
  /\ today \in Days /\ refreshed \in Days
  /\ overlapped \in BOOLEAN /\ failed \in BOOLEAN

\* If no pass has failed, each tender touched since its last scoring job is
\* on the list of a pass that will ask for another (search.py:77-80).
WillBeScored ==
  ~ failed => \A i \in unscored : \E p \in Passes : i \in Range(pass[p].touched)

-----------------------------------------------------------------------------
(* Properties that hold as long as no two passes have overlapped. *)

\* Two tenders never share a reference or a fingerprint, nor two active ones
\* a title, whatever the order in which the notices come (RB-001).
NoTwins ==
  ~ overlapped => \A i, j \in DOMAIN tenders : i # j =>
    LET t == tenders[i]
        u == tenders[j]
    IN  /\ t.reference = u.reference => t.reference = "none"
        /\ t.title = u.title =>
             t.fingerprint # u.fingerprint /\ ~ (t.active /\ u.active)

\* A tender that is out of the list has a deadline, and it is past (RB-002);
\* once the night's task has run, the urgency of a tender in the list is that
\* of the days it has left, whatever the pass does until midnight
\* (deadlines.py:1-2, ingest.py:118).  A merge that fills in a past deadline
\* leaves the tender in the list until the next night.
DeadlinesAreFollowed ==
  ~ overlapped => \A i \in DOMAIN tenders :
    LET t == tenders[i]
    IN  /\ ~ t.active => Expired(t.deadline)
        /\ t.active /\ refreshed = today => t.urgency = compute_urgency(t.deadline)
=============================================================================
