------------------------ MODULE TenderLifecycleProofs ------------------------
(***************************************************************************)
(* Proofs about TenderLifecycle, for any set of sessions and any bound on  *)
(* the history.                                                            *)
(***************************************************************************)
EXTENDS TenderLifecycle, SequenceTheorems, TLAPS

-----------------------------------------------------------------------------
(* The table of transitions. *)

\* A transition reaches at most one new milestone, the status it enters.
LEMMA MilestoneStep ==
  ASSUME NEW m \in Statuses, NEW a \in Statuses, NEW b \in Statuses,
         can_transition(a, b), <<m, b>> \in Needs
  PROVE  m = b \/ <<m, a>> \in Needs
BY DEF Needs, can_transition, TRANSITIONS, Statuses

\* No transition leads back to NOUVEAU, and only statuses are reached.
LEMMA NeverBack ==
  ASSUME NEW a, NEW b, can_transition(a, b)
  PROVE  a \in Statuses /\ b \in Statuses /\ b # "NOUVEAU"
BY DEF can_transition, TRANSITIONS, Statuses

LEMMA NothingNeeded ==
  \A m \in Statuses : <<m, "NOUVEAU">> \notin Needs
BY DEF Needs, Statuses

LEMMA ClosedIsNoStatus == Closed \notin Statuses
BY DEF Closed, Statuses

-----------------------------------------------------------------------------
(* What Write appends. *)

\* The entries of one or two permitted transitions that start at from.
Permitted(entries, from) ==
  /\ entries \in Seq(Entry)
  /\ Len(entries) \in {1, 2}
  /\ \A i \in 1 .. Len(entries) :
       can_transition(entries[i].from, entries[i].to)
  /\ entries[1].from = from
  /\ Len(entries) = 2 => entries[2].from = entries[1].to

\* A snapshot may be stale but never speaks of a past the tender did not
\* have: the milestones of the status read are in the history, a tender read
\* out of NOUVEAU has left it, and an application under way was allowed.
SnapshotsSound ==
  \A s \in Sessions :
    /\ seen[s] # Closed =>
         \A m \in Statuses : <<m, seen[s]>> \in Needs => m \in Visited
    /\ seen[s] \notin {Closed, "NOUVEAU"} => status # "NOUVEAU"
    /\ s \in opening => seen[s] \in ALLOWED_TENDER_STATUSES

\* The invariant that the steps preserve.
IInv ==
  /\ TypeOK
  /\ HistoryHonest
  /\ MilestonesPassed
  /\ SnapshotsSound
  /\ RelevantIsQualified
  /\ ApplicationOpenedOnce

LEMMA OneEntry ==
  ASSUME NEW from, NEW to, NEW cause \in Causes, can_transition(from, to)
  PROVE  /\ Permitted(<<entry(from, to, cause)>>, from)
         /\ <<entry(from, to, cause)>>[1].cause = cause
         /\ Len(<<entry(from, to, cause)>>) = 1
<1> DEFINE e == <<entry(from, to, cause)>>
<1>1. entry(from, to, cause) \in Entry
  BY NeverBack DEF entry, Entry
<1>2. e \in Seq(Entry) /\ Len(e) = 1 /\ e[1] = entry(from, to, cause)
  BY <1>1
<1>3. e[1].from = from /\ e[1].to = to /\ e[1].cause = cause
  BY <1>2 DEF entry
<1> QED
  BY <1>2, <1>3 DEF Permitted

LEMMA DecisionIsPermitted ==
  ASSUME NEW from, NEW target, CanDecide(from, target)
  PROVE  /\ Permitted(DecisionEntries(from, target), from)
         /\ \A i \in 1 .. Len(DecisionEntries(from, target)) :
              DecisionEntries(from, target)[i].cause # "application"
<1>1. CASE ViaReview(from, target)
  <2> DEFINE e == <<entry(from, "A_ANALYSER", "review"),
                    entry("A_ANALYSER", target, "decision")>>
  <2>1. /\ can_transition(from, "A_ANALYSER")
        /\ can_transition("A_ANALYSER", target)
    BY <1>1 DEF ViaReview
  <2>2. /\ entry(from, "A_ANALYSER", "review") \in Entry
        /\ entry("A_ANALYSER", target, "decision") \in Entry
    BY <2>1, NeverBack DEF entry, Entry, Causes
  <2>3. /\ e \in Seq(Entry) /\ Len(e) = 2
        /\ e[1] = entry(from, "A_ANALYSER", "review")
        /\ e[2] = entry("A_ANALYSER", target, "decision")
    BY <2>2
  <2>4. /\ e[1].from = from /\ e[1].to = "A_ANALYSER" /\ e[1].cause = "review"
        /\ e[2].from = "A_ANALYSER" /\ e[2].to = target
        /\ e[2].cause = "decision"
    BY <2>3 DEF entry
  <2>5. DecisionEntries(from, target) = e
    BY <1>1 DEF DecisionEntries
  <2> QED
    <3>1. \A i \in 1 .. Len(e) : i = 1 \/ i = 2
      BY <2>3
    <3> HIDE DEF e
    <3>2. Permitted(e, from)
      BY <2>1, <2>3, <2>4, <3>1 DEF Permitted
    <3>3. \A i \in 1 .. Len(e) : e[i].cause # "application"
      BY <2>4, <3>1
    <3> QED
      BY <2>5, <3>2, <3>3
<1>2. CASE ~ ViaReview(from, target)
  <2>1. can_transition(from, target)
    BY <1>2 DEF CanDecide
  <2> DEFINE e == <<entry(from, target, "decision")>>
  <2>2. DecisionEntries(from, target) = e
    BY <1>2 DEF DecisionEntries
  <2>3. Permitted(e, from) /\ e[1].cause = "decision" /\ Len(e) = 1
    BY <2>1, OneEntry DEF Causes
  <2> HIDE DEF e
  <2>4. \A i \in 1 .. Len(e) : e[i].cause # "application"
    BY <2>3
  <2> QED
    BY <2>2, <2>3, <2>4
<1> QED
  BY <1>1, <1>2

\* Writing permitted entries keeps every part of the invariant but the two
\* that depend on the rest of the action (score, application).
LEMMA WriteStep ==
  ASSUME IInv,
         NEW s \in Sessions, NEW entries,
         seen[s] # Closed,
         Permitted(entries, seen[s]),
         Write(s, entries)
  PROVE  /\ status' \in Statuses /\ status' # "NOUVEAU"
         /\ history' \in Seq(Entry)
         /\ seen' \in [Sessions -> Statuses \union {Closed}]
         /\ opening' \subseteq Sessions
         /\ HistoryHonest' /\ MilestonesPassed' /\ SnapshotsSound'
         /\ Visited \subseteq Visited'
         /\ \A i \in 1 .. Len(entries) :
              history'[Len(history) + i].cause = entries[i].cause
         /\ Len(history') = Len(history) + Len(entries)
         /\ \A i \in 1 .. Len(history) : history'[i] = history[i]
<1> USE DEF Permitted
<1>1. /\ history \in Seq(Entry) /\ entries \in Seq(Entry)
      /\ seen \in [Sessions -> Statuses \union {Closed}]
      /\ opening \subseteq Sessions
      /\ seen[s] \in Statuses
  BY DEF IInv, TypeOK
<1> DEFINE n == Len(history)
           k == Len(entries)
<1>2. /\ n \in Nat /\ k \in {1, 2}
      /\ DOMAIN history = 1 .. n /\ DOMAIN entries = 1 .. k
  BY <1>1, LenProperties
<1>3. /\ history' = history \o entries
      /\ status' = entries[k].to
      /\ seen' = [seen EXCEPT ![s] = Closed]
      /\ opening' = opening \ {s}
  BY DEF Write, Close
<1>4. /\ history' \in Seq(Entry)
      /\ Len(history') = n + k
      /\ DOMAIN history' = 1 .. n + k
      /\ \A i \in 1 .. n : history'[i] = history[i]
      /\ \A i \in 1 .. k : history'[n + i] = entries[i]
  <2>1. /\ history' \in Seq(Entry)
        /\ Len(history') = n + k
        /\ \A i \in 1 .. n + k :
             history'[i] = IF i <= n THEN history[i] ELSE entries[i - n]
    BY <1>1, <1>3, ConcatProperties
  <2>2. DOMAIN history' = 1 .. n + k
    BY <2>1, LenProperties
  <2>3. ASSUME NEW i \in 1 .. n PROVE history'[i] = history[i]
    BY <1>2, <2>1
  <2>4. ASSUME NEW i \in 1 .. k PROVE history'[n + i] = entries[i]
    <3>1. n + i \in 1 .. n + k /\ ~ (n + i <= n) /\ (n + i) - n = i
      BY <1>2
    <3> QED
      BY <2>1, <3>1
  <2> QED
    BY <2>1, <2>2, <2>3, <2>4
<1>5. \A i \in 1 .. k : entries[i].from \in Statuses /\ entries[i].to \in Statuses
                        /\ entries[i].to # "NOUVEAU"
  BY <1>1, <1>2, NeverBack
<1>6. Visited' = Visited \union {entries[i].to : i \in 1 .. k}
  <2>1. \A i \in 1 .. n + k : i \in 1 .. n \/ \E j \in 1 .. k : i = n + j
    <3> SUFFICES ASSUME NEW i \in 1 .. n + k, i \notin 1 .. n
                 PROVE  \E j \in 1 .. k : i = n + j
      OBVIOUS
    <3>1. i - n \in 1 .. k /\ i = n + (i - n)
      BY <1>2
    <3> QED
      BY <3>1
  <2>2. \A i \in 1 .. k : n + i \in 1 .. n + k
    BY <1>2
  <2>3. \A i \in 1 .. n : i \in 1 .. n + k
    BY <1>2
  <2>4. Visited = {history[i].to : i \in 1 .. n}
    BY <1>2 DEF Visited
  <2>5. Visited' = {history'[i].to : i \in 1 .. n + k}
    BY <1>4 DEF Visited
  <2>6. ASSUME NEW i \in 1 .. n + k
        PROVE  history'[i].to \in Visited \union {entries[j].to : j \in 1 .. k}
    <3>1. CASE i \in 1 .. n
      BY <1>4, <2>4, <3>1
    <3>2. ASSUME NEW j \in 1 .. k, i = n + j
          PROVE  history'[i].to = entries[j].to
      BY <1>4, <3>2
    <3> QED
      BY <2>1, <3>1, <3>2
  <2>7. ASSUME NEW i \in 1 .. n
        PROVE  history[i].to \in Visited'
    <3>1. history'[i] = history[i] /\ i \in 1 .. n + k
      BY <1>4, <2>3
    <3> QED
      BY <2>5, <3>1
  <2>8. ASSUME NEW i \in 1 .. k
        PROVE  entries[i].to \in Visited'
    <3>1. history'[n + i] = entries[i] /\ n + i \in 1 .. n + k
      BY <1>4, <2>2
    <3> QED
      BY <2>5, <3>1
  <2> HIDE DEF n, k
  <2> QED
    BY <2>4, <2>5, <2>6, <2>7, <2>8
<1>7. k \in 1 .. k /\ 1 \in 1 .. k
  BY <1>2
<1>8. status' \in Statuses /\ status' # "NOUVEAU"
  BY <1>3, <1>5, <1>7
<1>9. \A m \in Statuses : <<m, status'>> \in Needs => m \in Visited'
  <2> SUFFICES ASSUME NEW m \in Statuses, <<m, status'>> \in Needs
               PROVE  m \in Visited'
    OBVIOUS
  <2>1. <<m, seen[s]>> \in Needs => m \in Visited'
    BY <1>6 DEF IInv, SnapshotsSound
  <2>2. \A i \in 1 .. k : entries[i].to \in Visited'
    BY <1>6
  <2>3. <<m, entries[1].to>> \in Needs => m \in Visited'
    BY <1>1, <1>5, <1>7, <2>1, <2>2, MilestoneStep
  <2>4. CASE k = 1
    BY <1>3, <2>3, <2>4
  <2>5. CASE k = 2
    <3>1. /\ entries[2].from = entries[1].to
          /\ can_transition(entries[2].from, entries[2].to)
      BY <2>5
    <3> QED
      BY <1>3, <1>5, <1>7, <2>2, <2>3, <2>5, <3>1, MilestoneStep
  <2> QED
    BY <1>2, <2>4, <2>5
<1>10. HistoryHonest'
  <2>1. \A i \in 1 .. n : can_transition(history[i].from, history[i].to)
    BY <1>2 DEF IInv, HistoryHonest
  <2>2. \A i \in 1 .. k : can_transition(entries[i].from, entries[i].to)
    OBVIOUS
  <2>3. ASSUME NEW i \in 1 .. n + k
        PROVE  can_transition(history'[i].from, history'[i].to)
    <3>1. CASE i \in 1 .. n
      BY <1>4, <2>1, <3>1
    <3>2. CASE i \notin 1 .. n
      <4>1. i - n \in 1 .. k /\ i = n + (i - n)
        BY <1>2, <3>2
      <4> QED
        BY <1>4, <2>2, <4>1
    <3> QED
      BY <3>1, <3>2
  <2>4. history' # << >> /\ history'[Len(history')] = entries[k]
    <3>1. Len(history') # 0
      BY <1>2, <1>4
    <3> QED
      BY <1>4, <1>7, <3>1
  <2> QED
    BY <1>3, <1>4, <2>3, <2>4 DEF HistoryHonest
<1>11. SnapshotsSound'
  <2> SUFFICES ASSUME NEW t \in Sessions
               PROVE  /\ seen'[t] # Closed =>
                           \A m \in Statuses :
                             <<m, seen'[t]>> \in Needs => m \in Visited'
                      /\ seen'[t] \notin {Closed, "NOUVEAU"} => status' # "NOUVEAU"
                      /\ t \in opening' => seen'[t] \in ALLOWED_TENDER_STATUSES
    BY DEF SnapshotsSound
  <2>1. CASE t = s
    BY <1>1, <1>3, <2>1
  <2>2. CASE t # s
    BY <1>1, <1>3, <1>6, <1>8, <2>2 DEF IInv, SnapshotsSound
  <2> QED
    BY <2>1, <2>2
<1>12. /\ seen' \in [Sessions -> Statuses \union {Closed}]
       /\ opening' \subseteq Sessions
  BY <1>1, <1>3
<1> QED
  BY <1>4, <1>6, <1>8, <1>9, <1>10, <1>11, <1>12 DEF MilestonesPassed

\* Entries that open no application leave the openings as they were.
LEMMA OtherWrites ==
  ASSUME IInv,
         NEW s \in Sessions, NEW entries,
         seen[s] # Closed,
         Permitted(entries, seen[s]),
         Write(s, entries),
         \A i \in 1 .. Len(entries) : entries[i].cause # "application",
         application' = application
  PROVE  ApplicationOpenedOnce'
<1> DEFINE n == Len(history)
           k == Len(entries)
<1>1. /\ n \in Nat /\ k \in Nat /\ DOMAIN history = 1 .. n
      /\ history' \in Seq(Entry) /\ Len(history') = n + k
      /\ \A i \in 1 .. k : history'[n + i].cause = entries[i].cause
      /\ \A i \in 1 .. n : history'[i] = history[i]
      /\ Visited \subseteq Visited'
  BY WriteStep, LenProperties DEF IInv, TypeOK, Permitted
<1>2. DOMAIN history' = 1 .. n + k
  BY <1>1, LenProperties
<1>3. ASSUME NEW i \in 1 .. n + k, history'[i].cause = "application"
      PROVE  i \in 1 .. n
  <2> SUFFICES ASSUME i \notin 1 .. n
               PROVE  FALSE
    OBVIOUS
  <2>1. i - n \in 1 .. k /\ i = n + (i - n)
    BY <1>1
  <2> QED
    BY <1>1, <1>3, <2>1
<1>4. Openings' \subseteq Openings
  BY <1>1, <1>2, <1>3 DEF Openings
<1> QED
  BY <1>1, <1>4 DEF IInv, ApplicationOpenedOnce

\* A step that leaves the history and the application alone.
LEMMA NoWrite ==
  ASSUME IInv, NEW s \in Sessions,
         UNCHANGED <<status, history, application>>,
         Close(s) \/ UNCHANGED <<seen, opening>>
  PROVE  /\ seen' \in [Sessions -> Statuses \union {Closed}]
         /\ opening' \subseteq Sessions
         /\ HistoryHonest' /\ MilestonesPassed' /\ SnapshotsSound'
         /\ ApplicationOpenedOnce'
<1>1. /\ seen \in [Sessions -> Statuses \union {Closed}]
      /\ opening \subseteq Sessions
  BY DEF IInv, TypeOK
<1>2. /\ seen' \in [Sessions -> Statuses \union {Closed}]
      /\ opening' \subseteq Sessions
  BY <1>1 DEF Close
<1>3. Visited' = Visited /\ Openings' = Openings
  BY DEF Visited, Openings
<1>4. HistoryHonest' /\ MilestonesPassed' /\ ApplicationOpenedOnce'
  BY <1>3 DEF IInv, HistoryHonest, MilestonesPassed, ApplicationOpenedOnce
<1>5. SnapshotsSound'
  <2> SUFFICES ASSUME NEW t \in Sessions
               PROVE  /\ seen'[t] # Closed =>
                           \A m \in Statuses :
                             <<m, seen'[t]>> \in Needs => m \in Visited
                      /\ seen'[t] \notin {Closed, "NOUVEAU"} => status # "NOUVEAU"
                      /\ t \in opening' => seen'[t] \in ALLOWED_TENDER_STATUSES
    BY <1>3 DEF SnapshotsSound
  <2>1. CASE Close(s)
    BY <1>1, <2>1 DEF Close, IInv, SnapshotsSound
  <2>2. CASE UNCHANGED <<seen, opening>>
    BY <2>2 DEF IInv, SnapshotsSound
  <2> QED
    BY <2>1, <2>2
<1> QED
  BY <1>2, <1>4, <1>5

-----------------------------------------------------------------------------
(* The invariant. *)

LEMMA Initially == Init => IInv
<1> SUFFICES ASSUME Init PROVE IInv
  OBVIOUS
<1>1. TypeOK
  BY EmptySeq DEF Init, TypeOK, Statuses, Scores
<1>2. history = << >> /\ DOMAIN history = {} /\ Visited = {} /\ Openings = {}
  BY DEF Init, Visited, Openings
<1> QED
  BY <1>1, <1>2, NothingNeeded
     DEF Init, IInv, HistoryHonest, MilestonesPassed, SnapshotsSound,
         RelevantIsQualified, ApplicationOpenedOnce

LEMMA Preserved == IInv /\ [Next]_vars => IInv'
<1> SUFFICES ASSUME IInv, [Next]_vars PROVE IInv'
  OBVIOUS
<1>t. /\ status \in Statuses /\ history \in Seq(Entry) /\ score \in Scores
      /\ application \in BOOLEAN
      /\ seen \in [Sessions -> Statuses \union {Closed}]
      /\ opening \subseteq Sessions
  BY DEF IInv, TypeOK
<1>o. overlapped' \in BOOLEAN
  <2>1. ASSUME NEW s \in Sessions, Load(s)
        PROVE  overlapped' \in BOOLEAN
    BY <2>1 DEF Load
  <2>2. overlapped' = overlapped => overlapped' \in BOOLEAN
    BY DEF IInv, TypeOK
  <2> QED
    BY <2>1, <2>2
       DEF Next, vars, Rollback, PostStatus, PostDecision, ScoreTender,
           CheckApplication, OpenApplication
<1>1. ASSUME NEW s \in Sessions, Load(s)
      PROVE  IInv'
  <2>1. Visited' = Visited /\ Openings' = Openings
    BY <1>1 DEF Load, Visited, Openings
  <2>2. TypeOK'
    BY <1>o, <1>1, <1>t DEF Load, TypeOK
  <2>3. HistoryHonest' /\ MilestonesPassed' /\ ApplicationOpenedOnce'
        /\ RelevantIsQualified'
    BY <1>1, <2>1 DEF Load, IInv, HistoryHonest, MilestonesPassed,
                      ApplicationOpenedOnce, RelevantIsQualified
  <2>4. SnapshotsSound'
    <3> SUFFICES ASSUME NEW t \in Sessions
                 PROVE  /\ seen'[t] # Closed =>
                             \A m \in Statuses :
                               <<m, seen'[t]>> \in Needs => m \in Visited
                        /\ seen'[t] \notin {Closed, "NOUVEAU"} => status # "NOUVEAU"
                        /\ t \in opening => seen'[t] \in ALLOWED_TENDER_STATUSES
      BY <1>1, <2>1 DEF SnapshotsSound, Load
    <3>1. CASE t = s
      <4>1. seen'[t] = status
        BY <1>1, <1>t, <3>1 DEF Load
      <4>2. t \notin opening
        BY <1>1, <3>1, ClosedIsNoStatus
           DEF IInv, SnapshotsSound, Load, ALLOWED_TENDER_STATUSES, Statuses
      <4> QED
        BY <4>1, <4>2 DEF IInv, MilestonesPassed
    <3>2. CASE t # s
      BY <1>1, <1>t, <3>2 DEF Load, IInv, SnapshotsSound
    <3> QED
      BY <3>1, <3>2
  <2> QED
    BY <2>2, <2>3, <2>4 DEF IInv
<1>2. ASSUME NEW s \in Sessions, Rollback(s)
      PROVE  IInv'
  BY <1>o, <1>2, <1>t, NoWrite DEF Rollback, IInv, TypeOK, RelevantIsQualified
<1>3. ASSUME NEW s \in Sessions, NEW to \in Statuses, PostStatus(s, to)
      PROVE  IInv'
  <2> DEFINE e == <<entry(seen[s], to, "status")>>
  <2>1. Permitted(e, seen[s]) /\ e[1].cause = "status" /\ Len(e) = 1
    BY <1>3, OneEntry, ZenonT(40) DEF PostStatus, Causes
  <2>2. seen[s] # Closed /\ Write(s, e) /\ UNCHANGED <<score, application, overlapped>>
    BY <1>3 DEF PostStatus
  <2> HIDE DEF e
  <2>3. \A i \in 1 .. Len(e) : e[i].cause # "application"
    BY <2>1
  <2>4. ApplicationOpenedOnce'
    BY <2>1, <2>2, <2>3, OtherWrites
  <2> QED
    BY <1>o, <1>t, <2>1, <2>2, <2>4, WriteStep DEF IInv, TypeOK, RelevantIsQualified
<1>4. ASSUME NEW s \in Sessions, NEW decision \in Decisions,
             PostDecision(s, decision)
      PROVE  IInv'
  <2> DEFINE e == DecisionEntries(seen[s], Target(decision))
  <2>1. /\ Permitted(e, seen[s])
        /\ \A i \in 1 .. Len(e) : e[i].cause # "application"
    BY <1>4, DecisionIsPermitted DEF PostDecision
  <2>2. seen[s] # Closed /\ Write(s, e) /\ UNCHANGED <<score, application, overlapped>>
    BY <1>4 DEF PostDecision
  <2> HIDE DEF e
  <2>3. ApplicationOpenedOnce'
    BY <2>1, <2>2, OtherWrites
  <2> QED
    BY <1>o, <1>t, <2>1, <2>2, <2>3, WriteStep DEF IInv, TypeOK, RelevantIsQualified
<1>5. ASSUME NEW s \in Sessions, NEW total \in {"low", "high"},
             ScoreTender(s, total)
      PROVE  IInv'
  <2>1. /\ seen[s] # Closed /\ score' = total /\ application' = application
        /\ score' \in Scores /\ application' \in BOOLEAN
    BY <1>5, <1>t DEF ScoreTender, Scores
  <2>2. CASE Promotes(seen[s], total)
    <3> DEFINE e == <<entry("NOUVEAU", "A_ANALYSER", "score")>>
    <3>1. Write(s, e) /\ seen[s] = "NOUVEAU"
      BY <1>5, <2>2 DEF ScoreTender, Promotes
    <3>2. can_transition("NOUVEAU", "A_ANALYSER")
      BY DEF can_transition, TRANSITIONS
    <3>3. Permitted(e, seen[s]) /\ e[1].cause = "score" /\ Len(e) = 1
      BY <3>1, <3>2, OneEntry DEF Causes
    <3> HIDE DEF e
    <3>4. \A i \in 1 .. Len(e) : e[i].cause # "application"
      BY <3>3
    <3>5. ApplicationOpenedOnce'
      BY <2>1, <3>1, <3>3, <3>4, OtherWrites
    <3> QED
      BY <1>o, <2>1, <3>1, <3>3, <3>5, WriteStep DEF IInv, TypeOK, RelevantIsQualified
  <2>3. CASE ~ Promotes(seen[s], total)
    <3>1. Close(s) /\ UNCHANGED <<status, history>>
      BY <1>5, <2>3 DEF ScoreTender
    <3>2. RelevantIsQualified'
      BY <2>1, <2>3, <3>1 DEF IInv, SnapshotsSound, RelevantIsQualified, Promotes
    <3> QED
      BY <1>o, <1>t, <2>1, <3>1, <3>2, NoWrite DEF IInv, TypeOK
  <2> QED
    BY <2>2, <2>3
<1>6. ASSUME NEW s \in Sessions, CheckApplication(s)
      PROVE  IInv'
  <2>1. UNCHANGED <<status, history, score, application>>
    BY <1>6 DEF CheckApplication
  <2>2. CASE application
    BY <1>o, <1>6, <1>t, <2>1, <2>2, NoWrite
       DEF CheckApplication, IInv, TypeOK, RelevantIsQualified
  <2>3. CASE ~ application
    <3>1. /\ seen[s] \in ALLOWED_TENDER_STATUSES
          /\ opening' = opening \union {s}
          /\ seen' = seen
      BY <1>6, <2>3 DEF CheckApplication
    <3>2. Visited' = Visited /\ Openings' = Openings
      BY <2>1 DEF Visited, Openings
    <3>3. SnapshotsSound'
      BY <2>1, <3>1, <3>2 DEF IInv, SnapshotsSound
    <3> QED
      BY <1>o, <1>t, <2>1, <3>1, <3>2, <3>3
         DEF IInv, TypeOK, HistoryHonest, MilestonesPassed,
             ApplicationOpenedOnce, RelevantIsQualified
  <2> QED
    BY <2>2, <2>3
<1>7. ASSUME NEW s \in Sessions, OpenApplication(s)
      PROVE  IInv'
  <2>1. /\ seen[s] \in ALLOWED_TENDER_STATUSES
        /\ ~ application /\ application' = TRUE /\ score' = score
    BY <1>7 DEF OpenApplication, MayInsert, IInv, SnapshotsSound
  <2>2. seen[s] # Closed /\ <<"GO", seen[s]>> \in Needs /\ "GO" \in Statuses
    BY <2>1 DEF ALLOWED_TENDER_STATUSES, Needs, Closed, Statuses
  <2>3. "GO" \in Visited /\ Openings = {}
    BY <2>1, <2>2 DEF IInv, SnapshotsSound, ApplicationOpenedOnce
  <2>4. CASE seen[s] = "GO"
    <3> DEFINE e == <<entry("GO", "PREPARATION", "application")>>
               n == Len(history)
    <3>1. can_transition("GO", "PREPARATION")
      BY DEF can_transition, TRANSITIONS
    <3>2. Permitted(e, seen[s]) /\ Len(e) = 1
      BY <2>4, <3>1, OneEntry DEF Causes
    <3>3. Write(s, e)
      BY <1>7, <2>4 DEF OpenApplication
    <3> HIDE DEF e
    <3>4. /\ n \in Nat /\ DOMAIN history = 1 .. n
          /\ history' \in Seq(Entry) /\ Len(history') = n + 1
          /\ \A i \in 1 .. n : history'[i] = history[i]
          /\ Visited \subseteq Visited'
      BY <1>t, <2>2, <3>2, <3>3, WriteStep, LenProperties
    <3>5. DOMAIN history' = 1 .. n + 1
      BY <3>4, LenProperties
    <3>6. ASSUME NEW i \in Openings' PROVE i = n + 1
      <4>1. i \in 1 .. n + 1 /\ history'[i].cause = "application"
        BY <3>5 DEF Openings
      <4>2. i \notin 1 .. n
        BY <2>3, <3>4, <4>1 DEF Openings
      <4> QED
        BY <3>4, <4>1, <4>2
    <3>7. ApplicationOpenedOnce'
      BY <2>1, <2>3, <3>4, <3>6 DEF ApplicationOpenedOnce
    <3> QED
      BY <1>o, <1>t, <2>1, <2>2, <3>2, <3>3, <3>7, WriteStep
         DEF IInv, TypeOK, RelevantIsQualified
  <2>5. CASE seen[s] # "GO"
    <3>1. Close(s) /\ UNCHANGED <<status, history>>
      BY <1>7, <2>5 DEF OpenApplication
    <3>2. Visited' = Visited /\ Openings' = Openings
      BY <3>1 DEF Visited, Openings
    <3>3. ApplicationOpenedOnce'
      BY <2>1, <2>3, <3>2 DEF ApplicationOpenedOnce
    <3>4. HistoryHonest' /\ MilestonesPassed'
      BY <3>1, <3>2 DEF IInv, HistoryHonest, MilestonesPassed
    <3>5. SnapshotsSound'
      BY <1>t, <3>1, <3>2 DEF Close, IInv, SnapshotsSound
    <3>6. TypeOK'
      BY <1>o, <1>t, <2>1, <3>1 DEF Close, TypeOK
    <3> QED
      BY <2>1, <3>1, <3>3, <3>4, <3>5, <3>6 DEF IInv, RelevantIsQualified
  <2> QED
    BY <2>4, <2>5
<1>8. CASE UNCHANGED vars
  <2>1. Visited' = Visited /\ Openings' = Openings
    BY <1>8 DEF vars, Visited, Openings
  <2> QED
    BY <1>o, <1>8, <1>t, <2>1
       DEF vars, IInv, TypeOK, HistoryHonest, MilestonesPassed, SnapshotsSound,
           ApplicationOpenedOnce, RelevantIsQualified
<1> QED
  BY <1>1, <1>2, <1>3, <1>4, <1>5, <1>6, <1>7, <1>8 DEF Next

LEMMA Invariance == Spec => []IInv
BY Initially, Preserved, PTL DEF Spec

-----------------------------------------------------------------------------
(* What the invariant gives, for any number of concurrent sessions. *)

\* The variables keep their types.
THEOREM TypesAreKept == Spec => []TypeOK
<1>1. IInv => TypeOK
  BY DEF IInv
<1> QED
  BY <1>1, Invariance, PTL

\* Nothing is submitted, won or lost before a GO, a preparation, a
\* validation and a final check, however stale the snapshots are.
THEOREM NoStatusSkipsAMilestone == Spec => []MilestonesPassed
<1>1. IInv => MilestonesPassed
  BY DEF IInv
<1> QED
  BY <1>1, Invariance, PTL

\* The rows of tender_status_history are permitted transitions and the last
\* one gives the status.
THEOREM HistoryNeverLies == Spec => []HistoryHonest
<1>1. IInv => HistoryHonest
  BY DEF IInv
<1> QED
  BY <1>1, Invariance, PTL

\* One application per tender, opened once and after a GO.
THEOREM OneApplicationAfterGo == Spec => []ApplicationOpenedOnce
<1>1. IInv => ApplicationOpenedOnce
  BY DEF IInv
<1> QED
  BY <1>1, Invariance, PTL

\* A tender scored above the threshold is no longer NOUVEAU.
THEOREM RelevantTendersLeaveNouveau == Spec => []RelevantIsQualified
<1>1. IInv => RelevantIsQualified
  BY DEF IInv
<1> QED
  BY <1>1, Invariance, PTL

-----------------------------------------------------------------------------
(* Until two sessions overlap the tender implements the status machine.    *)

\* Until two sessions overlap there is one snapshot at most, and it is up to
\* date.
Fresh ==
  ~ overlapped =>
    /\ \A s \in Sessions : seen[s] \in {Closed, status}
    /\ \A s, t \in Sessions : seen[s] # Closed /\ seen[t] # Closed => s = t

\* A step either opens a session on the current status, or closes it after
\* a move of the machine, a decision of the machine, or nothing.
LEMMA FreshStep ==
  ASSUME IInv, Fresh, [Next]_vars
  PROVE  Fresh' /\ (~ overlapped' => Machine!Next \/ UNCHANGED status)
<1> DEFINE Steps == Machine!Next \/ UNCHANGED status
<1>t. /\ seen \in [Sessions -> Statuses \union {Closed}]
      /\ history \in Seq(Entry)
  BY DEF IInv, TypeOK
<1>o. overlapped => overlapped'
  BY DEF Next, vars, Load, Rollback, PostStatus, PostDecision, ScoreTender,
         CheckApplication, OpenApplication
<1> SUFFICES ASSUME ~ overlapped' PROVE Fresh' /\ Steps
  BY DEF Fresh
<1>f. /\ ~ overlapped
      /\ \A s \in Sessions : seen[s] \in {Closed, status}
      /\ \A s, t \in Sessions : seen[s] # Closed /\ seen[t] # Closed => s = t
  BY <1>o DEF Fresh
<1>w. ASSUME NEW s \in Sessions, Close(s), seen[s] # Closed
      PROVE  Fresh'
  <2>1. \A t \in Sessions : seen'[t] = Closed
    BY <1>t, <1>f, <1>w DEF Close
  <2> QED
    BY <2>1 DEF Fresh
<1>m. ASSUME NEW to, can_transition(status, to), status' = to
      PROVE  Steps
  BY <1>m, NeverBack
     DEF Machine!Next, Machine!Move, Machine!can_transition,
         Machine!TRANSITIONS, Machine!Statuses, can_transition, TRANSITIONS, Statuses
<1>1. ASSUME NEW s \in Sessions, Load(s)
      PROVE  Fresh' /\ Steps
  <2>1. \A t \in Sessions : t # s => seen'[t] = Closed
    BY <1>t, <1>1 DEF Load
  <2>2. seen'[s] = status /\ status' = status
    BY <1>t, <1>1 DEF Load
  <2> QED
    BY <2>1, <2>2 DEF Fresh
<1>2. ASSUME NEW s \in Sessions, Rollback(s)
      PROVE  Fresh' /\ Steps
  BY <1>2, <1>w DEF Rollback
<1>3. ASSUME NEW s \in Sessions, NEW to \in Statuses, PostStatus(s, to)
      PROVE  Fresh' /\ Steps
  <2> DEFINE e == <<entry(seen[s], to, "status")>>
  <2>1. Write(s, e) /\ can_transition(seen[s], to) /\ seen[s] # Closed
    BY <1>3 DEF PostStatus
  <2>2. Len(e) = 1 /\ e[1].to = to
    BY DEF entry
  <2> HIDE DEF e
  <2>3. status' = to /\ Close(s)
    BY <2>1, <2>2 DEF Write
  <2>4. seen[s] = status
    BY <1>f, <2>1
  <2> QED
    BY <1>m, <1>w, <2>1, <2>3, <2>4
<1>4. ASSUME NEW s \in Sessions, NEW decision \in Decisions,
             PostDecision(s, decision)
      PROVE  Fresh' /\ Steps
  <2> DEFINE target == Target(decision)
             e == DecisionEntries(seen[s], target)
  <2>1. Write(s, e) /\ CanDecide(seen[s], target) /\ seen[s] # Closed
    BY <1>4 DEF PostDecision
  <2>2. Len(e) \in {1, 2} /\ e[Len(e)].to = target
    BY DEF DecisionEntries, entry
  <2>3. seen[s] = status
    BY <1>f, <2>1
  <2>4. CanDecide(status, Target(decision)) /\ status' = Target(decision) /\ Close(s)
    BY <2>1, <2>2, <2>3 DEF Write
  <2>5. Machine!Decide(decision)
    BY <2>4
       DEF Machine!Decide, Machine!CanDecide, Machine!ViaReview, Machine!Target,
           Machine!can_transition, Machine!TRANSITIONS,
           CanDecide, ViaReview, Target, can_transition, TRANSITIONS
  <2>6. Steps
    BY <2>5 DEF Machine!Next, Machine!Decisions, Decisions
  <2> QED
    BY <1>w, <2>1, <2>4, <2>6
<1>5. ASSUME NEW s \in Sessions, NEW total \in {"low", "high"},
             ScoreTender(s, total)
      PROVE  Fresh' /\ Steps
  <2>1. CASE Promotes(seen[s], total)
    <3> DEFINE e == <<entry("NOUVEAU", "A_ANALYSER", "score")>>
    <3>1. Write(s, e) /\ seen[s] = "NOUVEAU"
      BY <1>5, <2>1 DEF ScoreTender, Promotes
    <3>2. Len(e) = 1 /\ e[1].to = "A_ANALYSER"
      BY DEF entry
    <3> HIDE DEF e
    <3>3. status' = "A_ANALYSER" /\ Close(s)
      BY <3>1, <3>2 DEF Write
    <3>4. status = "NOUVEAU" /\ seen[s] # Closed
      BY <1>f, <3>1 DEF Closed
    <3>5. can_transition("NOUVEAU", "A_ANALYSER")
      BY DEF can_transition, TRANSITIONS
    <3> QED
      BY <1>m, <1>w, <3>3, <3>4, <3>5
  <2>2. CASE ~ Promotes(seen[s], total)
    BY <1>5, <1>w, <2>2 DEF ScoreTender
  <2> QED
    BY <2>1, <2>2
<1>6. ASSUME NEW s \in Sessions, CheckApplication(s)
      PROVE  Fresh' /\ Steps
  BY <1>6, <1>f, <1>w DEF CheckApplication, Fresh
<1>7. ASSUME NEW s \in Sessions, OpenApplication(s)
      PROVE  Fresh' /\ Steps
  <2>0. seen[s] # Closed
    BY <1>7 DEF OpenApplication, IInv, SnapshotsSound, ALLOWED_TENDER_STATUSES, Closed
  <2>1. CASE seen[s] = "GO"
    <3> DEFINE e == <<entry("GO", "PREPARATION", "application")>>
    <3>1. Write(s, e)
      BY <1>7, <2>1 DEF OpenApplication
    <3>2. Len(e) = 1 /\ e[1].to = "PREPARATION"
      BY DEF entry
    <3> HIDE DEF e
    <3>3. status' = "PREPARATION" /\ Close(s)
      BY <3>1, <3>2 DEF Write
    <3>4. status = "GO"
      BY <1>f, <2>1 DEF Closed
    <3>5. can_transition("GO", "PREPARATION")
      BY DEF can_transition, TRANSITIONS
    <3> QED
      BY <1>m, <1>w, <2>0, <3>3, <3>4, <3>5
  <2>2. CASE seen[s] # "GO"
    BY <1>7, <1>w, <2>0, <2>2 DEF OpenApplication
  <2> QED
    BY <2>1, <2>2
<1>8. CASE UNCHANGED vars
  BY <1>8 DEF vars, Fresh
<1> QED
  BY <1>1, <1>2, <1>3, <1>4, <1>5, <1>6, <1>7, <1>8 DEF Next

\* As long as no two sessions overlap, the tender follows the status machine
\* of tender_status.py: every commit is a permitted transition or a decision.
THEOREM SerialSessionsFollowTheMachine == Spec => FollowsMachine
<1>1. Init => Machine!Init /\ Fresh
  BY DEF Init, Machine!Init, Fresh, Closed
<1>2. IInv /\ Fresh /\ [Next]_vars =>
        Fresh' /\ [~ overlapped' => Machine!Next \/ UNCHANGED status]_vars
  BY FreshStep
<1> QED
  BY <1>1, <1>2, Invariance, PTL DEF Spec, FollowsMachine
=============================================================================
