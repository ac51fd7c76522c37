--------------------------- MODULE RequirementProofs ---------------------------
(***************************************************************************)
(* Theorems about the requirements of a tender, for any documents,         *)
(* requirements, sessions and verdicts: what RequirementExtraction makes   *)
(* of the rows, and what the user's hand may count on in EligibilityReview.*)
(***************************************************************************)
EXTENDS EligibilityReview, RequirementExtraction, SequenceTheorems, WellFoundedInduction,
        FiniteSetTheorems, TLAPS

\* A row, whatever its status: the statuses do not matter here.
Flagged(r) ==
  /\ r = [about |-> r.about, status |-> r.status, manual_status |-> r.manual_status, evidence |-> r.evidence]
  /\ r.manual_status \in BOOLEAN

FlaggedRows(table) ==
  /\ DOMAIN table = Reqs
  /\ \A q \in Reqs : Flagged(table[q])

\* Sessions hold such rows, as the table does.
Shape ==
  /\ FlaggedRows(row)
  /\ DOMAIN session = Sessions
  /\ session = [s \in Sessions |-> session[s]]
  /\ \A s \in Sessions :
       session[s] # Closed =>
         /\ FlaggedRows(session[s].rows)
         /\ session[s] = [kind |-> session[s].kind, pc |-> session[s].pc,
                          rows |-> session[s].rows, asked |-> session[s].asked]

\* `new` keeps the user's marks of `old`.
Remembers(old, new) ==
  \A q \in Reqs : old[q].manual_status => new[q].manual_status

LEMMA FreshRow ==
  ASSUME NEW about
  PROVE  Flagged([about |-> about, status |-> "A_VERIFIER", manual_status |-> FALSE, evidence |-> {}])
BY DEF Flagged

LEMMA ShapeInit == Init => Shape
<1> SUFFICES ASSUME Init PROVE Shape
  OBVIOUS
<1>1. FlaggedRows(row)
  <2>1. PICK about \in [Reqs -> Requirements] :
          row = [q \in Reqs |-> [about |-> about[q], status |-> "A_VERIFIER",
                                manual_status |-> FALSE, evidence |-> {}]]
    BY DEF Init
  <2>2. DOMAIN row = Reqs
    BY <2>1
  <2>3. \A q \in Reqs : row[q] = [about |-> about[q], status |-> "A_VERIFIER",
                                  manual_status |-> FALSE, evidence |-> {}]
    BY <2>1
  <2>4. ASSUME NEW q \in Reqs PROVE Flagged(row[q])
    BY <2>3, FreshRow
  <2> QED
    BY <2>2, <2>4 DEF FlaggedRows
<1>2. \A s \in Sessions : session[s] = Closed
  BY DEF Init
<1>3. DOMAIN session = Sessions /\ session = [s \in Sessions |-> session[s]]
  BY DEF Init
<1> QED
  BY <1>1, <1>2, <1>3 DEF Shape

-----------------------------------------------------------------------------
(* One row. *)

LEMMA WrittenRow ==
  ASSUME NEW current, NEW old, NEW new, Flagged(current), Flagged(old), Flagged(new)
  PROVE  /\ Flagged(Written(current, old, new))
         /\ (old.manual_status => new.manual_status) /\ current.manual_status
              => Written(current, old, new).manual_status
         /\ current = old => Written(current, old, new) = new
<1> DEFINE w == Written(current, old, new)
<1>1. DOMAIN current = {"about", "status", "manual_status", "evidence"}
  BY DEF Flagged
<1>2. w = [f \in {"about", "status", "manual_status", "evidence"} |->
             IF new[f] # old[f] THEN new[f] ELSE current[f]]
  BY <1>1 DEF Written
<1>3. w = [about |-> w.about, status |-> w.status, manual_status |-> w.manual_status, evidence |-> w.evidence]
  BY <1>2
<1>4. w.manual_status = IF new.manual_status # old.manual_status
                        THEN new.manual_status ELSE current.manual_status
  BY <1>2
<1>5. ASSUME current = old PROVE w = new
  <2>1. w = [f \in {"about", "status", "manual_status", "evidence"} |-> new[f]]
    BY <1>2, <1>5
  <2>2. new = [about |-> new.about, status |-> new.status, manual_status |-> new.manual_status, evidence |-> new.evidence]
    BY DEF Flagged
  <2> QED
    BY <2>1, <2>2
<1> HIDE DEF w
<1> QED
  BY <1>3, <1>4, <1>5 DEF Flagged, w

\* The engine leaves alone what is marked, and the marks of the rest.
LEMMA ResetRow ==
  ASSUME NEW r, Flagged(r)
  PROVE  Flagged(Reset(r)) /\ Reset(r).manual_status = r.manual_status
         /\ (r.manual_status => Reset(r) = r)
BY DEF Flagged, Reset

LEMMA AppliedRow ==
  ASSUME NEW r, NEW j, Flagged(r)
  PROVE  /\ Flagged(apply(r, j)) /\ apply(r, j).manual_status = r.manual_status
         /\ apply(r, j).status = j.status /\ apply(r, j).evidence = j.evidence
         /\ apply(r, j).about = r.about
<1> DEFINE v == j.status
           e == j.evidence
           n == [r EXCEPT !.status = v, !.evidence = e]
<1>1. apply(r, j) = n
  BY DEF apply
<1>2. DOMAIN r = {"about", "status", "manual_status", "evidence"}
  BY DEF Flagged
<1> HIDE DEF v, e
<1>3. /\ n = [f \in {"about", "status", "manual_status", "evidence"} |-> n[f]]
      /\ n["manual_status"] = r["manual_status"] /\ n["status"] = v
      /\ n["evidence"] = e /\ n["about"] = r["about"]
  BY <1>2
<1> HIDE DEF n
<1>4. n = [about |-> n.about, status |-> n.status, manual_status |-> n.manual_status, evidence |-> n.evidence]
  BY <1>3
<1>5. n.manual_status \in BOOLEAN
  BY <1>3 DEF Flagged
<1>6. Flagged(n)
  BY <1>4, <1>5 DEF Flagged
<1>7. n.manual_status = r.manual_status /\ n.status = v /\ n.evidence = e /\ n.about = r.about
  BY <1>3
<1> QED
  BY <1>1, <1>6, <1>7 DEF v, e

LEMMA AnsweredStatus ==
  ASSUME NEW v PROVE Answered(v).status = v /\ Answered(v).evidence = {"answer"}
BY DEF Answered, Judgement

LEMMA JudgedRow ==
  ASSUME NEW r, NEW asked, NEW j \in Judgements(r, asked), Flagged(r)
  PROVE  Flagged(j) /\ j.manual_status = r.manual_status /\ (r.manual_status => j = r)
<1>1. CASE r.manual_status
  BY <1>1 DEF Judgements
<1>2. CASE ~ r.manual_status
  <2>1. PICK judgement : j = apply(r, judgement)
    BY <1>2 DEF Judgements
  <2> QED
    BY <1>2, <2>1, AppliedRow
<1> QED
  BY <1>1, <1>2

-----------------------------------------------------------------------------
(* A commit, by a session that worked on rows it may have read long ago. *)

\* The session either goes on with the rows it has committed, or ends.
MovesOn(s, new) ==
  \/ \E pc \in {"read_questions", "generate"} :
       session' = [session EXCEPT ![s].rows = new, ![s].pc = pc]
  \/ session' = [session EXCEPT ![s] = Closed]

\* What the commits of this module write and leave alone.
Saves(s, new) ==
  /\ row' = [q \in Reqs |-> Written(row[q], session[s].rows[q], new[q])]
  /\ MovesOn(s, new)

LEMMA CommitStep ==
  ASSUME Shape, NEW s \in Sessions, session[s] # Closed,
         NEW new, FlaggedRows(new), Remembers(session[s].rows, new), Saves(s, new)
  PROVE  Shape' /\ Remembers(row, row')
<1>1. \A q \in Reqs : Flagged(row[q]) /\ Flagged(session[s].rows[q]) /\ Flagged(new[q])
  BY DEF Shape, FlaggedRows
<1>2. \A q \in Reqs : Flagged(row'[q]) /\ (row[q].manual_status => row'[q].manual_status)
  <2> SUFFICES ASSUME NEW q \in Reqs
               PROVE  Flagged(row'[q]) /\ (row[q].manual_status => row'[q].manual_status)
    OBVIOUS
  <2>1. row'[q] = Written(row[q], session[s].rows[q], new[q])
    BY DEF Saves
  <2> QED
    BY <1>1, <2>1, WrittenRow DEF Remembers
<1>3. FlaggedRows(row')
  BY <1>2 DEF FlaggedRows, Saves
<1>4. /\ DOMAIN session' = Sessions
      /\ session' = [t \in Sessions |-> session'[t]]
      /\ \A t \in Sessions \ {s} : session'[t] = session[t]
  BY DEF Shape, Saves, MovesOn
<1>5. \/ session'[s] = Closed
      \/ \E pc \in {"read_questions", "generate"} :
           session'[s] = [session[s] EXCEPT !.rows = new, !.pc = pc]
  BY DEF Shape, Saves, MovesOn
<1>6. session'[s] # Closed =>
        /\ FlaggedRows(session'[s].rows)
        /\ session'[s] = [kind |-> session'[s].kind, pc |-> session'[s].pc,
                          rows |-> session'[s].rows, asked |-> session'[s].asked]
  BY <1>5 DEF Shape
<1> QED
  BY <1>2, <1>3, <1>4, <1>6 DEF Shape, Remembers

-----------------------------------------------------------------------------
(* What the steps of the sessions save. *)

\* The engine leaves alone what is marked, and the marks of the rest.
HandsOff(old, new) ==
  \A q \in Reqs : /\ new[q].manual_status = old[q].manual_status
                  /\ old[q].manual_status = TRUE => new[q] = old[q]

LEMMA ExtractSaves ==
  ASSUME Shape, NEW s \in Sessions, Extract(s)
  PROVE  LET new == [q \in Reqs |-> Reset(session[s].rows[q])]
         IN  /\ session[s] # Closed /\ FlaggedRows(new) /\ Saves(s, new)
             /\ HandsOff(session[s].rows, new)
<1> DEFINE old == session[s].rows
           new == [q \in Reqs |-> Reset(old[q])]
<1>1. session[s] # Closed
  BY DEF Extract, Closed
<1>2. \A q \in Reqs : Flagged(old[q])
  BY <1>1 DEF Shape, FlaggedRows
<1>3. DOMAIN new = Reqs /\ \A q \in Reqs : new[q] = Reset(old[q])
  OBVIOUS
<1>4. Saves(s, new)
  BY DEF Extract, Commit, Saves, MovesOn
<1> HIDE DEF new
<1>5. FlaggedRows(new)
  BY <1>2, <1>3, ResetRow DEF FlaggedRows
<1>6. HandsOff(old, new)
  BY <1>2, <1>3, ResetRow DEF HandsOff
<1> USE DEF new
<1> QED
  BY <1>1, <1>4, <1>5, <1>6

LEMMA EvaluateSaves ==
  ASSUME Shape, NEW s \in Sessions, session[s] # Closed,
         NEW new, DOMAIN new = Reqs, Commit(s, new, "generate"),
         \A q \in Reqs : new[q] \in Judgements(session[s].rows[q], session[s].asked[q])
  PROVE  FlaggedRows(new) /\ Saves(s, new) /\ HandsOff(session[s].rows, new)
<1>1. \A q \in Reqs : Flagged(session[s].rows[q])
  BY DEF Shape, FlaggedRows
<1>2. \A q \in Reqs : Flagged(new[q])
  BY <1>1, JudgedRow
<1>3. HandsOff(session[s].rows, new)
  BY <1>1, JudgedRow DEF HandsOff
<1> QED
  BY <1>2, <1>3 DEF FlaggedRows, Commit, Saves, MovesOn

LEMMA PatchSaves ==
  ASSUME Shape, NEW s \in Sessions, NEW q \in Reqs, NEW v, Patch(s, q, v)
  PROVE  LET new == [session[s].rows EXCEPT ![q].status = v, ![q].manual_status = TRUE]
         IN  session[s] # Closed /\ FlaggedRows(new) /\ Saves(s, new)
<1>1. session[s] # Closed
  BY DEF Patch, Closed
<1>2. FlaggedRows(session[s].rows)
  BY <1>1 DEF Shape
<1> DEFINE old == session[s].rows
           new == [session[s].rows EXCEPT ![q].status = v, ![q].manual_status = TRUE]
<1>3. DOMAIN new = Reqs /\ (\A p \in Reqs \ {q} : new[p] = old[p])
  BY <1>2 DEF FlaggedRows
<1>4. Flagged(new[q])
  <2>1. new[q] = [old[q] EXCEPT !.status = v, !.manual_status = TRUE]
    BY <1>2 DEF FlaggedRows
  <2>2. Flagged(old[q])
    BY <1>2 DEF FlaggedRows
  <2> HIDE DEF new, old
  <2> QED
    BY <2>1, <2>2 DEF Flagged
<1>5. Saves(s, new)
  BY DEF Patch, CommitAndClose, Close, Saves, MovesOn
<1> HIDE DEF new
<1>6. FlaggedRows(new)
  BY <1>2, <1>3, <1>4 DEF FlaggedRows
<1> USE DEF new
<1> QED
  BY <1>1, <1>5, <1>6

LEMMA AnswerSaves ==
  ASSUME Shape, NEW s \in Sessions, NEW q \in Reqs, NEW i, NEW v, Answer(s, q, i, v)
  PROVE  LET new == [session[s].rows EXCEPT ![q] = apply(@, Answered(v))]
         IN  session[s] # Closed /\ FlaggedRows(new) /\ Saves(s, new)
<1>1. session[s] # Closed
  BY DEF Answer, Closed
<1>2. FlaggedRows(session[s].rows)
  BY <1>1 DEF Shape
<1> DEFINE old == session[s].rows
           new == [session[s].rows EXCEPT ![q] = apply(@, Answered(v))]
<1>3. DOMAIN new = Reqs /\ (\A p \in Reqs \ {q} : new[p] = old[p])
  BY <1>2 DEF FlaggedRows
<1>4. Flagged(new[q])
  <2>1. new[q] = apply(old[q], Answered(v)) /\ Flagged(old[q])
    BY <1>2 DEF FlaggedRows
  <2> HIDE DEF new, old
  <2> QED
    BY <2>1, AppliedRow
<1>5. Saves(s, new)
  BY DEF Answer, CommitAndClose, Close, Saves, MovesOn
<1> HIDE DEF new
<1>6. FlaggedRows(new)
  BY <1>2, <1>3, <1>4 DEF FlaggedRows
<1> USE DEF new
<1> QED
  BY <1>1, <1>5, <1>6

-----------------------------------------------------------------------------
(* Whoever overlaps whom, the marks of the user's hand are kept. *)

\* The steps that commit no requirement: they open, go on or end a session.
Turns(s) ==
  \/ \E kind \in DOMAIN Entrance : Open(s, kind)
  \/ ReadQuestions(s) \/ Generate(s) \/ Fail(s)
  \/ \E q \in Reqs : \E i \in 1 .. MaxQuestions : Skip(s, q, i)

LEMMA TurnStep ==
  ASSUME Shape, NEW s \in Sessions, Turns(s)
  PROVE  Shape' /\ row' = row
<1>1. ASSUME NEW kind \in DOMAIN Entrance, Open(s, kind) PROVE Shape' /\ row' = row
  BY <1>1 DEF Open, Shape
<1>2. CASE ReadQuestions(s)
  <2>1. session[s] # Closed
    BY <1>2 DEF ReadQuestions, Closed
  <2>2. PICK pc : session' = [session EXCEPT ![s].asked = questions, ![s].pc = pc]
    BY <1>2 DEF ReadQuestions
  <2>3. session'[s] = [session[s] EXCEPT !.asked = questions, !.pc = pc]
    BY <2>2 DEF Shape
  <2>4. session[s] = [kind |-> session[s].kind, pc |-> session[s].pc,
                      rows |-> session[s].rows, asked |-> session[s].asked]
    BY <2>1 DEF Shape
  <2>5. session'[s] = [kind |-> session[s].kind, pc |-> pc,
                       rows |-> session[s].rows, asked |-> questions]
    BY <2>3, <2>4
  <2>6. \A t \in Sessions \ {s} : session'[t] = session[t]
    BY <2>2 DEF Shape
  <2>7. DOMAIN session' = Sessions /\ session' = [t \in Sessions |-> session'[t]]
    BY <2>2 DEF Shape
  <2>8. row' = row
    BY <1>2 DEF ReadQuestions
  <2> QED
    BY <2>1, <2>5, <2>6, <2>7, <2>8 DEF Shape
<1>3. CASE Generate(s)
  BY <1>3 DEF Generate, Close, Shape
<1>4. CASE Fail(s)
  BY <1>4 DEF Fail, Close, Shape
<1>5. ASSUME NEW q \in Reqs, NEW i \in 1 .. MaxQuestions, Skip(s, q, i)
      PROVE  Shape' /\ row' = row
  BY <1>5 DEF Skip, Close, Shape
<1> QED
  BY <1>1, <1>2, <1>3, <1>4, <1>5 DEF Turns

LEMMA ReviewStep ==
  ASSUME Shape, [Next]_vars
  PROVE  Shape' /\ Remembers(row, row')
<1> DEFINE Kept == Shape' /\ Remembers(row, row')
<1>1. ASSUME NEW s \in Sessions, Turns(s) PROVE Kept
  BY <1>1, TurnStep DEF Remembers
<1>2. ASSUME NEW s \in Sessions, Extract(s) PROVE Kept
  <2> DEFINE new == [q \in Reqs |-> Reset(session[s].rows[q])]
  <2>1. /\ session[s] # Closed /\ FlaggedRows(new) /\ Saves(s, new)
        /\ HandsOff(session[s].rows, new)
    BY <1>2, ExtractSaves
  <2>2. Remembers(session[s].rows, new)
    BY <2>1 DEF HandsOff, Remembers
  <2> QED
    BY <2>1, <2>2, CommitStep
<1>3. ASSUME NEW s \in Sessions, Evaluate(s) PROVE Kept
  <2>1. session[s] # Closed
    BY <1>3 DEF Evaluate, Closed
  <2>2. PICK new : /\ DOMAIN new = Reqs /\ Commit(s, new, "generate")
                   /\ \A q \in Reqs : new[q] \in Judgements(session[s].rows[q], session[s].asked[q])
    BY <1>3 DEF Evaluate
  <2>3. FlaggedRows(new) /\ Saves(s, new) /\ HandsOff(session[s].rows, new)
    BY <2>1, <2>2, EvaluateSaves
  <2>4. Remembers(session[s].rows, new)
    BY <2>3 DEF HandsOff, Remembers
  <2> QED
    BY <2>1, <2>3, <2>4, CommitStep
<1>4. ASSUME NEW s \in Sessions, NEW q \in Reqs, NEW v \in HandVerdicts, Patch(s, q, v)
      PROVE  Kept
  <2> DEFINE new == [session[s].rows EXCEPT ![q].status = v, ![q].manual_status = TRUE]
  <2>1. session[s] # Closed /\ FlaggedRows(new) /\ Saves(s, new)
    BY <1>4, PatchSaves
  <2>2. Remembers(session[s].rows, new)
    BY <2>1 DEF Shape, FlaggedRows, Remembers
  <2> QED
    BY <2>1, <2>2, CommitStep
<1>5. ASSUME NEW s \in Sessions, NEW q \in Reqs, NEW i \in 1 .. MaxQuestions,
             NEW v \in AnswerVerdicts, Answer(s, q, i, v)
      PROVE  Kept
  <2> DEFINE new == [session[s].rows EXCEPT ![q] = apply(@, Answered(v))]
  <2>1. session[s] # Closed /\ FlaggedRows(new) /\ Saves(s, new)
    BY <1>5, AnswerSaves
  <2>2. FlaggedRows(session[s].rows)
    BY <2>1 DEF Shape
  <2>3. \A p \in Reqs : new[p].manual_status = session[s].rows[p].manual_status
    BY <2>2, AppliedRow DEF FlaggedRows
  <2>4. Remembers(session[s].rows, new)
    BY <2>3 DEF Remembers
  <2> QED
    BY <2>1, <2>4, CommitStep
<1>6. CASE UNCHANGED vars
  BY <1>6 DEF vars, Shape, Remembers
<1> QED
  BY <1>1, <1>2, <1>3, <1>4, <1>5, <1>6 DEF Next, Request, Turns

\* The mark of the user's hand outlives every job and every request.
THEOREM MarksAreKept == Spec => HandIsRemembered
<1>1. Shape /\ [Next]_vars => Shape' /\ (\A q \in Reqs : row[q].manual_status => row'[q].manual_status)
  BY ReviewStep DEF Remembers
<1> QED
  BY <1>1, ShapeInit, PTL DEF Spec, HandIsRemembered

-----------------------------------------------------------------------------
(* As long as no two sessions have overlapped, the one that is open holds  *)
(* the rows as they are, and what the user set by hand stays.              *)

Alone ==
  ~ overlapped =>
    /\ \A s, t \in Sessions : session[s] # Closed /\ session[t] # Closed => s = t
    /\ \A s \in Sessions : session[s] # Closed =>
         \A q \in Reqs : session[s].rows[q] = row[q]

Unshared == Shape /\ DOMAIN hand = Reqs /\ Alone /\ HandPrevails

LEMMA UnsharedInit == Init => Unshared
<1> SUFFICES ASSUME Init PROVE Unshared
  OBVIOUS
<1>1. Shape
  BY ShapeInit
<1>2. \A s \in Sessions : session[s] = Closed
  BY DEF Init
<1>3. HandPrevails
  BY DEF Init, HandPrevails
<1> QED
  BY <1>1, <1>2, <1>3 DEF Init, Unshared, Alone

LEMMA AloneStep ==
  ASSUME Unshared, ~ overlapped, NEW s \in Sessions, session[s] # Closed,
         NEW new, FlaggedRows(new), Saves(s, new), overlapped' = overlapped
  PROVE  Alone' /\ (\A q \in Reqs : row'[q] = new[q])
<1>1. \A q \in Reqs : Flagged(row[q]) /\ session[s].rows[q] = row[q] /\ Flagged(new[q])
  BY DEF Unshared, Shape, FlaggedRows, Alone
<1>2. ASSUME NEW q \in Reqs PROVE row'[q] = new[q]
  <2>1. row'[q] = Written(row[q], session[s].rows[q], new[q])
    BY DEF Saves
  <2> QED
    BY <1>1, <2>1, WrittenRow
<1>3. \A t \in Sessions \ {s} : session'[t] = Closed
  BY DEF Unshared, Shape, Alone, Saves, MovesOn
<1>4. session'[s] # Closed => session'[s].rows = new
  <2>1. \/ session'[s] = Closed
        \/ \E pc \in {"read_questions", "generate"} :
             session'[s] = [session[s] EXCEPT !.rows = new, !.pc = pc]
    BY DEF Unshared, Shape, Saves, MovesOn
  <2> QED
    BY <2>1 DEF Unshared, Shape
<1> QED
  BY <1>2, <1>3, <1>4 DEF Alone

LEMMA AloneTurns ==
  ASSUME Unshared, NEW s \in Sessions, Turns(s)
  PROVE  Alone' /\ hand' = hand /\ (~ overlapped' => ~ overlapped)
<1>1. ASSUME NEW kind \in DOMAIN Entrance, Open(s, kind)
      PROVE  Alone' /\ hand' = hand /\ (~ overlapped' => ~ overlapped)
  <2>1. session'[s].rows = row /\ \A t \in Sessions \ {s} : session'[t] = session[t]
    BY <1>1 DEF Open, Unshared, Shape
  <2>2. /\ row' = row /\ hand' = hand
        /\ overlapped' = (overlapped \/ \E t \in Sessions : session[t] # Closed)
    BY <1>1 DEF Open
  <2>3. ASSUME ~ overlapped'
        PROVE  ~ overlapped /\ \A t \in Sessions : session[t] = Closed
    BY <2>2, <2>3
  <2>4. Alone'
    <3> SUFFICES ASSUME ~ overlapped'
                 PROVE  /\ \A t, u \in Sessions : session'[t] # Closed /\ session'[u] # Closed => t = u
                        /\ \A t \in Sessions : session'[t] # Closed =>
                             \A q \in Reqs : session'[t].rows[q] = row'[q]
      BY DEF Alone
    <3>1. \A t \in Sessions : session'[t] # Closed => t = s
      BY <2>1, <2>3
    <3> QED
      BY <2>1, <2>2, <3>1
  <2>5. ~ overlapped' => ~ overlapped
    BY <2>3
  <2>6. hand' = hand
    BY <2>2
  <2> QED
    BY <2>4, <2>5, <2>6
<1>2. ASSUME session'[s] # Closed => session'[s].rows = session[s].rows /\ session[s] # Closed,
             \A t \in Sessions \ {s} : session'[t] = session[t],
             row' = row, hand' = hand, overlapped' = overlapped
      PROVE  Alone' /\ hand' = hand /\ (~ overlapped' => ~ overlapped)
  BY <1>2 DEF Unshared, Alone
<1>3. CASE ReadQuestions(s)
  <2>1. session[s] # Closed
    BY <1>3 DEF ReadQuestions, Closed
  <2>2. PICK pc : session' = [session EXCEPT ![s].asked = questions, ![s].pc = pc]
    BY <1>3 DEF ReadQuestions
  <2>3. session'[s] = [session[s] EXCEPT !.asked = questions, !.pc = pc]
    BY <2>2 DEF Unshared, Shape
  <2>4. session[s] = [kind |-> session[s].kind, pc |-> session[s].pc,
                      rows |-> session[s].rows, asked |-> session[s].asked]
    BY <2>1 DEF Unshared, Shape
  <2>5. session'[s].rows = session[s].rows
    BY <2>3, <2>4
  <2>6. \A t \in Sessions \ {s} : session'[t] = session[t]
    BY <2>2 DEF Unshared, Shape
  <2>7. row' = row /\ hand' = hand /\ overlapped' = overlapped
    BY <1>3 DEF ReadQuestions, mishaps
  <2> QED
    BY <1>2, <2>1, <2>5, <2>6, <2>7
<1>4. ASSUME Generate(s) \/ Fail(s) \/ \E q \in Reqs : \E i \in 1 .. MaxQuestions : Skip(s, q, i)
      PROVE  Alone' /\ hand' = hand /\ (~ overlapped' => ~ overlapped)
  <2>1. session' = [session EXCEPT ![s] = Closed]
    BY <1>4 DEF Generate, Fail, Skip, Close
  <2>2. row' = row /\ hand' = hand /\ overlapped' = overlapped
    BY <1>4 DEF Generate, Fail, Skip, mishaps
  <2>3. session'[s] = Closed /\ \A t \in Sessions \ {s} : session'[t] = session[t]
    BY <2>1 DEF Unshared, Shape
  <2> QED
    BY <1>2, <2>2, <2>3
<1> QED
  BY <1>1, <1>3, <1>4 DEF Turns

\* What the properties of this section ask of a step, besides Shape'.
Unhurt == DOMAIN hand' = Reqs /\ Alone' /\ HandPrevails'

\* A commit of the engine.
LEMMA EngineCommit ==
  ASSUME Unshared, NEW s \in Sessions, session[s] # Closed,
         NEW new, FlaggedRows(new), Saves(s, new), HandsOff(session[s].rows, new),
         hand' = hand, overlapped' = overlapped
  PROVE  Unhurt
<1>1. CASE overlapped
  BY <1>1 DEF Unshared, Alone, HandPrevails, Unhurt
<1>2. CASE ~ overlapped
  <2>1. Alone' /\ (\A q \in Reqs : row'[q] = new[q])
    BY <1>2, AloneStep
  <2>2. \A q \in Reqs : session[s].rows[q] = row[q]
    BY <1>2 DEF Unshared, Alone
  <2>3. ASSUME NEW q \in Reqs, row'[q].manual_status PROVE row'[q].status = hand'[q]
    <3>1. row[q].manual_status = TRUE /\ row'[q] = row[q]
      <4>1. row'[q].manual_status = row[q].manual_status
        BY <2>1, <2>2 DEF HandsOff
      <4>2. row[q].manual_status = TRUE
        BY <2>3, <4>1 DEF Unshared, Shape, FlaggedRows, Flagged
      <4> QED
        BY <2>1, <2>2, <4>2 DEF HandsOff
    <3> QED
      BY <1>2, <3>1 DEF Unshared, HandPrevails
  <2> QED
    BY <2>1, <2>3 DEF Unshared, HandPrevails, Unhurt
<1> QED
  BY <1>1, <1>2

\* A commit of the user, on requirement q alone.
OnlyAt(q, old, new) ==
  /\ DOMAIN hand' = Reqs
  /\ \A p \in Reqs \ {q} : new[p] = old[p] /\ hand'[p] = hand[p]
  /\ ~ overlapped /\ new[q].manual_status = TRUE => new[q].status = hand'[q]

LEMMA UserCommit ==
  ASSUME Unshared, NEW s \in Sessions, session[s] # Closed,
         NEW new, FlaggedRows(new), Saves(s, new),
         NEW q \in Reqs, OnlyAt(q, session[s].rows, new), overlapped' = overlapped
  PROVE  Unhurt
<1>1. CASE overlapped
  BY <1>1 DEF Alone, HandPrevails, Unhurt, OnlyAt
<1>2. CASE ~ overlapped
  <2>1. Alone' /\ (\A p \in Reqs : row'[p] = new[p])
    BY <1>2, AloneStep
  <2>2. \A p \in Reqs : session[s].rows[p] = row[p]
    BY <1>2 DEF Unshared, Alone
  <2>3. ASSUME NEW p \in Reqs, row'[p].manual_status PROVE row'[p].status = hand'[p]
    <3>1. CASE p = q
      <4>1. new[q].manual_status = TRUE
        BY <2>1, <2>3, <3>1 DEF FlaggedRows, Flagged
      <4> QED
        BY <1>2, <2>1, <3>1, <4>1 DEF OnlyAt
    <3>2. CASE p # q
      <4>1. row'[p] = row[p] /\ hand'[p] = hand[p]
        BY <2>1, <2>2, <3>2 DEF OnlyAt
      <4> QED
        BY <1>2, <2>3, <4>1 DEF Unshared, HandPrevails
    <3> QED
      BY <3>1, <3>2
  <2> QED
    BY <2>1, <2>3 DEF HandPrevails, Unhurt, OnlyAt
<1> QED
  BY <1>1, <1>2

LEMMA UnsharedStep == Unshared /\ [Next]_vars => Unshared'
<1> SUFFICES ASSUME Unshared, [Next]_vars PROVE Unshared'
  OBVIOUS
<1>0. Shape'
  BY ReviewStep DEF Unshared
<1>1. ASSUME NEW s \in Sessions, Turns(s) PROVE Unhurt
  <2>1. row' = row
    BY <1>1, TurnStep DEF Unshared
  <2>2. Alone' /\ hand' = hand /\ (~ overlapped' => ~ overlapped)
    BY <1>1, AloneTurns
  <2> QED
    BY <2>1, <2>2 DEF Unshared, HandPrevails, Unhurt
<1>2. ASSUME NEW s \in Sessions, Extract(s) PROVE Unhurt
  <2> DEFINE new == [q \in Reqs |-> Reset(session[s].rows[q])]
  <2>1. /\ session[s] # Closed /\ FlaggedRows(new) /\ Saves(s, new)
        /\ HandsOff(session[s].rows, new)
    BY <1>2, ExtractSaves DEF Unshared
  <2>2. hand' = hand /\ overlapped' = overlapped
    BY <1>2 DEF Extract, mishaps
  <2> HIDE DEF new
  <2> QED
    BY <2>1, <2>2, EngineCommit
<1>3. ASSUME NEW s \in Sessions, Evaluate(s) PROVE Unhurt
  <2>1. session[s] # Closed
    BY <1>3 DEF Evaluate, Closed
  <2>2. PICK new : /\ DOMAIN new = Reqs /\ Commit(s, new, "generate")
                   /\ \A q \in Reqs : new[q] \in Judgements(session[s].rows[q], session[s].asked[q])
    BY <1>3 DEF Evaluate
  <2>3. FlaggedRows(new) /\ Saves(s, new) /\ HandsOff(session[s].rows, new)
    BY <2>1, <2>2, EvaluateSaves DEF Unshared
  <2>4. hand' = hand /\ overlapped' = overlapped
    BY <1>3 DEF Evaluate, mishaps
  <2> QED
    BY <2>1, <2>3, <2>4, EngineCommit
<1>4. ASSUME NEW s \in Sessions, NEW q \in Reqs, NEW v \in HandVerdicts, Patch(s, q, v)
      PROVE  Unhurt
  <2> DEFINE new == [session[s].rows EXCEPT ![q].status = v, ![q].manual_status = TRUE]
  <2>1. session[s] # Closed /\ FlaggedRows(new) /\ Saves(s, new)
    BY <1>4, PatchSaves DEF Unshared
  <2>2. FlaggedRows(session[s].rows)
    BY <2>1 DEF Unshared, Shape
  <2>3. /\ \A p \in Reqs \ {q} : new[p] = session[s].rows[p]
        /\ new[q].status = v
    BY <2>2 DEF FlaggedRows, Flagged
  <2>4. /\ DOMAIN hand' = Reqs /\ hand'[q] = v /\ \A p \in Reqs \ {q} : hand'[p] = hand[p]
        /\ overlapped' = overlapped
    BY <1>4 DEF Patch, mishaps, Unshared
  <2> HIDE DEF new
  <2>5. \A p \in Reqs \ {q} : new[p] = session[s].rows[p] /\ hand'[p] = hand[p]
    BY <2>3, <2>4
  <2>6. ~ overlapped /\ new[q].manual_status = TRUE => new[q].status = hand'[q]
    BY <2>3, <2>4
  <2>7. OnlyAt(q, session[s].rows, new)
    BY <2>4, <2>5, <2>6 DEF OnlyAt
  <2> QED
    BY <2>1, <2>4, <2>7, UserCommit
<1>5. ASSUME NEW s \in Sessions, NEW q \in Reqs, NEW i \in 1 .. MaxQuestions,
             NEW v \in AnswerVerdicts, Answer(s, q, i, v)
      PROVE  Unhurt
  <2> DEFINE new == [session[s].rows EXCEPT ![q] = apply(@, Answered(v))]
  <2>1. session[s] # Closed /\ FlaggedRows(new) /\ Saves(s, new)
    BY <1>5, AnswerSaves DEF Unshared
  <2>2. FlaggedRows(session[s].rows)
    BY <2>1 DEF Unshared, Shape
  <2>3. /\ \A p \in Reqs \ {q} : new[p] = session[s].rows[p]
        /\ new[q].status = v /\ new[q].manual_status = session[s].rows[q].manual_status
    BY <2>2, AppliedRow, AnsweredStatus DEF FlaggedRows
  <2>4. /\ DOMAIN hand' = Reqs /\ \A p \in Reqs \ {q} : hand'[p] = hand[p]
        /\ row[q].manual_status = TRUE => hand'[q] = v
        /\ overlapped' = overlapped
    BY <1>5 DEF Answer, mishaps, Unshared
  <2>5. ~ overlapped /\ new[q].manual_status = TRUE => new[q].status = hand'[q]
    BY <2>1, <2>3, <2>4 DEF Unshared, Alone
  <2> HIDE DEF new
  <2>6. \A p \in Reqs \ {q} : new[p] = session[s].rows[p] /\ hand'[p] = hand[p]
    BY <2>3, <2>4
  <2>7. OnlyAt(q, session[s].rows, new)
    BY <2>4, <2>5, <2>6 DEF OnlyAt
  <2> QED
    BY <2>1, <2>4, <2>7, UserCommit
<1>6. ASSUME UNCHANGED vars PROVE Unhurt
  BY <1>6 DEF vars, mishaps, Unshared, Alone, HandPrevails, Unhurt
<1> QED
  <2>1. Unhurt
    BY <1>1, <1>2, <1>3, <1>4, <1>5, <1>6 DEF Next, Request, Turns
  <2> QED
    BY <1>0, <2>1 DEF Unshared, Unhurt

\* While sessions do not overlap, a status set by hand stays until the user
\* sets or answers another.
THEOREM HandsPrevail == Spec => []HandPrevails
<1>1. Unshared => HandPrevails
  BY DEF Unshared
<1> QED
  BY <1>1, UnsharedInit, UnsharedStep, PTL DEF Spec

-----------------------------------------------------------------------------
(* What the rules and the model conclude. *)

\* A judgement that claims a compliance rests on something, unless the
\* requirement needs no proof.
Warranted(j, about) ==
  j.status = "CONFORME" /\ ~ NeedsNoProof(about) => j.evidence # {}

LEMMA Judged == ASSUME NEW v, NEW e PROVE Judgement(v, e).status = v /\ Judgement(v, e).evidence = e
BY DEF Judgement

LEMMA NotInProfileWarranted == \A about : Warranted(NotInProfile, about)
BY Judged DEF NotInProfile, Warranted

LEMMA ExperienceWarranted ==
  ASSUME NEW about \in Requirements, NEW c
  PROVE  Warranted(_experience(about, c, Dossier), about)
<1> DEFINE years == {e.years : e \in c.experts} \ {0}
           projects == {p \in c.projects : Dossier.sector = "" \/ _mentions(p.sector, Dossier.sector)}
           ask == CHOOSE n \in about.needed : TRUE
           Reached(yes, evidence) == Judgement(IF yes THEN "CONFORME" ELSE "NON_CONFORME", evidence)
<1>1. CASE about.needed = {}
  BY <1>1, NotInProfileWarranted DEF _experience
<1>2. CASE about.needed # {} /\ ask.unit = "projects"
  <2>1. _experience(about, c, Dossier) =
          Reached(Cardinality(projects) >= ask.number, OfKind("project", projects))
    BY <1>2 DEF _experience
  <2>2. ask \in about.needed
    BY <1>2
  <2>3. ask.number \in Nat
    BY <2>2, ReviewAssumption
  <2> HIDE DEF projects, ask
  <2>4. CASE projects # {}
    BY <2>1, <2>4, Judged DEF Warranted, OfKind
  <2>5. CASE projects = {}
    <3>1. Cardinality(projects) = 0
      BY <2>5, FS_EmptySet
    <3>2. CASE ask.number = 0
      BY <1>2, <2>2, <3>2 DEF Warranted, NeedsNoProof, ask
    <3>3. CASE ask.number # 0
      BY <2>1, <2>3, <3>1, <3>3, Judged DEF Warranted
    <3> QED
      BY <3>2, <3>3
  <2> QED
    BY <2>4, <2>5
<1>3. CASE about.needed # {} /\ ask.unit # "projects"
  <2>1. _experience(about, c, Dossier) =
          IF years = {} THEN NotInProfile ELSE Reached(Max(years) >= ask.number, {"expert"})
    BY <1>3 DEF _experience
  <2> HIDE DEF years, ask
  <2> QED
    BY <2>1, NotInProfileWarranted, Judged DEF Warranted
<1> QED
  BY <1>1, <1>2, <1>3

LEMMA DocumentWarranted ==
  ASSUME NEW about, NEW c
  PROVE  Warranted(_document(about, c), about)
<1> DEFINE docs == {d \in c.documents : d.category \in DOCUMENT_CATEGORIES[about.category]}
           Shared(d) == Cardinality(about.words \intersect d.words)
           matching == {d \in docs : Shared(d) > 0 /\ \A e \in docs : Shared(e) <= Shared(d)}
           status == IF \E d \in matching : d.is_usable THEN "CONFORME" ELSE "NON_CONFORME"
<1>1. _document(about, c) = IF matching = {} THEN NotInProfile ELSE Judgement(status, {"document"})
  BY DEF _document
<1> HIDE DEF matching, status
<1> QED
  BY <1>1, NotInProfileWarranted, Judged DEF Warranted

LEMMA RulesWarranted ==
  ASSUME NEW about \in Requirements, NEW c
  PROVE  Warranted(judge(about, c, Dossier), about)
<1>0. DOMAIN DOCUMENT_CATEGORIES = {"administrative", "financiere", "juridique"}
  BY DEF DOCUMENT_CATEGORIES
<1>1. CASE about.category = "certification"
  <2>1. Warranted(_certification(about, c), about)
    BY NotInProfileWarranted, Judged DEF _certification, Warranted
  <2>2. judge(about, c, Dossier) = _certification(about, c)
    BY <1>0, <1>1 DEF judge
  <2> QED
    BY <2>1, <2>2
<1>2. CASE about.category = "technique"
  <2>1. judge(about, c, Dossier) = _technique(about, c, Dossier)
    BY <1>0, <1>2 DEF judge
  <2>2. CASE {t \in Dossier.technologies : _mentions(t, about.description)} # {}
    BY <1>2, <2>2 DEF Warranted, NeedsNoProof
  <2>3. CASE {t \in Dossier.technologies : _mentions(t, about.description)} = {}
    <3> DEFINE evidence == OfKind("technology", {t \in c.technologies : _mentions(t, about.description)})
                             \union OfKind("skill", {s \in c.skills : _mentions(s, about.description)})
    <3>1. _technique(about, c, Dossier) = IF evidence = {} THEN NotInProfile ELSE Judgement("CONFORME", evidence)
      BY <2>3 DEF _technique
    <3> HIDE DEF evidence
    <3> QED
      BY <2>1, <3>1, NotInProfileWarranted, Judged DEF Warranted
  <2> QED
    BY <2>2, <2>3
<1>3. CASE about.category = "experience"
  <2>1. judge(about, c, Dossier) = _experience(about, c, Dossier)
    BY <1>0, <1>3 DEF judge
  <2> QED
    BY <2>1, ExperienceWarranted
<1>4. CASE about.category = "equipe"
  <2>1. Warranted(_team(about, c), about)
    BY NotInProfileWarranted, Judged DEF _team, Warranted
  <2>2. judge(about, c, Dossier) = _team(about, c)
    BY <1>0, <1>4 DEF judge
  <2> QED
    BY <2>1, <2>2
<1>5. CASE about.category \in DOMAIN DOCUMENT_CATEGORIES
  <2>1. judge(about, c, Dossier) = _document(about, c)
    BY <1>0, <1>5 DEF judge
  <2> QED
    BY <2>1, DocumentWarranted
<1>6. CASE about.category \notin {"certification", "technique", "experience", "equipe"}
                                 \union DOMAIN DOCUMENT_CATEGORIES
  <2>1. judge(about, c, Dossier) = Judgement("A_VERIFIER", {})
    BY <1>6 DEF judge
  <2> QED
    BY <2>1, Judged DEF Warranted
<1> QED
  BY <1>1, <1>2, <1>3, <1>4, <1>5, <1>6

\* The model may add a proof, and claims nothing without one.
LEMMA GuardWarranted ==
  ASSUME NEW rules, NEW verdict, NEW hits, NEW about
  PROVE  Warranted(_guard(rules, verdict, hits), about)
<1> DEFINE cited == _cited(verdict.refs, hits)
           status == IF cited # {} THEN verdict.status
                     ELSE IF verdict.status = "CONFORME" THEN "A_VERIFIER"
                     ELSE IF verdict.status = "NON_CONFORME" THEN "INFO_MANQUANTE"
                     ELSE verdict.status
           evidence == rules.evidence \union (IF status = "INFO_MANQUANTE" THEN {} ELSE OfKind("chunk", cited))
<1>1. _guard(rules, verdict, hits) = Judgement(status, evidence)
  BY DEF _guard
<1>2. status = "CONFORME" => cited # {}
  OBVIOUS
<1> HIDE DEF cited
<1>3. status = "CONFORME" => "chunk" \in evidence
  BY <1>2 DEF OfKind
<1> HIDE DEF status, evidence
<1> QED
  BY <1>1, <1>3, Judged DEF Warranted

LEMMA EngineWarranted ==
  ASSUME NEW about \in Requirements, NEW j \in RuleJudgements(about)
  PROVE  Warranted(j, about)
<1>1. PICK c \in Companies : j \in refine(judge(about, c, Dossier), search(c), Verdicts)
  BY DEF RuleJudgements
<1>2. \/ j = judge(about, c, Dossier)
      \/ \E v \in Verdicts : j = _guard(judge(about, c, Dossier), v, search(c))
  BY <1>1 DEF refine
<1> QED
  BY <1>2, RulesWarranted, GuardWarranted

-----------------------------------------------------------------------------
(* As long as no two sessions have overlapped, a step changes each row as   *)
(* one of its operations does.                                              *)

\* What may become of row r.
Changes(r, new) ==
  \/ new = r
  \/ new = Reset(r)
  \/ \E asked : new \in Judgements(r, asked)
  \/ \E v : new = [r EXCEPT !.status = v, !.manual_status = TRUE]
  \/ \E v : new = apply(r, Answered(v))

LEMMA RowStep ==
  ASSUME Unshared, [Next]_vars, ~ overlapped'
  PROVE  ~ overlapped /\ \A q \in Reqs : Changes(row[q], row'[q])
<1>1. ASSUME NEW s \in Sessions, Turns(s)
      PROVE  ~ overlapped /\ \A q \in Reqs : Changes(row[q], row'[q])
  BY <1>1, TurnStep, AloneTurns DEF Unshared, Changes
<1>2. ASSUME NEW s \in Sessions, session[s] # Closed, overlapped' = overlapped,
             NEW new, FlaggedRows(new), Saves(s, new),
             \A q \in Reqs : Changes(session[s].rows[q], new[q])
      PROVE  ~ overlapped /\ \A q \in Reqs : Changes(row[q], row'[q])
  <2>1. Alone' /\ (\A q \in Reqs : row'[q] = new[q])
    BY <1>2, AloneStep
  <2>2. \A q \in Reqs : session[s].rows[q] = row[q]
    BY <1>2 DEF Unshared, Alone
  <2> QED
    BY <1>2, <2>1, <2>2
<1>3. ASSUME NEW s \in Sessions, Extract(s)
      PROVE  ~ overlapped /\ \A q \in Reqs : Changes(row[q], row'[q])
  <2> DEFINE new == [q \in Reqs |-> Reset(session[s].rows[q])]
  <2>1. session[s] # Closed /\ FlaggedRows(new) /\ Saves(s, new)
    BY <1>3, ExtractSaves DEF Unshared
  <2>2. overlapped' = overlapped
    BY <1>3 DEF Extract, mishaps
  <2>3. \A q \in Reqs : new[q] = Reset(session[s].rows[q])
    OBVIOUS
  <2> HIDE DEF new
  <2>4. \A q \in Reqs : Changes(session[s].rows[q], new[q])
    BY <2>3 DEF Changes
  <2> QED
    BY <1>2, <2>1, <2>2, <2>4
<1>4. ASSUME NEW s \in Sessions, Evaluate(s)
      PROVE  ~ overlapped /\ \A q \in Reqs : Changes(row[q], row'[q])
  <2>1. session[s] # Closed
    BY <1>4 DEF Evaluate, Closed
  <2>2. PICK new : /\ DOMAIN new = Reqs /\ Commit(s, new, "generate")
                   /\ \A q \in Reqs : new[q] \in Judgements(session[s].rows[q], session[s].asked[q])
    BY <1>4 DEF Evaluate
  <2>3. FlaggedRows(new) /\ Saves(s, new)
    BY <2>1, <2>2, EvaluateSaves DEF Unshared
  <2>4. overlapped' = overlapped
    BY <1>4 DEF Evaluate, mishaps
  <2>5. \A q \in Reqs : Changes(session[s].rows[q], new[q])
    BY <2>2 DEF Changes
  <2> QED
    BY <1>2, <2>1, <2>3, <2>4, <2>5
<1>5. ASSUME NEW s \in Sessions, NEW q \in Reqs, NEW v \in HandVerdicts, Patch(s, q, v)
      PROVE  ~ overlapped /\ \A p \in Reqs : Changes(row[p], row'[p])
  <2> DEFINE new == [session[s].rows EXCEPT ![q].status = v, ![q].manual_status = TRUE]
  <2>1. session[s] # Closed /\ FlaggedRows(new) /\ Saves(s, new)
    BY <1>5, PatchSaves DEF Unshared
  <2>2. overlapped' = overlapped
    BY <1>5 DEF Patch, mishaps
  <2>3. DOMAIN session[s].rows = Reqs
    BY <2>1 DEF Unshared, Shape, FlaggedRows
  <2>4. /\ \A p \in Reqs \ {q} : new[p] = session[s].rows[p]
        /\ new[q] = [session[s].rows[q] EXCEPT !.status = v, !.manual_status = TRUE]
    BY <2>3
  <2> HIDE DEF new
  <2>5. \A p \in Reqs : Changes(session[s].rows[p], new[p])
    BY <2>4 DEF Changes
  <2> QED
    BY <1>2, <2>1, <2>2, <2>5
<1>6. ASSUME NEW s \in Sessions, NEW q \in Reqs, NEW i \in 1 .. MaxQuestions,
             NEW v \in AnswerVerdicts, Answer(s, q, i, v)
      PROVE  ~ overlapped /\ \A p \in Reqs : Changes(row[p], row'[p])
  <2> DEFINE new == [session[s].rows EXCEPT ![q] = apply(@, Answered(v))]
  <2>1. session[s] # Closed /\ FlaggedRows(new) /\ Saves(s, new)
    BY <1>6, AnswerSaves DEF Unshared
  <2>2. overlapped' = overlapped
    BY <1>6 DEF Answer, mishaps
  <2>3. DOMAIN session[s].rows = Reqs
    BY <2>1 DEF Unshared, Shape, FlaggedRows
  <2>4. /\ \A p \in Reqs \ {q} : new[p] = session[s].rows[p]
        /\ new[q] = apply(session[s].rows[q], Answered(v))
    BY <2>3
  <2> HIDE DEF new
  <2>5. \A p \in Reqs : Changes(session[s].rows[p], new[p])
    BY <2>4 DEF Changes
  <2> QED
    BY <1>2, <2>1, <2>2, <2>5
<1>7. CASE UNCHANGED vars
  BY <1>7 DEF vars, mishaps, Changes
<1> QED
  BY <1>1, <1>3, <1>4, <1>5, <1>6, <1>7 DEF Next, Request, Turns

-----------------------------------------------------------------------------
(* Until sessions overlap, a compliance is proven.                          *)

Proven(r) ==
  r.status = "CONFORME" /\ ~ r.manual_status /\ ~ NeedsNoProof(r.about) => r.evidence # {}

Compliance ==
  ~ overlapped => \A q \in Reqs : row[q].about \in Requirements /\ Proven(row[q])

LEMMA ProvenRow ==
  ASSUME NEW r, Flagged(r), r.about \in Requirements, Proven(r), NEW new, Changes(r, new)
  PROVE  new.about \in Requirements /\ Proven(new)
<1>1. CASE new = r
  BY <1>1
<1>2. CASE new = Reset(r)
  BY <1>2 DEF Reset, Flagged, Proven
<1>3. ASSUME NEW v, new = apply(r, Answered(v)) PROVE new.about \in Requirements /\ Proven(new)
  BY <1>3, AppliedRow, AnsweredStatus DEF Proven
<1>4. ASSUME NEW asked, new \in Judgements(r, asked) PROVE new.about \in Requirements /\ Proven(new)
  <2>1. CASE r.manual_status
    BY <1>4, <2>1 DEF Judgements
  <2>2. ASSUME NEW v, new = apply(r, Answered(v)) PROVE new.about \in Requirements /\ Proven(new)
    BY <2>2, <1>3
  <2>3. ASSUME NEW j \in RuleJudgements(r.about), new = apply(r, j)
        PROVE  new.about \in Requirements /\ Proven(new)
    <3>1. Warranted(j, r.about)
      BY EngineWarranted
    <3>2. /\ new.manual_status = r.manual_status /\ new.about = r.about
          /\ new.status = j.status /\ new.evidence = j.evidence
      BY <2>3, AppliedRow
    <3> QED
      BY <3>1, <3>2 DEF Warranted, Proven
  <2> QED
    BY <1>4, <2>1, <2>2, <2>3 DEF Judgements
<1>5. ASSUME NEW v, new = [r EXCEPT !.status = v, !.manual_status = TRUE]
      PROVE  new.about \in Requirements /\ Proven(new)
  <2>1. DOMAIN r = {"about", "status", "manual_status", "evidence"}
    BY DEF Flagged
  <2>2. new.about = r.about /\ new.manual_status
    BY <1>5, <2>1
  <2> QED
    BY <2>2 DEF Proven
<1> QED
  BY <1>1, <1>2, <1>3, <1>4, <1>5 DEF Changes

\* While sessions do not overlap, no requirement is met without a proof.
THEOREM CompliancesAreProven == Spec => []ComplianceIsProven
<1>1. Init => Compliance
  BY DEF Init, Compliance, Proven
<1>2. Unshared /\ Compliance /\ [Next]_vars => Compliance'
  BY RowStep, ProvenRow DEF Unshared, Shape, FlaggedRows, Compliance
<1>3. Compliance => ComplianceIsProven
  BY DEF Compliance, Proven, ComplianceIsProven
<1> QED
  BY <1>1, <1>2, <1>3, UnsharedInit, UnsharedStep, PTL DEF Spec

-----------------------------------------------------------------------------
(* The questions of one requirement.                                        *)

\* No more than one was asked.
Single(asked) == asked \in Seq(Question) /\ Len(asked) <= 1

LEMMA SingleParts ==
  ASSUME NEW asked, Single(asked)
  PROVE  /\ Len(asked) \in {0, 1} /\ DOMAIN asked = 1 .. Len(asked)
         /\ Len(asked) = 1 => 1 \in DOMAIN asked /\ asked[1] \in Question
         /\ \A i \in DOMAIN asked : i = 1 /\ Len(asked) = 1
<1>1. asked \in Seq(Question) /\ Len(asked) <= 1
  BY DEF Single
<1>2. Len(asked) \in Nat /\ DOMAIN asked = 1 .. Len(asked)
  BY <1>1
<1>3. Len(asked) \in {0, 1}
  BY <1>1, <1>2
<1>4. CASE Len(asked) = 0
  BY <1>2, <1>4
<1>5. CASE Len(asked) = 1
  <2>1. DOMAIN asked = {1}
    BY <1>2, <1>5
  <2>2. asked[1] \in Question
    BY <1>1, <1>5
  <2> QED
    BY <1>2, <1>5, <2>1, <2>2
<1> QED
  BY <1>2, <1>3, <1>4, <1>5

LEMMA AnswersOfOne ==
  ASSUME NEW asked, Single(asked)
  PROVE  /\ Len(asked) = 0 => Answers(asked) = {} /\ asked = << >>
         /\ Len(asked) = 1 =>
              Answers(asked) = IF asked[1].state = "answered" THEN {asked[1].says} ELSE {}
<1>1. Len(asked) \in Nat /\ DOMAIN asked = 1 .. Len(asked)
  BY DEF Single
<1>2. CASE Len(asked) = 0
  <2>1. DOMAIN asked = {} /\ asked = << >>
    BY <1>1, <1>2 DEF Single
  <2> QED
    BY <1>2, <2>1 DEF Answers
<1>3. CASE Len(asked) = 1
  <2>1. DOMAIN asked = {1}
    BY <1>1, <1>3
  <2> QED
    BY <1>3, <2>1 DEF Answers
<1> QED
  BY <1>1, <1>2, <1>3 DEF Single

LEMMA RecordedOne ==
  ASSUME NEW asked, Single(asked), NEW i \in DOMAIN asked, NEW v \in AnswerVerdicts
  PROVE  Single(Record(asked, i, v)) /\ Answers(Record(asked, i, v)) = {v}
<1>1. Len(asked) = 1 /\ i = 1
  BY SingleParts
<1>2. asked[1] \in Question
  BY <1>1, SingleParts
<1> DEFINE x == [asked[1] EXCEPT !.state = "answered", !.says = v]
<1>3. x \in Question /\ x.state = "answered" /\ x.says = v
  BY <1>2 DEF Question
<1> HIDE DEF x
<1>4. RemoveAt(asked, 1) = << >>
  BY <1>1 DEF RemoveAt, Single
<1>5. Record(asked, i, v) = <<x>>
  <2>1. Record(asked, i, v) = Append(<< >>, x)
    BY <1>1, <1>4 DEF Record, x
  <2> QED
    BY <2>1
<1>6. Single(<<x>>) /\ Len(<<x>>) = 1 /\ <<x>>[1] = x
  BY <1>3 DEF Single
<1> QED
  BY <1>3, <1>5, <1>6, AnswersOfOne

LEMMA SkippedOne ==
  ASSUME NEW asked, Single(asked), NEW i \in DOMAIN asked,
         NEW skipped, skipped = [asked EXCEPT ![i].state = "skipped"]
  PROVE  Single(skipped) /\ Answers(skipped) = {}
<1> DEFINE x == [asked[1] EXCEPT !.state = "skipped"]
<1>1. Len(asked) = 1 /\ i = 1
  BY SingleParts
<1>2. x \in Question /\ x.state = "skipped"
  BY <1>1, SingleParts DEF Question
<1>3. skipped \in Seq(Question) /\ Len(skipped) = 1 /\ skipped[1] = x
  <2>1. skipped = [asked EXCEPT ![1] = x]
    BY <1>1
  <2> HIDE DEF x
  <2> QED
    BY <1>1, <1>2, <2>1 DEF Single
<1> HIDE DEF x
<1>4. Single(skipped)
  BY <1>3 DEF Single
<1> QED
  BY <1>2, <1>3, <1>4, AnswersOfOne

LEMMA AskedOne ==
  ASSUME NEW asked, Single(asked), ~ Pending(asked), Answers(asked) = {}
  PROVE  LET more == Append(asked, [id |-> Len(asked) + 1, state |-> "open", says |-> "none"])
         IN  Single(more) /\ Answers(more) = {}
<1> DEFINE x == [id |-> Len(asked) + 1, state |-> "open", says |-> "none"]
<1>1. Len(asked) = 0
  <2> SUFFICES ASSUME Len(asked) = 1 PROVE FALSE
    BY SingleParts
  <2>1. asked[1].state \in {"open", "skipped"}
    <3>1. asked[1] \in Question /\ 1 \in DOMAIN asked
      BY SingleParts
    <3>2. asked[1].state \in {"open", "answered", "skipped"}
      BY <3>1 DEF Question
    <3> QED
      BY <3>2, AnswersOfOne
  <2>2. 1 \in DOMAIN asked
    BY SingleParts
  <2> QED
    BY <2>1, <2>2 DEF Pending
<1>2. asked = << >>
  BY <1>1, AnswersOfOne
<1>3. x \in Question /\ x.state = "open"
  BY <1>1 DEF Question
<1> HIDE DEF x
<1>4. Append(asked, x) = <<x>>
  BY <1>2
<1>5. Single(<<x>>) /\ Len(<<x>>) = 1 /\ <<x>>[1] = x
  BY <1>3 DEF Single
<1>6. Single(Append(asked, x)) /\ Answers(Append(asked, x)) = {}
  BY <1>3, <1>4, <1>5, AnswersOfOne
<1> QED
  BY <1>6 DEF x

-----------------------------------------------------------------------------
(* As long as no session has overlapped another or failed, the answers      *)
(* prevail and the summary is current, except between the moment an         *)
(* analysis has read the requirements again and its evaluation.             *)

\* Session s is about to judge the requirements.
Midway(s) ==
  \/ session[s].pc = "evaluate"
  \/ session[s].pc = "read_questions" /\ session[s].kind # "generate"

Prevailing(r, asked) ==
  ~ r.manual_status /\ Answers(asked) # {} =>
    r.evidence = {"answer"} /\ r.status \in Answers(asked)

Told(status, r) == status \notin {"none", r.status} => r.manual_status

Settled ==
  \A q \in Reqs : Prevailing(row[q], questions[q]) /\ Told(summary[q], row[q])

\* What a session knows of the questions when it uses them.
Informed(s) ==
  /\ session[s].pc \in {"evaluate", "generate"} => session[s].asked = questions
  /\ session[s].pc = "extract" => session[s].kind # "generate"

Steady ==
  Smooth =>
    /\ DOMAIN questions = Reqs /\ DOMAIN summary = Reqs
    /\ \A q \in Reqs : Single(questions[q])
    /\ \A s \in Sessions : Informed(s)
    /\ (\A s \in Sessions : ~ Midway(s)) => Settled

\* A session that acts is alone, and the rows it holds are those of the table.
LEMMA AloneActs ==
  ASSUME Unshared, Smooth, NEW s \in Sessions, session[s] # Closed
  PROVE  /\ \A t \in Sessions \ {s} : session[t] = Closed /\ ~ Midway(t)
         /\ \A q \in Reqs : session[s].rows[q] = row[q]
         /\ FlaggedRows(row) /\ FlaggedRows(session[s].rows)
BY DEF Unshared, Alone, Smooth, Shape, Midway, Closed

LEMMA SettledWhenActing ==
  ASSUME Unshared, Steady, Smooth, NEW s \in Sessions, session[s] # Closed, ~ Midway(s)
  PROVE  Settled
BY AloneActs DEF Steady

\* The session that acts is the only one that may be midway afterwards.
LEMMA OthersRest ==
  ASSUME Unshared, Smooth, NEW s \in Sessions, session[s] # Closed,
         \A t \in Sessions \ {s} : session'[t] = session[t],
         session'[s] = Closed \/ Informed(s)'
  PROVE  \A t \in Sessions : Informed(t)'
<1>1. \A t \in Sessions \ {s} : session'[t] = Closed
  BY AloneActs
<1> QED
  BY <1>1 DEF Informed, Closed

\* The session of a step that ends well.
Ends(s) == session' = [session EXCEPT ![s] = Closed]

LEMMA SteadyEnd ==
  ASSUME Unshared, Smooth, NEW s \in Sessions, session[s] # Closed, Ends(s),
         DOMAIN questions' = Reqs, DOMAIN summary' = Reqs,
         \A q \in Reqs : Single(questions'[q]),
         Settled'
  PROVE  Steady'
<1>1. session'[s] = Closed /\ \A t \in Sessions \ {s} : session'[t] = session[t]
  BY DEF Ends, Unshared, Shape
<1>2. \A t \in Sessions : Informed(t)'
  BY <1>1, OthersRest
<1> QED
  BY <1>2 DEF Steady

\* A session that goes on without touching the questions or the summary.
LEMMA SteadyMidway ==
  ASSUME Unshared, Smooth, Steady, NEW s \in Sessions, session[s] # Closed,
         \A t \in Sessions \ {s} : session'[t] = session[t],
         questions' = questions, summary' = summary, Informed(s)',
         Midway(s)' \/ Settled'
  PROVE  Steady'
<1>1. \A t \in Sessions : Informed(t)'
  BY OthersRest
<1> QED
  BY <1>1 DEF Steady

LEMMA SteadyOpen ==
  ASSUME Unshared, Steady, NEW s \in Sessions, NEW kind \in DOMAIN Entrance, Open(s, kind), Smooth'
  PROVE  Steady'
<1>1. Smooth /\ \A t \in Sessions : session[t] = Closed
  BY DEF Open, Smooth
<1>2. Settled
  BY <1>1 DEF Steady, Midway, Closed
<1>3. row' = row /\ questions' = questions /\ summary' = summary
  BY DEF Open
<1>4. /\ session'[s] = [kind |-> kind, pc |-> Entrance[kind], rows |-> row, asked |-> NotRead]
      /\ \A t \in Sessions \ {s} : session'[t] = session[t]
  BY DEF Open, Unshared, Shape
<1>5. Informed(s)'
  <2>1. kind \in {"analyze", "evaluate", "generate", "request"}
    BY DEF Entrance
  <2>2. /\ Entrance[kind] \notin {"evaluate", "generate"}
        /\ Entrance[kind] = "extract" => kind # "generate"
    BY <2>1 DEF Entrance
  <2> QED
    BY <1>4, <2>2 DEF Informed
<1>6. \A t \in Sessions : Informed(t)'
  BY <1>1, <1>4, <1>5 DEF Informed, Closed
<1>7. Settled'
  BY <1>2, <1>3 DEF Settled
<1> QED
  BY <1>1, <1>3, <1>6, <1>7 DEF Steady

LEMMA SteadyExtract ==
  ASSUME Unshared, Steady, NEW s \in Sessions, Extract(s), Smooth'
  PROVE  Steady'
<1>1. session[s] # Closed /\ session[s].pc = "extract"
  BY DEF Extract, Closed
<1>2. Smooth /\ questions' = questions /\ summary' = summary
  BY DEF Extract, mishaps, Smooth
<1>3. PICK new : session' = [session EXCEPT ![s].rows = new, ![s].pc = "read_questions"]
  BY DEF Extract, Commit
<1>4. session'[s] = [session[s] EXCEPT !.rows = new, !.pc = "read_questions"]
  BY <1>3 DEF Unshared, Shape
<1>5. session'[s].kind = session[s].kind /\ session'[s].pc = "read_questions"
  BY <1>1, <1>4 DEF Unshared, Shape
<1>6. session[s].kind # "generate"
  BY <1>1, <1>2 DEF Steady, Informed
<1>7. \A t \in Sessions \ {s} : session'[t] = session[t]
  BY <1>3 DEF Unshared, Shape
<1>8. Midway(s)' /\ Informed(s)'
  BY <1>5, <1>6 DEF Midway, Informed
<1> QED
  BY <1>1, <1>2, <1>7, <1>8, SteadyMidway

LEMMA SteadyRead ==
  ASSUME Unshared, Steady, NEW s \in Sessions, ReadQuestions(s), Smooth'
  PROVE  Steady'
<1>1. session[s] # Closed /\ session[s].pc = "read_questions"
  BY DEF ReadQuestions, Closed
<1>2. Smooth /\ row' = row /\ questions' = questions /\ summary' = summary
  BY DEF ReadQuestions, mishaps, Smooth
<1> DEFINE pc == IF session[s].kind = "generate" THEN "generate" ELSE "evaluate"
<1>3. session' = [session EXCEPT ![s].asked = questions, ![s].pc = pc]
  BY DEF ReadQuestions
<1>4. session'[s] = [session[s] EXCEPT !.asked = questions, !.pc = pc]
  BY <1>3 DEF Unshared, Shape
<1>5. session'[s].kind = session[s].kind /\ session'[s].pc = pc /\ session'[s].asked = questions
  <2>1. session[s] = [kind |-> session[s].kind, pc |-> session[s].pc,
                      rows |-> session[s].rows, asked |-> session[s].asked]
    BY <1>1 DEF Unshared, Shape
  <2> HIDE DEF pc
  <2>2. session'[s] = [kind |-> session[s].kind, pc |-> pc,
                       rows |-> session[s].rows, asked |-> questions]
    BY <1>4, <2>1
  <2> QED
    BY <2>2
<1>6. \A t \in Sessions \ {s} : session'[t] = session[t]
  BY <1>3 DEF Unshared, Shape
<1>7. Informed(s)'
  BY <1>2, <1>5 DEF Informed
<1>8. Midway(s)' \/ Settled'
  <2>1. CASE session[s].kind = "generate"
    <3>1. Settled
      BY <1>1, <1>2, <2>1, SettledWhenActing DEF Midway
    <3> QED
      BY <1>2, <3>1 DEF Settled
  <2>2. CASE session[s].kind # "generate"
    BY <1>5, <2>2 DEF Midway
  <2> QED
    BY <2>1, <2>2
<1> QED
  BY <1>1, <1>2, <1>6, <1>7, <1>8, SteadyMidway

\* An evaluation settles what it judges.
LEMMA JudgementPrevails ==
  ASSUME NEW r, NEW asked, Flagged(r), NEW j \in Judgements(r, asked)
  PROVE  Prevailing(j, asked)
<1>1. CASE r.manual_status
  BY <1>1, JudgedRow DEF Prevailing
<1>2. CASE ~ r.manual_status /\ Answers(asked) # {}
  <2>1. PICK v \in Answers(asked) : j = apply(r, Answered(v))
    BY <1>2 DEF Judgements
  <2> QED
    BY <2>1, AppliedRow, AnsweredStatus DEF Prevailing
<1>3. CASE Answers(asked) = {}
  BY <1>3 DEF Prevailing
<1> QED
  BY <1>1, <1>2, <1>3

LEMMA SteadyEvaluate ==
  ASSUME Unshared, Steady, NEW s \in Sessions, Evaluate(s), Smooth'
  PROVE  Steady'
<1>1. session[s] # Closed /\ session[s].pc = "evaluate"
  BY DEF Evaluate, Closed
<1>2. Smooth /\ questions' = questions /\ overlapped' = overlapped
  BY DEF Evaluate, mishaps, Smooth
<1>3. PICK new : /\ DOMAIN new = Reqs /\ Commit(s, new, "generate")
                 /\ \A q \in Reqs : new[q] \in Judgements(session[s].rows[q], session[s].asked[q])
                 /\ summary' = Statement(new)
  BY DEF Evaluate
<1>4. FlaggedRows(new) /\ Saves(s, new)
  BY <1>1, <1>3, EvaluateSaves DEF Unshared
<1>5. \A q \in Reqs : row'[q] = new[q]
  BY <1>1, <1>2, <1>4, AloneStep DEF Smooth
<1>6. session[s].asked = questions
  BY <1>1, <1>2 DEF Steady, Informed
<1>7. Settled'
  <2>1. ASSUME NEW q \in Reqs PROVE Prevailing(row'[q], questions'[q]) /\ Told(summary'[q], row'[q])
    <3>1. row'[q] \in Judgements(session[s].rows[q], questions'[q])
      BY <1>2, <1>3, <1>5, <1>6
    <3>2. Flagged(session[s].rows[q])
      BY <1>1, <1>2, AloneActs DEF FlaggedRows
    <3>3. summary'[q] = row'[q].status
      BY <1>3, <1>5 DEF Statement
    <3> QED
      BY <3>1, <3>2, <3>3, JudgementPrevails DEF Told
  <2> QED
    BY <2>1 DEF Settled
<1>8. /\ session'[s].pc = "generate" /\ session'[s].asked = session[s].asked
      /\ \A t \in Sessions \ {s} : session'[t] = session[t]
  <2>1. session' = [session EXCEPT ![s].rows = new, ![s].pc = "generate"]
    BY <1>3 DEF Commit
  <2>2. session'[s] = [session[s] EXCEPT !.rows = new, !.pc = "generate"]
    BY <2>1 DEF Unshared, Shape
  <2>3. session'[s].pc = "generate" /\ session'[s].asked = session[s].asked
    BY <1>1, <2>2 DEF Unshared, Shape
  <2> QED
    BY <2>1, <2>3 DEF Unshared, Shape
<1>9. Informed(s)'
  BY <1>2, <1>6, <1>8 DEF Informed
<1>10. \A t \in Sessions : Informed(t)'
  BY <1>1, <1>2, <1>8, <1>9, OthersRest
<1>11. DOMAIN summary' = Reqs
  BY <1>3 DEF Statement
<1> QED
  BY <1>2, <1>7, <1>10, <1>11 DEF Steady

\* A question is asked about a requirement that has no answer.
LEMMA SteadyGenerate ==
  ASSUME Unshared, Steady, NEW s \in Sessions, Generate(s), Smooth'
  PROVE  Steady'
<1>1. session[s] # Closed /\ session[s].pc = "generate" /\ ~ Midway(s)
  BY DEF Generate, Closed, Midway
<1>2. Smooth /\ row' = row /\ summary' = summary
  BY DEF Generate, mishaps, Smooth
<1>3. Settled /\ session[s].asked = questions
  BY <1>1, <1>2, SettledWhenActing DEF Steady, Informed
<1>4. ASSUME NEW q \in Reqs
      PROVE  Single(questions'[q]) /\ Answers(questions'[q]) = Answers(questions[q])
  <2>1. Single(questions[q]) /\ session[s].rows[q] = row[q] /\ Prevailing(row[q], questions[q])
    BY <1>1, <1>2, <1>3, AloneActs DEF Steady, Settled
  <2>2. CASE ~ needs_question(row[q], questions[q])
    <3>1. questions'[q] = questions[q]
      BY <1>3, <2>1, <2>2 DEF Generate
    <3> QED
      BY <2>1, <3>1
  <2>3. CASE needs_question(row[q], questions[q])
    <3>1. questions'[q] = Append(questions[q], [id |-> Len(questions[q]) + 1, state |-> "open", says |-> "none"])
      BY <1>3, <2>1, <2>3 DEF Generate
    <3>2. ~ Pending(questions[q]) /\ Answers(questions[q]) = {}
      BY <2>1, <2>3 DEF needs_question, Prevailing
    <3> QED
      BY <2>1, <3>1, <3>2, AskedOne
  <2> QED
    BY <2>2, <2>3
<1>5. Settled'
  BY <1>2, <1>3, <1>4 DEF Settled, Prevailing
<1>6. Ends(s) /\ DOMAIN questions' = Reqs /\ DOMAIN summary' = Reqs
  BY <1>2 DEF Generate, Close, Ends, Steady
<1> QED
  BY <1>1, <1>2, <1>4, <1>5, <1>6, SteadyEnd

LEMMA SteadyPatch ==
  ASSUME Unshared, Steady, NEW s \in Sessions, NEW q \in Reqs, NEW v \in HandVerdicts,
         Patch(s, q, v), Smooth'
  PROVE  Steady'
<1>1. session[s] # Closed /\ ~ Midway(s)
  BY DEF Patch, Closed, Midway
<1>2. Smooth /\ questions' = questions /\ summary' = summary /\ overlapped' = overlapped
  BY DEF Patch, mishaps, Smooth
<1>3. Settled
  BY <1>1, <1>2, SettledWhenActing
<1> DEFINE new == [session[s].rows EXCEPT ![q].status = v, ![q].manual_status = TRUE]
<1>4. FlaggedRows(new) /\ Saves(s, new)
  BY PatchSaves DEF Unshared
<1>5. FlaggedRows(session[s].rows) /\ \A p \in Reqs : session[s].rows[p] = row[p]
  BY <1>1, <1>2, AloneActs
<1>6. (\A p \in Reqs \ {q} : new[p] = row[p]) /\ new[q].manual_status
  BY <1>5 DEF FlaggedRows, Flagged
<1> HIDE DEF new
<1>7. \A p \in Reqs : row'[p] = new[p]
  BY <1>1, <1>2, <1>4, AloneStep DEF Smooth
<1>8. Settled'
  BY <1>2, <1>3, <1>6, <1>7 DEF Settled, Prevailing, Told
<1>9. Ends(s) /\ DOMAIN questions' = Reqs /\ DOMAIN summary' = Reqs /\ \A p \in Reqs : Single(questions'[p])
  BY <1>2 DEF Patch, CommitAndClose, Close, Ends, Steady
<1> QED
  BY <1>1, <1>2, <1>8, <1>9, SteadyEnd

LEMMA SteadyAnswer ==
  ASSUME Unshared, Steady, NEW s \in Sessions, NEW q \in Reqs, NEW i \in 1 .. MaxQuestions,
         NEW v \in AnswerVerdicts, Answer(s, q, i, v), Smooth'
  PROVE  Steady'
<1>1. session[s] # Closed /\ ~ Midway(s)
  BY DEF Answer, Closed, Midway
<1>2. Smooth /\ overlapped' = overlapped
  BY DEF Answer, mishaps, Smooth
<1>3. Settled /\ Single(questions[q]) /\ DOMAIN questions = Reqs
  BY <1>1, <1>2, SettledWhenActing DEF Steady
<1> DEFINE new == [session[s].rows EXCEPT ![q] = apply(@, Answered(v))]
<1>4. FlaggedRows(new) /\ Saves(s, new)
  BY AnswerSaves DEF Unshared
<1>5. FlaggedRows(session[s].rows) /\ \A p \in Reqs : session[s].rows[p] = row[p]
  BY <1>1, <1>2, AloneActs
<1>6. (\A p \in Reqs \ {q} : new[p] = row[p]) /\ new[q] = apply(row[q], Answered(v))
  BY <1>5 DEF FlaggedRows
<1>7. summary' = Statement(new)
  BY DEF Answer, Refreshed
<1> HIDE DEF new
<1>8. \A p \in Reqs : row'[p] = new[p]
  BY <1>1, <1>2, <1>4, AloneStep DEF Smooth
<1>9. /\ questions'[q] = Record(questions[q], i, v) /\ i \in DOMAIN questions[q]
      /\ DOMAIN questions' = Reqs /\ \A p \in Reqs \ {q} : questions'[p] = questions[p]
  BY <1>3 DEF Answer
<1>10. Single(questions'[q]) /\ Answers(questions'[q]) = {v}
  BY <1>3, <1>9, RecordedOne
<1>11. \A p \in Reqs : Single(questions'[p])
  BY <1>2, <1>9, <1>10 DEF Steady
<1>12. Prevailing(row'[q], questions'[q])
  <2>1. Flagged(row[q])
    BY <1>5 DEF FlaggedRows
  <2> QED
    BY <1>6, <1>8, <1>10, <2>1, AppliedRow, AnsweredStatus DEF Prevailing
<1>13. \A p \in Reqs \ {q} : Prevailing(row'[p], questions'[p])
  BY <1>3, <1>6, <1>8, <1>9 DEF Settled
<1>14. \A p \in Reqs : Told(summary'[p], row'[p])
  BY <1>7, <1>8 DEF Statement, Told
<1>15. Settled'
  BY <1>12, <1>13, <1>14 DEF Settled
<1>16. Ends(s) /\ DOMAIN summary' = Reqs
  BY <1>7 DEF Answer, CommitAndClose, Close, Ends, Statement
<1> QED
  BY <1>1, <1>2, <1>9, <1>11, <1>15, <1>16, SteadyEnd

LEMMA SteadySkip ==
  ASSUME Unshared, Steady, NEW s \in Sessions, NEW q \in Reqs, NEW i \in 1 .. MaxQuestions,
         Skip(s, q, i), Smooth'
  PROVE  Steady'
<1>1. session[s] # Closed /\ ~ Midway(s)
  BY DEF Skip, Closed, Midway
<1>2. Smooth /\ row' = row /\ summary' = summary
  BY DEF Skip, mishaps, Smooth
<1>3. Settled /\ Single(questions[q]) /\ DOMAIN questions = Reqs
  BY <1>1, <1>2, SettledWhenActing DEF Steady
<1>4. /\ questions'[q] = [questions[q] EXCEPT ![i].state = "skipped"] /\ i \in DOMAIN questions[q]
      /\ DOMAIN questions' = Reqs /\ \A p \in Reqs \ {q} : questions'[p] = questions[p]
  BY <1>3 DEF Skip
<1>5. Single(questions'[q]) /\ Answers(questions'[q]) = {}
  BY <1>3, <1>4, SkippedOne
<1>6. \A p \in Reqs : Single(questions'[p])
  BY <1>2, <1>4, <1>5 DEF Steady
<1>7. Settled'
  BY <1>2, <1>3, <1>4, <1>5 DEF Settled, Prevailing
<1>8. Ends(s) /\ DOMAIN summary' = Reqs
  BY <1>2 DEF Skip, Close, Ends, Steady
<1> QED
  BY <1>1, <1>2, <1>4, <1>6, <1>7, <1>8, SteadyEnd

LEMMA SteadyStep == Unshared /\ Steady /\ [Next]_vars => Steady'
<1> SUFFICES ASSUME Unshared, Steady, [Next]_vars, Smooth' PROVE Steady'
  BY DEF Steady
<1>1. CASE UNCHANGED vars
  BY <1>1 DEF vars, mishaps, Smooth, Steady, Settled, Informed, Midway
<1>2. ASSUME NEW s \in Sessions, Fail(s) PROVE Steady'
  BY <1>2 DEF Fail, Smooth
<1> QED
  BY <1>1, <1>2, SteadyOpen, SteadyExtract, SteadyRead, SteadyEvaluate, SteadyGenerate,
     SteadyPatch, SteadyAnswer, SteadySkip DEF Next, Request

LEMMA SteadyInit == Init => Steady
<1> SUFFICES ASSUME Init PROVE Steady
  OBVIOUS
<1>1. \A q \in Reqs : questions[q] = << >> /\ summary[q] = "none"
  BY DEF Init
<1>2. Single(<< >>)
  BY DEF Single
<1>3. Answers(<< >>) = {}
  BY <1>2, AnswersOfOne
<1>4. Settled
  BY <1>1, <1>3 DEF Settled, Prevailing, Told
<1>5. \A s \in Sessions : Informed(s)
  BY DEF Init, Informed, Closed
<1> QED
  BY <1>1, <1>2, <1>4, <1>5 DEF Init, Steady

LEMMA SteadyAlways == Spec => [](Unshared /\ Steady)
BY UnsharedInit, UnsharedStep, SteadyInit, SteadyStep, PTL DEF Spec

\* Until sessions overlap or fail, the last answer decides at rest.
THEOREM AnswersPrevail == Spec => []AnswerPrevails
<1>1. Steady => AnswerPrevails
  BY DEF Steady, AnswerPrevails, AtRest, Settled, Prevailing, Midway, Closed
<1> QED
  BY <1>1, SteadyAlways, PTL

\* Until then, a requirement is asked about once.
THEOREM QuestionsAreAskedOnce == Spec => []NeverAskedTwice
<1>1. Steady => NeverAskedTwice
  BY DEF Steady, NeverAskedTwice, Single
<1> QED
  BY <1>1, SteadyAlways, PTL

\* Until then, only the user's hand can have left the summary behind.
THEOREM SummaryStaysCurrent == Spec => []SummaryIsCurrent
<1>1. Steady => SummaryIsCurrent
  BY DEF Steady, SummaryIsCurrent, AtRest, Settled, Told, Midway, Closed
<1> QED
  BY <1>1, SteadyAlways, PTL

(***************************************************************************)
(* Theorems about RequirementExtraction.                                   *)
(***************************************************************************)

-----------------------------------------------------------------------------
(* Numbers. *)

\* A set of numbers has a least one.
LEMMA LeastNumber ==
  ASSUME NEW S, S \subseteq Nat, S # {}
  PROVE  \E n \in S : \A m \in S : n <= m
<1> DEFINE R == {ss \in Nat \X Nat : ss[1] < ss[2]}
<1>1. IsWellFoundedOn(R, Nat)
  BY NatLessThanWellFounded DEF OpToRel
<1>2. PICK x \in S : \A y \in S : ~ (<<y, x>> \in R)
  <2> HIDE DEF R
  <2> QED
    BY <1>1, WFMin
<1>3. ASSUME NEW y \in S PROVE x <= y
  <2>1. <<y, x>> \in Nat \X Nat /\ <<y, x>>[1] = y /\ <<y, x>>[2] = x
    OBVIOUS
  <2>2. ~ (y < x)
    BY <1>2, <2>1
  <2> QED
    BY <2>2
<1> QED
  BY <1>3

\* A bounded set of numbers has a greatest one.
LEMMA GreatestNumber ==
  ASSUME NEW S, S \subseteq Nat, S # {}, NEW bound \in Nat, \A n \in S : n <= bound
  PROVE  \E n \in S : \A m \in S : m <= n
<1> DEFINE T == {bound - n : n \in S}
<1>1. \A n \in S : n \in Nat /\ bound - n \in Nat
  OBVIOUS
<1>2. T \subseteq Nat /\ T # {}
  BY <1>1
<1>3. PICK x \in T : \A m \in T : x <= m
  <2> HIDE DEF T
  <2> QED
    BY <1>2, LeastNumber
<1>4. PICK n \in S : x = bound - n
  BY <1>3
<1>5. ASSUME NEW m \in S PROVE m <= n
  <2>1. x <= bound - m
    BY <1>3
  <2> QED
    BY <1>1, <1>4, <2>1
<1> QED
  BY <1>5

\* Induction over an interval, on the set of the numbers of which it holds.
LEMMA Induction ==
  ASSUME NEW N \in Nat, NEW T, 0 \in T,
         \A n \in 0 .. N : n \in T /\ n < N => n + 1 \in T
  PROVE  0 .. N \subseteq T
<1> DEFINE Missing == (0 .. N) \ T
<1> SUFFICES ASSUME Missing # {} PROVE FALSE
  OBVIOUS
<1>1. PICK n \in Missing : \A m \in Missing : n <= m
  <2>1. Missing \subseteq Nat
    OBVIOUS
  <2> HIDE DEF Missing
  <2> QED
    BY <2>1, LeastNumber
<1>2. n - 1 \in 0 .. N /\ n - 1 < N /\ ~ (n <= n - 1)
  BY <1>1
<1>3. n - 1 \in T
  BY <1>1, <1>2
<1>4. (n - 1) + 1 \in T
  BY <1>2, <1>3
<1> QED
  BY <1>1, <1>4

\* f goes from `base` step by step.
Recurs(f, N, base, step) == f[0] = base /\ \A n \in 1 .. N : f[n] = step[<<f[n - 1], n>>]

\* What is defined step by step exists.
LEMMA Recursion ==
  ASSUME NEW S, NEW N \in Nat, NEW base \in S, NEW step \in [S \X (1 .. N) -> S]
  PROVE  \E f \in [0 .. N -> S] : Recurs(f, N, base, step)
<1> DEFINE Defined(f, k) == f[0] = base /\ \A n \in 1 .. k : f[n] = step[<<f[n - 1], n>>]
           T == {k \in 0 .. N : \E f \in [0 .. k -> S] : Defined(f, k)}
<1>1. 0 \in T
  <2> DEFINE f == [n \in 0 .. 0 |-> base]
  <2>1. f \in [0 .. 0 -> S]
    OBVIOUS
  <2>2. f[0] = base
    OBVIOUS
  <2>3. Defined(f, 0)
    BY <2>2
  <2> HIDE DEF f, Defined
  <2> QED
    BY <2>1, <2>3
<1>2. ASSUME NEW k \in 0 .. N, k \in T, k < N
      PROVE  k + 1 \in T
  <2>1. PICK f \in [0 .. k -> S] : Defined(f, k)
    BY <1>2
  <2> DEFINE g == [n \in 0 .. (k + 1) |-> IF n = k + 1 THEN step[<<f[k], k + 1>>] ELSE f[n]]
  <2>2. k + 1 \in 1 .. N /\ k \in 0 .. k /\ f[k] \in S
    BY <1>2
  <2>3. step[<<f[k], k + 1>>] \in S
    BY <2>2
  <2>4. g \in [0 .. (k + 1) -> S]
    BY <2>3
  <2>5. g[0] = base
    BY <2>1
  <2>6. ASSUME NEW n \in 1 .. (k + 1) PROVE g[n] = step[<<g[n - 1], n>>]
    <3>1. CASE n = k + 1
      <4>1. n \in 0 .. (k + 1) /\ n - 1 = k /\ k \in 0 .. (k + 1) /\ k # k + 1
        BY <3>1
      <4>2. g[n] = step[<<f[k], k + 1>>] /\ g[k] = f[k]
        BY <3>1, <4>1
      <4> QED
        BY <3>1, <4>1, <4>2
    <3>2. CASE n # k + 1
      <4>1. n \in 1 .. k /\ n \in 0 .. (k + 1) /\ n - 1 \in 0 .. (k + 1) /\ n - 1 # k + 1
        BY <3>2
      <4>2. g[n] = f[n] /\ g[n - 1] = f[n - 1]
        BY <3>2, <4>1
      <4> QED
        BY <4>1, <4>2, <2>1
    <3> QED
      BY <3>1, <3>2
  <2>7. Defined(g, k + 1)
    BY <2>5, <2>6
  <2> QED
    <3> HIDE DEF g, Defined
    <3> QED
      BY <2>4, <2>7, <2>2
<1>3. N \in T
  <2> HIDE DEF T
  <2>1. 0 .. N \subseteq T
    BY <1>1, <1>2, Induction
  <2> QED
    BY <2>1
<1>4. PICK f \in [0 .. N -> S] : Defined(f, N)
  BY <1>3
<1> QED
  BY <1>4 DEF Recurs

\* Its values are those the steps can give.
LEMMA RecursionType ==
  ASSUME NEW S, NEW N \in Nat, NEW f, f[0] \in S,
         \A n \in 1 .. N : f[n - 1] \in S => f[n] \in S
  PROVE  \A n \in 0 .. N : f[n] \in S
<1> DEFINE T == {n \in 0 .. N : f[n] \in S}
<1>1. 0 \in T
  OBVIOUS
<1>2. ASSUME NEW n \in 0 .. N, n \in T, n < N PROVE n + 1 \in T
  <2>1. n + 1 \in 1 .. N /\ (n + 1) - 1 = n
    BY <1>2
  <2>2. f[(n + 1) - 1] \in S => f[n + 1] \in S
    BY <2>1
  <2> QED
    BY <1>2, <2>1, <2>2
<1>3. 0 .. N \subseteq T
  <2> HIDE DEF T
  <2> QED
    BY <1>1, <1>2, Induction
<1> QED
  BY <1>3

-----------------------------------------------------------------------------
(* The outputs. *)

\* One more document is read, or not.
WithDocument(outputs, d, missed) == IF d \in missed THEN outputs ELSE outputs \o Contents[d]

LEMMA OutputsAreRead ==
  ASSUME NEW missed
  PROVE  \E f \in [0 .. Len(Contents) -> Seq(Output)] :
           /\ f[0] = << >>
           /\ \A d \in 1 .. Len(Contents) : f[d] = WithDocument(f[d - 1], d, missed)
           /\ Outputs(missed) = f[Len(Contents)]
<1> DEFINE N == Len(Contents)
           S == Seq(Output)
           base == << >>
           step == [p \in S \X (1 .. N) |-> WithDocument(p[1], p[2], missed)]
           P(f) == f = [d \in 0 .. N |->
                          IF d = 0 THEN << >>
                          ELSE IF d \in missed THEN f[d - 1] ELSE f[d - 1] \o Contents[d]]
<1>1. N \in Nat /\ \A d \in 1 .. N : Contents[d] \in S
  BY ExtractionAssumption
<1>2. ASSUME NEW d \in 1 .. N, NEW outputs \in S
      PROVE  WithDocument(outputs, d, missed) \in S
  BY <1>1 DEF WithDocument
<1>3. step \in [S \X (1 .. N) -> S] /\ base \in S
  <2> HIDE DEF N, S
  <2>1. ASSUME NEW p \in S \X (1 .. N) PROVE WithDocument(p[1], p[2], missed) \in S
    BY <1>2
  <2> QED
    BY <2>1 DEF S
<1>4. PICK f \in [0 .. N -> S] : Recurs(f, N, base, step)
  <2> HIDE DEF step, N, S, base
  <2> QED
    BY <1>1, <1>3, Recursion
<1>5. ASSUME NEW d \in 1 .. N PROVE f[d] = WithDocument(f[d - 1], d, missed)
  <2> HIDE DEF N, S
  <2>1. d - 1 \in 0 .. N
    BY <1>1
  <2>2. <<f[d - 1], d>> \in S \X (1 .. N)
    BY <2>1
  <2>3. f[d] = step[<<f[d - 1], d>>]
    BY <1>4 DEF Recurs
  <2> QED
    BY <2>2, <2>3
<1>6. P(f)
  <2> HIDE DEF N, S, step
  <2>1. ASSUME NEW d \in 0 .. N
        PROVE  f[d] = IF d = 0 THEN << >>
                      ELSE IF d \in missed THEN f[d - 1] ELSE f[d - 1] \o Contents[d]
    <3>1. CASE d = 0
      BY <1>4, <3>1 DEF Recurs
    <3>2. CASE d # 0
      <4>1. d \in 1 .. N
        BY <1>1, <3>2
      <4>2. f[d] = WithDocument(f[d - 1], d, missed)
        BY <1>5, <4>1
      <4> QED
        BY <3>2, <4>2 DEF WithDocument
    <3> QED
      BY <3>1, <3>2
  <2> QED
    BY <2>1
<1> DEFINE g == CHOOSE h : P(h)
<1>7. P(g)
  <2> HIDE DEF P
  <2> QED
    BY <1>6
<1>8. Outputs(missed) = g[N]
  BY DEF Outputs
<1> HIDE DEF g, N
<1>9. DOMAIN g = 0 .. N /\ g = [d \in 0 .. N |-> g[d]]
  BY <1>7
<1>10. g[0] = << >>
  BY <1>1, <1>7
<1>11. ASSUME NEW d \in 1 .. N PROVE g[d] = WithDocument(g[d - 1], d, missed)
  <2>1. d \in 0 .. N /\ d # 0
    BY <1>1
  <2> QED
    BY <2>1, <1>7 DEF WithDocument
<1>12. \A d \in 0 .. N : g[d] \in S
  <2>1. \A d \in 1 .. N : g[d - 1] \in S => g[d] \in S
    BY <1>2, <1>11
  <2>2. g[0] \in S
    BY <1>10
  <2> HIDE DEF S
  <2> QED
    BY <1>1, <2>1, <2>2, RecursionType
<1>13. g \in [0 .. N -> S]
  BY <1>9, <1>12
<1> QED
  BY <1>8, <1>10, <1>11, <1>13 DEF N

LEMMA RangeOfConcatenation ==
  ASSUME NEW S, NEW s \in Seq(S), NEW t \in Seq(S)
  PROVE  Range(s \o t) = Range(s) \union Range(t)
<1>1. Len(s) \in Nat /\ Len(t) \in Nat /\ s \o t \in Seq(S) /\ Len(s \o t) = Len(s) + Len(t)
  OBVIOUS
<1>2. /\ DOMAIN s = 1 .. Len(s) /\ DOMAIN t = 1 .. Len(t)
      /\ DOMAIN (s \o t) = 1 .. (Len(s) + Len(t))
  BY <1>1
<1>3. \A i \in 1 .. Len(s) : (s \o t)[i] = s[i]
  BY <1>1
<1>4. \A i \in 1 .. Len(t) : (s \o t)[Len(s) + i] = t[i]
  BY <1>1
<1>5. ASSUME NEW i \in 1 .. (Len(s) + Len(t))
      PROVE  (s \o t)[i] \in Range(s) \union Range(t)
  <2>1. CASE i <= Len(s)
    BY <2>1, <1>1, <1>2, <1>3 DEF Range
  <2>2. CASE i > Len(s)
    <3>1. i - Len(s) \in 1 .. Len(t) /\ i = Len(s) + (i - Len(s))
      BY <2>2, <1>1
    <3>2. (s \o t)[i] = t[i - Len(s)]
      BY <3>1, <1>4
    <3> QED
      BY <3>1, <3>2, <1>2 DEF Range
  <2> QED
    BY <2>1, <2>2, <1>1
<1>6. ASSUME NEW i \in 1 .. Len(s) PROVE s[i] \in Range(s \o t)
  <2>1. i \in 1 .. (Len(s) + Len(t))
    BY <1>1
  <2> QED
    BY <2>1, <1>2, <1>3 DEF Range
<1>7. ASSUME NEW i \in 1 .. Len(t) PROVE t[i] \in Range(s \o t)
  <2>1. Len(s) + i \in 1 .. (Len(s) + Len(t))
    BY <1>1
  <2> QED
    BY <2>1, <1>2, <1>4 DEF Range
<1>8. Range(s \o t) \subseteq Range(s) \union Range(t)
  BY <1>2, <1>5 DEF Range
<1>9. Range(s) \subseteq Range(s \o t) /\ Range(t) \subseteq Range(s \o t)
  BY <1>2, <1>6, <1>7 DEF Range
<1> QED
  BY <1>8, <1>9

\* What the outputs of the documents that could be read say.
LEMMA OutputsOf ==
  ASSUME NEW missed \in SUBSET DOMAIN Contents
  PROVE  /\ Outputs(missed) \in Seq(Output)
         /\ Range(Outputs(missed)) = UNION {Range(Contents[d]) : d \in DOMAIN Contents \ missed}
<1> DEFINE N == Len(Contents)
<1>1. N \in Nat /\ DOMAIN Contents = 1 .. N /\ \A d \in 1 .. N : Contents[d] \in Seq(Output)
  BY ExtractionAssumption
<1>2. PICK f \in [0 .. N -> Seq(Output)] :
        /\ f[0] = << >>
        /\ \A d \in 1 .. N : f[d] = WithDocument(f[d - 1], d, missed)
        /\ Outputs(missed) = f[N]
  BY OutputsAreRead
<1> DEFINE Reads(d, o) == \E e \in 1 .. d : e \notin missed /\ o \in Range(Contents[e])
           T == {d \in 0 .. N : \A o : o \in Range(f[d]) <=> Reads(d, o)}
<1> HIDE DEF N
<1>3. 0 \in T
  <2>1. Range(f[0]) = {}
    BY <1>2 DEF Range
  <2>2. \A o : ~ Reads(0, o)
    OBVIOUS
  <2> QED
    BY <2>1, <2>2, <1>1
<1>4. ASSUME NEW d \in 0 .. N, d \in T, d < N PROVE d + 1 \in T
  <2>1. d + 1 \in 1 .. N /\ (d + 1) - 1 = d /\ d + 1 \in 0 .. N
    BY <1>1, <1>4
  <2>2. f[d + 1] = WithDocument(f[d], d + 1, missed)
    BY <1>2, <2>1
  <2>3. \A e : e \in 1 .. (d + 1) <=> e \in 1 .. d \/ e = d + 1
    BY <2>1
  <2> SUFFICES ASSUME NEW o PROVE o \in Range(f[d + 1]) <=> Reads(d + 1, o)
    BY <2>1
  <2>4. o \in Range(f[d]) <=> Reads(d, o)
    BY <1>4
  <2>5. Reads(d + 1, o) <=> Reads(d, o) \/ (d + 1 \notin missed /\ o \in Range(Contents[d + 1]))
    BY <2>3
  <2> HIDE DEF Said
  <2>6. CASE d + 1 \in missed
    BY <2>2, <2>4, <2>5, <2>6 DEF WithDocument
  <2>7. CASE d + 1 \notin missed
    <3>1. f[d] \in Seq(Output) /\ Contents[d + 1] \in Seq(Output)
      BY <1>1, <1>2, <2>1
    <3>2. Range(f[d] \o Contents[d + 1]) = Range(f[d]) \union Range(Contents[d + 1])
      BY <3>1, RangeOfConcatenation
    <3> QED
      BY <2>2, <2>4, <2>5, <2>7, <3>2 DEF WithDocument
  <2> QED
    BY <2>6, <2>7
<1>5. N \in T
  <2> HIDE DEF T
  <2>1. 0 .. N \subseteq T
    BY <1>1, <1>3, <1>4, Induction
  <2> QED
    BY <1>1, <2>1
<1>6. \A o : o \in Range(f[N]) <=> \E e \in DOMAIN Contents \ missed : o \in Range(Contents[e])
  BY <1>1, <1>5
<1>7. Range(f[N]) = UNION {Range(Contents[d]) : d \in DOMAIN Contents \ missed}
  BY <1>6
<1> QED
  BY <1>1, <1>2, <1>7

\* `kept` are the requirements that `outputs` state up to the n-th, each once,
\* mandatory as soon as one output says so.
Merges(kept, outputs, n) ==
  /\ kept \in Seq(Output)
  /\ \A i, j \in DOMAIN kept : kept[i].description = kept[j].description => i = j
  /\ \A i \in DOMAIN kept : \E m \in 1 .. n : outputs[m].description = kept[i].description
  /\ \A m \in 1 .. n : \E i \in DOMAIN kept : outputs[m].description = kept[i].description
  /\ \A i \in DOMAIN kept :
       kept[i].is_mandatory <=>
         \E m \in 1 .. n : outputs[m].description = kept[i].description /\ outputs[m].is_mandatory

LEMMA MergedOutputs ==
  ASSUME NEW outputs \in Seq(Output), NEW n \in Nat, n + 1 \in DOMAIN outputs,
         NEW kept, Merges(kept, outputs, n)
  PROVE  Merges(Merged(kept, outputs[n + 1]), outputs, n + 1)
<1> DEFINE candidate == outputs[n + 1]
           twins == {i \in DOMAIN kept : kept[i].description = candidate.description}
           result == Merged(kept, candidate)
<1>1. /\ candidate \in Output /\ kept \in Seq(Output)
      /\ Len(kept) \in Nat /\ DOMAIN kept = 1 .. Len(kept)
      /\ \A i \in DOMAIN kept : kept[i] \in Output
  BY DEF Merges
<1>2. \A m : m \in 1 .. (n + 1) <=> m \in 1 .. n \/ m = n + 1
  OBVIOUS
<1>3. CASE twins = {}
  <2>1. result = Append(kept, candidate)
    BY <1>3 DEF Merged
  <2>2. /\ result \in Seq(Output) /\ Len(result) = Len(kept) + 1
        /\ DOMAIN result = 1 .. (Len(kept) + 1)
        /\ \A i \in 1 .. Len(kept) : result[i] = kept[i]
        /\ result[Len(kept) + 1] = candidate
    BY <2>1, <1>1
  <2>3. \A i : i \in DOMAIN result <=> i \in DOMAIN kept \/ i = Len(kept) + 1
    BY <2>2, <1>1
  <2>4. \A i \in DOMAIN kept : kept[i].description # candidate.description
    BY <1>3
  <2> HIDE DEF result, candidate
  <2>5. \A m \in 1 .. n : outputs[m].description # candidate.description
    BY <2>4 DEF Merges
  <2>6. \A i, j \in DOMAIN result : result[i].description = result[j].description => i = j
    BY <1>1, <2>2, <2>3, <2>4, SMTT(30) DEF Merges
  <2>7. ASSUME NEW i \in DOMAIN result
        PROVE  \E m \in 1 .. (n + 1) : outputs[m].description = result[i].description
    <3>1. CASE i = Len(kept) + 1
      BY <3>1, <1>2, <2>2 DEF candidate
    <3>2. CASE i \in DOMAIN kept
      <4>1. PICK m \in 1 .. n : outputs[m].description = kept[i].description
        BY <3>2 DEF Merges
      <4> QED
        BY <3>2, <4>1, <1>1, <1>2, <2>2
    <3> QED
      BY <2>3, <3>1, <3>2
  <2>8. ASSUME NEW m \in 1 .. (n + 1)
        PROVE  \E i \in DOMAIN result : outputs[m].description = result[i].description
    <3>1. CASE m = n + 1
      BY <3>1, <2>2, <2>3 DEF candidate
    <3>2. CASE m \in 1 .. n
      <4>1. PICK i \in DOMAIN kept : outputs[m].description = kept[i].description
        BY <3>2 DEF Merges
      <4> QED
        BY <4>1, <1>1, <2>2, <2>3
    <3> QED
      BY <1>2, <3>1, <3>2
  <2>9. ASSUME NEW i \in DOMAIN result
        PROVE  result[i].is_mandatory <=>
                 \E m \in 1 .. (n + 1) :
                   outputs[m].description = result[i].description /\ outputs[m].is_mandatory
    <3>1. CASE i = Len(kept) + 1
      BY <3>1, <1>2, <2>2, <2>5 DEF candidate
    <3>2. CASE i \in DOMAIN kept
      <4>1. result[i] = kept[i] /\ kept[i].description # outputs[n + 1].description
        BY <3>2, <1>1, <2>2, <2>4 DEF candidate
      <4>2. kept[i].is_mandatory <=>
              \E m \in 1 .. n : outputs[m].description = kept[i].description /\ outputs[m].is_mandatory
        BY <3>2 DEF Merges
      <4> QED
        BY <1>2, <4>1, <4>2
    <3> QED
      BY <2>3, <3>1, <3>2
  <2> QED
    BY <2>2, <2>6, <2>7, <2>8, <2>9 DEF Merges, result, candidate
<1>4. CASE twins # {}
  <2>1. result = [i \in DOMAIN kept |->
                    IF i \in twins
                    THEN [kept[i] EXCEPT !.is_mandatory = @ \/ candidate.is_mandatory]
                    ELSE kept[i]]
    BY <1>4 DEF Merged
  <2> HIDE DEF result, candidate, twins
  <2>2. ASSUME NEW i \in DOMAIN kept
        PROVE  /\ result[i] \in Output /\ result[i].description = kept[i].description
               /\ result[i].is_mandatory <=>
                    kept[i].is_mandatory \/ (i \in twins /\ candidate.is_mandatory)
    BY <2>1, <1>1 DEF Output
  <2>3. result \in Seq(Output) /\ DOMAIN result = DOMAIN kept
    BY <2>1, <2>2, <1>1
  <2>4. \A i \in DOMAIN kept : i \in twins <=> kept[i].description = candidate.description
    BY DEF twins
  <2>5. \E i \in DOMAIN kept : kept[i].description = candidate.description
    BY <1>4 DEF twins
  <2>6. \A i, j \in DOMAIN result : result[i].description = result[j].description => i = j
    BY <2>2, <2>3 DEF Merges
  <2>7. ASSUME NEW i \in DOMAIN result
        PROVE  \E m \in 1 .. (n + 1) : outputs[m].description = result[i].description
    BY <1>2, <2>2, <2>3 DEF Merges
  <2>8. ASSUME NEW m \in 1 .. (n + 1)
        PROVE  \E i \in DOMAIN result : outputs[m].description = result[i].description
    BY <1>2, <2>2, <2>3, <2>5 DEF Merges, candidate
  <2>9. ASSUME NEW i \in DOMAIN result
        PROVE  result[i].is_mandatory <=>
                 \E m \in 1 .. (n + 1) :
                   outputs[m].description = result[i].description /\ outputs[m].is_mandatory
    BY <1>2, <2>2, <2>3, <2>4 DEF Merges, candidate
  <2> QED
    BY <2>3, <2>6, <2>7, <2>8, <2>9 DEF Merges, result, candidate
<1> QED
  BY <1>3, <1>4

LEMMA OutputsAreMerged ==
  ASSUME NEW outputs \in Seq(Output)
  PROVE  Merges(merge_outputs(outputs), outputs, Len(outputs))
<1> DEFINE N == Len(outputs)
           S == Seq(Output)
           base == << >>
           step == [p \in S \X (1 .. N) |-> Merged(p[1], outputs[p[2]])]
           P(f) == f = [n \in 0 .. N |->
                          IF n = 0 THEN << >> ELSE Merged(f[n - 1], outputs[n])]
<1>1. N \in Nat /\ DOMAIN outputs = 1 .. N /\ \A n \in 1 .. N : outputs[n] \in Output
  OBVIOUS
<1>2. ASSUME NEW n \in 1 .. N, NEW kept \in S
      PROVE  Merged(kept, outputs[n]) \in S
  <2>1. DOMAIN kept = 1 .. Len(kept) /\ Len(kept) \in Nat /\ \A i \in DOMAIN kept : kept[i] \in Output
    OBVIOUS
  <2>2. Append(kept, outputs[n]) \in S
    BY <1>1
  <2>3. ASSUME NEW twins
        PROVE  [i \in DOMAIN kept |->
                  IF i \in twins
                  THEN [kept[i] EXCEPT !.is_mandatory = @ \/ outputs[n].is_mandatory]
                  ELSE kept[i]] \in S
    <3>1. ASSUME NEW i \in DOMAIN kept
          PROVE  [kept[i] EXCEPT !.is_mandatory = @ \/ outputs[n].is_mandatory] \in Output
      BY <2>1 DEF Output
    <3> QED
      BY <2>1, <3>1
  <2> QED
    BY <2>2, <2>3 DEF Merged
<1>3. step \in [S \X (1 .. N) -> S] /\ base \in S
  <2>1. << >> \in S
    OBVIOUS
  <2> HIDE DEF N, S
  <2>2. ASSUME NEW p \in S \X (1 .. N) PROVE Merged(p[1], outputs[p[2]]) \in S
    BY <1>2
  <2> QED
    BY <2>1, <2>2
<1>4. PICK f \in [0 .. N -> S] : Recurs(f, N, base, step)
  <2> HIDE DEF step, N, S, base
  <2> QED
    BY <1>1, <1>3, Recursion
<1>5. ASSUME NEW n \in 1 .. N PROVE f[n] = Merged(f[n - 1], outputs[n])
  <2> HIDE DEF N, S
  <2>1. n - 1 \in 0 .. N
    BY <1>1
  <2>2. <<f[n - 1], n>> \in S \X (1 .. N)
    BY <2>1
  <2>3. f[n] = step[<<f[n - 1], n>>]
    BY <1>4 DEF Recurs
  <2> QED
    BY <2>2, <2>3
<1>6. P(f)
  <2> HIDE DEF N, S, step
  <2>1. ASSUME NEW n \in 0 .. N
        PROVE  f[n] = IF n = 0 THEN << >> ELSE Merged(f[n - 1], outputs[n])
    <3>1. CASE n = 0
      BY <1>4, <3>1 DEF Recurs
    <3>2. CASE n # 0
      <4>1. n \in 1 .. N
        BY <1>1, <3>2
      <4> QED
        BY <1>5, <3>2, <4>1
    <3> QED
      BY <3>1, <3>2
  <2> QED
    BY <2>1
<1> DEFINE g == CHOOSE h : P(h)
<1>7. P(g)
  <2> HIDE DEF P
  <2> QED
    BY <1>6
<1>8. merge_outputs(outputs) = g[N]
  BY DEF merge_outputs
<1> HIDE DEF g, N
<1>9. g[0] = << >>
  BY <1>1, <1>7
<1>10. ASSUME NEW n \in 1 .. N PROVE g[n] = Merged(g[n - 1], outputs[n])
  <2>1. n \in 0 .. N /\ n # 0
    BY <1>1
  <2> QED
    BY <2>1, <1>7
<1> DEFINE T == {n \in 0 .. N : Merges(g[n], outputs, n)}
<1>11. 0 \in T
  <2>1. g[0] \in Seq(Output) /\ DOMAIN g[0] = {} /\ 1 .. 0 = {}
    BY <1>9
  <2>2. Merges(g[0], outputs, 0)
    BY <2>1 DEF Merges
  <2> QED
    BY <1>1, <2>2
<1>12. ASSUME NEW n \in 0 .. N, n \in T, n < N PROVE n + 1 \in T
  <2>1. n \in Nat /\ n + 1 \in 1 .. N /\ (n + 1) - 1 = n /\ n + 1 \in 0 .. N
    BY <1>1, <1>12
  <2>2. g[n + 1] = Merged(g[n], outputs[n + 1])
    BY <1>10, <2>1
  <2>3. Merges(Merged(g[n], outputs[n + 1]), outputs, n + 1)
    BY <1>1, <1>12, <2>1, MergedOutputs
  <2> QED
    BY <2>1, <2>2, <2>3
<1>13. N \in T
  <2> HIDE DEF T
  <2>1. 0 .. N \subseteq T
    BY <1>1, <1>11, <1>12, Induction
  <2> QED
    BY <1>1, <2>1
<1> QED
  BY <1>8, <1>13 DEF N

-----------------------------------------------------------------------------
(* The reconciliation. *)

\* A new code has the number after those given, so it is none of them.
LEMMA NewCodeIsNew ==
  ASSUME NEW prefix, NEW codes \in SUBSET Codes, NEW bound \in Nat,
         \A c \in codes : c.number <= bound
  PROVE  /\ next_code(prefix, codes) = [prefix |-> prefix, number |-> next_code(prefix, codes).number]
         /\ next_code(prefix, codes).number \in 1 .. (bound + 1)
         /\ next_code(prefix, codes) \notin codes
<1> DEFINE numbers == {c.number : c \in {x \in codes : x.prefix = prefix}} \union {0}
           highest == CHOOSE n \in numbers : \A m \in numbers : m <= n
<1>1. \A c \in codes : c.number \in Nat /\ c = [prefix |-> c.prefix, number |-> c.number]
  BY DEF Codes
<1>2. numbers \subseteq Nat /\ numbers # {} /\ \A n \in numbers : n <= bound
  BY <1>1
<1>3. \E n \in numbers : \A m \in numbers : m <= n
  <2> HIDE DEF numbers
  <2> QED
    BY <1>2, GreatestNumber
<1>4. highest \in numbers /\ \A m \in numbers : m <= highest
  <2> HIDE DEF numbers
  <2> QED
    BY <1>3
<1>5. next_code(prefix, codes) = [prefix |-> prefix, number |-> 1 + highest]
  BY DEF next_code
<1>6. highest \in Nat /\ highest <= bound
  <2> HIDE DEF numbers, highest
  <2> QED
    BY <1>2, <1>4
<1>7. ASSUME NEW c \in codes, c.prefix = prefix PROVE c.number <= highest
  <2>1. c.number \in numbers
    BY <1>7
  <2> HIDE DEF numbers, highest
  <2> QED
    BY <1>4, <2>1
<1> HIDE DEF numbers, highest
<1>8. next_code(prefix, codes) \notin codes
  <2> SUFFICES ASSUME next_code(prefix, codes) \in codes PROVE FALSE
    OBVIOUS
  <2>1. 1 + highest <= highest
    BY <1>5, <1>7
  <2> QED
    BY <1>6, <2>1
<1> QED
  BY <1>5, <1>6, <1>8

\* A plan: the numbers of the codes are those of rows that were inserted.
PlanState ==
  {state \in [unmatched : SUBSET RequirementRow, codes : SUBSET Codes, next : Nat,
              created : SUBSET RequirementRow, updates : SUBSET (RequirementRow \X RequirementRow)] :
     \A c \in state.codes : c.number <= state.next}

\* The row `r` is what the extraction creates for `item`.
CreatedFor(r, item) ==
  /\ r.description = item.description
  /\ r.is_mandatory = item.is_mandatory
  /\ ~ r.manual_status

\* An output either takes a row that has its description, or makes a new one.
LEMMA OutputIsReconciled ==
  ASSUME NEW state \in PlanState, NEW item \in Output
  PROVE  \/ \E match \in state.unmatched :
              /\ match.description = item.description
              /\ Reconciled(state, item) =
                   [unmatched |-> state.unmatched \ {match}, codes |-> state.codes,
                    next |-> state.next, created |-> state.created,
                    updates |-> state.updates \union {<<match, Applied(match, item)>>}]
         \/ \E created \in RequirementRow :
              /\ CreatedFor(created, item)
              /\ created.id = state.next
              /\ created.code \notin state.codes
              /\ created.code.number <= state.next + 1
              /\ Reconciled(state, item) =
                   [unmatched |-> state.unmatched, codes |-> state.codes \union {created.code},
                    next |-> state.next + 1, created |-> state.created \union {created},
                    updates |-> state.updates]
<1> DEFINE matches == {r \in state.unmatched : r.description = item.description}
           match == CHOOSE r \in matches : \A x \in matches : r.code.number <= x.code.number
           code == next_code(Category[item.description], state.codes)
           created == [id |-> state.next, description |-> item.description, code |-> code,
                       is_mandatory |-> item.is_mandatory, manual_status |-> FALSE]
<1>1. /\ state = [unmatched |-> state.unmatched, codes |-> state.codes, next |-> state.next,
                  created |-> state.created, updates |-> state.updates]
      /\ state.unmatched \subseteq RequirementRow /\ state.codes \subseteq Codes
      /\ state.next \in Nat /\ \A c \in state.codes : c.number <= state.next
  BY DEF PlanState
<1>2. CASE matches # {}
  <2> DEFINE numbers == {r.code.number : r \in matches}
  <2>1. numbers \subseteq Nat /\ numbers # {}
    BY <1>1, <1>2 DEF RequirementRow, Codes
  <2>2. PICK n \in numbers : \A m \in numbers : n <= m
    <3> HIDE DEF numbers
    <3> QED
      BY <2>1, LeastNumber
  <2>3. \E r \in matches : \A x \in matches : r.code.number <= x.code.number
    <3>1. PICK r \in matches : n = r.code.number
      OBVIOUS
    <3>2. ASSUME NEW x \in matches PROVE n <= x.code.number
      BY <2>2
    <3> QED
      BY <3>1, <3>2
  <2>4. match \in matches
    <3> HIDE DEF matches
    <3> QED
      BY <2>3
  <2>5. Reconciled(state, item) =
          [state EXCEPT !.unmatched = @ \ {match},
                        !.updates = @ \union {<<match, Applied(match, item)>>}]
    BY <1>2 DEF Reconciled
  <2> HIDE DEF match
  <2>6. Reconciled(state, item) =
          [unmatched |-> state.unmatched \ {match}, codes |-> state.codes,
           next |-> state.next, created |-> state.created,
           updates |-> state.updates \union {<<match, Applied(match, item)>>}]
    BY <2>5, <1>1
  <2> QED
    BY <2>4, <2>6
<1>3. CASE matches = {}
  <2>1. /\ code = [prefix |-> Category[item.description], number |-> code.number]
        /\ code.number \in 1 .. (state.next + 1)
        /\ code \notin state.codes
    BY <1>1, NewCodeIsNew
  <2>2. Reconciled(state, item) =
          [state EXCEPT !.codes = @ \union {code}, !.next = @ + 1,
                        !.created = @ \union {created}]
    BY <1>3 DEF Reconciled
  <2> HIDE DEF code
  <2>3. item.description \in Descriptions /\ item.is_mandatory \in BOOLEAN
    BY DEF Output
  <2>4. code \in Codes
    BY <1>1, <2>1, <2>3 DEF Codes
  <2>5. created \in RequirementRow /\ CreatedFor(created, item)
    BY <1>1, <2>3, <2>4 DEF RequirementRow, CreatedFor
  <2>6. created.id = state.next /\ created.code = code
    OBVIOUS
  <2> HIDE DEF created
  <2>7. Reconciled(state, item) =
          [unmatched |-> state.unmatched, codes |-> state.codes \union {code},
           next |-> state.next + 1, created |-> state.created \union {created},
           updates |-> state.updates]
    BY <2>2, <1>1
  <2>8. created.code \notin state.codes /\ created.code.number <= state.next + 1
    BY <1>1, <2>1, <2>6
  <2>9. Reconciled(state, item) =
          [unmatched |-> state.unmatched, codes |-> state.codes \union {created.code},
           next |-> state.next + 1, created |-> state.created \union {created},
           updates |-> state.updates]
    BY <2>6, <2>7
  <2> QED
    BY <2>5, <2>6, <2>8, <2>9
<1> QED
  BY <1>2, <1>3

\* What the plan is once the first n items are reconciled with `existing`.
Plans(state, existing, next, items, n) ==
  /\ state \in PlanState
  /\ state.unmatched \subseteq existing
  /\ next <= state.next
  /\ \A r \in existing : r.code \in state.codes
  /\ \A p \in state.updates :
       /\ p[1] \in existing \ state.unmatched
       /\ \E m \in 1 .. n : p[1].description = items[m].description /\ p[2] = Applied(p[1], items[m])
  /\ \A r \in existing \ state.unmatched : \E p \in state.updates : p[1] = r
  /\ \A r \in state.created :
       /\ next <= r.id /\ r.id < state.next
       /\ r.code \in state.codes
       /\ \E m \in 1 .. n : CreatedFor(r, items[m])
  /\ \A r \in state.created, q \in existing : r.code # q.code
  /\ \A q, r \in state.created : q.id = r.id \/ q.code = r.code => q = r
  /\ \A m \in 1 .. n :
       \/ \E r \in existing \ state.unmatched : r.description = items[m].description
       \/ \E r \in state.created : r.description = items[m].description
  /\ \A q, r \in existing \ state.unmatched : q.description = r.description => q = r
  /\ \A q, r \in state.created : q.description = r.description => q = r
  /\ \A q \in existing \ state.unmatched, r \in state.created : q.description # r.description

LEMMA StepIsTyped ==
  ASSUME NEW state \in PlanState, NEW item \in Output
  PROVE  Reconciled(state, item) \in PlanState
<1>1. /\ state.unmatched \in SUBSET RequirementRow /\ state.codes \in SUBSET Codes
      /\ state.created \in SUBSET RequirementRow
      /\ state.updates \in SUBSET (RequirementRow \X RequirementRow)
      /\ state.next \in Nat /\ \A c \in state.codes : c.number \in Nat /\ c.number <= state.next
  BY DEF PlanState, Codes
<1>2. \A r \in RequirementRow : Applied(r, item) \in RequirementRow
  BY DEF Applied, RequirementRow, Output
<1>3. CASE \E match \in state.unmatched :
             Reconciled(state, item) =
               [unmatched |-> state.unmatched \ {match}, codes |-> state.codes,
                next |-> state.next, created |-> state.created,
                updates |-> state.updates \union {<<match, Applied(match, item)>>}]
  BY <1>1, <1>2, <1>3 DEF PlanState
<1>4. CASE \E created \in RequirementRow :
             /\ created.code.number <= state.next + 1
             /\ Reconciled(state, item) =
                  [unmatched |-> state.unmatched, codes |-> state.codes \union {created.code},
                   next |-> state.next + 1, created |-> state.created \union {created},
                   updates |-> state.updates]
  <2>1. PICK created \in RequirementRow :
          /\ created.code.number <= state.next + 1
          /\ Reconciled(state, item) =
               [unmatched |-> state.unmatched, codes |-> state.codes \union {created.code},
                next |-> state.next + 1, created |-> state.created \union {created},
                updates |-> state.updates]
    BY <1>4
  <2>2. created.code \in Codes
    BY DEF RequirementRow
  <2>3. \A c \in state.codes \union {created.code} : c.number <= state.next + 1
    BY <1>1, <2>1
  <2> QED
    BY <1>1, <2>1, <2>2, <2>3 DEF PlanState
<1> QED
  BY <1>3, <1>4, OutputIsReconciled

\* One more item.
LEMMA StepIsPlanned ==
  ASSUME NEW existing \in SUBSET RequirementRow, NEW next \in Nat,
         NEW items \in Seq(Output),
         \A i, j \in DOMAIN items : items[i].description = items[j].description => i = j,
         NEW n \in Nat, n + 1 \in DOMAIN items,
         NEW state, Plans(state, existing, next, items, n)
  PROVE  Plans(Reconciled(state, items[n + 1]), existing, next, items, n + 1)
<1> DEFINE item == items[n + 1]
           new == Reconciled(state, item)
<1>1. item \in Output /\ \A m \in 1 .. n : m \in DOMAIN items /\ m # n + 1
  OBVIOUS
<1>2. \A m : m \in 1 .. (n + 1) <=> m \in 1 .. n \/ m = n + 1
  OBVIOUS
<1>3. \A m \in 1 .. n : items[m].description # item.description
  BY <1>1
<1>4. state \in PlanState /\ state.next \in Nat
  BY DEF Plans, PlanState
<1>5. new \in PlanState
  BY <1>1, <1>4, StepIsTyped
<1> HIDE DEF item, new
<1>6. /\ \A r \in existing \ state.unmatched : r.description # item.description
      /\ \A r \in state.created : r.description # item.description
  <2>1. ASSUME NEW r \in existing \ state.unmatched PROVE r.description # item.description
    <3>1. PICK p \in state.updates : p[1] = r
      BY DEF Plans
    <3>2. PICK m \in 1 .. n : p[1].description = items[m].description
      BY DEF Plans
    <3> QED
      BY <1>3, <3>1, <3>2
  <2>2. ASSUME NEW r \in state.created PROVE r.description # item.description
    <3>1. PICK m \in 1 .. n : CreatedFor(r, items[m])
      BY DEF Plans
    <3> QED
      BY <1>3, <3>1 DEF CreatedFor
  <2> QED
    BY <2>1, <2>2
<1>7. CASE \E match \in state.unmatched :
             /\ match.description = item.description
             /\ new = [unmatched |-> state.unmatched \ {match}, codes |-> state.codes,
                       next |-> state.next, created |-> state.created,
                       updates |-> state.updates \union {<<match, Applied(match, item)>>}]
  <2>1. PICK match \in state.unmatched :
          /\ match.description = item.description
          /\ new = [unmatched |-> state.unmatched \ {match}, codes |-> state.codes,
                    next |-> state.next, created |-> state.created,
                    updates |-> state.updates \union {<<match, Applied(match, item)>>}]
    BY <1>7
  <2>2. /\ new.unmatched = state.unmatched \ {match} /\ new.codes = state.codes
        /\ new.next = state.next /\ new.created = state.created
        /\ new.updates = state.updates \union {<<match, Applied(match, item)>>}
    BY <2>1
  <2>3. match \in existing /\ \A r : r \in existing \ new.unmatched
                                       <=> r \in existing \ state.unmatched \/ r = match
    BY <2>2 DEF Plans
  <2>4. new.unmatched \subseteq existing /\ next <= new.next
        /\ \A r \in existing : r.code \in new.codes
    BY <2>2 DEF Plans
  <2>5. ASSUME NEW p \in new.updates
        PROVE  /\ p[1] \in existing \ new.unmatched
               /\ \E m \in 1 .. (n + 1) :
                    p[1].description = items[m].description /\ p[2] = Applied(p[1], items[m])
    <3>1. CASE p \in state.updates
      BY <3>1, <1>2, <2>3 DEF Plans
    <3>2. CASE p = <<match, Applied(match, item)>>
      BY <3>2, <1>2, <2>1, <2>3 DEF item
    <3> QED
      BY <3>1, <3>2, <2>2
  <2>6. ASSUME NEW r \in existing \ new.unmatched PROVE \E p \in new.updates : p[1] = r
    <3>1. CASE r = match
      <4>1. <<match, Applied(match, item)>> \in new.updates
        BY <2>2
      <4>2. <<match, Applied(match, item)>>[1] = r
        BY <3>1
      <4> QED
        BY <4>1, <4>2
    <3>2. CASE r \in existing \ state.unmatched
      BY <3>2, <2>2 DEF Plans
    <3> QED
      BY <3>1, <3>2, <2>3
  <2>7. ASSUME NEW r \in new.created
        PROVE  /\ next <= r.id /\ r.id < new.next
               /\ r.code \in new.codes
               /\ \E m \in 1 .. (n + 1) : CreatedFor(r, items[m])
    BY <2>2, <1>2 DEF Plans
  <2>8. /\ \A r \in new.created, q \in existing : r.code # q.code
        /\ \A q, r \in new.created : q.id = r.id \/ q.code = r.code => q = r
        /\ \A q, r \in new.created : q.description = r.description => q = r
    BY <2>2 DEF Plans
  <2>9. ASSUME NEW m \in 1 .. (n + 1)
        PROVE  \/ \E r \in existing \ new.unmatched : r.description = items[m].description
               \/ \E r \in new.created : r.description = items[m].description
    <3>1. CASE m = n + 1
      BY <3>1, <2>1, <2>3 DEF item
    <3>2. CASE m \in 1 .. n
      BY <3>2, <2>2, <2>3 DEF Plans
    <3> QED
      BY <3>1, <3>2, <1>2
  <2>10. \A q, r \in existing \ new.unmatched : q.description = r.description => q = r
    BY <1>6, <2>1, <2>3 DEF Plans
  <2>11. \A q \in existing \ new.unmatched, r \in new.created : q.description # r.description
    BY <1>6, <2>1, <2>2, <2>3 DEF Plans
  <2> QED
    BY <1>5, <2>4, <2>5, <2>6, <2>7, <2>8, <2>9, <2>10, <2>11 DEF Plans, item, new
<1>8. CASE \E created \in RequirementRow :
             /\ CreatedFor(created, item)
             /\ created.id = state.next
             /\ created.code \notin state.codes
             /\ new = [unmatched |-> state.unmatched, codes |-> state.codes \union {created.code},
                       next |-> state.next + 1, created |-> state.created \union {created},
                       updates |-> state.updates]
  <2>1. PICK created \in RequirementRow :
          /\ CreatedFor(created, item)
          /\ created.id = state.next
          /\ created.code \notin state.codes
          /\ new = [unmatched |-> state.unmatched, codes |-> state.codes \union {created.code},
                    next |-> state.next + 1, created |-> state.created \union {created},
                    updates |-> state.updates]
    BY <1>8
  <2>2. /\ new.unmatched = state.unmatched /\ new.codes = state.codes \union {created.code}
        /\ new.next = state.next + 1 /\ new.created = state.created \union {created}
        /\ new.updates = state.updates
    BY <2>1
  <2>3. \A r \in RequirementRow : r.id \in Nat
    BY DEF RequirementRow
  <2>4. state.created \subseteq RequirementRow
    BY <1>4 DEF PlanState
  <2>5. /\ new.unmatched \subseteq existing /\ next <= new.next
        /\ \A r \in existing : r.code \in new.codes
    BY <1>4, <2>2 DEF Plans
  <2>6. ASSUME NEW p \in new.updates
        PROVE  /\ p[1] \in existing \ new.unmatched
               /\ \E m \in 1 .. (n + 1) :
                    p[1].description = items[m].description /\ p[2] = Applied(p[1], items[m])
    BY <1>2, <2>2 DEF Plans
  <2>7. \A r \in existing \ new.unmatched : \E p \in new.updates : p[1] = r
    BY <2>2 DEF Plans
  <2>8. ASSUME NEW r \in new.created
        PROVE  /\ next <= r.id /\ r.id < new.next
               /\ r.code \in new.codes
               /\ \E m \in 1 .. (n + 1) : CreatedFor(r, items[m])
    <3>1. CASE r = created
      <4>1. CreatedFor(r, items[n + 1]) /\ r.code \in new.codes
        BY <3>1, <2>1, <2>2 DEF item
      <4>2. next <= r.id /\ r.id < new.next
        BY <3>1, <1>4, <2>1, <2>2 DEF Plans
      <4> QED
        BY <1>2, <4>1, <4>2
    <3>2. CASE r \in state.created
      <4>1. next <= r.id /\ r.id < state.next /\ r.code \in state.codes
        BY <3>2 DEF Plans
      <4>2. PICK m \in 1 .. n : CreatedFor(r, items[m])
        BY <3>2 DEF Plans
      <4>3. r.id < new.next
        BY <3>2, <4>1, <1>4, <2>2, <2>3, <2>4
      <4> QED
        BY <1>2, <2>2, <4>1, <4>2, <4>3
    <3> QED
      BY <3>1, <3>2, <2>2
  <2>9. \A r \in new.created, q \in existing : r.code # q.code
    BY <2>1, <2>2 DEF Plans
  <2>10. \A r \in state.created : r.id # created.id /\ r.code # created.code
    BY <1>4, <2>1, <2>3, <2>4 DEF Plans
  <2>11. \A q, r \in new.created : q.id = r.id \/ q.code = r.code => q = r
    BY <2>2, <2>10 DEF Plans
  <2>12. ASSUME NEW m \in 1 .. (n + 1)
        PROVE  \/ \E r \in existing \ new.unmatched : r.description = items[m].description
               \/ \E r \in new.created : r.description = items[m].description
    <3>1. CASE m = n + 1
      BY <3>1, <2>1, <2>2 DEF item, CreatedFor
    <3>2. CASE m \in 1 .. n
      BY <3>2, <2>2 DEF Plans
    <3> QED
      BY <3>1, <3>2, <1>2
  <2>13. \A q, r \in existing \ new.unmatched : q.description = r.description => q = r
    BY <2>2 DEF Plans
  <2>14. \A q, r \in new.created : q.description = r.description => q = r
    BY <1>6, <2>1, <2>2 DEF Plans, CreatedFor
  <2>15. \A q \in existing \ new.unmatched, r \in new.created : q.description # r.description
    BY <1>6, <2>1, <2>2 DEF Plans, CreatedFor
  <2> QED
    BY <1>5, <2>5, <2>6, <2>7, <2>8, <2>9, <2>11, <2>12, <2>13, <2>14, <2>15 DEF Plans, item, new
<1> QED
  BY <1>1, <1>4, <1>7, <1>8, OutputIsReconciled, SMTT(30) DEF new

\* What an extraction does with the rows it read, whatever they are.
LEMMA PlanHolds ==
  ASSUME NEW existing \in SUBSET RequirementRow, NEW next \in Nat,
         \A r \in existing : r.code.number <= next,
         NEW items \in Seq(Output),
         \A i, j \in DOMAIN items : items[i].description = items[j].description => i = j
  PROVE  Plans(Plan(existing, items, next), existing, next, items, Len(items))
<1> DEFINE N == Len(items)
           S == PlanState
           base == [unmatched |-> existing, codes |-> {r.code : r \in existing}, next |-> next,
                    created |-> {}, updates |-> {}]
           step == [p \in S \X (1 .. N) |-> Reconciled(p[1], items[p[2]])]
           P(f) == f = [n \in 0 .. N |->
                          IF n = 0 THEN base ELSE Reconciled(f[n - 1], items[n])]
<1>1. N \in Nat /\ DOMAIN items = 1 .. N /\ \A n \in 1 .. N : items[n] \in Output
  OBVIOUS
<1>2. base \in S
  <2>1. {r.code : r \in existing} \in SUBSET Codes
    BY DEF RequirementRow
  <2>2. \A c \in {r.code : r \in existing} : c.number <= next
    OBVIOUS
  <2> QED
    BY <2>1, <2>2 DEF PlanState
<1>3. step \in [S \X (1 .. N) -> S]
  <2> HIDE DEF N, S
  <2>1. ASSUME NEW p \in S \X (1 .. N) PROVE Reconciled(p[1], items[p[2]]) \in S
    BY <1>1, StepIsTyped DEF S
  <2> QED
    BY <2>1
<1>4. PICK f \in [0 .. N -> S] : Recurs(f, N, base, step)
  <2> HIDE DEF step, N, S, base
  <2> QED
    BY <1>1, <1>2, <1>3, Recursion
<1>5. ASSUME NEW n \in 1 .. N PROVE f[n] = Reconciled(f[n - 1], items[n])
  <2> HIDE DEF N, S, base
  <2>1. n - 1 \in 0 .. N
    BY <1>1
  <2>2. <<f[n - 1], n>> \in S \X (1 .. N)
    BY <2>1
  <2>3. f[n] = step[<<f[n - 1], n>>]
    BY <1>4 DEF Recurs
  <2> QED
    BY <2>2, <2>3
<1>6. P(f)
  <2> HIDE DEF N, S, step, base
  <2>1. ASSUME NEW n \in 0 .. N
        PROVE  f[n] = IF n = 0 THEN base ELSE Reconciled(f[n - 1], items[n])
    <3>1. CASE n = 0
      BY <1>4, <3>1 DEF Recurs
    <3>2. CASE n # 0
      <4>1. n \in 1 .. N
        BY <1>1, <3>2
      <4> QED
        BY <1>5, <3>2, <4>1
    <3> QED
      BY <3>1, <3>2
  <2> QED
    BY <2>1
<1> DEFINE g == CHOOSE h : P(h)
<1>7. P(g)
  <2> HIDE DEF P
  <2> QED
    BY <1>6
<1>8. Plan(existing, items, next) = g[N]
  BY DEF Plan
<1> HIDE DEF g, N
<1>9. g[0] = base
  <2> HIDE DEF base
  <2> QED
    BY <1>1, <1>7
<1>10. ASSUME NEW n \in 1 .. N PROVE g[n] = Reconciled(g[n - 1], items[n])
  <2>1. n \in 0 .. N /\ n # 0
    BY <1>1
  <2> HIDE DEF base
  <2> QED
    BY <2>1, <1>7
<1> DEFINE T == {n \in 0 .. N : Plans(g[n], existing, next, items, n)}
<1>11. 0 \in T
  <2>1. Plans(base, existing, next, items, 0)
    <3>1. /\ base.unmatched = existing /\ base.codes = {r.code : r \in existing} /\ base.next = next
          /\ base.created = {} /\ base.updates = {}
      OBVIOUS
    <3>2. 1 .. 0 = {} /\ existing \ base.unmatched = {}
      BY <3>1
    <3> HIDE DEF base
    <3> QED
      BY <1>2, <3>1, <3>2 DEF Plans
  <2> HIDE DEF base
  <2> QED
    BY <1>1, <1>9, <2>1
<1> HIDE DEF base
<1>12. ASSUME NEW n \in 0 .. N, n \in T, n < N PROVE n + 1 \in T
  <2>1. n \in Nat /\ n + 1 \in 1 .. N /\ (n + 1) - 1 = n /\ n + 1 \in 0 .. N
    BY <1>1, <1>12
  <2>2. g[n + 1] = Reconciled(g[n], items[n + 1])
    BY <1>10, <2>1
  <2>3. Plans(Reconciled(g[n], items[n + 1]), existing, next, items, n + 1)
    BY <1>1, <1>12, <2>1, StepIsPlanned
  <2> QED
    BY <2>1, <2>2, <2>3
<1>13. N \in T
  <2> HIDE DEF T
  <2>1. 0 .. N \subseteq T
    BY <1>1, <1>11, <1>12, Induction
  <2> QED
    BY <1>1, <2>1
<1> QED
  BY <1>8, <1>13 DEF N

-----------------------------------------------------------------------------
(* The rows and the transactions. *)

\* The rows were inserted, and no code has a greater number than there were rows.
Numbered(table) == \A r \in table : r.id < inserted /\ r.code.number <= inserted

\* A row is the only one of its id.
Identified == \A q, r \in rows : q.id = r.id => q = r

\* Until transactions have raced, the one that is open holds the rows as they are.
Undisturbed ==
  ~ raced => /\ \A s \in Transactions : transaction[s].open => transaction[s].rows = rows
             /\ \A s, t \in Transactions : transaction[s].open /\ transaction[t].open => s = t

Orderly ==
  /\ ExtractionTypeOK
  /\ Numbered(rows)
  /\ \A s \in Transactions : Numbered(transaction[s].rows)
  /\ Identified
  /\ Undisturbed
  /\ CodesAreDistinct

\* The pair changes nothing that identifies the row, and removes no mark.
KeepsIdentity(p) ==
  /\ p \in RequirementRow \X RequirementRow
  /\ p[2].id = p[1].id /\ p[2].code = p[1].code /\ p[2].description = p[1].description
  /\ p[1].manual_status => p[2].manual_status

\* n is the row r, whatever its flags became.
Succeeds(n, r) ==
  /\ n \in RequirementRow
  /\ n.id = r.id /\ n.code = r.code /\ n.description = r.description
  /\ r.manual_status => n.manual_status

\* The row r once the updates u are written.
Updated(u, r) ==
  LET mine == {p \in u : p[1].id = r.id}
  IN  IF mine = {} THEN r ELSE LET p == CHOOSE p \in mine : TRUE IN Written(r, p[1], p[2])

LEMMA WrittenPair ==
  ASSUME NEW r \in RequirementRow, NEW p, KeepsIdentity(p)
  PROVE  /\ Succeeds(Written(r, p[1], p[2]), r)
         /\ p[1] = r => Written(r, p[1], p[2]) = p[2]
<1>1. p[1] \in RequirementRow /\ p[2] \in RequirementRow
  BY DEF KeepsIdentity
<1>2. DOMAIN r = {"id", "description", "code", "is_mandatory", "manual_status"}
  BY DEF RequirementRow
<1>3. Written(r, p[1], p[2]) =
        [f \in {"id", "description", "code", "is_mandatory", "manual_status"} |->
           IF p[2][f] # p[1][f] THEN p[2][f] ELSE r[f]]
  BY <1>2 DEF Written
<1> DEFINE n == Written(r, p[1], p[2])
<1>4. /\ n.id = r.id /\ n.code = r.code /\ n.description = r.description
      /\ n.is_mandatory = IF p[2].is_mandatory # p[1].is_mandatory THEN p[2].is_mandatory ELSE r.is_mandatory
      /\ n.manual_status = IF p[2].manual_status # p[1].manual_status THEN p[2].manual_status ELSE r.manual_status
  BY <1>3 DEF KeepsIdentity
<1>5. n = [id |-> n.id, description |-> n.description, code |-> n.code,
           is_mandatory |-> n.is_mandatory, manual_status |-> n.manual_status]
  BY <1>3
<1> HIDE DEF n
<1>6. n \in RequirementRow
  BY <1>1, <1>4, <1>5 DEF RequirementRow
<1>7. r.manual_status => n.manual_status
  BY <1>1, <1>4 DEF KeepsIdentity, RequirementRow
<1>8. ASSUME p[1] = r PROVE n = p[2]
  <2>1. p[2] = [id |-> p[2].id, description |-> p[2].description, code |-> p[2].code,
                is_mandatory |-> p[2].is_mandatory, manual_status |-> p[2].manual_status]
    BY <1>1 DEF RequirementRow
  <2>2. /\ n.id = p[2].id /\ n.description = p[2].description /\ n.code = p[2].code
        /\ n.is_mandatory = p[2].is_mandatory /\ n.manual_status = p[2].manual_status
    BY <1>4, <1>8 DEF KeepsIdentity
  <2> QED
    BY <1>5, <2>1, <2>2
<1> QED
  BY <1>4, <1>6, <1>7, <1>8 DEF Succeeds, n

LEMMA UpdatedRow ==
  ASSUME NEW u, \A p \in u : KeepsIdentity(p), NEW r \in RequirementRow
  PROVE  Succeeds(Updated(u, r), r)
<1> DEFINE mine == {p \in u : p[1].id = r.id}
           first == CHOOSE p \in mine : TRUE
<1>1. CASE mine = {}
  BY <1>1 DEF Updated, Succeeds
<1>2. CASE mine # {}
  <2>1. first \in mine
    BY <1>2
  <2>2. Updated(u, r) = Written(r, first[1], first[2])
    BY <1>2 DEF Updated
  <2> HIDE DEF first
  <2> QED
    BY <2>1, <2>2, WrittenPair
<1> QED
  BY <1>1, <1>2

\* The rows after the updates are those before, one for one.
LEMMA RowsAfter ==
  ASSUME NEW u, \A p \in u : KeepsIdentity(p), rows \subseteq RequirementRow
  PROVE  /\ \A n \in After(u) : \E r \in rows : n = Updated(u, r) /\ Succeeds(n, r)
         /\ \A r \in rows : Updated(u, r) \in After(u)
<1>1. After(u) = {Updated(u, r) : r \in rows}
  BY DEF After, Updated
<1> QED
  BY <1>1, UpdatedRow

\* What follows from the rows being those of before, some deleted, and new ones.
LEMMA TableIsOrderly ==
  ASSUME Orderly, NEW u, \A p \in u : KeepsIdentity(p),
         NEW kept, kept \subseteq After(u),
         NEW created \in SUBSET RequirementRow,
         \A r \in created : inserted <= r.id /\ r.id < inserted' /\ r.code.number <= inserted',
         \A q, r \in created : q.id = r.id => q = r,
         rows' = kept \union created, inserted' \in Nat, inserted <= inserted'
  PROVE  /\ rows' \subseteq RequirementRow
         /\ Numbered(rows)'
         /\ Identified'
         /\ \A r \in rows, n \in rows' : r.id = n.id =>
              /\ r.code = n.code /\ r.description = n.description
              /\ r.manual_status => n.manual_status
<1>1. /\ rows \subseteq RequirementRow /\ inserted \in Nat
      /\ \A r \in RequirementRow : r.id \in Nat /\ r.code.number \in Nat
  BY DEF Orderly, ExtractionTypeOK, RequirementRow, Codes
<1>2. \A n \in kept : \E r \in rows : n = Updated(u, r) /\ Succeeds(n, r)
  BY <1>1, RowsAfter
<1>3. rows' \subseteq RequirementRow
  BY <1>2 DEF Succeeds
<1>4. ASSUME NEW n \in rows' PROVE n.id < inserted' /\ n.code.number <= inserted'
  <2>1. CASE n \in created
    BY <2>1
  <2>2. CASE n \in kept
    <3>1. PICK r \in rows : Succeeds(n, r)
      BY <1>2, <2>2
    <3>2. r.id < inserted /\ r.code.number <= inserted
      BY DEF Orderly, Numbered
    <3> QED
      BY <1>1, <3>1, <3>2 DEF Succeeds
  <2> QED
    BY <2>1, <2>2
<1>5. ASSUME NEW n \in kept PROVE n.id \in Nat /\ n.id < inserted
  <2>1. PICK r \in rows : Succeeds(n, r)
    BY <1>2
  <2> QED
    BY <1>1, <2>1 DEF Orderly, Numbered, Succeeds
<1>6. ASSUME NEW q \in rows', NEW r \in rows', q.id = r.id PROVE q = r
  <2>1. CASE q \in kept /\ r \in kept
    <3>1. PICK x \in rows : q = Updated(u, x) /\ Succeeds(q, x)
      BY <1>2, <2>1
    <3>2. PICK y \in rows : r = Updated(u, y) /\ Succeeds(r, y)
      BY <1>2, <2>1
    <3>3. x = y
      BY <1>6, <3>1, <3>2 DEF Orderly, Identified, Succeeds
    <3> QED
      BY <3>1, <3>2, <3>3
  <2>2. CASE q \in created /\ r \in created
    BY <1>6, <2>2
  <2>3. \A x \in kept, y \in created : x.id # y.id
    BY <1>1, <1>5
  <2> QED
    BY <1>6, <2>1, <2>2, <2>3
<1>7. ASSUME NEW r \in rows, NEW n \in rows', r.id = n.id
      PROVE  /\ r.code = n.code /\ r.description = n.description
             /\ r.manual_status => n.manual_status
  <2>1. CASE n \in created
    BY <1>1, <1>7, <2>1 DEF Orderly, Numbered
  <2>2. CASE n \in kept
    <3>1. PICK x \in rows : Succeeds(n, x)
      BY <1>2, <2>2
    <3>2. x = r
      BY <1>7, <3>1 DEF Orderly, Identified, Succeeds
    <3> QED
      BY <3>1, <3>2 DEF Succeeds
  <2> QED
    BY <2>1, <2>2
<1> QED
  BY <1>3, <1>4, <1>6, <1>7 DEF Numbered, Identified

-----------------------------------------------------------------------------
(* The actions. *)

\* The items are what is said, each requirement once, mandatory if one output says so.
Summarise(items, said) ==
  /\ items \in Seq(Output)
  /\ \A i, j \in DOMAIN items : items[i].description = items[j].description => i = j
  /\ \A m \in DOMAIN items : \E o \in said : o.description = items[m].description
  /\ \A o \in said : \E m \in DOMAIN items : o.description = items[m].description
  /\ \A m \in DOMAIN items :
       items[m].is_mandatory <=>
         [description |-> items[m].description, is_mandatory |-> TRUE] \in said

LEMMA ItemsAreSaid ==
  ASSUME NEW missed \in SUBSET DOMAIN Contents
  PROVE  Summarise(merge_outputs(Outputs(missed)),
                   UNION {Range(Contents[d]) : d \in DOMAIN Contents \ missed})
<1> DEFINE outputs == Outputs(missed)
           items == merge_outputs(outputs)
           said == UNION {Range(Contents[d]) : d \in DOMAIN Contents \ missed}
<1>1. outputs \in Seq(Output) /\ Range(outputs) = said
  BY OutputsOf
<1>2. Merges(items, outputs, Len(outputs))
  BY <1>1, OutputsAreMerged
<1> SUFFICES Summarise(items, said)
  OBVIOUS
<1> HIDE DEF outputs, items, said
<1>3. /\ DOMAIN outputs = 1 .. Len(outputs) /\ said = {outputs[m] : m \in 1 .. Len(outputs)}
      /\ \A m \in 1 .. Len(outputs) : outputs[m] \in Output
  <2>1. DOMAIN outputs = 1 .. Len(outputs) /\ \A m \in 1 .. Len(outputs) : outputs[m] \in Output
    BY <1>1
  <2>2. said = {outputs[m] : m \in DOMAIN outputs}
    BY <1>1 DEF Range
  <2> QED
    BY <2>1, <2>2
<1>4. \A i \in DOMAIN items : items[i] \in Output
  BY <1>2 DEF Merges
<1>5. ASSUME NEW i \in DOMAIN items
      PROVE  items[i].is_mandatory <=>
               [description |-> items[i].description, is_mandatory |-> TRUE] \in said
  <2>1. items[i].is_mandatory <=>
          \E m \in 1 .. Len(outputs) :
            outputs[m].description = items[i].description /\ outputs[m].is_mandatory
    BY <1>2 DEF Merges
  <2>2. ASSUME NEW m \in 1 .. Len(outputs)
        PROVE  outputs[m].description = items[i].description /\ outputs[m].is_mandatory
                 <=> outputs[m] = [description |-> items[i].description, is_mandatory |-> TRUE]
    BY <1>3 DEF Output
  <2> QED
    BY <1>3, <2>1, <2>2
<1>6. ASSUME NEW i \in DOMAIN items PROVE \E o \in said : o.description = items[i].description
  <2>1. PICK m \in 1 .. Len(outputs) : outputs[m].description = items[i].description
    BY <1>2 DEF Merges
  <2> QED
    BY <1>3, <2>1
<1>7. ASSUME NEW o \in said PROVE \E m \in DOMAIN items : o.description = items[m].description
  <2>1. PICK k \in 1 .. Len(outputs) : o = outputs[k]
    BY <1>3
  <2> QED
    BY <1>2, <2>1 DEF Merges
<1> QED
  BY <1>2, <1>5, <1>6, <1>7 DEF Merges, Summarise

\* What an extraction does, in terms of its plan.
LEMMA ExtractionPlans ==
  ASSUME Orderly, NEW s \in Transactions, NEW missed \in SUBSET DOMAIN Contents, extract(s, missed),
         NEW items, items = merge_outputs(Outputs(missed)),
         NEW plan, plan = Plan(transaction[s].rows, items, inserted)
  PROVE  /\ Plans(plan, transaction[s].rows, inserted, items, Len(items))
         /\ \A p \in plan.updates : KeepsIdentity(p)
         /\ rows' = {r \in After(plan.updates) : \A x \in plan.unmatched : x.id # r.id} \union plan.created
         /\ inserted' = plan.next /\ plan.next \in Nat /\ inserted <= plan.next
         /\ plan.created \in SUBSET RequirementRow
         /\ \A r \in plan.created : inserted <= r.id /\ r.id < plan.next /\ r.code.number <= plan.next
<1>1. items \in Seq(Output)
      /\ \A i, j \in DOMAIN items : items[i].description = items[j].description => i = j
  BY ItemsAreSaid DEF Summarise
<1>2. /\ transaction[s].rows \in SUBSET RequirementRow /\ inserted \in Nat
      /\ \A r \in transaction[s].rows : r.code.number <= inserted
  BY DEF Orderly, ExtractionTypeOK, Numbered
<1>3. Plans(plan, transaction[s].rows, inserted, items, Len(items))
  BY <1>1, <1>2, PlanHolds
<1>4. plan \in PlanState /\ DOMAIN items = 1 .. Len(items)
  BY <1>1, <1>3 DEF Plans
<1>5. /\ plan.next \in Nat /\ plan.created \in SUBSET RequirementRow
      /\ plan.updates \in SUBSET (RequirementRow \X RequirementRow)
      /\ \A c \in plan.codes : c.number <= plan.next
  BY <1>4 DEF PlanState
<1>6. ASSUME NEW p \in plan.updates PROVE KeepsIdentity(p)
  <2>1. PICK m \in 1 .. Len(items) : p[2] = Applied(p[1], items[m])
    BY <1>3 DEF Plans
  <2> QED
    BY <1>5, <2>1 DEF Applied, KeepsIdentity, RequirementRow
<1>7. /\ rows' = {r \in After(plan.updates) : \A x \in plan.unmatched : x.id # r.id} \union plan.created
      /\ inserted' = plan.next
  BY DEF extract
<1>8. inserted <= plan.next
      /\ \A r \in plan.created : inserted <= r.id /\ r.id < plan.next /\ r.code \in plan.codes
  BY <1>3 DEF Plans
<1> QED
  BY <1>3, <1>5, <1>6, <1>7, <1>8

\* The rows of the others are still those they read.
LEMMA EndedTransaction ==
  ASSUME Orderly, NEW s \in Transactions, End(s), inserted' \in Nat, inserted <= inserted', raced' = raced
  PROVE  /\ transaction' \in [Transactions -> [open : BOOLEAN, rows : SUBSET RequirementRow]]
         /\ \A t \in Transactions : Numbered(transaction[t].rows)'
         /\ \A t \in Transactions : transaction[t].open' => t # s /\ transaction[t].open
         /\ \A t \in Transactions : t # s => transaction'[t] = transaction[t]
<1>1. /\ transaction \in [Transactions -> [open : BOOLEAN, rows : SUBSET RequirementRow]]
      /\ transaction' = [transaction EXCEPT ![s] = Ended]
      /\ inserted \in Nat
  BY DEF Orderly, ExtractionTypeOK, End
<1>2. Ended \in [open : BOOLEAN, rows : SUBSET RequirementRow] /\ ~ Ended.open /\ Ended.rows = {}
  BY DEF Ended
<1>3. transaction'[s] = Ended /\ \A t \in Transactions : t # s => transaction'[t] = transaction[t]
  BY <1>1
<1>4. transaction' \in [Transactions -> [open : BOOLEAN, rows : SUBSET RequirementRow]]
  BY <1>1, <1>2
<1>5. ASSUME NEW t \in Transactions, NEW r \in transaction'[t].rows
      PROVE  r.id < inserted' /\ r.code.number <= inserted'
  <2>1. t # s /\ r \in transaction[t].rows
    BY <1>2, <1>3
  <2>2. r.id < inserted /\ r.code.number <= inserted /\ r \in RequirementRow
    BY <1>1, <2>1 DEF Orderly, Numbered
  <2>3. r.id \in Nat /\ r.code.number \in Nat
    BY <2>2 DEF RequirementRow, Codes
  <2> QED
    BY <1>1, <2>2, <2>3
<1> QED
  BY <1>2, <1>3, <1>4, <1>5 DEF Numbered

LEMMA ExtractionIsOrderly ==
  ASSUME Orderly, NEW s \in Transactions, NEW missed \in SUBSET DOMAIN Contents, extract(s, missed)
  PROVE  /\ Orderly'
         /\ \A r \in rows, n \in rows' : r.id = n.id =>
              /\ r.code = n.code /\ r.description = n.description
              /\ r.manual_status => n.manual_status
<1> DEFINE items == merge_outputs(Outputs(missed))
           existing == transaction[s].rows
           plan == Plan(existing, items, inserted)
           kept == {r \in After(plan.updates) : \A x \in plan.unmatched : x.id # r.id}
<1>1. /\ Plans(plan, existing, inserted, items, Len(items))
      /\ \A p \in plan.updates : KeepsIdentity(p)
      /\ rows' = kept \union plan.created
      /\ inserted' = plan.next /\ plan.next \in Nat /\ inserted <= plan.next
      /\ plan.created \in SUBSET RequirementRow
      /\ \A r \in plan.created : inserted <= r.id /\ r.id < plan.next /\ r.code.number <= plan.next
  BY ExtractionPlans
<1> HIDE DEF plan, items
<1>2. \A q, r \in plan.created : q.id = r.id \/ q.code = r.code => q = r
  BY <1>1 DEF Plans
<1>3. kept \subseteq After(plan.updates)
  OBVIOUS
<1>4. /\ rows' \subseteq RequirementRow /\ Numbered(rows)' /\ Identified'
      /\ \A r \in rows, n \in rows' : r.id = n.id =>
           /\ r.code = n.code /\ r.description = n.description
           /\ r.manual_status => n.manual_status
  <2> HIDE DEF kept
  <2> QED
    BY <1>1, <1>2, <1>3, TableIsOrderly
<1>5. transaction[s].open /\ End(s) /\ raced' = raced /\ unread' = missed
  BY DEF extract
<1>6. /\ transaction' \in [Transactions -> [open : BOOLEAN, rows : SUBSET RequirementRow]]
      /\ \A t \in Transactions : Numbered(transaction[t].rows)'
      /\ \A t \in Transactions : transaction[t].open' => t # s /\ transaction[t].open
  BY <1>1, <1>5, EndedTransaction
<1>7. ExtractionTypeOK'
  BY <1>1, <1>4, <1>5, <1>6 DEF Orderly, ExtractionTypeOK
<1>8. Undisturbed'
  BY <1>5, <1>6 DEF Orderly, Undisturbed
<1>9. CodesAreDistinct'
  <2> SUFFICES ASSUME ~ raced, NEW q \in rows', NEW r \in rows', q.code = r.code PROVE q = r
    BY <1>5 DEF CodesAreDistinct
  <2>1. existing = rows
    BY <1>5 DEF Orderly, Undisturbed
  <2>2. rows \subseteq RequirementRow /\ \A x, y \in rows : x.code = y.code => x = y
    BY DEF Orderly, ExtractionTypeOK, CodesAreDistinct
  <2>3. \A n \in kept : \E x \in rows : n = Updated(plan.updates, x) /\ Succeeds(n, x)
    BY <1>1, <2>2, RowsAfter
  <2>4. CASE q \in kept /\ r \in kept
    <3>1. PICK x \in rows : q = Updated(plan.updates, x) /\ q.code = x.code
      BY <2>3, <2>4 DEF Succeeds
    <3>2. PICK y \in rows : r = Updated(plan.updates, y) /\ r.code = y.code
      BY <2>3, <2>4 DEF Succeeds
    <3> QED
      BY <2>2, <3>1, <3>2
  <2>5. CASE q \in plan.created /\ r \in plan.created
    BY <1>2, <2>5
  <2>6. ASSUME NEW n \in kept, NEW c \in plan.created PROVE n.code # c.code
    <3>1. PICK x \in rows : n.code = x.code
      BY <2>3 DEF Succeeds
    <3> QED
      BY <1>1, <2>1, <3>1 DEF Plans
  <2> QED
    BY <1>1, <2>4, <2>5, <2>6
<1> QED
  BY <1>4, <1>6, <1>7, <1>8, <1>9 DEF Orderly

LEMMA UpdateIsOrderly ==
  ASSUME Orderly, NEW s \in Transactions, NEW old \in transaction[s].rows, NEW new,
         new = PatchStatus(old) \/ new = PatchMandatory(old),
         update_requirement(s, old, new)
  PROVE  /\ Orderly'
         /\ \A r \in rows, n \in rows' : r.id = n.id =>
              /\ r.code = n.code /\ r.description = n.description
              /\ r.manual_status => n.manual_status
<1> DEFINE u == {<<old, new>>}
<1>1. /\ old \in RequirementRow /\ rows \subseteq RequirementRow /\ inserted \in Nat
  BY DEF Orderly, ExtractionTypeOK
<1>2. \A p \in u : KeepsIdentity(p)
  <2>1. /\ new \in RequirementRow
        /\ new.id = old.id /\ new.code = old.code /\ new.description = old.description
        /\ old.manual_status => new.manual_status
    <3>1. CASE new = PatchStatus(old)
      BY <1>1, <3>1 DEF PatchStatus, RequirementRow
    <3>2. CASE new = PatchMandatory(old)
      BY <1>1, <3>2 DEF PatchMandatory, RequirementRow
    <3> QED
      BY <3>1, <3>2
  <2> QED
    BY <1>1, <2>1 DEF KeepsIdentity
<1>3. /\ rows' = After(u) /\ inserted' = inserted /\ unread' = unread /\ raced' = raced
      /\ transaction[s].open /\ End(s)
  BY DEF update_requirement
<1> HIDE DEF u
<1>4. rows' = After(u) \union {}
  BY <1>3
<1>5. /\ rows' \subseteq RequirementRow /\ Numbered(rows)' /\ Identified'
      /\ \A r \in rows, n \in rows' : r.id = n.id =>
           /\ r.code = n.code /\ r.description = n.description
           /\ r.manual_status => n.manual_status
  <2>1. /\ {} \in SUBSET RequirementRow
        /\ \A r \in {} : inserted <= r.id /\ r.id < inserted' /\ r.code.number <= inserted'
        /\ \A q, r \in {} : q.id = r.id => q = r
        /\ After(u) \subseteq After(u)
        /\ inserted' \in Nat /\ inserted <= inserted'
    BY <1>1, <1>3
  <2> QED
    BY <1>2, <1>4, <2>1, TableIsOrderly
<1>6. /\ transaction' \in [Transactions -> [open : BOOLEAN, rows : SUBSET RequirementRow]]
      /\ \A t \in Transactions : Numbered(transaction[t].rows)'
      /\ \A t \in Transactions : transaction[t].open' => t # s /\ transaction[t].open
  <2>1. inserted' \in Nat /\ inserted <= inserted'
    BY <1>1, <1>3
  <2> QED
    BY <1>3, <2>1, EndedTransaction
<1>7. ExtractionTypeOK'
  BY <1>3, <1>5, <1>6 DEF Orderly, ExtractionTypeOK
<1>8. Undisturbed'
  BY <1>3, <1>6 DEF Orderly, Undisturbed
<1>9. CodesAreDistinct'
  <2> SUFFICES ASSUME ~ raced, NEW q \in rows', NEW r \in rows', q.code = r.code PROVE q = r
    BY <1>3 DEF CodesAreDistinct
  <2>1. \A n \in rows' : \E x \in rows : n = Updated(u, x) /\ n.code = x.code
    BY <1>1, <1>2, <1>3, RowsAfter DEF Succeeds
  <2>2. PICK x \in rows : q = Updated(u, x) /\ q.code = x.code
    BY <2>1
  <2>3. PICK y \in rows : r = Updated(u, y) /\ r.code = y.code
    BY <2>1
  <2>4. x = y
    BY <2>2, <2>3 DEF Orderly, CodesAreDistinct
  <2> QED
    BY <2>2, <2>3, <2>4
<1> QED
  BY <1>5, <1>6, <1>7, <1>8, <1>9 DEF Orderly

LEMMA LoadIsOrderly ==
  ASSUME Orderly, NEW s \in Transactions, Load(s)
  PROVE  Orderly'
<1>1. /\ transaction \in [Transactions -> [open : BOOLEAN, rows : SUBSET RequirementRow]]
      /\ transaction' = [transaction EXCEPT ![s] = [open |-> TRUE, rows |-> rows]]
      /\ rows' = rows /\ inserted' = inserted /\ unread' = unread
      /\ raced' = (raced \/ \E t \in Transactions : transaction[t].open)
      /\ rows \subseteq RequirementRow
  BY DEF Orderly, ExtractionTypeOK, Load
<1>2. /\ transaction'[s] = [open |-> TRUE, rows |-> rows]
      /\ \A t \in Transactions : t # s => transaction'[t] = transaction[t]
  BY <1>1
<1>3. ExtractionTypeOK'
  BY <1>1 DEF Orderly, ExtractionTypeOK
<1>4. \A t \in Transactions : Numbered(transaction[t].rows)'
  BY <1>1, <1>2 DEF Orderly, Numbered
<1>5. Undisturbed'
  BY <1>1, <1>2 DEF Undisturbed
<1>6. Numbered(rows)' /\ Identified' /\ CodesAreDistinct'
  BY <1>1 DEF Orderly, Numbered, Identified, CodesAreDistinct
<1> QED
  BY <1>3, <1>4, <1>5, <1>6 DEF Orderly

LEMMA AbortIsOrderly ==
  ASSUME Orderly, NEW s \in Transactions, Abort(s)
  PROVE  Orderly'
<1>1. /\ End(s) /\ transaction[s].open
      /\ rows' = rows /\ inserted' = inserted /\ unread' = unread /\ raced' = raced
      /\ inserted \in Nat
  BY DEF Orderly, ExtractionTypeOK, Abort
<1>2. /\ transaction' \in [Transactions -> [open : BOOLEAN, rows : SUBSET RequirementRow]]
      /\ \A t \in Transactions : Numbered(transaction[t].rows)'
      /\ \A t \in Transactions : transaction[t].open' => t # s /\ transaction[t].open
      /\ \A t \in Transactions : t # s => transaction'[t] = transaction[t]
  <2>1. inserted' \in Nat /\ inserted <= inserted'
    BY <1>1
  <2> QED
    BY <1>1, <2>1, EndedTransaction
<1>3. ExtractionTypeOK'
  BY <1>1, <1>2 DEF Orderly, ExtractionTypeOK
<1>4. Undisturbed'
  BY <1>1, <1>2 DEF Orderly, Undisturbed
<1>5. Numbered(rows)' /\ Identified' /\ CodesAreDistinct'
  BY <1>1 DEF Orderly, Numbered, Identified, CodesAreDistinct
<1> QED
  BY <1>2, <1>3, <1>4, <1>5 DEF Orderly

\* No step disturbs the order of the rows, or what identifies one of them.
LEMMA StepIsOrderly ==
  ASSUME Orderly, [ExtractionNext]_extractionVars
  PROVE  /\ Orderly'
         /\ \A r \in rows, n \in rows' : r.id = n.id =>
              /\ r.code = n.code /\ r.description = n.description
              /\ r.manual_status => n.manual_status
<1> DEFINE Stable == \A r \in rows, n \in rows' : r.id = n.id =>
                       /\ r.code = n.code /\ r.description = n.description
                       /\ r.manual_status => n.manual_status
<1> SUFFICES Orderly' /\ Stable
  OBVIOUS
<1>1. ASSUME rows' = rows PROVE Stable
  BY <1>1 DEF Orderly, Identified
<1>2. CASE UNCHANGED extractionVars
  <2>1. Orderly'
    BY <1>2 DEF extractionVars, Orderly, ExtractionTypeOK, Numbered, Identified, Undisturbed, CodesAreDistinct
  <2> QED
    BY <1>1, <1>2, <2>1 DEF extractionVars
<1>3. ASSUME NEW s \in Transactions, Load(s) PROVE Orderly' /\ Stable
  BY <1>1, <1>3, LoadIsOrderly DEF Load
<1>4. ASSUME NEW s \in Transactions, Abort(s) PROVE Orderly' /\ Stable
  BY <1>1, <1>4, AbortIsOrderly DEF Abort
<1>5. ASSUME NEW s \in Transactions, NEW missed \in SUBSET DOMAIN Contents, extract(s, missed)
      PROVE  Orderly' /\ Stable
  BY <1>5, ExtractionIsOrderly
<1>6. ASSUME NEW s \in Transactions, NEW old \in transaction[s].rows,
             update_requirement(s, old, PatchStatus(old)) \/ update_requirement(s, old, PatchMandatory(old))
      PROVE  Orderly' /\ Stable
  BY <1>6, UpdateIsOrderly
<1> HIDE DEF Stable
<1>7. CASE ExtractionNext
  <2>1. PICK s \in Transactions :
          \/ Load(s)
          \/ Abort(s)
          \/ \E missed \in SUBSET DOMAIN Contents : extract(s, missed)
          \/ \E old \in transaction[s].rows :
               update_requirement(s, old, PatchStatus(old)) \/ update_requirement(s, old, PatchMandatory(old))
    BY <1>7 DEF ExtractionNext
  <2>2. CASE \E missed \in SUBSET DOMAIN Contents : extract(s, missed)
    BY <2>2, <1>5
  <2>3. CASE \E old \in transaction[s].rows :
               update_requirement(s, old, PatchStatus(old)) \/ update_requirement(s, old, PatchMandatory(old))
    BY <2>3, <1>6
  <2> QED
    BY <2>1, <2>2, <2>3, <1>3, <1>4
<1> QED
  BY <1>2, <1>7

LEMMA Ordered == ExtractionSpec => []Orderly
<1>1. ASSUME ExtractionInit PROVE Orderly
  <2>1. /\ rows = {} /\ inserted = 0 /\ unread = {} /\ raced = FALSE
        /\ transaction = [s \in Transactions |-> [open |-> FALSE, rows |-> {}]]
    BY <1>1 DEF ExtractionInit, Ended
  <2>2. ExtractionTypeOK
    BY <2>1 DEF ExtractionTypeOK
  <2> QED
    BY <2>1, <2>2 DEF Orderly, Numbered, Identified, Undisturbed, CodesAreDistinct
<1>2. Orderly /\ [ExtractionNext]_extractionVars => Orderly'
  BY StepIsOrderly
<1> QED
  BY <1>1, <1>2, PTL DEF ExtractionSpec

-----------------------------------------------------------------------------
(* The theorems. *)

\* Every variable has its type, however the transactions overlap.
THEOREM ExtractionTypesAreKept == ExtractionSpec => []ExtractionTypeOK
<1>1. Orderly => ExtractionTypeOK
  BY DEF Orderly
<1> QED
  BY <1>1, Ordered, PTL

\* However the transactions overlap, and whatever the documents say, a
\* requirement keeps its code and the mark of the user's hand for as long as
\* it lives (requirements.py:3-4).
THEOREM IdentitiesAreStable == ExtractionSpec => IdentityIsStable
<1> DEFINE Stable == \A r \in rows, n \in rows' : r.id = n.id =>
                       /\ r.code = n.code /\ r.description = n.description
                       /\ r.manual_status => n.manual_status
<1>1. Orderly /\ [ExtractionNext]_extractionVars => [Stable]_extractionVars
  BY StepIsOrderly
<1>2. IdentityIsStable <=> [][Stable]_extractionVars
  BY DEF IdentityIsStable
<1> HIDE DEF Stable
<1> QED
  BY <1>1, <1>2, Ordered, PTL DEF ExtractionSpec

\* Until transactions race, two requirements never have the same code, whatever
\* was extracted, deleted and extracted again: a new code has the number after
\* all those given (requirements.py:36-39).
THEOREM CodesStayDistinct == ExtractionSpec => []CodesAreDistinct
<1>1. Orderly => CodesAreDistinct
  BY DEF Orderly
<1> QED
  BY <1>1, Ordered, PTL

-----------------------------------------------------------------------------
(* An extraction alone. *)

LEMMA ExtractionIsExact ==
  ASSUME Orderly, ~ raced,
         NEW s \in Transactions, NEW missed \in SUBSET DOMAIN Contents, extract(s, missed)
  PROVE  /\ {r.description : r \in rows'} = {item.description : item \in Said'}
         /\ \A q, r \in rows' : q.description = r.description => q = r
         /\ \A r \in rows' : ~ r.manual_status =>
              (r.is_mandatory <=> [description |-> r.description, is_mandatory |-> TRUE] \in Said')
<1> DEFINE items == merge_outputs(Outputs(missed))
           plan == Plan(rows, items, inserted)
           kept == {r \in After(plan.updates) : \A x \in plan.unmatched : x.id # r.id}
<1>1. transaction[s].rows = rows /\ unread' = missed
  BY DEF extract, Orderly, Undisturbed
<1>2. Said' = UNION {Range(Contents[d]) : d \in DOMAIN Contents \ missed}
  BY <1>1 DEF Said
<1>3. Summarise(items, Said')
  BY <1>2, ItemsAreSaid
<1>4. /\ Plans(plan, rows, inserted, items, Len(items))
      /\ \A p \in plan.updates : KeepsIdentity(p)
      /\ rows' = kept \union plan.created
  BY <1>1, ExtractionPlans
<1> HIDE DEF plan, items
<1>5. DOMAIN items = 1 .. Len(items)
  BY <1>3 DEF Summarise
<1>6. rows \subseteq RequirementRow /\ \A q, r \in rows : q.id = r.id => q = r
  BY DEF Orderly, ExtractionTypeOK, Identified
\* The rows that are kept are those an output matched.
<1>7. ASSUME NEW n \in kept
      PROVE  \E x \in rows \ plan.unmatched : n = Updated(plan.updates, x) /\ Succeeds(n, x)
  <2>1. PICK x \in rows : n = Updated(plan.updates, x) /\ Succeeds(n, x)
    BY <1>4, <1>6, RowsAfter
  <2>2. x \notin plan.unmatched
    BY <2>1 DEF Succeeds
  <2> QED
    BY <2>1, <2>2
<1>8. ASSUME NEW x \in rows \ plan.unmatched
      PROVE  Updated(plan.updates, x) \in kept /\ Updated(plan.updates, x).description = x.description
  <2>1. Updated(plan.updates, x) \in After(plan.updates) /\ Succeeds(Updated(plan.updates, x), x)
    BY <1>4, <1>6, RowsAfter, UpdatedRow
  <2>2. ASSUME NEW y \in plan.unmatched PROVE y.id # Updated(plan.updates, x).id
    <3>1. y \in rows /\ y # x
      BY <1>4 DEF Plans
    <3> QED
      BY <1>6, <2>1, <3>1 DEF Succeeds
  <2> QED
    BY <2>1, <2>2 DEF Succeeds
\* Each of them is as the output that matched it says.
<1>9. ASSUME NEW x \in rows \ plan.unmatched
      PROVE  \E m \in DOMAIN items : x.description = items[m].description
                                       /\ Updated(plan.updates, x) = Applied(x, items[m])
  <2> DEFINE mine == {p \in plan.updates : p[1].id = x.id}
             first == CHOOSE p \in mine : TRUE
  <2>1. \E p \in plan.updates : p[1] = x
    BY <1>4 DEF Plans
  <2>2. first \in mine
    BY <2>1
  <2>3. Updated(plan.updates, x) = Written(x, first[1], first[2])
    BY <2>1 DEF Updated
  <2> HIDE DEF first
  <2>4. PICK m \in 1 .. Len(items) :
          first[1].description = items[m].description /\ first[2] = Applied(first[1], items[m])
    BY <1>4, <2>2 DEF Plans
  <2>5. first[1] = x
    BY <1>4, <1>6, <2>2 DEF Plans
  <2>6. Updated(plan.updates, x) = first[2]
    BY <1>4, <1>6, <2>2, <2>3, <2>5, WrittenPair
  <2> QED
    BY <1>5, <2>4, <2>5, <2>6
<1>10. \A r \in plan.created : \E m \in DOMAIN items : CreatedFor(r, items[m])
  BY <1>4, <1>5 DEF Plans
<1> HIDE DEF kept
<1>11. ASSUME NEW r \in rows'
       PROVE  \E m \in DOMAIN items :
                /\ r.description = items[m].description
                /\ ~ r.manual_status => r.is_mandatory = items[m].is_mandatory
  <2>1. CASE r \in plan.created
    BY <1>10, <2>1 DEF CreatedFor
  <2>2. CASE r \in kept
    <3>1. PICK x \in rows \ plan.unmatched : r = Updated(plan.updates, x) /\ Succeeds(r, x)
      BY <1>7, <2>2
    <3>2. PICK m \in DOMAIN items : x.description = items[m].description /\ r = Applied(x, items[m])
      BY <1>9, <3>1
    <3>3. ASSUME ~ r.manual_status PROVE r.is_mandatory = items[m].is_mandatory
      BY <1>6, <3>1, <3>2, <3>3 DEF Applied, Succeeds, RequirementRow
    <3> QED
      BY <3>1, <3>2, <3>3 DEF Succeeds
  <2> QED
    BY <1>4, <2>1, <2>2
<1>12. ASSUME NEW m \in DOMAIN items PROVE \E r \in rows' : r.description = items[m].description
  <2>1. CASE \E x \in rows \ plan.unmatched : x.description = items[m].description
    BY <1>4, <1>8, <2>1
  <2>2. CASE \E r \in plan.created : r.description = items[m].description
    BY <1>4, <2>2
  <2> QED
    BY <1>4, <1>5, <2>1, <2>2 DEF Plans
<1>13. ASSUME NEW q \in rows', NEW r \in rows', q.description = r.description PROVE q = r
  <2>1. CASE q \in kept /\ r \in kept
    <3>1. PICK x \in rows \ plan.unmatched : q = Updated(plan.updates, x) /\ Succeeds(q, x)
      BY <1>7, <2>1
    <3>2. PICK y \in rows \ plan.unmatched : r = Updated(plan.updates, y) /\ Succeeds(r, y)
      BY <1>7, <2>1
    <3>3. x = y
      BY <1>4, <1>13, <3>1, <3>2 DEF Plans, Succeeds
    <3> QED
      BY <3>1, <3>2, <3>3
  <2>2. CASE q \in plan.created /\ r \in plan.created
    BY <1>4, <1>13, <2>2 DEF Plans
  <2>3. ASSUME NEW n \in kept, NEW c \in plan.created PROVE n.description # c.description
    <3>1. PICK x \in rows \ plan.unmatched : Succeeds(n, x)
      BY <1>7
    <3> QED
      BY <1>4, <3>1 DEF Plans, Succeeds
  <2> QED
    BY <1>4, <1>13, <2>1, <2>2, <2>3
<1>14. {r.description : r \in rows'} = {item.description : item \in Said'}
  <2>1. ASSUME NEW r \in rows' PROVE \E o \in Said' : o.description = r.description
    BY <1>3, <1>11 DEF Summarise
  <2>2. ASSUME NEW o \in Said' PROVE \E r \in rows' : r.description = o.description
    <3>1. PICK m \in DOMAIN items : o.description = items[m].description
      BY <1>3 DEF Summarise
    <3> QED
      BY <1>12, <3>1
  <2> QED
    BY <2>1, <2>2
<1>15. ASSUME NEW r \in rows', ~ r.manual_status
       PROVE  r.is_mandatory <=> [description |-> r.description, is_mandatory |-> TRUE] \in Said'
  <2>1. PICK m \in DOMAIN items : r.description = items[m].description
                                    /\ r.is_mandatory = items[m].is_mandatory
    BY <1>11, <1>15
  <2>2. items[m].is_mandatory <=>
          [description |-> items[m].description, is_mandatory |-> TRUE] \in Said'
    BY <1>3 DEF Summarise
  <2> QED
    BY <2>1, <2>2
<1> QED
  BY <1>13, <1>14, <1>15

\* Until transactions race, an extraction leaves exactly one row for each
\* requirement that a document it could read states, mandatory as soon as one
\* of them says so unless the user took it in hand: for any documents, any set
\* of them the model fails on, and any rows of before (requirements.py:46-57,
\* 101-143).
THEOREM ExtractionsAreFaithful == ExtractionSpec => ExtractionIsFaithful
<1> DEFINE Faithful ==
             Extraction /\ ~ raced =>
               /\ {r.description : r \in rows'} = {item.description : item \in Said'}
               /\ \A q, r \in rows' : q.description = r.description => q = r
               /\ \A r \in rows' : ~ r.manual_status =>
                    (r.is_mandatory <=> [description |-> r.description, is_mandatory |-> TRUE] \in Said')
<1>1. Orderly /\ [ExtractionNext]_extractionVars => [Faithful]_extractionVars
  BY ExtractionIsExact DEF Extraction
<1>2. ExtractionIsFaithful <=> [][Faithful]_extractionVars
  BY DEF ExtractionIsFaithful
<1> HIDE DEF Faithful
<1> QED
  BY <1>1, <1>2, Ordered, PTL DEF ExtractionSpec
=============================================================================
