--------------------------- MODULE EligibilityReview ---------------------------
(***************************************************************************)
(* The requirements of one tender, judged by the eligibility engine, by    *)
(* the user's hand and by the user's answers to questions.  The engine     *)
(* runs in jobs (analyze_tender, evaluate_eligibility, generate_questions) *)
(* that hold a database session for minutes; the user's requests run       *)
(* beside them.                                                            *)
(*                                                                         *)
(* A session works on the rows it read: nothing is locked and nothing is   *)
(* read again.  At a commit SQLAlchemy writes the columns whose value      *)
(* differs from the one that was read.                                     *)
(*                                                                         *)
(* The requirements are fixed: an extraction that reads them again resets  *)
(* them.  The company may change at any time: an evaluation finds any      *)
(* member of Companies, and its model gives any of Verdicts.               *)
(***************************************************************************)
EXTENDS EligibilityRules, UnitOfWork, Sequences, SequencesExt

CONSTANTS
  Reqs,            \* the requirements of the tender
  Sessions,        \* the sessions of the jobs and of the requests
  Requirements,    \* what they may be about
  Dossier,         \* the technologies and the sector of the tender
  Companies,       \* the profiles and the documents the company may have
  Verdicts,        \* the verdicts the model may give, with what it cites
  AnswerTexts,     \* what an answer may say
  HandVerdicts,    \* the statuses a user may set
  MaxQuestions     \* bound on the questions asked about a requirement

NEEDS_QUESTION == {"INFO_MANQUANTE", "A_VERIFIER", "NON_CONFORME"}

\* The statuses an answer may lead to.
AnswerVerdicts == {_from_answer(text).status : text \in AnswerTexts}

\* What the engine may conclude of a requirement that was not answered.
RuleJudgements(about) ==
  UNION {refine(judge(about, c, Dossier), search(c), Verdicts) : c \in Companies}

ASSUME ReviewAssumption ==
  /\ HandVerdicts \subseteq Statuses /\ MaxQuestions \in Nat
  /\ \A v \in Verdicts : v.status \in Statuses /\ v.refs \subseteq Nat
  /\ \A about \in Requirements : \A n \in about.needed : n.number \in Nat

VARIABLES
  row,        \* tender_requirements
  questions,  \* the questions about each requirement, last answered last
  summary,    \* the statuses counted in tenders.extra["eligibility"]
  hand,       \* the status the user last set, for the properties only
  session,    \* what each session holds
  overlapped, \* has a session been opened while another was open?
  failed      \* has a session ended before its last commit?

mishaps == <<overlapped, failed>>

vars == <<row, questions, summary, hand, session, mishaps>>

\* `evidence` tells the kinds of what the status rests on.
Row == [about : Requirements, status : Statuses, manual_status : BOOLEAN, evidence : SUBSET Kinds]

\* `says` is the verdict the recorded answer leads to.
Question == [id : Nat, state : {"open", "answered", "skipped"}, says : AnswerVerdicts \union {"none"}]

Closed == [pc |-> "closed"]

Init ==
  /\ \E about \in [Reqs -> Requirements] :
       row = [q \in Reqs |-> [about |-> about[q], status |-> "A_VERIFIER",
                             manual_status |-> FALSE, evidence |-> {}]]
  /\ questions = [q \in Reqs |-> << >>]
  /\ summary = [q \in Reqs |-> "none"]
  /\ hand = [q \in Reqs |-> "none"]
  /\ session = [s \in Sessions |-> Closed]
  /\ overlapped = FALSE
  /\ failed = FALSE

-----------------------------------------------------------------------------
(* Sessions. *)

NotRead == [q \in Reqs |-> << >>]

\* The first thing each kind of session does with the rows it read.
Entrance == [analyze  |-> "extract", evaluate |-> "read_questions",
             generate |-> "read_questions", request |-> "act"]

Open(s, kind) ==
  /\ session[s] = Closed
  /\ session' = [session EXCEPT ![s] =
       [kind |-> kind, pc |-> Entrance[kind], rows |-> row, asked |-> NotRead]]
  /\ overlapped' = (overlapped \/ \E t \in Sessions : session[t] # Closed)
  /\ UNCHANGED <<row, questions, summary, hand, failed>>

Close(s) == session' = [session EXCEPT ![s] = Closed]

Fail(s) ==
  /\ session[s] # Closed
  /\ Close(s)
  /\ failed' = TRUE
  /\ UNCHANGED <<row, questions, summary, hand, overlapped>>

\* Session s commits the rows `new` and goes on to pc.
Commit(s, new, pc) ==
  /\ row' = [q \in Reqs |-> Written(row[q], session[s].rows[q], new[q])]
  /\ session' = [session EXCEPT ![s].rows = new, ![s].pc = pc]

\* The same, and the session ends.
CommitAndClose(s, new) ==
  /\ row' = [q \in Reqs |-> Written(row[q], session[s].rows[q], new[q])]
  /\ Close(s)

Statement(rows) == [q \in Reqs |-> rows[q].status]

-----------------------------------------------------------------------------
(* The engine. *)

\* A requirement read again: what was set by hand is kept.
Reset(r) ==
  IF r.manual_status THEN r
  ELSE [r EXCEPT !.status = "A_VERIFIER", !.evidence = {}]

\* RequirementsService.extract, committed before the evaluation.
Extract(s) ==
  /\ session[s].pc = "extract"
  /\ Commit(s, [q \in Reqs |-> Reset(session[s].rows[q])], "read_questions")
  /\ UNCHANGED <<questions, summary, hand, mishaps>>

\* tender.questions is loaded when it is first used.
ReadQuestions(s) ==
  /\ session[s].pc = "read_questions"
  /\ session' = [session EXCEPT
       ![s].asked = questions,
       ![s].pc = IF session[s].kind = "generate" THEN "generate" ELSE "evaluate"]
  /\ UNCHANGED <<row, questions, summary, hand, mishaps>>

\* The verdict of the last answer, if there is one.
Answers(asked) ==
  LET given == {i \in DOMAIN asked : asked[i].state = "answered"}
  IN  {asked[i].says : i \in {j \in given : \A k \in given : k <= j}}

\* EligibilityEngine.apply
apply(r, judgement) == [r EXCEPT !.status = judgement.status, !.evidence = judgement.evidence]

\* The judgement of an answer, which no rule and no document may change.
Answered(v) == Judgement(v, {"answer"})

\* Wrong: the manual status is not looked at.
Judgements_blind(r, asked) ==
  IF Answers(asked) # {}
  THEN {apply(r, Answered(v)) : v \in Answers(asked)}
  ELSE {apply(r, j) : j \in RuleJudgements(r.about)}

\* Wrong: the answers are not passed to the engine.
Judgements_unanswered(r, asked) ==
  IF r.manual_status THEN {r}
  ELSE {apply(r, j) : j \in RuleJudgements(r.about)}

\* What the engine may make of a requirement: the hand prevails over the
\* answers, and the answers over the rules and the documents.
Judgements(r, asked) ==
  IF r.manual_status THEN {r}
  ELSE IF Answers(asked) # {}
  THEN {apply(r, Answered(v)) : v \in Answers(asked)}
  ELSE {apply(r, j) : j \in RuleJudgements(r.about)}

\* EligibilityEngine.evaluate, committed with the summary.
Evaluate(s) ==
  /\ session[s].pc = "evaluate"
  /\ \E new \in [Reqs -> UNION {Judgements(session[s].rows[q], session[s].asked[q]) : q \in Reqs}] :
       /\ \A q \in Reqs : new[q] \in Judgements(session[s].rows[q], session[s].asked[q])
       /\ Commit(s, new, "generate")
       /\ summary' = Statement(new)
  /\ UNCHANGED <<questions, hand, mishaps>>

\* A skipped question is not asked again.
Pending(asked) == \E i \in DOMAIN asked : asked[i].state \in {"open", "skipped"}

\* Wrong: a skipped question is asked again.
needs_question_again(r, asked) ==
  /\ r.status \in NEEDS_QUESTION
  /\ ~ r.manual_status
  /\ ~ \E i \in DOMAIN asked : asked[i].state = "open"
  /\ "answer" \notin r.evidence

needs_question(r, asked) ==
  /\ r.status \in NEEDS_QUESTION
  /\ ~ r.manual_status
  /\ ~ Pending(asked)
  /\ "answer" \notin r.evidence

\* QuestionService.generate: one question for each requirement that needs one.
Generate(s) ==
  /\ session[s].pc = "generate"
  /\ \A q \in Reqs : Len(questions[q]) < MaxQuestions
  /\ questions' = [q \in Reqs |->
       IF needs_question(session[s].rows[q], session[s].asked[q])
       THEN Append(questions[q], [id |-> Len(questions[q]) + 1, state |-> "open", says |-> "none"])
       ELSE questions[q]]
  /\ Close(s)
  /\ UNCHANGED <<row, summary, hand, mishaps>>

-----------------------------------------------------------------------------
(* The user's requests. *)

\* PATCH /requirements/{id}: a status, and the engine's hands are off.
Patch(s, q, v) ==
  /\ session[s].pc = "act"
  /\ CommitAndClose(s, [session[s].rows EXCEPT ![q].status = v, ![q].manual_status = TRUE])
  /\ hand' = [hand EXCEPT ![q] = v]
  /\ UNCHANGED <<questions, summary, mishaps>>

\* Question i of requirement q gets its answer and becomes the last answered.
Record(asked, i, v) ==
  Append(RemoveAt(asked, i), [asked[i] EXCEPT !.state = "answered", !.says = v])

\* Wrong: the summary is not refreshed.
Refreshed_never(new) == UNCHANGED summary

\* EligibilityEngine.refresh
Refreshed(new) == summary' = Statement(new)

\* POST /questions/{id}/answer: the requirement is judged on this answer,
\* whoever set its status before.
Answer(s, q, i, v) ==
  /\ session[s].pc = "act"
  /\ i \in DOMAIN questions[q]
  /\ questions' = [questions EXCEPT ![q] = Record(@, i, v)]
  /\ LET new == [session[s].rows EXCEPT ![q] = apply(@, Answered(v))]
     IN  CommitAndClose(s, new) /\ Refreshed(new)
  /\ hand' = [hand EXCEPT ![q] = IF row[q].manual_status THEN v ELSE @]
  /\ UNCHANGED mishaps

\* POST /questions/{id}/skip: any question, its answer is left as it is.
Skip(s, q, i) ==
  /\ session[s].pc = "act"
  /\ i \in DOMAIN questions[q]
  /\ questions' = [questions EXCEPT ![q][i].state = "skipped"]
  /\ Close(s)
  /\ UNCHANGED <<row, summary, hand, mishaps>>

-----------------------------------------------------------------------------
Request(s) ==
  \E q \in Reqs :
    \/ \E v \in HandVerdicts : Patch(s, q, v)
    \/ \E i \in 1 .. MaxQuestions :
         \/ \E v \in AnswerVerdicts : Answer(s, q, i, v)
         \/ Skip(s, q, i)

Next ==
  \E s \in Sessions :
    \/ \E kind \in DOMAIN Entrance : Open(s, kind)
    \/ Extract(s) \/ ReadQuestions(s) \/ Evaluate(s) \/ Generate(s)
    \/ Request(s)
    \/ Fail(s)

Spec == Init /\ [][Next]_vars

-----------------------------------------------------------------------------
(* Properties that hold however the sessions overlap. *)

\* Every variable has its type.
TypeOK ==
  /\ row \in [Reqs -> Row]
  /\ \A q \in Reqs : questions[q] \in Seq(Question)
  /\ summary \in [Reqs -> Statuses \union {"none"}]
  /\ hand \in [Reqs -> Statuses \union {"none"}]
  /\ DOMAIN session = Sessions
  /\ overlapped \in BOOLEAN /\ failed \in BOOLEAN

\* The mark of the user's hand outlives every job that read the requirement
\* before it was set (models/requirement.py: conservé lors d'une ré-extraction).
HandIsRemembered ==
  [][\A q \in Reqs : row[q].manual_status => row'[q].manual_status]_vars

-----------------------------------------------------------------------------
(* Properties that hold as long as no two sessions have overlapped.  The    *)
(* last three need, besides, that no session has failed.                   *)

\* The user's hand prevails over the rules: a status set by hand stays
\* (eligibility.py:440).
HandPrevails ==
  ~ overlapped => \A q \in Reqs : row[q].manual_status => row[q].status = hand[q]

\* The two rules that find a compliance and may cite nothing: a technology that
\* the tender demands and the profile has under another name proves it (215)
\* and is not cited, and no project is enough when none is asked for (280).
NeedsNoProof(about) ==
  \/ about.category = "technique" /\ \E t \in Dossier.technologies : _mentions(t, about.description)
  \/ \E n \in about.needed : n.unit = "projects" /\ n.number = 0

\* No requirement is met without a proof that can be found (RB-005,
\* eligibility.py:402), but for the two rules above: the status and its
\* evidence are columns of their own, and a compliance is claimed by rules, by
\* a model or by an answer.
ComplianceIsProven ==
  ~ overlapped => \A q \in Reqs :
    /\ row[q].status = "CONFORME" /\ ~ row[q].manual_status
    /\ ~ NeedsNoProof(row[q].about)
    => row[q].evidence # {}

Smooth == ~ overlapped /\ ~ failed

AtRest == \A s \in Sessions : session[s] = Closed

\* At rest the last answer decides, unless the user's hand did
\* (questions.py:5-6).
AnswerPrevails ==
  Smooth /\ AtRest => \A q \in Reqs :
    ~ row[q].manual_status /\ Answers(questions[q]) # {} =>
      row[q].evidence = {"answer"} /\ row[q].status \in Answers(questions[q])

\* No requirement is asked about twice: neither while a question is pending,
\* nor after it was answered (questions.py:2-3).
NeverAskedTwice == Smooth => \A q \in Reqs : Len(questions[q]) <= 1

\* At rest only the user's hand can have left the summary behind.
SummaryIsCurrent ==
  Smooth /\ AtRest => \A q \in Reqs :
    summary[q] \notin {"none", row[q].status} => row[q].manual_status
=============================================================================
