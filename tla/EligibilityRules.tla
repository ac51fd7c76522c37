---------------------------- MODULE EligibilityRules ----------------------------
(***************************************************************************)
(* What the eligibility engine concludes on one requirement: a rule per    *)
(* category compares it with the company's profile and documents; what the *)
(* rules leave open is read again by a model, on excerpts of documents     *)
(* that it has to cite.                                                    *)
(*                                                                         *)
(* A requirement carries what the engine reads in its description: the     *)
(* description, its significant words, and the first number it asks for.   *)
(* `_mentions`, which is approximate, is the relation Mentioned.  The      *)
(* justifications are left out, and of the evidence the kinds are kept.  A *)
(* document that is indexed stands for one excerpt.                        *)
(***************************************************************************)
EXTENDS Naturals, FiniteSets, FiniteSetsExt

CONSTANT Mentioned  \* the pairs <<term, text>> such that the term appears in the text

Statuses == {"CONFORME", "A_VERIFIER", "NON_CONFORME", "INFO_MANQUANTE"}

\* Evidence.kind
Kinds == {"certification", "technology", "skill", "expert", "project", "document", "answer", "chunk"}

_mentions(term, text) == <<term, text>> \in Mentioned

Judgement(status, evidence) == [status |-> status, evidence |-> evidence]

NotInProfile == Judgement("INFO_MANQUANTE", {})

\* This kind of evidence, if there is some.
OfKind(kind, found) == IF found = {} THEN {} ELSE {kind}

-----------------------------------------------------------------------------
(* The rules. *)

\* An answer is the set of what its pattern finds in it: yes, no or neither.
_from_answer(answer) ==
  Judgement(IF "yes" \in answer THEN "CONFORME" ELSE IF "no" \in answer THEN "NON_CONFORME" ELSE "A_VERIFIER",
            {"answer"})

\* A certification that has expired is worse than none.
_certification(req, company) ==
  LET cited == {c \in company.certifications : _mentions(c.name, req.description)}
  IN  IF cited = {} THEN NotInProfile
      ELSE Judgement(IF \E c \in cited : c.is_valid THEN "CONFORME" ELSE "NON_CONFORME", {"certification"})

\* The technologies of the tender that the requirement mentions must be found
\* in the profile; without any, whatever of the profile it mentions will do.
_technique(req, company, tender) ==
  LET demanded == {t \in tender.technologies : _mentions(t, req.description)}
      missing == {d \in demanded : ~ \E t \in company.technologies : _mentions(d, t) \/ _mentions(t, d)}
      evidence == OfKind("technology", {t \in company.technologies : _mentions(t, req.description)})
                    \union OfKind("skill", {s \in company.skills : _mentions(s, req.description)})
  IN  IF demanded = {}
      THEN IF evidence = {} THEN NotInProfile ELSE Judgement("CONFORME", evidence)
      ELSE IF missing = {} THEN Judgement("CONFORME", evidence)
      ELSE IF missing # demanded THEN Judgement("A_VERIFIER", evidence)
      ELSE NotInProfile

\* `needed` is {} or {[unit, number]}, the unit being years or projects.
_experience(req, company, tender) ==
  LET years == {e.years : e \in company.experts} \ {0}
      projects == {p \in company.projects : tender.sector = "" \/ _mentions(p.sector, tender.sector)}
      Reached(yes, evidence) == Judgement(IF yes THEN "CONFORME" ELSE "NON_CONFORME", evidence)
  IN  IF req.needed = {} THEN NotInProfile
      ELSE LET ask == CHOOSE n \in req.needed : TRUE
           IN  IF ask.unit = "projects"
               THEN Reached(Cardinality(projects) >= ask.number, OfKind("project", projects))
               ELSE IF years = {} THEN NotInProfile ELSE Reached(Max(years) >= ask.number, {"expert"})

_team(req, company) ==
  IF \E e \in company.experts : _mentions(e.role, req.description)
  THEN Judgement("CONFORME", {"expert"}) ELSE NotInProfile

DOCUMENT_CATEGORIES == [administrative |-> {"administratif", "attestation"},
                        financiere |-> {"financier"}, juridique |-> {"juridique"}]

\* The documents that share the most words with the requirement, and only
\* they; one of them has to be usable (RB-007).
_document(req, company) ==
  LET docs == {d \in company.documents : d.category \in DOCUMENT_CATEGORIES[req.category]}
      Shared(d) == Cardinality(req.words \intersect d.words)
      matching == {d \in docs : Shared(d) > 0 /\ \A e \in docs : Shared(e) <= Shared(d)}
  IN  IF matching = {} THEN NotInProfile
      ELSE Judgement(IF \E d \in matching : d.is_usable THEN "CONFORME" ELSE "NON_CONFORME", {"document"})

\* EligibilityEngine.judge, for a requirement that was not answered.
judge(req, company, tender) ==
  CASE req.category = "certification" -> _certification(req, company)
    [] req.category = "technique" -> _technique(req, company, tender)
    [] req.category = "experience" -> _experience(req, company, tender)
    [] req.category = "equipe" -> _team(req, company)
    [] req.category \in DOMAIN DOCUMENT_CATEGORIES -> _document(req, company)
    [] OTHER -> Judgement("A_VERIFIER", {})

-----------------------------------------------------------------------------
(* The model. *)

RAG_HITS == 5

\* KnowledgeBase.search: the ranks of the nearest excerpts, however far they
\* are, of the company's documents that are usable (RB-007).
search(company) ==
  1 .. Min({RAG_HITS, Cardinality({d \in company.documents : d.is_usable /\ d.indexed})})

_cited(refs, hits) == refs \intersect hits

\* Wrong: the model is believed.
_guard_trusting(rules, verdict, hits) == Judgement(verdict.status, rules.evidence)

\* The verdict of the model.  What it does not prove is not a compliance
\* (RB-005), and an absence of proof is not a proof of absence.
_guard(rules, verdict, hits) ==
  LET cited == _cited(verdict.refs, hits)
      status == IF cited # {} THEN verdict.status
                ELSE IF verdict.status = "CONFORME" THEN "A_VERIFIER"
                ELSE IF verdict.status = "NON_CONFORME" THEN "INFO_MANQUANTE"
                ELSE verdict.status
  IN  Judgement(status, rules.evidence \union (IF status = "INFO_MANQUANTE" THEN {} ELSE OfKind("chunk", cited)))

\* What refine() may return, if the model may give these verdicts or fail.
refine(rules, hits, verdicts) ==
  IF rules.status \in {"A_VERIFIER", "INFO_MANQUANTE"} /\ hits # {}
  THEN {rules} \union {_guard(rules, v, hits) : v \in verdicts}
  ELSE {rules}
=============================================================================
