------------------------------- MODULE Templates -------------------------------
(***************************************************************************)
(* The templates of the documents of an application: which sections each   *)
(* document has, how long, and what each section may read.  The ten default *)
(* templates are seeded; a user may create others and change any plan.     *)
(*                                                                         *)
(* A template is named by its document type.  Titles and instructions are  *)
(* left out.                                                               *)
(***************************************************************************)
EXTENDS Naturals, Sequences, FiniteSets

FACTS == "company_facts"
ANALYSIS == "tender_analysis"
REQUIREMENTS == "requirements"
ANSWERS == "answers"
KB == "kb"

SectionSource == {FACTS, ANALYSIS, REQUIREMENTS, ANSWERS, KB}

section(key, max_words, requires) ==
  [key |-> key, max_words |-> max_words, requires |-> requires]

-----------------------------------------------------------------------------
(* The default plans. *)

PresentationTemplate ==
  [repeat_for |-> "none", sections |-> <<
    section("identite", 200, {FACTS}),
    section("expertises", 250, {FACTS}),
    section("certifications", 150, {FACTS}),
    section("references", 300, {FACTS, ANALYSIS}),
    section("adequation", 250, {FACTS, ANALYSIS, REQUIREMENTS})>>]

LettreCandidatureTemplate ==
  [repeat_for |-> "none", sections |-> <<
    section("objet", 120, {ANALYSIS}),
    section("interet", 150, {ANALYSIS, FACTS}),
    section("adequation", 250, {FACTS, REQUIREMENTS, ANSWERS}),
    section("engagements", 150, {ANALYSIS, REQUIREMENTS})>>]

OffreTechniqueTemplate ==
  [repeat_for |-> "none", sections |-> <<
    section("contexte", 300, {ANALYSIS, KB}),
    section("perimetre", 350, {ANALYSIS, REQUIREMENTS}),
    section("solution", 500, {FACTS, ANALYSIS, KB}),
    section("livrables", 250, {ANALYSIS}),
    section("hypotheses", 200, {ANALYSIS, ANSWERS})>>]

MethodologieTemplate ==
  [repeat_for |-> "none", sections |-> <<
    section("approche", 300, {FACTS, ANALYSIS}),
    section("phases", 400, {ANALYSIS, REQUIREMENTS}),
    section("pilotage", 300, {FACTS, ANALYSIS}),
    section("risques", 300, {ANALYSIS, REQUIREMENTS})>>]

ComprehensionBesoinTemplate ==
  [repeat_for |-> "none", sections |-> <<
    section("reformulation", 300, {ANALYSIS}),
    section("objectifs", 250, {ANALYSIS}),
    section("contraintes", 250, {ANALYSIS, REQUIREMENTS}),
    section("attention", 200, {ANALYSIS, REQUIREMENTS, ANSWERS})>>]

OrganisationPlanningTemplate ==
  [repeat_for |-> "none", sections |-> <<
    section("organisation", 300, {FACTS, ANALYSIS}),
    section("planning", 300, {ANALYSIS, REQUIREMENTS}),
    section("charges", 250, {FACTS, ANALYSIS}),
    section("gouvernance", 200, {FACTS, ANALYSIS})>>]

EquipeTemplate ==
  [repeat_for |-> "none", sections |-> <<
    section("composition", 300, {FACTS, REQUIREMENTS}),
    section("roles", 300, {FACTS, ANALYSIS}),
    section("disponibilite", 200, {FACTS, ANALYSIS})>>]

CvTemplate ==
  [repeat_for |-> "experts", sections |-> <<
    section("profil", 200, {FACTS}),
    section("experiences", 400, {FACTS, ANALYSIS}),
    section("competences", 200, {FACTS}),
    section("certifications", 150, {FACTS, KB})>>]

ReferencesTemplate ==
  [repeat_for |-> "projects", sections |-> <<
    section("client", 200, {FACTS}),
    section("perimetre", 300, {FACTS, KB}),
    section("resultats", 250, {FACTS, KB}),
    section("transposition", 200, {FACTS, ANALYSIS})>>]

DeclarationTemplate ==
  [repeat_for |-> "none", sections |-> <<
    section("identification", 200, {FACTS}),
    section("declarations", 400, {ANALYSIS, REQUIREMENTS, ANSWERS}),
    section("signature", 100, {FACTS})>>]

DEFAULT_TEMPLATES ==
  [presentation |-> PresentationTemplate,
   lettre_candidature |-> LettreCandidatureTemplate,
   offre_technique |-> OffreTechniqueTemplate,
   methodologie |-> MethodologieTemplate,
   comprehension_besoin |-> ComprehensionBesoinTemplate,
   organisation_planning |-> OrganisationPlanningTemplate,
   equipe |-> EquipeTemplate,
   cv |-> CvTemplate,
   references |-> ReferencesTemplate,
   declaration |-> DeclarationTemplate]

DocumentType == DOMAIN DEFAULT_TEMPLATES

-----------------------------------------------------------------------------
(* What a stored plan must be. *)

section_keys(sections) == [i \in DOMAIN sections |-> sections[i].key]

MAX_WORDS_RANGE == 50 .. 2000

\* The validators of SectionSpec, TemplateIn and TemplateUpdate, which
\* TemplateOut applies again to what it reads.
ValidPlan(sections) ==
  /\ sections # << >>
  /\ \A i, j \in DOMAIN sections : sections[i].key = sections[j].key => i = j
  /\ \A i \in DOMAIN sections :
       /\ sections[i].max_words \in MAX_WORDS_RANGE
       /\ sections[i].requires # {} /\ sections[i].requires \subseteq SectionSource

-----------------------------------------------------------------------------
(* The seeding.  A table is a function from the types that have a template. *)

\* seed_templates: the types that have no template get the default one.
Seeded(table) ==
  [t \in DOMAIN table \union DocumentType |->
     IF t \in DOMAIN table THEN table[t] ELSE DEFAULT_TEMPLATES[t].sections]

\* The plan of every default template passes the validation a user's plan
\* goes through: seeding writes it without, and reading it back applies it
\* (templates.py:418, schemas/template.py:75).
ASSUME DefaultPlansAreValid ==
  \A t \in DocumentType :
    /\ ValidPlan(DEFAULT_TEMPLATES[t].sections)
    /\ DEFAULT_TEMPLATES[t].repeat_for \in {"none", "experts", "projects"}

\* Seeding can be repeated, and leaves a plan the user has made as it is
\* (templates.py:9-10), whichever types have one.
ASSUME SeedingIsRepeatable ==
  \A types \in SUBSET {"cv", "equipe", "references"} :
    LET table == [t \in types |-> <<section("own", 100, {KB})>>]
    IN  /\ \A t \in types : Seeded(table)[t] = table[t]
        /\ DOMAIN Seeded(table) = DocumentType
        /\ Seeded(Seeded(table)) = Seeded(table)
=============================================================================
