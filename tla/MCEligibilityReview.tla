-------------------------- MODULE MCEligibilityReview --------------------------
(***************************************************************************)
(* EligibilityReview for TLC.                                              *)
(***************************************************************************)
EXTENDS EligibilityReview, TLC

\* Sessions are interchangeable, and so are requirements.
ReviewSymmetry == Permutations(Sessions) \union Permutations(Reqs)

\* A second question about a requirement matters as long as nothing went wrong.
FewQuestions == overlapped \/ failed => \A q \in Reqs : Len(questions[q]) <= 1

-----------------------------------------------------------------------------
Requirement(category) ==
  [category |-> category, description |-> category, words |-> {"cnss"}, needed |-> {}]

\* So many projects must have been carried out.
Projects(number) ==
  [Requirement("experience") EXCEPT !.needed = {[unit |-> "projects", number |-> number]}]

\* One requirement for each way to be judged: by a document, by the
\* technologies of the tender or of the company, by the team, by the projects,
\* and by hand.
MCRequirements ==
  {Requirement("administrative"), Requirement("technique"), Requirement("equipe"), Requirement("methodologie"),
   [Requirement("technique") EXCEPT !.description = "logiciel"], Projects(0), Projects(1)}

MCMentioned == {<<"java", "technique">>, <<"java", "java ee">>, <<"java ee", "logiciel">>, <<"chef", "equipe">>}

MCDossier == [technologies |-> {"java"}, sector |-> ""]

Empty == [certifications |-> {}, technologies |-> {}, skills |-> {}, experts |-> {}, projects |-> {}, documents |-> {}]

Cnss(usable) == [category |-> "attestation", words |-> {"cnss"}, is_usable |-> usable, indexed |-> TRUE]

\* A company that has nothing, and one with a technology under another name
\* than the requirement's, a team, a project, and a document that is out of
\* date or not.
MCCompanies ==
  {Empty} \union {[Empty EXCEPT !.technologies = {"java ee"}, !.experts = {[role |-> "chef", years |-> 5]},
                                !.projects = {[sector |-> "banque"]},
                                !.documents = {Cnss(usable)}] : usable \in BOOLEAN}

\* The model claims a compliance, with or without proof.
MCVerdicts == {[status |-> "CONFORME", refs |-> {}], [status |-> "CONFORME", refs |-> {1}]}

MCAnswerTexts == {{"yes"}, {"no"}}
=============================================================================
