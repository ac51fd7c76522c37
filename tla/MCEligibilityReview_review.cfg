CONSTANTS
  Reqs = {q1}
  Sessions = {s1, s2}
  Mentioned <- MCMentioned
  Requirements <- MCRequirements
  Dossier <- MCDossier
  Companies <- MCCompanies
  Verdicts <- MCVerdicts
  AnswerTexts <- MCAnswerTexts
  HandVerdicts = {"NON_CONFORME"}
  MaxQuestions = 2
SPECIFICATION Spec
CHECK_DEADLOCK FALSE
CONSTRAINT FewQuestions
SYMMETRY ReviewSymmetry
INVARIANTS
  HandPrevails
  AnswerPrevails
  NeverAskedTwice
  SummaryIsCurrent
  ComplianceIsProven
PROPERTY HandIsRemembered
