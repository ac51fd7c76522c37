-------------------------------- MODULE Scoring --------------------------------
(***************************************************************************)
(* The score of a tender (engine 1.0): eight criteria, each out of 100,    *)
(* weighted to 100, and the bounded adjustment that a model may make.      *)
(*                                                                         *)
(* A score is counted in tenths, the precision it is rounded to: 1000 is   *)
(* full marks.  Labels are compared by the relation Alike, a text is the   *)
(* set of the labels it mentions, and a value that may be missing is a set *)
(* of at most one.  A tender without a search profile has an empty one.    *)
(* The reasons given beside a sub-score are left out.                      *)
(***************************************************************************)
EXTENDS Integers, FiniteSets

CONSTANT Alike  \* the pairs of unequal labels that compare as equal

\* x, brought between low and high.
Clamped(x, low, high) == IF x < low THEN low ELSE IF x > high THEN high ELSE x

\* Full marks.
Full == 1000

WEIGHTS == [sector |-> 20, technologies |-> 15, skills |-> 15, country |-> 10,
            budget |-> 10, experience |-> 15, certifications |-> 5, eligibility |-> 10]

-----------------------------------------------------------------------------
(* Comparisons. *)

similar(a, b) == a # "" /\ b # "" /\ (a = b \/ <<a, b>> \in Alike \/ <<b, a>> \in Alike)

_find(wanted, pool) == \E label \in pool : similar(wanted, label)

\* What one finds of `wanted` in `pool`.
Matched(wanted, pool) == {label \in wanted : _find(label, pool)}

\* The share of the labels that match, rounded (no tie below 16 labels).
Share(matched, wanted) ==
  (2 * Full * Cardinality(matched) + Cardinality(wanted)) \div (2 * Cardinality(wanted))

-----------------------------------------------------------------------------
(* The criteria. *)

score_sector(tender, company, profile) ==
  IF _find(tender.sector, company.sectors) THEN Full
  ELSE IF profile.keywords \intersect tender.text # {} THEN 500 ELSE 0

score_technologies(tender, company) ==
  IF tender.technologies = {} THEN 600
  ELSE Share(Matched(tender.technologies, company.technologies), tender.technologies)

\* A quarter for each skill that the tender mentions.
score_skills(tender, company) ==
  LET quarters == Cardinality(company.skills \intersect tender.text)
  IN  IF quarters >= 4 THEN Full ELSE 250 * quarters

score_country(tender, company, profile) ==
  IF tender.country = "" THEN 300
  ELSE IF tender.country = company.country THEN Full
  ELSE IF tender.country \in profile.countries THEN 700 ELSE 0

\* A highest budget of 0 counts as missing.
score_budget(tender, profile) ==
  LET amounts == IF tender.budget_max \in {{}, {0}} THEN tender.budget_min ELSE tender.budget_max
      bounds == profile.budget_min \union profile.budget_max
  IN  IF amounts = {} \/ bounds = {} THEN 500
      ELSE IF \A a \in amounts : /\ \A low \in profile.budget_min : a >= low
                                 /\ \A high \in profile.budget_max : a <= high
      THEN Full ELSE 200

\* The projects done in the tender's sector, or in one that it mentions.
score_experience(tender, company) ==
  LET done == {p \in company.projects : p.sector # "" /\
                 (similar(p.sector, tender.sector) \/ p.sector \in tender.text)}
  IN  <<0, 500, 750, Full>>[IF Cardinality(done) >= 3 THEN 4 ELSE Cardinality(done) + 1]

\* A certification that has expired does not count.
score_certifications(tender, company) ==
  LET required == tender.required_certifications
  IN  IF required = {} THEN Full
      ELSE Share(Matched(required, {c.name : c \in {d \in company.certifications : d.is_valid}}), required)

\* The share of the requirements that are met, a number out of 1000 already.
score_eligibility(eligibility) ==
  IF eligibility = {} THEN 500 ELSE Clamped(CHOOSE ratio \in eligibility : TRUE, 0, Full)

-----------------------------------------------------------------------------
(* The total. *)

breakdown(tender, company, profile) ==
  [sector |-> score_sector(tender, company, profile),
   technologies |-> score_technologies(tender, company),
   skills |-> score_skills(tender, company),
   country |-> score_country(tender, company, profile),
   budget |-> score_budget(tender, profile),
   experience |-> score_experience(tender, company),
   certifications |-> score_certifications(tender, company),
   eligibility |-> score_eligibility(tender.eligibility)]

Weighted(b) ==
  WEIGHTS.sector * b.sector + WEIGHTS.technologies * b.technologies
    + WEIGHTS.skills * b.skills + WEIGHTS.country * b.country
    + WEIGHTS.budget * b.budget + WEIGHTS.experience * b.experience
    + WEIGHTS.certifications * b.certifications + WEIGHTS.eligibility * b.eligibility

\* compute_score: the weighted mean, rounded; which way a tie goes depends on
\* the floating-point form of the sum.
Totals(b) == {t \in 0 .. Full : 100 * t - Weighted(b) \in -50 .. 50}

MAX_ADJUSTMENT == 100

\* The total that is stored, whatever the model asks for.
Adjusted(total, adjustment) ==
  Clamped(total + Clamped(adjustment, - MAX_ADJUSTMENT, MAX_ADJUSTMENT), 0, Full)
=============================================================================
