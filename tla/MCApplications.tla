---------------------------- MODULE MCApplications ----------------------------
(***************************************************************************)
(* Applications for TLC: two templates with their default plans, a plan    *)
(* that a user gives in their place, and a text that makes every kind of   *)
(* claim.                                                                  *)
(***************************************************************************)
EXTENDS Applications

MCOwnTemplates ==
  [equipe |-> <<section("composition", 100, {FACTS}), section("signature", 100, {FACTS})>>,
   declaration |-> <<section("signature", 100, {FACTS})>>]

MCUserPlans == [equipe |-> {<<section("signature", 100, {FACTS})>>}, declaration |-> {}]

MCWishes == {{"equipe"}, {"equipe", "declaration"}}

MCFacts == [certifications |-> {"iso9001"}, years |-> {5, 12}, known |-> {"commune de sale"}]

\* A claim of each kind that the facts support, and one that they do not;
\* the last organisation is spelt like the one before it.
MCWritings ==
  {<<[kind |-> "certification", name |-> "iso9001"], [kind |-> "certification", name |-> "cmmi"],
     [kind |-> "years", name |-> 12], [kind |-> "years", name |-> 20],
     [kind |-> "organisation", name |-> "la commune de sale"],
     [kind |-> "organisation", name |-> "office des ports"],
     [kind |-> "organisation", name |-> "ports"]>>}

MCAlike == {<<"la commune de sale", "commune de sale">>, <<"ports", "office des ports">>}

\* Two documents are written once each and not exported, the declaration
\* being the second; one is written twice.  Once sessions have overlapped, one
\* document is followed, to its first version and with the plan it began with:
\* only what holds however they overlap is still in question.  Deaths and
\* overlaps come apart.
FewGenerations ==
  /\ Len(docs) = 2 => /\ docs[2].template # "equipe"
                     /\ files = None /\ \A d \in Docs : docs[d].version <= 1
  /\ overlapped => /\ \A t \in Types : t \in DOMAIN templates /\ templates[t] = MCOwnTemplates[t]
                   /\ Len(docs) <= 1 /\ \A d \in Docs : docs[d].version <= 1
                   /\ ~ killed
=============================================================================
