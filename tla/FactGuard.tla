------------------------------- MODULE FactGuard -------------------------------
(***************************************************************************)
(* The guard against invention: it reads a text and reports what the facts *)
(* of the company do not support.                                          *)
(*                                                                         *)
(* A text is the sequence of the claims the guard's patterns find in it:   *)
(* the certifications, the years of experience and the organisations it    *)
(* names.  Two certifications are one when they are written alike but for  *)
(* case and separators; organisations are compared by resemblance, which   *)
(* is not transitive.                                                      *)
(***************************************************************************)
EXTENDS Naturals, Sequences, FiniteSets, SequencesExt, FiniteSetsExt

CONSTANT Alike  \* the pairs of names that resemble each other

Claims(kind, text) == SelectSeq(text, LAMBDA claim : claim.kind = kind)

\* _mentions
Mentions(name, known) == \E k \in known : name = k \/ <<name, k>> \in Alike

\* Names one by one: a name like one seen before is passed over, the others
\* are reported unless they are known.
Unknown(claims, Like(_, _), known) ==
  FoldLeft(LAMBDA acc, claim :
             IF Like(claim.name, acc.seen) THEN acc
             ELSE [seen |-> acc.seen \union {claim.name},
                   warned |-> acc.warned \union IF Like(claim.name, known) THEN {} ELSE {claim}],
           [seen |-> {}, warned |-> {}], claims).warned

_certifications(text, facts) ==
  Unknown(Claims("certification", text), LAMBDA name, names : name \in names, facts.certifications)

\* The longest experience that is recorded; 0 when none is.
Best(facts) == Max(facts.years \union {0})

_experience(text, facts) ==
  {claim \in Range(Claims("years", text)) : Best(facts) # 0 /\ claim.name > Best(facts)}

_clients(text, facts) == Unknown(Claims("organisation", text), Mentions, facts.known)

\* FactGuard.check
check(text, facts) ==
  _certifications(text, facts) \union _experience(text, facts) \union _clients(text, facts)
=============================================================================
