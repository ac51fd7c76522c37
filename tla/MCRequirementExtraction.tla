------------------------ MODULE MCRequirementExtraction ------------------------
(***************************************************************************)
(* RequirementExtraction for TLC: two documents that share a requirement   *)
(* and disagree on whether it is mandatory.                                *)
(***************************************************************************)
EXTENDS RequirementExtraction, TLC

CONSTANTS cnss, iso, java   \* descriptions

Item(description, is_mandatory) == [description |-> description, is_mandatory |-> is_mandatory]

TwoDocuments == << <<Item(cnss, TRUE), Item(iso, FALSE)>>,
                   <<Item(java, FALSE), Item(iso, TRUE)>> >>

Categories == (cnss :> "ADM") @@ (iso :> "TECH") @@ (java :> "TECH")

TransactionSymmetry == Permutations(Transactions)

\* Transactions that overlap are followed as long as few rows were inserted.
FewRows == raced => inserted <= 3
=============================================================================
