---------------------------- MODULE MCTenderDossier ----------------------------
(***************************************************************************)
(* TenderDossier for TLC: two notices of one tender, the second of which   *)
(* tells more, and two readings of its pieces, one of which disagrees.     *)
(***************************************************************************)
EXTENDS TenderDossier

MCAlike == {<<"sig", "systemes d information geographique">>}

MCNotices ==
  {[deadline |-> {}, reference |-> "", urls |-> {"rc"}, technologies |-> {"java"},
    required_certifications |-> {}],
   [deadline |-> {10}, reference |-> "ao12", urls |-> {"rc", "cctp"}, technologies |-> {"java", "sig"},
    required_certifications |-> {"iso9001", "cmmi"}]}

MCReadings == {[name |-> "first", deadline |-> {12}, reference |-> "ao12 bis"],
               [name |-> "second", deadline |-> {}, reference |-> ""]}

MCCompany ==
  [sectors |-> {"eau"}, technologies |-> {"systemes d information geographique"},
   skills |-> {"cartographie", "formation"}, country |-> "MA",
   projects |-> {[title |-> "reseau", sector |-> "eau"]},
   certifications |-> {[name |-> "iso9001", is_valid |-> TRUE], [name |-> "cmmi", is_valid |-> FALSE]}]

MCProfile == [keywords |-> {"forage"}, countries |-> {"MA", "SN"}, budget_min |-> {100}, budget_max |-> {}]

MCText == [sector |-> "transport", text |-> {"eau", "forage", "cartographie"}, country |-> "SN",
           budget_min |-> {50}, budget_max |-> {0}]

\* More than a model may take off.
MCAdjustments == {-150}

\* Of the URLs announced together, one order is followed.  A third piece comes
\* before the first reading.  Once sessions have overlapped only the pieces are
\* in question, and one is enough.
FewPieces ==
  /\ pieces[1].source_url = "rc"
  /\ Len(pieces) = MaxPieces => analysis = "none"
  /\ overlapped => Len(pieces) = 1 /\ score = {} /\ analysis = "none"

SessionSymmetry == Permutations(Sessions)
=============================================================================
