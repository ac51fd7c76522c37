--------------------------- MODULE MCDocumentLibrary ---------------------------
(***************************************************************************)
(* DocumentLibrary for TLC.                                                *)
(***************************************************************************)
EXTENDS DocumentLibrary, TLC

\* No date, the first day, the second one.
MCExpiries == {{}, {0}, {1}}

\* Files, categories and requests are interchangeable.
LibrarySymmetry == Permutations(Contents) \union Permutations(Categories) \union Permutations(Sessions)

\* The properties are about requests that have not met anything: the states
\* that come after the first meeting are not explored further.
NotLongOverlapped == overlapped => today <= 1 /\ Len(docs) <= 1
=============================================================================
