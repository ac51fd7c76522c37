---------------------------- MODULE MCDocumentIndex ----------------------------
(***************************************************************************)
(* DocumentIndex for TLC.                                                  *)
(***************************************************************************)
EXTENDS DocumentIndex, TLC

\* Requests are interchangeable.
IndexSymmetry == Permutations(Requests)

-----------------------------------------------------------------------------
(* Files. *)

MCWord(length) == [length |-> length, nl |-> FALSE]

\* A paragraph of one sentence or two, and the title of a section.
MCParagraph(lengths) == [title |-> "", sentences |-> [i \in DOMAIN lengths |-> [j \in DOMAIN lengths[i] |-> MCWord(lengths[i][j])]]]
MCTitle(name) == [title |-> name, sentences |-> <<<<MCWord(3)>>>>]

File(mime, pages, members) ==
  [mime |-> mime, opens |-> TRUE, encrypted |-> FALSE, breaks |-> FALSE, pages |-> pages, members |-> members]

Letter == File("pdf", <<<<MCParagraph(<<<<2, 3>>, <<4, 4>>>>), MCTitle("A"), MCParagraph(<<<<9, 1, 1, 1>>>>)>>, << >>>>, << >>)

Member(file) == [kind |-> "file", oversized |-> FALSE, file |-> file]

\* A letter, in an archive with a scan and an archive that leads out of itself.
Bundle ==
  File("zip", << >>,
    <<[kind |-> "directory"], Member(File("pdf", <<<< >>>>, << >>)),
      Member(File("zip", << >>, <<Member(Letter), [kind |-> "suspicious"]>>)), Member(Letter)>>)

MCFileOf == [bundle |-> Bundle, blank |-> File("docx", <<<< >>>>, << >>)]

MCReading == [c \in Contents |-> _extract(c)]
MCPieces == [c \in Contents |-> _build_chunks(MCReading[c].documents)]

-----------------------------------------------------------------------------
\* Every text of one sentence or two, cut in every way.
ASSUME EveryTextIsWhole ==
  LET Lengths == UNION {[1 .. n -> {1, 3, 7}] : n \in 1 .. 2}
      Texts == {<<<<MCParagraph(<<s>>), q>>>> : s \in Lengths, q \in {MCParagraph(<<t>>) : t \in Lengths} \union {MCTitle("B")}}
                 \union {<<<<MCParagraph(<<s, t>>)>>, <<MCParagraph(<<t>>)>>>> : s, t \in Lengths}
  IN  \A pages \in Texts, max_chars \in {5, 8}, overlap \in {0, 2, 4} :
        pages \in Text /\ WholeText(chunk_pages(pages, max_chars, overlap), pages, max_chars, overlap)
=============================================================================
