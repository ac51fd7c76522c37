------------------------------- MODULE Chunking -------------------------------
(***************************************************************************)
(* The text of a document cut into chunks: at the paragraphs first, then   *)
(* at the sentences, then at the words.  A chunk begins with the end of    *)
(* the one before it on the same page, when there is room.                 *)
(*                                                                         *)
(* A text is a sequence of words, with one character between them: a word  *)
(* tells its length, and whether this character is a new line (nl).  A     *)
(* paragraph is a sequence of sentences, and tells the section it is the   *)
(* title of, if it looks like one.  A page is a sequence of paragraphs.    *)
(***************************************************************************)
EXTENDS Integers, Sequences, SequencesExt

Word == [length : Nat, nl : BOOLEAN]

\* What is between two new lines, and not blank.
Paragraph == [title : STRING, sentences : Seq(Seq(Word) \ {<< >>}) \ {<< >>}]

\* The pages of a document.
Text == Seq(Seq(Paragraph))

\* There is one character between two words.
LengthOf(words) ==
  LET length[n \in 0 .. Len(words)] ==
        IF n = 0 THEN 0 ELSE length[n - 1] + words[n].length + (IF n = 1 THEN 0 ELSE 1)
  IN  length[Len(words)]

\* One more word, in the last piece if there is room.
Packed(pieces, word, max_chars) ==
  IF pieces # << >> /\ LengthOf(Append(Last(pieces), word)) <= max_chars
  THEN Append(Front(pieces), Append(Last(pieces), word)) ELSE Append(pieces, <<word>>)

\* A text too long is cut between words; a word is never cut.
_split_long(words, max_chars) ==
  LET pieces[n \in 0 .. Len(words)] ==
        IF n = 0 THEN << >> ELSE Packed(pieces[n - 1], words[n], max_chars)
  IN  pieces[Len(words)]

\* A sentence, whole if it can be.
Parts(sentence, max_chars) ==
  IF LengthOf(sentence) <= max_chars THEN <<sentence>> ELSE _split_long(sentence, max_chars)

_units(paragraph, max_chars) ==
  LET whole == FlattenSeq(paragraph.sentences)
  IN  IF LengthOf(whole) <= max_chars THEN <<whole>>
      ELSE FlattenSeq([i \in DOMAIN paragraph.sentences |-> Parts(paragraph.sentences[i], max_chars)])

\* The end of a text: its last `overlap` characters, from their first space
\* on.  Without a space, a word may be cut.
_tail(words, overlap) ==
  LET Rest(i) == SubSeq(words, i, Len(words))
      First(I) == CHOOSE i \in I : \A j \in I : i <= j
      spaced == {i \in DOMAIN words : ~ words[i].nl /\ LengthOf(Rest(i)) < overlap}
      whole == {i \in DOMAIN words : LengthOf(Rest(i)) <= overlap}
      next == IF whole = {} THEN Len(words) + 1 ELSE First(whole)
      left == overlap - LengthOf(Rest(next)) - (IF whole = {} THEN 0 ELSE 1)
  IN  IF overlap <= 0 THEN << >>
      ELSE IF LengthOf(words) <= overlap THEN words
      ELSE IF spaced # {} THEN Rest(First(spaced))
      ELSE IF left < 0 THEN Rest(next)
      ELSE <<[words[next - 1] EXCEPT !.length = left]>> \o Rest(next)

-----------------------------------------------------------------------------
\* A chunk in the making; its first words are carried from the one before.
_Buffer(page, section) == [page |-> page, section |-> section, words |-> << >>, carried |-> 0]

\* A unit begins on a new line.
add(buffer, unit) ==
  [buffer EXCEPT !.words = @ \o [i \in DOMAIN unit |-> [unit[i] EXCEPT !.nl = @ \/ i = 1]]]

fits(buffer, unit, max_chars) ==
  buffer.words = << >> \/ LengthOf(buffer.words) + LengthOf(unit) + 1 <= max_chars

emit(chunks, buffer) == IF buffer.words = << >> THEN chunks ELSE Append(chunks, buffer)

\* The next buffer, with the end of the full one if the unit still fits.
Carry(full, unit, max_chars, overlap) ==
  LET empty == _Buffer(full.page, full.section)
      carry == _tail(full.words, overlap)
  IN  IF carry # << >> /\ LengthOf(carry) + 1 + LengthOf(unit) <= max_chars
      THEN [add(empty, carry) EXCEPT !.carried = Len(carry)] ELSE empty

\* A document that is being cut is [chunks, section, buffer].
AddUnit(s, unit, max_chars, overlap) ==
  IF fits(s.buffer, unit, max_chars) THEN [s EXCEPT !.buffer = add(@, unit)]
  ELSE [s EXCEPT !.chunks = emit(@, s.buffer),
                 !.buffer = add(Carry(@, unit, max_chars, overlap), unit)]

\* A new title opens a new chunk.
AddTitle(s, title) ==
  IF title = "" THEN s
  ELSE [chunks |-> emit(s.chunks, s.buffer), section |-> title, buffer |-> _Buffer(s.buffer.page, title)]

AddParagraph(s, paragraph, max_chars, overlap) ==
  LET units == _units(paragraph, max_chars)
      t[n \in 0 .. Len(units)] ==
        IF n = 0 THEN AddTitle(s, paragraph.title) ELSE AddUnit(t[n - 1], units[n], max_chars, overlap)
  IN  t[Len(units)]

AddPage(s, number, page, max_chars, overlap) ==
  LET t[n \in 0 .. Len(page)] ==
        IF n = 0 THEN [s EXCEPT !.buffer = _Buffer(number, s.section)]
        ELSE AddParagraph(t[n - 1], page[n], max_chars, overlap)
      last == t[Len(page)]
  IN  [last EXCEPT !.chunks = emit(@, last.buffer)]

\* The chunks of the pages of one document.
chunk_pages(pages, max_chars, overlap) ==
  LET t[n \in 0 .. Len(pages)] ==
        IF n = 0 THEN [chunks |-> << >>, section |-> "", buffer |-> _Buffer(0, "")]
        ELSE AddPage(t[n - 1], n, pages[n], max_chars, overlap)
  IN  t[Len(pages)].chunks

-----------------------------------------------------------------------------
(* What is expected of it. *)

Plain(words) == [i \in DOMAIN words |-> [words[i] EXCEPT !.nl = FALSE]]

WordsOf(page) == FlattenSeq([i \in DOMAIN page |-> FlattenSeq(page[i].sentences)])

Own(chunk) == SubSeq(chunk.words, chunk.carried + 1, Len(chunk.words))

\* What the chunks of a page add to it, one after the other.
AddedTo(n, chunks) ==
  FlattenSeq([i \in DOMAIN chunks |-> IF chunks[i].page = n THEN Own(chunks[i]) ELSE << >>])

\* The chunks of a page hold each of its words once and in order, apart from
\* what they carry; they are not longer than the limit, or are one word; and
\* what they carry is not longer than the overlap, and comes from a chunk of
\* the same page and section.
WholeText(chunks, pages, max_chars, overlap) ==
  /\ \A n \in DOMAIN pages : Plain(AddedTo(n, chunks)) = Plain(WordsOf(pages[n]))
  /\ \A i \in DOMAIN chunks :
       LET c == chunks[i]
       IN  /\ c.page \in DOMAIN pages
           /\ LengthOf(c.words) <= max_chars \/ Len(c.words) = 1
           /\ LengthOf(SubSeq(c.words, 1, c.carried)) <= overlap
           /\ c.carried > 0 => i > 1 /\ chunks[i - 1].page = c.page /\ chunks[i - 1].section = c.section
=============================================================================
