------------------------------ MODULE Extraction ------------------------------
(***************************************************************************)
(* What can be read of a file: one document, or one for each file of an    *)
(* archive.  A document is the sequence of its pages and a page the        *)
(* sequence of its paragraphs, as Chunking takes them.                     *)
(*                                                                         *)
(* A file tells its mime type, and what the library that opens it finds:   *)
(*   - opens: can it be opened at all?  encrypted: does it need a password?*)
(*   - pages: the paragraphs of each page, or the rows of each sheet       *)
(*   - members: the entries of an archive, [kind, oversized, file]         *)
(*   - breaks: does its reading end on an exception nobody expects (a      *)
(*     sheet that is damaged, an entry that needs a password)?             *)
(***************************************************************************)
EXTENDS Naturals, Sequences, SequencesExt

MAX_SHEET_ROWS == 2000
MAX_ZIP_DEPTH == 1
MIMES == {"pdf", "docx", "xlsx", "txt", "zip"}

\* How a reading ends: the documents, an ExtractionError, or something else.
Read(documents) == [outcome |-> "read", documents |-> documents]
ExtractionError == [outcome |-> "failed", documents |-> << >>]
Breaks == [outcome |-> "breaks", documents |-> << >>]

\* A scan has pages, and no text.
extract_pdf(file) ==
  IF ~ file.opens \/ file.encrypted \/ \A i \in DOMAIN file.pages : file.pages[i] = << >>
  THEN ExtractionError ELSE Read(<<file.pages>>)

\* The paragraphs and the tables make one page, which may be empty.
extract_docx(file) == IF file.opens THEN Read(<<file.pages>>) ELSE ExtractionError

extract_xlsx(file) ==
  IF ~ file.opens THEN ExtractionError
  ELSE IF file.breaks THEN Breaks
  ELSE Read(<<[i \in DOMAIN file.pages |->
                SubSeq(file.pages[i], 1, IF Len(file.pages[i]) < MAX_SHEET_ROWS THEN Len(file.pages[i])
                                         ELSE MAX_SHEET_ROWS)]>>)

extract_txt(file) == Read(<<file.pages>>)

_extract_one(file) ==
  CASE file.mime = "pdf" -> extract_pdf(file)
    [] file.mime = "docx" -> extract_docx(file)
    [] file.mime = "xlsx" -> extract_xlsx(file)
    [] file.mime = "txt" -> extract_txt(file)
    [] OTHER -> ExtractionError

\* The members that are read.  Directories are passed over, and what is of no
\* known type, too big, or an archive too deep, is skipped.
Chosen(members, depth) ==
  SelectSeq(members, LAMBDA m :
    /\ m.kind = "file" /\ m.file.mime \in MIMES /\ ~ m.oversized
    /\ m.file.mime = "zip" => depth < MAX_ZIP_DEPTH)

\* An archive whose files are read by Inner.  A file that cannot be read is
\* left out; a path that leads out of the archive condemns the others.
Archive(archive, depth, Inner(_)) ==
  LET suspicious == SelectInSeq(archive.members, LAMBDA m : m.kind = "suspicious")
      members == IF suspicious = 0 THEN archive.members ELSE SubSeq(archive.members, 1, suspicious - 1)
      readings == [i \in DOMAIN Chosen(members, depth) |-> Inner(Chosen(members, depth)[i].file)]
      documents == FlattenSeq([i \in DOMAIN readings |-> readings[i].documents])
  IN  IF ~ archive.opens THEN ExtractionError
      ELSE IF \E i \in DOMAIN readings : readings[i].outcome = "breaks" THEN Breaks
      ELSE IF suspicious # 0 \/ documents = << >> THEN ExtractionError
      ELSE Read(documents)

extract_zip(file) ==
  LET Member(f) == IF f.breaks THEN Breaks ELSE _extract_one(f)
      Inner(f) == IF f.mime = "zip" /\ ~ f.breaks THEN Archive(f, 1, Member) ELSE Member(f)
  IN  Archive(file, 0, Inner)

extract(file) == IF file.mime = "zip" THEN extract_zip(file) ELSE _extract_one(file)
=============================================================================
