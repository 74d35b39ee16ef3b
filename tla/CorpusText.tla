----------------------------- MODULE CorpusText -----------------------------
(***************************************************************************)
(* What an uploaded file becomes in a corpus: the one text its citations     *)
(* quote (documents.py), the verbatim spans it is cut into (chunking.py) and  *)
(* the place a reader is told when a span is read back (corpus.py).          *)
(*                                                                           *)
(* A text is a sequence of four characters: "w" of a word, "s" the end of a   *)
(* sentence, "_" a space, "n" a line break.  An offset is Python's: the       *)
(* number of characters before it.  A file is the sequence of things its      *)
(* own program shows, pages, rows, slides, cells, chapters or paragraphs,     *)
(* each with its text; <<>> is a blank one.  A paragraph that is a heading    *)
(* has its level in `levels`.  An approved report is cut by other rules       *)
(* (chunk_report): into pieces that carry their heading along, of which only   *)
(* sizes are kept.                                                           *)
(***************************************************************************)
EXTENDS Integers, FiniteSets, Sequences, SequencesExt, Filtering

CONSTANTS
    Files,    \* what may be uploaded: [kind, items, levels, readable]
    Written,   \* reports: sequences of paragraphs, of lines [head, size]
    Target,   \* TARGET_CHARS
    Overlap,  \* OVERLAP_CHARS
    Runt      \* MIN_CHARS

Letters == {"w", "s", "_", "n"}

\* An outline level of 0 is no heading's.
ASSUME TextAssumption ==
    /\ Target \in Nat \ {0, 1} /\ Overlap \in Nat /\ Runt \in Nat
    /\ \A f \in Files : /\ f.items \in Seq(Seq(Letters))
                        /\ f.levels \in Seq(Nat) /\ Len(f.levels) = Len(f.items)
    /\ Written \subseteq Seq(Seq([head : BOOLEAN, size : Nat]))

VARIABLES
    upload, \* the file
    doc,    \* its extraction: text, where its parts begin, and the name of each
    spans,  \* the chunks so far: [start, end]
    from,   \* where the next one is sought, or -1 at the end
    cited,  \* <<>>, or <<a chunk that was read back>>
    draft,  \* the report, as paragraphs of lines
    dealt,  \* how many of its blocks are dealt with
    open,   \* the chunk being filled: its size and the lines in it
    notes   \* the chunks of the report

textVars   == <<upload, doc, spans, from, cited>>
reportVars == <<draft, dealt, open, notes>>

-----------------------------------------------------------------------------
(* Extraction *)

Space(c)  == c \in {"_", "n"}
Empty(t)  == \A i \in DOMAIN t : Space(t[i])
Break     == <<"n">>
TwoBreaks == <<"n", "n">>
Heading   == <<"w">>            \* "## Slide 3", "Row 14 - "
Line(t)   == Heading \o <<"_">> \o t

\* Each item under the number its own program gives it.
Numbered(items) == [i \in DOMAIN items |-> [of |-> i, name |-> i, text |-> items[i]]]

\* The same with blank ones left out, and counted or not.
Filled(parts)   == Among(parts, {p \in ToSet(parts) : ~Empty(p.text)})
Recounted(rows) == [i \in DOMAIN rows |-> [rows[i] EXCEPT !.name = i]]
Lines(rows)     == [i \in DOMAIN rows |-> [rows[i] EXCEPT !.text = Line(@)]]

\* Pages as the parser gives them, broken ones as empty.
PdfParts(items) == Numbered(items)

\* The first row is the header, written into each of the others.
TableParts(items) ==
    LET rows == Recounted(Filled(Numbered(items))) IN IF rows = <<>> THEN <<>> ELSE Lines(Tail(rows))

\* Mutant: numbered after the blank rows are gone.
SheetPartsRecounted(items) ==
    LET rows == Recounted(Filled(Numbered(items)))
    IN  IF rows = <<>> THEN <<>> ELSE <<[of |-> 0, name |-> 0, text |-> Heading]>> \o Lines(Tail(rows))

\* A sheet's heading, and the sheet's own row numbers.
SheetParts(items) ==
    LET rows == Filled(Numbered(items))
    IN  IF rows = <<>> THEN <<>> ELSE <<[of |-> 0, name |-> 0, text |-> Heading]>> \o Lines(Tail(rows))

\* A table of a Word document: its first row is the header, blank or not.
WordTableParts(items) == IF items = <<>> THEN <<>> ELSE Lines(Filled(Tail(Numbered(items))))

\* Every slide and every cell has a heading, whatever it holds.
SlideParts(items) ==
    IF \A i \in DOMAIN items : Empty(items[i]) THEN <<>> ELSE Lines(Numbered(items))
CellParts(items) == Lines(Numbered(items))

\* A chapter without text adds nothing and keeps its place in the spine.
ChapterParts(items) == Filled(Numbered(items))

\* path[: level - 1] + [text], as the numbers of the headings: the path so far,
\* after each part.
Upto(path, n) == SubSeq(path, 1, IF n < Len(path) THEN n ELSE Len(path))
HeadingPaths(said) ==
    LET path[i \in 0 .. Len(said)] ==
          IF i = 0 THEN <<>>
          ELSE IF said[i].name = 0 THEN path[i - 1]
          ELSE Append(Upto(path[i - 1], said[i].name - 1), said[i].of)
    IN  path

\* A paragraph stands under the path so far.
Outlined(items, levels) == Filled([i \in DOMAIN items |-> [of |-> i, name |-> levels[i], text |-> items[i]]])
OutlineParts(items, levels) ==
    LET said == Outlined(items, levels)
    IN  [i \in DOMAIN said |-> [said[i] EXCEPT !.name = HeadingPaths(said)[i]]]

\* The lines of a page that hold something; and files that are their own text.
HtmlParts(items)  == Filled(Numbered(items))
PlainParts(items) == Numbered(items)

Parts(f) ==
    CASE f.kind = "pdf"   -> PdfParts(f.items)
      [] f.kind = "csv"   -> TableParts(f.items)
      [] f.kind = "sheet" -> SheetParts(f.items)
      [] f.kind = "docx"  -> WordTableParts(f.items)
      [] f.kind = "pptx"  -> SlideParts(f.items)
      [] f.kind = "ipynb" -> CellParts(f.items)
      [] f.kind = "epub"  -> ChapterParts(f.items)
      [] f.kind = "html"  -> HtmlParts(f.items)
      [] f.kind = "odt"   -> OutlineParts(f.items, f.levels)
      [] OTHER            -> PlainParts(f.items)

Between(f) == IF f.kind \in {"pptx", "ipynb", "epub"} THEN TwoBreaks ELSE Break

Joined(parts, sep) ==
    FlattenSeq([i \in DOMAIN parts |-> IF i = 1 THEN parts[i].text ELSE sep \o parts[i].text])

\* Where each part begins: offset += len(text) + 1.
Offsets(parts, sep) ==
    LET offset[n \in 0 .. Len(parts)] ==
          IF n = 0 THEN 0 ELSE offset[n - 1] + Len(parts[n].text) + Len(sep)
    IN  [i \in DOMAIN parts |-> offset[i - 1]]

\* Pages, and the formats that keep segments; the others have offsets alone.
Located(f) == f.kind \notin {"html", "txt", "code"}

Extract(f) ==
    LET parts == Parts(f)
        at    == Offsets(parts, Between(f))
    IN  [text  |-> Joined(parts, Between(f)),
         parts |-> IF Located(f) THEN [i \in DOMAIN parts |-> [start |-> at[i], of |-> parts[i].of, name |-> parts[i].name]]
                   ELSE <<>>]

\* Too large, encrypted, unreadable, or without text.
Refused(f) == ~f.readable \/ Empty(Extract(f).text)

-----------------------------------------------------------------------------
(* Chunks *)

Text      == doc.text
Length    == Len(Text)
CharAt(o)     == Text[o + 1]
Largest(S)  == CHOOSE x \in S : \A y \in S : y <= x
Smallest(S) == CHOOSE x \in S : \A y \in S : x <= y

\* The runs of white space, as [s, e).
Gaps ==
    {g \in (0 .. Length) \X (0 .. Length) :
        /\ g[1] < g[2]
        /\ \A o \in g[1] .. (g[2] - 1) : Space(CharAt(o))
        /\ g[1] = 0 \/ ~Space(CharAt(g[1] - 1))
        /\ g[2] = Length \/ ~Space(CharAt(g[2]))}

\* Where a piece may begin: after the white space that ends a sentence, and after
\* the last of two or more line breaks.
SplitPoints ==
    LET Breaks(g) == {o \in g[1] .. (g[2] - 1) : CharAt(o) = "n"}
        Ends(g)   == g[1] > 0 /\ CharAt(g[1] - 1) = "s"
    IN  {g[2] : g \in {x \in Gaps : Ends(x)}}
          \cup {Largest(Breaks(g)) + 1 : g \in {x \in Gaps : ~Ends(x) /\ \E o, p \in Breaks(x) : o # p}}

\* The window's end, snapped to the last place where a piece may begin.
RawEnd(start) ==
    LET inside == {p \in SplitPoints : start < p /\ p <= start + Target}
    IN  IF start + Target >= Length THEN Length
        ELSE IF inside # {} THEN Largest(inside) ELSE start + Target

Solid(start, end) == {o \in start .. (end - 1) : ~Space(CharAt(o))}

\* Mutant: the next place where a piece may begin, however far.
NextStartAnywhere(start, end) ==
    LET later == {p \in SplitPoints : p >= start + 1 /\ p >= end - Overlap}
    IN  IF later # {} THEN Smallest(later) ELSE end

\* In the overlap, at the first place where a piece may begin, or after it.
NextStart(start, end) ==
    LET later == {p \in SplitPoints : p >= start + 1 /\ p >= end - Overlap}
    IN  IF later # {} /\ Smallest(later) < end THEN Smallest(later) ELSE end

\* A short tail goes to its predecessor.
Folded(chunks) ==
    LET n == Len(chunks)
    IN  IF n > 1 /\ chunks[n].end - chunks[n].start < Runt
        THEN Append(SubSeq(chunks, 1, n - 2), [chunks[n - 1] EXCEPT !.end = chunks[n].end])
        ELSE chunks

Ended == from = -1

-----------------------------------------------------------------------------
(* Places *)

\* bisect_right over the pages' offsets: the last part that begins by then.
PartAt(parts, o) == parts[Largest({i \in DOMAIN parts : parts[i].start <= o})]
NameAt(o)        == PartAt(doc.parts, o).name

PageFor(start) == IF Len(doc.parts) <= 1 THEN <<>> ELSE <<NameAt(start)>>

\* A source upload's lines are counted in the text.
LineAt(o) == 1 + Cardinality({p \in 0 .. (o - 1) : CharAt(p) = "n"})

\* "row 14", or "rows 14-22".
SegmentLabel(start, end) ==
    IF doc.parts = <<>> THEN <<>>
    ELSE IF NameAt(start) = NameAt(end - 1) THEN <<NameAt(start)>> ELSE <<NameAt(start), NameAt(end - 1)>>

PlaceOf(c) ==
    CASE upload.kind = "pdf"  -> PageFor(c.start)
      [] upload.kind = "code" -> IF LineAt(c.start) = LineAt(c.end - 1) THEN <<LineAt(c.start)>>
                               ELSE <<LineAt(c.start), LineAt(c.end - 1)>>
      [] OTHER              -> SegmentLabel(c.start, c.end)

-----------------------------------------------------------------------------
(* Operations *)

\* The file is read, or refused by name.
Upload ==
    /\ doc.text = <<>> /\ ~Refused(upload)
    /\ doc' = Extract(upload)
    /\ from' = Smallest({o \in DOMAIN Extract(upload).text : ~Space(Extract(upload).text[o])}) - 1
    /\ UNCHANGED <<upload, spans, cited>>

\* One turn of chunk_document: a span trimmed of white space, unless there is
\* nothing else in its window.
Chunk ==
    LET raw   == RawEnd(from)
        solid == Solid(from, raw)
        start == Smallest(solid)
    IN  /\ doc.text # <<>> /\ ~Ended
        /\ from < Length
        /\ IF solid = {} THEN spans' = Folded(spans) /\ from' = -1
           ELSE LET chunks == Append(spans, [start |-> start, end |-> Largest(solid) + 1])
                IN  IF raw >= Length THEN spans' = Folded(chunks) /\ from' = -1
                    ELSE spans' = chunks /\ from' = NextStart(start, raw)
        /\ UNCHANGED <<upload, doc, cited>>

\* A search offers a chunk under its URL; reading that gives its place.
ReadBack ==
    /\ Ended
    /\ \E i \in DOMAIN spans : cited' = <<[span |-> spans[i], where |-> PlaceOf(spans[i])]>>
    /\ UNCHANGED <<upload, doc, spans, from>>

-----------------------------------------------------------------------------
(* Reports: chunk_report *)

Nothing == [size |-> 0, lines |-> {}, body |-> FALSE]

\* _blocks: a heading is a block of its own, what lies between is another.
OneLine(line, at) == [head |-> line.head, size |-> line.size, lines |-> {at}]
Joining(got, b) ==
    LET n == Len(got)
    IN  IF got # <<>> /\ ~b.head /\ ~got[n].head
        THEN [got EXCEPT ![n] = [head |-> FALSE, size |-> @.size + b.size, lines |-> @.lines \cup b.lines]]
        ELSE Append(got, b)
Peel(paragraph, k) ==
    LET got[i \in 0 .. Len(paragraph)] ==
          IF i = 0 THEN <<>> ELSE Joining(got[i - 1], OneLine(paragraph[i], <<k, i>>))
    IN  got[Len(paragraph)]
Peeled(paragraphs) == FlattenSeq([k \in DOMAIN paragraphs |-> Peel(paragraphs[k], k)])

Blocks == Peeled(draft)

Plus(x, y) == [size |-> x.size + y.size, lines |-> x.lines \cup y.lines, body |-> x.body \/ y.body]
Heads(b)   == [size |-> b.size, lines |-> b.lines, body |-> FALSE]
Body(b, n) == [size |-> n, lines |-> b.lines, body |-> TRUE]

\* flush: headings alone are not worth a hit.
Flushed(done, chunk) == IF chunk.body THEN Append(done, chunk) ELSE done

\* The heading above a block.
Above(i) ==
    LET heads == {j \in 1 .. (i - 1) : Blocks[j].head}
    IN  IF heads = {} THEN Nothing ELSE Heads(Blocks[Largest(heads)])

\* _split_long of a block that is too large, to leave room for what a chunk
\* that continues it begins with.
Pieces(b, room) ==
    IF b.size <= Target THEN <<b.size>>
    ELSE [i \in 1 .. (b.size + room - 1) \div room |-> IF i * room <= b.size THEN room ELSE b.size % room]

\* A heading closes a chunk that is large enough to stand alone.
NextHeading ==
    LET b == Blocks[dealt + 1]
    IN  /\ dealt < Len(Blocks) /\ b.head /\ dealt' = dealt + 1
        /\ IF 5 * open.size >= 3 * Target
           THEN notes' = Flushed(notes, open) /\ open' = Heads(b)
           ELSE notes' = notes /\ open' = Plus(open, Heads(b))
        /\ UNCHANGED draft

\* A piece is added to the open chunk, or opens another under the block's heading
\* with some of the last one's words.
Put(state, b, head, words, n) ==
    LET done  == Flushed(state.notes, state.open)
        carry == [Nothing EXCEPT !.size = IF done = <<>> THEN 0 ELSE words]
    IN  IF state.open.size = 0 \/ state.open.size + n <= Target
        THEN [state EXCEPT !.open = Plus(@, Body(b, n))]
        ELSE [notes |-> done, open |-> Plus(Plus(head, carry), Body(b, n))]
Poured(b, head, words, sizes) ==
    LET state[i \in 0 .. Len(sizes)] ==
          IF i = 0 THEN [notes |-> notes, open |-> open] ELSE Put(state[i - 1], b, head, words, sizes[i])
    IN  state[Len(sizes)]

\* A block of text, in pieces when it is too large.
NextBlock ==
    LET b    == Blocks[dealt + 1]
        head == Above(dealt + 1)
        room == LET left == Target - Overlap - head.size IN IF left > Target \div 2 THEN left ELSE Target \div 2
    IN  /\ dealt < Len(Blocks) /\ ~b.head /\ dealt' = dealt + 1
        /\ \E words \in 0 .. Overlap :
             LET end == Poured(b, head, words, Pieces(b, room)) IN notes' = end.notes /\ open' = end.open
        /\ UNCHANGED draft

\* The last chunk is stored, or joined to the one before when it is short.
LastChunk ==
    LET all == Flushed(notes, open)
        n   == Len(all)
    IN  /\ dealt = Len(Blocks) /\ dealt' = dealt + 1
        /\ notes' = IF n > 1 /\ all[n].size < Runt
                    THEN Append(SubSeq(all, 1, n - 2), Plus(all[n - 1], all[n])) ELSE all
        /\ open' = Nothing
        /\ UNCHANGED draft

-----------------------------------------------------------------------------

Given(f)    == upload = f /\ doc = [text |-> <<>>, parts |-> <<>>] /\ spans = <<>> /\ from = 0 /\ cited = <<>>
Approved(d) == draft = d /\ dealt = 0 /\ open = Nothing /\ notes = <<>>

TextInit   == \E f \in Files : Given(f)
ReportInit == \E d \in Written : Approved(d)

TextNext   == Upload \/ Chunk \/ ReadBack
ReportNext == NextHeading \/ NextBlock \/ LastChunk

\* An upload and a report share nothing.
TextSpec ==
    /\ TextInit /\ ReportInit
    /\ [][(TextNext /\ UNCHANGED reportVars) \/ (ReportNext /\ UNCHANGED textVars)]_<<textVars, reportVars>>

-----------------------------------------------------------------------------
(* Properties *)

\* The headings an item stands under: those no later one of their level, or of
\* one above it, has closed.
IsHeading(f, k) == f.levels[k] > 0 /\ ~Empty(f.items[k])
Over(f, i) ==
    {k \in 1 .. i : IsHeading(f, k) /\ \A j \in (k + 1) .. i : IsHeading(f, j) => f.levels[j] > f.levels[k]}

\* What the program the file was made with calls item i: its number, or the
\* headings it stands under.
Calls(f, name, i) ==
    IF f.kind # "odt" THEN name = i
    ELSE ToSet(name) = Over(f, i) /\ \A m, n \in DOMAIN name : m < n => name[m] < name[n]

\* No heading skips a level.
Nested(f) ==
    \A k \in DOMAIN f.levels :
        IsHeading(f, k) /\ f.levels[k] > 1 => \E j \in Over(f, k - 1) : f.levels[j] = f.levels[k] - 1

\* A citation sends its reader to where its passage is: the page it begins on,
\* or the first and the last row, slide, cell, chapter or section it touches.
\* (Nothing is claimed of any CSV, whose rows are counted without blank ones, of
\* source code, which is cited by line numbers alone, nor of an outline that skips
\* a level.)
WhereItIs(c) ==
    upload.kind \notin {"csv", "code"} /\ c.where # <<>> /\ Nested(upload) =>
        /\ Calls(upload, c.where[1], PartAt(doc.parts, c.span.start).of)
        /\ upload.kind # "pdf" => Calls(upload, c.where[Len(c.where)], PartAt(doc.parts, c.span.end - 1).of)

\* "The text was silently discarded": between two chunks of a document only white
\* space is left out, every line of a report's blocks is in one of its chunks, and what
\* is cited from a chunk is named by where it is (chunk_document, chunk_report,
\* segment_label).
TextKeepsItsPlace ==
    /\ cited # <<>> => WhereItIs(cited[1])
    /\ spans # <<>> =>
         \A o \in spans[1].start .. (spans[Len(spans)].end - 1) :
            ~Space(CharAt(o)) => \E i \in DOMAIN spans : spans[i].start <= o /\ o < spans[i].end
    /\ dealt = Len(Blocks) + 1 =>
         \A p \in DOMAIN draft : \A l \in DOMAIN draft[p] :
            ~draft[p][l].head => \E k \in DOMAIN notes : <<p, l>> \in notes[k].lines

\* "Every sentence of the body sits inside at least one chunk span."
EverySentenceIndexed ==
    Ended => \A o \in 0 .. (Length - 1) : ~Space(CharAt(o)) =>
                \E i \in DOMAIN spans : spans[i].start <= o /\ o < spans[i].end

=============================================================================
