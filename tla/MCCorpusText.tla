----------------------------- MODULE MCCorpusText -----------------------------
(* Values for model-checking CorpusText: every short text, and short files of  *)
(* each format whose items are blank, a word or two sentences.               *)
EXTENDS CorpusText

CONSTANTS MaxChars, MaxItems

Characters == UNION {[1 .. n -> {"w", "s", "_", "n"}] : n \in 1 .. MaxChars}
Items == UNION {[1 .. n -> {<<>>, <<"w">>, <<"w", "s", "_", "w">>}] : n \in 1 .. MaxItems}
Formats == {"pdf", "csv", "sheet", "docx", "pptx", "ipynb", "epub", "html", "code"}

FileOf(kind, items, levels, readable) == [kind |-> kind, items |-> items, levels |-> levels, readable |-> readable]
PlainFile(text) == FileOf("txt", <<text>>, <<0>>, TRUE)

PlainFiles == {PlainFile(t) : t \in Characters}
FilesOfParts == {FileOf(k, i, [n \in DOMAIN i |-> 0], TRUE) : k \in Formats, i \in Items}
Outlines ==
    UNION {{FileOf("odt", i, l, TRUE) : l \in [DOMAIN i -> 0 .. 3]} : i \in Items}

Uploads == PlainFiles \cup FilesOfParts \cup Outlines \cup {FileOf("pdf", <<>>, <<>>, FALSE)}

\* Reports of up to three paragraphs of headings and of lines of text, one of
\* them too large for a chunk.
HeadLine    == [head |-> TRUE, size |-> 1]
TextLine(n) == [head |-> FALSE, size |-> n]
Paragraphs ==
    {<<HeadLine>>, <<TextLine(1)>>, <<TextLine(2)>>, <<TextLine(8)>>,
     <<HeadLine, TextLine(2)>>, <<TextLine(1), HeadLine, TextLine(2)>>, <<HeadLine, HeadLine>>}
SomeReports == UNION {[1 .. n -> Paragraphs] : n \in 1 .. 3}

ReportRests == Approved(<<<<HeadLine>>>>)
TextRests   == Given(PlainFile(<<"w">>))

\* Uploads alone.
UploadsSpec == TextInit /\ ReportRests /\ [][TextNext /\ UNCHANGED reportVars]_<<textVars, reportVars>>
=============================================================================
