----------------------------- MODULE TaskEvidence -----------------------------
(***************************************************************************)
(* How one question of a plan becomes evidence (graph._research_one): a model  *)
(* is asked in turns, its searches and page reads are answered, what they      *)
(* returned is recorded by address, and every quotation it submits is looked    *)
(* up in that record before anybody may see it as one.                       *)
(*                                                                           *)
(* A text is a sequence of words; letter case, spaces and typographic quotes   *)
(* are folded away.  The calls of one turn run side by side, but write nothing  *)
(* until all have answered, and are then recorded in the order of the calls: a  *)
(* turn is one step.  What other questions of the round spend decides when the  *)
(* budget is over; ResearchGraph keeps that account.  Scripted models, whose   *)
(* quotations are not looked up, are left out.                               *)
(***************************************************************************)
EXTENDS Integers, FiniteSets, Sequences, SequencesExt

CONSTANTS
    Addresses,   \* what a tool call or a quotation may name
    Page,        \* [Addresses -> pages], graph._norm_url
    Kind,        \* "web", "moved", "private", "engine" or "corpus"
    MovedTo,     \* where a moved address redirects to
    PageText,    \* what stands at an address
    WebHits,     \* answers a search engine may give, none of them in a corpus: sequences of [url, text]
    CorpusHits,  \* the same of the corpus, for the run's selection of it
    Selection,   \* corpus addresses the run may read
    Quotations,  \* snippets a model may submit
    SnippetCap,  \* snippet_max_chars
    RoundLimit, PageLimit,  \* _limits_for(depth)
    MaxRedirects,           \* _MAX_REDIRECTS
    MaxCalls     \* bound: tool calls of one turn

ASSUME TaskAssumption ==
    /\ DOMAIN Page = Addresses
    /\ Kind \in [Addresses -> {"web", "moved", "private", "engine", "corpus"}]
    /\ \A u \in Addresses : Kind[u] = "moved" => MovedTo[u] \in Addresses
    /\ DOMAIN PageText = Addresses /\ \A u \in Addresses : PageText[u] \in Seq(STRING)
    /\ \A h \in WebHits \cup {CorpusHits} : h \in Seq([url : Addresses, text : Seq(STRING)])
    /\ \A h \in WebHits : \A i \in DOMAIN h : Kind[h[i].url] # "corpus"
    /\ \A i \in DOMAIN CorpusHits : CorpusHits[i].url \in Selection
    /\ Quotations \subseteq Seq(STRING)
    /\ {SnippetCap, RoundLimit, PageLimit, MaxRedirects, MaxCalls} \subseteq Nat

VARIABLES
    fromCorpus, \* corpus_mode
    step,       \* "turns", "forced", "forced again" or "done"
    rounds,     \* turns taken
    pages,      \* fetched: pages asked for
    record,     \* seen_text: [url, text], in the order first seen
    grade,      \* seen_grades: [Addresses -> "none", "snippet" or "body"]
    shelf,      \* the search cache: <<>>, or <<what it holds for the query>>
    items,      \* the evidence: [url, snippet, grade, claimed]
    returned    \* history: what tools returned: [url, text, opened]

taskVars == <<fromCorpus, step, rounds, pages, record, grade, shelf, items, returned>>

-----------------------------------------------------------------------------
(* Texts and the record of them *)

\* One text occurs in another, word for word.
Within(quote, text) ==
    \E i \in 0 .. Len(text) - Len(quote) : SubSeq(text, i + 1, i + Len(quote)) = quote

\* What was recorded for a page, under whatever spelling.
SeenGet(list, url) ==
    FlattenSeq([i \in DOMAIN list |-> IF Page[list[i].url] = Page[url] THEN list[i].text ELSE <<>>])

\* A second text for an address goes behind the first.
Recorded(list, url, text) ==
    IF \E i \in DOMAIN list : list[i].url = url
    THEN [i \in DOMAIN list |-> IF list[i].url = url THEN [list[i] EXCEPT !.text = @ \o text] ELSE list[i]]
    ELSE Append(list, [url |-> url, text |-> text])

\* Among the spellings of a page, the strongest grade counts.
SeenGrade(url) ==
    LET all == {grade[u] : u \in {v \in Addresses : Page[v] = Page[url]}}
    IN  IF "body" \in all THEN "body" ELSE IF "snippet" \in all THEN "snippet" ELSE "none"

-----------------------------------------------------------------------------
(* Tools: an answer is a sequence of [url, text, opened]. *)

Hits(list)      == [i \in DOMAIN list |-> [url |-> list[i].url, text |-> list[i].text, opened |-> FALSE]]
Reading(url, text) == <<[url |-> url, text |-> text, opened |-> TRUE]>>
NoHits        == <<>>

\* Redirects are followed and looked at one by one; a private address on the
\* way, or one that is no web address, or too many of them, end the fetch.
Fetched(url) ==
    LET Reach[hops \in 0 .. MaxRedirects] == [u \in Addresses |->
            IF Kind[u] \in {"private", "corpus"} THEN <<>>
            ELSE IF Kind[u] # "moved" THEN PageText[u]
            ELSE IF hops = 0 THEN <<>> ELSE Reach[hops - 1][MovedTo[u]]]
    IN  Reach[MaxRedirects][url]

\* read_webpage and ScopedCorpus.read refuse by where the run may look.
MayOpen(url) ==
    IF fromCorpus THEN Kind[url] = "corpus" /\ url \in Selection
    ELSE Kind[url] \notin {"corpus", "engine"}

\* A refusal and a failure name the address, with no text.
Readings(url) ==
    IF ~MayOpen(url) THEN {Reading(url, <<>>)}
    ELSE IF fromCorpus THEN {Reading(url, PageText[url])}
    ELSE {Reading(url, <<>>), Reading(url, Fetched(url))}

\* web_search: what it returns and the cache then.  A corpus answers alone, or
\* not at all.  A cache that holds nothing, has let it lapse or fails is as
\* good as none; the first engine that finds anything is the answer.
Searches ==
    IF fromCorpus THEN {<<Hits(CorpusHits), shelf>>, <<NoHits, shelf>>}
    ELSE {<<Hits(x), shelf>> : x \in ToSet(shelf)}
           \cup {<<Hits(h), shelf>> : h \in WebHits}
           \cup {<<Hits(h), <<h>>>> : h \in WebHits}
           \cup {<<NoHits, shelf>>}

-----------------------------------------------------------------------------
(* A turn of the model *)

Search == [tool |-> "search", url |-> "none"]
Broken == [tool |-> "broken", url |-> "none"]   \* an unknown tool or arguments it rejects
Opens(url) == [tool |-> "read", url |-> url]

Turns == UNION {[1 .. n -> {Search, Broken} \cup {Opens(u) : u \in Addresses}] : n \in 1 .. MaxCalls}

PagesOf(calls) == {Page[calls[i].url] : i \in {j \in DOMAIN calls : calls[j].tool = "read"}}

\* A page asked for before, in this turn or an earlier one, is not fetched again.
Repeat(calls, i) ==
    /\ calls[i].tool = "read"
    /\ Page[calls[i].url] \in pages \cup PagesOf(SubSeq(calls, 1, i - 1))

\* Repeats are answered from the record as it was before the turn.
Answers(calls, i) ==
    IF calls[i].tool = "broken" THEN {<<NoHits, shelf>>}
    ELSE IF calls[i].tool = "search" THEN Searches
    ELSE IF Repeat(calls, i) THEN {<<Reading(calls[i].url, SeenGet(record, calls[i].url)), shelf>>}
    ELSE {<<r, shelf>> : r \in Readings(calls[i].url)}

\* record_tool_output: a page read outranks a search hit, in either order.
Graded(g, a) == [g EXCEPT ![a.url] = IF a.opened THEN "body" ELSE IF @ = "none" THEN "snippet" ELSE @]

\* Every answer, in the order of the calls.
RecordAll(answers) ==
    LET texts[n \in 0 .. Len(answers)] ==
            IF n = 0 THEN record ELSE Recorded(texts[n - 1], answers[n].url, answers[n].text)
        grades[n \in 0 .. Len(answers)] ==
            IF n = 0 THEN grade ELSE Graded(grades[n - 1], answers[n])
    IN  record' = texts[Len(answers)] /\ grade' = grades[Len(answers)]

TaskInit ==
    /\ fromCorpus \in BOOLEAN
    /\ step = "turns" /\ rounds = 0 /\ pages = {} /\ record = <<>>
    /\ grade = [u \in Addresses |-> "none"]
    /\ shelf \in {<<>>} \cup {<<h>> : h \in WebHits}
    /\ items = <<>> /\ returned = {}

\* What the budget allows is anybody's guess: others spend from it.
MayAsk == step = "turns" /\ rounds < RoundLimit /\ Cardinality(pages) < PageLimit

\* The model calls tools.  A submission among the calls that is rejected is an
\* answer to it and nothing more.
CallTools ==
    /\ MayAsk
    /\ \E calls \in Turns \cup {<<>>} :
         \E told \in {t \in [DOMAIN calls -> UNION {Answers(calls, i) : i \in DOMAIN calls}] :
                        \A i \in DOMAIN calls : t[i] \in Answers(calls, i)} :
            LET all   == FlattenSeq([i \in DOMAIN calls |-> told[i][1]])
                fresh == {i \in DOMAIN calls : calls[i].tool # "broken" /\ ~Repeat(calls, i)}
            IN  /\ RecordAll(all)
                /\ shelf' \in {shelf} \cup {told[i][2] : i \in {j \in fresh : calls[j].tool = "search"}}
                /\ returned' = returned \cup UNION {ToSet(told[i][1]) : i \in fresh}
                /\ pages' = pages \cup PagesOf(calls)
    /\ rounds' = rounds + 1
    /\ UNCHANGED <<fromCorpus, step, items>>

-----------------------------------------------------------------------------
(* The evidence *)

Quoted(url, snippet) == [url |-> url, snippet |-> snippet, grade |-> "none", claimed |-> "none"]

\* Arguments that are no JSON count as an empty submission.
Submissions == {<<>>} \cup {<<Quoted(u, s)>> : u \in Addresses, s \in Quotations}

Submitted(list) ==
    [i \in DOMAIN list |->
        [list[i] EXCEPT !.snippet = IF Len(@) > SnippetCap THEN SubSeq(@, 1, SnippetCap) ELSE @]]

Found(snippet) == {i \in DOMAIN record : Within(snippet, record[i].text)}
First(places)  == CHOOSE i \in places : \A j \in places : i <= j

\* Mutant: the first page that has the words will do.
RepointedFirst(e) ==
    LET found == Found(e.snippet)
    IN  IF found = {} THEN e
        ELSE [e EXCEPT !.url = record[First(found)].url, !.claimed = e.url,
                       !.grade = SeenGrade(record[First(found)].url)]

\* A quotation that one other page has is given to it; any other is blanked.
Repointed(e) ==
    LET found == Found(e.snippet)
        url   == record[First(found)].url
    IN  IF Cardinality({Page[record[i].url] : i \in found}) = 1
        THEN [e EXCEPT !.url = url, !.claimed = e.url, !.grade = SeenGrade(url)]
        ELSE [e EXCEPT !.snippet = <<>>]

\* verify_evidence_snippets, of one item.
LookedUp(e) ==
    IF e.snippet = <<>> THEN e
    ELSE IF Within(e.snippet, SeenGet(record, e.url)) THEN [e EXCEPT !.grade = SeenGrade(e.url)]
    ELSE Repointed(e)

\* The task answers with its evidence; everything else was its own.
Deliver(list) ==
    /\ items' = [i \in DOMAIN list |-> LookedUp(Submitted(list)[i])]
    /\ step' = "done"
    /\ record' = <<>> /\ grade' = [u \in Addresses |-> "none"] /\ pages' = {} /\ rounds' = 0
    /\ UNCHANGED <<fromCorpus, shelf, returned>>

\* The model submits, among whatever else it asks for: the rest is dropped.
Submit ==
    /\ MayAsk
    /\ \E list \in Submissions : Deliver(list)

\* The turns are over and nothing was submitted: with text in hand and budget
\* left, the evidence is asked for.
StopAsking ==
    /\ step = "turns"
    /\ \/ /\ \E i \in DOMAIN record : record[i].text # <<>>
          /\ step' = "forced"
          /\ UNCHANGED <<fromCorpus, rounds, pages, record, grade, shelf, items, returned>>
       \/ Deliver(<<>>)

\* Asked again in another way when nothing came of it, then no more.
ForceSubmit ==
    /\ step \in {"forced", "forced again"}
    /\ \/ \E list \in Submissions \ {<<>>} : Deliver(list)
       \/ /\ step = "forced"
          /\ step' = "forced again"
          /\ UNCHANGED <<fromCorpus, rounds, pages, record, grade, shelf, items, returned>>
       \/ Deliver(<<>>)

TaskNext == CallTools \/ Submit \/ StopAsking \/ ForceSubmit

TaskSpec == TaskInit /\ [][TaskNext]_taskVars

-----------------------------------------------------------------------------
(* Properties *)

\* An answer the run may get: a file it selected, or of the web what a search listed
\* and what stands on a page that could be opened.
InReach(r) ==
    IF fromCorpus THEN r.url \in Selection
    ELSE Kind[r.url] # "corpus" /\ (r.opened => Kind[r.url] \in {"web", "moved"})

ReturnedFor(page) == {r.text : r \in {x \in returned : Page[x.url] = page /\ InReach(x)}}

\* The words of a quotation can be traced through texts, in any order and as often as you
\* like: the next one is the next of the same text, or where one text ends another begins.
Spots(texts) == UNION {{t} \X DOMAIN t : t \in texts}
Goes(x, y) == \/ y[1] = x[1] /\ y[2] = x[2] + 1
              \/ x[2] = Len(x[1]) /\ y[2] = 1
Traces(way, quote) ==
    /\ \A k \in DOMAIN quote : way[k][1][way[k][2]] = quote[k]
    /\ \A k \in DOMAIN quote : k + 1 \in DOMAIN quote => Goes(way[k], way[k + 1])
Spliced(quote, texts) == \E way \in [DOMAIN quote -> Spots(texts)] : Traces(way, quote)

\* "A quote we cannot find is not evidence": a quotation that leaves the task stands
\* in what tools returned, in this task and from where the run may look, for the page
\* it names, whatever the model claimed, whichever page the words were found on
\* instead and whatever an earlier run left in the search cache
\* (verify_evidence_snippets, read_webpage, search).
QuotedFromWhatWasRead ==
    step = "done" =>
        \A i \in DOMAIN items : items[i].snippet # <<>> =>
            Spliced(items[i].snippet, ReturnedFor(Page[items[i].url]))

\* "For every cited row the database already answers `was this page actually opened,
\* merely seen in a search result, or read from the corpus'": a quotation graded as
\* from the body of a page rests on a page that was opened, with something in it
\* (record_tool_output).  The code grades by the attempt.
GradedBodyWasOpened ==
    \A i \in DOMAIN items : items[i].grade = "body" =>
        \E r \in returned : r.opened /\ Page[r.url] = Page[items[i].url] /\ r.text # <<>>

=============================================================================
