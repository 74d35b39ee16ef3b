--------------------------- MODULE EvidenceLedger ---------------------------
(***************************************************************************)
(* What a research run leaves in the database and what its artifact says.   *)
(* The graph ends each invocation with an evidence list, its numbering of   *)
(* the sources and a report; persist_outcome writes them in one             *)
(* transaction, over whatever an earlier invocation already stored.  A      *)
(* reviewer may send the report back (the graph then writes a new report    *)
(* from the same evidence) or approve it, which freezes the artifact in the *)
(* transaction of the approval.  A task is delivered at most once, and only  *)
(* the first researches: whatever is sent back is written from the evidence *)
(* the thread already has, and persisted over the rows it already left.     *)
(*                                                                          *)
(* A transaction is one step.  The gate on the plan, the spend and the      *)
(* prompt records are not modelled; nor are evidence items without a URL,   *)
(* which neither the numbering nor the ledger looks at.                     *)
(***************************************************************************)
EXTENDS Naturals, Sequences, FiniteSets, SequencesExt, FiniteSetsExt

CONSTANTS
  Urls,           \* addresses the executor may report
  Norm,           \* [Urls -> normal forms], graph._norm_url
  Corpus,         \* the addresses that name an uploaded document
  Texts,          \* snippets (with task and key fact)
  Lists,          \* evidence lists one round of research may end with
  Reports,        \* reports the synthesizer may write
  Markers,        \* numbers a report may cite
  MaxReviews      \* bound: reviews of a run

ASSUME LedgerAssumption ==
  /\ Corpus \subseteq Urls /\ DOMAIN Norm = Urls
  /\ Lists \subseteq Seq([url : Urls, text : Texts]) /\ <<>> \notin Lists
  /\ Reports \subseteq Seq([claim : BOOLEAN, marks : SUBSET Markers])
  /\ Markers \subseteq Nat \ {0}
  /\ MaxReviews \in Nat

VARIABLES
  graph,      \* the checkpoint: evidence list, numbered sources, contradiction pairs
  pending,    \* tasks in the queue, by kind
  run,        \* status, evidence outcome and frozen selection of the row
  sources, evidence, conflicts, revisions, reviews,  \* the tables, in order
  artifact    \* <<>> or <<the frozen bundle>>

tables == <<sources, evidence, conflicts, revisions>>
vars == <<graph, pending, run, tables, reviews, artifact>>

Statuses == {"RUNNING", "AWAITING_REVIEW", "COMPLETED", "FAILED", "CANCELLED"}
\* What reading the checkpoint may come to; nothing tells CHECKPOINT_MISSING from
\* CHECKPOINT_UNREADABLE.
Reads == {"READ", "UNREAD"}
Decisions == {"APPROVED", "REWORK_REQUESTED", "REJECTED"}

(***************************************************************************)
(* The graph: numbering and detector.                                       *)
(***************************************************************************)
\* The report's source list: each raw address once, by first appearance.
Numbering(list) ==
  FlattenSeq([i \in DOMAIN list |->
    IF \E j \in 1 .. i - 1 : list[j].url = list[i].url THEN <<>> ELSE <<list[i].url>>])

\* The detector quotes two items of the evidence against each other.
Pair(x, y) == [a |-> x, b |-> y]
Pairs(list) ==
  {<<>>} \cup {ps \in {<<Pair(Head(list), Last(list))>>} : ps[1].a.url # ps[1].b.url}

(***************************************************************************)
(* record_evidence.                                                         *)
(***************************************************************************)
\* Two addresses with one normal form share an entry: the later number wins.
IndexOf(numbered, norm) == Max({i \in DOMAIN numbered : Norm[numbered[i]] = norm})

SourceOf(table, norm) ==
  LET hits == {s \in DOMAIN table : table[s].norm = norm}
  IN  IF hits = {} THEN 0 ELSE Min(hits)

\* The source row for an address, inserted when the run has none of that form.
WithSource(table, url, numbered) ==
  IF SourceOf(table, Norm[url]) # 0 THEN table
  ELSE Append(table, [url |-> url, norm |-> Norm[url], index |-> IndexOf(numbered, Norm[url])])

\* Mutant of Unpaired: any stored row of the identity will do, used or not.
UnpairedAny(w, s, text) ==
  {r \in DOMAIN w.evidence : w.evidence[r].source = s /\ w.evidence[r].text = text}

Unpaired(w, s, text) ==
  {r \in w.free : w.evidence[r].source = s /\ w.evidence[r].text = text}

\* One item: paired with the oldest unpaired row of its identity, or inserted.
StoreItem(w, e, numbered) ==
  LET table == WithSource(w.sources, e.url, numbered)
      s     == SourceOf(table, Norm[e.url])
      same  == Unpaired(w, s, e.text)
      next  == w.base + w.inserted + 1
      row   == IF same # {} THEN Min(same) ELSE Len(w.evidence) + 1
  IN  [w EXCEPT
        !.sources  = table,
        !.evidence = IF same # {} THEN @
                     ELSE Append(@, [source |-> s, text |-> e.text, sequence |-> next]),
        !.inserted = IF same # {} THEN @ ELSE @ + 1,
        !.free     = @ \ {row},
        !.taken    = Append(@, row)]

LastSequence == Max({0} \cup {evidence[r].sequence : r \in DOMAIN evidence})

\* The whole write: tables after it and the rows the list was stored as.
Stored(list, numbered) ==
  LET after[n \in 0 .. Len(list)] ==
        IF n = 0
        THEN [sources |-> sources, evidence |-> evidence, free |-> DOMAIN evidence,
              base |-> LastSequence, inserted |-> 0, taken |-> <<>>]
        ELSE StoreItem(after[n - 1], list[n], numbered)
  IN  after[Len(list)]

Watermark(w) == Max({0} \cup {w.evidence[r].sequence : r \in ToSet(w.taken)})

\* The row a number stands for: the first of the write's rows whose source has it.
ByIndex(w, numbered) ==
  [n \in Markers |->
    LET hits == {j \in DOMAIN w.taken :
                  IndexOf(numbered, w.sources[w.evidence[w.taken[j]].source].norm) = n}
    IN  IF hits = {} THEN 0 ELSE w.taken[Min(hits)]]

\* Mutant of ByCitationIndex: the last row of the source instead of the first.
ByCitationIndexLast ==
  [n \in Markers |->
    LET hits == {r \in DOMAIN evidence : sources[evidence[r].source].index = n}
    IN  IF hits = {} THEN 0 ELSE Max(hits)]

\* _evidence_by_citation_index: the same from the tables, when nothing was read.
ByCitationIndex ==
  [n \in Markers |->
    LET hits == {r \in DOMAIN evidence : sources[evidence[r].source].index = n}
    IN  IF hits = {} THEN 0 ELSE Min(hits)]

(***************************************************************************)
(* record_revision and record_contradictions.                               *)
(***************************************************************************)
Cited(report, claims) == UNION {report[i].marks : i \in {j \in DOMAIN report : report[j].claim \/ ~claims}}

Links(report, row) ==
  {l \in [claim : DOMAIN report, mark : Markers, row : Range(row) \ {0}] :
     /\ report[l.claim].claim
     /\ l.mark \in report[l.claim].marks
     /\ l.row = row[l.mark]}

\* basis is kept for the properties: the source list the report was written against.
Revision(report, row, seen) ==
  [report |-> report, links |-> Links(report, row), watermark |-> seen,
   basis |-> graph'.sources]

\* The one row of this write that carries the quotation, if there is just one.
Refined(w, s, text) ==
  LET hits == {r \in ToSet(w.taken) : w.evidence[r].source = s /\ w.evidence[r].text = text}
  IN  IF Cardinality(hits) = 1 THEN Min(hits) ELSE 0

Conflict(w, p) ==
  LET a == SourceOf(w.sources, Norm[p.a.url])
      b == SourceOf(w.sources, Norm[p.b.url])
      ra == Refined(w, a, p.a.text)
      rb == Refined(w, b, p.b.text)
      detected == a # b
      refined  == detected /\ ra # 0 /\ rb # 0
  IN  [a |-> IF detected THEN a ELSE 0, b |-> IF detected THEN b ELSE 0,
       quoteA |-> p.a.text, quoteB |-> p.b.text,
       rowA |-> IF refined THEN ra ELSE 0, rowB |-> IF refined THEN rb ELSE 0]

\* A stored conflict is recognised by its sources and its words, not by its rows.
SameConflict(c, d) ==
  <<c.a, c.b, c.quoteA, c.quoteB>> = <<d.a, d.b, d.quoteA, d.quoteB>>

HowMany(table, c) == Cardinality({i \in DOMAIN table : SameConflict(table[i], c)})

\* Each pair uses up one stored row of its key; the rest are inserted.
Conflicts(w, pairs) ==
  LET found == [i \in DOMAIN pairs |-> Conflict(w, pairs[i])]
      Stands(i) == HowMany(SubSeq(found, 1, i), found[i]) <= HowMany(conflicts, found[i])
  IN  conflicts \o FlattenSeq([i \in DOMAIN found |-> IF Stands(i) THEN <<>> ELSE <<found[i]>>])

(***************************************************************************)
(* The worker.                                                              *)
(***************************************************************************)
\* A selected-files run may keep nothing from outside its selection.
Violates(list) == run.selection # {} /\ \E i \in DOMAIN list : list[i].url \notin run.selection

\* The row is written over whatever it said, except that a stopped run stays stopped.
SetRun(status, outcome) == run' = [run EXCEPT !.status = status, !.outcome = outcome]

\* A status written on a stopped row breaks ck_run_cancelled.
Writable == run.status # "CANCELLED"

\* persist_outcome of a report, with the checkpoint read, and committed.
PersistRead(report, w) ==
  /\ sources' = w.sources
  /\ evidence' = w.evidence
  /\ conflicts' = Conflicts(w, graph'.pairs)
  /\ revisions' = Append(revisions, Revision(report, ByIndex(w, graph'.sources), Watermark(w)))
  /\ SetRun("AWAITING_REVIEW", "READ")

\* A selected run that read outside its selection fails and stores nothing.
PersistRefused == SetRun("FAILED", run.outcome) /\ UNCHANGED tables

\* The checkpoint could not be read: the revision links what is already stored.
PersistUnread(report, read) ==
  /\ SetRun("AWAITING_REVIEW", read)
  /\ revisions' = Append(revisions, Revision(report, ByCitationIndex, LastSequence))
  /\ UNCHANGED <<sources, evidence, conflicts>>

Persist(report, read) ==
  IF read # "READ" THEN PersistUnread(report, read)
  ELSE IF Violates(graph'.evidence) THEN PersistRefused
  ELSE \E w \in {Stored(graph'.evidence, graph'.sources)} : PersistRead(report, w)

\* The graph stops with an error: record_failure, and nothing else is written.
PersistFailure == SetRun("FAILED", run.outcome) /\ UNCHANGED tables

\* A message is gone when it is received (task_acks_late is off).
Take(kind) ==
  /\ pending[kind] > 0
  /\ pending' = [pending EXCEPT ![kind] = @ - 1]
  /\ UNCHANGED <<reviews, artifact>>

\* The first task starts the graph from its initial state.
Research(list, pairs, report, read) ==
  /\ Take("run")
  /\ Writable
  /\ graph' = [evidence |-> list, sources |-> Numbering(list), pairs |-> pairs]
  /\ Persist(report, read)

\* A rework resumes at the synthesizer, with the evidence the thread has.
Resynthesize(report, read) ==
  /\ Take("rework")
  /\ Writable
  /\ UNCHANGED graph
  /\ Persist(report, read)

\* Either task may fail before there is a report.
GraphFails(kind) ==
  /\ Take(kind)
  /\ Writable
  /\ UNCHANGED graph
  /\ PersistFailure

\* Nothing comes of the task: its worker died, the lock was busy, or the run is
\* stopped, and what a stopped run came to is not written.
TaskLost(kind) ==
  /\ Take(kind)
  /\ UNCHANGED <<graph, run, tables>>

(***************************************************************************)
(* The artifact.                                                            *)
(***************************************************************************)
\* run_bundle.assemble: always the newest revision, and every stored row.
Bundle(chain) ==
  LET latest == revisions[Len(revisions)]
  IN  [report   |-> latest.report,
       revision |-> Len(revisions),
       evidence |-> {sources[evidence[r].source].url : r \in DOMAIN evidence},
       sources  |-> {[index |-> s.index, url |-> s.url] : s \in Range(sources)},
       chain    |-> {[action |-> r.decision, hash |-> revisions[r.revision].report] : r \in Range(chain)},
       allowed  |-> run.selection]

\* Mutant of Assemblable: a bundle whatever was read.
AssemblableAlways == TRUE

\* No bundle says there is no evidence when the evidence was never read.
Assemblable == run.outcome # "UNREAD"

\* verify_bundle: every number in the body has a source,
CitationResolution(b) == Cited(b.report, FALSE) \subseteq {s.index : s \in b.sources}

\* the source of every number of a claim has a snippet,
ClaimEvidenceLinkage(b) ==
  \A n \in Cited(b.report, TRUE) : \E s \in b.sources : s.index = n /\ s.url \in b.evidence

\* an approval is of these bytes,
ApprovalChain(b) == [action |-> "APPROVED", hash |-> b.report] \in b.chain

\* and a selected run names only what it was allowed to read.
CorpusSelection(b) == b.allowed = {} \/ \A s \in b.sources : s.url \in b.allowed

Verify(b) == CitationResolution(b) /\ ClaimEvidenceLinkage(b) /\ ApprovalChain(b) /\ CorpusSelection(b)

(***************************************************************************)
(* The reviewer.                                                            *)
(***************************************************************************)
\* Any revision may be reviewed, whatever the run is doing.
Reviewed(v, decision) ==
  /\ Len(reviews) < MaxReviews
  /\ v \in DOMAIN revisions
  /\ reviews' = Append(reviews, [decision |-> decision, revision |-> v])

\* uq_review_approval: one approval for a revision.
Unapproved(v) == \A r \in Range(reviews) : r.revision = v => r.decision # "APPROVED"

\* The reviewed bytes must be the bytes the bundle would carry.
SameBytes(v) == revisions[Len(revisions)].report = revisions[v].report

\* The approval and the artifact are one transaction: without one, not the other.
\* A selected run whose report was not grounded is refused first, which changes nothing.
Approve(v) ==
  /\ Reviewed(v, "APPROVED")
  /\ Unapproved(v)
  /\ Writable
  /\ Assemblable
  /\ SameBytes(v)
  /\ artifact = <<>>
  /\ artifact' = <<Bundle(reviews')>>
  /\ SetRun("COMPLETED", run.outcome)
  /\ UNCHANGED <<graph, pending, tables>>

Rework(v) ==
  /\ Reviewed(v, "REWORK_REQUESTED")
  /\ Writable
  /\ SetRun("RUNNING", run.outcome)
  /\ pending' = [pending EXCEPT !.rework = @ + 1]
  /\ UNCHANGED <<graph, tables, artifact>>

Reject(v) ==
  /\ Reviewed(v, "REJECTED")
  /\ UNCHANGED <<graph, pending, run, tables, artifact>>

Cancel ==
  /\ run.status \in {"RUNNING", "AWAITING_REVIEW"}
  /\ SetRun("CANCELLED", run.outcome)
  /\ UNCHANGED <<graph, pending, tables, reviews, artifact>>

Init ==
  /\ graph = [evidence |-> <<>>, sources |-> <<>>, pairs |-> <<>>]
  /\ pending = [run |-> 1, rework |-> 0]
  /\ run \in [status : {"RUNNING"}, outcome : {"NONE"}, selection : SUBSET Corpus]
  /\ sources = <<>> /\ evidence = <<>> /\ conflicts = <<>> /\ revisions = <<>>
  /\ reviews = <<>> /\ artifact = <<>>

Worker ==
  \/ \E list \in Lists, report \in Reports, read \in Reads :
       \E pairs \in Pairs(list) : Research(list, pairs, report, read)
  \/ \E report \in Reports, read \in Reads : Resynthesize(report, read)
  \/ \E kind \in DOMAIN pending : GraphFails(kind) \/ TaskLost(kind)

Next ==
  \/ Worker
  \/ \E v \in DOMAIN revisions : Approve(v) \/ Rework(v) \/ Reject(v)
  \/ Cancel

Spec == Init /\ [][Next]_vars

(***************************************************************************)
(* Properties.                                                              *)
(***************************************************************************)
\* The tables keep their foreign keys, a row's sequence is its place, and no two
\* sources carry one number (uq_source_index).
TypeOK ==
  /\ run.status \in Statuses /\ run.outcome \in Reads \cup {"NONE"}
  /\ \A s \in Range(sources) : s.url \in Urls /\ s.norm = Norm[s.url] /\ s.index \in Nat \ {0}
  /\ \A s, u \in DOMAIN sources : sources[s].index = sources[u].index => s = u
  /\ \A r \in DOMAIN evidence :
       evidence[r].source \in DOMAIN sources /\ evidence[r].sequence = r
  /\ \A v \in Range(revisions) : \A l \in v.links : l.row \in DOMAIN evidence
  /\ \A v \in Range(reviews) : v.decision \in Decisions /\ v.revision \in DOMAIN revisions
  /\ Len(artifact) <= 1

Identity(e) == <<Norm[e.url], e.text>>
Listed(list, k) == Cardinality({i \in DOMAIN list : Identity(list[i]) = k})
Kept(db, table, k) ==
  Cardinality({r \in DOMAIN table : <<db[table[r].source].norm, table[r].text>> = k})

\* Persisting is idempotent (record_evidence): storing a list leaves, of every
\* item, as many rows as the list or the table had, whichever is more, leaves
\* the rows that were there alone and repeats no conflict.
StoredOnce ==
  [][ /\ IsPrefix(evidence, evidence') /\ IsPrefix(sources, sources')
      /\ \A k \in Range(Norm) \X Texts :
           Kept(sources', evidence', k) =
             Max({Kept(sources, evidence, k), Listed(graph'.evidence, k)})
      /\ \A c \in Range(conflicts') : HowMany(conflicts', c) = 1]_<<evidence, conflicts>>

\* The same number in two revisions links one row (record_revision), whether the row was found by the write or from the tables.
MarkersKeepTheirRow ==
  \A v, u \in Range(revisions) :
    \A l \in v.links, m \in u.links : l.mark = m.mark => l.row = m.row

\* The report cites only numbers its source list has, and no two of its
\* sources have one normal form.
WellCited(v) ==
  /\ Cited(v.report, FALSE) \subseteq DOMAIN v.basis
  /\ IsInjective([n \in DOMAIN v.basis |-> Norm[v.basis[n]]])

\* The artifact passes the verifier that is shipped with the product, and its
\* numbers mean what they mean in the report, whatever was reworked, lost or
\* left unread on the way.
ArtifactVerifies ==
  artifact # <<>> =>
    LET b == artifact[1]
        v == revisions[b.revision]
    IN  /\ WellCited(v) => Verify(b)
        /\ \A s \in b.sources : Norm[s.url] = Norm[v.basis[s.index]]

=============================================================================
