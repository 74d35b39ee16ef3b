# A verification model of Multi-Agent-Research-Assistant

TLA+ modules that model the research assistant, TLC configurations that check them on
small instances, and theorems about them checked by TLAPS.

The product takes a question, has a graph of model-driven nodes research it on the web or in
selected files, lets a person approve the plan and the report, and freezes the approved
report as an artifact anybody can verify. It runs as a server (FastAPI, Celery, Redis,
PostgreSQL) and as a desktop app (one sidecar process, SQLite). What is hard about it is not
any one step. It is that a run is a database row, a LangGraph checkpoint, a broker message, a
Redis lock, an event log and a browser page at the same time, that handlers, workers and the
page touch them without waiting for one another, that tasks inside the graph spend one
budget, and that every sentence of the report has to stay tied to what was really read,
through searches, quotations, rewrites, reworks, upgrades and exports.

## 1. Inventory

Paths are relative to `src/backend/` unless they start with `src/`.

| Component | State | Operations | Hard behaviour | Module |
|---|---|---|---|---|
| Research runs (`app/run_lifecycle.py`, `app/api/v1/runs.py`, `app/models/`) | rows: run, plan versions, revisions, reviews, artifact | create, review the plan, review the report, cancel, delete | handlers load once and commit later; the ORM writes only columns it believes changed | `RunContract`, `RunLifecycle` |
| Run driver (`app/run_execution.py`, `app/workers/`) | a Celery message, the run lock, a loaded row | take or drop a task, mark running, run the graph, persist the outcome, publish | early acknowledgement, hard time limits, a lock with a TTL, a row that is stale after minutes of research | `RunLifecycle` |
| Research graph (`research_engine/graph.py`, `runner.py`) | `AgentState` in a checkpoint, a budget guard, a semaphore | nine nodes, two interrupts, six routers | tasks of a round interleave; calls fail, cost or return nothing | `ResearchGraph` |
| One question of a plan (`graph._research_one`, `tools.py`, `retrievers.py`, `cache.py`) | the record of what was seen, the search cache | turns of searches, page reads and a submission; verification of quotations | refused, failed and redirected reads; repeats; a cache another run filled | `TaskEvidence` |
| Citation check (`graph._verify_citation_fidelity`) | a draft and its verdicts | judge by rule, ask a batch, strip | batches that fail half way; texts that occur twice | `CitationFidelity` |
| Grounding (`research_engine/grounding.py`, `grounding_repair.py`) | claims of a draft and their verdicts | decompose, verify, rewrite, remove | bounded rewrites, reintroduced claims, a budget that ends in the middle | `Grounding` |
| Evidence ledger (`run_lifecycle.record_evidence` and its kin) | sources, evidence, claim links, contradictions | record what a graph state holds | the same state persisted again by a rework; a checkpoint that cannot be read | `EvidenceLedger` |
| Bundles (`app/run_bundle.py`, `research_engine/bundle.py`, `verify_bundle.py`, `citation_rate.py`) | a file and its hash | assemble, digest, verify | two versions of the format, builds with other prompts, two implementations of one judgement | `BundleFile` |
| Event log and stream (`app/adapters.py`, `app/services/event_stream.py`, `src/frontend/hooks/runs.ts`) | `agent_logs`, a Redis channel, `Last-Event-ID` | write, publish, replay, tail, reconnect | rows and publishes of siblings; snapshot against subscription | `EventStream` |
| Research sessions (`app/api/v1/research.py`, `app/workers/pipeline_runner.py`) | the older session row, its checkpoint | as runs, on both hosts | as runs, with a weaker protocol | `SessionLifecycle` |
| Corpus store (`research_engine/corpus.py`, `app/services/corpus_*.py`) | documents, versions, folders, a run's selection | ingest, supersede, delete, move, select | statements on connections of their own; a file changed between selection and resume | `CorpusStore` |
| Corpus text (`research_engine/documents.py`, `chunking.py`) | a text, its segments, its chunks | extract, cut, label a place | windows, overlaps and trimmed ends at the boundaries | `CorpusText` |
| Corpus search (`corpus.search`, `app/adapters.embeddings_for`) | an index of several embedders, a probe's cached answer | choose an embedder, embed, rank, cut | a local server that comes and goes; files indexed under older models | `CorpusSearch` |
| Desktop corpus layout (`desktop/corpus_layout.py`) | two corpus files, a backup, a lock file, `app_meta` | back up, copy, compare, commit, clean | death between any two file operations | `CorpusLayout` |
| Desktop host (`desktop/sidecar.py`, `src/desktop/src/lib.rs`) | SQLite, a set of runs in flight, in-process tasks | launch, seed, decide, drive, quit | no broker: what is not in the database when the process ends is gone | `DesktopHost` |
| Accounts (`app/api/v1/auth.py`, `app/services/auth_service.py`, `src/frontend/lib/api.ts`) | refresh tokens, a browser's cookie | sign in, rotate, revoke, change the password | two refreshes at once, an answer that is lost | `Accounts` |
| Projects, threads, chat and memory (`projects.py`, `threads.py`, `chat.py`, `services/memory.py`) | chunks of approved reports, conversations | index, retrieve, ask, delete | an embedding or a model call between a read and a write | `ProjectMemory` |
| Model setup (`app/api/v1/models.py`, `app/services/model_routing.py`, `research_engine/offline.py`, `llm_factory.py`, the sidecar's settings) | keys, endpoints, a saved routing, a catalogue, a local model server | save settings, validate, resolve, dial, report readiness | a run resolved at one time and resumed days later | `ModelSetup` |

Listed in `PROJECT.json` and not modelled: preferences, rate limits, prompts and schemas, the
evaluation harness, migrations (see section 10).

**Interaction.** A handler commits a decision and then dispatches a task (a call that may
fail after the commit). The task takes the lock, loads the run, resolves its models, runs the
graph from its checkpoint until the next interrupt, persists the outcome in the ledger,
announces it through the sink and lets go of the lock. Inside the graph, tasks search the web
and the corpus, quotations are verified, the draft goes through the two checks. Every node
writes events through the same sink. The page reads the status, opens the stream, and sends
decisions back. An approval freezes the artifact, ingests the report into the corpus and
indexes it into the project's memory, from which later conversations retrieve. The desktop
app has the same handlers and engine, and its own driver, launch and settings.

**What makes each part correct.** Runs: what is approved is what is frozen, exactly once, and
no late writer can take it back. Driver: one executor at a time, and a run left RUNNING has a
task that will move it. Graph: bounded spending, every cost accounted for, no draft at the
gate that was not checked. Evidence: a quotation stands in what was read, a number in the
text leads to one row for ever, the artifact passes its verifier. Corpus: one current
version, a selection that stays readable, no text lost on its way into chunks, no question
sent to a machine it must not reach. Stream: every row once, in order, a cursor that never
skips, and nothing held back from a page that listens. Accounts: a session of an older
password is left over from a change only if the request that made it was under way together
with it; a browser that sends one request at a time never presents a token it ended itself.

## 2. Plan and state of the work

All parts in the table are modelled and checked; their order was that of dependence: runs and
driver, stream, graph, then sessions, the corpus and the desktop host, then the evidence's
way from a text to the exported file, then the rest of the API. Abstract specifications:
`RunContract`, which `RunLifecycle` is proved to implement.

What would be worth adding, in this order: a step-by-step `gather_or_cancel` under the single
step `CallFails` of `ResearchGraph`; the ledger as a refinement of an append-only record.

**Composition.** Modules whose code shares state are one module or are composed by
refinement. Modules that share no variable are explored in one run, side by side rather than
interleaved: `MCResearchRecord`, `MCServerApi`, `MCConversations` and `MCResearchGraph` start
one part in any of its initial states while the others rest, and let only that part move. A
property of one part is then checked on exactly the behaviours it has alone, and nothing is
claimed of how the parts interact beyond what the modules themselves say.

## 3. Runs, stream and graph

### RunContract and RunLifecycle

`RunContract` has three variables a reader sees: the status, the revisions, the artifact.
Revisions are only appended; completing, freezing and approving are one step that happens
at most once; a cancelled run stays cancelled and gains nothing; a deleted run is gone.

`RunLifecycle` has the rows, the position of the checkpoint (`thread`), a count of queued
messages per kind of task (`queue`), the lock and its owner (`lock`; `orphan` is a dead
owner's lock that waits for its TTL), and a program counter per worker and per request.

* A request reads the run (`Read`) and later acts in one transaction: `ApprovePlan`,
  `ReturnPlan`, `ApproveReport`, `RequestRework`, `RejectReport`, `CancelRun`, `DeleteRun`,
  or `Rollback` when a constraint, a missing target or a mismatching manifest refuses it.
  What follows the commit (`Dispatch`, `IngestReport`, `PurgeThread`) is a step of its own,
  because other processes run in between. `CreateRun` is one step: nobody else knows the id.
* `seen` is the status a handler or worker loaded. `Assigned` is the ORM's rule that setting
  a column to the value it was loaded with emits nothing, which is why a late outcome
  sometimes overwrites a status and sometimes does not.
* A worker takes a message, which is acknowledged at once, and drops it when the lock is
  busy (`TakeTask`, `DropTask`). It loads the run and returns if it may not execute
  (`LoadRun`), marks it running, refuses it (`RefuseRun`, a selected file that changed), or
  runs the graph (`RunGraph`), refreshes the row, records the outcome, publishes, releases.
  `Unwind` and `MarkFailed` are the path of an exception.
* `CrashWorker`, `CrashRequest` and `ExpireLock` may happen between any two steps.

The graph is one step here that moves `thread` to a stop from the position it is at
(`Stops`); `ResearchGraph` opens that step. Archive and unarchive set a timestamp no other
transition reads and are left out. REWORK and REJECTED decisions on a plan differ only in the
text they record and are one value. The outcome `completed` does not occur on the server: a
report is approved by the handler, and no task resumes the graph with an approval. Two
handlers that compute the same next sequence number, and evidence that is not available, are
covered by `Rollback`. The request flag `dispatch: false`, which only tests send, is not
modelled.

### EventStream

The sink of the worker takes `write_lock`, flushes a row (the id is drawn then), commits,
publishes and unlocks: `BeginWrite`, `FlushRow`, `CommitRow`, `PublishRow` or
`PublishFails`. Several tasks of a node write at the same time (`Emitters`). The driver
settles (`Settle`, which commits the status) and then announces (`BeginAnnounce`); an
exception leads to `Unwind`, `MarkFailed` and an event that has no row. An error of the sink's
flush or commit is the node raising, `Unwind`. FAILED stands for the terminals: COMPLETED is
what `ApproveReport` sets, and no server run ever publishes it.

At the other end is the page of a run, one for all, since pages share no state they write. It
fetches the status (`page`, `Fetch`): every three seconds while that is RUNNING, after an event
that ends or parks the run, and after a decision made on this page and not on another
(`Decided`). Its EventSource connects (`Connect`, where `stream_run` reads the status),
subscribes, takes a snapshot, replays it, and ends or tails. A response that ends or is dropped
(`Drop`) is asked for again with the last id shown. The page closes the EventSource for good
(`HangsUp`, `HungUp`) at a terminal event, and at a gate if the status it last fetched is the
one that gate parks at. When a fetched status differs from the one before, the page opens
another EventSource, which sends no id, under an empty list of events; so does a page that is
loaded anew (`Reload`). A refused connection ends an EventSource too (`TurnAway`).

### ResearchGraph

`state` is the `AgentState` of the last checkpoint, `node` the node that runs. A node is one
step that replaces `state` and routes (`Advance`), except the executor: its tasks take a
slot (`StartTask`), check the budget and call the model in one turn of the loop (`Think`),
get an answer (`Answer`), raise (`CallFails`) or are asked for their evidence directly
(`ForcedSubmit`), all interleaved over one guard (`spent`), until `ExecutorReturns` merges.
A node that raises keeps the checkpoint before it and loses what it spent (`lost`). What the
citation check spent before one of its later calls failed is forgotten in the same way
(`Forgotten`), which is why the total is `BilledBut` that.

Abstractions: a call costs a member of `Prices`, or nothing if its provider fails; evidence
is a sequence of (task, round) items; retrieval is whether any text was read; the token
ceiling and the clock are one limit that may be crossed at any time and stays crossed
(`PassLimit`); a draft is its version and whether the conflicts block is in it; `ground()`
is what it may come to. A plan is approved by any payload, as in the code. The critic's
calls are one step, because they share nothing. `MCResearchGraph` explores `CorpusLayout`
beside it.

## 4. The record: from a file and a search to the exported bundle

### CorpusText

A text is a sequence of four characters (of a word, the end of a sentence, a space, a line
break) and offsets are Python's. `Upload` extracts a file of one of ten formats (PDF, CSV,
sheet, Word table, slides, notebook, EPUB, outline, HTML, plain) into one text whose parts
begin at known offsets and have names; `Chunk` cuts it window by window with the code's
split points, overlap and trimming; `ReadBack` names the place of a chunk. The other half,
`NextHeading`, `NextBlock` and `LastChunk`, is `chunk_report`, of which only sizes and lines
are kept: the carried overlap is any size up to `Overlap`, and pieces of an oversized block
are as large as room allows.

### CorpusSearch

`OpenForRun`, `AskInChat` and `AskReports` choose an embedder (or refuse) as the run, the
chat and the search of saved reports do, from six settings of deployment, key and Offline
mode; `EmbedQuestion` sends the question; `Rank` ranks what one statement returned, row by
row (`Look`). Meanwhile files are indexed and replaced (`Index`, `RemoveVersion`), the local
server comes and goes (`Switch`) and a cached probe ends (`ProbeLapses`). How near a passage is to the
question is a number and stands for the vectors.

### TaskEvidence

One question from its first turn to its evidence: `CallTools` answers the searches and page
reads of a turn, `Submit` verifies what the model submits, `StopAsking` and `ForceSubmit`
are the two ways a task ends without one. A text is a sequence of words (case, spaces and
typographic quotes are folded away), a page may redirect, refuse or fail, and the search
cache may hold what an earlier run left (`shelf`). The calls of one turn run side by side but
write nothing until all have answered and are recorded in call order, so a turn is one step.
What siblings spend decides when the budget is over. Scripted models are left out; an
invocation submits one item, and there is one query.

### CitationFidelity and Grounding

`CitationFidelity` is the check every report gets: sentences are judged by rule, then by a
verifier in batches (`AskBatch`), which may fail (`VerifierFails`), and `Conclude` strips.
A sentence is a name with traits; one that stands inside another is outside the property
(`StandsAlone`), because the strip finds its sentence by its text.

`Grounding` is the check of a selected-files report: `Validate`, `Decompose`, `Check`,
`VerifyClaims`, `Relevant`, `Related`, `Infer` and `Judge` are one validation, `DropLine`,
`Rewrite` and `Repaired` one round of repair, `Finish` the removal and the verdict. A claim is
a fact (what `_norm` leaves of its words) and its markers; the replies of the model are
arbitrary; what the code decides from them is not.

### EvidenceLedger

What each invocation of the graph persists: evidence rows matched to those already stored,
sources, a revision with its claim links, contradictions; then reviews and the artifact. A
transaction is one step. A task may be lost, a stop may come, and the checkpoint may be
unreadable at any persist, in which case the tables are all there is. The graph is known by
the list, numbering and report it ends with. Only the first task researches. Items without a
URL, prompt records and spend are left out.

### BundleFile

The bundle as each host assembles it, its hash in both versions of the format, and every
check of the shipped verifier, for a file that is exported by one build or a later one and
changed on its way or not. A digest is the text it was taken of: collisions are not modelled.
A run is one build's work: a run that straddles an upgrade keeps the prompts its first
segment recorded, and that is not modelled. A file that is hashed anew is another bundle.

## 5. Sessions, corpus and desktop

### SessionLifecycle

The older pipeline on either host (`host` is chosen once). The server drives a session under
a Redis lock with a row that is older than what happened since; the desktop loads it again.
`Handle` is a request's steps, `Drive` a driver's, with refused dispatches, failed publishes,
killed workers (`ExpireLock`) and restarts of the app (`Restart`). The histories `slips` name
the two circumstances under which a property is known not to hold: `doubled`, two decisions
made on one gate, and `late`, a writer that had looked before the stop committed.

### CorpusStore

One project's corpus. Python's `sqlite3` opens a transaction at the first write, so what an
operation reads before it is a step of its own: `Ingest` and `Manage` have a read step and a
write step. `Select`, `Resolve` and `Stamp` are the three transactions in which a run freezes
its selection.

### CorpusLayout

The desktop app's move from one shared corpus file to a file per project. Every file
operation of every launch is a step; any may be the last of its process (`Crash`) or be
refused (`Refused`), and a copy may go bad (`Damage`). A file is what a verified copy
compares, its documents. In between the user uploads and deletes.

### DesktopHost

A shell spawns a sidecar, which seeds its database (`SeedUser` to `SeedDemo`), serves, and
drives runs in asyncio tasks (`Drive`). Handlers are one step each, because `RunLifecycle` has
their races. A new launch starts after the old sidecar is gone. Settings and keys change
between the segments of a run; `segments` is the history of what each dialled.

## 6. Accounts, memory and models

### Accounts

A request is the statements it makes, under READ COMMITTED, with the others' in between.
`Refresh(t)` is a tab's refresh: it sends the browser's cookie (`SendRefresh`), reads the token's
row (`ReadToken`), and then revokes the row it read and adds another (`Rotate`), is refused as
expired, or, when the row was revoked, revokes the account in two steps (`FindFamily`, the
UPDATE, which sees the rows committed before it, and `RevokeFamily`, its commit). A sign-in
verifies the password it was sent (`VerifyPassword`) and commits its row later, whatever the
password is by then (`IssueSession`). A password change holds the account's row from its UPDATE
(`MarkSessions`) to its commit (`ChangePassword`), and passes over rows committed in between.
An answer arrives, is lost or comes after another one. The two refusals of a refresh leave the
cookie where it is: the handler sets `delete_cookie` on the injected response and raises, and
the response of the exception carries no cookie.

A row keeps its history: the password its user last proved to know (`pw`), the latest change it
was under way together with (`over`), and the browser that ended it (`by`). `disturbed` is the
history of browsers that overlapped two of their requests or lost an answer. The expiry of a
token is a choice when it is read. Access tokens, which no table holds, registration, the
login limiter and profile writes are left out.

### ProjectMemory

Reports are approved (`Approve`) and indexed (`StartIngest` and `WriteChunks`, with the embedding
call between the check and the rows), and deleted. A review of a run looks at no status: an
approved one may be sent back (`Rework`, which makes it RUNNING) or rejected (`Reject`), with
its chunks still there. `approval` is the history of what was decided: never approved, approved,
or taken back later. Projects are deleted in two steps (`CheckProject`, `DeleteProject`); a turn
of a thread or of a report's chat (`Turn`) retrieves, resolves, writes its question, streams
and answers, and commits at each of the points where the code does. A place in the order of a
conversation is taken at the request's first statement (`created_at` is the start of the
transaction) and filled at its commit. `Resolve` is one step for the two queries of
`_resolve_reports`, each for the reports of one table: every report is looked up once, by one of them, and what is
claimed is claimed of each report by itself. Deletions of one of each kind that fall between the
two queries could be seen in the other order. What the
corpus and the web add to a turn is left out.

### ModelSetup

Which model a role of a run calls, from the environment, keys, custom endpoint, saved routing
and catalogue of either host, and what readiness says. `SetKey`, `RemoveKey`, `SaveEndpoint`,
`SetRouting`, `ClearRouting` are settings; `LocalServerChanges` and `Upgrade` are the world;
`AskForRun`, `Segment`, `Call`, `EndSegment` are a run. A key is good if it is there; a new
build changes only the catalogue; a settings page loads and saves in one go.

## 7. Runs

States and times are of one run with two workers, to give an idea of the size.

| Run | Checks | Instance | Size |
|---|---|---|---|
| `RunSafety` | `ApprovalIsTheArtifact`, `Contract` | two concurrent requests, one worker, two report texts, no plan gate, three reviews | 170 s |
| `RunCrash` | `OneExecutor`, `DraftNeedsApprovedPlan`, `CancelledComesToRest`, `RunningSettlesUnlessLost` | two workers, one request at a time, all decisions, plan gate, crashes anywhere, fairness | 110 s |
| `StreamDelivery` | `CursorIsHonest`, `EveryRowArrives` | two emitters, two rows, one resume, one connection dropped or refused or one reload, failures | 780,000 states, 120 s |
| `GraphRounds` | `OvershootBounded`, `CostAccounted`, `EvidenceInPlanOrder`, `DraftIsGrounded`, `ComesToRest`; `DocumentsSurvive`, `MoveCompletes` | three tasks, two slots, a cap of six calls, two rounds of criticism, a floor of one source, one rework, selected files; two documents and an upload, two crashes, two refusals, one damaged copy | 415,000 states |
| `ResearchRecord` | `TextKeepsItsPlace`, `SearchKeepsItsBounds`, `QuotedFromWhatWasRead`, `MarkersAreBacked`, `ShownWasSupported`, `RejectedStaysOut`, `StoredOnce`, `MarkersKeepTheirRow`, `ArtifactVerifies`, `VerdictIsTrue`, `SaysWhatRan`, `RateAgrees` | the parts of section 4, one at a time (`explored` names it) | 410,000 states |
| `DesktopRuns` | `OneDriver`, `RowSaysWhatRan`, `RunningSettlesUnlessLost` | two launches, two tasks, two settings, two reviews, one edit, fairness | 1.2 million states |
| `ServerApi` | `NothingOlderSurvives`, `AlarmNeedsACause`; `OneCurrent`, `SelectedStays` | two browsers, three tokens, one password change; a corpus with two requests, two texts of one document, nested folders and a selection; one part at a time | 4.1 million states, 180 s |
| `Conversations` | `StopSticks`, `FinalWasApproved`; `CitedWasApproved`, `WindowEndsWithQuestion`; `OfflineStays`, `NotReadyIsTrue` | sessions on both hosts with two drivers, two requests and a rework; two projects, two reports, two turns; five installations, four routings, two edits, two builds; one part at a time | 1.5 million states, 160 s |

`Contract` is the refinement `RunLifecycle => RunContract` with the status, the revisions
and the artifact mapped to themselves. Type invariants are stated in the modules or beside the
proofs that need them; they are proved (section 8) and not repeated in the runs.

Four runs check what the documentation says and the code does not do; each finds a
counterexample, listed with its quotation under "findings" in `PROJECT.json`.

| Run | The counterexample |
|---|---|
| `LayoutChanges` | no fault is needed: an upload to the moved project makes its file differ from the backup of 3.0, and the next launch puts the backup in its place |
| `RejectedIsAbsent` | a run is approved and indexed, then sent back for a rework, which looks at no status: retrieval still returns its chunks |
| `ChunksCover` | a plain text with a run of white space as long as a window: `chunk_document` ends there, and what follows is in no chunk |
| `GradedOpened` | a page read that failed or was refused marks its address as opened, so a search hit's words are graded as from its body |

### Bounds

* `MaxReviews` (2 or 3) admits a plan decision, a rework and an approval, and with two
  requests a double approval. Queue lengths need no bound: every message follows from a
  review.
* `MaxId` (2), `MaxResumes` and `MaxDrops` (1) admit an overlap of backlog and channel, a row
  on each side of the resume point, a run revived under the same id and a reconnect. `MaxDrops`
  counts refused connections and reloads as well.
* `MaxItems` (1) and `MaxReworks` (1) admit a task with and without evidence, and a second
  draft; the cap is of the order of what a round costs, so that a round runs into it at every
  point, and with fewer unanswered calls the same instance drafts, reworks and finalizes.
* `MaxCrashes`, `MaxRefusals` (2): a launch that dies, and one that dies while completing it.
* `MaxDecisions` (3), `ReworkLimit` (1): a plan decision, a rework and an approval that race.
* `MaxVersion` (4) in `CorpusStore`: a document filed, replaced, moved and deleted while a
  selection of it is frozen.
* Texts of up to six characters with windows of three and overlaps of two, files of up to
  three parts, outlines of three levels, reports of three paragraphs: each boundary of a
  window, an overlap and a part falls on each kind of character.
* Rounds, pages and redirects (2, 2, 1), seven addresses, a snippet cap of two words: a page
  read, refused, failed, redirected and repeated, within a turn and across turns.
* Drafts of three lines of eleven kinds with batches of two; in `Grounding` four drafts with
  every kind of line, two facts, three sources of which two are admissible, and two attempts:
  a batch that is full, one that is not, and a claim that moves between them.
* `MaxFiles` 2, `MaxSwitches` 1: a file under its old and new model, and a server that goes
  away between the probe and the question.
* `MaxBuild` 3, `MaxChanges` 1 in `BundleFile`: a build before prompts were recorded, the one
  that ran, the one that exports; one change is enough for a digest to miss or to notice.
* `MaxLaunches`, `MaxReviews` (2), `MaxEdits` (1) in `DesktopHost`: a run that survives a
  launch between two segments, with a setting changed in between.
* `MaxTokens` 3, `MaxChanges` 1 (passwords), two browsers of one tab each: a sign-in or a
  rotation on each side of a change and together with it, with another browser signed in.
  `OneIsOrderly`: at most one of the two browsers has requests that overlap or answers that are
  lost, since `AlarmNeedsACause` says nothing of such a browser; the theorems need no such bound.
* `HistoryLimit` 2, `TopK` 1: a window that cuts, a retrieval that has to choose. A run and a
  thread are in one project, a session and its chat in the other, and a behaviour takes its
  turns in one of the two conversations (`InOneConversation`).

Symmetry is used for interchangeable requests, drivers, texts, turns and browsers, and only in runs
without liveness properties. Where two kinds take no part in the same behaviour they are exchanged
together (`Exchange`).

### Fairness

* `RunLifecycle` (`FairSpec`): weak fairness of each request's next step after it has read,
  of each worker's next step and its taking of messages, and of the lock's expiry. Processes
  that live are scheduled, Celery polls, Redis expires keys. Nobody has to send a request,
  and a crash need not happen.
* `EventStream` (`FairSpec`): the writes under way, the announcement and the failure path keep
  going; an EventSource that was not closed for good reconnects, the server sends what it has,
  and a page that is to fetch the status is answered. A page that hung up does nothing on its
  own but fetch. When the graph stops is up to the research and is not assumed.
* `ResearchGraph` (`Run` in `RoundsSpec`): weak fairness of the steps of the program, as every
  provider client has a timeout; the two gates wait for people and are not fair.
* `CorpusLayout` (`Proceed`): a process that runs goes on, and the user starts the app again.
  Refusals and crashes are bounded, so a launch without one comes.
* `DesktopHost`: weak fairness of each asyncio task's next step (`Drive`). Nobody has to launch
  the app, ask it for anything or close it.

The other specifications assume no fairness. Deadlock is not checked: a run that is deleted
or ended, a stream closed after a terminal, a graph, a report or a search at its end, and a
user who has done all the bounds allow really stop.

## 8. Proofs

The proofs hold for every value of the constants that satisfies the named assumptions: any
number of workers, requests, reviews, listeners, emitters, tasks, files, launches, texts and
replies, where a run has two or three. A property is seldom inductive; what follows names,
for each one, what had to be said as well, and what goes wrong without it.

**`RunLifecycleProofs`** (runs, driver).
* `TypeCorrect`: `TypeOK` with `Present`, that a request that has decided, or has something
  left to do, refers to rows that exist; without it the type of the reviewed report is not
  inductive.
* `LockExclusion` (`OneExecutor`): `LockHeld`, a worker between acquire and release is the
  owner the lock names.
* `DraftsFollowApproval` (`DraftNeedsApprovedPlan`): `PlanGate`. An approval is committed by a
  handler, dispatched by it later, queued, taken, loaded, run and recorded, and each of these
  may outlive the others; so the invariant says of each place (`WillResume`, `ResumeQueued`,
  `Resumes`) that what is found there follows an approved plan, or a run that is deleted,
  whose late revision is refused. Leave out one place and the step into the next breaks it.
* `CompletionHasRecord`: `CompletedWasSeen`, a status COMPLETED that a handler has *seen* also
  comes with an artifact, because the ORM may leave that status in place.
* `ApprovalFreezesReport` (`ApprovalIsTheArtifact`): `ArtifactBound`, the artifact's review and
  revision are there.
* `Refinement` (`Contract`): the row obeys its check constraint (`RowConsistent`), which makes
  every write over CANCELLED fail; a run at the review gate has no worker in the graph that
  could append a revision under an approval (`ResearchIsNotAtReview`); and the theorems before
  it. One lemma treats the handlers, one the workers; crashes stutter.

**`ResearchGraphProofs`**.
* `OvershootHolds`, `BillingHolds` (`CostAccounted`): `BudgetInv`, which adds that no more
  tasks hold a slot than there are slots (`SlotsHeld`) and that outside the executor nobody
  works and nothing is untold (`Quiet`): without the first the bound is not inductive, without
  the second a node could drop what its tasks had told. A call is begun below the cap only
  (`BelowCap`), and one that returns makes room for at most its own price (`CallReturned`).
* `DraftsAreGrounded` (`DraftIsGrounded`): `FoundedInv`, what each node may rely on in the
  state it is handed: a plan has tasks from the gate on, there is evidence past the critic,
  and a selected-files draft that did not pass stops before the gate.
* `GraphTyped` (`TypeOK`) and `EvidenceOrdered` (`EvidenceInPlanOrder`): `PlanInv`. The plan is
  changed only while there is no evidence (`Planned`), since a merge in the order of one plan
  says nothing of the order of another; and a call under way was made with a round and a page
  to spare (`CallsFit`), without which the counts of a task leave their bounds.

* `QuotesWereRead` (`QuotedFromWhatWasRead`, `TaskEvidence`): `TaskInv`. What is recorded for an
  address is spliced of texts returned for its page, word by word (`Noted`, `Whole`), and so is
  what `SeenGet` puts together from several addresses of one page; the cache holds answers an
  engine may give. The answers of a turn are recorded one after the other, so this is followed
  through that loop.
* `MarkersStayBacked` (`MarkersAreBacked`, `CitationFidelity`): `FidelityInv`, that every line
  keeps its marker while verdicts are asked. The strip goes line by line; what a line
  becomes depends on lines before it only if its text occurs in them (`StandsAlone`).

**`SessionLifecycleProofs`**.
* `StopsStick` (`StopSticks`): `StopInvariant`, whoever may still revive a stopped session, a
  driver past its refresh or a decision past its load, is in the history `late`.
* `FinalReportApproved` (`FinalWasApproved`): `ApprovalInvariant`. As long as no two decisions
  met on one gate, there is at most one task, being sent, queued or with a driver
  (`SoleTask`), none while the session waits (`GateWaits`), the row agrees with the checkpoint
  on the gate and the draft (`GateHolds`), and task and outcome fit the checkpoint they were
  decided at. What a decision may have loaded (`RequestsFit`) holds even after two met.

**`DesktopProofs`** (`DesktopHost`, `CorpusLayout`).
* `DesktopTyped`; `OneDriverHolds` (`OneDriver`) and `RowRecordsRun` (`RowSaysWhatRan`):
  `RecordInvariant`, which also says what a task is about to dial between configuring,
  marking and running (`AboutToDial`), and that a run that has not started has one task and
  nothing a review could resume (`StartsAlone`): a second first segment would read the
  settings again.
* `LayoutIsTyped`; `MoveKeepsDocuments` (`DocumentsSurvive`): `LayoutInv`. Until the move is
  recorded the shared file has the documents; from the last comparison on the backup has
  them; a backup is relied on only after it was compared with the shared file
  (`BackupChecked`); and which half a step is in is known from the record (`Apart`).

**`CorpusStoreProofs`**: `OneVersionIsCurrent` (`OneCurrent`), `SelectionStays`
(`SelectedStays`): `StoreInv`, which adds that no version's number is above the last one given
out, that what a request holds between its read and its write is well typed, and that a
selected version is there, or was removed by a user, already between selecting and stamping.
`SearchStaysInBounds` (`SearchKeepsItsBounds`, `CorpusSearch`): `SearchInv`, that nothing is sent
before a search begins nor offered before it ends well. The rest is the ranking: after each row
that was looked at, the rows left are no nearer than those seen (`Drawn`), no file and no list
is over its share (`Shared`), and a row that was passed over was passed over for a reason that
still stands (`Passed`), which a list that takes one more could undo and does not.
`TextStaysInPlace` (`TextKeepsItsPlace`, `CorpusText`), for files and reports of any length and
any `Target` above 1, `Overlap` and `Runt`: three arguments, one for each part. `Covering`: the
chunks begin in ascending order and leave no solid character out up to where the next one is
sought, which is after the last one's start and no later than its window's end (`NextBegins`);
joining a short tail to its predecessor keeps that. `Placed`: the first part of a file begins at
0, so that an offset is in some part (`PartFound`), and every part bears its own number, or in
an outline the path of the headings it stands under: `Stands`, followed paragraph by paragraph
(`StandsOn`), for the outlines that skip no level. `KeptSoFar`: every line of a block that is
dealt with is in a stored chunk or in an open one that has a body, since the open chunk is
dropped when it holds headings alone.

**`ServerApiProofs`** (`EventStream`, `Accounts`, `ProjectMemory`, `ModelSetup`).
* `CursorHonesty` (`CursorIsHonest`): `WriterInv`, that ids are committed in the order they were
  drawn because the lock is held from the flush to the publish, and that nothing is sent
  before it is logged; and `ReaderInv`, of which `Covered` is the heart: once subscribed and
  past the snapshot, every published row is shown, in the backlog or on the channel. A
  snapshot taken before the subscription would break exactly that part.
* `HistoryEndsWithQuestion` (`WindowEndsWithQuestion`): `ConversationInv`. A turn that has its
  conversation to itself has nobody beside it (`Alone`); until the history is read its question
  is the last message of the conversation, unless the conversation was deleted, which leaves
  none, and once written it is committed, as a history has only committed messages
  (`QuestionLast`, `AtTheEnd`).
* `AccountsTyped`, that a request carries the token of a row there is and that one change at a
  time holds the account (`OneChange`); `PasswordEndsSessions` (`NothingOlderSurvives`): `Older`,
  that a live row of an older password is accounted for (`Accounted`), as is what a request that
  read the password before the change is about to commit (`ReadBefore`, `ReadLive`), and that what
  a change under way does not see was committed together with it (`PassedOver`);
  `AlarmHasACause` (`AlarmNeedsACause`): `AlarmInv`, that a token read as revoked is revoked
  (`SeenRevoked`) and that the cookie of a browser that was not disturbed is a token it has not
  itself ended, unless the request that does so is still under way (`Calm`).
* `ApprovedMemory`, `TurnsCiteApproved` (`CitedWasApproved`): `MemoryInv`, whatever an ingestion
  or a turn holds between two of its steps comes from a report that was approved (`WasApproved`),
  whatever later reviews say; a deletion or a rework may fall there.
* `OfflineCallsStay` (`OfflineStays`): `OfflineInv`, a segment dials under what its run said,
  whatever is saved meanwhile. `NotReadyTrue` (`NotReadyIsTrue`) relates two computations of
  one state, the page's and the run's.

**`ResearchRecordProofs`** (`BundleFile`, `Grounding`, `EvidenceLedger`).
* `VerdictHolds` (`VerdictIsTrue`), `FileSaysWhatRan` (`SaysWhatRan`), `RatesAgree`
  (`RateAgrees`): `BundleInv`. A file is frozen by one build and handed out by another, so what is
  said of a file handed out has to hold from the day it was frozen (`Handing`), of a row that
  keeps what the run ran under (`RowKept`); and whatever is changed in a file, it keeps the hash
  it was handed out with (`Marked`).
* `ClaimsAreSupported` (`ShownWasSupported`), `RejectionsStand` (`RejectedStaysOut`), `CostsAddUp`:
  `CheckInv`. Every place of the text has its claim, or waits for one (`TextRuled`); what
  waits for the call on relevance names no claim that waits for the call on support, and what
  waits to be inferred has its citations (`QueueFits`); a verdict that supports a claim rests
  on admissible citations none of which was judged beside the point (`VerdictsBacked`); and
  the calls made are the calls charged for, whichever way the check ends (`CallsKept`).
* `LedgerTyped` (`TypeOK`), `MarkersStay` (`MarkersKeepTheirRow`), `ArtifactPasses`
  (`ArtifactVerifies`), `WritesOnce` (`StoredOnce`): `LedgerInv`. The tables are empty or hold the
  graph's list row by row (`Holding`), so the links of a revision, whenever it was written,
  lead where the tables lead now (`RevisionsFit`); a checkpoint that was read once means full
  tables (`OutcomeFits`), only the first task researches and it finds nothing stored
  (`PendingFits`), the stored conflict is that of the graph's pair (`ConflictsFit`), and the
  artifact says what the tables say (`ArtifactFits`). A write is followed item by item: into
  empty tables each item adds its row (`StepGrows`), over its own rows each takes the row of
  its place (`StepMatches`), although it looks for any row with its source and text.

The proof system cannot instantiate the library's induction theorems, whose parameter is an
operator. Where a proof needs induction it is stated of a set instead (`Counting`, from the
well-foundedness of the naturals: a set of naturals that has 0 and every successor is all of
them), in `SequenceFacts`, a module of lemmas the other proofs cite. What is known there of
`FlattenSeq` (`HoldsAll`, `InTurn`, `FlattenedEnd`, `FlattenOne`) and of `Among`, the list
comprehension with a condition that `Filtering` defines (`AmongHolds`, `AmongEnd`), rests on
it, and so do `Ordered`, about the order in which lines are judged and repaired (`InOrder`),
`Iterates` and `LoopKeeps`, about what a loop computes and keeps, and the writing of a list
item by item in the ledger. Recursion is written as recursive functions in the modules that are
proved about; what one of them computes is shown once by that induction (`RanksInTurns`) and then
used as an equation.

**Checked by TLC only.** Everything temporal, because the proof system has no support for
fairness and ENABLED: `CancelledComesToRest`, `RunningSettlesUnlessLost`, `EveryRowArrives`,
`ComesToRest`, `MoveCompletes`.

## 9. Observations

What was met while reading and is not the subject of a run; each is a difference between
what the code does and what its text says, or a limit a property had to name.

**Runs.**
* A rework or approval dispatched while the lock's holder is past its last look is dropped,
  and the run stays RUNNING (`app/run_execution.py:496`); `lost` in `RunningSettlesUnlessLost`
  is that case.
* A cancel decided on a stale status overwrites FAILED, and a rework revives an ended run
  (`app/api/v1/runs.py:1127`), though the user guide calls FAILED terminal.
* A second plan approval resumes a graph at its review gate, which counts a rework
  (`runs.py:627`).
* A run deleted while its worker publishes gets trace rows and memory chunks afterwards
  (`run_execution.py:592`).

**Stream.** A publish that fails after its commit, then a sibling's row, and the cursor is past
the first (`adapters.py:94`): `CursorIsHonest` excludes rows never published. A status read
RUNNING before the gate's row lands leaves a parked run's stream tailing (`runs.py:995`).
`EveryRowArrives` ends where the page hangs up, and these are the cases in which rows follow.
A FAILED run that is resumed has its FAILED row behind it, at which every later subscription
replays to its end and the page closes (`runs.py:101`, `hooks/runs.ts:254`), although
`useRunStream.test.ts:117-118` says there is "nothing after it to miss". If it is resumed before
the page has fetched FAILED, the status it compares is RUNNING both times and no new subscription
is opened at all. Back at the review gate after a rework, a subscription hangs up at the first
HITL_READY of the replay. A page that hung up at a gate is not told of a decision made in another
browser until it is loaded again.

**Graph.** The critic and the later nodes call the model without looking at the budget
(`graph.py:1153`), so one task at a time still overshoots. `max_critic_loops = 0`, which
nothing refuses, gives an empty round and a diagnosis that blames the search provider
(`graph.py:1022`). `gather_or_cancel` raises whichever failure is found first
(`concurrency.py:48`).

**One question.** A failed read counts toward `max_pages`. A repeat in the same turn is answered
from the record before the turn, though a comment says "in this turn or an earlier one". A
quotation across the seam of two texts seen for one address verifies. Submission arguments
that are not JSON count as an empty submission and suppress the forced one
(`graph.py:550-592`). A redirect to a page of search results is not checked again.

**Citation check.** A later batch that fails discards the explicit refusals of the earlier
ones and forgets their cost (`graph.py:1401`); `Forgotten` in `CostAccounted` is that cost, as a
term of the sum, and no property would notice it.

**Grounding.** A removal after the last round may take the premises of a conclusion that stays
(`grounding_repair.py:210`). `_drop_non_supporting` may take the only citation of another
claim on the line. A dropped table row makes the next one a header. An indented `## Sources`
ships unvalidated (`_split`).

**Ledger and bundles.** Two addresses of one page: the report numbers both, the ledger keeps
the later number, and the approved artifact fails its verifier. A marker the graph invented
has the same end (`WellCited` excludes it). The outcome of the last persist alone decides
whether a run is approvable. A session's export takes an unreadable checkpoint for an empty
one and hands out a bundle without evidence, which a run's refuses.

**Sessions.** A queued or stopped session may be deleted, and its driver writes the checkpoint
thread back afterwards (`research.py:722`). The ORM's no-op may leave RUNNING for ever. On the
desktop no set of sessions in flight guards two drivers. Racing requests may exceed the rework
limit by one each.

**Corpus.** Two folder moves at once can form a cycle (`corpus.py:1206`). The number of a
deleted newest version is used again. Reverting to older bytes meets a UNIQUE constraint. An
upload in flight revives a deleted document. CSV rows are numbered after blank ones are
dropped (`documents.py:346`). A chunk of a report may exceed its target by a heading and an
overlap (`chunking.py:197`). `superseded` is given as the reason when the current version was
indexed under another model. A local embedder's name may stand for a remote host until the
search refuses it. The search of saved reports is not guarded against a hosted embedder.

**Desktop.** A task dropped by the in-flight guard, one that dies outside the graph's `try` and
one lost at quit leave the row RUNNING, and nothing resumes it at launch: `lost` again.
Streams take their snapshot before they subscribe, though a comment says otherwise. The
sidecar's Ollama child outlives it. A torn lock file stops every later launch of the engine.
`sidecar_run_config` takes no notice of `OLLAMA_BASE_URL`.

**Accounts.** A sign-in with the old password, or a refresh, that is under way while the password
changes leaves a live session (`NothingOlderSurvives` names it), although `auth.py:213` and `:245`
say other devices are signed out. After a change the next refresh of any other browser presents a
token revoked by it, counts as reuse and revokes the caller's new token (`auth.py:214` says "The
caller keeps working"); and since the 401 of `auth.py:140-142` carries no cookie, that browser
presents the same token on every later refresh, and each one ends every session of the account
until somebody signs in on it. A single lost answer starts the same.

**Projects and memory.** Memory is of reports that were approved, not of those that are: the run
`RejectedIsAbsent` shows it. Overlapping turns may be shown a history that ends with the other's
question, and `WindowEndsWithQuestion` leaves them out. Chunks of a deleted report take places
among the `TopK` before they are dropped. A
failed index is never tried again. A deleted project keeps the checkpoints of its runs, and a
late ingestion creates its corpus anew. A run approved between the two steps of a project's
deletion makes the deletion fail.

**Models.** The server's readiness does not see a custom endpoint that takes no key
(`NotReadyIsTrue` excludes it). Readiness may be true while the effective routing needs
another provider's key. Prices are validated when the API starts, not for a saved routing
after an upgrade. A mismatched provider is repaired, though a comment says rejected.

## 10. Not modelled

* **Preferences**: one section of one row is merged; two saves that overlap lose one, and
  nothing else depends on the order.
* **Rate limits and quotas**: counters with a time to live in Redis, read before the outcome
  they count.
* **Prompts, outlines and schemas**: text. **Evaluation harness**: a batch program over the
  engine, outside the product. **Migrations and deployment**: schema history and packaging.
* Of the modelled components: Markdown and PDF exports (layout), the projection of a run for
  its page, archiving, provenance grades, registration and profile writes, the schema upgrade
  of the desktop app and its local model server's processes, the page beyond its EventSource,
  the status it fetches and its refresh, the inside of the providers' clients, and which of several failures a
  fan-out raises. In `ResearchGraph` the resumption of a thread whose node raised is left out.
* Time is not kept anywhere: a timeout, an expiry or a lapse is a step that may happen.
