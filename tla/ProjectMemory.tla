--------------------------- MODULE ProjectMemory ---------------------------
(***************************************************************************)
(* What a project remembers and what its chats read: projects               *)
(* (app/api/v1/projects.py), approved reports indexed into memory_chunks and *)
(* retrieved from them (app/services/memory.py), and the turns of the two    *)
(* kinds of conversation, project threads (app/api/v1/threads.py) and the    *)
(* chat of one finished session (app/api/v1/chat.py).                        *)
(*                                                                           *)
(* A report is a session or a run.  A run is approved once, since it has one *)
(* artifact, but no review looks at its status: an approved run may be sent  *)
(* back or rejected, and its chunks stay.                                    *)
(*                                                                           *)
(* A request works between awaits while others run: an embedding call stands *)
(* between the check of an ingestion and its rows, a model call between a    *)
(* question and its answer.  created_at is the time a row's transaction      *)
(* began, not the time it was committed, so a place in the order of a        *)
(* conversation is taken early and filled late.                              *)
(***************************************************************************)
EXTENDS Naturals, Sequences, FiniteSets, Filtering

CONSTANTS
    Projects, Reports, Threads, Turns,
    Sessions,       \* the reports that are sessions; the others are runs
    Home,           \* the project of each report and thread
    Chats,          \* the conversations that turns are taken in
    Models,         \* embedding models a deployment may be switched to
    TopK,           \* chunks a turn retrieves, DEFAULT_TOP_K
    HistoryLimit    \* messages of a conversation a model is shown

ASSUME ConversationAssumption ==
    /\ Sessions \subseteq Reports /\ Threads \cap Reports = {}
    /\ Chats \subseteq Threads \cup Sessions
ASSUME HistoryAssumption == HistoryLimit \in Nat \ {0}

VARIABLES
    project,        \* "live", "deleting" (its checks have passed) or "gone"
    report,         \* "none", "OPEN" (under way or at a gate), "FAILED" (or
                    \* cancelled), "COMPLETED" or "gone"
    approval,       \* history: was its text approved, and was that taken back?
    memory_chunks,  \* rows, one [report, model] for each indexed report
    ingest,         \* per report: how far its ingestion is
    chat_thread,    \* "none", "live" or "gone"
    collected,      \* per project: the runs its deletion has read
    places,         \* per conversation: messages in the order of created_at
    committed,      \* the messages whose rows are there
    turn,           \* per turn: the request that answers it
    cites,          \* per turn: the reports it may cite
    window,         \* per turn: the history its model was shown
    overlapped      \* history: turns that shared their conversation in time

turnVars   == <<places, committed, turn, cites, window, overlapped>>
reportVars == <<report, approval>>
rowVars    == <<project, report, approval, chat_thread, collected>>
memoryVars == <<project, report, approval, memory_chunks, ingest, chat_thread, collected,
                places, committed, turn, cites, window, overlapped>>

Runs == Reports \ Sessions
Held == {"OPEN", "FAILED", "COMPLETED"}

NoIngest == [step |-> "none", model |-> "none"]
NoTurn == [step |-> "idle", in |-> "nowhere"]
Message(t, role) == [turn |-> t, role |-> role]

MemoryTypeOK ==
    /\ project \in [Projects -> {"live", "deleting", "gone"}]
    /\ report \in [Reports -> {"none", "OPEN", "FAILED", "COMPLETED", "gone"}]
    /\ approval \in [Reports -> {"never", "stands", "taken back"}]
    /\ memory_chunks \subseteq [report : Reports, model : Models]
    /\ \A r \in Reports :
        /\ ingest[r].step \in {"none", "approved", "embedding"}
        /\ ingest[r].model \in Models \cup {"none"}
    /\ chat_thread \in [Threads -> {"none", "live", "gone"}]
    /\ collected \in [Projects -> SUBSET Reports]
    /\ \A c \in Chats : places[c] \in Seq([turn : Turns, role : {"user", "assistant"}])
    /\ committed \subseteq [turn : Turns, role : {"user", "assistant"}]
    /\ \A t \in Turns :
        turn[t].step \in {"idle", "asked", "near", "grounded", "written", "streaming", "over"}
    /\ cites \in [Turns -> SUBSET Reports]

-----------------------------------------------------------------------------
(* Projects, runs and threads *)

\* A row whose parent is not there is refused by its foreign key.
Owned(x) == project[Home[x]] # "gone"

CreateThread(h) ==
    /\ chat_thread[h] = "none" /\ Owned(h)
    /\ chat_thread' = [chat_thread EXCEPT ![h] = "live"]
    /\ UNCHANGED <<project, reportVars, memory_chunks, ingest, collected, turnVars>>

\* The messages of the conversations cs, which cascade with them.
Forget(cs) ==
    /\ committed' = {m \in committed : turn[m.turn].in \notin cs}
    /\ places' = [c \in Chats |-> IF c \in cs THEN <<>> ELSE places[c]]
    /\ UNCHANGED <<turn, cites, window, overlapped>>

DeleteThread(h) ==
    /\ chat_thread[h] = "live"
    /\ chat_thread' = [chat_thread EXCEPT ![h] = "gone"]
    /\ Forget({h})
    /\ UNCHANGED <<project, reportVars, memory_chunks, ingest, collected>>

CreateRun(r) ==
    /\ report[r] = "none" /\ Owned(r)
    /\ report' = [report EXCEPT ![r] = "OPEN"]
    /\ UNCHANGED <<project, approval, memory_chunks, ingest, chat_thread, collected, turnVars>>

\* Driving, cancelling and resuming, of a completed run too when its worker is late:
\* no driver completes a report alone, and a session does not come back.
Proceed(r) ==
    /\ report[r] \in Held
    /\ \E s \in IF r \in Runs THEN {"OPEN", "FAILED"} ELSE {"FAILED"} :
          report' = [report EXCEPT ![r] = s]
    /\ UNCHANGED <<project, approval, memory_chunks, ingest, chat_thread, collected, turnVars>>

\* delete_run and delete_session: a run that has ended, or a session that is not
\* running, with its chunks and its chat.
DeleteReport(r) ==
    /\ report[r] \in Held /\ (r \in Runs => report[r] # "OPEN")
    /\ report' = [report EXCEPT ![r] = "gone"]
    /\ memory_chunks' = {c \in memory_chunks : c.report # r}
    /\ Forget({r})
    /\ UNCHANGED <<project, approval, ingest, chat_thread, collected>>

\* delete_project refuses while a run is open, and reads which runs there are.  A
\* session at its gate is no obstacle.
CheckProject(p) ==
    /\ project[p] = "live"
    /\ \A r \in Runs : Home[r] = p => report[r] # "OPEN"
    /\ project' = [project EXCEPT ![p] = "deleting"]
    /\ collected' = [collected EXCEPT ![p] = {r \in Runs : Home[r] = p /\ report[r] \in Held}]
    /\ UNCHANGED <<reportVars, memory_chunks, ingest, chat_thread, turnVars>>

\* A run that came since then may have a review, as an approved one has, that
\* restricts its deletion, and the whole transaction is refused; otherwise
\* everything under the project goes.
DeleteProject(p) ==
    LET late == {r \in Runs : Home[r] = p /\ report[r] \in Held} \ collected[p] IN
    /\ project[p] = "deleting"
    /\ \/ /\ late # {}
          /\ project' = [project EXCEPT ![p] = "live"]
          /\ UNCHANGED <<report, memory_chunks, chat_thread, turnVars>>
       \/ /\ \A r \in late : approval[r] = "never"
          /\ project' = [project EXCEPT ![p] = "gone"]
          /\ report' = [r \in Reports |->
                IF Home[r] = p /\ report[r] # "none" THEN "gone" ELSE report[r]]
          /\ chat_thread' = [h \in Threads |->
                IF Home[h] = p /\ chat_thread[h] # "none" THEN "gone" ELSE chat_thread[h]]
          /\ memory_chunks' = {c \in memory_chunks : Home[c.report] # p}
          /\ Forget({c \in Threads \cup Reports : Home[c] = p})
    /\ collected' = [collected EXCEPT ![p] = {}]
    /\ UNCHANGED <<approval, ingest>>

-----------------------------------------------------------------------------
(* Deciding about a report, and indexing an approved one *)

\* Approval commits COMPLETED; the same request then indexes the report.  A run
\* is approved from any status, but once (uq_artifact_run); a session at its gate,
\* which two decisions at once may complete twice.
Approve(r) ==
    /\ IF r \in Runs THEN report[r] \in Held /\ approval[r] = "never"
                     ELSE report[r] \in {"OPEN", "COMPLETED"}
    /\ ingest[r] = NoIngest
    /\ report' = [report EXCEPT ![r] = "COMPLETED"]
    /\ approval' = [approval EXCEPT ![r] = "stands"]
    /\ ingest' = [ingest EXCEPT ![r].step = "approved"]
    /\ UNCHANGED <<project, memory_chunks, chat_thread, collected, turnVars>>

\* A later review of an approved text.
TakenBack(r) == [approval EXCEPT ![r] = IF @ = "stands" THEN "taken back" ELSE @]

\* REWORK_REQUESTED sets a run of any status to RUNNING; its chunks stay.
Rework(r) ==
    /\ r \in Runs /\ report[r] \in Held
    /\ report' = [report EXCEPT ![r] = "OPEN"]
    /\ approval' = TakenBack(r)
    /\ UNCHANGED <<project, memory_chunks, ingest, chat_thread, collected, turnVars>>

\* REJECTED leaves the run where it is, and its chunks.
Reject(r) ==
    /\ r \in Runs /\ report[r] \in Held
    /\ approval' = TakenBack(r)
    /\ UNCHANGED <<project, report, memory_chunks, ingest, chat_thread, collected, turnVars>>

Indexed(r, m) == [report |-> r, model |-> m] \in memory_chunks

\* The status is the one the approval has set, not read again.  The model is the
\* one configured at that moment.  A report indexed under it is skipped; without a
\* provider the gap is logged and stays.
StartIngest(r) ==
    /\ ingest[r].step = "approved"
    /\ \/ ingest' = [ingest EXCEPT ![r] = NoIngest]
       \/ \E m \in Models :
             ~Indexed(r, m) /\ ingest' = [ingest EXCEPT ![r] = [step |-> "embedding", model |-> m]]
    /\ UNCHANGED <<rowVars, memory_chunks, turnVars>>

\* The report's earlier rows are deleted, then the new ones are added.
Replaced(r, m) == {c \in memory_chunks : c.report # r} \cup {[report |-> r, model |-> m]}

\* The rows replace the report's earlier ones, in one transaction.  Nothing ties
\* them to the report, which may be gone by now; a project that is gone refuses
\* them, and the call itself may fail.
WriteChunks(r) ==
    /\ ingest[r].step = "embedding"
    /\ \/ /\ Owned(r)
          /\ memory_chunks' = Replaced(r, ingest[r].model)
       \/ UNCHANGED memory_chunks
    /\ ingest' = [ingest EXCEPT ![r] = NoIngest]
    /\ UNCHANGED <<rowVars, turnVars>>

-----------------------------------------------------------------------------
(* A turn of conversation *)

\* The conversation is there for a message's foreign key.
There(c) == IF c \in Threads THEN chat_thread[c] = "live" ELSE report[c] \in Held

\* A turn is begun in a thread, or about a session that is completed.
Open(c) == There(c) /\ (c \in Sessions => report[c] = "COMPLETED")

Busy == {"asked", "near", "grounded", "written", "streaming"}

Others(t, c) == {s \in Turns \ {t} : turn[s].in = c /\ turn[s].step \in Busy}

At(t, step) == turn' = [turn EXCEPT ![t].step = step]

Take(c, m) == places' = [places EXCEPT ![c] = Append(@, m)]

\* The ownership check begins the transaction the question's row belongs to.
Ask(t, c) ==
    /\ turn[t].step = "idle" /\ Open(c)
    /\ turn' = [turn EXCEPT ![t] = [step |-> "asked", in |-> c]]
    /\ Take(c, Message(t, "user"))
    /\ overlapped' = IF Others(t, c) = {} THEN overlapped
                     ELSE overlapped \cup {t} \cup Others(t, c)
    /\ UNCHANGED <<rowVars, memory_chunks, ingest, committed, cites, window>>

\* A thread's turn embeds its question before anything is written; without a
\* provider it ends here.
NoProvider(t) ==
    /\ turn[t].step = "asked" /\ turn[t].in \in Threads
    /\ At(t, "over")
    /\ UNCHANGED <<rowVars, memory_chunks, ingest, places, committed, cites, window, overlapped>>

\* The nearest chunks of this project and this model.
Candidates(t, m) == {c \in memory_chunks : c.model = m /\ Home[c.report] = Home[turn[t].in]}

Nearest(t) ==
    /\ turn[t].step = "asked" /\ turn[t].in \in Threads
    /\ \E m \in Models : \E hits \in SUBSET Candidates(t, m) :
        /\ Cardinality(hits) <= TopK
        /\ cites' = [cites EXCEPT ![t] = {c.report : c \in hits}]
    /\ At(t, "near")
    /\ UNCHANGED <<rowVars, memory_chunks, ingest, places, committed, window, overlapped>>

\* Whatever the index found.
Unresolved(hits) == hits

\* _resolve_reports: a chunk whose report has gone is dropped, whatever the status
\* of the others.  Each report is in one of the two tables, which are read one after
\* the other: as one step, since the id that is sought is in the one table or in none.
Resolved(hits) == {r \in hits : report[r] \notin {"none", "gone"}}

Resolve(t) ==
    /\ turn[t].step = "near"
    /\ cites' = [cites EXCEPT ![t] = Resolved(@)]
    /\ At(t, "grounded")
    /\ UNCHANGED <<rowVars, memory_chunks, ingest, places, committed, window, overlapped>>

\* The question is committed, or refused when its conversation is gone: a thread's
\* once it has its excerpts, a report chat's first of all.  The excerpts go into
\* the prompt and are not looked up again.
WriteQuestion(t) ==
    /\ turn[t].step = IF turn[t].in \in Threads THEN "grounded" ELSE "asked"
    /\ \/ /\ There(turn[t].in)
          /\ committed' = committed \cup {Message(t, "user")}
          /\ At(t, "written")
       \/ /\ ~There(turn[t].in)
          /\ At(t, "over")
          /\ UNCHANGED committed
    /\ cites' = [cites EXCEPT ![t] = {}]
    /\ UNCHANGED <<rowVars, memory_chunks, ingest, places, window, overlapped>>

\* The rows of a conversation that are there, in the order of created_at.
Visible(c) == Among(places[c], committed)

\* recent_turns as it was: the first messages ever written.
OldestTurns(c) ==
    SubSeq(Visible(c), 1, IF Len(Visible(c)) < HistoryLimit THEN Len(Visible(c)) ELSE HistoryLimit)

\* recent_turns: the newest messages, oldest first.
RecentTurns(c) ==
    LET n == Len(Visible(c)) IN
    SubSeq(Visible(c), IF n > HistoryLimit THEN n - HistoryLimit + 1 ELSE 1, n)

\* Reading the history begins the transaction the answer's row belongs to.
ReadHistory(t) ==
    LET c == turn[t].in IN
    /\ turn[t].step = "written"
    /\ window' = [window EXCEPT ![t] = RecentTurns(c)]
    /\ Take(c, Message(t, "assistant"))
    /\ At(t, "streaming")
    /\ UNCHANGED <<rowVars, memory_chunks, ingest, committed, cites, overlapped>>

\* A stream that fails, or whose conversation has gone, leaves the question
\* without an answer.
WriteAnswer(t) ==
    /\ turn[t].step = "streaming"
    /\ \/ /\ There(turn[t].in)
          /\ committed' = committed \cup {Message(t, "assistant")}
       \/ UNCHANGED committed
    /\ At(t, "over")
    /\ window' = [window EXCEPT ![t] = <<>>]
    /\ UNCHANGED <<rowVars, memory_chunks, ingest, places, cites, overlapped>>

-----------------------------------------------------------------------------

MemoryInit ==
    /\ project = [p \in Projects |-> "live"]
    /\ report = [r \in Reports |-> "none"]
    /\ approval = [r \in Reports |-> "never"]
    /\ memory_chunks = {}
    /\ ingest = [r \in Reports |-> NoIngest]
    /\ chat_thread = [h \in Threads |-> "none"]
    /\ collected = [p \in Projects |-> {}]
    /\ places = [c \in Chats |-> <<>>]
    /\ committed = {}
    /\ turn = [t \in Turns |-> NoTurn]
    /\ cites = [t \in Turns |-> {}]
    /\ window = [t \in Turns |-> <<>>]
    /\ overlapped = {}

IndexApproved(r) == StartIngest(r) \/ WriteChunks(r)

Turn(t) ==
    \/ \E c \in Chats : Ask(t, c)
    \/ NoProvider(t) \/ Nearest(t) \/ Resolve(t)
    \/ WriteQuestion(t) \/ ReadHistory(t) \/ WriteAnswer(t)

MemoryNext ==
    \/ \E h \in Threads : CreateThread(h) \/ DeleteThread(h)
    \/ \E r \in Reports : CreateRun(r) \/ Proceed(r) \/ DeleteReport(r)
                           \/ Approve(r) \/ Rework(r) \/ Reject(r) \/ IndexApproved(r)
    \/ \E p \in Projects : CheckProject(p) \/ DeleteProject(p)
    \/ \E t \in Turns : Turn(t)

MemorySpec == MemoryInit /\ [][MemoryNext]_memoryVars

-----------------------------------------------------------------------------
(* Properties *)

\* The excerpts a turn goes on with come from reports of its own project that a
\* human approved, and that can be opened at that moment, although chunks outlive a
\* report deleted while it was being indexed, and another may be deleted between the
\* search and the prompt.  It does not say that the approval still stands.
CitedWasApproved ==
    [][\A t \in Turns : turn[t].step = "near" /\ turn'[t].step = "grounded" =>
        \A r \in cites'[t] :
            /\ Home[r] = Home[turn[t].in]
            /\ approval[r] # "never" /\ report[r] \in Held]_memoryVars

\* What memory.py says of rejected work: what retrieval can return was not taken
\* back by a later review of the run.
RejectedIsAbsent ==
    \A r \in Resolved({c.report : c \in memory_chunks}) : approval[r] # "taken back"

\* What recent_turns promises: a turn that had its conversation to itself is
\* shown a history that ends with the question asked, however long it is.
WindowEndsWithQuestion ==
    \A t \in Turns \ overlapped : window[t] # <<>> =>
        window[t][Len(window[t])] = Message(t, "user")

=============================================================================
