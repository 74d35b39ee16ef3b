--------------------------- MODULE SessionLifecycle ---------------------------
(***************************************************************************)
(* One research session, the older of the two pipelines, on either host.   *)
(* The same handlers load the row, decide and commit later; the server     *)
(* drives a session from a Celery task under a Redis lock, the desktop app *)
(* from an asyncio task under none.  A server driver holds the row it      *)
(* loaded before the graph ran (expire_on_commit is off) and re-reads only *)
(* cancelled_at; the desktop loads it again when the graph has stopped.    *)
(***************************************************************************)
EXTENDS Naturals, FiniteSets

CONSTANTS Hosts,        \* "server", "desktop" or both
          Drivers,      \* workers, or asyncio tasks, that may drive the session
          Requests,     \* concurrent API requests about this session
          SkipChoices,  \* values of skip_plan_gate a client may ask for
          MayFail,      \* whether processes die, brokers refuse and publishes raise
          ReworkLimit,  \* rework_count at which another rework is refused (3 in the code)
          MaxDecisions  \* bound: decisions committed about the session

ASSUME SessionAssumption ==
    /\ Hosts \subseteq {"server", "desktop"}
    /\ SkipChoices \subseteq BOOLEAN /\ MayFail \in BOOLEAN
    /\ ReworkLimit \in Nat /\ MaxDecisions \in Nat
    /\ Drivers \cap {"free", "orphan"} = {}

VARIABLES
    host,      \* which program this is; never changes
    row,       \* the sessions row
    approved,  \* audit_log: drafts that were approved
    memory,    \* does project memory hold this report?
    thread,    \* the LangGraph checkpoint: its gate and its rework_count
    queue,     \* messages in the broker, or tasks the event loop has not started
    lock,      \* owner of the server's session lock
    driver,    \* what each driver is doing
    request,   \* what each request is doing
    decisions, \* history: decisions committed
    slips      \* history: decisions made on a row that had moved

vars == <<host, row, approved, memory, thread, queue, lock, driver, request, decisions, slips>>

-----------------------------------------------------------------------------
(* Vocabulary *)

Statuses  == {"PENDING", "RUNNING", "AWAITING_PLAN", "AWAITING_APPROVAL", "COMPLETED", "FAILED"}
NoRow     == {"NONE", "DELETED"}
TaskKinds == {"start", "plan", "approve", "rework"}
Decisions == TaskKinds \ {"start"}
Ops       == Decisions \cup {"cancel", "delete"}
Positions == {"none", "plan_gate", "review_gate", "mid", "done", "failed"}
Outcomes  == {"awaiting_plan", "awaiting_approval", "completed", "failed", "crashed"}
Versions  == 0 .. MaxDecisions + 1

Exists == row.status \notin NoRow

\* Position and rework_count of the graph; the draft at its gate is version reworks + 1.
Thread(at, n) == [at |-> at, reworks |-> n]

IdleDriver  == [pc |-> "idle", task |-> "start", seen |-> "NONE",
                from |-> Thread("none", 0), outcome |-> "failed", reworks |-> 0]
IdleRequest == [pc |-> "idle", op |-> "start", seen |-> "NONE", draft |-> 0]

Quiet ==
    /\ \A d \in Drivers : driver[d].pc = "idle"
    /\ \A r \in Requests : request[r].pc = "idle"
    /\ \A k \in TaskKinds : queue[k] = 0

\* `session.status = status` flushed by a session that loaded `seen`: an
\* attribute set to the value it was loaded with emits nothing.
Assigned(seen, status) ==
    IF status = seen THEN row ELSE [row EXCEPT !.status = status]

-----------------------------------------------------------------------------
(* Route handlers *)

\* start_research: the monthly ceiling, routing and project checks refuse
\* before there is a row; the row is committed before anything is dispatched.
StartResearch(r) ==
    /\ request[r].pc = "idle"
    /\ row.status = "NONE"
    /\ \E skip \in SkipChoices : row' = [row EXCEPT !.status = "PENDING", !.skip = skip]
    /\ request' = [request EXCEPT ![r] = [IdleRequest EXCEPT !.pc = "dispatch"]]
    /\ UNCHANGED <<host, approved, memory, thread, queue, lock, driver, decisions, slips>>

\* Desktop, first launch: the marker file, then a RUNNING row and its task.
SeedDemo ==
    /\ host = "desktop"
    /\ row.status = "NONE"
    /\ row' = [row EXCEPT !.status = "RUNNING"]
    /\ queue' = [queue EXCEPT !["start"] = 1]
    /\ UNCHANGED <<host, approved, memory, thread, lock, driver, request, decisions, slips>>

\* Mutant: the 409 and the rework limit are missing.
AdmitsAnyStatus(op) ==
    CASE op = "plan"    -> row.status = "AWAITING_PLAN"
      [] op \in {"approve", "rework"} -> row.draft # 0
      [] op = "cancel"  -> row.status \in {"RUNNING", "PENDING"}
      [] op = "delete"  -> row.status # "RUNNING"

\* The 409s and the 400 of the five handlers, on the row they loaded.
Admits(op) ==
    CASE op = "plan"    -> row.status = "AWAITING_PLAN"
      [] op = "approve" -> row.status = "AWAITING_APPROVAL"
      [] op = "rework"  -> row.status = "AWAITING_APPROVAL" /\ row.reworks < ReworkLimit
      [] op = "cancel"  -> row.status \in {"RUNNING", "PENDING"}
      [] op = "delete"  -> row.status # "RUNNING"

\* _authorized_session and the checks; a refused request is not a step.
Load(r, op) ==
    /\ request[r].pc = "idle"
    /\ Exists
    /\ Admits(op)
    /\ request' = [request EXCEPT
          ![r] = [pc |-> "loaded", op |-> op, seen |-> row.status, draft |-> row.draft]]
    /\ UNCHANGED <<host, row, approved, memory, thread, queue, lock, driver, decisions, slips>>

Loaded(r, op) == request[r].pc = "loaded" /\ request[r].op = op

\* The row is not the one this request decided on.
Stale(r) == row.status # request[r].seen \/ row.draft # request[r].draft

\* submit_plan and approve_or_rework: the audit row, what was decided and
\* RUNNING are one commit; the dispatch comes after it.
Decide(r, op) ==
    /\ op \in Decisions
    /\ Loaded(r, op)
    /\ Exists
    /\ decisions < MaxDecisions
    /\ row' = [row EXCEPT !.status = "RUNNING"]
    /\ approved' = IF op = "approve" THEN approved \cup {request[r].draft} ELSE approved
    /\ request' = [request EXCEPT ![r] = [IdleRequest EXCEPT !.pc = "dispatch", !.op = op]]
    /\ decisions' = decisions + 1
    /\ slips' = IF Stale(r) THEN slips \cup {"doubled"} ELSE slips
    /\ UNCHANGED <<host, memory, thread, queue, lock, driver>>

\* A driver that has looked at cancelled_at and not written yet, or a decision
\* that has loaded its row, will not see a stop that commits now.
Blind(r) ==
    \/ \E d \in Drivers : driver[d].pc = "fresh"
    \/ \E q \in Requests \ {r} : request[q].pc = "loaded" /\ request[q].op \in Decisions

\* cancel_session; the durable FAILED event follows.
CancelSession(r) ==
    /\ Loaded(r, "cancel")
    /\ Exists
    /\ row' = [row EXCEPT !.status = "FAILED", !.cancelled = TRUE]
    /\ request' = [request EXCEPT ![r] = IdleRequest]
    /\ slips' = IF Blind(r) THEN slips \cup {"late"} ELSE slips
    /\ UNCHANGED <<host, approved, memory, thread, queue, lock, driver, decisions>>

\* delete_session: memory and the row in one commit (audit rows cascade), then
\* the checkpoint thread, best effort.
DeleteSession(r) ==
    /\ Loaded(r, "delete")
    /\ Exists
    /\ row' = [row EXCEPT !.status = "DELETED"]
    /\ approved' = {}
    /\ memory' = FALSE
    /\ request' = [request EXCEPT ![r] = [IdleRequest EXCEPT !.pc = "purge"]]
    /\ UNCHANGED <<host, thread, queue, lock, driver, decisions, slips>>

PurgeThread(r) ==
    /\ request[r].pc = "purge"
    /\ thread' = Thread("none", 0)
    /\ request' = [request EXCEPT ![r] = IdleRequest]
    /\ UNCHANGED <<host, row, approved, memory, queue, lock, driver, decisions, slips>>

\* The transaction fails, the row is gone, or the API process dies before it.
Abandon(r) ==
    /\ request[r].pc = "loaded"
    /\ request' = [request EXCEPT ![r] = IdleRequest]
    /\ UNCHANGED <<host, row, approved, memory, thread, queue, lock, driver, decisions, slips>>

\* A message for the broker, or asyncio.create_task.
Dispatch(r) ==
    /\ request[r].pc = "dispatch"
    /\ queue' = [queue EXCEPT ![request[r].op] = @ + 1]
    /\ request' = [request EXCEPT ![r] = IdleRequest]
    /\ UNCHANGED <<host, row, approved, memory, thread, lock, driver, decisions, slips>>

\* The broker refuses, or the API process dies, after the commit.
DispatchFails(r) ==
    /\ MayFail /\ host = "server"
    /\ request[r].pc \in {"dispatch", "purge"}
    /\ request' = [request EXCEPT ![r] = IdleRequest]
    /\ UNCHANGED <<host, row, approved, memory, thread, queue, lock, driver, decisions, slips>>

Handle(r) ==
    \/ StartResearch(r)
    \/ \E op \in Ops : Load(r, op)
    \/ \E op \in Decisions : Decide(r, op)
    \/ CancelSession(r)
    \/ DeleteSession(r)
    \/ PurgeThread(r)
    \/ Abandon(r)
    \/ Dispatch(r)
    \/ DispatchFails(r)

-----------------------------------------------------------------------------
(* The driver: _execute with _persist_outcome on the server, _drive_session
   with _apply_outcome on the desktop *)

\* A driver keeps only what its next steps still need.
Goto(d, pc) == driver' = [driver EXCEPT ![d] = [IdleDriver EXCEPT !.pc = pc]]

\* The task ends and lets go of the lock it held.
Done(d) ==
    /\ driver' = [driver EXCEPT ![d] = IdleDriver]
    /\ lock' = IF lock = d THEN "free" ELSE lock

\* Only the server has a lock.
TakeTask(d, k) ==
    /\ driver[d].pc = "idle"
    /\ queue[k] > 0
    /\ host = "server" => lock = "free"
    /\ queue' = [queue EXCEPT ![k] = @ - 1]
    /\ lock' = IF host = "server" THEN d ELSE lock
    /\ driver' = [driver EXCEPT ![d] = [IdleDriver EXCEPT !.pc = "taken", !.task = k]]
    /\ UNCHANGED <<host, row, approved, memory, thread, request, decisions, slips>>

\* session_lock_busy: the message is already acknowledged.
DropTask(d, k) ==
    /\ host = "server"
    /\ driver[d].pc = "idle"
    /\ lock # "free"
    /\ queue[k] > 0
    /\ queue' = [queue EXCEPT ![k] = @ - 1]
    /\ UNCHANGED <<host, row, approved, memory, thread, lock, driver, request, decisions, slips>>

\* Mutant: a plain assignment, without the condition.
MarkRunningAlways == [row EXCEPT !.status = "RUNNING"]

\* UPDATE ... WHERE cancelled_at IS NULL: a stopped session stays stopped.
MarkRunning == IF row.cancelled THEN row ELSE [row EXCEPT !.status = "RUNNING"]

\* Load the row, mark it RUNNING, commit.
Begin(d) ==
    /\ driver[d].pc = "taken"
    /\ IF Exists
       THEN /\ row' = MarkRunning
            /\ driver' = [driver EXCEPT ![d].pc = "graph", ![d].from = thread,
                    ![d].seen = IF host = "server" THEN row.status ELSE "NONE"]
            /\ UNCHANGED lock
       ELSE row' = row /\ Done(d)
    /\ UNCHANGED <<host, approved, memory, thread, queue, request, decisions, slips>>

\* What a server row holds against what a desktop row holds when it is written.
LoadedStatus(d) == IF host = "server" THEN driver[d].seen ELSE row.status

\* A corpus that is not local or not there, or no provider key: FAILED without
\* a look at cancelled_at.
Refuse(d) ==
    /\ driver[d].pc = "graph"
    /\ Exists
    /\ row' = Assigned(LoadedStatus(d), "FAILED")
    /\ Goto(d, "publish")
    /\ UNCHANGED <<host, approved, memory, thread, queue, lock, request, decisions, slips>>

Stop(at, n, outcome) == [thread |-> Thread(at, n), outcome |-> outcome]

\* Where a leg of the graph may stop.  Any payload resumes any gate: at the
\* review gate one without `approved` counts a rework.
Stops(task, from) ==
    LET n == from.reworks
        Drafted(k) == {Stop("review_gate", k, "awaiting_approval"), Stop("failed", k, "failed")}
        Approved   == {Stop("done", n, "completed")}
    IN  {Stop(from.at, n, "crashed"), Stop("mid", n, "crashed")} \cup
        CASE task = "start" /\ row.skip  -> Drafted(0)
          [] task = "start" /\ ~row.skip -> {Stop("plan_gate", 0, "awaiting_plan"),
                                                 Stop("failed", 0, "failed")}
          [] task # "start" /\ from.at = "plan_gate"   -> Drafted(n)
          [] task = "approve" /\ from.at = "review_gate" -> Approved
          [] task \in {"plan", "rework"} /\ from.at = "review_gate" -> Drafted(n + 1)
          [] task = "approve" /\ from.at = "mid" -> Drafted(n) \cup Approved
          [] task \in {"plan", "rework"} /\ from.at = "mid" -> Drafted(n) \cup Drafted(n + 1)
          [] task # "start" /\ from.at = "done"   -> Approved
          [] task # "start" /\ from.at = "failed" -> {Stop("failed", n, "failed")}
          [] OTHER -> {}

\* The graph runs to its next stop.  If it raises, the desktop makes it a failed
\* outcome without totals; on the server the exception leaves the task.
RunGraph(d) ==
    /\ driver[d].pc = "graph"
    /\ \E stop \in Stops(driver[d].task, driver[d].from) :
         /\ thread' = stop.thread
         /\ IF stop.outcome = "crashed"
            THEN Goto(d, IF host = "server" THEN "unwind" ELSE "outcome")
            ELSE driver' = [driver EXCEPT ![d] =
                   [IdleDriver EXCEPT !.pc = "outcome", !.seen = driver[d].seen,
                                      !.outcome = stop.outcome, !.reworks = stop.thread.reworks]]
    /\ UNCHANGED <<host, row, approved, memory, queue, lock, request, decisions, slips>>

\* The server refreshes cancelled_at alone and fails on a row that is gone; the
\* desktop loads the row, and its task dies unheard if there is none.  A stopped
\* session keeps the spend and drops the conclusion.
Reread(d) ==
    /\ driver[d].pc = "outcome"
    /\ CASE ~Exists /\ host = "server" -> row' = row /\ Goto(d, "unwind") /\ UNCHANGED lock
         [] ~Exists /\ host = "desktop" -> row' = row /\ Done(d)
         [] Exists /\ row.cancelled -> row' = [row EXCEPT !.reworks = driver[d].reworks] /\ Done(d)
         [] OTHER -> /\ row' = row
                     /\ driver' = [driver EXCEPT ![d].pc = "fresh", ![d].seen = LoadedStatus(d)]
                     /\ UNCHANGED lock
    /\ UNCHANGED <<host, approved, memory, thread, queue, request, decisions, slips>>

OutcomeStatus(outcome) ==
    CASE outcome = "awaiting_plan"     -> "AWAITING_PLAN"
      [] outcome = "awaiting_approval" -> "AWAITING_APPROVAL"
      [] outcome = "completed"         -> "COMPLETED"
      [] outcome = "failed"            -> "FAILED"

\* The outcome's transaction; the event leaves after it.
PersistOutcome(d) ==
    LET w == driver[d]
    IN  /\ w.pc = "fresh"
        /\ IF Exists
           THEN /\ row' = [Assigned(w.seen, OutcomeStatus(w.outcome)) EXCEPT
                             !.reworks = w.reworks,
                             !.draft = IF w.outcome = "awaiting_approval" THEN w.reworks + 1 ELSE @,
                             !.final = IF w.outcome = "completed" THEN w.reworks + 1 ELSE @]
                /\ driver' = [driver EXCEPT ![d] =
                      [IdleDriver EXCEPT !.pc = "publish",
                         !.outcome = IF w.outcome = "completed" THEN w.outcome ELSE "failed"]]
                /\ UNCHANGED lock
           ELSE row' = row /\ IF host = "server" THEN Goto(d, "unwind") /\ UNCHANGED lock ELSE Done(d)
        /\ UNCHANGED <<host, approved, memory, thread, queue, request, decisions, slips>>

\* The lifecycle event; project memory, which only the server has, comes after
\* COMPLETED so that nobody waits for an embedding.
Publish(d) ==
    /\ driver[d].pc = "publish"
    /\ IF host = "server" /\ driver[d].outcome = "completed"
       THEN Goto(d, "ingest") /\ UNCHANGED lock
       ELSE Done(d)
    /\ UNCHANGED <<host, row, approved, memory, thread, queue, request, decisions, slips>>

\* The server's sink raises; the desktop's swallows.
PublishFails(d) ==
    /\ MayFail /\ host = "server"
    /\ driver[d].pc = "publish"
    /\ Goto(d, "unwind")
    /\ UNCHANGED <<host, row, approved, memory, thread, queue, lock, request, decisions, slips>>

\* ingest_session never raises and looks at the object, not at the row.
Ingest(d) ==
    /\ driver[d].pc = "ingest"
    /\ memory' \in {memory, TRUE}
    /\ Done(d)
    /\ UNCHANGED <<host, row, approved, thread, queue, request, decisions, slips>>

\* The exception releases the lock on its way to the task wrapper ...
Unwind(d) ==
    /\ driver[d].pc = "unwind"
    /\ Goto(d, "mark")
    /\ lock' = IF lock = d THEN "free" ELSE lock
    /\ UNCHANGED <<host, row, approved, memory, thread, queue, request, decisions, slips>>

\* ... which writes FAILED over whatever the session has become: a decision made
\* meanwhile leaves a task that will load FAILED and believe it.
MarkFailed(d) ==
    /\ driver[d].pc = "mark"
    /\ row' = IF Exists THEN [row EXCEPT !.status = "FAILED"] ELSE row
    /\ Done(d)
    /\ UNCHANGED <<host, approved, memory, thread, queue, request, decisions, slips>>

\* A worker is killed; its lock waits for the TTL.
CrashDriver(d) ==
    /\ MayFail /\ host = "server"
    /\ driver[d].pc # "idle"
    /\ driver' = [driver EXCEPT ![d] = IdleDriver]
    /\ lock' = IF lock = d THEN "orphan" ELSE lock
    /\ thread' \in {thread} \cup
         (IF driver[d].pc = "graph" THEN {Thread("mid", driver[d].from.reworks)} ELSE {})
    /\ UNCHANGED <<host, row, approved, memory, queue, request, decisions, slips>>

ExpireLock ==
    /\ lock = "orphan"
    /\ lock' = "free"
    /\ UNCHANGED <<host, row, approved, memory, thread, queue, driver, request, decisions, slips>>

\* The desktop app quits: every task and request goes, and the next launch
\* looks for none of them.
Restart ==
    /\ MayFail /\ host = "desktop"
    /\ ~Quiet
    /\ driver' = [d \in Drivers |-> IdleDriver]
    /\ request' = [r \in Requests |-> IdleRequest]
    /\ queue' = [k \in TaskKinds |-> 0]
    /\ UNCHANGED <<host, row, approved, memory, thread, lock, decisions, slips>>

Drive(d) ==
    \/ \E k \in TaskKinds : TakeTask(d, k) \/ DropTask(d, k)
    \/ Begin(d) \/ Refuse(d) \/ RunGraph(d) \/ Reread(d)
    \/ PersistOutcome(d) \/ Publish(d) \/ PublishFails(d) \/ Ingest(d)
    \/ Unwind(d) \/ MarkFailed(d) \/ CrashDriver(d)

-----------------------------------------------------------------------------

Init ==
    /\ host \in Hosts
    /\ row = [status |-> "NONE", cancelled |-> FALSE, skip |-> FALSE,
              draft |-> 0, final |-> 0, reworks |-> 0]
    /\ approved = {} /\ memory = FALSE
    /\ thread = Thread("none", 0)
    /\ queue = [k \in TaskKinds |-> 0]
    /\ lock = "free"
    /\ driver = [d \in Drivers |-> IdleDriver]
    /\ request = [r \in Requests |-> IdleRequest]
    /\ decisions = 0 /\ slips = {}

Next ==
    \/ SeedDemo
    \/ \E r \in Requests : Handle(r)
    \/ \E d \in Drivers : Drive(d)
    \/ ExpireLock
    \/ Restart

Spec == Init /\ [][Next]_vars

-----------------------------------------------------------------------------
(* Properties *)

\* Rows, checkpoint, queue, lock and processes stay within their vocabulary.
TypeOK ==
    /\ host \in Hosts
    /\ row \in [status : Statuses \cup NoRow, cancelled : BOOLEAN, skip : BOOLEAN,
                draft : Versions, final : Versions, reworks : Versions]
    /\ approved \subseteq Versions /\ memory \in BOOLEAN
    /\ thread \in [at : Positions, reworks : Versions]
    /\ queue \in [TaskKinds -> 0 .. MaxDecisions + 1]
    /\ lock \in Drivers \cup {"free", "orphan"}
    /\ slips \subseteq {"doubled", "late"}

\* A session the user stopped leaves FAILED only through a writer that had
\* already looked when the stop committed: mark_running, the outcome writers and
\* the task wrapper never revive it (issue 54 in the source).
StopSticks == row.cancelled /\ Exists => row.status = "FAILED" \/ "late" \in slips

\* The final report is a draft somebody approved, unless two decisions were made
\* on one gate: then the queue, not the reviewer, picks the text that is final.
FinalWasApproved ==
    row.final # 0 /\ Exists => row.final \in approved \/ "doubled" \in slips

=============================================================================
