---------------------------- MODULE RunLifecycle ----------------------------
(***************************************************************************)
(* One research run on the server: its row and the rows that hang off it   *)
(* (plans, revisions, reviews, the artifact), the route handlers that      *)
(* review, cancel and delete it, the Celery tasks that drive it, and the   *)
(* Redis lock between them.                                                *)
(*                                                                         *)
(* A handler is two transactions' worth of steps: it loads the run once    *)
(* (the ORM session never reloads it) and commits later, so what it        *)
(* decides on may be stale by the time it writes.  The ORM emits an UPDATE *)
(* only for a column whose new value differs from the one it loaded.       *)
(***************************************************************************)
EXTENDS Naturals, Sequences, FiniteSets

CONSTANTS Workers,      \* Celery worker processes
          Requests,     \* concurrent API requests about this run
          Reports,      \* report texts; two revisions may carry the same one
          SkipPlanGate, \* research_runs.skip_plan_gate
          MayCrash,     \* whether processes may die between two steps
          Offered,      \* the requests clients make
          MaxReviews    \* bound: reviews recorded about the run

ASSUME ConstantsAssumption ==
    /\ SkipPlanGate \in BOOLEAN
    /\ MayCrash \in BOOLEAN
    /\ MaxReviews \in Nat
    /\ Offered \subseteq {"plan_approve", "plan_edit", "plan_return", "approve", "rework",
                          "reject", "cancel", "delete"}
    /\ Workers \cap {"free", "orphan"} = {}

VARIABLES
    run,        \* the row: its status and whether cancelled_at is set
    plans,      \* plan versions, in order: is the version approved?
    revisions,  \* revision versions, in order: the report each one holds
    reviews,    \* reviews in sequence order
    artifact,   \* the frozen record, or NoArtifact
    memory,     \* does project memory hold chunks of this run's report?
    trace,      \* are there agent_logs rows of this run?
    thread,     \* where the LangGraph checkpoint stands, and its rework_count
    queue,      \* messages in the broker, per kind of task
    lock,       \* owner of the Redis run lock
    worker,     \* what each worker is doing
    request,    \* what each request is doing
    lost        \* history: has a task for this run been thrown away?

rows == <<run, plans, revisions, reviews, artifact, memory, trace>>
vars == <<rows, thread, queue, lock, worker, request, lost>>

-----------------------------------------------------------------------------
(* Vocabulary *)

Active   == {"PENDING", "RUNNING", "AWAITING_PLAN", "AWAITING_REVIEW"}
Statuses == Active \cup {"COMPLETED", "FAILED", "CANCELLED"}
NoRow    == {"NONE", "DELETED"}   \* before create_run, after delete_run

TaskKinds == {"start", "resume_plan", "rework"}
Positions == {"none", "mid", "plan_gate", "review_gate", "ended"}
Outcomes  == {"awaiting_plan", "awaiting_approval", "failed"}

PlanOps   == {"plan_approve", "plan_edit", "plan_return"}
ReportOps == {"approve", "rework", "reject"}
Ops       == PlanOps \cup ReportOps \cup {"create", "cancel", "delete"}

NoArtifact  == [revision |-> 0]
IdleWorker  == [pc |-> "idle", task |-> "start", seen |-> "NONE", outcome |-> "failed"]
IdleRequest == [pc |-> "idle", op |-> "create", seen |-> "NONE", target |-> 0]

\* Worker states between acquiring and releasing the run lock.
Holding == {"locked", "loaded", "graph", "outcome", "fresh", "publish", "release", "error"}

Review(gate, decision, target) ==
    [gate |-> gate, decision |-> decision, target |-> target]

ApprovedReports ==
    {i \in DOMAIN reviews : reviews[i].gate = "REPORT" /\ reviews[i].decision = "APPROVED"}

Exists == run.status \notin NoRow

-----------------------------------------------------------------------------
(* The database's own rules *)

\* ck_run_cancelled: (status = 'CANCELLED') = (cancelled_at IS NOT NULL).
CkRunCancelled(r) == (r.status = "CANCELLED") <=> r.cancelled_at

\* uq_plan_approved: at most one approved plan version.
UqPlanApproved(ps) == \A i, j \in DOMAIN ps : ps[i] /\ ps[j] => i = j

\* uq_review_approval: no second approving REPORT review of one revision.
UqReviewApproval(v) == \A i \in ApprovedReports : reviews[i].target # v

\* Mutant: the unique index is missing.
UqArtifactRunMissing == TRUE

\* uq_artifact_run: no second artifact.
UqArtifactRun == artifact = NoArtifact

\* The row after `run.status = status` is flushed by a session that loaded
\* `seen`: an attribute set to the value it was loaded with emits nothing.
Assigned(seen, status) ==
    IF status = seen THEN run ELSE [run EXCEPT !.status = status]

-----------------------------------------------------------------------------
(* Route handlers *)

\* A committed handler keeps only what its last step still needs.
Goto(r, pc) == request' = [request EXCEPT ![r] = [@ EXCEPT !.pc = pc, !.seen = "NONE", !.target = 0]]
Finish(r)   == request' = [request EXCEPT ![r] = IdleRequest]

\* create_run commits the row before it dispatches anything.
CreateRun(r) ==
    /\ request[r].pc = "idle"
    /\ run.status = "NONE"
    /\ run' = [status |-> "PENDING", cancelled_at |-> FALSE]
    /\ request' = [request EXCEPT ![r] = [IdleRequest EXCEPT !.pc = "dispatch"]]
    /\ UNCHANGED <<plans, revisions, reviews, artifact, memory, trace, thread,
                   queue, lock, worker, lost>>

\* cancel_run answers 409 for a run that has already ended.
MayCancel(status) == status \notin {"COMPLETED", "FAILED", "CANCELLED"}

\* run_lifecycle.delete_run refuses a run that is still active.
MayDelete(status) == status \notin Active

\* What a handler may be about: the latest plan, or any revision.
Targets(op) ==
    CASE op \in PlanOps   -> {Len(plans)} \ {0}
      [] op \in ReportOps -> DOMAIN revisions
      [] op = "cancel"    -> IF MayCancel(run.status) THEN {0} ELSE {}
      [] op = "delete"    -> IF MayDelete(run.status) THEN {0} ELSE {}
      [] OTHER            -> {}

\* _run_or_404 and the reads the handler decides on; a refused request
\* changes nothing and is not a step.
Read(r, op) ==
    /\ request[r].pc = "idle"
    /\ Exists
    /\ \E t \in Targets(op) :
         request' = [request EXCEPT ![r] =
            [pc |-> "decided", op |-> op, seen |-> run.status, target |-> t]]
    /\ UNCHANGED <<rows, thread, queue, lock, worker, lost>>

\* A transaction that fails for any reason leaves nothing behind: a broken
\* constraint, a LifecycleError, two reviews given one sequence number.
Rollback(r) ==
    /\ request[r].pc = "decided"
    /\ Finish(r)
    /\ UNCHANGED <<rows, thread, queue, lock, worker, lost>>

Decided(r, op) == request[r].pc = "decided" /\ request[r].op = op /\ Exists

\* submit_plan_review: an edit is its own plan version; an approval stamps
\* the plan and moves the run to RUNNING in the same transaction.
ApprovePlan(r, op) ==
    LET q  == request[r]
        ps == IF op = "plan_edit" THEN Append(plans, FALSE) ELSE plans
        v  == IF op = "plan_edit" THEN Len(ps) ELSE q.target
    IN  /\ Decided(r, op)
        /\ Len(reviews) < MaxReviews
        /\ q.seen # "CANCELLED"              \* set_status raises
        /\ plans' = [ps EXCEPT ![v] = TRUE]
        /\ UqPlanApproved(plans')
        /\ run' = Assigned(q.seen, "RUNNING")
        /\ CkRunCancelled(run')
        /\ reviews' = Append(reviews, Review("PLAN", "APPROVED", v))
        /\ Goto(r, "dispatch")
        /\ UNCHANGED <<revisions, artifact, memory, trace, thread, queue, lock, worker, lost>>

\* Mutant: the handler resumes the graph whatever the decision was.
ReturnPlanAndDispatch(r) ==
    /\ Decided(r, "plan_return")
    /\ Len(reviews) < MaxReviews
    /\ reviews' = Append(reviews, Review("PLAN", "REJECTED", request[r].target))
    /\ Goto(r, "dispatch")
    /\ UNCHANGED <<run, plans, revisions, artifact, memory, trace, thread, queue,
                   lock, worker, lost>>

\* The same handler on REWORK_REQUESTED or REJECTED: the review, nothing else.
ReturnPlan(r) ==
    /\ Decided(r, "plan_return")
    /\ Len(reviews) < MaxReviews
    /\ reviews' = Append(reviews, Review("PLAN", "REJECTED", request[r].target))
    /\ Finish(r)
    /\ UNCHANGED <<run, plans, revisions, artifact, memory, trace, thread, queue,
                   lock, worker, lost>>

\* Mutant: the assembled bundle is not compared with the reviewed hash.
ManifestUnchecked(v) == TRUE

\* create_artifact: the bundle is assembled from the latest revision and
\* must carry the report the review was bound to.
ManifestMatches(v) == revisions[Len(revisions)] = revisions[v]

\* submit_report_review on APPROVED: the review, the status and the artifact
\* are one transaction.
ApproveReport(r) ==
    LET q == request[r]
    IN  /\ Decided(r, "approve")
        /\ Len(reviews) < MaxReviews
        /\ UqReviewApproval(q.target)
        /\ reviews' = Append(reviews, Review("REPORT", "APPROVED", q.target))
        /\ run' = Assigned(q.seen, "COMPLETED")
        /\ CkRunCancelled(run')
        /\ ManifestMatches(q.target)
        /\ UqArtifactRun
        /\ artifact' = [revision |-> q.target,
                        report   |-> revisions[Len(revisions)],
                        review   |-> Len(reviews')]
        /\ Goto(r, "ingest")
        /\ UNCHANGED <<plans, revisions, memory, trace, thread, queue, lock, worker, lost>>

\* submit_report_review on REWORK_REQUESTED.
RequestRework(r) ==
    /\ Decided(r, "rework")
    /\ Len(reviews) < MaxReviews
    /\ reviews' = Append(reviews, Review("REPORT", "REWORK_REQUESTED", request[r].target))
    /\ run' = Assigned(request[r].seen, "RUNNING")
    /\ CkRunCancelled(run')
    /\ Goto(r, "dispatch")
    /\ UNCHANGED <<plans, revisions, artifact, memory, trace, thread, queue, lock,
                   worker, lost>>

\* submit_report_review on REJECTED: recorded, and the run stays where it is.
RejectReport(r) ==
    /\ Decided(r, "reject")
    /\ Len(reviews) < MaxReviews
    /\ reviews' = Append(reviews, Review("REPORT", "REJECTED", request[r].target))
    /\ Finish(r)
    /\ UNCHANGED <<run, plans, revisions, artifact, memory, trace, thread, queue,
                   lock, worker, lost>>

\* request_cancel writes the status and the timestamp, whatever the row
\* has become since the handler looked.
CancelRun(r) ==
    /\ Decided(r, "cancel")
    /\ run' = [status |-> "CANCELLED", cancelled_at |-> TRUE]
    /\ Finish(r)
    /\ UNCHANGED <<plans, revisions, reviews, artifact, memory, trace, thread, queue,
                   lock, worker, lost>>

\* run_lifecycle.delete_run: the run and every row that hangs off it.
DeleteRun(r) ==
    /\ Decided(r, "delete")
    /\ run' = [status |-> "DELETED", cancelled_at |-> FALSE]
    /\ plans' = <<>> /\ revisions' = <<>> /\ reviews' = <<>>
    /\ artifact' = NoArtifact
    /\ memory' = FALSE /\ trace' = FALSE
    /\ Goto(r, "purge")
    /\ UNCHANGED <<thread, queue, lock, worker, lost>>

\* The task a committed decision hands to the broker.
TaskFor(op) ==
    CASE op = "create"  -> "start"
      [] op \in PlanOps -> "resume_plan"
      [] OTHER          -> "rework"

Dispatch(r) ==
    /\ request[r].pc = "dispatch"
    /\ queue' = [queue EXCEPT ![TaskFor(request[r].op)] = @ + 1]
    /\ Finish(r)
    /\ UNCHANGED <<rows, thread, lock, worker, lost>>

\* _ingest_report_into_memory, after the approval committed; best-effort.
IngestReport(r) ==
    /\ request[r].pc = "ingest"
    /\ memory' \in {memory, TRUE}
    /\ Finish(r)
    /\ UNCHANGED <<run, plans, revisions, reviews, artifact, trace, thread, queue, lock,
                   worker, lost>>

\* checkpoints.delete_thread, after the delete committed; an error is logged.
PurgeThread(r) ==
    /\ request[r].pc = "purge"
    /\ thread' \in {thread, [at |-> "none", reworks |-> 0]}
    /\ Finish(r)
    /\ UNCHANGED <<rows, queue, lock, worker, lost>>

\* The API process dies after the commit and before what should follow it.
CrashRequest(r) ==
    /\ MayCrash
    /\ request[r].pc \in {"dispatch", "ingest", "purge"}
    /\ lost' = (lost \/ request[r].pc = "dispatch")
    /\ Finish(r)
    /\ UNCHANGED <<rows, thread, queue, lock, worker>>

-----------------------------------------------------------------------------
(* The worker: execute_run, and the task around it *)

At(w, pc)   == worker[w].pc = pc
Step(w, pc) == worker' = [worker EXCEPT ![w].pc = pc, ![w].seen = "NONE"]
See(w, pc)  == worker' = [worker EXCEPT ![w].pc = pc, ![w].seen = run.status]

\* Nothing of the outcome outlives its transaction.
Leave(w, pc) == worker' = [worker EXCEPT ![w] = [IdleWorker EXCEPT !.pc = pc]]

\* Mutant: the release compares the wrong token and never deletes.
ReleasedNever(w) == lock

\* _RELEASE_LUA: compare-and-delete, so only the owner's token is removed.
Released(w) == IF lock = w THEN "free" ELSE lock

\* A message is acknowledged when it is received (task_acks_late is off), and
\* SET NX decides who drives the run.
TakeTask(w, k) ==
    /\ At(w, "idle")
    /\ queue[k] > 0
    /\ queue' = [queue EXCEPT ![k] = @ - 1]
    /\ lock = "free"
    /\ lock' = w
    /\ worker' = [worker EXCEPT ![w].pc = "locked", ![w].task = k]
    /\ UNCHANGED <<rows, thread, request, lost>>

\* run_lock_busy: the task returns, and its message is already gone.
DropTask(w, k) ==
    /\ At(w, "idle")
    /\ queue[k] > 0
    /\ queue' = [queue EXCEPT ![k] = @ - 1]
    /\ lock # "free"
    /\ lost' = TRUE
    /\ UNCHANGED <<rows, thread, lock, worker, request>>

\* "No new research will be started": a cancelled or vanished run is left alone.
MayExecute(status) == status \notin NoRow \cup {"CANCELLED"}

LoadRun(w) ==
    /\ At(w, "locked")
    /\ See(w, IF MayExecute(run.status) THEN "loaded" ELSE "release")
    /\ UNCHANGED <<rows, thread, queue, lock, request, lost>>

\* Does this transaction's UPDATE of the run go through?
Writable(r, changed) == changed => Exists /\ CkRunCancelled(r)

\* set_status(RUNNING) and its commit; a cancel that landed since the load
\* breaks ck_run_cancelled and the task raises.
MarkRunning(w) ==
    /\ At(w, "loaded")
    /\ LET seen == worker[w].seen
           row  == Assigned(seen, "RUNNING")
       IN  IF Writable(row, seen # "RUNNING")
           THEN run' = row /\ Step(w, "graph")
           ELSE run' = run /\ Step(w, "error")
    /\ UNCHANGED <<plans, revisions, reviews, artifact, memory, trace, thread, queue,
                   lock, request, lost>>

\* Mutant: the failure is logged and never recorded.
FailureStatusUnrecorded(seen) == seen

\* record_failure: FAILED, unless the user had already stopped the run.
FailureStatus(seen) == IF seen = "CANCELLED" THEN seen ELSE "FAILED"

\* The corpus guard of a run that may not proceed: the failure is recorded on
\* the row as loaded, before the graph is ever built.
RefuseRun(w) ==
    /\ At(w, "graph")
    /\ LET row == Assigned("RUNNING", FailureStatus("RUNNING"))
       IN  IF Exists /\ CkRunCancelled(row)
           THEN run' = row /\ Step(w, "publish")
           ELSE run' = run /\ Step(w, "error")
    /\ UNCHANGED <<plans, revisions, reviews, artifact, memory, trace, thread, queue,
                   lock, request, lost>>

\* Where one invocation of the graph may leave the checkpoint, and the outcome
\* it returns.  "mid" is a node that raised: the task raises with it.  At the
\* review gate any payload without `approved` is a request for rework; between
\* nodes it may or may not be the next interrupt that consumes it.  An offline
\* run that could not stay offline is refused with the checkpoint where it was.
Stop(at, reworks, outcome) == [thread |-> [at |-> at, reworks |-> reworks], outcome |-> outcome]

Stops(task) ==
    LET n == thread.reworks
        Drafted(m) == {Stop("review_gate", m, "awaiting_approval"),
                       Stop("ended", m, "failed"), Stop("mid", m, "failed")}
    IN  {Stop(thread.at, n, "failed")} \cup
        IF task = "start"
        THEN IF SkipPlanGate THEN Drafted(0)
             ELSE {Stop("plan_gate", 0, "awaiting_plan"), Stop("ended", 0, "failed"),
                   Stop("mid", 0, "failed")}
        ELSE CASE thread.at = "plan_gate"   -> Drafted(n)
               [] thread.at = "review_gate" -> Drafted(n + 1)
               [] thread.at = "mid"         -> Drafted(n) \cup Drafted(n + 1)
               [] OTHER                     -> {}

\* runner.run / runner.resume: the graph runs to its next stop, its events
\* going to agent_logs on the way.
RunGraph(w) ==
    /\ At(w, "graph")
    /\ \E stop \in Stops(worker[w].task) :
         /\ thread' = stop.thread
         /\ worker' = [worker EXCEPT
               ![w] = [IdleWorker EXCEPT
                 !.pc = IF stop.thread.at = "mid" THEN "error" ELSE "outcome",
                 !.outcome = stop.outcome]]
    /\ trace' = TRUE
    /\ UNCHANGED <<run, plans, revisions, reviews, artifact, memory, queue, lock,
                   request, lost>>

\* db.refresh(run, ["status", "cancelled_at"]) before the outcome is written.
RefreshRun(w) ==
    /\ At(w, "outcome")
    /\ See(w, IF Exists THEN "fresh" ELSE "error")
    /\ UNCHANGED <<rows, thread, queue, lock, request, lost>>

\* run_lifecycle.OUTCOME_STATUS
OutcomeStatus(outcome) ==
    CASE outcome = "awaiting_plan"     -> "AWAITING_PLAN"
      [] outcome = "awaiting_approval" -> "AWAITING_REVIEW"
      [] outcome = "failed"            -> "FAILED"

\* A run the user stopped stays stopped: its outcome is discarded.
Discards(status) == status = "CANCELLED"

\* persist_outcome and its commit: the plan or the revision together with the
\* status, or nothing but the spend for a cancelled run.
PersistOutcome(w) ==
    LET seen    == worker[w].seen
        outcome == worker[w].outcome
        row     == Assigned(seen, OutcomeStatus(outcome))
    IN  /\ At(w, "fresh")
        /\ Exists
        /\ IF Discards(seen)
           THEN UNCHANGED <<run, plans, revisions>>
           ELSE /\ CkRunCancelled(row)
                /\ run' = row
                /\ plans' = IF outcome = "awaiting_plan" THEN Append(plans, FALSE) ELSE plans
                /\ IF outcome = "awaiting_approval"
                   THEN \E text \in Reports : revisions' = Append(revisions, text)
                   ELSE revisions' = revisions
        /\ Leave(w, "publish")
        /\ UNCHANGED <<reviews, artifact, memory, trace, thread, queue, lock, request, lost>>

\* The transaction fails: a cancel landed after the refresh, the run was
\* deleted, or the database refused.
PersistFails(w) ==
    /\ At(w, "fresh")
    /\ Leave(w, "error")
    /\ UNCHANGED <<rows, thread, queue, lock, request, lost>>

\* sink(lifecycle_event): a durable row first, then Redis; either may raise.
PublishOutcome(w) ==
    /\ At(w, "publish")
    /\ trace' = TRUE
    /\ \/ Step(w, "release")
       \/ Step(w, "error")
    /\ UNCHANGED <<run, plans, revisions, reviews, artifact, memory, thread, queue, lock,
                   request, lost>>

ReleaseLock(w) ==
    /\ At(w, "release")
    /\ lock' = Released(w)
    /\ worker' = [worker EXCEPT ![w] = IdleWorker]
    /\ UNCHANGED <<rows, thread, queue, request, lost>>

\* An exception unwinds through `finally`, so the lock goes first and the task
\* records the failure afterwards, in a session of its own.
Unwind(w) ==
    /\ At(w, "error")
    /\ lock' = Released(w)
    /\ Leave(w, "failing")
    /\ UNCHANGED <<rows, thread, queue, request, lost>>

LoadFailed(w) ==
    /\ At(w, "failing")
    /\ IF Exists THEN See(w, "marking")
                 ELSE worker' = [worker EXCEPT ![w] = IdleWorker]
    /\ UNCHANGED <<rows, thread, queue, lock, request, lost>>

\* _mark_run_failed commits; if the row no longer accepts it, nothing is left
\* to record the failure and the task ends.
MarkFailed(w) ==
    /\ At(w, "marking")
    /\ LET row == Assigned(worker[w].seen, FailureStatus(worker[w].seen))
       IN  run' = IF Exists /\ CkRunCancelled(row) THEN row ELSE run
    /\ worker' = [worker EXCEPT ![w] = IdleWorker]
    /\ UNCHANGED <<plans, revisions, reviews, artifact, memory, trace, thread, queue,
                   lock, request, lost>>

\* The worker process dies (the hard time limit, a restart).  Its lock stays
\* behind; a graph it was running stays at its last checkpoint.
CrashWorker(w) ==
    /\ MayCrash
    /\ ~At(w, "idle")
    /\ lock' = IF lock = w THEN "orphan" ELSE lock
    /\ \/ thread' = thread
       \/ At(w, "graph") /\ thread' = [thread EXCEPT !.at = "mid"]
    /\ worker' = [worker EXCEPT ![w] = IdleWorker]
    /\ lost' = TRUE
    /\ UNCHANGED <<rows, queue, request>>

\* Mutant: a TTL shorter than the task it guards.
ExpireLockEarly ==
    /\ lock # "free"
    /\ lock' = "free"
    /\ UNCHANGED <<rows, thread, queue, worker, request, lost>>

\* The TTL outlives the hard time limit, so it only ends a dead owner's lock.
ExpireLock ==
    /\ lock = "orphan"
    /\ lock' = "free"
    /\ UNCHANGED <<rows, thread, queue, worker, request, lost>>

-----------------------------------------------------------------------------
(* The specification *)

Init ==
    /\ run = [status |-> "NONE", cancelled_at |-> FALSE]
    /\ plans = <<>> /\ revisions = <<>> /\ reviews = <<>>
    /\ artifact = NoArtifact
    /\ memory = FALSE /\ trace = FALSE
    /\ thread = [at |-> "none", reworks |-> 0]
    /\ queue = [k \in TaskKinds |-> 0]
    /\ lock = "free"
    /\ worker = [w \in Workers |-> IdleWorker]
    /\ request = [r \in Requests |-> IdleRequest]
    /\ lost = FALSE

\* What a handler does once it has decided, or committed.
Handle(r) ==
    \/ ApprovePlan(r, "plan_approve") \/ ApprovePlan(r, "plan_edit") \/ ReturnPlan(r)
    \/ ApproveReport(r) \/ RequestRework(r) \/ RejectReport(r)
    \/ CancelRun(r) \/ DeleteRun(r) \/ Rollback(r)
    \/ Dispatch(r) \/ IngestReport(r) \/ PurgeThread(r)

Receive(w) == \E k \in TaskKinds : TakeTask(w, k) \/ DropTask(w, k)

Drive(w) ==
    \/ LoadRun(w) \/ MarkRunning(w) \/ RefuseRun(w) \/ RunGraph(w) \/ RefreshRun(w)
    \/ PersistOutcome(w) \/ PersistFails(w) \/ PublishOutcome(w) \/ ReleaseLock(w)
    \/ Unwind(w) \/ LoadFailed(w) \/ MarkFailed(w)

Next ==
    \/ \E r \in Requests :
         \/ CreateRun(r)
         \/ \E op \in Offered : Read(r, op)
         \/ Handle(r)
         \/ CrashRequest(r)
    \/ \E w \in Workers : Receive(w) \/ Drive(w) \/ CrashWorker(w)
    \/ ExpireLock

Spec == Init /\ [][Next]_vars

\* A live process keeps taking its next step; nobody has to send a request.
FairSpec ==
    /\ Spec
    /\ \A r \in Requests : WF_vars(Handle(r))
    /\ \A w \in Workers : WF_vars(Receive(w)) /\ WF_vars(Drive(w))
    /\ WF_vars(ExpireLock)

-----------------------------------------------------------------------------
(* Properties *)

ReviewRecord   == [gate : {"PLAN", "REPORT"},
                   decision : {"APPROVED", "REWORK_REQUESTED", "REJECTED"}, target : Nat]
ArtifactRecord == [revision : Nat, report : Reports, review : Nat]
WorkerState    == [pc : Holding \cup {"idle", "failing", "marking"}, task : TaskKinds,
                   seen : Statuses \cup NoRow, outcome : Outcomes]
RequestState   == [pc : {"idle", "decided", "dispatch", "ingest", "purge"}, op : Ops,
                   seen : Statuses \cup NoRow, target : Nat]

\* Every variable holds what the code puts there.
TypeOK ==
    /\ run \in [status : Statuses \cup NoRow, cancelled_at : BOOLEAN]
    /\ plans \in Seq(BOOLEAN)
    /\ revisions \in Seq(Reports)
    /\ reviews \in Seq(ReviewRecord)
    /\ artifact \in {NoArtifact} \cup ArtifactRecord
    /\ memory \in BOOLEAN /\ trace \in BOOLEAN /\ lost \in BOOLEAN
    /\ thread \in [at : Positions, reworks : Nat]
    /\ queue \in [TaskKinds -> Nat]
    /\ lock \in Workers \cup {"free", "orphan"}
    /\ worker \in [Workers -> WorkerState]
    /\ request \in [Requests -> RequestState]

\* The run lock: never two workers between acquiring and releasing it, crashes
\* and expiring locks included (execute_run, acquire_session_lock).
OneExecutor == \A u, v \in Workers :
    worker[u].pc \in Holding /\ worker[v].pc \in Holding => u = v

\* "An approval that cannot produce a verifiable artifact is not recorded as an
\* approval at all": approving reviews and the artifact exist together, and the
\* artifact holds the very report its review approved (submit_report_review,
\* create_artifact).
ApprovalIsTheArtifact ==
    /\ ApprovedReports = IF artifact = NoArtifact THEN {} ELSE {artifact.review}
    /\ artifact # NoArtifact =>
         /\ reviews[artifact.review].target = artifact.revision
         /\ revisions[artifact.revision] = artifact.report

\* A run reads COMPLETED only with its artifact beside it, whoever wrote the
\* status last (submit_report_review is where a run terminates).
CompletedHasArtifact == run.status = "COMPLETED" => artifact # NoArtifact

\* The design gate: no draft is ever recorded for a gated run unless a version
\* of its plan was approved, duplicated and late decisions included
\* (submit_plan_review, plan_gate_node).
DraftNeedsApprovedPlan ==
    ~SkipPlanGate /\ revisions # <<>> => \E i \in DOMAIN plans : plans[i]

\* The promise made to readers of the run, as an abstract specification.
C == INSTANCE RunContract WITH status <- run.status

Contract == C!Contract

\* A run that was stopped comes to rest: its queued tasks drain without doing
\* research and whatever was in flight lets go of the lock (cancel_run).
CancelledComesToRest ==
    run.status = "CANCELLED" ~>
        (lock = "free" /\ \A k \in TaskKinds : queue[k] = 0)

\* A run left RUNNING has lost a task to a busy lock or a dead process: nothing
\* else can strand it (execute_run, _mark_run_failed).
RunningSettlesUnlessLost == run.status = "RUNNING" ~> (run.status # "RUNNING" \/ lost)

-----------------------------------------------------------------------------
(* Statements of the repository's documentation that the code does not keep *)

=============================================================================
