------------------------- MODULE RunLifecycleProofs -------------------------
(***************************************************************************)
(* What RunLifecycle guarantees for any number of workers, requests and    *)
(* report texts, with or without the plan gate and crashes: its types, its *)
(* lock, its plan gate, why its rows can be trusted (approvals and the      *)
(* artifact agree, COMPLETED means there is an artifact), and that every     *)
(* step of the handlers and workers is one that RunContract allows.         *)
(***************************************************************************)
EXTENDS RunLifecycle, SequenceTheorems, TLAPS

-----------------------------------------------------------------------------
(* Types *)

WorkerPcs  == Holding \cup {"idle", "failing", "marking"}
RequestPcs == {"idle", "decided", "dispatch", "ingest", "purge"}
RunRow     == [status : Statuses \cup NoRow, cancelled_at : BOOLEAN]

\* The states that idle processes are in are well typed.
LEMMA IdleTypes == IdleWorker \in WorkerState /\ IdleRequest \in RequestState
BY DEF IdleWorker, IdleRequest, WorkerState, RequestState, NoRow, TaskKinds, Outcomes, Ops

\* A worker that moves stays well typed, whichever way it moves.
LEMMA WorkerMoves ==
    ASSUME TypeOK, NEW w \in Workers, NEW pc \in WorkerPcs,
           Step(w, pc) \/ See(w, pc) \/ Leave(w, pc)
                       \/ worker' = [worker EXCEPT ![w] = IdleWorker]
    PROVE  worker' \in [Workers -> WorkerState]
<1>1. worker[w] \in WorkerState /\ run.status \in Statuses \cup NoRow
  BY DEF TypeOK
<1>2. CASE Step(w, pc)
  BY <1>1, <1>2 DEF Step, TypeOK, WorkerState, WorkerPcs, NoRow
<1>3. CASE See(w, pc)
  BY <1>1, <1>3 DEF See, TypeOK, WorkerState, WorkerPcs
<1>4. CASE Leave(w, pc)
  <2>1. [IdleWorker EXCEPT !.pc = pc] \in WorkerState
    BY IdleTypes DEF WorkerState, WorkerPcs
  <2> QED
    BY <1>4, <2>1 DEF Leave, TypeOK
<1>5. CASE worker' = [worker EXCEPT ![w] = IdleWorker]
  BY <1>5, IdleTypes DEF TypeOK
<1> QED
  BY <1>2, <1>3, <1>4, <1>5

\* So does a request.
LEMMA RequestMoves ==
    ASSUME TypeOK, NEW r \in Requests, NEW pc \in RequestPcs, Goto(r, pc) \/ Finish(r)
    PROVE  request' \in [Requests -> RequestState]
<1>1. request[r] \in RequestState
  BY DEF TypeOK
<1>2. CASE Goto(r, pc)
  BY <1>1, <1>2 DEF Goto, TypeOK, RequestState, RequestPcs, NoRow
<1>3. CASE Finish(r)
  BY <1>3, IdleTypes DEF Finish, TypeOK
<1> QED
  BY <1>2, <1>3

\* What the ORM flushes is a row.
LEMMA AssignedType ==
    ASSUME run \in RunRow, NEW seen, NEW status \in Statuses
    PROVE  Assigned(seen, status) \in RunRow
BY DEF Assigned, RunRow

\* Appending a review of either gate keeps the type of the reviews.
LEMMA ReviewType ==
    ASSUME TypeOK, NEW gate \in {"PLAN", "REPORT"},
           NEW decision \in {"APPROVED", "REWORK_REQUESTED", "REJECTED"}, NEW target \in Nat
    PROVE  Append(reviews, Review(gate, decision, target)) \in Seq(ReviewRecord)
<1>1. Review(gate, decision, target) \in ReviewRecord
  BY DEF Review, ReviewRecord
<1> QED
  BY <1>1 DEF TypeOK

\* Adding a plan version, and stamping one approved, keep the type of the plans.
LEMMA PlansType ==
    ASSUME NEW ps \in Seq(BOOLEAN)
    PROVE  /\ Append(ps, FALSE) \in Seq(BOOLEAN)
           /\ \A v : [ps EXCEPT ![v] = TRUE] \in Seq(BOOLEAN)
<1>1. Append(ps, FALSE) \in Seq(BOOLEAN)
  BY AppendProperties
<1>2. ASSUME NEW v PROVE [ps EXCEPT ![v] = TRUE] \in Seq(BOOLEAN)
  <2>1. CASE v \in 1 .. Len(ps)
    BY <2>1, ExceptSeq
  <2>2. CASE v \notin 1 .. Len(ps)
    <3>1. [ps EXCEPT ![v] = TRUE] = ps
      BY <2>2
    <3> QED
      BY <3>1
  <2> QED
    BY <2>1, <2>2
<1> QED
  BY <1>1, <1>2

\* A report a handler has decided on is there, as long as the run is: revisions
\* are only removed with the run, and a deleted run never comes back.
Present == \A r \in Requests : request[r].pc = "decided" =>
    /\ run.status # "NONE"
    /\ request[r].op \in ReportOps /\ Exists => request[r].target \in DOMAIN revisions

\* Every variable keeps its type in a step of a route handler.
LEMMA HandleType == ASSUME TypeOK, Present, NEW r \in Requests, Handle(r) PROVE TypeOK'
<1>1. /\ request[r] \in RequestState
      /\ request[r].target \in Nat
  BY DEF TypeOK, RequestState
<1>2. ASSUME NEW op \in {"plan_approve", "plan_edit"}, ApprovePlan(r, op) PROVE TypeOK'
  <2> DEFINE ps == IF op = "plan_edit" THEN Append(plans, FALSE) ELSE plans
             v  == IF op = "plan_edit" THEN Len(ps) ELSE request[r].target
  <2>1. ps \in Seq(BOOLEAN)
    BY PlansType DEF TypeOK
  <2>2. v \in Nat
    BY <1>1, <2>1
  <2>3. plans' = [ps EXCEPT ![v] = TRUE]
    BY <1>2 DEF ApprovePlan
  <2>4. plans' \in Seq(BOOLEAN)
    BY <2>1, <2>3, PlansType
  <2>5. run' \in RunRow
    BY <1>2, AssignedType DEF ApprovePlan, TypeOK, RunRow, Statuses, Active
  <2>6. reviews' \in Seq(ReviewRecord)
    BY <1>2, <2>2, ReviewType DEF ApprovePlan
  <2>7. request' \in [Requests -> RequestState]
    BY <1>2, RequestMoves DEF ApprovePlan, RequestPcs
  <2> QED
    BY <1>2, <2>4, <2>5, <2>6, <2>7 DEF ApprovePlan, TypeOK, RunRow
<1>3. CASE ReturnPlan(r)
  BY <1>1, <1>3, ReviewType, RequestMoves DEF TypeOK, ReturnPlan, RequestPcs
<1>4. CASE ApproveReport(r)
  <2>1. reviews' \in Seq(ReviewRecord)
    BY <1>1, <1>4, ReviewType DEF ApproveReport
  <2>2. run' \in RunRow
    BY <1>4, AssignedType DEF ApproveReport, TypeOK, RunRow, Statuses
  <2>3. request' \in [Requests -> RequestState]
    BY <1>4, RequestMoves DEF ApproveReport, RequestPcs
  <2>4. request[r].target \in DOMAIN revisions
    BY <1>4 DEF ApproveReport, Decided, Present, ReportOps
  <2>5. artifact' \in ArtifactRecord
    BY <1>1, <1>4, <2>1, <2>4 DEF ApproveReport, ArtifactRecord, TypeOK
  <2> QED
    BY <1>4, <2>1, <2>2, <2>3, <2>5 DEF ApproveReport, TypeOK, RunRow
<1>5. CASE RequestRework(r)
  <2>1. reviews' \in Seq(ReviewRecord)
    BY <1>1, <1>5, ReviewType DEF RequestRework
  <2>2. run' \in RunRow
    BY <1>5, AssignedType DEF RequestRework, TypeOK, RunRow, Statuses, Active
  <2>3. request' \in [Requests -> RequestState]
    BY <1>5, RequestMoves DEF RequestRework, RequestPcs
  <2> QED
    BY <1>5, <2>1, <2>2, <2>3 DEF RequestRework, TypeOK, RunRow
<1>6. CASE RejectReport(r)
  BY <1>1, <1>6, ReviewType, RequestMoves DEF TypeOK, RejectReport, RequestPcs
<1>7. CASE CancelRun(r)
  BY <1>7, RequestMoves DEF TypeOK, CancelRun, RequestPcs, Statuses
<1>8. CASE DeleteRun(r)
  <2>1. <<>> \in Seq(BOOLEAN) /\ <<>> \in Seq(Reports) /\ <<>> \in Seq(ReviewRecord)
    OBVIOUS
  <2>2. request' \in [Requests -> RequestState]
    BY <1>8, RequestMoves DEF DeleteRun, RequestPcs
  <2> QED
    BY <1>8, <2>1, <2>2 DEF TypeOK, DeleteRun, NoRow
<1>9. CASE Rollback(r)
  BY <1>9, RequestMoves DEF TypeOK, Rollback, RequestPcs, rows
<1>10. CASE Dispatch(r)
  BY <1>10, RequestMoves DEF TypeOK, Dispatch, RequestPcs, TaskFor, TaskKinds, rows
<1>11. CASE IngestReport(r)
  BY <1>11, RequestMoves DEF TypeOK, IngestReport, RequestPcs
<1>12. CASE PurgeThread(r)
  BY <1>12, RequestMoves DEF TypeOK, PurgeThread, RequestPcs, Positions, rows
<1> QED
  BY <1>2, <1>3, <1>4, <1>5, <1>6, <1>7, <1>8, <1>9, <1>10, <1>11, <1>12 DEF Handle

\* What a graph invocation may leave behind is well typed.
LEMMA StopsType ==
    ASSUME TypeOK, NEW task \in TaskKinds, NEW stop \in Stops(task)
    PROVE  stop.thread \in [at : Positions, reworks : Nat] /\ stop.outcome \in Outcomes
<1>1. thread.at \in Positions /\ thread.reworks \in Nat
  BY DEF TypeOK
<1> QED
  BY <1>1 DEF Stops, Stop, Positions, Outcomes

\* Every variable keeps its type in a step of a worker.
LEMMA DriveType == ASSUME TypeOK, NEW w \in Workers, Drive(w) PROVE TypeOK'
<1>1. worker[w] \in WorkerState /\ run \in RunRow
  BY DEF TypeOK, RunRow
<1>2. CASE LoadRun(w)
  BY <1>2, WorkerMoves DEF TypeOK, LoadRun, WorkerPcs, Holding, rows
<1>3. CASE MarkRunning(w)
  <2>1. run' \in RunRow
    BY <1>1, <1>3, AssignedType DEF MarkRunning, Statuses, Active
  <2>2. worker' \in [Workers -> WorkerState]
    BY <1>3, WorkerMoves DEF MarkRunning, WorkerPcs, Holding
  <2> QED
    BY <1>3, <2>1, <2>2 DEF TypeOK, MarkRunning, RunRow
<1>4. CASE RunGraph(w)
  <2>1. PICK stop \in Stops(worker[w].task) :
          /\ thread' = stop.thread
          /\ worker' = [worker EXCEPT ![w] = [IdleWorker EXCEPT
                !.pc = IF stop.thread.at = "mid" THEN "error" ELSE "outcome",
                !.outcome = stop.outcome]]
    BY <1>4 DEF RunGraph
  <2>2. stop.thread \in [at : Positions, reworks : Nat] /\ stop.outcome \in Outcomes
    BY <1>1, <2>1, StopsType DEF WorkerState
  <2>3. [IdleWorker EXCEPT
           !.pc = IF stop.thread.at = "mid" THEN "error" ELSE "outcome",
           !.outcome = stop.outcome] \in WorkerState
    BY <2>2, IdleTypes DEF WorkerState, Holding
  <2>4. worker' \in [Workers -> WorkerState]
    BY <2>1, <2>3 DEF TypeOK
  <2> QED
    BY <1>4, <2>1, <2>2, <2>4 DEF TypeOK, RunGraph
<1>5. CASE RefreshRun(w)
  BY <1>5, WorkerMoves DEF TypeOK, RefreshRun, WorkerPcs, Holding, rows
<1>6. CASE PersistOutcome(w)
  <2>1. OutcomeStatus(worker[w].outcome) \in Statuses
    BY <1>1 DEF WorkerState, OutcomeStatus, Outcomes, Statuses, Active
  <2>2. run' \in RunRow
    BY <1>1, <1>6, <2>1, AssignedType DEF PersistOutcome
  <2>3. plans' \in Seq(BOOLEAN)
    BY <1>6, PlansType DEF PersistOutcome, TypeOK
  <2>4. revisions' \in Seq(Reports)
    <3>1. revisions \in Seq(Reports)
      BY DEF TypeOK
    <3>2. \A text \in Reports : Append(revisions, text) \in Seq(Reports)
      BY <3>1, AppendProperties
    <3>3. revisions' = revisions \/ \E text \in Reports : revisions' = Append(revisions, text)
      BY <1>6 DEF PersistOutcome
    <3> QED
      BY <3>1, <3>2, <3>3
  <2>5. worker' \in [Workers -> WorkerState]
    BY <1>6, WorkerMoves DEF PersistOutcome, WorkerPcs, Holding
  <2> QED
    BY <1>6, <2>2, <2>3, <2>4, <2>5 DEF PersistOutcome, TypeOK, RunRow
<1>7. CASE PersistFails(w)
  BY <1>7, WorkerMoves DEF TypeOK, PersistFails, WorkerPcs, Holding, rows
<1>8. CASE PublishOutcome(w)
  BY <1>8, WorkerMoves DEF TypeOK, PublishOutcome, WorkerPcs, Holding
<1>9. CASE ReleaseLock(w)
  BY <1>9, WorkerMoves DEF TypeOK, ReleaseLock, Released, WorkerPcs, rows
<1>10. CASE Unwind(w)
  BY <1>10, WorkerMoves DEF TypeOK, Unwind, Released, WorkerPcs, rows
<1>11. CASE LoadFailed(w)
  BY <1>11, WorkerMoves DEF TypeOK, LoadFailed, WorkerPcs, rows
<1>12. CASE MarkFailed(w)
  <2>1. FailureStatus(worker[w].seen) \in Statuses
    BY DEF FailureStatus, Statuses
  <2>2. run' \in RunRow
    BY <1>1, <1>12, <2>1, AssignedType DEF MarkFailed
  <2>3. worker' \in [Workers -> WorkerState]
    BY <1>12, WorkerMoves DEF MarkFailed, WorkerPcs
  <2> QED
    BY <1>12, <2>2, <2>3 DEF TypeOK, MarkFailed, RunRow
<1>13. CASE RefuseRun(w)
  <2>1. run' \in RunRow
    BY <1>1, <1>13, AssignedType DEF RefuseRun, FailureStatus, Statuses
  <2>2. worker' \in [Workers -> WorkerState]
    BY <1>13, WorkerMoves DEF RefuseRun, WorkerPcs, Holding
  <2> QED
    BY <1>13, <2>1, <2>2 DEF TypeOK, RefuseRun, RunRow
<1> QED
  BY <1>2, <1>3, <1>4, <1>5, <1>6, <1>7, <1>8, <1>9, <1>10, <1>11, <1>12, <1>13, Drive(w) DEF Drive

\* Every variable keeps its type, whatever step is taken.
LEMMA TypeStep == ASSUME TypeOK, Present, [Next]_vars PROVE TypeOK'
<1>1. ASSUME NEW r \in Requests, CreateRun(r) PROVE TypeOK'
  <2>1. [IdleRequest EXCEPT !.pc = "dispatch"] \in RequestState
    BY IdleTypes DEF RequestState
  <2> QED
    BY <1>1, <2>1 DEF TypeOK, CreateRun, Statuses, Active
<1>2. ASSUME NEW r \in Requests, NEW op \in Offered, Read(r, op) PROVE TypeOK'
  <2>1. op \in Ops
    BY ConstantsAssumption DEF Ops, PlanOps, ReportOps
  <2>2. Targets(op) \subseteq Nat
    BY DEF Targets, TypeOK
  <2>3. \A t \in Targets(op) :
          [pc |-> "decided", op |-> op, seen |-> run.status, target |-> t] \in RequestState
    BY <2>1, <2>2 DEF RequestState, TypeOK
  <2> QED
    BY <1>2, <2>3 DEF TypeOK, Read, rows
<1>3. ASSUME NEW r \in Requests, CrashRequest(r) PROVE TypeOK'
  BY <1>3, RequestMoves DEF TypeOK, CrashRequest, RequestPcs, rows
<1>4. ASSUME NEW w \in Workers, Receive(w) PROVE TypeOK'
  <2>1. ASSUME NEW k \in TaskKinds, TakeTask(w, k) PROVE TypeOK'
    <3>1. worker' \in [Workers -> WorkerState]
      BY <2>1, ZenonT(60) DEF TakeTask, TypeOK, WorkerState, Holding
    <3> QED
      BY <2>1, <3>1 DEF TypeOK, TakeTask, rows
  <2>2. ASSUME NEW k \in TaskKinds, DropTask(w, k) PROVE TypeOK'
    BY <2>2 DEF TypeOK, DropTask, rows
  <2> QED
    BY <1>4, <2>1, <2>2 DEF Receive
<1>5. ASSUME NEW w \in Workers, CrashWorker(w) PROVE TypeOK'
  BY <1>5, WorkerMoves DEF TypeOK, CrashWorker, WorkerPcs, Positions, rows
<1>6. CASE ExpireLock
  BY <1>6 DEF TypeOK, ExpireLock, rows
<1>7. CASE UNCHANGED vars
  BY <1>7 DEF TypeOK, vars, rows
<1> QED
  BY <1>1, <1>2, <1>3, <1>4, <1>5, <1>6, <1>7, HandleType, DriveType DEF Next

\* Present is kept: a handler decides on a report that exists, revisions are
\* only appended, and DELETED is final.
LEMMA PresentStep == ASSUME TypeOK, Present, [Next]_vars PROVE Present'
<1> DEFINE Kept == /\ DOMAIN revisions \subseteq DOMAIN revisions'
                   /\ Exists' => Exists
                   /\ run.status # "NONE" => run.status' # "NONE"
           Fewer == \A r \in Requests :
                      request'[r].pc = "decided" => request'[r] = request[r]
<1>1. ASSUME Kept, Fewer PROVE Present'
  BY <1>1 DEF Present, Exists
<1>2. ASSUME NEW r \in Requests, CreateRun(r) PROVE Present'
  BY <1>2 DEF Present, CreateRun, TypeOK
<1>3. ASSUME NEW r \in Requests, NEW op \in Offered, Read(r, op) PROVE Present'
  <2>1. \A t \in Targets(op) : op \in ReportOps => t \in DOMAIN revisions
    BY DEF Targets, PlanOps, ReportOps
  <2> QED
    BY <1>3, <2>1 DEF Read, Present, TypeOK, Exists, NoRow, rows
<1>4. ASSUME NEW r \in Requests, Handle(r) PROVE Present'
  <2>1. Fewer
    <3>1. Finish(r) \/ \E pc \in {"dispatch", "ingest", "purge"} : Goto(r, pc)
      BY <1>4 DEF Handle, ApprovePlan, ReturnPlan, ApproveReport, RequestRework,
         RejectReport, CancelRun, DeleteRun, Rollback, Dispatch, IngestReport, PurgeThread
    <3>2. request[r] \in RequestState
      BY DEF TypeOK
    <3>3. request'[r].pc # "decided"
      <4>1. CASE Finish(r)
        BY <4>1 DEF Finish, IdleRequest, TypeOK
      <4>2. ASSUME NEW pc \in {"dispatch", "ingest", "purge"}, Goto(r, pc)
            PROVE  request'[r].pc # "decided"
        <5>1. request'[r] = [request[r] EXCEPT !.pc = pc, !.seen = "NONE", !.target = 0]
          BY <4>2 DEF Goto, TypeOK
        <5> QED
          BY <3>2, <5>1 DEF RequestState
      <4> QED
        BY <3>1, <4>1, <4>2
    <3>4. \A s \in Requests \ {r} : request'[s] = request[s]
      BY <3>1 DEF Goto, Finish, TypeOK
    <3> QED
      BY <3>3, <3>4
  <2>2. CASE DeleteRun(r)
    BY <2>1, <2>2 DEF DeleteRun, Present, Exists, NoRow
  <2>3. CASE ~DeleteRun(r)
    <3>1. revisions' = revisions
      BY <1>4, <2>3 DEF Handle, ApprovePlan, ReturnPlan, ApproveReport, RequestRework,
         RejectReport, CancelRun, Rollback, Dispatch, IngestReport, PurgeThread, rows
    <3>2. \A seen : \A status \in Statuses :
            run' = Assigned(seen, status) => run' = run \/ run'.status \in Statuses
      BY DEF Assigned, TypeOK
    <3>3. run' = run \/ (Exists /\ run'.status \in Statuses)
      <4>1. CASE \/ ApprovePlan(r, "plan_approve") \/ ApprovePlan(r, "plan_edit")
                 \/ RequestRework(r)
        BY <3>2, <4>1 DEF ApprovePlan, RequestRework, Decided, Statuses, Active
      <4>2. CASE ApproveReport(r)
        BY <3>2, <4>2 DEF ApproveReport, Decided, Statuses
      <4>3. CASE CancelRun(r)
        BY <4>3 DEF CancelRun, Decided, Statuses
      <4> QED
        BY <1>4, <2>3, <4>1, <4>2, <4>3 DEF Handle, ReturnPlan, RejectReport, Rollback,
           Dispatch, IngestReport, PurgeThread, rows
    <3>4. Kept
      BY <3>1, <3>3 DEF Exists, NoRow, Statuses, Active
    <3> QED
      BY <1>1, <2>1, <3>4
  <2> QED
    BY <2>2, <2>3
<1>5. ASSUME NEW r \in Requests, CrashRequest(r) PROVE Present'
  <2>1. Kept /\ Fewer
    BY <1>5 DEF CrashRequest, Finish, IdleRequest, TypeOK, rows, Exists
  <2> QED
    BY <1>1, <2>1
<1>6. ASSUME NEW w \in Workers, Drive(w) PROVE Present'
  <2>1. DOMAIN revisions \subseteq DOMAIN revisions'
    <3>1. \A text \in Reports : DOMAIN revisions \subseteq DOMAIN Append(revisions, text)
      BY DEF TypeOK
    <3>2. revisions' = revisions \/ \E text \in Reports : revisions' = Append(revisions, text)
      BY <1>6 DEF Drive, LoadRun, MarkRunning, RefuseRun, RunGraph, RefreshRun, PersistOutcome,
         PersistFails, PublishOutcome, ReleaseLock, Unwind, LoadFailed, MarkFailed, rows
    <3> QED
      BY <3>1, <3>2
  <2>2. run' = run \/ (Exists /\ Exists')
    BY <1>6 DEF Drive, LoadRun, MarkRunning, RefuseRun, RunGraph, RefreshRun, PersistOutcome,
       PersistFails, PublishOutcome, ReleaseLock, Unwind, LoadFailed, MarkFailed, rows,
       Assigned, Writable, OutcomeStatus, FailureStatus, Exists, NoRow, Outcomes, TypeOK, WorkerState
  <2>3. request' = request
    BY <1>6 DEF Drive, LoadRun, MarkRunning, RefuseRun, RunGraph, RefreshRun, PersistOutcome,
       PersistFails, PublishOutcome, ReleaseLock, Unwind, LoadFailed, MarkFailed
  <2> QED
    BY <1>1, <2>1, <2>2, <2>3 DEF Exists, NoRow
<1>7. ASSUME NEW w \in Workers, Receive(w) \/ CrashWorker(w) PROVE Present'
  BY <1>7 DEF Receive, TakeTask, DropTask, CrashWorker, rows, Present, Exists
<1>8. CASE ExpireLock \/ UNCHANGED vars
  BY <1>8 DEF ExpireLock, vars, rows, Present, Exists
<1> QED
  BY <1>2, <1>3, <1>4, <1>5, <1>6, <1>7, <1>8 DEF Next

\* Every reachable state is well typed: the row, its children, the checkpoint,
\* the lock and every process hold only what the code puts there.
THEOREM TypeCorrect == Spec => [](TypeOK /\ Present)
<1>1. Init => TypeOK /\ Present
  <2>1. <<>> \in Seq(BOOLEAN) /\ <<>> \in Seq(Reports) /\ <<>> \in Seq(ReviewRecord)
    OBVIOUS
  <2>2. Init => Present
    BY DEF Init, Present, IdleRequest
  <2>3. Init => /\ worker \in [Workers -> WorkerState]
                /\ request \in [Requests -> RequestState]
    BY IdleTypes DEF Init
  <2>4. Init => /\ run \in [status : Statuses \cup NoRow, cancelled_at : BOOLEAN]
                /\ thread \in [at : Positions, reworks : Nat]
                /\ queue \in [TaskKinds -> Nat]
    BY DEF Init, NoRow, Positions
  <2> QED
    BY <2>1, <2>2, <2>3, <2>4 DEF Init, TypeOK
<1>2. TypeOK /\ Present /\ [Next]_vars => (TypeOK /\ Present)'
  BY TypeStep, PresentStep
<1> QED
  BY <1>1, <1>2, PTL DEF Spec

-----------------------------------------------------------------------------
(* The run lock *)

\* The inductive form of OneExecutor: a worker past the acquire owns the lock.
\* A crashed owner leaves "orphan" behind, so expiry never frees a live lock.
LockHeld == \A w \in Workers : worker[w].pc \in Holding => lock = w

\* A step of a worker that holds the lock keeps it or gives it back.
LEMMA LockStep == ASSUME TypeOK, LockHeld, [Next]_vars PROVE LockHeld'
<1>1. ASSUME NEW r \in Requests,
             CreateRun(r) \/ (\E op \in Offered : Read(r, op)) \/ Handle(r) \/ CrashRequest(r)
      PROVE  LockHeld'
  <2>1. UNCHANGED <<lock, worker>>
    BY <1>1 DEF CreateRun, Read, CrashRequest, Handle, ApprovePlan, ReturnPlan, ApproveReport,
       RequestRework, RejectReport, CancelRun, DeleteRun, Rollback, Dispatch, IngestReport,
       PurgeThread
  <2> QED
    BY <2>1 DEF LockHeld
<1>2. ASSUME NEW w \in Workers, NEW k \in TaskKinds, TakeTask(w, k) PROVE LockHeld'
  BY <1>2, ConstantsAssumption DEF TakeTask, LockHeld, TypeOK
<1>3. ASSUME NEW w \in Workers, NEW k \in TaskKinds, DropTask(w, k) PROVE LockHeld'
  BY <1>3 DEF DropTask, LockHeld
<1>4. ASSUME NEW w \in Workers, Drive(w) PROVE LockHeld'
  <2>1. ASSUME worker[w].pc \in Holding, UNCHANGED lock,
               \A u \in Workers \ {w} : worker'[u] = worker[u]
        PROVE  LockHeld'
    BY <2>1 DEF LockHeld
  <2>2. ASSUME worker'[w].pc \notin Holding, UNCHANGED lock \/ lock' = Released(w),
               \A u \in Workers \ {w} : worker'[u] = worker[u]
        PROVE  LockHeld'
    BY <2>2, ConstantsAssumption DEF LockHeld, Released
  <2>3. CASE ReleaseLock(w) \/ Unwind(w) \/ LoadFailed(w) \/ MarkFailed(w)
    <3>1. worker[w] \in WorkerState
      BY DEF TypeOK
    <3>2. /\ worker'[w].pc \notin Holding
          /\ \A u \in Workers \ {w} : worker'[u] = worker[u]
      BY <2>3, <3>1 DEF ReleaseLock, Unwind, LoadFailed, MarkFailed, See, Leave, IdleWorker,
         TypeOK, WorkerState, Holding
    <3> QED
      BY <2>2, <2>3, <3>2 DEF ReleaseLock, Unwind, LoadFailed, MarkFailed
  <2>4. CASE ~(ReleaseLock(w) \/ Unwind(w) \/ LoadFailed(w) \/ MarkFailed(w))
    <3>1. worker[w].pc \in Holding /\ UNCHANGED lock
      BY <1>4, <2>4 DEF Drive, LoadRun, MarkRunning, RefuseRun, RunGraph, RefreshRun, PersistOutcome,
         PersistFails, PublishOutcome, At, Holding
    <3>2. \A u \in Workers \ {w} : worker'[u] = worker[u]
      BY <1>4, <2>4 DEF Drive, LoadRun, MarkRunning, RefuseRun, RunGraph, RefreshRun, PersistOutcome,
         PersistFails, PublishOutcome, Step, See, Leave, TypeOK
    <3> QED
      BY <2>1, <3>1, <3>2
  <2> QED
    BY <2>3, <2>4
<1>5. ASSUME NEW w \in Workers, CrashWorker(w) PROVE LockHeld'
  BY <1>5, ConstantsAssumption DEF CrashWorker, LockHeld, IdleWorker, Holding, TypeOK
<1>6. CASE ExpireLock
  BY <1>6, ConstantsAssumption DEF ExpireLock, LockHeld
<1>7. CASE UNCHANGED vars
  BY <1>7 DEF vars, LockHeld
<1> QED
  BY <1>1, <1>2, <1>3, <1>4, <1>5, <1>6, <1>7 DEF Next, Receive

\* The run lock is a lock: no two workers are ever between acquiring and
\* releasing it (acquire_session_lock, _RELEASE_LUA, the TTL).
THEOREM LockExclusion == Spec => []OneExecutor
<1>1. Init => LockHeld
  BY DEF Init, LockHeld, IdleWorker, Holding
<1>2. LockHeld => OneExecutor
  BY DEF LockHeld, OneExecutor
<1>3. TypeOK /\ LockHeld /\ [Next]_vars => LockHeld'
  BY LockStep
<1> QED
  BY <1>1, <1>2, <1>3, TypeCorrect, PTL DEF Spec

-----------------------------------------------------------------------------
(* The plan gate *)

PlanApproved == \E i \in DOMAIN plans : plans[i]

\* What follows an approval may go on; nothing that follows is recorded once
\* the run is deleted.
Cleared == PlanApproved \/ run.status = "DELETED"

\* A plan that a handler has decided on is there, as long as the run is.
PlanPresent == \A r \in Requests :
    request[r].pc = "decided" /\ request[r].op \in PlanOps /\ Exists
      => request[r].target \in DOMAIN plans

\* A request whose decision takes the graph past the plan gate.
WillResume(q) ==
    \/ q.pc = "dispatch" /\ q.op # "create"
    \/ q.pc = "decided" /\ q.op = "rework"

\* A worker that may take the graph past its plan gate, or has.
Resumes(s) ==
    \/ s.pc \in {"locked", "loaded", "graph"} /\ s.task # "start"
    \/ s.pc \in {"outcome", "fresh"} /\ s.outcome = "awaiting_approval"

ResumeQueued == queue["resume_plan"] > 0 \/ queue["rework"] > 0

\* The inductive form of DraftNeedsApprovedPlan: whatever an approval sets
\* going, from the handler that commits it to the outcome that becomes a
\* revision, is found only where a plan was approved.
PlanGate == ~SkipPlanGate =>
    /\ revisions # <<>> => PlanApproved
    /\ ResumeQueued => Cleared
    /\ \A r \in Requests : WillResume(request[r]) => Cleared
    /\ \A w \in Workers : Resumes(worker[w]) => Cleared

\* Of a handler that has committed only the operation is left, and nothing of
\* one that is finished.
LEMMA Moved ==
    ASSUME TypeOK, NEW r \in Requests, NEW pc \in RequestPcs, Goto(r, pc) \/ Finish(r)
    PROVE  /\ \A s \in Requests \ {r} : request'[s] = request[s]
           /\ Goto(r, pc) => request'[r].pc = pc /\ request'[r].op = request[r].op
           /\ Finish(r) => request'[r].pc = "idle"
<1>1. request[r] \in RequestState /\ request \in [Requests -> RequestState]
  BY DEF TypeOK
<1>2. ASSUME Goto(r, pc)
      PROVE  request'[r].pc = pc /\ request'[r].op = request[r].op
  <2>1. request'[r] = [request[r] EXCEPT !.pc = pc, !.seen = "NONE", !.target = 0]
    BY <1>1, <1>2 DEF Goto
  <2> QED
    BY <1>1, <2>1 DEF RequestState
<1>3. ASSUME Finish(r) PROVE request'[r].pc = "idle"
  BY <1>1, <1>3 DEF Finish, IdleRequest
<1>4. \A s \in Requests \ {r} : request'[s] = request[s]
  BY <1>1 DEF Goto, Finish
<1> QED
  BY <1>2, <1>3, <1>4

\* An approval stamps a plan that is there, and removes none.
LEMMA ApprovalStamps ==
    ASSUME TypeOK, PlanPresent, NEW r \in Requests, NEW op \in {"plan_approve", "plan_edit"},
           ApprovePlan(r, op)
    PROVE  PlanApproved' /\ DOMAIN plans \subseteq DOMAIN plans'
<1> DEFINE ps == IF op = "plan_edit" THEN Append(plans, FALSE) ELSE plans
           v  == IF op = "plan_edit" THEN Len(ps) ELSE request[r].target
<1>1. plans' = [ps EXCEPT ![v] = TRUE]
  BY DEF ApprovePlan
<1>2. DOMAIN plans \subseteq DOMAIN ps
  BY DEF TypeOK
<1>3. v \in DOMAIN ps
  <2>1. CASE op = "plan_edit"
    BY <2>1 DEF TypeOK
  <2>2. CASE op = "plan_approve"
    BY <2>2 DEF ApprovePlan, Decided, PlanPresent, PlanOps
  <2> QED
    BY <2>1, <2>2
<1>4. DOMAIN plans' = DOMAIN ps /\ plans'[v] = TRUE
  BY <1>1, <1>3
<1> QED
  BY <1>2, <1>3, <1>4 DEF PlanApproved

\* The plans of a run are only added to and stamped, until it is deleted.
LEMMA PlansStep ==
    ASSUME TypeOK, PlanPresent, [Next]_vars
    PROVE  \/ \E r \in Requests : DeleteRun(r)
           \/ /\ DOMAIN plans \subseteq DOMAIN plans'
              /\ PlanApproved => PlanApproved'
<1> DEFINE Grow == DOMAIN plans \subseteq DOMAIN plans' /\ (PlanApproved => PlanApproved')
<1>1. ASSUME UNCHANGED plans PROVE Grow
  BY <1>1 DEF PlanApproved
<1>2. ASSUME NEW r \in Requests, Handle(r), ~DeleteRun(r) PROVE Grow
  <2>1. CASE ApprovePlan(r, "plan_approve") \/ ApprovePlan(r, "plan_edit")
    BY <2>1, ApprovalStamps
  <2>2. CASE ~(ApprovePlan(r, "plan_approve") \/ ApprovePlan(r, "plan_edit"))
    <3>1. UNCHANGED plans
      BY <1>2, <2>2 DEF Handle, ReturnPlan, ApproveReport, RequestRework, RejectReport,
         CancelRun, Rollback, Dispatch, IngestReport, PurgeThread, rows
    <3> QED
      BY <1>1, <3>1
  <2> QED
    BY <2>1, <2>2
<1>3. ASSUME NEW w \in Workers, Drive(w) PROVE Grow
  <2>1. plans' = plans \/ plans' = Append(plans, FALSE)
    BY <1>3 DEF Drive, LoadRun, MarkRunning, RefuseRun, RunGraph, RefreshRun, PersistOutcome,
       PersistFails, PublishOutcome, ReleaseLock, Unwind, LoadFailed, MarkFailed, rows
  <2>2. CASE plans' = Append(plans, FALSE)
    <3>1. plans \in Seq(BOOLEAN) /\ FALSE \in BOOLEAN
      BY DEF TypeOK
    <3>2. /\ Len(plans') = Len(plans) + 1
          /\ \A i \in 1 .. Len(plans) : plans'[i] = plans[i]
          /\ plans' \in Seq(BOOLEAN)
      BY <2>2, <3>1, AppendProperties
    <3>3. DOMAIN plans = 1 .. Len(plans) /\ DOMAIN plans' = 1 .. Len(plans')
      BY <3>1, <3>2
    <3>4. DOMAIN plans \subseteq DOMAIN plans'
      BY <3>1, <3>2, <3>3
    <3> QED
      BY <3>2, <3>3, <3>4 DEF PlanApproved
  <2> QED
    BY <1>1, <2>1, <2>2
<1>4. CASE \/ \E r \in Requests :
                CreateRun(r) \/ (\E op \in Offered : Read(r, op)) \/ CrashRequest(r)
           \/ \E w \in Workers : Receive(w) \/ CrashWorker(w)
           \/ ExpireLock \/ UNCHANGED vars
  BY <1>1, <1>4 DEF CreateRun, Read, CrashRequest, Receive, TakeTask, DropTask,
     CrashWorker, ExpireLock, vars, rows
<1> QED
  BY <1>2, <1>3, <1>4 DEF Next

\* A run that is gone is written by nobody: not by a handler that decided
\* before, and not by a worker that is still driving it.
LEMMA GoneStays ==
    ASSUME TypeOK, [Next]_vars, ~Exists
    PROVE  (run' = run /\ revisions' = revisions) \/ \E r \in Requests : CreateRun(r)
<1>1. ASSUME NEW r \in Requests, Handle(r) PROVE run' = run /\ revisions' = revisions
  BY <1>1 DEF Handle, ApprovePlan, ReturnPlan, ApproveReport, RequestRework, RejectReport,
     CancelRun, DeleteRun, Rollback, Dispatch, IngestReport, PurgeThread, Decided, rows
<1>2. ASSUME NEW w \in Workers, Drive(w) PROVE run' = run /\ revisions' = revisions
  BY <1>2 DEF Drive, LoadRun, MarkRunning, RefuseRun, RunGraph, RefreshRun, PersistOutcome,
     PersistFails, PublishOutcome, ReleaseLock, Unwind, LoadFailed, MarkFailed, Assigned,
     Writable, rows
<1> QED
  BY <1>1, <1>2 DEF Next, Read, CrashRequest, Receive, TakeTask, DropTask, CrashWorker,
     ExpireLock, vars, rows

\* So what an approval cleared stays cleared.
LEMMA ClearedStep ==
    ASSUME TypeOK, PlanPresent, [Next]_vars, Cleared
    PROVE  Cleared'
<1>1. CASE run.status = "DELETED"
  BY <1>1, GoneStays DEF Exists, NoRow, Cleared, CreateRun
<1>2. CASE PlanApproved
  <2>1. ASSUME NEW r \in Requests, DeleteRun(r) PROVE Cleared'
    BY <2>1 DEF DeleteRun, Cleared
  <2> QED
    BY <1>2, <2>1, PlansStep DEF Cleared
<1> QED
  BY <1>1, <1>2 DEF Cleared

\* A request that decides on a plan keeps its plan.
LEMMA PlanPresentStep ==
    ASSUME TypeOK, Present, PlanPresent, [Next]_vars
    PROVE  PlanPresent'
<1> DEFINE Fewer == \A r \in Requests :
                      request'[r].pc = "decided" => request'[r] = request[r]
<1>1. ASSUME Fewer PROVE PlanPresent'
  <2>1. CASE \E r \in Requests : DeleteRun(r)
    BY <2>1 DEF DeleteRun, PlanPresent, Exists, NoRow
  <2>2. CASE \E r \in Requests : CreateRun(r)
    BY <1>1, <2>2 DEF CreateRun, PlanPresent, Present
  <2>3. CASE /\ DOMAIN plans \subseteq DOMAIN plans'
             /\ ~\E r \in Requests : CreateRun(r)
    BY <1>1, <2>3, GoneStays DEF PlanPresent, Exists
  <2> QED
    BY <2>1, <2>2, <2>3, PlansStep
<1>2. ASSUME NEW r \in Requests, NEW op \in Offered, Read(r, op) PROVE PlanPresent'
  <2>1. Len(plans) \in Nat /\ DOMAIN plans = 1 .. Len(plans)
    BY DEF TypeOK
  <2>2. op \in PlanOps => Targets(op) = {Len(plans)} \ {0}
    BY DEF Targets, PlanOps, ReportOps
  <2>3. \A t \in Targets(op) : op \in PlanOps => t \in DOMAIN plans
    BY <2>1, <2>2
  <2> QED
    BY <1>2, <2>3 DEF Read, PlanPresent, TypeOK, Exists, rows
<1>3. ASSUME NEW r \in Requests, CreateRun(r) PROVE Fewer
  BY <1>3 DEF CreateRun, IdleRequest, TypeOK
<1>4. ASSUME NEW r \in Requests, Handle(r) \/ CrashRequest(r) PROVE Fewer
  <2>1. Finish(r) \/ \E pc \in {"dispatch", "ingest", "purge"} : Goto(r, pc)
    BY <1>4 DEF Handle, CrashRequest, ApprovePlan, ReturnPlan, ApproveReport, RequestRework,
       RejectReport, CancelRun, DeleteRun, Rollback, Dispatch, IngestReport, PurgeThread
  <2>2. /\ request'[r].pc # "decided"
        /\ \A s \in Requests \ {r} : request'[s] = request[s]
    BY <2>1, Moved DEF RequestPcs
  <2> QED
    BY <2>2
<1>5. CASE \/ \E w \in Workers : Receive(w) \/ Drive(w) \/ CrashWorker(w)
           \/ ExpireLock \/ UNCHANGED vars
  <2>1. UNCHANGED request
    BY <1>5 DEF Receive, TakeTask, DropTask, Drive, LoadRun, MarkRunning, RefuseRun, RunGraph,
       RefreshRun, PersistOutcome, PersistFails, PublishOutcome, ReleaseLock, Unwind, LoadFailed,
       MarkFailed, CrashWorker, ExpireLock, vars
  <2> QED
    BY <1>1, <2>1
<1> QED
  BY <1>1, <1>2, <1>3, <1>4, <1>5 DEF Next

\* A step of a worker: it goes past the plan gate only with a task that an
\* approval queued, and only such a worker records a revision.
LEMMA DrivePlanGate ==
    ASSUME TypeOK, PlanPresent, PlanGate, ~SkipPlanGate, NEW w \in Workers, Drive(w), [Next]_vars
    PROVE  PlanGate'
<1>1. worker[w] \in WorkerState
  BY DEF TypeOK
<1>2. UNCHANGED <<queue, request>>
  BY DEF Drive, LoadRun, MarkRunning, RefuseRun, RunGraph, RefreshRun, PersistOutcome,
     PersistFails, PublishOutcome, ReleaseLock, Unwind, LoadFailed, MarkFailed
<1>3. \A u \in Workers \ {w} : worker'[u] = worker[u]
  BY DEF Drive, LoadRun, MarkRunning, RefuseRun, RunGraph, RefreshRun, PersistOutcome,
     PersistFails, PublishOutcome, ReleaseLock, Unwind, LoadFailed, MarkFailed, Step, See, Leave, TypeOK
<1>4. Resumes(worker'[w]) => Resumes(worker[w])
  <2>1. CASE RunGraph(w)
    <3>1. PICK stop \in Stops(worker[w].task) :
            worker' = [worker EXCEPT ![w] = [IdleWorker EXCEPT
                  !.pc = IF stop.thread.at = "mid" THEN "error" ELSE "outcome",
                  !.outcome = stop.outcome]]
      BY <2>1 DEF RunGraph
    <3>2. /\ worker'[w].pc \in {"error", "outcome"}
          /\ worker'[w].outcome = stop.outcome
      BY <3>1 DEF TypeOK, IdleWorker
    <3>3. worker[w].task = "start" => stop.outcome # "awaiting_approval"
      BY DEF Stops, Stop
    <3> QED
      BY <2>1, <3>2, <3>3 DEF RunGraph, At, Resumes
  <2>2. CASE LoadRun(w) \/ MarkRunning(w) \/ RefreshRun(w)
    BY <1>1, <2>2 DEF LoadRun, MarkRunning, RefreshRun, At, Step, See, Resumes, TypeOK, WorkerState
  <2>3. CASE \/ RefuseRun(w) \/ PersistOutcome(w) \/ PersistFails(w) \/ PublishOutcome(w)
             \/ ReleaseLock(w) \/ Unwind(w) \/ LoadFailed(w) \/ MarkFailed(w)
    <3>1. worker \in [Workers -> WorkerState]
      BY DEF TypeOK
    <3>2. CASE RefuseRun(w) \/ PublishOutcome(w) \/ LoadFailed(w)
      <4>1. worker'[w].pc \in {"publish", "error", "release", "marking", "idle"}
        BY <1>1, <2>3, <3>1, <3>2 DEF RefuseRun, PublishOutcome, LoadFailed, Step, See,
           IdleWorker, WorkerState
      <4> QED
        BY <4>1 DEF Resumes
    <3>3. CASE \/ PersistOutcome(w) \/ PersistFails(w) \/ ReleaseLock(w) \/ Unwind(w)
               \/ MarkFailed(w)
      <4>1. \/ \E pc \in {"publish", "error", "failing"} : Leave(w, pc)
            \/ worker' = [worker EXCEPT ![w] = IdleWorker]
        BY <3>3 DEF PersistOutcome, PersistFails, ReleaseLock, Unwind, MarkFailed
      <4>2. worker'[w].pc \in {"publish", "error", "failing", "idle"}
        BY <3>1, <4>1 DEF Leave, IdleWorker
      <4> QED
        BY <4>2 DEF Resumes
    <3> QED
      BY <2>3, <3>2, <3>3
  <2> QED
    BY <2>1, <2>2, <2>3, Drive(w) DEF Drive
<1>5. revisions' # <<>> => PlanApproved'
  <2>1. ~\E r \in Requests : DeleteRun(r)
    BY <1>2, Moved DEF DeleteRun, Decided, RequestPcs
  <2>2. PlanApproved => PlanApproved'
    BY <2>1, PlansStep
  <2>3. CASE UNCHANGED revisions
    BY <2>2, <2>3 DEF PlanGate
  <2>4. CASE ~UNCHANGED revisions
    <3>1. PersistOutcome(w) /\ worker[w].outcome = "awaiting_approval"
      BY <2>4 DEF Drive, LoadRun, MarkRunning, RefuseRun, RunGraph, RefreshRun, PersistOutcome,
         PersistFails, PublishOutcome, ReleaseLock, Unwind, LoadFailed, MarkFailed, rows
    <3>2. Cleared /\ Exists
      BY <3>1 DEF PersistOutcome, At, Resumes, PlanGate
    <3> QED
      BY <2>2, <3>2 DEF Cleared, Exists, NoRow
  <2> QED
    BY <2>3, <2>4
<1>6. Cleared => Cleared'
  BY ClearedStep
<1> QED
  BY <1>2, <1>3, <1>4, <1>5, <1>6 DEF PlanGate, ResumeQueued

\* No step opens the gate without an approval.
LEMMA PlanGateStep ==
    ASSUME TypeOK, PlanPresent, PlanGate, ~SkipPlanGate, [Next]_vars
    PROVE  PlanGate'
<1>1. Cleared => Cleared'
  BY ClearedStep
<1>2. ASSUME PlanApproved => PlanApproved' \/ revisions' = <<>>,
             revisions' \in {revisions, <<>>},
             ResumeQueued' => ResumeQueued \/ Cleared',
             \A r \in Requests : WillResume(request'[r]) => WillResume(request[r]) \/ Cleared',
             \A w \in Workers : Resumes(worker'[w]) => Resumes(worker[w]) \/ Cleared'
      PROVE  PlanGate'
  BY <1>1, <1>2 DEF PlanGate
<1>3. ASSUME UNCHANGED <<plans, revisions, queue, worker>>, NEW r \in Requests,
             \A s \in Requests \ {r} : request'[s] = request[s],
             WillResume(request'[r]) => Cleared'
      PROVE  PlanGate'
  BY <1>2, <1>3 DEF PlanApproved, ResumeQueued
<1>4. ASSUME NEW r \in Requests, CreateRun(r) PROVE PlanGate'
  <2>1. ~WillResume(request'[r])
    BY <1>4 DEF CreateRun, IdleRequest, TypeOK, WillResume
  <2> QED
    BY <1>3, <1>4, <2>1 DEF CreateRun, TypeOK
<1>5. ASSUME NEW r \in Requests, NEW op \in Offered, Read(r, op) PROVE PlanGate'
  <2>1. PICK t \in Targets(op) : request' = [request EXCEPT ![r] =
            [pc |-> "decided", op |-> op, seen |-> run.status, target |-> t]]
    BY <1>5 DEF Read
  <2>2. op = "rework" => revisions # <<>>
    BY <2>1 DEF Targets, PlanOps, ReportOps
  <2>3. op = "rework" => Cleared
    BY <2>2 DEF PlanGate, Cleared
  <2>4. WillResume(request'[r]) => Cleared
    BY <2>1, <2>3 DEF WillResume, TypeOK
  <2> QED
    BY <1>1, <1>3, <1>5, <2>1, <2>4 DEF Read, rows, TypeOK
<1>6. ASSUME NEW r \in Requests, Handle(r) PROVE PlanGate'
  <2>1. request[r] \in RequestState
    BY DEF TypeOK
  <2>2. ASSUME Finish(r) PROVE ~WillResume(request'[r])
    BY <2>2 DEF Finish, IdleRequest, WillResume, TypeOK
  <2>3. Goto(r, "ingest") => request'[r].pc = "ingest"
    BY Moved DEF RequestPcs
  <2>4. \A s \in Requests \ {r} : request'[s] = request[s]
    <3>1. Finish(r) \/ \E pc \in {"dispatch", "ingest", "purge"} : Goto(r, pc)
      BY <1>6 DEF Handle, ApprovePlan, ReturnPlan, ApproveReport, RequestRework,
         RejectReport, CancelRun, DeleteRun, Rollback, Dispatch, IngestReport, PurgeThread
    <3> QED
      BY <3>1, Moved DEF RequestPcs
  <2>5. ASSUME NEW op \in {"plan_approve", "plan_edit"}, ApprovePlan(r, op) PROVE PlanGate'
    <3>1. PlanApproved' /\ Cleared'
      BY <2>5, ApprovalStamps DEF Cleared
    <3>2. UNCHANGED <<revisions, queue, worker>>
      BY <2>5 DEF ApprovePlan
    <3> QED
      BY <1>2, <3>1, <3>2
  <2>6. CASE RequestRework(r)
    <3>1. Cleared
      BY <2>6 DEF RequestRework, Decided, PlanGate, WillResume
    <3> QED
      BY <1>1, <1>3, <2>4, <2>6, <3>1 DEF RequestRework
  <2>7. CASE ApproveReport(r)
    <3>1. ~WillResume(request'[r])
      BY <2>3, <2>7 DEF ApproveReport, WillResume
    <3> QED
      BY <1>3, <2>4, <2>7, <3>1 DEF ApproveReport
  <2>8. CASE DeleteRun(r)
    <3>1. Cleared' /\ revisions' = <<>> /\ UNCHANGED <<queue, worker>>
      BY <2>8 DEF DeleteRun, Cleared
    <3> QED
      BY <1>2, <3>1
  <2>9. CASE Dispatch(r)
    <3>1. request[r].op # "create" => Cleared
      BY <2>9 DEF Dispatch, WillResume, PlanGate
    <3>2. request[r].op = "create" => (ResumeQueued' => ResumeQueued)
      BY <2>9 DEF Dispatch, TaskFor, PlanOps, ResumeQueued, TypeOK, TaskKinds
    <3> QED
      BY <1>1, <1>2, <2>2, <2>4, <2>9, <3>1, <3>2 DEF Dispatch, rows, PlanApproved
  <2>10. CASE \/ ReturnPlan(r) \/ RejectReport(r) \/ CancelRun(r) \/ Rollback(r)
              \/ IngestReport(r) \/ PurgeThread(r)
    <3>1. Finish(r) /\ UNCHANGED <<plans, revisions, queue, worker>>
      BY <2>10 DEF ReturnPlan, RejectReport, CancelRun, Rollback, IngestReport, PurgeThread, rows
    <3> QED
      BY <1>3, <2>2, <2>4, <3>1
  <2> QED
    BY <1>6, <2>5, <2>6, <2>7, <2>8, <2>9, <2>10 DEF Handle
<1>7. ASSUME NEW r \in Requests, CrashRequest(r) PROVE PlanGate'
  <2>1. ~WillResume(request'[r])
    BY <1>7 DEF CrashRequest, Finish, IdleRequest, TypeOK, WillResume
  <2> QED
    BY <1>3, <1>7, <2>1 DEF CrashRequest, Finish, rows, TypeOK
<1>8. ASSUME NEW w \in Workers, NEW k \in TaskKinds, TakeTask(w, k) PROVE PlanGate'
  <2>1. ResumeQueued' => ResumeQueued
    BY <1>8 DEF TakeTask, ResumeQueued, TypeOK, TaskKinds
  <2>2. Resumes(worker'[w]) => ResumeQueued
    BY <1>8 DEF TakeTask, Resumes, ResumeQueued, TypeOK, WorkerState, TaskKinds
  <2>3. ResumeQueued => Cleared
    BY DEF PlanGate
  <2>4. \A u \in Workers \ {w} : worker'[u] = worker[u]
    BY <1>8 DEF TakeTask, TypeOK
  <2> QED
    BY <1>1, <1>2, <1>8, <2>1, <2>2, <2>3, <2>4 DEF TakeTask, rows, PlanApproved
<1>9. ASSUME NEW w \in Workers, NEW k \in TaskKinds, DropTask(w, k) PROVE PlanGate'
  <2>1. ResumeQueued' => ResumeQueued
    BY <1>9 DEF DropTask, ResumeQueued, TypeOK, TaskKinds
  <2> QED
    BY <1>2, <1>9, <2>1 DEF DropTask, rows, PlanApproved
<1>10. ASSUME NEW w \in Workers, CrashWorker(w) PROVE PlanGate'
  <2>1. \A u \in Workers : Resumes(worker'[u]) => Resumes(worker[u])
    BY <1>10 DEF CrashWorker, IdleWorker, Resumes, TypeOK
  <2> QED
    BY <1>2, <1>10, <2>1 DEF CrashWorker, rows, PlanApproved, ResumeQueued
<1>11. CASE ExpireLock \/ UNCHANGED vars
  BY <1>2, <1>11 DEF ExpireLock, vars, rows, PlanApproved, ResumeQueued
<1> QED
  BY <1>4, <1>5, <1>6, <1>7, <1>8, <1>9, <1>10, <1>11, DrivePlanGate DEF Next, Receive

\* No draft of a gated run is recorded unless a version of its plan was
\* approved, for any number of decisions, workers, crashes and stale reads: the
\* approval precedes every message, task and outcome that could become one
\* (submit_plan_review, execute_run, persist_outcome).
THEOREM DraftsFollowApproval == Spec => []DraftNeedsApprovedPlan
<1>1. Init => PlanPresent /\ PlanGate
  BY DEF Init, PlanPresent, PlanGate, ResumeQueued, WillResume, Resumes, IdleRequest, IdleWorker,
     TaskKinds
<1>2. TypeOK /\ Present /\ PlanPresent /\ PlanGate /\ [Next]_vars => (PlanPresent /\ PlanGate)'
  <2>1. SkipPlanGate => PlanGate'
    BY DEF PlanGate
  <2> QED
    BY <2>1, PlanPresentStep, PlanGateStep
<1>3. PlanGate => DraftNeedsApprovedPlan
  BY DEF PlanGate, DraftNeedsApprovedPlan, PlanApproved
<1> QED
  BY <1>1, <1>2, <1>3, TypeCorrect, PTL DEF Spec

-----------------------------------------------------------------------------
(* COMPLETED and the artifact *)

\* A frozen record is never the absence of one.
LEMMA RecordIsNew ==
    ASSUME NEW revision, NEW report, NEW review
    PROVE  [revision |-> revision, report |-> report, review |-> review] # NoArtifact
<1>1. "review" \in DOMAIN [revision |-> revision, report |-> report, review |-> review]
  OBVIOUS
<1>2. DOMAIN NoArtifact = {"revision"}
  BY DEF NoArtifact
<1> QED
  BY <1>1, <1>2

\* A handler that read COMPLETED read it of a run that had its artifact.
CompletedWasSeen == \A r \in Requests :
    (request[r].pc = "decided" /\ request[r].seen = "COMPLETED" /\ Exists) => artifact # NoArtifact

\* Only an approval writes COMPLETED, and it freezes the artifact with it.
LEMMA CompletedStep ==
    ASSUME TypeOK, CompletedHasArtifact, [Next]_vars
    PROVE  CompletedHasArtifact'
<1>1. ASSUME UNCHANGED artifact, run' = run \/ run'.status # "COMPLETED"
      PROVE  CompletedHasArtifact'
  BY <1>1 DEF CompletedHasArtifact
<1>2. \A seen, status : status # "COMPLETED" =>
        Assigned(seen, status) = run \/ Assigned(seen, status).status # "COMPLETED"
  BY DEF Assigned, TypeOK
<1>3. ASSUME NEW r \in Requests, CreateRun(r) PROVE CompletedHasArtifact'
  BY <1>1, <1>3 DEF CreateRun
<1>4. ASSUME NEW r \in Requests, Handle(r) PROVE CompletedHasArtifact'
  <2>1. CASE ApproveReport(r)
    <3>1. artifact' # NoArtifact
      BY <2>1, RecordIsNew DEF ApproveReport
    <3> QED
      BY <3>1 DEF CompletedHasArtifact
  <2>2. CASE DeleteRun(r)
    BY <2>2 DEF DeleteRun, CompletedHasArtifact
  <2>3. CASE ApprovePlan(r, "plan_approve") \/ ApprovePlan(r, "plan_edit") \/ RequestRework(r)
    <3>1. UNCHANGED artifact /\ run' = Assigned(request[r].seen, "RUNNING")
      BY <2>3 DEF ApprovePlan, RequestRework
    <3> QED
      BY <1>1, <1>2, <3>1
  <2>4. CASE CancelRun(r)
    BY <1>1, <2>4 DEF CancelRun
  <2>5. CASE \/ ReturnPlan(r) \/ RejectReport(r) \/ Rollback(r) \/ Dispatch(r)
             \/ IngestReport(r) \/ PurgeThread(r)
    BY <1>1, <2>5 DEF ReturnPlan, RejectReport, Rollback, Dispatch, IngestReport, PurgeThread, rows
  <2> QED
    BY <1>4, <2>1, <2>2, <2>3, <2>4, <2>5 DEF Handle
<1>5. ASSUME NEW r \in Requests, (\E op \in Offered : Read(r, op)) \/ CrashRequest(r)
      PROVE  CompletedHasArtifact'
  BY <1>1, <1>5 DEF Read, CrashRequest, rows
<1>6. ASSUME NEW w \in Workers, Drive(w) PROVE CompletedHasArtifact'
  <2>1. UNCHANGED artifact
    BY <1>6 DEF Drive, LoadRun, MarkRunning, RefuseRun, RunGraph, RefreshRun, PersistOutcome, PersistFails,
       PublishOutcome, ReleaseLock, Unwind, LoadFailed, MarkFailed, rows
  <2>2. CASE MarkRunning(w) \/ RefuseRun(w)
    BY <1>1, <1>2, <2>1, <2>2 DEF MarkRunning, RefuseRun, FailureStatus
  <2>3. CASE PersistOutcome(w)
    <3>1. OutcomeStatus(worker[w].outcome) # "COMPLETED"
      BY DEF OutcomeStatus, TypeOK, WorkerState, Outcomes
    <3> QED
      BY <1>1, <1>2, <2>1, <2>3, <3>1 DEF PersistOutcome
  <2>4. CASE MarkFailed(w)
    <3>1. \/ run' = run
          \/ run' = Assigned(worker[w].seen, FailureStatus(worker[w].seen))
      BY <2>4 DEF MarkFailed
    <3>2. FailureStatus(worker[w].seen) # "COMPLETED"
      BY DEF FailureStatus
    <3> QED
      BY <1>1, <1>2, <2>1, <3>1, <3>2
  <2> QED
    BY <1>1, <1>6, <2>1, <2>2, <2>3, <2>4 DEF Drive, LoadRun, RunGraph, RefreshRun, PersistFails,
       PublishOutcome, ReleaseLock, Unwind, LoadFailed, rows
<1>7. CASE \/ \E w \in Workers : Receive(w) \/ CrashWorker(w)
           \/ ExpireLock \/ UNCHANGED vars
  BY <1>1, <1>7 DEF Receive, TakeTask, DropTask, CrashWorker, ExpireLock, vars, rows
<1> QED
  BY <1>3, <1>4, <1>5, <1>6, <1>7 DEF Next

\* A COMPLETED run has its artifact, whoever wrote the status last: a stale
\* decision, a late worker, a failure recorded after the fact
\* (submit_report_review, persist_outcome, _mark_run_failed).
THEOREM CompletionHasRecord == Spec => []CompletedHasArtifact
<1>1. Init => CompletedHasArtifact
  BY DEF Init, CompletedHasArtifact
<1>2. TypeOK /\ CompletedHasArtifact /\ [Next]_vars => CompletedHasArtifact'
  BY CompletedStep
<1> QED
  BY <1>1, <1>2, TypeCorrect, PTL DEF Spec

-----------------------------------------------------------------------------
(* Approving reviews and the artifact *)

\* The artifact names a review and a revision that are there.
ArtifactBound == artifact # NoArtifact =>
    artifact.review \in DOMAIN reviews /\ artifact.revision \in DOMAIN revisions

\* A new review comes last and disturbs none before it.
LEMMA ReviewsGrow ==
    ASSUME TypeOK, NEW new \in ReviewRecord, reviews' = Append(reviews, new)
    PROVE  /\ DOMAIN reviews' = DOMAIN reviews \cup {Len(reviews')}
           /\ Len(reviews') \notin DOMAIN reviews
           /\ \A i \in DOMAIN reviews : reviews'[i] = reviews[i]
           /\ reviews'[Len(reviews')] = new
BY DEF TypeOK

\* Only an approving REPORT review adds to the approvals.
LEMMA ApprovalsGrow ==
    ASSUME TypeOK, NEW new \in ReviewRecord, reviews' = Append(reviews, new)
    PROVE  ApprovedReports' = ApprovedReports \cup
             (IF new.gate = "REPORT" /\ new.decision = "APPROVED" THEN {Len(reviews')} ELSE {})
BY ReviewsGrow DEF ApprovedReports

\* What every step but an approval and a delete does to these rows.
Kept ==
    /\ UNCHANGED artifact
    /\ DOMAIN reviews \subseteq DOMAIN reviews' /\ DOMAIN revisions \subseteq DOMAIN revisions'
    /\ \A i \in DOMAIN reviews : reviews'[i] = reviews[i]
    /\ \A v \in DOMAIN revisions : revisions'[v] = revisions[v]
    /\ ApprovedReports' = ApprovedReports

\* Only an approval and a delete touch the record: every other step keeps each
\* review, each revision and the set of approvals.
LEMMA KeptStep ==
    ASSUME TypeOK, [Next]_vars
    PROVE  Kept \/ \E r \in Requests : ApproveReport(r) \/ DeleteRun(r)
<1>1. ASSUME UNCHANGED <<artifact, reviews>>, UNCHANGED revisions PROVE Kept
  BY <1>1 DEF Kept, ApprovedReports
<1>2. ASSUME NEW r \in Requests, Handle(r), ~ApproveReport(r), ~DeleteRun(r) PROVE Kept
  <2>1. UNCHANGED <<artifact, revisions>>
    BY <1>2 DEF Handle, ApprovePlan, ReturnPlan, RequestRework, RejectReport, CancelRun,
       Rollback, Dispatch, IngestReport, PurgeThread, rows
  <2>2. ASSUME NEW new \in ReviewRecord, reviews' = Append(reviews, new),
               new.gate = "PLAN" \/ new.decision # "APPROVED"
        PROVE  Kept
    BY <2>1, <2>2, ReviewsGrow, ApprovalsGrow DEF Kept
  <2>3. request[r] \in RequestState
    BY DEF TypeOK
  <2>4. ASSUME NEW op \in {"plan_approve", "plan_edit"}, ApprovePlan(r, op) PROVE Kept
    <3> DEFINE v == IF op = "plan_edit"
                    THEN Len(IF op = "plan_edit" THEN Append(plans, FALSE) ELSE plans)
                    ELSE request[r].target
    <3>1. v \in Nat
      BY <2>3 DEF TypeOK, RequestState
    <3>2. reviews' = Append(reviews, Review("PLAN", "APPROVED", v))
      BY <2>4 DEF ApprovePlan
    <3>3. /\ Review("PLAN", "APPROVED", v) \in ReviewRecord
          /\ Review("PLAN", "APPROVED", v).gate = "PLAN"
      BY <3>1 DEF Review, ReviewRecord
    <3> QED
      BY <2>2, <3>2, <3>3
  <2>5. ASSUME NEW gate \in {"PLAN", "REPORT"}, NEW decision \in {"REWORK_REQUESTED", "REJECTED"},
               reviews' = Append(reviews, Review(gate, decision, request[r].target))
        PROVE  Kept
    <3>1. /\ Review(gate, decision, request[r].target) \in ReviewRecord
          /\ Review(gate, decision, request[r].target).decision # "APPROVED"
      BY <2>3 DEF Review, ReviewRecord, RequestState
    <3> QED
      BY <2>2, <2>5, <3>1
  <2>6. CASE ReturnPlan(r)
    BY <2>5, <2>6 DEF ReturnPlan
  <2>7. CASE RequestRework(r)
    BY <2>5, <2>7 DEF RequestRework
  <2>8. CASE RejectReport(r)
    BY <2>5, <2>8 DEF RejectReport
  <2>9. CASE \/ CancelRun(r) \/ Rollback(r) \/ Dispatch(r) \/ IngestReport(r) \/ PurgeThread(r)
    BY <1>1, <2>9 DEF CancelRun, Rollback, Dispatch, IngestReport, PurgeThread, rows
  <2> QED
    BY <1>2, <2>4, <2>6, <2>7, <2>8, <2>9 DEF Handle
<1>3. ASSUME NEW r \in Requests,
             CreateRun(r) \/ (\E op \in Offered : Read(r, op)) \/ CrashRequest(r)
      PROVE  Kept
  BY <1>1, <1>3 DEF CreateRun, Read, CrashRequest, rows
<1>4. ASSUME NEW w \in Workers, Drive(w) PROVE Kept
  <2>1. UNCHANGED <<artifact, reviews>>
    BY <1>4 DEF Drive, LoadRun, MarkRunning, RefuseRun, RunGraph, RefreshRun, PersistOutcome, PersistFails,
       PublishOutcome, ReleaseLock, Unwind, LoadFailed, MarkFailed, rows
  <2>2. revisions' = revisions \/ \E text \in Reports : revisions' = Append(revisions, text)
    BY <1>4 DEF Drive, LoadRun, MarkRunning, RefuseRun, RunGraph, RefreshRun, PersistOutcome, PersistFails,
       PublishOutcome, ReleaseLock, Unwind, LoadFailed, MarkFailed, rows
  <2>3. ASSUME NEW text \in Reports, revisions' = Append(revisions, text) PROVE Kept
    <3>1. /\ DOMAIN revisions \subseteq DOMAIN revisions'
          /\ \A v \in DOMAIN revisions : revisions'[v] = revisions[v]
      BY <2>3 DEF TypeOK
    <3> QED
      BY <2>1, <3>1 DEF Kept, ApprovedReports
  <2> QED
    BY <1>1, <2>1, <2>2, <2>3
<1>5. CASE \/ \E w \in Workers : Receive(w) \/ CrashWorker(w)
           \/ ExpireLock \/ UNCHANGED vars
  BY <1>1, <1>5 DEF Receive, TakeTask, DropTask, CrashWorker, ExpireLock, vars, rows
<1> QED
  BY <1>2, <1>3, <1>4, <1>5 DEF Next

\* Together the two are inductive.
LEMMA ApprovalStep ==
    ASSUME TypeOK, Present, ArtifactBound, ApprovalIsTheArtifact, [Next]_vars
    PROVE  (ArtifactBound /\ ApprovalIsTheArtifact)'
<1>1. CASE Kept
  BY <1>1 DEF Kept, ArtifactBound, ApprovalIsTheArtifact
<1>2. ASSUME NEW r \in Requests, ApproveReport(r)
      PROVE  (ArtifactBound /\ ApprovalIsTheArtifact)'
  <2> DEFINE target == request[r].target
             new    == Review("REPORT", "APPROVED", target)
  <2>1. target \in DOMAIN revisions /\ target \in Nat
    BY <1>2 DEF ApproveReport, Decided, Present, ReportOps, TypeOK
  <2>2. /\ new \in ReviewRecord
        /\ new.gate = "REPORT" /\ new.decision = "APPROVED" /\ new.target = target
    BY <2>1 DEF Review, ReviewRecord
  <2>3. reviews' = Append(reviews, new) /\ revisions' = revisions
    BY <1>2 DEF ApproveReport
  <2>4. artifact' = [revision |-> target, report |-> revisions[target], review |-> Len(reviews')]
    BY <1>2 DEF ApproveReport, ManifestMatches
  <2>5. artifact' # NoArtifact
    BY <2>4, RecordIsNew
  <2>6. ApprovedReports' = {Len(reviews')}
    <3>1. ApprovedReports = {}
      BY <1>2 DEF ApproveReport, UqArtifactRun, ApprovalIsTheArtifact
    <3> QED
      BY <2>2, <2>3, <3>1, ApprovalsGrow
  <2>7. Len(reviews') \in DOMAIN reviews' /\ reviews'[Len(reviews')].target = target
    BY <2>2, <2>3, ReviewsGrow
  <2> QED
    BY <2>1, <2>3, <2>4, <2>5, <2>6, <2>7 DEF ArtifactBound, ApprovalIsTheArtifact
<1>3. ASSUME NEW r \in Requests, DeleteRun(r)
      PROVE  (ArtifactBound /\ ApprovalIsTheArtifact)'
  BY <1>3 DEF DeleteRun, ArtifactBound, ApprovalIsTheArtifact, ApprovedReports
<1> QED
  BY <1>1, <1>2, <1>3, KeptStep

\* An approval is recorded exactly when its artifact is, and the artifact is
\* the report the review was about, however reviews, revisions and retries of
\* them interleave (submit_report_review, create_artifact).
THEOREM ApprovalFreezesReport == Spec => []ApprovalIsTheArtifact
<1>1. Init => ArtifactBound /\ ApprovalIsTheArtifact
  BY DEF Init, ArtifactBound, ApprovalIsTheArtifact, ApprovedReports
<1>2. /\ TypeOK /\ Present /\ ArtifactBound /\ ApprovalIsTheArtifact /\ [Next]_vars
      => (ArtifactBound /\ ApprovalIsTheArtifact)'
  BY ApprovalStep
<1> QED
  BY <1>1, <1>2, TypeCorrect, PTL DEF Spec

-----------------------------------------------------------------------------
(* What the refinement needs to know of the row and of the worker *)

RowConsistent == CkRunCancelled(run)

\* A worker that is researching for the run is not standing at its review
\* gate: whoever put it there has let go of the lock.
ResearchIsNotAtReview == \A w \in Workers :
    /\ worker[w].pc = "loaded" /\ worker[w].seen # "AWAITING_REVIEW"
         => run.status # "AWAITING_REVIEW"
    /\ worker[w].pc \in {"graph", "outcome", "fresh"} => run.status # "AWAITING_REVIEW"
    /\ worker[w].pc = "fresh" => worker[w].seen # "AWAITING_REVIEW"

\* What a step may do to the row's status.
LEMMA StatusStep ==
    ASSUME TypeOK, [Next]_vars
    PROVE  \/ UNCHANGED run
           \/ \E r \in Requests : CreateRun(r) \/ CancelRun(r) \/ DeleteRun(r)
           \/ /\ CkRunCancelled(run')
              /\ \/ run'.status \in {"RUNNING", "FAILED", "COMPLETED"}
                 \/ \E w \in Workers : PersistOutcome(w)
<1>1. \A seen, status : run' = Assigned(seen, status) =>
        run' = run \/ run'.status = status
  BY DEF Assigned, TypeOK
<1> DEFINE Goal == \/ UNCHANGED run
                   \/ \E r \in Requests : CreateRun(r) \/ CancelRun(r) \/ DeleteRun(r)
                   \/ /\ CkRunCancelled(run')
                      /\ \/ run'.status \in {"RUNNING", "FAILED", "COMPLETED"}
                         \/ \E w \in Workers : PersistOutcome(w)
<1>2. ASSUME NEW r \in Requests, Handle(r), ~CancelRun(r), ~DeleteRun(r) PROVE Goal
  <2>1. CASE ApprovePlan(r, "plan_approve") \/ ApprovePlan(r, "plan_edit") \/ RequestRework(r)
    BY <1>1, <2>1 DEF ApprovePlan, RequestRework
  <2>2. CASE ApproveReport(r)
    BY <1>1, <2>2 DEF ApproveReport
  <2> QED
    BY <1>2, <2>1, <2>2 DEF Handle, ReturnPlan, RejectReport, Rollback, Dispatch, IngestReport,
       PurgeThread, rows
<1>3. ASSUME NEW w \in Workers, Drive(w) PROVE Goal
  <2>1. CASE MarkRunning(w)
    <3>1. \/ run' = run
          \/ CkRunCancelled(run') /\ run' = Assigned(worker[w].seen, "RUNNING")
      BY <2>1 DEF MarkRunning, Writable, Assigned
    <3> QED
      BY <1>1, <3>1
  <2>2. CASE PersistOutcome(w)
    BY <2>2 DEF PersistOutcome
  <2>3. CASE MarkFailed(w)
    <3>1. \/ run' = run
          \/ CkRunCancelled(run') /\ run' = Assigned(worker[w].seen, FailureStatus(worker[w].seen))
      BY <2>3 DEF MarkFailed
    <3>2. worker[w].seen = "CANCELLED" => Assigned(worker[w].seen, FailureStatus(worker[w].seen)) = run
      BY DEF Assigned, FailureStatus
    <3>3. worker[w].seen # "CANCELLED" => FailureStatus(worker[w].seen) = "FAILED"
      BY DEF FailureStatus
    <3> QED
      BY <1>1, <3>1, <3>2, <3>3
  <2>4. CASE RefuseRun(w)
    <3>1. \/ run' = run
          \/ CkRunCancelled(run') /\ run' = Assigned("RUNNING", "FAILED")
      BY <2>4 DEF RefuseRun, FailureStatus
    <3> QED
      BY <1>1, <3>1
  <2> QED
    BY <1>3, <2>1, <2>2, <2>3, <2>4 DEF Drive, LoadRun, RunGraph, RefreshRun, PersistFails,
       PublishOutcome, ReleaseLock, Unwind, LoadFailed, rows
<1> QED
  BY <1>2, <1>3 DEF Next, Read, CrashRequest, Receive, TakeTask, DropTask, CrashWorker,
     ExpireLock, vars, rows

\* ck_run_cancelled holds of the row because every UPDATE is checked.
LEMMA RowStep == ASSUME TypeOK, RowConsistent, [Next]_vars PROVE RowConsistent'
<1>1. CkRunCancelled(run) => (run' = run => CkRunCancelled(run'))
  OBVIOUS
<1>2. ASSUME NEW r \in Requests, CreateRun(r) \/ CancelRun(r) \/ DeleteRun(r)
      PROVE  CkRunCancelled(run')
  BY <1>2 DEF CreateRun, CancelRun, DeleteRun, CkRunCancelled
<1> QED
  BY <1>1, <1>2, StatusStep DEF RowConsistent

\* While the lock is held nobody else can put the run at its review gate.
LEMMA ReviewGateStep ==
    ASSUME TypeOK, LockHeld, ResearchIsNotAtReview, [Next]_vars
    PROVE  ResearchIsNotAtReview'
<1>1. ASSUME NEW w \in Workers, PersistOutcome(w) PROVE ResearchIsNotAtReview'
  <2>1. worker[w].pc \in Holding /\ worker'[w].pc = "publish"
    BY <1>1 DEF PersistOutcome, At, Leave, IdleWorker, Holding, TypeOK
  <2>2. \A u \in Workers \ {w} : worker'[u] = worker[u] /\ worker[u].pc \notin Holding
    BY <1>1, <2>1 DEF PersistOutcome, Leave, LockHeld, TypeOK
  <2> QED
    BY <2>1, <2>2 DEF ResearchIsNotAtReview, Holding
<1>2. CASE \A w \in Workers : ~PersistOutcome(w)
  <2>1. run'.status = "AWAITING_REVIEW" => run' = run
    <3>1. ASSUME NEW r \in Requests, CreateRun(r) \/ CancelRun(r) \/ DeleteRun(r)
          PROVE  run'.status # "AWAITING_REVIEW"
      BY <3>1 DEF CreateRun, CancelRun, DeleteRun
    <3> QED
      BY <1>2, <3>1, StatusStep
  <2>2. ASSUME NEW w \in Workers, \A u \in Workers \ {w} : worker'[u] = worker[u],
               \/ worker'[w].pc \notin {"loaded", "graph", "outcome", "fresh"}
               \/ worker'[w] = worker[w]
               \/ worker'[w].pc = "loaded" /\ worker'[w].seen = run'.status
               \/ worker'[w].pc \in {"graph", "outcome"} /\ run'.status # "AWAITING_REVIEW"
               \/ worker'[w].pc = "fresh" /\ worker'[w].seen = run'.status
                    /\ run'.status # "AWAITING_REVIEW"
        PROVE  ResearchIsNotAtReview'
    BY <2>1, <2>2 DEF ResearchIsNotAtReview
  <2>3. CASE worker' = worker
    BY <2>1, <2>3 DEF ResearchIsNotAtReview
  <2>4. ASSUME NEW w \in Workers, Drive(w) PROVE ResearchIsNotAtReview'
    <3>1. worker[w] \in WorkerState /\ worker \in [Workers -> WorkerState]
      BY DEF TypeOK
    <3>2. CASE LoadRun(w)
      BY <2>2, <3>1, <3>2 DEF LoadRun, See, rows, WorkerState
    <3>3. CASE MarkRunning(w)
      <4>1. \A u \in Workers \ {w} : worker'[u] = worker[u]
        BY <3>1, <3>3 DEF MarkRunning, Step
      <4>2. CASE Step(w, "error")
        BY <2>2, <3>1, <4>1, <4>2 DEF Step, WorkerState
      <4>3. CASE Step(w, "graph") /\ run' = Assigned(worker[w].seen, "RUNNING")
        <5>1. run'.status # "AWAITING_REVIEW"
          <6>1. CASE worker[w].seen = "RUNNING"
            BY <3>3, <4>3, <6>1 DEF MarkRunning, At, Assigned, ResearchIsNotAtReview
          <6>2. CASE worker[w].seen # "RUNNING"
            BY <4>3, <6>2 DEF Assigned, TypeOK
          <6> QED
            BY <6>1, <6>2
        <5>2. worker'[w].pc = "graph"
          BY <3>1, <4>3 DEF Step, WorkerState
        <5> QED
          BY <2>2, <4>1, <5>1, <5>2
      <4> QED
        BY <3>3, <4>2, <4>3 DEF MarkRunning
    <3>4. CASE RunGraph(w)
      <4>1. /\ run'.status # "AWAITING_REVIEW"
            /\ \A u \in Workers \ {w} : worker'[u] = worker[u]
        BY <3>1, <3>4 DEF RunGraph, At, ResearchIsNotAtReview
      <4>2. worker'[w].pc \in {"outcome", "error"}
        BY <3>1, <3>4 DEF RunGraph, IdleWorker
      <4> QED
        BY <2>2, <4>1, <4>2
    <3>5. CASE RefreshRun(w)
      <4>1. run'.status # "AWAITING_REVIEW"
        BY <3>5 DEF RefreshRun, At, ResearchIsNotAtReview, rows
      <4>2. /\ \A u \in Workers \ {w} : worker'[u] = worker[u]
            /\ worker'[w].pc \in {"fresh", "error"} /\ worker'[w].seen = run'.status
        BY <3>1, <3>5 DEF RefreshRun, See, rows, WorkerState
      <4> QED
        BY <2>2, <4>1, <4>2
    <3>6. CASE \/ RefuseRun(w) \/ PersistFails(w) \/ PublishOutcome(w) \/ ReleaseLock(w)
               \/ Unwind(w) \/ LoadFailed(w) \/ MarkFailed(w)
      <4>1. /\ \A u \in Workers \ {w} : worker'[u] = worker[u]
            /\ worker'[w].pc \notin {"loaded", "graph", "outcome", "fresh"}
        BY <3>1, <3>6 DEF RefuseRun, PersistFails, PublishOutcome, ReleaseLock, Unwind, LoadFailed,
           MarkFailed, Leave, Step, See, IdleWorker, WorkerState
      <4> QED
        BY <2>2, <4>1
    <3> QED
      BY <1>2, <2>4, <3>2, <3>3, <3>4, <3>5, <3>6 DEF Drive
  <2>5. ASSUME NEW w \in Workers, Receive(w) \/ CrashWorker(w) PROVE ResearchIsNotAtReview'
    <3>1. /\ \A u \in Workers \ {w} : worker'[u] = worker[u]
          /\ \/ worker'[w].pc \notin {"loaded", "graph", "outcome", "fresh"}
             \/ worker'[w] = worker[w]
      BY <2>5 DEF Receive, TakeTask, DropTask, CrashWorker, IdleWorker, TypeOK, WorkerState
    <3> QED
      BY <2>2, <3>1
  <2>6. CASE \/ \E r \in Requests : \/ CreateRun(r) \/ (\E op \in Offered : Read(r, op))
                                    \/ Handle(r) \/ CrashRequest(r)
             \/ ExpireLock \/ UNCHANGED vars
    BY <2>3, <2>6 DEF CreateRun, Read, Handle, ApprovePlan, ReturnPlan, ApproveReport,
       RequestRework, RejectReport, CancelRun, DeleteRun, Rollback, Dispatch, IngestReport,
       PurgeThread, CrashRequest, ExpireLock, vars
  <2> QED
    BY <2>4, <2>5, <2>6 DEF Next
<1> QED
  BY <1>1, <1>2

\* A stale COMPLETED is still backed by the artifact: nothing but a delete
\* removes one.
LEMMA SeenStep ==
    ASSUME TypeOK, Present, CompletedHasArtifact, CompletedWasSeen, [Next]_vars
    PROVE  CompletedWasSeen'
<1> DEFINE Fewer == \A r \in Requests :
                      request'[r].pc = "decided" => request'[r] = request[r]
<1>1. \A r \in Requests : request[r].pc = "decided" => run.status # "NONE"
  BY DEF Present
<1>2. (\E r \in Requests : request[r].pc = "decided") /\ Exists' => Exists
  <2>1. ASSUME NEW r \in Requests, CreateRun(r), \E s \in Requests : request[s].pc = "decided"
        PROVE  FALSE
    BY <1>1, <2>1 DEF CreateRun
  <2>2. ASSUME NEW r \in Requests, DeleteRun(r) PROVE ~Exists'
    BY <2>2 DEF DeleteRun, Exists, NoRow
  <2>3. ASSUME NEW r \in Requests, Handle(r), ~DeleteRun(r), ~Exists PROVE run' = run
    BY <2>3 DEF Handle, ApprovePlan, ReturnPlan, ApproveReport, RequestRework, RejectReport,
       CancelRun, Rollback, Dispatch, IngestReport, PurgeThread, Decided, rows
  <2>4. ASSUME NEW w \in Workers, Drive(w), ~Exists PROVE run' = run
    BY <2>4 DEF Drive, LoadRun, MarkRunning, RefuseRun, RunGraph, RefreshRun, PersistOutcome,
       PersistFails, PublishOutcome, ReleaseLock, Unwind, LoadFailed, MarkFailed, Assigned,
       Writable, rows
  <2>5. CASE \/ \E r \in Requests : (\E op \in Offered : Read(r, op)) \/ CrashRequest(r)
             \/ \E w \in Workers : Receive(w) \/ CrashWorker(w)
             \/ ExpireLock \/ UNCHANGED vars
    BY <2>5 DEF Read, CrashRequest, Receive, TakeTask, DropTask, CrashWorker, ExpireLock,
       vars, rows, Exists
  <2> QED
    BY <2>1, <2>2, <2>3, <2>4, <2>5 DEF Next, Exists
<1>3. ASSUME Fewer, artifact # NoArtifact => artifact' # NoArtifact PROVE CompletedWasSeen'
  BY <1>2, <1>3 DEF CompletedWasSeen
<1>4. ASSUME NEW r \in Requests, NEW op \in Offered, Read(r, op) PROVE CompletedWasSeen'
  BY <1>4 DEF Read, CompletedWasSeen, CompletedHasArtifact, TypeOK, Exists, rows
<1>5. ASSUME NEW r \in Requests, Handle(r) \/ CrashRequest(r) PROVE Fewer
  <2>1. Finish(r) \/ \E pc \in {"dispatch", "ingest", "purge"} : Goto(r, pc)
    BY <1>5 DEF Handle, CrashRequest, ApprovePlan, ReturnPlan, ApproveReport, RequestRework,
       RejectReport, CancelRun, DeleteRun, Rollback, Dispatch, IngestReport, PurgeThread
  <2>2. request'[r].pc # "decided"
    <3>1. CASE Finish(r)
      BY <3>1 DEF Finish, IdleRequest, TypeOK
    <3>2. ASSUME NEW pc \in {"dispatch", "ingest", "purge"}, Goto(r, pc)
          PROVE  request'[r].pc # "decided"
      <4>1. request[r] \in RequestState
        BY DEF TypeOK
      <4>2. request'[r] = [request[r] EXCEPT !.pc = pc, !.seen = "NONE", !.target = 0]
        BY <3>2 DEF Goto, TypeOK
      <4> QED
        BY <4>1, <4>2 DEF RequestState
    <3> QED
      BY <2>1, <3>1, <3>2
  <2>3. \A s \in Requests \ {r} : request'[s] = request[s]
    BY <2>1 DEF Goto, Finish, TypeOK
  <2> QED
    BY <2>2, <2>3
<1>6. ASSUME NEW r \in Requests, DeleteRun(r) PROVE CompletedWasSeen'
  BY <1>6 DEF DeleteRun, CompletedWasSeen, Exists, NoRow
<1>7. ASSUME NEW r \in Requests, ApproveReport(r) PROVE CompletedWasSeen'
  <2>1. artifact' # NoArtifact
    BY <1>7, RecordIsNew DEF ApproveReport
  <2> QED
    BY <1>7, <1>3, <1>5, <2>1 DEF Handle
<1>8. CASE Kept
  <2>1. UNCHANGED artifact
    BY <1>8 DEF Kept
  <2>2. ASSUME NEW r \in Requests, CreateRun(r) PROVE Fewer
    BY <2>2 DEF CreateRun, IdleRequest, TypeOK
  <2>3. CASE \/ \E w \in Workers : Receive(w) \/ Drive(w) \/ CrashWorker(w)
             \/ ExpireLock \/ UNCHANGED vars
    <3>1. UNCHANGED request
      BY <2>3 DEF Receive, TakeTask, DropTask, Drive, LoadRun, MarkRunning, RefuseRun, RunGraph, RefreshRun,
         PersistOutcome, PersistFails, PublishOutcome, ReleaseLock, Unwind, LoadFailed,
         MarkFailed, CrashWorker, ExpireLock, vars
    <3> QED
      BY <1>3, <2>1, <3>1
  <2> QED
    BY <1>3, <1>4, <1>5, <2>1, <2>2, <2>3 DEF Next
<1> QED
  BY <1>6, <1>7, <1>8, KeptStep

-----------------------------------------------------------------------------
(* Refinement *)

ContractInv ==
    /\ TypeOK /\ Present /\ LockHeld /\ RowConsistent /\ ResearchIsNotAtReview
    /\ CompletedHasArtifact /\ CompletedWasSeen

\* The invariant the refinement rests on is itself kept by every step.
LEMMA ContractInvariant == Spec => []ContractInv
<1>1. Init => LockHeld /\ RowConsistent /\ ResearchIsNotAtReview
              /\ CompletedHasArtifact /\ CompletedWasSeen
  BY DEF Init, LockHeld, RowConsistent, CkRunCancelled, ResearchIsNotAtReview,
     CompletedHasArtifact, CompletedWasSeen, IdleWorker, IdleRequest, Holding
<1>2. /\ TypeOK /\ Present
      /\ LockHeld /\ RowConsistent /\ ResearchIsNotAtReview
      /\ CompletedHasArtifact /\ CompletedWasSeen /\ [Next]_vars
      => (LockHeld /\ RowConsistent /\ ResearchIsNotAtReview
          /\ CompletedHasArtifact /\ CompletedWasSeen)'
  BY LockStep, RowStep, ReviewGateStep, CompletedStep, SeenStep
<1> QED
  BY <1>1, <1>2, TypeCorrect, PTL DEF Spec, ContractInv

ContractStep == C!Create \/ C!Work \/ C!Approve \/ C!Cancel \/ C!Delete

\* A write of another open status, which is not COMPLETED, is a step of Work.
LEMMA OpenWrite ==
    ASSUME TypeOK, RowConsistent, Exists, CkRunCancelled(run'), UNCHANGED <<revisions, artifact>>,
           NEW seen, NEW status \in {"RUNNING", "AWAITING_PLAN", "AWAITING_REVIEW", "FAILED"},
           run' = Assigned(seen, status)
    PROVE  C!Work \/ UNCHANGED C!contractVars
<1>1. CASE run' = run
  BY <1>1 DEF C!contractVars
<1>2. CASE run' = [run EXCEPT !.status = status]
  <2>1. run'.status = status /\ run'.cancelled_at = run.cancelled_at
    BY <1>2 DEF TypeOK
  <2>2. run.status # "CANCELLED" /\ run.status \notin NoRow
    BY <2>1 DEF RowConsistent, CkRunCancelled, Exists
  <2>3. run.status \in C!Open /\ run'.status \in C!Open
    BY <2>1, <2>2 DEF C!Open, TypeOK, Statuses, Active
  <2> QED
    BY <2>1, <2>3 DEF C!Work
<1> QED
  BY <1>1, <1>2 DEF Assigned

\* Every step of a handler is one the contract allows.
LEMMA HandleRefines ==
    ASSUME ContractInv, NEW r \in Requests, Handle(r)
    PROVE  ContractStep \/ UNCHANGED C!contractVars
<1> USE DEF ContractInv
<1>1. CASE ApprovePlan(r, "plan_approve") \/ ApprovePlan(r, "plan_edit") \/ RequestRework(r)
  <2>1. /\ Exists /\ CkRunCancelled(run') /\ UNCHANGED <<revisions, artifact>>
        /\ run' = Assigned(request[r].seen, "RUNNING")
    BY <1>1 DEF ApprovePlan, RequestRework, Decided
  <2> QED
    BY <2>1, OpenWrite DEF ContractStep
<1>2. CASE ApproveReport(r)
  <2> DEFINE v == request[r].target
  <2>1. /\ Decided(r, "approve") /\ UqArtifactRun /\ CkRunCancelled(run')
        /\ run' = Assigned(request[r].seen, "COMPLETED")
        /\ ManifestMatches(v) /\ UNCHANGED revisions
        /\ artifact' = [revision |-> v, report |-> revisions[Len(revisions)],
                        review |-> Len(reviews')]
    BY <1>2 DEF ApproveReport
  <2>2. request[r].seen # "COMPLETED"
    BY <2>1 DEF Decided, CompletedWasSeen, UqArtifactRun
  <2>3. run'.status = "COMPLETED" /\ run'.cancelled_at = run.cancelled_at
    BY <2>1, <2>2 DEF Assigned, TypeOK
  <2>4. run.status # "CANCELLED" /\ run.status \notin NoRow
    BY <2>1, <2>3 DEF RowConsistent, CkRunCancelled, Exists, Decided
  <2>5. run.status \in C!Open
    BY <2>4 DEF C!Open, TypeOK, Statuses, Active
  <2>6. v \in DOMAIN revisions
    BY <2>1 DEF Decided, Present, ReportOps
  <2>7. artifact = NoArtifact /\ revisions[v] = revisions[Len(revisions)]
    BY <2>1 DEF UqArtifactRun, ManifestMatches
  <2>8. artifact'.revision = v /\ artifact'.report = revisions[v]
    BY <2>1, <2>7
  <2>9. C!Approve
    BY <2>1, <2>3, <2>5, <2>6, <2>7, <2>8 DEF C!Approve
  <2> QED
    BY <2>9 DEF ContractStep
<1>3. CASE CancelRun(r)
  <2>1. run.status \in C!Open \cup {"CANCELLED"}
    BY <1>3 DEF CancelRun, Decided, Exists, C!Open, TypeOK, Statuses, Active
  <2> QED
    BY <1>3, <2>1 DEF CancelRun, C!Cancel, C!contractVars, ContractStep
<1>4. CASE DeleteRun(r)
  <2>1. run.status \in C!Open \cup {"CANCELLED"}
    BY <1>4 DEF DeleteRun, Decided, Exists, C!Open, TypeOK, Statuses, Active
  <2> QED
    BY <1>4, <2>1 DEF DeleteRun, C!Delete, ContractStep
<1>5. CASE \/ ReturnPlan(r) \/ RejectReport(r) \/ Rollback(r) \/ Dispatch(r)
           \/ IngestReport(r) \/ PurgeThread(r)
  BY <1>5 DEF ReturnPlan, RejectReport, Rollback, Dispatch, IngestReport, PurgeThread, rows,
     C!contractVars
<1> QED
  BY <1>1, <1>2, <1>3, <1>4, <1>5 DEF Handle

\* Every step of a worker is one the contract allows.
LEMMA DriveRefines ==
    ASSUME ContractInv, NEW w \in Workers, Drive(w)
    PROVE  ContractStep \/ UNCHANGED C!contractVars
<1> USE DEF ContractInv
<1>1. CASE MarkRunning(w)
  <2>1. \/ run' = run
        \/ Exists /\ CkRunCancelled(run') /\ run' = Assigned(worker[w].seen, "RUNNING")
    BY <1>1 DEF MarkRunning, Writable, Assigned
  <2>2. UNCHANGED <<revisions, artifact>>
    BY <1>1 DEF MarkRunning
  <2> QED
    BY <2>1, <2>2, OpenWrite DEF C!contractVars, ContractStep
<1>2. CASE MarkFailed(w)
  <2>1. UNCHANGED <<revisions, artifact>>
    BY <1>2 DEF MarkFailed
  <2>2. \/ run' = run
        \/ Exists /\ CkRunCancelled(run') /\ run' = Assigned(worker[w].seen, "FAILED")
    BY <1>2 DEF MarkFailed, FailureStatus, Assigned
  <2> QED
    BY <2>1, <2>2, OpenWrite DEF C!contractVars, ContractStep
<1>3. CASE PersistOutcome(w)
  <2> DEFINE seen    == worker[w].seen
             outcome == worker[w].outcome
             status  == OutcomeStatus(outcome)
  <2>1. outcome \in Outcomes /\ seen # "AWAITING_REVIEW"
    BY <1>3 DEF PersistOutcome, At, TypeOK, WorkerState, ResearchIsNotAtReview
  <2>2. status \in {"AWAITING_PLAN", "AWAITING_REVIEW", "FAILED"}
        /\ (outcome = "awaiting_approval" => status = "AWAITING_REVIEW")
    BY <2>1 DEF Outcomes, OutcomeStatus
  <2>3. UNCHANGED artifact /\ Exists
    BY <1>3 DEF PersistOutcome
  <2>4. CASE Discards(seen)
    BY <1>3, <2>3, <2>4 DEF PersistOutcome, C!contractVars
  <2>5. CASE ~Discards(seen) /\ outcome # "awaiting_approval"
    <3>1. /\ CkRunCancelled(run') /\ run' = Assigned(seen, status) /\ UNCHANGED revisions
      BY <1>3, <2>5 DEF PersistOutcome
    <3> QED
      BY <2>2, <2>3, <3>1, OpenWrite DEF ContractStep
  <2>6. CASE ~Discards(seen) /\ outcome = "awaiting_approval"
    <3>1. /\ CkRunCancelled(run')
          /\ run' = Assigned(seen, "AWAITING_REVIEW")
          /\ \E text \in Reports : revisions' = Append(revisions, text)
      BY <1>3, <2>2, <2>6 DEF PersistOutcome
    <3>2. run'.status = "AWAITING_REVIEW" /\ run'.cancelled_at = run.cancelled_at
      BY <2>1, <3>1 DEF Assigned, TypeOK
    <3>3. run.status # "CANCELLED" /\ run.status \notin NoRow
      BY <2>3, <3>1, <3>2 DEF RowConsistent, CkRunCancelled, Exists
    <3>4. run.status \in C!Open /\ run'.status \in C!Open
      BY <3>2, <3>3 DEF C!Open, TypeOK, Statuses, Active
    <3>5. C!Work
      BY <2>3, <3>1, <3>2, <3>4 DEF C!Work
    <3> QED
      BY <3>5 DEF ContractStep
  <2> QED
    BY <2>4, <2>5, <2>6
<1>4. CASE RefuseRun(w)
  <2>1. UNCHANGED <<revisions, artifact>>
    BY <1>4 DEF RefuseRun
  <2>2. \/ run' = run
        \/ Exists /\ CkRunCancelled(run') /\ run' = Assigned("RUNNING", "FAILED")
    BY <1>4 DEF RefuseRun, FailureStatus
  <2> QED
    BY <2>1, <2>2, OpenWrite DEF C!contractVars, ContractStep
<1>5. CASE \/ LoadRun(w) \/ RunGraph(w) \/ RefreshRun(w) \/ PersistFails(w)
           \/ PublishOutcome(w) \/ ReleaseLock(w) \/ Unwind(w) \/ LoadFailed(w)
  BY <1>5 DEF LoadRun, RunGraph, RefreshRun, PersistFails, PublishOutcome, ReleaseLock,
     Unwind, LoadFailed, rows, C!contractVars
<1> QED
  BY <1>1, <1>2, <1>3, <1>4, <1>5 DEF Drive

\* However handlers and workers interleave, crash and retry, whoever reads the
\* run sees a history that RunContract allows.
THEOREM Refinement == Spec => Contract
<1>1. Init => C!Start
  BY DEF Init, C!Start
<1>2. ContractInv /\ [Next]_vars => [ContractStep]_(C!contractVars)
  <2> SUFFICES ASSUME ContractInv, [Next]_vars
               PROVE  ContractStep \/ UNCHANGED C!contractVars
    OBVIOUS
  <2>1. ASSUME NEW r \in Requests, CreateRun(r) PROVE ContractStep
    BY <2>1 DEF CreateRun, C!Create, ContractStep
  <2>2. CASE \/ \E r \in Requests : (\E op \in Offered : Read(r, op)) \/ CrashRequest(r)
             \/ \E w \in Workers : Receive(w) \/ CrashWorker(w)
             \/ ExpireLock \/ UNCHANGED vars
    BY <2>2 DEF Read, CrashRequest, Receive, TakeTask, DropTask, CrashWorker, ExpireLock,
       vars, rows, C!contractVars
  <2> QED
    BY <2>1, <2>2, HandleRefines, DriveRefines DEF Next
<1> QED
  BY <1>1, <1>2, ContractInvariant, PTL DEF Spec, Contract, C!Contract, ContractStep

=============================================================================
