----------------------- MODULE SessionLifecycleProofs -----------------------
(***************************************************************************)
(* A stop sticks unless somebody had looked before it, and the final report  *)
(* of a session is a draft somebody approved unless two decisions met on one *)
(* gate: for any number of drivers, requests and decisions, on either host.  *)
(***************************************************************************)
EXTENDS SessionLifecycle, TLAPS

DriverPcs  == {"idle", "taken", "graph", "outcome", "fresh", "publish", "ingest",
               "unwind", "mark"}
RequestPcs == {"idle", "loaded", "dispatch", "purge"}
AnyStatus  == Statuses \cup NoRow
Threads    == [at : Positions, reworks : Nat]
RowType    == [status : AnyStatus, cancelled : BOOLEAN, skip : BOOLEAN,
               draft : Nat, final : Nat, reworks : Nat]
DriverType  == [pc : DriverPcs, task : TaskKinds, seen : AnyStatus,
                from : Threads, outcome : Outcomes \ {"crashed"}, reworks : Nat]
RequestType == [pc : RequestPcs, op : TaskKinds \cup Ops, seen : AnyStatus, draft : Nat]

\* What the proofs need of the types: no bound on how many versions there are.
Typed ==
    /\ host \in {"server", "desktop"}
    /\ row \in RowType
    /\ thread \in Threads
    /\ queue \in [TaskKinds -> Nat]
    /\ driver \in [Drivers -> DriverType]
    /\ request \in [Requests -> RequestType]

-----------------------------------------------------------------------------
(* Types *)

LEMMA ThreadType ==
    ASSUME NEW at \in Positions, NEW n \in Nat
    PROVE  Thread(at, n) \in Threads /\ Thread(at, n).at = at /\ Thread(at, n).reworks = n
BY DEF Thread, Threads

LEMMA IdleDriverType ==
    /\ IdleDriver \in DriverType
    /\ \A pc \in DriverPcs : [IdleDriver EXCEPT !.pc = pc] \in DriverType
<1>1. Thread("none", 0) \in Threads
  BY ThreadType DEF Positions
<1>. QED  BY <1>1 DEF IdleDriver, DriverType, DriverPcs, TaskKinds, AnyStatus, NoRow, Outcomes

LEMMA IdleRequestType ==
    /\ IdleRequest \in RequestType
    /\ \A pc \in RequestPcs, op \in Decisions :
         [IdleRequest EXCEPT !.pc = pc, !.op = op] \in RequestType
    /\ \A pc \in RequestPcs : [IdleRequest EXCEPT !.pc = pc] \in RequestType
BY DEF IdleRequest, RequestType, RequestPcs, TaskKinds, Decisions, Ops, AnyStatus, NoRow

LEMMA TypedInit == Init => Typed
<1>. SUFFICES ASSUME Init PROVE Typed
  OBVIOUS
<1>1. thread \in Threads
  BY ThreadType DEF Init, Positions
<1>2. row \in RowType
  BY DEF Init, RowType, AnyStatus, NoRow
<1>3. driver \in [Drivers -> DriverType] /\ request \in [Requests -> RequestType]
  BY IdleDriverType, IdleRequestType DEF Init
<1>. QED  BY <1>1, <1>2, <1>3, SessionAssumption DEF Init, Typed

\* A driver that goes somewhere else with nothing in hand, or is done.
LEMMA GotoType ==
    ASSUME Typed, NEW d \in Drivers, NEW pc \in DriverPcs,
           driver' = [driver EXCEPT ![d] = [IdleDriver EXCEPT !.pc = pc]]
    PROVE  /\ driver' \in [Drivers -> DriverType]
           /\ driver'[d].pc = pc
           /\ \A e \in Drivers \ {d} : driver'[e] = driver[e]
<1>1. [IdleDriver EXCEPT !.pc = pc].pc = pc
  BY DEF IdleDriver
<1>. QED  BY <1>1, IdleDriverType DEF Typed

LEMMA DoneType ==
    ASSUME Typed, NEW d \in Drivers, Done(d)
    PROVE  /\ driver' \in [Drivers -> DriverType]
           /\ driver'[d].pc = "idle"
           /\ \A e \in Drivers \ {d} : driver'[e] = driver[e]
<1>1. IdleDriver.pc = "idle"
  BY DEF IdleDriver
<1>. QED  BY <1>1, IdleDriverType DEF Typed, Done

-----------------------------------------------------------------------------
(* Every step keeps the types *)

LEMMA RowTyped ==
    ASSUME Typed, [Next]_vars
    PROVE  row' \in RowType
<1>. DEFINE Set(status) == [row EXCEPT !.status = status]
<1>1. \A status \in AnyStatus : Set(status) \in RowType
  BY DEF Typed, RowType
<1>2. \A seen \in AnyStatus, status \in AnyStatus : Assigned(seen, status) \in RowType
  BY <1>1 DEF Assigned, Typed
<1>3. {"PENDING", "RUNNING", "FAILED", "DELETED", "COMPLETED",
       "AWAITING_PLAN", "AWAITING_APPROVAL"} \subseteq AnyStatus
  BY DEF AnyStatus, Statuses, NoRow
<1>4. CASE UNCHANGED row
  BY <1>4 DEF Typed
<1>5. CASE \E r \in Requests : StartResearch(r)
  <2>1. PICK skip \in BOOLEAN : row' = [row EXCEPT !.status = "PENDING", !.skip = skip]
    BY <1>5, SessionAssumption DEF StartResearch
  <2>. QED  BY <2>1, <1>3 DEF Typed, RowType
<1>6. CASE SeedDemo
  BY <1>1, <1>3, <1>6 DEF SeedDemo
<1>7. CASE \E r \in Requests : \E op \in Decisions : Decide(r, op)
  BY <1>1, <1>3, <1>7 DEF Decide
<1>8. CASE \E r \in Requests : CancelSession(r)
  BY <1>3, <1>8 DEF CancelSession, Typed, RowType
<1>9. CASE \E r \in Requests : DeleteSession(r)
  BY <1>1, <1>3, <1>9 DEF DeleteSession
<1>10. CASE \E d \in Drivers : Begin(d)
  BY <1>1, <1>3, <1>10 DEF Begin, MarkRunning, Typed
<1>11. CASE \E d \in Drivers : Refuse(d)
  <2>1. PICK d \in Drivers : row' = Assigned(LoadedStatus(d), "FAILED")
    BY <1>11 DEF Refuse
  <2>2. LoadedStatus(d) \in AnyStatus
    BY DEF LoadedStatus, Typed, DriverType, RowType
  <2>. QED  BY <2>1, <2>2, <1>2, <1>3
<1>12. CASE \E d \in Drivers : Reread(d)
  <2>1. PICK d \in Drivers : row' = row \/ row' = [row EXCEPT !.reworks = driver[d].reworks]
    BY <1>12, SessionAssumption DEF Reread, Typed
  <2>2. driver[d].reworks \in Nat
    BY DEF Typed, DriverType
  <2>. QED  BY <2>1, <2>2 DEF Typed, RowType
<1>13. CASE \E d \in Drivers : PersistOutcome(d)
  <2>1. PICK d \in Drivers : PersistOutcome(d)
    BY <1>13
  <2>. DEFINE w == driver[d]
              base == Assigned(w.seen, OutcomeStatus(w.outcome))
              draft == IF w.outcome = "awaiting_approval" THEN w.reworks + 1 ELSE base.draft
              final == IF w.outcome = "completed" THEN w.reworks + 1 ELSE base.final
  <2>2. w.seen \in AnyStatus /\ w.outcome \in Outcomes \ {"crashed"} /\ w.reworks \in Nat
    BY DEF Typed, DriverType
  <2>3. OutcomeStatus(w.outcome) \in AnyStatus
    BY <2>2, <1>3 DEF OutcomeStatus, Outcomes
  <2>4. base \in RowType
    BY <2>2, <2>3, <1>2
  <2>5. draft \in Nat /\ final \in Nat
    BY <2>2, <2>4 DEF RowType
  <2>6. row' = row \/ row' = [base EXCEPT !.reworks = w.reworks, !.draft = draft, !.final = final]
    BY <2>1, <2>4 DEF PersistOutcome, RowType
  <2>. QED  BY <2>2, <2>4, <2>5, <2>6 DEF RowType, Typed
<1>14. CASE \E d \in Drivers : MarkFailed(d)
  BY <1>1, <1>3, <1>14 DEF MarkFailed, Typed
<1>. QED
  BY <1>4, <1>5, <1>6, <1>7, <1>8, <1>9, <1>10, <1>11, <1>12, <1>13, <1>14
     DEF Next, Handle, Drive, Load, PurgeThread, Abandon, Dispatch, DispatchFails, TakeTask,
         DropTask, RunGraph, Publish, PublishFails, Ingest, Unwind, CrashDriver, ExpireLock,
         Restart, vars

LEMMA StopTyped ==
    ASSUME Typed, NEW task \in TaskKinds, NEW from \in Threads, NEW stop \in Stops(task, from)
    PROVE  stop.thread \in Threads /\ stop.outcome \in Outcomes
<1>. DEFINE Drafted(k) == {Stop("review_gate", k, "awaiting_approval"), Stop("failed", k, "failed")}
<1>1. from.at \in Positions /\ from.reworks \in Nat /\ from.reworks + 1 \in Nat
  BY DEF Threads
<1>2. ASSUME NEW at \in Positions, NEW n \in Nat, NEW outcome \in Outcomes
      PROVE  Stop(at, n, outcome).thread \in Threads /\ Stop(at, n, outcome).outcome \in Outcomes
  BY ThreadType DEF Stop
<1>3. \A k \in Nat : \A s \in Drafted(k) : s.thread \in Threads /\ s.outcome \in Outcomes
  BY <1>2 DEF Positions, Outcomes
<1>4. \/ stop \in {Stop(from.at, from.reworks, "crashed"), Stop("mid", from.reworks, "crashed")}
      \/ stop \in Drafted(0) \cup Drafted(from.reworks) \cup Drafted(from.reworks + 1)
      \/ stop \in {Stop("plan_gate", 0, "awaiting_plan"), Stop("failed", 0, "failed")}
      \/ stop = Stop("done", from.reworks, "completed")
      \/ stop = Stop("failed", from.reworks, "failed")
  <2>1. row.skip \in BOOLEAN
    BY DEF Typed, RowType
  <2>2. CASE task = "start"
    BY <2>1, <2>2 DEF Stops
  <2>3. CASE task = "approve"
    BY <2>3 DEF Stops
  <2>4. CASE task \in {"plan", "rework"}
    BY <2>4 DEF Stops
  <2>. QED  BY <2>2, <2>3, <2>4 DEF TaskKinds
<1>5. {"mid", "plan_gate", "failed", "done"} \subseteq Positions
  BY DEF Positions
<1>6. {"crashed", "awaiting_plan", "failed", "completed"} \subseteq Outcomes
  BY DEF Outcomes
<1>. HIDE DEF Drafted
<1>. QED  BY <1>1, <1>2, <1>3, <1>4, <1>5, <1>6

LEMMA ThreadTyped ==
    ASSUME Typed, [Next]_vars
    PROVE  thread' \in Threads
<1>1. CASE UNCHANGED thread
  BY <1>1 DEF Typed
<1>2. CASE \E r \in Requests : PurgeThread(r)
  BY <1>2, ThreadType DEF PurgeThread, Positions
<1>3. CASE \E d \in Drivers : RunGraph(d)
  <2>1. PICK d \in Drivers : \E stop \in Stops(driver[d].task, driver[d].from) :
                               thread' = stop.thread
    BY <1>3 DEF RunGraph
  <2>2. driver[d].task \in TaskKinds /\ driver[d].from \in Threads
    BY DEF Typed, DriverType
  <2>. QED  BY <2>1, <2>2, StopTyped
<1>4. CASE \E d \in Drivers : CrashDriver(d)
  <2>1. PICK d \in Drivers : thread' = thread \/ thread' = Thread("mid", driver[d].from.reworks)
    BY <1>4 DEF CrashDriver
  <2>2. driver[d].from.reworks \in Nat
    BY DEF Typed, DriverType, Threads
  <2>. QED  BY <2>1, <2>2, ThreadType DEF Typed, Positions
<1>. QED
  BY <1>1, <1>2, <1>3, <1>4
     DEF Next, Handle, Drive, StartResearch, SeedDemo, Load, Decide, CancelSession, DeleteSession,
         Abandon, Dispatch, DispatchFails, TakeTask, DropTask, Begin, Refuse, Reread,
         PersistOutcome, Publish, PublishFails, Ingest, Unwind, MarkFailed, ExpireLock,
         Restart, vars

LEMMA QueueTyped ==
    ASSUME Typed, [Next]_vars
    PROVE  queue' \in [TaskKinds -> Nat]
<1>1. CASE UNCHANGED queue
  BY <1>1 DEF Typed
<1>2. CASE SeedDemo \/ Restart
  BY <1>2 DEF SeedDemo, Restart, Typed
<1>3. CASE \E r \in Requests : Dispatch(r)
  <2>1. PICK r \in Requests : queue' = [queue EXCEPT ![request[r].op] = @ + 1]
    BY <1>3 DEF Dispatch
  <2>2. \A k \in TaskKinds : queue[k] + 1 \in Nat
    BY DEF Typed
  <2>3. \A k \in TaskKinds : queue'[k] = queue[k] \/ queue'[k] = queue[k] + 1
    BY <2>1 DEF Typed
  <2>. QED  BY <2>1, <2>2, <2>3 DEF Typed
<1>4. CASE \E d \in Drivers : \E k \in TaskKinds : TakeTask(d, k) \/ DropTask(d, k)
  BY <1>4 DEF TakeTask, DropTask, Typed
<1>. QED
  BY <1>1, <1>2, <1>3, <1>4
     DEF Next, Handle, Drive, StartResearch, Load, Decide, CancelSession, DeleteSession,
         PurgeThread, Abandon, DispatchFails, Begin, Refuse, RunGraph, Reread, CrashDriver,
         PersistOutcome, Publish, PublishFails, Ingest, Unwind, MarkFailed, ExpireLock, vars

LEMMA DriverTyped ==
    ASSUME Typed, [Next]_vars
    PROVE  driver' \in [Drivers -> DriverType]
<1>0. IdleDriver \in DriverType
  BY IdleDriverType
<1>1. CASE UNCHANGED driver
  BY <1>1 DEF Typed
<1>2. CASE \E d \in Drivers : Done(d)
  BY <1>2, DoneType
<1>3. CASE \E d \in Drivers, pc \in DriverPcs : Goto(d, pc)
  BY <1>3, GotoType DEF Goto
<1>4. CASE Restart
  BY <1>4, IdleDriverType DEF Restart
<1>5. CASE \E d \in Drivers : CrashDriver(d)
  BY <1>5, IdleDriverType DEF CrashDriver, Typed
<1>6. ASSUME NEW d \in Drivers, NEW k \in TaskKinds, TakeTask(d, k)
      PROVE  driver' \in [Drivers -> DriverType]
  <2>1. [IdleDriver EXCEPT !.pc = "taken", !.task = k] \in DriverType
    BY <1>0 DEF DriverType, DriverPcs
  <2>. QED  BY <1>6, <2>1 DEF TakeTask, Typed
<1>7. ASSUME NEW d \in Drivers, Begin(d)
      PROVE  Done(d) \/ driver' \in [Drivers -> DriverType]
  <2>. DEFINE seen == IF host = "server" THEN row.status ELSE "NONE"
  <2>1. driver[d] \in DriverType /\ seen \in AnyStatus /\ thread \in Threads
    BY DEF Typed, RowType, AnyStatus, NoRow
  <2>2. [driver[d] EXCEPT !.pc = "graph", !.from = thread, !.seen = seen] \in DriverType
    BY <2>1 DEF DriverType, DriverPcs
  <2>3. \/ Done(d)
        \/ driver' = [driver EXCEPT ![d] =
              [driver[d] EXCEPT !.pc = "graph", !.from = thread, !.seen = seen]]
    BY <1>7 DEF Begin, Typed
  <2>. QED  BY <2>2, <2>3 DEF Typed
<1>8. ASSUME NEW d \in Drivers, RunGraph(d)
      PROVE  driver' \in [Drivers -> DriverType]
  <2>1. PICK stop \in Stops(driver[d].task, driver[d].from) :
          IF stop.outcome = "crashed"
            THEN Goto(d, IF host = "server" THEN "unwind" ELSE "outcome")
            ELSE driver' = [driver EXCEPT ![d] =
                   [IdleDriver EXCEPT !.pc = "outcome", !.seen = driver[d].seen,
                                      !.outcome = stop.outcome, !.reworks = stop.thread.reworks]]
    BY <1>8 DEF RunGraph
  <2>2. driver[d] \in DriverType
    BY DEF Typed
  <2>3. stop.thread \in Threads /\ stop.outcome \in Outcomes
    BY <2>2, StopTyped DEF DriverType
  <2>4. CASE stop.outcome = "crashed"
    <3>1. PICK pc \in DriverPcs : Goto(d, pc)
      BY <2>1, <2>4 DEF DriverPcs
    <3>. QED  BY <3>1, GotoType DEF Goto
  <2>5. CASE stop.outcome # "crashed"
    <3>1. stop.thread.reworks \in Nat /\ driver[d].seen \in AnyStatus
      BY <2>2, <2>3 DEF Threads, DriverType
    <3>2. [IdleDriver EXCEPT !.pc = "outcome", !.seen = driver[d].seen,
                             !.outcome = stop.outcome, !.reworks = stop.thread.reworks]
            \in DriverType
      BY <1>0, <2>3, <2>5, <3>1 DEF DriverType, DriverPcs
    <3>. QED  BY <2>1, <2>5, <3>2 DEF Typed
  <2>. QED  BY <2>4, <2>5
<1>9. ASSUME NEW d \in Drivers, Reread(d)
      PROVE  Goto(d, "unwind") \/ Done(d) \/ driver' \in [Drivers -> DriverType]
  <2>1. driver[d] \in DriverType /\ LoadedStatus(d) \in AnyStatus
    BY DEF Typed, LoadedStatus, DriverType, RowType
  <2>2. [driver[d] EXCEPT !.pc = "fresh", !.seen = LoadedStatus(d)] \in DriverType
    BY <2>1 DEF DriverType, DriverPcs
  <2>3. \/ Goto(d, "unwind") \/ Done(d)
        \/ driver' = [driver EXCEPT ![d] =
              [driver[d] EXCEPT !.pc = "fresh", !.seen = LoadedStatus(d)]]
    BY <1>9 DEF Reread, Typed
  <2>. QED  BY <2>2, <2>3 DEF Typed
<1>10. ASSUME NEW d \in Drivers, PersistOutcome(d)
       PROVE  Goto(d, "unwind") \/ Done(d) \/ driver' \in [Drivers -> DriverType]
  <2>. DEFINE outcome == IF driver[d].outcome = "completed" THEN driver[d].outcome ELSE "failed"
  <2>1. [IdleDriver EXCEPT !.pc = "publish", !.outcome = outcome] \in DriverType
    BY <1>0 DEF DriverType, DriverPcs, Outcomes
  <2>2. \/ Goto(d, "unwind") \/ Done(d)
        \/ driver' = [driver EXCEPT ![d] =
              [IdleDriver EXCEPT !.pc = "publish", !.outcome = outcome]]
    BY <1>10 DEF PersistOutcome
  <2>. QED  BY <2>1, <2>2 DEF Typed
<1>11. {"publish", "unwind", "ingest", "mark"} \subseteq DriverPcs
  BY DEF DriverPcs
<1>12. ASSUME NEW d \in Drivers, Drive(d)
       PROVE  driver' \in [Drivers -> DriverType]
  BY <1>1, <1>2, <1>3, <1>5, <1>6, <1>7, <1>8, <1>9, <1>10, <1>11, <1>12
     DEF Drive, DropTask, Refuse, Publish, PublishFails, Ingest, Unwind, MarkFailed
<1>. QED
  BY <1>1, <1>4, <1>12
     DEF Next, Handle, StartResearch, SeedDemo, Load, Decide, CancelSession, DeleteSession,
         PurgeThread, Abandon, Dispatch, DispatchFails, ExpireLock, vars

LEMMA RequestTyped ==
    ASSUME Typed, [Next]_vars
    PROVE  request' \in [Requests -> RequestType]
<1>1. CASE UNCHANGED request
  BY <1>1 DEF Typed
<1>2. CASE Restart
  BY <1>2, IdleRequestType DEF Restart
<1>3. CASE \E r \in Requests : \E op \in Ops : Load(r, op)
  <2>1. PICK r \in Requests, op \in Ops :
          request' = [request EXCEPT
             ![r] = [pc |-> "loaded", op |-> op, seen |-> row.status, draft |-> row.draft]]
    BY <1>3 DEF Load
  <2>2. [pc |-> "loaded", op |-> op, seen |-> row.status, draft |-> row.draft] \in RequestType
    BY DEF Typed, RowType, RequestType, RequestPcs
  <2>. QED  BY <2>1, <2>2 DEF Typed
<1>4. CASE \E r \in Requests : \E op \in Decisions : Decide(r, op)
  <2>1. PICK r \in Requests, op \in Decisions :
          request' = [request EXCEPT ![r] = [IdleRequest EXCEPT !.pc = "dispatch", !.op = op]]
    BY <1>4 DEF Decide
  <2>. QED  BY <2>1, IdleRequestType DEF Typed, RequestPcs
<1>5. CASE \E r \in Requests, pc \in RequestPcs :
             request' = [request EXCEPT ![r] = [IdleRequest EXCEPT !.pc = pc]]
  BY <1>5, IdleRequestType DEF Typed
<1>6. CASE \E r \in Requests : request' = [request EXCEPT ![r] = IdleRequest]
  BY <1>6, IdleRequestType DEF Typed
<1>7. "dispatch" \in RequestPcs /\ "purge" \in RequestPcs
  BY DEF RequestPcs
<1>8. ASSUME NEW r \in Requests, Handle(r)
      PROVE  request' \in [Requests -> RequestType]
  BY <1>3, <1>4, <1>5, <1>6, <1>7, <1>8
     DEF Handle, StartResearch, CancelSession, DeleteSession, PurgeThread, Abandon, Dispatch,
         DispatchFails
<1>9. ASSUME NEW d \in Drivers, Drive(d)
      PROVE  UNCHANGED request
  BY <1>9
     DEF Drive, TakeTask, DropTask, Begin, Refuse, RunGraph, Reread, PersistOutcome, Publish,
         PublishFails, Ingest, Unwind, MarkFailed, CrashDriver
<1>. QED
  BY <1>1, <1>2, <1>8, <1>9 DEF Next, SeedDemo, ExpireLock, vars

LEMMA TypedStep == Typed /\ [Next]_vars => Typed'
<1>. SUFFICES ASSUME Typed, [Next]_vars PROVE Typed'
  OBVIOUS
<1>1. host' = host
  BY ZenonT(60) DEF Next, Handle, Drive, StartResearch, SeedDemo, Load, Decide, CancelSession, DeleteSession,
         PurgeThread, Abandon, Dispatch, DispatchFails, TakeTask, DropTask, Begin, Refuse,
         RunGraph, Reread, PersistOutcome, Publish, PublishFails, Ingest, Unwind, MarkFailed,
         CrashDriver, ExpireLock, Restart, vars
<1>. QED
  BY <1>1, RowTyped, ThreadTyped, QueueTyped, DriverTyped, RequestTyped DEF Typed

-----------------------------------------------------------------------------
(* A stop sticks *)

Fresh(d)  == driver[d].pc = "fresh"
Decider(r) == request[r].pc = "loaded" /\ request[r].op \in Decisions

\* Whoever may still revive a stopped session had looked before the stop.
StopInvariant ==
    /\ row.status = "NONE" => ~row.cancelled
    /\ StopSticks
    /\ row.cancelled /\ Exists =>
         /\ \A d \in Drivers : Fresh(d) => "late" \in slips
         /\ \A r \in Requests : Decider(r) => "late" \in slips

\* Nobody new may revive it, and nobody does.
StopKept ==
    /\ row'.cancelled = row.cancelled
    /\ row'.status = row.status \/ (Exists /\ row'.status = "FAILED")
    /\ slips \subseteq slips'
    /\ \A d \in Drivers : Fresh(d)' => Fresh(d)
    /\ \A r \in Requests : Decider(r)' => Decider(r)

LEMMA StopFollows == StopInvariant /\ StopKept => StopInvariant'
BY DEF StopInvariant, StopKept, StopSticks, Exists, NoRow

\* No request is a decision that has loaded its row once it is answered.
LEMMA Answered ==
    ASSUME Typed, NEW r \in Requests, NEW op \in TaskKinds \cup Ops, NEW pc \in RequestPcs,
           \/ request' = [request EXCEPT ![r] = IdleRequest]
           \/ /\ pc # "loaded"
              /\ \/ request' = [request EXCEPT ![r] = [IdleRequest EXCEPT !.pc = pc]]
                 \/ request' = [request EXCEPT ![r] = [IdleRequest EXCEPT !.pc = pc, !.op = op]]
    PROVE  \A q \in Requests : Decider(q)' => Decider(q) /\ q # r
<1>1. IdleRequest.pc = "idle" /\ [IdleRequest EXCEPT !.pc = pc].pc = pc
      /\ [IdleRequest EXCEPT !.pc = pc, !.op = op].pc = pc
  BY DEF IdleRequest
<1>. QED  BY <1>1 DEF Typed, Decider

LEMMA StopHandle ==
    ASSUME Typed, StopInvariant, NEW r \in Requests, Handle(r)
    PROVE  StopInvariant'
<1>0. \A s \in AnyStatus : [row EXCEPT !.status = s].status = s
                           /\ [row EXCEPT !.status = s].cancelled = row.cancelled
  BY DEF Typed, RowType
<1>1. CASE StartResearch(r)
  <2>1. PICK skip \in BOOLEAN : row' = [row EXCEPT !.status = "PENDING", !.skip = skip]
    BY <1>1, SessionAssumption DEF StartResearch
  <2>2. row'.cancelled = row.cancelled /\ row'.status = "PENDING" /\ row.status = "NONE"
    BY <1>1, <2>1 DEF StartResearch, Typed, RowType
  <2>. QED  BY <2>2 DEF StopInvariant, StopSticks
<1>2. CASE \E op \in Ops : Load(r, op)
  <2>1. PICK op \in Ops : Load(r, op)
    BY <1>2
  <2>2. op \in Decisions => row.status \in {"AWAITING_PLAN", "AWAITING_APPROVAL"}
    BY <2>1 DEF Load, Admits, Decisions, TaskKinds
  <2>3. op \in Decisions /\ row.cancelled => "late" \in slips
    BY <2>1, <2>2 DEF Load, StopInvariant, StopSticks
  <2>4. /\ request'[r].op = op
        /\ \A q \in Requests \ {r} : request'[q] = request[q]
    BY <2>1 DEF Load, Typed
  <2>5. UNCHANGED <<row, slips, driver>>
    BY <2>1 DEF Load
  <2>6. \A q \in Requests : Decider(q)' => Decider(q) \/ (q = r /\ op \in Decisions)
    BY <2>4 DEF Decider
  <2>. QED  BY <2>3, <2>5, <2>6 DEF StopInvariant, StopSticks, Exists, Fresh
<1>3. CASE \E op \in Decisions : Decide(r, op)
  <2>1. PICK op \in Decisions : Decide(r, op)
    BY <1>3
  <2>2. row'.cancelled = row.cancelled /\ row'.status = "RUNNING" /\ Exists
        /\ UNCHANGED driver /\ slips \subseteq slips' /\ Decider(r)
    BY <1>0, <2>1 DEF Decide, Loaded, Decider, AnyStatus, Statuses
  <2>. QED  BY <2>2 DEF StopInvariant, StopSticks
<1>4. CASE CancelSession(r)
  <2>1. row'.status = "FAILED" /\ UNCHANGED driver
        /\ request' = [request EXCEPT ![r] = IdleRequest]
        /\ (Blind(r) => "late" \in slips')
    BY <1>4 DEF CancelSession, Typed, RowType
  <2>2. \A q \in Requests : Decider(q)' => Decider(q) /\ q # r
    BY <2>1, Answered DEF RequestPcs, Ops
  <2>3. \A d \in Drivers : Fresh(d)' => Blind(r)
    BY <2>1 DEF Fresh, Blind
  <2>4. \A q \in Requests : Decider(q)' => Blind(r)
    BY <2>2 DEF Decider, Blind
  <2>. QED  BY <2>1, <2>3, <2>4 DEF StopInvariant, StopSticks
<1>5. CASE DeleteSession(r)
  <2>1. row'.status = "DELETED"
    BY <1>0, <1>5 DEF DeleteSession, AnyStatus, NoRow
  <2>. QED  BY <2>1 DEF StopInvariant, StopSticks, Exists, NoRow
<1>6. CASE PurgeThread(r) \/ Abandon(r) \/ Dispatch(r) \/ DispatchFails(r)
  <2>1. UNCHANGED <<row, slips, driver>> /\ request' = [request EXCEPT ![r] = IdleRequest]
    BY <1>6 DEF PurgeThread, Abandon, Dispatch, DispatchFails
  <2>2. \A q \in Requests : Decider(q)' => Decider(q)
    BY <2>1, Answered DEF RequestPcs, Ops
  <2>3. StopKept
    BY <2>1, <2>2 DEF StopKept, Fresh, Decider
  <2>. QED  BY <2>3, StopFollows
<1>. QED  BY <1>1, <1>2, <1>3, <1>4, <1>5, <1>6 DEF Handle

LEMMA StopDrive ==
    ASSUME Typed, StopInvariant, NEW d \in Drivers, Drive(d)
    PROVE  StopInvariant'
<1>0. \A s \in AnyStatus : [row EXCEPT !.status = s].status = s
                           /\ [row EXCEPT !.status = s].cancelled = row.cancelled
  BY DEF Typed, RowType
<1>1. UNCHANGED <<slips, request>>
  BY DEF Drive, TakeTask, DropTask, Begin, Refuse, RunGraph, Reread, PersistOutcome, Publish,
         PublishFails, Ingest, Unwind, MarkFailed, CrashDriver
<1>2. \A q \in Requests : Decider(q)' <=> Decider(q)
  BY <1>1 DEF Decider
<1>3. ASSUME row' = row,
             \A e \in Drivers \ {d} : driver'[e] = driver[e], ~Fresh(d)'
      PROVE  StopInvariant'
  <2>1. StopKept
    BY <1>1, <1>2, <1>3 DEF StopKept, Fresh, Decider
  <2>. QED  BY <2>1, StopFollows
<1>4. ASSUME Done(d) \/ \E pc \in DriverPcs \ {"fresh"} : Goto(d, pc)
      PROVE  ~Fresh(d)' /\ \A e \in Drivers \ {d} : driver'[e] = driver[e]
  BY <1>4, GotoType, DoneType DEF Goto, Fresh
<1>5. ASSUME NEW w, w.pc # "fresh", driver' = [driver EXCEPT ![d] = w]
      PROVE  ~Fresh(d)' /\ \A e \in Drivers \ {d} : driver'[e] = driver[e]
  BY <1>5 DEF Typed, Fresh
<1>6. {"unwind", "mark", "publish", "ingest", "outcome"} \subseteq DriverPcs \ {"fresh"}
  BY DEF DriverPcs
<1>7. CASE \E k \in TaskKinds : TakeTask(d, k) \/ DropTask(d, k)
  <2>1. PICK k \in TaskKinds : TakeTask(d, k) \/ DropTask(d, k)
    BY <1>7
  <2>2. [IdleDriver EXCEPT !.pc = "taken", !.task = k].pc = "taken"
    BY DEF IdleDriver
  <2>3. CASE TakeTask(d, k)
    BY <1>3, <1>5, <2>2, <2>3 DEF TakeTask
  <2>4. CASE DropTask(d, k)
    <3>1. StopKept
      BY <1>1, <1>2, <2>4 DEF DropTask, StopKept, Fresh, Decider
    <3>. QED  BY <3>1, StopFollows
  <2>. QED  BY <2>1, <2>3, <2>4
<1>8. CASE Begin(d)
  <2>1. CASE ~Exists
    BY <1>3, <1>4, <1>8, <2>1 DEF Begin
  <2>2. CASE Exists
    <3>1. ~Fresh(d)' /\ \A e \in Drivers \ {d} : driver'[e] = driver[e]
      BY <1>8, <2>2 DEF Begin, Typed, DriverType, Fresh
    <3>2. row'.cancelled = row.cancelled /\ (row.cancelled => row' = row)
          /\ (row' = row \/ row'.status = "RUNNING")
      BY <1>0, <1>8, <2>2 DEF Begin, MarkRunning, AnyStatus, Statuses
    <3>3. \A e \in Drivers : Fresh(e)' => Fresh(e)
      BY <3>1 DEF Fresh
    <3>. QED  BY <1>1, <1>2, <2>2, <3>2, <3>3 DEF StopInvariant, StopSticks, Exists
  <2>. QED  BY <2>1, <2>2
<1>9. CASE Refuse(d)
  <2>1. row'.cancelled = row.cancelled /\ (row' = row \/ row'.status = "FAILED")
    BY <1>0, <1>9 DEF Refuse, Assigned, AnyStatus, Statuses
  <2>2. Exists /\ ~Fresh(d)' /\ \A e \in Drivers \ {d} : driver'[e] = driver[e]
    BY <1>4, <1>6, <1>9 DEF Refuse
  <2>3. StopKept
    BY <1>1, <1>2, <2>1, <2>2 DEF StopKept, Fresh, Exists, NoRow, Decider
  <2>. QED  BY <2>3, StopFollows
<1>10. CASE RunGraph(d)
  <2>1. PICK stop \in Stops(driver[d].task, driver[d].from) :
          IF stop.outcome = "crashed"
            THEN Goto(d, IF host = "server" THEN "unwind" ELSE "outcome")
            ELSE driver' = [driver EXCEPT ![d] =
                   [IdleDriver EXCEPT !.pc = "outcome", !.seen = driver[d].seen,
                                      !.outcome = stop.outcome, !.reworks = stop.thread.reworks]]
    BY <1>10 DEF RunGraph
  <2>. DEFINE w == [IdleDriver EXCEPT !.pc = "outcome", !.seen = driver[d].seen,
                                      !.outcome = stop.outcome, !.reworks = stop.thread.reworks]
  <2>2. w.pc = "outcome"
    BY DEF IdleDriver
  <2>3. row' = row
    BY <1>10 DEF RunGraph
  <2>4. CASE stop.outcome = "crashed"
    BY <1>3, <1>4, <1>6, <2>1, <2>3, <2>4
  <2>5. CASE stop.outcome # "crashed"
    BY <1>3, <1>5, <2>1, <2>2, <2>3, <2>5
  <2>. QED  BY <2>4, <2>5
<1>11. CASE Reread(d)
  <2>1. CASE Exists /\ ~row.cancelled
    <3>1. row' = row
      BY <1>11, <2>1 DEF Reread
    <3>. QED  BY <2>1, <3>1 DEF StopInvariant, StopSticks, Exists
  <2>2. CASE Exists /\ row.cancelled
    <3>1. row' = [row EXCEPT !.reworks = driver[d].reworks] /\ Done(d)
      BY <1>11, <2>2 DEF Reread
    <3>2. row'.cancelled = row.cancelled /\ row'.status = row.status
      BY <3>1 DEF Typed, RowType
    <3>3. ~Fresh(d)' /\ \A e \in Drivers \ {d} : driver'[e] = driver[e]
      BY <1>4, <3>1
    <3>4. StopKept
      BY <1>1, <1>2, <3>2, <3>3 DEF StopKept, Fresh, Decider
    <3>. QED  BY <3>4, StopFollows
  <2>3. CASE ~Exists
    <3>1. row' = row
      BY <1>11, <2>3 DEF Reread, Typed
    <3>. QED  BY <2>3, <3>1 DEF StopInvariant, StopSticks, Exists
  <2>. QED  BY <2>1, <2>2, <2>3
<1>12. CASE PersistOutcome(d)
  <2>1. CASE ~Exists
    <3>1. row' = row
      BY <1>12, <2>1 DEF PersistOutcome
    <3>. QED  BY <2>1, <3>1 DEF StopInvariant, StopSticks, Exists
  <2>2. CASE Exists
    <3>1. row.cancelled => "late" \in slips
      BY <1>12, <2>2 DEF PersistOutcome, StopInvariant, Fresh
    <3>2. row'.cancelled = row.cancelled /\ row'.status # "NONE"
      <4>. DEFINE w == driver[d]
                  base == Assigned(w.seen, OutcomeStatus(w.outcome))
      <4>1. w.outcome \in Outcomes \ {"crashed"}
        BY DEF Typed, DriverType
      <4>2. OutcomeStatus(w.outcome) \in AnyStatus /\ OutcomeStatus(w.outcome) # "NONE"
        BY <4>1 DEF OutcomeStatus, Outcomes, AnyStatus, Statuses
      <4>3. base \in RowType /\ base.cancelled = row.cancelled /\ base.status # "NONE"
        BY <2>2, <4>2 DEF Assigned, Typed, RowType, Exists, NoRow
      <4>4. row' = [base EXCEPT !.reworks = w.reworks,
                      !.draft = IF w.outcome = "awaiting_approval" THEN w.reworks + 1 ELSE @,
                      !.final = IF w.outcome = "completed" THEN w.reworks + 1 ELSE @]
        BY <1>12, <2>2 DEF PersistOutcome
      <4>. HIDE DEF base
      <4>. QED  BY <4>3, <4>4 DEF RowType
    <3>. QED  BY <1>1, <3>1, <3>2 DEF StopInvariant, StopSticks
  <2>. QED  BY <2>1, <2>2
<1>13. CASE Publish(d) \/ PublishFails(d) \/ Ingest(d) \/ Unwind(d)
  <2>1. row' = row /\ (Done(d) \/ \E pc \in DriverPcs \ {"fresh"} : Goto(d, pc))
    BY <1>6, <1>13 DEF Publish, PublishFails, Ingest, Unwind
  <2>. QED  BY <1>3, <1>4, <2>1
<1>14. CASE MarkFailed(d)
  <2>1. Done(d) /\ row'.cancelled = row.cancelled
        /\ (row' = row \/ (Exists /\ row'.status = "FAILED"))
    BY <1>0, <1>14 DEF MarkFailed, AnyStatus, Statuses
  <2>3. StopKept
    BY <1>1, <1>2, <1>4, <2>1 DEF StopKept, Fresh, Exists, NoRow, Decider
  <2>. QED  BY <2>3, StopFollows
<1>15. CASE CrashDriver(d)
  <2>1. IdleDriver.pc # "fresh"
    BY DEF IdleDriver
  <2>. QED  BY <1>3, <1>5, <1>15, <2>1 DEF CrashDriver
<1>. QED
  BY <1>7, <1>8, <1>9, <1>10, <1>11, <1>12, <1>13, <1>14, <1>15 DEF Drive

LEMMA StopStep == Typed /\ StopInvariant /\ [Next]_vars => StopInvariant'
<1>. SUFFICES ASSUME Typed, StopInvariant, [Next]_vars PROVE StopInvariant'
  OBVIOUS
<1>1. CASE SeedDemo
  <2>1. row'.cancelled = row.cancelled /\ row'.status = "RUNNING" /\ row.status = "NONE"
    BY <1>1 DEF SeedDemo, Typed, RowType
  <2>. QED  BY <2>1 DEF StopInvariant, StopSticks
<1>2. CASE Restart
  <2>1. IdleDriver.pc = "idle" /\ IdleRequest.pc = "idle"
    BY DEF IdleDriver, IdleRequest
  <2>2. UNCHANGED <<row, slips>> /\ (\A d \in Drivers : ~Fresh(d)')
        /\ (\A r \in Requests : ~Decider(r)')
    BY <1>2, <2>1 DEF Restart, Fresh, Decider
  <2>3. StopKept
    BY <2>2 DEF StopKept, Fresh, Decider
  <2>. QED  BY <2>3, StopFollows
<1>3. CASE ExpireLock \/ UNCHANGED vars
  <2>1. StopKept
    BY <1>3 DEF ExpireLock, vars, StopKept, Fresh, Decider
  <2>. QED  BY <2>1, StopFollows
<1>. QED  BY <1>1, <1>2, <1>3, StopHandle, StopDrive DEF Next

\* A session the user stopped leaves FAILED only through a writer that had
\* looked before the stop committed: nothing that looks after it revives it.
THEOREM StopsStick == Spec => []StopSticks
<1>1. Init => Typed /\ StopInvariant
  <2>1. Init => StopInvariant
    BY DEF Init, StopInvariant, StopSticks, Exists, NoRow
  <2>. QED  BY <2>1, TypedInit
<1>2. Typed /\ StopInvariant /\ [Next]_vars => Typed' /\ StopInvariant'
  BY TypedStep, StopStep
<1>3. StopInvariant => StopSticks
  BY DEF StopInvariant
<1>. QED  BY <1>1, <1>2, <1>3, PTL DEF Spec

-----------------------------------------------------------------------------
(* The final report was approved: what every reachable state satisfies *)

\* As long as the row is there and no two decisions met on one gate.
Single == row.status # "DELETED" /\ "doubled" \notin slips

Sent(r) == request[r].pc = "dispatch"
Busy(d) == driver[d].pc \in {"taken", "graph", "outcome", "fresh"}

NothingSent   == \A r \in Requests : ~Sent(r)
NothingQueued == \A k \in TaskKinds : queue[k] = 0
NobodyBusy    == \A d \in Drivers : ~Busy(d)
NoTask        == NothingSent /\ NothingQueued /\ NobodyBusy

OnlySent(r) ==
    NothingQueued /\ NobodyBusy /\ \A q \in Requests : Sent(q) => q = r
OnlyQueued(k) ==
    NothingSent /\ NobodyBusy /\ queue[k] = 1 /\ \A l \in TaskKinds \ {k} : queue[l] = 0
OnlyBusy(d) ==
    NothingSent /\ NothingQueued /\ \A e \in Drivers : Busy(e) => e = d

\* There is at most one task: being sent, queued, or with a driver.
SoleTask ==
    \/ NoTask
    \/ \E r \in Requests : OnlySent(r)
    \/ \E k \in TaskKinds : OnlyQueued(k)
    \/ \E d \in Drivers : OnlyBusy(d)

\* A session that waits for somebody, or is not there yet, has no task.
Waiting   == row.status \in {"NONE", "AWAITING_PLAN", "AWAITING_APPROVAL"}
GateWaits == Waiting => NoTask

\* The row and the checkpoint agree on the gate, and on the draft shown there.
GateHolds ==
    /\ row.status = "AWAITING_PLAN" => thread.at = "plan_gate"
    /\ row.status = "AWAITING_APPROVAL" =>
         thread.at = "review_gate" /\ row.draft = thread.reworks + 1

\* The gate a task was decided at.
Fits(k, th) ==
    /\ k = "plan" => th.at = "plan_gate"
    /\ k = "rework" => th.at = "review_gate"
    /\ k = "approve" => th.at = "review_gate" /\ th.reworks + 1 \in approved

SentFits   == \A r \in Requests : Sent(r) => request[r].op \in TaskKinds /\ Fits(request[r].op, thread)
QueuedFits == \A k \in TaskKinds : queue[k] # 0 => Fits(k, thread)
DrivenFits ==
    \A d \in Drivers :
        /\ driver[d].pc = "taken" => Fits(driver[d].task, thread)
        /\ driver[d].pc = "graph" => Fits(driver[d].task, driver[d].from)

\* What an outcome that is not written yet says of the checkpoint.
Reports(w) ==
    /\ w.outcome = "completed" => w.reworks + 1 \in approved
    /\ w.outcome = "awaiting_plan" => thread.at = "plan_gate"
    /\ w.outcome = "awaiting_approval" =>
         thread.at = "review_gate" /\ thread.reworks = w.reworks

OutcomeFits == \A d \in Drivers : driver[d].pc \in {"outcome", "fresh"} => Reports(driver[d])

FinalHolds == row.final # 0 => row.final \in approved

OneGate == SoleTask /\ GateWaits /\ GateHolds /\ SentFits /\ QueuedFits /\ DrivenFits
           /\ OutcomeFits /\ FinalHolds

\* A decision that has loaded the row has seen its gate, and only a deletion
\* empties the checkpoint.
RequestsFit ==
    \A r \in Requests :
        /\ Decider(r) => request[r].seen = IF request[r].op = "plan" THEN "AWAITING_PLAN"
                                                                   ELSE "AWAITING_APPROVAL"
        /\ request[r].pc = "purge" => row.status = "DELETED"

ApprovalInvariant == RequestsFit /\ (Single => OneGate)

-----------------------------------------------------------------------------
(* Tasks: wherever one is, it is the only one *)

LEMMA SoleUse ==
    ASSUME Typed, SoleTask
    PROVE  /\ \A r \in Requests : Sent(r) => OnlySent(r)
           /\ \A k \in TaskKinds : queue[k] # 0 => OnlyQueued(k)
           /\ \A d \in Drivers : Busy(d) => OnlyBusy(d)
<1>1. CASE NoTask
  BY <1>1 DEF NoTask, NothingSent, NothingQueued, NobodyBusy
<1>2. CASE \E r \in Requests : OnlySent(r)
  BY <1>2 DEF OnlySent, NothingQueued, NobodyBusy
<1>3. CASE \E k \in TaskKinds : OnlyQueued(k)
  BY <1>3 DEF OnlyQueued, NothingSent, NobodyBusy
<1>4. CASE \E d \in Drivers : OnlyBusy(d)
  BY <1>4 DEF OnlyBusy, NothingSent, NothingQueued
<1>. QED  BY <1>1, <1>2, <1>3, <1>4 DEF SoleTask

\* Nothing new is sent, queued or driven.
Dwindles ==
    /\ \A r \in Requests : Sent(r)' => Sent(r) /\ request'[r].op = request[r].op
    /\ \A k \in TaskKinds : queue'[k] = queue[k] \/ queue'[k] = 0
    /\ \A d \in Drivers : Busy(d)' => Busy(d)

\* The checkpoint and what was approved are as they were, and the row stays at
\* its gate or leaves it.
Keeps ==
    /\ thread' = thread
    /\ approved \subseteq approved'
    /\ row'.final = row.final
    /\ Waiting' => row'.status = row.status /\ row'.draft = row.draft

LEMMA SoleDwindles ==
    ASSUME SoleTask, Dwindles
    PROVE  SoleTask' /\ (NoTask => NoTask')
<1>1. ASSUME NothingSent PROVE NothingSent'
  BY <1>1 DEF NothingSent, Dwindles, Sent
<1>2. ASSUME NothingQueued PROVE NothingQueued'
  BY <1>2 DEF NothingQueued, Dwindles
<1>3. ASSUME NobodyBusy PROVE NobodyBusy'
  BY <1>3 DEF NobodyBusy, Dwindles, Busy
<1>4. ASSUME NoTask PROVE NoTask'
  BY <1>1, <1>2, <1>3, <1>4 DEF NoTask
<1>5. ASSUME NEW r \in Requests, OnlySent(r) PROVE OnlySent(r)'
  BY <1>2, <1>3, <1>5 DEF OnlySent, Dwindles, Sent
<1>6. ASSUME NEW k \in TaskKinds, OnlyQueued(k) PROVE OnlyQueued(k)' \/ NoTask'
  <2>1. \A l \in TaskKinds \ {k} : queue'[l] = 0
    BY <1>6 DEF OnlyQueued, Dwindles
  <2>2. NothingSent' /\ NobodyBusy'
    BY <1>1, <1>3, <1>6 DEF OnlyQueued
  <2>3. queue'[k] = 1 \/ queue'[k] = 0
    BY <1>6 DEF OnlyQueued, Dwindles
  <2>. QED  BY <2>1, <2>2, <2>3 DEF OnlyQueued, NoTask, NothingQueued
<1>7. ASSUME NEW d \in Drivers, OnlyBusy(d) PROVE OnlyBusy(d)'
  BY <1>1, <1>2, <1>7 DEF OnlyBusy, Dwindles, Busy
<1>8. SoleTask'
  BY <1>4, <1>5, <1>6, <1>7 DEF SoleTask
<1>. QED  BY <1>4, <1>8

LEMMA FitsStays ==
    ASSUME NEW k, NEW th, Fits(k, th), approved \subseteq approved', th' = th, k' = k
    PROVE  Fits(k, th)'
BY DEF Fits

LEMMA GateDwindles ==
    ASSUME OneGate, Dwindles, Keeps
    PROVE  SoleTask' /\ GateWaits' /\ GateHolds' /\ SentFits' /\ QueuedFits' /\ FinalHolds'
<1>1. SoleTask' /\ GateWaits'
  BY SoleDwindles DEF OneGate, GateWaits, Keeps, Waiting
<1>2. GateHolds' /\ FinalHolds'
  BY DEF OneGate, GateHolds, FinalHolds, Keeps, Waiting
<1>3. SentFits'
  BY DEF OneGate, SentFits, Sent, Fits, Keeps, Dwindles
<1>4. QueuedFits'
  BY DEF OneGate, QueuedFits, Fits, Keeps, Dwindles
<1>. QED  BY <1>1, <1>2, <1>3, <1>4

\* Drivers that are busy are where they were.
LEMMA DriversKeep ==
    ASSUME OneGate, Keeps,
           \A d \in Drivers : Busy(d)' => driver'[d] = driver[d]
    PROVE  DrivenFits' /\ OutcomeFits'
<1>1. DrivenFits'
  BY DEF OneGate, DrivenFits, Fits, Keeps, Busy
<1>2. OutcomeFits'
  BY DEF OneGate, OutcomeFits, Reports, Keeps, Busy
<1>. QED  BY <1>1, <1>2

LEMMA GateKept ==
    ASSUME OneGate, Dwindles, Keeps,
           \A d \in Drivers : Busy(d)' => driver'[d] = driver[d]
    PROVE  OneGate'
BY GateDwindles, DriversKeep DEF OneGate

\* A new task, about to be sent.
LEMMA GateSends ==
    ASSUME Typed, OneGate, NoTask, Keeps, ~Waiting', UNCHANGED <<queue, driver>>,
           NEW r \in Requests, NEW w, request' = [request EXCEPT ![r] = w],
           w.op \in TaskKinds, Fits(w.op, thread)'
    PROVE  OneGate'
<1>1. request'[r] = w /\ \A q \in Requests \ {r} : request'[q] = request[q]
  BY DEF Typed
<1>2. OnlySent(r)'
  BY <1>1 DEF NoTask, NothingSent, NothingQueued, NobodyBusy, OnlySent, Sent, Busy
<1>3. SoleTask' /\ GateWaits' /\ GateHolds' /\ FinalHolds'
  BY <1>2 DEF SoleTask, GateWaits, GateHolds, Waiting, FinalHolds, OneGate, Keeps
<1>4. SentFits'
  BY <1>1 DEF NoTask, NothingSent, SentFits, Sent, Fits, Keeps
<1>5. QueuedFits'
  BY DEF NoTask, NothingQueued, QueuedFits
<1>6. DrivenFits' /\ OutcomeFits'
  BY DriversKeep DEF Busy
<1>. QED  BY <1>3, <1>4, <1>5, <1>6 DEF OneGate

\* A task that is now in the queue, and nowhere else.
LEMMA GateQueues ==
    ASSUME OneGate, Keeps, ~Waiting', NEW k \in TaskKinds, OnlyQueued(k)', Fits(k, thread)'
    PROVE  OneGate'
<1>1. SoleTask' /\ GateWaits' /\ GateHolds' /\ FinalHolds'
  BY DEF SoleTask, GateWaits, GateHolds, Waiting, FinalHolds, OneGate, Keeps
<1>2. SentFits' /\ QueuedFits' /\ DrivenFits' /\ OutcomeFits'
  BY DEF OnlyQueued, NothingSent, NobodyBusy, Sent, Busy, SentFits, QueuedFits, DrivenFits,
         OutcomeFits
<1>. QED  BY <1>1, <1>2 DEF OneGate

\* A task that a driver has, and nobody else.
LEMMA GateDrives ==
    ASSUME NEW d \in Drivers, OnlyBusy(d)', ~Waiting', FinalHolds',
           driver'[d].pc = "taken" => Fits(driver[d].task, thread)',
           driver'[d].pc = "graph" => Fits(driver[d].task, driver[d].from)',
           driver'[d].pc \in {"outcome", "fresh"} => Reports(driver[d])'
    PROVE  OneGate'
<1>1. SoleTask' /\ GateWaits' /\ GateHolds'
  BY DEF SoleTask, GateWaits, GateHolds, Waiting
<1>2. SentFits' /\ QueuedFits' /\ DrivenFits' /\ OutcomeFits'
  BY DEF OnlyBusy, NothingSent, NothingQueued, Sent, Busy, SentFits, QueuedFits, DrivenFits,
         OutcomeFits
<1>. QED  BY <1>1, <1>2 DEF OneGate

\* The task is over.
LEMMA GateOpens ==
    ASSUME NoTask', GateHolds', FinalHolds'
    PROVE  OneGate'
BY DEF NoTask, NothingSent, NothingQueued, NobodyBusy, Sent, Busy, SoleTask, GateWaits,
       SentFits, QueuedFits, DrivenFits, OutcomeFits, OneGate

-----------------------------------------------------------------------------
(* Every step keeps it *)

LEMMA RowFields ==
    ASSUME Typed
    PROVE  \A s \in AnyStatus :
             LET new == [row EXCEPT !.status = s]
             IN  new.status = s /\ new.draft = row.draft /\ new.final = row.final
BY DEF Typed, RowType

LEMMA StatusNames ==
    {"PENDING", "RUNNING", "FAILED", "DELETED"} \subseteq AnyStatus
BY DEF AnyStatus, Statuses, NoRow

\* A deleted row stays deleted, and what happened is not forgotten.
LEMMA DeletedStays ==
    ASSUME Typed, [Next]_vars
    PROVE  /\ row.status = "DELETED" => row'.status = "DELETED"
           /\ slips \subseteq slips'
<1>1. slips \subseteq slips'
  BY ZenonT(60) DEF Next, Handle, Drive, StartResearch, SeedDemo, Load, Decide, CancelSession, DeleteSession,
         PurgeThread, Abandon, Dispatch, DispatchFails, TakeTask, DropTask, Begin, Refuse,
         RunGraph, Reread, PersistOutcome, Publish, PublishFails, Ingest, Unwind, MarkFailed,
         CrashDriver, ExpireLock, Restart, vars
<1>2. ASSUME row.status = "DELETED" PROVE row' = row
  <2>1. ~Exists
    BY <1>2 DEF Exists, NoRow
  <2>2. ASSUME NEW r \in Requests, Handle(r) PROVE row' = row
    BY <1>2, <2>1, <2>2
       DEF Handle, StartResearch, Load, Decide, CancelSession, DeleteSession, PurgeThread, Abandon,
           Dispatch, DispatchFails
  <2>3. ASSUME NEW d \in Drivers, Drive(d) PROVE row' = row
    BY <2>1, <2>3
       DEF Drive, TakeTask, DropTask, Begin, Refuse, RunGraph, Reread, PersistOutcome, Publish,
           PublishFails, Ingest, Unwind, MarkFailed, CrashDriver, Typed
  <2>. QED  BY <1>2, <2>2, <2>3 DEF Next, SeedDemo, ExpireLock, Restart, vars
<1>. QED  BY <1>1, <1>2

LEMMA SingleBefore ==
    ASSUME Typed, [Next]_vars, Single'
    PROVE  Single
BY DeletedStays DEF Single

LEMMA RequestsStep ==
    ASSUME Typed, RequestsFit, [Next]_vars
    PROVE  RequestsFit'
<1>1. ASSUME \A r \in Requests : request'[r] = request[r] \/ request'[r].pc \in {"idle", "dispatch"}
      PROVE  RequestsFit'
  BY <1>1, DeletedStays DEF RequestsFit, Decider
<1>2. IdleRequest.pc = "idle"
      /\ \A pc \in RequestPcs : [IdleRequest EXCEPT !.pc = pc].pc = pc
  BY DEF IdleRequest
<1>3. \A op \in Decisions : [IdleRequest EXCEPT !.pc = "dispatch", !.op = op].pc = "dispatch"
  BY DEF IdleRequest
<1>4. ASSUME NEW r \in Requests, Handle(r)
      PROVE  RequestsFit'
  <2>1. CASE StartResearch(r)
    BY <1>1, <1>2, <2>1 DEF StartResearch, Typed, RequestPcs
  <2>2. CASE \E op \in Ops : Load(r, op)
    <3>1. PICK op \in Ops : Load(r, op)
      BY <2>2
    <3>2. /\ request'[r] = [pc |-> "loaded", op |-> op, seen |-> row.status, draft |-> row.draft]
          /\ \A q \in Requests \ {r} : request'[q] = request[q]
          /\ row' = row
      BY <3>1 DEF Load, Typed
    <3>3. op \in Decisions =>
            row.status = IF op = "plan" THEN "AWAITING_PLAN" ELSE "AWAITING_APPROVAL"
      BY <3>1 DEF Load, Admits, Decisions, TaskKinds
    <3>. QED  BY <3>2, <3>3 DEF RequestsFit, Decider
  <2>3. CASE \E op \in Decisions : Decide(r, op)
    BY <1>1, <1>3, <2>3 DEF Decide, Typed
  <2>4. CASE CancelSession(r) \/ PurgeThread(r) \/ Abandon(r) \/ Dispatch(r) \/ DispatchFails(r)
    BY <1>1, <1>2, <2>4 DEF CancelSession, PurgeThread, Abandon, Dispatch, DispatchFails, Typed
  <2>5. CASE DeleteSession(r)
    <3>1. request'[r].pc = "purge" /\ \A q \in Requests \ {r} : request'[q] = request[q]
      BY <1>2, <2>5 DEF DeleteSession, Typed, RequestPcs
    <3>2. row'.status = "DELETED"
      BY <2>5, RowFields, StatusNames DEF DeleteSession
    <3>. QED  BY <3>1, <3>2 DEF RequestsFit, Decider
  <2>. QED  BY <1>4, <2>1, <2>2, <2>3, <2>4, <2>5 DEF Handle
<1>5. ASSUME NEW d \in Drivers, Drive(d)
      PROVE  request' = request
  BY <1>5
     DEF Drive, TakeTask, DropTask, Begin, Refuse, RunGraph, Reread, PersistOutcome, Publish,
         PublishFails, Ingest, Unwind, MarkFailed, CrashDriver
<1>6. CASE Restart
  BY <1>1, <1>2, <1>6 DEF Restart
<1>. QED  BY <1>1, <1>4, <1>5, <1>6 DEF Next, SeedDemo, ExpireLock, vars

\* A request that is answered, or loads the row, sends nothing.
LEMMA NothingNew ==
    ASSUME OneGate, UNCHANGED <<queue, driver>>, Keeps,
           \A r \in Requests : request'[r] = request[r] \/ request'[r].pc # "dispatch"
    PROVE  OneGate'
<1>1. Dwindles
  BY DEF Dwindles, Sent, Busy
<1>. QED  BY <1>1, GateKept

LEMMA GateHandle ==
    ASSUME Typed, RequestsFit, Single, Single', OneGate, NEW r \in Requests, Handle(r)
    PROVE  OneGate'
<1>1. IdleRequest.pc = "idle" /\ [IdleRequest EXCEPT !.pc = "dispatch"].pc = "dispatch"
      /\ [IdleRequest EXCEPT !.pc = "dispatch"].op = "start"
  BY DEF IdleRequest
<1>2. CASE StartResearch(r)
  <2>1. PICK skip \in BOOLEAN : row' = [row EXCEPT !.status = "PENDING", !.skip = skip]
    BY <1>2, SessionAssumption DEF StartResearch
  <2>2. row'.status = "PENDING" /\ row'.final = row.final
    BY <2>1 DEF Typed, RowType
  <2>3. NoTask
    BY <1>2 DEF StartResearch, OneGate, GateWaits, Waiting
  <2>4. Keeps /\ ~Waiting' /\ UNCHANGED <<queue, driver>>
    BY <1>2, <2>2 DEF StartResearch, Keeps, Waiting
  <2>. DEFINE w == [IdleRequest EXCEPT !.pc = "dispatch"]
  <2>5. w.op \in TaskKinds /\ Fits(w.op, thread)'
    BY <1>1 DEF TaskKinds, Fits
  <2>6. request' = [request EXCEPT ![r] = w]
    BY <1>2 DEF StartResearch
  <2>. HIDE DEF w
  <2>. QED  BY <2>3, <2>4, <2>5, <2>6, GateSends
<1>3. CASE \E op \in Ops : Load(r, op)
  <2>1. UNCHANGED <<queue, driver>> /\ Keeps
    BY <1>3 DEF Load, Keeps
  <2>2. \A q \in Requests : request'[q] = request[q] \/ request'[q].pc # "dispatch"
    BY <1>3 DEF Load, Typed
  <2>. QED  BY <2>1, <2>2, NothingNew
<1>4. CASE \E op \in Decisions : Decide(r, op)
  <2>1. PICK op \in Decisions : Decide(r, op)
    BY <1>4
  <2>2. ~Stale(r)
    BY <2>1 DEF Decide, Single
  <2>3. Decider(r) /\ request[r].op = op
    BY <2>1 DEF Decide, Loaded, Decider
  <2>4. row.status = (IF op = "plan" THEN "AWAITING_PLAN" ELSE "AWAITING_APPROVAL")
        /\ row.draft = request[r].draft
    BY <2>2, <2>3 DEF Stale, RequestsFit
  <2>5. NoTask
    BY <2>4 DEF OneGate, GateWaits, Waiting
  <2>6. row'.status = "RUNNING" /\ row'.final = row.final
    BY <2>1, RowFields, StatusNames DEF Decide
  <2>7. Keeps /\ ~Waiting' /\ UNCHANGED <<queue, driver>>
    BY <2>1, <2>6 DEF Decide, Keeps, Waiting
  <2>. DEFINE w == [IdleRequest EXCEPT !.pc = "dispatch", !.op = op]
  <2>8. w.op = op /\ op \in TaskKinds
    BY DEF IdleRequest, Decisions
  <2>9. Fits(op, thread)'
    BY <2>1, <2>4 DEF Decide, Fits, OneGate, GateHolds, Decisions, TaskKinds
  <2>10. request' = [request EXCEPT ![r] = w]
    BY <2>1 DEF Decide
  <2>. HIDE DEF w
  <2>. QED  BY <2>5, <2>7, <2>8, <2>9, <2>10, GateSends
<1>5. CASE CancelSession(r)
  <2>1. row'.status = "FAILED" /\ row'.final = row.final
    BY <1>5 DEF CancelSession, Typed, RowType
  <2>2. UNCHANGED <<queue, driver>> /\ Keeps
    BY <1>5, <2>1 DEF CancelSession, Keeps, Waiting
  <2>3. \A q \in Requests : request'[q] = request[q] \/ request'[q].pc # "dispatch"
    BY <1>1, <1>5 DEF CancelSession, Typed
  <2>. QED  BY <2>2, <2>3, NothingNew
<1>6. CASE DeleteSession(r)
  BY <1>6, RowFields, StatusNames DEF DeleteSession, Single
<1>7. CASE PurgeThread(r)
  BY <1>7 DEF PurgeThread, RequestsFit, Single
<1>8. CASE Abandon(r) \/ DispatchFails(r)
  <2>1. UNCHANGED <<queue, driver>> /\ Keeps
    BY <1>8 DEF Abandon, DispatchFails, Keeps
  <2>2. \A q \in Requests : request'[q] = request[q] \/ request'[q].pc # "dispatch"
    BY <1>1, <1>8 DEF Abandon, DispatchFails, Typed
  <2>. QED  BY <2>1, <2>2, NothingNew
<1>9. CASE Dispatch(r)
  <2>1. PICK k \in TaskKinds : request[r].op = k /\ Sent(r) /\ Fits(k, thread)
    BY <1>9 DEF Dispatch, Sent, OneGate, SentFits
  <2>2. OnlySent(r)
    BY <2>1, SoleUse DEF OneGate
  <2>3. ~Waiting
    BY <2>1 DEF OneGate, GateWaits, NoTask, NothingSent
  <2>4. Keeps /\ ~Waiting' /\ UNCHANGED <<row, driver, approved, thread>>
    BY <1>9, <2>3 DEF Dispatch, Keeps, Waiting
  <2>5. queue'[k] = 1 /\ \A l \in TaskKinds \ {k} : queue'[l] = 0
    BY <1>9, <2>1, <2>2 DEF Dispatch, Typed, OnlySent, NothingQueued
  <2>6. \A q \in Requests : request'[q].pc # "dispatch"
    BY <1>1, <1>9, <2>2 DEF Dispatch, Typed, OnlySent, Sent
  <2>7. OnlyQueued(k)'
    BY <2>2, <2>4, <2>5, <2>6 DEF OnlyQueued, OnlySent, NothingSent, NobodyBusy, Sent, Busy
  <2>. QED  BY <2>1, <2>4, <2>7, GateQueues DEF Fits
<1>. QED
  BY <1>2, <1>3, <1>4, <1>5, <1>6, <1>7, <1>8, <1>9 DEF Handle

\* A driver that lets go of whatever it had.
LEMMA GateRests ==
    ASSUME Typed, OneGate, Keeps, UNCHANGED <<queue, request>>, NEW d \in Drivers,
           Done(d) \/ \E pc \in {"publish", "ingest", "unwind", "mark"} : Goto(d, pc)
    PROVE  OneGate'
<1>1. ~Busy(d)' /\ \A e \in Drivers \ {d} : driver'[e] = driver[e]
  <2>1. CASE Done(d)
    BY <2>1, DoneType DEF Busy
  <2>2. ASSUME NEW pc \in {"publish", "ingest", "unwind", "mark"}, Goto(d, pc)
        PROVE  driver'[d].pc = pc /\ \A e \in Drivers \ {d} : driver'[e] = driver[e]
    <3>1. pc \in DriverPcs
      BY DEF DriverPcs
    <3>. QED  BY <2>2, <3>1, GotoType DEF Goto
  <2>. QED  BY <2>1, <2>2 DEF Busy
<1>2. Dwindles
  BY <1>1 DEF Dwindles, Sent, Busy
<1>3. \A e \in Drivers : Busy(e)' => driver'[e] = driver[e]
  BY <1>1
<1>. QED  BY <1>2, <1>3, GateKept

\* Whoever has the task has it alone, and the row does not wait.
LEMMA BusyAlone ==
    ASSUME Typed, OneGate, NEW d \in Drivers, Busy(d)
    PROVE  OnlyBusy(d) /\ ~Waiting
BY SoleUse DEF OneGate, GateWaits, NoTask, NobodyBusy

LEMMA AloneStays ==
    ASSUME NEW d \in Drivers, OnlyBusy(d), UNCHANGED <<queue, request>>,
           \A e \in Drivers \ {d} : driver'[e] = driver[e]
    PROVE  OnlyBusy(d)' /\ (~Busy(d)' => NoTask')
BY DEF OnlyBusy, NothingSent, NothingQueued, NobodyBusy, NoTask, Sent, Busy

LEMMA GateTake ==
    ASSUME Typed, OneGate, NEW d \in Drivers, NEW k \in TaskKinds,
           TakeTask(d, k) \/ DropTask(d, k)
    PROVE  OneGate'
<1>1. queue[k] # 0 /\ OnlyQueued(k) /\ Fits(k, thread) /\ ~Waiting
  <2>1. queue[k] # 0
    BY DEF TakeTask, DropTask, Typed
  <2>2. OnlyQueued(k) /\ Fits(k, thread)
    BY <2>1, SoleUse DEF OneGate, QueuedFits
  <2>. QED  BY <2>1, <2>2 DEF OneGate, GateWaits, NoTask, NothingQueued
<1>2. \A l \in TaskKinds : queue'[l] = 0
  BY <1>1 DEF TakeTask, DropTask, Typed, OnlyQueued
<1>3. UNCHANGED <<row, thread, approved, request>>
  BY DEF TakeTask, DropTask
<1>4. CASE DropTask(d, k)
  <2>1. Dwindles /\ Keeps
    BY <1>2, <1>3, <1>4 DEF DropTask, Dwindles, Keeps, Sent, Busy
  <2>2. \A e \in Drivers : Busy(e)' => driver'[e] = driver[e]
    BY <1>4 DEF DropTask
  <2>. QED  BY <2>1, <2>2, GateKept
<1>5. CASE TakeTask(d, k)
  <2>. DEFINE w == [IdleDriver EXCEPT !.pc = "taken", !.task = k]
  <2>1. w.pc = "taken" /\ w.task = k
    BY DEF IdleDriver
  <2>2. driver' = [driver EXCEPT ![d] = w]
    BY <1>5 DEF TakeTask
  <2>. HIDE DEF w
  <2>3. driver'[d] = w /\ \A e \in Drivers \ {d} : driver'[e] = driver[e]
    BY <2>2 DEF Typed
  <2>4. OnlyBusy(d)'
    BY <1>1, <1>2, <1>3, <2>3
       DEF OnlyBusy, OnlyQueued, NothingSent, NothingQueued, NobodyBusy, Sent, Busy
  <2>5. ~Waiting' /\ FinalHolds' /\ Fits(k, thread)'
    BY <1>1, <1>3 DEF Waiting, FinalHolds, OneGate, Fits
  <2>6. Fits(driver[d].task, thread)'
    BY <2>1, <2>3, <2>5 DEF Fits
  <2>. QED  BY <2>1, <2>3, <2>4, <2>5, <2>6, GateDrives
<1>. QED  BY <1>4, <1>5

LEMMA GateBegin ==
    ASSUME Typed, OneGate, NEW d \in Drivers, Begin(d)
    PROVE  OneGate'
<1>1. driver[d].pc = "taken" /\ UNCHANGED <<queue, request, thread, approved>>
  BY DEF Begin
<1>2. CASE ~Exists
  <2>1. Keeps
    BY <1>2 DEF Begin, Keeps
  <2>. QED  BY <1>1, <1>2, <2>1, GateRests DEF Begin
<1>3. CASE Exists
  <2>. DEFINE w == driver'[d]
  <2>1. OnlyBusy(d) /\ ~Waiting /\ Fits(driver[d].task, thread)
    BY <1>1, BusyAlone DEF Busy, OneGate, DrivenFits
  <2>2. w.pc = "graph" /\ w.task = driver[d].task /\ w.from = thread
        /\ \A e \in Drivers \ {d} : driver'[e] = driver[e]
    BY <1>3 DEF Begin, Typed, DriverType
  <2>3. row'.final = row.final /\ (row' = row \/ row'.status = "RUNNING")
    BY <1>3, RowFields, StatusNames, ZenonT(60) DEF Begin, MarkRunning
  <2>4. ~Waiting' /\ FinalHolds'
    BY <1>1, <2>1, <2>3 DEF Waiting, FinalHolds, OneGate
  <2>5. OnlyBusy(d)'
    BY <1>1, <2>1, <2>2, AloneStays
  <2>6. Fits(driver[d].task, driver[d].from)'
    BY <1>1, <2>1, <2>2 DEF Fits
  <2>. QED  BY <2>2, <2>4, <2>5, <2>6, GateDrives
<1>. QED  BY <1>2, <1>3

\* Where a leg stops, given the gate its task was decided at.
LEMMA StopReports ==
    ASSUME Typed, NEW task \in TaskKinds, NEW from \in Threads, Fits(task, from),
           NEW stop \in Stops(task, from), stop.outcome # "crashed"
    PROVE  /\ stop.outcome = "completed" => stop.thread.reworks + 1 \in approved
           /\ stop.outcome = "awaiting_plan" => stop.thread.at = "plan_gate"
           /\ stop.outcome = "awaiting_approval" => stop.thread.at = "review_gate"
<1>1. from.reworks \in Nat /\ row.skip \in BOOLEAN
  BY DEF Threads, Typed, RowType
<1>2. ASSUME NEW k \in Nat,
             stop \in {Stop("review_gate", k, "awaiting_approval"), Stop("failed", k, "failed")}
      PROVE  stop.outcome \in {"awaiting_approval", "failed"}
             /\ (stop.outcome = "awaiting_approval" => stop.thread.at = "review_gate")
  BY <1>2 DEF Stop, Thread
<1>3. \A at, n : Stop(at, n, "crashed").outcome = "crashed"
  BY DEF Stop
<1>4. CASE task = "start"
  <2>1. \/ stop \in {Stop("review_gate", 0, "awaiting_approval"), Stop("failed", 0, "failed")}
        \/ stop \in {Stop("plan_gate", 0, "awaiting_plan"), Stop("failed", 0, "failed")}
    BY <1>1, <1>3, <1>4 DEF Stops
  <2>. QED  BY <1>2, <2>1 DEF Stop, Thread
<1>5. CASE task \in {"plan", "rework"}
  <2>1. \E k \in Nat :
          stop \in {Stop("review_gate", k, "awaiting_approval"), Stop("failed", k, "failed")}
    <3>1. from.at = "plan_gate" \/ from.at = "review_gate"
      BY <1>5 DEF Fits
    <3>2. from.reworks + 1 \in Nat
      BY <1>1
    <3>. QED  BY <1>1, <1>3, <1>5, <3>1, <3>2 DEF Stops
  <2>. QED  BY <1>2, <2>1
<1>6. CASE task = "approve"
  <2>1. from.at = "review_gate" /\ from.reworks + 1 \in approved
    BY <1>6 DEF Fits
  <2>2. stop = Stop("done", from.reworks, "completed")
    BY <1>3, <1>6, <2>1 DEF Stops
  <2>. QED  BY <2>1, <2>2 DEF Stop, Thread
<1>. QED  BY <1>4, <1>5, <1>6 DEF TaskKinds

LEMMA GateGraph ==
    ASSUME Typed, OneGate, NEW d \in Drivers, RunGraph(d)
    PROVE  OneGate'
<1>1. driver[d].pc = "graph" /\ UNCHANGED <<row, queue, request, approved>>
  BY DEF RunGraph
<1>2. OnlyBusy(d) /\ ~Waiting /\ Fits(driver[d].task, driver[d].from)
  BY <1>1, BusyAlone DEF Busy, OneGate, DrivenFits
<1>3. driver[d].task \in TaskKinds /\ driver[d].from \in Threads
  BY DEF Typed, DriverType
<1>4. PICK stop \in Stops(driver[d].task, driver[d].from) :
        /\ thread' = stop.thread
        /\ IF stop.outcome = "crashed"
            THEN Goto(d, IF host = "server" THEN "unwind" ELSE "outcome")
            ELSE driver' = [driver EXCEPT ![d] =
                   [IdleDriver EXCEPT !.pc = "outcome", !.seen = driver[d].seen,
                                      !.outcome = stop.outcome, !.reworks = stop.thread.reworks]]
  BY DEF RunGraph
<1>5. ~Waiting' /\ FinalHolds'
  BY <1>1, <1>2 DEF Waiting, FinalHolds, OneGate
<1>6. CASE stop.outcome = "crashed"
  <2>. DEFINE pc == IF host = "server" THEN "unwind" ELSE "outcome"
              w  == [IdleDriver EXCEPT !.pc = pc]
  <2>1. w.pc = pc /\ w.outcome = "failed"
    BY DEF IdleDriver
  <2>2. driver'[d] = w /\ \A e \in Drivers \ {d} : driver'[e] = driver[e]
    BY <1>4, <1>6 DEF Goto, Typed
  <2>3. OnlyBusy(d)'
    BY <1>1, <1>2, <2>2, AloneStays
  <2>4. Reports(driver[d])'
    BY <2>1, <2>2 DEF Reports
  <2>5. driver'[d].pc \notin {"taken", "graph"}
    BY <2>1, <2>2
  <2>. QED  BY <1>5, <2>3, <2>4, <2>5, GateDrives
<1>7. CASE stop.outcome # "crashed"
  <2>. DEFINE w == [IdleDriver EXCEPT !.pc = "outcome", !.seen = driver[d].seen,
                                     !.outcome = stop.outcome, !.reworks = stop.thread.reworks]
  <2>1. w.pc = "outcome" /\ w.outcome = stop.outcome /\ w.reworks = stop.thread.reworks
    BY DEF IdleDriver
  <2>2. driver'[d] = w /\ \A e \in Drivers \ {d} : driver'[e] = driver[e]
    BY <1>4, <1>7 DEF Typed
  <2>3. OnlyBusy(d)'
    BY <1>1, <1>2, <2>2, AloneStays
  <2>. HIDE DEF w
  <2>4. Reports(driver[d])'
    BY <1>1, <1>2, <1>3, <1>4, <1>7, <2>1, <2>2, StopReports DEF Reports
  <2>. QED  BY <1>5, <2>1, <2>2, <2>3, <2>4, GateDrives
<1>. QED  BY <1>6, <1>7

LEMMA GateReread ==
    ASSUME Typed, OneGate, NEW d \in Drivers, Reread(d)
    PROVE  OneGate'
<1>1. driver[d].pc = "outcome" /\ UNCHANGED <<queue, request, thread, approved>>
  BY DEF Reread
<1>2. row' \in {row, [row EXCEPT !.reworks = driver[d].reworks]}
  BY DEF Reread, Typed
<1>3. row'.status = row.status /\ row'.draft = row.draft /\ row'.final = row.final
  BY <1>2 DEF Typed, RowType
<1>4. Keeps
  BY <1>1, <1>3 DEF Keeps
<1>5. CASE Exists /\ ~row.cancelled
  <2>1. driver'[d] = [driver[d] EXCEPT !.pc = "fresh", !.seen = LoadedStatus(d)]
        /\ \A e \in Drivers \ {d} : driver'[e] = driver[e]
    BY <1>5 DEF Reread, Typed
  <2>2. driver'[d].pc = "fresh" /\ driver'[d].outcome = driver[d].outcome
        /\ driver'[d].reworks = driver[d].reworks
    BY <2>1 DEF Typed, DriverType
  <2>3. OnlyBusy(d) /\ ~Waiting /\ Reports(driver[d])
    BY <1>1, BusyAlone DEF Busy, OneGate, OutcomeFits
  <2>4. OnlyBusy(d)'
    BY <1>1, <2>1, <2>3, AloneStays
  <2>5. Reports(driver[d])'
    BY <1>1, <2>2, <2>3 DEF Reports
  <2>6. ~Waiting' /\ FinalHolds'
    BY <1>1, <1>3, <2>3 DEF Waiting, FinalHolds, OneGate
  <2>. QED  BY <2>2, <2>4, <2>5, <2>6, GateDrives
<1>6. CASE ~(Exists /\ ~row.cancelled)
  <2>1. Goto(d, "unwind") \/ Done(d)
    BY <1>6 DEF Reread, Typed
  <2>. QED  BY <1>1, <1>4, <2>1, GateRests
<1>. QED  BY <1>5, <1>6

LEMMA GatePersist ==
    ASSUME Typed, OneGate, NEW d \in Drivers, PersistOutcome(d)
    PROVE  OneGate'
<1>1. driver[d].pc = "fresh" /\ UNCHANGED <<queue, request, thread, approved>>
  BY DEF PersistOutcome
<1>2. CASE ~Exists
  <2>1. row' = row /\ (Goto(d, "unwind") \/ Done(d))
    BY <1>2 DEF PersistOutcome
  <2>2. Keeps
    BY <1>1, <2>1 DEF Keeps
  <2>. QED  BY <1>1, <2>1, <2>2, GateRests
<1>3. CASE Exists
  <2>. DEFINE v == driver[d]
              base == Assigned(v.seen, OutcomeStatus(v.outcome))
              done == [IdleDriver EXCEPT !.pc = "publish",
                         !.outcome = IF v.outcome = "completed" THEN v.outcome ELSE "failed"]
  <2>1. OnlyBusy(d) /\ ~Waiting /\ Reports(v)
    BY <1>1, BusyAlone DEF Busy, OneGate, OutcomeFits
  <2>2. v.outcome \in Outcomes \ {"crashed"} /\ v.reworks \in Nat
    BY DEF Typed, DriverType
  <2>3. OutcomeStatus(v.outcome) \in AnyStatus
        /\ (OutcomeStatus(v.outcome) = "AWAITING_PLAN" => v.outcome = "awaiting_plan")
        /\ (OutcomeStatus(v.outcome) = "AWAITING_APPROVAL" => v.outcome = "awaiting_approval")
    BY <2>2 DEF OutcomeStatus, Outcomes, AnyStatus, Statuses
  <2>4. base \in RowType /\ base.final = row.final
        /\ (base.status = row.status \/ base.status = OutcomeStatus(v.outcome))
    BY <2>3 DEF Assigned, Typed, RowType
  <2>5. row' = [base EXCEPT !.reworks = v.reworks,
                  !.draft = IF v.outcome = "awaiting_approval" THEN v.reworks + 1 ELSE @,
                  !.final = IF v.outcome = "completed" THEN v.reworks + 1 ELSE @]
    BY <1>3 DEF PersistOutcome
  <2>. HIDE DEF base
  <2>6. /\ row'.status = base.status
        /\ v.outcome = "awaiting_approval" => row'.draft = v.reworks + 1
        /\ row'.final = IF v.outcome = "completed" THEN v.reworks + 1 ELSE row.final
    BY <2>4, <2>5 DEF RowType
  <2>7. done.pc = "publish"
    BY DEF IdleDriver
  <2>8. driver' = [driver EXCEPT ![d] = done]
    BY <1>3 DEF PersistOutcome
  <2>. HIDE DEF done
  <2>9. NoTask'
    <3>1. ~Busy(d)' /\ \A e \in Drivers \ {d} : driver'[e] = driver[e]
      BY <2>7, <2>8 DEF Busy, Typed
    <3>. QED  BY <1>1, <2>1, <3>1, AloneStays
  <2>10. GateHolds'
    BY <1>1, <2>1, <2>3, <2>4, <2>6 DEF GateHolds, Reports, Waiting
  <2>11. FinalHolds'
    BY <1>1, <2>1, <2>6 DEF FinalHolds, OneGate, Reports
  <2>. QED  BY <2>9, <2>10, <2>11, GateOpens
<1>. QED  BY <1>2, <1>3

LEMMA GateCrash ==
    ASSUME Typed, OneGate, NEW d \in Drivers, CrashDriver(d)
    PROVE  OneGate'
<1>1. UNCHANGED <<row, approved, queue, request>> /\ (thread' = thread \/ driver[d].pc = "graph")
      /\ driver' = [driver EXCEPT ![d] = IdleDriver]
  BY DEF CrashDriver
<1>2. ~Busy(d)' /\ \A e \in Drivers \ {d} : driver'[e] = driver[e]
  BY <1>1 DEF IdleDriver, Busy, Typed
<1>3. CASE driver[d].pc = "graph"
  <2>1. OnlyBusy(d) /\ ~Waiting
    BY <1>3, BusyAlone DEF Busy
  <2>2. NoTask'
    BY <1>1, <1>2, <2>1, AloneStays
  <2>3. GateHolds' /\ FinalHolds'
    BY <1>1, <2>1 DEF GateHolds, Waiting, FinalHolds, OneGate
  <2>. QED  BY <2>2, <2>3, GateOpens
<1>4. CASE driver[d].pc # "graph"
  <2>1. Dwindles /\ Keeps
    BY <1>1, <1>2, <1>4 DEF Dwindles, Keeps, Sent, Busy
  <2>2. \A e \in Drivers : Busy(e)' => driver'[e] = driver[e]
    BY <1>2
  <2>. QED  BY <2>1, <2>2, GateKept
<1>. QED  BY <1>3, <1>4

LEMMA GateDrive ==
    ASSUME Typed, OneGate, NEW d \in Drivers, Drive(d)
    PROVE  OneGate'
<1>1. CASE Refuse(d)
  <2>1. row'.final = row.final /\ (row' = row \/ row'.status = "FAILED")
    BY <1>1, RowFields, StatusNames DEF Refuse, Assigned
  <2>2. Keeps
    BY <1>1, <2>1 DEF Refuse, Keeps, Waiting
  <2>. QED  BY <1>1, <2>2, GateRests DEF Refuse
<1>2. CASE Publish(d) \/ PublishFails(d) \/ Ingest(d) \/ Unwind(d)
  <2>1. UNCHANGED <<row, thread, approved, queue, request>>
        /\ (Done(d) \/ \E pc \in {"publish", "ingest", "unwind", "mark"} : Goto(d, pc))
    BY <1>2 DEF Publish, PublishFails, Ingest, Unwind
  <2>2. Keeps
    BY <2>1 DEF Keeps
  <2>. QED  BY <2>1, <2>2, GateRests
<1>3. CASE MarkFailed(d)
  <2>1. row'.final = row.final /\ (row' = row \/ row'.status = "FAILED")
    BY <1>3, RowFields, StatusNames DEF MarkFailed
  <2>2. Keeps
    BY <1>3, <2>1 DEF MarkFailed, Keeps, Waiting
  <2>. QED  BY <1>3, <2>2, GateRests DEF MarkFailed
<1>. QED
  BY <1>1, <1>2, <1>3, GateTake, GateBegin, GateGraph, GateReread, GatePersist, GateCrash
     DEF Drive

LEMMA ApprovalStep ==
    ASSUME Typed, ApprovalInvariant, [Next]_vars
    PROVE  ApprovalInvariant'
<1>1. RequestsFit'
  BY RequestsStep DEF ApprovalInvariant
<1>2. ASSUME Single' PROVE OneGate'
  <2>1. Single /\ OneGate /\ RequestsFit
    BY <1>2, SingleBefore DEF ApprovalInvariant
  <2>2. CASE SeedDemo
    <3>1. row'.status = "RUNNING" /\ row'.final = row.final /\ NoTask
      BY <2>1, <2>2, RowFields, StatusNames DEF SeedDemo, OneGate, GateWaits, Waiting
    <3>2. Keeps /\ ~Waiting'
      BY <2>2, <3>1 DEF SeedDemo, Keeps, Waiting
    <3>3. OnlyQueued("start")'
      BY <2>2, <3>1
         DEF SeedDemo, Typed, TaskKinds, NoTask, NothingSent, NothingQueued, NobodyBusy,
             OnlyQueued, Sent, Busy
    <3>4. Fits("start", thread)' /\ "start" \in TaskKinds
      BY DEF Fits, TaskKinds
    <3>. QED  BY <2>1, <3>2, <3>3, <3>4, GateQueues
  <2>3. CASE Restart
    <3>1. IdleDriver.pc = "idle" /\ IdleRequest.pc = "idle"
      BY DEF IdleDriver, IdleRequest
    <3>2. NoTask'
      BY <2>3, <3>1 DEF Restart, NoTask, NothingSent, NothingQueued, NobodyBusy, Sent, Busy
    <3>3. GateHolds' /\ FinalHolds'
      BY <2>1, <2>3 DEF Restart, OneGate, GateHolds, FinalHolds
    <3>. QED  BY <3>2, <3>3, GateOpens
  <2>4. CASE ExpireLock \/ UNCHANGED vars
    <3>1. UNCHANGED <<row, approved, thread, queue, driver, request>>
      BY <2>4 DEF ExpireLock, vars
    <3>2. Keeps
      BY <3>1 DEF Keeps
    <3>. QED  BY <2>1, <3>1, <3>2, NothingNew
  <2>. QED  BY <1>2, <2>1, <2>2, <2>3, <2>4, GateHandle, GateDrive DEF Next
<1>. QED  BY <1>1, <1>2 DEF ApprovalInvariant

LEMMA ApprovalInit == Init => ApprovalInvariant
<1>. SUFFICES ASSUME Init PROVE ApprovalInvariant
  OBVIOUS
<1>1. IdleDriver.pc = "idle" /\ IdleRequest.pc = "idle"
  BY DEF IdleDriver, IdleRequest
<1>2. RequestsFit
  BY <1>1 DEF Init, RequestsFit, Decider
<1>3. NoTask
  BY <1>1 DEF Init, NoTask, NothingSent, NothingQueued, NobodyBusy, Sent, Busy
<1>4. SoleTask /\ GateWaits /\ GateHolds /\ FinalHolds
  BY <1>3 DEF Init, SoleTask, GateWaits, GateHolds, FinalHolds
<1>5. SentFits /\ QueuedFits /\ DrivenFits /\ OutcomeFits
  BY <1>3
     DEF NoTask, NothingSent, NothingQueued, NobodyBusy, Sent, Busy, SentFits, QueuedFits,
         DrivenFits, OutcomeFits
<1>. QED  BY <1>2, <1>4, <1>5 DEF ApprovalInvariant, OneGate

\* The final report of a session is a draft somebody approved, unless two
\* decisions were made on one gate: whatever is stopped, killed, restarted,
\* refused or lost on the way.
THEOREM FinalReportApproved == Spec => []FinalWasApproved
<1>1. Init => Typed /\ ApprovalInvariant
  BY TypedInit, ApprovalInit
<1>2. Typed /\ ApprovalInvariant /\ [Next]_vars => Typed' /\ ApprovalInvariant'
  BY TypedStep, ApprovalStep
<1>3. ApprovalInvariant => FinalWasApproved
  BY DEF ApprovalInvariant, Single, Exists, NoRow, OneGate, FinalHolds, FinalWasApproved
<1>. QED  BY <1>1, <1>2, <1>3, PTL DEF Spec
=============================================================================
