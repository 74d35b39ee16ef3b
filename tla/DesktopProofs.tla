---------------------------- MODULE DesktopProofs ----------------------------
(***************************************************************************)
(* What the desktop app keeps although it may end at any step.  One task     *)
(* drives a run and its row records what was dialled for it, for any number  *)
(* of launches, tasks, reviews and edits of the settings.  The move of the   *)
(* corpus loses no document, for any number of crashes and refusals.         *)
(***************************************************************************)
EXTENDS DesktopHost, CorpusLayout, TLAPS

Models  == Settings \cup {"unset"}
RunRow  == [status : NoRow \cup Active \cup Ended, demo : BOOLEAN, models : Models,
            prompts : Models, planned : BOOLEAN, drafted : BOOLEAN, artifact : BOOLEAN]
TaskRow == [pc : Driving \cup {"idle", "queued"}, kind : Kinds, segment : Segments,
            outcome : Outcomes]
Counts  == [launches : Nat, reviews : Nat, edits : Nat]
Disk    == [user : BOOLEAN, project : BOOLEAN, marked : BOOLEAN, demos : Nat]

\* What a step may do to the parts of the state that have little structure.
Plain ==
    /\ shell \in BOOLEAN /\ host \in Stages /\ fake \in BOOLEAN
    /\ saved \in Settings /\ key \in BOOLEAN /\ lost \in BOOLEAN
    /\ thread \in Positions /\ inFlight \in BOOLEAN

LEMMA TypeParts ==
    TypeOK <=> /\ Plain /\ disk \in Disk /\ run \in RunRow /\ task \in [Tasks -> TaskRow]
               /\ segments \subseteq Segments /\ count \in Counts
BY DEF TypeOK, Plain, Disk, RunRow, TaskRow, Counts, Models

LEMMA TypePartsNext ==
    ASSUME Plain', disk' \in Disk, run' \in RunRow, task' \in [Tasks -> TaskRow],
           segments' \subseteq Segments, count' \in Counts
    PROVE  TypeOK'
<1>1. shell' \in BOOLEAN /\ host' \in Stages /\ fake' \in BOOLEAN /\ saved' \in Settings
      /\ key' \in BOOLEAN /\ lost' \in BOOLEAN /\ thread' \in Positions /\ inFlight' \in BOOLEAN
  BY DEF Plain
<1>2. disk' \in [user : BOOLEAN, project : BOOLEAN, marked : BOOLEAN, demos : Nat]
  BY DEF Disk
<1>3. run' \in [status : NoRow \cup Active \cup Ended, demo : BOOLEAN,
                models : Settings \cup {"unset"}, prompts : Settings \cup {"unset"},
                planned : BOOLEAN, drafted : BOOLEAN, artifact : BOOLEAN]
  BY DEF RunRow, Models
<1>4. task' \in [Tasks -> [pc : Driving \cup {"idle", "queued"}, kind : Kinds,
                           segment : Segments, outcome : Outcomes]]
  BY DEF TaskRow
<1>5. count' \in [launches : Nat, reviews : Nat, edits : Nat]
  BY DEF Counts
<1>. QED  BY <1>1, <1>2, <1>3, <1>4, <1>5 DEF TypeOK

-----------------------------------------------------------------------------
(* Types *)

LEMMA IdleType == NoSegment \in Segments /\ Idle \in TaskRow /\ NoTasks \in [Tasks -> TaskRow]
BY DEF NoSegment, Segments, Idle, TaskRow, Kinds, Outcomes, NoTasks

LEMMA NoRunType ==
    NoRun \in RunRow /\ NoRun.status = "NONE" /\ NoRun.planned = FALSE /\ NoRun.drafted = FALSE
BY DEF NoRun, RunRow, Models, NoRow

LEMMA TypeInit == Init => TypeOK
<1>. SUFFICES ASSUME Init PROVE TypeOK
  OBVIOUS
<1>1. Plain /\ segments \subseteq Segments
  BY DEF Init, Plain, Stages, Positions
<1>3. disk \in Disk /\ count \in Counts
  BY DEF Init, Disk, Counts
<1>2. run \in RunRow /\ task \in [Tasks -> TaskRow]
  BY IdleType, NoRunType DEF Init
<1>. QED  BY <1>1, <1>2, <1>3, TypeParts

LEMMA TaskMoves ==
    ASSUME TypeOK, NEW t \in Tasks, NEW w \in TaskRow, task' = [task EXCEPT ![t] = w]
    PROVE  /\ task' \in [Tasks -> TaskRow]
           /\ task'[t] = w
           /\ \A u \in Tasks \ {t} : task'[u] = task[u]
BY TypeParts

\* What each way of moving a task does to it.
LEMMA StepMoves ==
    ASSUME TypeOK, NEW t \in Tasks, NEW pc \in Driving, Step(t, pc)
    PROVE  /\ task' \in [Tasks -> TaskRow]
           /\ task'[t].pc = pc /\ task'[t].kind = task[t].kind
           /\ task'[t].segment = task[t].segment
           /\ \A u \in Tasks \ {t} : task'[u] = task[u]
<1>1. task[t] \in TaskRow
  BY TypeParts
<1>2. [task[t] EXCEPT !.pc = pc] \in TaskRow
  BY <1>1 DEF TaskRow
<1>3. task' = [task EXCEPT ![t] = [task[t] EXCEPT !.pc = pc]]
  BY DEF Step
<1>4. task' \in [Tasks -> TaskRow] /\ task'[t] = [task[t] EXCEPT !.pc = pc]
      /\ \A u \in Tasks \ {t} : task'[u] = task[u]
  BY <1>2, <1>3, TaskMoves
<1>. QED  BY <1>1, <1>4 DEF TaskRow

LEMMA LeaveMoves ==
    ASSUME TypeOK, NEW t \in Tasks, Leave(t)
    PROVE  /\ task' \in [Tasks -> TaskRow]
           /\ task'[t].pc = "idle"
           /\ \A u \in Tasks \ {t} : task'[u] = task[u]
           /\ inFlight' = FALSE
BY IdleType, TaskMoves DEF Leave, Idle

LEMMA DispatchMoves ==
    ASSUME TypeOK, NEW kind \in Kinds, Dispatched(kind)
    PROVE  \E t \in Tasks :
             /\ task[t].pc = "idle"
             /\ task' \in [Tasks -> TaskRow]
             /\ task'[t].pc = "queued" /\ task'[t].kind = kind
             /\ \A u \in Tasks \ {t} : task'[u] = task[u]
<1>. DEFINE w == [Idle EXCEPT !.pc = "queued", !.kind = kind]
<1>1. w \in TaskRow /\ w.pc = "queued" /\ w.kind = kind
  BY IdleType DEF Idle, TaskRow
<1>2. PICK t \in Tasks : task[t].pc = "idle" /\ task' = [task EXCEPT ![t] = w]
  BY DEF Dispatched, At
<1>. HIDE DEF w
<1>. QED  BY <1>1, <1>2, TaskMoves

LEMMA MarkMoves ==
    ASSUME TypeOK, NEW t \in Tasks, MarkRunning(t), Exists, run.status # "CANCELLED"
    PROVE  /\ task' \in [Tasks -> TaskRow]
           /\ task'[t].pc = "marked"
           /\ task'[t].segment.models = run.models
           /\ task'[t].segment.prompts = FrozenPrompts(task[t].kind)
           /\ task'[t].segment.scripted = run.demo
           /\ \A u \in Tasks \ {t} : task'[u] = task[u]
           /\ inFlight' = inFlight
<1>. DEFINE seg == [models |-> run.models, prompts |-> FrozenPrompts(task[t].kind),
                    scripted |-> run.demo]
            w   == [task[t] EXCEPT !.pc = "marked", !.segment = seg]
<1>1. task[t] \in TaskRow /\ run \in RunRow /\ saved \in Settings
  BY TypeParts DEF Plain
<1>2. seg \in Segments
  BY <1>1 DEF Segments, RunRow, Models, FrozenPrompts
<1>3. w \in TaskRow /\ w.pc = "marked" /\ w.segment = seg
  BY <1>1, <1>2 DEF TaskRow, Driving
<1>4. task' = [task EXCEPT ![t] = w] /\ inFlight' = inFlight
  BY DEF MarkRunning
<1>5. task' \in [Tasks -> TaskRow] /\ task'[t] = w /\ \A u \in Tasks \ {t} : task'[u] = task[u]
  BY <1>3, <1>4, TaskMoves
<1>. QED  BY <1>3, <1>4, <1>5

\* The second way out of Configure: the segment is complete.
Configured(t) ==
    LET models   == Routing(task[t].segment.models)
        scripted == Scripted(task[t].segment.scripted)
    IN  /\ Exists \/ scripted = task[t].segment.scripted
        /\ run' = IF Exists THEN [run EXCEPT !.demo = @ \/ scripted] ELSE run
        /\ task' = [task EXCEPT ![t].pc = "configured",
                       ![t].segment = [@ EXCEPT !.models = models, !.scripted = scripted]]
        /\ UNCHANGED <<inFlight, lost>>

LEMMA ConfigureMoves ==
    ASSUME TypeOK, NEW t \in Tasks, Configured(t)
    PROVE  /\ task' \in [Tasks -> TaskRow]
           /\ task'[t].pc = "configured"
           /\ task'[t].segment.models = Routing(task[t].segment.models)
           /\ task'[t].segment.prompts = task[t].segment.prompts
           /\ task'[t].segment.scripted = Scripted(task[t].segment.scripted)
           /\ \A u \in Tasks \ {t} : task'[u] = task[u]
<1>. DEFINE s        == task[t].segment
            models   == Routing(s.models)
            scripted == Scripted(s.scripted)
            seg      == [s EXCEPT !.models = models, !.scripted = scripted]
            w        == [task[t] EXCEPT !.pc = "configured", !.segment = seg]
<1>1. task[t] \in TaskRow /\ saved \in Settings /\ fake \in BOOLEAN
  BY TypeParts DEF Plain
<1>2. s \in Segments
  BY <1>1 DEF TaskRow
<1>3. models \in Models /\ scripted \in BOOLEAN
  BY <1>1, <1>2 DEF Routing, Scripted, Segments, Models
<1>. HIDE DEF models, scripted
<1>4. seg \in Segments /\ seg.models = models /\ seg.prompts = s.prompts /\ seg.scripted = scripted
  BY <1>2, <1>3 DEF Segments, Models
<1>5. task' = [task EXCEPT ![t].pc = "configured",
                   ![t].segment = [@ EXCEPT !.models = models, !.scripted = scripted]]
  BY DEF Configured, models, scripted
<1>6. task' = [task EXCEPT ![t] = w]
  BY <1>1, <1>5, TypeParts DEF TaskRow
<1>. HIDE DEF seg
<1>7. w \in TaskRow /\ w.pc = "configured" /\ w.segment = seg
  BY <1>1, <1>4 DEF TaskRow, Driving
<1>. HIDE DEF w
<1>8. task' \in [Tasks -> TaskRow] /\ task'[t] = w /\ \A u \in Tasks \ {t} : task'[u] = task[u]
  BY <1>6, <1>7, TaskMoves
<1>. QED  BY <1>4, <1>7, <1>8 DEF models, scripted

LEMMA GraphMoves ==
    ASSUME TypeOK, NEW t \in Tasks, RunGraph(t)
    PROVE  /\ task' \in [Tasks -> TaskRow]
           /\ task'[t].pc = "stopped" /\ task'[t].kind = task[t].kind
           /\ \A u \in Tasks \ {t} : task'[u] = task[u]
           /\ thread' \in Positions
<1>1. PICK stop \in Stops(task[t].kind) :
        /\ thread' = stop.at
        /\ task' = [task EXCEPT ![t].pc = "stopped", ![t].outcome = stop.outcome]
  BY DEF RunGraph
<1>2. task[t] \in TaskRow /\ thread \in Positions
  BY TypeParts DEF Plain
<1>3. stop.at \in Positions /\ stop.outcome \in Outcomes
  BY <1>2 DEF Stops, Stop, Drafted, Positions, Outcomes
<1>. DEFINE w == [task[t] EXCEPT !.pc = "stopped", !.outcome = stop.outcome]
<1>4. w \in TaskRow /\ w.pc = "stopped" /\ w.kind = task[t].kind
  BY <1>2, <1>3 DEF TaskRow, Driving
<1>5. task' = [task EXCEPT ![t] = w]
  BY <1>1, <1>2, TypeParts DEF TaskRow
<1>. HIDE DEF w
<1>6. task' \in [Tasks -> TaskRow] /\ task'[t] = w /\ \A u \in Tasks \ {t} : task'[u] = task[u]
  BY <1>4, <1>5, TaskMoves
<1>. QED  BY <1>1, <1>3, <1>4, <1>6

LEMMA OutcomeStatusType ==
    \A outcome \in Outcomes : OutcomeStatus(outcome) \in Active \cup Ended
BY DEF OutcomeStatus, Outcomes, Active, Ended

\* A driven run keeps its types, whatever its task does.
LEMMA DriveTypes ==
    ASSUME TypeOK, NEW t \in Tasks, Drive(t)
    PROVE  TypeOK'
<1>0. /\ Plain /\ disk \in Disk /\ run \in RunRow /\ task \in [Tasks -> TaskRow]
      /\ segments \subseteq Segments /\ count \in Counts /\ task[t] \in TaskRow
  BY TypeParts
<1>1. UNCHANGED <<shell, host, fake, disk, saved, key, count>>
  BY DEF Drive, Claim, MarkRunning, Configure, Record, RunGraph, Persist, Announce
<1>2. ASSUME thread' \in Positions, inFlight' \in BOOLEAN, lost' \in BOOLEAN, run' \in RunRow,
             task' \in [Tasks -> TaskRow], segments' \subseteq Segments
      PROVE  TypeOK'
  <2>1. Plain' /\ disk' \in Disk /\ count' \in Counts
    BY <1>0, <1>1, <1>2 DEF Plain
  <2>. QED  BY <1>2, <2>1, TypePartsNext
<1>3. CASE Claim(t)
  <2>1. task' = [task EXCEPT ![t] = Idle] \/ Step(t, "claimed")
    BY <1>3 DEF Claim
  <2>2. task' \in [Tasks -> TaskRow]
    BY <2>1, IdleType, TaskMoves, StepMoves DEF Driving
  <2>. QED  BY <1>0, <1>2, <1>3, <2>2 DEF Claim, Plain
<1>4. CASE MarkRunning(t)
  <2>1. task' \in [Tasks -> TaskRow] /\ inFlight' \in BOOLEAN
    <3>1. CASE Exists /\ run.status # "CANCELLED"
      BY <1>0, <1>4, <3>1, MarkMoves DEF Plain
    <3>2. CASE ~(Exists /\ run.status # "CANCELLED")
      BY <1>4, <3>2, LeaveMoves DEF MarkRunning
    <3>. QED  BY <3>1, <3>2
  <2>2. FrozenPrompts(task[t].kind) \in Models
    BY <1>0 DEF FrozenPrompts, Plain, Models, RunRow
  <2>3. run' \in RunRow
    BY <1>0, <1>4, <2>2 DEF MarkRunning, RunRow, Active
  <2>. QED  BY <1>0, <1>2, <1>4, <2>1, <2>3 DEF MarkRunning, Plain
<1>5. CASE Configure(t)
  <2>1. \/ /\ run' = [run EXCEPT !.status = IF @ = "CANCELLED" THEN @ ELSE "FAILED"]
           /\ Step(t, "told") /\ UNCHANGED <<inFlight, lost>>
        \/ Configured(t)
        \/ Dies(t)
    BY <1>5 DEF Configure, Configured
  <2>2. UNCHANGED <<thread, segments>>
    BY <1>5 DEF Configure
  <2>3. CASE /\ run' = [run EXCEPT !.status = IF @ = "CANCELLED" THEN @ ELSE "FAILED"]
             /\ Step(t, "told") /\ UNCHANGED <<inFlight, lost>>
    <3>1. task' \in [Tasks -> TaskRow]
      BY <2>3, StepMoves DEF Driving
    <3>2. run' \in RunRow
      BY <1>0, <2>3 DEF RunRow, Ended
    <3>. QED  BY <1>0, <1>2, <2>2, <2>3, <3>1, <3>2 DEF Plain
  <2>4. CASE Configured(t)
    <3>1. run' \in RunRow
      BY <1>0, <2>4 DEF Configured, RunRow, Scripted
    <3>. QED  BY <1>0, <1>2, <2>2, <2>4, <3>1, ConfigureMoves DEF Configured, Plain
  <2>5. CASE Dies(t)
    BY <1>0, <1>2, <2>2, <2>5, LeaveMoves DEF Dies, Plain
  <2>. QED  BY <2>1, <2>3, <2>4, <2>5
<1>6. CASE Record(t)
  <2>1. task[t].segment \in Segments /\ task[t].segment.models \in Models
    BY <1>0 DEF TaskRow, Segments, Models
  <2>2. CASE Dies(t) /\ segments' = segments
    BY <1>0, <1>2, <1>6, <2>2, LeaveMoves DEF Record, Dies, Plain
  <2>3. CASE /\ run' = IF Exists THEN [run EXCEPT !.models = task[t].segment.models] ELSE run
             /\ Step(t, "graph")
             /\ segments' = segments \cup {task[t].segment}
             /\ UNCHANGED <<inFlight, lost>>
    <3>1. run' \in RunRow
      BY <1>0, <2>1, <2>3 DEF RunRow
    <3>2. task' \in [Tasks -> TaskRow]
      BY <2>3, StepMoves DEF Driving
    <3>. QED  BY <1>0, <1>2, <1>6, <2>1, <2>3, <3>1, <3>2 DEF Record, Plain
  <2>. QED  BY <1>6, <2>2, <2>3 DEF Record
<1>7. CASE RunGraph(t)
  BY <1>0, <1>2, <1>7, GraphMoves DEF RunGraph, Plain
<1>8. CASE Persist(t)
  <2>1. CASE Dies(t)
    BY <1>0, <1>2, <1>8, <2>1, LeaveMoves DEF Persist, Dies, Plain
  <2>2. CASE ~Dies(t)
    <3>1. task' \in [Tasks -> TaskRow]
      BY <1>8, <2>2, StepMoves DEF Persist, Driving
    <3>2. OutcomeStatus(task[t].outcome) \in Active \cup Ended
      BY <1>0, OutcomeStatusType DEF TaskRow
    <3>3. run' \in RunRow
      BY <1>0, <1>8, <2>2, <3>2 DEF Persist, RunRow
    <3>. QED  BY <1>0, <1>2, <1>8, <2>2, <3>1, <3>3 DEF Persist, Plain
  <2>. QED  BY <2>1, <2>2
<1>9. CASE Announce(t)
  BY <1>0, <1>2, <1>9, LeaveMoves DEF Announce, Plain
<1>. QED
  BY <1>3, <1>4, <1>5, <1>6, <1>7, <1>8, <1>9 DEF Drive

\* So do the launches and their ends.
LEMMA LaunchTypes ==
    ASSUME TypeOK, Launch \/ Boot \/ Quit \/ ShellDies \/ WatchShell
    PROVE  TypeOK'
<1>0. /\ Plain /\ disk \in Disk /\ run \in RunRow /\ task \in [Tasks -> TaskRow]
      /\ segments \subseteq Segments /\ count \in Counts
  BY TypeParts
<1>1. UNCHANGED <<run, segments>> /\ (task' = task \/ task' = NoTasks)
  BY DEF Launch, Boot, SeedUser, SeedProject, LayOut, MarkDemo, SeedDemo, Quit, ShellDies,
         WatchShell, Ends
<1>2. disk' \in Disk
  <2>1. CASE SeedUser
    BY <1>0, <2>1 DEF SeedUser, Disk
  <2>2. CASE SeedProject
    BY <1>0, <2>2 DEF SeedProject, Disk
  <2>3. CASE MarkDemo
    BY <1>0, <2>3 DEF MarkDemo, Disk
  <2>4. CASE SeedDemo
    BY <1>0, <2>4 DEF SeedDemo, Disk
  <2>5. CASE disk' = disk
    BY <1>0, <2>5
  <2>. QED
    BY <2>1, <2>2, <2>3, <2>4, <2>5
       DEF Launch, Boot, LayOut, Quit, ShellDies, WatchShell, Ends
<1>3. count' \in Counts
  BY <1>0
     DEF Launch, Boot, SeedUser, SeedProject, LayOut, MarkDemo, SeedDemo, Quit, ShellDies,
         WatchShell, Ends, Counts
<1>4. Plain'
  <2>1. CASE Quit \/ WatchShell
    <3>1. Pending \in BOOLEAN
      BY DEF Pending
    <3>. QED  BY <1>0, <2>1, <3>1 DEF Quit, WatchShell, Ends, Plain, Stages, Positions
  <2>2. CASE Launch \/ Boot \/ ShellDies
    BY <1>0, <2>2
       DEF Launch, Boot, SeedUser, SeedProject, LayOut, MarkDemo, SeedDemo, ShellDies, Plain, Stages
  <2>. QED  BY <2>1, <2>2
<1>. QED
  BY <1>0, <1>1, <1>2, <1>3, <1>4, IdleType, TypePartsNext

\* And what the window asks for.
LEMMA AskTypes ==
    ASSUME TypeOK, Ask
    PROVE  TypeOK'
<1>0. /\ Plain /\ disk \in Disk /\ run \in RunRow /\ task \in [Tasks -> TaskRow]
      /\ segments \subseteq Segments /\ count \in Counts
  BY TypeParts
<1>1. UNCHANGED <<shell, host, fake, inFlight, disk, segments, lost>>
  BY DEF Ask, CreateRun, Resume, ApproveReport, CancelRun, DeleteRun, SaveSettings, ChangeKey, process
<1>2. saved' \in Settings /\ key' \in BOOLEAN /\ thread' \in Positions
  BY <1>0
     DEF Ask, CreateRun, Resume, ApproveReport, CancelRun, DeleteRun, SaveSettings, ChangeKey,
         Plain, Positions
<1>3. count' \in Counts
  <2>1. CASE count' = count
    BY <1>0, <2>1
  <2>2. CASE Edited
    BY <1>0, <2>2 DEF Edited, Counts
  <2>3. CASE count' = [count EXCEPT !.reviews = @ + 1]
    BY <1>0, <2>3 DEF Counts
  <2>. QED
    BY <2>1, <2>2, <2>3
       DEF Ask, CreateRun, Resume, ApproveReport, CancelRun, DeleteRun, SaveSettings, ChangeKey
<1>4. task' \in [Tasks -> TaskRow]
  <2>1. CASE task' = task
    BY <1>0, <2>1
  <2>2. CASE \E kind \in Kinds : Dispatched(kind)
    BY <2>2, DispatchMoves
  <2>. QED
    BY <2>1, <2>2
       DEF Ask, CreateRun, Resume, ApproveReport, CancelRun, DeleteRun, SaveSettings, ChangeKey,
           process, Kinds
<1>5. run' \in RunRow
  <2>1. CASE CreateRun
    BY <2>1, NoRunType DEF CreateRun, RunRow, Active
  <2>2. CASE DeleteRun
    BY <2>2, NoRunType DEF DeleteRun, RunRow, NoRow
  <2>3. CASE run' = run
    BY <1>0, <2>3
  <2>4. CASE CancelRun \/ ApproveReport \/ \E kind \in {"resume_plan", "rework"} : Resume(kind)
    BY <1>0, <2>4 DEF CancelRun, ApproveReport, Resume, RunRow, Active, Ended
  <2>. QED  BY <2>1, <2>2, <2>3, <2>4 DEF Ask, SaveSettings, ChangeKey
<1>6. Plain'
  BY <1>0, <1>1, <1>2 DEF Plain
<1>. QED  BY <1>0, <1>1, <1>3, <1>4, <1>5, <1>6, TypePartsNext

LEMMA TypeStep == TypeOK /\ [Next]_vars => TypeOK'
<1>. SUFFICES ASSUME TypeOK, [Next]_vars PROVE TypeOK'
  OBVIOUS
<1>1. CASE UNCHANGED vars
  BY <1>1 DEF TypeOK, vars, process
<1>. QED  BY <1>1, DriveTypes, LaunchTypes, AskTypes DEF Next

\* Types of the whole state: wherever a launch ends, the row, the tasks and the
\* history keep their shape.
THEOREM DesktopTyped == Spec => []TypeOK
<1>. QED  BY TypeInit, TypeStep, PTL DEF Spec

-----------------------------------------------------------------------------
(* One driver *)

Others(t) == \A u \in Tasks \ {t} : task'[u] = task[u]

\* How a task moves: it is refused, it claims a free run, it goes on, or it
\* leaves and sets the run free.
LEMMA DriveMoves ==
    ASSUME TypeOK, NEW t \in Tasks, Drive(t)
    PROVE  /\ Others(t)
           /\ \/ task[t].pc = "queued" /\ task'[t].pc = "idle" /\ inFlight' = inFlight
              \/ /\ task[t].pc = "queued" /\ ~inFlight
                 /\ task'[t].pc = "claimed" /\ task'[t].kind = task[t].kind /\ inFlight' = TRUE
              \/ task[t].pc \in Driving /\ task'[t].pc \in Driving /\ inFlight' = inFlight
              \/ task[t].pc \in Driving /\ task'[t].pc = "idle" /\ inFlight' = FALSE
<1>1. CASE Claim(t)
  <2>1. CASE inFlight
    BY <1>1, <2>1, IdleType, TaskMoves DEF Claim, At, Others, Idle
  <2>2. CASE ~inFlight
    BY <1>1, <2>2, StepMoves DEF Claim, At, Others, Driving
  <2>. QED  BY <2>1, <2>2
<1>2. CASE MarkRunning(t)
  <2>1. CASE Exists /\ run.status # "CANCELLED"
    BY <1>2, <2>1, MarkMoves DEF MarkRunning, At, Others, Driving
  <2>2. CASE ~(Exists /\ run.status # "CANCELLED")
    BY <1>2, <2>2, LeaveMoves DEF MarkRunning, At, Others, Driving
  <2>. QED  BY <2>1, <2>2
<1>3. CASE Configure(t)
  <2>1. \/ Step(t, "told") /\ UNCHANGED <<inFlight, lost>>
        \/ Configured(t)
        \/ Leave(t)
    BY <1>3 DEF Configure, Configured, Dies
  <2>2. task[t].pc = "marked"
    BY <1>3 DEF Configure, At
  <2>3. CASE Step(t, "told") /\ UNCHANGED <<inFlight, lost>>
    BY <2>2, <2>3, StepMoves DEF Others, Driving
  <2>4. CASE Configured(t)
    BY <2>2, <2>4, ConfigureMoves DEF Configured, Others, Driving
  <2>5. CASE Leave(t)
    BY <2>2, <2>5, LeaveMoves DEF Others, Driving
  <2>. QED  BY <2>1, <2>3, <2>4, <2>5
<1>4. CASE Record(t)
  <2>1. \/ Step(t, "graph") /\ inFlight' = inFlight
        \/ Leave(t)
    BY <1>4 DEF Record, Dies
  <2>. QED  BY <1>4, <2>1, StepMoves, LeaveMoves DEF Record, At, Others, Driving
<1>5. CASE RunGraph(t)
  BY <1>5, GraphMoves DEF RunGraph, At, Others, Driving
<1>6. CASE Persist(t)
  <2>1. \/ Step(t, "told") /\ inFlight' = inFlight
        \/ Leave(t)
    BY <1>6 DEF Persist, Dies
  <2>. QED  BY <1>6, <2>1, StepMoves, LeaveMoves DEF Persist, At, Others, Driving
<1>7. CASE Announce(t)
  BY <1>7, LeaveMoves DEF Announce, At, Others, Driving
<1>. QED
  BY <1>1, <1>2, <1>3, <1>4, <1>5, <1>6, <1>7 DEF Drive

\* What is not a task of the sidecar moves its tasks in one of three ways.
LEMMA RestMoves ==
    ASSUME TypeOK, [Next]_vars, ~ \E t \in Tasks : Drive(t)
    PROVE  \/ UNCHANGED <<inFlight, task>>
           \/ task' = NoTasks /\ inFlight' = FALSE
           \/ (\E kind \in Kinds : Dispatched(kind)) /\ inFlight' = inFlight
<1>1. CASE UNCHANGED vars
  BY <1>1 DEF vars, process
<1>2. CASE Launch \/ Boot \/ ShellDies
  BY <1>2 DEF Launch, Boot, SeedUser, SeedProject, LayOut, MarkDemo, SeedDemo, ShellDies
<1>3. CASE Quit \/ WatchShell
  BY <1>3 DEF Quit, WatchShell, Ends
<1>4. CASE CreateRun \/ \E kind \in {"resume_plan", "rework"} : Resume(kind)
  BY <1>4 DEF CreateRun, Resume, Kinds
<1>5. CASE ApproveReport \/ CancelRun \/ DeleteRun \/ ChangeKey \/ \E s \in Settings : SaveSettings(s)
  BY <1>5 DEF ApproveReport, CancelRun, DeleteRun, ChangeKey, SaveSettings, process
<1>. QED
  BY <1>1, <1>2, <1>3, <1>4, <1>5 DEF Next, Ask

LEMMA OneDriverStep == TypeOK /\ OneDriver /\ [Next]_vars => OneDriver'
<1>. SUFFICES ASSUME TypeOK, OneDriver, [Next]_vars PROVE OneDriver'
  OBVIOUS
<1>0. inFlight \in BOOLEAN
  BY TypeParts DEF Plain
<1>1. ASSUME NEW t \in Tasks, Drive(t) PROVE OneDriver'
  BY <1>0, <1>1, DriveMoves, ZenonT(60) DEF OneDriver, Others, Driving
<1>2. CASE ~ \E t \in Tasks : Drive(t)
  <2>1. CASE UNCHANGED <<inFlight, task>>
    BY <2>1 DEF OneDriver
  <2>2. CASE task' = NoTasks /\ inFlight' = FALSE
    BY <2>2 DEF OneDriver, NoTasks, Idle, Driving
  <2>3. CASE (\E kind \in Kinds : Dispatched(kind)) /\ inFlight' = inFlight
    BY <2>3, DispatchMoves DEF OneDriver, Driving
  <2>. QED  BY <1>2, <2>1, <2>2, <2>3, RestMoves
<1>. QED  BY <1>1, <1>2

\* However many decisions arrive while a run is driven, one task drives it, and
\* the set of runs in flight says so exactly as long: for any number of tasks.
THEOREM OneDriverHolds == Spec => []OneDriver
<1>1. Init => OneDriver
  BY DEF Init, OneDriver, NoTasks, Idle, Driving
<1>. QED  BY <1>1, TypeInit, TypeStep, OneDriverStep, PTL DEF Spec

-----------------------------------------------------------------------------
(* What every reachable state satisfies *)

\* The run has been asked for, and nothing has been dialled for it yet.
Starts(t) == task[t].kind = "start" /\ task[t].pc \in {"queued", "claimed"}

\* Before there is a row there is nothing, and a run that is about to start has
\* no other task and nothing a review could resume.
StartsAlone ==
    /\ run.status = "NONE" => segments = {} /\ \A t \in Tasks : At(t, "idle")
    /\ Exists => \A t \in Tasks : Starts(t) =>
         /\ segments = {} /\ ~run.planned /\ ~run.drafted
         /\ \A u \in Tasks \ {t} : At(u, "idle")

\* What was dialled had a routing, and the row names it.
Dialled ==
    Exists => \A s \in segments :
        /\ s.models # "unset" /\ s.models = run.models /\ s.prompts = run.prompts
        /\ s.scripted => run.demo

\* What a task is about to dial.
AboutToDial ==
    Exists => \A t \in Tasks :
        /\ At(t, "marked") =>
             /\ task[t].segment.models = run.models
             /\ task[t].segment.prompts = run.prompts
             /\ task[t].segment.scripted => run.demo
        /\ At(t, "configured") =>
             /\ task[t].segment.models # "unset"
             /\ run.models \in {"unset", task[t].segment.models}
             /\ task[t].segment.prompts = run.prompts
             /\ task[t].segment.scripted => run.demo

RecordInvariant == OneDriver /\ StartsAlone /\ Dialled /\ AboutToDial

-----------------------------------------------------------------------------
(* The row says what ran *)

LEMMA NobodyStarts ==
    ASSUME StartsAlone, Exists, NEW t \in Tasks, task[t].pc # "idle", ~Starts(t)
    PROVE  \A u \in Tasks : ~Starts(u)
BY DEF StartsAlone, At

LEMMA OthersWait ==
    ASSUME OneDriver, NEW t \in Tasks, task[t].pc \in Driving
    PROVE  \A u \in Tasks \ {t} : task[u].pc \notin Driving
BY DEF OneDriver

\* A task that is past its start, or leaves, cannot break what is said of one
\* that starts: there is none.
LEMMA StartIsOver ==
    ASSUME StartsAlone, NEW t \in Tasks, Others(t), task[t].pc # "idle", ~Starts(t)',
           Exists' => Exists, run'.status = "NONE" => run.status = "NONE"
    PROVE  StartsAlone'
<1>1. run.status # "NONE"
  BY DEF StartsAlone, At
<1>2. ASSUME Exists', NEW u \in Tasks, Starts(u)' PROVE FALSE
  <2>1. u # t
    BY <1>2
  <2>2. Starts(u)
    BY <1>2, <2>1 DEF Starts, Others
  <2>. QED  BY <1>2, <2>1, <2>2 DEF StartsAlone, At
<1>. QED  BY <1>1, <1>2 DEF StartsAlone

\* What is on the row is what was dialled and what is about to be, as long as
\* the row keeps it and no task is newly on its way to the graph.
LEMMA RowKept ==
    ASSUME Dialled, AboutToDial, Exists' => Exists,
           run'.models = run.models, run'.prompts = run.prompts, run.demo => run'.demo,
           segments' = segments,
           \A t \in Tasks : \/ task'[t].pc \notin {"marked", "configured"}
                            \/ task'[t] = task[t]
    PROVE  Dialled' /\ AboutToDial'
<1>1. Dialled'
  BY DEF Dialled
<1>2. ASSUME Exists', NEW t \in Tasks,
             task'[t].pc = "marked" \/ task'[t].pc = "configured"
      PROVE  task'[t] = task[t] /\ Exists
  BY <1>2
<1>. QED  BY <1>1, <1>2 DEF AboutToDial, At

\* Without a row there is nothing to say.
LEMMA NoRowSaid ==
    ASSUME ~Exists', run'.status # "NONE"
    PROVE  StartsAlone' /\ Dialled' /\ AboutToDial'
BY DEF StartsAlone, Dialled, AboutToDial

\* A task whose way to the graph is done, or interrupted.
LEMMA Finishing ==
    ASSUME TypeOK, RecordInvariant, NEW t \in Tasks, Others(t), task[t].pc # "idle",
           task'[t].pc \notin {"queued", "claimed", "marked", "configured"},
           Exists' => Exists, run'.status = "NONE" => run.status = "NONE",
           run'.models = run.models, run'.prompts = run.prompts, run.demo => run'.demo,
           segments' = segments
    PROVE  StartsAlone' /\ Dialled' /\ AboutToDial'
<1>1. ~Starts(t)'
  BY DEF Starts
<1>2. StartsAlone'
  BY <1>1, StartIsOver DEF RecordInvariant
<1>3. \A u \in Tasks : task'[u].pc \notin {"marked", "configured"} \/ task'[u] = task[u]
  BY DEF Others
<1>4. Dialled' /\ AboutToDial'
  BY <1>3, RowKept DEF RecordInvariant
<1>. QED  BY <1>2, <1>4

LEMMA ClaimRecords ==
    ASSUME TypeOK, RecordInvariant, NEW t \in Tasks, Claim(t)
    PROVE  StartsAlone' /\ Dialled' /\ AboutToDial'
<1>0. UNCHANGED <<run, segments>> /\ task[t].pc = "queued"
  BY DEF Claim, At
<1>1. (Exists <=> Exists') /\ Drive(t)
  BY <1>0 DEF Exists, Drive
<1>2. Others(t)
  BY <1>1, DriveMoves
<1>3. CASE task'[t].pc = "idle"
  BY <1>0, <1>1, <1>2, <1>3, Finishing
<1>4. CASE task'[t].pc = "claimed" /\ task'[t].kind = task[t].kind
  <2>1. StartsAlone'
    <3>1. CASE Starts(t)
      <4>1. Exists => segments = {} /\ ~run.planned /\ ~run.drafted
                      /\ \A u \in Tasks \ {t} : task[u].pc = "idle"
        BY <3>1 DEF RecordInvariant, StartsAlone, At
      <4>2. run.status # "NONE"
        BY <1>0 DEF RecordInvariant, StartsAlone, At
      <4>3. ASSUME Exists', NEW u \in Tasks, Starts(u)' PROVE u = t
        BY <1>1, <1>2, <4>1, <4>3 DEF Starts, Others
      <4>. QED  BY <1>0, <1>1, <1>2, <4>1, <4>2, <4>3 DEF StartsAlone, Others, At
    <3>2. CASE ~Starts(t)
      <4>1. ~Starts(t)'
        BY <1>0, <1>4, <3>2 DEF Starts
      <4>. QED  BY <1>0, <1>1, <1>2, <4>1, StartIsOver DEF RecordInvariant
    <3>. QED  BY <3>1, <3>2
  <2>2. \A u \in Tasks : task'[u].pc \notin {"marked", "configured"} \/ task'[u] = task[u]
    BY <1>2, <1>4 DEF Others
  <2>3. Dialled' /\ AboutToDial'
    BY <1>0, <1>1, <2>2, RowKept DEF RecordInvariant
  <2>. QED  BY <2>1, <2>3
<1>. QED
  BY <1>0, <1>1, <1>3, <1>4, DriveMoves DEF Driving

\* The row is on record before the task has what it will dial, and the task has it.
LEMMA MarkRecords ==
    ASSUME TypeOK, RecordInvariant, NEW t \in Tasks, MarkRunning(t)
    PROVE  StartsAlone' /\ Dialled' /\ AboutToDial'
<1>0. segments' = segments /\ task[t].pc = "claimed" /\ run \in RunRow
  BY TypeParts DEF MarkRunning, At
<1>1. Others(t)
  BY DriveMoves DEF Drive
<1>2. CASE ~(Exists /\ run.status # "CANCELLED")
  <2>1. run' = run /\ task'[t].pc = "idle"
    BY <1>2, LeaveMoves DEF MarkRunning
  <2>2. Exists <=> Exists'
    BY <2>1 DEF Exists
  <2>. QED  BY <1>0, <1>1, <2>1, <2>2, Finishing
<1>3. CASE Exists /\ run.status # "CANCELLED"
  <2>1. run' = [run EXCEPT !.status = "RUNNING", !.prompts = FrozenPrompts(task[t].kind)]
    BY <1>3 DEF MarkRunning
  <2>2. /\ run'.status = "RUNNING" /\ run'.models = run.models /\ run'.demo = run.demo
        /\ run'.prompts = FrozenPrompts(task[t].kind)
    BY <1>0, <2>1 DEF RunRow
  <2>3. /\ task'[t].pc = "marked" /\ task'[t].segment.models = run.models
        /\ task'[t].segment.prompts = FrozenPrompts(task[t].kind)
        /\ task'[t].segment.scripted = run.demo
    BY <1>3, MarkMoves
  <2>4. StartsAlone'
    <3>1. ~Starts(t)'
      BY <2>3 DEF Starts
    <3>. QED  BY <1>0, <1>1, <1>3, <2>2, <3>1, StartIsOver DEF RecordInvariant
  <2>5. Dialled'
    <3>1. CASE task[t].kind = "start"
      <4>1. segments = {}
        BY <1>0, <1>3, <3>1 DEF RecordInvariant, StartsAlone, Starts
      <4>. QED  BY <1>0, <4>1 DEF Dialled
    <3>2. CASE task[t].kind # "start"
      <4>1. run'.prompts = run.prompts
        BY <2>2, <3>2 DEF FrozenPrompts
      <4>. QED  BY <1>0, <1>3, <2>2, <4>1 DEF RecordInvariant, Dialled
    <3>. QED  BY <3>1, <3>2
  <2>6. AboutToDial'
    <3>1. \A u \in Tasks \ {t} : task'[u].pc \notin Driving
      BY <1>0, <1>1, OthersWait DEF RecordInvariant, Others, Driving
    <3>2. ASSUME NEW u \in Tasks, task'[u].pc = "marked" \/ task'[u].pc = "configured"
          PROVE  u = t
      BY <3>1, <3>2 DEF Driving
    <3>. QED  BY <2>2, <2>3, <3>2 DEF AboutToDial, At
  <2>. QED  BY <2>4, <2>5, <2>6
<1>. QED  BY <1>2, <1>3

\* The routing is the row's own, or a saved one that is not the row's yet.
LEMMA ConfigureRecords ==
    ASSUME TypeOK, RecordInvariant, NEW t \in Tasks, Configure(t)
    PROVE  StartsAlone' /\ Dialled' /\ AboutToDial'
<1>0. segments' = segments /\ task[t].pc = "marked" /\ run \in RunRow /\ saved \in Settings
  BY TypeParts DEF Configure, At, Plain
<1>1. Others(t)
  BY DriveMoves DEF Drive
<1>2. \/ /\ run' = [run EXCEPT !.status = IF @ = "CANCELLED" THEN @ ELSE "FAILED"]
         /\ Step(t, "told") /\ Exists
      \/ Configured(t)
      \/ Dies(t)
  BY DEF Configure, Configured
<1>3. CASE /\ run' = [run EXCEPT !.status = IF @ = "CANCELLED" THEN @ ELSE "FAILED"]
           /\ Step(t, "told") /\ Exists
  <2>1. task'[t].pc = "told"
    BY <1>3, StepMoves DEF Driving
  <2>2. /\ run'.models = run.models /\ run'.prompts = run.prompts /\ run'.demo = run.demo
        /\ run'.status \in {"CANCELLED", "FAILED"}
    BY <1>0, <1>3 DEF RunRow
  <2>. QED  BY <1>0, <1>1, <1>3, <2>1, <2>2, Finishing
<1>4. CASE Dies(t)
  <2>1. task'[t].pc = "idle" /\ run' = run
    BY <1>4, LeaveMoves DEF Dies
  <2>2. Exists <=> Exists'
    BY <2>1 DEF Exists
  <2>. QED  BY <1>0, <1>1, <2>1, <2>2, Finishing
<1>5. CASE Configured(t)
  <2>1. /\ task'[t].pc = "configured"
        /\ task'[t].segment.models = Routing(task[t].segment.models)
        /\ task'[t].segment.prompts = task[t].segment.prompts
        /\ task'[t].segment.scripted = Scripted(task[t].segment.scripted)
    BY <1>5, ConfigureMoves
  <2>2. /\ run'.status = run.status /\ run'.models = run.models /\ run'.prompts = run.prompts
        /\ run.demo => run'.demo
        /\ Exists /\ Scripted(task[t].segment.scripted) => run'.demo
    BY <1>0, <1>5 DEF Configured, RunRow, Scripted
  <2>3. Exists <=> Exists'
    BY <2>2 DEF Exists
  <2>4. StartsAlone'
    <3>1. ~Starts(t)'
      BY <2>1 DEF Starts
    <3>. QED  BY <1>0, <1>1, <2>2, <2>3, <3>1, StartIsOver DEF RecordInvariant
  <2>5. Dialled'
    BY <1>0, <2>2, <2>3 DEF RecordInvariant, Dialled
  <2>6. AboutToDial'
    <3>1. \A u \in Tasks \ {t} : task'[u].pc \notin Driving
      BY <1>0, <1>1, OthersWait DEF RecordInvariant, Others, Driving
    <3>2. ASSUME NEW u \in Tasks, task'[u].pc = "marked" \/ task'[u].pc = "configured"
          PROVE  u = t
      BY <3>1, <3>2 DEF Driving
    <3>3. ASSUME Exists
          PROVE  /\ task[t].segment.models = run.models
                 /\ task[t].segment.prompts = run.prompts
      BY <1>0, <3>3 DEF RecordInvariant, AboutToDial, At
    <3>4. ASSUME Exists
          PROVE  /\ task'[t].segment.models # "unset"
                 /\ run'.models \in {"unset", task'[t].segment.models}
      BY <1>0, <2>1, <2>2, <3>3, <3>4, HostAssumption DEF Routing
    <3>. QED  BY <2>1, <2>2, <2>3, <3>2, <3>3, <3>4 DEF AboutToDial, At
  <2>. QED  BY <2>4, <2>5, <2>6
<1>. QED  BY <1>2, <1>3, <1>4, <1>5

\* The row takes the routing that is dialled, and never a second one.
LEMMA RecordRecords ==
    ASSUME TypeOK, RecordInvariant, NEW t \in Tasks, Record(t)
    PROVE  StartsAlone' /\ Dialled' /\ AboutToDial'
<1>0. task[t].pc = "configured" /\ run \in RunRow
  BY TypeParts DEF Record, At
<1>1. Others(t)
  BY DriveMoves DEF Drive
<1>2. CASE Dies(t) /\ segments' = segments
  <2>1. task'[t].pc = "idle" /\ run' = run
    BY <1>2, LeaveMoves DEF Dies
  <2>2. Exists <=> Exists'
    BY <2>1 DEF Exists
  <2>. QED  BY <1>0, <1>1, <1>2, <2>1, <2>2, Finishing
<1>3. CASE /\ run' = IF Exists THEN [run EXCEPT !.models = task[t].segment.models] ELSE run
           /\ Step(t, "graph")
           /\ segments' = segments \cup {task[t].segment}
  <2>1. task'[t].pc = "graph"
    BY <1>3, StepMoves DEF Driving
  <2>2. run'.status = run.status /\ run'.prompts = run.prompts /\ run'.demo = run.demo
    BY <1>0, <1>3 DEF RunRow
  <2>3. Exists <=> Exists'
    BY <2>2 DEF Exists
  <2>4. StartsAlone'
    <3>1. ~Starts(t)'
      BY <2>1 DEF Starts
    <3>. QED  BY <1>0, <1>1, <2>2, <2>3, <3>1, StartIsOver DEF RecordInvariant
  <2>5. Dialled'
    <3>. SUFFICES ASSUME Exists PROVE Dialled'
      BY <2>3 DEF Dialled
    <3>1. /\ task[t].segment.models # "unset"
          /\ run.models \in {"unset", task[t].segment.models}
          /\ task[t].segment.prompts = run.prompts
          /\ task[t].segment.scripted => run.demo
      BY <1>0 DEF RecordInvariant, AboutToDial, At
    <3>2. run'.models = task[t].segment.models
      BY <1>0, <1>3 DEF RunRow
    <3>. QED  BY <1>3, <2>2, <2>3, <3>1, <3>2 DEF RecordInvariant, Dialled
  <2>6. AboutToDial'
    <3>1. \A u \in Tasks \ {t} : task'[u].pc \notin Driving
      BY <1>0, <1>1, OthersWait DEF RecordInvariant, Others, Driving
    <3>. QED  BY <2>1, <3>1 DEF AboutToDial, At, Driving
  <2>. QED  BY <2>4, <2>5, <2>6
<1>. QED  BY <1>2, <1>3 DEF Record

LEMMA DriveRecords ==
    ASSUME TypeOK, RecordInvariant, NEW t \in Tasks, Drive(t)
    PROVE  StartsAlone' /\ Dialled' /\ AboutToDial'
<1>0. Others(t) /\ run \in RunRow /\ task[t] \in TaskRow
  BY DriveMoves, TypeParts
<1>1. CASE RunGraph(t)
  <2>1. task'[t].pc = "stopped" /\ UNCHANGED <<run, segments>> /\ task[t].pc = "graph"
    BY <1>1, GraphMoves DEF RunGraph, At
  <2>2. Exists <=> Exists'
    BY <2>1 DEF Exists
  <2>. QED  BY <1>0, <2>1, <2>2, Finishing
<1>2. CASE Persist(t)
  <2>1. segments' = segments /\ task[t].pc = "stopped"
    BY <1>2 DEF Persist, At
  <2>2. task'[t].pc \in {"told", "idle"}
    BY <1>2, StepMoves, LeaveMoves DEF Persist, Dies, Driving
  <2>3. CASE run' = run
    <3>1. Exists <=> Exists'
      BY <2>3 DEF Exists
    <3>. QED  BY <1>0, <2>1, <2>2, <2>3, <3>1, Finishing
  <2>4. CASE run' # run
    <3>1. OutcomeStatus(task[t].outcome) \in Active \cup Ended
      BY <1>0, OutcomeStatusType DEF TaskRow
    <3>2. /\ Exists
          /\ run'.models = run.models /\ run'.prompts = run.prompts /\ run'.demo = run.demo
          /\ run'.status = OutcomeStatus(task[t].outcome)
      BY <1>0, <1>2, <2>4 DEF Persist, Dies, RunRow
    <3>3. run'.status # "NONE"
      BY <3>1, <3>2 DEF Active, Ended
    <3>. QED  BY <1>0, <2>1, <2>2, <3>2, <3>3, Finishing
  <2>. QED  BY <2>3, <2>4
<1>3. CASE Announce(t)
  <2>1. task'[t].pc = "idle" /\ UNCHANGED <<run, segments>> /\ task[t].pc = "told"
    BY <1>3, LeaveMoves DEF Announce, At
  <2>2. Exists <=> Exists'
    BY <2>1 DEF Exists
  <2>. QED  BY <1>0, <2>1, <2>2, Finishing
<1>. QED
  BY <1>1, <1>2, <1>3, ClaimRecords, MarkRecords, ConfigureRecords, RecordRecords DEF Drive

\* A launch or its end touches neither the row nor the history.
LEMMA LaunchRecords ==
    ASSUME TypeOK, RecordInvariant, Launch \/ Boot \/ Quit \/ ShellDies \/ WatchShell
    PROVE  StartsAlone' /\ Dialled' /\ AboutToDial'
<1>1. UNCHANGED <<run, segments>> /\ (task' = task \/ task' = NoTasks)
  BY DEF Launch, Boot, SeedUser, SeedProject, LayOut, MarkDemo, SeedDemo, Quit, ShellDies,
         WatchShell, Ends
<1>2. CASE task' = task
  BY <1>1, <1>2 DEF RecordInvariant, StartsAlone, Dialled, AboutToDial, Exists, Starts, At
<1>3. CASE task' = NoTasks
  <2>1. \A t \in Tasks : task'[t].pc = "idle"
    BY <1>3 DEF NoTasks, Idle
  <2>2. Exists <=> Exists'
    BY <1>1 DEF Exists
  <2>3. Dialled' /\ AboutToDial'
    BY <1>1, <2>1, <2>2, RowKept DEF RecordInvariant
  <2>4. StartsAlone'
    BY <1>1, <2>1 DEF RecordInvariant, StartsAlone, Starts, At
  <2>. QED  BY <2>3, <2>4
<1>. QED  BY <1>1, <1>2, <1>3

\* The window makes the row, resumes what has a plan or a draft, and deletes.
LEMMA AskRecords ==
    ASSUME TypeOK, RecordInvariant, Ask
    PROVE  StartsAlone' /\ Dialled' /\ AboutToDial'
<1>0. run \in RunRow
  BY TypeParts
<1>1. CASE CreateRun
  <2>1. run.status = "NONE" /\ segments' = segments /\ Dispatched("start")
    BY <1>1 DEF CreateRun
  <2>2. segments = {} /\ \A t \in Tasks : task[t].pc = "idle"
    BY <2>1 DEF RecordInvariant, StartsAlone, At
  <2>3. run'.status = "PENDING" /\ run'.planned = FALSE /\ run'.drafted = FALSE
    BY <1>1, NoRunType DEF CreateRun, NoRun
  <2>4. PICK t \in Tasks : task'[t].pc = "queued" /\ \A u \in Tasks \ {t} : task'[u] = task[u]
    BY <2>1, DispatchMoves DEF Kinds
  <2>5. \A u \in Tasks \ {t} : task'[u].pc = "idle"
    BY <2>2, <2>4
  <2>6. ASSUME NEW u \in Tasks, Starts(u)' PROVE u = t
    BY <2>5, <2>6 DEF Starts
  <2>7. StartsAlone'
    BY <2>1, <2>2, <2>3, <2>5, <2>6 DEF StartsAlone, At
  <2>8. Dialled' /\ AboutToDial'
    BY <2>1, <2>2, <2>4, <2>5 DEF Dialled, AboutToDial, At
  <2>. QED  BY <2>7, <2>8
<1>2. CASE \E kind \in {"resume_plan", "rework"} : Resume(kind)
  <2>1. PICK kind \in {"resume_plan", "rework"} : Resume(kind)
    BY <1>2
  <2>2. Exists /\ (run.planned \/ run.drafted) /\ segments' = segments /\ Dispatched(kind)
    BY <2>1 DEF Resume
  <2>3. /\ run'.status = "RUNNING" /\ run'.models = run.models
        /\ run'.prompts = run.prompts /\ run'.demo = run.demo
    BY <1>0, <2>1 DEF Resume, RunRow
  <2>4. PICK t \in Tasks : /\ task'[t].pc = "queued" /\ task'[t].kind = kind
                           /\ \A u \in Tasks \ {t} : task'[u] = task[u]
    BY <2>2, DispatchMoves DEF Kinds
  <2>5. \A u \in Tasks : ~Starts(u)
    BY <2>2 DEF RecordInvariant, StartsAlone
  <2>6. \A u \in Tasks : ~Starts(u)'
    BY <2>4, <2>5 DEF Starts
  <2>7. StartsAlone'
    BY <2>3, <2>6 DEF StartsAlone
  <2>8. \A u \in Tasks : task'[u].pc \notin {"marked", "configured"} \/ task'[u] = task[u]
    BY <2>4
  <2>9. Dialled' /\ AboutToDial'
    BY <2>2, <2>3, <2>8, RowKept DEF RecordInvariant
  <2>. QED  BY <2>7, <2>9
<1>3. CASE DeleteRun
  <2>1. run'.status = "DELETED"
    BY <1>3, NoRunType DEF DeleteRun, RunRow
  <2>. QED  BY <2>1, NoRowSaid DEF Exists, NoRow
<1>4. CASE CancelRun \/ ApproveReport
  <2>1. /\ Exists /\ UNCHANGED <<task, segments>>
        /\ run'.status \in {"CANCELLED", "COMPLETED"} /\ run'.models = run.models
        /\ run'.prompts = run.prompts /\ run'.demo = run.demo
        /\ run'.planned = run.planned /\ run'.drafted = run.drafted
    BY <1>0, <1>4 DEF CancelRun, ApproveReport, RunRow, process, Exists, Active, NoRow
  <2>2. Dialled' /\ AboutToDial'
    BY <2>1, RowKept DEF RecordInvariant
  <2>3. StartsAlone'
    BY <2>1 DEF RecordInvariant, StartsAlone, Starts, At
  <2>. QED  BY <2>2, <2>3
<1>5. CASE ChangeKey \/ \E s \in Settings : SaveSettings(s)
  <2>1. UNCHANGED <<run, task, segments>>
    BY <1>5 DEF ChangeKey, SaveSettings, process
  <2>. QED
    BY <2>1 DEF RecordInvariant, StartsAlone, Dialled, AboutToDial, Exists, Starts, At
<1>. QED  BY <1>1, <1>2, <1>3, <1>4, <1>5 DEF Ask

LEMMA RecordStep == TypeOK /\ RecordInvariant /\ [Next]_vars => RecordInvariant'
<1>. SUFFICES ASSUME TypeOK, RecordInvariant, [Next]_vars PROVE RecordInvariant'
  OBVIOUS
<1>1. OneDriver'
  BY OneDriverStep DEF RecordInvariant
<1>2. StartsAlone' /\ Dialled' /\ AboutToDial'
  <2>1. CASE UNCHANGED vars
    BY <2>1 DEF RecordInvariant, StartsAlone, Dialled, AboutToDial, Exists, Starts, At, vars, process
  <2>. QED  BY <2>1, DriveRecords, LaunchRecords, AskRecords DEF Next
<1>. QED  BY <1>1, <1>2 DEF RecordInvariant

\* "The row records what actually ran": whatever was saved, launched as or
\* switched between two segments of a run, for any number of both.
THEOREM RowRecordsRun == Spec => []RowSaysWhatRan
<1>1. Init => RecordInvariant
  <2>. SUFFICES ASSUME Init PROVE RecordInvariant
    OBVIOUS
  <2>1. ~Exists /\ run.status = "NONE" /\ segments = {} /\ \A t \in Tasks : task[t].pc = "idle"
    BY NoRunType DEF Init, Exists, NoRow, NoTasks, Idle
  <2>2. OneDriver
    BY <2>1 DEF Init, OneDriver, Driving
  <2>. QED  BY <2>1, <2>2 DEF RecordInvariant, StartsAlone, Dialled, AboutToDial, At
<1>2. RecordInvariant => RowSaysWhatRan
  BY DEF RecordInvariant, Dialled, RowSaysWhatRan
<1>. QED  BY <1>1, <1>2, TypeInit, TypeStep, RecordStep, PTL DEF Spec

-----------------------------------------------------------------------------
(* The move of the corpus *)

Files == [there : BOOLEAN, ok : BOOLEAN, docs : SUBSET (Legacy \cup Uploads)]

\* Before the layout is recorded, and after.
Before == {"settle", "lock", "back_up", "compare", "remake", "build", "commit"}
After  == {"settled", "retire", "clean", "inspect", "rebuild"}

Apart ==
    /\ mode = "per_project" => layout = "per_project"
    /\ app \in Before => layout = "shared"
    /\ app \in After => layout = "per_project"

SharedHolds == layout = "shared" => library \subseteq Content(legacy)

BackupChecked ==
    /\ app = "settle" => legacy.docs = {}
    /\ app = "build" /\ backup.there /\ backup.ok => backup.docs = legacy.docs

BackupHolds ==
    "backup" \notin slips /\ (layout = "per_project" \/ app = "commit") =>
        library \subseteq Content(backup)

\* The part of the state the documents of the user depend on: which layouts a
\* step belongs to, that the shared file has them before the move is recorded,
\* that a backup which is relied on was compared with it, and that it has them
\* from then on.
LayoutInv == Apart /\ SharedHolds /\ BackupChecked /\ BackupHolds

LEMMA LayoutParts ==
    LayoutTyped <=> /\ layout \in Layouts /\ mode \in Layouts /\ recorded \in BOOLEAN
                    /\ legacy \in Files /\ backup \in Files /\ store \in Files
                    /\ lock \in {"none", "id", "torn"}
                    /\ app \in Moving \cup {"off", "serving"}
BY DEF LayoutTyped, Files

LEMMA LayoutPartsNext ==
    ASSUME layout' \in Layouts, mode' \in Layouts, recorded' \in BOOLEAN,
           legacy' \in Files, backup' \in Files, store' \in Files,
           lock' \in {"none", "id", "torn"}, app' \in Moving \cup {"off", "serving"}
    PROVE  LayoutTyped'
BY DEF LayoutTyped, Files

LEMMA FileTypes ==
    /\ Gone \in Files
    /\ \A docs \in SUBSET (Legacy \cup Uploads) : File(docs) \in Files
    /\ \A f \in Files : /\ [f EXCEPT !.ok = FALSE] \in Files
                        /\ \A docs \in SUBSET (Legacy \cup Uploads) :
                             /\ [f EXCEPT !.docs = docs] \in Files
                             /\ [f EXCEPT !.there = TRUE, !.docs = docs] \in Files
BY DEF Files, Gone, File

LEMMA LayoutTypesStart == LayoutInit => LayoutTyped
<1>. SUFFICES ASSUME LayoutInit PROVE LayoutTyped
  OBVIOUS
<1>1. legacy \in Files /\ backup \in Files /\ store \in Files
  BY FileTypes DEF LayoutInit
<1>. QED  BY <1>1, LayoutParts DEF LayoutInit, Layouts, Moving

LEMMA LayoutTypesStep == LayoutTyped /\ [LayoutNext]_layoutVars => LayoutTyped'
<1>. SUFFICES ASSUME LayoutTyped, [LayoutNext]_layoutVars PROVE LayoutTyped'
  OBVIOUS
<1>0. /\ layout \in Layouts /\ mode \in Layouts /\ recorded \in BOOLEAN
      /\ legacy \in Files /\ backup \in Files /\ store \in Files
      /\ lock \in {"none", "id", "torn"} /\ app \in Moving \cup {"off", "serving"}
  BY LayoutParts
<1>1. CASE UNCHANGED layoutVars
  BY <1>0, <1>1, LayoutPartsNext DEF layoutVars, files
<1>2. CASE LaunchApp \/ QuitApp \/ Refused \/ Crash
  BY <1>0, <1>2, LayoutPartsNext
     DEF LaunchApp, QuitApp, Refused, Crash, Goto, ServeShared, files, Moving, Layouts
<1>3. CASE Move
  <2>1. CASE Settle \/ RemoveEmpty \/ FixProject \/ DieOnTornLock \/ BackUp \/ Commit \/ Retire
    BY <1>0, <2>1, FileTypes, LayoutPartsNext
       DEF Settle, RemoveEmpty, FixProject, DieOnTornLock, BackUp, Commit, Retire,
           Goto, files, Moving, Layouts
  <2>2. CASE Compare \/ Remake \/ Build \/ Clean
    BY <1>0, <2>2, FileTypes, LayoutPartsNext
       DEF Compare, Remake, Build, Clean, Goto, ServeShared, files, Moving, Layouts
  <2>3. CASE Inspect
    BY <1>0, <2>3, FileTypes, LayoutPartsNext
       DEF Inspect, Goto, ServeShared, Moving, Layouts
  <2>4. CASE Rebuild
    BY <1>0, <2>4, LayoutPartsNext DEF Rebuild, Goto, ServeShared, Moving, Layouts
  <2>. QED  BY <1>3, <2>1, <2>2, <2>3, <2>4 DEF Move
<1>4. ASSUME NEW doc \in Legacy \cup Uploads, Upload(doc) \/ Delete(doc)
      PROVE  LayoutTyped'
  <2>1. Served.docs \in SUBSET (Legacy \cup Uploads)
    BY <1>0 DEF Served, Files
  <2>2. PICK docs \in SUBSET (Legacy \cup Uploads) : Rewrite(docs)
    BY <1>4, <2>1 DEF Upload, Delete
  <2>3. legacy' \in Files /\ store' \in Files
    BY <1>0, <2>2, FileTypes, ZenonT(60) DEF Rewrite, Served
  <2>. QED  BY <1>0, <1>4, <2>3, LayoutPartsNext DEF Upload, Delete
<1>5. CASE Damage
  BY <1>0, <1>5, FileTypes, LayoutPartsNext DEF Damage, Spoiled
<1>. QED
  BY <1>1, <1>2, <1>3, <1>4, <1>5 DEF LayoutNext

\* Files, lock and record stay within their vocabulary.
THEOREM LayoutIsTyped == LayoutSpec => []LayoutTyped
<1>. QED  BY LayoutTypesStart, LayoutTypesStep, PTL DEF LayoutSpec

-----------------------------------------------------------------------------

LEMMA LayoutStarts == LayoutInit => LayoutInv
BY DEF LayoutInit, LayoutInv, Apart, SharedHolds, BackupChecked, BackupHolds, Before, After,
       Content, Gone, File

\* A step of the process that leaves the user's documents and the shared file
\* alone.
LEMMA MoveKeeps == LayoutTyped /\ LayoutInv /\ Move => LayoutInv'
<1>. SUFFICES ASSUME LayoutTyped, LayoutInv, Move PROVE LayoutInv'
  OBVIOUS
<1>0. legacy \in Files /\ backup \in Files /\ store \in Files /\ layout \in Layouts
  BY LayoutParts
<1>. USE DEF LayoutInv, Apart, SharedHolds, BackupChecked, BackupHolds, Before, After, Goto,
             user, files
<1>1. CASE Settle
  <2>1. library = {} /\ layout' = "per_project"
    BY <1>0, <1>1 DEF Settle, Content
  <2>. QED  BY <1>1, <2>1 DEF Settle
<1>2. CASE RemoveEmpty \/ FixProject \/ DieOnTornLock \/ BackUp \/ Retire
  BY <1>2 DEF RemoveEmpty, FixProject, DieOnTornLock, BackUp, Retire, Content
<1>3. CASE Compare
  BY <1>3 DEF Compare, ServeShared, Exact
<1>4. CASE Remake
  BY <1>4 DEF Remake
<1>5. CASE Build
  BY <1>0, <1>5 DEF Build, ServeShared, Exact, Content, Files
<1>6. CASE Commit
  BY <1>6 DEF Commit
<1>7. CASE Clean
  BY <1>7 DEF Clean
<1>8. CASE Inspect
  <2>1. Content(backup') = Content(backup)
    BY <1>0, <1>8, FileTypes DEF Inspect, Content, File, Files
  <2>. QED  BY <1>8, <2>1 DEF Inspect, ServeShared, Content
<1>9. CASE Rebuild
  BY <1>9 DEF Rebuild, ServeShared
<1>. QED
  BY <1>1, <1>2, <1>3, <1>4, <1>5, <1>6, <1>7, <1>8, <1>9 DEF Move

LEMMA LayoutStep == LayoutTyped /\ LayoutInv /\ [LayoutNext]_layoutVars => LayoutInv'
<1>. SUFFICES ASSUME LayoutTyped, LayoutInv, [LayoutNext]_layoutVars PROVE LayoutInv'
  OBVIOUS
<1>0. legacy \in Files /\ backup \in Files /\ store \in Files /\ layout \in Layouts
      /\ mode \in Layouts
  BY LayoutParts
<1>. USE DEF LayoutInv, Apart, SharedHolds, BackupChecked, BackupHolds, Before, After, Goto,
             user, files
<1>1. CASE UNCHANGED layoutVars
  BY <1>1 DEF layoutVars, Content
<1>2. CASE LaunchApp \/ QuitApp \/ Refused \/ Crash
  BY <1>0, <1>2 DEF LaunchApp, QuitApp, Refused, Crash, ServeShared, Layouts, Content
<1>3. CASE Move
  BY <1>3, MoveKeeps
<1>4. ASSUME NEW doc \in Legacy \cup Uploads, Upload(doc)  PROVE LayoutInv'
  <2>1. app = "serving" /\ UNCHANGED <<layout, backup, app, mode>> /\ slips \subseteq slips'
    BY <1>4 DEF Upload, Editable
  <2>2. CASE layout = "shared"
    <3>1. /\ mode = "shared" /\ legacy.ok /\ library' = library \cup {doc}
          /\ legacy' = [legacy EXCEPT !.there = TRUE, !.docs = legacy.docs \cup {doc}]
      BY <1>0, <1>4, <2>2 DEF Upload, Editable, Rewrite, Served, Layouts
    <3>2. library' \subseteq Content(legacy')
      BY <1>0, <2>2, <3>1 DEF Content, Files
    <3>. QED  BY <2>1, <2>2, <3>2
  <2>3. CASE layout # "shared"
    <3>1. library' = library
      BY <1>4, <2>3 DEF Upload
    <3>. QED  BY <2>1, <2>3, <3>1 DEF Content
  <2>. QED  BY <2>2, <2>3
<1>5. ASSUME NEW doc \in Legacy \cup Uploads, Delete(doc)  PROVE LayoutInv'
  <2>1. /\ app = "serving" /\ UNCHANGED <<layout, backup, app, mode, slips>>
        /\ library' = library \ {doc}
    BY <1>5 DEF Delete, Editable
  <2>2. CASE layout = "shared"
    <3>1. /\ mode = "shared" /\ legacy.ok
          /\ legacy' = [legacy EXCEPT !.there = TRUE, !.docs = legacy.docs \ {doc}]
      BY <1>0, <1>5, <2>2 DEF Delete, Editable, Rewrite, Served, Layouts
    <3>2. library' \subseteq Content(legacy')
      BY <1>0, <2>1, <2>2, <3>1 DEF Content, Files
    <3>. QED  BY <2>1, <2>2, <3>2
  <2>3. CASE layout # "shared"
    BY <2>1, <2>3 DEF Content
  <2>. QED  BY <2>2, <2>3
<1>6. CASE Damage
  <2>1. UNCHANGED <<layout, legacy, app, mode, library>> /\ slips \subseteq slips'
    BY <1>6 DEF Damage
  <2>2. "backup" \notin slips' /\ (layout = "per_project" \/ app = "commit") => backup' = backup
    BY <1>6 DEF Damage
  <2>3. backup' = backup \/ ~backup'.there \/ ~backup'.ok
    BY <1>0, <1>6 DEF Damage, Spoiled, Gone, Files
  <2>. QED  BY <2>1, <2>2, <2>3 DEF Content
<1>. QED
  BY <1>1, <1>2, <1>3, <1>4, <1>5, <1>6 DEF LayoutNext

\* Whatever a crash or a refusal leaves, at any step of any launch, every
\* document the user kept is where the next launch reads or rebuilds it from.
THEOREM MoveKeepsDocuments == LayoutSpec => []DocumentsSurvive
<1>1. LayoutTyped /\ LayoutInv => DocumentsSurvive
  BY LayoutParts DEF LayoutInv, SharedHolds, BackupHolds, DocumentsSurvive, Layouts
<1>. QED  BY <1>1, LayoutIsTyped, LayoutStarts, LayoutStep, PTL DEF LayoutSpec

=============================================================================
