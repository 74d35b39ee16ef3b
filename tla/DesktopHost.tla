----------------------------- MODULE DesktopHost -----------------------------
(***************************************************************************)
(* The desktop app's own half of a research run.  A shell spawns a sidecar *)
(* process and either may die first; the sidecar seeds its database at     *)
(* every launch, then answers the window's requests and drives the run in  *)
(* asyncio tasks of its own, with no broker behind them: what is not in    *)
(* the database when the process ends is gone.  The handlers are the       *)
(* server's (RunLifecycle has their races) and are one step each here.     *)
(***************************************************************************)
EXTENDS Naturals

CONSTANTS Tasks,        \* asyncio tasks that may be pending for the run at a time
          Settings,     \* what the user may have saved: routing and prompt overrides
          Keyless,      \* those that route every role to a provider without a key
          SkipPlanGate, \* research_runs.skip_plan_gate
          MaxLaunches,  \* bound: launches of the app
          MaxReviews,   \* bound: reviews that resume the run
          MaxEdits      \* bound: changes of the settings or of the keychain

ASSUME HostAssumption ==
    /\ SkipPlanGate \in BOOLEAN
    /\ "unset" \notin Settings /\ Keyless \subseteq Settings
    /\ MaxLaunches \in Nat /\ MaxReviews \in Nat /\ MaxEdits \in Nat

VARIABLES
    shell,    \* is the launching process there?
    host,     \* where this launch of the sidecar is
    fake,     \* this launch's --fake switch
    disk,     \* what launches leave: the user, the default project, the demo and its marker
    saved,    \* routing.json and the user's preferences
    key,      \* does the keychain or the environment have the provider's key?
    run,      \* the run's row
    thread,   \* where its checkpoint stands
    inFlight, \* is the run in _runs_in_flight?
    task,     \* the tasks that were dispatched
    segments, \* history: the configurations the graph was invoked under
    lost,     \* history: has a dispatched task gone without an outcome?
    count     \* launches, reviews and edits so far

process == <<shell, host, fake, inFlight, task>>
vars == <<process, disk, saved, key, run, thread, segments, lost, count>>

-----------------------------------------------------------------------------

Stages    == {"off", "user", "project", "layout", "demo", "marked", "serving"}
Active    == {"PENDING", "RUNNING", "AWAITING_PLAN", "AWAITING_REVIEW"}
Ended     == {"COMPLETED", "FAILED", "CANCELLED"}
NoRow     == {"NONE", "DELETED"}
Kinds     == {"start", "resume_plan", "rework"}
Positions == {"none", "mid", "plan_gate", "review_gate", "ended"}
Outcomes  == {"awaiting_plan", "awaiting_approval", "failed"}

\* Between `_runs_in_flight.add` and the `finally` that discards the run.
Driving   == {"claimed", "marked", "configured", "graph", "stopped", "told"}

NoSegment == [models |-> "unset", prompts |-> "unset", scripted |-> FALSE]
Idle      == [pc |-> "idle", kind |-> "start", segment |-> NoSegment, outcome |-> "failed"]
NoRun     == [status |-> "NONE", demo |-> FALSE, models |-> "unset", prompts |-> "unset",
              planned |-> FALSE, drafted |-> FALSE, artifact |-> FALSE]

Exists == run.status \notin NoRow
At(t, pc) == task[t].pc = pc
Step(t, pc) == task' = [task EXCEPT ![t].pc = pc]

\* The `finally` of _drive_run.
Leave(t) == task' = [task EXCEPT ![t] = Idle] /\ inFlight' = FALSE

NoTasks == [t \in Tasks |-> Idle]
Pending == \E t \in Tasks : ~At(t, "idle")

-----------------------------------------------------------------------------
(* The launch *)

Launch ==
    /\ host = "off" /\ ~shell
    /\ count.launches < MaxLaunches
    /\ shell' = TRUE
    /\ host' = "user"
    /\ fake' \in BOOLEAN
    /\ count' = [count EXCEPT !.launches = @ + 1]
    /\ UNCHANGED <<inFlight, task, disk, saved, key, run, thread, segments, lost>>

SeedUser ==
    /\ host = "user"
    /\ disk' = [disk EXCEPT !.user = TRUE]
    /\ host' = "project"
    /\ UNCHANGED <<shell, fake, inFlight, task, saved, key, run, thread, segments, lost, count>>

\* A transaction of its own: a launch that died before it is made good by the next.
SeedProject ==
    /\ host = "project"
    /\ disk' = [disk EXCEPT !.project = TRUE]
    /\ host' = "layout"
    /\ UNCHANGED <<shell, fake, inFlight, task, saved, key, run, thread, segments, lost, count>>

\* The corpus is laid out, or the app runs on the shared file: CorpusLayout.
LayOut ==
    /\ host = "layout"
    /\ host' = IF disk.marked THEN "serving" ELSE "demo"
    /\ UNCHANGED <<shell, fake, inFlight, task, disk, saved, key, run, thread, segments, lost, count>>

\* Marked before it is made; a marker or a demo that fails does not block the boot.
MarkDemo ==
    /\ host = "demo"
    /\ \/ host' = "marked" /\ disk' = [disk EXCEPT !.marked = TRUE]
       \/ host' = "serving" /\ disk' = disk
    /\ UNCHANGED <<shell, fake, inFlight, task, saved, key, run, thread, segments, lost, count>>

SeedDemo ==
    /\ host = "marked"
    /\ disk' \in {disk, [disk EXCEPT !.demos = @ + 1]}
    /\ host' = "serving"
    /\ UNCHANGED <<shell, fake, inFlight, task, saved, key, run, thread, segments, lost, count>>

\* The sidecar ends where it is: its tasks and its memory go, the rows stay.
\* A graph that was running stays at its last checkpoint.
Ends ==
    /\ host' = "off"
    /\ task' = NoTasks /\ inFlight' = FALSE
    /\ lost' = (lost \/ Pending)
    /\ thread' \in {thread} \cup (IF \E t \in Tasks : At(t, "graph") THEN {"mid"} ELSE {})
    /\ UNCHANGED <<fake, disk, saved, key, run, segments, count>>

\* The window is closed (RunEvent::Exit kills the sidecar and waits for it), or
\* a sidecar that failed takes its shell down with the user's patience.
Quit == host # "off" /\ shell /\ shell' = FALSE /\ Ends

\* The shell is killed; nobody tells the sidecar.
ShellDies ==
    /\ shell /\ shell' = FALSE
    /\ UNCHANGED <<host, fake, inFlight, task, disk, saved, key, run, thread, segments, lost, count>>

\* _watch_shell: two seconds later at most, os._exit.
WatchShell == host # "off" /\ ~shell /\ shell' = shell /\ Ends

-----------------------------------------------------------------------------
(* The window's requests *)

Serving == host = "serving" /\ shell

\* RunDispatcher: asyncio.create_task, right after the handler's commit.
Dispatched(kind) ==
    \E t \in Tasks :
        /\ At(t, "idle")
        /\ task' = [task EXCEPT ![t] = [Idle EXCEPT !.pc = "queued", !.kind = kind]]

CreateRun ==
    /\ Serving
    /\ run.status = "NONE"
    /\ \E demo \in BOOLEAN : run' = [NoRun EXCEPT !.status = "PENDING", !.demo = demo]
    /\ Dispatched("start")
    /\ UNCHANGED <<shell, host, fake, inFlight, disk, saved, key, thread, segments, lost, count>>

\* A review looks at no status; only CANCELLED may not be left.
Resume(kind) ==
    /\ Serving
    /\ Exists /\ run.status # "CANCELLED"
    /\ IF kind = "resume_plan" THEN run.planned ELSE run.drafted
    /\ count.reviews < MaxReviews
    /\ run' = [run EXCEPT !.status = "RUNNING"]
    /\ Dispatched(kind)
    /\ count' = [count EXCEPT !.reviews = @ + 1]
    /\ UNCHANGED <<shell, host, fake, inFlight, disk, saved, key, thread, segments, lost>>

\* The one artifact of a run freezes an approval.
ApproveReport ==
    /\ Serving
    /\ Exists /\ run.status # "CANCELLED" /\ run.drafted /\ ~run.artifact
    /\ run' = [run EXCEPT !.status = "COMPLETED", !.artifact = TRUE]
    /\ UNCHANGED <<process, disk, saved, key, thread, segments, lost, count>>

CancelRun ==
    /\ Serving
    /\ run.status \in Active
    /\ run' = [run EXCEPT !.status = "CANCELLED"]
    /\ UNCHANGED <<process, disk, saved, key, thread, segments, lost, count>>

\* The row and what hangs off it, then the checkpoint, if that works.
DeleteRun ==
    /\ Serving
    /\ run.status \in Ended
    /\ run' = [NoRun EXCEPT !.status = "DELETED"]
    /\ thread' \in {"none", thread}
    /\ UNCHANGED <<process, disk, saved, key, segments, lost, count>>

Edited == count.edits < MaxEdits /\ count' = [count EXCEPT !.edits = @ + 1]

\* PUT /models/routing and PUT /settings/preferences.
SaveSettings(s) ==
    /\ Serving /\ Edited
    /\ saved # s /\ saved' = s
    /\ UNCHANGED <<process, disk, key, run, thread, segments, lost>>

\* PUT and DELETE /desktop/keys/{provider}.
ChangeKey ==
    /\ Serving /\ Edited
    /\ key' = ~key
    /\ UNCHANGED <<process, disk, saved, run, thread, segments, lost>>

-----------------------------------------------------------------------------
(* _drive_run, from one await that matters to the next *)

Alive == host = "serving"

\* Mutant: a refused task discards the run on its way out.
ClaimOrDiscard(t) ==
    /\ Alive /\ At(t, "queued")
    /\ IF inFlight THEN Leave(t) /\ lost' = TRUE
                   ELSE Step(t, "claimed") /\ inFlight' = TRUE /\ lost' = lost
    /\ UNCHANGED <<shell, host, fake, disk, saved, key, run, thread, segments, count>>

\* A run that is driven already drops the task, whatever it was sent for.
Claim(t) ==
    /\ Alive /\ At(t, "queued")
    /\ IF inFlight
       THEN /\ task' = [task EXCEPT ![t] = Idle]
            /\ inFlight' = inFlight /\ lost' = TRUE
       ELSE Step(t, "claimed") /\ inFlight' = TRUE /\ lost' = lost
    /\ UNCHANGED <<shell, host, fake, disk, saved, key, run, thread, segments, count>>

\* Mutant: a resumed run takes the prompts of the day.
PromptsOfTheDay(kind) == saved

\* freeze_prompt_overrides at the start; the row's own snapshot from then on.
FrozenPrompts(kind) == IF kind = "start" THEN saved ELSE run.prompts

\* The row is loaded and moved to RUNNING in one transaction, with the prompts
\* it will run under; the routing it may already carry is read with it.
MarkRunning(t) ==
    LET prompts == FrozenPrompts(task[t].kind)
    IN  /\ Alive /\ At(t, "claimed")
        /\ IF Exists /\ run.status # "CANCELLED"
           THEN /\ run' = [run EXCEPT !.status = "RUNNING", !.prompts = prompts]
                /\ task' = [task EXCEPT ![t].pc = "marked",
                               ![t].segment = [models |-> run.models, prompts |-> prompts,
                                               scripted |-> run.demo]]
                /\ inFlight' = inFlight
           ELSE Leave(t) /\ run' = run
        /\ UNCHANGED <<shell, host, fake, disk, saved, key, thread, segments, lost, count>>

\* An exception that nobody turns into an outcome: only the log has it.
Dies(t) == Leave(t) /\ lost' = TRUE /\ run' = run

\* is_scripted: the requester asked for a demo, or the whole host is one.
Scripted(demo) == demo \/ fake

\* The run's own routing, or else the saved one over the MODEL_* defaults.
Routing(models) == IF models = "unset" THEN saved ELSE models

NeedsKey(models) == models \notin Keyless /\ ~key

\* sidecar_run_config and apply_demo_rule: a routing the row carries wins over
\* the saved one, a scripted run is stamped as one, and a real run without a
\* key is refused and says so on the row.
Configure(t) ==
    LET s        == task[t].segment
        models   == Routing(s.models)
        scripted == Scripted(s.scripted)
    IN  /\ Alive /\ At(t, "marked")
        /\ \/ /\ ~scripted /\ NeedsKey(models) /\ Exists
              /\ run' = [run EXCEPT !.status = IF @ = "CANCELLED" THEN @ ELSE "FAILED"]
              /\ Step(t, "told")
              /\ UNCHANGED <<inFlight, lost>>
           \/ /\ scripted \/ ~NeedsKey(models)
              /\ Exists \/ scripted = s.scripted
              /\ run' = IF Exists THEN [run EXCEPT !.demo = @ \/ scripted] ELSE run
              /\ task' = [task EXCEPT ![t].pc = "configured",
                             ![t].segment = [@ EXCEPT !.models = models, !.scripted = scripted]]
              /\ UNCHANGED <<inFlight, lost>>
           \/ /\ ~Exists
              /\ IF scripted THEN scripted # s.scripted ELSE NeedsKey(models)
              /\ Dies(t)
        /\ UNCHANGED <<shell, host, fake, disk, saved, key, thread, segments, count>>

\* The row records what is about to be dialled; then the corpus is opened,
\* which may raise, and the graph is invoked.
Record(t) ==
    /\ Alive /\ At(t, "configured")
    /\ \/ /\ Exists \/ run.models = task[t].segment.models
          /\ run' = IF Exists THEN [run EXCEPT !.models = task[t].segment.models] ELSE run
          /\ Step(t, "graph")
          /\ segments' = segments \cup {task[t].segment}
          /\ UNCHANGED <<inFlight, lost>>
       \/ /\ Dies(t)
          /\ segments' = segments
    /\ UNCHANGED <<shell, host, fake, disk, saved, key, thread, count>>

\* Where one invocation leaves the checkpoint, and what it returns: an
\* exception is a failed outcome on this host, wherever the graph was.
Stop(at, outcome) == [at |-> at, outcome |-> outcome]
Drafted == {Stop("review_gate", "awaiting_approval"), Stop("ended", "failed"), Stop("mid", "failed")}
Stops(kind) ==
    {Stop(thread, "failed")} \cup
    IF kind = "start" /\ ~SkipPlanGate
    THEN {Stop("plan_gate", "awaiting_plan"), Stop("ended", "failed"), Stop("mid", "failed")}
    ELSE IF kind = "start" \/ thread \in {"plan_gate", "review_gate", "mid"} THEN Drafted
    ELSE {}

RunGraph(t) ==
    /\ Alive /\ At(t, "graph")
    /\ \E stop \in Stops(task[t].kind) :
         /\ thread' = stop.at
         /\ task' = [task EXCEPT ![t].pc = "stopped", ![t].outcome = stop.outcome]
    /\ UNCHANGED <<shell, host, fake, inFlight, disk, saved, key, run, segments, lost, count>>

OutcomeStatus(outcome) ==
    CASE outcome = "awaiting_plan"     -> "AWAITING_PLAN"
      [] outcome = "awaiting_approval" -> "AWAITING_REVIEW"
      [] outcome = "failed"            -> "FAILED"

\* Mutant: a failed outcome has nothing to write.
PersistFruitful(t) ==
    /\ Alive /\ At(t, "stopped") /\ Exists
    /\ run' = IF task[t].outcome = "failed" \/ run.status = "CANCELLED" THEN run
              ELSE [run EXCEPT !.status = OutcomeStatus(task[t].outcome),
                        !.planned = @ \/ task[t].outcome = "awaiting_plan",
                        !.drafted = @ \/ task[t].outcome = "awaiting_approval"]
    /\ Step(t, "told")
    /\ UNCHANGED <<shell, host, fake, inFlight, disk, saved, key, thread, segments, lost, count>>

\* persist_outcome on the row as it is now: a cancelled run keeps its status,
\* and a run that is gone, or a database that refuses, is an exception.
Persist(t) ==
    LET outcome == task[t].outcome
    IN  /\ Alive /\ At(t, "stopped")
        /\ \/ /\ Exists
              /\ run' = IF run.status = "CANCELLED" THEN run
                        ELSE [run EXCEPT !.status = OutcomeStatus(outcome),
                                  !.planned = @ \/ outcome = "awaiting_plan",
                                  !.drafted = @ \/ outcome = "awaiting_approval"]
              /\ Step(t, "told")
              /\ UNCHANGED <<inFlight, lost>>
           \/ Dies(t)
        /\ UNCHANGED <<shell, host, fake, disk, saved, key, thread, segments, count>>

\* The closing event goes out, and only then is the run free to be driven again.
Announce(t) ==
    /\ Alive /\ At(t, "told")
    /\ Leave(t)
    /\ UNCHANGED <<shell, host, fake, disk, saved, key, run, thread, segments, lost, count>>

Drive(t) ==
    Claim(t) \/ MarkRunning(t) \/ Configure(t) \/ Record(t) \/ RunGraph(t) \/ Persist(t) \/ Announce(t)

-----------------------------------------------------------------------------
(* The specification *)

\* A fresh data directory, or one that an earlier version left.
Init ==
    /\ shell = FALSE /\ host = "off" /\ fake = FALSE
    /\ \E there \in BOOLEAN :
         disk = [user |-> there, project |-> there, marked |-> FALSE, demos |-> 0]
    /\ saved \in Settings /\ key \in BOOLEAN
    /\ run = NoRun /\ thread = "none"
    /\ inFlight = FALSE /\ task = NoTasks
    /\ segments = {} /\ lost = FALSE
    /\ count = [launches |-> 0, reviews |-> 0, edits |-> 0]

Boot == SeedUser \/ SeedProject \/ LayOut \/ MarkDemo \/ SeedDemo

Ask ==
    \/ CreateRun \/ ApproveReport \/ CancelRun \/ DeleteRun \/ ChangeKey
    \/ \E kind \in {"resume_plan", "rework"} : Resume(kind)
    \/ \E s \in Settings : SaveSettings(s)

Next ==
    \/ Launch \/ Boot \/ Quit \/ ShellDies \/ WatchShell
    \/ Ask
    \/ \E t \in Tasks : Drive(t)

\* A live event loop runs its tasks.  Nobody has to launch the app, ask it for
\* anything or close it.
Spec ==
    /\ Init /\ [][Next]_vars
    /\ \A t \in Tasks : WF_vars(Drive(t))

-----------------------------------------------------------------------------
(* Properties *)

Segments == [models : Settings \cup {"unset"}, prompts : Settings \cup {"unset"},
             scripted : BOOLEAN]

\* Types of the whole state.
TypeOK ==
    /\ shell \in BOOLEAN /\ host \in Stages /\ fake \in BOOLEAN
    /\ disk \in [user : BOOLEAN, project : BOOLEAN, marked : BOOLEAN, demos : Nat]
    /\ saved \in Settings /\ key \in BOOLEAN
    /\ run \in [status : NoRow \cup Active \cup Ended, demo : BOOLEAN,
                models : Settings \cup {"unset"}, prompts : Settings \cup {"unset"},
                planned : BOOLEAN, drafted : BOOLEAN, artifact : BOOLEAN]
    /\ thread \in Positions
    /\ inFlight \in BOOLEAN
    /\ task \in [Tasks -> [pc : Driving \cup {"idle", "queued"}, kind : Kinds,
                           segment : Segments, outcome : Outcomes]]
    /\ segments \subseteq Segments
    /\ lost \in BOOLEAN
    /\ count \in [launches : Nat, reviews : Nat, edits : Nat]

\* However many decisions arrive while a run is driven, one task drives it, and
\* the set says so exactly as long.
OneDriver ==
    /\ \A t, u \in Tasks : task[t].pc \in Driving /\ task[u].pc \in Driving => t = u
    /\ inFlight <=> \E t \in Tasks : task[t].pc \in Driving

\* "The row records what actually ran": whatever was saved, launched as or
\* switched between two segments of a run, all of them dialled the routing and
\* the prompts its row names, and a scripted one left the row a demo.
RowSaysWhatRan ==
    Exists => \A s \in segments :
        /\ s.models = run.models /\ s.prompts = run.prompts
        /\ s.scripted => run.demo

\* A run that is RUNNING comes to rest while the app is up, unless one of its
\* tasks was dropped, died or went with the process.
RunningSettlesUnlessLost == run.status = "RUNNING" ~> (run.status # "RUNNING" \/ lost)

=============================================================================
