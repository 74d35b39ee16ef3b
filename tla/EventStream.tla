----------------------------- MODULE EventStream -----------------------------
(***************************************************************************)
(* The event stream of one run.  The worker writes every pipeline event    *)
(* through a sink that commits a row of agent_logs and then publishes it.  *)
(* The page of a run fetches its status and opens an EventSource for it:   *)
(* the server subscribes to the live channel, replays the durable backlog  *)
(* and then tails the channel, and the EventSource reconnects when the     *)
(* stream ends or the network drops it.  The page hangs up for good at a   *)
(* terminal event, and at the gate it believes the run is parked at; a     *)
(* change of the fetched status opens another EventSource, which starts    *)
(* from nothing.  Pages do not disturb each other, so one stands for all.  *)
(***************************************************************************)
EXTENDS Naturals, Sequences, FiniteSets, SequencesExt

CONSTANTS Emitters,   \* tasks of the worker that may write an event at the same time
          MayFail,    \* whether the worker may die and a publish may raise
          MaxId,      \* bound: ids handed out by agent_logs
          MaxResumes, \* bound: decisions that resume the run
          MaxDrops    \* bound: connections lost or refused, and pages loaded again

ASSUME StreamAssumption ==
    /\ MayFail \in BOOLEAN
    /\ MaxId \in Nat /\ MaxResumes \in Nat /\ MaxDrops \in Nat
    /\ "nobody" \notin Emitters

VARIABLES
    status,    \* the run's row
    queued,    \* is a task that resumes the run in the broker?
    driver,    \* the task that drives the run: in the graph, settled, unwinding or gone
    filed,     \* the gates whose plan or report is in the tables
    outcome,   \* the event a settled run has still to announce, or "none"
    failure,   \* what is left to do about an exception of a task that is gone
    writer,    \* holder of the sink's write_lock
    emitter,   \* what each emitter is writing
    nextId,    \* the sequence agent_logs draws ids from
    log,       \* the committed rows, in id order
    sent,      \* history: ids that were published
    stream,    \* one listener's connection
    page,      \* the status the page has fetched, and whether it is to ask again
    view,      \* ids the listener has shown since it last started afresh
    resumes,   \* history: decisions that resumed the run
    drops      \* history: connections lost or refused, and pages loaded again

worker == <<driver, filed, outcome, failure, writer, emitter, nextId, log, sent>>
broker == <<queued, resumes>>
client == <<page, view, drops>>
vars   == <<status, broker, worker, stream, client>>

-----------------------------------------------------------------------------
(* Vocabulary *)

\* The status at which each pause event is the live tail rather than history.
GATE_PARKS_AT == [PLAN_READY |-> "AWAITING_PLAN", HITL_READY |-> "AWAITING_REVIEW"]

Gates        == DOMAIN GATE_PARKS_AT
Parked       == {GATE_PARKS_AT[g] : g \in Gates}
Suspended    == Parked \cup {"COMPLETED", "FAILED", "CANCELLED"}  \* _SUSPENDED_STATUSES
ReplayStop   == {"FAILED"}                                       \* _REPLAY_STOP_EVENTS
TerminalStop == Gates \cup {"FAILED"}                            \* _TERMINAL_EVENTS
EventTypes   == TerminalStop \cup {"agent_log"}

\* An event; id 0 stands for one that has no row.
Event(id, type) == [id |-> id, type |-> type]

Silent == [pc |-> "idle", event |-> Event(0, "agent_log")]
Closed == [pc |-> "closed", after |-> 0, done |-> FALSE, backlog |-> <<>>, live |-> <<>>, seen |-> 0]
HungUp == [Closed EXCEPT !.pc = "hungup"]

\* Mutant: the subscription is opened once the backlog has been replayed.
SubscribedLate == stream.pc = "tail"

Subscribed == stream.pc \in {"subscribed", "replay", "tail"}

\* The channel keeps nothing: only who is subscribed now will receive it.
Published(event) == IF Subscribed THEN [stream EXCEPT !.live = Append(@, event)] ELSE stream

Quiet == \A e \in Emitters : emitter[e].pc = "idle"

-----------------------------------------------------------------------------
(* The sink *)

\* The bound: is there an id for one more row, after those under way?
Room == nextId + Cardinality({e \in Emitters : emitter[e].pc = "queued"}) <= MaxId

\* Who may write: a node's parallel tasks while the graph runs, and the driver
\* itself (any one emitter) for the event that announces the outcome.
BeginWrite(e) ==
    /\ emitter[e].pc = "idle"
    /\ driver = "graph"
    /\ Room
    /\ emitter' = [emitter EXCEPT ![e] = [pc |-> "queued", event |-> Event(0, "agent_log")]]
    /\ UNCHANGED <<status, broker, driver, filed, outcome, failure, writer, nextId, log, sent, stream, client>>

BeginAnnounce(e) ==
    /\ Quiet
    /\ outcome # "none"
    /\ Room
    /\ driver' = "announcing"
    /\ emitter' = [emitter EXCEPT ![e] = [pc |-> "queued", event |-> Event(0, outcome)]]
    /\ outcome' = "none"
    /\ UNCHANGED <<status, broker, filed, failure, writer, nextId, log, sent, stream, client>>

\* `async with write_lock`, then the flush that draws the id.
FlushRow(e) ==
    /\ emitter[e].pc = "queued"
    /\ writer = "nobody"
    /\ writer' = e
    /\ emitter' = [emitter EXCEPT ![e].pc = "flushed", ![e].event.id = nextId]
    /\ nextId' = nextId + 1
    /\ UNCHANGED <<status, broker, driver, filed, outcome, failure, log, sent, stream, client>>

\* Mutant: the lock spans the write and not the publish.
CommitAndUnlock(e) ==
    /\ emitter[e].pc = "flushed"
    /\ log' = Append(log, emitter[e].event)
    /\ emitter' = [emitter EXCEPT ![e].pc = "committed"]
    /\ writer' = "nobody"
    /\ UNCHANGED <<status, broker, driver, filed, outcome, failure, nextId, sent, stream, client>>

\* The row is durable before anybody hears of it.
CommitRow(e) ==
    /\ emitter[e].pc = "flushed"
    /\ log' = Append(log, emitter[e].event)
    /\ emitter' = [emitter EXCEPT ![e].pc = "committed"]
    /\ UNCHANGED <<status, broker, driver, filed, outcome, failure, writer, nextId, sent, stream, client>>

\* The driver is done when its announcement is out.
PublishRow(e) ==
    /\ emitter[e].pc = "committed"
    /\ stream' = Published(emitter[e].event)
    /\ sent' = sent \cup {emitter[e].event.id}
    /\ emitter' = [emitter EXCEPT ![e] = Silent]
    /\ writer' = "nobody"
    /\ driver' = IF driver = "announcing" THEN "gone" ELSE driver
    /\ UNCHANGED <<status, broker, filed, outcome, failure, nextId, log, client>>

\* Redis refuses: the sink raises, the node fails, and the fan-out starts no new
\* write while the ones under way land.
PublishFails(e) ==
    /\ MayFail
    /\ emitter[e].pc = "committed"
    /\ emitter' = [emitter EXCEPT ![e] = Silent]
    /\ writer' = "nobody"
    /\ driver' = "unwinding"
    /\ UNCHANGED <<status, broker, filed, outcome, failure, nextId, log, sent, stream, client>>

-----------------------------------------------------------------------------
(* The driver *)

\* The graph stops and persist_outcome commits what it came to, a plan (unless the
\* run skips that gate, or is past it) or a report with it; a run the user stopped
\* keeps its status and says so.
Settle ==
    /\ driver = "graph"
    /\ Quiet
    /\ \/ status = "CANCELLED" /\ outcome' = "FAILED" /\ UNCHANGED <<status, filed>>
       \/ /\ status # "CANCELLED"
          /\ \E gate \in IF filed = {} THEN Gates ELSE {"HITL_READY"} :
                /\ outcome' = gate
                /\ status' = GATE_PARKS_AT[gate]
                /\ filed' = filed \cup {gate}
       \/ status # "CANCELLED" /\ status' = "FAILED" /\ outcome' = "FAILED" /\ UNCHANGED filed
    /\ driver' = "settled"
    /\ UNCHANGED <<broker, failure, writer, emitter, nextId, log, sent, stream, client>>

\* A node or the outcome's transaction raised: the exception leaves execute_run
\* once the writes under way have landed, and the task around it catches it.
Unwind ==
    /\ driver \in {"graph", "unwinding"}
    /\ Quiet
    /\ driver' = "gone"
    /\ failure' = "mark"
    /\ UNCHANGED <<status, broker, filed, outcome, writer, emitter, nextId, log, sent, stream, client>>

\* _mark_run_failed commits FAILED and then publishes an event that has no row.
MarkFailed ==
    /\ failure = "mark"
    /\ status' = IF status = "CANCELLED" THEN status ELSE "FAILED"
    /\ failure' = "publish"
    /\ UNCHANGED <<broker, filed, driver, outcome, writer, emitter, nextId, log, sent, stream, client>>

PublishFailure ==
    /\ failure = "publish"
    /\ stream' = Published(Event(0, "FAILED"))
    /\ failure' = "none"
    /\ UNCHANGED <<status, broker, driver, filed, outcome, writer, emitter, nextId, log, sent, client>>

\* The process dies: a row that was flushed and not committed never existed,
\* and its id is never used.
Crash ==
    /\ MayFail
    /\ driver # "gone"
    /\ driver' = "gone"
    /\ writer' = "nobody"
    /\ emitter' = [e \in Emitters |-> Silent]
    /\ outcome' = "none"
    /\ UNCHANGED <<status, broker, filed, failure, nextId, log, sent, stream, client>>

\* A decision made on this page has it fetch the run again; the page of another
\* browser hears nothing.
Decided == \E here \in BOOLEAN : page' = [page EXCEPT !.due = @ \/ here]

\* A decision on a plan or a report sets the run RUNNING under the same id and
\* queues its task; it looks at no status, though the row refuses to leave
\* CANCELLED.
Resume ==
    /\ filed # {}
    /\ status # "CANCELLED"
    /\ resumes < MaxResumes
    /\ status' = "RUNNING"
    /\ queued' = TRUE
    /\ resumes' = resumes + 1
    /\ Decided
    /\ UNCHANGED <<worker, stream, view, drops>>

\* The report is approved, whatever the status; nothing is published.
ApproveReport ==
    /\ "HITL_READY" \in filed
    /\ status # "CANCELLED"
    /\ status' = "COMPLETED"
    /\ Decided
    /\ UNCHANGED <<broker, worker, stream, view, drops>>

\* The task finds the run free and not stopped, or returns.
TakeTask ==
    /\ queued
    /\ queued' = FALSE
    /\ IF driver = "gone" /\ status # "CANCELLED"
       THEN driver' = "graph" /\ status' = "RUNNING"
       ELSE UNCHANGED <<driver, status>>
    /\ UNCHANGED <<filed, outcome, failure, writer, emitter, nextId, log, sent, resumes, stream, client>>

\* cancel_run publishes nothing itself.
Cancel ==
    /\ status \in Parked \cup {"RUNNING"}
    /\ status' = "CANCELLED"
    /\ Decided
    /\ UNCHANGED <<broker, worker, stream, view, drops>>

-----------------------------------------------------------------------------
(* The listener *)

LastSeen == IF view = <<>> THEN 0 ELSE Last(view)

\* A reconnecting EventSource sends the last id it was given; stream_run reads
\* the run's status while it authorises the request.
Connect ==
    /\ stream.pc = "closed"
    /\ stream' = [Closed EXCEPT !.pc = "authorised", !.after = LastSeen, !.seen = LastSeen,
                                !.done = (status \in Suspended)]
    /\ UNCHANGED <<status, broker, worker, client>>

\* useRun asks again every three seconds while the run is live, and whenever an
\* event or a decision said so.
Fetched == [key |-> status, due |-> (status = "RUNNING")]

\* A status that has changed is a new subscription: a fresh EventSource, which
\* sends no id, under an empty list of events.
Fetch ==
    /\ page.due
    /\ page' = Fetched
    /\ IF page.key = status THEN UNCHANGED <<stream, view>>
       ELSE stream' = Closed /\ view' = <<>>
    /\ UNCHANGED <<status, broker, worker, drops>>

\* The user opens the page anew.
Reload ==
    /\ drops < MaxDrops
    /\ page' = Fetched
    /\ stream' = Closed /\ view' = <<>>
    /\ drops' = drops + 1
    /\ UNCHANGED <<status, broker, worker>>

\* The network drops the connection, and the subscription with it.
Drop ==
    /\ stream.pc \notin {"closed", "hungup"}
    /\ drops < MaxDrops
    /\ stream' = Closed
    /\ drops' = drops + 1
    /\ UNCHANGED <<status, broker, worker, page, view>>

\* An answer other than a stream, to a sign-in that has lapsed for one, ends an
\* EventSource for good.
TurnAway ==
    /\ stream.pc = "closed"
    /\ drops < MaxDrops
    /\ stream' = HungUp
    /\ drops' = drops + 1
    /\ UNCHANGED <<status, broker, worker, page, view>>

\* The rows the client has not seen: ids are in order, so they are the last ones.
Backlog ==
    LET known == {i \in DOMAIN log : log[i].id <= stream.after}
    IN  SubSeq(log, Cardinality(known) + 1, Len(log))

Subscribe ==
    /\ stream.pc = "authorised"
    /\ stream' = [stream EXCEPT !.pc = "subscribed"]
    /\ UNCHANGED <<status, broker, worker, client>>

\* Subscribed before the snapshot: what is published in between is in both.
Snapshot ==
    /\ stream.pc = "subscribed"
    /\ stream' = [stream EXCEPT !.pc = "replay", !.backlog = Backlog]
    /\ UNCHANGED <<status, broker, worker, client>>

\* What the page shows: an event without an id moves no Last-Event-ID.  At a
\* terminal or a gate it fetches the run, for a gate that is past as well.
Show(event) ==
    /\ view' = IF event.id = 0 THEN view ELSE Append(view, event.id)
    /\ page' = [page EXCEPT !.due = @ \/ event.type \in TerminalStop]

\* The page closes its EventSource at a terminal, and at the gate it believes
\* the run is parked at.
HangsUp(event) ==
    \/ event.type = "FAILED"
    \/ event.type \in Gates /\ GATE_PARKS_AT[event.type] = page.key

\* How the connection stands once an event was shown: the page has hung up, the
\* server has ended the response, or it goes on.
After(event, stops, rest) ==
    IF HangsUp(event) THEN HungUp ELSE IF event.type \in stops THEN Closed ELSE rest

\* sse_frames replays the backlog and stops at a true terminal.
Replay ==
    /\ stream.pc = "replay"
    /\ stream.backlog # <<>>
    /\ LET row == Head(stream.backlog)
       IN  /\ Show(row)
           /\ stream' = After(row, ReplayStop,
                              [stream EXCEPT !.backlog = Tail(@), !.seen = row.id])
    /\ UNCHANGED <<status, broker, worker, drops>>

\* Then it ends, for a run that had settled when the request was authorised, or
\* goes on to the live channel.
EndReplay ==
    /\ stream.pc = "replay"
    /\ stream.backlog = <<>>
    /\ stream' = IF stream.done THEN Closed ELSE [stream EXCEPT !.pc = "tail"]
    /\ UNCHANGED <<status, broker, worker, client>>

\* Mutant: the overlap of backlog and channel is shown twice.
FreshAlways(event) == TRUE

\* Already shown out of the backlog?
Fresh(event) == event.id = 0 \/ event.id > stream.seen

TailLive ==
    /\ stream.pc = "tail"
    /\ stream.live # <<>>
    /\ LET event == Head(stream.live)
           rest  == [stream EXCEPT !.live = Tail(@)]
       IN  IF ~Fresh(event)
           THEN stream' = rest /\ UNCHANGED <<page, view>>
           ELSE /\ Show(event)
                /\ stream' = After(event, TerminalStop,
                                  [rest EXCEPT !.seen = IF event.id = 0 THEN @ ELSE event.id])
    /\ UNCHANGED <<status, broker, worker, drops>>

-----------------------------------------------------------------------------
(* The specification *)

Init ==
    /\ status = "RUNNING"
    /\ queued = FALSE /\ resumes = 0
    /\ driver = "graph" /\ filed = {} /\ outcome = "none" /\ failure = "none"
    /\ writer = "nobody" /\ emitter = [e \in Emitters |-> Silent]
    /\ nextId = 1 /\ log = <<>> /\ sent = {}
    /\ stream = Closed /\ page = Fetched /\ view = <<>> /\ drops = 0

Write(e) == FlushRow(e) \/ CommitRow(e) \/ PublishRow(e)

Listen == Connect \/ Subscribe \/ Snapshot \/ Replay \/ EndReplay \/ TailLive

Next ==
    \/ \E e \in Emitters : BeginWrite(e) \/ BeginAnnounce(e) \/ Write(e) \/ PublishFails(e)
    \/ Settle \/ Unwind \/ MarkFailed \/ PublishFailure \/ Crash
    \/ Resume \/ ApproveReport \/ TakeTask \/ Cancel
    \/ Listen \/ Fetch \/ Reload \/ Drop \/ TurnAway

Spec == Init /\ [][Next]_vars

\* Writes under way land, a settled run announces itself, an EventSource that was
\* not closed for good reconnects, the server keeps sending, and the page's
\* requests for the run are answered; when the graph stops is up to the research.
FairSpec ==
    /\ Spec
    /\ \A e \in Emitters : WF_vars(Write(e))
    /\ WF_vars(\E e \in Emitters : BeginAnnounce(e))
    /\ WF_vars(driver = "unwinding" /\ Unwind)
    /\ WF_vars(MarkFailed \/ PublishFailure)
    /\ WF_vars(Listen)
    /\ WF_vars(Fetch)

-----------------------------------------------------------------------------
(* Properties *)

EventRecord == [id : Nat, type : EventTypes]

\* Every variable holds what the code puts there.
TypeOK ==
    /\ status \in Suspended \cup {"RUNNING"}
    /\ driver \in {"graph", "settled", "announcing", "unwinding", "gone"}
    /\ queued \in BOOLEAN /\ resumes \in Nat
    /\ filed \subseteq Gates
    /\ outcome \in TerminalStop \cup {"none"}
    /\ failure \in {"none", "mark", "publish"}
    /\ writer \in Emitters \cup {"nobody"}
    /\ emitter \in [Emitters -> [pc : {"idle", "queued", "flushed", "committed"},
                                 event : EventRecord]]
    /\ nextId \in Nat
    /\ log \in Seq(EventRecord)
    /\ sent \subseteq Nat
    /\ stream \in [pc : {"closed", "authorised", "subscribed", "replay", "tail", "hungup"},
                   after : Nat, done : BOOLEAN,
                   backlog : Seq(EventRecord), live : Seq(EventRecord), seen : Nat]
    /\ page \in [key : Suspended \cup {"RUNNING"}, due : BOOLEAN]
    /\ view \in Seq(Nat)
    /\ drops \in Nat

\* "Publishing out of order would let a reconnecting client skip an event": over any
\* number of connections the page shows events in id order and none twice, and its
\* cursor is honest: every row up to the last one shown has been shown, but for rows
\* that were never published (agent_log_sink, sse_frames, stream_run).
CursorIsHonest ==
    /\ \A i, j \in DOMAIN view : i < j => view[i] < view[j]
    /\ \A i \in DOMAIN log : log[i].id < LastSeen /\ log[i].id \in sent =>
          \E j \in DOMAIN view : view[j] = log[i].id

\* Every published row reaches a page, or the page hangs up and stays so.  Drops,
\* ended responses and statuses that change between the authorisation, the
\* subscription and the snapshot hold no row back from a page that has not hung
\* up (useRunStream, stream_run, sse_frames).  Where it hangs up it may miss rows:
\* those after the first of several reports, until the status it fetches changes,
\* and those after a FAILED that a resumed run has behind it, at which every later
\* subscription ends again.
EveryRowArrives ==
    \A id \in 1..MaxId :
        id \in sent ~> (\/ \E i \in DOMAIN view : view[i] = id
                       \/ [](stream.pc = "hungup"))

=============================================================================
