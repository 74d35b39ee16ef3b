---------------------------- MODULE ResearchGraph ----------------------------
(***************************************************************************)
(* The research graph of one run: planner, plan gate, research rounds,     *)
(* critic, contradiction detector, synthesizer, review gate.  A node runs  *)
(* on the checkpointed AgentState and replaces it when it returns; only    *)
(* inside the executor do steps of several actors interleave, the tasks of *)
(* one round, which share a semaphore and the budget guard.                *)
(***************************************************************************)
EXTENDS Naturals, Sequences, FiniteSets, SequencesExt, Filtering

CONSTANTS Proposal,       \* the tasks a planner that succeeds proposes, in order
          MinPrice,       \* the least an answered model call costs
          MaxPrice,       \* the most an answered model call costs
          CostCap,        \* max_cost_per_session_usd, 0 for none
          OtherCap,       \* whether a token or a time limit is set
          MaxParallel,    \* max_parallel_tasks
          MaxCriticLoops, \* max_critic_loops
          MinSources,     \* min_sources_per_task
          MaxRounds,      \* tool rounds a task may spend (_DEPTH_LIMITS)
          MaxPages,       \* pages a task may open (_DEPTH_LIMITS)
          SkipPlanGate,   \* skip_plan_gate
          Selected,       \* whether the run answers from selected files only
          MaxItems,       \* bound: evidence items of one submission
          MaxReworks      \* bound: reworks a reviewer asks for

ASSUME GraphAssumption ==
    /\ Proposal \in Seq(Range(Proposal))
    /\ {MinPrice, MaxPrice, CostCap, MaxParallel, MaxCriticLoops, MinSources, MaxRounds, MaxPages,
        MaxItems, MaxReworks} \subseteq Nat
    /\ {OtherCap, SkipPlanGate, Selected} \subseteq BOOLEAN

VARIABLES
    node,    \* the node that runs, or the gate or end the graph stands at
    state,   \* AgentState as of the last checkpoint
    work,    \* what each task of the running round has done so far
    spent,   \* the round's _BudgetGuard
    told,    \* what the tasks of the round have added up themselves, all together
    late,    \* whether the token or the time limit has been crossed
    billed,  \* history: what every answered call has cost
    lost     \* history: what nodes that raised had spent, and failing claim checks

vars == <<node, state, work, spent, told, late, billed, lost>>

-----------------------------------------------------------------------------
(* Vocabulary *)

TaskIds == Range(Proposal)

\* The slots of the executor's semaphore.
Slots == IF MaxParallel = 0 THEN 1 ELSE MaxParallel

Prices == MinPrice..MaxPrice

\* A call whose provider fails costs nothing that could be recorded.
Charges == Prices \cup {0}

NoDraft == [version |-> 0, conflicts |-> FALSE]

Ungrounded == [status |-> "none", validated |-> NoDraft]

Idle    == [pc |-> "idle", rounds |-> 0, pages |-> 0, seen |-> FALSE, items |-> 0]
Waiting == [Idle EXCEPT !.pc = "waiting"]

\* Tasks that hold a slot, and those with a model call under way.
Holding  == {t \in TaskIds : work[t].pc \in {"looping", "calling", "asking", "asking again"}}
InFlight == {t \in TaskIds : work[t].pc \in {"calling", "asking", "asking again"}}

\* _pending: never passed, and not yet out of retries.
Pending(s) == {t \in Range(s.tasks) : t \notin s.passed /\ s.retries[t] < MaxCriticLoops}

Gathered(s, t) == Among(s.evidence, {e \in Range(s.evidence) : e.task = t})

\* _over_budget and exceeded(): 0 is no limit.
OverCap(cost) == CostCap # 0 /\ cost >= CostCap
OverBudget(s) == OverCap(s.cost) \/ late

\* A node returns s and the graph goes to n; a round starts with a fresh guard.
Advance(s, n) ==
    /\ state' = s
    /\ node' = n
    /\ work' = [t \in TaskIds |->
                  IF n = "executor" /\ t \in Pending(s) THEN Waiting ELSE Idle]
    /\ spent' = s.cost
    /\ told' = 0
    /\ UNCHANGED late

\* A node that answers for calls worth c.
Billed(c) == billed' = billed + c /\ UNCHANGED lost

\* A node that answers for calls worth c and has forgotten others.
BilledBut(c, forgotten) == billed' = billed + c + forgotten /\ lost' = lost + forgotten

\* A node raises: its state update, and what it spent, are gone.
Raised(c) ==
    /\ node' = "raised"
    /\ work' = [t \in TaskIds |-> Idle]
    /\ spent' = state.cost
    /\ told' = 0
    /\ billed' = billed + c
    /\ lost' = lost + told + c
    /\ UNCHANGED <<state, late>>

-----------------------------------------------------------------------------
(* Planner and plan gate *)

RouteAfterPlanner(s) ==
    IF s.error # "none" \/ s.tasks = <<>> THEN "failer"
    ELSE IF SkipPlanGate THEN "executor"
    ELSE "plan_gate"

PlannerReturns(tasks, error, cost) ==
    LET s == [state EXCEPT !.tasks = tasks, !.error = error, !.cost = @ + cost]
    IN  Advance(s, RouteAfterPlanner(s)) /\ Billed(cost)

\* One retry, but none for a quota error, which will not recover.
Planner ==
    /\ node = "planner"
    /\ \/ \E tasks \in {Proposal, <<>>} :
              \/ \E c \in Prices : PlannerReturns(tasks, "none", c)
              \/ \E c \in Charges, d \in Prices : PlannerReturns(tasks, "none", c + d)
       \/ PlannerReturns(<<>>, "planner", 0)
       \/ \E c, d \in Charges : PlannerReturns(<<>>, "planner", c + d)

RouteAfterPlanGate(s) == IF s.tasks = <<>> THEN "failer" ELSE "executor"

\* Resumed with the reviewer's tasks, or with none of its own: any payload will do.
PlanGate ==
    /\ node = "plan_gate"
    /\ \E included \in SUBSET TaskIds :
          LET s == [state EXCEPT !.tasks = Among(@, included)]
          IN  Advance(s, RouteAfterPlanGate(s))
    /\ UNCHANGED <<billed, lost>>

-----------------------------------------------------------------------------
(* A research round *)

Exceeded == OverCap(spent)

\* Mutant: a task that is done keeps its slot.
StartTaskUnreleased(t) ==
    /\ node = "executor"
    /\ work[t].pc = "waiting"
    /\ \A i, j \in DOMAIN Proposal :
          i < j /\ Proposal[j] = t => work[Proposal[i]].pc # "waiting"
    /\ Cardinality(Holding \cup {u \in TaskIds : work[u].pc = "done"}) < Slots
    /\ work' = [work EXCEPT ![t].pc = IF Exceeded THEN "done" ELSE "looping"]
    /\ UNCHANGED <<node, state, spent, told, late, billed, lost>>

\* Slots are handed out in the order of the tasks; a round whose budget is gone
\* dispatches no more of them.
StartTask(t) ==
    /\ node = "executor"
    /\ work[t].pc = "waiting"
    /\ \A i, j \in DOMAIN Proposal :
          i < j /\ Proposal[j] = t => work[Proposal[i]].pc # "waiting"
    /\ Cardinality(Holding) < Slots
    /\ work' = [work EXCEPT ![t].pc = IF Exceeded THEN "done" ELSE "looping"]
    /\ UNCHANGED <<node, state, spent, told, late, billed, lost>>

\* The tool loop is over and nothing was submitted: ask for the evidence
\* directly, if anything was fetched and the budget allows.
Concluded(w, guard) ==
    [w EXCEPT !.pc = IF w.seen /\ ~OverCap(guard) THEN "asking" ELSE "done"]

\* Mutant: the budget is looked at when a task is dispatched and not again.
ThinkUnguarded(t) ==
    /\ work[t].pc = "looping"
    /\ work' = [work EXCEPT ![t] =
                  IF @.rounds = MaxRounds \/ @.pages >= MaxPages
                  THEN Concluded(@, spent) ELSE [@ EXCEPT !.pc = "calling"]]
    /\ UNCHANGED <<node, state, spent, told, late, billed, lost>>

\* The head of the tool loop: check, and call the model in the same turn.
Think(t) ==
    /\ work[t].pc = "looping"
    /\ work' = [work EXCEPT ![t] =
                  IF @.rounds = MaxRounds \/ Exceeded \/ @.pages >= MaxPages
                  THEN Concluded(@, spent) ELSE [@ EXCEPT !.pc = "calling"]]
    /\ UNCHANGED <<node, state, spent, told, late, billed, lost>>

\* Bill one call, once: to the task's own sum and to the guard.
Charge(t, c, w) ==
    /\ work' = [work EXCEPT ![t] = w]
    /\ spent' = spent + c
    /\ told' = told + c
    /\ Billed(c)
    /\ UNCHANGED <<node, state, late>>

\* The model answers: it submits, calls tools, or says something else, which
\* ends the loop.  A tool that fails is an observation like any other.
Answer(t) ==
    /\ work[t].pc = "calling"
    /\ \E c \in Prices :
          \/ \E k \in 0..MaxItems : Charge(t, c, [work[t] EXCEPT !.pc = "done", !.items = k])
          \/ Charge(t, c, Concluded(work[t], spent + c))
          \/ \E opened \in 0..1, read \in BOOLEAN :
                Charge(t, c, [work[t] EXCEPT !.pc = "looping", !.rounds = @ + 1,
                                             !.pages = @ + opened, !.seen = @ \/ read])

\* A model call that raises takes the node with it: its siblings are cancelled
\* and waited for, and none of their spending is recorded.
CallFails(t) ==
    /\ work[t].pc = "calling"
    /\ Raised(0)

\* Mutant: the task does not add the forced calls to what it reports.
ForcedSubmitUntold(t) ==
    /\ work[t].pc \in {"asking", "asking again"}
    /\ \E c \in Charges, k \in 0..MaxItems :
          LET again == k = 0 /\ work[t].pc = "asking" /\ ~OverCap(spent + c)
          IN  /\ c = 0 => k = 0
              /\ work' = [work EXCEPT ![t] = [@ EXCEPT !.items = k,
                             !.pc = IF again THEN "asking again" ELSE "done"]]
              /\ spent' = spent + c
              /\ Billed(c)
              /\ UNCHANGED <<node, state, told, late>>

\* _forced_submit: two mechanisms, each charged once; an error is no answer.
ForcedSubmit(t) ==
    /\ work[t].pc \in {"asking", "asking again"}
    /\ \E c \in Charges, k \in 0..MaxItems :
          LET again == k = 0 /\ work[t].pc = "asking" /\ ~OverCap(spent + c)
          IN  /\ c = 0 => k = 0
              /\ Charge(t, c, [work[t] EXCEPT !.items = k,
                                              !.pc = IF again THEN "asking again" ELSE "done"])

Fresh(s, t) == [i \in 1..work[t].items |-> [task |-> t, round |-> s.round + 1]]

\* Mutant: this round's evidence goes to the end of the list.
MergedAppending(s) ==
    Among(s.evidence, {e \in Range(s.evidence) : work[e.task].pc = "idle"})
        \o FlattenSeq([i \in DOMAIN s.tasks |-> Fresh(s, s.tasks[i])])

\* In task order: what a task found this round replaces what it had, and a task
\* that was not researched keeps its own.
Merged(s) ==
    FlattenSeq([i \in DOMAIN s.tasks |->
        LET t == s.tasks[i]
        IN  IF work[t].pc = "idle" THEN Gathered(s, t) ELSE Fresh(s, t)])

\* Every task of the round is done (at once, in a round without tasks).
ExecutorReturns ==
    /\ node = "executor"
    /\ \A t \in TaskIds : work[t].pc \in {"idle", "done"}
    /\ Advance([state EXCEPT !.evidence = Merged(state), !.round = @ + 1,
                             !.sourcesSeen = @ \/ \E t \in TaskIds : work[t].seen,
                             !.cost = @ + told],
               "critic")
    /\ UNCHANGED <<billed, lost>>

-----------------------------------------------------------------------------
(* Critic *)

\* Mutant: a draft is attempted whatever was found.
RouteAfterCriticUnguarded(s) ==
    IF OverBudget(s) THEN "failer"
    ELSE IF Pending(s) # {} THEN "executor"
    ELSE "contradiction_detector"

RouteAfterCritic(s) ==
    IF OverBudget(s) THEN "failer"
    ELSE IF Pending(s) # {} THEN "executor"
    ELSE IF s.evidence = <<>> THEN "failer"
    ELSE "contradiction_detector"

\* Every pending task is graded by a call of its own, but for those whose
\* evidence is below the floor; no verdict, or no answer, is a failure.
Critic ==
    /\ node = "critic"
    /\ LET pending == Pending(state)
           graded  == {t \in pending : MinSources = 0 \/ Len(Gathered(state, t)) >= MinSources}
       IN  \E passed \in SUBSET graded :
              \E cost \in (Cardinality(passed) * MinPrice)..(Cardinality(graded) * MaxPrice) :
                  LET s == [state EXCEPT
                              !.passed = @ \cup passed,
                              !.retries = [t \in TaskIds |->
                                  IF t \in pending \ passed THEN @[t] + 1 ELSE @[t]],
                              !.cost = @ + cost]
                  IN  Advance(s, RouteAfterCritic(s)) /\ Billed(cost)

-----------------------------------------------------------------------------
(* Contradictions, synthesis and review *)

\* Fewer than two sources cannot conflict; a detector that fails finds nothing.
ContradictionDetector ==
    /\ node = "contradiction_detector"
    /\ \E c \in Charges, found \in BOOLEAN :
          /\ Len(state.evidence) < 2 => c = 0 /\ ~found
          /\ found => c \in Prices
          /\ Advance([state EXCEPT !.cost = @ + c, !.conflicts = found], "synthesizer")
          /\ Billed(c)

\* Mutant: a check that could not be made is let through.
GroundingRefusalLenient(s) == Selected /\ s.grounding.status = "no_evidence"

\* _grounding_refusal: the draft is not the one that was found grounded.
GroundingRefusal(s) ==
    /\ Selected
    /\ s.grounding.status # "complete" \/ s.grounding.validated # s.draft

RouteAfterSynthesizer(s) == IF GroundingRefusal(s) THEN "failer" ELSE "hitl_gate"

\* What ground() may come to; it checks the text before the conflicts are put in.
Groundings == IF Selected THEN {"complete", "unmeasured", "no_evidence"} ELSE {"none"}

\* The digest is of the text exactly as presented.
Synthesized(status, cost) ==
    LET draft == [version |-> state.draft.version + 1, conflicts |-> state.conflicts]
    IN  [state EXCEPT !.draft = draft,
                      !.cost = @ + cost,
                      !.error = IF status \in {"none", "complete"} THEN @ ELSE "grounding",
                      !.grounding = [status |-> status,
                                     validated |-> IF status = "complete" THEN draft
                                                   ELSE NoDraft]]

\* A claim check of whose calls a later one fails reports that it cost nothing;
\* that of a selected-files run keeps its account (_verify_citation_fidelity).
Forgotten(check) == IF Selected \/ check # 0 THEN {0} ELSE Charges

\* The draft, perhaps a repair of its citations, and the check of its claims.
Synthesizer ==
    /\ node = "synthesizer"
    /\ \E draft \in Prices, repair \in Charges, check \in Charges, status \in Groundings :
          LET cost == draft + repair + check
              s    == Synthesized(status, cost)
          IN  /\ Advance(s, RouteAfterSynthesizer(s))
              /\ \E forgotten \in Forgotten(check) : BilledBut(cost, forgotten)

\* The draft's call raises, or the repair's does after the draft was paid for.
SynthesizerFails ==
    /\ node = "synthesizer"
    /\ \E c \in Charges : Raised(c)

\* A gate that finds an ungrounded draft raises instead of pausing; resumed, it
\* finalizes what was approved and sends anything else back.
HitlGate ==
    /\ node = "hitl_gate"
    /\ IF GroundingRefusal(state) THEN Raised(0)
       ELSE \/ Advance(state, "finalizer") /\ Billed(0)
            \/ /\ state.reworks < MaxReworks
               /\ Advance([state EXCEPT !.reworks = @ + 1], "synthesizer")
               /\ Billed(0)

Finalizer ==
    /\ node = "finalizer"
    /\ Advance([state EXCEPT !.final = state.draft], "end")
    /\ Billed(0)

\* _no_research_reason and the last resort of failer_node.
Reason(s) ==
    IF s.error # "none" THEN s.error
    ELSE IF OverBudget(s) THEN "over budget"
    ELSE IF s.tasks = <<>> THEN "no tasks"
    ELSE IF s.evidence # <<>> THEN "retry limit"
    ELSE IF s.sourcesSeen THEN "nothing quoted"
    ELSE "nothing fetched"

Failer ==
    /\ node = "failer"
    /\ Advance([state EXCEPT !.error = Reason(state)], "end")
    /\ Billed(0)

\* The clock runs, and tokens add up, whatever the graph does.
PassLimit ==
    /\ OtherCap /\ ~late
    /\ late' = TRUE
    /\ UNCHANGED <<node, state, work, spent, told, billed, lost>>

-----------------------------------------------------------------------------
(* The specification *)

Init ==
    /\ node = "planner"
    /\ state = [tasks |-> <<>>, evidence |-> <<>>, passed |-> {},
                retries |-> [t \in TaskIds |-> 0], round |-> 0, reworks |-> 0, cost |-> 0,
                sourcesSeen |-> FALSE, conflicts |-> FALSE, draft |-> NoDraft,
                grounding |-> Ungrounded, final |-> NoDraft, error |-> "none"]
    /\ work = [t \in TaskIds |-> Idle]
    /\ spent = 0 /\ told = 0 /\ late = FALSE /\ billed = 0 /\ lost = 0

Research(t) == StartTask(t) \/ Think(t) \/ Answer(t) \/ ForcedSubmit(t)

Run ==
    \/ Planner \/ ExecutorReturns \/ Critic \/ ContradictionDetector
    \/ Synthesizer \/ Finalizer \/ Failer
    \/ \E t \in TaskIds : Research(t)

Next ==
    \/ Run
    \/ PlanGate \/ HitlGate
    \/ SynthesizerFails \/ PassLimit
    \/ \E t \in TaskIds : CallFails(t)

Spec == Init /\ [][Next]_vars

\* Calls return, as every provider client has a timeout; people owe nothing.
FairSpec == Spec /\ WF_vars(Run)

-----------------------------------------------------------------------------
(* Properties *)

Nodes == {"planner", "plan_gate", "executor", "critic", "contradiction_detector",
          "synthesizer", "hitl_gate", "finalizer", "failer", "end", "raised"}

Errors == {"none", "planner", "grounding", "over budget", "no tasks",
           "nothing quoted", "nothing fetched", "retry limit"}

Draft == [version : Nat, conflicts : BOOLEAN]

AgentState ==
    [tasks : Seq(TaskIds), evidence : Seq([task : TaskIds, round : Nat]),
     passed : SUBSET TaskIds, retries : [TaskIds -> 0..MaxCriticLoops],
     round : Nat, reworks : 0..MaxReworks, cost : Nat, sourcesSeen : BOOLEAN,
     conflicts : BOOLEAN, draft : Draft, final : Draft, error : Errors,
     grounding : [status : {"none", "complete", "unmeasured", "no_evidence"},
                  validated : Draft]]

\* The state has the shape AgentState declares, and no task outspends its rounds.
TypeOK ==
    /\ node \in Nodes
    /\ state \in AgentState
    /\ work \in [TaskIds -> [pc : {"idle", "waiting", "looping", "calling", "asking",
                                   "asking again", "done"},
                             rounds : 0..MaxRounds, pages : 0..MaxPages, seen : BOOLEAN,
                             items : 0..MaxItems]]
    /\ {spent, told, billed, lost} \subseteq Nat
    /\ late \in BOOLEAN

\* "Overshoot is bounded by the calls already in flight": whatever the tasks of a
\* round do, every call was begun below the cap, so what was spent and what is
\* under way stay below the cap and one call for each slot (_BudgetGuard).
OvershootBounded ==
    CostCap # 0 /\ (spent # state.cost \/ InFlight # {}) =>
        spent + Cardinality(InFlight) * MaxPrice < CostCap + Slots * MaxPrice

\* "Bill one call, once": the guard and the tasks' own sums agree, and the run's
\* total is what its calls have cost, but for nodes that raised and for the answers a
\* failing claim check has forgotten (charge, _acc).
CostAccounted ==
    /\ spent = state.cost + told
    /\ billed = spent + lost

\* Evidence stands in the order of the plan, in whatever order tasks finish:
\* the synthesizer numbers its citations by it (executor_node's merge).
EvidenceInPlanOrder ==
    \A i, j \in DOMAIN state.evidence : i < j =>
        \E k, l \in DOMAIN state.tasks :
            /\ k <= l
            /\ state.tasks[k] = state.evidence[i].task
            /\ state.tasks[l] = state.evidence[j].task

\* "A run that researched nothing must not reach the synthesizer" and "No retry,
\* resume, fallback or alternate rendering can carry an unmeasured claim to approval":
\* past the critic there is evidence, and a selected-files run stands at its review
\* gate, or is finalized, only with the very text that was found grounded
\* (route_after_plan_gate, route_after_critic, _grounding_refusal).
DraftIsGrounded ==
    /\ node \in {"contradiction_detector", "synthesizer", "hitl_gate", "finalizer"} =>
          state.tasks # <<>> /\ state.evidence # <<>>
    /\ Selected /\ node \in {"hitl_gate", "finalizer"} =>
          state.grounding.status = "complete" /\ state.grounding.validated = state.draft

\* A graph that runs comes to a gate, to its end, or raises.
ComesToRest ==
    [](node \notin {"plan_gate", "hitl_gate", "end", "raised"} =>
        <>(node \in {"plan_gate", "hitl_gate", "end", "raised"}))

=============================================================================
