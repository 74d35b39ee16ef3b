------------------------- MODULE ResearchGraphProofs -------------------------
(***************************************************************************)
(* Proofs about ResearchGraph, for any plan, limits and prices: the state   *)
(* keeps its shape and the evidence the order of the plan; what a round     *)
(* overshoots its budget by is bounded by its slots, and no spending is     *)
(* counted twice or forgotten; and a draft rests on evidence, and is the    *)
(* text that was found grounded where only selected files may be used.      *)
(* And about two of its nodes: a quotation that leaves a task was read in    *)
(* it, and the check of citations strips just what it should.                *)
(***************************************************************************)
EXTENDS ResearchGraph, TaskEvidence, CitationFidelity, SequenceFacts, FiniteSetTheorems, TLAPS

-----------------------------------------------------------------------------
(* Facts about the constants *)

\* The constants are numbers, and no charge is above the highest price.
LEMMA ConstantTypes ==
    /\ CostCap \in Nat /\ MinPrice \in Nat /\ MaxPrice \in Nat /\ Slots \in Nat
    /\ MaxItems \in Nat /\ MaxRounds \in Nat /\ MaxPages \in Nat
    /\ \A c \in Charges : c \in Nat /\ c <= MaxPrice
    /\ \A c \in Prices : c \in Charges
  BY GraphAssumption DEF Slots, Charges, Prices

\* A plan has finitely many tasks.
LEMMA TasksFinite == IsFiniteSet(TaskIds)
  <1>1. PICK n \in Nat : Proposal \in [1..n -> TaskIds] /\ DOMAIN Proposal = 1..n
    BY GraphAssumption DEF TaskIds
  <1>2. Proposal \in Surjection(1..n, TaskIds)
    BY <1>1 DEF Surjection, TaskIds, Range
  <1> QED
    BY <1>2, FS_NatSurjection DEF ExistsSurjection

\* The sums of what calls may cost are numbers.
LEMMA Sums == /\ Charges \subseteq Nat /\ Prices \subseteq Charges
              /\ \A a, b \in Charges : a + b \in Nat
              /\ \A a, b, d \in Charges : a + b + d \in Nat
BY ConstantTypes

-----------------------------------------------------------------------------
(* The shape of the state, and the order of the evidence *)

Effort == [pc : {"idle", "waiting", "looping", "calling", "asking", "asking again", "done"},
           rounds : 0..MaxRounds, pages : 0..MaxPages, seen : BOOLEAN, items : 0..MaxItems]

Evidence == [task : TaskIds, round : Nat]

\* A call is made with a round and a page to spare.
CallsFit == \A t \in TaskIds :
    work[t].pc = "calling" => work[t].rounds < MaxRounds /\ work[t].pages < MaxPages

InPlanOrder(tasks, evidence) ==
    \A i, j \in DOMAIN evidence : i < j =>
        \E k, l \in DOMAIN tasks :
            k <= l /\ tasks[k] = evidence[i].task /\ tasks[l] = evidence[j].task

\* A plan is still changed only while there is no evidence.
Planned(n, s) ==
    /\ n \in {"planner", "plan_gate"} => s.evidence = <<>>
    /\ InPlanOrder(s.tasks, s.evidence)

PlanInv == TypeOK /\ CallsFit /\ Planned(node, state)

LEMMA PlanParts ==
    ASSUME PlanInv
    PROVE  /\ state \in AgentState /\ node \in Nodes /\ work \in [TaskIds -> Effort]
           /\ spent \in Nat /\ told \in Nat /\ billed \in Nat /\ lost \in Nat /\ late \in BOOLEAN
           /\ state.tasks \in Seq(TaskIds) /\ state.evidence \in Seq(Evidence)
           /\ state.cost \in Nat /\ CallsFit /\ Planned(node, state)
<1>1. TypeOK
  BY DEF PlanInv
<1>2. state \in AgentState
  BY <1>1 DEF TypeOK
<1>3. state.tasks \in Seq(TaskIds) /\ state.evidence \in Seq(Evidence) /\ state.cost \in Nat
  BY <1>2 DEF AgentState, Evidence
<1>. QED  BY <1>1, <1>2, <1>3 DEF PlanInv, TypeOK, Effort

LEMMA NoEffort ==
    Idle \in Effort /\ Waiting \in Effort /\ Idle.pc = "idle" /\ Waiting.pc = "waiting"
<1>1. 0 \in 0..MaxRounds /\ 0 \in 0..MaxPages /\ 0 \in 0..MaxItems
  BY ConstantTypes
<1>. QED  BY <1>1 DEF Idle, Waiting, Effort

\* A node that returns a state of the right shape, in the order of its plan.
LEMMA ReturnPlanned ==
    ASSUME PlanInv, NEW s \in AgentState, NEW n \in Nodes, Planned(n, s), Advance(s, n),
           billed' \in Nat, lost' \in Nat
    PROVE  PlanInv'
<1>1. Idle \in Effort /\ Waiting \in Effort /\ Idle.pc = "idle" /\ Waiting.pc = "waiting"
  BY NoEffort
<1>2. work' \in [TaskIds -> Effort] /\ \A t \in TaskIds : work'[t] \in {Idle, Waiting}
  BY <1>1 DEF Advance
<1>3. CallsFit'
  BY <1>1, <1>2 DEF CallsFit
<1>4. s.cost \in Nat
  BY DEF AgentState
<1>5. state' = s /\ node' = n /\ spent' = s.cost /\ told' = 0 /\ late' = late
  BY DEF Advance
<1>6. {spent', told', billed', lost'} \subseteq Nat /\ late' \in BOOLEAN
  BY <1>4, <1>5, PlanParts
<1>7. TypeOK'
  BY <1>2, <1>5, <1>6 DEF TypeOK, Effort
<1>. QED  BY <1>3, <1>5, <1>7 DEF PlanInv

\* A node that leaves plan and evidence alone keeps their order.
LEMMA SamePlan ==
    ASSUME PlanInv, NEW s, s.tasks = state.tasks, s.evidence = state.evidence,
           NEW n, n \notin {"planner", "plan_gate"}
    PROVE  Planned(n, s)
BY DEF PlanInv, Planned

\* A task that moves stays within its rounds, pages and items.
LEMMA MovePlanned ==
    ASSUME PlanInv, UNCHANGED <<node, state, late>>, NEW t \in TaskIds, NEW w \in Effort,
           work' = [work EXCEPT ![t] = w],
           w.pc = "calling" => w.rounds < MaxRounds /\ w.pages < MaxPages,
           spent' \in Nat, told' \in Nat, billed' \in Nat, lost' \in Nat
    PROVE  PlanInv'
<1>1. work' \in [TaskIds -> Effort] /\ work'[t] = w /\ \A u \in TaskIds \ {t} : work'[u] = work[u]
  BY PlanParts
<1>2. CallsFit'
  BY <1>1, PlanParts DEF CallsFit
<1>3. TypeOK'
  BY <1>1, PlanParts DEF TypeOK, Effort
<1>. QED  BY <1>2, <1>3 DEF PlanInv, Planned

LEMMA ConcludedTyped ==
    ASSUME NEW w \in Effort, NEW guard
    PROVE  Concluded(w, guard) \in Effort /\ Concluded(w, guard).pc # "calling"
BY DEF Concluded, Effort

LEMMA ResearchPlanned ==
    ASSUME PlanInv, NEW t \in TaskIds, Research(t)
    PROVE  PlanInv'
<1>0. /\ work[t] \in Effort /\ spent \in Nat /\ told \in Nat /\ billed \in Nat /\ lost \in Nat
      /\ MaxRounds \in Nat /\ MaxPages \in Nat /\ MaxItems \in Nat
      /\ work[t].pc = "calling" => work[t].rounds < MaxRounds /\ work[t].pages < MaxPages
  BY PlanParts, GraphAssumption DEF CallsFit
<1>1. CASE StartTask(t)
  <2>. DEFINE w == [work[t] EXCEPT !.pc = IF Exceeded THEN "done" ELSE "looping"]
  <2>1. work' = [work EXCEPT ![t] = w] /\ UNCHANGED <<node, state, spent, told, late, billed, lost>>
    BY <1>1, PlanParts DEF StartTask
  <2>2. w \in Effort /\ w.pc # "calling"
    BY <1>0 DEF Effort
  <2>. HIDE DEF w
  <2>. QED  BY <1>0, <2>1, <2>2, MovePlanned
<1>2. CASE Think(t)
  <2>. DEFINE enough == work[t].rounds = MaxRounds \/ Exceeded \/ work[t].pages >= MaxPages
              w == IF enough THEN Concluded(work[t], spent) ELSE [work[t] EXCEPT !.pc = "calling"]
  <2>1. work' = [work EXCEPT ![t] = w] /\ UNCHANGED <<node, state, spent, told, late, billed, lost>>
    BY <1>2, PlanParts DEF Think
  <2>2. w \in Effort /\ (w.pc = "calling" => w.rounds < MaxRounds /\ w.pages < MaxPages)
    <3>1. CASE enough
      BY <1>0, <3>1, ConcludedTyped
    <3>2. CASE ~enough
      <4>1. w = [work[t] EXCEPT !.pc = "calling"]
        BY <3>2
      <4>2. w \in Effort /\ w.rounds = work[t].rounds /\ w.pages = work[t].pages
        BY <1>0, <4>1 DEF Effort
      <4>3. work[t].rounds \in 0..MaxRounds /\ work[t].pages \in 0..MaxPages
        BY <1>0 DEF Effort
      <4>. QED  BY <1>0, <3>2, <4>2, <4>3
    <3>. QED  BY <3>1, <3>2
  <2>. HIDE DEF w
  <2>. QED  BY <1>0, <2>1, <2>2, MovePlanned
\* A call that is charged.
<1>3. ASSUME NEW c \in Nat, NEW w \in Effort, Charge(t, c, w), w.pc # "calling"
      PROVE  PlanInv'
  <2>1. /\ work' = [work EXCEPT ![t] = w] /\ UNCHANGED <<node, state, late>>
        /\ spent' = spent + c /\ told' = told + c /\ billed' = billed + c /\ lost' = lost
    BY <1>3 DEF Charge, Billed
  <2>2. spent' \in Nat /\ told' \in Nat /\ billed' \in Nat /\ lost' \in Nat
    BY <1>0, <1>3, <2>1
  <2>. QED  BY <1>3, <2>1, <2>2, MovePlanned
<1>4. CASE Answer(t)
  <2>0. work[t].pc = "calling"
    BY <1>4 DEF Answer
  <2>1. PICK c \in Prices :
          \/ \E k \in 0..MaxItems : Charge(t, c, [work[t] EXCEPT !.pc = "done", !.items = k])
          \/ Charge(t, c, Concluded(work[t], spent + c))
          \/ \E opened \in 0..1, read \in BOOLEAN :
                Charge(t, c, [work[t] EXCEPT !.pc = "looping", !.rounds = @ + 1,
                                             !.pages = @ + opened, !.seen = @ \/ read])
    BY <1>4 DEF Answer
  <2>2. c \in Nat
    BY ConstantTypes
  <2>3. ASSUME NEW k \in 0..MaxItems, Charge(t, c, [work[t] EXCEPT !.pc = "done", !.items = k])
        PROVE  PlanInv'
    <3>1. [work[t] EXCEPT !.pc = "done", !.items = k] \in Effort
      BY <1>0 DEF Effort
    <3>2. [work[t] EXCEPT !.pc = "done", !.items = k].pc = "done"
      BY <1>0 DEF Effort
    <3>. QED  BY <1>3, <2>2, <2>3, <3>1, <3>2
  <2>4. CASE Charge(t, c, Concluded(work[t], spent + c))
    BY <1>0, <1>3, <2>2, <2>4, ConcludedTyped
  <2>5. ASSUME NEW opened \in 0..1, NEW read \in BOOLEAN,
               Charge(t, c, [work[t] EXCEPT !.pc = "looping", !.rounds = @ + 1,
                                            !.pages = @ + opened, !.seen = @ \/ read])
        PROVE  PlanInv'
    <3>. DEFINE r == work[t].rounds + 1
                p == work[t].pages + opened
                b == work[t].seen \/ read
                w == [work[t] EXCEPT !.pc = "looping", !.rounds = r, !.pages = p, !.seen = b]
    <3>1. work[t].rounds \in 0..MaxRounds /\ work[t].pages \in 0..MaxPages /\ work[t].seen \in BOOLEAN
      BY <1>0 DEF Effort
    <3>2. r \in 0..MaxRounds /\ p \in 0..MaxPages /\ b \in BOOLEAN
      BY <1>0, <2>0, <3>1
    <3>3. Charge(t, c, w)
      BY <2>5
    <3>. HIDE DEF r, p, b
    <3>4. w \in Effort /\ w.pc = "looping"
      BY <1>0, <3>2 DEF Effort
    <3>. HIDE DEF w
    <3>. QED  BY <1>3, <2>2, <3>3, <3>4
  <2>. QED  BY <2>1, <2>3, <2>4, <2>5
<1>5. CASE ForcedSubmit(t)
  <2>1. PICK c \in Charges, k \in 0..MaxItems, pc \in {"asking again", "done"} :
          Charge(t, c, [work[t] EXCEPT !.items = k, !.pc = pc])
    BY <1>5 DEF ForcedSubmit
  <2>. DEFINE w == [work[t] EXCEPT !.items = k, !.pc = pc]
  <2>2. w \in Effort /\ w.pc = pc
    BY <1>0 DEF Effort
  <2>3. c \in Nat
    BY ConstantTypes
  <2>. QED  BY <1>3, <2>1, <2>2, <2>3
<1>. QED  BY <1>1, <1>2, <1>4, <1>5 DEF Research

-----------------------------------------------------------------------------

\* What a task has found comes under its own name.
LEMMA GatheredOwn ==
    ASSUME NEW s, s.evidence \in Seq(Evidence), NEW t
    PROVE  /\ Gathered(s, t) \in Seq(Evidence)
           /\ \A k \in DOMAIN Gathered(s, t) : Gathered(s, t)[k].task = t
<1>. DEFINE T == {e \in Range(s.evidence) : e.task = t}
<1>1. Gathered(s, t) = Among(s.evidence, T) /\ \A e \in T : e.task = t
  BY DEF Gathered
<1>. HIDE DEF T
<1>2. Gathered(s, t) \in Seq(Evidence) /\ AmongOnes(Gathered(s, t), s.evidence, T)
  BY <1>1, AmongHolds
<1>. QED  BY <1>1, <1>2 DEF AmongOnes

LEMMA FreshOwn ==
    ASSUME PlanInv, NEW t \in TaskIds, NEW s, s.round \in Nat
    PROVE  /\ Fresh(s, t) \in Seq(Evidence)
           /\ \A k \in DOMAIN Fresh(s, t) : Fresh(s, t)[k].task = t
<1>1. work[t].items \in Nat
  <2>1. work[t] \in Effort
    BY PlanParts
  <2>2. work[t].items \in 0..MaxItems
    BY <2>1 DEF Effort
  <2>3. MaxItems \in Nat
    BY ConstantTypes
  <2>. QED  BY <2>2, <2>3
<1>2. \A i \in 1..work[t].items : [task |-> t, round |-> s.round + 1] \in Evidence
  BY DEF Evidence
<1>. QED  BY <1>1, <1>2 DEF Fresh

\* A round's evidence, merged task by task, is in the order of the plan.
LEMMA MergedInOrder ==
    ASSUME PlanInv
    PROVE  Merged(state) \in Seq(Evidence) /\ InPlanOrder(state.tasks, Merged(state))
<1>. DEFINE tasks == state.tasks
            L     == Len(tasks)
            part(t) == IF work[t].pc = "idle" THEN Gathered(state, t) ELSE Fresh(state, t)
            ss    == [i \in DOMAIN tasks |-> part(tasks[i])]
            r     == Merged(state)
<1>1. L \in Nat /\ DOMAIN tasks = 1..L /\ \A i \in 1..L : tasks[i] \in TaskIds
  BY PlanParts
<1>2. ASSUME NEW i \in 1..L
      PROVE  ss[i] \in Seq(Evidence) /\ \A k \in DOMAIN ss[i] : ss[i][k].task = tasks[i]
  <2>1. PICK t \in TaskIds : t = tasks[i]
    BY <1>1
  <2>2. ss[i] = part(t)
    BY <1>1, <2>1
  <2>3. state.evidence \in Seq(Evidence) /\ state.round \in Nat
    BY PlanParts DEF AgentState
  <2>4. part(t) \in Seq(Evidence) /\ \A k \in DOMAIN part(t) : part(t)[k].task = t
    BY <2>3, GatheredOwn, FreshOwn
  <2>. HIDE DEF part, ss
  <2>. QED  BY <2>1, <2>2, <2>4
<1>3. r = FlattenSeq(ss) /\ ss \in [1..L -> Seq(Evidence)]
  <2>1. r = FlattenSeq(ss)
    BY DEF Merged
  <2>2. DOMAIN ss = 1..L
    BY <1>1
  <2>3. ss = [i \in 1..L |-> ss[i]]
    BY <1>1
  <2>. HIDE DEF ss
  <2>. QED  BY <1>2, <2>1, <2>3
<1>. HIDE DEF ss, r, L, tasks
<1>4. r \in Seq(Evidence) /\ InTurn(r, ss, L)
  BY <1>1, <1>3, FlattenedInTurn
<1>5. PICK from \in [DOMAIN r -> 1..L] :
        /\ \A k \in DOMAIN r : \E m \in DOMAIN ss[from[k]] : r[k] = ss[from[k]][m]
        /\ \A j, k \in DOMAIN r : j < k => from[j] <= from[k]
  BY <1>4 DEF InTurn
<1>6. \A k \in DOMAIN r : from[k] \in DOMAIN tasks /\ tasks[from[k]] = r[k].task
  <2>1. SUFFICES ASSUME NEW k \in DOMAIN r PROVE from[k] \in 1..L /\ tasks[from[k]] = r[k].task
    BY <1>1
  <2>2. from[k] \in 1..L
    BY <1>5
  <2>3. PICK m \in DOMAIN ss[from[k]] : r[k] = ss[from[k]][m]
    BY <1>5
  <2>. QED  BY <1>2, <2>2, <2>3
<1>7. InPlanOrder(tasks, r)
  BY <1>5, <1>6 DEF InPlanOrder
<1>. QED  BY <1>4, <1>7 DEF r, tasks

-----------------------------------------------------------------------------

LEMMA PlannerPlanned ==
    ASSUME PlanInv, Planner
    PROVE  PlanInv'
<1>1. \E tasks \in {Proposal, <<>>}, error \in {"none", "planner"}, c \in Nat : PlannerReturns(tasks, error, c)
  <2>1. CASE \E tasks \in {Proposal, <<>>}, c \in Prices : PlannerReturns(tasks, "none", c)
    BY <2>1, Sums
  <2>2. CASE \E tasks \in {Proposal, <<>>}, c \in Charges, d \in Prices : PlannerReturns(tasks, "none", c + d)
    BY <2>2, Sums
  <2>3. CASE PlannerReturns(<<>>, "planner", 0)
    BY <2>3
  <2>4. CASE \E c, d \in Charges : PlannerReturns(<<>>, "planner", c + d)
    BY <2>4, Sums
  <2>. QED  BY <2>1, <2>2, <2>3, <2>4 DEF Planner
<1>2. PICK tasks \in {Proposal, <<>>}, error \in {"none", "planner"}, c \in Nat : PlannerReturns(tasks, error, c)
  BY <1>1
<1>. DEFINE cost == state.cost + c
            s == [state EXCEPT !.tasks = tasks, !.error = error, !.cost = cost]
<1>3. tasks \in Seq(TaskIds) /\ error \in Errors /\ cost \in Nat
  <2>1. Proposal \in Seq(TaskIds) /\ <<>> \in Seq(TaskIds)
    BY GraphAssumption DEF TaskIds
  <2>2. error \in Errors
    BY DEF Errors
  <2>3. cost \in Nat
    BY PlanParts
  <2>. QED  BY <2>1, <2>2, <2>3
<1>4. Advance(s, RouteAfterPlanner(s)) /\ billed' = billed + c /\ lost' = lost
  BY <1>2 DEF PlannerReturns, Billed
<1>5. state.evidence = <<>>
  BY PlanParts DEF Planner, Planned
<1>. HIDE DEF cost
<1>6. s \in AgentState /\ s.evidence = state.evidence
  BY <1>3, PlanParts DEF AgentState
<1>. HIDE DEF s
<1>7. Planned(RouteAfterPlanner(s), s)
  BY <1>5, <1>6 DEF Planned, InPlanOrder
<1>8. RouteAfterPlanner(s) \in Nodes
  BY DEF RouteAfterPlanner, Nodes
<1>9. billed' \in Nat /\ lost' \in Nat
  BY <1>4, PlanParts
<1>. QED  BY <1>4, <1>6, <1>7, <1>8, <1>9, ReturnPlanned

\* What the reviewer leaves of a plan is a plan, and there is no evidence yet.
LEMMA PlanGatePlanned ==
    ASSUME PlanInv, PlanGate
    PROVE  PlanInv'
<1>1. PICK included \in SUBSET TaskIds :
         LET s == [state EXCEPT !.tasks = Among(@, included)]
         IN  Advance(s, RouteAfterPlanGate(s))
  BY DEF PlanGate
<1>. DEFINE tasks == Among(state.tasks, included)
            s     == [state EXCEPT !.tasks = tasks]
<1>2. tasks \in Seq(TaskIds)
  BY PlanParts, AmongHolds
<1>3. Advance(s, RouteAfterPlanGate(s)) /\ billed' = billed /\ lost' = lost
  BY <1>1 DEF PlanGate
<1>. HIDE DEF tasks
<1>4. s \in AgentState /\ s.evidence = state.evidence
  BY <1>2, PlanParts DEF AgentState
<1>5. state.evidence = <<>>
  BY PlanParts DEF PlanGate, Planned
<1>. HIDE DEF s
<1>6. Planned(RouteAfterPlanGate(s), s)
  BY <1>4, <1>5 DEF Planned, InPlanOrder
<1>7. RouteAfterPlanGate(s) \in Nodes
  BY DEF RouteAfterPlanGate, Nodes
<1>. QED  BY <1>3, <1>4, <1>6, <1>7, PlanParts, ReturnPlanned

LEMMA ExecutorPlanned ==
    ASSUME PlanInv, ExecutorReturns
    PROVE  PlanInv'
<1>. DEFINE evidence == Merged(state)
            round    == state.round + 1
            seen     == state.sourcesSeen \/ \E t \in TaskIds : work[t].seen
            cost     == state.cost + told
            s == [state EXCEPT !.evidence = evidence, !.round = round, !.sourcesSeen = seen,
                               !.cost = cost]
<1>1. Advance(s, "critic") /\ billed' = billed /\ lost' = lost
  BY DEF ExecutorReturns
<1>2. evidence \in Seq(Evidence) /\ InPlanOrder(state.tasks, evidence)
  BY MergedInOrder
<1>3. round \in Nat /\ seen \in BOOLEAN /\ cost \in Nat
  BY PlanParts DEF AgentState
<1>. HIDE DEF evidence, round, seen, cost
<1>4. s \in AgentState /\ s.tasks = state.tasks /\ s.evidence = evidence
  BY <1>2, <1>3, PlanParts DEF AgentState, Evidence
<1>. HIDE DEF s
<1>5. Planned("critic", s) /\ "critic" \in Nodes
  BY <1>2, <1>4 DEF Planned, Nodes
<1>. QED  BY <1>1, <1>4, <1>5, PlanParts, ReturnPlanned

LEMMA CriticPlanned ==
    ASSUME PlanInv, Critic
    PROVE  PlanInv'
<1>. DEFINE pending == Pending(state)
            graded  == {t \in pending : MinSources = 0 \/ Len(Gathered(state, t)) >= MinSources}
            later(passed) == [t \in TaskIds |->
                IF t \in pending \ passed THEN state.retries[t] + 1 ELSE state.retries[t]]
<1>1. PICK passed \in SUBSET graded :
        \E c \in (Cardinality(passed) * MinPrice)..(Cardinality(graded) * MaxPrice) :
           LET s == [state EXCEPT !.passed = @ \cup passed, !.retries = later(passed), !.cost = @ + c]
           IN  Advance(s, RouteAfterCritic(s)) /\ Billed(c)
  BY DEF Critic
<1>2. PICK c \in (Cardinality(passed) * MinPrice)..(Cardinality(graded) * MaxPrice) :
           LET s == [state EXCEPT !.passed = @ \cup passed, !.retries = later(passed), !.cost = @ + c]
           IN  Advance(s, RouteAfterCritic(s)) /\ Billed(c)
  BY <1>1
<1>3. /\ state.passed \subseteq TaskIds /\ state.retries \in [TaskIds -> 0..MaxCriticLoops]
      /\ MaxCriticLoops \in Nat
  BY PlanParts, GraphAssumption DEF AgentState
<1>4. pending \subseteq TaskIds /\ \A t \in pending : state.retries[t] < MaxCriticLoops
  <2>1. Range(state.tasks) \subseteq TaskIds
    BY PlanParts DEF Range
  <2>. QED  BY <2>1 DEF Pending
<1>5. passed \subseteq TaskIds
  BY <1>4
<1>. DEFINE all == state.passed \cup passed
            retries == later(passed)
            cost == state.cost + c
            s == [state EXCEPT !.passed = all, !.retries = retries, !.cost = cost]
<1>6. all \in SUBSET TaskIds
  BY <1>3, <1>5
<1>7. retries \in [TaskIds -> 0..MaxCriticLoops]
  <2>1. ASSUME NEW t \in TaskIds PROVE retries[t] \in 0..MaxCriticLoops
    <3>1. state.retries[t] \in 0..MaxCriticLoops
      BY <1>3
    <3>2. CASE t \in pending
      <4>1. state.retries[t] < MaxCriticLoops
        BY <1>4, <3>2
      <4>2. retries[t] = state.retries[t] + 1 \/ retries[t] = state.retries[t]
        OBVIOUS
      <4>. QED  BY <1>3, <3>1, <4>1, <4>2
    <3>3. CASE t \notin pending
      BY <3>1, <3>3
    <3>. QED  BY <3>2, <3>3
  <2>. QED  BY <2>1
<1>8. c \in Nat
  <2>1. IsFiniteSet(passed)
    BY <1>5, TasksFinite, FS_Subset
  <2>2. Cardinality(passed) \in Nat
    BY <2>1, FS_CardinalityType
  <2>3. Cardinality(passed) * MinPrice \in Nat
    BY <2>2, ConstantTypes
  <2>. QED  BY <2>3
<1>9. cost \in Nat /\ billed + c \in Nat /\ lost \in Nat
  BY <1>8, PlanParts
<1>10. Advance(s, RouteAfterCritic(s)) /\ billed' = billed + c /\ lost' = lost
  BY <1>2 DEF Billed
<1>. HIDE DEF all, retries, cost
<1>11. s \in AgentState /\ s.tasks = state.tasks /\ s.evidence = state.evidence
  BY <1>6, <1>7, <1>9, PlanParts DEF AgentState
<1>. HIDE DEF s
<1>12. RouteAfterCritic(s) \in {"failer", "executor", "contradiction_detector"}
  BY DEF RouteAfterCritic
<1>13. RouteAfterCritic(s) \in Nodes /\ Planned(RouteAfterCritic(s), s)
  BY <1>11, <1>12, SamePlan DEF Nodes
<1>. QED  BY <1>9, <1>10, <1>11, <1>13, ReturnPlanned

\* The detector and the synthesizer write about the evidence and leave it alone.
LEMMA WritingPlanned ==
    ASSUME PlanInv, ContradictionDetector \/ Synthesizer
    PROVE  PlanInv'
<1>1. CASE ContradictionDetector
  <2>1. PICK c \in Charges, found \in BOOLEAN :
           /\ Advance([state EXCEPT !.cost = @ + c, !.conflicts = found], "synthesizer")
           /\ Billed(c)
    BY <1>1 DEF ContradictionDetector
  <2>. DEFINE cost == state.cost + c
              s    == [state EXCEPT !.cost = cost, !.conflicts = found]
  <2>2. cost \in Nat /\ billed + c \in Nat /\ lost \in Nat
    BY Sums, PlanParts
  <2>3. Advance(s, "synthesizer") /\ billed' = billed + c /\ lost' = lost
    BY <2>1 DEF Billed
  <2>. HIDE DEF cost
  <2>4. s \in AgentState /\ s.tasks = state.tasks /\ s.evidence = state.evidence
    BY <2>2, PlanParts DEF AgentState
  <2>. HIDE DEF s
  <2>5. "synthesizer" \in Nodes /\ Planned("synthesizer", s)
    BY <2>4, SamePlan DEF Nodes
  <2>. QED  BY <2>2, <2>3, <2>4, <2>5, ReturnPlanned
<1>2. CASE Synthesizer
  <2>1. PICK draft \in Prices, repair \in Charges, check \in Charges, status \in Groundings :
              LET cost == draft + repair + check
                  s    == Synthesized(status, cost)
              IN  /\ Advance(s, RouteAfterSynthesizer(s))
                  /\ \E forgotten \in Forgotten(check) : BilledBut(cost, forgotten)
    BY <1>2 DEF Synthesizer
  <2>. DEFINE c == draft + repair + check
              s == Synthesized(status, c)
  <2>2. c \in Nat /\ status \in {"none", "complete", "unmeasured", "no_evidence"}
    BY Sums DEF Groundings
  <2>3. Advance(s, RouteAfterSynthesizer(s)) /\ \E forgotten \in Forgotten(check) : BilledBut(c, forgotten)
    BY <2>1
  <2>. HIDE DEF c
  <2>4. billed' \in Nat /\ lost' \in Nat
    <3>1. PICK forgotten \in Forgotten(check) : BilledBut(c, forgotten)
      BY <2>3
    <3>2. forgotten \in Nat
      BY <3>1, Sums DEF Forgotten
    <3>. QED  BY <2>2, <3>1, <3>2, PlanParts DEF BilledBut
  <2>5. s \in AgentState /\ s.tasks = state.tasks /\ s.evidence = state.evidence
    <3>. DEFINE text  == [version |-> state.draft.version + 1, conflicts |-> state.conflicts]
                cost  == state.cost + c
                error == IF status \in {"none", "complete"} THEN state.error ELSE "grounding"
                found == [status |-> status, validated |-> IF status = "complete" THEN text ELSE NoDraft]
    <3>1. text \in Draft /\ NoDraft \in Draft
      BY PlanParts DEF AgentState, Draft, NoDraft
    <3>2. cost \in Nat /\ error \in Errors
      <4>1. state.error \in Errors
        BY PlanParts DEF AgentState
      <4>2. error \in Errors
        BY <4>1 DEF Errors
      <4>. QED  BY <2>2, <4>2, PlanParts
    <3>3. found \in [status : {"none", "complete", "unmeasured", "no_evidence"}, validated : Draft]
      <4>. HIDE DEF text
      <4>. QED  BY <2>2, <3>1
    <3>4. s = [state EXCEPT !.draft = text, !.cost = cost, !.error = error, !.grounding = found]
      BY DEF Synthesized
    <3>. HIDE DEF s, text, cost, error, found
    <3>. QED  BY <3>1, <3>2, <3>3, <3>4, PlanParts DEF AgentState
  <2>. HIDE DEF s
  <2>6. RouteAfterSynthesizer(s) \in {"failer", "hitl_gate"}
    BY DEF RouteAfterSynthesizer
  <2>7. RouteAfterSynthesizer(s) \in Nodes /\ Planned(RouteAfterSynthesizer(s), s)
    BY <2>5, <2>6, SamePlan DEF Nodes
  <2>. QED  BY <2>3, <2>4, <2>5, <2>7, ReturnPlanned
<1>. QED  BY <1>1, <1>2

\* A node that raises leaves the state as it was.
LEMMA RaisedPlanned ==
    ASSUME PlanInv, NEW c \in Nat, Raised(c)
    PROVE  PlanInv'
<1>1. Idle \in Effort /\ Idle.pc = "idle"
  BY NoEffort
<1>2. work' \in [TaskIds -> Effort] /\ \A t \in TaskIds : work'[t].pc = "idle"
  BY <1>1 DEF Raised
<1>3. /\ node' = "raised" /\ state' = state /\ late' = late
      /\ spent' \in Nat /\ told' \in Nat /\ billed' \in Nat /\ lost' \in Nat
  BY PlanParts DEF Raised
<1>4. TypeOK'
  BY <1>2, <1>3, PlanParts DEF TypeOK, Effort, Nodes
<1>5. CallsFit'
  BY <1>2 DEF CallsFit
<1>. QED  BY <1>3, <1>4, <1>5 DEF PlanInv, Planned

LEMMA EndPlanned ==
    ASSUME PlanInv, HitlGate \/ Finalizer \/ Failer
    PROVE  PlanInv'
<1>0. billed + 0 \in Nat /\ lost \in Nat /\ state \in AgentState
  BY PlanParts
<1>1. ASSUME NEW s \in AgentState, s.tasks = state.tasks, s.evidence = state.evidence,
             NEW n \in {"finalizer", "synthesizer", "end"}, Advance(s, n), Billed(0)
      PROVE  PlanInv'
  <2>1. n \in Nodes /\ Planned(n, s)
    BY <1>1, SamePlan DEF Nodes
  <2>2. billed' \in Nat /\ lost' \in Nat
    BY <1>0, <1>1 DEF Billed
  <2>. QED  BY <1>1, <2>1, <2>2, ReturnPlanned
<1>2. CASE HitlGate
  <2>1. CASE Raised(0)
    BY <2>1, RaisedPlanned
  <2>2. CASE Advance(state, "finalizer") /\ Billed(0)
    BY <1>0, <1>1, <2>2
  <2>3. CASE state.reworks < MaxReworks /\ Advance([state EXCEPT !.reworks = @ + 1], "synthesizer") /\ Billed(0)
    <3>. DEFINE k == state.reworks + 1
                s == [state EXCEPT !.reworks = k]
    <3>1. k \in 0..MaxReworks
      <4>1. state.reworks \in 0..MaxReworks
        BY <1>0 DEF AgentState
      <4>2. MaxReworks \in Nat
        BY GraphAssumption
      <4>3. state.reworks < MaxReworks
        BY <2>3
      <4>. QED  BY <4>1, <4>2, <4>3
    <3>2. Advance(s, "synthesizer") /\ Billed(0)
      BY <2>3
    <3>. HIDE DEF k
    <3>3. s \in AgentState /\ s.tasks = state.tasks /\ s.evidence = state.evidence
      BY <1>0, <3>1 DEF AgentState
    <3>. HIDE DEF s
    <3>. QED  BY <1>1, <3>2, <3>3
  <2>. QED  BY <1>2, <2>1, <2>2, <2>3 DEF HitlGate
<1>3. CASE Finalizer
  <2>. DEFINE s == [state EXCEPT !.final = state.draft]
  <2>1. Advance(s, "end") /\ Billed(0)
    BY <1>3 DEF Finalizer
  <2>2. s \in AgentState /\ s.tasks = state.tasks /\ s.evidence = state.evidence
    BY <1>0 DEF AgentState
  <2>. HIDE DEF s
  <2>. QED  BY <1>1, <2>1, <2>2
<1>4. CASE Failer
  <2>. DEFINE error == Reason(state)
              s     == [state EXCEPT !.error = error]
  <2>1. Advance(s, "end") /\ Billed(0)
    BY <1>4 DEF Failer
  <2>2. error \in Errors
    BY <1>0 DEF Reason, Errors, AgentState
  <2>. HIDE DEF error
  <2>3. s \in AgentState /\ s.tasks = state.tasks /\ s.evidence = state.evidence
    BY <1>0, <2>2 DEF AgentState
  <2>. HIDE DEF s
  <2>. QED  BY <1>1, <2>1, <2>3
<1>. QED  BY <1>2, <1>3, <1>4

LEMMA InitPlanned == ASSUME Init PROVE PlanInv
<1>1. NoDraft \in Draft /\ Ungrounded \in [status : {"none", "complete", "unmeasured", "no_evidence"}, validated : Draft]
  BY DEF NoDraft, Draft, Ungrounded
<1>2. <<>> \in Seq(TaskIds) /\ <<>> \in Seq([task : TaskIds, round : Nat]) /\ "none" \in Errors
  BY DEF Errors
<1>3. [t \in TaskIds |-> 0] \in [TaskIds -> 0..MaxCriticLoops] /\ 0 \in 0..MaxReworks
  BY GraphAssumption
<1>4. state \in AgentState /\ state.evidence = <<>>
  BY <1>1, <1>2, <1>3 DEF Init, AgentState
<1>5. Idle \in Effort /\ Idle.pc = "idle"
  BY NoEffort
<1>6. work \in [TaskIds -> Effort] /\ CallsFit
  BY <1>5 DEF Init, CallsFit
<1>7. TypeOK
  <2>1. {spent, told, billed, lost} \subseteq Nat /\ late \in BOOLEAN /\ node \in Nodes
    <3>1. {spent, told, billed, lost} \subseteq Nat
      BY DEF Init
    <3>2. late \in BOOLEAN
      BY DEF Init
    <3>. QED  BY <3>1, <3>2 DEF Init, Nodes
  <2>. QED  BY <1>4, <1>6, <2>1 DEF TypeOK, Effort
<1>8. Planned(node, state)
  BY <1>4 DEF Planned, InPlanOrder
<1>. QED  BY <1>6, <1>7, <1>8 DEF PlanInv

LEMMA NextPlanned == ASSUME PlanInv, [Next]_vars PROVE PlanInv'
<1>1. CASE PassLimit \/ UNCHANGED vars
  <2>1. UNCHANGED <<node, state, work, spent, told, billed, lost>> /\ late' \in BOOLEAN
    BY <1>1, PlanParts DEF PassLimit, vars
  <2>2. TypeOK' /\ CallsFit'
    BY <2>1, PlanParts DEF TypeOK, CallsFit, Effort
  <2>. QED  BY <2>1, <2>2, PlanParts DEF PlanInv, Planned
<1>2. CASE SynthesizerFails \/ \E t \in TaskIds : CallFails(t)
  BY <1>2, RaisedPlanned, Sums DEF SynthesizerFails, CallFails
<1>. QED
  BY <1>1, <1>2, ResearchPlanned, PlannerPlanned, PlanGatePlanned, ExecutorPlanned, CriticPlanned,
     WritingPlanned, EndPlanned DEF Next, Run

\* What the nodes rely on holds in every state of every run.
THEOREM PlanInvariant == Spec => []PlanInv
<1>1. Init => PlanInv
  BY InitPlanned
<1>2. PlanInv /\ [Next]_vars => PlanInv'
  BY NextPlanned
<1>. QED  BY <1>1, <1>2, PTL DEF Spec

\* AgentState keeps its shape, and every task its limits, through any run.
THEOREM GraphTyped == Spec => []TypeOK
<1>1. PlanInv => TypeOK
  BY DEF PlanInv
<1>. QED  BY <1>1, PlanInvariant, PTL

\* The evidence stands in the order of the plan, for any plan, reviewer's choice,
\* order of the tasks and number of rounds: the synthesizer numbers citations by it.
THEOREM EvidenceOrdered == Spec => []EvidenceInPlanOrder
<1>1. PlanInv => EvidenceInPlanOrder
  BY DEF PlanInv, Planned, InPlanOrder, EvidenceInPlanOrder
<1>. QED  BY <1>1, PlanInvariant, PTL

-----------------------------------------------------------------------------
(* The budget *)

\* The state is a record, and one of its fields is the cost.
Shaped(s) == s = [f \in DOMAIN s |-> s[f]] /\ "cost" \in DOMAIN s

Progress == [pc : {"idle", "waiting", "looping", "calling", "asking", "asking again", "done"},
             rounds : Nat, pages : Nat, seen : BOOLEAN, items : Nat]

Typed ==
    /\ Shaped(state) /\ state.cost \in Nat
    /\ work \in [TaskIds -> Progress]
    /\ spent \in Nat /\ told \in Nat /\ billed \in Nat /\ lost \in Nat

\* Nobody works, and nothing is untold, outside the executor.
Quiet == node # "executor" => told = 0 /\ \A t \in TaskIds : work[t].pc = "idle"

SlotsHeld == Cardinality(Holding) <= Slots

BudgetInv == Typed /\ Quiet /\ SlotsHeld /\ OvershootBounded /\ CostAccounted

\* So have the slots' holders, and those with a call under way are among them.
LEMMA Finite == IsFiniteSet(Holding) /\ IsFiniteSet(InFlight)
                /\ Cardinality(Holding) \in Nat /\ Cardinality(InFlight) \in Nat
                /\ Cardinality(InFlight) <= Cardinality(Holding)
  <1>1. Holding \in SUBSET TaskIds /\ InFlight \in SUBSET Holding
    BY DEF Holding, InFlight
  <1>2. IsFiniteSet(Holding)
    BY <1>1, TasksFinite, FS_Subset
  <1>3. IsFiniteSet(InFlight) /\ Cardinality(InFlight) <= Cardinality(Holding)
    BY <1>1, <1>2, FS_Subset
  <1> QED
    BY <1>2, <1>3, FS_CardinalityType

\* Multiplication is monotone.
LEMMA Product == ASSUME NEW a \in Nat, NEW b \in Nat, NEW p \in Nat, a <= b
                 PROVE  a * p <= b * p
  <1>1. b = a + (b - a) /\ b - a \in Nat
    OBVIOUS
  <1>2. b * p = a * p + (b - a) * p
    BY <1>1
  <1>3. (b - a) * p \in Nat /\ a * p \in Nat
    BY <1>1
  <1> QED
    BY <1>2, <1>3

-----------------------------------------------------------------------------
(* The bound on a round's overshoot *)

\* As long as the cap is not reached, calls that are under way fit their slots.
LEMMA BelowCap ==
    ASSUME spent' \in Nat, Cardinality(InFlight') \in Nat, Cardinality(InFlight') <= Slots,
           CostCap # 0 => spent' < CostCap
    PROVE  OvershootBounded'
<1> DEFINE k == Cardinality(InFlight')
           m == spent'
<1>1. Slots \in Nat /\ MaxPrice \in Nat /\ CostCap \in Nat /\ k \in Nat /\ k <= Slots /\ m \in Nat
  BY ConstantTypes
<1>2. CostCap # 0 => m < CostCap
  OBVIOUS
<1>3. Slots' = Slots
  BY DEF Slots
<1>4. (CostCap # 0 => m + k * MaxPrice < CostCap + Slots * MaxPrice) => OvershootBounded'
  BY <1>3 DEF OvershootBounded
<1> HIDE DEF k, m
<1>5. k * MaxPrice <= Slots * MaxPrice
  BY <1>1, Product
<1>6. k * MaxPrice \in Nat /\ Slots * MaxPrice \in Nat
  BY <1>1
<1>7. CostCap # 0 => m + k * MaxPrice < CostCap + Slots * MaxPrice
  BY <1>1, <1>2, <1>5, <1>6
<1> QED
  BY <1>4, <1>7

\* A call that returns makes room for at most what it may have cost.
LEMMA CallReturned ==
    ASSUME Typed, OvershootBounded, NEW t \in InFlight, NEW c \in Charges,
           InFlight' = InFlight \ {t}, spent' = spent + c
    PROVE  OvershootBounded'
<1> DEFINE k == Cardinality(InFlight)
<1>1. k \in Nat /\ k \geq 1 /\ Cardinality(InFlight') = k - 1
  BY Finite, FS_RemoveElement, FS_EmptySet
<1>2. /\ MaxPrice \in Nat /\ CostCap \in Nat /\ Slots \in Nat /\ c \in Nat /\ c <= MaxPrice
      /\ spent \in Nat
  BY ConstantTypes DEF Typed
<1>3. CostCap # 0 => spent + k * MaxPrice < CostCap + Slots * MaxPrice
  BY DEF OvershootBounded
<1> HIDE DEF k
<1>4. k * MaxPrice = (k - 1) * MaxPrice + MaxPrice
  BY <1>1, <1>2
<1>5. k * MaxPrice \in Nat /\ (k - 1) * MaxPrice \in Nat /\ Slots * MaxPrice \in Nat
  BY <1>1, <1>2
<1>6. CostCap # 0 => spent + c + (k - 1) * MaxPrice < CostCap + Slots * MaxPrice
  BY <1>2, <1>3, <1>4, <1>5
<1> QED
  BY <1>1, <1>6 DEF OvershootBounded

-----------------------------------------------------------------------------
(* Steps of the tasks of a round *)

\* A task takes its next step: where it stands and what it holds.
LEMMA TaskMoves ==
    ASSUME Typed, NEW t \in TaskIds, NEW w \in Progress, work' = [work EXCEPT ![t] = w]
    PROVE  /\ work' \in [TaskIds -> Progress]
           /\ Holding' \subseteq Holding \cup {t}
           /\ work[t].pc # "waiting" => work[t].pc = "idle" \/ work[t].pc = "done"
                                        \/ Holding' \subseteq Holding
           /\ w.pc \notin {"calling", "asking", "asking again"} => InFlight' = InFlight \ {t}
<1>1. work \in [TaskIds -> Progress] /\ work' \in [TaskIds -> Progress]
  BY DEF Typed
<1>2. /\ work'[t] = w
      /\ \A u \in TaskIds \ {t} : work'[u] = work[u]
  BY <1>1
<1>3. work[t].pc \in {"idle", "waiting", "looping", "calling", "asking", "asking again", "done"}
  BY <1>1 DEF Progress
<1> QED
  BY <1>1, <1>2, <1>3 DEF Holding, InFlight

\* What Quiet means for a task that moves.
LEMMA WorkingInExecutor ==
    ASSUME Quiet, NEW t \in TaskIds, work[t].pc # "idle"
    PROVE  node = "executor"
BY DEF Quiet

\* Starting a task takes a free slot, or none, and calls no model.
LEMMA StartStep == ASSUME BudgetInv, NEW t \in TaskIds, StartTask(t) PROVE BudgetInv'
<1> DEFINE w == [work[t] EXCEPT !.pc = IF Exceeded THEN "done" ELSE "looping"]
<1>1. work[t] \in Progress /\ w \in Progress /\ work' = [work EXCEPT ![t] = w]
  BY DEF BudgetInv, Typed, Progress, StartTask
<1>2. /\ work' \in [TaskIds -> Progress]
      /\ Holding' \subseteq Holding \cup {t}
      /\ InFlight' = InFlight \ {t}
  <2>1. w.pc \notin {"calling", "asking", "asking again"}
    BY <1>1 DEF Progress
  <2>2. Typed
    BY DEF BudgetInv
  <2> HIDE DEF w
  <2>3. /\ work' \in [TaskIds -> Progress] /\ Holding' \subseteq Holding \cup {t}
        /\ w.pc \notin {"calling", "asking", "asking again"} => InFlight' = InFlight \ {t}
    BY <1>1, <2>2, TaskMoves
  <2> QED
    BY <2>1, <2>3
<1>3. InFlight' = InFlight
  BY <1>2 DEF StartTask, InFlight
<1>4. SlotsHeld'
  <2>1. IsFiniteSet(Holding \cup {t}) /\ Cardinality(Holding \cup {t}) <= Cardinality(Holding) + 1
    BY Finite, FS_AddElement
  <2>2. IsFiniteSet(Holding') /\ Cardinality(Holding') <= Cardinality(Holding \cup {t})
    BY <1>2, <2>1, FS_Subset
  <2>3. Cardinality(Holding') \in Nat /\ Cardinality(Holding \cup {t}) \in Nat
    BY <2>1, <2>2, FS_CardinalityType
  <2> QED
    BY <2>1, <2>2, <2>3, Finite, ConstantTypes DEF StartTask, SlotsHeld, Slots
<1>5. UNCHANGED <<node, state, spent, told, billed, lost>> /\ node = "executor"
  BY DEF StartTask
<1> QED
  BY <1>2, <1>3, <1>4, <1>5
     DEF BudgetInv, Typed, Shaped, Quiet, OvershootBounded, CostAccounted, Slots

\* A task that keeps or gives up its slot: neither the slots held nor the calls
\* under way outnumber the slots there are.
LEMMA SlotsKept ==
    ASSUME SlotsHeld, Holding' \subseteq Holding
    PROVE  SlotsHeld' /\ Cardinality(InFlight') \in Nat /\ Cardinality(InFlight') <= Slots
<1>1. IsFiniteSet(Holding) /\ Cardinality(Holding) \in Nat
  BY Finite
<1>2. IsFiniteSet(Holding') /\ Cardinality(Holding') <= Cardinality(Holding)
  BY <1>1, FS_Subset
<1>3. InFlight' \subseteq Holding'
  BY DEF Holding, InFlight
<1>4. IsFiniteSet(InFlight') /\ Cardinality(InFlight') <= Cardinality(Holding')
  BY <1>2, <1>3, FS_Subset
<1>5. Cardinality(Holding') \in Nat /\ Cardinality(InFlight') \in Nat
  BY <1>2, <1>4, FS_CardinalityType
<1> QED
  BY <1>1, <1>2, <1>4, <1>5, ConstantTypes DEF SlotsHeld, Slots

\* A task calls the model only with the budget not exceeded.
LEMMA ThinkStep == ASSUME BudgetInv, NEW t \in TaskIds, Think(t) PROVE BudgetInv'
<1> DEFINE stop == work[t].rounds = MaxRounds \/ Exceeded \/ work[t].pages >= MaxPages
           w == IF stop THEN Concluded(work[t], spent) ELSE [work[t] EXCEPT !.pc = "calling"]
<1>1. work[t] \in Progress /\ work[t].pc = "looping"
  BY DEF BudgetInv, Typed, Think
<1>2. w \in Progress /\ work' = [work EXCEPT ![t] = w]
  BY <1>1 DEF BudgetInv, Typed, Progress, Think, Concluded
<1>3. UNCHANGED <<node, state, spent, told, billed, lost>> /\ node = "executor"
  BY <1>1, WorkingInExecutor DEF Think, BudgetInv
<1>4. /\ work' \in [TaskIds -> Progress]
      /\ Holding' \subseteq Holding
      /\ w.pc \notin {"calling", "asking", "asking again"} => InFlight' = InFlight \ {t}
  <2>1. Typed
    BY DEF BudgetInv
  <2> HIDE DEF w
  <2> QED
    BY <1>1, <1>2, <2>1, TaskMoves
<1>5. SlotsHeld' /\ Cardinality(InFlight') \in Nat /\ Cardinality(InFlight') <= Slots
  BY <1>4, SlotsKept DEF BudgetInv
<1>6. OvershootBounded'
  <2>1. CASE w.pc \in {"calling", "asking", "asking again"}
    <3>1. CostCap # 0 => spent < CostCap
      <4>1. ~OverCap(spent)
        <5>1. CASE stop
          BY <5>1, <1>1, <2>1 DEF Concluded, Progress
        <5>2. CASE ~stop
          BY <5>2 DEF Exceeded
        <5> QED
          BY <5>1, <5>2
      <4> QED
        BY <4>1, ConstantTypes DEF OverCap, BudgetInv, Typed
    <3> QED
      BY <3>1, <1>3, <1>5, BelowCap DEF BudgetInv, Typed
  <2>2. CASE w.pc \notin {"calling", "asking", "asking again"}
    <3>1. InFlight' = InFlight
      BY <1>1, <1>4, <2>2 DEF InFlight
    <3> QED
      BY <3>1, <1>3 DEF OvershootBounded, BudgetInv, Slots
  <2> QED
    BY <2>1, <2>2
<1> QED
  BY <1>3, <1>4, <1>5, <1>6 DEF BudgetInv, Typed, Shaped, Quiet, CostAccounted

\* What a charge does to the sums, and what it leaves of the budget.
LEMMA Charged ==
    ASSUME Typed, CostAccounted, NEW c \in Nat, NEW m, m = spent + c
    PROVE  /\ m \in Nat /\ (~OverCap(m) /\ CostCap # 0 => m < CostCap)
           /\ spent' = m /\ told' = told + c /\ billed' = billed + c
                /\ UNCHANGED <<state, lost>> /\ work' \in [TaskIds -> Progress]
              => Typed' /\ CostAccounted'
<1>1. /\ spent \in Nat /\ told \in Nat /\ billed \in Nat /\ lost \in Nat /\ state.cost \in Nat
      /\ spent = state.cost + told /\ billed = spent + lost /\ CostCap \in Nat /\ m \in Nat
  BY ConstantTypes DEF Typed, CostAccounted
<1>2. ~OverCap(m) /\ CostCap # 0 => m < CostCap
  BY <1>1 DEF OverCap
<1>3. ASSUME spent' = m, told' = told + c, billed' = billed + c, UNCHANGED <<state, lost>>,
             work' \in [TaskIds -> Progress]
      PROVE  Typed' /\ CostAccounted'
  <2>1. Shaped(state)' /\ state'.cost = state.cost
    BY <1>3 DEF Typed, Shaped
  <2>2. spent' \in Nat /\ told' \in Nat /\ billed' \in Nat /\ lost' \in Nat
    BY <1>1, <1>3
  <2>3. spent' = state'.cost + told' /\ billed' = spent' + lost'
    BY <1>1, <1>3
  <2> QED
    BY <1>1, <1>3, <2>1, <2>2, <2>3 DEF Typed, CostAccounted
<1> QED
  BY <1>1, <1>2, <1>3

\* A task is answered: it is charged once, and either gives its call up or has a
\* new one that the budget allowed.
LEMMA ChargeStep ==
    ASSUME BudgetInv, NEW t \in InFlight, NEW c \in Nat, NEW w \in Progress, NEW m,
           c \in Charges, Charge(t, c, w), m = spent + c,
           w.pc # "calling",
           w.pc \in {"asking", "asking again"} => ~OverCap(m)
    PROVE  BudgetInv'
<1>1. /\ t \in TaskIds /\ work[t].pc # "waiting" /\ work[t].pc # "idle" /\ work[t].pc # "done"
      /\ work' = [work EXCEPT ![t] = w]
      /\ spent' = spent + c /\ told' = told + c /\ billed' = billed + c
      /\ UNCHANGED <<node, state, lost>>
  BY DEF InFlight, Charge, Billed
<1>2. /\ work' \in [TaskIds -> Progress]
      /\ Holding' \subseteq Holding
      /\ w.pc \notin {"calling", "asking", "asking again"} => InFlight' = InFlight \ {t}
  BY <1>1, TaskMoves DEF BudgetInv
<1>3. SlotsHeld' /\ Cardinality(InFlight') \in Nat /\ Cardinality(InFlight') <= Slots
  BY <1>2, SlotsKept DEF BudgetInv
<1>4. m \in Nat /\ (~OverCap(m) /\ CostCap # 0 => m < CostCap) /\ Typed' /\ CostAccounted'
  BY <1>1, <1>2, Charged DEF BudgetInv
<1>5. OvershootBounded'
  <2>1. CASE w.pc \in {"asking", "asking again"}
    BY <2>1, <1>1, <1>3, <1>4, BelowCap
  <2>2. CASE w.pc \notin {"asking", "asking again"}
    BY <1>1, <1>2, <2>2, CallReturned DEF BudgetInv
  <2> QED
    BY <2>1, <2>2
<1>6. Quiet'
  BY <1>1, WorkingInExecutor DEF BudgetInv, Quiet
<1> QED
  BY <1>3, <1>4, <1>5, <1>6 DEF BudgetInv

\* An answer ends the task's call, or lets it be asked directly below the cap.
LEMMA AnswerStep == ASSUME BudgetInv, NEW t \in TaskIds, Answer(t) PROVE BudgetInv'
<1>1. t \in InFlight /\ work[t] \in Progress
  BY DEF Answer, InFlight, BudgetInv, Typed
<1>2. PICK c \in Prices :
         \/ \E k \in 0..MaxItems : Charge(t, c, [work[t] EXCEPT !.pc = "done", !.items = k])
         \/ Charge(t, c, Concluded(work[t], spent + c))
         \/ \E opened \in 0..1, read \in BOOLEAN :
               Charge(t, c, [work[t] EXCEPT !.pc = "looping", !.rounds = @ + 1,
                                            !.pages = @ + opened, !.seen = @ \/ read])
  BY DEF Answer
<1>3. c \in Charges /\ c \in Nat
  BY ConstantTypes
<1>4. \E w \in Progress : /\ Charge(t, c, w) /\ w.pc # "calling"
                          /\ w.pc \in {"asking", "asking again"} => ~OverCap(spent + c)
  <2>1. CASE \E k \in 0..MaxItems : Charge(t, c, [work[t] EXCEPT !.pc = "done", !.items = k])
    <3>1. PICK k \in 0..MaxItems : Charge(t, c, [work[t] EXCEPT !.pc = "done", !.items = k])
      BY <2>1
    <3> DEFINE w == [work[t] EXCEPT !.pc = "done", !.items = k]
    <3>2. Charge(t, c, w)
      BY <3>1
    <3>3. k \in Nat
      BY ConstantTypes
    <3>4. w \in Progress /\ w.pc = "done"
      BY <1>1, <3>3 DEF Progress
    <3> HIDE DEF w
    <3> QED
      BY <3>2, <3>4
  <2>2. CASE Charge(t, c, Concluded(work[t], spent + c))
    <3> DEFINE w == Concluded(work[t], spent + c)
    <3>1. /\ Charge(t, c, w) /\ w \in Progress /\ w.pc # "calling"
          /\ w.pc \in {"asking", "asking again"} => ~OverCap(spent + c)
      BY <1>1, <2>2 DEF Progress, Concluded
    <3> HIDE DEF w
    <3> QED
      BY <3>1
  <2>3. CASE \E opened \in 0..1, read \in BOOLEAN :
                Charge(t, c, [work[t] EXCEPT !.pc = "looping", !.rounds = @ + 1,
                                             !.pages = @ + opened, !.seen = @ \/ read])
    <3>1. PICK opened \in 0..1, read \in BOOLEAN :
             Charge(t, c, [work[t] EXCEPT !.pc = "looping", !.rounds = @ + 1,
                                          !.pages = @ + opened, !.seen = @ \/ read])
      BY <2>3
    <3> DEFINE w == [work[t] EXCEPT !.pc = "looping", !.rounds = @ + 1,
                                    !.pages = @ + opened, !.seen = @ \/ read]
    <3>2. Charge(t, c, w)
      BY <3>1
    <3>3. /\ work[t].rounds + 1 \in Nat /\ work[t].pages + opened \in Nat
          /\ (work[t].seen \/ read) \in BOOLEAN
      <4>1. work[t].rounds \in Nat /\ work[t].pages \in Nat
        BY <1>1 DEF Progress
      <4>2. opened \in Nat
        OBVIOUS
      <4>3. work[t].rounds + 1 \in Nat /\ work[t].pages + opened \in Nat
        BY <4>1, <4>2
      <4>4. (work[t].seen \/ read) \in BOOLEAN
        BY Zenon
      <4> QED
        BY <4>3, <4>4
    <3>4. w \in Progress /\ w.pc = "looping"
      BY <1>1, <3>3 DEF Progress
    <3> HIDE DEF w
    <3> QED
      BY <3>2, <3>4
  <2> QED
    BY <1>2, <2>1, <2>2, <2>3
<1> QED
  BY <1>1, <1>3, <1>4, ChargeStep

\* A forced submission ends the task's call, or is tried again below the cap.
LEMMA ForcedStep == ASSUME BudgetInv, NEW t \in TaskIds, ForcedSubmit(t) PROVE BudgetInv'
<1>1. t \in InFlight /\ work[t] \in Progress
  BY DEF ForcedSubmit, InFlight, BudgetInv, Typed
<1>2. PICK c \in Charges, k \in 0..MaxItems :
         LET again == k = 0 /\ work[t].pc = "asking" /\ ~OverCap(spent + c)
         IN  Charge(t, c, [work[t] EXCEPT !.items = k,
                                          !.pc = IF again THEN "asking again" ELSE "done"])
  BY DEF ForcedSubmit
<1>3. c \in Nat
  BY ConstantTypes
<1>4. \E w \in Progress : /\ Charge(t, c, w) /\ w.pc # "calling"
                          /\ w.pc \in {"asking", "asking again"} => ~OverCap(spent + c)
  <2> DEFINE again == k = 0 /\ work[t].pc = "asking" /\ ~OverCap(spent + c)
             w == [work[t] EXCEPT !.items = k, !.pc = IF again THEN "asking again" ELSE "done"]
  <2>1. Charge(t, c, w)
    BY <1>2
  <2>2. /\ w \in Progress /\ w.pc # "calling"
        /\ w.pc \in {"asking", "asking again"} => ~OverCap(spent + c)
    <3>1. k \in Nat
      BY ConstantTypes
    <3>2. CASE again
      BY <1>1, <3>1, <3>2 DEF Progress
    <3>3. CASE ~again
      BY <1>1, <3>1, <3>3 DEF Progress
    <3> QED
      BY <3>2, <3>3
  <2> HIDE DEF w
  <2> QED
    BY <2>1, <2>2
<1> QED
  BY <1>1, <1>3, <1>4, ChargeStep

-----------------------------------------------------------------------------
(* Steps of the nodes *)

\* Between rounds nobody holds a slot.
LEMMA NobodyWorks ==
    ASSUME \A t \in TaskIds : work'[t].pc \in {"idle", "waiting", "done"}
    PROVE  Holding' = {} /\ InFlight' = {} /\ SlotsHeld'
<1>1. Holding' = {} /\ InFlight' = {}
  BY DEF Holding, InFlight
<1>2. Cardinality({}) = 0
  BY FS_EmptySet
<1> QED
  BY <1>1, <1>2, ConstantTypes DEF SlotsHeld, Slots

\* A node that returns hands the sum of its calls to the next, which starts from it;
\* calls it has forgotten are lost.
LEMMA ForgetfulStep ==
    ASSUME BudgetInv, NEW s, NEW n, NEW c \in Nat, NEW forgotten \in Nat,
           Advance(s, n), BilledBut(c, forgotten),
           Shaped(s), s.cost = state.cost + told + c
    PROVE  BudgetInv'
<1>1. /\ state' = s /\ node' = n /\ spent' = s.cost /\ told' = 0
      /\ billed' = billed + c + forgotten /\ lost' = lost + forgotten
      /\ work' = [t \in TaskIds |->
                    IF n = "executor" /\ t \in Pending(s) THEN Waiting ELSE Idle]
  BY DEF Advance, BilledBut
<1>2. Waiting \in Progress /\ Idle \in Progress /\ Waiting.pc = "waiting" /\ Idle.pc = "idle"
  BY DEF Waiting, Idle, Progress
<1>3. /\ work' \in [TaskIds -> Progress]
      /\ \A t \in TaskIds : work'[t].pc \in {"idle", "waiting", "done"}
  BY <1>1, <1>2
<1>4. Quiet'
  BY <1>1, <1>2 DEF Quiet
<1>5. Holding' = {} /\ InFlight' = {} /\ SlotsHeld'
  BY <1>3, NobodyWorks
<1>6. OvershootBounded'
  BY <1>1, <1>5 DEF OvershootBounded
<1>7. /\ spent = state.cost + told /\ billed = spent + lost
      /\ spent \in Nat /\ told \in Nat /\ billed \in Nat /\ lost \in Nat /\ state.cost \in Nat
  BY DEF BudgetInv, Typed, CostAccounted
<1>8. /\ state'.cost \in Nat /\ spent' \in Nat /\ told' \in Nat /\ billed' \in Nat /\ lost' \in Nat
      /\ spent' = state'.cost + told' /\ billed' = spent' + lost'
  BY <1>1, <1>7
<1>9. Shaped(state)'
  BY <1>1 DEF Shaped
<1> QED
  BY <1>3, <1>4, <1>5, <1>6, <1>8, <1>9 DEF BudgetInv, Typed, CostAccounted

\* A node that forgets nothing.
LEMMA NodeStep ==
    ASSUME BudgetInv, NEW s, NEW n, NEW c \in Nat, Advance(s, n), Billed(c),
           Shaped(s), s.cost = state.cost + told + c
    PROVE  BudgetInv'
<1>1. billed \in Nat /\ lost \in Nat
  BY DEF BudgetInv, Typed
<1>2. billed' = billed + c + 0 /\ lost' = lost + 0
  BY <1>1 DEF Billed
<1> QED
  BY <1>2, ForgetfulStep DEF BilledBut

\* A node that raises leaves the state as it was, and what was spent is lost.
LEMMA RaisedStep == ASSUME BudgetInv, NEW c \in Nat, Raised(c) PROVE BudgetInv'
<1>1. /\ node' = "raised" /\ work' = [t \in TaskIds |-> Idle] /\ spent' = state.cost /\ told' = 0
      /\ billed' = billed + c /\ lost' = lost + told + c /\ state' = state
  BY DEF Raised
<1>2. Idle \in Progress /\ Idle.pc = "idle"
  BY DEF Idle, Progress
<1>3. work' \in [TaskIds -> Progress] /\ \A t \in TaskIds : work'[t].pc = "idle"
  BY <1>1, <1>2
<1>4. Quiet'
  BY <1>1, <1>3 DEF Quiet
<1>5. Holding' = {} /\ InFlight' = {} /\ SlotsHeld'
  BY <1>3, NobodyWorks
<1>6. OvershootBounded'
  BY <1>1, <1>5 DEF OvershootBounded
<1>7. /\ spent = state.cost + told /\ billed = spent + lost
      /\ spent \in Nat /\ told \in Nat /\ billed \in Nat /\ lost \in Nat /\ state.cost \in Nat
  BY DEF BudgetInv, Typed, CostAccounted
<1>8. /\ state'.cost \in Nat /\ spent' \in Nat /\ told' \in Nat /\ billed' \in Nat /\ lost' \in Nat
      /\ spent' = state'.cost + told' /\ billed' = spent' + lost'
  BY <1>1, <1>7
<1>9. Shaped(state)'
  BY <1>1 DEF BudgetInv, Typed, Shaped
<1> QED
  BY <1>3, <1>4, <1>5, <1>6, <1>8, <1>9 DEF BudgetInv, Typed, CostAccounted

\* Outside the executor no spending is untold.
LEMMA NothingUntold ==
    ASSUME BudgetInv, node # "executor"
    PROVE  Shaped(state) /\ state.cost \in Nat /\ told = 0 /\ state.cost + told = state.cost
BY DEF BudgetInv, Typed, Quiet

\* A planner adds to the state what its one or two calls have cost.
LEMMA PlannerStep == ASSUME BudgetInv, Planner PROVE BudgetInv'
<1>0. \E tasks, error : \E c \in Nat : PlannerReturns(tasks, error, c)
  <2>1. CASE \E tasks \in {Proposal, <<>>}, c \in Prices : PlannerReturns(tasks, "none", c)
    BY <2>1, Sums
  <2>2. CASE \E tasks \in {Proposal, <<>>}, c \in Charges, d \in Prices :
                PlannerReturns(tasks, "none", c + d)
    BY <2>2, Sums
  <2>3. CASE PlannerReturns(<<>>, "planner", 0)
    BY <2>3
  <2>4. CASE \E c, d \in Charges : PlannerReturns(<<>>, "planner", c + d)
    BY <2>4, Sums
  <2> QED
    BY <2>1, <2>2, <2>3, <2>4 DEF Planner
<1>2. node # "executor"
  BY DEF Planner
<1>1. PICK tasks, error, c : c \in Nat /\ PlannerReturns(tasks, error, c)
  BY <1>0
<1> DEFINE s == [state EXCEPT !.tasks = tasks, !.error = error, !.cost = @ + c]
<1>3. Advance(s, RouteAfterPlanner(s)) /\ Billed(c)
  BY <1>1 DEF PlannerReturns
<1>4. Shaped(state) /\ state.cost + told = state.cost
  BY <1>2, NothingUntold
<1>5. Shaped(s) /\ s.cost = state.cost + c
  BY <1>4 DEF Shaped
<1> HIDE DEF s
<1> QED
  BY <1>3, <1>1, <1>4, <1>5, NodeStep

\* The plan gate changes the tasks, and no sum.
LEMMA PlanGateStep == ASSUME BudgetInv, PlanGate PROVE BudgetInv'
<1>1. PICK included \in SUBSET TaskIds :
         LET s == [state EXCEPT !.tasks = Among(@, included)]
         IN  Advance(s, RouteAfterPlanGate(s))
  BY DEF PlanGate
<1> DEFINE s == [state EXCEPT !.tasks = Among(@, included)]
<1>2. Advance(s, RouteAfterPlanGate(s))
  BY <1>1
<1>3. node # "executor" /\ billed' = billed + 0 /\ lost' = lost
  BY DEF PlanGate, BudgetInv, Typed
<1>4. Shaped(s) /\ s.cost = state.cost + told + 0
  BY <1>3, NothingUntold DEF Shaped
<1> HIDE DEF s
<1> QED
  BY <1>2, <1>3, <1>4, NodeStep DEF Billed

\* The executor puts into the state what its tasks have told it.
LEMMA ExecutorStep == ASSUME BudgetInv, ExecutorReturns PROVE BudgetInv'
<1> DEFINE s == [state EXCEPT !.evidence = Merged(state), !.round = @ + 1,
                              !.sourcesSeen = @ \/ \E t \in TaskIds : work[t].seen,
                              !.cost = @ + told]
<1>1. Advance(s, "critic") /\ billed' = billed /\ lost' = lost
  BY DEF ExecutorReturns
<1>2. Shaped(state) /\ state.cost \in Nat /\ told \in Nat /\ billed \in Nat
  BY DEF BudgetInv, Typed
<1>3. Shaped(s) /\ s.cost = state.cost + told
  BY <1>2 DEF Shaped
<1>4. s.cost = state.cost + told + 0 /\ billed' = billed + 0
  BY <1>1, <1>2, <1>3
<1> HIDE DEF s
<1> QED
  BY <1>1, <1>3, <1>4, NodeStep DEF Billed

\* A critic pays for the verdicts it asks for.
LEMMA CriticStep == ASSUME BudgetInv, PlanInv, Critic PROVE BudgetInv'
<1>1. PICK p, r, c : LET s == [state EXCEPT !.passed = p, !.retries = r, !.cost = @ + c]
                     IN  c \in Nat /\ Advance(s, RouteAfterCritic(s)) /\ Billed(c)
  <2> DEFINE pending == Pending(state)
             graded  == {t \in pending : MinSources = 0 \/ Len(Gathered(state, t)) >= MinSources}
             retries(passed) == [t \in TaskIds |->
                IF t \in pending \ passed THEN state.retries[t] + 1 ELSE state.retries[t]]
             s(passed, c) == [state EXCEPT !.passed = @ \cup passed, !.retries = retries(passed),
                                           !.cost = @ + c]
  <2>1. PICK passed \in SUBSET graded :
          \E c \in (Cardinality(passed) * MinPrice)..(Cardinality(graded) * MaxPrice) :
             Advance(s(passed, c), RouteAfterCritic(s(passed, c))) /\ Billed(c)
    BY DEF Critic
  <2>2. PICK c \in (Cardinality(passed) * MinPrice)..(Cardinality(graded) * MaxPrice) :
             Advance(s(passed, c), RouteAfterCritic(s(passed, c))) /\ Billed(c)
    BY <2>1
  <2>3. IsFiniteSet(passed) /\ Cardinality(passed) \in Nat
    <3>1. Range(state.tasks) \subseteq TaskIds
      BY PlanParts DEF Range
    <3>2. passed \subseteq TaskIds
      BY <3>1 DEF Pending
    <3>. QED  BY <3>2, TasksFinite, FS_Subset, FS_CardinalityType
  <2>4. Cardinality(passed) * MinPrice \in Nat
    BY <2>3, ConstantTypes
  <2>5. c \in Nat
    BY <2>4
  <2> HIDE DEF retries
  <2> QED
    BY <2>2, <2>5
<1> DEFINE s == [state EXCEPT !.passed = p, !.retries = r, !.cost = @ + c]
<1>2. c \in Nat /\ Advance(s, RouteAfterCritic(s)) /\ Billed(c)
  BY <1>1
<1>3. Shaped(state) /\ state.cost + told = state.cost
  BY NothingUntold DEF Critic
<1>4. Shaped(s) /\ s.cost = state.cost + c
  BY <1>3 DEF Shaped
<1> HIDE DEF s
<1> QED
  BY <1>2, <1>3, <1>4, NodeStep

\* The detector adds to the state what its call has cost.
LEMMA DetectorStep == ASSUME BudgetInv, ContradictionDetector PROVE BudgetInv'
<1>1. PICK c \in Charges, found \in BOOLEAN :
         /\ Advance([state EXCEPT !.cost = @ + c, !.conflicts = found], "synthesizer")
         /\ Billed(c)
  BY DEF ContradictionDetector
<1> DEFINE s == [state EXCEPT !.cost = @ + c, !.conflicts = found]
<1>2. c \in Nat /\ Advance(s, "synthesizer") /\ Billed(c)
  BY <1>1, Sums
<1>3. Shaped(state) /\ state.cost + told = state.cost
  BY NothingUntold DEF ContradictionDetector
<1>4. Shaped(s) /\ s.cost = state.cost + c
  BY <1>3 DEF Shaped
<1> HIDE DEF s
<1> QED
  BY <1>2, <1>3, <1>4, NodeStep

\* The synthesizer adds to the state what its calls have cost, but for those of a
\* claim check that failed.
LEMMA SynthesizerStep == ASSUME BudgetInv, Synthesizer PROVE BudgetInv'
<1>1. PICK status, c, forgotten : LET s == Synthesized(status, c)
                                  IN  /\ c \in Nat /\ forgotten \in Nat
                                      /\ Advance(s, RouteAfterSynthesizer(s)) /\ BilledBut(c, forgotten)
  <2>1. PICK draft \in Prices, repair \in Charges, check \in Charges, status \in Groundings :
                LET cost == draft + repair + check
                    s    == Synthesized(status, cost)
                IN  /\ Advance(s, RouteAfterSynthesizer(s))
                    /\ \E forgotten \in Forgotten(check) : BilledBut(cost, forgotten)
    BY DEF Synthesizer
  <2>2. draft + repair + check \in Nat
    BY Sums
  <2>3. Forgotten(check) \subseteq Nat
    BY Sums DEF Forgotten
  <2> QED
    BY <2>1, <2>2, <2>3
<1> DEFINE s == Synthesized(status, c)
<1>2. /\ c \in Nat /\ forgotten \in Nat
      /\ Advance(s, RouteAfterSynthesizer(s)) /\ BilledBut(c, forgotten)
  BY <1>1
<1>3. Shaped(state) /\ state.cost + told = state.cost
  BY NothingUntold DEF Synthesizer
<1>4. Shaped(s) /\ s.cost = state.cost + c
  BY <1>3 DEF Shaped, Synthesized
<1> HIDE DEF s
<1> QED
  BY <1>2, <1>3, <1>4, ForgetfulStep

\* The review gate, the finalizer and the failer call no model.
LEMMA FreeStep ==
    ASSUME BudgetInv, node # "executor", NEW s, NEW n, Advance(s, n), Billed(0),
           Shaped(s), s.cost = state.cost
    PROVE  BudgetInv'
<1>1. state.cost \in Nat /\ state.cost + told = state.cost
  BY NothingUntold
<1>2. s.cost = state.cost + told + 0
  BY <1>1
<1> QED
  BY <1>2, NodeStep

\* The review gate raises, goes on or sends back, and no sum changes.
LEMMA HitlGateStep == ASSUME BudgetInv, HitlGate PROVE BudgetInv'
<1>1. node # "executor" /\ Shaped(state)
  BY NothingUntold DEF HitlGate
<1>2. CASE Raised(0)
  BY <1>2, RaisedStep
<1>3. CASE Advance(state, "finalizer") /\ Billed(0)
  BY <1>1, <1>3, FreeStep
<1>4. CASE Advance([state EXCEPT !.reworks = @ + 1], "synthesizer") /\ Billed(0)
  <2> DEFINE s == [state EXCEPT !.reworks = @ + 1]
  <2>1. Shaped(s) /\ s.cost = state.cost
    BY <1>1 DEF Shaped
  <2>2. Advance(s, "synthesizer") /\ Billed(0)
    BY <1>4
  <2> HIDE DEF s
  <2> QED
    BY <1>1, <2>1, <2>2, FreeStep
<1> QED
  BY <1>2, <1>3, <1>4 DEF HitlGate

\* The last node of a run changes no sum.
LEMMA EndStep == ASSUME BudgetInv, Finalizer \/ Failer PROVE BudgetInv'
<1>1. node # "executor" /\ Shaped(state)
  BY NothingUntold DEF Finalizer, Failer
<1>2. CASE Finalizer
  <2> DEFINE s == [state EXCEPT !.final = state.draft]
  <2>1. Shaped(s) /\ s.cost = state.cost
    BY <1>1 DEF Shaped
  <2>2. Advance(s, "end") /\ Billed(0)
    BY <1>2 DEF Finalizer
  <2> HIDE DEF s
  <2> QED
    BY <1>1, <2>1, <2>2, FreeStep
<1>3. CASE Failer
  <2> DEFINE s == [state EXCEPT !.error = Reason(state)]
  <2>1. Shaped(s) /\ s.cost = state.cost
    BY <1>1 DEF Shaped
  <2>2. Advance(s, "end") /\ Billed(0)
    BY <1>3 DEF Failer
  <2> HIDE DEF s
  <2> QED
    BY <1>1, <2>1, <2>2, FreeStep
<1> QED
  BY <1>2, <1>3

\* A call that raises in a task or in the synthesizer.
LEMMA FailsStep ==
    ASSUME BudgetInv, SynthesizerFails \/ \E t \in TaskIds : CallFails(t) PROVE BudgetInv'
BY RaisedStep, Sums DEF SynthesizerFails, CallFails

\* The clock and the token count change nothing the budget is made of.
LEMMA IdleStep == ASSUME BudgetInv, PassLimit \/ UNCHANGED vars PROVE BudgetInv'
<1>1. UNCHANGED <<node, state, work, spent, told, billed, lost>>
  BY DEF PassLimit, vars
<1>2. Holding' = Holding /\ InFlight' = InFlight
  BY <1>1 DEF Holding, InFlight
<1>3. SlotsHeld' /\ OvershootBounded'
  BY <1>1, <1>2 DEF BudgetInv, SlotsHeld, OvershootBounded, Slots
<1>4. Typed' /\ Quiet' /\ CostAccounted'
  BY <1>1 DEF BudgetInv, Typed, Shaped, Quiet, CostAccounted
<1> QED
  BY <1>3, <1>4 DEF BudgetInv

-----------------------------------------------------------------------------
(* The theorem *)

\* A run starts with nothing spent and nobody working.
LEMMA InitBudget == ASSUME Init PROVE BudgetInv
<1>1. Shaped(state) /\ state.cost = 0
  BY DEF Init, Shaped
<1>2. work \in [TaskIds -> Progress] /\ \A t \in TaskIds : work[t].pc = "idle"
  BY DEF Init, Idle, Progress
<1>3. Typed /\ Quiet /\ CostAccounted
  BY <1>1, <1>2 DEF Init, Typed, Quiet, CostAccounted
<1>4. Holding = {} /\ InFlight = {}
  BY <1>2 DEF Holding, InFlight
<1>5. SlotsHeld
  BY <1>4, FS_EmptySet, ConstantTypes DEF SlotsHeld
<1>6. OvershootBounded
  BY <1>1, <1>4 DEF Init, OvershootBounded
<1> QED
  BY <1>3, <1>5, <1>6 DEF BudgetInv

\* Every step keeps the budget's invariant.
LEMMA NextBudget == ASSUME BudgetInv, PlanInv, [Next]_vars PROVE BudgetInv'
<1>1. CASE \E t \in TaskIds : Research(t)
  BY <1>1, StartStep, ThinkStep, AnswerStep, ForcedStep DEF Research
<1> QED
  BY <1>1, PlannerStep, PlanGateStep, ExecutorStep, CriticStep, DetectorStep, SynthesizerStep,
     HitlGateStep, EndStep, FailsStep, IdleStep DEF Next, Run

\* The sums of a run and the slots of its round, in every state of every run.
THEOREM BudgetInvariant == Spec => []BudgetInv
<1>1. Init => BudgetInv
  BY InitBudget
<1>2. BudgetInv /\ PlanInv /\ [Next]_vars => BudgetInv'
  BY NextBudget
<1> QED
  BY <1>1, <1>2, PlanInvariant, PTL DEF Spec

\* "Overshoot is bounded by the calls already in flight": whatever the plan, the slots,
\* the limit and the prices, the round's spending and the calls under way stay below
\* the cap and one call for each slot (_BudgetGuard, exceeded).
THEOREM OvershootHolds == Spec => []OvershootBounded
<1>1. BudgetInv => OvershootBounded
  BY DEF BudgetInv
<1> QED
  BY <1>1, BudgetInvariant, PTL

\* "Bill one call, once": the run's total is what its calls have cost, but for what
\* nodes that raised had spent (charge, _acc).
THEOREM BillingHolds == Spec => []CostAccounted
<1>1. BudgetInv => CostAccounted
  BY DEF BudgetInv
<1> QED
  BY <1>1, BudgetInvariant, PTL

-----------------------------------------------------------------------------
(* What a draft rests on *)

\* The fields that the routes read are there.
HasFields(s) ==
    /\ s = [f \in DOMAIN s |-> s[f]]
    /\ {"tasks", "evidence", "draft", "grounding"} \subseteq DOMAIN s

\* What each node may rely on in the state it is given.
Founded(n, s) ==
    /\ HasFields(s)
    /\ n \in {"plan_gate", "executor", "critic", "contradiction_detector", "synthesizer",
              "hitl_gate", "finalizer"} => s.tasks # <<>>
    /\ n \in {"contradiction_detector", "synthesizer", "hitl_gate", "finalizer"} =>
          s.evidence # <<>>
    /\ n \in {"hitl_gate", "finalizer"} => ~GroundingRefusal(s)

FoundedInv == Founded(node, state)

\* A node that returns hands on what the next one relies on.
LEMMA FoundedAdvance ==
    ASSUME NEW s, NEW n, Founded(n, s), Advance(s, n)
    PROVE  FoundedInv'
BY DEF FoundedInv, Advance, Founded, HasFields, GroundingRefusal

\* A plan is worked on, or gated, only if it has tasks.
LEMMA FoundedPlan ==
    ASSUME FoundedInv, Planner \/ PlanGate
    PROVE  FoundedInv'
<1>1. HasFields(state)
  BY DEF FoundedInv, Founded
<1>2. ASSUME NEW tasks, NEW error, NEW cost, PlannerReturns(tasks, error, cost)
      PROVE  FoundedInv'
  <2>. DEFINE s == [state EXCEPT !.tasks = tasks, !.error = error, !.cost = @ + cost]
  <2>1. HasFields(s)
    BY <1>1 DEF HasFields
  <2>2. Advance(s, RouteAfterPlanner(s))
    BY <1>2 DEF PlannerReturns
  <2>. HIDE DEF s
  <2>3. Founded(RouteAfterPlanner(s), s)
    BY <2>1 DEF Founded, RouteAfterPlanner
  <2>. QED  BY <2>2, <2>3, FoundedAdvance
<1>3. CASE Planner
  BY <1>2, <1>3 DEF Planner
<1>4. CASE PlanGate
  <2>1. PICK included \in SUBSET TaskIds :
          LET s == [state EXCEPT !.tasks = Among(@, included)]
          IN  Advance(s, RouteAfterPlanGate(s))
    BY <1>4 DEF PlanGate
  <2>. DEFINE s == [state EXCEPT !.tasks = Among(@, included)]
  <2>2. HasFields(s)
    BY <1>1 DEF HasFields
  <2>3. Advance(s, RouteAfterPlanGate(s))
    BY <2>1
  <2>. HIDE DEF s
  <2>4. Founded(RouteAfterPlanGate(s), s)
    BY <2>2 DEF Founded, RouteAfterPlanGate
  <2>. QED  BY <2>3, <2>4, FoundedAdvance
<1>. QED  BY <1>3, <1>4

\* The critic lets nothing through to a draft that has no evidence.
LEMMA FoundedResearch ==
    ASSUME FoundedInv, ExecutorReturns \/ Critic \/ ContradictionDetector
    PROVE  FoundedInv'
<1>1. HasFields(state)
  BY DEF FoundedInv, Founded
<1>2. CASE ExecutorReturns
  <2>. DEFINE s == [state EXCEPT !.evidence = Merged(state), !.round = @ + 1,
                                 !.sourcesSeen = @ \/ \E t \in TaskIds : work[t].seen,
                                 !.cost = @ + told]
  <2>1. HasFields(s) /\ s.tasks = state.tasks
    BY <1>1 DEF HasFields
  <2>2. Advance(s, "critic") /\ state.tasks # <<>>
    BY <1>2 DEF ExecutorReturns, FoundedInv, Founded
  <2>. HIDE DEF s
  <2>3. Founded("critic", s)
    BY <2>1, <2>2 DEF Founded
  <2>. QED  BY <2>2, <2>3, FoundedAdvance
<1>3. CASE Critic
  <2>. DEFINE pending == Pending(state)
              retries(passed) == [t \in TaskIds |->
                 IF t \in pending \ passed THEN state.retries[t] + 1 ELSE state.retries[t]]
              s(passed, cost) == [state EXCEPT !.passed = @ \cup passed,
                                               !.retries = retries(passed), !.cost = @ + cost]
  <2>1. PICK passed, cost : Advance(s(passed, cost), RouteAfterCritic(s(passed, cost)))
    BY <1>3 DEF Critic
  <2>. HIDE DEF retries
  <2>2. HasFields(s(passed, cost)) /\ s(passed, cost).tasks = state.tasks
    BY <1>1 DEF HasFields
  <2>3. state.tasks # <<>>
    BY <1>3 DEF Critic, FoundedInv, Founded
  <2>. HIDE DEF s
  <2>4. Founded(RouteAfterCritic(s(passed, cost)), s(passed, cost))
    BY <2>2, <2>3 DEF Founded, RouteAfterCritic
  <2>. QED  BY <2>1, <2>4, FoundedAdvance
<1>4. CASE ContradictionDetector
  <2>1. PICK c, found : Advance([state EXCEPT !.cost = @ + c, !.conflicts = found], "synthesizer")
    BY <1>4 DEF ContradictionDetector
  <2>. DEFINE s == [state EXCEPT !.cost = @ + c, !.conflicts = found]
  <2>2. HasFields(s) /\ s.tasks = state.tasks /\ s.evidence = state.evidence
    BY <1>1 DEF HasFields
  <2>3. Advance(s, "synthesizer") /\ state.tasks # <<>> /\ state.evidence # <<>>
    BY <1>4, <2>1 DEF ContradictionDetector, FoundedInv, Founded
  <2>. HIDE DEF s
  <2>4. Founded("synthesizer", s)
    BY <2>2, <2>3 DEF Founded
  <2>. QED  BY <2>3, <2>4, FoundedAdvance
<1>. QED  BY <1>2, <1>3, <1>4

\* A draft that is not the one found grounded goes no further, and what the gate
\* sends back or lets through is what it was shown.
LEMMA FoundedDraft ==
    ASSUME FoundedInv, Synthesizer \/ HitlGate
    PROVE  FoundedInv'
<1>1. HasFields(state)
  BY DEF FoundedInv, Founded
<1>2. CASE Synthesizer
  <2>1. PICK status, cost : Advance(Synthesized(status, cost),
                                    RouteAfterSynthesizer(Synthesized(status, cost)))
    BY <1>2 DEF Synthesizer
  <2>. DEFINE s == Synthesized(status, cost)
  <2>2. HasFields(s) /\ s.tasks = state.tasks /\ s.evidence = state.evidence
    BY <1>1 DEF HasFields, Synthesized
  <2>3. state.tasks # <<>> /\ state.evidence # <<>> /\ Advance(s, RouteAfterSynthesizer(s))
    BY <1>2, <2>1 DEF Synthesizer, FoundedInv, Founded
  <2>. HIDE DEF s
  <2>4. Founded(RouteAfterSynthesizer(s), s)
    BY <2>2, <2>3 DEF Founded, RouteAfterSynthesizer
  <2>. QED  BY <2>3, <2>4, FoundedAdvance
<1>3. CASE HitlGate
  <2>1. CASE Raised(0)
    BY <1>1, <2>1 DEF Raised, FoundedInv, Founded, HasFields
  <2>2. CASE Advance(state, "finalizer")
    <3>1. Founded("finalizer", state)
      BY <1>3 DEF HitlGate, FoundedInv, Founded
    <3>. QED  BY <2>2, <3>1, FoundedAdvance
  <2>3. CASE Advance([state EXCEPT !.reworks = @ + 1], "synthesizer")
    <3>. DEFINE s == [state EXCEPT !.reworks = @ + 1]
    <3>1. HasFields(s) /\ s.tasks = state.tasks /\ s.evidence = state.evidence
      BY <1>1 DEF HasFields
    <3>2. state.tasks # <<>> /\ state.evidence # <<>> /\ Advance(s, "synthesizer")
      BY <1>3, <2>3 DEF HitlGate, FoundedInv, Founded
    <3>. HIDE DEF s
    <3>3. Founded("synthesizer", s)
      BY <3>1, <3>2 DEF Founded
    <3>. QED  BY <3>2, <3>3, FoundedAdvance
  <2>. QED  BY <1>3, <2>1, <2>2, <2>3 DEF HitlGate
<1>. QED  BY <1>2, <1>3

\* An end relies on nothing but the record, and within a round it stays as it is.
LEMMA FoundedRest ==
    ASSUME FoundedInv,
           \/ Finalizer \/ Failer \/ SynthesizerFails \/ PassLimit \/ UNCHANGED vars
           \/ \E t \in TaskIds : Research(t) \/ CallFails(t)
    PROVE  FoundedInv'
<1>1. HasFields(state)
  BY DEF FoundedInv, Founded
<1>2. CASE Finalizer \/ Failer
  <2>1. \E field \in {"final", "error"} : \E x : Advance([state EXCEPT ![field] = x], "end")
    BY <1>2 DEF Finalizer, Failer
  <2>2. PICK field \in {"final", "error"} : \E x : Advance([state EXCEPT ![field] = x], "end")
    BY <2>1
  <2>3. PICK x : Advance([state EXCEPT ![field] = x], "end")
    BY <2>2
  <2>. DEFINE s == [state EXCEPT ![field] = x]
  <2>4. HasFields(s)
    BY <1>1 DEF HasFields
  <2>5. Founded("end", s)
    BY <2>4 DEF Founded
  <2>. QED  BY <2>3, <2>5, FoundedAdvance
<1>3. CASE SynthesizerFails \/ \E t \in TaskIds : CallFails(t)
  <2>1. node' = "raised" /\ state' = state
    BY <1>3 DEF SynthesizerFails, CallFails, Raised
  <2>. QED  BY <1>1, <2>1 DEF FoundedInv, Founded, HasFields
<1>4. CASE PassLimit \/ UNCHANGED vars \/ \E t \in TaskIds : Research(t)
  <2>1. UNCHANGED <<node, state>>
    BY <1>4 DEF PassLimit, vars, Research, StartTask, Think, Answer, ForcedSubmit, Charge
  <2>. QED  BY <2>1 DEF FoundedInv, Founded, HasFields, GroundingRefusal
<1>. QED  BY <1>2, <1>3, <1>4

\* "A run that researched nothing must not reach the synthesizer", and a
\* selected-files run comes to its review gate, or is finalized, only with the very
\* text that was found grounded: for any plan, limits and number of reworks
\* (route_after_plan_gate, route_after_critic, _grounding_refusal).
THEOREM DraftsAreGrounded == Spec => []DraftIsGrounded
<1>1. Init => FoundedInv
  BY DEF Init, FoundedInv, Founded, HasFields
<1>2. FoundedInv /\ [Next]_vars => FoundedInv'
  BY FoundedPlan, FoundedResearch, FoundedDraft, FoundedRest DEF Next, Run
<1>3. FoundedInv => DraftIsGrounded
  BY DEF FoundedInv, Founded, GroundingRefusal, DraftIsGrounded
<1>. QED  BY <1>1, <1>2, <1>3, PTL DEF Spec

-----------------------------------------------------------------------------
(* TaskEvidence: where the words of a text come from *)

LEMMA SpotIs ==
    ASSUME NEW T, NEW x
    PROVE  x \in Spots(T) <=> \E t \in T : \E o \in DOMAIN t : x = <<t, o>>
<1>1. ASSUME x \in Spots(T) PROVE \E t \in T : \E o \in DOMAIN t : x = <<t, o>>
  <2>1. PICK t \in T : x \in {t} \X DOMAIN t
    BY <1>1 DEF Spots
  <2>. QED  BY <2>1
<1>2. ASSUME NEW t \in T, NEW o \in DOMAIN t, x = <<t, o>> PROVE x \in Spots(T)
  <2>1. x \in {t} \X DOMAIN t
    BY <1>2
  <2>. QED  BY <2>1 DEF Spots
<1>. QED  BY <1>1, <1>2

\* The text is one or more of the texts in T, end to end, or empty.
Whole(text, T) ==
    /\ text \in Seq(STRING)
    /\ text # <<>> =>
         \E way \in [DOMAIN text -> Spots(T)] :
            /\ Traces(way, text)
            /\ way[1][2] = 1
            /\ way[Len(text)][2] = Len(way[Len(text)][1])

LEMMA EmptyIsWhole ==
    ASSUME NEW T
    PROVE  Whole(<<>>, T)
BY DEF Whole

LEMMA OneIsWhole ==
    ASSUME NEW T, NEW text \in T, text \in Seq(STRING)
    PROVE  Whole(text, T)
<1>. SUFFICES ASSUME text # <<>>
     PROVE \E way \in [DOMAIN text -> Spots(T)] :
             Traces(way, text) /\ way[1][2] = 1 /\ way[Len(text)][2] = Len(way[Len(text)][1])
  BY DEF Whole
<1>. DEFINE way == [k \in DOMAIN text |-> <<text, k>>]
<1>1. \A k \in DOMAIN text : way[k] \in Spots(T) /\ way[k] = <<text, k>> /\ k \in Nat
  BY SpotIs
<1>2. way \in [DOMAIN text -> Spots(T)]
  BY <1>1
<1>3. 1 \in DOMAIN text /\ Len(text) \in DOMAIN text
  OBVIOUS
<1>. HIDE DEF way
<1>4. Traces(way, text)
  <2>1. \A k \in DOMAIN text : way[k][1][way[k][2]] = text[k]
    BY <1>1
  <2>2. ASSUME NEW k \in DOMAIN text, k + 1 \in DOMAIN text PROVE Goes(way[k], way[k + 1])
    <3>1. way[k] = <<text, k>> /\ way[k + 1] = <<text, k + 1>>
      BY <1>1, <2>2
    <3>. QED  BY <3>1 DEF Goes
  <2>. QED  BY <2>1, <2>2 DEF Traces
<1>. QED  BY <1>1, <1>2, <1>3, <1>4

LEMMA MoreIsWhole ==
    ASSUME NEW T, NEW U, T \subseteq U, NEW text, Whole(text, T)
    PROVE  Whole(text, U)
<1>1. Spots(T) \subseteq Spots(U)
  BY SpotIs
<1>. QED  BY <1>1 DEF Whole

LEMMA JoinIsWhole ==
    ASSUME NEW T, NEW a, NEW b, Whole(a, T), Whole(b, T)
    PROVE  Whole(a \o b, T)
<1>1. a \in Seq(STRING) /\ b \in Seq(STRING)
  BY DEF Whole
<1>2. CASE a = <<>>
  <2>1. a \o b = b
    BY <1>1, <1>2
  <2>. QED  BY <2>1
<1>3. CASE b = <<>>
  <2>1. a \o b = a
    BY <1>1, <1>3
  <2>. QED  BY <2>1
<1>4. CASE a # <<>> /\ b # <<>>
  <2>1. PICK l, m, c : l = Len(a) /\ m = Len(b) /\ c = a \o b
    OBVIOUS
  <2>2. /\ l \in Nat \ {0} /\ m \in Nat \ {0} /\ DOMAIN a = 1..l /\ DOMAIN b = 1..m
        /\ c \in Seq(STRING) /\ Len(c) = l + m /\ DOMAIN c = 1..(l + m) /\ c # <<>>
        /\ \A k \in 1..l : c[k] = a[k]
        /\ \A k \in 1..m : c[l + k] = b[k]
    BY <1>1, <1>4, <2>1
  <2>3. PICK v \in [1..l -> Spots(T)] : Traces(v, a) /\ v[1][2] = 1 /\ v[l][2] = Len(v[l][1])
    BY <1>4, <2>1, <2>2 DEF Whole
  <2>4. PICK w \in [1..m -> Spots(T)] : Traces(w, b) /\ w[1][2] = 1 /\ w[m][2] = Len(w[m][1])
    BY <1>4, <2>1, <2>2 DEF Whole
  <2>. DEFINE way == [k \in 1..(l + m) |-> IF k <= l THEN v[k] ELSE w[k - l]]
  <2>5. \A k \in 1..(l + m) : (k <= l => k \in 1..l) /\ (~ k <= l => k - l \in 1..m)
    BY <2>2
  <2>6. way \in [1..(l + m) -> Spots(T)]
    BY <2>3, <2>4, <2>5
  <2>7. \A k \in 1..l : k \in 1..(l + m) /\ way[k] = v[k]
    BY <2>2
  <2>8. \A k \in 1..m : l + k \in 1..(l + m) /\ way[l + k] = w[k]
    <3>. TAKE k \in 1..m
    <3>1. l + k \in 1..(l + m) /\ ~ l + k <= l /\ (l + k) - l = k
      BY <2>2
    <3>. QED  BY <3>1
  <2>. HIDE DEF way
  <2>9. ASSUME NEW k \in 1..(l + m) PROVE way[k][1][way[k][2]] = c[k]
    <3>1. CASE k <= l
      <4>1. k \in 1..l
        BY <2>5, <3>1
      <4>2. way[k] = v[k] /\ c[k] = a[k]
        BY <2>2, <2>7, <4>1
      <4>3. v[k][1][v[k][2]] = a[k]
        BY <2>2, <2>3, <4>1 DEF Traces
      <4>. QED  BY <4>2, <4>3
    <3>2. CASE ~ k <= l
      <4>1. PICK j \in 1..m : j = k - l /\ k = l + j
        BY <2>2, <2>5, <3>2
      <4>2. way[l + j] = w[j] /\ c[l + j] = b[j]
        BY <2>2, <2>8
      <4>3. w[j][1][w[j][2]] = b[j]
        BY <2>2, <2>4 DEF Traces
      <4>. QED  BY <4>1, <4>2, <4>3
    <3>. QED  BY <3>1, <3>2
  <2>10. ASSUME NEW k \in 1..(l + m), k + 1 \in 1..(l + m) PROVE Goes(way[k], way[k + 1])
    <3>1. CASE k < l
      <4>1. k \in 1..l /\ k + 1 \in 1..l
        BY <2>2, <3>1
      <4>2. way[k] = v[k] /\ way[k + 1] = v[k + 1]
        BY <2>7, <4>1
      <4>3. Goes(v[k], v[k + 1])
        BY <2>2, <2>3, <4>1 DEF Traces
      <4>. QED  BY <4>2, <4>3
    <3>2. CASE k = l
      <4>1. l \in 1..l /\ 1 \in 1..m
        BY <2>2
      <4>2. way[k] = v[l] /\ way[k + 1] = w[1]
        BY <2>7, <2>8, <3>2, <4>1
      <4>. QED  BY <2>3, <2>4, <4>2 DEF Goes
    <3>3. CASE k > l
      <4>1. PICK j \in 1..m : j = k - l /\ k = l + j
        BY <2>2, <3>3
      <4>2. j + 1 \in 1..m /\ k + 1 = l + (j + 1)
        BY <2>2, <2>10, <4>1
      <4>3. way[k] = w[j] /\ way[k + 1] = w[j + 1]
        BY <2>8, <4>1, <4>2
      <4>4. Goes(w[j], w[j + 1])
        BY <2>2, <2>4, <4>2 DEF Traces
      <4>. QED  BY <4>3, <4>4
    <3>. QED  BY <2>2, <3>1, <3>2, <3>3
  <2>11. way[1] = v[1] /\ way[l + m] = w[m]
    BY <2>2, <2>7, <2>8
  <2>12. Traces(way, c)
    BY <2>2, <2>9, <2>10 DEF Traces
  <2>13. Whole(c, T)
    <3>1. way[1][2] = 1 /\ way[l + m][2] = Len(way[l + m][1])
      BY <2>3, <2>4, <2>11
    <3>2. DOMAIN c = 1..(l + m) /\ Len(c) = l + m /\ c \in Seq(STRING)
      BY <2>2
    <3>3. way \in [DOMAIN c -> Spots(T)]
      BY <2>6, <3>2
    <3>. QED  BY <2>12, <3>1, <3>2, <3>3 DEF Whole
  <2>. QED  BY <2>1, <2>13
<1>. QED  BY <1>2, <1>3, <1>4

\* Whole texts end to end are a whole text.
LEMMA FlattenIsWhole ==
    ASSUME NEW T, NEW L \in Nat, NEW ss \in [1..L -> Seq(STRING)], \A n \in 1..L : Whole(ss[n], T)
    PROVE  Whole(FlattenSeq(ss), T)
<1>1. CASE L = 0
  <2>1. Len(ss) = 0 /\ ss = <<>>
    BY <1>1
  <2>2. FlattenSeq(ss) = <<>>
    BY <2>1 DEF FlattenSeq
  <2>. QED  BY <2>2, EmptyIsWhole
<1>2. CASE L # 0
  <2>1. PICK h : Lays(h, ss, L)
    <3>1. L \in Nat \ {0}
      BY <1>2
    <3>. QED  BY <3>1, LaidOut
  <2>. DEFINE Good == {n \in Nat : n \in 1..L => Whole(h[n], T)}
  <2>2. 0 \in Good
    OBVIOUS
  <2>3. ASSUME NEW n \in Nat, n \in Good PROVE n + 1 \in Good
    <3>. SUFFICES ASSUME n + 1 \in 1..L PROVE Whole(h[n + 1], T)
      OBVIOUS
    <3>1. CASE n = 0
      <4>1. h[n + 1] = ss[n + 1]
        BY <2>1, <3>1 DEF Lays
      <4>. QED  BY <4>1
    <3>2. CASE n # 0
      <4>1. n + 1 \in 2..L /\ (n + 1) - 1 = n /\ n \in 1..L
        BY <3>2
      <4>2. h[n + 1] = h[n] \o ss[n + 1]
        BY <2>1, <4>1 DEF Lays
      <4>3. Whole(h[n], T) /\ Whole(ss[n + 1], T)
        BY <2>3, <4>1
      <4>4. Whole(h[n] \o ss[n + 1], T)
        BY <4>3, JoinIsWhole
      <4>. QED  BY <4>2, <4>4
    <3>. QED  BY <3>1, <3>2
  <2>4. L \in Good
    <3>. HIDE DEF Good
    <3>. QED  BY <2>2, <2>3, Counting
  <2>5. Whole(h[L], T)
    BY <1>2, <2>4
  <2>. QED  BY <2>1, <2>5 DEF Lays
<1>. QED  BY <1>1, <1>2

\* What stands in a whole text can be traced through the texts it is made of.
LEMMA WithinIsSpliced ==
    ASSUME NEW T, NEW text, Whole(text, T), NEW quote \in Seq(STRING), Within(quote, text)
    PROVE  Spliced(quote, T)
<1>1. PICK n, m : n = Len(text) /\ m = Len(quote)
  OBVIOUS
<1>2. text \in Seq(STRING) /\ n \in Nat /\ m \in Nat /\ DOMAIN text = 1..n /\ DOMAIN quote = 1..m
  BY <1>1 DEF Whole
<1>3. PICK i \in 0..(n - m) : SubSeq(text, i + 1, i + m) = quote
  BY <1>1 DEF Within
<1>4. i \in Nat /\ i + m <= n
  BY <1>2, <1>3
<1>5. \A k \in 1..m : i + k \in 1..n /\ quote[k] = text[i + k]
  <2>. TAKE k \in 1..m
  <2>1. i + k \in 1..n
    BY <1>2, <1>4
  <2>2. SubSeq(text, i + 1, i + m)[k] = text[i + k]
    BY <1>2, <1>4
  <2>. QED  BY <1>3, <2>1, <2>2
<1>6. CASE m = 0
  <2>. DEFINE way == [k \in 1..m |-> <<>>]
  <2>1. way \in [1..m -> Spots(T)] /\ Traces(way, quote)
    BY <1>2, <1>6 DEF Traces
  <2>. QED  BY <1>2, <2>1 DEF Spliced
<1>7. CASE m # 0
  <2>1. text # <<>>
    BY <1>2, <1>4, <1>7, <1>1
  <2>2. PICK w \in [1..n -> Spots(T)] : Traces(w, text)
    BY <1>2, <2>1 DEF Whole
  <2>. DEFINE way == [k \in 1..m |-> w[i + k]]
  <2>3. way \in [1..m -> Spots(T)] /\ \A k \in 1..m : way[k] = w[i + k]
    BY <1>5, <2>2
  <2>. HIDE DEF way
  <2>4. \A k \in 1..m : way[k][1][way[k][2]] = quote[k]
    <3>. TAKE k \in 1..m
    <3>1. way[k] = w[i + k] /\ i + k \in 1..n /\ quote[k] = text[i + k]
      BY <1>5, <2>3
    <3>2. w[i + k][1][w[i + k][2]] = text[i + k]
      BY <1>2, <2>2, <3>1 DEF Traces
    <3>. QED  BY <3>1, <3>2
  <2>5. ASSUME NEW k \in 1..m, k + 1 \in 1..m PROVE Goes(way[k], way[k + 1])
    <3>1. i + k \in 1..n /\ i + (k + 1) \in 1..n /\ i + (k + 1) = (i + k) + 1
      BY <1>4, <1>5, <2>5
    <3>2. Goes(w[i + k], w[(i + k) + 1])
      BY <1>2, <2>2, <3>1 DEF Traces
    <3>. QED  BY <2>3, <2>5, <3>1, <3>2
  <2>. QED  BY <1>2, <2>3, <2>4, <2>5 DEF Spliced, Traces
<1>. QED  BY <1>6, <1>7

-----------------------------------------------------------------------------
(* TaskEvidence: what the tools answer *)

Reply  == [url : Addresses, text : Seq(STRING), opened : BOOLEAN]
Records == Seq([url : Addresses, text : Seq(STRING)])
Shelves == {<<>>} \cup {<<h>> : h \in WebHits}

\* A fetch returns a text, and none of a private address.
LEMMA FetchedIs ==
    ASSUME NEW url \in Addresses
    PROVE  /\ Fetched(url) \in Seq(STRING)
           /\ Kind[url] \in {"private", "corpus"} => Fetched(url) = <<>>
<1>. DEFINE S == [Addresses -> Seq(STRING)]
            Stands(u, text) == IF Kind[u] \in {"private", "corpus"} THEN <<>>
                               ELSE IF Kind[u] # "moved" THEN PageText[u] ELSE text
            At(prior, hops) == [u \in Addresses |->
              IF Kind[u] \in {"private", "corpus"} THEN <<>>
              ELSE IF Kind[u] # "moved" THEN PageText[u]
              ELSE IF hops = 0 THEN <<>> ELSE prior[MovedTo[u]]]
<1>. PICK M : M = MaxRedirects
  OBVIOUS
<1>1. M \in Nat /\ <<>> \in Seq(STRING) /\ \A u \in Addresses : PageText[u] \in Seq(STRING)
  BY TaskAssumption
<1>2. \A u \in Addresses : Kind[u] = "moved" => MovedTo[u] \in Addresses
  BY TaskAssumption
<1>. DEFINE b == [u \in Addresses |-> Stands(u, <<>>)]
            More(prior) == [u \in Addresses |-> Stands(u, prior[MovedTo[u]])]
<1>3. b \in S
  BY <1>1
<1>4. \A prior \in S : More(prior) \in S
  <2>. TAKE prior \in S
  <2>1. ASSUME NEW u \in Addresses PROVE Stands(u, prior[MovedTo[u]]) \in Seq(STRING)
    BY <1>1, <1>2
  <2>. HIDE DEF Stands
  <2>. QED  BY <2>1
<1>5. \A g : \A n \in Nat : n # 0 => At(g[n - 1], n) = More(g[n - 1])
  OBVIOUS
<1>6. \A g : At(g[0 - 1], 0) = b
  OBVIOUS
<1>. DEFINE turn == [n \in 1..M |-> [prior \in S |-> More(prior)]]
<1>. HIDE DEF S, At, More, b, Stands
<1>7. turn \in [1..M -> [S -> S]]
  BY <1>4
<1>8. \A n \in 1..M : \A prior \in S : turn[n][prior] = More(prior)
  OBVIOUS
<1>. HIDE DEF turn
<1>9. PICK f \in [0..M -> S] : f[0] = b /\ \A n \in 1..M : f[n] = turn[n][f[n - 1]]
  <2>1. PICK SS, bb, tt : SS = S /\ bb = b /\ tt = turn
    OBVIOUS
  <2>2. Loop(M, SS, bb, tt)
    BY <1>1, <1>3, <1>7, <2>1 DEF Loop
  <2>3. PICK f : Looped(f, M, SS, bb, tt)
    BY <2>2, Iterates
  <2>. QED  BY <2>1, <2>3 DEF Looped
<1>10. \A n \in 1..M : f[n - 1] \in S /\ f[n] = More(f[n - 1])
  <2>. TAKE n \in 1..M
  <2>1. n - 1 \in 0..M
    BY <1>1
  <2>. QED  BY <1>8, <1>9, <2>1
<1>11. \A n \in 0..M : f[n] = At(f[n - 1], n)
  <2>. TAKE n \in 0..M
  <2>1. CASE n = 0
    BY <1>6, <1>9, <2>1
  <2>2. CASE n # 0
    <3>1. n \in 1..M /\ n \in Nat
      BY <1>1, <2>2
    <3>. QED  BY <1>5, <1>10, <2>2, <3>1
  <2>. QED  BY <2>1, <2>2
<1>12. f = [n \in 0..M |-> At(f[n - 1], n)]
  BY <1>9, <1>11
<1>. DEFINE h == CHOOSE g : g = [hops \in 0..M |-> At(g[hops - 1], hops)]
<1>13. h = [hops \in 0..M |-> At(h[hops - 1], hops)]
  BY <1>12
<1>14. Fetched(url) = h[M][url]
  BY DEF Fetched, At
<1>. HIDE DEF h
<1>15. h[0] = b
  BY <1>1, <1>6, <1>13
<1>16. \A n \in 1..M : h[n] = More(h[n - 1])
  <2>. TAKE n \in 1..M
  <2>1. n \in 0..M /\ n \in Nat /\ n # 0
    BY <1>1
  <2>. QED  BY <1>5, <1>13, <2>1
<1>17. h[M] \in S
  <2>. DEFINE Good == {n \in Nat : n \in 0..M => h[n] \in S}
  <2>1. 0 \in Good
    BY <1>3, <1>15
  <2>2. ASSUME NEW n \in Nat, n \in Good PROVE n + 1 \in Good
    <3>. SUFFICES ASSUME n + 1 \in 0..M PROVE h[n + 1] \in S
      OBVIOUS
    <3>1. n \in 0..M /\ n + 1 \in 1..M /\ (n + 1) - 1 = n
      BY <1>1
    <3>. QED  BY <1>4, <1>16, <2>2, <3>1
  <2>3. Nat \subseteq Good
    <3>. HIDE DEF Good
    <3>. QED  BY <2>1, <2>2, Counting
  <2>. QED  BY <1>1, <2>3
<1>18. Kind[url] \in {"private", "corpus"} => h[M][url] = <<>>
  <2>1. \A t : Kind[url] \in {"private", "corpus"} => Stands(url, t) = <<>>
    BY DEF Stands
  <2>2. CASE M = 0
    BY <1>15, <2>1, <2>2 DEF b
  <2>3. CASE M # 0
    <3>1. M \in 1..M
      BY <1>1, <2>3
    <3>2. h[M] = More(h[M - 1])
      BY <1>16, <3>1
    <3>3. More(h[M - 1])[url] = Stands(url, h[M - 1][MovedTo[url]])
      BY DEF More
    <3>. QED  BY <2>1, <3>2, <3>3
  <2>. QED  BY <2>2, <2>3
<1>19. h[M][url] \in Seq(STRING)
  BY <1>17 DEF S
<1>. QED  BY <1>14, <1>18, <1>19

\* Whatever a call answers is text of where the run may look, or nothing.
Fit(list) == list \in Seq(Reply) /\ \A k \in DOMAIN list : list[k].text = <<>> \/ InReach(list[k])

LEMMA ReadingFits ==
    ASSUME NEW url \in Addresses, fromCorpus \in BOOLEAN, NEW x \in Readings(url)
    PROVE  Fit(x)
<1>0. <<>> \in Seq(STRING)
  BY EmptyIsWhole DEF Whole
<1>1. PICK text \in Seq(STRING) :
         /\ x = <<[url |-> url, text |-> text, opened |-> TRUE]>>
         /\ text # <<>> => IF fromCorpus THEN url \in Selection ELSE Kind[url] \in {"web", "moved"}
  <2>1. CASE ~ MayOpen(url)
    <3>1. x = <<[url |-> url, text |-> <<>>, opened |-> TRUE]>>
      BY <2>1 DEF Readings, Reading
    <3>. QED  BY <1>0, <3>1
  <2>2. CASE MayOpen(url) /\ fromCorpus
    <3>1. x = <<[url |-> url, text |-> PageText[url], opened |-> TRUE]>>
      BY <2>2 DEF Readings, Reading
    <3>2. PageText[url] \in Seq(STRING) /\ url \in Selection
      BY <2>2, TaskAssumption DEF MayOpen
    <3>. QED  BY <2>2, <3>1, <3>2
  <2>3. CASE MayOpen(url) /\ ~ fromCorpus
    <3>1. \/ x = <<[url |-> url, text |-> <<>>, opened |-> TRUE]>>
          \/ x = <<[url |-> url, text |-> Fetched(url), opened |-> TRUE]>>
      BY <2>3 DEF Readings, Reading
    <3>2. Fetched(url) \in Seq(STRING) /\ (Kind[url] \in {"private", "corpus"} => Fetched(url) = <<>>)
      BY FetchedIs
    <3>3. Kind[url] \notin {"corpus", "engine"} /\ Kind[url] \in {"web", "moved", "private", "engine", "corpus"}
      BY <2>3, TaskAssumption DEF MayOpen
    <3>4. CASE x = <<[url |-> url, text |-> <<>>, opened |-> TRUE]>>
      BY <1>0, <3>4
    <3>5. CASE x = <<[url |-> url, text |-> Fetched(url), opened |-> TRUE]>>
      <4>1. PICK f \in Seq(STRING) : f = Fetched(url)
        BY <3>2
      <4>2. f # <<>> => IF fromCorpus THEN url \in Selection ELSE Kind[url] \in {"web", "moved"}
        BY <2>3, <3>2, <3>3, <4>1
      <4>. QED  BY <3>5, <4>1, <4>2
    <3>. QED  BY <3>1, <3>4, <3>5
  <2>. QED  BY <2>1, <2>2, <2>3
<1>2. PICK a : a = [url |-> url, text |-> text, opened |-> TRUE]
  OBVIOUS
<1>3. a \in Reply /\ a.url = url /\ a.text = text /\ a.opened = TRUE
  BY <1>2 DEF Reply
<1>4. a.text = <<>> \/ InReach(a)
  BY <1>1, <1>3 DEF InReach
<1>5. x = <<a>> /\ DOMAIN x = {1} /\ x[1] = a
  BY <1>1, <1>2
<1>6. x \in Seq(Reply)
  BY <1>3, <1>5
<1>7. \A k \in DOMAIN x : x[k] = a
  BY <1>5
<1>. QED  BY <1>4, <1>6, <1>7 DEF Fit

LEMMA HitsFit ==
    ASSUME NEW list \in Seq([url : Addresses, text : Seq(STRING)]),
           \A i \in DOMAIN list : IF fromCorpus THEN list[i].url \in Selection ELSE Kind[list[i].url] # "corpus"
    PROVE  Fit(Hits(list))
<1>1. PICK x, n : x = Hits(list) /\ n = Len(list)
  OBVIOUS
<1>2. n \in Nat /\ DOMAIN list = 1..n /\ \A i \in 1..n : list[i] \in [url : Addresses, text : Seq(STRING)]
  <2>1. n \in Nat /\ DOMAIN list = 1..n
    BY <1>1
  <2>. DEFINE Items == [url : Addresses, text : Seq(STRING)]
  <2>2. list \in Seq(Items)
    OBVIOUS
  <2>. HIDE DEF Items
  <2>3. \A i \in 1..n : list[i] \in Items
    BY <2>1, <2>2
  <2>. QED  BY <2>1, <2>3 DEF Items
<1>3. x = [i \in 1..n |-> [url |-> list[i].url, text |-> list[i].text, opened |-> FALSE]]
  BY <1>1, <1>2 DEF Hits
<1>4. ASSUME NEW i \in 1..n
      PROVE  x[i] \in Reply /\ InReach(x[i])
  <2>1. x[i] = [url |-> list[i].url, text |-> list[i].text, opened |-> FALSE]
    BY <1>3
  <2>2. list[i].url \in Addresses /\ list[i].text \in Seq(STRING)
    BY <1>2
  <2>3. PICK u \in Addresses, t \in Seq(STRING) : u = list[i].url /\ t = list[i].text
    BY <2>2
  <2>4. x[i] = [url |-> u, text |-> t, opened |-> FALSE]
    BY <2>1, <2>3
  <2>5. x[i] \in Reply
    BY <2>4 DEF Reply
  <2>6. IF fromCorpus THEN u \in Selection ELSE Kind[u] # "corpus"
    BY <1>2, <2>3
  <2>7. x[i].url = u /\ x[i].opened = FALSE
    BY <2>4
  <2>. QED  BY <2>5, <2>6, <2>7 DEF InReach
<1>5. x \in [1..n -> Reply]
  <2>1. DOMAIN x = 1..n /\ x = [i \in 1..n |-> x[i]]
    BY <1>3
  <2>. QED  BY <1>4, <2>1
<1>6. x \in Seq(Reply) /\ DOMAIN x = 1..n
  BY <1>2, <1>5
<1>. QED  BY <1>1, <1>4, <1>6 DEF Fit

LEMMA NothingFits == Fit(<<>>)
BY DEF Fit

\* web_search, with whatever the cache held.
LEMMA SearchFits ==
    ASSUME fromCorpus \in BOOLEAN, shelf \in Shelves, NEW t \in Searches
    PROVE  Fit(t[1]) /\ t[2] \in Shelves
<1>1. ASSUME NEW h \in WebHits, ~ fromCorpus PROVE Fit(Hits(h))
  <2>1. h \in Seq([url : Addresses, text : Seq(STRING)]) /\ \A i \in DOMAIN h : Kind[h[i].url] # "corpus"
    BY TaskAssumption
  <2>. QED  BY <1>1, <2>1, HitsFit
<1>2. CASE fromCorpus
  <2>1. t = <<Hits(CorpusHits), shelf>> \/ t = <<NoHits, shelf>>
    BY <1>2 DEF Searches
  <2>2. Fit(Hits(CorpusHits))
    <3>1. /\ CorpusHits \in Seq([url : Addresses, text : Seq(STRING)])
          /\ \A i \in DOMAIN CorpusHits : CorpusHits[i].url \in Selection
      BY TaskAssumption
    <3>. QED  BY <1>2, <3>1, HitsFit
  <2>3. Fit(NoHits)
    BY NothingFits DEF NoHits
  <2>. QED  BY <2>1, <2>2, <2>3
<1>3. CASE ~ fromCorpus
  <2>1. \/ \E h \in ToSet(shelf) : t = <<Hits(h), shelf>>
        \/ \E h \in WebHits : t = <<Hits(h), shelf>> \/ t = <<Hits(h), <<h>>>>
        \/ t = <<NoHits, shelf>>
    BY <1>3 DEF Searches
  <2>2. ToSet(shelf) \subseteq WebHits
    BY DEF ToSet, Shelves
  <2>3. Fit(NoHits)
    BY NothingFits DEF NoHits
  <2>4. \A h \in WebHits : <<h>> \in Shelves
    BY DEF Shelves
  <2>. QED  BY <1>1, <1>3, <2>1, <2>2, <2>3, <2>4
<1>. QED  BY <1>2, <1>3

-----------------------------------------------------------------------------
(* TaskEvidence: what is told and what is recorded *)

\* What each address was answered with, where the run may look.
Sources == [u \in Addresses |-> ReturnedFor(Page[u])]

\* A text noted under an address is made of texts the tools returned for its page.
Noted(of) == {e \in [url : Addresses, text : Seq(STRING)] : Whole(e.text, of[e.url])}
Told(of)  == {a \in Reply : Whole(a.text, of[a.url])}

\* The answers to a call, as CallTools finds them after the step.
Covers(of, R) == \A r \in R : InReach(r) => r.text \in of[r.url]

\* One page, one set of texts.
OnePage(of) == \A u, v \in Addresses : Page[u] = Page[v] => of[u] = of[v]

LEMMA FitIsTold ==
    ASSUME NEW of, NEW list, Fit(list), Covers(of, ToSet(list))
    PROVE  list \in Seq(Told(of))
<1>1. list \in Seq(Reply)
  BY DEF Fit
<1>2. ASSUME NEW k \in DOMAIN list PROVE list[k] \in Told(of)
  <2>1. PICK a : a = list[k]
    OBVIOUS
  <2>2. a \in Reply /\ a \in ToSet(list)
    BY <1>1, <2>1 DEF ToSet
  <2>3. a.text \in Seq(STRING)
    BY <2>2 DEF Reply
  <2>4. Whole(a.text, of[a.url])
    <3>1. CASE a.text = <<>>
      BY <3>1, EmptyIsWhole
    <3>2. CASE a.text # <<>>
      <4>1. a.text \in of[a.url]
        BY <2>1, <2>2, <3>2 DEF Fit, Covers
      <4>. QED  BY <2>3, <4>1, OneIsWhole
    <3>. QED  BY <3>1, <3>2
  <2>. QED  BY <2>1, <2>2, <2>4 DEF Told
<1>3. PICK n, X : n \in Nat /\ n = Len(list) /\ X = Told(of)
  BY <1>1
<1>4. DOMAIN list = 1..n /\ \A k \in 1..n : list[k] \in X
  BY <1>1, <1>2, <1>3
<1>5. list \in [1..n -> X]
  BY <1>1, <1>4
<1>. QED  BY <1>3, <1>5

\* What was recorded for a page, joined up, is made of texts of that page.
LEMMA SeenIsWhole ==
    ASSUME NEW of, OnePage(of), NEW list \in Seq(Noted(of)), NEW url \in Addresses
    PROVE  Whole(SeenGet(list, url), of[url]) /\ SeenGet(list, url) \in Seq(STRING)
<1>1. PICK n, X : n = Len(list) /\ X = Noted(of)
  OBVIOUS
<1>2. n \in Nat /\ DOMAIN list = 1..n /\ \A i \in 1..n : list[i] \in X
  <2>1. list \in Seq(X)
    BY <1>1
  <2>. QED  BY <1>1, <2>1
<1>3. \A i \in 1..n : list[i].url \in Addresses /\ Whole(list[i].text, of[list[i].url])
  BY <1>1, <1>2 DEF Noted
<1>. DEFINE ss == [i \in 1..n |-> IF Page[list[i].url] = Page[url] THEN list[i].text ELSE <<>>]
<1>4. \A i \in 1..n : Whole(ss[i], of[url])
  <2>. TAKE i \in 1..n
  <2>1. CASE Page[list[i].url] = Page[url]
    <3>1. of[list[i].url] = of[url]
      BY <1>3, <2>1 DEF OnePage
    <3>. QED  BY <1>3, <2>1, <3>1
  <2>2. CASE Page[list[i].url] # Page[url]
    <3>1. ss[i] = <<>>
      BY <2>2
    <3>. QED  BY <3>1, EmptyIsWhole
  <2>. QED  BY <2>1, <2>2
<1>5. SeenGet(list, url) = FlattenSeq(ss)
  BY <1>2 DEF SeenGet
<1>6. ss = [i \in 1..n |-> ss[i]]
  OBVIOUS
<1>. HIDE DEF ss
<1>7. ss \in [1..n -> Seq(STRING)]
  BY <1>4, <1>6 DEF Whole
<1>8. PICK T, zz : T = of[url] /\ zz = ss
  OBVIOUS
<1>9. Whole(FlattenSeq(zz), T)
  <2>1. zz \in [1..n -> Seq(STRING)] /\ \A i \in 1..n : Whole(zz[i], T)
    BY <1>4, <1>7, <1>8
  <2>. QED  BY <1>2, <2>1, FlattenIsWhole
<1>. QED  BY <1>5, <1>8, <1>9 DEF Whole

\* One answer recorded.
LEMMA RecordedIsNoted ==
    ASSUME NEW of, NEW list \in Seq(Noted(of)), NEW url \in Addresses, NEW text, Whole(text, of[url])
    PROVE  Recorded(list, url, text) \in Seq(Noted(of))
<1>1. PICK n, X : n = Len(list) /\ X = Noted(of)
  OBVIOUS
<1>2. n \in Nat /\ DOMAIN list = 1..n /\ list \in [1..n -> X]
  <2>1. list \in Seq(X)
    BY <1>1
  <2>. QED  BY <1>1, <2>1
<1>3. CASE \E i \in DOMAIN list : list[i].url = url
  <2>. DEFINE r == [i \in 1..n |-> IF list[i].url = url THEN [list[i] EXCEPT !.text = @ \o text] ELSE list[i]]
  <2>1. Recorded(list, url, text) = r
    BY <1>2, <1>3 DEF Recorded
  <2>2. ASSUME NEW i \in 1..n PROVE r[i] \in X
    <3>1. CASE list[i].url # url
      BY <1>2, <3>1
    <3>2. CASE list[i].url = url
      <4>1. PICK e : e = list[i]
        OBVIOUS
      <4>2. e \in X
        BY <1>2, <4>1
      <4>3. /\ e = [url |-> e.url, text |-> e.text] /\ e.url \in Addresses
            /\ e.text \in Seq(STRING) /\ Whole(e.text, of[e.url])
        BY <1>1, <4>2 DEF Noted
      <4>4. PICK t : t = e.text \o text
        OBVIOUS
      <4>5. Whole(t, of[url])
        BY <3>2, <4>1, <4>3, <4>4, JoinIsWhole
      <4>6. r[i] = [url |-> url, text |-> t]
        BY <3>2, <4>1, <4>3, <4>4
      <4>7. t \in Seq(STRING)
        BY <4>5 DEF Whole
      <4>. QED  BY <1>1, <4>5, <4>6, <4>7 DEF Noted
    <3>. QED  BY <3>1, <3>2
  <2>3. r \in [1..n -> X]
    <3>. DEFINE f(i) == r[i]
    <3>1. r = [i \in 1..n |-> f(i)]
      OBVIOUS
    <3>. HIDE DEF r
    <3>. QED  BY <2>2, <3>1
  <2>4. \A z \in [1..n -> X] : z \in Seq(X)
    BY <1>2
  <2>. HIDE DEF r
  <2>. QED  BY <1>1, <2>1, <2>3, <2>4
<1>4. CASE ~ \E i \in DOMAIN list : list[i].url = url
  <2>1. Recorded(list, url, text) = Append(list, [url |-> url, text |-> text])
    BY <1>4 DEF Recorded
  <2>2. text \in Seq(STRING)
    BY DEF Whole
  <2>3. [url |-> url, text |-> text] \in Noted(of)
    BY <2>2 DEF Noted
  <2>4. PICK e : e = [url |-> url, text |-> text]
    OBVIOUS
  <2>. HIDE DEF Noted
  <2>. QED  BY <2>1, <2>3, <2>4
<1>. QED  BY <1>3, <1>4

\* Every answer of a turn recorded.
LEMMA RecordAllNotes ==
    ASSUME NEW of, NEW all \in Seq(Told(of)), record \in Seq(Noted(of)), RecordAll(all)
    PROVE  record' \in Seq(Noted(of))
<1>. PICK L, S : L = Len(all) /\ S = Seq(Noted(of))
  OBVIOUS
<1>1. L \in Nat /\ record \in S
  OBVIOUS
<1>. DEFINE turn == [n \in 1..L |-> [list \in S |-> Recorded(list, all[n].url, all[n].text)]]
<1>2. ASSUME NEW n \in 1..L, NEW list \in S PROVE Recorded(list, all[n].url, all[n].text) \in S
  <2>1. PICK X : X = Told(of)
    OBVIOUS
  <2>2. all[n] \in X
    <3>1. all \in Seq(X)
      BY <2>1
    <3>. QED  BY <3>1
  <2>3. all[n].url \in Addresses /\ Whole(all[n].text, of[all[n].url])
    BY <2>1, <2>2 DEF Told, Reply
  <2>4. PICK u, t : u = all[n].url /\ t = all[n].text
    OBVIOUS
  <2>. QED  BY <2>3, <2>4, RecordedIsNoted
<1>3. turn \in [1..L -> [S -> S]]
  BY <1>2
<1>4. \A n \in 1..L : \A list \in S : turn[n][list] = Recorded(list, all[n].url, all[n].text)
  OBVIOUS
<1>. HIDE DEF turn
<1>5. PICK b : b = record
  OBVIOUS
<1>6. PICK f : Looped(f, L, S, b, turn)
  <2>1. PICK tt : tt = turn
    OBVIOUS
  <2>2. Loop(L, S, b, tt)
    BY <1>1, <1>3, <1>5, <2>1 DEF Loop
  <2>. QED  BY <2>1, <2>2, Iterates
<1>7. f \in [0..L -> S] /\ f[0] = b /\ \A n \in 1..L : f[n] = turn[n][f[n - 1]]
  BY <1>6 DEF Looped
<1>8. \A n \in 0..L : f[n] = IF n = 0 THEN b ELSE Recorded(f[n - 1], all[n].url, all[n].text)
  <2>. TAKE n \in 0..L
  <2>1. CASE n = 0
    BY <1>7, <2>1
  <2>2. CASE n # 0
    <3>1. n \in 1..L /\ n - 1 \in 0..L
      BY <1>1, <2>2
    <3>. QED  BY <1>4, <1>7, <2>2, <3>1
  <2>. QED  BY <2>1, <2>2
<1>9. f = [n \in 0..L |-> IF n = 0 THEN b ELSE Recorded(f[n - 1], all[n].url, all[n].text)]
  <2>1. f = [n \in 0..L |-> f[n]]
    BY <1>7
  <2>. QED  BY <1>8, <2>1
<1>. DEFINE h == CHOOSE g : g = [n \in 0..L |-> IF n = 0 THEN b ELSE Recorded(g[n - 1], all[n].url, all[n].text)]
<1>10. h = [n \in 0..L |-> IF n = 0 THEN b ELSE Recorded(h[n - 1], all[n].url, all[n].text)]
  BY <1>9
<1>11. record' = h[L]
  BY <1>5 DEF RecordAll
<1>. HIDE DEF h
<1>12. h[0] = b /\ \A n \in 1..L : h[n] = Recorded(h[n - 1], all[n].url, all[n].text)
  <2>1. 0 \in 0..L
    BY <1>1
  <2>2. \A n \in 1..L : n \in 0..L /\ n # 0
    BY <1>1
  <2>. QED  BY <1>10, <2>1, <2>2
<1>13. \A n \in 0..L : h[n] \in S
  <2>1. PICK hh : hh = h
    OBVIOUS
  <2>2. hh[0] \in S /\ \A n \in 1..L : hh[n - 1] \in S => hh[n] \in S
    BY <1>1, <1>2, <1>5, <1>12, <2>1
  <2>3. \A n \in 0..L : hh[n] \in S
    BY <1>1, <2>2, LoopKeeps
  <2>. QED  BY <2>1, <2>3
<1>14. L \in 0..L
  BY <1>1
<1>. QED  BY <1>11, <1>13, <1>14

\* What a call is answered with.
LEMMA AnswerIsTold ==
    ASSUME fromCorpus \in BOOLEAN, shelf \in Shelves, NEW of, OnePage(of), record \in Seq(Noted(of)),
           NEW calls, NEW i, calls[i].tool \in {"broken", "search"} \/ calls[i].url \in Addresses,
           NEW t, t \in Answers(calls, i),
           calls[i].tool # "broken" /\ ~ Repeat(calls, i) => Covers(of, ToSet(t[1]))
    PROVE  /\ t[1] \in Seq(Told(of))
           /\ t[2] \in Shelves
           /\ calls[i].tool # "broken" /\ ~ Repeat(calls, i) => ToSet(t[1]) \subseteq Reply
<1>0. \A x : Fit(x) => ToSet(x) \subseteq Reply
  <2>. SUFFICES ASSUME NEW x, Fit(x) PROVE ToSet(x) \subseteq Reply
    OBVIOUS
  <2>1. x \in Seq(Reply)
    BY DEF Fit
  <2>. QED  BY <2>1 DEF ToSet
<1>1. CASE calls[i].tool = "broken"
  <2>1. t = <<NoHits, shelf>>
    BY <1>1 DEF Answers
  <2>2. NoHits \in Seq(Told(of))
    BY DEF NoHits
  <2>. QED  BY <1>1, <2>1, <2>2
<1>2. CASE calls[i].tool = "search"
  <2>1. t \in Searches /\ ~ Repeat(calls, i)
    BY <1>2 DEF Answers, Repeat
  <2>2. Fit(t[1]) /\ t[2] \in Shelves
    BY <2>1, SearchFits
  <2>3. PICK x : x = t[1]
    OBVIOUS
  <2>4. Covers(of, ToSet(x))
    BY <1>2, <2>1, <2>3
  <2>5. x \in Seq(Told(of))
    BY <2>2, <2>3, <2>4, FitIsTold
  <2>. QED  BY <1>0, <2>2, <2>3, <2>5
<1>3. CASE calls[i].tool # "broken" /\ calls[i].tool # "search" /\ Repeat(calls, i)
  <2>1. PICK u \in Addresses : u = calls[i].url
    BY <1>3
  <2>2. t = <<Reading(u, SeenGet(record, u)), shelf>>
    BY <1>3, <2>1 DEF Answers
  <2>3. Whole(SeenGet(record, u), of[u]) /\ SeenGet(record, u) \in Seq(STRING)
    BY SeenIsWhole
  <2>4. PICK a : a = [url |-> u, text |-> SeenGet(record, u), opened |-> TRUE]
    OBVIOUS
  <2>5. a \in Told(of)
    BY <2>3, <2>4 DEF Told, Reply
  <2>6. t[1] = <<a>> /\ t[2] = shelf
    BY <2>2, <2>4 DEF Reading
  <2>. QED  BY <1>3, <2>5, <2>6
<1>4. CASE calls[i].tool # "broken" /\ calls[i].tool # "search" /\ ~ Repeat(calls, i)
  <2>1. PICK u \in Addresses : u = calls[i].url
    BY <1>4
  <2>2. PICK x \in Readings(u) : t = <<x, shelf>>
    BY <1>4, <2>1 DEF Answers
  <2>3. t[1] = x /\ t[2] = shelf
    BY <2>2
  <2>4. Fit(x)
    BY ReadingFits
  <2>5. Covers(of, ToSet(x))
    BY <1>4, <2>3
  <2>6. x \in Seq(Told(of))
    BY <2>4, <2>5, FitIsTold
  <2>. QED  BY <1>0, <2>3, <2>4, <2>6
<1>. QED  BY <1>1, <1>2, <1>3, <1>4

TaskInv ==
    /\ fromCorpus \in BOOLEAN /\ shelf \in Shelves /\ returned \subseteq Reply
    /\ record \in Seq(Noted(Sources))

LEMMA SourcesAre ==
    ASSUME returned \subseteq Reply
    PROVE  /\ \A u \in Addresses : Sources[u] = ReturnedFor(Page[u])
           /\ OnePage(Sources)
           /\ Covers(Sources, returned)
<1>1. \A u \in Addresses : Sources[u] = ReturnedFor(Page[u])
  BY DEF Sources
<1>2. OnePage(Sources)
  BY <1>1 DEF OnePage
<1>3. ASSUME NEW r \in returned, InReach(r) PROVE r.text \in Sources[r.url]
  <2>1. r.url \in Addresses
    BY DEF Reply
  <2>2. r.text \in ReturnedFor(Page[r.url])
    BY <1>3 DEF ReturnedFor
  <2>. QED  BY <1>1, <2>1, <2>2
<1>. QED  BY <1>1, <1>2, <1>3 DEF Covers

\* More answers, more to quote from.
LEMMA NotedStays ==
    ASSUME NEW of, NEW more, \A u \in Addresses : of[u] \subseteq more[u]
    PROVE  Noted(of) \subseteq Noted(more)
<1>. SUFFICES ASSUME NEW e \in Noted(of) PROVE e \in Noted(more)
  OBVIOUS
<1>1. e \in [url : Addresses, text : Seq(STRING)] /\ Whole(e.text, of[e.url])
  BY DEF Noted
<1>2. e.url \in Addresses
  BY <1>1
<1>3. PICK T, U, t : T = of[e.url] /\ U = more[e.url] /\ t = e.text
  OBVIOUS
<1>4. Whole(t, U)
  BY <1>1, <1>2, <1>3, MoreIsWhole
<1>. QED  BY <1>1, <1>3, <1>4 DEF Noted

\* A turn keeps the record to what was returned.
LEMMA TurnNotes ==
    ASSUME TaskInv, CallTools
    PROVE  TaskInv'
<1>1. PICK calls \in Turns \cup {<<>>} :
        \E gave \in {t \in [DOMAIN calls -> UNION {Answers(calls, i) : i \in DOMAIN calls}] :
                        \A i \in DOMAIN calls : t[i] \in Answers(calls, i)} :
            LET all   == FlattenSeq([i \in DOMAIN calls |-> gave[i][1]])
                fresh == {i \in DOMAIN calls : calls[i].tool # "broken" /\ ~Repeat(calls, i)}
            IN  /\ RecordAll(all)
                /\ shelf' \in {shelf} \cup {gave[i][2] : i \in {j \in fresh : calls[j].tool = "search"}}
                /\ returned' = returned \cup UNION {ToSet(gave[i][1]) : i \in fresh}
  BY DEF CallTools
<1>2. fromCorpus' = fromCorpus
  BY DEF CallTools
<1>3. PICK L \in Nat : DOMAIN calls = 1..L
  <2>1. CASE calls = <<>>
    <3>1. DOMAIN calls = 1..0
      BY <2>1
    <3>. QED  BY <3>1
  <2>2. CASE calls \in Turns
    <3>1. PICK n \in 1..MaxCalls : calls \in [1..n -> {Search, Broken} \cup {Opens(u) : u \in Addresses}]
      BY <2>2 DEF Turns
    <3>2. n \in Nat
      BY TaskAssumption
    <3>. QED  BY <3>1, <3>2
  <2>. QED  BY <2>1, <2>2
<1>4. \A i \in 1..L : calls[i].tool \in {"broken", "search"} \/ calls[i].url \in Addresses
  <2>. TAKE i \in 1..L
  <2>1. calls # <<>>
    BY <1>3
  <2>2. PICK n \in 1..MaxCalls : calls \in [1..n -> {Search, Broken} \cup {Opens(u) : u \in Addresses}]
    BY <2>1 DEF Turns
  <2>3. calls[i] \in {Search, Broken} \cup {Opens(u) : u \in Addresses}
    BY <1>3, <2>2
  <2>. QED  BY <2>3 DEF Search, Broken, Opens
<1>5. PICK gave :
        /\ \A i \in 1..L : gave[i] \in Answers(calls, i)
        /\ RecordAll(FlattenSeq([i \in 1..L |-> gave[i][1]]))
        /\ shelf' \in {shelf} \cup {gave[i][2] : i \in 1..L}
        /\ returned' = returned \cup
             UNION {ToSet(gave[i][1]) : i \in {j \in 1..L : calls[j].tool # "broken" /\ ~Repeat(calls, j)}}
  <2>. DEFINE replies == {t \in [DOMAIN calls -> UNION {Answers(calls, i) : i \in DOMAIN calls}] :
                        \A i \in DOMAIN calls : t[i] \in Answers(calls, i)}
              fresh == {j \in DOMAIN calls : calls[j].tool # "broken" /\ ~Repeat(calls, j)}
  <2>1. PICK gave \in replies :
            /\ RecordAll(FlattenSeq([i \in DOMAIN calls |-> gave[i][1]]))
            /\ shelf' \in {shelf} \cup {gave[i][2] : i \in {j \in fresh : calls[j].tool = "search"}}
            /\ returned' = returned \cup UNION {ToSet(gave[i][1]) : i \in fresh}
    BY <1>1
  <2>2. DOMAIN calls = 1..L
    BY <1>3
  <2>3. \A i \in 1..L : gave[i] \in Answers(calls, i)
    BY <2>1, <2>2
  <2>4. RecordAll(FlattenSeq([i \in 1..L |-> gave[i][1]]))
    BY <2>1, <2>2
  <2>5. fresh = {j \in 1..L : calls[j].tool # "broken" /\ ~Repeat(calls, j)} /\ fresh \subseteq 1..L
    BY <2>2
  <2>. HIDE DEF fresh, replies
  <2>6. shelf' \in {shelf} \cup {gave[i][2] : i \in 1..L}
    BY <2>1, <2>5
  <2>7. returned' = returned \cup
             UNION {ToSet(gave[i][1]) : i \in {j \in 1..L : calls[j].tool # "broken" /\ ~Repeat(calls, j)}}
    BY <2>1, <2>5
  <2>. QED  BY <2>3, <2>4, <2>6, <2>7
<1>6. PICK of : of = [u \in Addresses |-> ReturnedFor(Page[u])']
  OBVIOUS
<1>7. PICK now : now = Sources
  OBVIOUS
<1>8. \A u \in Addresses : now[u] \subseteq of[u] /\ now[u] = ReturnedFor(Page[u])
  <2>. TAKE u \in Addresses
  <2>1. now[u] = ReturnedFor(Page[u]) /\ of[u] = ReturnedFor(Page[u])'
    BY <1>6, <1>7 DEF Sources
  <2>2. \A r : InReach(r)' <=> InReach(r)
    BY <1>2 DEF InReach
  <2>3. returned \subseteq returned'
    BY <1>5
  <2>. QED  BY <2>1, <2>2, <2>3 DEF ReturnedFor
<1>9. OnePage(of)
  <2>1. \A u, v \in Addresses : Page[u] = Page[v] => ReturnedFor(Page[u])' = ReturnedFor(Page[v])'
    BY DEF ReturnedFor
  <2>. QED  BY <1>6, <2>1 DEF OnePage
<1>10. record \in Seq(Noted(of))
  <2>1. PICK A, B : A = Noted(now) /\ B = Noted(of)
    OBVIOUS
  <2>2. A \subseteq B
    BY <1>8, <2>1, NotedStays
  <2>3. record \in Seq(A)
    BY <1>7, <2>1 DEF TaskInv
  <2>4. record \in Seq(B)
    BY <2>2, <2>3
  <2>. QED  BY <2>1, <2>4
<1>11. ASSUME NEW i \in 1..L, calls[i].tool # "broken", ~ Repeat(calls, i)
       PROVE  Covers(of, ToSet(gave[i][1]))
  <2>. SUFFICES ASSUME NEW r \in ToSet(gave[i][1]), InReach(r) PROVE r.text \in of[r.url]
    BY DEF Covers
  <2>1. r \in returned'
    BY <1>5, <1>11
  <2>2. InReach(r)'
    BY <1>2 DEF InReach
  <2>3. PICK p, x : p = Page[r.url] /\ x = r.text
    OBVIOUS
  <2>4. x \in ReturnedFor(p)'
    BY <2>1, <2>2, <2>3 DEF ReturnedFor
  <2>5. r.url \in Addresses
    <3>1. CASE calls[i].tool = "search"
      <4>1. gave[i] \in Searches
        BY <1>5, <3>1 DEF Answers
      <4>2. PICK t : t = gave[i]
        OBVIOUS
      <4>3. Fit(t[1])
        BY <4>1, <4>2, SearchFits DEF TaskInv
      <4>4. PICK y : y = t[1]
        OBVIOUS
      <4>5. y \in Seq(Reply)
        BY <4>3, <4>4 DEF Fit
      <4>6. r \in Reply
        BY <4>2, <4>4, <4>5 DEF ToSet
      <4>. QED  BY <4>6 DEF Reply
    <3>2. CASE calls[i].tool # "search"
      <4>1. PICK u \in Addresses : u = calls[i].url
        BY <1>4, <1>11, <3>2
      <4>2. PICK y \in Readings(u) : gave[i] = <<y, shelf>>
        BY <1>5, <1>11, <3>2, <4>1 DEF Answers
      <4>3. y \in Seq(Reply)
        BY <4>1, ReadingFits DEF Fit, TaskInv
      <4>4. gave[i][1] = y
        BY <4>2
      <4>5. r \in Reply
        BY <4>3, <4>4 DEF ToSet
      <4>. QED  BY <4>5 DEF Reply
    <3>. QED  BY <3>1, <3>2
  <2>. QED  BY <1>6, <2>3, <2>4, <2>5
<1>12. \A i \in 1..L :
         /\ gave[i][1] \in Seq(Told(of))
         /\ gave[i][2] \in Shelves
         /\ calls[i].tool # "broken" /\ ~ Repeat(calls, i) => ToSet(gave[i][1]) \subseteq Reply
  <2>. TAKE i \in 1..L
  <2>1. PICK t : t = gave[i]
    OBVIOUS
  <2>2. t \in Answers(calls, i)
    BY <1>5, <2>1
  <2>3. calls[i].tool \in {"broken", "search"} \/ calls[i].url \in Addresses
    BY <1>4
  <2>4. calls[i].tool # "broken" /\ ~ Repeat(calls, i) => Covers(of, ToSet(t[1]))
    BY <1>11, <2>1
  <2>5. fromCorpus \in BOOLEAN /\ shelf \in Shelves
    BY DEF TaskInv
  <2>. QED  BY <1>9, <1>10, <2>1, <2>2, <2>3, <2>4, <2>5, AnswerIsTold
<1>13. PICK all : all = FlattenSeq([i \in 1..L |-> gave[i][1]])
  OBVIOUS
<1>14. all \in Seq(Told(of))
  <2>1. PICK S, ss : S = Told(of) /\ ss = [i \in 1..L |-> gave[i][1]]
    OBVIOUS
  <2>2. ss \in [1..L -> Seq(S)]
    BY <1>12, <2>1
  <2>3. all = FlattenSeq(ss)
    BY <1>13, <2>1
  <2>4. all \in Seq(S)
    BY <2>2, <2>3, FlattenedInTurn
  <2>. QED  BY <2>1, <2>4
<1>15. record' \in Seq(Noted(of))
  BY <1>5, <1>10, <1>13, <1>14, RecordAllNotes
<1>16. of = Sources'
  BY <1>6 DEF Sources
<1>17. record' \in Seq(Noted(Sources))'
  BY <1>15, <1>16 DEF Noted, Whole, Spots, Traces, Goes
<1>18. shelf' \in Shelves
  <2>1. shelf \in Shelves
    BY DEF TaskInv
  <2>. QED  BY <1>5, <1>12, <2>1
<1>19. returned' \subseteq Reply
  <2>1. returned \subseteq Reply
    BY DEF TaskInv
  <2>. QED  BY <1>5, <1>12, <2>1
<1>20. fromCorpus' \in BOOLEAN
  BY <1>2 DEF TaskInv
<1>. QED  BY <1>17, <1>18, <1>19, <1>20 DEF TaskInv, Shelves, Reply

-----------------------------------------------------------------------------
(* TaskEvidence: what leaves the task *)

\* An item that was looked up names a page whose answers have its words.
Quotes(e) == e.snippet # <<>> => Spliced(e.snippet, ReturnedFor(Page[e.url]))

LEMMA LookedUpQuotes ==
    ASSUME TaskInv, NEW e, e.url \in Addresses, e.snippet \in Seq(STRING),
           e \in [url : Addresses, snippet : Seq(STRING), grade : {"none"}, claimed : {"none"}]
    PROVE  Quotes(LookedUp(e))
<1>1. PICK of : of = Sources
  OBVIOUS
<1>2. OnePage(of) /\ record \in Seq(Noted(of)) /\ \A u \in Addresses : of[u] = ReturnedFor(Page[u])
  BY <1>1, SourcesAre DEF TaskInv
<1>3. CASE e.snippet = <<>>
  BY <1>3 DEF LookedUp, Quotes
<1>4. CASE e.snippet # <<>> /\ Within(e.snippet, SeenGet(record, e.url))
  <2>1. PICK u \in Addresses, q \in Seq(STRING) : u = e.url /\ q = e.snippet
    OBVIOUS
  <2>2. PICK r : r = [e EXCEPT !.grade = SeenGrade(e.url)]
    OBVIOUS
  <2>3. LookedUp(e) = r /\ r.url = u /\ r.snippet = q
    BY <1>4, <2>1, <2>2 DEF LookedUp
  <2>4. PICK text, T : text = SeenGet(record, u) /\ T = of[u]
    OBVIOUS
  <2>5. Whole(text, T)
    BY <1>2, <2>4, SeenIsWhole
  <2>6. Within(q, text)
    BY <1>4, <2>1, <2>4
  <2>7. Spliced(q, T)
    BY <2>5, <2>6, WithinIsSpliced
  <2>. QED  BY <1>2, <2>3, <2>4, <2>7 DEF Quotes
<1>5. CASE e.snippet # <<>> /\ ~ Within(e.snippet, SeenGet(record, e.url))
  <2>1. LookedUp(e) = Repointed(e)
    BY <1>5 DEF LookedUp
  <2>2. PICK q, found : q \in Seq(STRING) /\ q = e.snippet /\ found = Found(q)
    OBVIOUS
  <2>3. PICK url : url = record[First(found)].url
    OBVIOUS
  <2>4. CASE Cardinality({Page[record[i].url] : i \in found}) # 1
    <3>1. PICK r : r = [e EXCEPT !.snippet = <<>>]
      OBVIOUS
    <3>2. Repointed(e) = r /\ r.snippet = <<>>
      BY <2>2, <2>4, <3>1 DEF Repointed
    <3>. QED  BY <2>1, <3>2 DEF Quotes
  <2>5. CASE Cardinality({Page[record[i].url] : i \in found}) = 1
    <3>1. PICK r : r = [e EXCEPT !.url = url, !.claimed = e.url, !.grade = SeenGrade(url)]
      OBVIOUS
    <3>2. Repointed(e) = r /\ r.url = url /\ r.snippet = q
      BY <2>2, <2>3, <2>5, <3>1 DEF Repointed
    <3>3. found # {}
      <4>1. Cardinality({}) = 0
        BY FS_EmptySet
      <4>2. found = {} => {Page[record[i].url] : i \in found} = {}
        OBVIOUS
      <4>3. PICK S : S = {Page[record[i].url] : i \in found}
        OBVIOUS
      <4>4. Cardinality(S) = 1 /\ (found = {} => S = {})
        BY <2>5, <4>2, <4>3
      <4>5. S = {} => Cardinality(S) = 0
        <5>. SUFFICES ASSUME S = {} PROVE Cardinality(S) = 0
          OBVIOUS
        <5>. QED  BY <4>1, Zenon
      <4>. QED  BY <4>4, <4>5
    <3>4. found \subseteq Nat /\ \A i \in found : i \in DOMAIN record /\ Within(q, record[i].text)
      <4>1. PICK X : X = Noted(of)
        OBVIOUS
      <4>2. DOMAIN record \subseteq Nat
        <5>1. record \in Seq(X)
          BY <1>2, <4>1
        <5>. QED  BY <5>1
      <4>. QED  BY <2>2, <4>2 DEF Found
    <3>5. PICK i : i = First(found) /\ i \in found
      <4>1. PICK a \in found : \A b \in found : a <= b
        BY <3>3, <3>4, LeastMember
      <4>. QED  BY <4>1 DEF First
    <3>6. record[i] \in Noted(of)
      <4>1. PICK X : X = Noted(of)
        OBVIOUS
      <4>2. record \in Seq(X)
        BY <1>2, <4>1
      <4>3. record[i] \in X
        BY <3>4, <3>5, <4>2
      <4>. QED  BY <4>1, <4>3
    <3>7. PICK text, T : text = record[i].text /\ T = of[url]
      OBVIOUS
    <3>8. url \in Addresses /\ Whole(text, T)
      BY <2>3, <3>5, <3>6, <3>7 DEF Noted
    <3>9. Within(q, text)
      BY <3>4, <3>5, <3>7
    <3>10. Spliced(q, T)
      BY <2>2, <3>8, <3>9, WithinIsSpliced
    <3>11. Spliced(q, ReturnedFor(Page[url]))
      BY <1>2, <3>7, <3>8, <3>10
    <3>12. Quotes(r)
      BY <3>2, <3>11 DEF Quotes
    <3>. QED  BY <2>1, <3>2, <3>12
  <2>. QED  BY <2>4, <2>5
<1>. QED  BY <1>3, <1>4, <1>5

\* A submission cut to length is words still.
LEMMA SubmittedIs ==
    ASSUME NEW list \in Submissions, NEW i \in DOMAIN list
    PROVE  /\ Submitted(list)[i] \in [url : Addresses, snippet : Seq(STRING), grade : {"none"}, claimed : {"none"}]
           /\ DOMAIN Submitted(list) = DOMAIN list
<1>1. PICK u \in Addresses, s \in Quotations : list = <<Quoted(u, s)>>
  BY DEF Submissions
<1>2. s \in Seq(STRING) /\ SnippetCap \in Nat
  BY TaskAssumption
<1>3. PICK e : e = Quoted(u, s)
  OBVIOUS
<1>4. list = <<e>> /\ DOMAIN list = {1} /\ list[i] = e /\ e = [url |-> u, snippet |-> s, grade |-> "none", claimed |-> "none"]
  BY <1>1, <1>3 DEF Quoted
<1>5. PICK c : c = IF Len(s) > SnippetCap THEN SubSeq(s, 1, SnippetCap) ELSE s
  OBVIOUS
<1>6. c \in Seq(STRING)
  <2>1. CASE Len(s) > SnippetCap
    <3>1. SubSeq(s, 1, SnippetCap) \in Seq(STRING)
      BY <1>2, <2>1
    <3>. QED  BY <1>5, <2>1, <3>1
  <2>2. CASE ~ Len(s) > SnippetCap
    BY <1>2, <1>5, <2>2
  <2>. QED  BY <2>1, <2>2
<1>7. Submitted(list)[i] = [e EXCEPT !.snippet = c]
  <2>1. e.snippet = s
    BY <1>4
  <2>2. Submitted(list)[i] = [e EXCEPT !.snippet = IF Len(e.snippet) > SnippetCap THEN SubSeq(e.snippet, 1, SnippetCap) ELSE e.snippet]
    BY <1>4 DEF Submitted
  <2>. QED  BY <1>5, <2>1, <2>2
<1>8. [e EXCEPT !.snippet = c] = [url |-> u, snippet |-> c, grade |-> "none", claimed |-> "none"]
  BY <1>4
<1>. QED  BY <1>6, <1>7, <1>8 DEF Submitted

LEMMA DeliverQuotes ==
    ASSUME TaskInv, NEW list \in Submissions, Deliver(list)
    PROVE  TaskInv' /\ QuotedFromWhatWasRead'
<1>1. /\ items' = [i \in DOMAIN list |-> LookedUp(Submitted(list)[i])]
      /\ record' = <<>> /\ fromCorpus' = fromCorpus /\ shelf' = shelf /\ returned' = returned
  BY DEF Deliver
<1>2. TaskInv'
  <2>1. <<>> \in Seq(Noted(Sources)')
    OBVIOUS
  <2>. QED  BY <1>1, <2>1 DEF TaskInv, Shelves, Reply
<1>3. ASSUME NEW i \in DOMAIN list PROVE Quotes(LookedUp(Submitted(list)[i]))
  <2>1. PICK e : e = Submitted(list)[i]
    OBVIOUS
  <2>2. e \in [url : Addresses, snippet : Seq(STRING), grade : {"none"}, claimed : {"none"}]
    BY <2>1, SubmittedIs
  <2>3. e.url \in Addresses /\ e.snippet \in Seq(STRING)
    BY <2>2
  <2>. QED  BY <2>1, <2>2, <2>3, LookedUpQuotes
<1>4. \A p : ReturnedFor(p)' = ReturnedFor(p)
  BY <1>1 DEF ReturnedFor, InReach
<1>5. DOMAIN items' = DOMAIN list /\ \A i \in DOMAIN list : Quotes(items'[i])
  BY <1>1, <1>3
<1>6. ASSUME NEW x, Quotes(x) PROVE Quotes(x)'
  <2>1. PICK p : p = Page[x.url]
    OBVIOUS
  <2>2. x.snippet # <<>> => Spliced(x.snippet, ReturnedFor(p)')
    BY <1>4, <1>6, <2>1 DEF Quotes
  <2>. QED  BY <2>1, <2>2 DEF Quotes, Spliced, Spots, Traces, Goes
<1>7. QuotedFromWhatWasRead'
  <2>1. \A i \in DOMAIN items' : Quotes(items[i])'
    BY <1>5, <1>6
  <2>. QED  BY <2>1 DEF QuotedFromWhatWasRead, Quotes
<1>. QED  BY <1>2, <1>7

\* "A quote we cannot find is not evidence": whatever a quotation names when it leaves
\* the task, its words stand in what tools returned for that page in this task, from
\* where the run may look (verify_evidence_snippets, read_webpage, search, _norm_url).
THEOREM QuotesWereRead == TaskSpec => []QuotedFromWhatWasRead
<1>. DEFINE IInv == TaskInv /\ QuotedFromWhatWasRead
<1>1. TaskInit => IInv
  <2>. SUFFICES ASSUME TaskInit PROVE IInv
    OBVIOUS
  <2>1. <<>> \in Seq(Noted(Sources))
    OBVIOUS
  <2>2. QuotedFromWhatWasRead
    BY DEF TaskInit, QuotedFromWhatWasRead
  <2>. QED  BY <2>1, <2>2 DEF TaskInit, TaskInv, Shelves
<1>2. IInv /\ [TaskNext]_taskVars => IInv'
  <2>. SUFFICES ASSUME IInv, [TaskNext]_taskVars PROVE IInv'
    OBVIOUS
  <2>1. <<>> \in Submissions
    BY DEF Submissions
  <2>2. ASSUME NEW list \in Submissions, Deliver(list) PROVE IInv'
    BY <2>2, DeliverQuotes
  <2>3. CASE CallTools
    <3>1. TaskInv'
      BY <2>3, TurnNotes
    <3>2. step' # "done"
      BY <2>3 DEF CallTools, MayAsk
    <3>. QED  BY <3>1, <3>2 DEF QuotedFromWhatWasRead
  <2>4. ASSUME UNCHANGED <<fromCorpus, record, shelf, items, returned>>, step' = "done" => step = "done"
        PROVE  IInv'
    <3>1. \A p : ReturnedFor(p)' = ReturnedFor(p)
      BY <2>4 DEF ReturnedFor, InReach
    <3>2. Sources' = Sources
      BY <3>1 DEF Sources
    <3>3. TaskInv'
      BY <2>4, <3>2 DEF TaskInv, Shelves, Reply, Noted, Whole, Spots, Traces, Goes
    <3>4. QuotedFromWhatWasRead'
      BY <2>4, <3>1 DEF QuotedFromWhatWasRead, Spliced, Spots, Traces, Goes
    <3>. QED  BY <3>3, <3>4
  <2>5. CASE Submit
    BY <2>2, <2>5 DEF Submit
  <2>6. CASE StopAsking
    BY <2>1, <2>2, <2>4, <2>6 DEF StopAsking
  <2>7. CASE ForceSubmit
    BY <2>1, <2>2, <2>4, <2>7 DEF ForceSubmit
  <2>8. CASE UNCHANGED taskVars
    BY <2>4, <2>8 DEF taskVars
  <2>. QED  BY <2>3, <2>5, <2>6, <2>7, <2>8 DEF TaskNext
<1>. QED  BY <1>1, <1>2, PTL DEF TaskSpec

-----------------------------------------------------------------------------
(* CitationFidelity: what a strike does *)

Line == [kind : STRING, says : STRING, marked : BOOLEAN]

\* The draft, but for its markers.
Restruck(d) == {e \in [DOMAIN d -> Line] : \A j \in DOMAIN d : e[j].kind = d[j].kind /\ e[j].says = d[j].says}

IsDraft(d) ==
    /\ \E n \in Nat : d \in [1..n -> Line]
    /\ \A j \in DOMAIN d : d[j].kind = "sentence" =>
         d[j].says \in DOMAIN Traits /\ Traits[d[j].says].shape \in {"plain", "short", "deictic", "label"}

\* One marked sentence loses its markers: the first that has the text.
LEMMA StruckIs ==
    ASSUME NEW p, IsDraft(p), NEW d \in Restruck(p), NEW s
    PROVE  /\ Struck(d, s) \in Restruck(p)
           /\ \A j \in DOMAIN p : Struck(d, s)[j].marked => d[j].marked
           /\ \A j \in DOMAIN p : d[j].marked /\ ~ Struck(d, s)[j].marked => Occurs(s, d[j])
           /\ \A j \in DOMAIN p :
                Occurs(s, d[j]) /\ (\A k \in DOMAIN p : k < j => ~ Occurs(s, d[k])) => ~ Struck(d, s)[j].marked
<1>1. PICK n \in Nat : DOMAIN p = 1..n
  BY DEF IsDraft
<1>2. d \in [1..n -> Line] /\ \A j \in 1..n : d[j].kind = p[j].kind /\ d[j].says = p[j].says
  BY <1>1 DEF Restruck
<1>3. PICK at : at = {i \in DOMAIN d : Occurs(s, d[i])}
  OBVIOUS
<1>4. \A i \in 1..n : i \in at <=> Occurs(s, d[i])
  BY <1>2, <1>3
<1>5. CASE at = {}
  <2>1. Struck(d, s) = d
    BY <1>3, <1>5 DEF Struck
  <2>. QED  BY <1>1, <1>4, <1>5, <2>1
<1>6. CASE at # {}
  <2>1. at \subseteq Nat /\ at \subseteq 1..n
    BY <1>2, <1>3
  <2>2. PICK x : x = CHOOSE i \in at : \A j \in at : i <= j
    OBVIOUS
  <2>3. x \in at /\ \A j \in at : x <= j
    <3>1. PICK a \in at : \A b \in at : a <= b
      BY <1>6, <2>1, LeastMember
    <3>. QED  BY <2>2, <3>1
  <2>4. x \in 1..n
    BY <2>1, <2>3
  <2>5. PICK e : e = [d EXCEPT ![x].marked = FALSE]
    OBVIOUS
  <2>6. Struck(d, s) = e
    BY <1>3, <1>6, <2>2, <2>5 DEF Struck
  <2>7. \A j \in 1..n : j # x => e[j] = d[j]
    BY <1>2, <2>5
  <2>8. PICK l : l = d[x]
    OBVIOUS
  <2>9. l \in Line /\ e[x] = [l EXCEPT !.marked = FALSE]
    BY <1>2, <2>4, <2>5, <2>8
  <2>10. e[x] \in Line /\ e[x].kind = l.kind /\ e[x].says = l.says /\ e[x].marked = FALSE
    BY <2>9 DEF Line
  <2>11. \A j \in 1..n : e[j] \in Line /\ e[j].kind = d[j].kind /\ e[j].says = d[j].says
    <3>. TAKE j \in 1..n
    <3>1. CASE j = x
      BY <2>8, <2>10, <3>1
    <3>2. CASE j # x
      BY <1>2, <2>7, <3>2
    <3>. QED  BY <3>1, <3>2
  <2>12. e \in [1..n -> Line]
    <3>1. DOMAIN e = 1..n /\ e = [j \in 1..n |-> e[j]]
      BY <1>2, <2>5
    <3>. QED  BY <2>11, <3>1
  <2>13. e \in Restruck(p)
    BY <1>1, <1>2, <2>11, <2>12 DEF Restruck
  <2>14. \A j \in 1..n : e[j].marked => d[j].marked
    BY <2>7, <2>10
  <2>15. \A j \in 1..n : d[j].marked /\ ~ e[j].marked => Occurs(s, d[j])
    <3>. TAKE j \in 1..n
    <3>1. CASE j = x
      BY <1>4, <2>3, <3>1
    <3>2. CASE j # x
      BY <2>7, <3>2
    <3>. QED  BY <3>1, <3>2
  <2>16. \A j \in 1..n : Occurs(s, d[j]) /\ (\A k \in 1..n : k < j => ~ Occurs(s, d[k])) => ~ e[j].marked
    <3>. SUFFICES ASSUME NEW j \in 1..n, Occurs(s, d[j]), \A k \in 1..n : k < j => ~ Occurs(s, d[k])
         PROVE ~ e[j].marked
      OBVIOUS
    <3>1. x <= j /\ ~ x < j
      BY <1>4, <2>3, <2>4
    <3>2. x = j
      BY <2>4, <3>1
    <3>. QED  BY <2>10, <3>2
  <2>. QED  BY <1>1, <2>6, <2>13, <2>14, <2>15, <2>16
<1>. QED  BY <1>5, <1>6

\* Strip goes through the claims in order, and strikes those that fail.
Strikes(h, p, said) ==
    /\ h[0] = p
    /\ \A n \in 1..Len(p) :
         h[n] = IF n \in JudgedLines(p) /\ Fails(p[n].says, said) THEN Struck(h[n - 1], p[n].says) ELSE h[n - 1]

LEMMA StripIs ==
    ASSUME IsDraft(prose), NEW said, Strip(said)
    PROVE  \E h : Strikes(h, prose, said) /\ prose' = h[Len(prose)]
<1>1. PICK L, S, p : L \in Nat /\ p = prose /\ prose \in [1..L -> Line] /\ S = Restruck(prose)
  BY DEF IsDraft
<1>2. Len(prose) = L
  BY <1>1
<1>3. p \in S
  BY <1>1 DEF Restruck
<1>. DEFINE Next1(d, n) == IF n \in JudgedLines(p) /\ Fails(p[n].says, said) THEN Struck(d, p[n].says) ELSE d
            turn == [n \in 1..L |-> [d \in S |-> Next1(d, n)]]
<1>4. \A d \in S : \A n : Next1(d, n) \in S
  <2>. TAKE d \in S
  <2>. TAKE n
  <2>1. \A s : Struck(d, s) \in S
    BY <1>1, StruckIs
  <2>. QED  BY <2>1
<1>. HIDE DEF Next1
<1>5. turn \in [1..L -> [S -> S]]
  BY <1>4
<1>6. \A n \in 1..L : \A d \in S : turn[n][d] = Next1(d, n)
  OBVIOUS
<1>. HIDE DEF turn
<1>7. PICK f : Looped(f, L, S, p, turn)
  <2>1. PICK tt : tt = turn
    OBVIOUS
  <2>2. Loop(L, S, p, tt)
    BY <1>1, <1>3, <1>5, <2>1 DEF Loop
  <2>. QED  BY <2>1, <2>2, Iterates
<1>8. f \in [0..L -> S] /\ f[0] = p /\ \A n \in 1..L : f[n] = turn[n][f[n - 1]]
  BY <1>7 DEF Looped
<1>9. \A n \in 0..L : f[n] = IF n = 0 THEN p ELSE Next1(f[n - 1], n)
  <2>. TAKE n \in 0..L
  <2>1. CASE n = 0
    BY <1>8, <2>1
  <2>2. CASE n # 0
    <3>1. n \in 1..L /\ n - 1 \in 0..L
      BY <1>1, <2>2
    <3>. QED  BY <1>6, <1>8, <2>2, <3>1
  <2>. QED  BY <2>1, <2>2
<1>10. f = [n \in 0..L |-> IF n = 0 THEN p ELSE Next1(f[n - 1], n)]
  <2>1. f = [n \in 0..L |-> f[n]]
    BY <1>8
  <2>. QED  BY <1>9, <2>1
<1>. DEFINE h == CHOOSE g : g = [i \in 0..L |-> IF i = 0 THEN p ELSE Next1(g[i - 1], i)]
<1>11. h = [n \in 0..L |-> IF n = 0 THEN p ELSE Next1(h[n - 1], n)]
  BY <1>10
<1>12. prose' = h[L]
  BY <1>1, <1>2 DEF Strip, Next1
<1>. HIDE DEF h
<1>13. PICK hh : hh = h
  OBVIOUS
<1>14. Strikes(hh, p, said)
  <2>1. 0 \in 0..L /\ \A n \in 1..L : n \in 0..L /\ n # 0
    BY <1>1
  <2>2. h[0] = p /\ \A n \in 1..L : h[n] = Next1(h[n - 1], n)
    BY <1>11, <2>1
  <2>. QED  BY <1>1, <1>2, <1>13, <2>2 DEF Strikes, Next1
<1>. QED  BY <1>1, <1>2, <1>12, <1>13, <1>14

\* Only lines of the draft are judged.
LEMMA JudgedInside ==
    ASSUME NEW p, IsDraft(p)
    PROVE  JudgedLines(p) \subseteq DOMAIN p
<1>1. PICK n \in Nat : DOMAIN p = 1..n /\ Len(p) = n
  BY DEF IsDraft
<1>2. PICK ends : ends = {k \in DOMAIN p : p[k].kind = "sources"}
  OBVIOUS
<1>3. BodyEnds(p) - 1 \in Int /\ BodyEnds(p) - 1 <= n
  <2>1. CASE ends = {}
    BY <1>1, <1>2, <2>1 DEF BodyEnds
  <2>2. CASE ends # {}
    <3>1. ends \subseteq Nat
      BY <1>1, <1>2
    <3>2. PICK a \in ends : \A b \in ends : a <= b
      BY <2>2, <3>1, LeastMember
    <3>3. PICK x : x = CHOOSE i \in ends : \A j \in ends : i <= j
      OBVIOUS
    <3>4. x \in ends
      BY <3>2, <3>3
    <3>5. BodyEnds(p) = x
      BY <1>2, <2>2, <3>3 DEF BodyEnds
    <3>. QED  BY <1>1, <1>2, <3>4, <3>5
  <2>. QED  BY <2>1, <2>2
<1>4. \A i \in 1 .. BodyEnds(p) - 1 : i \in 1..n
  BY <1>1, <1>3
<1>. QED  BY <1>1, <1>4 DEF JudgedLines

\* What is judged does not depend on the markers.
LEMMA SameLines ==
    ASSUME NEW p, IsDraft(p), NEW d \in Restruck(p)
    PROVE  JudgedLines(d) = JudgedLines(p) /\ Claims(d) = Claims(p) /\ Todo(d) = Todo(p)
<1>1. PICK n \in Nat : DOMAIN p = 1..n /\ p \in [1..n -> Line]
  BY DEF IsDraft
<1>2. d \in [1..n -> Line] /\ \A j \in 1..n : d[j].kind = p[j].kind /\ d[j].says = p[j].says
  BY <1>1 DEF Restruck
<1>3. DOMAIN d = 1..n /\ Len(d) = n /\ Len(p) = n
  BY <1>1, <1>2
<1>4. BodyEnds(d) = BodyEnds(p) /\ BodyEnds(p) - 1 \in Int /\ BodyEnds(p) - 1 <= n
  <2>1. PICK ends : ends = {i \in 1..n : p[i].kind = "sources"}
    OBVIOUS
  <2>2. ends = {i \in DOMAIN d : d[i].kind = "sources"} /\ ends = {i \in DOMAIN p : p[i].kind = "sources"}
    BY <1>1, <1>2, <1>3, <2>1
  <2>3. CASE ends = {}
    BY <1>3, <2>2, <2>3 DEF BodyEnds
  <2>4. CASE ends # {}
    <3>1. ends \subseteq Nat
      BY <1>1, <2>1
    <3>2. PICK a \in ends : \A b \in ends : a <= b
      BY <2>4, <3>1, LeastMember
    <3>3. PICK x : x = CHOOSE i \in ends : \A j \in ends : i <= j
      OBVIOUS
    <3>4. x \in ends
      BY <3>2, <3>3
    <3>5. BodyEnds(d) = x /\ BodyEnds(p) = x
      BY <2>2, <2>4, <3>3 DEF BodyEnds
    <3>. QED  BY <2>1, <3>4, <3>5
  <2>. QED  BY <2>3, <2>4
<1>5. \A i \in 1..n : Limits(d, i) <=> Limits(p, i)
  <2>. TAKE i \in 1..n
  <2>1. \A j \in 1 .. i - 1 : j \in 1..n /\ \A k \in j + 1 .. i - 1 : k \in 1..n
    BY <1>1
  <2>. QED  BY <1>2, <2>1 DEF Limits
<1>6. \A i \in 1 .. BodyEnds(p) - 1 : i \in 1..n
  BY <1>1, <1>4
<1>7. JudgedLines(d) = JudgedLines(p)
  BY <1>2, <1>4, <1>5, <1>6 DEF JudgedLines
<1>8. PICK at : at = InOrder(JudgedLines(p))
  OBVIOUS
<1>9. \A i \in DOMAIN at : d[at[i]].says = p[at[i]].says
  <2>1. PICK S : S = JudgedLines(p)
    OBVIOUS
  <2>2. S \subseteq 1..n
    BY <1>6, <2>1 DEF JudgedLines
  <2>3. S \subseteq Nat /\ IsFiniteSet(S)
    <3>1. IsFiniteSet(1..n)
      BY FS_Interval
    <3>2. IsFiniteSet(S)
      BY <2>2, <3>1, FS_Subset
    <3>3. S \subseteq Nat
      BY <2>2
    <3>. QED  BY <3>2, <3>3
  <2>4. \A k \in DOMAIN InOrder(S) : InOrder(S)[k] \in S
    BY <2>3, Ordered
  <2>. QED  BY <1>2, <1>8, <2>1, <2>2, <2>4
<1>10. Claims(d) = Claims(p)
  BY <1>7, <1>8, <1>9 DEF Claims
<1>. QED  BY <1>7, <1>10 DEF Todo

\* Strikes go on from strike to strike.
LEMMA StrikesKeep ==
    ASSUME NEW p, IsDraft(p), NEW said, NEW h, Strikes(h, p, said)
    PROVE  \A n \in 0..Len(p) : h[n] \in Restruck(p)
<1>1. PICK L \in Nat : p \in [1..L -> Line]
  BY DEF IsDraft
<1>2. Len(p) = L
  BY <1>1
<1>3. PICK S : S = Restruck(p)
  OBVIOUS
<1>4. p \in S
  BY <1>1, <1>3 DEF Restruck
<1>5. h[0] \in S
  BY <1>4 DEF Strikes
<1>6. \A n \in 1..L : h[n - 1] \in S => h[n] \in S
  <2>. SUFFICES ASSUME NEW n \in 1..L, h[n - 1] \in S PROVE h[n] \in S
    OBVIOUS
  <2>1. PICK d : d = h[n - 1]
    OBVIOUS
  <2>2. Struck(d, p[n].says) \in S
    <3>1. PICK s : s = p[n].says
      OBVIOUS
    <3>2. d \in Restruck(p)
      BY <1>3, <2>1
    <3>. QED  BY <1>3, <3>1, <3>2, StruckIs
  <2>3. h[n] = d \/ h[n] = Struck(d, p[n].says)
    BY <1>2, <2>1 DEF Strikes
  <2>. QED  BY <2>1, <2>2, <2>3
<1>7. \A n \in 0..L : h[n] \in S
  BY <1>1, <1>5, <1>6, LoopKeeps
<1>. QED  BY <1>2, <1>3, <1>7

\* No text of another line is a part of this one's, or has it for a part.
Alone(p, i) ==
    /\ ~ Traits[p[i].says].respaced
    /\ \A j \in DOMAIN p \ {i} :
          /\ p[j].says = p[i].says => j \in JudgedLines(p)
          /\ <<p[i].says, p[j].says>> \notin Inside /\ <<p[j].says, p[i].says>> \notin Inside

\* A claim that holds keeps its markers.
LEMMA HeldIsKept ==
    ASSUME NEW p, IsDraft(p), \A j \in DOMAIN p : p[j].marked, NEW said, NEW h, Strikes(h, p, said),
           NEW i \in JudgedLines(p), i \in DOMAIN p, Alone(p, i), ~ Fails(p[i].says, said)
    PROVE  h[Len(p)][i].marked
<1>1. PICK L \in Nat : p \in [1..L -> Line]
  BY DEF IsDraft
<1>2. Len(p) = L /\ DOMAIN p = 1..L
  BY <1>1
<1>3. \A n \in 0..L : h[n] \in Restruck(p)
  BY <1>2, StrikesKeep
<1>. DEFINE S == {d \in Restruck(p) : d[i].marked}
<1>4. h[0] \in S
  BY <1>2, <1>3 DEF Strikes
<1>5. ASSUME NEW n \in 1..L, h[n - 1] \in S PROVE h[n] \in S
  <2>1. PICK d : d = h[n - 1]
    OBVIOUS
  <2>2. d \in Restruck(p) /\ d[i].marked
    BY <1>5, <2>1
  <2>3. CASE ~ (n \in JudgedLines(p) /\ Fails(p[n].says, said))
    <3>1. h[n] = d
      BY <1>2, <2>1, <2>3 DEF Strikes
    <3>. QED  BY <2>2, <3>1
  <2>4. CASE n \in JudgedLines(p) /\ Fails(p[n].says, said)
    <3>1. PICK s : s = p[n].says
      OBVIOUS
    <3>2. h[n] = Struck(d, s)
      BY <1>2, <2>1, <2>4, <3>1 DEF Strikes
    <3>3. s # p[i].says /\ n # i
      BY <2>4, <3>1
    <3>4. d[i].says = p[i].says
      BY <2>2 DEF Restruck
    <3>5. <<s, p[i].says>> \notin Inside
      BY <1>2, <3>1, <3>3 DEF Alone
    <3>6. ~ Occurs(s, d[i])
      BY <3>3, <3>4, <3>5 DEF Occurs
    <3>7. PICK e : e = Struck(d, s)
      OBVIOUS
    <3>8. e \in Restruck(p) /\ e[i].marked
      BY <2>2, <3>6, <3>7, StruckIs
    <3>. QED  BY <3>2, <3>7, <3>8
  <2>. QED  BY <2>3, <2>4
<1>. HIDE DEF S
<1>6. \A n \in 0..L : h[n] \in S
  BY <1>1, <1>4, <1>5, LoopKeeps
<1>7. h[L] \in S
  BY <1>1, <1>6
<1>. QED  BY <1>2, <1>7 DEF S

\* A claim that fails loses them, wherever it was made.
LEMMA FailedIsStruck ==
    ASSUME NEW p, IsDraft(p), NEW said, NEW h, Strikes(h, p, said),
           NEW i \in JudgedLines(p), i \in DOMAIN p, Alone(p, i), Fails(p[i].says, said)
    PROVE  ~ h[Len(p)][i].marked
<1>1. PICK L \in Nat : p \in [1..L -> Line]
  BY DEF IsDraft
<1>2. Len(p) = L /\ DOMAIN p = 1..L
  BY <1>1
<1>3. \A n \in 0..L : h[n] \in Restruck(p)
  BY <1>2, StrikesKeep
<1>4. PICK s : s = p[i].says
  OBVIOUS
<1>5. ASSUME NEW d \in Restruck(p), NEW j \in 1..L, Occurs(s, d[j]) PROVE d[j].says = s /\ p[j].says = s
  <2>1. d[j].says = p[j].says
    BY <1>2 DEF Restruck
  <2>2. j # i => <<s, p[j].says>> \notin Inside
    BY <1>2, <1>4 DEF Alone
  <2>. QED  BY <1>4, <1>5, <2>1, <2>2 DEF Occurs
<1>6. \A j \in 1..L : p[j].says = s => j \in JudgedLines(p) /\ p[j].kind = "sentence"
  BY <1>2, <1>4 DEF Alone, JudgedLines
<1>. DEFINE Gone(n) == \A j \in 1..n : p[j].says = s => ~ h[n][j].marked
            Good == {n \in Nat : n \in 0..L => Gone(n)}
<1>7. 0 \in Good
  OBVIOUS
<1>8. ASSUME NEW n \in Nat, n \in Good PROVE n + 1 \in Good
  <2>. SUFFICES ASSUME n + 1 \in 0..L, NEW j \in 1..(n + 1), p[j].says = s PROVE ~ h[n + 1][j].marked
    OBVIOUS
  <2>0. n \in 0..L /\ n + 1 \in 1..L /\ (n + 1) - 1 = n /\ j \in 1..L
    BY <1>1
  <2>1. PICK d : d = h[n]
    OBVIOUS
  <2>2. d \in Restruck(p) /\ \A k \in 1..n : p[k].says = s => ~ d[k].marked
    BY <1>3, <1>8, <2>0, <2>1
  <2>3. CASE ~ (n + 1 \in JudgedLines(p) /\ Fails(p[n + 1].says, said))
    <3>1. h[n + 1] = d
      BY <1>2, <2>0, <2>1, <2>3 DEF Strikes
    <3>2. p[n + 1].says # s
      BY <1>4, <1>6, <2>0, <2>3
    <3>3. j \in 1..n
      BY <2>0, <3>2
    <3>. QED  BY <2>2, <3>1, <3>3
  <2>4. CASE n + 1 \in JudgedLines(p) /\ Fails(p[n + 1].says, said)
    <3>1. PICK t, e : t = p[n + 1].says /\ e = Struck(d, t)
      OBVIOUS
    <3>2. h[n + 1] = e
      BY <1>2, <2>0, <2>1, <2>4, <3>1 DEF Strikes
    <3>3. /\ \A k \in DOMAIN p : e[k].marked => d[k].marked
          /\ \A k \in DOMAIN p :
               Occurs(t, d[k]) /\ (\A m \in DOMAIN p : m < k => ~ Occurs(t, d[m])) => ~ e[k].marked
      BY <2>2, <3>1, StruckIs
    <3>4. CASE j \in 1..n
      BY <1>2, <2>0, <2>2, <3>2, <3>3, <3>4
    <3>5. CASE j = n + 1 /\ d[j].marked
      <4>1. t = s
        BY <3>1, <3>5
      <4>2. d[j].kind = "sentence" /\ d[j].says = s
        BY <1>2, <1>6, <2>0, <2>2 DEF Restruck
      <4>3. Occurs(t, d[j])
        BY <1>4, <3>5, <4>1, <4>2 DEF Occurs, Alone
      <4>4. ASSUME NEW m \in 1..L, m < j PROVE ~ Occurs(t, d[m])
        <5>1. m \in 1..n
          BY <2>0, <3>5, <4>4
        <5>2. SUFFICES ASSUME Occurs(s, d[m]) PROVE FALSE
          BY <4>1
        <5>3. p[m].says = s
          BY <1>5, <2>2, <5>2
        <5>. QED  BY <2>2, <5>1, <5>2, <5>3 DEF Occurs
      <4>. QED  BY <1>2, <2>0, <3>2, <3>3, <4>3, <4>4
    <3>6. CASE j = n + 1 /\ ~ d[j].marked
      BY <1>2, <2>0, <3>2, <3>3, <3>6
    <3>. QED  BY <2>0, <3>4, <3>5, <3>6
  <2>. QED  BY <2>3, <2>4
<1>9. Gone(L)
  <2>1. Nat \subseteq Good
    <3>. HIDE DEF Good
    <3>. QED  BY <1>7, <1>8, Counting
  <2>2. L \in Good /\ L \in 0..L
    BY <1>1, <2>1
  <2>. HIDE DEF Gone
  <2>. QED  BY <2>2
<1>. QED  BY <1>2, <1>4, <1>9

\* What is said of a claim, before any model is asked and after.
Sound(s) ==
    /\ Traits[s].shape = "plain"
    /\ Traits[s].marks \subseteq Known
    /\ \A f \in Traits[s].figures : \E n \in Traits[s].marks : f \in Shown[n]

LEMMA SoundIs ==
    ASSUME NEW s, Traits[s].shape \in {"plain", "deictic", "label"}
    PROVE  Sound(s) <=> ~ Unsupported(s)
<1>1. Traits[s].marks \subseteq Known <=> Traits[s].marks \ Known = {}
  OBVIOUS
<1>2. (\A f \in Traits[s].figures : \E n \in Traits[s].marks : f \in Shown[n])
        <=> Traits[s].figures \ UNION {Shown[n] : n \in Traits[s].marks} = {}
  OBVIOUS
<1>3. Traits[s].shape = "plain" <=> Traits[s].shape \notin {"deictic", "label"}
  OBVIOUS
<1>. QED  BY <1>1, <1>2, <1>3 DEF Sound, Unsupported

FidelityInv ==
    /\ IsDraft(prose)
    /\ phase = "asking" => \A j \in DOMAIN prose : prose[j].marked
    /\ MarkersAreBacked

LEMMA StripBacks ==
    ASSUME FidelityInv, phase = "asking", NEW said, Strip(said), rulings' = said
    PROVE  FidelityInv'
<1>1. PICK p, d : p = prose /\ d = prose'
  OBVIOUS
<1>2. IsDraft(p) /\ \A j \in DOMAIN p : p[j].marked
  BY <1>1 DEF FidelityInv
<1>3. PICK L \in Nat : p \in [1..L -> Line]
  BY <1>2 DEF IsDraft
<1>4. Len(p) = L /\ DOMAIN p = 1..L /\ L \in 0..L
  BY <1>3
<1>5. PICK h : Strikes(h, p, said) /\ d = h[L]
  BY <1>1, <1>2, <1>4, StripIs
<1>6. d \in Restruck(p)
  BY <1>2, <1>4, <1>5, StrikesKeep
<1>7. DOMAIN d = 1..L /\ d \in [1..L -> Line] /\ \A j \in 1..L : d[j].says = p[j].says /\ d[j].kind = p[j].kind
  BY <1>4, <1>6 DEF Restruck
<1>8. JudgedLines(d) = JudgedLines(p) /\ Claims(d) = Claims(p) /\ Todo(d) = Todo(p)
  BY <1>2, <1>6, SameLines
<1>9. IsDraft(d)
  BY <1>2, <1>4, <1>7 DEF IsDraft
<1>10. phase' = "checked"
  BY DEF Strip
<1>11. Exempt' <=> Exempt
  BY <1>1, <1>8 DEF Exempt
<1>12. \A s : RuledOut(s, rulings)' <=> RuledOut(s, said)
  <2>. TAKE s
  <2>1. PICK asked : asked = Todo(p)
    OBVIOUS
  <2>2. RuledOut(s, said) <=>
          LET of == {i \in DOMAIN said : asked[i] = s}
          IN  of # {} /\ said[CHOOSE i \in of : \A j \in of : j <= i] = "NO"
    BY <1>1, <2>1 DEF RuledOut
  <2>3. Todo(prose)' = asked
    BY <1>1, <1>8, <2>1
  <2>4. RuledOut(s, rulings)' <=>
          LET of == {i \in DOMAIN said : asked[i] = s}
          IN  of # {} /\ said[CHOOSE i \in of : \A j \in of : j <= i] = "NO"
    BY <2>3 DEF RuledOut
  <2>. QED  BY <2>2, <2>4
<1>13. ASSUME NEW i \in JudgedLines(p), StandsAlone(i)'
       PROVE  d[i].marked <=> Sound(p[i].says) /\ ~ RuledOut(p[i].says, said)
  <2>1. i \in 1..L /\ p[i].kind = "sentence" /\ Traits[p[i].says].shape # "short"
    <3>1. i \in 1..L
      BY <1>2, <1>4, JudgedInside
    <3>. QED  BY <3>1 DEF JudgedLines
  <2>2. Traits[p[i].says].shape \in {"plain", "deictic", "label"}
    BY <1>2, <1>4, <2>1 DEF IsDraft
  <2>3. Alone(p, i)
    <3>1. /\ ~ Traits[d[i].says].respaced
          /\ \A j \in DOMAIN d \ {i} :
                /\ d[j].says = d[i].says => j \in JudgedLines(d)
                /\ {<<d[i].says, d[j].says>>, <<d[j].says, d[i].says>>} \cap Inside = {}
      BY <1>1, <1>13 DEF StandsAlone
    <3>2. d[i].says = p[i].says
      BY <1>7, <2>1
    <3>3. \A j \in DOMAIN p \ {i} :
            /\ p[j].says = p[i].says => j \in JudgedLines(p)
            /\ {<<p[i].says, p[j].says>>, <<p[j].says, p[i].says>>} \cap Inside = {}
      BY <1>4, <1>7, <1>8, <3>1, <3>2
    <3>. QED  BY <3>1, <3>2, <3>3 DEF Alone
  <2>4. PICK s : s = p[i].says
    OBVIOUS
  <2>5. Fails(s, said) <=> ~ (Sound(s) /\ ~ RuledOut(s, said))
    BY <2>2, <2>4, SoundIs DEF Fails
  <2>6. CASE Fails(s, said)
    <3>1. ~ h[Len(p)][i].marked
      BY <1>2, <1>4, <1>5, <2>1, <2>3, <2>4, <2>6, FailedIsStruck
    <3>. QED  BY <1>4, <1>5, <2>4, <2>5, <2>6, <3>1
  <2>7. CASE ~ Fails(s, said)
    <3>1. h[Len(p)][i].marked
      BY <1>2, <1>4, <1>5, <2>1, <2>3, <2>4, <2>7, HeldIsKept
    <3>. QED  BY <1>4, <1>5, <2>4, <2>5, <2>7, <3>1
  <2>. QED  BY <2>6, <2>7
<1>14. MarkersAreBacked'
  <2>. SUFFICES ASSUME NEW i \in JudgedLines(d), StandsAlone(i)'
       PROVE  (LET s == prose[i].says
               IN  prose[i].marked <=>
                       /\ Traits[s].shape = "plain"
                       /\ Traits[s].marks \subseteq Known
                       /\ \A f \in Traits[s].figures : \E n \in Traits[s].marks : f \in Shown[n]
                       /\ ~RuledOut(s, rulings))'
    BY <1>1 DEF MarkersAreBacked
  <2>1. i \in JudgedLines(p)
    BY <1>8
  <2>2. i \in 1..L
    BY <1>2, <1>4, <2>1, JudgedInside
  <2>3. d[i].says = p[i].says
    BY <1>7, <2>2
  <2>4. PICK s : s = d[i].says
    OBVIOUS
  <2>5. d[i].marked <=> Sound(s) /\ ~ RuledOut(s, said)
    BY <1>13, <2>1, <2>3, <2>4
  <2>6. RuledOut(prose[i].says, rulings)' <=> RuledOut(s, rulings)'
    BY <1>1, <2>4
  <2>7. RuledOut(s, rulings)' <=> RuledOut(s, said)
    BY <1>12
  <2>. QED  BY <1>1, <2>4, <2>5, <2>6, <2>7 DEF Sound
<1>. QED  BY <1>1, <1>9, <1>10, <1>14 DEF FidelityInv

\* "A citation the evidence does not back is worse than an admitted gap": whatever the
\* draft, the sources and the verifier's answers, and whether or not it answers, a claim
\* that stands alone keeps its markers just when they are backed
\* (_verify_citation_fidelity).
THEOREM MarkersStayBacked == FidelitySpec => []MarkersAreBacked
<1>1. FidelityInit => FidelityInv
  <2>. SUFFICES ASSUME FidelityInit PROVE FidelityInv
    OBVIOUS
  <2>1. PICK r \in Reported : prose = [i \in DOMAIN r |-> [kind |-> r[i].kind, says |-> r[i].says, marked |-> TRUE]]
    BY DEF FidelityInit
  <2>2. PICK n, p : n = Len(r) /\ p = prose
    OBVIOUS
  <2>. DEFINE S == [kind : STRING, says : STRING]
  <2>3. r \in Seq(S)
    BY FidelityAssumption
  <2>. HIDE DEF S
  <2>4. n \in Nat /\ DOMAIN r = 1..n /\ \A i \in 1..n : r[i] \in S
    BY <2>2, <2>3
  <2>5. \A i \in 1..n : p[i] = [kind |-> r[i].kind, says |-> r[i].says, marked |-> TRUE]
    BY <2>1, <2>2, <2>4
  <2>6. \A i \in 1..n : /\ p[i] \in Line /\ p[i].marked
                        /\ p[i].kind = r[i].kind /\ p[i].says = r[i].says
    <3>. TAKE i \in 1..n
    <3>1. r[i].kind \in STRING /\ r[i].says \in STRING
      BY <2>4 DEF S
    <3>2. PICK a \in STRING, b \in STRING : a = r[i].kind /\ b = r[i].says
      BY <3>1
    <3>3. p[i] = [kind |-> a, says |-> b, marked |-> TRUE]
      BY <2>5, <3>2
    <3>. QED  BY <3>2, <3>3 DEF Line
  <2>7. DOMAIN p = 1..n /\ p = [i \in 1..n |-> p[i]]
    BY <2>1, <2>2, <2>4
  <2>8. p \in [1..n -> Line]
    BY <2>6, <2>7
  <2>9. \A i \in 1..n : r[i].kind = "sentence" =>
          r[i].says \in DOMAIN Traits /\ Traits[r[i].says].shape \in {"plain", "short", "deictic", "label"}
    BY <2>4, FidelityAssumption
  <2>10. IsDraft(p)
    BY <2>4, <2>6, <2>7, <2>8, <2>9 DEF IsDraft
  <2>11. phase = "asking"
    BY DEF FidelityInit
  <2>. QED  BY <2>2, <2>6, <2>7, <2>10, <2>11 DEF FidelityInv, MarkersAreBacked
<1>2. FidelityInv /\ [FidelityNext]_fidelityVars => FidelityInv'
  <2>. SUFFICES ASSUME FidelityInv, [FidelityNext]_fidelityVars PROVE FidelityInv'
    OBVIOUS
  <2>1. CASE AskBatch
    BY <2>1 DEF AskBatch, FidelityInv, MarkersAreBacked
  <2>2. CASE VerifierFails
    <3>1. Strip(<<>>) /\ rulings' = <<>> /\ phase = "asking"
      BY <2>2 DEF VerifierFails
    <3>2. PICK said : said = <<>>
      OBVIOUS
    <3>. QED  BY <3>1, <3>2, StripBacks
  <2>3. CASE Conclude /\ ~ Exempt
    <3>1. Strip(rulings) /\ rulings' = rulings /\ phase = "asking"
      BY <2>3 DEF Conclude
    <3>2. PICK said : said = rulings
      OBVIOUS
    <3>. QED  BY <3>1, <3>2, StripBacks
  <2>4. CASE Conclude /\ Exempt
    <3>1. prose' = prose /\ phase' = "checked"
      BY <2>4 DEF Conclude
    <3>2. Exempt'
      BY <2>4, <3>1 DEF Exempt
    <3>. QED  BY <3>1, <3>2 DEF FidelityInv, MarkersAreBacked
  <2>5. CASE UNCHANGED fidelityVars
    <3>1. prose' = prose /\ phase' = phase /\ rulings' = rulings
      BY <2>5 DEF fidelityVars
    <3>2. Exempt' <=> Exempt
      BY <3>1 DEF Exempt
    <3>3. \A i : StandsAlone(i)' <=> StandsAlone(i)
      BY <3>1 DEF StandsAlone
    <3>4. \A s : RuledOut(s, rulings)' <=> RuledOut(s, rulings)
      BY <3>1 DEF RuledOut
    <3>5. MarkersAreBacked'
      BY <3>1, <3>2, <3>3, <3>4 DEF FidelityInv, MarkersAreBacked
    <3>. QED  BY <3>1, <3>5 DEF FidelityInv
  <2>. QED  BY <2>1, <2>2, <2>3, <2>4, <2>5 DEF FidelityNext
<1>3. FidelityInv => MarkersAreBacked
  BY DEF FidelityInv
<1>. QED  BY <1>1, <1>2, <1>3, PTL DEF FidelitySpec

=============================================================================
