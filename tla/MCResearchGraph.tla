--------------------------- MODULE MCResearchGraph ---------------------------
(***************************************************************************)
(* Values for model-checking ResearchGraph and CorpusLayout on a small        *)
(* instance.  They share no variable: a behaviour runs the graph of one run    *)
(* after the corpus has moved, or moves the corpus after that run has ended.   *)
(***************************************************************************)
EXTENDS ResearchGraph, MCCorpusLayout

CONSTANTS t1, t2, t3

TwoTasks == <<t1, t2>>
ThreeTasks == <<t1, t2, t3>>

\* A fresh installation after its first launch.
LayoutRests ==
    /\ app = "serving" /\ mode = "per_project"
    /\ layout = "per_project" /\ recorded = FALSE /\ lock = "none"
    /\ legacy = Gone /\ backup = Gone /\ store = Gone
    /\ library = {} /\ later = {} /\ slips = {}
    /\ budget = [crashes |-> MaxCrashes, refusals |-> MaxRefusals, damage |-> MaxDamage]

GraphRests ==
    /\ node = "end"
    /\ state = [tasks |-> <<>>, evidence |-> <<>>, passed |-> {},
                retries |-> [t \in TaskIds |-> 0], round |-> 0, reworks |-> 0, cost |-> 0,
                sourcesSeen |-> FALSE, conflicts |-> FALSE, draft |-> NoDraft,
                grounding |-> Ungrounded, final |-> NoDraft, error |-> "none"]
    /\ work = [t \in TaskIds |-> Idle]
    /\ spent = 0 /\ told = 0 /\ late = FALSE /\ billed = 0 /\ lost = 0

OfGraph(A)  == LayoutRests /\ A /\ UNCHANGED layoutVars
OfLayout(A) == GraphRests /\ A /\ UNCHANGED vars

RoundsSpec ==
    /\ (LayoutRests /\ Init) \/ (GraphRests /\ LayoutInit)
    /\ [][OfGraph(Next) \/ OfLayout(LayoutNext)]_<<vars, layoutVars>>
    /\ WF_<<vars, layoutVars>>(OfGraph(Run)) /\ WF_<<vars, layoutVars>>(OfLayout(Proceed))

=============================================================================
