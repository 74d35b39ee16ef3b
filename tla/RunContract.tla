----------------------------- MODULE RunContract -----------------------------
(***************************************************************************)
(* What a research run promises to whoever reads it, however its handlers  *)
(* and workers interleave: revisions are only ever appended; the artifact  *)
(* is frozen once, from the latest report, in the step that completes the  *)
(* run; a cancelled run stays cancelled and gains nothing; a deleted run   *)
(* is gone.                                                                *)
(***************************************************************************)
EXTENDS Naturals, Sequences

CONSTANTS Reports,     \* report texts
          NoArtifact   \* the value of an artifact that does not exist

VARIABLES status, revisions, artifact

contractVars == <<status, revisions, artifact>>

Open == {"PENDING", "RUNNING", "AWAITING_PLAN", "AWAITING_REVIEW", "FAILED", "COMPLETED"}

Start == status = "NONE" /\ revisions = <<>> /\ artifact = NoArtifact

Create ==
    /\ status = "NONE"
    /\ status' = "PENDING"
    /\ UNCHANGED <<revisions, artifact>>

\* Driving the run: any open status may follow any other, and a draft may be
\* added; completing is not among the things a driver or a decision can do alone.
Work ==
    /\ status \in Open
    /\ status' \in Open
    /\ status' = "COMPLETED" => status = "COMPLETED"
    /\ revisions' = revisions \/ \E text \in Reports : revisions' = Append(revisions, text)
    /\ UNCHANGED artifact

\* Approval: one transaction, once in the life of the run.
Approve ==
    /\ status \in Open
    /\ artifact = NoArtifact
    /\ \E v \in DOMAIN revisions :
         /\ artifact'.revision = v
         /\ artifact'.report = revisions[v]
         /\ revisions[v] = revisions[Len(revisions)]
    /\ status' = "COMPLETED"
    /\ UNCHANGED revisions

\* The user's decision, even over a run that completed a moment ago.
Cancel ==
    /\ status \in Open
    /\ status' = "CANCELLED"
    /\ UNCHANGED <<revisions, artifact>>

Delete ==
    /\ status \in Open \cup {"CANCELLED"}
    /\ status' = "DELETED"
    /\ revisions' = <<>>
    /\ artifact' = NoArtifact

Contract == Start /\ [][Create \/ Work \/ Approve \/ Cancel \/ Delete]_contractVars

=============================================================================
