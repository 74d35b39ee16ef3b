--------------------------- MODULE CitationFidelity ---------------------------
(***************************************************************************)
(* The last look at a report before its gate (graph._verify_citation_fidelity):*)
(* every cited claim is judged against the snippets of the sources it cites,    *)
(* by rule and then by a model, a batch at a time; a claim that fails loses its *)
(* markers and says so.                                                      *)
(*                                                                           *)
(* A draft is a sequence of lines, each a heading or one sentence.  A sentence *)
(* is known by name; Traits tells what the rules look at.  The strip finds its  *)
(* sentence by its text, so one that stands inside another, or that the        *)
(* splitting of sentences has respaced, may be found elsewhere or not at all.  *)
(***************************************************************************)
EXTENDS Integers, FiniteSets, Sequences, Filtering

CONSTANTS
    Reported,   \* drafts: sequences of [kind, says]
    Traits,     \* of a sentence: [shape, marks, figures, respaced]
    Inside,     \* <<s, t>> when the text of s is a part of that of t
    Known,      \* numbers the report's sources have
    Shown,      \* [numbers -> figures their snippets contain]
    Batch       \* BATCH

ASSUME FidelityAssumption ==
    /\ Batch \in Nat \ {0}
    /\ Reported \subseteq Seq([kind : STRING, says : STRING])
    /\ \A d \in Reported : \A i \in DOMAIN d :
         d[i].kind = "sentence" =>
            /\ d[i].says \in DOMAIN Traits
            /\ Traits[d[i].says].shape \in {"plain", "short", "deictic", "label"}

VARIABLES
    prose,   \* the draft: [kind, says, marked]
    rulings, \* answers so far, in the order asked: "YES", "NO" or "silent"
    phase    \* "asking" or "checked"

fidelityVars == <<prose, rulings, phase>>

-----------------------------------------------------------------------------
(* Which claims are judged *)

\* A heading of the sources, or a line that says no more than that, ends the body.
BodyEnds(d) ==
    LET ends == {i \in DOMAIN d : d[i].kind = "sources"}
    IN  IF ends = {} THEN Len(d) + 1 ELSE CHOOSE i \in ends : \A j \in ends : i <= j

\* Under the last heading before the line.
Limits(d, i) ==
    \E j \in 1 .. i - 1 : /\ d[j].kind = "limitations"
                          /\ \A k \in j + 1 .. i - 1 : d[k].kind = "sentence"

\* _cited_claims: where sentences of the body cite something.
JudgedLines(d) ==
    {i \in 1 .. BodyEnds(d) - 1 :
        /\ d[i].kind = "sentence" /\ ~Limits(d, i)
        /\ Traits[d[i].says].shape # "short" /\ Traits[d[i].says].marks # {}}

Claims(d) == LET at == InOrder(JudgedLines(d)) IN [i \in DOMAIN at |-> d[at[i]].says]

\* Mutant: a figure is checked against all there is, not what is cited.
UnsupportedAnywhere(s) ==
    \/ Traits[s].shape \in {"deictic", "label"}
    \/ Traits[s].marks \ Known # {}
    \/ Traits[s].figures \ UNION {Shown[n] : n \in Known} # {}

\* It cannot stand alone, cites what is not there, or has a figure its snippets
\* do not: no model is asked.
Unsupported(s) ==
    \/ Traits[s].shape \in {"deictic", "label"}
    \/ Traits[s].marks \ Known # {}
    \/ Traits[s].figures \ UNION {Shown[n] : n \in Traits[s].marks} # {}

\* What is left for the model to judge.
Askable == {s \in DOMAIN Traits : ~Unsupported(s)}
Todo(d) == Among(Claims(d), Askable)

-----------------------------------------------------------------------------
(* The check *)

\* A sentence that occurs twice is asked of twice; the last answer counts for both.
RuledOut(s, said) ==
    LET of == {i \in DOMAIN said : Todo(prose)[i] = s}
    IN  of # {} /\ said[CHOOSE i \in of : \A j \in of : j <= i] = "NO"

Fails(s, said) == Unsupported(s) \/ RuledOut(s, said)

Occurs(s, line) ==
    /\ line.kind = "sentence" /\ line.marked
    /\ (line.says = s /\ ~Traits[s].respaced) \/ <<s, line.says>> \in Inside

\* The first place the text stands loses its markers.
Struck(d, s) ==
    LET at == {i \in DOMAIN d : Occurs(s, d[i])}
    IN  IF at = {} THEN d
        ELSE [d EXCEPT ![CHOOSE i \in at : \A j \in at : i <= j].marked = FALSE]

\* Every claim that fails, in the order of the claims, as often as it was claimed.
Strip(said) ==
    LET lines == JudgedLines(prose)
        after[i \in 0 .. Len(prose)] ==
            IF i = 0 THEN prose
            ELSE IF i \in lines /\ Fails(prose[i].says, said) THEN Struck(after[i - 1], prose[i].says)
            ELSE after[i - 1]
    IN  prose' = after[Len(prose)] /\ phase' = "checked"

\* Without claims or without sources there is nothing to judge.
Exempt == Claims(prose) = <<>> \/ Known = {}

FidelityInit ==
    /\ prose \in {[i \in DOMAIN d |-> [kind |-> d[i].kind, says |-> d[i].says, marked |-> TRUE]] : d \in Reported}
    /\ rulings = <<>> /\ phase = "asking"

\* A batch is answered, for each of its claims or not.
AskBatch ==
    /\ phase = "asking" /\ ~Exempt /\ Len(rulings) < Len(Todo(prose))
    /\ LET left == Len(Todo(prose)) - Len(rulings)
       IN  \E said \in [1 .. (IF left < Batch THEN left ELSE Batch) -> {"YES", "NO", "silent"}] :
              rulings' = rulings \o said
    /\ UNCHANGED <<prose, phase>>

\* A call that fails takes the answers before it along.
VerifierFails ==
    /\ phase = "asking" /\ ~Exempt /\ Len(rulings) < Len(Todo(prose))
    /\ rulings' = <<>>
    /\ Strip(<<>>)

Conclude ==
    /\ phase = "asking"
    /\ Exempt \/ Len(rulings) = Len(Todo(prose))
    /\ IF Exempt THEN phase' = "checked" /\ UNCHANGED prose ELSE Strip(rulings)
    /\ UNCHANGED rulings

FidelityNext == AskBatch \/ VerifierFails \/ Conclude

FidelitySpec == FidelityInit /\ [][FidelityNext]_fidelityVars

-----------------------------------------------------------------------------
(* Properties *)

\* Nothing else in the draft holds the sentence's text or is held by it.
StandsAlone(i) ==
    LET s == prose[i].says
    IN  /\ ~Traits[s].respaced
        /\ \A j \in DOMAIN prose \ {i} :
              /\ prose[j].says = s => j \in JudgedLines(prose)
              /\ {<<s, prose[j].says>>, <<prose[j].says, s>>} \cap Inside = {}

\* "A citation the evidence does not back is worse than an admitted gap": of the
\* claims of a checked report, those whose text stands nowhere else, just the ones keep their
\* markers that can be read alone, cite sources there are, carry no figure of their own and
\* were not refused; a verifier that is silent or fails refuses nothing, and a claim
\* made twice is not half stripped (_verify_citation_fidelity).
MarkersAreBacked ==
    phase = "checked" /\ ~Exempt =>
        \A i \in JudgedLines(prose) : StandsAlone(i) =>
            LET s == prose[i].says
            IN  prose[i].marked <=>
                    /\ Traits[s].shape = "plain"
                    /\ Traits[s].marks \subseteq Known
                    /\ \A f \in Traits[s].figures : \E n \in Traits[s].marks : f \in Shown[n]
                    /\ ~RuledOut(s, rulings)

=============================================================================
