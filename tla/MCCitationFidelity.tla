-------------------------- MODULE MCCitationFidelity --------------------------
(* Values for model-checking CitationFidelity: sentences of every kind the rules  *)
(* tell apart, two of which stand inside others, in drafts of four lines.       *)
EXTENDS CitationFidelity

Trait(shape, marks, figures, respaced) ==
    [shape |-> shape, marks |-> marks, figures |-> figures, respaced |-> respaced]
SentenceTraits ==
    [sound     |-> Trait("plain", {1}, {"5"}, FALSE),
     borrowed  |-> Trait("plain", {1}, {"7"}, FALSE),
     joint     |-> Trait("plain", {1, 2}, {"7"}, FALSE),
     nowhere   |-> Trait("plain", {3}, {}, FALSE),
     deictic   |-> Trait("deictic", {1}, {}, FALSE),
     longer    |-> Trait("plain", {1}, {"5"}, FALSE),
     titled    |-> Trait("plain", {2}, {}, TRUE),
     brief     |-> Trait("short", {2}, {}, FALSE)]
SentenceNames == DOMAIN SentenceTraits
PartOf == {<<"sound", "longer">>}
FiguresShown == [n \in {1, 2} |-> IF n = 1 THEN {"5"} ELSE {"7"}]

DraftLine(kind, says) == [kind |-> kind, says |-> says]
DraftLines ==
    {DraftLine("sentence", s) : s \in SentenceNames}
        \cup {DraftLine("sources", "none"), DraftLine("limitations", "none"), DraftLine("heading", "none")}
DraftReports == UNION {[1 .. n -> DraftLines] : n \in 1 .. 3}

FidelityRests ==
    /\ prose = <<>> /\ rulings = <<>> /\ phase = "asking"
=============================================================================
