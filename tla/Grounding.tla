------------------------------- MODULE Grounding -------------------------------
(***************************************************************************)
(* The claim check of a selected-files report: ground() validates every    *)
(* claim of the draft, has the failing passages rewritten, validates the   *)
(* whole text again, and removes what still fails.  The model's replies    *)
(* are arbitrary; what the code decides from them is not.  A claim is a    *)
(* fact, which is what is left of its text under _norm, and its markers.   *)
(***************************************************************************)
EXTENDS Integers, Sequences, FiniteSets, SequencesExt, Filtering

CONSTANTS Facts,        \* what a claim may assert
          Sources,      \* citation numbers
          Admissible,   \* numbers of a selected document with snippets
          Figures,      \* <<fact, number>>: the snippets state the fact's figures
          Drafts,       \* the texts the synthesizer may hand over
          Rewrites,     \* the passages a repair may come back with
          BATCH,        \* claims a call rules on
          MAX_ATTEMPTS  \* rewrites of one passage

Kinds  == {"prose", "conclusion", "row", "heading", "quote", "fence", "notice", "blank"}
Saying == [fact : Facts, cites : SUBSET Sources]
WrittenLine == [kind : Kinds, says : Seq(Saying)]

ASSUME GroundingAssumption ==
    /\ Sources \subseteq Nat /\ IsFiniteSet(Sources)
    /\ Admissible \subseteq Sources
    /\ Figures \subseteq Facts \X Sources
    /\ Drafts \subseteq Seq(WrittenLine) /\ Rewrites \subseteq Seq(Saying)
    /\ BATCH \in Nat \ {0} /\ MAX_ATTEMPTS \in Nat

VARIABLES
    body,      \* the text: one line per unit
    lines,     \* the same text while a round of repairs edits it
    ruled,     \* what the current validation has decided, in document order
    rejected,  \* facts rejected in an earlier round
    round, stage,
    queue,     \* what the stage has still to rule on
    over,      \* a limit of the run is crossed
    charged,   \* calls charged to the run's budget
    checked,   \* calls the current validation has recorded
    absorbed,  \* calls the report will account for
    ending     \* what ground() came to

money == <<over, charged, checked, absorbed>>
groundingVars == <<body, lines, ruled, rejected, round, stage, queue, money, ending>>

-----------------------------------------------------------------------------
(* The draft *)

Notice == [kind |-> "notice", says |-> <<>>]
Blank  == [kind |-> "blank", says |-> <<>>]
Fence  == [kind |-> "fence", says |-> <<>>]

\* A row is a label when no table is open above it: only a blank line or a
\* heading closes one.
InTable(b, i) ==
    \E j \in 1..(i - 1) :
        /\ b[j].kind = "row"
        /\ \A k \in (j + 1)..(i - 1) : b[k].kind \notin {"blank", "heading"}

\* The lines parse_units makes a unit of.
Read(b) == {i \in DOMAIN b : /\ b[i].kind \notin {"notice", "blank", "fence"}
                             /\ b[i].kind = "row" => InTable(b, i)}

Unparsed(b) == {i \in DOMAIN b : b[i].kind = "fence"}

Sentences(b) ==
    FlattenSeq([i \in DOMAIN b |->
        IF i \in Read(b) THEN [p \in DOMAIN b[i].says |-> <<i, p>>] ELSE <<>>])

\* A passage removed whole: the reader is told, but not in a table or a heading.
Dropped(line) == IF line.kind \in {"row", "heading"} THEN Blank ELSE Notice

Rewritable == {"prose", "conclusion"}

-----------------------------------------------------------------------------
(* Claims *)

\* The three causes of a call that came to nothing are decided alike.
Unmeasured == {"provider_outage", "budget_exhausted", "malformed_response",
               "decomposition_invalid"}
Terminal   == {"provider_outage", "budget_exhausted"}
Rejections == {"uncited", "number_not_in_snippet", "not_supported", "contradicted",
               "reintroduced", "inference_rejected"}
States     == {"supported", "not_supported", "contradicted", "unmeasured"}

Claim(at, cites, cause) ==
    [at |-> at, fact |-> body[at[1]].says[at[2]].fact, cites |-> cites,
     irrelevant |-> {}, state |-> "unmeasured", cause |-> cause]

Decide(c, state, cause) == [c EXCEPT !.state = state, !.cause = cause]

Valid(c)     == c.cites \cap Admissible
Missing(c)   == \A n \in Valid(c) : <<c.fact, n>> \notin Figures
Pending(c)   == c.state = "unmeasured" /\ c.cause = "none"
Concludes(c) == body[c.at[1]].kind = "conclusion"
IsSupported(c) == c.state = "supported"

\* Positions in claims.
Where(cs, Test(_)) == InOrder({k \in DOMAIN cs : Test(cs[k])})

Least(a, b) == IF a < b THEN a ELSE b
Now   == SubSeq(queue, 1, Least(BATCH, Len(queue)))
Later == SubSeq(queue, Least(BATCH, Len(queue)) + 1, Len(queue))

-----------------------------------------------------------------------------
(* Calls: a crossed limit stays crossed, and only an answer is charged *)

Answered ==
    /\ ~over
    /\ charged' = charged + 1
    /\ UNCHANGED over

NoAnswer(cause) ==
    /\ \/ cause = "budget_exhausted" /\ over' = TRUE
       \/ cause = "provider_outage" /\ ~over /\ UNCHANGED over
    /\ UNCHANGED charged

Asked     == Answered /\ checked' = checked + 1 /\ UNCHANGED absorbed
Unanswered(cause) == NoAnswer(cause) /\ UNCHANGED <<checked, absorbed>>

-----------------------------------------------------------------------------
(* Validation *)

Preflight ==
    /\ stage = "preflight"
    /\ \/ stage' = "validate" /\ UNCHANGED ending
       \/ stage' = "done" /\ ending' = "unmeasured"   \* the check cannot fit the budget
    /\ UNCHANGED <<body, lines, ruled, rejected, round, queue, money>>

Validate ==
    /\ stage = "validate"
    /\ ruled' = <<>> /\ checked' = 0
    /\ queue' = Sentences(body)
    /\ stage' = "decompose"
    /\ UNCHANGED <<body, lines, rejected, round, over, charged, absorbed, ending>>

Marks(at) == body[at[1]].says[at[2]].cites

\* check_decomposition.  What a reply makes of a sentence: nothing that passes the
\* structural checks, or a claim whose markers are among the sentence's.
Decomposed(at) ==
    {Claim(at, Marks(at), "decomposition_invalid")}
        \cup {Claim(at, cites, "none") : cites \in SUBSET Marks(at)}

Decompose ==
    /\ stage = "decompose" /\ queue # <<>>
    /\ \/ /\ Asked
          /\ \/ \E said \in [DOMAIN Now -> UNION {Decomposed(Now[k]) : k \in DOMAIN Now}] :
                  /\ \A k \in DOMAIN Now : said[k] \in Decomposed(Now[k])
                  /\ ruled' = ruled \o said
             \/ ruled' = ruled \o
                    [k \in DOMAIN Now |-> Claim(Now[k], Marks(Now[k]), "malformed_response")]
       \/ \E cause \in Terminal :
              /\ Unanswered(cause)
              /\ ruled' = ruled \o [k \in DOMAIN Now |-> Claim(Now[k], Marks(Now[k]), cause)]
    /\ queue' = Later
    /\ UNCHANGED <<body, lines, rejected, round, stage, ending>>

\* _check_citations and _check_quantities: what no model is asked about.
Structural(c) ==
    IF ~Pending(c) THEN c
    ELSE IF Valid(c) = {} THEN Decide(c, "not_supported", "uncited")
    ELSE IF Concludes(c) /\ Missing(c)
         THEN Decide(c, "not_supported", "number_not_in_snippet")
    ELSE c

Check ==
    /\ stage = "decompose" /\ queue = <<>>
    /\ ruled' = [k \in DOMAIN ruled |-> Structural(ruled[k])]
    /\ queue' = Where(ruled', LAMBDA c : Pending(c) /\ ~Concludes(c))
    /\ stage' = "verify"
    /\ UNCHANGED <<body, lines, rejected, round, money, ending>>

\* The claims of a batch, each decided by D; the others as they were.
Ruled(batch, D(_)) ==
    [k \in DOMAIN ruled |->
        IF \E b \in DOMAIN batch : batch[b] = k
        THEN D(CHOOSE b \in DOMAIN batch : batch[b] = k) ELSE ruled[k]]

\* "computed": supported, with a calculation the code has redone.
Verdicts == {"supported", "computed", "contradicted", "not_supported", "none"}

Verdict(c, v) ==
    CASE v = "none" -> Decide(c, "unmeasured", "malformed_response")
      [] v = "contradicted" -> Decide(c, "contradicted", "contradicted")
      [] v \in {"not_supported", "supported"} /\ Missing(c) ->
            Decide(c, "not_supported", "number_not_in_snippet")
      [] v = "not_supported" /\ ~Missing(c) -> Decide(c, "not_supported", "not_supported")
      [] OTHER -> Decide(c, "supported", "none")

VerifyClaims ==
    /\ stage = "verify" /\ queue # <<>>
    /\ \/ /\ Asked
          /\ \E v \in [DOMAIN Now -> Verdicts] :
                /\ \A b \in DOMAIN Now : v[b] = "computed" => Missing(ruled[Now[b]])
                /\ ruled' = Ruled(Now, LAMBDA b : Verdict(ruled[Now[b]], v[b]))
       \/ \E cause \in Terminal :
              /\ Unanswered(cause)
              /\ ruled' = Ruled(Now, LAMBDA b : Decide(ruled[Now[b]], "unmeasured", cause))
    /\ queue' = Later
    /\ UNCHANGED <<body, lines, rejected, round, stage, ending>>

\* Every citation of a supported claim is judged alone.
CitationPairs(cs) ==
    FlattenSeq([k \in DOMAIN cs |->
        IF IsSupported(cs[k])
        THEN LET ns == InOrder(Valid(cs[k])) IN [m \in DOMAIN ns |-> <<k, ns[m]>>]
        ELSE <<>>])

Verified ==
    /\ stage = "verify" /\ queue = <<>>
    /\ queue' = CitationPairs(ruled)
    /\ stage' = "relevance"
    /\ UNCHANGED <<body, lines, ruled, rejected, round, money, ending>>

Relevant ==
    /\ stage = "relevance" /\ queue # <<>>
    /\ \/ /\ Asked
          /\ \E answer \in [DOMAIN Now -> {"yes", "no", "none"}] :
                ruled' = [k \in DOMAIN ruled |->
                    LET Says(a) == {Now[b][2] : b \in {x \in DOMAIN Now :
                                                  Now[x][1] = k /\ answer[x] = a}}
                        c == [ruled[k] EXCEPT !.irrelevant = @ \cup Says("no")]
                    IN IF Says("none") # {} THEN Decide(c, "unmeasured", "malformed_response")
                       ELSE c]
       \/ \E cause \in Terminal :
              /\ Unanswered(cause)
              /\ ruled' = [k \in DOMAIN ruled |->
                    IF \E b \in DOMAIN Now : Now[b][1] = k
                    THEN Decide(ruled[k], "unmeasured", cause) ELSE ruled[k]]
    /\ queue' = Later
    /\ UNCHANGED <<body, lines, rejected, round, stage, ending>>

\* Mutant: the citations are judged and the verdict stands.
UpheldAlways(c) == c

\* A verdict cannot stand on citations each of which is irrelevant.
Upheld(c) ==
    IF IsSupported(c) /\ Valid(c) \subseteq c.irrelevant
    THEN Decide(c, "not_supported", "not_supported") ELSE c

Related ==
    /\ stage = "relevance" /\ queue = <<>>
    /\ ruled' = [k \in DOMAIN ruled |-> Upheld(ruled[k])]
    /\ queue' = Where(ruled, LAMBDA c : Pending(c) /\ Concludes(c))
    /\ stage' = "infer"
    /\ UNCHANGED <<body, lines, rejected, round, money, ending>>

Inferred(c, v) ==
    CASE v = "none" -> Decide(c, "unmeasured", "malformed_response")
      [] v = "supported" -> Decide(c, "supported", "none")
      [] OTHER -> Decide(c, "not_supported", "inference_rejected")

Infer ==
    /\ stage = "infer" /\ queue # <<>>
    /\ \/ /\ Asked
          /\ \E v \in [DOMAIN Now -> {"supported", "not_supported", "none"}] :
                ruled' = Ruled(Now, LAMBDA b : Inferred(ruled[Now[b]], v[b]))
       \/ \E cause \in Terminal :
              /\ Unanswered(cause)
              /\ ruled' = Ruled(Now, LAMBDA b : Decide(ruled[Now[b]], "unmeasured", cause))
    /\ queue' = Later
    /\ UNCHANGED <<body, lines, rejected, round, stage, ending>>

-----------------------------------------------------------------------------
(* Repair *)

\* Mutant: a rewrite may launder a claim.
ReintroducedFreely(c) == c

\* A claim that was rejected before is rejected again, whatever the model says.
Reintroduced(c) ==
    IF IsSupported(c) /\ c.fact \in rejected
    THEN Decide(c, "not_supported", "reintroduced") ELSE c

FailingLines(cs) == {cs[k].at[1] : k \in {x \in DOMAIN cs : ~IsSupported(cs[x])}}

\* No rewrite is asked for.
Settled(cs) ==
    \/ \E k \in DOMAIN cs : cs[k].cause \in Terminal
    \/ Unparsed(body) # {}
    \/ FailingLines(cs) = {}
    \/ round = MAX_ATTEMPTS

Judge ==
    /\ stage = "infer" /\ queue = <<>>
    /\ absorbed' = absorbed + checked /\ checked' = 0
    /\ ruled' = [k \in DOMAIN ruled |-> Reintroduced(ruled[k])]
    /\ IF Settled(ruled')
       THEN stage' = "finish" /\ UNCHANGED <<lines, queue, rejected>>
       ELSE /\ rejected' = rejected \cup
                   {ruled'[k].fact : k \in {x \in DOMAIN ruled : ~IsSupported(ruled'[x])}}
            /\ lines' = body
            /\ queue' = InOrder(FailingLines(ruled'))
            /\ stage' = "repair"
    /\ UNCHANGED <<body, round, over, charged, ending>>

\* _rewrite asks only for a passage something of which is verified.
Verifiable(i) == \E k \in DOMAIN ruled : ruled[k].at[1] = i /\ IsSupported(ruled[k])

DropLine ==
    /\ stage = "repair" /\ queue # <<>>
    /\ body[Head(queue)].kind \notin Rewritable \/ ~Verifiable(Head(queue))
    /\ lines' = [lines EXCEPT ![Head(queue)] = Dropped(@)]
    /\ queue' = Tail(queue)
    /\ UNCHANGED <<body, ruled, rejected, round, stage, money, ending>>

\* The scratch validation of a repair call is absorbed at once.
Absorb == absorbed' = absorbed + 1

Rewrite ==
    /\ stage = "repair" /\ queue # <<>>
    /\ body[Head(queue)].kind \in Rewritable /\ Verifiable(Head(queue))
    /\ \/ /\ Answered /\ Absorb
          /\ \/ \E w \in Rewrites : lines' = [lines EXCEPT ![Head(queue)].says = w]
             \/ lines' = [lines EXCEPT ![Head(queue)] = Fence]
             \/ lines' = [lines EXCEPT ![Head(queue)] = Notice]  \* the model says REMOVE
          /\ queue' = Tail(queue)
          /\ UNCHANGED <<stage, ending>>
       \/ /\ \E cause \in Terminal : NoAnswer(cause)
          /\ stage' = "done" /\ ending' = "unmeasured"
          /\ UNCHANGED <<lines, queue, absorbed>>
    /\ UNCHANGED <<body, ruled, rejected, round, checked>>

Repaired ==
    /\ stage = "repair" /\ queue = <<>>
    /\ body' = lines
    /\ round' = round + 1
    /\ stage' = "validate"
    /\ UNCHANGED <<lines, ruled, rejected, queue, money, ending>>

\* Mutant: what fails after the last rewrite stays.
WithFailing == body

\* Every failing line removed whole.
WithoutFailing ==
    [i \in DOMAIN body |-> IF i \in FailingLines(ruled) THEN Dropped(body[i]) ELSE body[i]]

\* _drop_non_supporting takes a number off the whole line.
Cleaned(b) ==
    [i \in DOMAIN b |->
        [b[i] EXCEPT !.says = [p \in DOMAIN b[i].says |->
            [b[i].says[p] EXCEPT !.cites = @ \ UNION {ruled[k].irrelevant :
                k \in {x \in DOMAIN ruled : ruled[x].at[1] = i /\ IsSupported(ruled[x])}}]]]]

Finish ==
    /\ stage = "finish"
    /\ stage' = "done"
    /\ IF Unparsed(body) # {} \/ \E k \in DOMAIN ruled : ruled[k].state = "unmeasured"
       THEN ending' = "unmeasured" /\ UNCHANGED body
       ELSE IF \E k \in DOMAIN ruled : IsSupported(ruled[k])
       THEN ending' = "complete" /\ body' = Cleaned(WithoutFailing)
       ELSE ending' = "no_evidence" /\ body' = WithoutFailing
    /\ UNCHANGED <<lines, ruled, rejected, round, queue, money>>

-----------------------------------------------------------------------------

Begin(text) ==
    /\ stage = "preflight" /\ queue = <<>> /\ ending = "none"
    /\ body = text /\ lines = text
    /\ ruled = <<>> /\ rejected = {} /\ round = 0
    /\ over = FALSE /\ charged = 0 /\ checked = 0 /\ absorbed = 0

GroundingInit == \E text \in Drafts : Begin(text)

GroundingNext ==
    \/ Preflight \/ Validate \/ Decompose \/ Check \/ VerifyClaims \/ Verified
    \/ Relevant \/ Related \/ Infer \/ Judge
    \/ DropLine \/ Rewrite \/ Repaired \/ Finish

GroundingSpec == GroundingInit /\ [][GroundingNext]_groundingVars

-----------------------------------------------------------------------------

\* A complete report says, in what the validator reads, only claims that the
\* last validation of that very line found supported, each body claim by a
\* selected document's snippet that supports something of it alone.
ShownWasSupported ==
    ending = "complete" =>
        \A i \in Read(body) : \A p \in DOMAIN body[i].says :
            \E k \in DOMAIN ruled :
                /\ ruled[k].at = <<i, p>> /\ ruled[k].fact = body[i].says[p].fact
                /\ IsSupported(ruled[k])
                /\ Valid(ruled[k]) \ ruled[k].irrelevant # {}

\* A claim rejected in one round is not in a complete report in another's
\* words: a rewrite cannot launder it.
RejectedStaysOut ==
    ending = "complete" =>
        \A i \in Read(body) : \A p \in DOMAIN body[i].says : body[i].says[p].fact \notin rejected

\* Every call charged to the run's budget, in a validation or in a repair, is
\* in the cost the report hands back, however the check ends.
CostAccounted == stage = "done" => absorbed = charged

=============================================================================
