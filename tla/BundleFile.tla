------------------------------ MODULE BundleFile ------------------------------
(***************************************************************************)
(* The research bundle as a file: what a host puts in it, what its hash     *)
(* covers in each version of the format, and what the verifier that is      *)
(* shipped with it can tell of a file that has been on its way since.  A    *)
(* digest is the text it was taken of: two texts with one digest are not    *)
(* modelled.  Builds follow one another: build 1 is one from before the     *)
(* format recorded prompts, the later ones are this code with prompts of    *)
(* their own.                                                               *)
(***************************************************************************)
EXTENDS Naturals, Sequences, FiniteSets, SequencesExt

CONSTANTS Records,     \* finished runs and sessions, as the tables have them
          MaxBuild,    \* bound: builds one after another
          MaxChanges   \* bound: fields that change in a file

RecordFields == {"kind", "ran", "overrides", "demo", "readable", "report", "sources", "evidence",
                 "chain", "selection"}

ASSUME BundleAssumption ==
    /\ MaxBuild \in Nat
    /\ \A r \in Records :
          /\ r = [field \in RecordFields |-> r[field]]
          /\ r.ran \in Nat
          /\ r.report \in Seq([kind : STRING, cites : SUBSET Nat])
          /\ \A i \in DOMAIN r.report : IsFiniteSet(r.report[i].cites)

VARIABLES
    build,     \* the build the host is on
    finished,  \* the run or session; ran: the build whose prompts it ran under
    frozen,    \* <<>> or <<the artifact's payload>>
    file,      \* <<>> or <<the file a reader has>>
    original,  \* history: that file as it was handed out
    changes    \* history: fields changed in it since

bundleVars == <<build, finished, frozen, file, original, changes>>

-----------------------------------------------------------------------------
(* The text of a report: lines of a kind, each with the numbers it cites *)

Headings == {"heading", "limitations", "conflicts"}

BodyBeforeSources(report) ==
    {i \in DOMAIN report : \A j \in 1..i : report[j].kind # "sources"}

\* Under a heading whose prose is about the evidence.
Skipping(report, i) ==
    \E j \in 1..(i - 1) :
        /\ report[j].kind \in {"limitations", "conflicts"}
        /\ \A k \in (j + 1)..(i - 1) : report[k].kind \notin Headings

\* claim_lines: the sentences that assert something, with their numbers.
ClaimLines(report) ==
    {[sentence |-> i, citation_indices |-> report[i].cites] :
        i \in {j \in BodyBeforeSources(report) :
                  report[j].kind = "prose" /\ ~Skipping(report, j)}}

\* Mutant: the references are counted with the body.
CitationsWithSources(report) ==
    UNION {{<<i, n>> : n \in report[i].cites} : i \in DOMAIN report}

\* Every marker of the body, short lines and limitations included.
ExtractCitations(report) ==
    UNION {{<<i, n>> : n \in report[i].cites} : i \in BodyBeforeSources(report)}

\* resolution_rate: <<>> is "not measured", which is not zero.
ResolutionRate(report, sources) ==
    LET cites == ExtractCitations(report)
        valid == {s.index : s \in sources} \ {0}
    IN  IF cites = {} THEN <<>>
        ELSE <<Cardinality({m \in cites : m[2] \in valid}), Cardinality(cites)>>

-----------------------------------------------------------------------------
(* The format *)

ContentHash(text) == [sha256 |-> text]

AddedLater == {"prompt_provenance", "prompt_overrides_status"}

Fields == {"bundle_version", "demo", "report", "report_hash", "claims", "evidence", "sources",
           "approval_chain", "trace", "rest", "bundle_hash"} \cup AddedLater

Default(field) == IF field = "prompt_provenance" THEN <<>> ELSE "absent"

\* A manifest read by this build: what an earlier one did not write is defaulted.
Parsed(m) == [field \in Fields |-> IF field \in DOMAIN m THEN m[field] ELSE Default(field)]

\* Mutant: every field this build has is hashed, whatever the file declares.
CoveredByBuild(version) == Fields \ {"bundle_hash"}

\* The fields the declared version defines.
Covered(version) == Fields \ ({"bundle_hash"} \cup (IF version < 2 THEN AddedLater ELSE {}))

ComputeBundleHash(m) == ContentHash([field \in Covered(m.bundle_version) |-> m[field]])

-----------------------------------------------------------------------------
(* What the hosts put into it *)

\* The prompt a purpose has in a build, and what the run's owner made of it.
Shipped(b) == [build |-> b, overridden |-> FALSE]
Effective(b, status) == [build |-> b, overridden |-> status = "APPLIED"]

\* Mutant: composed again by the build that exports.
ProvenanceRecomposed(r) ==
    IF r.kind = "session" \/ r.ran < 2 THEN <<>>
    ELSE LET prompt == Effective(build, r.overrides)
         IN  <<[prompt |-> prompt, sha256 |-> ContentHash(prompt)]>>

\* _provenance_records: read from the row, digested here; a session and a run
\* from before the column have none.
ProvenanceRecords(r) ==
    IF r.kind = "session" \/ r.ran < 2 THEN <<>>
    ELSE LET prompt == Effective(r.ran, r.overrides)
         IN  <<[prompt |-> prompt, sha256 |-> ContentHash(prompt)]>>

\* REVIEW_TO_BUNDLE_ACTION: no decision at the plan gate reads as "approved".
Action(review) ==
    IF review.gate = "REPORT"
    THEN [APPROVED |-> "approved", REWORK_REQUESTED |-> "rework_requested",
          REJECTED |-> "rejected"][review.decision]
    ELSE [APPROVED |-> "plan_approved", REWORK_REQUESTED |-> "plan_rework_requested",
          REJECTED |-> "plan_rejected"][review.decision]

ChainOf(r) ==
    [i \in DOMAIN r.chain |-> [action |-> Action(r.chain[i]), draft_hash |-> ContentHash(r.chain[i].of)]]

\* The selection a run was limited to opens its trace.
SelectionTrace(r) == IF r.selection = {} THEN <<>> ELSE <<[resolved |-> r.selection]>>

\* A manifest without its hash, then with it.
Assemble(r, evidence, trace, provenance, status) ==
    LET m == [bundle_version |-> IF provenance # <<>> THEN 2 ELSE 1,
              demo           |-> r.demo,
              report         |-> r.report,
              report_hash    |-> ContentHash(r.report),
              claims         |-> ClaimLines(r.report),
              evidence       |-> {[source_url |-> e.url, snippet |-> e.snippet,
                                   content_hash |-> ContentHash(e.snippet)] : e \in evidence},
              sources        |-> r.sources,
              approval_chain |-> ChainOf(r),
              trace          |-> trace,
              rest           |-> r.kind,
              prompt_provenance       |-> provenance,
              prompt_overrides_status |-> status,
              bundle_hash    |-> ContentHash("")]
    IN  [m EXCEPT !.bundle_hash = ComputeBundleHash(m)]

\* run_bundle.assemble_with_reason, or nothing when the evidence was not read.
RunBundle(r) ==
    IF ~r.readable THEN <<>>
    ELSE LET provenance == ProvenanceRecords(r)
         IN  <<Assemble(r, r.evidence, SelectionTrace(r), provenance,
                        IF provenance = <<>> THEN "absent" ELSE r.overrides)>>

\* The session export of either host: what is not readable reads as no evidence.
SessionBundle(r) ==
    <<Assemble(r, IF r.readable THEN r.evidence ELSE {}, <<>>, <<>>, "absent")>>

\* Build 1 knew neither of the later fields, and hashed all it knew.
AsWrittenBy(b, m) ==
    IF b > 1 THEN m
    ELSE LET old == [field \in Fields \ AddedLater |-> m[field]]
         IN  [old EXCEPT !.bundle_hash = ContentHash([field \in DOMAIN old \ {"bundle_hash"} |-> old[field]])]

Assembled(r) ==
    LET m == IF r.kind = "run" THEN RunBundle(r) ELSE SessionBundle(r)
    IN  IF m = <<>> THEN <<>> ELSE <<AsWrittenBy(build, m[1])>>

-----------------------------------------------------------------------------
(* The verifier *)

CheckBundleIntegrity(m) ==
    /\ m.bundle_hash = ComputeBundleHash(m)
    /\ m.bundle_version < 2 => /\ m.prompt_provenance = <<>>
                               /\ m.prompt_overrides_status = "absent"
    /\ \A i \in DOMAIN m.prompt_provenance :
          m.prompt_provenance[i].sha256 = ContentHash(m.prompt_provenance[i].prompt)

CheckReportIntegrity(m) == m.report_hash = ContentHash(m.report)

CheckEvidenceIntegrity(m) == \A e \in m.evidence : e.content_hash = ContentHash(e.snippet)

Indices(m) == {s.index : s \in m.sources} \ {0}

\* A second implementation of the same rule: nothing here imports the engine's.
VerifierBody(report) ==
    LET headings == {i \in DOMAIN report : report[i].kind = "sources"}
    IN  {i \in DOMAIN report : \A h \in headings : i < h}

CheckCitationResolution(m) ==
    \A i \in VerifierBody(m.report) : m.report[i].cites \subseteq Indices(m)

\* The source of each number of a claim has a snippet.
CheckClaimEvidenceLinkage(m) ==
    \A c \in m.claims : \A n \in c.citation_indices :
        /\ n \in Indices(m)
        /\ \E s \in m.sources : /\ s.index = n
                                /\ \E e \in m.evidence : e.source_url = s.url

\* An approval of a report, and of this one.
CheckApprovalChain(m) ==
    \E i \in DOMAIN m.approval_chain :
        /\ m.approval_chain[i].action = "approved"
        /\ m.approval_chain[i].draft_hash = m.report_hash

CheckCorpusSelection(m) ==
    m.trace # <<>> => \A s \in m.sources : s.url \in m.trace[1].resolved

VerifyManifest(m) ==
    /\ CheckBundleIntegrity(m)
    /\ CheckReportIntegrity(m)
    /\ CheckEvidenceIntegrity(m)
    /\ CheckCitationResolution(m)
    /\ CheckClaimEvidenceLinkage(m)
    /\ CheckApprovalChain(m)
    /\ CheckCorpusSelection(m)

\* SUPPORTED_BUNDLE_VERSIONS.
Supported == {1, 2}

VerifyFile(f) == f.bundle_version \in Supported /\ VerifyManifest(Parsed(f))

\* What is printed above a verdict.
Banners(f) ==
    {b \in {"demo", "customised"} :
        \/ b = "demo" /\ f.demo
        \/ b = "customised" /\ \E i \in DOMAIN Parsed(f).prompt_provenance :
                                  Parsed(f).prompt_provenance[i].prompt.overridden}

-----------------------------------------------------------------------------
(* The life of a bundle *)

\* A new build: the shipped prompts are others.
Upgrade ==
    /\ build < MaxBuild
    /\ build' = build + 1
    /\ UNCHANGED <<finished, frozen, file, original, changes>>

\* A rework lands a new report on a run that may have its artifact already.
LandRework(r) ==
    /\ finished.kind = "run" /\ r.kind = "run" /\ r.report # finished.report
    /\ finished' = [finished EXCEPT !.report = r.report]
    /\ UNCHANGED <<build, frozen, file, original, changes>>

\* create_artifact: only an approved report, and these bytes of it.
CreateArtifact ==
    LET m == Assembled(finished)
    IN  /\ finished.kind = "run" /\ frozen = <<>> /\ m # <<>>
        /\ \E i \in DOMAIN finished.chain :
              /\ Action(finished.chain[i]) = "approved"
              /\ ContentHash(finished.chain[i].of) = m[1].report_hash
        /\ frozen' = m
        /\ UNCHANGED <<build, finished, file, original, changes>>

\* The frozen payload once there is one, else what would be frozen now.
Served == IF frozen # <<>> THEN frozen ELSE Assembled(finished)

\* get_bundle, and the export of a session.
Export ==
    /\ file = <<>>
    /\ Served # <<>>
    /\ file' = Served /\ original' = Served /\ changes' = 0
    /\ UNCHANGED <<build, finished, frozen>>

\* A field of the file is not what it was, or one of a later version is there.
\* (A file that is hashed anew is another bundle.)
Change(field, r) ==
    /\ file # <<>> /\ changes < MaxChanges
    /\ LET other == IF field = "bundle_version" THEN 3 - file[1].bundle_version
                    ELSE IF field = "prompt_provenance"
                         THEN <<[prompt |-> Shipped(1), sha256 |-> ContentHash(Shipped(1))]>>
                    ELSE IF field = "prompt_overrides_status" THEN "UNUSABLE"
                    ELSE Assemble(r, r.evidence, SelectionTrace(r), <<>>, "absent")[field]
       IN  file' = <<[g \in DOMAIN file[1] \cup {field} |-> IF g = field THEN other ELSE file[1][g]]>>
    /\ changes' = changes + 1
    /\ UNCHANGED <<build, finished, frozen, original>>

BundleInit ==
    /\ build \in 1..MaxBuild
    /\ finished \in {r \in Records : r.ran <= build}
    /\ frozen = <<>> /\ file = <<>> /\ original = <<>> /\ changes = 0

BundleNext ==
    \/ Upgrade \/ CreateArtifact \/ Export
    \/ \E r \in Records : LandRework(r) \/ \E field \in Fields \ {"bundle_hash"} : Change(field, r)

BundleSpec == BundleInit /\ [][BundleNext]_bundleVars

-----------------------------------------------------------------------------
(* Properties *)

Handed == file # <<>>

\* A file that is not the one handed out does not verify, whichever of its
\* fields changed and whichever version of the format it declares ("the bundle
\* was modified after assembly"); one that nobody touched passes the checks of
\* its own integrity, whichever build wrote it ("existing v1 bundles remain valid
\* forever").
VerdictIsTrue ==
    Handed =>
        LET m == Parsed(file[1])
        IN  /\ m # Parsed(original[1]) => ~VerifyFile(file[1])
            /\ changes = 0 => CheckBundleIntegrity(m) /\ CheckReportIntegrity(m) /\ CheckEvidenceIntegrity(m)

\* An untouched file says of its run what was so when the run ran, whichever
\* build it was exported by, and a customised or scripted one cannot pass bare.
SaysWhatRan ==
    Handed /\ changes = 0 =>
        LET m == Parsed(file[1])
        IN  /\ m.demo = finished.demo
            /\ m.prompt_provenance # <<>> => m.prompt_provenance[1].prompt = Effective(finished.ran, finished.overrides)
            /\ ("customised" \in Banners(file[1])) <=> (m.bundle_version = 2 /\ finished.overrides = "APPLIED")

\* The share of citations a page shows and the verifier's verdict come from two
\* implementations, and are of one mind.
RateAgrees ==
    LET rate == ResolutionRate(finished.report, finished.sources)
    IN  \A m \in {Parsed(x) : x \in ToSet(Assembled(finished))} :
            CheckCitationResolution(m) <=> (rate = <<>> \/ rate[1] = rate[2])

=============================================================================
