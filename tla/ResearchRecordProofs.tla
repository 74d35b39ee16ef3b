------------------------ MODULE ResearchRecordProofs ------------------------
(***************************************************************************)
(* What a reader can rely on in the record of a run: the file a run is      *)
(* exported as, with the verifier's verdict on it; the claim check of a     *)
(* selected-files report; and the tables the run's evidence is written to,  *)
(* with the revisions and the artifact that refer to their rows.            *)
(***************************************************************************)
EXTENDS Grounding, BundleFile, EvidenceLedger, SequenceFacts, SequenceTheorems

-----------------------------------------------------------------------------
(* The bundle as it is handed out *)

\* A file as a host writes it, in the older form or the newer one.
Sound(f) ==
    /\ DOMAIN f \in {Fields, Fields \ AddedLater}
    /\ f.bundle_version \in Supported
    /\ CheckBundleIntegrity(Parsed(f))
    /\ CheckReportIntegrity(Parsed(f))
    /\ CheckEvidenceIntegrity(Parsed(f))

\* What it says of the run's prompts and mode.
Tells(f) ==
    /\ Parsed(f).demo = finished.demo
    /\ Parsed(f).prompt_provenance # <<>> =>
         Parsed(f).prompt_provenance[1].prompt = Effective(finished.ran, finished.overrides)
    /\ ("customised" \in Banners(f)) <=>
         (Parsed(f).bundle_version = 2 /\ finished.overrides = "APPLIED")

\* A field that this build writes and an older one did not is as if it were empty.
LEMMA ParsedField ==
    ASSUME NEW f, NEW field \in Fields
    PROVE  /\ field \in DOMAIN f => Parsed(f)[field] = f[field]
           /\ field \notin DOMAIN f => Parsed(f)[field] = Default(field)
BY DEF Parsed

LEMMA AssembledFacts ==
    ASSUME NEW r, NEW items, NEW trace, NEW provenance, NEW status
    PROVE  LET m == Assemble(r, items, trace, provenance, status)
           IN  /\ m = [field \in Fields |-> m[field]]
               /\ m.bundle_version = IF provenance # <<>> THEN 2 ELSE 1
               /\ m.demo = r.demo
               /\ m.report = r.report /\ m.report_hash = ContentHash(r.report)
               /\ m.sources = r.sources
               /\ m.evidence = {[source_url |-> e.url, snippet |-> e.snippet,
                                 content_hash |-> ContentHash(e.snippet)] : e \in items}
               /\ m.prompt_provenance = provenance
               /\ m.prompt_overrides_status = status
               /\ m.bundle_hash = ComputeBundleHash(m)
<1>. DEFINE bare ==
             [bundle_version |-> IF provenance # <<>> THEN 2 ELSE 1,
              demo           |-> r.demo,
              report         |-> r.report,
              report_hash    |-> ContentHash(r.report),
              claims         |-> ClaimLines(r.report),
              evidence       |-> {[source_url |-> e.url, snippet |-> e.snippet,
                                   content_hash |-> ContentHash(e.snippet)] : e \in items},
              sources        |-> r.sources,
              approval_chain |-> ChainOf(r),
              trace          |-> trace,
              rest           |-> r.kind,
              prompt_provenance       |-> provenance,
              prompt_overrides_status |-> status,
              bundle_hash    |-> ContentHash("")]
            m == [bare EXCEPT !.bundle_hash = ComputeBundleHash(bare)]
<1>1. Assemble(r, items, trace, provenance, status) = m
  BY DEF Assemble
<1>2. DOMAIN bare = Fields
  BY DEF Fields, AddedLater
<1>3. /\ m.bundle_version = bare.bundle_version /\ m.demo = bare.demo /\ m.report = bare.report
      /\ m.report_hash = bare.report_hash /\ m.sources = bare.sources /\ m.evidence = bare.evidence
      /\ m.prompt_provenance = bare.prompt_provenance
      /\ m.prompt_overrides_status = bare.prompt_overrides_status
      /\ m.bundle_hash = ComputeBundleHash(bare)
  OBVIOUS
<1>4. m = [field \in Fields |-> m[field]] /\ \A field \in Fields \ {"bundle_hash"} : m[field] = bare[field]
  <2>. HIDE DEF bare
  <2>. QED  BY <1>2
<1>5. bare.bundle_version = m.bundle_version
  BY <1>3
<1>6. ComputeBundleHash(m) = ComputeBundleHash(bare)
  <2>. HIDE DEF bare, m
  <2>. QED  BY <1>4, <1>5 DEF ComputeBundleHash, Covered
<1>7. /\ bare.bundle_version = (IF provenance # <<>> THEN 2 ELSE 1) /\ bare.demo = r.demo
      /\ bare.report = r.report /\ bare.report_hash = ContentHash(r.report) /\ bare.sources = r.sources
      /\ bare.evidence = {[source_url |-> e.url, snippet |-> e.snippet,
                           content_hash |-> ContentHash(e.snippet)] : e \in items}
      /\ bare.prompt_provenance = provenance /\ bare.prompt_overrides_status = status
  OBVIOUS
<1>. HIDE DEF bare, m
<1>. QED  BY <1>1, <1>3, <1>4, <1>6, <1>7

\* The older form of a manifest without prompts, read by this build, is the manifest.
LEMMA ReadAgain ==
    ASSUME NEW m, m = [field \in Fields |-> m[field]],
           m.prompt_provenance = <<>>, m.prompt_overrides_status = "absent"
    PROVE  Parsed([field \in Fields \ AddedLater |-> m[field]]) = m
<1>. DEFINE old == [field \in Fields \ AddedLater |-> m[field]]
<1>1. \A field \in Fields : Parsed(old)[field] = m[field]
  <2>. TAKE field \in Fields
  <2>1. CASE field \in AddedLater
    BY <2>1 DEF Parsed, Default, AddedLater
  <2>2. CASE field \notin AddedLater
    BY <2>2 DEF Parsed
  <2>. QED  BY <2>1, <2>2
<1>2. Parsed(old) = [field \in Fields |-> Parsed(old)[field]]
  BY DEF Parsed
<1>. HIDE DEF old
<1>3. Parsed(old) = m
  BY <1>1, <1>2
<1>. QED  BY <1>3 DEF old

\* A manifest of this build, in either form, is read as it was written.
LEMMA WrittenAs ==
    ASSUME NEW b, NEW m, m = [field \in Fields |-> m[field]],
           m.bundle_version = IF m.prompt_provenance # <<>> THEN 2 ELSE 1,
           m.prompt_provenance = <<>> => m.prompt_overrides_status = "absent",
           m.bundle_hash = ComputeBundleHash(m),
           b > 1 \/ m.prompt_provenance = <<>>
    PROVE  LET f == AsWrittenBy(b, m)
           IN  /\ DOMAIN f \in {Fields, Fields \ AddedLater}
               /\ Parsed(f) = m
               /\ f.bundle_version = m.bundle_version /\ f.demo = m.demo
<1>1. CASE b > 1
  <2>1. AsWrittenBy(b, m) = m
    BY <1>1 DEF AsWrittenBy
  <2>2. Parsed(m) = m
    BY DEF Parsed
  <2>. QED  BY <2>1, <2>2
<1>2. CASE ~(b > 1)
  <2>. DEFINE old == [field \in Fields \ AddedLater |-> m[field]]
              hash == ContentHash([field \in DOMAIN old \ {"bundle_hash"} |-> old[field]])
  <2>1. AsWrittenBy(b, m) = [old EXCEPT !.bundle_hash = hash]
    BY <1>2 DEF AsWrittenBy
  <2>2. m.prompt_provenance = <<>> /\ m.prompt_overrides_status = "absent" /\ m.bundle_version = 1
    BY <1>2
  <2>3. hash = m.bundle_hash
    <3>1. DOMAIN old \ {"bundle_hash"} = Covered(m.bundle_version)
      BY <2>2 DEF Covered
    <3>2. \A field \in Covered(m.bundle_version) : old[field] = m[field]
      BY <2>2 DEF Covered
    <3>. QED  BY <3>1, <3>2 DEF ComputeBundleHash
  <2>4. DOMAIN old = Fields \ AddedLater /\ old.bundle_hash = m.bundle_hash
        /\ old.bundle_version = m.bundle_version /\ old.demo = m.demo
    BY DEF Fields, AddedLater
  <2>5. [old EXCEPT !.bundle_hash = hash] = old
    <3>. HIDE DEF hash
    <3>. QED  BY <2>3, <2>4
  <2>6. Parsed(old) = m
    BY <2>2, ReadAgain
  <2>. HIDE DEF old
  <2>. QED  BY <2>1, <2>4, <2>5, <2>6
<1>. QED  BY <1>1, <1>2

\* What a run or a session is exported as.
LEMMA AssembledRecord ==
    ASSUME NEW r, Assembled(r) # <<>>
    PROVE  \E items, trace, provenance, status :
             LET m == Assemble(r, items, trace, provenance, status)
             IN  /\ Assembled(r) = <<AsWrittenBy(build, m)>>
                 /\ provenance \in {<<>>, ProvenanceRecords(r)}
                 /\ r.kind = "run" => provenance = ProvenanceRecords(r)
                 /\ status = IF provenance = <<>> THEN "absent" ELSE r.overrides
<1>1. CASE r.kind = "run"
  <2>1. r.readable
    BY <1>1 DEF Assembled, RunBundle
  <2>. DEFINE provenance == ProvenanceRecords(r)
              status == IF provenance = <<>> THEN "absent" ELSE r.overrides
              m == Assemble(r, r.evidence, SelectionTrace(r), provenance, status)
  <2>2. RunBundle(r) = <<m>>
    BY <2>1 DEF RunBundle
  <2>. HIDE DEF m
  <2>3. Assembled(r) = <<AsWrittenBy(build, m)>>
    BY <1>1, <2>2 DEF Assembled
  <2>. QED  BY <1>1, <2>3 DEF m
<1>2. CASE r.kind # "run"
  <2>. DEFINE items == IF r.readable THEN r.evidence ELSE {}
              m == Assemble(r, items, <<>>, <<>>, "absent")
  <2>1. SessionBundle(r) = <<m>>
    BY DEF SessionBundle
  <2>. HIDE DEF m
  <2>2. Assembled(r) = <<AsWrittenBy(build, m)>>
    BY <1>2, <2>1 DEF Assembled
  <2>. HIDE DEF items
  <2>. QED  BY <1>2, <2>2 DEF m
<1>. QED  BY <1>1, <1>2

LEMMA Provenance ==
    ASSUME NEW r
    PROVE  LET provenance == ProvenanceRecords(r)
           IN  /\ \A i \in DOMAIN provenance :
                     provenance[i].sha256 = ContentHash(provenance[i].prompt)
               /\ provenance # <<>> =>
                    /\ DOMAIN provenance = {1}
                    /\ provenance[1].prompt = Effective(r.ran, r.overrides)
                    /\ ~(r.ran < 2)
<1>1. CASE r.kind = "session" \/ r.ran < 2
  BY <1>1 DEF ProvenanceRecords
<1>2. CASE ~(r.kind = "session" \/ r.ran < 2)
  <2>. DEFINE prompt == Effective(r.ran, r.overrides)
              one == [prompt |-> prompt, sha256 |-> ContentHash(prompt)]
  <2>1. ProvenanceRecords(r) = <<one>>
    BY <1>2 DEF ProvenanceRecords
  <2>2. one.prompt = prompt /\ one.sha256 = ContentHash(prompt)
    OBVIOUS
  <2>. HIDE DEF one
  <2>3. <<one>> # <<>> /\ DOMAIN <<one>> = {1} /\ <<one>>[1] = one
    OBVIOUS
  <2>. QED  BY <1>2, <2>1, <2>2, <2>3
<1>. QED  BY <1>1, <1>2

\* Whatever its build, a host hands out a file that is sound and says what ran.
LEMMA AssembledIsSound ==
    ASSUME finished.ran \in Nat, build \in Nat, finished.ran <= build, Assembled(finished) # <<>>
    PROVE  /\ Sound(Assembled(finished)[1]) /\ Tells(Assembled(finished)[1])
           /\ Len(Assembled(finished)) = 1
           /\ Parsed(Assembled(finished)[1]).report = finished.report
           /\ Parsed(Assembled(finished)[1]).sources = finished.sources
<1>. DEFINE r == finished
<1>1. PICK items, trace, provenance, status :
         LET m == Assemble(r, items, trace, provenance, status)
         IN  /\ Assembled(r) = <<AsWrittenBy(build, m)>>
             /\ provenance \in {<<>>, ProvenanceRecords(r)}
             /\ r.kind = "run" => provenance = ProvenanceRecords(r)
             /\ status = IF provenance = <<>> THEN "absent" ELSE r.overrides
  BY AssembledRecord
<1>. DEFINE m == Assemble(r, items, trace, provenance, status)
            f == AsWrittenBy(build, m)
<1>2. /\ m = [field \in Fields |-> m[field]]
      /\ m.bundle_version = IF provenance # <<>> THEN 2 ELSE 1
      /\ m.demo = r.demo /\ m.report = r.report /\ m.sources = r.sources
      /\ m.report_hash = ContentHash(m.report)
      /\ m.evidence = {[source_url |-> e.url, snippet |-> e.snippet,
                        content_hash |-> ContentHash(e.snippet)] : e \in items}
      /\ m.prompt_provenance = provenance
      /\ m.prompt_overrides_status = status
      /\ m.bundle_hash = ComputeBundleHash(m)
  BY AssembledFacts
<1>3. /\ \A i \in DOMAIN provenance : provenance[i].sha256 = ContentHash(provenance[i].prompt)
      /\ provenance # <<>> =>
           /\ DOMAIN provenance = {1}
           /\ provenance[1].prompt = Effective(r.ran, r.overrides)
           /\ ~(r.ran < 2)
  BY <1>1, Provenance
<1>4. Assembled(r) = <<f>> /\ status = IF provenance = <<>> THEN "absent" ELSE r.overrides
  BY <1>1
<1>. HIDE DEF m
<1>5. build > 1 \/ provenance = <<>>
  BY <1>3
<1>6. /\ DOMAIN f \in {Fields, Fields \ AddedLater}
      /\ Parsed(f) = m /\ f.bundle_version = m.bundle_version /\ f.demo = m.demo
  <2>1. /\ m.bundle_version = IF m.prompt_provenance # <<>> THEN 2 ELSE 1
        /\ m.prompt_provenance = <<>> => m.prompt_overrides_status = "absent"
        /\ build > 1 \/ m.prompt_provenance = <<>>
    BY <1>2, <1>4, <1>5
  <2>2. m = [field \in Fields |-> m[field]] /\ m.bundle_hash = ComputeBundleHash(m)
    BY <1>2
  <2>. QED  BY <2>1, <2>2, WrittenAs, Zenon
<1>. HIDE DEF f
<1>7. Assembled(r)[1] = f /\ Len(Assembled(r)) = 1
  BY <1>4
<1>8. Sound(f)
  <2>1. \A e \in m.evidence : e.content_hash = ContentHash(e.snippet)
    <3>. TAKE e \in m.evidence
    <3>1. PICK x \in items : e = [source_url |-> x.url, snippet |-> x.snippet,
                                    content_hash |-> ContentHash(x.snippet)]
      BY <1>2, Zenon
    <3>. QED  BY <3>1
  <2>2. f.bundle_version \in Supported
    BY <1>2, <1>6 DEF Supported
  <2>3. CheckBundleIntegrity(m)
    BY <1>2, <1>3, <1>4 DEF CheckBundleIntegrity
  <2>. QED  BY <1>2, <1>6, <2>1, <2>2, <2>3 DEF Sound, CheckReportIntegrity, CheckEvidenceIntegrity
<1>9. Tells(f)
  <2>1. "customised" \in Banners(f) <=> \E i \in DOMAIN provenance : provenance[i].prompt.overridden
    <3>1. Parsed(f).prompt_provenance = provenance
      BY <1>2, <1>6
    <3>. QED  BY <3>1, Zenon DEF Banners
  <2>2. Effective(r.ran, r.overrides).overridden <=> r.overrides = "APPLIED"
    BY DEF Effective
  <2>3. (\E i \in DOMAIN provenance : provenance[i].prompt.overridden)
          <=> (provenance # <<>> /\ r.overrides = "APPLIED")
    BY <1>3, <2>2
  <2>. QED  BY <1>2, <1>3, <1>6, <2>1, <2>3 DEF Tells
<1>. QED  BY <1>2, <1>6, <1>7, <1>8, <1>9

-----------------------------------------------------------------------------
(* The life of a bundle *)

\* The run's own row: only its report is ever another.
RowKept ==
    /\ finished = [field \in RecordFields |-> finished[field]]
    /\ finished.ran \in Nat /\ build \in Nat /\ finished.ran <= build
    /\ \E r \in Records : finished.report = r.report

\* What a host has frozen, or handed out, is sound and says what ran.
Handing(f) == f # <<>> => Sound(f[1]) /\ Tells(f[1])

\* A file keeps the hash it was handed out with, whatever else changes in it.
Marked ==
    file # <<>> =>
        /\ original # <<>>
        /\ changes \in Nat
        /\ changes = 0 => file = original
        /\ DOMAIN file[1] \subseteq Fields
        /\ {"bundle_version", "bundle_hash"} \subseteq DOMAIN file[1]
        /\ file[1].bundle_hash = original[1].bundle_hash

\* A frozen file is handed out later, by another build: what is said of it has to
\* hold from the day it was frozen, so it is part of the invariant.
BundleInv == RowKept /\ Handing(frozen) /\ Handing(original) /\ Marked

\* Tells looks at nothing of the run but its prompts and its mode.
LEMMA SaysFollows ==
    ASSUME NEW f, Tells(f), finished'.demo = finished.demo, finished'.ran = finished.ran,
           finished'.overrides = finished.overrides
    PROVE  Tells(f)'
BY DEF Tells

LEMMA BundleStarts == BundleInit => BundleInv
<1>. SUFFICES ASSUME BundleInit PROVE BundleInv
  OBVIOUS
<1>1. finished \in Records /\ finished.ran <= build /\ build \in 1..MaxBuild
  BY DEF BundleInit
<1>2. RowKept
  BY <1>1, BundleAssumption DEF RowKept
<1>. QED  BY <1>2 DEF BundleInit, BundleInv, Handing, Marked

\* What is served now is sound and says what ran.
LEMMA ServedIsSound ==
    ASSUME BundleInv
    PROVE  /\ Served # <<>> => Sound(Served[1]) /\ Tells(Served[1])
           /\ Assembled(finished) # <<>> =>
                Sound(Assembled(finished)[1]) /\ Tells(Assembled(finished)[1])
BY AssembledIsSound DEF BundleInv, RowKept, Handing, Served

LEMMA SoundDomain ==
    ASSUME NEW f, Sound(f)
    PROVE  DOMAIN f \subseteq Fields /\ {"bundle_version", "bundle_hash"} \subseteq DOMAIN f
BY DEF Sound, Fields, AddedLater

LEMMA BundleStep ==
    ASSUME BundleInv, [BundleNext]_bundleVars
    PROVE  BundleInv'
<1>1. CASE Upgrade
  <2>1. build' = build + 1 /\ UNCHANGED <<finished, frozen, file, original, changes>>
    BY <1>1 DEF Upgrade
  <2>2. RowKept'
    BY <2>1 DEF BundleInv, RowKept
  <2>3. Handing(frozen)' /\ Handing(original)'
    BY <2>1, SaysFollows DEF BundleInv, Handing
  <2>4. Marked'
    BY <2>1 DEF BundleInv, Marked
  <2>. QED  BY <2>2, <2>3, <2>4 DEF BundleInv
<1>2. CASE CreateArtifact
  <2>1. frozen' = Assembled(finished) /\ Assembled(finished) # <<>>
        /\ UNCHANGED <<build, finished, file, original, changes>>
    BY <1>2 DEF CreateArtifact
  <2>2. RowKept' /\ Marked'
    BY <2>1 DEF BundleInv, RowKept, Marked
  <2>3. Handing(original)' /\ Handing(frozen)'
    BY <2>1, ServedIsSound, SaysFollows DEF BundleInv, Handing
  <2>. QED  BY <2>2, <2>3 DEF BundleInv
<1>3. CASE Export
  <2>1. /\ Served # <<>> /\ file' = Served /\ original' = Served /\ changes' = 0
        /\ UNCHANGED <<build, finished, frozen>>
    BY <1>3 DEF Export
  <2>2. RowKept'
    BY <2>1 DEF BundleInv, RowKept
  <2>3. Handing(frozen)' /\ Handing(original)'
    BY <2>1, ServedIsSound, SaysFollows DEF BundleInv, Handing
  <2>4. Marked'
    BY <2>1, ServedIsSound, SoundDomain DEF Marked
  <2>. QED  BY <2>2, <2>3, <2>4 DEF BundleInv
<1>4. ASSUME NEW r \in Records, LandRework(r) PROVE BundleInv'
  <2>1. finished' = [finished EXCEPT !.report = r.report]
        /\ UNCHANGED <<build, frozen, file, original, changes>>
    BY <1>4 DEF LandRework
  <2>2. finished = [field \in RecordFields |-> finished[field]]
    BY DEF BundleInv, RowKept
  <2>3. finished' = [field \in RecordFields |-> finished'[field]]
        /\ \A field \in RecordFields \ {"report"} : finished'[field] = finished[field]
    BY <2>1, <2>2
  <2>4. finished'.demo = finished.demo /\ finished'.ran = finished.ran
        /\ finished'.overrides = finished.overrides
    BY <2>3 DEF RecordFields
  <2>5. RowKept'
    BY <2>1, <2>3, <2>4 DEF BundleInv, RowKept
  <2>6. Handing(frozen)' /\ Handing(original)'
    BY <2>1, <2>4, SaysFollows DEF BundleInv, Handing
  <2>7. Marked'
    BY <2>1 DEF BundleInv, Marked
  <2>. QED  BY <2>5, <2>6, <2>7 DEF BundleInv
<1>5. ASSUME NEW r \in Records, NEW field \in Fields \ {"bundle_hash"}, Change(field, r)
      PROVE  BundleInv'
  <2>1. PICK other : file' = <<[g \in DOMAIN file[1] \cup {field} |->
                                   IF g = field THEN other ELSE file[1][g]]>>
    BY <1>5 DEF Change
  <2>2. file # <<>> /\ changes' = changes + 1 /\ UNCHANGED <<build, finished, frozen, original>>
    BY <1>5 DEF Change
  <2>3. DOMAIN file'[1] = DOMAIN file[1] \cup {field}
        /\ \A g \in DOMAIN file[1] \ {field} : file'[1][g] = file[1][g]
    BY <2>1
  <2>4. Marked'
    BY <2>2, <2>3 DEF BundleInv, Marked
  <2>5. RowKept' /\ Handing(frozen)' /\ Handing(original)'
    BY <2>2, SaysFollows DEF BundleInv, Handing, RowKept
  <2>. QED  BY <2>4, <2>5 DEF BundleInv
<1>6. CASE UNCHANGED bundleVars
  <2>1. UNCHANGED <<build, finished, frozen, file, original, changes>>
    BY <1>6 DEF bundleVars
  <2>2. RowKept' /\ Marked'
    BY <2>1 DEF BundleInv, RowKept, Marked
  <2>3. Handing(frozen)' /\ Handing(original)'
    BY <2>1, SaysFollows DEF BundleInv, Handing
  <2>. QED  BY <2>2, <2>3 DEF BundleInv
<1>. QED  BY <1>1, <1>2, <1>3, <1>4, <1>5, <1>6 DEF BundleNext

\* Two manifests of one hash, each true to its form, are one.
LEMMA HashTells ==
    ASSUME NEW f, NEW g, CheckBundleIntegrity(Parsed(f)), CheckBundleIntegrity(Parsed(g)),
           Parsed(f).bundle_hash = Parsed(g).bundle_hash
    PROVE  Parsed(f) = Parsed(g)
<1>. DEFINE m == Parsed(f)
            o == Parsed(g)
<1>1. m = [field \in Fields |-> m[field]] /\ o = [field \in Fields |-> o[field]]
  BY DEF Parsed
<1>2. /\ m.bundle_version < 2 => m.prompt_provenance = <<>> /\ m.prompt_overrides_status = "absent"
      /\ o.bundle_version < 2 => o.prompt_provenance = <<>> /\ o.prompt_overrides_status = "absent"
      /\ ComputeBundleHash(m) = ComputeBundleHash(o)
  BY DEF CheckBundleIntegrity
<1>. HIDE DEF m, o
<1>3. [field \in Covered(m.bundle_version) |-> m[field]] = [field \in Covered(o.bundle_version) |-> o[field]]
  <2>. DEFINE x == [field \in Covered(m.bundle_version) |-> m[field]]
              y == [field \in Covered(o.bundle_version) |-> o[field]]
  <2>1. [sha256 |-> x] = [sha256 |-> y]
    BY <1>2 DEF ComputeBundleHash, ContentHash
  <2>. HIDE DEF x, y
  <2>2. [sha256 |-> x].sha256 = [sha256 |-> y].sha256
    BY <2>1
  <2>3. x = y
    BY <2>2
  <2>. QED  BY <2>3 DEF x, y
<1>4. Covered(m.bundle_version) = Covered(o.bundle_version)
      /\ \A field \in Covered(m.bundle_version) : m[field] = o[field]
  <2>. DEFINE x == [field \in Covered(m.bundle_version) |-> m[field]]
              y == [field \in Covered(o.bundle_version) |-> o[field]]
  <2>1. DOMAIN x = DOMAIN y
    BY <1>3
  <2>2. Covered(m.bundle_version) = Covered(o.bundle_version)
    BY <2>1
  <2>. QED  BY <1>3, <2>2
<1>5. m.bundle_hash = o.bundle_hash
  BY DEF m, o
<1>6. CASE m.bundle_version < 2
  <2>1. o.bundle_version < 2
    <3>1. "prompt_provenance" \notin Covered(m.bundle_version)
      BY <1>6 DEF Covered, AddedLater
    <3>. QED  BY <1>4, <3>1 DEF Covered, AddedLater, Fields
  <2>2. \A field \in Fields : field \in Covered(m.bundle_version) \cup AddedLater \cup {"bundle_hash"}
    BY <1>6 DEF Covered
  <2>3. \A field \in Fields : m[field] = o[field]
    BY <1>2, <1>4, <1>5, <1>6, <2>1, <2>2 DEF AddedLater
  <2>. QED  BY <1>1, <2>3 DEF m, o
<1>7. CASE ~(m.bundle_version < 2)
  <2>1. \A field \in Fields : field \in Covered(m.bundle_version) \cup {"bundle_hash"}
    BY <1>7 DEF Covered
  <2>2. \A field \in Fields : m[field] = o[field]
    BY <1>4, <1>5, <2>1
  <2>. QED  BY <1>1, <2>2 DEF m, o
<1>. QED  BY <1>6, <1>7

\* "The bundle was modified after assembly": whatever changes in a file, however
\* often and in whichever version it declares itself, it does not verify; one that
\* nobody touched passes the checks of its own integrity, whichever build wrote it.
THEOREM VerdictHolds == BundleSpec => []VerdictIsTrue
<1>1. BundleInv => VerdictIsTrue
  <2>. SUFFICES ASSUME BundleInv, Handed PROVE VerdictIsTrue
    BY DEF VerdictIsTrue
  <2>. DEFINE m == Parsed(file[1])
              o == Parsed(original[1])
  <2>1. Sound(original[1]) /\ file # <<>>
    BY DEF BundleInv, Handing, Marked, Handed
  <2>2. m # o => ~VerifyFile(file[1])
    <3>. SUFFICES ASSUME VerifyFile(file[1]) PROVE m = o
      OBVIOUS
    <3>1. CheckBundleIntegrity(m)
      BY DEF VerifyFile, VerifyManifest
    <3>2. m.bundle_hash = o.bundle_hash
      BY <2>1, SoundDomain DEF BundleInv, Marked, Parsed, Fields
    <3>. QED  BY <2>1, <3>1, <3>2, HashTells DEF Sound
  <2>3. changes = 0 => CheckBundleIntegrity(m) /\ CheckReportIntegrity(m) /\ CheckEvidenceIntegrity(m)
    BY <2>1 DEF Sound, BundleInv, Marked
  <2>. QED  BY <2>2, <2>3 DEF VerdictIsTrue
<1>. QED  BY <1>1, BundleStarts, BundleStep, PTL DEF BundleSpec

\* An untouched file says of its run what was so when the run ran, whichever build
\* froze or exported it, and a customised or scripted one never passes bare.
THEOREM FileSaysWhatRan == BundleSpec => []SaysWhatRan
<1>1. BundleInv => SaysWhatRan
  <2>. SUFFICES ASSUME BundleInv, Handed, changes = 0 PROVE SaysWhatRan
    BY DEF SaysWhatRan
  <2>1. Tells(file[1])
    BY DEF BundleInv, Handing, Marked, Handed
  <2>. QED  BY <2>1 DEF Tells, SaysWhatRan
<1>. QED  BY <1>1, BundleStarts, BundleStep, PTL DEF BundleSpec

-----------------------------------------------------------------------------
(* Two counts of the same citations *)

LEMMA ImageIsFinite ==
    ASSUME NEW S, IsFiniteSet(S), NEW f, f = [x \in S |-> f[x]]
    PROVE  IsFiniteSet({f[x] : x \in S})
<1>. DEFINE T == {f[x] : x \in S}
<1>1. f \in Surjection(S, T)
  BY DEF Surjection
<1>. QED  BY <1>1, FS_Surjection

\* What is said of a report's lines in BundleAssumption.
WellFormed(report) ==
    /\ report \in Seq([kind : STRING, cites : SUBSET Nat])
    /\ \A i \in DOMAIN report : IsFiniteSet(report[i].cites)

LEMMA CitationsAreFinite ==
    ASSUME NEW report, WellFormed(report)
    PROVE  IsFiniteSet(ExtractCitations(report))
<1>. DEFINE above == BodyBeforeSources(report)
            mine(i) == {<<i, n>> : n \in report[i].cites}
            all == [i \in above |-> mine(i)]
<1>1. \A i \in above : IsFiniteSet(mine(i))
  <2>. TAKE i \in above
  <2>. DEFINE f == [n \in report[i].cites |-> <<i, n>>]
  <2>1. IsFiniteSet({f[n] : n \in report[i].cites})
    BY ImageIsFinite DEF WellFormed, BodyBeforeSources
  <2>2. {f[n] : n \in report[i].cites} = mine(i)
    OBVIOUS
  <2>. QED  BY <2>1, <2>2
<1>2. IsFiniteSet(above)
  <2>1. DOMAIN report = 1..Len(report) /\ Len(report) \in Nat
    BY DEF WellFormed
  <2>2. IsFiniteSet(DOMAIN report)
    BY <2>1, FS_Interval
  <2>. QED  BY <2>2, FS_Subset DEF BodyBeforeSources
<1>. HIDE DEF mine, above
<1>3. IsFiniteSet({all[i] : i \in above})
  BY <1>2, ImageIsFinite
<1>. HIDE DEF all
<1>4. \A s \in {all[i] : i \in above} : IsFiniteSet(s)
  BY <1>1 DEF all
<1>5. IsFiniteSet(UNION {all[i] : i \in above})
  BY <1>3, <1>4, FS_UNION
<1>6. UNION {all[i] : i \in above} = ExtractCitations(report)
  BY DEF ExtractCitations, all, mine, above
<1>. QED  BY <1>5, <1>6

\* The lines above the references, found in two ways.
LEMMA OneBody ==
    ASSUME NEW report, WellFormed(report)
    PROVE  VerifierBody(report) = BodyBeforeSources(report)
<1>1. DOMAIN report = 1..Len(report) /\ Len(report) \in Nat
  BY DEF WellFormed
<1>2. ASSUME NEW i \in DOMAIN report
      PROVE  (\A h \in {x \in DOMAIN report : report[x].kind = "sources"} : i < h)
               <=> \A j \in 1..i : report[j].kind # "sources"
  BY <1>1
<1>. QED  BY <1>2 DEF VerifierBody, BodyBeforeSources

\* What is exported is of this report and these sources.
LEMMA AssembledIsOfRun ==
    ASSUME finished.ran \in Nat, build \in Nat, finished.ran <= build, NEW x \in ToSet(Assembled(finished))
    PROVE  Parsed(x).report = finished.report /\ Parsed(x).sources = finished.sources
<1>1. Assembled(finished) # <<>>
  BY DEF ToSet
<1>2. PICK m : Assembled(finished) = <<m>>
  BY <1>1, AssembledRecord
<1>3. x = Assembled(finished)[1]
  BY <1>2 DEF ToSet
<1>. QED  BY <1>1, <1>3, AssembledIsSound

\* The share of citations a page shows is whole exactly when the verifier finds
\* that each of them resolves, for any report and sources (resolution_rate,
\* check_citation_resolution).
THEOREM RatesAgree == BundleSpec => []RateAgrees
<1>1. BundleInv => RateAgrees
  <2>. SUFFICES ASSUME BundleInv, NEW x \in ToSet(Assembled(finished))
       PROVE  LET rate == ResolutionRate(finished.report, finished.sources)
              IN  CheckCitationResolution(Parsed(x)) <=> (rate = <<>> \/ rate[1] = rate[2])
    BY DEF RateAgrees
  <2>. DEFINE report == finished.report
              cites == ExtractCitations(report)
              valid == {s.index : s \in finished.sources} \ {0}
              good == {m \in cites : m[2] \in valid}
              rate == ResolutionRate(report, finished.sources)
  <2>1. WellFormed(report)
    BY BundleAssumption DEF BundleInv, RowKept, WellFormed
  <2>2. Parsed(x).report = report /\ Parsed(x).sources = finished.sources
    BY AssembledIsOfRun DEF BundleInv, RowKept
  <2>3. Indices(Parsed(x)) = valid
    BY <2>2 DEF Indices
  <2>4. CheckCitationResolution(Parsed(x)) <=> good = cites
    <3>1. CheckCitationResolution(Parsed(x)) <=> \A i \in BodyBeforeSources(report) : report[i].cites \subseteq valid
      BY <2>1, <2>2, <2>3, OneBody DEF CheckCitationResolution
    <3>2. good = cites <=> \A m \in cites : m[2] \in valid
      OBVIOUS
    <3>. HIDE DEF valid
    <3>3. ASSUME NEW i \in BodyBeforeSources(report), NEW n \in report[i].cites
          PROVE  <<i, n>> \in cites
      <4>1. <<i, n>> \in {<<i, k>> : k \in report[i].cites}
        OBVIOUS
      <4>. QED  BY <4>1, Zenon DEF ExtractCitations
    <3>4. ASSUME NEW m \in cites
          PROVE  \E i \in BodyBeforeSources(report) : \E n \in report[i].cites : m = <<i, n>>
      BY Zenon DEF ExtractCitations
    <3>5. (\A m \in cites : m[2] \in valid)
            <=> \A i \in BodyBeforeSources(report) : \A n \in report[i].cites : n \in valid
      <4>. HIDE DEF cites
      <4>1. ASSUME \A m \in cites : m[2] \in valid,
                   NEW i \in BodyBeforeSources(report), NEW n \in report[i].cites
            PROVE  n \in valid
        <5>1. <<i, n>>[2] \in valid
          BY <3>3, <4>1
        <5>. QED  BY <5>1
      <4>2. ASSUME \A i \in BodyBeforeSources(report) : \A n \in report[i].cites : n \in valid,
                   NEW m \in cites
            PROVE  m[2] \in valid
        <5>1. PICK i \in BodyBeforeSources(report) : \E n \in report[i].cites : m = <<i, n>>
          BY <3>4
        <5>2. PICK n \in report[i].cites : m = <<i, n>>
          BY <5>1
        <5>. QED  BY <4>2, <5>2
      <4>. QED  BY <4>1, <4>2
    <3>6. (\A i \in BodyBeforeSources(report) : report[i].cites \subseteq valid)
            <=> \A i \in BodyBeforeSources(report) : \A n \in report[i].cites : n \in valid
      OBVIOUS
    <3>. QED  BY <3>1, <3>2, <3>5, <3>6
  <2>5. good = cites <=> Cardinality(good) = Cardinality(cites)
    <3>1. IsFiniteSet(cites) /\ good \in SUBSET cites
      BY <2>1, CitationsAreFinite
    <3>. HIDE DEF good, cites
    <3>. QED  BY <3>1, FS_Subset
  <2>6. CASE cites = {}
    BY <2>4, <2>6 DEF ResolutionRate
  <2>7. CASE cites # {}
    <3>1. rate = <<Cardinality(good), Cardinality(cites)>>
      BY <2>7 DEF ResolutionRate
    <3>. HIDE DEF good, cites, rate
    <3>2. rate # <<>> /\ rate[1] = Cardinality(good) /\ rate[2] = Cardinality(cites)
      BY <3>1
    <3>. QED  BY <2>4, <2>5, <3>2 DEF rate
  <2>. QED  BY <2>6, <2>7
<1>. QED  BY <1>1, BundleStarts, BundleStep, PTL DEF BundleSpec


-----------------------------------------------------------------------------
(* The claim check *)

Causes == Unmeasured \cup Rejections \cup {"none"}

ClaimShape == [at : Nat \X Nat, fact : Facts, cites : SUBSET Sources,
               irrelevant : SUBSET Nat, state : States, cause : Causes]

\* A place of the text that a claim is made of.
Spotted(b, at) == at \in Nat \X Nat /\ at[1] \in Read(b) /\ at[2] \in DOMAIN b[at[1]].says

\* Each claim is what its place in the text says.
PlacedIn(b, cs) ==
    \A k \in DOMAIN cs : /\ Spotted(b, cs[k].at)
                         /\ cs[k].fact = b[cs[k].at[1]].says[cs[k].at[2]].fact

\* Each place of the text has its claim, or waits for one.
RuledOn(b, cs, waiting) ==
    \A i \in Read(b) : \A p \in DOMAIN b[i].says :
        \/ \E k \in DOMAIN cs : cs[k].at = <<i, p>>
        \/ \E q \in DOMAIN waiting : waiting[q] = <<i, p>>

\* A citation speaks for the claim.
Backed(c) == ~(Valid(c) \subseteq c.irrelevant)

Validating == {"decompose", "verify", "relevance", "infer"}

TextTyped ==
    /\ body \in Seq(WrittenLine) /\ lines \in Seq(WrittenLine)
    /\ ruled \in Seq(ClaimShape)
    /\ charged \in Nat /\ checked \in Nat /\ absorbed \in Nat

\* What the validation of this very text has come to.
TextRuled ==
    stage \in Validating \cup {"finish"} =>
        /\ PlacedIn(body, ruled)
        /\ RuledOn(body, ruled, IF stage = "decompose" THEN queue ELSE <<>>)

\* What waits in the stages of a validation.
QueueFits ==
    /\ stage = "decompose" =>
          queue \in Seq(Nat \X Nat) /\ \A q \in DOMAIN queue : Spotted(body, queue[q])
    /\ stage = "verify" => queue \in Seq(Nat)
    /\ stage = "relevance" =>
          /\ queue \in Seq(Nat \X Nat)
          /\ \A q \in DOMAIN queue : queue[q][1] \in DOMAIN ruled /\ ~Pending(ruled[queue[q][1]])
    /\ stage = "infer" =>
          /\ queue \in Seq(Nat)
          /\ \A q \in DOMAIN queue : queue[q] \in DOMAIN ruled /\ Backed(ruled[queue[q]])

\* What may still be found supported has a citation, and what is has one that is
\* not judged irrelevant.
VerdictsBacked ==
    /\ stage \in {"decompose", "verify"} => \A k \in DOMAIN ruled : ruled[k].irrelevant = {}
    /\ stage \in {"verify", "relevance"} =>
          \A k \in DOMAIN ruled : Pending(ruled[k]) => Backed(ruled[k])
    /\ stage \in {"infer", "finish"} =>
          \A k \in DOMAIN ruled : IsSupported(ruled[k]) => Backed(ruled[k])
    /\ stage = "finish" =>
          \A k \in DOMAIN ruled : IsSupported(ruled[k]) => ruled[k].fact \notin rejected

\* The calls a validation has recorded are absorbed when it ends.
CallsKept == charged = absorbed + (IF stage \in Validating THEN checked ELSE 0)

Ended == ending = "complete" => stage = "done" /\ ShownWasSupported /\ RejectedStaysOut

CheckInv == TextTyped /\ TextRuled /\ QueueFits /\ VerdictsBacked /\ CallsKept /\ Ended

-----------------------------------------------------------------------------

\* The text as sequences and numbers.
LEMMA LinesAre ==
    ASSUME NEW b \in Seq(WrittenLine)
    PROVE  /\ Len(b) \in Nat /\ DOMAIN b = 1..Len(b)
           /\ \A i \in DOMAIN b : b[i] \in WrittenLine /\ b[i].says \in Seq(Saying)
           /\ \A i \in DOMAIN b : \A p \in DOMAIN b[i].says : b[i].says[p] \in Saying /\ p \in Nat
           /\ Read(b) \subseteq DOMAIN b
<1>1. Len(b) \in Nat /\ DOMAIN b = 1..Len(b) /\ \A i \in DOMAIN b : b[i] \in WrittenLine
  OBVIOUS
<1>2. \A i \in DOMAIN b : b[i].says \in Seq(Saying)
  BY <1>1 DEF WrittenLine
<1>3. ASSUME NEW s \in Seq(Saying) PROVE \A p \in DOMAIN s : s[p] \in Saying /\ p \in Nat
  OBVIOUS
<1>. QED  BY <1>1, <1>2, <1>3 DEF Read

LEMMA SentencesAre ==
    ASSUME NEW b \in Seq(WrittenLine)
    PROVE  /\ Sentences(b) \in Seq(Nat \X Nat)
           /\ \A q \in DOMAIN Sentences(b) : Spotted(b, Sentences(b)[q])
           /\ RuledOn(b, <<>>, Sentences(b))
<1>. DEFINE of(i) == IF i \in Read(b) THEN [p \in DOMAIN b[i].says |-> <<i, p>>] ELSE <<>>
            ss == [i \in DOMAIN b |-> of(i)]
            L == Len(b)
<1>1. PICK r : r = FlattenSeq(ss)
  OBVIOUS
<1>2. Sentences(b) = r
  BY <1>1 DEF Sentences
<1>3. L \in Nat /\ DOMAIN b = 1..L
  BY LinesAre
<1>4. \A i \in DOMAIN b : of(i) \in Seq(Nat \X Nat)
  <2>. TAKE i \in DOMAIN b
  <2>1. i \in Nat /\ \A p \in DOMAIN b[i].says : p \in Nat
    BY LinesAre
  <2>2. b[i].says \in Seq(Saying)
    BY LinesAre
  <2>3. CASE i \in Read(b)
    <3>1. DOMAIN b[i].says = 1..Len(b[i].says) /\ Len(b[i].says) \in Nat
      BY <2>2
    <3>2. of(i) = [p \in 1..Len(b[i].says) |-> <<i, p>>]
      BY <2>3, <3>1
    <3>. QED  BY <2>1, <3>1, <3>2
  <2>4. CASE i \notin Read(b)
    BY <2>4
  <2>. QED  BY <2>3, <2>4
<1>5. ss \in [1..L -> Seq(Nat \X Nat)]
  <2>. HIDE DEF of, L
  <2>. QED  BY <1>3, <1>4
<1>6. \A i \in 1..L : ss[i] = of(i)
  BY <1>3
<1>. HIDE DEF ss, L
<1>7. r \in Seq(Nat \X Nat) /\ HoldsAll(r, ss, L)
  <2>. HIDE DEF of
  <2>. QED  BY <1>1, <1>3, <1>5, Flattened
<1>8. ASSUME NEW q \in DOMAIN r PROVE Spotted(b, r[q])
  <2>1. PICK i \in 1..L : \E m \in DOMAIN of(i) : r[q] = of(i)[m]
    <3>1. PICK i \in 1..L : \E m \in DOMAIN ss[i] : r[q] = ss[i][m]
      BY <1>7 DEF HoldsAll
    <3>2. ss[i] = of(i)
      BY <1>6
    <3>. HIDE DEF of
    <3>. QED  BY <3>1, <3>2
  <2>2. PICK m \in DOMAIN of(i) : r[q] = of(i)[m]
    BY <2>1
  <2>3. i \in Read(b)
    BY <2>2
  <2>4. m \in DOMAIN b[i].says /\ r[q] = <<i, m>>
    BY <2>2, <2>3
  <2>5. i \in Nat /\ m \in Nat
    BY <1>3, <2>3, <2>4, LinesAre
  <2>6. r[q][1] = i /\ r[q][2] = m /\ r[q] \in Nat \X Nat
    BY <2>4, <2>5
  <2>. QED  BY <2>3, <2>4, <2>6 DEF Spotted
<1>9. ASSUME NEW i \in Read(b), NEW p \in DOMAIN b[i].says
      PROVE  \E q \in DOMAIN r : r[q] = <<i, p>>
  <2>1. i \in 1..L
    BY <1>3, LinesAre
  <2>2. ss[i] = [x \in DOMAIN b[i].says |-> <<i, x>>]
    BY <1>6, <2>1
  <2>3. p \in DOMAIN ss[i] /\ ss[i][p] = <<i, p>>
    BY <2>2
  <2>. QED  BY <1>7, <2>1, <2>3 DEF HoldsAll
<1>. HIDE DEF of
<1>. QED  BY <1>2, <1>7, <1>8, <1>9 DEF RuledOn

LEMMA ClaimsAre ==
    ASSUME NEW cs \in Seq(ClaimShape)
    PROVE  /\ Len(cs) \in Nat /\ DOMAIN cs = 1..Len(cs) /\ DOMAIN cs \subseteq Nat /\ IsFiniteSet(DOMAIN cs)
           /\ \A k \in DOMAIN cs : cs[k] \in ClaimShape
<1>1. Len(cs) \in Nat /\ DOMAIN cs = 1..Len(cs)
  OBVIOUS
<1>2. \A k \in DOMAIN cs : cs[k] \in ClaimShape
  OBVIOUS
<1>. QED  BY <1>1, <1>2, FS_Interval

\* The claims of a text that are of one kind, in order.
LEMMA WhereIs ==
    ASSUME NEW cs \in Seq(ClaimShape), NEW T, T \subseteq DOMAIN cs, NEW r, r = InOrder(T)
    PROVE  r \in Seq(Nat) /\ \A k \in DOMAIN r : r[k] \in T
<1>1. T \subseteq Nat /\ IsFiniteSet(T)
  BY ClaimsAre, FS_Subset
<1>2. r \in Seq(T) /\ \A k \in DOMAIN r : r[k] \in T
  BY <1>1, Ordered
<1>. QED  BY <1>1, <1>2

LEMMA PairsAre ==
    ASSUME NEW cs \in Seq(ClaimShape)
    PROVE  /\ CitationPairs(cs) \in Seq(Nat \X Nat)
           /\ \A q \in DOMAIN CitationPairs(cs) : /\ CitationPairs(cs)[q][1] \in DOMAIN cs
                                                  /\ IsSupported(cs[CitationPairs(cs)[q][1]])
<1>. DEFINE of(k) == IF IsSupported(cs[k])
                     THEN [m \in DOMAIN InOrder(Valid(cs[k])) |-> <<k, InOrder(Valid(cs[k]))[m]>>]
                     ELSE <<>>
            ss == [k \in DOMAIN cs |-> of(k)]
            L == Len(cs)
<1>1. PICK r : r = FlattenSeq(ss)
  OBVIOUS
<1>2. CitationPairs(cs) = r
  BY <1>1 DEF CitationPairs
<1>3. L \in Nat /\ DOMAIN cs = 1..L
  BY ClaimsAre
<1>4. ASSUME NEW k \in DOMAIN cs PROVE of(k) \in Seq(Nat \X Nat)
  <2>1. k \in Nat
    BY <1>3
  <2>2. Valid(cs[k]) \subseteq Nat /\ IsFiniteSet(Valid(cs[k]))
    <3>1. Valid(cs[k]) \in SUBSET Sources
      BY ClaimsAre, GroundingAssumption DEF Valid
    <3>. QED  BY <3>1, GroundingAssumption, FS_Subset
  <2>. DEFINE ns == InOrder(Valid(cs[k]))
  <2>3. ns \in Seq(Valid(cs[k]))
    BY <2>2, Ordered
  <2>. HIDE DEF ns
  <2>4. ns \in Seq(Nat) /\ DOMAIN ns = 1..Len(ns) /\ Len(ns) \in Nat /\ \A m \in DOMAIN ns : ns[m] \in Nat
    BY <2>2, <2>3
  <2>5. [m \in DOMAIN ns |-> <<k, ns[m]>>] \in Seq(Nat \X Nat)
    <3>1. [m \in 1..Len(ns) |-> <<k, ns[m]>>] \in Seq(Nat \X Nat)
      BY <2>1, <2>4
    <3>. QED  BY <2>4, <3>1
  <2>. QED  BY <2>5 DEF ns
<1>5. ss \in [1..L -> Seq(Nat \X Nat)]
  <2>. HIDE DEF of, L
  <2>. QED  BY <1>3, <1>4
<1>6. \A k \in 1..L : ss[k] = of(k)
  BY <1>3
<1>. HIDE DEF ss, L
<1>7. r \in Seq(Nat \X Nat) /\ HoldsAll(r, ss, L)
  <2>. HIDE DEF of
  <2>. QED  BY <1>1, <1>3, <1>5, Flattened
<1>8. ASSUME NEW q \in DOMAIN r PROVE r[q][1] \in DOMAIN cs /\ IsSupported(cs[r[q][1]])
  <2>1. PICK k \in 1..L : \E m \in DOMAIN of(k) : r[q] = of(k)[m]
    <3>1. PICK k \in 1..L : \E m \in DOMAIN ss[k] : r[q] = ss[k][m]
      BY <1>7 DEF HoldsAll
    <3>2. ss[k] = of(k)
      BY <1>6
    <3>. HIDE DEF of
    <3>. QED  BY <3>1, <3>2
  <2>2. PICK m \in DOMAIN of(k) : r[q] = of(k)[m]
    BY <2>1
  <2>3. IsSupported(cs[k])
    BY <2>2
  <2>4. r[q] = <<k, InOrder(Valid(cs[k]))[m]>>
    BY <2>2, <2>3
  <2>5. r[q][1] = k
    BY <2>4
  <2>. QED  BY <1>3, <2>3, <2>5
<1>. QED  BY <1>2, <1>7, <1>8

\* The batch of a call and what is left are the queue.
LEMMA Batches ==
    ASSUME NEW T, queue \in Seq(T)
    PROVE  /\ Now \in Seq(T) /\ Later \in Seq(T)
           /\ \A q \in DOMAIN Now : \E r \in DOMAIN queue : Now[q] = queue[r]
           /\ \A q \in DOMAIN Later : \E r \in DOMAIN queue : Later[q] = queue[r]
           /\ \A r \in DOMAIN queue : \/ \E q \in DOMAIN Now : Now[q] = queue[r]
                                      \/ \E q \in DOMAIN Later : Later[q] = queue[r]
<1>. DEFINE n == Len(queue)
            m == Least(BATCH, n)
<1>1. n \in Nat /\ m \in Nat /\ m <= n
  BY GroundingAssumption DEF Least
<1>. HIDE DEF m
<1>2. /\ Now = SubSeq(queue, 1, m) /\ Later = SubSeq(queue, m + 1, n)
      /\ DOMAIN queue = 1..n
  BY DEF Now, Later, m
<1>. HIDE DEF n
<1>3. /\ Now \in Seq(T) /\ DOMAIN Now = 1..m /\ \A q \in 1..m : Now[q] = queue[q]
      /\ Later \in Seq(T) /\ DOMAIN Later = 1..(n - m) /\ \A q \in 1..(n - m) : Later[q] = queue[q + m]
  <2>1. Now \in Seq(T) /\ DOMAIN Now = 1..m /\ \A q \in 1..m : Now[q] = queue[q]
    BY <1>1, <1>2
  <2>2. Later \in Seq(T) /\ Len(Later) = n - m /\ \A q \in 1..(n - m) : Later[q] = queue[q + m]
    BY <1>1, <1>2
  <2>. QED  BY <2>1, <2>2
<1>4. ASSUME NEW r \in DOMAIN queue
      PROVE  \/ \E q \in DOMAIN Now : Now[q] = queue[r]
             \/ \E q \in DOMAIN Later : Later[q] = queue[r]
  <2>1. CASE r <= m
    BY <1>1, <1>2, <1>3, <2>1
  <2>2. CASE r > m
    <3>1. r - m \in 1..(n - m) /\ (r - m) + m = r
      BY <1>1, <1>2, <2>2
    <3>. QED  BY <1>3, <3>1
  <2>. QED  BY <1>1, <1>2, <2>1, <2>2
<1>5. \A q \in DOMAIN Now : q \in DOMAIN queue /\ Now[q] = queue[q]
  BY <1>1, <1>2, <1>3
<1>6. \A q \in DOMAIN Later : q + m \in DOMAIN queue /\ Later[q] = queue[q + m]
  BY <1>1, <1>2, <1>3
<1>. QED  BY <1>3, <1>4, <1>5, <1>6

-----------------------------------------------------------------------------

\* What a decision leaves of a claim and what it says.
Decides(d, c, state, cause) ==
    /\ d \in ClaimShape /\ d.at = c.at /\ d.fact = c.fact /\ d.cites = c.cites
    /\ d.irrelevant = c.irrelevant /\ d.state = state /\ d.cause = cause

LEMMA DecideIs ==
    ASSUME NEW c \in ClaimShape, NEW state \in States, NEW cause \in Causes,
           NEW d, d = Decide(c, state, cause)
    PROVE  Decides(d, c, state, cause)
BY DEF Decide, ClaimShape, Decides

\* A claim as a reply makes one of a sentence.
MadeOf(c, at) ==
    /\ c \in ClaimShape /\ c.at = at /\ c.irrelevant = {}
    /\ c.fact = body[at[1]].says[at[2]].fact

LEMMA ClaimIs ==
    ASSUME body \in Seq(WrittenLine), NEW at, Spotted(body, at),
           NEW cites \in SUBSET Marks(at), NEW cause \in Causes,
           NEW c, c = Claim(at, cites, cause)
    PROVE  MadeOf(c, at)
<1>1. at \in Nat \X Nat /\ at[1] \in DOMAIN body /\ at[2] \in DOMAIN body[at[1]].says
  BY LinesAre DEF Spotted
<1>2. body[at[1]].says[at[2]] \in Saying
  BY <1>1, LinesAre
<1>3. body[at[1]].says[at[2]].fact \in Facts /\ Marks(at) \subseteq Sources
  BY <1>2 DEF Saying, Marks
<1>. QED  BY <1>1, <1>3 DEF Claim, ClaimShape, States, MadeOf

\* The same claims, decided again.
Redecided(cs, ds) ==
    /\ ds = [k \in DOMAIN cs |-> ds[k]]
    /\ \A k \in DOMAIN cs : /\ ds[k] \in ClaimShape
                            /\ ds[k].at = cs[k].at /\ ds[k].fact = cs[k].fact /\ ds[k].cites = cs[k].cites

Follows(b, cs, ds) ==
    /\ ds \in Seq(ClaimShape) /\ DOMAIN ds = DOMAIN cs
    /\ PlacedIn(b, cs) => PlacedIn(b, ds)
    /\ RuledOn(b, cs, <<>>) => RuledOn(b, ds, <<>>)

LEMMA StillPlaced ==
    ASSUME NEW cs \in Seq(ClaimShape), NEW ds, Redecided(cs, ds), NEW b
    PROVE  Follows(b, cs, ds)
<1>1. DOMAIN ds = DOMAIN cs /\ DOMAIN cs = 1..Len(cs) /\ Len(cs) \in Nat
  BY DEF Redecided
<1>2. ds \in Seq(ClaimShape)
  <2>1. ds \in [1..Len(cs) -> ClaimShape]
    BY <1>1 DEF Redecided
  <2>. QED  BY <1>1, <2>1
<1>3. PlacedIn(b, cs) => PlacedIn(b, ds)
  BY <1>1 DEF PlacedIn, Redecided
<1>4. RuledOn(b, cs, <<>>) => RuledOn(b, ds, <<>>)
  <2>1. ASSUME NEW x, \E k \in DOMAIN cs : cs[k].at = x PROVE \E k \in DOMAIN ds : ds[k].at = x
    BY <1>1, <2>1 DEF Redecided
  <2>2. DOMAIN <<>> = {}
    OBVIOUS
  <2>. QED  BY <2>1, <2>2 DEF RuledOn
<1>. QED  BY <1>1, <1>2, <1>3, <1>4 DEF Follows

LEMMA NotEnded ==
    ASSUME CheckInv, stage # "done", ending' = ending \/ ending' = "unmeasured"
    PROVE  Ended'
BY DEF CheckInv, Ended

LEMMA CallIsKept ==
    ASSUME CheckInv, stage \in Validating, stage' = stage,
           Asked \/ \E cause \in Terminal : Unanswered(cause)
    PROVE  CallsKept' /\ charged' \in Nat /\ checked' \in Nat /\ absorbed' \in Nat
<1>1. charged \in Nat /\ checked \in Nat /\ absorbed \in Nat /\ charged = absorbed + checked
  BY DEF CheckInv, TextTyped, CallsKept
<1>2. \/ charged' = charged + 1 /\ checked' = checked + 1 /\ absorbed' = absorbed
      \/ charged' = charged /\ checked' = checked /\ absorbed' = absorbed
  BY DEF Asked, Answered, Unanswered, NoAnswer
<1>. QED  BY <1>1, <1>2 DEF CallsKept

-----------------------------------------------------------------------------

LEMMA PreflightKeeps == ASSUME CheckInv, Preflight PROVE CheckInv'
<1>1. Ended'
  BY NotEnded DEF Preflight
<1>2. TextTyped' /\ CallsKept'
  BY DEF Preflight, CheckInv, TextTyped, CallsKept, money, Validating
<1>3. stage' \in {"validate", "done"}
  BY DEF Preflight
<1>4. TextRuled' /\ QueueFits' /\ VerdictsBacked'
  BY <1>3 DEF TextRuled, QueueFits, VerdictsBacked, Validating
<1>. QED  BY <1>1, <1>2, <1>4 DEF CheckInv

LEMMA ValidateKeeps == ASSUME CheckInv, Validate PROVE CheckInv'
<1>1. Ended'
  BY NotEnded DEF Validate
<1>2. /\ stage = "validate" /\ stage' = "decompose" /\ body' = body /\ lines' = lines
      /\ ruled' = <<>> /\ queue' = Sentences(body)
      /\ charged' = charged /\ absorbed' = absorbed /\ checked' = 0
  BY DEF Validate
<1>3. TextTyped'
  BY <1>2 DEF CheckInv, TextTyped
<1>4. CallsKept'
  BY <1>2 DEF CheckInv, TextTyped, CallsKept, Validating
<1>5. body \in Seq(WrittenLine)
  BY DEF CheckInv, TextTyped
<1>6. TextRuled'
  BY <1>2, <1>5, SentencesAre DEF TextRuled, PlacedIn
<1>7. QueueFits'
  BY <1>2, <1>5, SentencesAre DEF QueueFits
<1>8. VerdictsBacked'
  BY <1>2 DEF VerdictsBacked
<1>. QED  BY <1>1, <1>3, <1>4, <1>6, <1>7, <1>8 DEF CheckInv

LEMMA DecomposeKeeps == ASSUME CheckInv, Decompose PROVE CheckInv'
<1>1. Ended'
  BY NotEnded DEF Decompose
<1>2. /\ stage = "decompose" /\ stage' = "decompose" /\ body' = body /\ lines' = lines
      /\ queue' = Later
      /\ Asked \/ \E cause \in Terminal : Unanswered(cause)
  BY DEF Decompose
<1>3. CallsKept' /\ charged' \in Nat /\ checked' \in Nat /\ absorbed' \in Nat
  BY <1>2, CallIsKept DEF Validating
<1>4. /\ body \in Seq(WrittenLine) /\ lines \in Seq(WrittenLine) /\ ruled \in Seq(ClaimShape)
      /\ PlacedIn(body, ruled) /\ RuledOn(body, ruled, queue)
      /\ queue \in Seq(Nat \X Nat) /\ \A q \in DOMAIN queue : Spotted(body, queue[q])
      /\ \A k \in DOMAIN ruled : ruled[k].irrelevant = {}
  BY <1>2 DEF CheckInv, TextTyped, TextRuled, QueueFits, VerdictsBacked, Validating
<1>5. /\ Now \in Seq(Nat \X Nat) /\ Later \in Seq(Nat \X Nat)
      /\ \A q \in DOMAIN Now : \E r \in DOMAIN queue : Now[q] = queue[r]
      /\ \A q \in DOMAIN Later : \E r \in DOMAIN queue : Later[q] = queue[r]
      /\ \A r \in DOMAIN queue : \/ \E q \in DOMAIN Now : Now[q] = queue[r]
                                 \/ \E q \in DOMAIN Later : Later[q] = queue[r]
  BY <1>4, Batches
<1>6. \A q \in DOMAIN Now : Spotted(body, Now[q])
  BY <1>4, <1>5
<1>. DEFINE Fits(said) ==
             /\ ruled' = ruled \o said /\ said = [k \in DOMAIN Now |-> said[k]]
             /\ \A k \in DOMAIN Now : \E cites \in SUBSET Marks(Now[k]), cause \in Causes :
                   said[k] = Claim(Now[k], cites, cause)
<1>7. \E said : Fits(said)
  <2>1. ASSUME NEW said \in [DOMAIN Now -> UNION {Decomposed(Now[k]) : k \in DOMAIN Now}],
               \A k \in DOMAIN Now : said[k] \in Decomposed(Now[k]), ruled' = ruled \o said
        PROVE  Fits(said)
    <3>1. said = [k \in DOMAIN Now |-> said[k]]
      <4>. DEFINE T == UNION {Decomposed(Now[k]) : k \in DOMAIN Now}
      <4>1. said \in [DOMAIN Now -> T]
        BY <2>1
      <4>. HIDE DEF T
      <4>. QED  BY <4>1
    <3>2. ASSUME NEW k \in DOMAIN Now
          PROVE  \E cites \in SUBSET Marks(Now[k]), cause \in Causes : said[k] = Claim(Now[k], cites, cause)
      <4>1. said[k] \in Decomposed(Now[k])
        BY <2>1
      <4>2. CASE said[k] = Claim(Now[k], Marks(Now[k]), "decomposition_invalid")
        <5>1. Marks(Now[k]) \in SUBSET Marks(Now[k]) /\ "decomposition_invalid" \in Causes
          BY DEF Causes, Unmeasured
        <5>. QED  BY <4>2, <5>1, Zenon
      <4>3. CASE said[k] \in {Claim(Now[k], cites, "none") : cites \in SUBSET Marks(Now[k])}
        <5>1. "none" \in Causes
          BY DEF Causes
        <5>. QED  BY <4>3, <5>1, Zenon
      <4>. QED  BY <4>1, <4>2, <4>3 DEF Decomposed
    <3>. QED  BY <2>1, <3>1, <3>2
  <2>2. ASSUME NEW cause \in Causes,
               ruled' = ruled \o [k \in DOMAIN Now |-> Claim(Now[k], Marks(Now[k]), cause)]
        PROVE  \E said : Fits(said)
    <3>. DEFINE said == [k \in DOMAIN Now |-> Claim(Now[k], Marks(Now[k]), cause)]
    <3>1. said = [k \in DOMAIN Now |-> said[k]]
      OBVIOUS
    <3>2. \A k \in DOMAIN Now : Marks(Now[k]) \in SUBSET Marks(Now[k]) /\ said[k] = Claim(Now[k], Marks(Now[k]), cause)
      OBVIOUS
    <3>3. \A k \in DOMAIN Now : \E cites \in SUBSET Marks(Now[k]), c \in Causes :
             said[k] = Claim(Now[k], cites, c)
      <4>. HIDE DEF said
      <4>. QED  BY <2>2, <3>2, Zenon
    <3>4. ruled' = ruled \o said
      BY <2>2
    <3>. HIDE DEF said
    <3>. QED  BY <3>1, <3>3, <3>4
  <2>. HIDE DEF Fits
  <2>3. Terminal \subseteq Causes /\ "malformed_response" \in Causes
    BY DEF Terminal, Causes, Unmeasured
  <2>. QED  BY <2>1, <2>2, <2>3 DEF Decompose
<1>8. PICK said : Fits(said)
  <2>. HIDE DEF Fits
  <2>. QED  BY <1>7
<1>9. ASSUME NEW k \in DOMAIN Now
      PROVE  /\ said[k] \in ClaimShape /\ said[k].at = Now[k] /\ said[k].irrelevant = {}
             /\ said[k].fact = body[Now[k][1]].says[Now[k][2]].fact
  <2>1. PICK cites \in SUBSET Marks(Now[k]), cause \in Causes : said[k] = Claim(Now[k], cites, cause)
    BY <1>8
  <2>2. body \in Seq(WrittenLine) /\ Spotted(body, Now[k])
    BY <1>4, <1>6
  <2>3. MadeOf(said[k], Now[k])
    BY <2>1, <2>2, ClaimIs
  <2>. QED  BY <2>3 DEF MadeOf
<1>10. said \in Seq(ClaimShape) /\ DOMAIN said = DOMAIN Now
  <2>1. DOMAIN Now = 1..Len(Now) /\ Len(Now) \in Nat
    BY <1>5
  <2>2. said = [k \in DOMAIN Now |-> said[k]]
    BY <1>8
  <2>3. said \in [1..Len(Now) -> ClaimShape]
    BY <1>9, <2>1, <2>2
  <2>. QED  BY <2>1, <2>3
<1>11. PICK u : u = ruled'
  OBVIOUS
<1>12. u \in Seq(ClaimShape) /\ Joins(u, ruled, said)
  BY <1>4, <1>8, <1>10, <1>11, JoinHolds
<1>. HIDE DEF Fits
<1>13. TextTyped'
  BY <1>2, <1>3, <1>4, <1>11, <1>12 DEF TextTyped
<1>14. PlacedIn(body, u)
  <2>. SUFFICES ASSUME NEW x \in DOMAIN u
       PROVE  Spotted(body, u[x].at) /\ u[x].fact = body[u[x].at[1]].says[u[x].at[2]].fact
    BY DEF PlacedIn
  <2>1. ASSUME NEW k \in DOMAIN ruled, u[x] = ruled[k]
        PROVE  Spotted(body, u[x].at) /\ u[x].fact = body[u[x].at[1]].says[u[x].at[2]].fact
    BY <1>4, <2>1 DEF PlacedIn
  <2>2. ASSUME NEW k \in DOMAIN said, u[x] = said[k]
        PROVE  Spotted(body, u[x].at) /\ u[x].fact = body[u[x].at[1]].says[u[x].at[2]].fact
    BY <1>6, <1>9, <1>10, <2>2
  <2>. QED  BY <1>12, <2>1, <2>2 DEF Joins
<1>15. RuledOn(body, u, Later)
  <2>. SUFFICES ASSUME NEW i \in Read(body), NEW p \in DOMAIN body[i].says
       PROVE  \/ \E k \in DOMAIN u : u[k].at = <<i, p>>
              \/ \E q \in DOMAIN Later : Later[q] = <<i, p>>
    BY DEF RuledOn
  <2>1. CASE \E k \in DOMAIN ruled : ruled[k].at = <<i, p>>
    BY <1>12, <2>1 DEF Joins
  <2>2. ASSUME NEW r \in DOMAIN queue, queue[r] = <<i, p>>
        PROVE  \/ \E k \in DOMAIN u : u[k].at = <<i, p>>
               \/ \E q \in DOMAIN Later : Later[q] = <<i, p>>
    <3>1. CASE \E q \in DOMAIN Now : Now[q] = queue[r]
      <4>1. PICK q \in DOMAIN Now : Now[q] = queue[r]
        BY <3>1
      <4>2. PICK x \in DOMAIN u : u[x] = said[q]
        BY <1>10, <1>12, <4>1 DEF Joins
      <4>. QED  BY <1>9, <2>2, <4>1, <4>2
    <3>2. CASE \E q \in DOMAIN Later : Later[q] = queue[r]
      BY <2>2, <3>2
    <3>. QED  BY <1>5, <3>1, <3>2
  <2>. QED  BY <1>4, <2>1, <2>2 DEF RuledOn
<1>16. TextRuled'
  BY <1>2, <1>11, <1>14, <1>15 DEF TextRuled
<1>17. QueueFits'
  BY <1>2, <1>4, <1>5 DEF QueueFits
<1>18. \A x \in DOMAIN u : u[x].irrelevant = {}
  BY <1>4, <1>9, <1>10, <1>12, SMTT(30) DEF Joins
<1>19. VerdictsBacked'
  BY <1>2, <1>11, <1>18 DEF VerdictsBacked
<1>. QED  BY <1>1, <1>3, <1>13, <1>16, <1>17, <1>19 DEF CheckInv

\* A stage that decides the claims again leaves them where they are.
LEMMA DecidingKeeps ==
    ASSUME CheckInv, stage \in Validating, stage = "decompose" => queue = <<>>,
           stage' # "decompose", body' = body, lines' = lines, Redecided(ruled, ruled'),
           charged' \in Nat, checked' \in Nat, absorbed' \in Nat
    PROVE  TextTyped' /\ TextRuled' /\ DOMAIN ruled' = DOMAIN ruled
<1>1. /\ body \in Seq(WrittenLine) /\ lines \in Seq(WrittenLine) /\ ruled \in Seq(ClaimShape)
      /\ PlacedIn(body, ruled) /\ RuledOn(body, ruled, <<>>)
  BY DEF CheckInv, TextTyped, TextRuled
<1>2. PICK u : u = ruled'
  OBVIOUS
<1>3. Follows(body, ruled, u)
  BY <1>1, <1>2, StillPlaced
<1>. QED  BY <1>1, <1>2, <1>3 DEF Follows, TextTyped, TextRuled

LEMMA CheckKeeps == ASSUME CheckInv, Check PROVE CheckInv'
<1>1. Ended'
  BY NotEnded DEF Check
<1>2. /\ stage = "decompose" /\ queue = <<>> /\ stage' = "verify" /\ body' = body /\ lines' = lines
      /\ ruled' = [k \in DOMAIN ruled |-> Structural(ruled[k])]
      /\ charged' = charged /\ checked' = checked /\ absorbed' = absorbed
  BY DEF Check, money
<1>3. CallsKept' /\ charged' \in Nat /\ checked' \in Nat /\ absorbed' \in Nat
  BY <1>2 DEF CheckInv, TextTyped, CallsKept, Validating
<1>4. \A k \in DOMAIN ruled : ruled[k] \in ClaimShape /\ ruled[k].irrelevant = {}
  BY <1>2, ClaimsAre DEF CheckInv, TextTyped, VerdictsBacked
<1>5. ASSUME NEW k \in DOMAIN ruled
      PROVE  /\ ruled'[k] \in ClaimShape
             /\ ruled'[k].at = ruled[k].at /\ ruled'[k].fact = ruled[k].fact /\ ruled'[k].cites = ruled[k].cites
             /\ ruled'[k].irrelevant = {}
             /\ Pending(ruled'[k]) => Backed(ruled'[k])
  <2>. DEFINE c == ruled[k]
  <2>1. ruled'[k] = Structural(c)
    BY <1>2
  <2>2. ASSUME NEW cause \in Causes \ {"none"}, ruled'[k] = Decide(c, "not_supported", cause)
        PROVE  /\ Decides(ruled'[k], c, "not_supported", cause) /\ ~Pending(ruled'[k])
    <3>1. c \in ClaimShape /\ "not_supported" \in States
      BY <1>4 DEF States
    <3>2. Decides(ruled'[k], c, "not_supported", cause)
      BY <2>2, <3>1, DecideIs
    <3>. QED  BY <3>2 DEF Decides, Pending
  <2>3. {"uncited", "number_not_in_snippet"} \subseteq Causes \ {"none"}
    BY DEF Causes, Rejections
  <2>4. CASE ~Pending(c)
    BY <1>4, <2>1, <2>4 DEF Structural
  <2>5. CASE Pending(c) /\ Valid(c) = {}
    BY <1>4, <2>1, <2>2, <2>3, <2>5 DEF Structural, Decides
  <2>6. CASE Pending(c) /\ Valid(c) # {} /\ Concludes(c) /\ Missing(c)
    BY <1>4, <2>1, <2>2, <2>3, <2>6 DEF Structural, Decides
  <2>7. CASE Pending(c) /\ Valid(c) # {} /\ ~(Concludes(c) /\ Missing(c))
    BY <1>4, <2>1, <2>7 DEF Structural, Backed
  <2>. QED  BY <2>4, <2>5, <2>6, <2>7
<1>6. Redecided(ruled, ruled')
  BY <1>2, <1>5 DEF Redecided
<1>7. TextTyped' /\ TextRuled' /\ DOMAIN ruled' = DOMAIN ruled
  BY <1>2, <1>3, <1>6, DecidingKeeps DEF Validating
<1>8. QueueFits'
  <2>. DEFINE T == {k \in DOMAIN ruled' : Pending(ruled'[k]) /\ ~Concludes(ruled'[k])}
  <2>1. queue' = InOrder(T)
    BY DEF Check, Where
  <2>2. T \subseteq DOMAIN ruled'
    OBVIOUS
  <2>. HIDE DEF T
  <2>3. ruled' \in Seq(ClaimShape)
    BY <1>7 DEF TextTyped
  <2>4. queue' \in Seq(Nat)
    BY <2>1, <2>2, <2>3, WhereIs
  <2>. QED  BY <1>2, <2>4 DEF QueueFits
<1>9. VerdictsBacked'
  BY <1>2, <1>5 DEF VerdictsBacked
<1>. QED  BY <1>1, <1>3, <1>7, <1>8, <1>9 DEF CheckInv

\* A claim that a call rules on is decided, whatever the answer.
LEMMA VerdictDecides ==
    ASSUME NEW c, NEW v \in Verdicts
    PROVE  \E state \in States, cause \in Causes :
              Verdict(c, v) = Decide(c, state, cause) /\ ~(state = "unmeasured" /\ cause = "none")
<1>. DEFINE D(state, cause) == Decide(c, state, cause)
<1>1. \/ Verdict(c, v) = D("unmeasured", "malformed_response")
      \/ Verdict(c, v) = D("contradicted", "contradicted")
      \/ Verdict(c, v) = D("not_supported", "number_not_in_snippet")
      \/ Verdict(c, v) = D("not_supported", "not_supported")
      \/ Verdict(c, v) = D("supported", "none")
  <2>1. CASE v = "none"
    BY <2>1 DEF Verdict
  <2>2. CASE v = "contradicted"
    BY <2>2 DEF Verdict
  <2>3. CASE v \in {"not_supported", "supported"} /\ Missing(c)
    BY <2>3 DEF Verdict
  <2>4. CASE v = "not_supported" /\ ~Missing(c)
    BY <2>4 DEF Verdict
  <2>5. CASE v = "computed" \/ (v = "supported" /\ ~Missing(c))
    BY <2>5 DEF Verdict
  <2>. QED  BY <2>1, <2>2, <2>3, <2>4, <2>5 DEF Verdicts
<1>2. /\ {"unmeasured", "contradicted", "not_supported", "supported"} \subseteq States
      /\ {"malformed_response", "contradicted", "number_not_in_snippet", "not_supported", "none"} \subseteq Causes
  BY DEF States, Causes, Unmeasured, Rejections
<1>. QED  BY <1>1, <1>2

LEMMA VerifyClaimsKeeps == ASSUME CheckInv, VerifyClaims PROVE CheckInv'
<1>1. Ended'
  BY NotEnded DEF VerifyClaims
<1>2. /\ stage = "verify" /\ stage' = "verify" /\ body' = body /\ lines' = lines
      /\ queue' = Later
      /\ Asked \/ \E cause \in Terminal : Unanswered(cause)
  BY DEF VerifyClaims
<1>3. CallsKept' /\ charged' \in Nat /\ checked' \in Nat /\ absorbed' \in Nat
  BY <1>2, CallIsKept DEF Validating
<1>4. /\ \A k \in DOMAIN ruled : ruled[k] \in ClaimShape /\ ruled[k].irrelevant = {}
      /\ \A k \in DOMAIN ruled : Pending(ruled[k]) => Backed(ruled[k])
      /\ queue \in Seq(Nat)
  BY <1>2, ClaimsAre DEF CheckInv, TextTyped, VerdictsBacked, QueueFits
<1>. DEFINE Done(c, d) == \/ d = c
                          \/ \E state \in States, cause \in Causes :
                                d = Decide(c, state, cause) /\ ~(state = "unmeasured" /\ cause = "none")
            AllDone == ruled' = [k \in DOMAIN ruled |-> ruled'[k]] /\ \A k \in DOMAIN ruled : Done(ruled[k], ruled'[k])
<1>5. AllDone
  <2>1. ASSUME NEW v \in [DOMAIN Now -> Verdicts],
               ruled' = Ruled(Now, LAMBDA b : Verdict(ruled[Now[b]], v[b]))
        PROVE  AllDone
    <3>1. ruled' = [k \in DOMAIN ruled |->
                      IF \E b \in DOMAIN Now : Now[b] = k
                      THEN Verdict(ruled[Now[CHOOSE b \in DOMAIN Now : Now[b] = k]],
                                   v[CHOOSE b \in DOMAIN Now : Now[b] = k])
                      ELSE ruled[k]]
      BY <2>1 DEF Ruled
    <3>2. ASSUME NEW k \in DOMAIN ruled PROVE Done(ruled[k], ruled'[k])
      <4>1. CASE \E b \in DOMAIN Now : Now[b] = k
        <5>1. PICK b \in DOMAIN Now : b = CHOOSE x \in DOMAIN Now : Now[x] = k
          BY <4>1
        <5>2. Now[b] = k
          BY <4>1, <5>1
        <5>3. ruled'[k] = Verdict(ruled[k], v[b])
          BY <3>1, <4>1, <5>1, <5>2
        <5>4. v[b] \in Verdicts
          BY <2>1
        <5>. QED  BY <5>3, <5>4, VerdictDecides
      <4>2. CASE ~\E b \in DOMAIN Now : Now[b] = k
        BY <3>1, <4>2
      <4>. QED  BY <4>1, <4>2
    <3>. QED  BY <3>1, <3>2
  <2>2. ASSUME NEW cause \in Terminal,
               ruled' = Ruled(Now, LAMBDA b : Decide(ruled[Now[b]], "unmeasured", cause))
        PROVE  AllDone
    <3>1. ruled' = [k \in DOMAIN ruled |->
                      IF \E b \in DOMAIN Now : Now[b] = k
                      THEN Decide(ruled[Now[CHOOSE b \in DOMAIN Now : Now[b] = k]], "unmeasured", cause)
                      ELSE ruled[k]]
      BY <2>2 DEF Ruled
    <3>2. "unmeasured" \in States /\ cause \in Causes /\ cause # "none"
      BY DEF States, Causes, Unmeasured, Terminal
    <3>3. ASSUME NEW k \in DOMAIN ruled PROVE Done(ruled[k], ruled'[k])
      <4>1. CASE \E b \in DOMAIN Now : Now[b] = k
        BY <3>1, <3>2, <4>1
      <4>2. CASE ~\E b \in DOMAIN Now : Now[b] = k
        BY <3>1, <4>2
      <4>. QED  BY <4>1, <4>2
    <3>. QED  BY <3>1, <3>3
  <2>. HIDE DEF AllDone
  <2>. QED  BY <2>1, <2>2 DEF VerifyClaims
<1>. DEFINE SameClaim(c, d) == /\ d \in ClaimShape /\ d.at = c.at /\ d.fact = c.fact /\ d.cites = c.cites
                               /\ d.irrelevant = {} /\ (Pending(d) => Backed(d))
<1>6. ASSUME NEW k \in DOMAIN ruled PROVE SameClaim(ruled[k], ruled'[k])
  <2>1. CASE ruled'[k] = ruled[k]
    BY <1>4, <2>1
  <2>2. ASSUME NEW state \in States, NEW cause \in Causes,
               ruled'[k] = Decide(ruled[k], state, cause), ~(state = "unmeasured" /\ cause = "none")
        PROVE  SameClaim(ruled[k], ruled'[k])
    <3>1. Decides(ruled'[k], ruled[k], state, cause)
      BY <1>4, <2>2, DecideIs
    <3>. QED  BY <1>4, <2>2, <3>1 DEF Decides, Pending
  <2>. QED  BY <1>5, <2>1, <2>2
<1>7. Redecided(ruled, ruled')
  BY <1>5, <1>6 DEF Redecided
<1>8. TextTyped' /\ TextRuled' /\ DOMAIN ruled' = DOMAIN ruled
  BY <1>2, <1>3, <1>7, DecidingKeeps DEF Validating
<1>9. QueueFits'
  BY <1>2, <1>4, Batches DEF QueueFits
<1>10. VerdictsBacked'
  BY <1>2, <1>6, <1>8 DEF VerdictsBacked
<1>. QED  BY <1>1, <1>3, <1>8, <1>9, <1>10 DEF CheckInv

LEMMA VerifiedKeeps == ASSUME CheckInv, Verified PROVE CheckInv'
<1>1. Ended'
  BY NotEnded DEF Verified
<1>2. /\ stage = "verify" /\ stage' = "relevance" /\ body' = body /\ lines' = lines
      /\ ruled' = ruled /\ queue' = CitationPairs(ruled)
      /\ charged' = charged /\ checked' = checked /\ absorbed' = absorbed
  BY DEF Verified, money
<1>3. TextTyped' /\ CallsKept'
  BY <1>2 DEF CheckInv, TextTyped, CallsKept, Validating
<1>4. TextRuled'
  BY <1>2 DEF CheckInv, TextRuled, Validating
<1>5. QueueFits'
  <2>1. ruled \in Seq(ClaimShape)
    BY DEF CheckInv, TextTyped
  <2>2. \A c : IsSupported(c) => ~Pending(c)
    BY DEF IsSupported, Pending
  <2>. QED  BY <1>2, <2>1, <2>2, PairsAre DEF QueueFits
<1>6. VerdictsBacked'
  BY <1>2 DEF CheckInv, VerdictsBacked
<1>. QED  BY <1>1, <1>3, <1>4, <1>5, <1>6 DEF CheckInv

LEMMA RelevantKeeps == ASSUME CheckInv, Relevant PROVE CheckInv'
<1>1. Ended'
  BY NotEnded DEF Relevant
<1>2. /\ stage = "relevance" /\ stage' = "relevance" /\ body' = body /\ lines' = lines
      /\ queue' = Later
      /\ Asked \/ \E cause \in Terminal : Unanswered(cause)
  BY DEF Relevant
<1>3. CallsKept' /\ charged' \in Nat /\ checked' \in Nat /\ absorbed' \in Nat
  BY <1>2, CallIsKept DEF Validating
<1>4. /\ \A k \in DOMAIN ruled : ruled[k] \in ClaimShape
      /\ \A k \in DOMAIN ruled : Pending(ruled[k]) => Backed(ruled[k])
      /\ queue \in Seq(Nat \X Nat)
      /\ \A q \in DOMAIN queue : queue[q][1] \in DOMAIN ruled /\ ~Pending(ruled[queue[q][1]])
  BY <1>2, ClaimsAre DEF CheckInv, TextTyped, VerdictsBacked, QueueFits
<1>5. /\ Now \in Seq(Nat \X Nat) /\ Later \in Seq(Nat \X Nat)
      /\ \A q \in DOMAIN Now : \E r \in DOMAIN queue : Now[q] = queue[r]
      /\ \A q \in DOMAIN Later : \E r \in DOMAIN queue : Later[q] = queue[r]
  BY <1>4, Batches
<1>6. \A q \in DOMAIN Now : Now[q] \in Nat \X Nat /\ Now[q][2] \in Nat /\ ~Pending(ruled[Now[q][1]])
  <2>1. \A q \in DOMAIN Now : Now[q] \in Nat \X Nat
    BY <1>5
  <2>. QED  BY <1>4, <1>5, <2>1
<1>. DEFINE SameClaim(c, d) == /\ d \in ClaimShape /\ d.at = c.at /\ d.fact = c.fact /\ d.cites = c.cites
                               /\ (Pending(d) => d = c)
            AllKept == /\ ruled' = [k \in DOMAIN ruled |-> ruled'[k]]
                       /\ \A k \in DOMAIN ruled : SameClaim(ruled[k], ruled'[k])
<1>7. AllKept
  <2>1. ASSUME NEW answer \in [DOMAIN Now -> {"yes", "no", "none"}],
               ruled' = [k \in DOMAIN ruled |->
                    LET Says(a) == {Now[b][2] : b \in {x \in DOMAIN Now :
                                                  Now[x][1] = k /\ answer[x] = a}}
                        c == [ruled[k] EXCEPT !.irrelevant = @ \cup Says("no")]
                    IN IF Says("none") # {} THEN Decide(c, "unmeasured", "malformed_response")
                       ELSE c]
        PROVE  AllKept
    <3>1. ruled' = [k \in DOMAIN ruled |-> ruled'[k]]
      BY <2>1
    <3>2. ASSUME NEW k \in DOMAIN ruled PROVE SameClaim(ruled[k], ruled'[k])
      <4>. DEFINE Of(a) == {x \in DOMAIN Now : Now[x][1] = k /\ answer[x] = a}
                  Says(a) == {Now[b][2] : b \in Of(a)}
                  c == [ruled[k] EXCEPT !.irrelevant = @ \cup Says("no")]
      <4>1. ruled'[k] = IF Says("none") # {} THEN Decide(c, "unmeasured", "malformed_response") ELSE c
        BY <2>1
      <4>2. ruled[k] \in ClaimShape
        BY <1>4
      <4>3. Says("no") \subseteq Nat
        BY <1>6
      <4>4. Pending(ruled[k]) => Says("no") = {}
        <5>1. Pending(ruled[k]) => Of("no") = {}
          BY <1>6
        <5>. QED  BY <5>1
      <4>. HIDE DEF Says, Of
      <4>5. /\ c \in ClaimShape /\ c.at = ruled[k].at /\ c.fact = ruled[k].fact /\ c.cites = ruled[k].cites
            /\ c.state = ruled[k].state /\ c.cause = ruled[k].cause
        BY <4>2, <4>3 DEF ClaimShape
      <4>6. Says("no") = {} => c = ruled[k]
        BY <4>2 DEF ClaimShape
      <4>. HIDE DEF c
      <4>7. CASE Says("none") # {}
        <5>1. "unmeasured" \in States /\ "malformed_response" \in Causes
          BY DEF States, Causes, Unmeasured
        <5>2. Decides(ruled'[k], c, "unmeasured", "malformed_response")
          BY <4>1, <4>5, <4>7, <5>1, DecideIs
        <5>. QED  BY <4>5, <5>2 DEF Decides, Pending
      <4>8. CASE Says("none") = {}
        <5>1. ruled'[k] = c
          BY <4>1, <4>8
        <5>2. Pending(c) => c = ruled[k]
          BY <4>4, <4>5, <4>6 DEF Pending
        <5>. QED  BY <4>5, <5>1, <5>2
      <4>. QED  BY <4>7, <4>8
    <3>. QED  BY <3>1, <3>2
  <2>2. ASSUME NEW cause \in Terminal,
               ruled' = [k \in DOMAIN ruled |->
                    IF \E b \in DOMAIN Now : Now[b][1] = k
                    THEN Decide(ruled[k], "unmeasured", cause) ELSE ruled[k]]
        PROVE  AllKept
    <3>1. "unmeasured" \in States /\ cause \in Causes /\ cause # "none"
      BY DEF States, Causes, Unmeasured, Terminal
    <3>2. ASSUME NEW k \in DOMAIN ruled PROVE SameClaim(ruled[k], ruled'[k])
      <4>1. CASE \E b \in DOMAIN Now : Now[b][1] = k
        <5>1. ruled'[k] = Decide(ruled[k], "unmeasured", cause)
          BY <2>2, <4>1
        <5>2. Decides(ruled'[k], ruled[k], "unmeasured", cause)
          BY <1>4, <3>1, <5>1, DecideIs
        <5>. QED  BY <3>1, <5>2 DEF Decides, Pending
      <4>2. CASE ~\E b \in DOMAIN Now : Now[b][1] = k
        BY <1>4, <2>2, <4>2
      <4>. QED  BY <4>1, <4>2
    <3>. QED  BY <2>2, <3>2
  <2>. HIDE DEF AllKept
  <2>. QED  BY <2>1, <2>2 DEF Relevant
<1>8. Redecided(ruled, ruled')
  BY <1>7 DEF Redecided
<1>9. TextTyped' /\ TextRuled' /\ DOMAIN ruled' = DOMAIN ruled
  BY <1>2, <1>3, <1>8, DecidingKeeps DEF Validating
<1>10. ASSUME NEW k \in DOMAIN ruled PROVE Pending(ruled'[k]) => Pending(ruled[k]) /\ Backed(ruled'[k])
  BY <1>4, <1>7
<1>11. QueueFits'
  <2>1. ASSUME NEW q \in DOMAIN Later
        PROVE  Later[q][1] \in DOMAIN ruled /\ ~Pending(ruled'[Later[q][1]])
    <3>1. PICK r \in DOMAIN queue : Later[q] = queue[r]
      BY <1>5
    <3>. QED  BY <1>4, <1>10, <3>1
  <2>. HIDE DEF AllKept
  <2>. QED  BY <1>2, <1>5, <1>9, <2>1 DEF QueueFits
<1>12. VerdictsBacked'
  <2>. HIDE DEF AllKept
  <2>. QED  BY <1>2, <1>9, <1>10 DEF VerdictsBacked
<1>. QED  BY <1>1, <1>3, <1>9, <1>11, <1>12 DEF CheckInv

LEMMA RelatedKeeps == ASSUME CheckInv, Related PROVE CheckInv'
<1>1. Ended'
  BY NotEnded DEF Related
<1>2. /\ stage = "relevance" /\ stage' = "infer" /\ body' = body /\ lines' = lines
      /\ ruled' = [k \in DOMAIN ruled |-> Upheld(ruled[k])]
      /\ charged' = charged /\ checked' = checked /\ absorbed' = absorbed
  BY DEF Related, money
<1>3. CallsKept' /\ charged' \in Nat /\ checked' \in Nat /\ absorbed' \in Nat
  BY <1>2 DEF CheckInv, TextTyped, CallsKept, Validating
<1>4. /\ \A k \in DOMAIN ruled : ruled[k] \in ClaimShape
      /\ \A k \in DOMAIN ruled : Pending(ruled[k]) => Backed(ruled[k])
      /\ ruled \in Seq(ClaimShape)
  BY <1>2, ClaimsAre DEF CheckInv, TextTyped, VerdictsBacked
<1>. DEFINE SameClaim(c, d) == /\ d \in ClaimShape /\ d.at = c.at /\ d.fact = c.fact /\ d.cites = c.cites
                               /\ (Pending(c) => Backed(d)) /\ (IsSupported(d) => Backed(d))
<1>5. ASSUME NEW k \in DOMAIN ruled PROVE SameClaim(ruled[k], ruled'[k])
  <2>. DEFINE c == ruled[k]
  <2>1. ruled'[k] = Upheld(c) /\ c \in ClaimShape
    BY <1>2, <1>4
  <2>2. CASE IsSupported(c) /\ Valid(c) \subseteq c.irrelevant
    <3>1. ruled'[k] = Decide(c, "not_supported", "not_supported")
      BY <2>1, <2>2 DEF Upheld
    <3>2. "not_supported" \in States /\ "not_supported" \in Causes
      BY DEF States, Causes, Rejections
    <3>3. Decides(ruled'[k], c, "not_supported", "not_supported")
      BY <2>1, <3>1, <3>2, DecideIs
    <3>4. ~IsSupported(ruled'[k]) /\ ~Pending(c)
      BY <2>2, <3>3 DEF Decides, IsSupported, Pending
    <3>. QED  BY <3>3, <3>4 DEF Decides
  <2>3. CASE ~(IsSupported(c) /\ Valid(c) \subseteq c.irrelevant)
    <3>1. ruled'[k] = c
      BY <2>1, <2>3 DEF Upheld
    <3>2. IsSupported(c) => Backed(c)
      BY <2>3 DEF Backed
    <3>. QED  BY <1>4, <2>1, <3>1, <3>2
  <2>. QED  BY <2>2, <2>3
<1>6. Redecided(ruled, ruled')
  BY <1>2, <1>5 DEF Redecided
<1>7. TextTyped' /\ TextRuled' /\ DOMAIN ruled' = DOMAIN ruled
  BY <1>2, <1>3, <1>6, DecidingKeeps DEF Validating
<1>8. QueueFits'
  <2>. DEFINE T == {k \in DOMAIN ruled : Pending(ruled[k]) /\ Concludes(ruled[k])}
  <2>1. queue' = InOrder(T)
    BY DEF Related, Where
  <2>2. T \subseteq DOMAIN ruled
    OBVIOUS
  <2>3. \A k \in T : Backed(ruled'[k])
    BY <1>5
  <2>. HIDE DEF T
  <2>4. queue' \in Seq(Nat) /\ \A q \in DOMAIN queue' : queue'[q] \in T
    BY <1>4, <2>1, <2>2, WhereIs
  <2>. QED  BY <1>2, <1>7, <2>2, <2>3, <2>4 DEF QueueFits
<1>9. VerdictsBacked'
  BY <1>2, <1>5, <1>7 DEF VerdictsBacked
<1>. QED  BY <1>1, <1>3, <1>7, <1>8, <1>9 DEF CheckInv

LEMMA InferenceDecides ==
    ASSUME NEW c, NEW v \in {"supported", "not_supported", "none"}
    PROVE  \E state \in States, cause \in Causes : Inferred(c, v) = Decide(c, state, cause)
<1>1. \/ Inferred(c, v) = Decide(c, "unmeasured", "malformed_response")
      \/ Inferred(c, v) = Decide(c, "supported", "none")
      \/ Inferred(c, v) = Decide(c, "not_supported", "inference_rejected")
  BY DEF Inferred
<1>2. /\ {"unmeasured", "not_supported", "supported"} \subseteq States
      /\ {"malformed_response", "inference_rejected", "none"} \subseteq Causes
  BY DEF States, Causes, Unmeasured, Rejections
<1>. QED  BY <1>1, <1>2

LEMMA InferKeeps == ASSUME CheckInv, Infer PROVE CheckInv'
<1>1. Ended'
  BY NotEnded DEF Infer
<1>2. /\ stage = "infer" /\ stage' = "infer" /\ body' = body /\ lines' = lines
      /\ queue' = Later
      /\ Asked \/ \E cause \in Terminal : Unanswered(cause)
  BY DEF Infer
<1>3. CallsKept' /\ charged' \in Nat /\ checked' \in Nat /\ absorbed' \in Nat
  BY <1>2, CallIsKept DEF Validating
<1>4. /\ \A k \in DOMAIN ruled : ruled[k] \in ClaimShape
      /\ \A k \in DOMAIN ruled : IsSupported(ruled[k]) => Backed(ruled[k])
      /\ queue \in Seq(Nat)
      /\ \A q \in DOMAIN queue : queue[q] \in DOMAIN ruled /\ Backed(ruled[queue[q]])
  BY <1>2, ClaimsAre DEF CheckInv, TextTyped, VerdictsBacked, QueueFits
<1>5. /\ Later \in Seq(Nat)
      /\ \A q \in DOMAIN Now : \E r \in DOMAIN queue : Now[q] = queue[r]
      /\ \A q \in DOMAIN Later : \E r \in DOMAIN queue : Later[q] = queue[r]
  BY <1>4, Batches
<1>. DEFINE Done(c, d) == \/ d = c
                          \/ \E state \in States, cause \in Causes : d = Decide(c, state, cause) /\ Backed(c)
            AllDone == ruled' = [k \in DOMAIN ruled |-> ruled'[k]] /\ \A k \in DOMAIN ruled : Done(ruled[k], ruled'[k])
<1>6. AllDone
  <2>1. ASSUME NEW v \in [DOMAIN Now -> {"supported", "not_supported", "none"}],
               ruled' = Ruled(Now, LAMBDA b : Inferred(ruled[Now[b]], v[b]))
        PROVE  AllDone
    <3>1. ruled' = [k \in DOMAIN ruled |->
                      IF \E b \in DOMAIN Now : Now[b] = k
                      THEN Inferred(ruled[Now[CHOOSE b \in DOMAIN Now : Now[b] = k]],
                                    v[CHOOSE b \in DOMAIN Now : Now[b] = k])
                      ELSE ruled[k]]
      BY <2>1 DEF Ruled
    <3>2. ASSUME NEW k \in DOMAIN ruled PROVE Done(ruled[k], ruled'[k])
      <4>1. CASE \E b \in DOMAIN Now : Now[b] = k
        <5>1. PICK b \in DOMAIN Now : b = CHOOSE x \in DOMAIN Now : Now[x] = k
          BY <4>1
        <5>2. Now[b] = k
          BY <4>1, <5>1
        <5>3. ruled'[k] = Inferred(ruled[k], v[b])
          BY <3>1, <4>1, <5>1, <5>2
        <5>4. v[b] \in {"supported", "not_supported", "none"}
          BY <2>1
        <5>5. Backed(ruled[k])
          BY <1>4, <1>5, <5>2
        <5>. QED  BY <5>3, <5>4, <5>5, InferenceDecides
      <4>2. CASE ~\E b \in DOMAIN Now : Now[b] = k
        BY <3>1, <4>2
      <4>. QED  BY <4>1, <4>2
    <3>. QED  BY <3>1, <3>2
  <2>2. ASSUME NEW cause \in Terminal,
               ruled' = Ruled(Now, LAMBDA b : Decide(ruled[Now[b]], "unmeasured", cause))
        PROVE  AllDone
    <3>1. ruled' = [k \in DOMAIN ruled |->
                      IF \E b \in DOMAIN Now : Now[b] = k
                      THEN Decide(ruled[Now[CHOOSE b \in DOMAIN Now : Now[b] = k]], "unmeasured", cause)
                      ELSE ruled[k]]
      BY <2>2 DEF Ruled
    <3>2. "unmeasured" \in States /\ cause \in Causes
      BY DEF States, Causes, Unmeasured, Terminal
    <3>3. ASSUME NEW k \in DOMAIN ruled PROVE Done(ruled[k], ruled'[k])
      <4>1. CASE \E b \in DOMAIN Now : Now[b] = k
        <5>1. Backed(ruled[k])
          BY <1>4, <1>5, <4>1
        <5>. QED  BY <3>1, <3>2, <4>1, <5>1
      <4>2. CASE ~\E b \in DOMAIN Now : Now[b] = k
        BY <3>1, <4>2
      <4>. QED  BY <4>1, <4>2
    <3>. QED  BY <3>1, <3>3
  <2>. HIDE DEF AllDone
  <2>. QED  BY <2>1, <2>2 DEF Infer
<1>. DEFINE SameClaim(c, d) == /\ d \in ClaimShape /\ d.at = c.at /\ d.fact = c.fact /\ d.cites = c.cites
                               /\ (Backed(c) => Backed(d)) /\ (IsSupported(d) => Backed(d))
<1>7. ASSUME NEW k \in DOMAIN ruled PROVE SameClaim(ruled[k], ruled'[k])
  <2>1. CASE ruled'[k] = ruled[k]
    BY <1>4, <2>1
  <2>2. ASSUME NEW state \in States, NEW cause \in Causes,
               ruled'[k] = Decide(ruled[k], state, cause), Backed(ruled[k])
        PROVE  SameClaim(ruled[k], ruled'[k])
    <3>1. Decides(ruled'[k], ruled[k], state, cause)
      BY <1>4, <2>2, DecideIs
    <3>2. Backed(ruled'[k])
      BY <2>2, <3>1 DEF Decides, Backed, Valid
    <3>. QED  BY <3>1, <3>2 DEF Decides
  <2>. QED  BY <1>6, <2>1, <2>2
<1>8. Redecided(ruled, ruled')
  BY <1>6, <1>7 DEF Redecided
<1>9. TextTyped' /\ TextRuled' /\ DOMAIN ruled' = DOMAIN ruled
  BY <1>2, <1>3, <1>8, DecidingKeeps DEF Validating
<1>10. QueueFits'
  <2>1. ASSUME NEW q \in DOMAIN Later PROVE Later[q] \in DOMAIN ruled /\ Backed(ruled'[Later[q]])
    <3>1. PICK r \in DOMAIN queue : Later[q] = queue[r]
      BY <1>5
    <3>. QED  BY <1>4, <1>7, <3>1
  <2>. HIDE DEF AllDone
  <2>. QED  BY <1>2, <1>5, <1>9, <2>1 DEF QueueFits
<1>11. VerdictsBacked'
  <2>. HIDE DEF AllDone
  <2>. QED  BY <1>2, <1>7, <1>9 DEF VerdictsBacked
<1>. QED  BY <1>1, <1>3, <1>9, <1>10, <1>11 DEF CheckInv

LEMMA JudgeKeeps == ASSUME CheckInv, Judge PROVE CheckInv'
<1>1. Ended'
  BY NotEnded DEF Judge
<1>2. /\ stage = "infer" /\ stage' \in {"finish", "repair"} /\ body' = body
      /\ ruled' = [k \in DOMAIN ruled |-> Reintroduced(ruled[k])]
      /\ charged' = charged /\ checked' = 0 /\ absorbed' = absorbed + checked
      /\ lines' = lines \/ lines' = body
      /\ stage' = "finish" => rejected' = rejected
  BY DEF Judge
<1>3. /\ ruled \in Seq(ClaimShape) /\ body \in Seq(WrittenLine) /\ lines \in Seq(WrittenLine)
      /\ charged \in Nat /\ checked \in Nat /\ absorbed \in Nat /\ charged = absorbed + checked
      /\ PlacedIn(body, ruled) /\ RuledOn(body, ruled, <<>>)
      /\ \A k \in DOMAIN ruled : ruled[k] \in ClaimShape
      /\ \A k \in DOMAIN ruled : IsSupported(ruled[k]) => Backed(ruled[k])
  BY <1>2, ClaimsAre DEF CheckInv, TextTyped, TextRuled, CallsKept, VerdictsBacked, Validating
<1>4. CallsKept'
  BY <1>2, <1>3 DEF CallsKept, Validating
<1>. DEFINE SameClaim(c, d) == /\ d \in ClaimShape /\ d.at = c.at /\ d.fact = c.fact /\ d.cites = c.cites
                               /\ (IsSupported(d) => Backed(d) /\ d.fact \notin rejected)
<1>5. ASSUME NEW k \in DOMAIN ruled PROVE SameClaim(ruled[k], ruled'[k])
  <2>. DEFINE c == ruled[k]
  <2>1. ruled'[k] = Reintroduced(c) /\ c \in ClaimShape
    BY <1>2, <1>3
  <2>2. CASE IsSupported(c) /\ c.fact \in rejected
    <3>1. ruled'[k] = Decide(c, "not_supported", "reintroduced")
      BY <2>1, <2>2 DEF Reintroduced
    <3>2. "not_supported" \in States /\ "reintroduced" \in Causes
      BY DEF States, Causes, Rejections
    <3>3. Decides(ruled'[k], c, "not_supported", "reintroduced")
      BY <2>1, <3>1, <3>2, DecideIs
    <3>. QED  BY <3>3 DEF Decides, IsSupported
  <2>3. CASE ~(IsSupported(c) /\ c.fact \in rejected)
    <3>1. ruled'[k] = c
      BY <2>1, <2>3 DEF Reintroduced
    <3>. QED  BY <1>3, <2>1, <2>3, <3>1
  <2>. QED  BY <2>2, <2>3
<1>6. PICK u : u = ruled'
  OBVIOUS
<1>7. Redecided(ruled, u) /\ DOMAIN ruled' = DOMAIN ruled
  BY <1>2, <1>5, <1>6 DEF Redecided
<1>8. Follows(body, ruled, u)
  BY <1>3, <1>7, StillPlaced
<1>9. TextTyped'
  BY <1>2, <1>3, <1>6, <1>8 DEF TextTyped, Follows
<1>10. TextRuled'
  BY <1>2, <1>3, <1>6, <1>8 DEF TextRuled, Follows
<1>11. QueueFits'
  BY <1>2 DEF QueueFits
<1>12. VerdictsBacked'
  BY <1>2, <1>5, <1>7 DEF VerdictsBacked
<1>. QED  BY <1>1, <1>4, <1>9, <1>10, <1>11, <1>12 DEF CheckInv

-----------------------------------------------------------------------------

\* A line that a repair puts in the place of one is a line.
LEMMA LineIsPut ==
    ASSUME NEW b \in Seq(WrittenLine), NEW h, NEW x, x \in WrittenLine
    PROVE  [b EXCEPT ![h] = x] \in Seq(WrittenLine)
<1>1. DOMAIN b = 1..Len(b) /\ Len(b) \in Nat /\ \A i \in DOMAIN b : b[i] \in WrittenLine
  BY LinesAre
<1>2. [b EXCEPT ![h] = x] \in [1..Len(b) -> WrittenLine]
  BY <1>1
<1>. QED  BY <1>1, <1>2

LEMMA LinesPut ==
    /\ Notice \in WrittenLine /\ Blank \in WrittenLine /\ Fence \in WrittenLine
    /\ \A line : Dropped(line) \in {Notice, Blank}
    /\ \A line \in WrittenLine, w \in Rewrites : [line EXCEPT !.says = w] \in WrittenLine
<1>1. <<>> \in Seq(Saying) /\ Rewrites \subseteq Seq(Saying)
  BY GroundingAssumption
<1>2. Notice \in WrittenLine /\ Blank \in WrittenLine /\ Fence \in WrittenLine
  BY <1>1 DEF Notice, Blank, Fence, WrittenLine, Kinds
<1>3. \A line : Dropped(line) \in {Notice, Blank}
  BY DEF Dropped
<1>4. ASSUME NEW line \in WrittenLine, NEW w \in Rewrites
      PROVE  [line EXCEPT !.says = w] \in WrittenLine
  BY <1>1 DEF WrittenLine
<1>. QED  BY <1>2, <1>3, <1>4

LEMMA RepairKeeps ==
    ASSUME CheckInv, stage = "repair", stage' \in {"repair", "validate", "done"}, ruled' = ruled,
           body' \in Seq(WrittenLine), lines' \in Seq(WrittenLine),
           charged' \in Nat, checked' \in Nat, absorbed' \in Nat, CallsKept',
           ending' = ending \/ ending' = "unmeasured"
    PROVE  CheckInv'
<1>1. Ended'
  BY NotEnded
<1>2. TextTyped'
  BY DEF CheckInv, TextTyped
<1>3. TextRuled' /\ VerdictsBacked'
  <2>1. stage' \notin Validating /\ stage' # "finish"
    BY DEF Validating
  <2>2. TextRuled'
    BY <2>1 DEF TextRuled
  <2>3. VerdictsBacked'
    BY <2>1 DEF VerdictsBacked, Validating
  <2>. QED  BY <2>2, <2>3
<1>4. QueueFits'
  BY DEF QueueFits
<1>. QED  BY <1>1, <1>2, <1>3, <1>4 DEF CheckInv

LEMMA DropLineKeeps == ASSUME CheckInv, DropLine PROVE CheckInv'
<1>1. /\ stage = "repair" /\ stage' = "repair" /\ ruled' = ruled /\ body' = body /\ ending' = ending
      /\ lines' = [lines EXCEPT ![Head(queue)] = Dropped(lines[Head(queue)])]
      /\ charged' = charged /\ checked' = checked /\ absorbed' = absorbed
  BY DEF DropLine, money
<1>2. /\ body \in Seq(WrittenLine) /\ lines \in Seq(WrittenLine)
      /\ charged \in Nat /\ checked \in Nat /\ absorbed \in Nat /\ charged = absorbed
  BY <1>1 DEF CheckInv, TextTyped, CallsKept, Validating
<1>3. lines' \in Seq(WrittenLine)
  <2>1. Dropped(lines[Head(queue)]) \in WrittenLine
    BY LinesPut
  <2>. QED  BY <1>1, <1>2, <2>1, LineIsPut
<1>4. CallsKept'
  BY <1>1, <1>2 DEF CallsKept, Validating
<1>. QED  BY <1>1, <1>2, <1>3, <1>4, RepairKeeps

LEMMA RewriteKeeps == ASSUME CheckInv, Rewrite PROVE CheckInv'
<1>1. /\ stage = "repair" /\ stage' \in {"repair", "done"} /\ ruled' = ruled /\ body' = body
      /\ checked' = checked /\ (ending' = ending \/ ending' = "unmeasured")
      /\ \/ charged' = charged + 1 /\ absorbed' = absorbed + 1
         \/ charged' = charged /\ absorbed' = absorbed
  BY DEF Rewrite, Answered, Absorb, NoAnswer
<1>2. /\ body \in Seq(WrittenLine) /\ lines \in Seq(WrittenLine)
      /\ charged \in Nat /\ checked \in Nat /\ absorbed \in Nat /\ charged = absorbed
  BY <1>1 DEF CheckInv, TextTyped, CallsKept, Validating
<1>3. lines' \in Seq(WrittenLine)
  <2>. DEFINE h == Head(queue)
  <2>1. ASSUME NEW w \in Rewrites, lines' = [lines EXCEPT ![h].says = w] PROVE lines' \in Seq(WrittenLine)
    <3>1. CASE h \in DOMAIN lines
      <4>1. lines' = [lines EXCEPT ![h] = [lines[h] EXCEPT !.says = w]]
        BY <2>1
      <4>2. lines[h] \in WrittenLine
        BY <1>2, <3>1, LinesAre
      <4>3. [lines[h] EXCEPT !.says = w] \in WrittenLine
        BY <4>2, LinesPut
      <4>. QED  BY <1>2, <4>1, <4>3, LineIsPut
    <3>2. CASE h \notin DOMAIN lines
      <4>1. lines' = lines
        BY <1>2, <2>1, <3>2
      <4>. QED  BY <1>2, <4>1
    <3>. QED  BY <3>1, <3>2
  <2>2. ASSUME NEW x \in {Fence, Notice}, lines' = [lines EXCEPT ![h] = x] PROVE lines' \in Seq(WrittenLine)
    BY <1>2, <2>2, LinesPut, LineIsPut
  <2>3. CASE lines' = lines
    BY <1>2, <2>3
  <2>. HIDE DEF h
  <2>4. \/ \E w \in Rewrites : lines' = [lines EXCEPT ![h].says = w]
        \/ \E x \in {Fence, Notice} : lines' = [lines EXCEPT ![h] = x]
        \/ lines' = lines
    BY DEF Rewrite, h
  <2>. QED  BY <2>1, <2>2, <2>3, <2>4
<1>4. CallsKept'
  BY <1>1, <1>2 DEF CallsKept, Validating
<1>. QED  BY <1>1, <1>2, <1>3, <1>4, RepairKeeps

LEMMA RepairedKeeps == ASSUME CheckInv, Repaired PROVE CheckInv'
<1>1. /\ stage = "repair" /\ stage' = "validate" /\ ruled' = ruled /\ body' = lines /\ lines' = lines
      /\ charged' = charged /\ checked' = checked /\ absorbed' = absorbed /\ ending' = ending
  BY DEF Repaired, money
<1>2. /\ lines \in Seq(WrittenLine)
      /\ charged \in Nat /\ checked \in Nat /\ absorbed \in Nat /\ charged = absorbed
  BY <1>1 DEF CheckInv, TextTyped, CallsKept, Validating
<1>3. CallsKept'
  BY <1>1, <1>2 DEF CallsKept, Validating
<1>. QED  BY <1>1, <1>2, <1>3, RepairKeeps

\* A line of what is shown that the text had as well.
Stands(shown, i) ==
    /\ i \in Read(body) /\ i \notin FailingLines(ruled)
    /\ DOMAIN shown[i].says = DOMAIN body[i].says
    /\ \A p \in DOMAIN body[i].says : shown[i].says[p].fact = body[i].says[p].fact

\* What is shown at last is read where it was read before.
LEMMA ShownWasRead ==
    ASSUME PlacedIn(body, ruled), body \in Seq(WrittenLine), NEW shown,
           shown = Cleaned(WithoutFailing),
           NEW i \in Read(shown)
    PROVE  Stands(shown, i)
<1>. DEFINE W == WithoutFailing
            failing == FailingLines(ruled)
<1>1. DOMAIN body = 1..Len(body) /\ Len(body) \in Nat
      /\ \A j \in DOMAIN body : body[j] \in WrittenLine /\ body[j].says \in Seq(Saying)
      /\ Read(body) \subseteq DOMAIN body
  BY LinesAre
<1>2. DOMAIN W = DOMAIN body /\ \A j \in DOMAIN body : W[j] = IF j \in failing THEN Dropped(body[j]) ELSE body[j]
  BY DEF WithoutFailing
<1>3. failing \subseteq Read(body)
  BY DEF FailingLines, PlacedIn, Spotted
<1>. HIDE DEF W, failing
<1>. DEFINE off(j) == UNION {ruled[k].irrelevant :
                          k \in {x \in DOMAIN ruled : ruled[x].at[1] = j /\ IsSupported(ruled[x])}}
            less(j) == [W[j] EXCEPT !.says = [p \in DOMAIN W[j].says |->
                            [W[j].says[p] EXCEPT !.cites = @ \ off(j)]]]
<1>4. shown = [j \in DOMAIN W |-> less(j)]
  BY DEF Cleaned, W
<1>5. \A j \in DOMAIN body : W[j] \in WrittenLine
  BY <1>1, <1>2, LinesPut
<1>6. DOMAIN shown = DOMAIN body /\ \A j \in DOMAIN body : shown[j] = less(j)
  BY <1>2, <1>4
<1>7. ASSUME NEW j \in DOMAIN body
      PROVE  /\ shown[j].kind = W[j].kind /\ DOMAIN shown[j].says = DOMAIN W[j].says
             /\ \A p \in DOMAIN W[j].says : shown[j].says[p].fact = W[j].says[p].fact
  <2>. DEFINE said == [p \in DOMAIN W[j].says |-> [W[j].says[p] EXCEPT !.cites = @ \ off(j)]]
  <2>. HIDE DEF off
  <2>1. shown[j] = [W[j] EXCEPT !.says = said]
    BY <1>6
  <2>2. W[j] \in WrittenLine /\ W[j].says \in Seq(Saying)
    BY <1>5 DEF WrittenLine
  <2>3. DOMAIN said = DOMAIN W[j].says
    OBVIOUS
  <2>4. ASSUME NEW p \in DOMAIN W[j].says PROVE said[p].fact = W[j].says[p].fact
    <3>1. W[j].says[p] \in Saying
      BY <2>2
    <3>. QED  BY <3>1 DEF Saying
  <2>. HIDE DEF said
  <2>5. shown[j].kind = W[j].kind /\ shown[j].says = said
    BY <2>1, <2>2 DEF WrittenLine
  <2>. QED  BY <2>3, <2>4, <2>5
<1>. HIDE DEF off, less
<1>8. i \in DOMAIN body /\ shown[i].kind \notin {"notice", "blank", "fence"}
      /\ (shown[i].kind = "row" => InTable(shown, i))
  BY <1>6 DEF Read
<1>9. ASSUME NEW j \in DOMAIN body, j \in failing PROVE shown[j].kind \in {"notice", "blank"}
  BY <1>2, <1>7, <1>9 DEF Dropped, Notice, Blank
<1>10. i \notin failing /\ W[i] = body[i]
  BY <1>2, <1>8, <1>9
<1>11. shown[i].kind = body[i].kind
  BY <1>7, <1>8, <1>10
<1>12. body[i].kind = "row" => InTable(body, i)
  <2>. SUFFICES ASSUME body[i].kind = "row" PROVE InTable(body, i)
    OBVIOUS
  <2>1. PICK j \in 1..(i - 1) : /\ shown[j].kind = "row"
                                /\ \A k \in (j + 1)..(i - 1) : shown[k].kind \notin {"blank", "heading"}
    BY <1>8, <1>11 DEF InTable
  <2>2. j \in DOMAIN body /\ \A k \in (j + 1)..(i - 1) : k \in DOMAIN body
    BY <1>1, <1>8, <2>1
  <2>3. body[j].kind = "row"
    BY <1>2, <1>7, <1>9, <2>1, <2>2
  <2>4. ASSUME NEW k \in (j + 1)..(i - 1) PROVE body[k].kind \notin {"blank", "heading"}
    <3>1. k \in DOMAIN body /\ shown[k].kind \notin {"blank", "heading"}
      BY <2>1, <2>2
    <3>2. CASE k \in failing
      <4>1. body[k].kind # "blank"
        BY <1>3, <3>2 DEF Read
      <4>2. shown[k].kind = Dropped(body[k]).kind
        BY <1>2, <1>7, <3>1, <3>2
      <4>3. body[k].kind # "heading"
        BY <3>1, <4>2 DEF Dropped, Blank
      <4>. QED  BY <4>1, <4>3
    <3>3. CASE k \notin failing
      BY <1>2, <1>7, <3>1, <3>3
    <3>. QED  BY <3>2, <3>3
  <2>. QED  BY <2>1, <2>3, <2>4 DEF InTable
<1>13. i \in Read(body)
  BY <1>8, <1>11, <1>12 DEF Read
<1>. QED  BY <1>7, <1>8, <1>10, <1>13 DEF failing, Stands

\* ShownWasSupported of a text and the claims of it.
Supports(b, cs) ==
    \A i \in Read(b) : \A p \in DOMAIN b[i].says :
        \E k \in DOMAIN cs :
            /\ cs[k].at = <<i, p>> /\ cs[k].fact = b[i].says[p].fact
            /\ IsSupported(cs[k])
            /\ Valid(cs[k]) \ cs[k].irrelevant # {}

LEMMA FinishKeeps == ASSUME CheckInv, Finish PROVE CheckInv'
<1>1. /\ stage = "finish" /\ stage' = "done" /\ lines' = lines /\ ruled' = ruled /\ rejected' = rejected
      /\ charged' = charged /\ checked' = checked /\ absorbed' = absorbed
      /\ \/ ending' = "unmeasured" /\ body' = body
         \/ ending' = "complete" /\ body' = Cleaned(WithoutFailing)
         \/ ending' = "no_evidence" /\ body' = WithoutFailing
  BY DEF Finish, money
<1>2. /\ body \in Seq(WrittenLine) /\ lines \in Seq(WrittenLine) /\ ruled \in Seq(ClaimShape)
      /\ PlacedIn(body, ruled) /\ RuledOn(body, ruled, <<>>)
      /\ charged \in Nat /\ checked \in Nat /\ absorbed \in Nat /\ charged = absorbed
      /\ \A k \in DOMAIN ruled : IsSupported(ruled[k]) => Backed(ruled[k]) /\ ruled[k].fact \notin rejected
  BY <1>1 DEF CheckInv, TextTyped, TextRuled, VerdictsBacked, CallsKept, Validating
<1>3. CallsKept' /\ TextRuled' /\ QueueFits' /\ VerdictsBacked'
  BY <1>1, <1>2 DEF CallsKept, TextRuled, QueueFits, VerdictsBacked, Validating
<1>4. WithoutFailing \in Seq(WrittenLine)
  <2>1. DOMAIN body = 1..Len(body) /\ Len(body) \in Nat /\ \A i \in DOMAIN body : body[i] \in WrittenLine
    BY <1>2, LinesAre
  <2>2. \A i \in DOMAIN body : Dropped(body[i]) \in WrittenLine
    BY LinesPut
  <2>3. WithoutFailing \in [1..Len(body) -> WrittenLine]
    BY <2>1, <2>2 DEF WithoutFailing
  <2>. QED  BY <2>1, <2>3
<1>5. Cleaned(WithoutFailing) \in Seq(WrittenLine)
  <2>. DEFINE W == WithoutFailing
              off(i) == UNION {ruled[k].irrelevant :
                          k \in {x \in DOMAIN ruled : ruled[x].at[1] = i /\ IsSupported(ruled[x])}}
              said(i) == [p \in DOMAIN W[i].says |-> [W[i].says[p] EXCEPT !.cites = @ \ off(i)]]
  <2>1. Cleaned(W) = [i \in DOMAIN W |-> [W[i] EXCEPT !.says = said(i)]]
    BY DEF Cleaned
  <2>. HIDE DEF W, off
  <2>2. /\ DOMAIN W = 1..Len(W) /\ Len(W) \in Nat
        /\ \A i \in DOMAIN W : W[i] \in WrittenLine /\ W[i].says \in Seq(Saying)
    BY <1>4, LinesAre DEF W
  <2>3. ASSUME NEW i \in DOMAIN W PROVE [W[i] EXCEPT !.says = said(i)] \in WrittenLine
    <3>1. DOMAIN W[i].says = 1..Len(W[i].says) /\ Len(W[i].says) \in Nat
          /\ \A p \in DOMAIN W[i].says : W[i].says[p] \in Saying
      BY <2>2
    <3>2. \A p \in DOMAIN W[i].says : [W[i].says[p] EXCEPT !.cites = @ \ off(i)] \in Saying
      BY <3>1 DEF Saying
    <3>3. said(i) \in [1..Len(W[i].says) -> Saying]
      BY <3>1, <3>2
    <3>4. said(i) \in Seq(Saying)
      BY <3>1, <3>3
    <3>. HIDE DEF said
    <3>. QED  BY <2>2, <3>4 DEF WrittenLine
  <2>. HIDE DEF said
  <2>4. Cleaned(W) \in [1..Len(W) -> WrittenLine]
    BY <2>1, <2>2, <2>3
  <2>. QED  BY <2>2, <2>4 DEF W
<1>6. TextTyped'
  BY <1>1, <1>2, <1>4, <1>5 DEF TextTyped
<1>7. Ended'
  <2>. SUFFICES ASSUME ending' = "complete" PROVE (stage = "done" /\ ShownWasSupported /\ RejectedStaysOut)'
    BY DEF Ended
  <2>. PICK shown : shown = body'
    OBVIOUS
  <2>1. shown = Cleaned(WithoutFailing)
    BY <1>1
  <2>2. ASSUME NEW i \in Read(shown), NEW p \in DOMAIN shown[i].says
        PROVE  /\ \E k \in DOMAIN ruled :
                     /\ ruled[k].at = <<i, p>> /\ ruled[k].fact = shown[i].says[p].fact
                     /\ IsSupported(ruled[k]) /\ Valid(ruled[k]) \ ruled[k].irrelevant # {}
               /\ shown[i].says[p].fact \notin rejected
    <3>1. /\ i \in Read(body) /\ i \notin FailingLines(ruled)
          /\ DOMAIN shown[i].says = DOMAIN body[i].says
          /\ \A x \in DOMAIN body[i].says : shown[i].says[x].fact = body[i].says[x].fact
      <4>1. Stands(shown, i)
        BY <1>2, <2>1, ShownWasRead
      <4>. QED  BY <4>1 DEF Stands
    <3>2. PICK k \in DOMAIN ruled : ruled[k].at = <<i, p>>
      <4>1. DOMAIN <<>> = {}
        OBVIOUS
      <4>. QED  BY <1>2, <3>1, <4>1 DEF RuledOn
    <3>3. ruled[k].at[1] = i /\ ruled[k].at[2] = p
      BY <3>2
    <3>4. IsSupported(ruled[k])
      BY <3>1, <3>3 DEF FailingLines
    <3>5. ruled[k].fact = shown[i].says[p].fact
      BY <1>2, <3>1, <3>3 DEF PlacedIn
    <3>. QED  BY <1>2, <3>2, <3>4, <3>5 DEF Backed
  <2>3. RejectedStaysOut'
    BY <1>1, <2>2 DEF RejectedStaysOut
  <2>4. ShownWasSupported'
    <3>1. Supports(shown, ruled)
      BY <2>2 DEF Supports
    <3>2. Supports(body', ruled')
      BY <1>1, <3>1
    <3>. QED  BY <3>2, Zenon DEF ShownWasSupported, Supports
  <2>. QED  BY <1>1, <2>3, <2>4
<1>. QED  BY <1>3, <1>6, <1>7 DEF CheckInv

-----------------------------------------------------------------------------

LEMMA CheckStarts == GroundingInit => CheckInv
<1>. SUFFICES ASSUME NEW text \in Drafts, Begin(text) PROVE CheckInv
  BY DEF GroundingInit
<1>1. text \in Seq(WrittenLine)
  BY GroundingAssumption
<1>2. TextTyped
  BY <1>1 DEF Begin, TextTyped
<1>3. TextRuled /\ QueueFits /\ VerdictsBacked /\ CallsKept /\ Ended
  BY DEF Begin, TextRuled, QueueFits, VerdictsBacked, CallsKept, Ended, Validating
<1>. QED  BY <1>2, <1>3 DEF CheckInv

LEMMA CheckStep == CheckInv /\ [GroundingNext]_groundingVars => CheckInv'
<1>. SUFFICES ASSUME CheckInv, [GroundingNext]_groundingVars PROVE CheckInv'
  OBVIOUS
<1>1. CASE GroundingNext
  BY <1>1, PreflightKeeps, ValidateKeeps, DecomposeKeeps, CheckKeeps, VerifyClaimsKeeps, VerifiedKeeps,
     RelevantKeeps, RelatedKeeps, InferKeeps, JudgeKeeps, DropLineKeeps, RewriteKeeps, RepairedKeeps,
     FinishKeeps DEF GroundingNext
<1>2. CASE UNCHANGED groundingVars
  <2>1. /\ body' = body /\ lines' = lines /\ ruled' = ruled /\ rejected' = rejected /\ stage' = stage
        /\ queue' = queue /\ charged' = charged /\ checked' = checked /\ absorbed' = absorbed
        /\ ending' = ending
    BY <1>2 DEF groundingVars, money
  <2>2. TextTyped' /\ TextRuled' /\ CallsKept'
    BY <2>1 DEF CheckInv, TextTyped, TextRuled, CallsKept
  <2>3. QueueFits'
    BY <2>1 DEF CheckInv, QueueFits
  <2>4. VerdictsBacked'
    BY <2>1 DEF CheckInv, VerdictsBacked
  <2>5. Ended'
    BY <2>1 DEF CheckInv, Ended, ShownWasSupported, RejectedStaysOut
  <2>. QED  BY <2>2, <2>3, <2>4, <2>5 DEF CheckInv
<1>. QED  BY <1>1, <1>2

\* A complete report says nothing that was not found supported in this very text,
\* each claim by a citation judged to bear on it: through any number of rounds of
\* rewriting, and whatever the model answers (ground, _drop_non_supporting).
THEOREM ClaimsAreSupported == GroundingSpec => []ShownWasSupported
<1>1. CheckInv => ShownWasSupported
  BY DEF CheckInv, Ended, ShownWasSupported
<1>. QED  BY <1>1, CheckStarts, CheckStep, PTL DEF GroundingSpec

\* A claim rejected in one round does not come back in another's words
\* (ground, rejected_norms).
THEOREM RejectionsStand == GroundingSpec => []RejectedStaysOut
<1>1. CheckInv => RejectedStaysOut
  BY DEF CheckInv, Ended, RejectedStaysOut
<1>. QED  BY <1>1, CheckStarts, CheckStep, PTL DEF GroundingSpec

\* Every call the run was charged for is in the cost the report hands back, on
\* each way the check can end (ValidationResult.absorb).
THEOREM CostsAddUp == GroundingSpec => []CostAccounted
<1>1. CheckInv => CostAccounted
  BY DEF CheckInv, TextTyped, CallsKept, CostAccounted, Validating
<1>. QED  BY <1>1, CheckStarts, CheckStep, PTL DEF GroundingSpec

-----------------------------------------------------------------------------
(* EvidenceLedger: what a write leaves *)

Items == [url : Urls, text : Texts]
SourceRows == [url : Urls, norm : Range(Norm), index : Nat]
EvidenceRows == [source : Nat, text : Texts, sequence : Nat]

\* The numbering has the addresses of the list and no others.
Numbered(numbered, list) ==
    /\ numbered \in Seq(Urls)
    /\ \A i \in DOMAIN list : \E k \in DOMAIN numbered : numbered[k] = list[i].url
    /\ \A k \in DOMAIN numbered : \E i \in DOMAIN list : numbered[k] = list[i].url

LEMMA NumberingHas ==
    ASSUME NEW list \in Seq(Items), NEW numbered, numbered = Numbering(list)
    PROVE  Numbered(numbered, list)
<1>. DEFINE L == Len(list)
            ss == [i \in DOMAIN list |->
                     IF \E j \in 1 .. i - 1 : list[j].url = list[i].url THEN <<>> ELSE <<list[i].url>>]
<1>1. L \in Nat /\ DOMAIN list = 1..L /\ \A i \in 1..L : list[i].url \in Urls
  <2>1. L \in Nat /\ DOMAIN list = 1..L /\ \A i \in 1..L : list[i] \in Items
    OBVIOUS
  <2>2. \A x \in Items : x.url \in Urls
    BY DEF Items
  <2>. QED  BY <2>1, <2>2
<1>2. /\ ss = [i \in 1..L |-> ss[i]]
      /\ \A i \in 1..L : ss[i] = IF \E j \in 1 .. i - 1 : list[j].url = list[i].url
                                 THEN <<>> ELSE <<list[i].url>>
  BY <1>1
<1>3. numbered = FlattenSeq(ss)
  BY DEF Numbering
<1>. HIDE DEF ss, L
<1>4. ss \in [1..L -> Seq(Urls)]
  <2>1. \A i \in 1..L : <<list[i].url>> \in Seq(Urls) /\ <<>> \in Seq(Urls)
    BY <1>1
  <2>2. \A i \in 1..L : ss[i] \in Seq(Urls)
    BY <1>2, <2>1
  <2>. QED  BY <1>2, <2>2
<1>5. numbered \in Seq(Urls) /\ HoldsAll(numbered, ss, L)
  BY <1>1, <1>3, <1>4, Flattened
<1>6. ASSUME NEW i \in 1..L, NEW m \in DOMAIN ss[i] PROVE ss[i][m] = list[i].url
  <2>1. ss[i] = <<>> \/ ss[i] = <<list[i].url>>
    BY <1>2
  <2>2. ss[i] # <<>>
    OBVIOUS
  <2>3. m \in DOMAIN <<list[i].url>>
    BY <2>1, <2>2
  <2>4. m = 1
    BY <2>3
  <2>. QED  BY <2>1, <2>2, <2>4
<1>7. ASSUME NEW k \in DOMAIN numbered PROVE \E i \in DOMAIN list : numbered[k] = list[i].url
  <2>1. PICK i \in 1..L : \E m \in DOMAIN ss[i] : numbered[k] = ss[i][m]
    BY <1>5 DEF HoldsAll
  <2>. QED  BY <1>1, <1>6, <2>1
<1>8. ASSUME NEW i \in DOMAIN list PROVE \E k \in DOMAIN numbered : numbered[k] = list[i].url
  <2>. DEFINE S == {j \in 1..L : list[j].url = list[i].url}
  <2>1. i \in S /\ S \subseteq Nat
    BY <1>1
  <2>2. PICK m \in S : \A j \in S : m <= j
    BY <2>1, LeastMember
  <2>3. m \in 1..L /\ list[m].url = list[i].url
    BY <2>2
  <2>4. ~ \E j \in 1 .. m - 1 : list[j].url = list[m].url
    <3>1. ASSUME NEW j \in 1 .. m - 1, list[j].url = list[m].url PROVE FALSE
      <4>1. j \in 1..L /\ j < m
        BY <1>1, <2>3
      <4>2. j \in S
        BY <2>3, <3>1, <4>1
      <4>. QED  BY <1>1, <2>2, <2>3, <4>1, <4>2
    <3>. QED  BY <3>1
  <2>5. ss[m] = <<list[m].url>>
    BY <1>2, <2>3, <2>4
  <2>6. 1 \in DOMAIN ss[m] /\ ss[m][1] = list[i].url
    BY <2>3, <2>5
  <2>. QED  BY <1>5, <2>3, <2>6 DEF HoldsAll
<1>. QED  BY <1>5, <1>7, <1>8 DEF Numbered

\* A number a source is given leads to an address of its normal form.
LEMMA IndexIs ==
    ASSUME NEW numbered \in Seq(Urls), NEW norm, \E k \in DOMAIN numbered : Norm[numbered[k]] = norm
    PROVE  /\ IndexOf(numbered, norm) \in DOMAIN numbered
           /\ IndexOf(numbered, norm) \in Nat
           /\ Norm[numbered[IndexOf(numbered, norm)]] = norm
<1>. DEFINE S == {k \in DOMAIN numbered : Norm[numbered[k]] = norm}
<1>1. S \subseteq Nat /\ S # {} /\ Len(numbered) \in Nat /\ \A n \in S : n <= Len(numbered)
  OBVIOUS
<1>2. Max(S) \in S
  <2>. HIDE DEF S
  <2>. QED  BY <1>1, MaxIs
<1>. QED  BY <1>1, <1>2 DEF IndexOf

\* Where a normal form is found, or that it is not there.
FoundAt(s, table, norm) ==
    \/ s = 0 /\ \A k \in DOMAIN table : table[k].norm # norm
    \/ s \in DOMAIN table /\ s # 0 /\ table[s].norm = norm

LEMMA SourceFound ==
    ASSUME NEW table \in Seq(SourceRows), NEW norm, NEW s, s = SourceOf(table, norm)
    PROVE  FoundAt(s, table, norm)
<1>. DEFINE hits == {k \in DOMAIN table : table[k].norm = norm}
<1>1. hits \subseteq Nat /\ DOMAIN table = 1..Len(table) /\ Len(table) \in Nat
  OBVIOUS
<1>2. s = IF hits = {} THEN 0 ELSE Min(hits)
  BY DEF SourceOf
<1>3. CASE hits = {}
  BY <1>2, <1>3 DEF FoundAt
<1>4. CASE hits # {}
  <2>1. s \in hits
    <3>. HIDE DEF hits
    <3>. QED  BY <1>1, <1>2, <1>4, MinIs
  <2>. QED  BY <1>1, <2>1 DEF FoundAt
<1>. QED  BY <1>3, <1>4

\* The sources of the first n items, each normal form once and under its number.
SourcesOf(table, list, n, numbered) ==
    /\ table \in Seq(SourceRows)
    /\ \A s \in DOMAIN table :
         /\ \E i \in 1..n : table[s].url = list[i].url
         /\ table[s].norm = Norm[table[s].url]
         /\ table[s].index = IndexOf(numbered, table[s].norm)
    /\ \A s, u \in DOMAIN table : table[s].norm = table[u].norm => s = u

\* The first n items, a row for each, in their order.
RowsOf(rows, table, list, n) ==
    /\ rows \in Seq(EvidenceRows) /\ Len(rows) = n
    /\ \A r \in 1..n :
         /\ rows[r].source \in DOMAIN table /\ table[rows[r].source].norm = Norm[list[r].url]
         /\ rows[r].text = list[r].text /\ rows[r].sequence = r

Holding(table, rows, list, n, numbered) ==
    SourcesOf(table, list, n, numbered) /\ RowsOf(rows, table, list, n)

\* t is table with what it had at its places.
Keeps(t, table) == \A k \in DOMAIN table : k \in DOMAIN t /\ t[k] = table[k]

LEMMA SourceAdded ==
    ASSUME NEW list \in Seq(Items), NEW numbered, Numbered(numbered, list),
           NEW n \in Nat, n < Len(list), NEW table, SourcesOf(table, list, n, numbered),
           NEW e, e = list[n + 1], NEW t, t = WithSource(table, e.url, numbered),
           NEW s, s = SourceOf(t, Norm[e.url])
    PROVE  /\ SourcesOf(t, list, n + 1, numbered) /\ Keeps(t, table)
           /\ s \in DOMAIN t /\ s \in Nat /\ t[s].norm = Norm[e.url]
<1>0. e \in Items /\ n + 1 \in DOMAIN list /\ e.url \in Urls /\ DOMAIN Norm = Urls
  <2>1. e \in Items /\ n + 1 \in DOMAIN list
    OBVIOUS
  <2>2. \A x \in Items : x.url \in Urls
    BY DEF Items
  <2>. QED  BY <2>1, <2>2, LedgerAssumption
<1>1. PICK norm : norm = Norm[e.url]
  OBVIOUS
<1>2. norm \in Range(Norm)
  BY <1>0, <1>1 DEF Range
<1>3. table \in Seq(SourceRows) /\ DOMAIN table = 1..Len(table) /\ Len(table) \in Nat
  BY DEF SourcesOf
<1>4. PICK p : p = SourceOf(table, norm)
  OBVIOUS
<1>5. FoundAt(p, table, norm)
  BY <1>3, <1>4, SourceFound
<1>6. t = IF p # 0 THEN table
          ELSE Append(table, [url |-> e.url, norm |-> norm, index |-> IndexOf(numbered, norm)])
  BY <1>1, <1>4 DEF WithSource
<1>7. CASE p # 0
  <2>1. t = table
    BY <1>6, <1>7
  <2>2. s = p /\ p \in DOMAIN table /\ table[p].norm = norm
    BY <1>1, <1>4, <1>5, <1>7, <2>1 DEF FoundAt
  <2>3. ASSUME NEW k \in DOMAIN table PROVE \E i \in 1..(n + 1) : table[k].url = list[i].url
    <3>1. PICK i \in 1..n : table[k].url = list[i].url
      BY DEF SourcesOf
    <3>. QED  BY <3>1
  <2>4. SourcesOf(table, list, n + 1, numbered)
    BY <2>3 DEF SourcesOf
  <2>. QED  BY <1>1, <1>3, <2>1, <2>2, <2>4 DEF Keeps
<1>8. CASE p = 0
  <2>1. PICK x : x = [url |-> e.url, norm |-> norm, index |-> IndexOf(numbered, norm)]
    OBVIOUS
  <2>2. t = Append(table, x)
    BY <1>6, <1>8, <2>1
  <2>3. \E k \in DOMAIN numbered : Norm[numbered[k]] = norm
    <3>1. PICK k \in DOMAIN numbered : numbered[k] = list[n + 1].url
      BY <1>0 DEF Numbered
    <3>. QED  BY <1>1, <3>1
  <2>4. IndexOf(numbered, norm) \in Nat
    BY <2>3, IndexIs DEF Numbered
  <2>5. x \in SourceRows
    BY <1>0, <1>2, <2>1, <2>4 DEF SourceRows
  <2>6. /\ t \in Seq(SourceRows) /\ Len(t) = Len(table) + 1 /\ t[Len(table) + 1] = x
        /\ DOMAIN t = 1..(Len(table) + 1)
        /\ \A k \in DOMAIN table : k \in DOMAIN t /\ t[k] = table[k]
        /\ \A k \in DOMAIN t : k \in DOMAIN table \/ k = Len(table) + 1
    BY <1>3, <2>2, <2>5
  <2>7. \A k \in DOMAIN table : table[k].norm # norm
    BY <1>3, <1>5, <1>8 DEF FoundAt
  <2>8. ASSUME NEW k \in DOMAIN t
        PROVE  /\ \E i \in 1..(n + 1) : t[k].url = list[i].url
               /\ t[k].norm = Norm[t[k].url] /\ t[k].index = IndexOf(numbered, t[k].norm)
    <3>1. CASE k \in DOMAIN table
      <4>1. t[k] = table[k]
        BY <2>6, <3>1
      <4>2. PICK i \in 1..n : table[k].url = list[i].url
        BY <3>1 DEF SourcesOf
      <4>3. i \in 1..(n + 1)
        BY <4>2
      <4>4. table[k].norm = Norm[table[k].url] /\ table[k].index = IndexOf(numbered, table[k].norm)
        BY <3>1 DEF SourcesOf
      <4>. QED  BY <4>1, <4>2, <4>3, <4>4
    <3>2. CASE k = Len(table) + 1
      <4>1. t[k] = x /\ x.url = e.url /\ x.norm = norm /\ x.index = IndexOf(numbered, norm)
        BY <2>1, <2>6, <3>2
      <4>2. n + 1 \in 1..(n + 1)
        OBVIOUS
      <4>. QED  BY <1>1, <4>1, <4>2
    <3>. QED  BY <2>6, <3>1, <3>2
  <2>9. ASSUME NEW k \in DOMAIN t, NEW u \in DOMAIN t, t[k].norm = t[u].norm PROVE k = u
    <3>1. x.norm = norm
      BY <2>1
    <3>2. CASE k \in DOMAIN table /\ u \in DOMAIN table
      <4>1. t[k] = table[k] /\ t[u] = table[u]
        BY <2>6, <3>2
      <4>. QED  BY <2>9, <3>2, <4>1 DEF SourcesOf
    <3>3. CASE k \in DOMAIN table /\ u = Len(table) + 1
      BY <2>6, <2>7, <2>9, <3>1, <3>3
    <3>4. CASE u \in DOMAIN table /\ k = Len(table) + 1
      BY <2>6, <2>7, <2>9, <3>1, <3>4
    <3>5. CASE k = Len(table) + 1 /\ u = Len(table) + 1
      BY <3>5
    <3>. QED  BY <2>6, <3>2, <3>3, <3>4, <3>5
  <2>10. SourcesOf(t, list, n + 1, numbered)
    BY <2>6, <2>8, <2>9 DEF SourcesOf
  <2>11. FoundAt(s, t, norm)
    BY <1>1, <2>6, SourceFound
  <2>12. Len(table) + 1 \in DOMAIN t /\ t[Len(table) + 1].norm = norm
    BY <1>3, <2>1, <2>6
  <2>. QED  BY <1>1, <2>6, <2>10, <2>11, <2>12 DEF FoundAt, Keeps
<1>. QED  BY <1>7, <1>8

-----------------------------------------------------------------------------
(* EvidenceLedger: the items one after the other *)

Begun == [sources |-> sources, evidence |-> evidence, free |-> DOMAIN evidence,
          base |-> LastSequence, inserted |-> 0, taken |-> <<>>]

\* w[n] is the write after n items of the list.
Steps(w, list, numbered) ==
    /\ w[0] = Begun
    /\ \A n \in 1..Len(list) : w[n] = StoreItem(w[n - 1], list[n], numbered)
    /\ Stored(list, numbered) = w[Len(list)]

LEMMA StoredStepwise ==
    ASSUME NEW list \in Seq(Items), NEW numbered
    PROVE  \E w : Steps(w, list, numbered)
<1>. DEFINE Nth(f, i) == IF i = 0 THEN Begun ELSE StoreItem(f[i - 1], list[i], numbered)
            Good(f, n) == \A i \in 0..n : f[i] = Nth(f, i)
            L == Len(list)
            Reach == {n \in Nat : n <= L => \E f : f = [i \in 0..n |-> f[i]] /\ Good(f, n)}
<1>1. 0 \in Reach
  <2>. DEFINE e == [i \in 0..0 |-> Begun]
  <2>1. e = [i \in 0..0 |-> e[i]] /\ \A i \in 0..0 : e[i] = Nth(e, i)
    <3>. HIDE DEF Begun
    <3>. QED  OBVIOUS
  <2>. HIDE DEF e
  <2>. QED  BY <2>1
<1>2. ASSUME NEW n \in Nat, n \in Reach PROVE n + 1 \in Reach
  <2>. SUFFICES ASSUME n + 1 <= L
       PROVE \E f : f = [i \in 0..(n + 1) |-> f[i]] /\ Good(f, n + 1)
    OBVIOUS
  <2>1. PICK f : f = [i \in 0..n |-> f[i]] /\ Good(f, n)
    BY <1>2
  <2>. DEFINE g == [i \in 0..(n + 1) |-> IF i <= n THEN f[i] ELSE Nth(f, n + 1)]
  <2>2. \A i \in 0..n : g[i] = f[i]
    OBVIOUS
  <2>3. g[n + 1] = Nth(f, n + 1)
    OBVIOUS
  <2>4. g = [i \in 0..(n + 1) |-> g[i]]
    OBVIOUS
  <2>. HIDE DEF g
  <2>5. Good(g, n + 1)
    <3>. SUFFICES ASSUME NEW i \in 0..(n + 1) PROVE g[i] = Nth(g, i)
      OBVIOUS
    <3>1. CASE i <= n
      <4>1. i \in 0..n /\ (i # 0 => i - 1 \in 0..n)
        BY <3>1
      <4>. QED  BY <2>1, <2>2, <4>1
    <3>2. CASE i = n + 1
      <4>1. i # 0 /\ i - 1 \in 0..n /\ i - 1 = n
        BY <3>2
      <4>. QED  BY <2>2, <2>3, <3>2, <4>1
    <3>. QED  BY <3>1, <3>2
  <2>. QED  BY <2>4, <2>5
<1>3. Nat \subseteq Reach
  <2>. HIDE DEF Reach
  <2>. QED  BY <1>1, <1>2, Counting
<1>0. L \in Nat
  OBVIOUS
<1>4. PICK f : f = [i \in 0..L |-> f[i]] /\ Good(f, L)
  <2>1. L \in Reach
    <3>. HIDE DEF Reach, L
    <3>. QED  BY <1>0, <1>3
  <2>. QED  BY <2>1
<1>5. f = [i \in 0..L |-> Nth(f, i)]
  <2>1. \A i \in 0..L : f[i] = Nth(f, i)
    BY <1>4
  <2>. HIDE DEF Nth
  <2>. QED  BY <1>4, <2>1
<1>. DEFINE h == CHOOSE g : g = [i \in 0..L |-> IF i = 0 THEN Begun ELSE StoreItem(g[i - 1], list[i], numbered)]
<1>6. h = [i \in 0..L |-> IF i = 0 THEN Begun ELSE StoreItem(h[i - 1], list[i], numbered)]
  BY <1>5
<1>7. Stored(list, numbered) = h[L]
  BY DEF Stored, Begun
<1>. HIDE DEF h
<1>8. h[0] = Begun
  <2>1. 0 \in 0..L
    BY <1>0
  <2>. HIDE DEF L
  <2>. QED  BY <1>6, <2>1
<1>9. ASSUME NEW n \in 1..L PROVE h[n] = StoreItem(h[n - 1], list[n], numbered)
  <2>1. n \in 0..L /\ n # 0
    BY <1>0
  <2>. HIDE DEF L
  <2>. QED  BY <1>6, <2>1
<1>10. Steps(h, list, numbered)
  BY <1>7, <1>8, <1>9 DEF Steps
<1>. QED  BY <1>10

WriteFields == {"sources", "evidence", "free", "base", "inserted", "taken"}

\* The rows in the order of the list.
RowByRow(taken, n) == taken \in Seq(Nat) /\ Len(taken) = n /\ \A i \in 1..n : taken[i] = i

LEMMA RowByRowAppend ==
    ASSUME NEW n \in Nat, NEW taken, RowByRow(taken, n)
    PROVE  RowByRow(Append(taken, n + 1), n + 1)
<1>1. PICK u : u = Append(taken, n + 1)
  OBVIOUS
<1>2. /\ u \in Seq(Nat) /\ Len(u) = n + 1 /\ u[n + 1] = n + 1
      /\ \A i \in 1..n : u[i] = taken[i]
  BY <1>1 DEF RowByRow
<1>3. \A i \in 1..(n + 1) : u[i] = i
  <2>1. \A i \in 1..(n + 1) : i \in 1..n \/ i = n + 1
    OBVIOUS
  <2>. QED  BY <1>2, <2>1 DEF RowByRow
<1>. QED  BY <1>1, <1>2, <1>3 DEF RowByRow

\* One item: v is w with a new row, or with the oldest row of the item used.
Stores(v, w, t, s, text, same) ==
    /\ DOMAIN v = WriteFields /\ v.sources = t /\ v.base = w.base
    /\ same = {} =>
         /\ v.evidence = Append(w.evidence, [source |-> s, text |-> text,
                                             sequence |-> w.base + w.inserted + 1])
         /\ v.inserted = w.inserted + 1
         /\ v.free = w.free \ {Len(w.evidence) + 1}
         /\ v.taken = Append(w.taken, Len(w.evidence) + 1)
    /\ same # {} =>
         /\ v.evidence = w.evidence
         /\ v.free = w.free \ {Min(same)}
         /\ v.taken = Append(w.taken, Min(same))

LEMMA ItemStored ==
    ASSUME NEW w, DOMAIN w = WriteFields, NEW e, NEW numbered,
           NEW t, t = WithSource(w.sources, e.url, numbered),
           NEW s, s = SourceOf(t, Norm[e.url]),
           NEW same, same = Unpaired(w, s, e.text),
           NEW v, v = StoreItem(w, e, numbered)
    PROVE  Stores(v, w, t, s, e.text, same)
<1>1. PICK x, row : /\ x = [source |-> s, text |-> e.text, sequence |-> w.base + w.inserted + 1]
                    /\ row = IF same # {} THEN Min(same) ELSE Len(w.evidence) + 1
  OBVIOUS
<1>2. v = [w EXCEPT !.sources = t,
                    !.evidence = IF same # {} THEN @ ELSE Append(@, x),
                    !.inserted = IF same # {} THEN @ ELSE @ + 1,
                    !.free = @ \ {row},
                    !.taken = Append(@, row)]
  BY <1>1 DEF StoreItem
<1>3. /\ DOMAIN v = WriteFields /\ v.sources = t /\ v.base = w.base
      /\ v.evidence = IF same # {} THEN w.evidence ELSE Append(w.evidence, x)
      /\ v.inserted = IF same # {} THEN w.inserted ELSE w.inserted + 1
      /\ v.free = w.free \ {row}
      /\ v.taken = Append(w.taken, row)
  BY <1>2 DEF WriteFields
<1>. QED  BY <1>1, <1>3 DEF Stores

\* A list written into empty tables: every item so far has the next row.
Grown(w, list, n, numbered) ==
    /\ DOMAIN w = WriteFields
    /\ Holding(w.sources, w.evidence, list, n, numbered)
    /\ w.free = {} /\ w.base = 0 /\ w.inserted = n
    /\ RowByRow(w.taken, n)

LEMMA StepGrows ==
    ASSUME NEW list \in Seq(Items), NEW numbered, Numbered(numbered, list),
           NEW n \in Nat, n < Len(list), NEW w, Grown(w, list, n, numbered),
           NEW v, v = StoreItem(w, list[n + 1], numbered)
    PROVE  Grown(v, list, n + 1, numbered)
<1>1. PICK e, table, rows : e = list[n + 1] /\ table = w.sources /\ rows = w.evidence
  OBVIOUS
<1>2. PICK t : t = WithSource(table, e.url, numbered)
  OBVIOUS
<1>3. PICK s : s = SourceOf(t, Norm[e.url])
  OBVIOUS
<1>4. /\ SourcesOf(table, list, n, numbered) /\ RowsOf(rows, table, list, n)
      /\ DOMAIN w = WriteFields /\ w.free = {} /\ w.base = 0 /\ w.inserted = n /\ RowByRow(w.taken, n)
  BY <1>1 DEF Grown, Holding
<1>5. /\ SourcesOf(t, list, n + 1, numbered) /\ Keeps(t, table)
      /\ s \in DOMAIN t /\ s \in Nat /\ t[s].norm = Norm[e.url]
  BY <1>1, <1>2, <1>3, <1>4, SourceAdded
<1>6. PICK same : same = Unpaired(w, s, e.text)
  OBVIOUS
<1>7. same = {}
  BY <1>4, <1>6 DEF Unpaired
<1>8. PICK x : x = [source |-> s, text |-> e.text, sequence |-> n + 1]
  OBVIOUS
<1>9. Len(rows) = n /\ rows \in Seq(EvidenceRows)
  BY <1>4 DEF RowsOf
<1>10. /\ DOMAIN v = WriteFields /\ v.sources = t /\ v.base = w.base
       /\ v.evidence = Append(rows, [source |-> s, text |-> e.text,
                                     sequence |-> w.base + w.inserted + 1])
       /\ v.inserted = w.inserted + 1
       /\ v.free = w.free \ {Len(rows) + 1}
       /\ v.taken = Append(w.taken, Len(rows) + 1)
  <2>1. t = WithSource(w.sources, e.url, numbered) /\ v = StoreItem(w, e, numbered)
    BY <1>1, <1>2
  <2>2. Stores(v, w, t, s, e.text, same)
    BY <1>3, <1>4, <1>6, <2>1, ItemStored
  <2>. QED  BY <1>1, <1>7, <2>2 DEF Stores
<1>11. w.base + w.inserted + 1 = n + 1
  BY <1>4
<1>12. /\ v.evidence = Append(rows, x) /\ v.inserted = n + 1 /\ v.base = 0 /\ v.free = {}
       /\ v.taken = Append(w.taken, n + 1)
  BY <1>4, <1>8, <1>9, <1>10, <1>11
<1>13. RowByRow(v.taken, n + 1)
  BY <1>4, <1>12, RowByRowAppend
<1>14. e \in Items
  BY <1>1
<1>15. x \in EvidenceRows
  BY <1>5, <1>8, <1>14 DEF EvidenceRows, Items
<1>16. PICK u : u = Append(rows, x)
  OBVIOUS
<1>17. /\ u \in Seq(EvidenceRows) /\ Len(u) = n + 1 /\ u[n + 1] = x
       /\ \A r \in 1..n : u[r] = rows[r]
  BY <1>9, <1>15, <1>16
<1>18. ASSUME NEW r \in 1..(n + 1)
       PROVE  /\ u[r].source \in DOMAIN t /\ t[u[r].source].norm = Norm[list[r].url]
              /\ u[r].text = list[r].text /\ u[r].sequence = r
  <2>1. CASE r \in 1..n
    <3>1. u[r] = rows[r]
      BY <1>17, <2>1
    <3>2. /\ rows[r].source \in DOMAIN table /\ table[rows[r].source].norm = Norm[list[r].url]
          /\ rows[r].text = list[r].text /\ rows[r].sequence = r
      BY <1>4, <2>1 DEF RowsOf
    <3>3. rows[r].source \in DOMAIN t /\ t[rows[r].source] = table[rows[r].source]
      BY <1>5, <3>2 DEF Keeps
    <3>. QED  BY <3>1, <3>2, <3>3
  <2>2. CASE r = n + 1
    <3>1. u[r] = x /\ x.source = s /\ x.text = e.text /\ x.sequence = n + 1
      BY <1>8, <1>17, <2>2
    <3>. QED  BY <1>1, <1>5, <2>2, <3>1
  <2>3. r \in 1..n \/ r = n + 1
    OBVIOUS
  <2>. QED  BY <2>1, <2>2, <2>3
<1>19. RowsOf(u, t, list, n + 1)
  BY <1>17, <1>18 DEF RowsOf
<1>20. Holding(v.sources, v.evidence, list, n + 1, numbered)
  BY <1>5, <1>10, <1>12, <1>16, <1>19 DEF Holding
<1>. QED  BY <1>10, <1>12, <1>13, <1>20 DEF Grown

\* The list written again: every item so far has found its own row.
Matched(w, table, rows, list, n) ==
    /\ DOMAIN w = WriteFields
    /\ w.sources = table /\ w.evidence = rows /\ w.free = (n + 1)..Len(list)
    /\ RowByRow(w.taken, n)

LEMMA StepMatches ==
    ASSUME NEW list \in Seq(Items), NEW numbered,
           NEW table, NEW rows, Holding(table, rows, list, Len(list), numbered),
           NEW n \in Nat, n < Len(list), NEW w, Matched(w, table, rows, list, n),
           NEW v, v = StoreItem(w, list[n + 1], numbered)
    PROVE  Matched(v, table, rows, list, n + 1)
<1>1. PICK e, L : e = list[n + 1] /\ L = Len(list)
  OBVIOUS
<1>2. PICK s : s = SourceOf(table, Norm[e.url])
  OBVIOUS
<1>3. n + 1 \in 1..L /\ L \in Nat
  BY <1>1
<1>4. /\ rows[n + 1].source \in DOMAIN table /\ table[rows[n + 1].source].norm = Norm[e.url]
      /\ rows[n + 1].text = e.text
  BY <1>1, <1>3 DEF Holding, RowsOf
<1>5. table \in Seq(SourceRows) /\ \A a, b \in DOMAIN table : table[a].norm = table[b].norm => a = b
  BY DEF Holding, SourcesOf
<1>6. FoundAt(s, table, Norm[e.url])
  BY <1>2, <1>5, SourceFound
<1>7. s = rows[n + 1].source /\ s # 0
  BY <1>4, <1>5, <1>6 DEF FoundAt
<1>8. /\ DOMAIN w = WriteFields /\ w.sources = table /\ w.evidence = rows /\ w.free = (n + 1)..L
      /\ RowByRow(w.taken, n)
  BY <1>1 DEF Matched
<1>9. WithSource(table, e.url, numbered) = table
  BY <1>2, <1>7 DEF WithSource
<1>10. PICK same : same = Unpaired(w, s, e.text)
  OBVIOUS
<1>11. same = {r \in (n + 1)..L : rows[r].source = s /\ rows[r].text = e.text}
  BY <1>8, <1>10 DEF Unpaired
<1>12. n + 1 \in same /\ same \subseteq Nat /\ \A r \in same : n + 1 <= r
  BY <1>3, <1>4, <1>7, <1>11
<1>13. Min(same) = n + 1
  <2>1. Min(same) \in same /\ \A r \in same : Min(same) <= r
    BY <1>12, MinIs
  <2>2. n + 1 <= Min(same) /\ Min(same) <= n + 1 /\ Min(same) \in Nat
    BY <1>12, <2>1
  <2>. QED  BY <2>2
<1>14. /\ DOMAIN v = WriteFields /\ v.sources = table
       /\ v.evidence = rows /\ v.free = w.free \ {n + 1} /\ v.taken = Append(w.taken, n + 1)
  <2>1. same # {}
    BY <1>12
  <2>2. w.sources = table
    BY <1>8
  <2>3. table = WithSource(w.sources, e.url, numbered) /\ s = SourceOf(table, Norm[e.url])
    BY <1>2, <1>9, <2>2
  <2>4. v = StoreItem(w, e, numbered)
    BY <1>1
  <2>5. Stores(v, w, table, s, e.text, same)
    BY <1>8, <1>10, <2>3, <2>4, ItemStored
  <2>. QED  BY <1>8, <1>13, <2>1, <2>5 DEF Stores
<1>15. v.free = (n + 2)..L /\ (n + 1) + 1 = n + 2
  BY <1>3, <1>8, <1>14
<1>16. RowByRow(v.taken, n + 1)
  BY <1>8, <1>14, RowByRowAppend
<1>. QED  BY <1>1, <1>14, <1>15, <1>16 DEF Matched

\* What a write of the list leaves, into empty tables or over its own rows.
Written(w, list, numbered) ==
    /\ Holding(w.sources, w.evidence, list, Len(list), numbered)
    /\ RowByRow(w.taken, Len(list))

LEMMA FirstWrite ==
    ASSUME NEW list \in Seq(Items), NEW numbered, Numbered(numbered, list),
           sources = <<>>, evidence = <<>>, NEW v, v = Stored(list, numbered)
    PROVE  Written(v, list, numbered)
<1>1. PICK w : Steps(w, list, numbered)
  BY StoredStepwise
<1>. DEFINE L == Len(list)
            Good == {n \in Nat : n \in 0..L => Grown(w[n], list, n, numbered)}
<1>2. LastSequence = 0
  <2>1. {0} \cup {evidence[r].sequence : r \in DOMAIN evidence} = {0}
    OBVIOUS
  <2>2. Max({0}) = 0
    BY DEF Max
  <2>. QED  BY <2>1, <2>2 DEF LastSequence
<1>3. Grown(w[0], list, 0, numbered)
  <2>1. PICK b : b = Begun
    OBVIOUS
  <2>2. /\ DOMAIN b = WriteFields /\ b.sources = <<>> /\ b.evidence = <<>> /\ b.free = {} /\ b.base = 0
        /\ b.inserted = 0 /\ b.taken = <<>>
    <3>1. DOMAIN evidence = {}
      OBVIOUS
    <3>. QED  BY <1>2, <2>1, <3>1 DEF Begun, WriteFields
  <2>3. RowByRow(<<>>, 0)
    BY DEF RowByRow
  <2>4. Holding(<<>>, <<>>, list, 0, numbered)
    BY DEF Holding, SourcesOf, RowsOf
  <2>5. Grown(b, list, 0, numbered)
    BY <2>2, <2>3, <2>4 DEF Grown
  <2>. QED  BY <1>1, <2>1, <2>5 DEF Steps
<1>4. 0 \in Good
  BY <1>3
<1>5. ASSUME NEW n \in Nat, n \in Good PROVE n + 1 \in Good
  <2>. SUFFICES ASSUME n + 1 <= L PROVE Grown(w[n + 1], list, n + 1, numbered)
    OBVIOUS
  <2>1. n + 1 \in 1..L /\ (n + 1) - 1 = n /\ n < Len(list) /\ n \in 0..L
    OBVIOUS
  <2>2. w[n + 1] = StoreItem(w[(n + 1) - 1], list[n + 1], numbered)
    BY <1>1, <2>1 DEF Steps
  <2>3. PICK x, y : x = w[n] /\ y = w[n + 1]
    OBVIOUS
  <2>4. Grown(x, list, n, numbered)
    BY <1>5, <2>1, <2>3
  <2>5. y = StoreItem(x, list[n + 1], numbered)
    BY <2>1, <2>2, <2>3
  <2>6. Grown(y, list, n + 1, numbered)
    BY <2>1, <2>4, <2>5, StepGrows
  <2>. QED  BY <2>3, <2>6
<1>6. Nat \subseteq Good
  <2>. HIDE DEF Good
  <2>. QED  BY <1>4, <1>5, Counting
<1>7. L \in Nat /\ L \in 0..L
  OBVIOUS
<1>8. Grown(w[L], list, L, numbered)
  <2>1. L \in Good
    <3>. HIDE DEF Good, L
    <3>. QED  BY <1>6, <1>7
  <2>. QED  BY <1>7, <2>1
<1>9. v = w[L]
  BY <1>1 DEF Steps
<1>. QED  BY <1>8, <1>9 DEF Written, Grown

LEMMA NextWrite ==
    ASSUME NEW list \in Seq(Items), NEW numbered,
           Holding(sources, evidence, list, Len(list), numbered), NEW v, v = Stored(list, numbered)
    PROVE  Written(v, list, numbered) /\ v.sources = sources /\ v.evidence = evidence
<1>1. PICK w : Steps(w, list, numbered)
  BY StoredStepwise
<1>. DEFINE L == Len(list)
            Good == {n \in Nat : n \in 0..L => Matched(w[n], sources, evidence, list, n)}
<1>2. Matched(w[0], sources, evidence, list, 0)
  <2>1. PICK b : b = Begun
    OBVIOUS
  <2>2. DOMAIN evidence = 1..L
    BY DEF Holding, RowsOf
  <2>3. /\ DOMAIN b = WriteFields /\ b.sources = sources /\ b.evidence = evidence /\ b.free = 1..L
        /\ b.taken = <<>>
    BY <2>1, <2>2 DEF Begun, WriteFields
  <2>4. RowByRow(<<>>, 0)
    BY DEF RowByRow
  <2>5. b.free = (0 + 1)..Len(list)
    BY <2>3
  <2>6. Matched(b, sources, evidence, list, 0)
    BY <2>3, <2>4, <2>5 DEF Matched
  <2>. QED  BY <1>1, <2>1, <2>6 DEF Steps
<1>4. 0 \in Good
  BY <1>2
<1>5. ASSUME NEW n \in Nat, n \in Good PROVE n + 1 \in Good
  <2>. SUFFICES ASSUME n + 1 <= L PROVE Matched(w[n + 1], sources, evidence, list, n + 1)
    OBVIOUS
  <2>1. n + 1 \in 1..L /\ (n + 1) - 1 = n /\ n < Len(list) /\ n \in 0..L
    OBVIOUS
  <2>2. w[n + 1] = StoreItem(w[(n + 1) - 1], list[n + 1], numbered)
    BY <1>1, <2>1 DEF Steps
  <2>3. PICK x, y, table, rows : x = w[n] /\ y = w[n + 1] /\ table = sources /\ rows = evidence
    OBVIOUS
  <2>4. Matched(x, table, rows, list, n)
    BY <1>5, <2>1, <2>3
  <2>5. y = StoreItem(x, list[n + 1], numbered)
    BY <2>1, <2>2, <2>3
  <2>6. Holding(table, rows, list, Len(list), numbered)
    BY <2>3
  <2>7. Matched(y, table, rows, list, n + 1)
    BY <2>1, <2>4, <2>5, <2>6, StepMatches
  <2>. QED  BY <2>3, <2>7
<1>6. Nat \subseteq Good
  <2>. HIDE DEF Good
  <2>. QED  BY <1>4, <1>5, Counting
<1>7. L \in Nat /\ L \in 0..L
  OBVIOUS
<1>8. Matched(w[L], sources, evidence, list, L)
  <2>1. L \in Good
    <3>. HIDE DEF Good, L
    <3>. QED  BY <1>6, <1>7
  <2>. QED  BY <1>7, <2>1
<1>9. v = w[L]
  BY <1>1 DEF Steps
<1>10. v.sources = sources /\ v.evidence = evidence /\ RowByRow(v.taken, Len(list))
  BY <1>8, <1>9 DEF Matched
<1>. QED  BY <1>10 DEF Written

-----------------------------------------------------------------------------
(* EvidenceLedger: the invariant *)

\* _evidence_by_citation_index, of any two tables.
RowByIndex(table, rows) ==
    [n \in Markers |->
      LET hits == {r \in DOMAIN rows : table[rows[r].source].index = n}
      IN  IF hits = {} THEN 0 ELSE Min(hits)]

Researched(g) ==
    /\ g.evidence \in Lists /\ g.sources = Numbering(g.evidence) /\ g.pairs \in Pairs(g.evidence)

\* The tables hold the list of the graph, and nothing the run was not allowed to read.
Full(g) ==
    /\ Researched(g)
    /\ Holding(sources, evidence, g.evidence, Len(g.evidence), g.sources)
    /\ run.selection # {} => \A s \in DOMAIN sources : sources[s].url \in run.selection

TablesFit(g) == (sources = <<>> /\ evidence = <<>>) \/ Full(g)

\* A stored conflict is between the sources the graph's pair is between.
KeyIs(c, table, p) ==
    LET a == SourceOf(table, Norm[p.a.url])
        b == SourceOf(table, Norm[p.b.url])
    IN  /\ c.a = IF a # b THEN a ELSE 0
        /\ c.b = IF a # b THEN b ELSE 0
        /\ c.quoteA = p.a.text /\ c.quoteB = p.b.text

ConflictsFit(g) ==
    \/ conflicts = <<>>
    \/ /\ Full(g) /\ g.pairs # <<>>
       /\ conflicts = <<conflicts[1]>> /\ KeyIs(conflicts[1], sources, g.pairs[1])

\* A revision is written against the numbering of the graph, and a link leads to
\* the row its number leads to in the tables as they are now.
RevisionFits(v, g) ==
    /\ v.basis = g.sources
    /\ \A l \in v.links :
         l.mark \in Markers /\ l.row # 0 /\ l.row = RowByIndex(sources, evidence)[l.mark]

RevisionsFit(g) ==
    /\ revisions \in Seq(Range(revisions))
    /\ \A v \in Range(revisions) : RevisionFits(v, g)

Decided == [decision : Decisions, revision : Nat]

ReviewsFit ==
    /\ reviews \in Seq(Decided)
    /\ \A r \in DOMAIN reviews : reviews[r].revision \in DOMAIN revisions

\* The artifact says what the tables say, which no later task changes.
ArtifactFits(g) == artifact # <<>> =>
    LET b == artifact[1] IN
    /\ artifact = <<b>> /\ Full(g) /\ b.revision \in DOMAIN revisions
    /\ b.report = revisions[b.revision].report
    /\ b.evidence = {sources[evidence[r].source].url : r \in DOMAIN evidence}
    /\ b.sources = {[index |-> s.index, url |-> s.url] : s \in Range(sources)}
    /\ b.allowed = run.selection
    /\ ApprovalChain(b)

OutcomeFits(g) ==
    /\ DOMAIN run = {"status", "outcome", "selection"} /\ run.status \in Statuses
    /\ run.outcome \in Reads \cup {"NONE"}
    /\ run.outcome = "READ" => Full(g)
    /\ run.outcome = "NONE" => revisions = <<>>

RecordFits(g) ==
    /\ TablesFit(g) /\ ConflictsFit(g) /\ RevisionsFit(g) /\ ReviewsFit
    /\ ArtifactFits(g) /\ OutcomeFits(g)

\* Only the first task researches, and nothing is stored before it.
PendingFits ==
    /\ pending \in [run : {0, 1}, rework : Nat]
    /\ pending.run = 1 =>
         /\ pending.rework = 0 /\ run.outcome = "NONE"
         /\ sources = <<>> /\ evidence = <<>> /\ conflicts = <<>>
         /\ revisions = <<>> /\ artifact = <<>> /\ reviews = <<>>
    /\ revisions # <<>> \/ pending.rework # 0 => Researched(graph)

LedgerInv == PendingFits /\ RecordFits(graph)

LEMMA RecordStarts == Init => LedgerInv
<1>. SUFFICES ASSUME Init PROVE LedgerInv
  OBVIOUS
<1>1. /\ graph = [evidence |-> <<>>, sources |-> <<>>, pairs |-> <<>>]
      /\ pending = [run |-> 1, rework |-> 0]
      /\ run \in [status : {"RUNNING"}, outcome : {"NONE"}, selection : SUBSET Corpus]
      /\ sources = <<>> /\ evidence = <<>> /\ conflicts = <<>> /\ revisions = <<>>
      /\ reviews = <<>> /\ artifact = <<>>
  BY DEF Init
<1>2. TablesFit(graph) /\ ConflictsFit(graph)
  BY <1>1 DEF TablesFit, ConflictsFit
<1>3. revisions \in Seq(Range(revisions)) /\ Range(revisions) = {}
  <2>1. DOMAIN revisions = {}
    BY <1>1
  <2>2. Range(revisions) = {}
    BY <2>1 DEF Range
  <2>. QED  BY <1>1, <2>2
<1>4. RevisionsFit(graph)
  BY <1>3 DEF RevisionsFit
<1>5. ReviewsFit
  BY <1>1 DEF ReviewsFit
<1>6. ArtifactFits(graph)
  BY <1>1 DEF ArtifactFits
<1>7. OutcomeFits(graph)
  BY <1>1 DEF OutcomeFits, Statuses, Reads
<1>8. PendingFits
  <2>1. pending \in [run : {0, 1}, rework : Nat] /\ pending.run = 1 /\ pending.rework = 0
    BY <1>1
  <2>2. run.outcome = "NONE"
    BY <1>1
  <2>. QED  BY <1>1, <2>1, <2>2 DEF PendingFits
<1>. QED  BY <1>2, <1>4, <1>5, <1>6, <1>7, <1>8 DEF LedgerInv, RecordFits

LEMMA ResearchedList ==
    ASSUME NEW g, Researched(g)
    PROVE  /\ g.evidence \in Seq(Items) /\ g.evidence # <<>> /\ Len(g.evidence) \in Nat
           /\ Numbered(g.sources, g.evidence)
<1>1. g.evidence \in Lists /\ g.sources = Numbering(g.evidence)
  BY DEF Researched
<1>2. g.evidence \in Seq(Items) /\ g.evidence # <<>>
  BY <1>1, LedgerAssumption DEF Items
<1>3. Numbered(g.sources, g.evidence)
  BY <1>1, <1>2, NumberingHas
<1>. QED  BY <1>2, <1>3

\* The row a number stands for is the same whether the write knows it or the tables.
LEMMA WrittenRows ==
    ASSUME NEW list \in Seq(Items), NEW numbered, NEW w, Written(w, list, numbered)
    PROVE  ByIndex(w, numbered) = RowByIndex(w.sources, w.evidence)
<1>1. PICK L, table, rows, taken :
         L = Len(list) /\ table = w.sources /\ rows = w.evidence /\ taken = w.taken
  OBVIOUS
<1>2. /\ L \in Nat /\ rows \in Seq(EvidenceRows) /\ Len(rows) = L /\ DOMAIN rows = 1..L
      /\ \A r \in 1..L : rows[r].source \in DOMAIN table
      /\ \A s \in DOMAIN table : table[s].index = IndexOf(numbered, table[s].norm)
  <2>1. L \in Nat /\ rows \in Seq(EvidenceRows) /\ Len(rows) = L
    BY <1>1 DEF Written, Holding, RowsOf
  <2>2. \A r \in 1..L : rows[r].source \in DOMAIN table
    BY <1>1 DEF Written, Holding, RowsOf
  <2>3. \A s \in DOMAIN table : table[s].index = IndexOf(numbered, table[s].norm)
    BY <1>1 DEF Written, Holding, SourcesOf
  <2>. QED  BY <2>1, <2>2, <2>3
<1>3. DOMAIN taken = 1..L /\ \A i \in 1..L : taken[i] = i
  BY <1>1, <1>2 DEF Written, RowByRow
<1>4. ASSUME NEW n \in Markers
      PROVE  ByIndex(w, numbered)[n] = RowByIndex(table, rows)[n]
  <2>. DEFINE first == {j \in DOMAIN taken : IndexOf(numbered, table[rows[taken[j]].source].norm) = n}
              hits == {r \in DOMAIN rows : table[rows[r].source].index = n}
  <2>1. ByIndex(w, numbered)[n] = IF first = {} THEN 0 ELSE taken[Min(first)]
    BY <1>1 DEF ByIndex
  <2>2. RowByIndex(table, rows)[n] = IF hits = {} THEN 0 ELSE Min(hits)
    BY DEF RowByIndex
  <2>3. first = hits
    <3>1. ASSUME NEW r \in 1..L
          PROVE  IndexOf(numbered, table[rows[taken[r]].source].norm) = table[rows[r].source].index
      BY <1>2, <1>3
    <3>. QED  BY <1>2, <1>3, <3>1
  <2>4. hits \subseteq 1..L /\ hits \subseteq Nat
    BY <1>2
  <2>. HIDE DEF first, hits
  <2>5. CASE hits = {}
    BY <2>1, <2>2, <2>3, <2>5
  <2>6. CASE hits # {}
    <3>1. Min(hits) \in hits
      BY <2>4, <2>6, MinIs
    <3>. QED  BY <1>3, <2>1, <2>2, <2>3, <2>4, <2>6, <3>1
  <2>. QED  BY <2>5, <2>6
<1>5. /\ ByIndex(w, numbered) = [n \in Markers |-> ByIndex(w, numbered)[n]]
      /\ RowByIndex(table, rows) = [n \in Markers |-> RowByIndex(table, rows)[n]]
  BY DEF ByIndex, RowByIndex
<1>. QED  BY <1>1, <1>4, <1>5

LEMMA RowsLead ==
    ASSUME NEW table, NEW rows, NEW n \in Markers, NEW x, x = RowByIndex(table, rows)[n],
           DOMAIN rows \subseteq Nat
    PROVE  x = 0 \/ x \in DOMAIN rows
<1>. DEFINE hits == {r \in DOMAIN rows : table[rows[r].source].index = n}
<1>1. x = IF hits = {} THEN 0 ELSE Min(hits)
  BY DEF RowByIndex
<1>2. hits \subseteq Nat /\ hits \subseteq DOMAIN rows
  OBVIOUS
<1>. HIDE DEF hits
<1>3. hits # {} => Min(hits) \in hits
  BY <1>2, MinIs
<1>. QED  BY <1>1, <1>2, <1>3

LEMMA LinksLead ==
    ASSUME NEW report, NEW row, NEW l \in Links(report, row)
    PROVE  l.mark \in Markers /\ l.row # 0 /\ l.row = row[l.mark]
BY DEF Links

\* A pair whose conflict is stored is not stored again.
LEMMA ConflictsOnce ==
    ASSUME NEW w, NEW pairs, pairs = <<>> \/ pairs = <<pairs[1]>>,
           \/ conflicts = <<>>
           \/ /\ pairs # <<>> /\ conflicts = <<conflicts[1]>>
              /\ KeyIs(conflicts[1], w.sources, pairs[1]),
           NEW after, after = Conflicts(w, pairs)
    PROVE  \/ after = <<>>
           \/ pairs # <<>> /\ after = <<after[1]>> /\ KeyIs(after[1], w.sources, pairs[1])
<1>0. PICK found : found = [i \in DOMAIN pairs |-> Conflict(w, pairs[i])]
  OBVIOUS
<1>. DEFINE There(i) == HowMany(SubSeq(found, 1, i), found[i]) <= HowMany(conflicts, found[i])
            rest == [i \in DOMAIN found |-> IF There(i) THEN <<>> ELSE <<found[i]>>]
<1>1. after = conflicts \o FlattenSeq(rest)
  BY <1>0 DEF Conflicts
<1>2. CASE pairs = <<>>
  <2>1. conflicts = <<>>
    BY <1>2
  <2>2. DOMAIN pairs = {}
    BY <1>2
  <2>3. DOMAIN found = {} /\ found = <<>> /\ rest = <<>>
    BY <1>0, <2>2
  <2>4. FlattenSeq(<<>>) = <<>>
    BY DEF FlattenSeq
  <2>. QED  BY <1>1, <2>1, <2>3, <2>4
<1>3. CASE pairs # <<>>
  <2>1. PICK p, c : p = pairs[1] /\ c = Conflict(w, p)
    OBVIOUS
  <2>2. pairs = <<p>> /\ DOMAIN pairs = {1}
    BY <1>3, <2>1
  <2>3. found = <<c>> /\ DOMAIN found = {1} /\ found[1] = c
    BY <1>0, <2>1, <2>2
  <2>4. KeyIs(c, w.sources, p)
    BY <2>1 DEF KeyIs, Conflict
  <2>5. SubSeq(found, 1, 1) = <<c>>
    <3>1. SubSeq(<<c>>, 1, 1) = <<c>>
      <4>1. PICK u, v : u = <<c>> /\ v = SubSeq(u, 1, 1)
        OBVIOUS
      <4>2. u \in Seq({c}) /\ Len(u) = 1 /\ u[1] = c
        BY <4>1
      <4>3. v \in Seq({c}) /\ Len(v) = 1 /\ v[1] = u[1]
        BY <4>1, <4>2
      <4>4. v = <<c>>
        BY <4>2, <4>3
      <4>. QED  BY <4>1, <4>4
    <3>. QED  BY <2>3, <3>1
  <2>6. HowMany(<<c>>, c) = 1
    <3>1. {i \in DOMAIN <<c>> : SameConflict(<<c>>[i], c)} = {1}
      BY DEF SameConflict
    <3>2. Cardinality({1}) = 1
      BY FS_Singleton
    <3>. QED  BY <3>1, <3>2 DEF HowMany
  <2>7. CASE conflicts = <<>>
    <3>1. HowMany(conflicts, c) = 0
      <4>1. {i \in DOMAIN conflicts : SameConflict(conflicts[i], c)} = {}
        BY <2>7
      <4>. QED  BY <4>1, FS_EmptySet DEF HowMany
    <3>2. ~ There(1)
      <4>1. HowMany(SubSeq(found, 1, 1), found[1]) = 1 /\ HowMany(conflicts, found[1]) = 0
        BY <2>3, <2>5, <2>6, <3>1
      <4>. QED  BY <4>1
    <3>3. rest = << <<c>> >>
      BY <2>3, <3>2
    <3>4. FlattenSeq(<< <<c>> >>) = <<c>>
      <4>1. <<c>> \in Seq({c})
        OBVIOUS
      <4>. QED  BY <4>1, FlattenOne
    <3>5. after = <<c>>
      BY <1>1, <2>7, <3>3, <3>4
    <3>. QED  BY <1>3, <2>1, <2>4, <3>5
  <2>8. CASE conflicts # <<>>
    <3>1. PICK d : d = conflicts[1]
      OBVIOUS
    <3>2. conflicts = <<d>> /\ KeyIs(d, w.sources, p)
      BY <2>1, <2>8, <3>1
    <3>3. SameConflict(d, c)
      BY <2>4, <3>2 DEF KeyIs, SameConflict
    <3>4. HowMany(conflicts, c) = 1
      <4>1. {i \in DOMAIN conflicts : SameConflict(conflicts[i], c)} = {1}
        BY <3>2, <3>3
      <4>. QED  BY <4>1, FS_Singleton DEF HowMany
    <3>5. There(1)
      <4>1. HowMany(SubSeq(found, 1, 1), found[1]) = 1 /\ HowMany(conflicts, found[1]) = 1
        BY <2>3, <2>5, <2>6, <3>4
      <4>. QED  BY <4>1
    <3>6. rest = << <<>> >>
      BY <2>3, <3>5
    <3>7. FlattenSeq(<< <<>> >>) = <<>>
      <4>1. <<>> \in Seq({c})
        OBVIOUS
      <4>. QED  BY <4>1, FlattenOne
    <3>8. after = <<d>>
      <4>1. <<d>> \o <<>> = <<d>>
        <5>1. <<d>> \in Seq({d})
          OBVIOUS
        <5>. QED  BY <5>1
      <4>. QED  BY <1>1, <3>2, <3>6, <3>7, <4>1
    <3>. QED  BY <1>3, <2>1, <3>2, <3>8
  <2>. QED  BY <2>7, <2>8
<1>. QED  BY <1>2, <1>3

-----------------------------------------------------------------------------
(* EvidenceLedger: the worker *)

\* What a write that was read leaves beside the revision.
ReadLeaves(g) ==
    /\ Full(g)' /\ run'.outcome = "READ" /\ ConflictsFit(g)'
    /\ (sources = <<>> /\ evidence = <<>>) \/ UNCHANGED <<sources, evidence>>

LEMMA ReadWrite ==
    ASSUME NEW g, graph' = g, Researched(g), RecordFits(g), ~ Violates(g.evidence),
           NEW report, NEW w, w = Stored(g.evidence, g.sources), PersistRead(report, w)
    PROVE  /\ ReadLeaves(g)
           /\ revisions' = Append(revisions,
                Revision(report, RowByIndex(sources', evidence'), Watermark(w)))
           /\ run' = [run EXCEPT !.status = "AWAITING_REVIEW", !.outcome = "READ"]
<1>1. PICK list, numbered : list = g.evidence /\ numbered = g.sources
  OBVIOUS
<1>2. list \in Seq(Items) /\ list # <<>> /\ Numbered(numbered, list) /\ Len(list) \in Nat
  BY <1>1, ResearchedList
<1>3. TablesFit(g) /\ ConflictsFit(g) /\ OutcomeFits(g)
  BY DEF RecordFits
<1>4. /\ sources' = w.sources /\ evidence' = w.evidence
      /\ conflicts' = Conflicts(w, g.pairs)
      /\ revisions' = Append(revisions, Revision(report, ByIndex(w, numbered), Watermark(w)))
      /\ run' = [run EXCEPT !.status = "AWAITING_REVIEW", !.outcome = "READ"]
  BY <1>1 DEF PersistRead, SetRun
<1>5. Written(w, list, numbered) /\ ((sources = <<>> /\ evidence = <<>>) \/ UNCHANGED <<sources, evidence>>)
  <2>1. CASE sources = <<>> /\ evidence = <<>>
    BY <1>1, <1>2, <2>1, FirstWrite
  <2>2. CASE Full(g)
    <3>1. Holding(sources, evidence, list, Len(list), numbered)
      BY <1>1, <2>2 DEF Full
    <3>2. Written(w, list, numbered) /\ w.sources = sources /\ w.evidence = evidence
      BY <1>1, <1>2, <3>1, NextWrite
    <3>. QED  BY <1>4, <3>2
  <2>. QED  BY <1>3, <2>1, <2>2 DEF TablesFit
<1>6. ByIndex(w, numbered) = RowByIndex(sources', evidence')
  BY <1>2, <1>4, <1>5, WrittenRows
<1>7. run'.outcome = "READ" /\ run'.selection = run.selection
  BY <1>3, <1>4 DEF OutcomeFits
<1>8. Holding(sources', evidence', list, Len(list), numbered)
  BY <1>4, <1>5 DEF Written
<1>9. ASSUME run.selection # {}, NEW s \in DOMAIN sources' PROVE sources'[s].url \in run.selection
  <2>1. \A i \in DOMAIN list : list[i].url \in run.selection
    BY <1>1, <1>9 DEF Violates
  <2>2. PICK i \in 1..Len(list) : sources'[s].url = list[i].url
    BY <1>8, <1>9 DEF Holding, SourcesOf
  <2>3. i \in DOMAIN list
    BY <1>2, <2>2
  <2>. QED  BY <2>1, <2>2, <2>3
<1>10. Full(g)'
  BY <1>1, <1>7, <1>8, <1>9 DEF Full, Researched
<1>11. ConflictsFit(g)'
  <2>1. PICK pairs, after : pairs = g.pairs /\ after = conflicts'
    OBVIOUS
  <2>2. pairs = <<>> \/ pairs = <<pairs[1]>>
    BY <2>1 DEF Researched, Pairs
  <2>3. \/ conflicts = <<>>
        \/ /\ pairs # <<>> /\ conflicts = <<conflicts[1]>>
           /\ KeyIs(conflicts[1], w.sources, pairs[1])
    <3>1. CASE conflicts = <<>>
      BY <3>1
    <3>2. CASE Full(g) /\ g.pairs # <<>> /\ conflicts = <<conflicts[1]>>
               /\ KeyIs(conflicts[1], sources, g.pairs[1])
      <4>1. Len(evidence) # 0
        <5>1. Len(list) # 0
          BY <1>2
        <5>2. Len(evidence) = Len(list)
          BY <1>1, <3>2 DEF Full, Holding, RowsOf
        <5>. QED  BY <5>1, <5>2
      <4>2. w.sources = sources
        BY <1>4, <1>5, <4>1
      <4>. QED  BY <2>1, <3>2, <4>2
    <3>. QED  BY <1>3, <3>1, <3>2 DEF ConflictsFit
  <2>4. \/ after = <<>>
        \/ pairs # <<>> /\ after = <<after[1]>> /\ KeyIs(after[1], w.sources, pairs[1])
    <3>1. after = Conflicts(w, pairs)
      BY <1>4, <2>1
    <3>. QED  BY <2>2, <2>3, <3>1, ConflictsOnce
  <2>. QED  BY <1>4, <1>10, <2>1, <2>4 DEF ConflictsFit
<1>. QED  BY <1>4, <1>5, <1>6, <1>7, <1>10, <1>11 DEF ReadLeaves

\* No number has a row in empty tables.
LEMMA NoRows ==
    ASSUME NEW n \in Markers
    PROVE  RowByIndex(<<>>, <<>>)[n] = 0
<1>1. DOMAIN <<>> = {}
  OBVIOUS
<1>2. {r \in DOMAIN <<>> : <<>>[<<>>[r].source].index = n} = {}
  BY <1>1
<1>. QED  BY <1>2 DEF RowByIndex

\* One more revision, over tables that were empty or stay what they are.
LEMMA RevisionAdded ==
    ASSUME NEW g, RevisionsFit(g), ReviewsFit, UNCHANGED reviews,
           (sources = <<>> /\ evidence = <<>>) \/ UNCHANGED <<sources, evidence>>,
           NEW v, revisions' = Append(revisions, v), RevisionFits(v, g)'
    PROVE  /\ RevisionsFit(g)' /\ ReviewsFit' /\ revisions' # <<>>
           /\ \A k \in DOMAIN revisions : k \in DOMAIN revisions' /\ revisions'[k] = revisions[k]
<1>1. revisions \in Seq(Range(revisions)) /\ \A u \in Range(revisions) : RevisionFits(u, g)
  BY DEF RevisionsFit
<1>2. PICK t : t = revisions'
  OBVIOUS
<1>3. Extends(t, revisions, v)
  BY <1>1, <1>2, Appended
<1>4. ASSUME NEW u \in Range(revisions) PROVE RevisionFits(u, g)'
  <2>1. RevisionFits(u, g)
    BY <1>1
  <2>2. CASE UNCHANGED <<sources, evidence>>
    BY <2>1, <2>2 DEF RevisionFits
  <2>3. CASE sources = <<>> /\ evidence = <<>>
    <3>1. ASSUME NEW l \in u.links PROVE FALSE
      <4>1. l.mark \in Markers /\ l.row # 0 /\ l.row = RowByIndex(<<>>, <<>>)[l.mark]
        BY <2>1, <2>3, <3>1 DEF RevisionFits
      <4>. QED  BY <4>1, NoRows
    <3>. QED  BY <2>1, <3>1 DEF RevisionFits
  <2>. QED  BY <2>2, <2>3
<1>5. \A u \in Range(t) : RevisionFits(u, g)'
  BY <1>3, <1>4 DEF Extends
<1>6. RevisionsFit(g)'
  BY <1>2, <1>3, <1>5 DEF RevisionsFit, Extends
<1>7. \A k \in DOMAIN revisions : k \in DOMAIN t /\ t[k] = revisions[k]
  BY <1>3 DEF Extends
<1>8. ReviewsFit'
  BY <1>2, <1>7 DEF ReviewsFit
<1>. QED  BY <1>2, <1>3, <1>6, <1>7, <1>8 DEF Extends

\* An artifact stays what it is as long as the tables and the revisions it names do.
LEMMA ArtifactStays ==
    ASSUME NEW g, ArtifactFits(g), UNCHANGED artifact, artifact # <<>> => UNCHANGED <<sources, evidence>>,
           run'.selection = run.selection,
           \A k \in DOMAIN revisions : k \in DOMAIN revisions' /\ revisions'[k] = revisions[k]
    PROVE  ArtifactFits(g)'
<1>. SUFFICES ASSUME artifact # <<>> PROVE ArtifactFits(g)'
  BY DEF ArtifactFits
<1>1. PICK b : b = artifact[1]
  OBVIOUS
<1>2. UNCHANGED <<sources, evidence, artifact>>
  OBVIOUS
<1>3. /\ artifact = <<b>> /\ Full(g) /\ b.revision \in DOMAIN revisions
      /\ b.report = revisions[b.revision].report
      /\ b.evidence = {sources[evidence[r].source].url : r \in DOMAIN evidence}
      /\ b.sources = {[index |-> s.index, url |-> s.url] : s \in Range(sources)}
      /\ b.allowed = run.selection /\ ApprovalChain(b)
  BY <1>1 DEF ArtifactFits
<1>4. Full(g)'
  BY <1>2, <1>3 DEF Full, Researched
<1>5. b.revision \in DOMAIN revisions' /\ b.report = revisions'[b.revision].report
  BY <1>3
<1>6. b.allowed = run'.selection
  BY <1>3
<1>. QED  BY <1>1, <1>2, <1>3, <1>4, <1>5, <1>6 DEF ArtifactFits

\* Tables that stay what they are.
LEMMA TablesStay ==
    ASSUME NEW g, TablesFit(g), ConflictsFit(g), UNCHANGED <<sources, evidence, conflicts>>,
           run'.selection = run.selection
    PROVE  TablesFit(g)' /\ ConflictsFit(g)' /\ (Full(g) => Full(g)')
<1>1. Full(g) => Full(g)'
  BY DEF Full, Researched
<1>2. TablesFit(g)'
  BY <1>1 DEF TablesFit
<1>3. ConflictsFit(g)'
  BY <1>1 DEF ConflictsFit
<1>. QED  BY <1>1, <1>2, <1>3

LEMMA RunWritten ==
    ASSUME NEW g, OutcomeFits(g), NEW status \in Statuses, NEW outcome, SetRun(status, outcome)
    PROVE  /\ run'.status = status /\ run'.outcome = outcome /\ run'.selection = run.selection
           /\ DOMAIN run' = {"status", "outcome", "selection"}
BY DEF OutcomeFits, SetRun

LEMMA PersistKeeps ==
    ASSUME NEW g, graph' = g, Researched(g), RecordFits(g), UNCHANGED <<reviews, artifact>>,
           NEW report, NEW read \in Reads, Persist(report, read)
    PROVE  RecordFits(g)'
<1>1. /\ TablesFit(g) /\ ConflictsFit(g) /\ RevisionsFit(g) /\ ReviewsFit
      /\ ArtifactFits(g) /\ OutcomeFits(g)
  BY DEF RecordFits
<1>2. "AWAITING_REVIEW" \in Statuses /\ "FAILED" \in Statuses
  BY DEF Statuses
<1>3. CASE read # "READ"
  <2>1. /\ SetRun("AWAITING_REVIEW", read) /\ UNCHANGED <<sources, evidence, conflicts>>
        /\ revisions' = Append(revisions, Revision(report, ByCitationIndex, LastSequence))
    BY <1>3 DEF Persist, PersistUnread
  <2>2. /\ run'.status = "AWAITING_REVIEW" /\ run'.outcome = read /\ run'.selection = run.selection
        /\ DOMAIN run' = {"status", "outcome", "selection"}
    BY <1>1, <1>2, <2>1, RunWritten
  <2>3. ByCitationIndex = RowByIndex(sources, evidence)
    BY DEF ByCitationIndex, RowByIndex
  <2>4. PICK v : v = Revision(report, RowByIndex(sources, evidence), LastSequence)
    OBVIOUS
  <2>5. v.basis = g.sources /\ v.links = Links(report, RowByIndex(sources, evidence))
    BY <2>4 DEF Revision
  <2>6. RevisionFits(v, g)'
    <3>1. \A l \in v.links : l.mark \in Markers /\ l.row # 0 /\ l.row = RowByIndex(sources, evidence)[l.mark]
      BY <2>5, LinksLead
    <3>. QED  BY <2>1, <2>5, <3>1 DEF RevisionFits
  <2>7. /\ RevisionsFit(g)' /\ ReviewsFit' /\ revisions' # <<>>
        /\ \A k \in DOMAIN revisions : k \in DOMAIN revisions' /\ revisions'[k] = revisions[k]
    BY <1>1, <2>1, <2>3, <2>4, <2>6, RevisionAdded
  <2>8. TablesFit(g)' /\ ConflictsFit(g)'
    BY <1>1, <2>1, <2>2, TablesStay
  <2>9. ArtifactFits(g)'
    BY <1>1, <2>1, <2>2, <2>7, ArtifactStays
  <2>10. OutcomeFits(g)'
    BY <1>2, <1>3, <2>2, <2>7 DEF OutcomeFits, Reads
  <2>. QED  BY <2>7, <2>8, <2>9, <2>10 DEF RecordFits
<1>4. CASE read = "READ" /\ Violates(g.evidence)
  <2>1. SetRun("FAILED", run.outcome) /\ UNCHANGED <<sources, evidence, conflicts, revisions>>
    BY <1>4 DEF Persist, PersistRefused, tables
  <2>2. /\ run'.status = "FAILED" /\ run'.outcome = run.outcome /\ run'.selection = run.selection
        /\ DOMAIN run' = {"status", "outcome", "selection"}
    BY <1>1, <1>2, <2>1, RunWritten
  <2>3. TablesFit(g)' /\ ConflictsFit(g)' /\ (Full(g) => Full(g)')
    BY <1>1, <2>1, <2>2, TablesStay
  <2>4. ArtifactFits(g)'
    BY <1>1, <2>1, <2>2, ArtifactStays
  <2>5. OutcomeFits(g)'
    BY <1>1, <1>2, <2>1, <2>2, <2>3 DEF OutcomeFits
  <2>6. RevisionsFit(g)' /\ ReviewsFit'
    BY <1>1, <2>1 DEF RevisionsFit, RevisionFits, ReviewsFit
  <2>. QED  BY <2>3, <2>4, <2>5, <2>6 DEF RecordFits
<1>5. CASE read = "READ" /\ ~ Violates(g.evidence)
  <2>1. PICK w : w = Stored(g.evidence, g.sources) /\ PersistRead(report, w)
    BY <1>5 DEF Persist
  <2>2. /\ ReadLeaves(g)
        /\ revisions' = Append(revisions,
             Revision(report, RowByIndex(sources', evidence'), Watermark(w)))
        /\ run' = [run EXCEPT !.status = "AWAITING_REVIEW", !.outcome = "READ"]
    BY <1>5, <2>1, ReadWrite
  <2>3. /\ run'.status = "AWAITING_REVIEW" /\ run'.outcome = "READ" /\ run'.selection = run.selection
        /\ DOMAIN run' = {"status", "outcome", "selection"}
    BY <1>1, <1>2, <2>2, RunWritten DEF SetRun
  <2>4. PICK v : v = Revision(report, RowByIndex(sources', evidence'), Watermark(w))
    OBVIOUS
  <2>5. v.basis = g.sources /\ v.links = Links(report, RowByIndex(sources', evidence'))
    BY <2>4 DEF Revision
  <2>6. RevisionFits(v, g)'
    <3>1. \A l \in v.links : l.mark \in Markers /\ l.row # 0 /\ l.row = RowByIndex(sources', evidence')[l.mark]
      BY <2>5, LinksLead
    <3>. QED  BY <2>5, <3>1 DEF RevisionFits
  <2>7. /\ RevisionsFit(g)' /\ ReviewsFit' /\ revisions' # <<>>
        /\ \A k \in DOMAIN revisions : k \in DOMAIN revisions' /\ revisions'[k] = revisions[k]
    <3>1. (sources = <<>> /\ evidence = <<>>) \/ UNCHANGED <<sources, evidence>>
      BY <2>2 DEF ReadLeaves
    <3>2. revisions' = Append(revisions, v)
      BY <2>2, <2>4
    <3>. QED  BY <1>1, <2>6, <3>1, <3>2, RevisionAdded
  <2>8. TablesFit(g)' /\ ConflictsFit(g)' /\ Full(g)'
    BY <2>2 DEF ReadLeaves, TablesFit
  <2>9. ArtifactFits(g)'
    <3>1. artifact # <<>> => UNCHANGED <<sources, evidence>>
      <4>. SUFFICES ASSUME artifact # <<>> PROVE UNCHANGED <<sources, evidence>>
        OBVIOUS
      <4>1. Full(g)
        BY <1>1 DEF ArtifactFits
      <4>2. Len(evidence) # 0
        <5>1. Len(evidence) = Len(g.evidence)
          BY <4>1 DEF Full, Holding, RowsOf
        <5>2. g.evidence \in Seq(Items) /\ g.evidence # <<>>
          BY ResearchedList
        <5>. QED  BY <5>1, <5>2
      <4>. QED  BY <2>2, <4>2 DEF ReadLeaves
    <3>. QED  BY <1>1, <2>3, <2>7, <3>1, ArtifactStays
  <2>10. OutcomeFits(g)'
    BY <1>2, <2>3, <2>7, <2>8 DEF OutcomeFits, Reads
  <2>. QED  BY <2>7, <2>8, <2>9, <2>10 DEF RecordFits
<1>. QED  BY <1>3, <1>4, <1>5

-----------------------------------------------------------------------------
(* EvidenceLedger: every step *)

\* A step that leaves the record alone, whatever becomes of the run's status.
LEMMA RecordStays ==
    ASSUME NEW g, RecordFits(g), UNCHANGED <<tables, artifact>>, ReviewsFit',
           DOMAIN run' = {"status", "outcome", "selection"}, run'.status \in Statuses,
           run'.outcome = run.outcome, run'.selection = run.selection
    PROVE  RecordFits(g)'
<1>1. /\ TablesFit(g) /\ ConflictsFit(g) /\ RevisionsFit(g) /\ ArtifactFits(g) /\ OutcomeFits(g)
      /\ UNCHANGED <<sources, evidence, conflicts, revisions>>
  BY DEF RecordFits, tables
<1>2. TablesFit(g)' /\ ConflictsFit(g)' /\ (Full(g) => Full(g)')
  BY <1>1, TablesStay
<1>3. ArtifactFits(g)'
  BY <1>1, ArtifactStays
<1>4. OutcomeFits(g)'
  BY <1>1, <1>2 DEF OutcomeFits
<1>5. RevisionsFit(g)'
  BY <1>1 DEF RevisionsFit, RevisionFits
<1>. QED  BY <1>2, <1>3, <1>4, <1>5 DEF RecordFits

LEMMA ReviewAdded ==
    ASSUME ReviewsFit, NEW v \in DOMAIN revisions, revisions \in Seq(Range(revisions)),
           NEW decision \in Decisions, Reviewed(v, decision), UNCHANGED revisions
    PROVE  ReviewsFit' /\ [decision |-> decision, revision |-> v] \in Range(reviews')
<1>1. PICK x, t : x = [decision |-> decision, revision |-> v] /\ t = reviews'
  OBVIOUS
<1>2. x \in Decided /\ x.revision = v /\ t = Append(reviews, x) /\ reviews \in Seq(Decided)
  BY <1>1 DEF Decided, Reviewed, ReviewsFit
<1>3. Extends(t, reviews, x) /\ t \in Seq(Decided)
  <2>1. t \in Seq(Decided)
    BY <1>2
  <2>2. Extends(t, reviews, x)
    BY <1>2, Appended
  <2>. QED  BY <2>1, <2>2
<1>4. x \in Range(t)
  BY <1>3 DEF Extends, Range
<1>5. ASSUME NEW r \in DOMAIN t PROVE t[r].revision \in DOMAIN revisions
  <2>1. t[r] \in Range(t)
    BY DEF Range
  <2>2. t[r] \in Range(reviews) \/ t[r] = x
    BY <1>3, <2>1 DEF Extends
  <2>3. \A y \in Range(reviews) : y.revision \in DOMAIN revisions
    BY DEF ReviewsFit, Range
  <2>. QED  BY <1>2, <2>2, <2>3
<1>6. ReviewsFit'
  BY <1>1, <1>3, <1>5 DEF ReviewsFit
<1>. QED  BY <1>1, <1>4, <1>6

LEMMA TakeKeeps ==
    ASSUME PendingFits, NEW kind \in {"run", "rework"}, Take(kind)
    PROVE  /\ pending' \in [run : {0, 1}, rework : Nat] /\ pending'.run = 0
           /\ pending'.rework # 0 => pending.rework # 0
           /\ kind = "run" => pending.run = 1
           /\ kind = "rework" => pending.rework # 0
<1>1. PICK p, q : p = pending /\ q = pending'
  OBVIOUS
<1>2. /\ p \in [run : {0, 1}, rework : Nat] /\ p.run \in {0, 1} /\ p.rework \in Nat
      /\ p.run = 1 => p.rework = 0
  BY <1>1 DEF PendingFits
<1>3. p[kind] > 0 /\ q = [p EXCEPT ![kind] = @ - 1]
  BY <1>1 DEF Take
<1>4. CASE kind = "run"
  <2>1. p.run = 1 /\ q.run = 0 /\ q.rework = p.rework /\ q \in [run : {0, 1}, rework : Nat]
    BY <1>2, <1>3, <1>4
  <2>. QED  BY <1>1, <1>4, <2>1
<1>5. CASE kind = "rework"
  <2>1. p.rework > 0 /\ p.run = 0
    BY <1>2, <1>3, <1>5
  <2>2. q.rework = p.rework - 1 /\ q.run = 0 /\ q \in [run : {0, 1}, rework : Nat]
    BY <1>2, <1>3, <1>5, <2>1
  <2>. QED  BY <1>1, <1>5, <2>1, <2>2
<1>. QED  BY <1>4, <1>5

\* What is so of the graph when a report is persisted.
Persists(g, report, read) ==
    /\ graph' = g /\ Researched(g) /\ RecordFits(g) /\ UNCHANGED <<reviews, artifact>>
    /\ Persist(report, read)
    /\ pending' \in [run : {0, 1}, rework : Nat] /\ pending'.run = 0

LEMMA ResearchPersists ==
    ASSUME LedgerInv, NEW list \in Lists, NEW pairs \in Pairs(list), NEW report,
           NEW read, Research(list, pairs, report, read)
    PROVE  \E g : Persists(g, report, read)
<1>1. PICK g : g = [evidence |-> list, sources |-> Numbering(list), pairs |-> pairs]
  OBVIOUS
<1>2. Take("run") /\ graph' = g /\ Persist(report, read)
  BY <1>1 DEF Research
<1>3. Researched(g)
  BY <1>1 DEF Researched
<1>4. PendingFits /\ RecordFits(graph)
  BY DEF LedgerInv
<1>5. pending' \in [run : {0, 1}, rework : Nat] /\ pending'.run = 0 /\ pending.run = 1
  BY <1>2, <1>4, TakeKeeps
<1>6. /\ run.outcome = "NONE"
      /\ sources = <<>> /\ evidence = <<>> /\ conflicts = <<>>
      /\ revisions = <<>> /\ artifact = <<>>
  BY <1>4, <1>5 DEF PendingFits
<1>7. TablesFit(g) /\ ConflictsFit(g)
  BY <1>6 DEF TablesFit, ConflictsFit
<1>8. ArtifactFits(g)
  BY <1>6 DEF ArtifactFits
<1>9. OutcomeFits(g)
  BY <1>4, <1>6 DEF RecordFits, OutcomeFits
<1>10. RevisionsFit(g)
  <2>1. Range(revisions) = {} /\ revisions \in Seq(Range(revisions))
    <3>1. DOMAIN revisions = {}
      BY <1>6
    <3>2. Range(revisions) = {}
      BY <3>1 DEF Range
    <3>. QED  BY <1>6, <3>2
  <2>. QED  BY <2>1 DEF RevisionsFit
<1>11. ReviewsFit
  BY <1>4 DEF RecordFits
<1>12. RecordFits(g)
  BY <1>7, <1>8, <1>9, <1>10, <1>11 DEF RecordFits
<1>13. UNCHANGED <<reviews, artifact>>
  BY <1>2 DEF Take
<1>14. Persists(g, report, read)
  BY <1>2, <1>3, <1>5, <1>12, <1>13 DEF Persists
<1>. QED  BY <1>14

LEMMA ReworkPersists ==
    ASSUME LedgerInv, NEW report, NEW read, Resynthesize(report, read)
    PROVE  \E g : Persists(g, report, read)
<1>1. PICK g : g = graph
  OBVIOUS
<1>2. Take("rework") /\ graph' = g /\ Persist(report, read)
  BY <1>1 DEF Resynthesize
<1>3. PendingFits /\ RecordFits(g)
  BY <1>1 DEF LedgerInv
<1>4. pending' \in [run : {0, 1}, rework : Nat] /\ pending'.run = 0 /\ pending.rework # 0
  BY <1>2, <1>3, TakeKeeps
<1>5. Researched(g)
  BY <1>1, <1>3, <1>4 DEF PendingFits
<1>6. UNCHANGED <<reviews, artifact>>
  BY <1>2 DEF Take
<1>7. Persists(g, report, read)
  BY <1>2, <1>3, <1>4, <1>5, <1>6 DEF Persists
<1>. QED  BY <1>7

LEMMA PersistsKeeps ==
    ASSUME NEW g, NEW report, NEW read \in Reads, Persists(g, report, read)
    PROVE  LedgerInv'
<1>1. RecordFits(g)'
  BY PersistKeeps DEF Persists
<1>2. graph' = g /\ Researched(graph)'
  BY DEF Persists, Researched
<1>3. PendingFits'
  BY <1>2 DEF Persists, PendingFits
<1>4. RecordFits(graph)'
  BY <1>1, <1>2 DEF RecordFits, TablesFit, ConflictsFit, RevisionsFit, RevisionFits, ArtifactFits, OutcomeFits, Full, Researched
<1>. QED  BY <1>3, <1>4 DEF LedgerInv

\* A task that comes to no report.
LEMMA TakenKeeps ==
    ASSUME LedgerInv, NEW kind \in {"run", "rework"}, Take(kind), UNCHANGED <<graph, tables>>,
           DOMAIN run' = {"status", "outcome", "selection"}, run'.status \in Statuses,
           run'.outcome = run.outcome, run'.selection = run.selection
    PROVE  LedgerInv'
<1>1. PICK g : g = graph
  OBVIOUS
<1>2. PendingFits /\ RecordFits(g) /\ UNCHANGED <<reviews, artifact, revisions>>
  BY <1>1 DEF LedgerInv, Take, tables
<1>3. ReviewsFit'
  BY <1>2 DEF RecordFits, ReviewsFit
<1>4. RecordFits(g)'
  BY <1>2, <1>3, RecordStays
<1>5. /\ pending' \in [run : {0, 1}, rework : Nat] /\ pending'.run = 0
      /\ pending'.rework # 0 => pending.rework # 0
  BY <1>2, TakeKeeps
<1>6. PendingFits'
  <2>1. revisions' # <<>> \/ pending'.rework # 0 => Researched(graph)
    BY <1>2, <1>5 DEF PendingFits
  <2>2. Researched(graph) => Researched(graph)'
    BY DEF Researched
  <2>. QED  BY <1>5, <2>1, <2>2 DEF PendingFits
<1>7. RecordFits(graph)'
  BY <1>1, <1>4 DEF RecordFits, TablesFit, ConflictsFit, RevisionsFit, RevisionFits, ArtifactFits, OutcomeFits, Full, Researched
<1>. QED  BY <1>6, <1>7 DEF LedgerInv

\* A step of the reviewer that leaves tables and artifact alone.
LEMMA ReviewerKeeps ==
    ASSUME LedgerInv, UNCHANGED <<graph, tables, artifact>>, ReviewsFit',
           pending' = pending \/ (revisions # <<>> /\ pending' = [pending EXCEPT !.rework = @ + 1]),
           reviews' = reviews \/ revisions # <<>>,
           DOMAIN run' = {"status", "outcome", "selection"}, run'.status \in Statuses,
           run'.outcome = run.outcome, run'.selection = run.selection
    PROVE  LedgerInv'
<1>1. PICK g : g = graph
  OBVIOUS
<1>2. PendingFits /\ RecordFits(g)
  BY <1>1 DEF LedgerInv
<1>3. UNCHANGED <<sources, evidence, conflicts, revisions>>
  BY DEF tables
<1>4. RecordFits(g)'
  BY <1>2, RecordStays
<1>5. RecordFits(graph)'
  BY <1>1, <1>4 DEF RecordFits, TablesFit, ConflictsFit, RevisionsFit, RevisionFits, ArtifactFits, OutcomeFits, Full, Researched
<1>6. Researched(graph) => Researched(graph)'
  BY DEF Researched
<1>7. CASE revisions = <<>>
  <2>1. pending' = pending /\ reviews' = reviews
    BY <1>7
  <2>2. PendingFits'
    BY <1>2, <1>3, <1>6, <2>1 DEF PendingFits
  <2>. QED  BY <1>5, <2>2 DEF LedgerInv
<1>8. CASE revisions # <<>>
  <2>1. Researched(graph)' /\ pending.run # 1
    BY <1>2, <1>6, <1>8 DEF PendingFits
  <2>2. pending' \in [run : {0, 1}, rework : Nat] /\ pending'.run = pending.run
    <3>1. pending \in [run : {0, 1}, rework : Nat]
      BY <1>2 DEF PendingFits
    <3>. QED  BY <3>1
  <2>3. PendingFits'
    BY <2>1, <2>2 DEF PendingFits
  <2>. QED  BY <1>5, <2>3 DEF LedgerInv
<1>. QED  BY <1>7, <1>8

LEMMA ApproveKeeps ==
    ASSUME LedgerInv, NEW v \in DOMAIN revisions, Approve(v)
    PROVE  LedgerInv'
<1>1. PICK g : g = graph
  OBVIOUS
<1>2. /\ PendingFits /\ RecordFits(g) /\ TablesFit(g) /\ ConflictsFit(g) /\ RevisionsFit(g)
      /\ ReviewsFit /\ OutcomeFits(g)
  BY <1>1 DEF LedgerInv, RecordFits
<1>3. /\ Reviewed(v, "APPROVED") /\ run.outcome # "UNREAD"
      /\ revisions[Len(revisions)].report = revisions[v].report
      /\ artifact' = <<Bundle(reviews')>> /\ SetRun("COMPLETED", run.outcome)
      /\ UNCHANGED <<graph, pending, sources, evidence, conflicts, revisions>>
  BY DEF Approve, Assemblable, SameBytes, tables
<1>4. /\ run'.status = "COMPLETED" /\ run'.outcome = run.outcome /\ run'.selection = run.selection
      /\ DOMAIN run' = {"status", "outcome", "selection"} /\ "COMPLETED" \in Statuses
  <2>1. "COMPLETED" \in Statuses
    BY DEF Statuses
  <2>. QED  BY <1>2, <1>3, <2>1, RunWritten
<1>5. revisions # <<>> /\ Len(revisions) \in DOMAIN revisions
  <2>1. revisions \in Seq(Range(revisions))
    BY <1>2 DEF RevisionsFit
  <2>. QED  BY <2>1
<1>6. Full(g)
  <2>1. run.outcome = "READ"
    BY <1>2, <1>3, <1>5 DEF OutcomeFits, Reads
  <2>. QED  BY <1>2, <2>1 DEF OutcomeFits
<1>7. TablesFit(g)' /\ ConflictsFit(g)' /\ Full(g)'
  BY <1>2, <1>3, <1>4, <1>6, TablesStay
<1>8. ReviewsFit' /\ [decision |-> "APPROVED", revision |-> v] \in Range(reviews')
  <2>1. "APPROVED" \in Decisions
    BY DEF Decisions
  <2>. QED  BY <1>2, <1>3, <2>1, ReviewAdded DEF RevisionsFit
<1>9. RevisionsFit(g)'
  BY <1>2, <1>3 DEF RevisionsFit, RevisionFits
<1>10. OutcomeFits(g)'
  BY <1>2, <1>3, <1>4, <1>7 DEF OutcomeFits
<1>11. PICK b : b = Bundle(reviews')
  OBVIOUS
<1>12. /\ b.report = revisions[Len(revisions)].report /\ b.revision = Len(revisions)
       /\ b.evidence = {sources[evidence[r].source].url : r \in DOMAIN evidence}
       /\ b.sources = {[index |-> s.index, url |-> s.url] : s \in Range(sources)}
       /\ b.chain = {[action |-> r.decision, hash |-> revisions[r.revision].report] : r \in Range(reviews')}
       /\ b.allowed = run.selection
  BY <1>11 DEF Bundle
<1>13. ApprovalChain(b)
  <2>1. PICK x : x = [decision |-> "APPROVED", revision |-> v]
    OBVIOUS
  <2>2. x \in Range(reviews') /\ x.decision = "APPROVED" /\ x.revision = v
    BY <1>8, <2>1
  <2>3. [action |-> x.decision, hash |-> revisions[x.revision].report] \in b.chain
    BY <1>12, <2>2
  <2>4. revisions[x.revision].report = b.report
    BY <1>3, <1>12, <2>2
  <2>. QED  BY <2>2, <2>3, <2>4 DEF ApprovalChain
<1>14. ArtifactFits(g)'
  <2>1. artifact' = <<b>> /\ artifact'[1] = b
    BY <1>3, <1>11
  <2>2. b.revision \in DOMAIN revisions' /\ b.report = revisions'[b.revision].report
    BY <1>3, <1>5, <1>12
  <2>3. /\ b.evidence = {sources'[evidence'[r].source].url : r \in DOMAIN evidence'}
        /\ b.sources = {[index |-> s.index, url |-> s.url] : s \in Range(sources')}
        /\ b.allowed = run'.selection
    BY <1>3, <1>4, <1>12
  <2>. QED  BY <1>7, <1>13, <2>1, <2>2, <2>3 DEF ArtifactFits
<1>15. RecordFits(g)'
  BY <1>7, <1>8, <1>9, <1>10, <1>14 DEF RecordFits
<1>16. RecordFits(graph)'
  BY <1>1, <1>3, <1>15 DEF RecordFits, TablesFit, ConflictsFit, RevisionsFit, RevisionFits, ArtifactFits, OutcomeFits, Full, Researched
<1>17. PendingFits'
  <2>1. pending.run # 1 /\ Researched(graph)
    BY <1>2, <1>5 DEF PendingFits
  <2>. QED  BY <1>2, <1>3, <2>1 DEF PendingFits, Researched
<1>. QED  BY <1>16, <1>17 DEF LedgerInv

LEMMA RecordKept == LedgerInv /\ [Next]_vars => LedgerInv'
<1>. SUFFICES ASSUME LedgerInv, [Next]_vars PROVE LedgerInv'
  OBVIOUS
<1>0. PICK g : g = graph
  OBVIOUS
<1>1. /\ PendingFits /\ RecordFits(g) /\ ReviewsFit /\ revisions \in Seq(Range(revisions))
      /\ OutcomeFits(g) /\ DOMAIN pending = {"run", "rework"}
  BY <1>0 DEF LedgerInv, RecordFits, RevisionsFit, PendingFits
<1>2. ASSUME NEW list \in Lists, NEW pairs \in Pairs(list), NEW report \in Reports, NEW read \in Reads,
             Research(list, pairs, report, read)
      PROVE  LedgerInv'
  <2>1. PICK h : Persists(h, report, read)
    BY <1>2, ResearchPersists
  <2>. QED  BY <2>1, PersistsKeeps
<1>3. ASSUME NEW report \in Reports, NEW read \in Reads, Resynthesize(report, read)
      PROVE  LedgerInv'
  <2>1. PICK h : Persists(h, report, read)
    BY <1>3, ReworkPersists
  <2>. QED  BY <2>1, PersistsKeeps
<1>4. ASSUME NEW kind \in DOMAIN pending, GraphFails(kind) PROVE LedgerInv'
  <2>1. Take(kind) /\ SetRun("FAILED", run.outcome) /\ UNCHANGED <<graph, tables>>
    BY <1>4 DEF GraphFails, PersistFailure
  <2>2. "FAILED" \in Statuses
    BY DEF Statuses
  <2>3. /\ run'.status = "FAILED" /\ run'.outcome = run.outcome /\ run'.selection = run.selection
        /\ DOMAIN run' = {"status", "outcome", "selection"}
    BY <1>1, <2>1, <2>2, RunWritten
  <2>. QED  BY <1>1, <2>1, <2>2, <2>3, TakenKeeps
<1>5. ASSUME NEW kind \in DOMAIN pending, TaskLost(kind) PROVE LedgerInv'
  BY <1>1, <1>5, TakenKeeps DEF TaskLost, OutcomeFits
<1>6. ASSUME NEW v \in DOMAIN revisions, Approve(v) PROVE LedgerInv'
  BY <1>6, ApproveKeeps
<1>7. ASSUME NEW v \in DOMAIN revisions, Rework(v) PROVE LedgerInv'
  <2>1. /\ Reviewed(v, "REWORK_REQUESTED") /\ SetRun("RUNNING", run.outcome)
        /\ pending' = [pending EXCEPT !.rework = @ + 1] /\ UNCHANGED <<graph, tables, artifact, revisions>>
    BY <1>7 DEF Rework, tables
  <2>2. "RUNNING" \in Statuses /\ "REWORK_REQUESTED" \in Decisions
    BY DEF Statuses, Decisions
  <2>3. /\ run'.status = "RUNNING" /\ run'.outcome = run.outcome /\ run'.selection = run.selection
        /\ DOMAIN run' = {"status", "outcome", "selection"}
    BY <1>1, <2>1, <2>2, RunWritten
  <2>4. ReviewsFit' /\ revisions # <<>>
    <3>1. ReviewsFit' /\ [decision |-> "REWORK_REQUESTED", revision |-> v] \in Range(reviews')
      BY <1>1, <2>1, <2>2, ReviewAdded
    <3>. QED  BY <3>1
  <2>. QED  BY <2>1, <2>2, <2>3, <2>4, ReviewerKeeps
<1>8. ASSUME NEW v \in DOMAIN revisions, Reject(v) PROVE LedgerInv'
  <2>1. Reviewed(v, "REJECTED") /\ UNCHANGED <<graph, pending, run, tables, artifact, revisions>>
    BY <1>8 DEF Reject, tables
  <2>2. "REJECTED" \in Decisions
    BY DEF Decisions
  <2>3. ReviewsFit' /\ revisions # <<>>
    <3>1. ReviewsFit' /\ [decision |-> "REJECTED", revision |-> v] \in Range(reviews')
      BY <1>1, <2>1, <2>2, ReviewAdded
    <3>. QED  BY <3>1
  <2>. QED  BY <1>1, <2>1, <2>3, ReviewerKeeps DEF OutcomeFits
<1>9. CASE Cancel
  <2>1. SetRun("CANCELLED", run.outcome) /\ UNCHANGED <<graph, pending, tables, reviews, artifact, revisions>>
    BY <1>9 DEF Cancel, tables
  <2>2. "CANCELLED" \in Statuses
    BY DEF Statuses
  <2>3. /\ run'.status = "CANCELLED" /\ run'.outcome = run.outcome /\ run'.selection = run.selection
        /\ DOMAIN run' = {"status", "outcome", "selection"}
    BY <1>1, <2>1, <2>2, RunWritten
  <2>4. ReviewsFit'
    BY <1>1, <2>1 DEF ReviewsFit
  <2>. QED  BY <2>1, <2>2, <2>3, <2>4, ReviewerKeeps
<1>10. CASE UNCHANGED vars
  <2>1. UNCHANGED <<graph, pending, run, tables, reviews, artifact, revisions>>
    BY <1>10 DEF vars, tables
  <2>2. ReviewsFit'
    BY <1>1, <2>1 DEF ReviewsFit
  <2>. QED  BY <1>1, <2>1, <2>2, ReviewerKeeps DEF OutcomeFits
<1>. QED  BY <1>2, <1>3, <1>4, <1>5, <1>6, <1>7, <1>8, <1>9, <1>10 DEF Next, Worker

LEMMA RecordHolds == Spec => []LedgerInv
BY RecordStarts, RecordKept, PTL DEF Spec

-----------------------------------------------------------------------------
(* EvidenceLedger: theorems *)

\* What the number of a source means.
LEMMA FullSources ==
    ASSUME NEW g, Full(g), NEW s \in DOMAIN sources
    PROVE  /\ sources[s].url \in Urls /\ sources[s].norm = Norm[sources[s].url]
           /\ sources[s].index \in DOMAIN g.sources /\ sources[s].index \in Nat \ {0}
           /\ Norm[g.sources[sources[s].index]] = sources[s].norm
<1>1. PICK list, numbered, table : list = g.evidence /\ numbered = g.sources /\ table = sources
  OBVIOUS
<1>2. list \in Seq(Items) /\ Numbered(numbered, list)
  BY <1>1, ResearchedList DEF Full
<1>3. SourcesOf(table, list, Len(list), numbered)
  BY <1>1 DEF Full, Holding
<1>4. PICK norm, url : norm = table[s].norm /\ url = table[s].url
  OBVIOUS
<1>5. url \in Urls /\ norm = Norm[url] /\ table[s].index = IndexOf(numbered, norm)
  <2>1. table \in Seq(SourceRows) /\ s \in DOMAIN table
    BY <1>1, <1>3 DEF SourcesOf
  <2>2. table[s] \in SourceRows
    BY <2>1
  <2>3. url \in Urls
    BY <1>4, <2>2 DEF SourceRows
  <2>. QED  BY <1>3, <1>4, <2>1, <2>3 DEF SourcesOf
<1>6. \E k \in DOMAIN numbered : Norm[numbered[k]] = norm
  <2>1. PICK i \in 1..Len(list) : url = list[i].url
    BY <1>1, <1>3, <1>4 DEF SourcesOf
  <2>2. i \in DOMAIN list
    BY <1>2, <2>1
  <2>3. PICK k \in DOMAIN numbered : numbered[k] = list[i].url
    BY <1>2, <2>2 DEF Numbered
  <2>. QED  BY <1>5, <2>1, <2>3
<1>7. numbered \in Seq(Urls)
  BY <1>2 DEF Numbered
<1>8. PICK n : n = IndexOf(numbered, norm)
  OBVIOUS
<1>9. n \in DOMAIN numbered /\ n \in Nat /\ Norm[numbered[n]] = norm
  BY <1>6, <1>7, <1>8, IndexIs
<1>10. n # 0
  BY <1>7, <1>9
<1>. QED  BY <1>1, <1>4, <1>5, <1>8, <1>9, <1>10

LEMMA LedgerTypes == LedgerInv => TypeOK
<1>. SUFFICES ASSUME LedgerInv PROVE TypeOK
  OBVIOUS
<1>1. PICK g : g = graph
  OBVIOUS
<1>2. /\ TablesFit(g) /\ RevisionsFit(g) /\ ReviewsFit /\ ArtifactFits(g) /\ OutcomeFits(g)
  BY <1>1 DEF LedgerInv, RecordFits
<1>3. /\ \A s \in Range(sources) : s.url \in Urls /\ s.norm = Norm[s.url] /\ s.index \in Nat \ {0}
      /\ \A s, u \in DOMAIN sources : sources[s].index = sources[u].index => s = u
      /\ \A r \in DOMAIN evidence : evidence[r].source \in DOMAIN sources /\ evidence[r].sequence = r
      /\ DOMAIN evidence \subseteq Nat
  <2>1. CASE sources = <<>> /\ evidence = <<>>
    <3>1. DOMAIN sources = {} /\ DOMAIN evidence = {}
      BY <2>1
    <3>. QED  BY <3>1 DEF Range
  <2>2. CASE Full(g)
    <3>1. \A s \in Range(sources) : s.url \in Urls /\ s.norm = Norm[s.url] /\ s.index \in Nat \ {0}
      BY <2>2, FullSources DEF Range
    <3>2. ASSUME NEW s \in DOMAIN sources, NEW u \in DOMAIN sources, sources[s].index = sources[u].index
          PROVE  s = u
      <4>1. sources[s].norm = sources[u].norm
        BY <2>2, <3>2, FullSources
      <4>. QED  BY <2>2, <4>1 DEF Full, Holding, SourcesOf
    <3>3. /\ evidence \in Seq(EvidenceRows) /\ DOMAIN evidence = 1..Len(evidence)
          /\ Len(evidence) = Len(g.evidence)
      BY <2>2 DEF Full, Holding, RowsOf
    <3>4. \A r \in DOMAIN evidence : evidence[r].source \in DOMAIN sources /\ evidence[r].sequence = r
      BY <2>2, <3>3 DEF Full, Holding, RowsOf
    <3>. QED  BY <3>1, <3>2, <3>3, <3>4
  <2>. QED  BY <1>2, <2>1, <2>2 DEF TablesFit
<1>4. \A v \in Range(revisions) : \A l \in v.links : l.row \in DOMAIN evidence
  <2>1. ASSUME NEW v \in Range(revisions), NEW l \in v.links PROVE l.row \in DOMAIN evidence
    <3>1. l.mark \in Markers /\ l.row # 0 /\ l.row = RowByIndex(sources, evidence)[l.mark]
      BY <1>2, <2>1 DEF RevisionsFit, RevisionFits
    <3>2. PICK n, x : n = l.mark /\ x = l.row
      OBVIOUS
    <3>3. x = 0 \/ x \in DOMAIN evidence
      BY <1>3, <3>1, <3>2, RowsLead
    <3>. QED  BY <3>1, <3>2, <3>3
  <2>. QED  BY <2>1
<1>5. \A v \in Range(reviews) : v.decision \in Decisions /\ v.revision \in DOMAIN revisions
  <2>1. ASSUME NEW r \in DOMAIN reviews PROVE reviews[r].decision \in Decisions
    <3>1. reviews[r] \in Decided
      BY <1>2 DEF ReviewsFit
    <3>. QED  BY <3>1 DEF Decided
  <2>. QED  BY <1>2, <2>1 DEF ReviewsFit, Range
<1>6. Len(artifact) <= 1
  <2>1. artifact = <<>> \/ artifact = <<artifact[1]>>
    BY <1>2 DEF ArtifactFits
  <2>2. Len(<<>>) = 0 /\ Len(<<artifact[1]>>) = 1
    OBVIOUS
  <2>3. Len(artifact) = 0 \/ Len(artifact) = 1
    BY <2>1, <2>2
  <2>4. 0 <= 1 /\ 1 <= 1
    OBVIOUS
  <2>. QED  BY <2>3, <2>4, Zenon
<1>7. run.status \in Statuses /\ run.outcome \in Reads \cup {"NONE"}
  BY <1>2 DEF OutcomeFits
<1>. QED  BY <1>3, <1>4, <1>5, <1>6, <1>7 DEF TypeOK

\* The tables keep their keys through every interleaving of writes, reworks,
\* reviews, losses and stops, for any lists, addresses and reports: a row's source
\* is there and its sequence is its place, no two sources carry one number, and a
\* link leads to a row (run_lifecycle.record_evidence and its kin).
THEOREM LedgerTyped == Spec => []TypeOK
BY RecordHolds, LedgerTypes, PTL

\* A number of the report leads to one row for good: two revisions that link it
\* link the same row, whether the write that made the link had read the
\* checkpoint or found the row in the tables.
THEOREM MarkersStay == Spec => []MarkersKeepTheirRow
<1>1. LedgerInv => MarkersKeepTheirRow
  <2>. SUFFICES ASSUME LedgerInv PROVE MarkersKeepTheirRow
    OBVIOUS
  <2>1. \A v \in Range(revisions) : RevisionFits(v, graph)
    BY DEF LedgerInv, RecordFits, RevisionsFit
  <2>. QED  BY <2>1 DEF MarkersKeepTheirRow, RevisionFits
<1>. QED  BY <1>1, RecordHolds, PTL

LEMMA ArtifactSound == LedgerInv => ArtifactVerifies
<1>. SUFFICES ASSUME LedgerInv, artifact # <<>> PROVE ArtifactVerifies
  BY DEF ArtifactVerifies
<1>1. PICK g, b, v : g = graph /\ b = artifact[1] /\ v = revisions[b.revision]
  OBVIOUS
<1>2. /\ Full(g) /\ b.revision \in DOMAIN revisions /\ b.report = v.report
      /\ b.evidence = {sources[evidence[r].source].url : r \in DOMAIN evidence}
      /\ b.sources = {[index |-> s.index, url |-> s.url] : s \in Range(sources)}
      /\ b.allowed = run.selection /\ ApprovalChain(b)
  BY <1>1 DEF LedgerInv, RecordFits, ArtifactFits
<1>3. v.basis = g.sources
  BY <1>1, <1>2 DEF LedgerInv, RecordFits, RevisionsFit, RevisionFits, Range
<1>4. ASSUME NEW x \in b.sources
      PROVE  \E s \in DOMAIN sources : x.index = sources[s].index /\ x.url = sources[s].url
  <2>1. PICK y \in Range(sources) : x = [index |-> y.index, url |-> y.url]
    BY <1>2
  <2>2. PICK s \in DOMAIN sources : y = sources[s]
    BY <2>1 DEF Range
  <2>. QED  BY <2>1, <2>2
<1>5. \A x \in b.sources : Norm[x.url] = Norm[v.basis[x.index]]
  <2>1. ASSUME NEW x \in b.sources PROVE Norm[x.url] = Norm[v.basis[x.index]]
    <3>1. PICK s \in DOMAIN sources : x.index = sources[s].index /\ x.url = sources[s].url
      BY <1>4
    <3>. QED  BY <1>2, <1>3, <3>1, FullSources
  <2>. QED  BY <2>1
<1>6. ASSUME WellCited(v) PROVE Verify(b)
  <2>1. PICK list, numbered : list = g.evidence /\ numbered = g.sources
    OBVIOUS
  <2>2. list \in Seq(Items) /\ Len(list) \in Nat /\ DOMAIN list = 1..Len(list) /\ Numbered(numbered, list)
    <3>1. list \in Seq(Items) /\ Numbered(numbered, list)
      BY <1>2, <2>1, ResearchedList DEF Full
    <3>. QED  BY <3>1
  <2>3. /\ Cited(b.report, FALSE) \subseteq DOMAIN numbered
        /\ \A m, n \in DOMAIN numbered : Norm[numbered[m]] = Norm[numbered[n]] => m = n
    <3>1. IsInjective([n \in DOMAIN numbered |-> Norm[numbered[n]]])
      BY <1>3, <1>6, <2>1 DEF WellCited
    <3>2. \A m, n \in DOMAIN numbered : Norm[numbered[m]] = Norm[numbered[n]] => m = n
      BY <3>1 DEF IsInjective
    <3>. QED  BY <1>2, <1>3, <1>6, <2>1, <3>2 DEF WellCited
  <2>4. ASSUME NEW n \in DOMAIN numbered
        PROVE  \E x \in b.sources : x.index = n /\ x.url \in b.evidence
    <3>1. PICK i \in DOMAIN list : numbered[n] = list[i].url
      BY <2>2 DEF Numbered
    <3>2. i \in DOMAIN evidence /\ i \in 1..Len(list)
      <4>1. evidence \in Seq(EvidenceRows) /\ Len(evidence) = Len(list)
        BY <1>2, <2>1 DEF Full, Holding, RowsOf
      <4>. QED  BY <2>2, <4>1
    <3>3. PICK s : s = evidence[i].source
      OBVIOUS
    <3>4. s \in DOMAIN sources /\ sources[s].norm = Norm[numbered[n]]
      BY <1>2, <2>1, <3>1, <3>2, <3>3 DEF Full, Holding, RowsOf
    <3>5. sources[s].index \in DOMAIN numbered /\ Norm[numbered[sources[s].index]] = sources[s].norm
      BY <1>2, <2>1, <3>4, FullSources
    <3>6. sources[s].index = n
      BY <2>3, <3>4, <3>5
    <3>7. PICK x : x = [index |-> sources[s].index, url |-> sources[s].url]
      OBVIOUS
    <3>8. sources[s] \in Range(sources)
      BY <3>4 DEF Range
    <3>9. x \in b.sources
      BY <1>2, <3>7, <3>8
    <3>10. sources[s].url \in b.evidence
      BY <1>2, <3>2, <3>3
    <3>. QED  BY <3>6, <3>7, <3>9, <3>10
  <2>5. CitationResolution(b)
    <3>1. \A n \in Cited(b.report, FALSE) : n \in {x.index : x \in b.sources}
      BY <2>3, <2>4, ZenonT(60)
    <3>. QED  BY <3>1 DEF CitationResolution
  <2>6. Cited(b.report, TRUE) \subseteq Cited(b.report, FALSE)
    BY DEF Cited
  <2>7. ClaimEvidenceLinkage(b)
    BY <2>3, <2>4, <2>6 DEF ClaimEvidenceLinkage
  <2>8. CorpusSelection(b)
    <3>1. ASSUME b.allowed # {}, NEW x \in b.sources PROVE x.url \in b.allowed
      <4>1. PICK s \in DOMAIN sources : x.url = sources[s].url
        BY <1>4
      <4>. QED  BY <1>2, <3>1, <4>1 DEF Full
    <3>. QED  BY <3>1 DEF CorpusSelection
  <2>. QED  BY <1>2, <2>5, <2>7, <2>8 DEF Verify
<1>. QED  BY <1>1, <1>5, <1>6 DEF ArtifactVerifies

\* The frozen artifact of a report that cites only numbers of its list passes the
\* verifier shipped with the product, and its numbers mean what they meant in the
\* report: nothing persisted, lost or left unread after the approval, nor an unread
\* persist before it, can change that.
THEOREM ArtifactPasses == Spec => []ArtifactVerifies
BY RecordHolds, ArtifactSound, PTL

\* As many rows of an identity as the list has items of it.
LEMMA KeptIsListed ==
    ASSUME NEW table, NEW rows, NEW list \in Seq(Items), NEW numbered,
           Holding(table, rows, list, Len(list), numbered), NEW k
    PROVE  Kept(table, rows, k) = Listed(list, k) /\ Listed(list, k) \in Nat
<1>1. PICK L : L = Len(list)
  OBVIOUS
<1>2. L \in Nat /\ DOMAIN list = 1..L /\ rows \in Seq(EvidenceRows) /\ DOMAIN rows = 1..L
  <2>1. L \in Nat /\ DOMAIN list = 1..L
    BY <1>1
  <2>2. rows \in Seq(EvidenceRows) /\ Len(rows) = L
    BY <1>1 DEF Holding, RowsOf
  <2>. QED  BY <2>1, <2>2
<1>3. ASSUME NEW r \in 1..L
      PROVE  <<table[rows[r].source].norm, rows[r].text>> = Identity(list[r])
  BY <1>1, <1>3 DEF Holding, RowsOf, Identity
<1>4. {r \in DOMAIN rows : <<table[rows[r].source].norm, rows[r].text>> = k}
        = {i \in DOMAIN list : Identity(list[i]) = k}
  BY <1>2, <1>3
<1>5. Kept(table, rows, k) = Listed(list, k)
  BY <1>4 DEF Kept, Listed
<1>6. Listed(list, k) \in Nat
  <2>1. IsFiniteSet(1..L)
    BY <1>2, FS_Interval
  <2>2. {i \in DOMAIN list : Identity(list[i]) = k} \subseteq 1..L
    BY <1>2
  <2>3. IsFiniteSet({i \in DOMAIN list : Identity(list[i]) = k})
    BY <2>1, <2>2, FS_Subset
  <2>. QED  BY <2>3, FS_CardinalityType DEF Listed
<1>. QED  BY <1>5, <1>6

\* The empty sequence and a sequence itself begin a sequence.
LEMMA Begins ==
    ASSUME NEW S, NEW t \in Seq(S)
    PROVE  IsPrefix(<<>>, t) /\ IsPrefix(t, t)
<1>1. IsPrefix(t, t)
  <2>1. Len(t) \in Nat
    OBVIOUS
  <2>. QED  BY <2>1 DEF IsPrefix
<1>2. Len(<<>>) = 0 /\ Len(<<>>) <= Len(t)
  OBVIOUS
<1>3. SubSeq(<<>>, 1, 0) = <<>> /\ SubSeq(t, 1, 0) = <<>>
  BY SubSeqEmpty
<1>. QED  BY <1>1, <1>2, <1>3 DEF IsPrefix

\* What a persist may do to the tables.
RowsGrow ==
    /\ IsPrefix(evidence, evidence') /\ IsPrefix(sources, sources')
    /\ \A k \in Range(Norm) \X Texts :
         Kept(sources', evidence', k) = Max({Kept(sources, evidence, k), Listed(graph'.evidence, k)})

Idempotent ==
    /\ RowsGrow
    /\ \A c \in Range(conflicts') : HowMany(conflicts', c) = 1

LEMMA ReadIsIdempotent ==
    ASSUME NEW g, graph' = g, TablesFit(g), ReadLeaves(g)
    PROVE  Idempotent
<1>1. PICK list, numbered, t, rows :
         list = g.evidence /\ numbered = g.sources /\ t = sources' /\ rows = evidence'
  OBVIOUS
<1>2. Full(g)' /\ Researched(g)
  BY DEF ReadLeaves, Full, Researched
<1>3. list \in Seq(Items) /\ list # <<>> /\ Holding(t, rows, list, Len(list), numbered)
  BY <1>1, <1>2, ResearchedList DEF Full
<1>4. t \in Seq(SourceRows) /\ rows \in Seq(EvidenceRows) /\ Len(rows) = Len(list)
  BY <1>3 DEF Holding, SourcesOf, RowsOf
<1>5. ASSUME sources = <<>>, evidence = <<>> PROVE RowsGrow
  <2>1. IsPrefix(evidence, rows) /\ IsPrefix(sources, t)
    BY <1>4, <1>5, Begins
  <2>2. ASSUME NEW k PROVE Kept(t, rows, k) = Max({Kept(sources, evidence, k), Listed(list, k)})
    <3>1. Kept(t, rows, k) = Listed(list, k) /\ Listed(list, k) \in Nat
      BY <1>3, KeptIsListed
    <3>2. Kept(sources, evidence, k) = 0
      <4>1. {r \in DOMAIN evidence : <<sources[evidence[r].source].norm, evidence[r].text>> = k} = {}
        <5>1. DOMAIN evidence = {}
          BY <1>5
        <5>. QED  BY <5>1
      <4>. QED  BY <4>1, FS_EmptySet DEF Kept
    <3>3. PICK c : c = Listed(list, k)
      OBVIOUS
    <3>4. Max({0, c}) = c
      BY <3>1, <3>3, MaxOfTwo
    <3>. QED  BY <3>1, <3>2, <3>3, <3>4
  <2>. QED  BY <1>1, <2>1, <2>2 DEF RowsGrow
<1>6. ASSUME UNCHANGED <<sources, evidence>> PROVE RowsGrow
  <2>1. IsPrefix(evidence, rows) /\ IsPrefix(sources, t)
    BY <1>1, <1>4, <1>6, Begins
  <2>2. ASSUME NEW k PROVE Kept(t, rows, k) = Max({Kept(sources, evidence, k), Listed(list, k)})
    <3>1. Kept(t, rows, k) = Listed(list, k) /\ Listed(list, k) \in Nat
      BY <1>3, KeptIsListed
    <3>2. Kept(sources, evidence, k) = Kept(t, rows, k)
      BY <1>1, <1>6
    <3>3. PICK c : c = Listed(list, k)
      OBVIOUS
    <3>4. Max({c, c}) = c
      BY <3>1, <3>3, MaxOfTwo
    <3>. QED  BY <3>1, <3>2, <3>3, <3>4
  <2>. QED  BY <1>1, <2>1, <2>2 DEF RowsGrow
<1>7. RowsGrow
  BY <1>5, <1>6 DEF ReadLeaves
<1>8. ASSUME NEW c \in Range(conflicts') PROVE HowMany(conflicts', c) = 1
  <2>1. PICK after : after = conflicts'
    OBVIOUS
  <2>2. after = <<>> \/ after = <<after[1]>>
    BY <2>1 DEF ReadLeaves, ConflictsFit
  <2>3. PICK i \in DOMAIN after : c = after[i]
    BY <2>1 DEF Range
  <2>4. after = <<c>>
    <3>1. after # <<>>
      BY <2>3
    <3>2. after = <<after[1]>> /\ i = 1
      BY <2>2, <2>3, <3>1
    <3>. QED  BY <2>3, <3>2
  <2>5. {j \in DOMAIN after : SameConflict(after[j], c)} = {1}
    BY <2>4 DEF SameConflict
  <2>. QED  BY <2>1, <2>5, FS_Singleton DEF HowMany
<1>. QED  BY <1>7, <1>8 DEF Idempotent

LEMMA PersistsOnce ==
    ASSUME NEW g, NEW report, NEW read, Persists(g, report, read)
    PROVE  Idempotent \/ UNCHANGED <<evidence, conflicts>>
<1>1. /\ graph' = g /\ Researched(g) /\ RecordFits(g) /\ TablesFit(g) /\ Persist(report, read)
  BY DEF Persists, RecordFits
<1>2. CASE read # "READ"
  BY <1>1, <1>2 DEF Persist, PersistUnread
<1>3. CASE read = "READ" /\ Violates(g.evidence)
  BY <1>1, <1>3 DEF Persist, PersistRefused, tables
<1>4. CASE read = "READ" /\ ~ Violates(g.evidence)
  <2>1. PICK w : w = Stored(g.evidence, g.sources) /\ PersistRead(report, w)
    BY <1>1, <1>4 DEF Persist
  <2>2. ReadLeaves(g)
    BY <1>1, <1>4, <2>1, ReadWrite
  <2>. QED  BY <1>1, <2>2, ReadIsIdempotent
<1>. QED  BY <1>2, <1>3, <1>4

LEMMA StepsOnce == LedgerInv /\ [Next]_vars => Idempotent \/ UNCHANGED <<evidence, conflicts>>
<1>. SUFFICES ASSUME LedgerInv, [Next]_vars PROVE Idempotent \/ UNCHANGED <<evidence, conflicts>>
  OBVIOUS
<1>1. ASSUME NEW list \in Lists, NEW pairs \in Pairs(list), NEW report \in Reports, NEW read \in Reads,
             Research(list, pairs, report, read)
      PROVE  Idempotent \/ UNCHANGED <<evidence, conflicts>>
  <2>1. PICK h : Persists(h, report, read)
    BY <1>1, ResearchPersists
  <2>. QED  BY <2>1, PersistsOnce
<1>2. ASSUME NEW report \in Reports, NEW read \in Reads, Resynthesize(report, read)
      PROVE  Idempotent \/ UNCHANGED <<evidence, conflicts>>
  <2>1. PICK h : Persists(h, report, read)
    BY <1>2, ReworkPersists
  <2>. QED  BY <2>1, PersistsOnce
<1>3. ASSUME NEW kind \in DOMAIN pending, GraphFails(kind) \/ TaskLost(kind)
      PROVE  UNCHANGED <<evidence, conflicts>>
  BY <1>3 DEF GraphFails, PersistFailure, TaskLost, tables
<1>4. ASSUME NEW v \in DOMAIN revisions, Approve(v) \/ Rework(v) \/ Reject(v)
      PROVE  UNCHANGED <<evidence, conflicts>>
  BY <1>4 DEF Approve, Rework, Reject, tables
<1>5. CASE Cancel \/ UNCHANGED vars
  BY <1>5 DEF Cancel, vars, tables
<1>. QED  BY <1>1, <1>2, <1>3, <1>4, <1>5 DEF Next, Worker

\* Persisting the same state again changes nothing: whatever a list is written
\* over, there are as many rows of every item as the list has, the rows that were
\* there stay, and a conflict found again is not stored twice (record_evidence,
\* record_contradictions), for any list and any number of reworks.
THEOREM WritesOnce == Spec => StoredOnce
<1>1. LedgerInv /\ [Next]_vars =>
        [/\ IsPrefix(evidence, evidence') /\ IsPrefix(sources, sources')
         /\ \A k \in Range(Norm) \X Texts :
              Kept(sources', evidence', k) =
                Max({Kept(sources, evidence, k), Listed(graph'.evidence, k)})
         /\ \A c \in Range(conflicts') : HowMany(conflicts', c) = 1]_<<evidence, conflicts>>
  BY StepsOnce DEF Idempotent, RowsGrow
<1>. QED  BY <1>1, RecordHolds, PTL DEF Spec, StoredOnce

=============================================================================
