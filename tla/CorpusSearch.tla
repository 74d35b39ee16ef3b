----------------------------- MODULE CorpusSearch -----------------------------
(***************************************************************************)
(* One search of a project's corpus, from the choice of the embedder to the   *)
(* passages it offers or the reason it gives (adapters.embeddings_for,         *)
(* CorpusStore.search, ScopedCorpus).  Files are indexed under the model of    *)
(* their day; the server of local models comes and goes, and what a probe      *)
(* found is believed for a while after.                                      *)
(*                                                                           *)
(* How near a passage is to the question is a number, 0 for not at all, and    *)
(* stands for the vectors; every model makes vectors of one width.  Ranking    *)
(* works on the rows one statement returned, so it is one step with it; ties   *)
(* go either way.  A behaviour ends with its search.                          *)
(***************************************************************************)
EXTENDS Integers, FiniteSets, Sequences, SequencesExt, Filtering

CONSTANTS
    Deployments,  \* settings: [fake, choice, configured, keyed, host]
    Installs,     \* what a local server may have: sequences of models
    Nearness,     \* what an upload may hold: the nearness of its passages
    Mosts,        \* max_results a search may ask for
    Deep,         \* candidates looked at for each result asked for
    MaxFiles,     \* bound: versions of documents
    MaxSwitches   \* bound: times the local server changes

ASSUME SearchAssumption ==
    /\ {MaxFiles, MaxSwitches} \subseteq Nat /\ Deep \in Nat \ {0}
    /\ Mosts \subseteq Nat \ {0} /\ Nearness \subseteq Seq(Nat) /\ Installs \subseteq Seq(STRING)
    /\ \A d \in Deployments :
          {d.host, d.configured} \subseteq STRING /\ d.choice \in {"none", "hosted", "local", "auto"}

VARIABLES
    deployment, \* the settings
    serving,    \* models on the local server, <<>> when it is down
    switches,   \* times it has changed
    probed,     \* the cached probe: "stale", or the model it chose, "none" for no model
    files,      \* versions: [origin, current]
    passages,   \* the index: [file, near, model]
    asked,      \* the search: its mode, selection and embedder; or [mode |-> "none"]
    offered,    \* passages it offers, best first
    said,       \* "", "hits" or why there are none
    sent        \* history: where the question was sent to be embedded

searchVars == <<deployment, serving, switches, probed, files, passages, asked, offered, said, sent>>

NoSearch == [mode |-> "none"]
Everything == {}  \* a selection is never empty

-----------------------------------------------------------------------------
(* The embedder *)

\* _local_embedding_model: the configured one if it is there, or the first.
LocalModel ==
    IF probed # "stale" THEN probed
    ELSE IF serving = <<>> THEN "none"
    ELSE IF Contains(serving, deployment.configured) THEN deployment.configured
    ELSE Head(serving)

NoEmbeddings  == [kind |-> "none", model |-> "none", host |-> "here"]
Fake          == [kind |-> "fake", model |-> "fake", host |-> "here"]
Local(model)  == [kind |-> "local", model |-> model, host |-> deployment.host]
Hosted        == IF deployment.keyed THEN [kind |-> "hosted", model |-> "hosted", host |-> "provider"]
                 ELSE NoEmbeddings

\* embeddings_for: what the settings name, or the local server before a provider.
Embedder ==
    IF deployment.fake THEN Fake
    ELSE CASE deployment.choice = "none"   -> NoEmbeddings
           [] deployment.choice = "hosted" -> Hosted
           [] deployment.choice = "local"  ->
                 Local(IF LocalModel = "none" THEN deployment.configured ELSE LocalModel)
           [] deployment.choice = "auto"   ->
                 IF LocalModel = "none" THEN Hosted ELSE Local(LocalModel)

\* The probe is made, and believed, where the choice depends on it.
Probes == ~deployment.fake /\ deployment.choice \in {"local", "auto"}
Probed == probed' = IF Probes THEN LocalModel ELSE probed

\* Whether a call of it is answered; a provider may fail at any time.
Answering(e) ==
    CASE e.kind = "none"   -> {FALSE}
      [] e.kind = "fake"   -> {TRUE}
      [] e.kind = "local"  -> {Contains(serving, e.model)}
      [] e.kind = "hosted" -> BOOLEAN

\* Mutant: an Ollama address is taken for this machine, wherever it points.
IsLocalByName(e) == e.kind # "hosted"

\* is_local: only the endpoint decides.
IsLocal(e) == e.kind \in {"none", "fake"} \/ e.host = "here"

Switch ==
    /\ said = "" /\ switches < MaxSwitches
    /\ \E models \in Installs \ {serving} : serving' = models
    /\ switches' = switches + 1
    /\ UNCHANGED <<deployment, probed, files, passages, asked, offered, said, sent>>

ProbeLapses ==
    /\ said = "" /\ probed # "stale"
    /\ probed' = "stale"
    /\ UNCHANGED <<deployment, serving, switches, files, passages, asked, offered, said, sent>>

-----------------------------------------------------------------------------
(* The corpus *)

Indexed(file, near, model) == [i \in DOMAIN near |-> [file |-> file, near |-> near[i], model |-> model]]

\* A new file, or the next version of one, is indexed by the embedder of the day.
Index ==
    /\ said = "" /\ Len(files) < MaxFiles
    /\ TRUE \in Answering(Embedder)
    /\ \E origin \in {"uploaded", "generated"}, near \in Nearness,
          of \in {0} \cup {f \in DOMAIN files : files[f] = [origin |-> "uploaded", current |-> TRUE]} :
          /\ origin = "generated" => of = 0
          /\ files' = [f \in 1 .. Len(files) + 1 |->
                IF f = Len(files) + 1 THEN [origin |-> origin, current |-> TRUE]
                ELSE IF f = of THEN [files[f] EXCEPT !.current = FALSE] ELSE files[f]]
          /\ passages' = passages \o Indexed(Len(files) + 1, near, Embedder.model)
    /\ Probed
    /\ UNCHANGED <<deployment, serving, switches, asked, offered, said, sent>>

\* A version is removed with its passages.
RemoveVersion ==
    /\ said = ""
    /\ \E f \in DOMAIN files :
          /\ files[f].origin # "removed"
          /\ files' = [files EXCEPT ![f] = [origin |-> "removed", current |-> FALSE]]
          /\ passages' = Among(passages, {p \in ToSet(passages) : p.file # f})
    /\ UNCHANGED <<deployment, serving, switches, probed, asked, offered, said, sent>>

-----------------------------------------------------------------------------
(* The search *)

\* A search begins with the embedder of that moment.
StartSearch(mode, chosen, refusal) ==
    /\ said = "" /\ asked = NoSearch
    /\ \E most \in Mosts :
          asked' = [mode |-> mode, chosen |-> chosen, most |-> most, embedder |-> Embedder, vector |-> FALSE]
    /\ said' = refusal
    /\ Probed
    /\ UNCHANGED <<deployment, serving, switches, files, passages, offered, sent>>

\* A run opens its corpus for the selection it froze, or for all, and is refused
\* at once what a provider would embed (_corpus_port).
OpenForRun ==
    \E chosen \in SUBSET {f \in DOMAIN files : files[f] = [origin |-> "uploaded", current |-> TRUE]} :
        StartSearch("run", chosen, IF Embedder.kind \in {"none", "hosted"} THEN "remote" ELSE "")

\* A chat turn searches all uploads as a run would (corpus_excerpts), and saved
\* reports as nothing else does.
AskInChat  == StartSearch("chat", Everything, "")
AskReports == StartSearch("reports", Everything, "")

\* The question is embedded, but not off this machine for a run or a chat.
EmbedQuestion ==
    /\ said = "" /\ asked # NoSearch /\ ~asked.vector
    /\ IF asked.mode # "reports" /\ ~IsLocal(asked.embedder)
       THEN said' = "remote" /\ UNCHANGED <<asked, sent>>
       ELSE /\ sent' = IF asked.embedder.kind = "none" THEN sent ELSE sent \cup {asked.embedder.host}
            /\ \E answers \in Answering(asked.embedder) :
                  /\ asked' = [asked EXCEPT !.vector = answers]
                  /\ said' = IF answers THEN "" ELSE "embedder"
    /\ UNCHANGED <<deployment, serving, switches, probed, files, passages, offered>>

Of(origin) == {p \in DOMAIN passages : files[passages[p].file].origin = origin}
UpToDate   == {p \in DOMAIN passages : files[passages[p].file].current}
Alike      == {p \in DOMAIN passages : passages[p].model = asked.embedder.model}
Selected     == {p \in DOMAIN passages : passages[p].file \in asked.chosen}

\* search_generated_reports looks at saved reports and nothing else.
SavedReports == Alike \cap Of("generated")

\* What may be offered: a selection names versions, and one that was replaced
\* since is still what the run may read.
Rows ==
    IF asked.mode = "reports" THEN SavedReports
    ELSE IF asked.chosen = Everything THEN Alike \cap Of("uploaded") \cap UpToDate
    ELSE Alike \cap Of("uploaded") \cap Selected

\* Why there is nothing to look at, as the code tells it.
Reason ==
    IF asked.mode = "reports" THEN "hits"
    ELSE IF asked.chosen # Everything
    THEN IF \A f \in asked.chosen : files[f].origin # "uploaded" THEN "gone"
         ELSE IF Of("uploaded") \cap Selected # {} THEN "other model"
         ELSE "no text"
    ELSE IF (Alike \cap Of("uploaded")) \ UpToDate # {} THEN "superseded"
    ELSE IF Of("uploaded") \cap UpToDate # {} THEN "other model"
    ELSE IF \E f \in DOMAIN files : files[f].origin = "generated" THEN "only reports"
    ELSE "empty"

\* ScopedCorpus: a small selection may give several passages of a file.
PerFile ==
    IF asked.mode = "reports" THEN asked.most
    ELSE IF asked.chosen = Everything THEN 1
    ELSE (asked.most + Cardinality(asked.chosen) - 1) \div Cardinality(asked.chosen)

Taken(list, p) == Cardinality({i \in DOMAIN list : passages[list[i]].file = passages[p].file})

\* The nearest of the rows; ties go by their place, either way.
Nearest(rows, up) ==
    CHOOSE p \in rows : \A q \in rows \ {p} :
        \/ passages[p].near > passages[q].near
        \/ passages[p].near = passages[q].near /\ (p < q) = up

\* None that is not near, so many in all and of each file.
Fits(list, p) == passages[p].near > 0 /\ Len(list) < asked.most /\ Taken(list, p) < PerFile

\* The next row is looked at, and taken when it fits.
Look(r, up) ==
    LET p == Nearest(r.left, up)
    IN  [left |-> r.left \ {p}, list |-> IF Fits(r.list, p) THEN Append(r.list, p) ELSE r.list]

\* Nearest first, so many of them.
Ranked(up, many) ==
    LET looked[n \in 0 .. many] == IF n = 0 THEN [left |-> Rows, list |-> <<>>] ELSE Look(looked[n - 1], up)
    IN  looked[many].list

\* The rows are read and ranked, the nearest Deep times as many as were asked for.
Rank ==
    /\ said = "" /\ asked # NoSearch /\ asked.vector
    /\ IF Rows = {} THEN said' = Reason /\ UNCHANGED offered
       ELSE /\ said' = "hits"
            /\ LET all  == Cardinality(Rows)
                   many == IF all < Deep * asked.most THEN all ELSE Deep * asked.most
               IN  \E up \in BOOLEAN : offered' = Ranked(up, many)
    /\ UNCHANGED <<deployment, serving, switches, probed, files, passages, asked, sent>>

SearchInit ==
    /\ deployment \in Deployments /\ serving \in Installs /\ switches = 0 /\ probed = "stale"
    /\ files = <<>> /\ passages = <<>> /\ asked = NoSearch /\ offered = <<>> /\ said = "" /\ sent = {}

SearchNext ==
    \/ Switch \/ ProbeLapses
    \/ Index \/ RemoveVersion
    \/ OpenForRun \/ AskInChat \/ AskReports
    \/ EmbedQuestion \/ Rank

SearchSpec == SearchInit /\ [][SearchNext]_searchVars

-----------------------------------------------------------------------------
(* Properties *)

Near(p) == passages[p].near
FileOfP(p) == passages[p].file
Outranked(p, others) == \A q \in others : Near(q) >= Near(p)

\* What a run or a chat may be told of: an upload, current unless it was chosen.
MayBeTold(p) ==
    /\ files[FileOfP(p)].origin = "uploaded"
    /\ IF asked.chosen = Everything THEN files[FileOfP(p)].current ELSE FileOfP(p) \in asked.chosen

Offerable ==
    {p \in DOMAIN passages : MayBeTold(p) /\ Near(p) > 0 /\ passages[p].model = asked.embedder.model}

\* "Zero egress", "never evidence", "two chunks from the same file are not two
\* independent sources": the question of a run or a chat is embedded on this machine or
\* not at all, whatever server a local name points to; what is offered it stands in
\* uploads it may read, indexed by the model that read the question, no file over its
\* share; and nothing nearer is left out but for its file's share, or crowded out by
\* Deep times as many nearer passages as were asked for
\* (CorpusStore.search, _rank, ScopedCorpus).
SearchKeepsItsBounds ==
    asked # NoSearch /\ asked.mode # "reports" =>
        /\ sent \subseteq {"here"}
        /\ ToSet(offered) \subseteq Offerable
        /\ \A i \in DOMAIN offered :
              Cardinality({j \in DOMAIN offered : FileOfP(offered[j]) = FileOfP(offered[i])}) <= PerFile
        /\ said = "hits" =>
              \A p \in Offerable \ ToSet(offered) :
                  LET mine == {q \in ToSet(offered) : FileOfP(q) = FileOfP(p)}
                  IN  \/ Len(offered) = asked.most /\ Outranked(p, ToSet(offered))
                      \/ Cardinality(mine) = PerFile /\ Outranked(p, mine)
                      \/ Cardinality({q \in Offerable : Near(q) >= Near(p)}) > Deep * asked.most

=============================================================================
