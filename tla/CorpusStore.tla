------------------------------ MODULE CorpusStore ------------------------------
(***************************************************************************)
(* One project's corpus: versions of documents, folders, and the selection *)
(* a run froze.  Handlers run on threads, each statement on a connection   *)
(* of its own: Python's sqlite3 opens a transaction at the first write, so *)
(* what an operation reads before it is a step of its own.                 *)
(***************************************************************************)
EXTENDS Naturals, Sequences, FiniteSets

CONSTANTS Requests,    \* concurrent requests, and workers saving a report
          Names,       \* filenames, and display names
          Contents,    \* what a file may hold
          Titles,      \* names of folders
          Paths,       \* folder paths an upload may carry, outermost first
          Offered,     \* operations offered
          MaxVersion   \* bound: changes counted in corpus_meta

ASSUME CorpusAssumption ==
    /\ Paths \subseteq Seq(Titles) /\ <<>> \in Paths
    /\ MaxVersion \in Nat

VARIABLES
    docs,     \* corpus_documents: the versions of every logical document
    folders,  \* corpus_folders: id -> parent and name
    members,  \* corpus_memberships: which document is in which folder
    version,  \* corpus_meta.version
    request,  \* where each request is
    run,      \* the selection one run froze, and what it read on the way
    minted,   \* ids handed out so far (uuid4 never repeats one)
    removed   \* history: versions a user removed

vars == <<docs, folders, members, version, request, run, minted, removed>>

-----------------------------------------------------------------------------

Root    == 0
NoRequest == [pc |-> "idle"]
NoRun   == [pc |-> "none", keys |-> {}, ids |-> {}, version |-> 0]
Ids     == 1 .. minted
Folders == DOMAIN folders

Ids_of(versions) == {d.id : d \in versions}
OfKey(key)       == {d \in docs : d.key = key}
Current(key)     == {d \in OfKey(key) : d.current}
Keys             == {d.key : d \in docs}

\* What a whole-corpus search may offer: saved reports never are evidence.
Visible == {d \in docs : d.current /\ d.origin = "uploaded"}

\* The folders of a set and every folder beneath: the least set closed under
\* children.
Descendants(fs) ==
    {f \in Folders : \A closed \in SUBSET Folders :
        (fs \cap Folders \subseteq closed
         /\ \A g \in Folders : folders[g].parent \in closed => g \in closed) => f \in closed}

\* The two unique indexes on a folder's name in its place.
NameTaken(name, parent, but) ==
    \E g \in Folders \ {but} : folders[g] = [parent |-> parent, name |-> name]

Exists(f) == f = Root \/ f \in Folders

Finish(r)   == request' = [request EXCEPT ![r] = NoRequest]
Goto(r, at) == request' = [request EXCEPT ![r] = at]
Counts      == version < MaxVersion /\ version' = version + 1
At(r, pc)   == request[r].pc = pc

-----------------------------------------------------------------------------
(* Uploads *)

\* _prepare_sync on a thread: with a key, an unknown document is refused and the
\* bytes of its current version are skipped; without one, a filename and bytes
\* the corpus has seen in any version are.
Seen(key, name, bytes) ==
    IF key = Root
    THEN {d \in docs : d.name = name /\ d.bytes = bytes}
    ELSE {d \in Current(key) : d.bytes = bytes}

File(id, key, path) == [pc |-> "filing", id |-> id, key |-> key, path |-> path, at |-> Root]

Prepare(r) ==
    /\ At(r, "idle")
    /\ "ingest" \in Offered
    /\ \E key \in Keys \cup {Root}, name \in Names, bytes \in Contents, path \in Paths,
          origin \in {"uploaded", "generated"} :
         /\ origin = "generated" => key = Root /\ path = <<>>
         /\ IF Seen(key, name, bytes) = {}
            THEN Goto(r, [pc |-> "embedding", key |-> key, name |-> name, bytes |-> bytes,
                          path |-> path, origin |-> origin])
            ELSE /\ path # <<>>
                 /\ \E d \in Seen(key, name, bytes) : Goto(r, File(d.id, Root, path))
    /\ UNCHANGED <<docs, folders, members, version, run, minted, removed>>

\* The embedder is down, or answers with the wrong number or width of vectors.
EmbedFails(r) ==
    /\ At(r, "embedding")
    /\ Finish(r)
    /\ UNCHANGED <<docs, folders, members, version, run, minted, removed>>

Highest(key) ==
    IF OfKey(key) = {} THEN 0
    ELSE CHOOSE n \in {d.version : d \in OfKey(key)} : \A d \in OfKey(key) : d.version <= n

\* The version a write adds: number one of a new document, or the next of one.
Added(w) ==
    LET key == IF w.key = Root THEN minted + 2 ELSE w.key
    IN  [id |-> minted + 1, key |-> key, version |-> Highest(key) + 1, name |-> w.name,
         bytes |-> w.bytes, origin |-> w.origin, current |-> TRUE]

Superseded(d, key) == IF d.key = key THEN [d EXCEPT !.current = FALSE] ELSE d

\* Mutant: the predecessor is left as it was.
WithBoth(w) == docs \cup {Added(w)}

\* Mutant: a new version takes the place of its predecessor.
WithReplaced(w) == {d \in docs : d.key # w.key \/ ~d.current} \cup {Added(w)}

\* The predecessor stops being current at the moment its successor exists.
With(w) == {Superseded(d, w.key) : d \in docs} \cup {Added(w)}

\* _write_sync, one transaction; a filename and bytes any other version has are
\* a unique index's failure.
Write(r) ==
    LET w == request[r]
    IN  /\ At(r, "embedding")
        /\ IF \E d \in docs : d.name = w.name /\ d.bytes = w.bytes
           THEN Finish(r) /\ UNCHANGED <<docs, version, minted>>
           ELSE /\ Counts
                /\ docs' = With(w)
                /\ minted' = minted + 2
                /\ IF w.path = <<>> THEN Finish(r)
                                    ELSE Goto(r, File(Added(w).id, Added(w).key, w.path))
        /\ UNCHANGED <<folders, members, run, removed>>

\* create_folder: an existing folder is returned, an unknown parent refused.
Create(name, parent) ==
    IF NameTaken(name, parent, Root)
    THEN UNCHANGED <<folders, version, minted>>
    ELSE /\ Counts
         /\ minted' = minted + 1
         /\ folders' = [f \in Folders \cup {minted + 1} |->
                IF f \in Folders THEN folders[f] ELSE [parent |-> parent, name |-> name]]

Place(name, parent) ==
    CHOOSE f \in Folders \cup {minted + 1} :
        IF NameTaken(name, parent, Root) THEN folders[f] = [parent |-> parent, name |-> name]
                                         ELSE f = minted + 1

\* ensure_folder_path, one transaction per component: the parent may be gone.
EnsureFolder(r) ==
    LET w == request[r]
    IN  /\ At(r, "filing")
        /\ w.path # <<>>
        /\ IF Exists(w.at)
           THEN /\ Create(Head(w.path), w.at)
                /\ Goto(r, [w EXCEPT !.path = Tail(w.path), !.at = Place(Head(w.path), w.at)])
           ELSE Finish(r) /\ UNCHANGED <<folders, version, minted>>
        /\ UNCHANGED <<docs, members, run, removed>>

\* The key of a skipped upload is looked up now; the folder may be gone.  A
\* membership is not a change that is counted.
AddMembership(r) ==
    LET w   == request[r]
        key == IF w.key # Root THEN {w.key} ELSE {d.key : d \in {e \in docs : e.id = w.id}}
    IN  /\ At(r, "filing")
        /\ w.path = <<>>
        /\ members' = IF w.at \in Folders
                      THEN members \cup {[key |-> k, folder |-> w.at] : k \in key} ELSE members
        /\ Finish(r)
        /\ UNCHANGED <<docs, folders, version, run, minted, removed>>

-----------------------------------------------------------------------------
(* Management *)

\* delete_document: one version; the others keep their number and their state.
Deleted(d) == docs \ {d}

DeleteVersion(r) ==
    /\ At(r, "idle")
    /\ "delete_version" \in Offered
    /\ Counts
    /\ \E d \in docs : docs' = Deleted(d) /\ removed' = removed \cup {d.id}
    /\ UNCHANGED <<folders, members, request, run, minted>>

CreateFolder(r) ==
    /\ At(r, "idle")
    /\ "create_folder" \in Offered
    /\ \E name \in Titles, parent \in Folders \cup {Root} : Create(name, parent)
    /\ UNCHANGED <<docs, members, request, run, removed>>

\* update_folder reads before it writes: the folder, its new parent, the
\* folders beneath it, and the name in the new place.
CheckMove(r) ==
    /\ At(r, "idle")
    /\ "move_folder" \in Offered
    /\ \E f \in Folders, parent \in Folders \cup {Root}, name \in Titles :
         /\ parent \notin Descendants({f})
         /\ ~NameTaken(name, parent, f)
         /\ Goto(r, [pc |-> "moving", folder |-> f, parent |-> parent, name |-> name])
    /\ UNCHANGED <<docs, folders, members, version, run, minted, removed>>

\* The UPDATE: a parent that is gone and a name that was taken meanwhile are
\* constraint failures; a folder that is gone is no row, and is counted.
MoveFolder(r) ==
    LET w == request[r]
    IN  /\ At(r, "moving")
        /\ IF Exists(w.parent) /\ ~NameTaken(w.name, w.parent, w.folder)
           THEN /\ Counts
                /\ folders' = [f \in Folders |->
                      IF f = w.folder THEN [parent |-> w.parent, name |-> w.name] ELSE folders[f]]
           ELSE UNCHANGED <<folders, version>>
        /\ Finish(r)
        /\ UNCHANGED <<docs, members, run, minted, removed>>

\* delete_folder reads what is in the folder and beneath it ...
ScanFolder(r) ==
    /\ At(r, "idle")
    /\ "delete_folder" \in Offered
    /\ \E f \in Folders : LET doomed == Descendants({f}) IN
         Goto(r, [pc |-> "deleting", doomed |-> doomed,
                  keys |-> {m.key : m \in {n \in members : n.folder \in doomed}}])
    /\ UNCHANGED <<docs, folders, members, version, run, minted, removed>>

\* A document that is now in no folder was only ever filed there.
Orphans(keys, kept) == {k \in keys : \A m \in kept : m.key # k}

\* ... and deletes in one transaction; folders put beneath them since cascade.
DeleteFolder(r) ==
    LET w     == request[r]
        gone  == Descendants(w.doomed)
        kept  == {m \in members : m.folder \notin gone}
        lost  == {d \in docs : d.key \in Orphans(w.keys, kept)}
    IN  /\ At(r, "deleting")
        /\ Counts
        /\ members' = kept
        /\ folders' = [f \in Folders \ gone |-> folders[f]]
        /\ docs' = docs \ lost
        /\ removed' = removed \cup Ids_of(lost)
        /\ Finish(r)
        /\ UNCHANGED <<run, minted>>

-----------------------------------------------------------------------------
(* A run that reads selected files *)

\* freeze_selection: the files named and those in the folders named, or all of
\* them ...
Select ==
    /\ run.pc = "none"
    /\ "select" \in Offered
    /\ \E named \in SUBSET Keys, f \in Folders \cup {Root} :
         LET filed == IF f = Root THEN {}
                      ELSE {m.key : m \in {n \in members : n.folder \in Descendants({f})}}
         IN  run' = [run EXCEPT !.pc = "resolving", !.keys = named \cup filed]
    /\ UNCHANGED <<docs, folders, members, version, request, minted, removed>>

\* ... their current versions, in another transaction; none is refused ...
Resolve ==
    /\ run.pc = "resolving"
    /\ run' = LET ids == Ids_of({d \in Visible : d.key \in run.keys})
              IN  IF ids = {} THEN NoRun ELSE [NoRun EXCEPT !.pc = "stamping", !.ids = ids]
    /\ UNCHANGED <<docs, folders, members, version, request, minted, removed>>

\* ... and the corpus version of a third; the row is committed with all of it.
Stamp ==
    /\ run.pc = "stamping"
    /\ run' = [run EXCEPT !.pc = "frozen", !.version = version]
    /\ UNCHANGED <<docs, folders, members, version, request, minted, removed>>

\* What ScopedCorpus lets the run search and read, whatever is current by then.
Readable == {d \in docs : d.id \in run.ids /\ d.origin = "uploaded"}

-----------------------------------------------------------------------------

Init ==
    /\ docs = {} /\ members = {} /\ removed = {}
    /\ folders = [f \in {} |-> Root]
    /\ version = 0 /\ minted = 0
    /\ request = [r \in Requests |-> NoRequest]
    /\ run = NoRun

Ingest(r) == Prepare(r) \/ EmbedFails(r) \/ Write(r) \/ EnsureFolder(r) \/ AddMembership(r)
Manage(r) == DeleteVersion(r) \/ CreateFolder(r) \/ CheckMove(r) \/ MoveFolder(r)
                \/ ScanFolder(r) \/ DeleteFolder(r)

Next == (\E r \in Requests : Ingest(r) \/ Manage(r)) \/ Select \/ Resolve \/ Stamp

Spec == Init /\ [][Next]_vars

-----------------------------------------------------------------------------
(* Properties *)

\* Ids, parents and requests stay within what the store has handed out.
TypeOK ==
    /\ version \in 0 .. MaxVersion /\ minted \in Nat
    /\ docs \subseteq [id : Ids, key : Ids, version : Nat \ {0}, name : Names,
                       bytes : Contents, origin : {"uploaded", "generated"}, current : BOOLEAN]
    /\ \A f \in Folders : f \in Ids /\ folders[f].parent \in Folders \cup {Root}
    /\ members \subseteq [key : Ids, folder : Folders]
    /\ run.ids \subseteq Ids /\ removed \subseteq Ids

\* Retrieval never offers two versions of one document, a corrected one beside
\* the one it corrects, and a key and a version never name two texts at once,
\* however uploads and deletions overlap.
OneCurrent == \A d, e \in docs :
    d.key = e.key /\ (d.version = e.version \/ (d.current /\ e.current)) => d = e

\* What a run selected stays readable however often it is superseded; only a
\* user's deletion takes it away (a citation is made against a version).
SelectedStays ==
    run.pc = "frozen" => run.ids \ removed = Ids_of(Readable) \ removed

=============================================================================
