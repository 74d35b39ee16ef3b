----------------------------- MODULE CorpusLayout -----------------------------
(***************************************************************************)
(* The desktop app's one-time move from one shared corpus file to a file   *)
(* per project.  Every launch runs it before the first request, a step may *)
(* be the last one of its process, and any file operation may be refused.  *)
(* A file is what a verified copy compares: the documents in it.           *)
(***************************************************************************)
EXTENDS Naturals

CONSTANTS Legacy,       \* documents of the shared store at the upgrade
          Uploads,      \* documents the user may add later
          MaxCrashes,   \* bound: launches that die in the middle
          MaxRefusals,  \* bound: file operations the platform refuses
          MaxDamage     \* bound: copies that go bad or are lost

ASSUME LayoutAssumption ==
    /\ Legacy \cap Uploads = {}
    /\ MaxCrashes \in Nat /\ MaxRefusals \in Nat /\ MaxDamage \in Nat

VARIABLES
    layout,   \* app_meta: the one authority on which files are opened
    recorded, \* app_meta: the migration record; the project row is committed with it
    legacy, backup, store, \* corpus.sqlite, its backup, the moved project's file
    lock,     \* the lock file that fixes the project's id
    app,      \* where this launch is
    mode,     \* the layout the locator of this launch was given
    library,  \* history: documents kept from the shared store, less those deleted
    later,    \* history: documents uploaded after the move, less those deleted
    slips,    \* history: what the user or the disk did to the copies
    budget    \* crashes, refusals and damage still to come

files == <<legacy, backup, store>>
user == <<library, later, slips>>
layoutVars == <<layout, recorded, files, lock, app, mode, user, budget>>

-----------------------------------------------------------------------------

File(docs) == [there |-> TRUE, ok |-> TRUE, docs |-> docs]
Gone       == [there |-> FALSE, ok |-> TRUE, docs |-> {}]
Layouts    == {"shared", "per_project"}

\* The process is between two file operations.
Moving == {"lock", "back_up", "compare", "remake", "build", "commit", "retire",
           "settle", "settled", "clean", "inspect", "rebuild"}

\* What can be read from a file.
Content(f) == IF f.there /\ f.ok THEN f.docs ELSE {}

\* verify_copy: integrity, counts, rows, stored files and corpus_id of both.
Exact(a, b) == a.there /\ b.there /\ a.ok /\ b.ok /\ a.docs = b.docs

Goto(pc) == app' = pc

\* The warning banner: the app runs on the shared file, whatever was recorded.
ServeShared == Goto("serving") /\ mode' = "shared"

-----------------------------------------------------------------------------
(* A launch *)

LaunchApp ==
    /\ app = "off"
    /\ Goto(IF layout = "per_project" THEN "clean"
            ELSE IF legacy.docs = {} THEN "settle" ELSE "lock")
    /\ UNCHANGED <<layout, recorded, files, lock, mode, user, budget>>

\* Nothing to move: an empty file becomes the backup.
Settle ==
    /\ app = "settle"
    /\ backup' = IF legacy.there /\ ~backup.there THEN legacy ELSE backup
    /\ layout' = "per_project"
    /\ Goto("settled")
    /\ UNCHANGED <<recorded, legacy, store, lock, mode, user, budget>>

RemoveEmpty ==
    /\ app = "settled"
    /\ legacy' = Gone
    /\ Goto("serving") /\ mode' = "per_project"
    /\ UNCHANGED <<layout, recorded, backup, store, lock, user, budget>>

\* A lock file from an earlier launch names the project of the same move.
FixProject ==
    /\ app = "lock"
    /\ lock # "torn"
    /\ lock' = "id"
    /\ Goto("back_up")
    /\ UNCHANGED <<layout, recorded, files, mode, user, budget>>

\* A lock file without its JSON raises ValueError, which nobody catches.
DieOnTornLock ==
    /\ app = "lock"
    /\ lock = "torn"
    /\ Goto("off")
    /\ UNCHANGED <<layout, recorded, files, lock, mode, user, budget>>

\* A temporary file replaces the backup, so there is none or a whole one.
BackUp ==
    /\ app = "back_up"
    /\ backup' = IF backup.there THEN backup ELSE legacy
    /\ Goto("compare")
    /\ UNCHANGED <<layout, recorded, legacy, store, lock, mode, user, budget>>

\* Mutant: a backup that fails its check is relied on.
CompareNothing ==
    /\ app = "compare"
    /\ Goto("build")
    /\ UNCHANGED <<layout, recorded, files, lock, mode, user, budget>>

\* Mutant: a backup that fails its check refuses the move.
CompareOnce ==
    /\ app = "compare"
    /\ IF Exact(legacy, backup) THEN Goto("build") /\ mode' = mode ELSE ServeShared
    /\ UNCHANGED <<layout, recorded, files, lock, user, budget>>

\* The live store is the authority: a backup that fails is discarded ...
Compare ==
    /\ app = "compare"
    /\ IF Exact(legacy, backup)
       THEN Goto("build") /\ backup' = backup
       ELSE Goto("remake") /\ backup' = Gone
    /\ UNCHANGED <<layout, recorded, legacy, store, lock, mode, user, budget>>

\* ... and made again, once.
Remake ==
    /\ app = "remake"
    /\ backup' = legacy
    /\ Goto("build")
    /\ UNCHANGED <<layout, recorded, legacy, store, lock, mode, user, budget>>

\* The project's file is always built anew, from the backup, and checked.
Build ==
    /\ app = "build"
    /\ store' = backup
    /\ IF Exact(backup, store') THEN Goto("commit") /\ mode' = mode ELSE ServeShared
    /\ UNCHANGED <<layout, recorded, legacy, backup, lock, user, budget>>

\* The project row, the layout and the record, in one transaction.
Commit ==
    /\ app = "commit"
    /\ layout' = "per_project" /\ recorded' = TRUE
    /\ Goto("retire")
    /\ UNCHANGED <<files, lock, mode, user, budget>>

Retire ==
    /\ app = "retire"
    /\ legacy' = Gone /\ lock' = "none"
    /\ Goto("serving") /\ mode' = "per_project"
    /\ UNCHANGED <<layout, recorded, backup, store, user, budget>>

\* Every launch after the move: the shared file is unreachable, and goes.
Clean ==
    /\ app = "clean"
    /\ legacy' = Gone
    /\ IF recorded THEN Goto("inspect") /\ UNCHANGED <<lock, mode>>
                   ELSE Goto("serving") /\ mode' = "per_project" /\ lock' = "none"
    /\ UNCHANGED <<layout, recorded, backup, store, user, budget>>

\* Opening a backup that is not there to compare it creates an empty one, so
\* only a launch that misses both files finds "no backup to rebuild from".
Inspect ==
    /\ app = "inspect"
    /\ backup' = IF store.there /\ ~backup.there THEN [File({}) EXCEPT !.ok = FALSE] ELSE backup
    /\ IF Exact(backup, store)
       THEN Goto("serving") /\ mode' = "per_project" /\ lock' = "none"
       ELSE /\ IF backup'.there THEN Goto("rebuild") /\ mode' = mode ELSE ServeShared
            /\ lock' = lock
    /\ UNCHANGED <<layout, recorded, legacy, store, user, budget>>

\* A backup that is damaged is copied as it is, unless SQLite cannot read it.
Rebuild ==
    /\ app = "rebuild"
    /\ store' \in {backup} \cup (IF backup.ok THEN {} ELSE {store})
    /\ IF backup.ok
       THEN Goto("serving") /\ mode' = "per_project" /\ lock' = "none"
       ELSE ServeShared /\ lock' = lock
    /\ UNCHANGED <<layout, recorded, legacy, backup, user, budget>>

\* OSError or sqlite3.Error from any operation.
Refused ==
    /\ app \in Moving
    /\ budget.refusals > 0
    /\ ServeShared
    /\ budget' = [budget EXCEPT !.refusals = @ - 1]
    /\ UNCHANGED <<layout, recorded, files, lock, user>>

Move ==
    \/ Settle \/ RemoveEmpty
    \/ FixProject \/ DieOnTornLock \/ BackUp \/ Compare \/ Remake \/ Build \/ Commit \/ Retire
    \/ Clean \/ Inspect \/ Rebuild

-----------------------------------------------------------------------------
(* The user, and the disk *)

Served == IF mode = "shared" THEN legacy ELSE store

\* Documents of the shared file, or of the moved project, change.
Rewrite(docs) ==
    IF mode = "shared"
    THEN legacy' = [Served EXCEPT !.there = TRUE, !.docs = docs] /\ store' = store
    ELSE store' = [Served EXCEPT !.docs = docs] /\ legacy' = legacy

Editable == app = "serving" /\ (mode = "shared" \/ recorded) /\ Served.ok

\* A change after the move is in neither the backup nor, served shared, the store.
Upload(doc) ==
    /\ Editable
    /\ doc \in Uploads \ (library \cup later \cup slips)
    /\ Rewrite(Served.docs \cup {doc})
    /\ slips' = slips \cup {doc}
    /\ IF layout = "shared"
       THEN library' = library \cup {doc} /\ later' = later
       ELSE later' = later \cup {doc} /\ library' = library
    /\ UNCHANGED <<layout, recorded, backup, lock, app, mode, budget>>

Delete(doc) ==
    /\ Editable
    /\ doc \in Served.docs
    /\ Rewrite(Served.docs \ {doc})
    /\ library' = library \ {doc} /\ later' = later \ {doc}
    /\ UNCHANGED <<layout, recorded, backup, lock, app, mode, slips, budget>>

QuitApp ==
    /\ app = "serving"
    /\ Goto("off")
    /\ UNCHANGED <<layout, recorded, files, lock, mode, user, budget>>

\* Only the lock file is written in place: a process that dies between opening
\* it and writing it leaves it empty.
Crash ==
    /\ app \in Moving
    /\ budget.crashes > 0
    /\ lock' \in {lock} \cup (IF app = "lock" /\ lock = "none" THEN {"torn"} ELSE {})
    /\ Goto("off")
    /\ budget' = [budget EXCEPT !.crashes = @ - 1]
    /\ UNCHANGED <<layout, recorded, files, mode, user>>

Spoiled(f) == {Gone, [f EXCEPT !.ok = FALSE]}

\* A copy goes bad or is removed.  From its last check on, the backup is what
\* the next launch believes.
Damage ==
    /\ budget.damage > 0
    /\ \/ backup.there /\ backup' \in Spoiled(backup) /\ store' = store
          /\ slips' = IF layout = "per_project" \/ app = "commit"
                        THEN slips \cup {"backup"} ELSE slips
       \/ store.there /\ store' \in Spoiled(store) /\ UNCHANGED <<backup, slips>>
    /\ budget' = [budget EXCEPT !.damage = @ - 1]
    /\ UNCHANGED <<layout, recorded, legacy, lock, app, mode, library, later>>

-----------------------------------------------------------------------------

LayoutInit ==
    /\ layout = "shared" /\ recorded = FALSE
    /\ legacy \in {Gone, File({}), File(Legacy)}
    /\ backup = Gone /\ store = Gone
    /\ lock = "none" /\ app = "off" /\ mode = "shared"
    /\ library = legacy.docs /\ later = {} /\ slips = {}
    /\ budget = [crashes |-> MaxCrashes, refusals |-> MaxRefusals, damage |-> MaxDamage]

LayoutNext ==
    \/ LaunchApp \/ Move \/ Refused
    \/ \E doc \in Legacy \cup Uploads : Upload(doc) \/ Delete(doc)
    \/ QuitApp \/ Crash \/ Damage

\* A process that runs goes on; the user quits and starts the app again.
Proceed == LaunchApp \/ Move \/ QuitApp

LayoutSpec == LayoutInit /\ [][LayoutNext]_layoutVars /\ WF_layoutVars(Proceed)

-----------------------------------------------------------------------------
(* Properties *)

\* Files, lock and record stay within their vocabulary.
LayoutTyped ==
    /\ layout \in Layouts /\ mode \in Layouts /\ recorded \in BOOLEAN
    /\ {legacy, backup, store} \subseteq
         [there : BOOLEAN, ok : BOOLEAN, docs : SUBSET (Legacy \cup Uploads)]
    /\ lock \in {"none", "id", "torn"}
    /\ app \in Moving \cup {"off", "serving"}

\* Whatever a crash or a refusal leaves, every document the user kept in the
\* shared store is in the file app_meta names, or in the backup the next launch
\* rebuilds it from, unless the backup itself went bad after its last check.
DocumentsSurvive ==
    "backup" \notin slips =>
        library \subseteq IF layout = "shared" THEN Content(legacy)
                                               ELSE Content(store) \cup Content(backup)

\* A crash at any point is completed or rolled back: the app comes to the
\* per-project layout and stays, unless a launch died writing the lock file.
MoveCompletes == <>[](layout = "per_project") \/ <>[](lock = "torn")

\* "The commit that sets per_project is the moment the new project becomes
\* authoritative": what the user has in it is there at the next launch.
ChangesSurvive ==
    app = "serving" /\ recorded /\ "backup" \notin slips => later \subseteq Served.docs
=============================================================================
