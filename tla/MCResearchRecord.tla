---------------------------- MODULE MCResearchRecord ----------------------------
(***************************************************************************)
(* Values for model-checking the record of a run, from a file's text and its *)
(* search to the evidence of a task, the two checks of the report, the ledger *)
(* and the file it is exported as.  They share no variable: each behaviour    *)
(* explores one of them from its initial states while the others keep theirs. *)
(***************************************************************************)
EXTENDS EvidenceLedger, BundleFile, MCGrounding, MCCorpusText,
        MCTaskEvidence, MCCitationFidelity, MCCorpusSearch

\* Two addresses of one page, another page and an uploaded document.
MCUrls == {"page", "page-slash", "other", "upload"}
MCNorm == [u \in MCUrls |-> IF u = "page-slash" THEN "page" ELSE u]
MCCorpus == {"upload"}
Item(url, text) == [url |-> url, text |-> text]
MCLists ==
  { <<Item("page", 1), Item("page", 1), Item("other", 1)>>,
    <<Item("other", 1), Item("page", 2)>>,
    <<Item("page", 1), Item("page-slash", 1)>>,
    <<Item("upload", 1)>> }
Said(claim, marks) == [claim |-> claim, marks |-> marks]
MCReports ==
  { <<Said(TRUE, {1, 2}), Said(FALSE, {2})>>,
    <<Said(FALSE, {1}), Said(TRUE, {2})>> }

\* Reports with a claim, a limitation, a short line and a list of references.
Part(kind, cites) == [kind |-> kind, cites |-> cites]
Plain    == <<Part("prose", {1})>>
Hedged   == <<Part("prose", {1, 2}), Part("limitations", {}), Part("prose", {2}),
              Part("heading", {}), Part("short", {1}), Part("sources", {}), Part("prose", {3})>>
Uncited  == <<Part("prose", {}), Part("sources", {})>>
TwoPages == {[index |-> 1, url |-> "page"], [index |-> 2, url |-> "upload"], [index |-> 0, url |-> "other"]}

Decision(gate, decision, of) == [gate |-> gate, decision |-> decision, of |-> of]
Record(kind, ran, report, approved, overrides, demo) ==
  [kind |-> kind, ran |-> ran, report |-> report, sources |-> TwoPages, demo |-> demo,
   evidence |-> {[url |-> "page", snippet |-> "s1"], [url |-> "upload", snippet |-> "s2"]},
   chain |-> <<Decision("PLAN", "APPROVED", "plan"), Decision("REPORT", "REWORK_REQUESTED", Plain),
               Decision("REPORT", approved, report)>>,
   selection |-> IF demo THEN {"page", "upload", "other"} ELSE {},
   overrides |-> overrides, readable |-> ran # 3]
AnOldRun == Record("run", 1, Plain, "APPROVED", "NONE", FALSE)
MCRecords ==
  { AnOldRun,
    Record("run", 2, Hedged, "APPROVED", "APPLIED", TRUE),
    Record("run", 2, Plain, "REJECTED", "UNUSABLE", FALSE),
    Record("run", 3, Uncited, "APPROVED", "NONE", FALSE),
    Record("session", 1, Hedged, "APPROVED", "NONE", FALSE),
    Record("session", 3, Plain, "APPROVED", "NONE", TRUE) }

\* Of the initial states of a part at rest one is enough.
LedgerRests ==
  /\ run = [status |-> "RUNNING", outcome |-> "NONE", selection |-> {}] /\ pending = [run |-> 1, rework |-> 0]
  /\ graph = [evidence |-> <<>>, sources |-> <<>>, pairs |-> <<>>]
  /\ sources = <<>> /\ evidence = <<>> /\ conflicts = <<>> /\ revisions = <<>>
  /\ reviews = <<>> /\ artifact = <<>>

BundleRests ==
  /\ build = 1 /\ frozen = <<>> /\ file = <<>> /\ original = <<>> /\ changes = 0
  /\ finished = AnOldRun

CheckRests == Begin(ThePassages)

\* The part a behaviour explores; it never changes.
VARIABLE explored

RecordParts == {"text", "report", "check", "bundle", "ledger", "task", "fidelity", "search"}

Starts(part, Begins, Rests) == IF explored = part THEN Begins ELSE Rests

RecordInit ==
  /\ explored \in RecordParts
  /\ Starts("text",     TextInit,      TextRests)
  /\ Starts("report",   ReportInit,    ReportRests)
  /\ Starts("check",    GroundingInit, CheckRests)
  /\ Starts("bundle",   BundleInit,    BundleRests)
  /\ Starts("ledger",   Init,          LedgerRests)
  /\ Starts("task",     TaskInit,      TaskRests)
  /\ Starts("fidelity", FidelityInit,  FidelityRests)
  /\ Starts("search",   SearchInit,    SearchRests)

Steady(part) ==
  /\ UNCHANGED explored
  /\ IF part = "text"     THEN TRUE ELSE UNCHANGED textVars
  /\ IF part = "report"   THEN TRUE ELSE UNCHANGED reportVars
  /\ IF part = "check"    THEN TRUE ELSE UNCHANGED groundingVars
  /\ IF part = "bundle"   THEN TRUE ELSE UNCHANGED bundleVars
  /\ IF part = "ledger"   THEN TRUE ELSE UNCHANGED vars
  /\ IF part = "task"     THEN TRUE ELSE UNCHANGED taskVars
  /\ IF part = "fidelity" THEN TRUE ELSE UNCHANGED fidelityVars
  /\ IF part = "search"   THEN TRUE ELSE UNCHANGED searchVars

RecordNext ==
  \/ explored = "text"     /\ TextNext      /\ Steady("text")
  \/ explored = "report"   /\ ReportNext    /\ Steady("report")
  \/ explored = "check"    /\ GroundingNext /\ Steady("check")
  \/ explored = "bundle"   /\ BundleNext    /\ Steady("bundle")
  \/ explored = "ledger"   /\ Next          /\ Steady("ledger")
  \/ explored = "task"     /\ TaskNext      /\ Steady("task")
  \/ explored = "fidelity" /\ FidelityNext  /\ Steady("fidelity")
  \/ explored = "search"   /\ SearchNext    /\ Steady("search")

recordVars == <<explored, vars, bundleVars, groundingVars, textVars, reportVars, taskVars,
                fidelityVars, searchVars>>
RecordSpec == RecordInit /\ [][RecordNext]_recordVars

=============================================================================
