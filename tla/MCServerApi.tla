----------------------------- MODULE MCServerApi -----------------------------
(***************************************************************************)
(* Values for model-checking Accounts and CorpusStore on a small instance.   *)
(* They share no variable, so a property of one holds of both together        *)
(* exactly when it holds with the other at rest: each behaviour explores one  *)
(* of them while the other keeps its initial state.                           *)
(***************************************************************************)
EXTENDS Accounts, CorpusStore, TLC

CONSTANTS d1, d2, r1, r2, n1, b1, b2, t1

\* Each browser has one tab, which goes by its name.
OneTabEach == [t \in Tabs |-> t]

\* Folder paths an upload may carry.
Nested == {<<>>, <<t1>>, <<t1, t1>>}

\* Which of two browsers, requests or contents is which makes no difference to what
\* may happen next.  Browsers and requests take no part in the same behaviour, so
\* they are exchanged together.
Exchange == d1 :> d2 @@ d2 :> d1 @@ r1 :> r2 @@ r2 :> r1

Interchangeable == Permutations(Contents) \cup {Exchange}

\* The part a behaviour explores; it never changes.
VARIABLE explored

\* At most one browser has requests that overlap or answers that are lost: of such
\* a browser AlarmNeedsACause says nothing.
OneIsOrderly == disturbed' # Devices

ApiInit == explored \in {"accounts", "corpus"} /\ AccountsInit /\ Init

ApiNext ==
    /\ \/ explored = "accounts" /\ AccountsNext /\ OneIsOrderly /\ UNCHANGED vars
       \/ explored = "corpus" /\ Next /\ UNCHANGED accountVars
    /\ UNCHANGED explored

ApiSpec == ApiInit /\ [][ApiNext]_<<explored, accountVars, vars>>

=============================================================================
