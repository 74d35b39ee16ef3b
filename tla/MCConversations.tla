---------------------------- MODULE MCConversations ----------------------------
(***************************************************************************)
(* Values for model-checking SessionLifecycle, ProjectMemory and ModelSetup   *)
(* on a small instance.  They share no variable, so a property of one holds   *)
(* of all together exactly when it holds with the others at rest: each        *)
(* behaviour explores one of them while the others keep their initial state.  *)
(***************************************************************************)
EXTENDS SessionLifecycle, ProjectMemory, ModelSetup, TLC

CONSTANTS d1, d2, r1, r2, p1, p2, s1, u1, h1, q1, q2, m1

\* A run and a thread in one project, a session and its chat in another.
TwoHomes  == [x \in {s1, u1, h1} |-> IF x = s1 THEN p2 ELSE p1]
BothKinds == {h1, s1}

\* Which of two drivers, requests or turns is which makes no difference to what may
\* happen next.  Drivers and turns take no part in the same behaviour, so they are
\* exchanged together.
Exchange == d1 :> d2 @@ d2 :> d1 @@ q1 :> q2 @@ q2 :> q1

Interchangeable == Permutations(Requests) \cup {Exchange}

\* A priced model; one whose price the first build does not have; one the
\* second build no longer lists.
TwoBuilds ==
    LET Of(m, p) == [provider |-> "cloud", model |-> m, priced |-> p]
    IN  <<{Of("std", TRUE), Of("new", FALSE), Of("old", TRUE)}, {Of("std", TRUE), Of("new", TRUE)}>>

Everyone(p, m) == [r \in {"planner", "executor"} |-> [provider |-> p, model |-> m]]
Split(p, m)    == [Everyone("cloud", "std") EXCEPT !["executor"] = [provider |-> p, model |-> m]]

LocalTags ==
    {[name |-> "big", params |-> 14, chat |-> TRUE, tools |-> TRUE],
     [name |-> "small", params |-> 4, chat |-> TRUE, tools |-> TRUE],
     [name |-> "plain", params |-> 20, chat |-> TRUE, tools |-> FALSE],
     [name |-> "embed", params |-> 1, chat |-> FALSE, tools |-> FALSE]}

\* Servers and desktops with and without a key and an address in their
\* environment; Ollama on this machine, or (a server's) on another.
Installations ==
    LET On(h, f, k, a, o, g) == [host |-> h, routing |-> f, keys |-> k, address |-> a, ollama |-> o, guarded |-> g]
    IN  {On("server", Everyone("cloud", "old"), {"cloud"}, "none", "here", TRUE),
         On("server", Everyone("ollama", "small"), {}, "away", "away", FALSE),
         On("server", Everyone("cloud", "std"), {}, "none", "away", FALSE),
         On("desktop", Everyone("cloud", "std"), {}, "none", "here", FALSE),
         On("desktop", Split("ollama", "small"), {"cloud"}, "away", "here", FALSE)}

\* A catalogued model under another provider's name is kept under its own.
SomeRoutings ==
    {Everyone("openai", "std"), Split("cloud", "new"), Everyone("custom", "any"), Split("ollama", "big")}

SetupRests ==
    /\ SetupInit /\ deployment = CHOOSE d \in Deployments : Boots(d)
    /\ ~ollama.up /\ ollama.tags = {}

\* The part a behaviour explores; it never changes.
VARIABLE explored

\* Turns in one conversation do not touch the other, so a behaviour of the memory
\* takes turns in one of them.  The other project then stays as it is, except that
\* a thread's turns may find its report indexed.
InOneConversation ==
    /\ \A t \in Turns : turn'[t].in \in {"nowhere", explored}
    /\ \A p \in Projects \ {Home[explored]} : project'[p] = "live"
    /\ \A h \in Threads : Home[h] # Home[explored] => chat_thread'[h] = "none"
    /\ \A r \in Reports : Home[r] # Home[explored] =>
          report'[r] \in IF explored \in Threads THEN {"none", "OPEN", "COMPLETED"} ELSE {"none"}

AnyInit ==
    /\ explored \in {"lifecycle", "setup"} \cup Chats
    /\ Init /\ MemoryInit
    /\ IF explored = "setup" THEN SetupInit ELSE SetupRests

AnyNext ==
    /\ \/ explored = "lifecycle" /\ Next /\ UNCHANGED <<memoryVars, setupVars>>
       \/ explored \in Chats /\ MemoryNext /\ InOneConversation /\ UNCHANGED <<vars, setupVars>>
       \/ explored = "setup" /\ SetupNext /\ UNCHANGED <<vars, memoryVars>>
    /\ UNCHANGED explored

AnySpec == AnyInit /\ [][AnyNext]_<<explored, vars, memoryVars, setupVars>>

=============================================================================
