----------------------------- MODULE ModelSetup -----------------------------
(***************************************************************************)
(* Which model a role of a run calls, and what has to be set up for it: the  *)
(* deployment's environment, the user's keys and custom endpoint, the saved  *)
(* routing, the catalogue of the build and an Ollama server that comes and   *)
(* goes.  Both hosts: the server keeps one key per user and the routing in   *)
(* the database, the desktop a keychain and two files.                       *)
(*                                                                           *)
(* A key is good if it is there.  A role calls a provider whose models the   *)
(* catalogue lists ("cloud"), or one whose endpoint defines them: Ollama, or  *)
(* a custom address here or away from this machine.  Every setting is one    *)
(* that a settings page loads and saves in one go.                           *)
(***************************************************************************)
EXTENDS Naturals, FiniteSets

CONSTANTS
    AgentRoles,   \* ROLES
    Catalog,      \* per build: its models, [provider, model, priced]
    Tags,         \* what a local server may serve: [name, params, chat, tools]
    Deployments,  \* [host, routing, keys, address, ollama, guarded]
    Asked,        \* the routings a user may ask for
    MaxEdits      \* bound: changes of a setting or of the local server

ASSUME SetupAssumption ==
    /\ \A d \in Deployments : d.host \in {"server", "desktop"}
    /\ AgentRoles # {} /\ MaxEdits \in Nat

VARIABLES
    release,     \* the build
    deployment,  \* what its environment says
    own,         \* the user's keys, and the address of their custom endpoint
    preference,  \* <<>>, or <<the saved routing>>
    ollama,      \* the local server: up, and the tags it has
    attempt,     \* the run: its routing once it has one, and whether it is Offline
    dialling,    \* <<>>, or <<the configuration its segment runs under>>
    called,      \* history: <<>>, or <<the last call made>>
    edits        \* changes so far

setupVars == <<release, deployment, own, preference, ollama, attempt, dialling, called, edits>>

EndpointDefined == {"ollama", "custom", "openrouter"}
Keyless         == {"ollama", "custom"}
Desktop         == deployment.host = "desktop"

-----------------------------------------------------------------------------
(* Routings *)

\* catalog.get asks for the model's name alone.
Entries(route) == {s \in Catalog[release] : s.model = route.model}

Startable(route) ==
    IF route.provider \in EndpointDefined THEN route.model # ""
    ELSE Entries(route) # {} /\ \A s \in Entries(route) : s.priced

\* spec.route: a catalogued model is stored under its own provider.
Canonical(route) ==
    IF route.provider \in EndpointDefined THEN route
    ELSE LET s == CHOOSE s \in Entries(route) : TRUE IN [provider |-> s.provider, model |-> s.model]

\* routing_rules.validate: every role, or nothing.
Validated(routing) ==
    IF DOMAIN routing = AgentRoles /\ \A r \in AgentRoles : Startable(routing[r])
    THEN <<[r \in AgentRoles |-> Canonical(routing[r])]>>
    ELSE <<>>

\* llm_factory.validate_pricing, at the start of a server.
Boots(d) ==
    d.host = "desktop" \/ \A r \in AgentRoles :
        \/ d.routing[r].provider \in EndpointDefined
        \/ Entries(d.routing[r]) # {} /\ \A s \in Entries(d.routing[r]) : s.priced

\* The file is validated whenever it is read, the column only when it is written.
StoredRouting ==
    IF preference = <<>> \/ ~Desktop THEN preference ELSE Validated(preference[1])

\* The run's own, the user's, the deployment's.
RoutingOf(asked) ==
    IF asked # <<>> THEN asked[1]
    ELSE IF StoredRouting # <<>> THEN StoredRouting[1] ELSE deployment.routing

-----------------------------------------------------------------------------
(* Keys and endpoints *)

ProviderKeys == own.keys \cup deployment.keys

\* The user's own address before the deployment's.
CustomAddress == IF own.address # "none" THEN own.address ELSE deployment.address

\* Mutant: Ollama is local whoever serves it.
LeavesByName(cfg, route) ==
    ~(route.provider = "ollama" \/ (route.provider = "custom" /\ cfg.address = "here"))

\* offline.violations, of one role's route.
Leaves(cfg, route) ==
    CASE route.provider = "ollama" -> cfg.ollama # "here"
      [] route.provider = "custom" -> cfg.address # "here"
      [] OTHER                     -> TRUE

Refused(cfg) == cfg.offline /\ \E r \in AgentRoles : Leaves(cfg, cfg.models[r])

\* providers_missing_a_key: one key for anything is enough to begin with.
MissingKey(models) ==
    /\ \E r \in AgentRoles : models[r].provider \notin Keyless
    /\ ProviderKeys = {}

\* _build: can a client for this route be made, and whom would it call?
Buildable(cfg, route) ==
    /\ route.provider \in Keyless \cup cfg.keys
    /\ route.provider = "custom" => /\ cfg.address # "none"
                                    /\ deployment.guarded => cfg.address # "here"

Endpoint(cfg, route) ==
    CASE route.provider = "ollama" -> cfg.ollama
      [] route.provider = "custom" -> cfg.address
      [] OTHER                     -> "cloud"

ConfigOf(models, off) ==
    [models |-> models, keys |-> ProviderKeys, address |-> CustomAddress,
     ollama |-> deployment.ollama, offline |-> off]

-----------------------------------------------------------------------------
(* The local server *)

Installed == {t \in Tags : ollama.up /\ t.name \in ollama.tags}
ChatModels == {t \in Installed : t.chat}
Underpowered(t) == t.params < 14
Smallest(ts)  == CHOOSE t \in ts : \A u \in ts : t.params <= u.params
Strongest(ts) == CHOOSE t \in ts : \A u \in ts : t.params >= u.params

\* The exact tag that is installed.
RouteOf(t) == [provider |-> "ollama", model |-> t.name]

\* _ollama_presets_from_installed: the fast one, and the two others.
LocalPresets ==
    LET usable == {t \in ChatModels : t.tools}
        ready  == {t \in usable : ~Underpowered(t)}
        All(t) == [r \in AgentRoles |-> RouteOf(t)]
    IN  IF usable = {} THEN {}
        ELSE {All(Smallest(usable)), All(Strongest(IF ready # {} THEN ready ELSE usable))}

\* Does the other end answer a role's call?  The executor's carry tools.
Answers(cfg, role) ==
    LET route == cfg.models[role]
    IN  route.provider = "ollama" =>
          \E t \in ChatModels : t.name = route.model /\ (role = "executor" => t.tools)

-----------------------------------------------------------------------------
(* What the settings page says *)

\* A server's key columns and settings; the desktop's by building the
\* configuration a run would have, which raises when a key is missing.
HasCloudKey ==
    IF Desktop THEN ~MissingKey(RoutingOf(<<>>)) /\ (ProviderKeys # {} \/ CustomAddress # "none")
    ELSE ProviderKeys # {}

\* Mutant: a key, or nothing.
ReadyByKey == HasCloudKey

\* get_readiness; an embedding model fills no role.
Ready == HasCloudKey \/ ChatModels # {}

-----------------------------------------------------------------------------
(* Operations *)

Edit == edits < MaxEdits /\ edits' = edits + 1

\* PUT /auth/api-key replaces key and address; the keychain holds one per provider.
SetKey(p, address) ==
    /\ Edit
    /\ IF Desktop THEN address = own.address /\ p \notin own.keys /\ own' = [own EXCEPT !.keys = @ \cup {p}]
       ELSE /\ address = "none" \/ (p = "custom" /\ ~(deployment.guarded /\ address = "here"))
            /\ own' = [keys |-> {p}, address |-> address]
    /\ UNCHANGED <<release, deployment, preference, ollama, attempt, dialling, called>>

RemoveKey(p) ==
    /\ Edit /\ p \in own.keys
    /\ own' = IF Desktop THEN [own EXCEPT !.keys = @ \ {p}] ELSE [keys |-> {}, address |-> "none"]
    /\ UNCHANGED <<release, deployment, preference, ollama, attempt, dialling, called>>

\* custom_endpoint.json; an empty URL removes the file.
SaveEndpoint(address) ==
    /\ Edit /\ Desktop /\ address # own.address
    /\ own' = [own EXCEPT !.address = address]
    /\ UNCHANGED <<release, deployment, preference, ollama, attempt, dialling, called>>

\* PUT /models/routing, of what was asked for or of a preset the page offers.
SetRouting(routing) ==
    /\ Edit
    /\ Validated(routing) # <<>> /\ preference' = Validated(routing)
    /\ UNCHANGED <<release, deployment, own, ollama, attempt, dialling, called>>

ClearRouting ==
    /\ Edit /\ preference # <<>> /\ preference' = <<>>
    /\ UNCHANGED <<release, deployment, own, ollama, attempt, dialling, called>>

\* The server is started or quits, and a model is pulled or removed.
LocalServerChanges ==
    /\ Edit
    /\ \/ ollama' = [ollama EXCEPT !.up = ~@]
       \/ ollama.up /\ \E t \in Tags :
             t.name \notin ollama.tags /\ ollama' = [ollama EXCEPT !.tags = @ \cup {t.name}]
       \/ \E n \in ollama.tags : ollama' = [ollama EXCEPT !.tags = @ \ {n}]
    /\ UNCHANGED <<release, deployment, own, preference, attempt, dialling, called>>

\* A build with another catalogue; a server whose routing it cannot price does not start.
Upgrade ==
    /\ release + 1 \in DOMAIN Catalog
    /\ release' = release + 1 /\ dialling' = <<>>
    /\ UNCHANGED <<deployment, own, preference, ollama, attempt, called, edits>>
    /\ Boots(deployment)'

\* create_run: a routing of its own is validated now or refused.
AskForRun(routing, off) ==
    /\ attempt = <<>>
    /\ routing # <<>> => Validated(routing[1]) # <<>>
    /\ attempt' = <<[routing |-> IF routing = <<>> THEN <<>> ELSE Validated(routing[1]), offline |-> off]>>
    /\ UNCHANGED <<release, deployment, own, preference, ollama, dialling, called, edits>>

\* One invocation of the graph: what it dials is settled, recorded on the row
\* and kept for its whole length.
Segment ==
    LET models == RoutingOf(attempt[1].routing)
        cfg    == ConfigOf(models, attempt[1].offline)
    IN  /\ attempt # <<>> /\ dialling = <<>>
        /\ Desktop => ~MissingKey(models)
        /\ attempt' = [attempt EXCEPT ![1].routing = <<models>>]
        /\ ~Refused(cfg)
        /\ dialling' = <<cfg>>
        /\ UNCHANGED <<release, deployment, own, preference, ollama, called, edits>>

\* get_llm and the call; a client that cannot be built fails the run.
Call(role) ==
    LET cfg == dialling[1]
    IN  /\ dialling # <<>>
        /\ ~Refused(cfg) /\ Buildable(cfg, cfg.models[role])
        /\ called' = <<[route |-> cfg.models[role], at |-> Endpoint(cfg, cfg.models[role]),
                        offline |-> attempt[1].offline]>>
        /\ UNCHANGED <<release, deployment, own, preference, ollama, attempt, dialling, edits>>

\* The segment ends at a gate, in an answer or in a failure.
EndSegment ==
    /\ dialling # <<>> /\ dialling' = <<>>
    /\ UNCHANGED <<release, deployment, own, preference, ollama, attempt, called, edits>>

SetupInit ==
    /\ release = 1 /\ deployment \in Deployments /\ Boots(deployment)
    /\ own = [keys |-> {}, address |-> "none"]
    /\ preference = <<>>
    /\ ollama \in [up : BOOLEAN, tags : {{}, {t.name : t \in Tags}}]
    /\ attempt = <<>> /\ dialling = <<>> /\ called = <<>>
    /\ edits = 0

SetupNext ==
    \/ Upgrade \/ ClearRouting \/ LocalServerChanges \/ Segment \/ EndSegment
    \/ \E p \in {"cloud", "custom"} : RemoveKey(p) \/ \E a \in {"none", "here", "away"} : SetKey(p, a)
    \/ \E a \in {"none", "here", "away"} : SaveEndpoint(a)
    \/ \E f \in Asked \cup LocalPresets : SetRouting(f)
    \/ \E f \in {<<>>} \cup {<<g>> : g \in Asked}, off \in BOOLEAN : AskForRun(f, off)
    \/ \E r \in AgentRoles : Call(r)

SetupSpec == SetupInit /\ [][SetupNext]_setupVars

-----------------------------------------------------------------------------
(* Properties *)

\* "Every model call a run makes stays on this machine": whatever was saved
\* between the segments of an Offline run, none of its calls goes elsewhere.
OfflineStays == called # <<>> /\ called[1].offline => called[1].at = "here"

\* A page that says research cannot run does not lock a user out of a setup that
\* would.  (A server whose custom endpoint takes no key is one it does miss.)
NotReadyIsTrue ==
    LET cfg == ConfigOf(RoutingOf(<<>>), FALSE)
    IN  ~Ready /\ (Desktop \/ CustomAddress = "none") =>
            \E r \in AgentRoles : ~(Buildable(cfg, cfg.models[r]) /\ Answers(cfg, r))

=============================================================================
