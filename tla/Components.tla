------------------------------ MODULE Components ------------------------------
(***************************************************************************)
(* A component as stored data: what serialize() keeps of its settings, what  *)
(* the compact form leaves out, and what a later release reads back.         *)
(*                                                                         *)
(*   base/component.py   ComponentBase, _component_class, _compact           *)
(*   agents/agent.py     Agent._to_config, _from_config                      *)
(*   and the settings, _to_config and _from_config of every component        *)
(*                                                                         *)
(* A setting's value is None, the default of the release that built it,      *)
(* something else, or the default of the next release.                       *)
(***************************************************************************)
EXTENDS Naturals, FiniteSets

CONSTANTS
    Trusted,    \* allow_providers: classes of other packages that may load
    MaxHeld     \* bound: how deep components hold components

ASSUME ComponentsAssumption == Trusted \subseteq {"Foreign"} /\ MaxHeld \in Nat

VARIABLES
    built,      \* the component, one it holds, one that this one holds, ...
    stored,     \* the form it was stored in, and the data
    release,    \* what the release that loads it changed
    loaded      \* what loading gave

componentVars == <<built, stored, release, loaded>>

-----------------------------------------------------------------------------
(* The settings of each class.  `required` are always given; the rest has a  *)
(* default, which is None for the `optional` and another value for the       *)
(* `defaulted` and the `nullable`, of which the last may be set to None.     *)
(* `live` ones are arguments that no config holds.  `parts` are the classes  *)
(* of the components it may hold in a setting.                               *)

Settings(required, optional, defaulted, nullable, live, parts) ==
    [required |-> required, optional |-> optional, defaulted |-> defaulted,
     nullable |-> nullable, live |-> live, parts |-> parts]

FastEmbedEmbedding == Settings({}, {}, {"model_name"}, {}, {}, {})

OpenAIEmbedding ==
    Settings({}, {"base_url", "dimensions"}, {"model", "api_key_env"}, {}, {}, {})

OllamaClient ==
    Settings({"model", "host", "config"}, {"think", "keep_alive"}, {"api_key_env", "options"},
             {}, {"api_key"}, {})

OpenAIClient ==
    Settings({"model", "config"}, {"base_url", "organization", "project"},
             {"api_key_env", "options"}, {}, {"api_key"}, {})

OpenRouterClient ==
    Settings({"model", "base_url", "config"}, {"reasoning", "provider", "app_name", "app_url"},
             {"api_key_env", "fallback_models", "options"}, {}, {"api_key"}, {})

Embeddings == {"FastEmbedEmbedding", "OpenAIEmbedding"}
Clients == {"OllamaClient", "OpenAIClient", "OpenRouterClient"}

LocalContext == Settings({"user_id", "session_id", "base_path"}, {}, {"tool_mode"}, {}, {}, {})

SQLiteContext ==
    Settings({"user_id", "session_id", "base_path"}, {}, {"tool_mode", "db_name"}, {}, {}, {})

LocalMemory ==
    Settings({"base_path"}, {"user_id", "session_id"}, {"tool_mode"}, {"context_days"},
             {}, Embeddings)

MongoDBMemory ==
    Settings({}, {"user_id", "session_id"},
             {"tool_mode", "search_limit", "database", "collection", "uri_env", "timeout"},
             {"context_days"}, {}, Embeddings)

SQLiteMemory ==
    Settings({"base_path"}, {"user_id", "session_id"}, {"tool_mode", "db_name", "search_limit"},
             {"context_days"}, {}, Embeddings)

LocalKnowledge ==
    Settings({"name", "description", "base_path"}, {}, {"tool_mode"}, {}, {}, Embeddings)

MongoDBKnowledge ==
    Settings({"name", "description"}, {},
             {"tool_mode", "database", "collection", "uri_env", "timeout", "min_score"},
             {}, {}, Embeddings)

SQLiteKnowledge ==
    Settings({"name", "description", "base_path"}, {}, {"tool_mode", "db_name", "min_score"},
             {}, {}, Embeddings)

LocalExecutor == Settings({}, {}, {"allow_commands", "max_output_bytes"}, {}, {}, {})

DockerExecutor ==
    Settings({}, {"image", "dockerfile"}, {"network", "max_output_bytes"}, {}, {}, {})

\* An image that is an object of the Modal library can not be stored.
ModalExecutor ==
    Settings({}, {"image", "dockerfile"},
             {"packages", "app_name", "network", "allow_list", "lifetime", "max_output_bytes", "uid"},
             {}, {}, {})

LocalSessionStore == Settings({"base_path"}, {}, {}, {}, {}, {})

MongoDBSessionStore ==
    Settings({}, {}, {"database", "collection", "uri_env", "timeout"}, {}, {}, {})

LocalQuotaStore == Settings({"base_path"}, {}, {"keep_periods"}, {}, {}, {})

MongoDBQuotaStore ==
    Settings({}, {}, {"database", "collection", "uri_env", "timeout"}, {}, {}, {})

LocalSkills == Settings({"source", "skills"}, {}, {}, {}, {}, {})

GithubSkills == Settings({"source", "skills"}, {"token_env"}, {"ref", "path"}, {}, {}, {})

\* The root is a folder by the time it is stored.
LocalWorkspace == Settings({"root"}, {}, {}, {}, {}, {})

AzureBlobWorkspace == Settings({"blob_url"}, {"cache_dir"}, {"api_key_env"}, {}, {}, {})

MinIOWorkspace ==
    Settings({"endpoint_url", "bucket"}, {"region", "cache_dir"},
             {"access_key_env", "secret_key_env"}, {}, {}, {})

CompactionStrategy ==
    Settings({}, {},
             {"threshold", "keep_ratio", "min_keep_groups", "truncate_tool_outputs",
              "tool_output_max_tokens", "drop_harness_messages", "update_memory",
              "memory_max_tokens", "size"}, {}, {"token_counter"}, Clients)

RuntimeGate ==
    Settings({}, {}, {"enabled", "plan_must_close", "nudge_bash_failures", "nudge_leftover_files"},
             {}, {}, {})

RepetitionGuard == Settings({}, {}, {"max_repeats", "result_preview_chars"}, {}, {}, {})

BudgetGuard == Settings({}, {}, {"threshold"}, {}, {}, {})

PlanCompletionGuard == Settings({}, {}, {"max_nudges"}, {}, {}, {})

ReactLoop ==
    Settings({}, {"max_loop_iterations"}, {"max_connection_retries"}, {}, {},
             {"RepetitionGuard", "BudgetGuard", "PlanCompletionGuard"})

BudgetLimits ==
    Settings({}, {"max_tokens", "max_cost_usd", "max_seconds", "max_model_calls",
                  "max_tool_calls", "quota"}, {}, {}, {},
             {"LocalQuotaStore", "MongoDBQuotaStore"})

Logging == Settings({}, {}, {"level", "preview_chars"}, {}, {}, {})

Tracing == Settings({}, {}, {"capture_content", "max_content_chars"}, {}, {"tracer_provider"}, {})

\* A layer is stored with the text it was loaded from.
PromptLayer == Settings({"name", "template"}, {}, {"extra_variables"}, {}, {"load_from"}, {})

\* Plain tools are code; nothing of them can be stored.
FunctionTool == Settings({}, {}, {}, {}, {"function"}, {})

\* A component of another package.
Foreign == Settings({"name"}, {}, {"size"}, {}, {}, {})

Leaves ==
    [FastEmbedEmbedding |-> FastEmbedEmbedding, OpenAIEmbedding |-> OpenAIEmbedding,
     OllamaClient |-> OllamaClient, OpenAIClient |-> OpenAIClient,
     OpenRouterClient |-> OpenRouterClient, LocalContext |-> LocalContext,
     SQLiteContext |-> SQLiteContext, LocalMemory |-> LocalMemory,
     MongoDBMemory |-> MongoDBMemory, SQLiteMemory |-> SQLiteMemory,
     LocalKnowledge |-> LocalKnowledge, MongoDBKnowledge |-> MongoDBKnowledge,
     SQLiteKnowledge |-> SQLiteKnowledge, LocalExecutor |-> LocalExecutor,
     DockerExecutor |-> DockerExecutor, ModalExecutor |-> ModalExecutor,
     LocalSessionStore |-> LocalSessionStore, MongoDBSessionStore |-> MongoDBSessionStore,
     LocalQuotaStore |-> LocalQuotaStore, MongoDBQuotaStore |-> MongoDBQuotaStore,
     LocalSkills |-> LocalSkills, GithubSkills |-> GithubSkills,
     LocalWorkspace |-> LocalWorkspace, AzureBlobWorkspace |-> AzureBlobWorkspace,
     MinIOWorkspace |-> MinIOWorkspace, CompactionStrategy |-> CompactionStrategy,
     RuntimeGate |-> RuntimeGate, RepetitionGuard |-> RepetitionGuard,
     BudgetGuard |-> BudgetGuard, PlanCompletionGuard |-> PlanCompletionGuard,
     ReactLoop |-> ReactLoop, BudgetLimits |-> BudgetLimits, Logging |-> Logging,
     Tracing |-> Tracing, PromptLayer |-> PromptLayer, FunctionTool |-> FunctionTool,
     Foreign |-> Foreign]

Agent ==
    Settings({"name", "description", "instructions", "gates"}, {"output_format"},
             {"policy", "mcp"}, {}, {}, DOMAIN Leaves)

Class(c) == IF c = "Agent" THEN Agent ELSE Leaves[c]

Defaulted(c) == Class(c).defaulted \cup Class(c).nullable
Storable(c) == Class(c).required \cup Class(c).optional \cup Defaulted(c)
AllSettings(c) == Storable(c) \cup Class(c).live

-----------------------------------------------------------------------------
None == 0
Default == 1
Other == 2
NewDefault == 3

\* What a setting may be when the component is made; all but one are as they
\* are by default, for settings are stored and read one by one.
MayBe(c, s) ==
    (IF s \in Class(c).optional \cup Class(c).nullable \cup Class(c).live THEN {None} ELSE {})
      \cup (IF s \in Defaulted(c) THEN {Default} ELSE {}) \cup {Other}

AsDefault(c) ==
    [s \in AllSettings(c) |-> CHOOSE v \in MayBe(c, s) :
        v = (IF s \in Defaulted(c) THEN Default
             ELSE IF s \in Class(c).required THEN Other ELSE None)]


AllClasses == DOMAIN Leaves \cup {"Agent"}

Made ==
    [c \in AllClasses |->
        {[class |-> c, values |-> AsDefault(c)]}
          \cup UNION {{[class |-> c, values |-> [AsDefault(c) EXCEPT ![s] = v]] : v \in MayBe(c, s)}
                     : s \in AllSettings(c)}]

NoData == [r \in {} |-> None]
Nothing(form) == [form |-> form, data |-> NoData]

ComponentsTypeOK ==
    /\ DOMAIN built \subseteq 1..MaxHeld /\ \A r \in DOMAIN built : built[r].class \in AllClasses
    /\ stored.form \in {"none", "full", "compact", "failed"}
    /\ DOMAIN stored.data \subseteq DOMAIN built
    /\ release \in [defaults : BOOLEAN, versions : BOOLEAN]
    /\ loaded.form \in {"none", "full", "compact", "failed"}

\* The classes down to a component that is held, each held by the one before.
Holding(n) ==
    {classes \in [1..n -> AllClasses] :
        \A i \in 2..n : classes[i] \in Class(classes[i - 1]).parts}

ComponentsInit ==
    /\ \E n \in 1..MaxHeld : \E classes \in Holding(n) :
          built \in {nodes \in [1..n -> UNION {Made[classes[i]] : i \in 1..n}] :
                        \A i \in 1..n : nodes[i] \in Made[classes[i]]}
    /\ stored = Nothing("none") /\ loaded = Nothing("none")
    /\ release = [defaults |-> FALSE, versions |-> FALSE]

-----------------------------------------------------------------------------
\* Slip: settings that are at their default are left out of the full form.
KeptIfSet(node) ==
    {s \in Storable(node.class) : node.values[s] # None
                                   /\ (s \in Defaulted(node.class) => node.values[s] # Default)}

\* serialize() leaves out what is None.
Kept(node) == {s \in Storable(node.class) : node.values[s] # None}

\* _compact leaves out what is at its default, and the version.
Serialized(node, form) ==
    LET left == IF form = "full" THEN {}
                ELSE {s \in Defaulted(node.class) : node.values[s] = Default}
    IN [class |-> node.class, versioned |-> form = "full",
        kept |-> [s \in Kept(node) \ left |-> node.values[s]]]

\* The provider is the framework's own or in an allowed package.
Allowed(c) == c # "Foreign" \/ c \in Trusted

CanStore(form) ==
    \A r \in DOMAIN built :
        /\ built[r].class # "FunctionTool"
        /\ form = "compact" => Allowed(built[r].class)

\* A component that can not be stored fails the one that holds it.
Store(form) ==
    /\ stored.form = "none"
    /\ stored' = IF CanStore(form)
                 THEN [form |-> form, data |-> [r \in DOMAIN built |-> Serialized(built[r], form)]]
                 ELSE Nothing("failed")
    /\ UNCHANGED <<built, release, loaded>>

\* A later release has other defaults, or other configs under a new version.
Release(defaults, versions) ==
    /\ stored.form \in {"full", "compact"} /\ loaded.form = "none"
    /\ release = [defaults |-> FALSE, versions |-> FALSE]
    /\ release' = [defaults |-> defaults, versions |-> versions]
    /\ UNCHANGED <<built, stored, loaded>>

\* What a setting is that the data does not name.
DefaultNow(c, s) ==
    IF s \notin Defaulted(c) THEN None ELSE IF release.defaults THEN NewDefault ELSE Default

Restored(node) ==
    [class |-> node.class,
     values |-> [s \in AllSettings(node.class) |->
                   IF s \in DOMAIN node.kept THEN node.kept[s] ELSE DefaultNow(node.class, s)]]

\* No class reads the data of a version before its own.
CanLoad ==
    \A r \in DOMAIN stored.data :
        /\ Allowed(stored.data[r].class)
        /\ ~(stored.data[r].versioned /\ release.versions)

Load ==
    /\ stored.form \in {"full", "compact"} /\ loaded.form = "none"
    /\ loaded' = IF CanLoad
                 THEN [form |-> stored.form,
                       data |-> [r \in DOMAIN stored.data |-> Restored(stored.data[r])]]
                 ELSE Nothing("failed")
    /\ UNCHANGED <<built, stored, release>>

ComponentsNext ==
    \/ \E form \in {"full", "compact"} : Store(form)
    \/ \E defaults \in BOOLEAN, versions \in BOOLEAN : Release(defaults, versions)
    \/ Load

ComponentsSpec == ComponentsInit /\ [][ComponentsNext]_componentVars

-----------------------------------------------------------------------------
\* A setting that comes back: what was set is as it was; what was None is
\* None, unless that class has a default for it; and what was at its default
\* stays what it was in the full form, whatever the release changed, and
\* follows the defaults of the release in the compact one.
ComesBack(node, form, back, s) ==
    LET now == DefaultNow(node.class, s)
    IN CASE node.values[s] = Other   -> back.values[s] = Other
         [] node.values[s] = None    -> back.values[s] = now
         [] node.values[s] = Default -> back.values[s] = IF form = "full" THEN Default ELSE now

\* A component that loads is the one that was stored, and so are those it
\* holds, however deep; what holds code, what comes from a package that is not allowed and
\* what an older version wrote is refused as a whole, never read in part; and
\* no secret and no live object is in what was stored.
ComponentsComeBack ==
    /\ \A r \in DOMAIN stored.data :
         DOMAIN stored.data[r].kept \cap Class(built[r].class).live = {}
    /\ loaded.form \in {"full", "compact"} =>
         /\ DOMAIN loaded.data = DOMAIN built
         /\ loaded.form = "full" => ~release.versions
         /\ \A r \in DOMAIN built :
              /\ loaded.data[r].class = built[r].class /\ built[r].class # "FunctionTool"
              /\ built[r].class = "Foreign" => "Foreign" \in Trusted
              /\ \A s \in Storable(built[r].class) :
                   ComesBack(built[r], loaded.form, loaded.data[r], s)

=============================================================================
