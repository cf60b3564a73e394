------------------------------ MODULE LiveConfig ------------------------------
(***************************************************************************)
(* The configuration of a server process: where it is read from, how a     *)
(* document becomes a Config (ParseAndValidateYAML), how the process       *)
(* starts on one, how Nacos callbacks replace it, from before the          *)
(* providers are built and while requests are served (ApplyYAML), and how  *)
(* models are listed and a request is routed by it (ListModels,            *)
(* ModelRoutes, resolve) to a provider that factory.Build made once.       *)
(*                                                                         *)
(* A Config is a record of the fields that are compared or routed by; a    *)
(* provider's credentials, endpoint and kind are its resource.  Callbacks  *)
(* run on goroutines of the Nacos client, and ApplyYAML reads the          *)
(* configuration in force and stores the next one in two steps.            *)
(***************************************************************************)
EXTENDS Naturals, FiniteSets

CONSTANTS
    Models,       \* model identifiers
    Names,        \* names of provider instances
    Resources,    \* [kind, endpoint, key]: what a provider instance is bound to at startup
    Contents,     \* the documents that may be published: [config, tail]
    Callbacks,    \* callbacks that may run at the same time
    Catalog,      \* models/category.go: the category of every model it knows
    Deployments   \* where a process starts: [region, identity, ports] of its environment,
                  \* and the document its source holds by then

Kinds == {"gemini", "vertexai", "ark", "openai", "ltx", "dashscope_video",
          "ominilink_video", "gemini_video", "ark_video", "minimax_tts"}
Capabilities == {"text", "image", "video", "speech"}

\* What follows the first YAML document: nothing, a second document without
\* fields (an empty or comment-only one), one with fields, or a syntax error.
Tails == {"none", "blank", "fields", "malformed"}

IsConfig(config) ==
    /\ config = [dsn |-> config.dsn, logfire |-> config.logfire, providers |-> config.providers,
                 routes |-> config.routes, listen |-> config.listen]
    /\ \A name \in DOMAIN config.providers : config.providers[name].resource \in Resources

ASSUME ConstantsAssumption ==
    /\ \A r \in Resources : r.kind \in Kinds /\ r.endpoint \in BOOLEAN
    /\ \A c \in Contents \cup {d.document : d \in Deployments} :
          c.tail \in Tails /\ IsConfig(c.config)

VARIABLES
    deployment,   \* the environment variables of the process, and its first document
    process,      \* "starting", "loaded", "serving", "exited"
    loaded,       \* runtimeConfig of main, until the providers are built from it
    live,         \* LiveConfig.current
    built,        \* the provider sets of factory.Build: name -> resource
    published,    \* the content its source holds
    changed,      \* Nacos has not yet delivered it
    callbacks     \* what each callback holds between Load and Store

vars == <<deployment, process, loaded, live, built, published, changed, callbacks>>

NoMap == [x \in {} |-> x]
EmptyConfig == [dsn |-> "", logfire |-> "", providers |-> NoMap, routes |-> NoMap, listen |-> NoMap]
Idle == [next |-> EmptyConfig, previous |-> EmptyConfig, busy |-> FALSE]

\* Listen addresses come from the environment and are never in a document.
Listening(config, addresses) == [config EXCEPT !.listen = addresses]

-----------------------------------------------------------------------------
(* The environment.                                                        *)

\* An identity is the service's name, an environment AppConfig knows and an agent
\* on the loopback; in China nobody asks for it.
Source(d) ==
    CASE d.region \in {"", "CN"}                -> "nacos"
      [] d.region \in {"SG", "US"} /\ d.identity -> "appconfig"
      [] OTHER                                 -> "none"

\* A port is "unset", "bad" or a number; the public one may be left unset.
ListenPorts(ports) ==
    IF ports.grpc \in {"unset", "bad"} \/ ports.http \in {"unset", "bad"} \/ ports.public = "bad"
    THEN {} ELSE {ports}

-----------------------------------------------------------------------------
(* Validation and parsing.                                                 *)

Declaring(config, model) ==
    {name \in DOMAIN config.providers : model \in config.providers[name].models}

ValidProvider(p) ==
    /\ p.models # {}
    /\ p.resource.endpoint => Cardinality(p.models) = 1

\* A route names an instance that declares the model, and a model that several
\* instances declare has a route.
ValidRoutes(config) ==
    /\ \A model \in DOMAIN config.routes : config.routes[model] \in Declaring(config, model)
    /\ \A model \in Models :
           Cardinality(Declaring(config, model)) > 1 => model \in DOMAIN config.routes

Validate(config) ==
    /\ config.logfire # "" /\ config.dsn # ""
    /\ DOMAIN config.providers # {}
    /\ \A name \in DOMAIN config.providers : ValidProvider(config.providers[name])
    /\ ValidRoutes(config)

\* The Config returned without an error, if one is: the second Decode fails on
\* fields, reports io.EOF when there is no second document, and on a blank one
\* succeeds, which returns the empty Config with a nil error.
ParseAndValidateYAML(content) ==
    CASE content.tail \in {"malformed", "fields"} -> {}
      [] content.tail = "blank"                  -> {EmptyConfig}
      [] content.tail = "none" /\ Validate(content.config) -> {content.config}
      [] OTHER                                   -> {}

-----------------------------------------------------------------------------
(* Routing.                                                                *)

\* A model declared by one instance goes to it, by several to the chosen one.
ModelRoutes(config) ==
    [model \in {m \in Models : \/ Cardinality(Declaring(config, m)) = 1
                               \/ Declaring(config, m) # {} /\ m \in DOMAIN config.routes} |->
        IF model \in DOMAIN config.routes THEN config.routes[model]
        ELSE CHOOSE name \in Declaring(config, model) : TRUE]

\* What factory.Build puts in the Set of an instance.
BuiltCapabilities(kind) ==
    CASE kind \in {"gemini", "openai"}  -> {"text", "image"}
      [] kind \in {"vertexai", "ark"}   -> {"text"}
      [] kind = "minimax_tts"           -> {"speech"}
      [] kind \in {"ltx", "dashscope_video", "ominilink_video", "gemini_video", "ark_video"}
                                        -> {"video"}

ProviderSupports(kind, capability) ==
    \/ kind \in {"gemini", "openai"} /\ capability \in {"text", "image"}
    \/ kind \in {"vertexai", "ark"} /\ capability = "text"
    \/ kind \in {"ltx", "dashscope_video", "ominilink_video", "gemini_video", "ark_video"}
       /\ capability = "video"
    \/ kind = "minimax_tts" /\ capability = "speech"

AnyCategory == "unspecified"

\* The routed models the catalog knows, of the category asked for or of any.
ListModels(category) ==
    {model \in DOMAIN Catalog \cap DOMAIN ModelRoutes(live) :
        category = AnyCategory \/ Catalog[model] = category}

\* resolve: the configuration in force names the instance, the one of the start
\* says what it supports.  The set is empty when the request is refused.
Resolve(model, capability) ==
    {name \in DOMAIN built :
        /\ model \in DOMAIN ModelRoutes(live)
        /\ name = ModelRoutes(live)[model]
        /\ ProviderSupports(built[name].kind, capability)}

-----------------------------------------------------------------------------
(* The process.                                                            *)

Init ==
    /\ deployment \in Deployments
    /\ process = "starting" /\ loaded = EmptyConfig /\ live = EmptyConfig /\ built = NoMap
    /\ published = deployment.document /\ changed = FALSE
    /\ callbacks = [c \in Callbacks |-> Idle]

\* main: load, take the listen addresses from the environment, and listen for changes.
LoadConfig ==
    /\ process = "starting" /\ Source(deployment) # "none"
    /\ \E config \in ParseAndValidateYAML(published), ports \in ListenPorts(deployment.ports) :
          /\ loaded' = Listening(config, ports)
          /\ live' = Listening(config, ports)
    /\ process' = "loaded"
    /\ UNCHANGED <<deployment, built, published, changed, callbacks>>

ResourcesOf(config) == [name \in DOMAIN config.providers |-> config.providers[name].resource]

\* factory.Build, from the configuration main has loaded, whatever is in force by now.
Build ==
    /\ process = "loaded" /\ process' = "serving"
    /\ built' = ResourcesOf(loaded) /\ loaded' = EmptyConfig
    /\ UNCHANGED <<deployment, live, published, changed, callbacks>>

\* A source that does not answer or answers with no, or too large, a document; a
\* document, an address or a provider with an error; a database out of reach.
Fatal ==
    /\ process \in {"starting", "loaded"} /\ process' = "exited"
    /\ callbacks' = [c \in Callbacks |-> Idle]
    /\ UNCHANGED <<deployment, loaded, live, built, published, changed>>

Runs == process \in {"loaded", "serving"}

Publish ==
    /\ Runs
    /\ \E content \in Contents \ {published} : published' = content
    /\ changed' = TRUE
    /\ UNCHANGED <<deployment, process, loaded, live, built, callbacks>>

\* Mutants, here and below, stand before the operator they would replace.
ProviderResourcesEqualNamesOnly(previous, next) == DOMAIN previous = DOMAIN next

ProviderResourcesEqualWithModels(previous, next) == previous = next

\* Models are routing metadata; everything else of a provider is bound at startup.
ProviderResourcesEqual(previous, next) ==
    /\ DOMAIN previous = DOMAIN next
    /\ \A name \in DOMAIN previous : previous[name].resource = next[name].resource

RestartRequired(previous, next) ==
    \/ previous.dsn # next.dsn
    \/ previous.logfire # next.logfire
    \/ ~ProviderResourcesEqual(previous.providers, next.providers)

\* The first half of ApplyYAML: parse, and read the configuration in force.  AppConfig
\* is read once, its Listen does nothing.
ApplyLoads(c) ==
    /\ Runs /\ Source(deployment) = "nacos" /\ changed /\ ~callbacks[c].busy
    /\ changed' = FALSE
    /\ LET parsed == ParseAndValidateYAML(published) IN
       \/ parsed = {} /\ UNCHANGED callbacks
       \/ \E next \in parsed :
             callbacks' = [callbacks EXCEPT ![c] =
                              [next |-> next, previous |-> live, busy |-> TRUE]]
    /\ UNCHANGED <<deployment, process, loaded, live, built, published>>

StoredAsParsed(next, previous) == next

\* The listen addresses of the running process are carried over.
Stored(next, previous) == Listening(next, previous.listen)

\* The second half: reject what needs a restart, else store the whole Config.
ApplyStores(c) ==
    /\ Runs /\ callbacks[c].busy
    /\ LET next == callbacks[c].next
           previous == callbacks[c].previous
       IN live' = IF RestartRequired(previous, next) THEN live ELSE Stored(next, previous)
    /\ callbacks' = [callbacks EXCEPT ![c] = Idle]
    /\ UNCHANGED <<deployment, process, loaded, built, published, changed>>

Next ==
    \/ LoadConfig \/ Build \/ Fatal \/ Publish
    \/ \E c \in Callbacks : ApplyLoads(c) \/ ApplyStores(c)

Spec == Init /\ [][Next]_vars

-----------------------------------------------------------------------------
(* Properties.                                                             *)

TypeOK ==
    /\ deployment \in Deployments
    /\ process \in {"starting", "loaded", "serving", "exited"}
    /\ live.listen \in {NoMap, deployment.ports}
    /\ \A name \in DOMAIN live.providers :
          /\ name \in Names /\ live.providers[name].resource \in Resources
          /\ live.providers[name].models \in SUBSET Models \ {{}}
    /\ DOMAIN live.routes \subseteq Models
    /\ DOMAIN built \subseteq Names
    /\ published \in Contents \union {deployment.document} /\ changed \in BOOLEAN
    /\ DOMAIN callbacks = Callbacks

\* No reload, however callbacks interleave with each other and with the start, routes
\* a model to an instance the process has not built, or to one built with other
\* credentials or endpoint; a capability that resolve grants is one the instance was
\* built with, and whatever ListModels lists some capability is granted for.
RoutesAreServed ==
    process = "serving" =>
        /\ \A model \in DOMAIN ModelRoutes(live) :
              LET name == ModelRoutes(live)[model] IN
              /\ name \in DOMAIN built /\ live.providers[name].resource = built[name]
              /\ \A capability \in Capabilities :
                    Resolve(model, capability) # {} => capability \in BuiltCapabilities(built[name].kind)
        /\ \A model \in ListModels(AnyCategory) :
              \E capability \in Capabilities : Resolve(model, capability) # {}

\* What was bound at startup is never changed by a reload: database, telemetry,
\* listen addresses, the instances and their resources; and where AppConfig is the
\* source nothing is.
StartupFieldsKept ==
    [][Runs =>
        /\ live'.dsn = live.dsn /\ live'.logfire = live.logfire /\ live'.listen = live.listen
        /\ DOMAIN live'.providers = DOMAIN live.providers
        /\ \A name \in DOMAIN live.providers :
              live'.providers[name].resource = live.providers[name].resource
        /\ Source(deployment) = "appconfig" => live' = live]_vars

\* The resources of the instances, built or about to be.
Bound == IF process = "loaded" THEN ResourcesOf(loaded) ELSE built

\* A reload is refused only for what really needs a restart, judged against the
\* configuration in force: no callback that read an older one drops a document
\* that changes nothing but models and routes.
RefusedOnlyForRestart ==
    [][\A c \in Callbacks :
        LET next == callbacks[c].next IN
        Runs /\ callbacks[c].busy /\ live' # Listening(next, deployment.ports) =>
           \/ callbacks'[c] = callbacks[c] \/ process' = "exited"
           \/ next.dsn # live.dsn \/ next.logfire # live.logfire
           \/ ResourcesOf(next) # Bound]_vars

\* live_config.go:64: multiple documents are rejected and the whole Validate runs,
\* so a process never serves a configuration that Validate refuses.
ServedConfigIsValid == process = "serving" => Validate(live)
=============================================================================
