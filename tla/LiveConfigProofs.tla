--------------------------- MODULE LiveConfigProofs ---------------------------
(***************************************************************************)
(* Theorems about LiveConfig, for any documents, instances and number of   *)
(* callbacks: what a reload may never change, that every route leads to    *)
(* an instance the process has built, and what alone a reload is refused   *)
(* for.                                                                    *)
(***************************************************************************)
EXTENDS LiveConfig, FiniteSetTheorems, TLAPS

-----------------------------------------------------------------------------
(* Configurations.                                                         *)

\* What is bound at startup is the same in both.
Agree(a, b) ==
    /\ a.dsn = b.dsn /\ a.logfire = b.logfire
    /\ DOMAIN a.providers = DOMAIN b.providers
    /\ \A name \in DOMAIN a.providers : a.providers[name].resource = b.providers[name].resource

\* A record whose routes name instances that declare the model.
Sound(config) ==
    /\ IsConfig(config)
    /\ \A model \in DOMAIN config.routes : config.routes[model] \in Declaring(config, model)

\* The empty configuration is one.
LEMMA EmptyIsSound == Sound(EmptyConfig)
  BY DEF Sound, IsConfig, EmptyConfig, NoMap, Declaring

\* Whatever is parsed is sound, be it valid or the empty one of a blank document.
LEMMA ParsedIsSound ==
  ASSUME NEW content, IsConfig(content.config), NEW config \in ParseAndValidateYAML(content)
  PROVE  Sound(config)
<1>1. config = EmptyConfig \/ (config = content.config /\ Validate(config))
  BY Zenon DEF ParseAndValidateYAML
<1>2. QED
  BY <1>1, EmptyIsSound DEF Sound, Validate, ValidRoutes

\* The listen addresses are no part of either.
LEMMA ListeningKeeps ==
  ASSUME NEW config, Sound(config), NEW addresses
  PROVE  /\ Sound(Listening(config, addresses)) /\ Agree(config, Listening(config, addresses))
         /\ Listening(config, addresses).listen = addresses
<1>1. IsConfig(config)
  BY DEF Sound
<1> DEFINE l == Listening(config, addresses)
<1>2. l = [dsn |-> config.dsn, logfire |-> config.logfire, providers |-> config.providers,
           routes |-> config.routes, listen |-> addresses]
  BY <1>1 DEF IsConfig, Listening
<1>3. /\ l.dsn = config.dsn /\ l.logfire = config.logfire /\ l.providers = config.providers
      /\ l.routes = config.routes /\ l.listen = addresses
  BY <1>2
<1>4. IsConfig(l)
  BY <1>1, <1>2, <1>3 DEF IsConfig
<1>5. Sound(l)
  BY <1>3, <1>4 DEF Sound, Declaring
<1>6. QED
  BY <1>3, <1>5 DEF Agree


\* Agreement is an equivalence.
LEMMA AgreeTransitive ==
  ASSUME NEW a, NEW b, NEW d, Agree(a, b), Agree(b, d)
  PROVE  Agree(a, d) /\ Agree(b, a)
  BY DEF Agree

\* A reload that needs no restart agrees with what it replaces.
LEMMA ReloadAgrees ==
  ASSUME NEW next, NEW previous, ~RestartRequired(previous, next)
  PROVE  Agree(previous, next)
  BY DEF RestartRequired, ProviderResourcesEqual, Agree

-----------------------------------------------------------------------------
(* The inductive invariant.                                                *)

\* What a callback holds agrees with what is in force, whoever stored that since.
Held(held) ==
    /\ Runs /\ Source(deployment) = "nacos"
    /\ Sound(held.next) /\ Sound(held.previous)
    /\ Agree(held.previous, live) /\ held.previous.listen = live.listen

CallbacksInv ==
    /\ callbacks = [c \in Callbacks |-> callbacks[c]]
    /\ \A c \in Callbacks : callbacks[c].busy => Held(callbacks[c])

\* The instances are those of what is in force.
BuiltInv ==
    /\ process = "loaded" => Agree(loaded, live)
    /\ process = "serving" =>
          /\ DOMAIN built = DOMAIN live.providers
          /\ \A name \in DOMAIN built : built[name] = live.providers[name].resource

ConfigInv ==
    /\ IsConfig(published.config)
    /\ Sound(live) /\ Sound(loaded)

Inv == ConfigInv /\ CallbacksInv /\ BuiltInv

\* Nothing is loaded at the start.
LEMMA InvInit == Init => Inv
<1> SUFFICES ASSUME Init PROVE Inv
  OBVIOUS
<1>1. ConfigInv
  BY EmptyIsSound, ConstantsAssumption DEF Init, ConfigInv
<1>2. CallbacksInv
  BY DEF Init, CallbacksInv, Idle
<1>3. BuiltInv
  BY DEF Init, BuiltInv
<1>4. QED
  BY <1>1, <1>2, <1>3 DEF Inv

\* LoadConfig: the same configuration for the start and for the callbacks.
LEMMA LoadKeeps == Inv /\ LoadConfig => Inv'
<1> SUFFICES ASSUME Inv, LoadConfig PROVE Inv'
  OBVIOUS
<1>1. PICK config \in ParseAndValidateYAML(published), ports \in ListenPorts(deployment.ports) :
         loaded' = Listening(config, ports) /\ live' = Listening(config, ports)
  BY Zenon DEF LoadConfig
<1>2. Sound(config)
  BY <1>1, ParsedIsSound DEF Inv, ConfigInv
<1>3. Sound(Listening(config, ports))
  BY <1>2, ListeningKeeps
<1>4. ConfigInv'
  BY <1>1, <1>3 DEF LoadConfig, Inv, ConfigInv
<1>5. \A c \in Callbacks : ~callbacks[c].busy
  BY DEF LoadConfig, Inv, CallbacksInv, Held, Runs
<1>6. CallbacksInv'
  BY <1>5 DEF LoadConfig, Inv, CallbacksInv
<1>7. BuiltInv'
  BY <1>1 DEF LoadConfig, BuiltInv, Agree
<1>8. QED
  BY <1>4, <1>6, <1>7 DEF Inv

\* Build, Fatal and Publish: what is in force stays, the instances are built from what
\* agrees with it.
LEMMA MainKeeps == Inv /\ (Build \/ Fatal \/ Publish \/ UNCHANGED vars) => Inv'
<1> SUFFICES ASSUME Inv, Build \/ Fatal \/ Publish \/ UNCHANGED vars PROVE Inv'
  OBVIOUS
<1> USE DEF Inv, ConfigInv, CallbacksInv, BuiltInv, Held, Runs
<1>1. CASE Build
  <2>1. Agree(loaded, live)
    BY <1>1 DEF Build
  <2>2. /\ DOMAIN built' = DOMAIN live.providers
        /\ \A name \in DOMAIN built' : built'[name] = live.providers[name].resource
    BY <1>1, <2>1 DEF Build, ResourcesOf, Agree
  <2>3. QED
    BY <1>1, <2>2, EmptyIsSound DEF Build
<1>2. CASE Fatal
  <2>1. \A c \in Callbacks : ~callbacks'[c].busy
    BY <1>2 DEF Fatal, Idle
  <2>2. QED
    BY <1>2, <2>1 DEF Fatal
<1>3. CASE Publish
  BY <1>3, ConstantsAssumption DEF Publish
<1>4. CASE UNCHANGED vars
  BY <1>4 DEF vars
<1>5. QED
  BY <1>1, <1>2, <1>3, <1>4

\* The first half of a callback: it holds what is in force.
LEMMA LoadsKeeps == ASSUME NEW c \in Callbacks PROVE Inv /\ ApplyLoads(c) => Inv'
<1> SUFFICES ASSUME Inv, ApplyLoads(c) PROVE Inv'
  OBVIOUS
<1>1. UNCHANGED <<deployment, process, loaded, live, built, published>> /\ Runs
      /\ Source(deployment) = "nacos"
  BY DEF ApplyLoads
<1>2. ConfigInv' /\ BuiltInv'
  BY <1>1 DEF Inv, ConfigInv, BuiltInv
<1>3. CASE UNCHANGED callbacks
  BY <1>1, <1>2, <1>3 DEF Inv, CallbacksInv, Held, Runs
<1>4. ASSUME NEW next \in ParseAndValidateYAML(published),
             callbacks' = [callbacks EXCEPT ![c] = [next |-> next, previous |-> live, busy |-> TRUE]]
      PROVE  Inv'
  <2>1. Sound(next)
    BY <1>4, ParsedIsSound DEF Inv, ConfigInv
  <2>2. Agree(live, live)
    BY DEF Agree
  <2>3. ASSUME NEW d \in Callbacks, callbacks'[d].busy
        PROVE  Held(callbacks[d])'
    <3>1. CASE d = c
      <4>1. callbacks'[d] = [next |-> next, previous |-> live, busy |-> TRUE]
        BY <1>4, <3>1 DEF Inv, CallbacksInv
      <4>2. callbacks'[d].next = next /\ callbacks'[d].previous = live
        BY <4>1
      <4>3. QED
        BY <1>1, <2>1, <2>2, <4>2 DEF Held, Runs, Inv, ConfigInv
    <3>2. CASE d # c
      <4>1. callbacks'[d] = callbacks[d]
        BY <1>4, <3>2 DEF Inv, CallbacksInv
      <4>2. Held(callbacks[d])
        BY <2>3, <4>1 DEF Inv, CallbacksInv
      <4>3. QED
        BY <1>1, <4>1, <4>2 DEF Held, Runs
    <3>3. QED
      BY <3>1, <3>2
  <2>4. callbacks' = [d \in Callbacks |-> callbacks'[d]]
    BY <1>4 DEF Inv, CallbacksInv
  <2>5. QED
    BY <1>2, <2>3, <2>4 DEF Inv, CallbacksInv
<1>5. QED
  BY <1>3, <1>4 DEF ApplyLoads


\* A configuration that agrees with the last one, at the same addresses.
Follows(next) == Sound(next) /\ Agree(live, next) /\ next.listen = live.listen

\* That is what the second half leaves in force, if it stores anything.
LEMMA StoresAgree ==
  ASSUME NEW c \in Callbacks, Inv, ApplyStores(c)
  PROVE  live' = live \/ (Follows(live') /\ Source(deployment) = "nacos")
<1> DEFINE held == callbacks[c]
<1>1. Held(held)
  BY DEF ApplyStores, Inv, CallbacksInv
<1>2. CASE RestartRequired(held.previous, held.next)
  BY <1>2 DEF ApplyStores
<1>3. CASE ~RestartRequired(held.previous, held.next)
  <2>1. live' = Listening(held.next, held.previous.listen)
    BY <1>3 DEF ApplyStores, Stored
  <2>2. /\ Sound(live') /\ Agree(held.next, live') /\ live'.listen = held.previous.listen
    BY <1>1, <2>1, ListeningKeeps DEF Held
  <2>3. Agree(held.previous, held.next)
    BY <1>3, ReloadAgrees
  <2>4. Agree(live, live')
    BY <1>1, <2>2, <2>3 DEF Held, Agree
  <2>5. QED
    BY <1>1, <2>2, <2>4 DEF Held, Follows
<1>4. QED
  BY <1>2, <1>3

\* The second half: the other callbacks hold what agrees with the new one as well.
LEMMA StoresKeep == ASSUME NEW c \in Callbacks PROVE Inv /\ ApplyStores(c) => Inv'
<1> SUFFICES ASSUME Inv, ApplyStores(c) PROVE Inv'
  OBVIOUS
<1>1. /\ UNCHANGED <<deployment, process, loaded, built, published, changed>>
      /\ callbacks' = [callbacks EXCEPT ![c] = Idle]
  BY DEF ApplyStores
<1>2. /\ Sound(live') /\ Agree(live, live') /\ live'.listen = live.listen
  BY StoresAgree DEF Follows, Inv, ConfigInv, Agree
<1>3. ConfigInv'
  BY <1>1, <1>2 DEF Inv, ConfigInv
<1>4. BuiltInv'
  <2>1. process = "loaded" => Agree(loaded, live')
    BY <1>2 DEF Inv, BuiltInv, Agree
  <2>2. process = "serving" =>
          /\ DOMAIN built = DOMAIN live'.providers
          /\ \A name \in DOMAIN built : built[name] = live'.providers[name].resource
    BY <1>2 DEF Inv, BuiltInv, Agree
  <2>3. QED
    BY <1>1, <2>1, <2>2 DEF BuiltInv
<1>5. callbacks' = [d \in Callbacks |-> callbacks'[d]]
  BY <1>1 DEF Inv, CallbacksInv
<1>6. ASSUME NEW d \in Callbacks, callbacks'[d].busy
      PROVE  Held(callbacks[d])'
  <2>1. d # c
    BY <1>1, <1>6 DEF Inv, CallbacksInv, Idle
  <2>2. callbacks'[d] = callbacks[d]
    BY <1>1, <2>1 DEF Inv, CallbacksInv
  <2>3. Held(callbacks[d])
    BY <1>6, <2>2 DEF Inv, CallbacksInv
  <2>4. Agree(callbacks[d].previous, live')
    BY <1>2, <2>3, AgreeTransitive DEF Held
  <2>5. QED
    BY <1>1, <1>2, <2>2, <2>3, <2>4 DEF Held, Runs
<1>7. QED
  BY <1>3, <1>4, <1>5, <1>6 DEF Inv, CallbacksInv

\* So it always holds.
LEMMA Invariance == Spec => []Inv
<1>1. Inv /\ [Next]_vars => Inv'
  BY LoadKeeps, MainKeeps, LoadsKeeps, StoresKeep DEF Next
<1>2. QED
  BY InvInit, <1>1, PTL DEF Spec

-----------------------------------------------------------------------------
(* The theorems.                                                           *)

\* No reload changes what was bound at startup, in whatever order callbacks run:
\* each judged its document against a configuration that agrees with the one it
\* replaces, though that may be another by now.
THEOREM ReloadKeepsStartup == Spec => StartupFieldsKept
<1> DEFINE Kept ==
       /\ live'.dsn = live.dsn /\ live'.logfire = live.logfire /\ live'.listen = live.listen
       /\ DOMAIN live'.providers = DOMAIN live.providers
       /\ \A name \in DOMAIN live.providers :
             live'.providers[name].resource = live.providers[name].resource
       /\ Source(deployment) = "appconfig" => live' = live
<1>1. Inv /\ [Next]_vars => [Runs => Kept]_vars
  <2> SUFFICES ASSUME Inv, Next, Runs PROVE Kept
    OBVIOUS
  <2>1. CASE live' = live
    BY <2>1
  <2>2. ASSUME NEW c \in Callbacks, ApplyStores(c)
        PROVE  Kept
    <3>1. CASE live' = live
      BY <3>1
    <3>2. CASE Follows(live') /\ Source(deployment) = "nacos"
      BY <3>2 DEF Follows, Agree
    <3>3. QED
      BY <2>2, <3>1, <3>2, StoresAgree
  <2>3. QED
    BY <2>1, <2>2 DEF Next, LoadConfig, Build, Fatal, Publish, ApplyLoads, Runs
<1>2. QED
  BY <1>1, Invariance, PTL DEF Spec, StartupFieldsKept


\* What resolve says an instance supports is what factory.Build put in its set.
LEMMA SupportedIsBuilt ==
  ASSUME NEW kind \in Kinds, NEW capability, ProviderSupports(kind, capability)
  PROVE  capability \in BuiltCapabilities(kind)
<1>1. CASE kind \in {"gemini", "openai"}
  <2>1. BuiltCapabilities(kind) = {"text", "image"}
    BY <1>1, Zenon DEF BuiltCapabilities
  <2>2. QED
    BY <1>1, <2>1 DEF ProviderSupports
<1>2. CASE kind \in {"vertexai", "ark"}
  <2>1. BuiltCapabilities(kind) = {"text"}
    BY <1>2, Zenon DEF BuiltCapabilities
  <2>2. QED
    BY <1>2, <2>1 DEF ProviderSupports
<1>3. CASE kind = "minimax_tts"
  <2>1. BuiltCapabilities(kind) = {"speech"}
    BY <1>3, Zenon DEF BuiltCapabilities
  <2>2. QED
    BY <1>3, <2>1 DEF ProviderSupports
<1>4. CASE kind \in {"ltx", "dashscope_video", "ominilink_video", "gemini_video", "ark_video"}
  <2>1. BuiltCapabilities(kind) = {"video"}
    BY <1>4, Zenon DEF BuiltCapabilities
  <2>2. QED
    BY <1>4, <2>1 DEF ProviderSupports
<1>5. QED
  BY <1>1, <1>2, <1>3, <1>4 DEF Kinds

\* Every kind supports something.
LEMMA EveryKindSupports ==
  ASSUME NEW kind \in Kinds
  PROVE  \E capability \in Capabilities : ProviderSupports(kind, capability)
  BY DEF Kinds, Capabilities, ProviderSupports

\* A route leads to an instance that declares the model.
LEMMA RouteIsDeclared ==
  ASSUME NEW config, Sound(config), NEW model \in DOMAIN ModelRoutes(config)
  PROVE  ModelRoutes(config)[model] \in Declaring(config, model)
<1>1. /\ Cardinality(Declaring(config, model)) = 1 \/ Declaring(config, model) # {}
      /\ ModelRoutes(config)[model] = IF model \in DOMAIN config.routes THEN config.routes[model]
                                      ELSE CHOOSE name \in Declaring(config, model) : TRUE
  BY DEF ModelRoutes
<1>2. CASE model \in DOMAIN config.routes
  BY <1>1, <1>2 DEF Sound
<1>3. CASE model \notin DOMAIN config.routes
  <2>1. Declaring(config, model) # {}
    BY <1>1, FS_EmptySet
  <2>2. QED
    BY <1>1, <1>3, <2>1
<1>4. QED
  BY <1>2, <1>3

\* Every route, whatever reloads came in whatever order, leads to an instance this
\* process has built, with the resource in force and the capabilities granted for it,
\* and every model that is listed can be asked for something.
THEOREM RoutesLeadToInstances == Spec => []RoutesAreServed
<1>1. Inv => RoutesAreServed
  <2> SUFFICES ASSUME Inv, process = "serving" PROVE RoutesAreServed
    BY DEF RoutesAreServed
  <2>1. Sound(live) /\ DOMAIN built = DOMAIN live.providers
    BY DEF Inv, ConfigInv, BuiltInv
  <2>2. ASSUME NEW model \in DOMAIN ModelRoutes(live), NEW name, name = ModelRoutes(live)[model]
        PROVE  /\ name \in DOMAIN built /\ live.providers[name].resource = built[name]
               /\ built[name].kind \in Kinds
    <3>1. name \in DOMAIN live.providers
      BY <2>1, <2>2, RouteIsDeclared DEF Declaring
    <3>2. live.providers[name].resource = built[name]
      BY <2>1, <3>1 DEF Inv, BuiltInv
    <3>3. built[name] \in Resources
      BY <2>1, <3>1, <3>2 DEF Sound, IsConfig
    <3>4. QED
      BY <2>1, <3>1, <3>2, <3>3, ConstantsAssumption
  <2>3. ASSUME NEW model \in DOMAIN ModelRoutes(live), NEW capability,
               Resolve(model, capability) # {}
        PROVE  capability \in BuiltCapabilities(built[ModelRoutes(live)[model]].kind)
    BY <2>2, <2>3, SupportedIsBuilt DEF Resolve
  <2>4. ASSUME NEW model \in ListModels(AnyCategory)
        PROVE  \E capability \in Capabilities : Resolve(model, capability) # {}
    <3>1. model \in DOMAIN ModelRoutes(live)
      BY DEF ListModels
    <3> DEFINE name == ModelRoutes(live)[model]
    <3>2. name \in DOMAIN built /\ built[name].kind \in Kinds
      BY <2>2, <3>1
    <3>3. PICK capability \in Capabilities : ProviderSupports(built[name].kind, capability)
      BY <3>2, EveryKindSupports
    <3>4. name \in Resolve(model, capability)
      BY <3>1, <3>2, <3>3 DEF Resolve
    <3>5. QED
      BY <3>4
  <2>5. QED
    BY <2>2, <2>3, <2>4, Zenon DEF RoutesAreServed
<1>2. QED
  BY <1>1, Invariance, PTL
-----------------------------------------------------------------------------
(* What a reload is refused for.                                           *)

\* The process listens where its environment says, and its instances are those
\* of a configuration.
AddressInv ==
    /\ Runs => live.listen = deployment.ports
    /\ built = [name \in DOMAIN built |-> built[name]]

\* Every step keeps that.
LEMMA AddressKept == Inv /\ AddressInv /\ [Next]_vars => AddressInv'
<1> SUFFICES ASSUME Inv, AddressInv, [Next]_vars PROVE AddressInv'
  OBVIOUS
<1> USE DEF AddressInv, Runs
<1>1. CASE LoadConfig
  <2>1. PICK config \in ParseAndValidateYAML(published), ports \in ListenPorts(deployment.ports) :
           live' = Listening(config, ports)
    BY <1>1, Zenon DEF LoadConfig
  <2>2. Sound(config)
    BY <2>1, ParsedIsSound DEF Inv, ConfigInv
  <2>3. live'.listen = ports
    BY <2>1, <2>2, ListeningKeeps
  <2>4. ports = deployment.ports
    BY DEF ListenPorts
  <2>5. QED
    BY <1>1, <2>3, <2>4 DEF LoadConfig
<1>2. CASE Build
  BY <1>2 DEF Build, ResourcesOf
<1>3. CASE Fatal
  BY <1>3 DEF Fatal
<1>4. CASE Publish
  BY <1>4 DEF Publish
<1>5. ASSUME NEW c \in Callbacks, ApplyLoads(c) PROVE AddressInv'
  BY <1>5 DEF ApplyLoads
<1>6. ASSUME NEW c \in Callbacks, ApplyStores(c) PROVE AddressInv'
  <2>1. live'.listen = live.listen
    BY <1>6, StoresAgree DEF Follows
  <2>2. QED
    BY <1>6, <2>1 DEF ApplyStores
<1>7. CASE UNCHANGED vars
  BY <1>7 DEF vars
<1>8. QED
  BY <1>1, <1>2, <1>3, <1>4, <1>5, <1>6, <1>7 DEF Next

\* So it always holds.
LEMMA Addresses == Spec => []AddressInv
<1>1. Init => AddressInv
  BY DEF Init, AddressInv, Runs, NoMap
<1>2. QED
  BY <1>1, AddressKept, Invariance, PTL DEF Spec

\* The instances that are built, or will be, are those of the configuration in force.
LEMMA BoundAgrees ==
  ASSUME Inv, AddressInv, Runs
  PROVE  Bound = ResourcesOf(live)
<1>1. CASE process = "loaded"
  BY <1>1 DEF Inv, BuiltInv, Agree, Bound, ResourcesOf
<1>2. CASE process = "serving"
  <2>1. built = [name \in DOMAIN live.providers |-> live.providers[name].resource]
    BY <1>2 DEF Inv, BuiltInv, AddressInv
  <2>2. QED
    BY <1>2, <2>1 DEF Bound, ResourcesOf
<1>3. QED
  BY <1>1, <1>2 DEF Runs

\* Instances that are bound to the same resources need no restart.
LEMMA SameResources ==
  ASSUME NEW a, NEW b, ResourcesOf(a) = ResourcesOf(b)
  PROVE  ProviderResourcesEqual(a.providers, b.providers)
<1>1. DOMAIN a.providers = DOMAIN b.providers
  BY DEF ResourcesOf
<1>2. ASSUME NEW name \in DOMAIN a.providers
      PROVE  a.providers[name].resource = b.providers[name].resource
  <2>1. /\ ResourcesOf(a)[name] = a.providers[name].resource
        /\ ResourcesOf(b)[name] = b.providers[name].resource
    BY <1>1 DEF ResourcesOf
  <2>2. QED
    BY <2>1
<1>3. QED
  BY <1>1, <1>2 DEF ProviderResourcesEqual

\* A callback that stores nothing of its document had one that changes what is bound
\* at startup, judged against what is in force by then and not only against what the
\* callback had read.
LEMMA RefusalIsJust ==
  ASSUME NEW c \in Callbacks, Inv, AddressInv, ApplyStores(c),
         NEW next, next = callbacks[c].next,
         live' # Listening(next, deployment.ports)
  PROVE  \/ next.dsn # live.dsn \/ next.logfire # live.logfire
         \/ ResourcesOf(next) # Bound
<1> DEFINE previous == callbacks[c].previous
<1>1. Held(callbacks[c]) /\ Runs
  BY DEF ApplyStores, Inv, CallbacksInv
<1>2. previous.listen = deployment.ports /\ Agree(previous, live)
  BY <1>1 DEF Held, AddressInv
<1>3. RestartRequired(previous, next)
  BY <1>2 DEF ApplyStores, Stored
<1>4. previous.dsn = live.dsn /\ previous.logfire = live.logfire
  BY <1>2 DEF Agree
<1>5. ResourcesOf(previous) = Bound
  <2>1. ResourcesOf(previous) = ResourcesOf(live)
    BY <1>2 DEF Agree, ResourcesOf
  <2>2. QED
    BY <1>1, <2>1, BoundAgrees
<1>6. ResourcesOf(next) = Bound => ProviderResourcesEqual(previous.providers, next.providers)
  BY <1>5, SameResources
<1>7. QED
  BY <1>3, <1>4, <1>6 DEF RestartRequired

\* RefusedOnlyForRestart: a document that changes nothing but models and routes is
\* never dropped, whatever callbacks stored between its Load and its Store
\* (config/live_config.go, ApplyYAML).
THEOREM RefusalNeedsRestart == Spec => RefusedOnlyForRestart
<1> DEFINE Just ==
       \A c \in Callbacks :
         LET next == callbacks[c].next IN
         Runs /\ callbacks[c].busy /\ live' # Listening(next, deployment.ports) =>
            \/ callbacks'[c] = callbacks[c] \/ process' = "exited"
            \/ next.dsn # live.dsn \/ next.logfire # live.logfire
            \/ ResourcesOf(next) # Bound
<1>1. Inv /\ AddressInv /\ [Next]_vars => [Just]_vars
  <2> SUFFICES ASSUME Inv, AddressInv, Next,
                      NEW c \in Callbacks, NEW next, next = callbacks[c].next,
                      Runs, callbacks[c].busy, live' # Listening(next, deployment.ports)
               PROVE  \/ callbacks'[c] = callbacks[c] \/ process' = "exited"
                      \/ next.dsn # live.dsn \/ next.logfire # live.logfire
                      \/ ResourcesOf(next) # Bound
    OBVIOUS
  <2>1. CASE LoadConfig
    BY <2>1 DEF LoadConfig, Runs
  <2>2. CASE Build \/ Fatal \/ Publish
    BY <2>2 DEF Build, Fatal, Publish
  <2>3. ASSUME NEW d \in Callbacks, ApplyLoads(d) \/ ApplyStores(d), d # c
        PROVE  callbacks'[c] = callbacks[c]
    BY <2>3 DEF ApplyLoads, ApplyStores, Inv, CallbacksInv
  <2>4. CASE ApplyLoads(c)
    BY <2>4 DEF ApplyLoads
  <2>5. CASE ApplyStores(c)
    BY <2>5, RefusalIsJust
  <2>6. QED
    BY <2>1, <2>2, <2>3, <2>4, <2>5 DEF Next
<1>2. QED
  BY <1>1, Invariance, Addresses, PTL DEF Spec, RefusedOnlyForRestart
=============================================================================
