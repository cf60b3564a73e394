----------------------------- MODULE MCLiveConfig -----------------------------
(***************************************************************************)
(* Small instances of LiveConfig for TLC: two instances, two models, and   *)
(* documents that differ from the first one in each of the ways a reload   *)
(* may differ, valid or not.                                               *)
(***************************************************************************)
EXTENDS LiveConfig, TLC

Resource(kind, endpoint, key) == [kind |-> kind, endpoint |-> endpoint, key |-> key]

MCModels == {"m", "n"}
MCNames == {"p", "q"}
MCResources == {Resource(k, FALSE, "k1") : k \in Kinds} \cup
    {Resource("ark", TRUE, "k1"), Resource("openai", FALSE, "k2")}

Document(dsn, logfire, providers, routes) ==
    [dsn |-> dsn, logfire |-> logfire, providers |-> providers, routes |-> routes, listen |-> NoMap]
Provider(resource, models) == [resource |-> resource, models |-> models]

OpenAI == Resource("openai", FALSE, "k1")
Endpoint == Resource("ark", TRUE, "k1")
NoRoutes == [x \in {} |-> x]

\* The first document, and what may come after it.
First == Document("d1", "t1", "p" :> Provider(OpenAI, {"m"}) @@ "q" :> Provider(Endpoint, {"n"}), NoRoutes)

Reloads ==
    {\* models moved to another instance, with and without the route they need
     [First EXCEPT !.providers["p"].models = {"m", "n"}],
     [First EXCEPT !.providers["p"].models = {"m", "n"}, !.routes = "n" :> "p"],
     [First EXCEPT !.providers["p"].models = {"m", "n"}, !.routes = "n" :> "q"],
     [First EXCEPT !.providers["p"].models = {"n"}, !.routes = "n" :> "q"],
     \* a route to an instance that does not declare the model, no models, two models on an endpoint
     [First EXCEPT !.routes = "m" :> "q"],
     [First EXCEPT !.providers["p"].models = {}],
     [First EXCEPT !.providers["q"].models = {"m", "n"}, !.routes = "m" :> "p"],
     \* what needs a restart
     [First EXCEPT !.dsn = "d2"], [First EXCEPT !.dsn = ""], [First EXCEPT !.logfire = "t2"],
     [First EXCEPT !.providers["p"].resource = Resource("openai", FALSE, "k2")],
     [First EXCEPT !.providers["p"].resource = Resource("vertexai", FALSE, "k1")],
     [First EXCEPT !.providers = "p" :> Provider(OpenAI, {"m"})]}

\* One instance of each kind, for the table of capabilities.
OfKind(kind) == Document("d1", "t1", "p" :> Provider(Resource(kind, FALSE, "k1"), {"m"}), NoRoutes)

Plain(config) == [config |-> config, tail |-> "none"]

MCContents ==
    {Plain(c) : c \in Reloads \cup {First}}
    \cup {[config |-> First, tail |-> t] : t \in {"blank", "fields", "malformed"}}

\* One of the two models is in the catalog.
MCCatalog == "m" :> "llm"

Ports(grpc, http, public) == [grpc |-> grpc, http |-> http, public |-> public]
Deployed(region, identity, ports, document) ==
    [region |-> region, identity |-> identity, ports |-> ports, document |-> document]

WithPublic == Ports("50051", "8080", "50052")
Intranet   == Ports("50051", "8080", "unset")

Routed == [First EXCEPT !.providers["p"].models = {"m", "n"}, !.routes = "n" :> "p"]

\* In China the first document, a routed one and a blank one may be there at the start;
\* abroad any, and one for each kind of provider; the others do not start.
MCDeployments ==
    {Deployed("CN", FALSE, WithPublic, Plain(First)),
     Deployed("", FALSE, Intranet, Plain(Routed)),
     Deployed("CN", FALSE, Intranet, [config |-> First, tail |-> "blank"])}
    \cup {Deployed("SG", TRUE, Intranet, d) : d \in MCContents \cup {Plain(OfKind(k)) : k \in Kinds}}
    \cup {Deployed("US", FALSE, Intranet, Plain(First)), Deployed("EU", TRUE, Intranet, Plain(First)),
           Deployed("CN", TRUE, Ports("50051", "unset", "unset"), Plain(First)),
           Deployed("CN", TRUE, Ports("bad", "8080", "unset"), Plain(First)),
           Deployed("CN", TRUE, Ports("50051", "8080", "bad"), Plain(First))}

Interchangeable == Permutations(Callbacks)
==============================================================================
