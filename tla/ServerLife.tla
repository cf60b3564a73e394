----------------------------- MODULE ServerLife -----------------------------
(***************************************************************************)
(* The life of a server process (cmd/server/main.go): it starts its parts  *)
(* one after the other, serves the intranet listener and, where there is   *)
(* one, the public listener, and on SIGTERM closes them, waits for the     *)
(* calls that run, and releases its parts in the reverse order.  The       *)
(* calls are those of KeyAccess.                                           *)
(*                                                                         *)
(* External: the gRPC and HTTP servers.  http.Server.Shutdown closes the   *)
(* listener, returns when its time is over at the latest, and leaves       *)
(* HTTP/2 connections as they are; GracefulStop takes no more calls and    *)
(* waits for those of its server.  The drain of a server that is reached   *)
(* through ServeHTTP may panic under a call that runs; whether that server *)
(* then takes calls again on the connections it has is left open.          *)
(***************************************************************************)
EXTENDS KeyAccess, Sequences

VARIABLES
  stage,     \* the statement main is at
  public,    \* whether the public listener is configured
  up,        \* the parts that have been started and not released
  open,      \* the servers that take calls
  health,    \* what the health service answers
  term,      \* whether SIGTERM has come
  served,    \* what has become of each server's Serve, or its error in serveErr
  exit       \* how the process ended

lifeVars == <<stage, public, up, open, health, term, served, exit>>
vars == <<keys, header, call, faulty, stage, public, up, open, health, term, served, exit>>

\* The start, in order.  Some of the steps leave a part that is released later.
StartOrder   == <<"loader", "config", "listen", "telemetry", "http", "providers", "database",
                  "intranet", "public">>
Parts        == {"loader", "telemetry", "http", "providers", "database"}
Needed       == {"telemetry", "http", "providers", "database"}
ReleaseOrder == <<"database", "http", "telemetry", "loader">>

Starting == {StartOrder[i] : i \in 1 .. Len(StartOrder)}
Position(s) == CHOOSE i \in 1 .. Len(StartOrder) : StartOrder[i] = s

NextStage(s) ==
  IF s = "public" \/ (s = "intranet" /\ ~public) THEN "serving" ELSE StartOrder[Position(s) + 1]

Servers == IF public THEN Ports ELSE {"intranet"}

Alive == exit = "no"

\* The process is gone, and with it the calls it was serving.
Die(how) ==
  /\ exit' = how
  /\ call' = [c \in Calls |-> IF InHandler(c) THEN [call[c] EXCEPT !.at = "cut"] ELSE call[c]]

LifeInit ==
  /\ AccessInit
  /\ stage = "loader"
  /\ public \in BOOLEAN
  /\ up = {}
  /\ open = {}
  /\ health = "none"
  /\ term = FALSE
  /\ served = [p \in Ports |-> "no"]
  /\ exit = "no"

-----------------------------------------------------------------------------
(* Start.                                                                  *)

\* The health service says SERVING once everything but the listeners is there.
HealthAfter(s) == IF s = "database" THEN "SERVING" ELSE health

\* One part more: configuration, telemetry, metrics, providers, database and
\* then the listeners, each with a goroutine in Serve.
StartStep ==
  /\ Alive
  /\ stage \in Starting
  /\ stage' = NextStage(stage)
  /\ up' = up \union ({stage} \cap Parts)
  /\ open' = open \union ({stage} \cap Ports)
  /\ health' = HealthAfter(stage)
  /\ UNCHANGED <<accessVars, public, term, served, exit>>

\* fatal: os.Exit(1), which runs no defer and asks no call.  A call that came
\* in by the intranet is cut when the public port cannot be opened.
StartFails ==
  /\ Alive
  /\ stage \in Starting
  /\ Die("fatal")
  /\ UNCHANGED <<keys, header, faulty, stage, public, up, open, health, term, served>>

-----------------------------------------------------------------------------
(* Service.                                                                *)

Takes(c) == Alive /\ Port[c] \in open

ServedCall(c) ==
  /\ Alive
  /\ \/ Takes(c) /\ Arrive(c)
     \/ Authenticating(c)
     \/ ClientLeaves(c)
     \/ HandlerReturns(c)
  /\ UNCHANGED lifeVars

\* Serve of a server that was not asked to stop returns an error.
ServeFails(p) ==
  /\ Alive
  /\ p \in open /\ served[p] = "no"
  /\ served' = [served EXCEPT ![p] = "failed"]
  /\ open' = open \ {p}
  /\ UNCHANGED <<accessVars, stage, public, up, health, term, exit>>

\* Mutant: main returns the error, through its deferred calls.
SelectServeErrReturns ==
  /\ Alive
  /\ stage = "serving"
  /\ \E p \in Servers : served[p] = "failed"
  /\ stage' = "release"
  /\ UNCHANGED <<accessVars, public, up, open, health, term, served, exit>>

\* select: a server has failed.
SelectServeErr ==
  /\ Alive
  /\ stage = "serving"
  /\ \E p \in Servers : served[p] = "failed"
  /\ Die("fatal")
  /\ UNCHANGED <<keys, header, faulty, stage, public, up, open, health, term, served>>

\* select: ctx.Done().  The Pod reports NOT_SERVING before it refuses a call.
SelectSignal ==
  /\ Alive
  /\ stage = "serving" /\ term
  /\ health' = "NOT_SERVING"
  /\ stage' = IF public THEN "closePublic" ELSE "stopIntranet"
  /\ UNCHANGED <<accessVars, public, up, open, term, served, exit>>

-----------------------------------------------------------------------------
(* Shutdown.                                                               *)

\* publicHTTP.Shutdown: its Serve returns ErrServerClosed.
ClosePublic ==
  /\ Alive
  /\ stage = "closePublic"
  /\ stage' = "stopIntranet"
  /\ served' = [served EXCEPT !["public"] = IF @ = "no" THEN "closed" ELSE @]
  /\ UNCHANGED <<accessVars, public, up, open, health, term, exit>>

StopOf(p)  == IF p = "intranet" THEN "stopIntranet" ELSE "stopPublic"
WaitFor(p) == IF p = "intranet" THEN "waitIntranet" ELSE "waitPublic"

\* GracefulStop begins: the server takes no more calls.
StopBegins(p) ==
  /\ Alive
  /\ stage = StopOf(p)
  /\ stage' = WaitFor(p)
  /\ open' = open \ {p}
  /\ UNCHANGED <<accessVars, public, up, health, term, served, exit>>

\* External: GracefulStop of the public server panics under a call that runs:
\* main unwinds through its deferred calls, while the handlers go on in
\* goroutines of their own.
StopPanics ==
  /\ Alive
  /\ stage = "waitPublic"
  /\ \E c \in Calls : Port[c] = "public" /\ InHandler(c)
  /\ stage' = "unwind"
  /\ open' \in {open, open \union {"public"}}
  /\ UNCHANGED <<accessVars, public, up, health, term, served, exit>>

\* Mutant: Stop instead of GracefulStop.
DrainedAtOnce(p) == TRUE

Drained(p) == \A c \in Calls : Port[c] = p => ~InHandler(c)

\* GracefulStop returns, and Serve of a gRPC server with it.
StopEnds(p) ==
  /\ Alive
  /\ stage = WaitFor(p)
  /\ Drained(p)
  /\ stage' = IF p = "intranet" /\ public THEN "stopPublic" ELSE "collect"
  /\ served' = [served EXCEPT ![p] = IF @ = "no" THEN "closed" ELSE @]
  /\ UNCHANGED <<accessVars, public, up, open, health, term, exit>>

\* One error is received for each server.
Collect(p) ==
  /\ Alive
  /\ stage = "collect"
  /\ served[p] \in {"closed", "failed"}
  /\ served' = [served EXCEPT ![p] = "received"]
  /\ UNCHANGED <<accessVars, stage, public, up, open, health, term, exit>>

\* Mutant: one error is received for each of the two listeners there may be.
AllReceivedOfTwo == \A p \in Ports : served[p] = "received"

AllReceived == \A p \in Servers : served[p] = "received"

CollectEnds ==
  /\ Alive
  /\ stage = "collect"
  /\ AllReceived
  /\ stage' = "release"
  /\ UNCHANGED <<accessVars, public, up, open, health, term, served, exit>>

\* The deferred calls of main, the last one first; once the database client is
\* closed a query may fail.
Release ==
  /\ Alive
  /\ stage \in {"release", "unwind"}
  /\ \E i \in 1 .. Len(ReleaseOrder) :
       /\ ReleaseOrder[i] \in up
       /\ \A j \in 1 .. i - 1 : ReleaseOrder[j] \notin up
       /\ up' = up \ {ReleaseOrder[i]}
       /\ faulty' = (faulty \/ ReleaseOrder[i] = "database")
  /\ UNCHANGED <<keys, header, call, stage, public, open, health, term, served, exit>>

\* main returns, or the panic has reached its end.
MainReturns ==
  /\ Alive
  /\ \A i \in 1 .. Len(ReleaseOrder) : ReleaseOrder[i] \notin up
  /\ \/ stage = "release" /\ Die("ok")
     \/ stage = "unwind"  /\ Die("panicked")
  /\ UNCHANGED <<keys, header, faulty, stage, public, up, open, health, term, served>>

-----------------------------------------------------------------------------
(* The Pod's environment: SIGTERM, and SIGKILL once the grace period of    *)
(* deploy/ack.yaml is over.                                                *)

Signal ==
  /\ Alive /\ ~term
  /\ term' = TRUE
  /\ UNCHANGED <<accessVars, stage, public, up, open, health, served, exit>>

Killed ==
  /\ Alive /\ term
  /\ Die("killed")
  /\ UNCHANGED <<keys, header, faulty, stage, public, up, open, health, term, served>>

KeysChange ==
  /\ Alive
  /\ CreateKey \/ RevokeKey \/ KeyExpires
  /\ UNCHANGED lifeVars

MainStep ==
  \/ StartStep \/ SelectServeErr \/ SelectSignal
  \/ ClosePublic
  \/ \E p \in Ports : StopBegins(p) \/ StopEnds(p) \/ Collect(p)
  \/ CollectEnds \/ Release \/ MainReturns

LifeNext ==
  \/ MainStep \/ StartFails \/ StopPanics
  \/ \E c \in Calls : ServedCall(c)
  \/ \E p \in Ports : ServeFails(p)
  \/ Signal \/ Killed \/ KeysChange

Spec == LifeInit /\ [][LifeNext]_vars

\* main goes on, queries end (three seconds) and handlers return.  Nobody
\* need send SIGKILL.
LifeFairness ==
  /\ WF_vars(MainStep)
  /\ \A c \in Calls : /\ WF_vars(Alive /\ Authenticating(c) /\ UNCHANGED lifeVars)
                       /\ WF_vars(Alive /\ HandlerReturns(c) /\ UNCHANGED lifeVars)

FairSpec == Spec /\ LifeFairness

-----------------------------------------------------------------------------
LifeTypeOK ==
  /\ AccessTypeOK
  /\ stage \in Starting \union {"serving", "closePublic", "stopIntranet", "waitIntranet",
                               "stopPublic", "waitPublic", "collect", "release", "unwind"}
  /\ public \in BOOLEAN
  /\ up \subseteq Parts
  /\ open \subseteq Ports
  /\ health \in {"none", "SERVING", "NOT_SERVING"}
  /\ term \in BOOLEAN
  /\ served \in [Ports -> {"no", "closed", "failed", "received"}]
  /\ exit \in {"no", "ok", "fatal", "killed", "panicked"}

\* As long as a server that answers SERVING takes calls, and as long as a call
\* is in a handler, the database, the providers, telemetry and metrics are
\* there: nothing is released under a call, whatever fails, comes in or is
\* stopped meanwhile, but under a public one when the drain of its own server
\* has panicked (main.go:77-92, 143-161).
ServingHasItsParts ==
  Alive =>
    /\ health = "SERVING" /\ open # {} => Needed \subseteq up
    /\ \A c \in Calls :
         InHandler(c) /\ ~(stage = "unwind" /\ Port[c] = "public") => Needed \subseteq up

\* A process that ends by itself has finished every call it took: calls are
\* cut only by a fatal error or by SIGKILL, and those of the intranet, whose
\* server is drained first, by nothing that happens to the public server
\* (main.go:154-156; ack.yaml:33).
CallsAreDrained ==
  \A c \in Calls : call[c].at = "cut" =>
    \/ exit \in {"fatal", "killed"}
    \/ exit = "panicked" /\ Port[c] = "public"

\* A process that gets SIGTERM ends without SIGKILL if its calls end, at
\* whatever stage of its start the signal comes, with one server or two, and
\* whether or not a server failed before (main.go:142-163).
ShutdownEnds == term ~> exit # "no"
=============================================================================
