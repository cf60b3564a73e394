----------------------------- MODULE PodProofs -----------------------------
(***************************************************************************)
(* Theorems about the two programs of the image: ServerLife and the calls  *)
(* of KeyAccess, for any number of calls by either listener, any keys,     *)
(* secrets and principals, and however often the platform writes to the    *)
(* table of keys; and Migration, for any set of runs of the job.           *)
(***************************************************************************)
EXTENDS ServerLife, Migration, FiniteSetTheorems, TLAPS

-----------------------------------------------------------------------------
(* The order of the start.                                                 *)

\* The stages of the start, as a set.
LEMMA StartStages ==
  Starting = {"loader", "config", "listen", "telemetry", "http", "providers", "database",
              "intranet", "public"}
  BY DEF Starting, StartOrder

\* What comes after each of them.
LEMMA StageAfter ==
  /\ NextStage("loader") = "config"       /\ NextStage("config") = "listen"
  /\ NextStage("listen") = "telemetry"    /\ NextStage("telemetry") = "http"
  /\ NextStage("http") = "providers"      /\ NextStage("providers") = "database"
  /\ NextStage("database") = "intranet"
  /\ NextStage("intranet") = IF public THEN "public" ELSE "serving"
  /\ NextStage("public") = "serving"
<1>1. Position("loader") = 1 /\ Position("config") = 2 /\ Position("listen") = 3
  BY DEF Position, StartOrder
<1>2. Position("telemetry") = 4 /\ Position("http") = 5 /\ Position("providers") = 6
  BY DEF Position, StartOrder
<1>3. Position("database") = 7 /\ Position("intranet") = 8
  BY DEF Position, StartOrder
<1>4. /\ StartOrder[2] = "config" /\ StartOrder[3] = "listen" /\ StartOrder[4] = "telemetry"
      /\ StartOrder[5] = "http" /\ StartOrder[6] = "providers" /\ StartOrder[7] = "database"
      /\ StartOrder[8] = "intranet" /\ StartOrder[9] = "public"
  BY DEF StartOrder
<1>5. QED
  BY <1>1, <1>2, <1>3, <1>4 DEF NextStage

-----------------------------------------------------------------------------
(* Types.                                                                  *)

Ats == {"new", "authenticating", "found", "running", "answered",
        "unauthenticated", "unavailable", "cut"}

NotARow == {[err |-> e] : e \in {"none", "notFound", "notSingular"}}
ARow    == {[err |-> "none", row |-> r] : r \in Row}

CallType == [at : Ats, arrived : {"unknown", "good", "dead"}, found : NotARow \union ARow,
             caller : Principals \union {"none"}, here : BOOLEAN]

\* A call that has been looked up holds a row, or an error.
LookedUp ==
  \A c \in Calls : call[c].at = "found" =>
    call[c].found \in ARow \union {[err |-> "notFound"], [err |-> "notSingular"]}

Types == LifeTypeOK /\ LookedUp

\* What the query by key_id answers.
LEMMA GetType ==
  ASSUME keys \subseteq Row, NEW id
  PROVE  Get(id) \in ARow \union {[err |-> "notFound"], [err |-> "notSingular"]}
<1> DEFINE rows == Query(keys, [key_id |-> id])
<1>1. rows \subseteq Row
  BY DEF Query
<1>2. CASE rows = {}
  <2>1. Cardinality(rows) # 1
    BY <1>2, FS_EmptySet
  <2>2. Get(id) = [err |-> "notFound"]
    BY <1>2, <2>1 DEF Get, Only
  <2>3. QED
    BY <2>2
<1>3. CASE rows # {} /\ Cardinality(rows) = 1
  <2>1. Get(id) = [err |-> "none", row |-> CHOOSE r \in rows : TRUE]
    BY <1>3 DEF Get, Only
  <2>2. (CHOOSE r \in rows : TRUE) \in Row
    BY <1>1, <1>3
  <2>3. QED
    BY <2>1, <2>2 DEF ARow
<1>4. CASE rows # {} /\ Cardinality(rows) # 1
  <2>1. Get(id) = [err |-> "notSingular"]
    BY <1>4 DEF Get, Only
  <2>2. QED
    BY <2>1
<1>5. QED
  BY <1>2, <1>3, <1>4

\* The three ways a header can stand.
LEMMA StandingType ==
  ASSUME NEW h
  PROVE  Standing(h) \in {"unknown", "good", "dead"}
  BY DEF Standing

\* The types, at the start.
LEMMA TypesInit == LifeInit => Types
<1>1. SUFFICES ASSUME LifeInit PROVE Types
  OBVIOUS
<1>2. New \in CallType
  BY DEF New, CallType, Ats, NotARow
<1>3. AccessTypeOK
  BY <1>1, <1>2 DEF LifeInit, AccessInit, AccessTypeOK, CallType, Ats, NotARow, ARow
<1>4. LookedUp
  BY <1>1 DEF LifeInit, AccessInit, LookedUp, New
<1>5. QED
  BY <1>1, <1>3, <1>4, StartStages DEF LifeInit, Types, LifeTypeOK

\* A step that leaves a process dead keeps the types.
LEMMA DieTypes ==
  ASSUME Types, NEW how \in {"ok", "fatal", "killed", "panicked"}, Die(how),
         UNCHANGED <<keys, header, faulty, stage, public, up, open, health, term, served>>
  PROVE  Types'
<1>1. call \in [Calls -> CallType]
  BY DEF Types, LifeTypeOK, AccessTypeOK, CallType, Ats, NotARow, ARow
<1>2. \A c \in Calls : [call[c] EXCEPT !.at = "cut"] \in CallType
  BY <1>1 DEF CallType, Ats
<1>3. call' \in [Calls -> CallType]
  BY <1>1, <1>2 DEF Die
<1>4. AccessTypeOK'
  BY <1>3 DEF Types, LifeTypeOK, AccessTypeOK, CallType, Ats, NotARow, ARow, PublicCalls, Row,
     Header
<1>5. LookedUp'
  <2>1. SUFFICES ASSUME NEW c \in Calls, call'[c].at = "found"
                 PROVE  call'[c] = call[c]
    BY DEF Types, LookedUp, ARow, Row
  <2>2. [call[c] EXCEPT !.at = "cut"].at = "cut"
    BY <1>1 DEF CallType
  <2>3. QED
    BY <1>1, <2>1, <2>2 DEF Die
<1>6. QED
  BY <1>4, <1>5 DEF Types, LifeTypeOK, Die

\* One call has moved, and holds what its new place asks for.
LEMMA CallTypes ==
  ASSUME Types, NEW c \in Calls, NEW to \in CallType, call' = [call EXCEPT ![c] = to],
         to.at = "found" =>
           to.found \in ARow \union {[err |-> "notFound"], [err |-> "notSingular"]},
         UNCHANGED <<keys, header, faulty>>, UNCHANGED lifeVars
  PROVE  Types'
<1>1. call \in [Calls -> CallType]
  BY DEF Types, LifeTypeOK, AccessTypeOK, CallType, Ats, NotARow, ARow
<1>2. call' \in [Calls -> CallType]
  BY <1>1
<1>3. AccessTypeOK'
  BY <1>2 DEF Types, LifeTypeOK, AccessTypeOK, CallType, Ats, NotARow, ARow, PublicCalls, Row,
     Header
<1>4. LookedUp'
  <2>1. SUFFICES ASSUME NEW d \in Calls, call'[d].at = "found"
                 PROVE  call'[d].found \in ARow \union {[err |-> "notFound"],
                                                         [err |-> "notSingular"]}
    BY DEF LookedUp, ARow, Row
  <2>2. CASE d = c
    BY <1>1, <2>1, <2>2
  <2>3. CASE d # c
    BY <1>1, <2>1, <2>3 DEF Types, LookedUp
  <2>4. QED
    BY <2>2, <2>3
<1>5. QED
  BY <1>3, <1>4 DEF Types, LifeTypeOK, lifeVars

\* Every way a call moves, by itself or through its database query.
LEMMA ServedCallTypes ==
  ASSUME Types, NEW c \in Calls, ServedCall(c)
  PROVE  Types'
<1>1. UNCHANGED <<keys, header, faulty>> /\ UNCHANGED lifeVars
  BY DEF ServedCall, Takes, Arrive, Authenticating, RefuseHeader, LookUp, LookUpFails, Decide,
     ClientLeaves, HandlerReturns
<1>2. call \in [Calls -> CallType] /\ keys \subseteq Row
  BY DEF Types, LifeTypeOK, AccessTypeOK, CallType, Ats, NotARow, ARow
<1>3. call[c] \in CallType
  BY <1>2
<1>4. CASE Arrive(c)
  <2> DEFINE to == [call[c] EXCEPT
         !.at = IF Port[c] = "public" THEN "authenticating" ELSE "running",
         !.arrived = IF Port[c] = "public" THEN Standing(header[c]) ELSE call[c].arrived]
  <2>1. to \in CallType /\ to.at # "found"
    BY <1>3, StandingType DEF CallType, Ats
  <2>2. call' = [call EXCEPT ![c] = to]
    BY <1>2, <1>4 DEF Arrive
  <2>3. QED
    BY <1>1, <2>1, <2>2, CallTypes
<1>5. CASE RefuseHeader(c) \/ LookUpFails(c) \/ HandlerReturns(c)
  <2>1. PICK label \in Ats \ {"found"} : call' = [call EXCEPT ![c] = [call[c] EXCEPT !.at = label]]
    BY <1>2, <1>5 DEF RefuseHeader, LookUpFails, HandlerReturns, Move, Ats
  <2>2. [call[c] EXCEPT !.at = label] \in CallType /\ [call[c] EXCEPT !.at = label].at # "found"
    BY <1>3 DEF CallType
  <2>3. QED
    BY <1>1, <2>1, <2>2, CallTypes
<1>6. CASE LookUp(c)
  <2> DEFINE to == [call[c] EXCEPT !.at = "found", !.found = Get(header[c].key_id)]
  <2>1. Get(header[c].key_id) \in ARow \union {[err |-> "notFound"], [err |-> "notSingular"]}
    BY <1>2, GetType
  <2>2. to \in CallType /\ to.found = Get(header[c].key_id)
    BY <1>3, <2>1 DEF CallType, Ats, NotARow
  <2>3. call' = [call EXCEPT ![c] = to]
    BY <1>2, <1>6 DEF LookUp
  <2>4. QED
    BY <1>1, <2>1, <2>2, <2>3, CallTypes
<1>7. CASE Decide(c)
  <2> DEFINE found == call[c].found
             verdict == CASE found.err = "notSingular"      -> "unavailable"
                          [] found.err = "notFound"         -> "unauthenticated"
                          [] ~MayPass(found.row, header[c]) -> "unauthenticated"
                          [] OTHER                          -> "running"
             to == [call[c] EXCEPT !.at = verdict, !.found = [err |-> "none"],
                      !.caller = IF verdict = "running" THEN found.row.principal_id
                                                        ELSE call[c].caller]
  <2>1. verdict \in {"unavailable", "unauthenticated", "running"}
    OBVIOUS
  <2>2. verdict = "running" => found \in ARow
    BY <1>2, <1>7 DEF Decide, Types, LookedUp
  <2>3. verdict = "running" => found.row.principal_id \in Principals
    BY <2>2 DEF ARow, Row
  <2>4. to \in CallType /\ to.at # "found"
    BY <1>3, <2>1, <2>3 DEF CallType, Ats, NotARow
  <2>5. call' = [call EXCEPT ![c].at = verdict, ![c].found = [err |-> "none"],
                             ![c].caller = IF verdict = "running" THEN found.row.principal_id
                                                                  ELSE @]
    BY <1>7, Zenon DEF Decide
  <2>6. call' = [call EXCEPT ![c] = to]
    <3> HIDE DEF verdict, found
    <3> QED BY <1>2, <2>5
  <2>7. QED
    BY <1>1, <2>4, <2>6, CallTypes
<1>8. CASE ClientLeaves(c)
  <2>1. [call[c] EXCEPT !.here = FALSE] \in CallType /\ [call[c] EXCEPT !.here = FALSE].at # "found"
    BY <1>3, <1>8 DEF CallType, ClientLeaves
  <2>2. call' = [call EXCEPT ![c] = [call[c] EXCEPT !.here = FALSE]]
    BY <1>8 DEF ClientLeaves
  <2>3. QED
    BY <1>1, <2>1, <2>2, CallTypes
<1>9. QED
  BY <1>4, <1>5, <1>6, <1>7, <1>8 DEF ServedCall, Authenticating

\* Every step of the process and of its environment keeps the types.
LEMMA TypesStep ==
  ASSUME Types, [LifeNext]_vars
  PROVE  Types'
<1>1. CASE UNCHANGED vars
  BY <1>1 DEF vars, Types, LifeTypeOK, AccessTypeOK, LookedUp, PublicCalls, Header, Row, ARow
<1>2. CASE StartStep
  <2>1. NextStage(stage) \in Starting \union {"serving"}
    BY <1>2, StageAfter, StartStages DEF StartStep
  <2>2. QED
    BY <1>2, <2>1 DEF StartStep, HealthAfter, accessVars, Types, LifeTypeOK, AccessTypeOK,
       LookedUp, PublicCalls, Header, Row, ARow, Parts, Ports
<1>3. CASE SelectServeErr \/ MainReturns \/ StartFails \/ Killed
  BY <1>3, DieTypes DEF SelectServeErr, MainReturns, StartFails, Killed
<1>4. CASE SelectSignal \/ ClosePublic \/ CollectEnds \/ StopPanics \/ Release \/ Signal
           \/ \E p \in Ports : StopBegins(p) \/ StopEnds(p) \/ Collect(p) \/ ServeFails(p)
  <2>1. UNCHANGED <<keys, header, call>> /\ UNCHANGED public /\ UNCHANGED exit
    BY <1>4 DEF SelectSignal, ClosePublic, CollectEnds, StopPanics, Release, Signal, StopBegins,
       StopEnds, Collect, ServeFails, accessVars
  <2>2. /\ stage' \in {stage, "closePublic", "stopIntranet", "waitIntranet", "stopPublic",
                       "waitPublic", "collect", "release", "unwind"}
        /\ up' \subseteq up /\ open' \subseteq open \union {"public"}
        /\ health' \in {health, "NOT_SERVING"}
        /\ term' \in {term, TRUE}
        /\ faulty' \in {faulty, TRUE, FALSE}
    BY <1>4 DEF SelectSignal, ClosePublic, CollectEnds, StopPanics, Release, Signal, StopBegins,
       StopEnds, Collect, ServeFails, WaitFor, accessVars
  <2>3. served' \in [Ports -> {"no", "closed", "failed", "received"}]
    BY <1>4 DEF SelectSignal, ClosePublic, CollectEnds, StopPanics, Release, Signal, StopBegins,
       StopEnds, Collect, ServeFails, Types, LifeTypeOK
  <2>4. AccessTypeOK' /\ LookedUp'
    BY <2>1, <2>2 DEF Types, LifeTypeOK, AccessTypeOK, LookedUp, PublicCalls, Header, Row, ARow
  <2>5. stage' \in Starting \union {"serving", "closePublic", "stopIntranet", "waitIntranet",
                                    "stopPublic", "waitPublic", "collect", "release", "unwind"}
    BY <2>2 DEF Types, LifeTypeOK
  <2>6. QED
    BY <2>1, <2>2, <2>3, <2>4, <2>5 DEF Types, LifeTypeOK, Ports
<1>5. CASE \E c \in Calls : ServedCall(c)
  BY <1>5, ServedCallTypes
<1>6. CASE KeysChange
  <2>1. keys' \subseteq Row
    <3>1. keys \subseteq Row
      BY DEF Types, LifeTypeOK, AccessTypeOK
    <3>2. CASE CreateKey
      <4>1. PICK id \in KeyIds, p \in Principals, s \in Secrets :
              keys' = keys \union {[key_id |-> id, principal_id |-> p, secret_sha256 |-> s,
                                    revoked |-> FALSE, expired |-> FALSE]}
        BY <3>2, Zenon DEF CreateKey
      <4>2. [key_id |-> id, principal_id |-> p, secret_sha256 |-> s,
             revoked |-> FALSE, expired |-> FALSE] \in Row
        BY DEF Row
      <4>3. QED
        BY <3>1, <4>1, <4>2, Zenon
    <3>3. CASE RevokeKey
      BY <3>1, <3>3 DEF RevokeKey, Row
    <3>4. CASE KeyExpires
      BY <3>1, <3>4 DEF KeyExpires, Row
    <3>5. QED
      BY <1>6, <3>2, <3>3, <3>4 DEF KeysChange
  <2>2. UNCHANGED <<header, call, faulty>> /\ UNCHANGED lifeVars
    BY <1>6 DEF KeysChange, CreateKey, RevokeKey, KeyExpires
  <2>3. QED
    BY <2>1, <2>2 DEF lifeVars, Types, LifeTypeOK, AccessTypeOK, LookedUp, PublicCalls,
       Header, Row, ARow
<1>7. QED
  BY <1>1, <1>2, <1>3, <1>4, <1>5, <1>6 DEF LifeNext, MainStep

\* The types of a process, of its calls and of the table of keys.
THEOREM LifeTypeCorrect == Spec => []LifeTypeOK
<1>1. LifeInit => Types
  BY TypesInit
<1>2. Types /\ [LifeNext]_vars => Types'
  BY TypesStep
<1>3. Types => LifeTypeOK
  BY DEF Types
<1>4. QED
  BY <1>1, <1>2, <1>3, PTL DEF Spec

-----------------------------------------------------------------------------
(* Where main is, and what is there then.                                  *)

\* The stages from the first listener to the last result: every part is there.
Working == {"intranet", "public", "serving", "closePublic", "stopIntranet", "waitIntranet",
            "stopPublic", "waitPublic", "collect"}

PartsInv ==
  /\ stage \in Working => Needed \subseteq up
  /\ stage = "http" => "telemetry" \in up
  /\ stage = "providers" => {"telemetry", "http"} \subseteq up
  /\ stage = "database" => {"telemetry", "http", "providers"} \subseteq up

HealthInv == health = "SERVING" => stage \in {"intranet", "public", "serving"}

PublicInv == stage \in {"public", "closePublic", "stopPublic", "waitPublic", "unwind"} => public

OpenInv ==
  /\ "intranet" \in open => stage \in {"public", "serving", "closePublic", "stopIntranet"}
  /\ "public" \in open =>
       stage \in {"serving", "closePublic", "stopIntranet", "waitIntranet", "stopPublic",
                  "unwind"}

\* A server that takes calls is one there is.
OpenIsConfigured == "public" \in open => public

StageInv == PartsInv /\ HealthInv /\ PublicInv /\ OpenInv /\ OpenIsConfigured

\* A process that has not started yet.
LEMMA StageInit == LifeInit => StageInv
  BY DEF LifeInit, StageInv, PartsInv, HealthInv, PublicInv, OpenInv, OpenIsConfigured, Working

\* The process at the start, in service and at its end.
LEMMA StageStep ==
  ASSUME Types, StageInv, [LifeNext]_vars
  PROVE  StageInv'
<1> USE DEF StageInv, PartsInv, HealthInv, PublicInv, OpenInv, OpenIsConfigured, Working, Needed
<1>1. CASE UNCHANGED vars
  BY <1>1 DEF vars
<1>2. CASE StartStep
  <2>1. /\ stage' = NextStage(stage)
        /\ up' = up \union ({stage} \cap Parts) /\ open' = open \union ({stage} \cap Ports)
        /\ health' = (IF stage = "database" THEN "SERVING" ELSE health) /\ public' = public
    BY <1>2 DEF StartStep, HealthAfter
  <2>2. CASE stage \in {"loader", "config", "listen"}
    BY <2>1, <2>2, StageAfter DEF Ports
  <2>3. CASE stage \in {"telemetry", "http", "providers"}
    BY <2>1, <2>3, StageAfter DEF Ports, Parts
  <2>4. CASE stage = "database"
    BY <2>1, <2>4, StageAfter DEF Ports, Parts
  <2>5. CASE stage = "intranet"
    <3>1. CASE public
      BY <2>1, <2>5, <3>1, StageAfter DEF Ports
    <3>2. CASE ~public
      BY <2>1, <2>5, <3>2, StageAfter DEF Ports
    <3>3. QED
      BY <3>1, <3>2
  <2>6. CASE stage = "public"
    BY <2>1, <2>6, StageAfter DEF Ports
  <2>7. QED
    BY <1>2, <2>2, <2>3, <2>4, <2>5, <2>6, StartStages DEF StartStep
<1>3. CASE SelectServeErr \/ MainReturns \/ StartFails \/ Killed \/ Signal
           \/ KeysChange \/ \E c \in Calls : ServedCall(c)
  BY <1>3 DEF SelectServeErr, MainReturns, StartFails, Killed, Signal, KeysChange,
     ServedCall, lifeVars
<1>4. CASE SelectSignal
  BY <1>4 DEF SelectSignal
<1>5. CASE ClosePublic
  BY <1>5 DEF ClosePublic
<1>6. CASE CollectEnds \/ StopPanics \/ Release
  BY <1>6 DEF CollectEnds, StopPanics, Release
<1>7. ASSUME NEW p \in Ports, StopBegins(p) PROVE StageInv'
  <2>1. CASE p = "intranet"
    BY <1>7, <2>1 DEF StopBegins, StopOf, WaitFor
  <2>2. CASE p = "public"
    BY <1>7, <2>2 DEF StopBegins, StopOf, WaitFor
  <2>3. QED
    BY <1>7, <2>1, <2>2 DEF Ports
<1>8. ASSUME NEW p \in Ports, StopEnds(p) PROVE StageInv'
  <2>1. CASE p = "intranet"
    BY <1>8, <2>1 DEF StopEnds, WaitFor
  <2>2. CASE p = "public"
    BY <1>8, <2>2 DEF StopEnds, WaitFor
  <2>3. QED
    BY <1>8, <2>1, <2>2 DEF Ports
<1>9. ASSUME NEW p \in Ports, Collect(p) \/ ServeFails(p) PROVE StageInv'
  BY <1>9 DEF Collect, ServeFails
<1>10. QED
  BY <1>1, <1>2, <1>3, <1>4, <1>5, <1>6, <1>7, <1>8, <1>9 DEF LifeNext, MainStep

-----------------------------------------------------------------------------
(* The calls a process has taken.                                          *)

\* A call is in a handler of a server that main has not finished draining, or
\* whose drain has panicked.
HandlerInv ==
  \A c \in Calls : InHandler(c) =>
    IF Port[c] = "intranet"
      THEN stage \in {"public", "serving", "closePublic", "stopIntranet", "waitIntranet"}
      ELSE /\ stage \in {"serving", "closePublic", "stopIntranet", "waitIntranet", "stopPublic",
                         "waitPublic", "unwind"}
           /\ public

LifeInv == Types /\ StageInv /\ HandlerInv /\ CallsAreDrained

\* A process that dies has no call in a handler, and has cut those that were.
LEMMA DieCalls ==
  ASSUME Types, NEW how, Die(how)
  PROVE  \A c \in Calls : /\ ~InHandler(c)'
                          /\ InHandler(c) => call'[c].at = "cut"
                          /\ ~InHandler(c) => call'[c] = call[c]
<1>1. \A c \in Calls : call[c] \in CallType
  BY DEF Types, LifeTypeOK, AccessTypeOK, CallType, Ats, NotARow, ARow
<1>2. \A c \in Calls : [call[c] EXCEPT !.at = "cut"].at = "cut"
  BY <1>1 DEF CallType
<1>3. QED
  BY <1>2 DEF Die, InHandler

\* A call enters a handler only where its server takes calls, and is cut by
\* nothing but the end of the process.
LEMMA ServedCalls ==
  ASSUME Types, NEW c \in Calls, ServedCall(c), NEW d \in Calls
  PROVE  /\ InHandler(d)' => InHandler(d) \/ Port[d] \in open
         /\ call'[d].at = "cut" => call[d].at = "cut"
<1>1. call \in [Calls -> CallType]
  BY DEF Types, LifeTypeOK, AccessTypeOK, CallType, Ats, NotARow, ARow
<1>2. CASE d # c
  BY <1>1, <1>2 DEF ServedCall, Takes, Arrive, Authenticating, RefuseHeader, LookUp, LookUpFails,
     Decide, ClientLeaves, HandlerReturns, Move, InHandler
<1>3. CASE d = c /\ Takes(c) /\ Arrive(c)
  BY <1>1, <1>3 DEF Takes, Arrive, CallType
<1>4. CASE d = c /\ Decide(c)
  <2>1. InHandler(c)
    BY <1>4 DEF Decide, InHandler
  <2>2. call'[c].at \in {"unavailable", "unauthenticated", "running"}
    BY <1>1, <1>4 DEF Decide, CallType
  <2>3. QED
    BY <1>4, <2>1, <2>2
<1>5. CASE d = c /\ (RefuseHeader(c) \/ LookUp(c) \/ LookUpFails(c) \/ ClientLeaves(c)
                     \/ HandlerReturns(c))
  <2>1. InHandler(c)
    BY <1>5 DEF RefuseHeader, LookUp, LookUpFails, ClientLeaves, HandlerReturns, InHandler
  <2>2. call'[c].at # "cut"
    BY <1>1, <1>5 DEF RefuseHeader, LookUp, LookUpFails, ClientLeaves, HandlerReturns, Move,
       CallType
  <2>3. QED
    BY <1>5, <2>1, <2>2
<1>6. QED
  BY <1>2, <1>3, <1>4, <1>5 DEF ServedCall, Authenticating

\* It has taken no call.
LEMMA LifeInvInit == LifeInit => LifeInv
<1>1. SUFFICES ASSUME LifeInit PROVE HandlerInv /\ CallsAreDrained
  BY TypesInit, StageInit DEF LifeInv
<1>2. \A c \in Calls : call[c].at = "new"
  BY <1>1 DEF LifeInit, AccessInit, New
<1>3. QED
  BY <1>2 DEF HandlerInv, InHandler, CallsAreDrained

\* A call stays with a server that is not drained yet.
LEMMA HandlerStep ==
  ASSUME LifeInv, [LifeNext]_vars
  PROVE  HandlerInv'
<1> USE DEF LifeInv, StageInv, HandlerInv
<1>1. CASE UNCHANGED vars
  BY <1>1 DEF vars, InHandler
<1>2. CASE StartStep
  <2>1. UNCHANGED <<call, public>> /\ stage' = NextStage(stage)
    BY <1>2 DEF StartStep, accessVars
  <2>2. CASE stage = "public"
    BY <2>1, <2>2, StageAfter DEF InHandler
  <2>3. CASE stage # "public"
    <3>1. \A c \in Calls : ~InHandler(c)
      BY <1>2, <2>3, StartStages DEF StartStep
    <3>2. QED
      BY <2>1, <3>1 DEF InHandler
  <2>4. QED
    BY <2>2, <2>3
<1>3. CASE SelectServeErr \/ MainReturns \/ StartFails \/ Killed
  <2>1. PICK how \in {"ok", "fatal", "killed", "panicked"} : Die(how)
    BY <1>3 DEF SelectServeErr, MainReturns, StartFails, Killed
  <2>2. QED
    BY <2>1, DieCalls
<1>4. CASE \E c \in Calls : ServedCall(c)
  <2>1. PICK c \in Calls : ServedCall(c)
    BY <1>4
  <2>2. UNCHANGED <<stage, public>>
    BY <2>1 DEF ServedCall, lifeVars
  <2>3. ASSUME NEW d \in Calls, Port[d] \in open
        PROVE  IF Port[d] = "intranet"
                 THEN stage \in {"public", "serving", "closePublic", "stopIntranet"}
                 ELSE /\ stage \in {"serving", "closePublic", "stopIntranet", "waitIntranet",
                                    "stopPublic", "unwind"}
                      /\ public
    BY <2>3, CallsAssumption DEF OpenInv, OpenIsConfigured, Ports
  <2>4. QED
    BY <2>1, <2>2, <2>3, ServedCalls
<1>5. CASE Signal \/ KeysChange \/ \E p \in Ports : Collect(p) \/ ServeFails(p)
  BY <1>5 DEF Signal, KeysChange, CreateKey, RevokeKey, KeyExpires, lifeVars, Collect, ServeFails,
     accessVars, InHandler
<1>6. CASE SelectSignal \/ ClosePublic \/ CollectEnds \/ StopPanics \/ Release
  <2>1. UNCHANGED <<call, public>>
    BY <1>6 DEF SelectSignal, ClosePublic, CollectEnds, StopPanics, Release, accessVars
  <2>2. \/ stage = "serving" /\ stage' \in {"closePublic", "stopIntranet"}
        \/ stage = "closePublic" /\ stage' = "stopIntranet"
        \/ stage = "waitPublic" /\ stage' = "unwind"
        \/ stage \in {"collect", "release"}
        \/ UNCHANGED stage
    BY <1>6 DEF SelectSignal, ClosePublic, CollectEnds, StopPanics, Release
  <2>3. QED
    BY <2>1, <2>2, CallsAssumption DEF InHandler, Ports
<1>7. CASE \E p \in Ports : StopBegins(p)
  BY <1>7 DEF StopBegins, StopOf, WaitFor, accessVars, Ports, InHandler
<1>8. CASE \E p \in Ports : StopEnds(p)
  <2>1. PICK p \in Ports : StopEnds(p)
    BY <1>8
  <2>2. UNCHANGED <<call, public>> /\ Drained(p) /\ stage = WaitFor(p)
    BY <2>1 DEF StopEnds, accessVars
  <2>3. CASE p = "intranet"
    <3>1. stage = "waitIntranet" /\ stage' = (IF public THEN "stopPublic" ELSE "collect")
      BY <2>1, <2>3 DEF StopEnds, WaitFor
    <3>2. ASSUME NEW c \in Calls, InHandler(c) PROVE Port[c] = "public" /\ public
      <4>1. Port[c] = "public"
        BY <2>2, <2>3, <3>2, CallsAssumption DEF Drained, Ports
      <4>2. QED
        BY <3>2, <4>1
    <3>3. QED
      BY <2>2, <3>1, <3>2 DEF InHandler
  <2>4. CASE p = "public"
    <3>1. stage = "waitPublic"
      BY <2>1, <2>4 DEF StopEnds, WaitFor
    <3>2. \A c \in Calls : ~InHandler(c)
      BY <2>2, <2>4, <3>1, CallsAssumption DEF Drained, Ports
    <3>3. QED
      BY <2>2, <3>2 DEF InHandler
  <2>5. QED
    BY <2>1, <2>3, <2>4 DEF Ports
<1>9. QED
  BY <1>1, <1>2, <1>3, <1>4, <1>5, <1>6, <1>7, <1>8 DEF LifeNext, MainStep

\* A call is cut only by an end of the process that may cut it.
LEMMA DrainedStep ==
  ASSUME LifeInv, [LifeNext]_vars
  PROVE  CallsAreDrained'
<1> USE DEF LifeInv, CallsAreDrained
<1>1. CASE UNCHANGED vars
  BY <1>1 DEF vars
<1>2. CASE LifeNext
  <2>1. Alive
    BY <1>2 DEF LifeNext, MainStep, StartStep, SelectServeErr, SelectSignal, ClosePublic,
       StopBegins, StopEnds, Collect, CollectEnds, Release, MainReturns, StartFails, StopPanics,
       ServedCall, ServeFails, Signal, Killed, KeysChange
  <2>2. \A c \in Calls : call[c].at # "cut"
    BY <2>1 DEF Alive
  <2>3. CASE \E how \in {"fatal", "killed"} : Die(how)
    BY <2>3 DEF Die
  <2>4. CASE MainReturns /\ stage = "release"
    <3>1. Die("ok") /\ \A c \in Calls : ~InHandler(c)
      BY <2>4 DEF MainReturns, HandlerInv
    <3>2. QED
      BY <2>2, <3>1, DieCalls
  <2>5. CASE MainReturns /\ stage = "unwind"
    <3>1. Die("panicked")
      BY <2>5 DEF MainReturns
    <3>2. \A c \in Calls : InHandler(c) => Port[c] = "public"
      BY <2>5, CallsAssumption DEF HandlerInv, Ports
    <3>3. \A c \in Calls : call'[c].at = "cut" => Port[c] = "public"
      BY <2>2, <3>1, <3>2, DieCalls
    <3>4. QED
      BY <3>1, <3>3 DEF Die
  <2>6. CASE \E c \in Calls : ServedCall(c)
    BY <2>2, <2>6, ServedCalls
  <2>7. CASE UNCHANGED call
    BY <2>2, <2>7
  <2>8. QED
    BY <1>2, <2>3, <2>4, <2>5, <2>6, <2>7 DEF LifeNext, MainStep, StartStep, SelectServeErr,
       SelectSignal, ClosePublic, StopBegins, StopEnds, Collect, CollectEnds, Release, MainReturns,
       StopPanics, StartFails, ServeFails, Signal, Killed, KeysChange, CreateKey, RevokeKey, KeyExpires, accessVars
<1>3. QED
  BY <1>1, <1>2

\* The invariant of the process and of the calls it has taken.
THEOREM LifeInvariant == Spec => []LifeInv
<1>1. LifeInit => LifeInv
  BY LifeInvInit
<1>2. LifeInv /\ [LifeNext]_vars => LifeInv'
  BY TypesStep, StageStep, HandlerStep, DrainedStep DEF LifeInv
<1>3. QED
  BY <1>1, <1>2, PTL DEF Spec

\* ServingHasItsParts: the database, the providers, telemetry and metrics are
\* there while a server that answers SERVING takes calls, and under every call
\* in a handler but the public ones that a panic of their own drain leaves
\* behind (main.go:77-92, 143-161).
THEOREM PartsOutliveCalls == Spec => []ServingHasItsParts
<1>1. ASSUME LifeInv, health = "SERVING" PROVE Needed \subseteq up
  BY <1>1 DEF LifeInv, StageInv, HealthInv, PartsInv, Working
<1>2. ASSUME LifeInv, NEW c \in Calls, InHandler(c), ~(stage = "unwind" /\ Port[c] = "public")
      PROVE  Needed \subseteq up
  <2>1. stage \in Working
    BY <1>2, CallsAssumption DEF LifeInv, HandlerInv, Working, Ports
  <2>2. QED
    BY <1>2, <2>1 DEF LifeInv, StageInv, PartsInv
<1>3. LifeInv => ServingHasItsParts
  BY <1>1, <1>2 DEF ServingHasItsParts
<1>4. QED
  BY <1>3, LifeInvariant, PTL

\* CallsAreDrained: a process that ends by itself has finished every call it
\* took (main.go:154-156).
THEOREM NoCallIsCut == Spec => []CallsAreDrained
<1>1. LifeInv => CallsAreDrained
  BY DEF LifeInv
<1>2. QED
  BY <1>1, LifeInvariant, PTL

-----------------------------------------------------------------------------
(* The keys.                                                               *)

\* The unique index on key_id, which CreateKey respects.
UniqueIds == \A r, q \in keys : r.key_id = q.key_id => r = q

\* A row is the one a header names; q is what became of r.
Names(h, r) == ParseBearerToken(h) /\ r.key_id = h.key_id /\ r.secret_sha256 = h.secret

Became(r, q) ==
  /\ q.key_id = r.key_id /\ q.principal_id = r.principal_id /\ q.secret_sha256 = r.secret_sha256
  /\ r.revoked => q.revoked
  /\ r.expired => q.expired

Known(h) == \E r \in keys : Names(h, r)
Dead(h)  == \E r \in keys : Names(h, r) /\ (r.revoked \/ r.expired)

\* What a header's standing says of the table.
LEMMA StandingMeaning ==
  ASSUME NEW h
  PROVE  /\ Standing(h) = "dead" => Dead(h)
         /\ Standing(h) = "good" => Known(h) /\ ~Dead(h)
  BY DEF Standing, Dead, Known, Names, SecretsMatch

\* The query by key_id finds the one row there is.
LEMMA GetFinds ==
  ASSUME keys \subseteq Row, UniqueIds, NEW id
  PROVE  \/ Get(id) = [err |-> "notFound"] /\ \A r \in keys : r.key_id # id
         \/ \E r \in keys : r.key_id = id /\ Get(id) = [err |-> "none", row |-> r]
<1> DEFINE rows == Query(keys, [key_id |-> id])
<1>1. \A r \in keys : r \in rows <=> r.key_id = id
  BY DEF Query, Satisfies
<1>2. rows \subseteq keys
  BY DEF Query
<1>3. CASE rows = {}
  <2>1. Cardinality(rows) # 1
    BY <1>3, FS_EmptySet
  <2>2. Get(id) = [err |-> "notFound"]
    BY <1>3, <2>1 DEF Get, Only
  <2>3. QED
    BY <1>1, <1>3, <2>2
<1>4. CASE rows # {}
  <2>1. PICK r \in rows : TRUE
    BY <1>4
  <2>2. rows = {r}
    BY <1>1, <1>2, <2>1 DEF UniqueIds
  <2>3. Cardinality(rows) = 1
    BY <2>2, FS_Singleton
  <2>4. Get(id) = [err |-> "none", row |-> CHOOSE q \in rows : TRUE]
    BY <1>4, <2>3 DEF Get, Only
  <2>5. (CHOOSE q \in rows : TRUE) = r
    BY <2>2
  <2>6. QED
    BY <1>1, <1>2, <2>1, <2>4, <2>5
<1>5. QED
  BY <1>3, <1>4

\* The platform's writes keep key_id unique, and a key only ever dies.
LEMMA KeysOnlyDie ==
  ASSUME keys \subseteq Row, UniqueIds, KeysChange
  PROVE  UniqueIds' /\ \A r \in keys : \E q \in keys' : Became(r, q)
<1>1. CASE CreateKey
  <2>1. PICK id \in KeyIds, p \in Principals, s \in Secrets :
          /\ \A r \in keys : r.key_id # id
          /\ keys' = keys \union {[key_id |-> id, principal_id |-> p, secret_sha256 |-> s,
                                   revoked |-> FALSE, expired |-> FALSE]}
    BY <1>1, Zenon DEF CreateKey
  <2>2. \A r \in keys' : r.key_id = id => r = [key_id |-> id, principal_id |-> p,
            secret_sha256 |-> s, revoked |-> FALSE, expired |-> FALSE]
    BY <2>1
  <2>3. \A r \in keys' : r.key_id # id => r \in keys
    BY <2>1
  <2>4. UniqueIds'
    BY <2>2, <2>3 DEF UniqueIds
  <2>5. \A r \in keys : r \in keys' /\ Became(r, r)
    BY <2>1 DEF Became
  <2>6. QED
    BY <2>4, <2>5
<1>2. ASSUME NEW old \in keys, NEW new, Became(old, new), keys' = (keys \ {old}) \union {new}
      PROVE  UniqueIds' /\ \A r \in keys : \E q \in keys' : Became(r, q)
  <2>1. UniqueIds'
    BY <1>2 DEF UniqueIds, Became
  <2>2. \A r \in keys : Became(r, r)
    BY DEF Became
  <2>3. QED
    BY <1>2, <2>1, <2>2
<1>3. CASE RevokeKey
  <2>1. PICK r \in keys : keys' = (keys \ {r}) \union {[r EXCEPT !.revoked = TRUE]}
    BY <1>3 DEF RevokeKey
  <2>2. Became(r, [r EXCEPT !.revoked = TRUE])
    BY DEF Became, Row
  <2>3. QED
    BY <1>2, <2>1, <2>2
<1>4. CASE KeyExpires
  <2>1. PICK r \in keys : keys' = (keys \ {r}) \union {[r EXCEPT !.expired = TRUE]}
    BY <1>4 DEF KeyExpires
  <2>2. Became(r, [r EXCEPT !.expired = TRUE])
    BY DEF Became, Row
  <2>3. QED
    BY <1>2, <2>1, <2>2
<1>5. QED
  BY <1>1, <1>3, <1>4 DEF KeysChange

-----------------------------------------------------------------------------
(* What a public call knows of its key.                                    *)

\* The standing its key had when the call came in has not become better.
ArrivedInv(c) ==
  /\ call[c].arrived = "dead" => Dead(header[c])
  /\ call[c].arrived = "good" => Known(header[c])

\* A row that was read is the row of its key, as it was or as it is.
ReadInv(c) ==
  call[c].at = "found" =>
    /\ ParseBearerToken(header[c])
    /\ call[c].found.err \in {"none", "notFound"}
    /\ call[c].found.err = "notFound" => call[c].arrived = "unknown"
    /\ call[c].found.err = "none" =>
         /\ call[c].found.row.key_id = header[c].key_id
         /\ \E q \in keys : Became(call[c].found.row, q)
         /\ call[c].arrived = "dead" /\ call[c].found.row.secret_sha256 = header[c].secret
              => call[c].found.row.revoked \/ call[c].found.row.expired

VerdictInv(c) ==
  /\ call[c].at \in {"running", "answered"} =>
       /\ call[c].arrived # "dead"
       /\ \E r \in keys : /\ r.key_id = header[c].key_id
                          /\ r.secret_sha256 = header[c].secret
                          /\ r.principal_id = call[c].caller
  /\ call[c].at = "unauthenticated" => call[c].arrived # "good" \/ Dead(header[c])
  /\ call[c].at = "unavailable" => faulty

CallInv(c) == ArrivedInv(c) /\ ReadInv(c) /\ VerdictInv(c)

KeyInv == UniqueIds /\ \A c \in PublicCalls : CallInv(c)

\* What the platform does to the table disturbs no call.
LEMMA KeysChangeCalls ==
  ASSUME Types, KeyInv, KeysChange
  PROVE  KeyInv'
<1>1. keys \subseteq Row
  BY DEF Types, LifeTypeOK, AccessTypeOK
<1>2. UniqueIds' /\ \A r \in keys : \E q \in keys' : Became(r, q)
  BY <1>1, KeysOnlyDie DEF KeyInv
<1>3. UNCHANGED <<header, call, faulty>>
  BY DEF KeysChange, CreateKey, RevokeKey, KeyExpires
<1>4. SUFFICES ASSUME NEW c \in PublicCalls
               PROVE  CallInv(c)'
  BY <1>2, <1>3 DEF KeyInv, PublicCalls
<1>5. CallInv(c)
  BY DEF KeyInv
<1>6. Dead(header[c]) => Dead(header[c])'
  BY <1>2, <1>3 DEF Dead, Names, Became
<1>7. Known(header[c]) => Known(header[c])'
  BY <1>2, <1>3 DEF Known, Names, Became
<1>8. ArrivedInv(c)'
  BY <1>3, <1>5, <1>6, <1>7 DEF CallInv, ArrivedInv
<1>9. ReadInv(c)'
  BY <1>2, <1>3, <1>5 DEF CallInv, ReadInv, Became
<1>10. VerdictInv(c)'
  <2>1. ASSUME call[c].at \in {"running", "answered"}
        PROVE  \E r \in keys' : /\ r.key_id = header[c].key_id
                                /\ r.secret_sha256 = header[c].secret
                                /\ r.principal_id = call[c].caller
    BY <1>2, <1>5, <2>1 DEF CallInv, VerdictInv, Became
  <2>2. QED
    BY <1>3, <1>5, <1>6, <2>1 DEF CallInv, VerdictInv
<1>11. QED
  BY <1>8, <1>9, <1>10 DEF CallInv

\* A step of one call leaves the others as they are.
LEMMA OneCallMoves ==
  ASSUME Types, KeyInv, NEW c \in Calls, ServedCall(c), c \in PublicCalls => CallInv(c)'
  PROVE  KeyInv'
<1>1. UNCHANGED <<keys, header, faulty>> /\ \A d \in Calls : d # c => call'[d] = call[d]
  BY DEF ServedCall, Takes, Arrive, Authenticating, RefuseHeader, LookUp, LookUpFails, Decide,
     ClientLeaves, HandlerReturns, Move, Types, LifeTypeOK, AccessTypeOK
<1>2. ASSUME NEW d \in PublicCalls, d # c PROVE CallInv(d)'
  <2>1. CallInv(d) /\ UNCHANGED <<keys, header, faulty>> /\ call'[d] = call[d]
    BY <1>1, <1>2 DEF KeyInv, PublicCalls
  <2>2. QED
    BY <2>1 DEF CallInv, ArrivedInv, ReadInv, VerdictInv, Dead, Known
<1>3. UniqueIds'
  BY <1>1 DEF KeyInv, UniqueIds
<1>4. QED
  BY <1>2, <1>3 DEF KeyInv, PublicCalls

\* A public call, from its arrival to its answer.
LEMMA ServedCallKeys ==
  ASSUME Types, KeyInv, NEW c \in Calls, ServedCall(c)
  PROVE  KeyInv'
<1>1. SUFFICES ASSUME c \in PublicCalls PROVE CallInv(c)'
  BY OneCallMoves
<1>2. call \in [Calls -> CallType] /\ keys \subseteq Row
  BY DEF Types, LifeTypeOK, AccessTypeOK, CallType, Ats, NotARow, ARow
<1>3. CallInv(c) /\ UniqueIds /\ Port[c] = "public"
  BY <1>1 DEF KeyInv, PublicCalls
<1>4. UNCHANGED <<keys, header, faulty>>
  BY DEF ServedCall, Takes, Arrive, Authenticating, RefuseHeader, LookUp, LookUpFails, Decide,
     ClientLeaves, HandlerReturns
<1> USE DEF CallInv, ArrivedInv, ReadInv, VerdictInv
<1>5. (Dead(header[c]) <=> Dead(header[c])') /\ (Known(header[c]) <=> Known(header[c])')
  BY <1>4 DEF Dead, Known
<1>6. CASE Arrive(c)
  <2>1. call'[c].at = "authenticating" /\ call'[c].arrived = Standing(header[c])
    BY <1>2, <1>3, <1>6 DEF Arrive, CallType
  <2>2. QED
    BY <1>5, <2>1, StandingMeaning
<1>7. CASE RefuseHeader(c)
  <2>1. call'[c].at = "unauthenticated" /\ call'[c].arrived = call[c].arrived
    BY <1>2, <1>7 DEF RefuseHeader, Move, CallType
  <2>2. call[c].arrived # "good"
    BY <1>3, <1>7 DEF RefuseHeader, Known, Names
  <2>3. QED
    BY <1>3, <1>5, <2>1, <2>2
<1>8. CASE LookUp(c)
  <2>1. /\ call'[c].at = "found" /\ call'[c].arrived = call[c].arrived
        /\ call'[c].found = Get(header[c].key_id) /\ ParseBearerToken(header[c])
    BY <1>2, <1>8 DEF LookUp, CallType
  <2>2. CASE /\ Get(header[c].key_id) = [err |-> "notFound"]
             /\ \A r \in keys : r.key_id # header[c].key_id
    <3>1. ~Known(header[c]) /\ ~Dead(header[c])
      BY <2>2 DEF Known, Dead, Names
    <3>2. call[c].arrived = "unknown"
      BY <1>2, <1>3, <3>1 DEF CallType
    <3>3. call'[c].found.err = "notFound"
      BY <2>1, <2>2
    <3>4. UNCHANGED header /\ call'[c].arrived = "unknown" /\ call'[c].at = "found"
      BY <1>4, <2>1, <3>2
    <3>5. QED
      BY <2>1, <3>3, <3>4
  <2>3. ASSUME NEW r \in keys, r.key_id = header[c].key_id,
               Get(header[c].key_id) = [err |-> "none", row |-> r]
        PROVE  CallInv(c)'
    <3>1. Became(r, r)
      BY DEF Became
    <3>2. call[c].arrived = "dead" => r.revoked \/ r.expired
      BY <1>3, <2>3 DEF Dead, Names, UniqueIds
    <3>3. QED
      BY <1>3, <1>4, <1>5, <2>1, <2>3, <3>1, <3>2
  <2>4. QED
    BY <1>2, <1>3, <2>2, <2>3, GetFinds
<1>9. CASE LookUpFails(c)
  <2>1. call'[c].at = "unavailable" /\ call'[c].arrived = call[c].arrived /\ faulty
    BY <1>2, <1>9 DEF LookUpFails, Move, CallType
  <2>2. QED
    BY <1>3, <1>4, <1>5, <2>1
<1>10. CASE Decide(c)
  <2> DEFINE found == call[c].found
             passes == MayPass(found.row, header[c])
  <2>1. call[c].at = "found" /\ call'[c].arrived = call[c].arrived
    BY <1>2, <1>10 DEF Decide, CallType
  <2>2. CASE found.err = "notFound"
    <3>1. call'[c].at = "unauthenticated" /\ call[c].arrived = "unknown"
      BY <1>2, <1>3, <1>10, <2>1, <2>2 DEF Decide, CallType
    <3>2. QED
      BY <1>3, <1>5, <2>1, <3>1
  <2>3. CASE found.err = "none"
    <3>1. PICK q \in keys : Became(found.row, q)
      BY <1>3, <2>1, <2>3
    <3>2. q.key_id = header[c].key_id /\ q.secret_sha256 = found.row.secret_sha256
      BY <1>3, <2>1, <2>3, <3>1 DEF Became
    <3>3. CASE passes
      <4>1. call'[c].at = "running" /\ call'[c].caller = found.row.principal_id
        BY <1>2, <1>10, <2>3, <3>3 DEF Decide, CallType
      <4>2. found.row.secret_sha256 = header[c].secret /\ ~found.row.revoked /\ ~q.expired
        BY <3>1, <3>3 DEF MayPass, SecretsMatch, Became
      <4>3. call[c].arrived # "dead"
        BY <1>3, <2>1, <2>3, <3>1, <4>2 DEF Became
      <4>4. q.principal_id = found.row.principal_id
        BY <3>1 DEF Became
      <4>5. \E r \in keys' : /\ r.key_id = header'[c].key_id
                             /\ r.secret_sha256 = header'[c].secret
                             /\ r.principal_id = call'[c].caller
        BY <1>4, <3>2, <4>1, <4>2, <4>4
      <4>6. QED
        BY <1>3, <1>4, <1>5, <2>1, <4>1, <4>3, <4>5
    <3>4. CASE ~passes
      <4>1. call'[c].at = "unauthenticated"
        BY <1>2, <1>10, <2>3, <3>4 DEF Decide, CallType
      <4>2. ASSUME call[c].arrived = "good" PROVE Dead(header[c])
        <5>1. q.secret_sha256 = header[c].secret /\ ParseBearerToken(header[c])
          BY <1>3, <3>2, <4>2 DEF Known, Names, UniqueIds
        <5>2. q.revoked \/ q.expired
          <6>1. \/ found.row.revoked
                \/ \E now \in keys : now.key_id = found.row.key_id /\ now.expired
            BY <3>2, <3>4, <5>1 DEF MayPass, SecretsMatch
          <6>2. QED
            BY <1>3, <3>1, <6>1 DEF Became, UniqueIds
        <5>3. QED
          BY <3>2, <5>1, <5>2 DEF Dead, Names
      <4>3. QED
        BY <1>3, <1>5, <2>1, <4>1, <4>2
    <3>5. QED
      BY <3>3, <3>4
  <2>4. QED
    BY <1>3, <2>1, <2>2, <2>3
<1>11. CASE ClientLeaves(c)
  <2>1. call'[c] = [call[c] EXCEPT !.here = FALSE] /\ call[c].at = "authenticating"
    BY <1>2, <1>11 DEF ClientLeaves
  <2>2. /\ call'[c].at = call[c].at /\ call'[c].arrived = call[c].arrived
    BY <1>2, <2>1 DEF CallType
  <2>3. QED
    BY <1>3, <1>5, <2>1, <2>2
<1>12. CASE HandlerReturns(c)
  <2>1. /\ call[c].at = "running" /\ call'[c].at = "answered"
        /\ call'[c].arrived = call[c].arrived /\ call'[c].caller = call[c].caller
    BY <1>2, <1>12 DEF HandlerReturns, Move, CallType
  <2>2. QED
    BY <1>3, <1>4, <1>5, <2>1
<1>13. QED
  BY <1>6, <1>7, <1>8, <1>9, <1>10, <1>11, <1>12 DEF ServedCall, Authenticating

\* Every step keeps what the calls know of their keys.
LEMMA KeyStep ==
  ASSUME Types, KeyInv, [LifeNext]_vars
  PROVE  KeyInv'
<1>1. CASE \E c \in Calls : ServedCall(c)
  BY <1>1, ServedCallKeys
<1>2. CASE KeysChange
  BY <1>2, KeysChangeCalls
<1>3. CASE \E how \in {"ok", "fatal", "killed", "panicked"} :
             Die(how) /\ UNCHANGED <<keys, header, faulty>>
  <2>1. \A c \in Calls : call'[c].arrived = call[c].arrived /\ call'[c].at \in {call[c].at, "cut"}
                         /\ (call'[c].at = "cut" \/ call'[c] = call[c])
    BY <1>3 DEF Die, Types, LifeTypeOK, AccessTypeOK
  <2>2. \A c \in PublicCalls : CallInv(c)'
    BY <1>3, <2>1 DEF KeyInv, PublicCalls, CallInv, ArrivedInv, ReadInv, VerdictInv, Dead, Known
  <2>3. QED
    BY <1>3, <2>2 DEF KeyInv, UniqueIds, PublicCalls
<1>4. CASE UNCHANGED <<keys, header, call>> /\ (faulty => faulty')
  BY <1>4 DEF KeyInv, UniqueIds, PublicCalls, CallInv, ArrivedInv, ReadInv, VerdictInv,
     Dead, Known
<1>5. QED
  <2>1. CASE UNCHANGED vars
    BY <1>4, <2>1 DEF vars, accessVars
  <2>2. CASE SelectServeErr \/ MainReturns \/ StartFails \/ Killed
    BY <1>3, <2>2 DEF SelectServeErr, MainReturns, StartFails, Killed
  <2>3. CASE StartStep \/ SelectSignal \/ ClosePublic \/ CollectEnds \/ StopPanics \/ Release
             \/ Signal
             \/ \E p \in Ports : StopBegins(p) \/ StopEnds(p) \/ Collect(p) \/ ServeFails(p)
    BY <1>4, <2>3 DEF StartStep, SelectSignal, ClosePublic, CollectEnds, StopPanics, Release,
       Signal, StopBegins, StopEnds, Collect, ServeFails, accessVars
  <2>4. QED
    BY <1>1, <1>2, <2>1, <2>2, <2>3 DEF LifeNext, MainStep

\* KeyVerdictsHold: a public call runs only under a key that was good when it
\* came in, is refused only if its key is not, and is Unavailable only when
\* the database fails (public_apikey.go:28, store.go:21-42).
THEOREM KeysAreObeyed == Spec => []KeyVerdictsHold
<1>1. LifeInit => Types /\ KeyInv
  <2>1. SUFFICES ASSUME LifeInit PROVE KeyInv
    BY TypesInit
  <2>2. \A c \in Calls : call[c].at = "new" /\ call[c].arrived = "unknown"
    BY <2>1 DEF LifeInit, AccessInit, New
  <2>3. UniqueIds
    BY <2>1 DEF LifeInit, AccessInit, UniqueIds
  <2>4. QED
    BY <2>2, <2>3 DEF KeyInv, PublicCalls, CallInv, ArrivedInv, ReadInv, VerdictInv
<1>2. Types /\ KeyInv /\ [LifeNext]_vars => (Types /\ KeyInv)'
  BY TypesStep, KeyStep
<1>3. KeyInv => KeyVerdictsHold
  BY StandingMeaning DEF KeyInv, CallInv, VerdictInv, KeyVerdictsHold
<1>4. QED
  BY <1>1, <1>2, <1>3, PTL DEF Spec

-----------------------------------------------------------------------------
(* The migration job.                                                      *)

\* What the run of the migration job is on its own: MCPod composes it with
\* the server.
MigrationSpec == MigrationInit /\ [][MigrationNext]_migrationVars

-----------------------------------------------------------------------------
(* The inductive invariant.                                                *)

\* Who has executed the statement, or is about to in a session that is open,
\* holds the lock; a session that is gone holds nothing.
LockCovers(r) ==
  /\ at[r] \in {"begin", "commit", "unlock"} /\ session[r] = "open" => lock = r
  /\ tx[r] = "done" => lock = r
  /\ session[r] = "none" => tx[r] = "none" /\ lock # r
  /\ at[r] \in {"config", "connect", "lock"} => tx[r] = "none" /\ lock # r

\* The transaction is over, or can only be rolled back, before the lock is
\* given back.
TxIsOver(r) ==
  /\ at[r] = "begin" => tx[r] = "none"
  /\ at[r] \in {"unlock", "close", "exit"} /\ session[r] = "open" => tx[r] # "done"

\* Without an error the tables are there, and then the lock is free.
NoErrorMeansDone(r) ==
  /\ at[r] \in {"unlock", "close"} /\ error[r] = "none" => schema
  /\ at[r] = "close" /\ error[r] = "none" => lock # r
  /\ at[r] = "exit" /\ error[r] = "none" /\ ~only[r] => schema /\ lock # r

RunInv(r) == LockCovers(r) /\ TxIsOver(r) /\ NoErrorMeansDone(r)

MigrationInv == MigrationTypeOK /\ \A r \in Runs : RunInv(r)

\* The migration invariant holds at the start.
LEMMA MigrationInitInv == MigrationInit => MigrationInv
  BY NobodyAssumption DEF MigrationInit, MigrationInv, MigrationTypeOK, RunInv, LockCovers,
     TxIsOver, NoErrorMeansDone

\* A step of one run leaves what the invariant says of another as it was.
LEMMA OthersKept ==
  ASSUME MigrationInv, NEW r \in Runs, NEW q \in Runs, q # r,
         RunStep(r) \/ RunCrashes(r) \/ ConnectionBreaks(r) \/ SessionEnds(r)
  PROVE  RunInv(q)'
<1> USE NobodyAssumption DEF MigrationInv, MigrationTypeOK, RunInv, LockCovers, TxIsOver,
      NoErrorMeansDone, Go, Error, KeepError, Lose
<1>1. CASE LoadConfig(r) \/ Connect(r)
  BY <1>1 DEF LoadConfig, Connect
<1>2. CASE Lock(r) \/ LockFails(r)
  BY <1>2 DEF Lock, LockFails, MayEnter
<1>3. CASE Execute(r) \/ ExecuteFails(r)
  BY <1>3 DEF Execute, ExecuteFails
<1>4. CASE Commit(r) \/ CommitFails(r)
  BY <1>4 DEF Commit, CommitFails
<1>5. CASE Unlock(r) \/ UnlockFails(r)
  BY <1>5 DEF Unlock, UnlockFails
<1>6. CASE Close(r)
  BY <1>6 DEF Close
<1>7. CASE RunCrashes(r) \/ ConnectionBreaks(r)
  BY <1>7 DEF RunCrashes, ConnectionBreaks
<1>8. CASE AwaitDone(r) \/ SessionEnds(r)
  BY <1>8 DEF AwaitDone, SessionEnds
<1>9. QED
  BY <1>1, <1>2, <1>3, <1>4, <1>5, <1>6, <1>7, <1>8 DEF RunStep

\* The run that takes the step keeps its own part, and every type.
LEMMA OwnKept ==
  ASSUME MigrationInv, NEW r \in Runs,
         RunStep(r) \/ RunCrashes(r) \/ ConnectionBreaks(r) \/ SessionEnds(r)
  PROVE  MigrationTypeOK' /\ RunInv(r)'
<1> USE NobodyAssumption DEF MigrationInv, MigrationTypeOK, RunInv, LockCovers, TxIsOver,
      NoErrorMeansDone, Go, Error, KeepError, Lose
<1>1. CASE LoadConfig(r)
  BY <1>1 DEF LoadConfig
<1>2. CASE Connect(r)
  BY <1>2 DEF Connect
<1>3. CASE Lock(r)
  BY <1>3 DEF Lock, MayEnter
<1>4. CASE LockFails(r)
  BY <1>4 DEF LockFails
<1>5. CASE Execute(r)
  BY <1>5 DEF Execute
<1>6. CASE ExecuteFails(r)
  BY <1>6 DEF ExecuteFails
<1>7. CASE Commit(r)
  BY <1>7 DEF Commit
<1>8. CASE CommitFails(r)
  BY <1>8 DEF CommitFails
<1>9. CASE Unlock(r)
  BY <1>9 DEF Unlock
<1>10. CASE UnlockFails(r)
  BY <1>10 DEF UnlockFails
<1>11. CASE Close(r)
  BY <1>11 DEF Close
<1>12. CASE RunCrashes(r)
  BY <1>12 DEF RunCrashes
<1>13. CASE ConnectionBreaks(r)
  BY <1>13 DEF ConnectionBreaks
<1>14. CASE SessionEnds(r)
  BY <1>14 DEF SessionEnds
<1>15. CASE AwaitDone(r)
  BY <1>15 DEF AwaitDone
<1>16. QED
  BY <1>1, <1>2, <1>3, <1>4, <1>5, <1>6, <1>7, <1>8, <1>9, <1>10, <1>11, <1>12, <1>13, <1>14,
     <1>15 DEF RunStep

\* Every step of a migration keeps it.
LEMMA MigrationNextInv == MigrationInv /\ [MigrationNext]_migrationVars => MigrationInv'
<1> SUFFICES ASSUME MigrationInv, [MigrationNext]_migrationVars PROVE MigrationInv'
  OBVIOUS
<1>1. CASE UNCHANGED migrationVars
  BY <1>1 DEF migrationVars, MigrationInv, MigrationTypeOK, RunInv, LockCovers, TxIsOver,
     NoErrorMeansDone
<1>2. ASSUME NEW r \in Runs,
             RunStep(r) \/ RunCrashes(r) \/ ConnectionBreaks(r) \/ SessionEnds(r)
      PROVE  MigrationInv'
  <2>1. MigrationTypeOK' /\ RunInv(r)'
    BY <1>2, OwnKept
  <2>2. \A q \in Runs \ {r} : RunInv(q)'
    BY <1>2, OthersKept
  <2>3. QED
    BY <2>1, <2>2 DEF MigrationInv
<1>3. QED
  BY <1>1, <1>2 DEF MigrationNext

-----------------------------------------------------------------------------
\* The invariant: the lock covers what is executed and may still be committed.
THEOREM MigrationInvariant == MigrationSpec => []MigrationInv
  BY MigrationInitInv, MigrationNextInv, PTL DEF MigrationSpec

\* No two runs, of any number of them, have executed the statement in
\* transactions that may still be committed, wherever contexts end, connections
\* break and machines die; and exit code 0 means that it is committed and the
\* lock given back (migrate.go:33-58).
THEOREM TakeTurns == MigrationSpec => []MigrationsTakeTurns
<1>1. MigrationInv => MigrationsTakeTurns
  BY DEF MigrationInv, RunInv, LockCovers, NoErrorMeansDone, MigrationsTakeTurns
<1>2. QED
  BY <1>1, MigrationInvariant, PTL
=============================================================================
