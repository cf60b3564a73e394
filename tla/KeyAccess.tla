----------------------------- MODULE KeyAccess -----------------------------
(***************************************************************************)
(* How a call enters the gateway: the API keys of the public listener      *)
(* (internal/auth/public_apikey.go, internal/apikeystore) against the      *)
(* table modelhub_api_key, which the operations platform writes to at any  *)
(* moment.  Calls of the intranet listener pass no interceptor.            *)
(*                                                                         *)
(* Between the query and the decision a key may be revoked or expire; the  *)
(* client may leave at any time, and the query may fail or last longer     *)
(* than its three seconds.                                                 *)
(***************************************************************************)
EXTENDS Ent

CONSTANTS
  Calls,       \* RPCs
  Port,        \* the listener each call comes in by
  KeyIds,      \* key_id values
  Secrets,     \* secrets, up to their SHA-256
  Principals,  \* principal_id values
  Forms,       \* the forms an authorization header is sent in
  MaxRows      \* how many keys the platform creates

Ports == {"intranet", "public"}
PublicCalls == {c \in Calls : Port[c] = "public"}

ASSUME CallsAssumption ==
  /\ Port \in [Calls -> Ports]
  /\ "bearer" \in Forms

VARIABLES
  keys,    \* the table modelhub_api_key
  header,  \* the authorization header of each public call
  call,    \* where each call is
  faulty   \* whether the database may fail a query

accessVars == <<keys, header, call, faulty>>

Row == [key_id : KeyIds, principal_id : Principals, secret_sha256 : Secrets,
        revoked : BOOLEAN, expired : BOOLEAN]

\* The form is that of the whole header: absent, a bare key, a foreign
\* prefix, a token without its secret, or Bearer wgmh_<key_id>_<secret>.
Header == [form : Forms, key_id : KeyIds, secret : Secrets]

-----------------------------------------------------------------------------
(* The key store.                                                          *)

ParseBearerToken(h) == h.form = "bearer"

SecretsMatch(stored, presented) == stored = presented

\* Query().Where(KeyIDEQ(id)).Only.
Get(id) == Only(Query(keys, [key_id |-> id]))

\* Mutant: expires_at is not looked at.
MayPassUnexpired(r, h) == ~r.revoked /\ SecretsMatch(r.secret_sha256, h.secret)

\* The verdict on a row that was read: revoked when it was read, expired by now.
MayPass(r, h) ==
  /\ ~r.revoked
  /\ ~\E now \in keys : now.key_id = r.key_id /\ now.expired
  /\ SecretsMatch(r.secret_sha256, h.secret)

Standing(h) ==
  LET known == {r \in keys : /\ ParseBearerToken(h) /\ r.key_id = h.key_id
                             /\ SecretsMatch(r.secret_sha256, h.secret)}
  IN CASE known = {}                                -> "unknown"
       [] \E r \in known : r.revoked \/ r.expired   -> "dead"
       [] OTHER                                     -> "good"

-----------------------------------------------------------------------------
New == [at |-> "new", arrived |-> "unknown", found |-> [err |-> "none"],
        caller |-> "none", here |-> TRUE]

AccessInit ==
  /\ keys = {}
  /\ header \in [PublicCalls -> Header]
  /\ call = [c \in Calls |-> New]
  /\ faulty \in BOOLEAN

Move(c, label) == call' = [call EXCEPT ![c].at = label]

\* A call reaches its server: the intranet one runs its handler, the public
\* one its interceptor (health checks pass it; they change nothing).
Arrive(c) ==
  /\ call[c].at = "new"
  /\ call' = [call EXCEPT
       ![c].at = IF Port[c] = "public" THEN "authenticating" ELSE "running",
       ![c].arrived = IF Port[c] = "public" THEN Standing(header[c]) ELSE @]
  /\ UNCHANGED <<keys, header, faulty>>

\* No metadata, or a header that is not a key: Unauthenticated, without a query.
RefuseHeader(c) ==
  /\ call[c].at = "authenticating"
  /\ ~ParseBearerToken(header[c])
  /\ Move(c, "unauthenticated")
  /\ UNCHANGED <<keys, header, faulty>>

\* The query by key_id, under a context that is detached from the call's.
LookUp(c) ==
  /\ call[c].at = "authenticating"
  /\ ParseBearerToken(header[c])
  /\ call' = [call EXCEPT ![c].at = "found", ![c].found = Get(header[c].key_id)]
  /\ UNCHANGED <<keys, header, faulty>>

\* The database fails, or three seconds pass; a client that is gone does not end the query.
LookUpFails(c) ==
  /\ call[c].at = "authenticating"
  /\ ParseBearerToken(header[c])
  /\ faulty
  /\ Move(c, "unavailable")
  /\ UNCHANGED <<keys, header, faulty>>

\* ErrInvalid is Unauthenticated, any other error Unavailable; a key that
\* passes gives the call the name of its principal.
Decide(c) ==
  LET found == call[c].found IN
  /\ call[c].at = "found"
  /\ LET verdict ==
           CASE found.err = "notSingular"         -> "unavailable"
             [] found.err = "notFound"            -> "unauthenticated"
             [] ~MayPass(found.row, header[c])    -> "unauthenticated"
             [] OTHER                             -> "running"
     IN call' = [call EXCEPT
          ![c].at = verdict,
          ![c].found = [err |-> "none"],
          ![c].caller = IF verdict = "running" THEN found.row.principal_id ELSE @]
  /\ UNCHANGED <<keys, header, faulty>>

\* The client cancels: the context of the call is done.
ClientLeaves(c) ==
  /\ call[c].at = "authenticating"
  /\ call[c].here
  /\ call' = [call EXCEPT ![c].here = FALSE]
  /\ UNCHANGED <<keys, header, faulty>>

\* The handler returns.
HandlerReturns(c) ==
  /\ call[c].at = "running"
  /\ Move(c, "answered")
  /\ UNCHANGED <<keys, header, faulty>>

-----------------------------------------------------------------------------
(* The operations platform: INSERT, UPDATE (revoked_at); and time.         *)

CreateKey ==
  /\ Cardinality(keys) < MaxRows
  /\ \E id \in KeyIds, p \in Principals, s \in Secrets :
       /\ \A r \in keys : r.key_id # id
       /\ keys' = keys \union {[key_id |-> id, principal_id |-> p, secret_sha256 |-> s,
                                revoked |-> FALSE, expired |-> FALSE]}
  /\ UNCHANGED <<header, call, faulty>>

RevokeKey ==
  /\ \E r \in keys : ~r.revoked /\ keys' = (keys \ {r}) \union {[r EXCEPT !.revoked = TRUE]}
  /\ UNCHANGED <<header, call, faulty>>

KeyExpires ==
  /\ \E r \in keys : ~r.expired /\ keys' = (keys \ {r}) \union {[r EXCEPT !.expired = TRUE]}
  /\ UNCHANGED <<header, call, faulty>>

Authenticating(c) ==
  RefuseHeader(c) \/ LookUp(c) \/ LookUpFails(c) \/ Decide(c)

InHandler(c) == call[c].at \in {"authenticating", "found", "running"}

AccessTypeOK ==
  /\ keys \subseteq Row
  /\ header \in [PublicCalls -> Header]
  /\ call \in [Calls -> [at : {"new", "authenticating", "found", "running", "answered",
                               "unauthenticated", "unavailable", "cut"},
                         arrived : {"unknown", "good", "dead"},
                         found : {[err |-> e] : e \in {"none", "notFound", "notSingular"}}
                                   \union {[err |-> "none", row |-> r] : r \in Row},
                         caller : Principals \union {"none"},
                         here : BOOLEAN]]
  /\ faulty \in BOOLEAN

\* A public call runs only under a key that was there with its secret, and
\* that had neither been revoked nor expired when the call came in: a
\* revocation takes effect at once (store.go:21).  A call is Unauthenticated
\* only if its key was not good at some moment since; a database that works
\* never makes it Unavailable, whatever the client does (public_apikey.go:28,
\* store.go:41-42).
KeyVerdictsHold ==
  \A c \in PublicCalls :
    /\ call[c].at \in {"running", "answered"} =>
         /\ call[c].arrived # "dead"
         /\ \E r \in keys : /\ r.key_id = header[c].key_id
                            /\ r.secret_sha256 = header[c].secret
                            /\ r.principal_id = call[c].caller
    /\ call[c].at = "unauthenticated" =>
         call[c].arrived # "good" \/ Standing(header[c]) # "good"
    /\ call[c].at = "unavailable" => faulty
=============================================================================
