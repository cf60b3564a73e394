----------------------------- MODULE Migration -----------------------------
(***************************************************************************)
(* The migration job (cmd/migrate/main.go, internal/dbmigration/           *)
(* migrate.go): runs of it, on several machines at once, execute one       *)
(* statement in a transaction of a session that holds an advisory lock.    *)
(*                                                                         *)
(* External: PostgreSQL and database/sql.  The lock belongs to the         *)
(* session; a session whose client is gone, or gave up a query, ends some  *)
(* time later, which rolls its transaction back and frees the lock.  Once  *)
(* the context is done, Commit and Rollback only report that, and the      *)
(* rollback is left to a goroutine of the transaction (awaitDone).         *)
(***************************************************************************)
EXTENDS Naturals

CONSTANTS
  Runs,    \* runs of the job
  Nobody   \* no session

ASSUME NobodyAssumption == Nobody \notin Runs

VARIABLES
  at,         \* the statement each run is at
  only,       \* whether it was given -validate-config-only
  session,    \* its connection: "none", "open", "lost"
  lock,       \* the session that holds the advisory lock
  tx,         \* the transaction of each session: it has executed the statement
              \* ("done"), or was given up and is still open ("abandoned")
  schema,     \* whether the tables are there
  error       \* the error a run returns, and at last its exit code

migrationVars == <<at, only, session, lock, tx, schema, error>>

MigrationInit ==
  /\ at = [r \in Runs |-> "config"]
  /\ only \in [Runs -> BOOLEAN]
  /\ session = [r \in Runs |-> "none"]
  /\ lock = Nobody
  /\ tx = [r \in Runs |-> "none"]
  /\ schema = FALSE
  /\ error = [r \in Runs |-> "none"]

Go(r, label)  == at' = [at EXCEPT ![r] = label]
Error(r)      == error' = [error EXCEPT ![r] = "error"]
KeepError     == UNCHANGED error

\* The client gives the connection up, or loses it.
Lose(r) == session' = [session EXCEPT ![r] = IF @ = "open" THEN "lost" ELSE @]

\* The configuration is loaded, which may fail; a run that only validates it
\* is done.
LoadConfig(r) ==
  /\ at[r] = "config"
  /\ \/ Go(r, IF only[r] THEN "exit" ELSE "connect") /\ KeepError
     \/ Go(r, "exit") /\ Error(r)
  /\ UNCHANGED <<only, session, lock, tx, schema>>

\* Open, ping and db.Conn: one session, or an error.
Connect(r) ==
  /\ at[r] = "connect"
  /\ \/ /\ session' = [session EXCEPT ![r] = "open"]
        /\ Go(r, "lock") /\ KeepError
     \/ Go(r, "exit") /\ Error(r) /\ UNCHANGED session
  /\ UNCHANGED <<only, lock, tx, schema>>

\* Mutant: the lock is only tried, and the migration goes on without it.
MayEnterTrying(r) == TRUE

\* pg_advisory_lock waits until no other session holds it.
MayEnter(r) == lock = Nobody

Lock(r) ==
  /\ at[r] = "lock"
  /\ session[r] = "open"
  /\ MayEnter(r)
  /\ lock' = IF lock = Nobody THEN r ELSE lock
  /\ Go(r, "begin")
  /\ KeepError
  /\ UNCHANGED <<only, session, tx, schema>>

\* The wait fails or the context is done, in which case the driver gives the
\* connection up.  The server may have granted the lock in that moment.
LockFails(r) ==
  /\ at[r] = "lock"
  /\ Lose(r)
  /\ \/ UNCHANGED lock
     \/ session[r] = "open" /\ lock = Nobody /\ lock' = r
  /\ Go(r, "exit") /\ Error(r)
  /\ UNCHANGED <<only, tx, schema>>

\* BeginTx and the statement, which may fail for any reason.
Execute(r) ==
  /\ at[r] = "begin"
  /\ session[r] = "open"
  /\ tx' = [tx EXCEPT ![r] = "done"]
  /\ Go(r, "commit")
  /\ KeepError
  /\ UNCHANGED <<only, session, lock, schema>>

\* An error of either, and the Rollback after it: the transaction is over, or
\* the connection is, with the statement executed or not; or the context is
\* done, and Rollback returns ErrTxDone before awaitDone has rolled back.
ExecuteFails(r) ==
  /\ at[r] = "begin"
  /\ \/ UNCHANGED <<session, tx>>
     \/ /\ session[r] = "open" /\ UNCHANGED session
        /\ tx' = [tx EXCEPT ![r] = "abandoned"]
     \/ /\ session[r] = "open" /\ Lose(r)
        /\ \E t \in {"none", "done"} : tx' = [tx EXCEPT ![r] = t]
  /\ Go(r, "unlock") /\ Error(r)
  /\ UNCHANGED <<only, lock, schema>>

Commit(r) ==
  /\ at[r] = "commit"
  /\ session[r] = "open"
  /\ schema' = TRUE
  /\ tx' = [tx EXCEPT ![r] = "none"]
  /\ Go(r, "unlock")
  /\ KeepError
  /\ UNCHANGED <<only, session, lock>>

\* The server refuses it; or the context is done before it is sent, and Commit
\* returns with the connection and the transaction open; or the context is done
\* or the connection breaks after that, and it is committed or not.
CommitFails(r) ==
  /\ at[r] = "commit"
  /\ \/ /\ session[r] = "open"
        /\ tx' = [tx EXCEPT ![r] = "none"]
        /\ \/ UNCHANGED <<session, schema>>
           \/ Lose(r) /\ schema' = TRUE
     \/ /\ session[r] = "open"
        /\ tx' = [tx EXCEPT ![r] = "abandoned"]
        /\ UNCHANGED <<session, schema>>
     \/ Lose(r) /\ UNCHANGED <<schema, tx>>
  /\ Go(r, "unlock")
  /\ Error(r)
  /\ UNCHANGED <<only, lock>>

\* External: the rollback of a transaction whose context is done, in another
\* goroutine.  It is made under that context, which breaks the connection, or
\* succeeds, and then the connection is discarded.
AwaitDone(r) ==
  /\ session[r] = "open" /\ tx[r] = "abandoned"
  /\ Lose(r)
  /\ \E t \in {"none", "abandoned"} : tx' = [tx EXCEPT ![r] = t]
  /\ UNCHANGED <<at, only, lock, schema, error>>

\* The deferred pg_advisory_unlock, under a context of its own: the next
\* statement of the session, before or after the rollback.
Unlock(r) ==
  /\ at[r] = "unlock"
  /\ session[r] = "open"
  /\ lock' = IF lock = r THEN Nobody ELSE lock
  /\ Go(r, "close")
  /\ KeepError
  /\ UNCHANGED <<only, session, tx, schema>>

\* It fails, or five seconds pass: an error if there was none.
UnlockFails(r) ==
  /\ at[r] = "unlock"
  /\ Lose(r)
  /\ Go(r, "close") /\ Error(r)
  /\ UNCHANGED <<only, lock, tx, schema>>

\* conn.Close and db.Close end the session; a lost one ends by itself.  Close
\* waits for the transaction to be released (Conn.closemu).
Close(r) ==
  /\ at[r] = "close"
  /\ session[r] = "open" => tx[r] # "abandoned"
  /\ session' = [session EXCEPT ![r] = IF @ = "open" THEN "none" ELSE @]
  /\ lock' = IF lock = r /\ session[r] = "open" THEN Nobody ELSE lock
  /\ Go(r, "exit")
  /\ KeepError
  /\ UNCHANGED <<only, tx, schema>>

\* The machine dies.
RunCrashes(r) ==
  /\ at[r] \notin {"exit", "crashed"}
  /\ Lose(r)
  /\ Go(r, "crashed")
  /\ Error(r)
  /\ UNCHANGED <<only, lock, tx, schema>>

ConnectionBreaks(r) ==
  /\ session[r] = "open" /\ Lose(r)
  /\ UNCHANGED <<at, only, lock, tx, schema, error>>

\* The server ends a session that is lost to its client: rollback, and unlock.
SessionEnds(r) ==
  /\ session[r] = "lost"
  /\ session' = [session EXCEPT ![r] = "none"]
  /\ tx' = [tx EXCEPT ![r] = "none"]
  /\ lock' = IF lock = r THEN Nobody ELSE lock
  /\ UNCHANGED <<at, only, schema, error>>

RunStep(r) ==
  \/ LoadConfig(r) \/ Connect(r)
  \/ Lock(r) \/ LockFails(r)
  \/ Execute(r) \/ ExecuteFails(r)
  \/ Commit(r) \/ CommitFails(r)
  \/ AwaitDone(r)
  \/ Unlock(r) \/ UnlockFails(r) \/ Close(r)

MigrationNext ==
  \E r \in Runs : RunStep(r) \/ RunCrashes(r) \/ ConnectionBreaks(r) \/ SessionEnds(r)

-----------------------------------------------------------------------------
MigrationTypeOK ==
  /\ at \in [Runs -> {"config", "connect", "lock", "begin", "commit", "unlock", "close",
                      "exit", "crashed"}]
  /\ only \in [Runs -> BOOLEAN]
  /\ session \in [Runs -> {"none", "open", "lost"}]
  /\ lock \in Runs \union {Nobody}
  /\ tx \in [Runs -> {"none", "done", "abandoned"}]
  /\ schema \in BOOLEAN
  /\ error \in [Runs -> {"none", "error"}]

\* No two sessions have executed the statement in transactions that may still
\* be committed, through whatever cancellation, lost connection or crash.  One
\* that was given up can only be rolled back, and it may be open for a while
\* when its lock is gone.  A migration that exits with 0 has committed the
\* tables, and has left no lock behind for the next one (migrate.go:33-58).
MigrationsTakeTurns ==
  /\ \A r, q \in Runs : tx[r] = "done" /\ tx[q] = "done" => r = q
  /\ \A r \in Runs : at[r] = "exit" /\ error[r] = "none" /\ ~only[r] => schema /\ lock # r
=============================================================================
