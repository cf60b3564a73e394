------------------------------ MODULE TaskTable ------------------------------
(***************************************************************************)
(* The store of video tasks (internal/taskstore/store.go) on the table     *)
(* modelhub.generation_task, under the handlers of GenerationTask: `row'   *)
(* says what the handlers rely on, `table' what the statements really do   *)
(* to it.  Each step of a handler that changes a row is the execution of   *)
(* one statement of the store; the invariant says that every statement     *)
(* that is under way would find, and miss, what the handlers suppose.      *)
(***************************************************************************)
EXTENDS GenerationTask, Ent

VARIABLE table

tableVars == <<vars, table>>

-----------------------------------------------------------------------------
(* The generated builders of GenerationTask.                               *)

Blank == ""

\* A task id is a UUID.
ASSUME BlankAssumption == Blank \notin Submits

\* What a reason stands for in the columns error_code and error_message too.
ErrorText(r) == IF r = "NONE" THEN Blank ELSE r
ErrorCode(r) == IF r = "NONE" THEN 0 ELSE 1

TaskColumns ==
  {"task_id", "caller", "request_id", "request_hash", "model", "provider", "provider_task_id",
   "state", "error_code", "error_message", "error_reason", "created_at", "updated_at"}

CreateDefaults ==
  [provider_task_id |-> Blank, error_code |-> 0, error_message |-> Blank, error_reason |-> Blank,
   created_at |-> "created", updated_at |-> "created"]

UpdateDefaults == [updated_at |-> "updated"]

\* Every column but the id, which only the database requires.
Required == TaskColumns \ {"task_id"}

\* Mutant: migration 001 without its UNIQUE (caller, request_id).
KeysOfIdOnly == {{"task_id"}}

\* The primary key and the unique index.
Keys == {{"task_id"}, {"caller", "request_id"}}

-----------------------------------------------------------------------------
(* The store.                                                              *)

InsertMutation(s) ==
  [task_id |-> s, caller |-> call[s].caller, request_id |-> call[s].request,
   request_hash |-> call[s].body, model |-> "model", provider |-> "provider",
   provider_task_id |-> Blank, state |-> "PENDING",
   error_code |-> 0, error_message |-> Blank, error_reason |-> Blank]

Insert(s) == Create(table, InsertMutation(s), CreateDefaults, Required, Keys)

ErrorColumns(r) ==
  [error_code |-> ErrorCode(r), error_message |-> ErrorText(r), error_reason |-> ErrorText(r)]

UpdateMutation(w) ==
  CASE w.op = "running"   -> [provider |-> "provider", provider_task_id |-> w.task, state |-> "RUNNING"]
    [] w.op = "failed"    -> Over([state |-> "FAILED"], ErrorColumns(w.reason))
    [] w.op = "succeeded" -> Over([state |-> "SUCCEEDED"], ErrorColumns("NONE"))

\* Mutant: the WHERE of an update names the task only.
WhereOfId(w) == [task_id |-> w.task]

Where(w) == [task_id |-> w.task, state |-> w.expect]

Statement(w) == Update(table, Where(w), UpdateMutation(w), UpdateDefaults)

\* No error, and a row: the statement the handlers call applied.
Hits(w) ==
  IF w.op = "insert" THEN Insert(w.task).err = "none" ELSE Statement(w).n # 0

After(w) == IF w.op = "insert" THEN Insert(w.task).table ELSE Statement(w).table

GetByTaskID(t) == Only(Query(table, [task_id |-> t]))

GetByCallerRequest(c, id) == Only(Query(table, [caller |-> c, request_id |-> id]))

\* fromEnt, and the part of it the handlers rely on.
FromEnt(r) ==
  [state |-> r.state,
   id |-> IF r.provider_task_id = Blank THEN NoId ELSE r.provider_task_id,
   reason |-> IF r.error_code = 0 THEN "NONE" ELSE r.error_reason]

-----------------------------------------------------------------------------
TableInit == Init /\ table = {}

\* The statement that turns a row into what it is next.
Executed(t) ==
  CASE row'[t].state = "PENDING"   -> InsertPending(t)
    [] row'[t].state = "RUNNING"   -> MarkRunning(t)
    [] row'[t].state = "FAILED"    -> MarkFailed(t, row[t].state, row'[t].reason)
    [] row'[t].state = "SUCCEEDED" -> MarkSucceeded(t)

Recorded ==
  \/ row' = row /\ UNCHANGED table
  \/ \E t \in Submits : row'[t] # row[t] /\ table' = After(Executed(t))

TableNext == Next /\ Recorded

TableSpec == TableInit /\ [][TableNext]_tableVars

-----------------------------------------------------------------------------
\* The table holds what the handlers suppose, in every state of their races:
\* a task is found under its id, once, with its state, provider task id and
\* error, exactly when it was inserted; every statement under way or left to
\* the database would hit exactly when the handlers' own guard says so; and a
\* Submit whose insert met the key finds one task to compare its hash with,
\* which is that of its first Submit (store.go:86-209, generation_task.go:53-58).
TableImplementsRows ==
  /\ \A t \in Submits :
       LET got == GetByTaskID(t) IN
       IF Present(t)
         THEN got.err = "none" /\ FromEnt(got.row) = row[t] /\ got.row.request_hash = call[t].body
         ELSE IsNotFound(got.err)
  /\ \A w \in late \union UNION {InFlight(s) : s \in Submits} : Hits(w) <=> Matches(w)
  /\ \A s \in Submits : pc[s] = "insert" =>
       Insert(s).err = "none" \/ IsConstraintError(Insert(s).err)
  /\ \A s \in Submits : pc[s] = "requery" =>
       LET got == GetByCallerRequest(call[s].caller, call[s].request) IN
       got.err = "none" /\ Key(got.row.task_id) = Key(s) /\ Present(got.row.task_id)
=============================================================================
