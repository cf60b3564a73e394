--------------------------- MODULE GenerationTask ---------------------------
(***************************************************************************)
(* The asynchronous video task of wg-model-hub: SubmitGeneration and       *)
(* GetGeneration (internal/service/modelhub/generation.go) running on      *)
(* several Pods over the one table modelhub.generation_task                *)
(* (internal/taskstore/store.go), and the upstream provider they submit    *)
(* to.                                                                     *)
(*                                                                         *)
(* A Submit call s writes at most one row, under the task id it generated  *)
(* (uuid.NewString): s itself stands for that id, and for the upstream job *)
(* its SubmitVideo starts.  Every database statement is one atomic step;   *)
(* a statement whose outcome the Pod did not learn (timeout, lost          *)
(* connection, cancelled context, crash) goes to `late' and may still be   *)
(* executed by the database at any later moment.                           *)
(***************************************************************************)
EXTENDS Naturals

CONSTANTS
  Submits,     \* SubmitGeneration calls, each with the task id it generates
  Pollers,     \* clients that repeat GetGeneration, on any Pod
  Callers,     \* idempotency namespaces (callerFromContext)
  RequestIds,  \* request_id values
  Bodies,      \* request bodies, up to hashGenerateRequest
  Principal,   \* the authenticated public caller of a poller, or Internal
  Internal,    \* a poller with no public principal
  NoId,        \* the blank provider_task_id, and no task at all
  StaleAfter,  \* stalePendingWithoutProviderTaskID
  MaxSkew,     \* largest difference between the clocks of two Pods
  DbMayFail    \* whether a statement under the detached context may be lost

ASSUME NoIdAssumption == NoId \notin Submits

ASSUME TimeAssumption ==
  /\ StaleAfter \in Nat
  /\ MaxSkew \in Nat

ASSUME ConfigAssumption ==
  /\ DbMayFail \in BOOLEAN
  /\ Principal \in [Pollers -> Callers \union {Internal}]

VARIABLES
  call,    \* what each Submit call asks for
  pc,      \* where the handler of each Submit call is
  reason,  \* the error_reason the handler is about to persist
  row,     \* the table, by task id
  late,    \* statements the database may still execute
  job,     \* the upstream request of each Submit call, and the job it became
  age,     \* time since created_at of each row
  poll,    \* where each GetGeneration handler is, and the row it read
  answer,  \* the task id each Submit call returned
  told     \* the task states returned to callers, by task

vars == <<call, pc, reason, row, late, job, age, poll, answer, told>>

-----------------------------------------------------------------------------
States   == {"ABSENT", "PENDING", "RUNNING", "SUCCEEDED", "FAILED"}
Terminal == {"SUCCEEDED", "FAILED"}

\* error_reason, by what it tells the caller: nothing yet, a definite
\* provider error, an unreadable provider answer, SUBMIT_OUTCOME_UNKNOWN.
Reasons  == {"NONE", "DEFINITE", "INVALID", "UNKNOWN"}

Accepted == {"running", "succeeded", "failed"}
Jobs     == {"none", "sent", "refused"} \union Accepted

Row    == [state : States, id : Submits \union {NoId}, reason : Reasons]
Absent == [state |-> "ABSENT", id |-> NoId, reason |-> "NONE"]

Key(s)     == <<call[s].caller, call[s].request>>
Present(t) == row[t].state # "ABSENT"

-----------------------------------------------------------------------------
(* The statements of the store.                                            *)

Write == [op : {"insert", "running", "failed", "succeeded"}, task : Submits,
          expect : States, reason : Reasons]

InsertPending(t) ==
  [op |-> "insert", task |-> t, expect |-> "ABSENT", reason |-> "NONE"]
MarkRunning(t) ==
  [op |-> "running", task |-> t, expect |-> "PENDING", reason |-> "NONE"]
MarkFailed(t, expected, r) ==
  [op |-> "failed", task |-> t, expect |-> expected, reason |-> r]
MarkSucceeded(t) ==
  [op |-> "succeeded", task |-> t, expect |-> "RUNNING", reason |-> "NONE"]

\* Mutants: no unique (caller, request_id) key; no state in the WHERE clause.
MatchesNoKey(w) == row[w.task].state = w.expect
MatchesAnyState(w) ==
  IF w.op = "insert"
    THEN \A u \in Submits : Key(u) = Key(w.task) => ~Present(u)
    ELSE Present(w.task)

\* The WHERE clause of the statement, or the unique key of the insert.
Matches(w) ==
  /\ row[w.task].state = w.expect
  /\ w.op = "insert" => \A u \in Submits : Key(u) = Key(w.task) => ~Present(u)

\* Mutant: MarkRunning does not store the provider's task id.
ResultNoId(w) ==
  CASE w.op = "insert"    -> [state |-> "PENDING", id |-> NoId, reason |-> "NONE"]
    [] w.op = "running"   -> [row[w.task] EXCEPT !.state = "RUNNING"]
    [] w.op = "failed"    -> [row[w.task] EXCEPT !.state = "FAILED", !.reason = w.reason]
    [] w.op = "succeeded" -> [row[w.task] EXCEPT !.state = "SUCCEEDED", !.reason = "NONE"]

\* The row the statement leaves.
Result(w) ==
  CASE w.op = "insert"    -> [state |-> "PENDING", id |-> NoId, reason |-> "NONE"]
    [] w.op = "running"   -> [row[w.task] EXCEPT !.state = "RUNNING", !.id = w.task]
    [] w.op = "failed"    -> [row[w.task] EXCEPT !.state = "FAILED", !.reason = w.reason]
    [] w.op = "succeeded" -> [row[w.task] EXCEPT !.state = "SUCCEEDED", !.reason = "NONE"]

Execute(w) == row' = [row EXCEPT ![w.task] = Result(w)]

\* The three outcomes a handler sees: the statement matched, it matched no
\* row (ErrNotFound, or a constraint error), or its outcome is not known.
Applied(w) == Matches(w) /\ Execute(w) /\ UNCHANGED late
Missed(w)  == ~Matches(w) /\ UNCHANGED <<row, late>>
Lost(w)    == late' = late \union {w} /\ UNCHANGED row

\* Mutant: the statement runs under the request's own context.
LostWithClient(w) == Lost(w)

\* detachPersistContext: a client that goes away cannot lose the statement.
LostDetached(w) == DbMayFail /\ Lost(w)

-----------------------------------------------------------------------------
Idle == [pc |-> "idle", task |-> NoId, seen |-> "ABSENT"]

Init ==
  /\ call \in [Submits -> [caller : Callers, request : RequestIds, body : Bodies]]
  /\ pc = [s \in Submits |-> "insert"]
  /\ reason = [s \in Submits |-> "NONE"]
  /\ row = [s \in Submits |-> Absent]
  /\ late = {}
  /\ job = [s \in Submits |-> "none"]
  /\ age = [s \in Submits |-> 0]
  /\ poll = [g \in Pollers |-> Idle]
  /\ answer = [s \in Submits |-> NoId]
  /\ told = [s \in Submits |-> {}]

Goto(s, label) == pc' = [pc EXCEPT ![s] = label]

\* The reply of Submit call s names task t and its state v.
Reply(s, t, v) ==
  /\ answer' = [answer EXCEPT ![s] = t]
  /\ told' = [told EXCEPT ![t] = @ \union {v}]

NoReply == UNCHANGED <<answer, told>>

-----------------------------------------------------------------------------
(* SubmitGeneration.                                                       *)

\* The insert created the row: the handler goes on to SubmitVideo.
SubmitInserted(s) ==
  /\ pc[s] = "insert"
  /\ Applied(InsertPending(s))
  /\ job' = [job EXCEPT ![s] = "sent"]
  /\ Goto(s, "submitting")
  /\ NoReply
  /\ UNCHANGED <<call, reason, age, poll>>

\* The unique key is taken: the handler looks the request up.
SubmitConflict(s) ==
  /\ pc[s] = "insert"
  /\ Missed(InsertPending(s))
  /\ Goto(s, "requery")
  /\ NoReply
  /\ UNCHANGED <<call, reason, job, age, poll>>

\* The insert failed or the client went away: Unavailable.
SubmitInsertLost(s) ==
  /\ pc[s] = "insert"
  /\ Lost(InsertPending(s))
  /\ Goto(s, "done")
  /\ NoReply
  /\ UNCHANGED <<call, reason, job, age, poll>>

\* Mutant: the stored hash is not compared.
SubmitRequeryAnyBody(s) ==
  /\ pc[s] = "requery"
  /\ Goto(s, "done")
  /\ \/ \E t \in Submits : Present(t) /\ Key(t) = Key(s) /\ Reply(s, t, row[t].state)
     \/ NoReply
  /\ UNCHANGED <<call, reason, row, late, job, age, poll>>

\* getByCallerRequest: the stored task when the hash is the same,
\* AlreadyExists when it is not, Unavailable when the query fails.
SubmitRequery(s) ==
  /\ pc[s] = "requery"
  /\ Goto(s, "done")
  /\ \/ \E t \in Submits : /\ Present(t) /\ Key(t) = Key(s)
                           /\ call[t].body = call[s].body
                           /\ Reply(s, t, row[t].state)
     \/ NoReply
  /\ UNCHANGED <<call, reason, row, late, job, age, poll>>

\* SubmitVideo returned the provider's task id.
SubmitReturnsId(s) ==
  /\ pc[s] = "submitting"
  /\ job[s] \in Accepted
  /\ Goto(s, "markRunning")
  /\ NoReply
  /\ UNCHANGED <<call, reason, row, late, job, age, poll>>

\* SubmitVideo failed and the provider has not taken the request: it refused
\* it, or the request was never sent.  A 404 or an input that could not be
\* fetched is PROVIDER_UNAVAILABLE, hence an uncertain submit.
SubmitRefused(s) ==
  /\ pc[s] = "submitting"
  /\ job[s] = "sent"
  /\ job' = [job EXCEPT ![s] = "refused"]
  /\ \E r \in {"DEFINITE", "INVALID", "UNKNOWN"} : reason' = [reason EXCEPT ![s] = r]
  /\ Goto(s, "markFailed")
  /\ NoReply
  /\ UNCHANGED <<call, row, late, age, poll>>

\* Mutant: the error of an uncertain submit is stored as it is.
SubmitUncertainAsIs(s) ==
  /\ pc[s] = "submitting"
  /\ reason' = [reason EXCEPT ![s] = "DEFINITE"]
  /\ Goto(s, "markFailed")
  /\ NoReply
  /\ UNCHANGED <<call, row, late, job, age, poll>>

\* isUncertainSubmit: timeout, cancellation, connection error or HTTP 5xx.
\* The provider may have taken the request, or may take it still.
SubmitUncertain(s) ==
  /\ pc[s] = "submitting"
  /\ reason' = [reason EXCEPT ![s] = "UNKNOWN"]
  /\ Goto(s, "markFailed")
  /\ NoReply
  /\ UNCHANGED <<call, row, late, job, age, poll>>

\* The provider took the request and answered 2xx, but the answer cannot be
\* decoded or has no id: INVALID_RESPONSE, which is not an uncertain submit.
SubmitGarbled(s) ==
  /\ pc[s] = "submitting"
  /\ job[s] \in Accepted
  /\ reason' = [reason EXCEPT ![s] = "INVALID"]
  /\ Goto(s, "markFailed")
  /\ NoReply
  /\ UNCHANGED <<call, row, late, job, age, poll>>

\* MarkFailed after a failed SubmitVideo; FAILED is returned only when the
\* row was really closed.
SubmitMarkFailed(s) ==
  LET w == MarkFailed(s, "PENDING", reason[s]) IN
  /\ pc[s] = "markFailed"
  /\ \/ Applied(w) /\ Reply(s, s, "FAILED")
     \/ (Missed(w) \/ LostDetached(w)) /\ NoReply
  /\ Goto(s, "done")
  /\ UNCHANGED <<call, reason, job, age, poll>>

\* MarkRunning; when it is not known to have matched, the handler tries to
\* close the row instead.
SubmitMarkRunning(s) ==
  LET w == MarkRunning(s) IN
  /\ pc[s] = "markRunning"
  /\ \/ Applied(w) /\ Reply(s, s, "RUNNING") /\ Goto(s, "done")
     \/ (Missed(w) \/ LostDetached(w)) /\ NoReply /\ Goto(s, "fallback")
  /\ UNCHANGED <<call, reason, job, age, poll>>

\* The best-effort MarkFailed of that path; the reply is Unavailable.
SubmitFallback(s) ==
  LET w == MarkFailed(s, "PENDING", "UNKNOWN") IN
  /\ pc[s] = "fallback"
  /\ Applied(w) \/ Missed(w) \/ LostDetached(w)
  /\ Goto(s, "done")
  /\ NoReply
  /\ UNCHANGED <<call, reason, job, age, poll>>

SubmitStep(s) ==
  \/ SubmitInserted(s) \/ SubmitConflict(s) \/ SubmitInsertLost(s)
  \/ SubmitRequery(s)
  \/ SubmitReturnsId(s) \/ SubmitRefused(s)
  \/ SubmitUncertain(s) \/ SubmitGarbled(s)
  \/ SubmitMarkFailed(s) \/ SubmitMarkRunning(s) \/ SubmitFallback(s)

\* The statement a handler may have in flight.
InFlight(s) ==
  CASE pc[s] = "insert"      -> {InsertPending(s)}
    [] pc[s] = "markFailed"  -> {MarkFailed(s, "PENDING", reason[s])}
    [] pc[s] = "markRunning" -> {MarkRunning(s)}
    [] pc[s] = "fallback"    -> {MarkFailed(s, "PENDING", "UNKNOWN")}
    [] OTHER                 -> {}

\* The Pod dies under the handler.
Crash(s) ==
  /\ pc[s] \notin {"done", "crashed"}
  /\ late' = late \union InFlight(s)
  /\ Goto(s, "crashed")
  /\ NoReply
  /\ UNCHANGED <<call, reason, row, job, age, poll>>

-----------------------------------------------------------------------------
(* GetGeneration.  A read that fails, finds no row or finds the row of     *)
(* another public caller changes nothing and is not a step.                *)

MayRead(g, t) ==
  /\ Present(t)
  /\ Principal[g] \in {Internal, call[t].caller}

\* time.Since(created_at) > stalePendingWithoutProviderTaskID, on a Pod whose
\* clock differs from the one that set created_at by at most MaxSkew.
LooksStale(t) == age[t] + MaxSkew > StaleAfter
LooksFresh(t) == age[t] <= StaleAfter + MaxSkew

Step(g, label, t) ==
  poll' = [poll EXCEPT ![g] = [pc |-> label, task |-> t, seen |-> row[t].state]]
Finish(g) == poll' = [poll EXCEPT ![g] = Idle]
Tell(t, v) == told' = [told EXCEPT ![t] = @ \union {v}]

\* The row is terminal, or pending and still within the window: its state is
\* the answer.  (For SUCCEEDED the result is then streamed from the provider,
\* which changes no state here.)
PollAnswers(g, t) ==
  /\ poll[g] = Idle
  /\ MayRead(g, t)
  /\ row[t].state # "RUNNING"
  /\ row[t].state = "PENDING" /\ row[t].id = NoId => LooksFresh(t)
  /\ Tell(t, row[t].state)
  /\ UNCHANGED <<call, pc, reason, row, late, job, age, poll, answer>>

\* Mutant: a pending row is left to its Submit handler, however old.
PollFindsOnlyDirty(g, t) ==
  /\ poll[g] = Idle
  /\ MayRead(g, t)
  /\ row[t].id = NoId
  /\ row[t].state = "RUNNING"
  /\ Step(g, "reap", t)
  /\ UNCHANGED <<call, pc, reason, row, late, job, age, answer, told>>

\* failMissingProviderTaskID: pending past the window, or running, with no
\* provider task id.
PollFindsAbandoned(g, t) ==
  /\ poll[g] = Idle
  /\ MayRead(g, t)
  /\ row[t].id = NoId
  /\ row[t].state \in {"PENDING", "RUNNING"}
  /\ row[t].state = "PENDING" => LooksStale(t)
  /\ Step(g, "reap", t)
  /\ UNCHANGED <<call, pc, reason, row, late, job, age, answer, told>>

PollFindsRunning(g, t) ==
  /\ poll[g] = Idle
  /\ MayRead(g, t)
  /\ row[t].state = "RUNNING" /\ row[t].id # NoId
  /\ Step(g, "query", t)
  /\ UNCHANGED <<call, pc, reason, row, late, job, age, answer, told>>

\* Mutant: the row is closed also when it has become RUNNING since it was read.
PollReapRunningToo(g) ==
  LET t == poll[g].task
      w == MarkFailed(t, IF row[t].state = "RUNNING" THEN "RUNNING" ELSE poll[g].seen,
                      "UNKNOWN")
  IN
  /\ poll[g].pc = "reap"
  /\ \/ Applied(w) /\ Tell(t, "FAILED")
     \/ (Missed(w) \/ LostDetached(w)) /\ UNCHANGED told
  /\ Finish(g)
  /\ UNCHANGED <<call, pc, reason, job, age, answer>>

\* Mutant: FAILED is answered whether or not the row was closed.
PollReapAnyway(g) ==
  LET t == poll[g].task
      w == MarkFailed(t, poll[g].seen, "UNKNOWN")
  IN
  /\ poll[g].pc = "reap"
  /\ Applied(w) \/ Missed(w) \/ LostDetached(w)
  /\ Tell(t, "FAILED")
  /\ Finish(g)
  /\ UNCHANGED <<call, pc, reason, job, age, answer>>

\* The reaping MarkFailed expects the state that was read, and is detached.
PollReap(g) ==
  LET t == poll[g].task
      w == MarkFailed(t, poll[g].seen, "UNKNOWN")
  IN
  /\ poll[g].pc = "reap"
  /\ \/ Applied(w) /\ Tell(t, "FAILED")
     \/ (Missed(w) \/ LostDetached(w)) /\ UNCHANGED told
  /\ Finish(g)
  /\ UNCHANGED <<call, pc, reason, job, age, answer>>

\* GetVideo says the job still runs.
PollStillRunning(g) ==
  /\ poll[g].pc = "query"
  /\ job[poll[g].task] = "running"
  /\ Tell(poll[g].task, "RUNNING")
  /\ Finish(g)
  /\ UNCHANGED <<call, pc, reason, row, late, job, age, answer>>

\* Mutant: a failed job is not told from one that still runs.
PollJobSucceeded(g) ==
  /\ poll[g].pc = "query"
  /\ job[poll[g].task] = "succeeded"
  /\ poll' = [poll EXCEPT ![g].pc = "markSucceeded"]
  /\ UNCHANGED <<call, pc, reason, row, late, job, age, answer, told>>

\* GetVideo says the job ended.
PollJobEnded(g) ==
  LET t == poll[g].task IN
  /\ poll[g].pc = "query"
  /\ \/ job[t] = "succeeded" /\ poll' = [poll EXCEPT ![g].pc = "markSucceeded"]
     \/ job[t] = "failed"    /\ poll' = [poll EXCEPT ![g].pc = "markFailed"]
  /\ UNCHANGED <<call, pc, reason, row, late, job, age, answer, told>>

\* GetVideo failed, or the provider is no longer configured.
PollQueryFails(g) ==
  /\ poll[g].pc = "query"
  /\ Finish(g)
  /\ UNCHANGED <<call, pc, reason, row, late, job, age, answer, told>>

\* These two writes run under the request's own context.
PollMarks(g, w, verdict) ==
  /\ \/ Applied(w) /\ Tell(w.task, verdict)
     \/ (Missed(w) \/ Lost(w)) /\ UNCHANGED told
  /\ Finish(g)
  /\ UNCHANGED <<call, pc, reason, job, age, answer>>

PollMarkSucceeded(g) ==
  /\ poll[g].pc = "markSucceeded"
  /\ PollMarks(g, MarkSucceeded(poll[g].task), "SUCCEEDED")

PollMarkFailed(g) ==
  /\ poll[g].pc = "markFailed"
  /\ PollMarks(g, MarkFailed(poll[g].task, "RUNNING", "DEFINITE"), "FAILED")

PollRead(g, t) ==
  PollAnswers(g, t) \/ PollFindsAbandoned(g, t) \/ PollFindsRunning(g, t)

PollStep(g) ==
  \/ PollReap(g)
  \/ PollStillRunning(g) \/ PollJobEnded(g) \/ PollQueryFails(g)
  \/ PollMarkSucceeded(g) \/ PollMarkFailed(g)

-----------------------------------------------------------------------------
(* The world around the handlers.                                          *)

\* The database executes a statement whose sender stopped waiting for it.
LateExecute ==
  /\ \E w \in late : Matches(w) /\ Execute(w)
  /\ UNCHANGED <<call, pc, reason, late, job, age, poll, answer, told>>

\* The provider takes a request, even one its sender gave up on, and later
\* ends the job.
UpstreamStep(s) ==
  /\ \/ job[s] = "sent" /\ job' = [job EXCEPT ![s] = "running"]
     \/ /\ job[s] = "running"
        /\ \E v \in {"succeeded", "failed"} : job' = [job EXCEPT ![s] = v]
  /\ UNCHANGED <<call, pc, reason, row, late, age, poll, answer, told>>

\* Ages beyond this one are read alike by every Pod.
AgeCap == StaleAfter + MaxSkew + 1

\* Rows whose age can still be read: pending, or to be inserted late with the
\* created_at their Pod gave them.
Aging(s) ==
  \/ row[s].state = "PENDING"
  \/ row[s].state = "ABSENT" /\ InsertPending(s) \in late

\* Time passes, whatever is under way: nothing bounds SubmitVideo, and a row
\* may grow stale, and be reaped, while its Submit is at work.
Tick ==
  /\ age' = [s \in Submits |->
               IF Aging(s) /\ age[s] < AgeCap THEN age[s] + 1 ELSE age[s]]
  /\ UNCHANGED <<call, pc, reason, row, late, job, poll, answer, told>>

Next ==
  \/ \E s \in Submits : SubmitStep(s) \/ Crash(s) \/ UpstreamStep(s)
  \/ \E g \in Pollers : PollStep(g) \/ \E t \in Submits : PollRead(g, t)
  \/ LateExecute
  \/ Tick

Spec == Init /\ [][Next]_vars

\* Handlers run to completion (their waits end by a timeout, when the upstream
\* answers, or with the client's context); a client polls each of its tasks
\* again and again; statements and GetVideo calls made again and again do not
\* fail for ever; time passes.
Fairness ==
  /\ WF_vars(Tick)
  /\ \A s \in Submits : WF_vars(SubmitStep(s))
  /\ \A g \in Pollers : /\ WF_vars(PollStep(g))
                        /\ \A t \in Submits : SF_vars(PollRead(g, t))
                        /\ SF_vars(PollReap(g) /\ row' # row)
                        /\ SF_vars(PollJobEnded(g))
                        /\ SF_vars(PollMarkSucceeded(g) /\ row' # row)
                        /\ SF_vars(PollMarkFailed(g) /\ row' # row)

FairSpec == Spec /\ Fairness

-----------------------------------------------------------------------------
(* What must hold.                                                         *)

TypeOK ==
  /\ call \in [Submits -> [caller : Callers, request : RequestIds, body : Bodies]]
  /\ pc \in [Submits -> {"insert", "requery", "submitting", "markFailed",
                         "markRunning", "fallback", "done", "crashed"}]
  /\ reason \in [Submits -> Reasons]
  /\ row \in [Submits -> Row]
  /\ late \subseteq Write
  /\ job \in [Submits -> Jobs]
  /\ age \in [Submits -> 0 .. AgeCap]
  /\ poll \in [Pollers ->
       [pc : {"idle", "reap", "query", "markSucceeded", "markFailed"},
        task : Submits \union {NoId}, seen : States]]
  /\ answer \in [Submits -> Submits \union {NoId}]
  /\ told \in [Submits -> SUBSET States]

\* However many Submit calls carry one (caller, request_id), on however many
\* Pods, after whatever crash, retry or late insert, at most one of them ever
\* reaches the provider (generation.go:121-124, store.go:86-118).
OneUpstreamRequestPerKey ==
  \A s, u \in Submits :
    job[s] # "none" /\ job[u] # "none" /\ Key(s) = Key(u) => s = u

\* All Submit calls of one (caller, request_id) that were given a task were
\* given the same one, and asked for the same thing: a changed body is never
\* answered with the old task (store.go:107-117).
SameKeySameTask ==
  \A s, u \in Submits :
    answer[s] # NoId /\ answer[u] # NoId /\ Key(s) = Key(u)
      => answer[s] = answer[u] /\ call[s].body = call[u].body

\* A terminal state told to any caller by any Pod is the state of the row, now
\* and in every later state: no caller is told FAILED or SUCCEEDED on the
\* strength of a write that did not happen (generation.go:227, 270).
VerdictsHold ==
  \A t \in Submits : \A v \in told[t] \cap Terminal : row[t].state = v

\* What the table says agrees with the provider, whatever was lost between the
\* two: a row that is or was running names a job the provider accepted, and a
\* row is SUCCEEDED only when its job is.
RowMatchesUpstream ==
  \A t \in Submits :
    /\ row[t].state \in {"RUNNING", "SUCCEEDED"} => row[t].id = t
    /\ row[t].id # NoId => job[t] \in Accepted
    /\ row[t].state = "SUCCEEDED" => job[t] = "succeeded"

\* A task closed with a definite provider error has no job running, or done,
\* behind it: whenever there may be one the row says so, by
\* SUBMIT_OUTCOME_UNKNOWN or INVALID_RESPONSE (generation.go:131-136, 410-419).
DefiniteFailureIsTrue ==
  \A t \in Submits :
    row[t].state = "FAILED" /\ row[t].reason = "DEFINITE"
      => job[t] \in {"refused", "failed"}

\* A job the caller was told of, or the table names, is never closed as
\* abandoned: a Get on any Pod that reaps a row while its Submit is at work,
\* however long SubmitVideo lasts and whatever is written late, closes the row
\* before MarkRunning, and then RUNNING is never answered, or closes nothing.
\* (generation.go:147-158, 217-242, store.go:149, 169)
ReapLosesNoJob ==
  \A t \in Submits :
    /\ "RUNNING" \in told[t] => row[t].id = t
    /\ row[t].id # NoId /\ row[t].state = "FAILED"
         => row[t].reason = "DEFINITE" /\ job[t] = "failed"

\* A Submit handler that returned leaves its row pending only if the insert
\* itself was in doubt, or the database failed: a client that disconnects
\* during SubmitVideo cannot cause it (generation.go:30-31, 127, 132, 148).
NoOrphanPending ==
  \A s \in Submits :
    pc[s] = "done" /\ row[s].state = "PENDING"
      => InsertPending(s) \in late \/ DbMayFail

\* A closed row is never written again, and a row never changes or loses the
\* provider's task id: no late, delayed or repeated write revives a task
\* (store.go:149, 169, 190).
ClosedRowsFrozen ==
  [][\A t \in Submits :
       /\ row[t].state \in Terminal => row'[t] = row[t]
       /\ row[t].id # NoId => row'[t].id = row[t].id]_vars

\* The code implements the promised life of a task.
Been(t) ==
  (IF Present(t) THEN {"PENDING", row[t].state} ELSE {})
    \union (IF row[t].id # NoId THEN {"RUNNING"} ELSE {})

Lifecycle == INSTANCE TaskLifecycle
  WITH Tasks <- Submits, Requests <- Callers \X RequestIds,
       request <- [t \in Submits |-> Key(t)],
       state <- [t \in Submits |-> row[t].state],
       been <- [t \in Submits |-> Been(t)]

ImplementsLifecycle == Lifecycle!Spec

\* A pending row is always closed or becomes running, even when every Submit
\* handler has died, as long as a client polls it: there is no background
\* worker, only Get (generation.go:217-242).
PendingEnds ==
  \A t \in Submits :
    row[t].state = "PENDING" ~> row[t].state # "PENDING"

\* The end of an upstream job reaches the table, however often two polls race
\* or a write is lost (generation.go:261-287).
JobEndIsRecorded ==
  \A t \in Submits :
    row[t].state = "RUNNING" /\ job[t] \in {"succeeded", "failed"}
      ~> row[t].state \in Terminal

=============================================================================
