------------------------ MODULE GenerationTaskProofs ------------------------
(***************************************************************************)
(* Theorems about GenerationTask, for every number of Pods, Submit calls   *)
(* and pollers, every window and clock skew, and a database that may   *)
(* lose the answer of any statement; and about TaskTable, in which the     *)
(* statements of the store do to the table what the handlers suppose.      *)
(***************************************************************************)
EXTENDS TaskTable, FiniteSetTheorems, TLAPS

-----------------------------------------------------------------------------
(* The inductive invariant, in named parts.                                *)

\* A statement that is running, or may be executed late, is one a handler had
\* a reason to send: the upstream fact it records is true and stays true.
Justified(w) ==
  /\ w.op = "insert" => w = InsertPending(w.task)
  /\ w.op = "running" => w.expect = "PENDING" /\ job[w.task] \in Accepted
  /\ w.op = "failed" =>
       /\ w.expect \in {"PENDING", "RUNNING"}
       /\ w.reason = "DEFINITE" => job[w.task] \in {"refused", "failed"}
       /\ w.expect = "RUNNING" => w.reason = "DEFINITE" /\ job[w.task] = "failed"
  /\ w.op = "succeeded" =>
       w.expect = "RUNNING" /\ job[w.task] = "succeeded"

LateInv == \A w \in late : Justified(w)

\* A row and its upstream job.
RowInv ==
  \A t \in Submits :
    /\ job[t] # "none" => Present(t)
    /\ row[t].state \in {"ABSENT", "PENDING"} => row[t].id = NoId
    /\ row[t].state \in {"RUNNING", "SUCCEEDED"} => row[t].id = t
    /\ row[t].id # NoId => row[t].id = t /\ job[t] \in Accepted
    /\ row[t].state = "SUCCEEDED" => job[t] = "succeeded"
    /\ row[t].state = "FAILED" /\ row[t].reason = "DEFINITE"
         => job[t] \in {"refused", "failed"}
    /\ row[t].state = "FAILED" /\ row[t].id # NoId
         => row[t].reason = "DEFINITE" /\ job[t] = "failed"

\* The unique index of the table.
KeyInv ==
  \A s, u \in Submits : Present(s) /\ Present(u) /\ Key(s) = Key(u) => s = u

\* A handler that has its answer from the provider and is writing it down.
Persisting == {"markFailed", "markRunning", "fallback"}

\* What a Submit handler knows at each point.
SubmitInv ==
  \A s \in Submits :
    /\ pc[s] \in {"insert", "requery"} => job[s] = "none"
    /\ pc[s] \in {"submitting"} \union Persisting => Present(s)
    /\ pc[s] = "markRunning" => job[s] \in Accepted
    /\ pc[s] = "markFailed" /\ reason[s] = "DEFINITE" => job[s] = "refused"

\* What a Get handler knows at each point.
PollInv ==
  \A g \in Pollers :
    /\ poll[g].pc # "idle" => poll[g].task \in Submits
    /\ poll[g].pc = "reap" => poll[g].seen = "PENDING"
    /\ poll[g].pc \in {"query", "markSucceeded", "markFailed"}
         => row[poll[g].task].id # NoId
    /\ poll[g].pc = "markSucceeded" => job[poll[g].task] = "succeeded"
    /\ poll[g].pc = "markFailed" => job[poll[g].task] = "failed"

\* A task named in the answer of a Submit call exists and is the one asked for.
AnswerInv ==
  \A s \in Submits :
    answer[s] # NoId =>
      Present(answer[s]) /\ Key(answer[s]) = Key(s) /\ call[answer[s]].body = call[s].body

\* Every state told is one the task has been in.
ToldInv == \A t \in Submits : told[t] \subseteq Been(t)

IInv ==
  /\ TypeOK
  /\ LateInv /\ RowInv /\ KeyInv /\ SubmitInv /\ PollInv /\ AnswerInv /\ ToldInv

-----------------------------------------------------------------------------
(* Statements.                                                             *)

\* Every statement a handler builds is a well-formed one.
LEMMA WriteTypes ==
  ASSUME NEW t \in Submits, NEW e \in States, NEW r \in Reasons
  PROVE  /\ InsertPending(t) \in Write
         /\ MarkRunning(t) \in Write
         /\ MarkFailed(t, e, r) \in Write
         /\ MarkSucceeded(t) \in Write
  BY DEF InsertPending, MarkRunning, MarkFailed, MarkSucceeded, Write, States, Reasons

\* The moves a justified statement can make when it matches: one row, one step
\* along the life of a task.
LEMMA WriteMoves ==
  ASSUME TypeOK, RowInv,
         NEW w \in Write, Justified(w), Matches(w), Execute(w)
  PROVE  /\ w.task \in Submits
         /\ row' \in [Submits -> Row]
         /\ \A t \in Submits : t # w.task => row'[t] = row[t]
         /\ \/ /\ w.op = "insert" /\ w = InsertPending(w.task)
               /\ row[w.task].state = "ABSENT" /\ row[w.task].id = NoId
               /\ row'[w.task].state = "PENDING" /\ row'[w.task].id = NoId
            \/ /\ w.op = "running" /\ job[w.task] \in Accepted
               /\ row[w.task].state = "PENDING" /\ row[w.task].id = NoId
               /\ row'[w.task].state = "RUNNING" /\ row'[w.task].id = w.task
            \/ /\ w.op = "failed"
               /\ w.reason = "DEFINITE" => job[w.task] \in {"refused", "failed"}
               /\ \/ row[w.task].state = "PENDING" /\ row[w.task].id = NoId
                  \/ /\ row[w.task].state = "RUNNING" /\ row[w.task].id = w.task
                     /\ w.reason = "DEFINITE" /\ job[w.task] = "failed"
               /\ row'[w.task].state = "FAILED" /\ row'[w.task].id = row[w.task].id
               /\ row'[w.task].reason = w.reason
            \/ /\ w.op = "succeeded" /\ job[w.task] = "succeeded"
               /\ row[w.task].state = "RUNNING" /\ row[w.task].id = w.task
               /\ row'[w.task].state = "SUCCEEDED" /\ row'[w.task].id = w.task
<1> DEFINE t0 == w.task
<1>1. t0 \in Submits /\ w.reason \in Reasons
      /\ w.op \in {"insert", "running", "failed", "succeeded"}
  BY DEF Write
<1>2. row[t0] \in Row /\ row[t0].state = w.expect
  BY <1>1 DEF TypeOK, Matches
<1>3. row' = [row EXCEPT ![t0] = Result(w)]
  BY DEF Execute
<1>4. Result(w) \in Row =>
        /\ row' \in [Submits -> Row]
        /\ row'[t0] = Result(w)
        /\ \A t \in Submits : t # t0 => row'[t] = row[t]
  BY <1>1, <1>3 DEF TypeOK
<1>5. CASE w.op = "insert"
  <2>1. Result(w) = [state |-> "PENDING", id |-> NoId, reason |-> "NONE"]
    BY <1>5 DEF Result
  <2>2. Result(w) \in Row
    BY <2>1 DEF Row, States, Reasons
  <2>3. w = InsertPending(t0) /\ row[t0].state = "ABSENT" /\ row[t0].id = NoId
    BY <1>1, <1>2, <1>5 DEF Justified, RowInv, InsertPending
  <2>4. QED
    BY <1>1, <1>4, <1>5, <2>1, <2>2, <2>3
<1>6. CASE w.op = "running"
  <2>1. Result(w) = [row[t0] EXCEPT !.state = "RUNNING", !.id = t0]
    BY <1>6 DEF Result
  <2>2. Result(w) \in Row /\ Result(w).state = "RUNNING" /\ Result(w).id = t0
    BY <1>1, <1>2, <2>1 DEF Row, States
  <2>3. row[t0].state = "PENDING" /\ row[t0].id = NoId /\ job[t0] \in Accepted
    BY <1>1, <1>2, <1>6 DEF Justified, RowInv
  <2>4. QED
    BY <1>1, <1>4, <1>6, <2>2, <2>3
<1>7. CASE w.op = "failed"
  <2>1. Result(w) = [row[t0] EXCEPT !.state = "FAILED", !.reason = w.reason]
    BY <1>7 DEF Result
  <2>2. /\ Result(w) \in Row /\ Result(w).state = "FAILED"
        /\ Result(w).id = row[t0].id /\ Result(w).reason = w.reason
    BY <1>1, <1>2, <2>1 DEF Row, States
  <2>3. /\ w.reason = "DEFINITE" => job[t0] \in {"refused", "failed"}
        /\ \/ row[t0].state = "PENDING" /\ row[t0].id = NoId
           \/ /\ row[t0].state = "RUNNING" /\ row[t0].id = t0
              /\ w.reason = "DEFINITE" /\ job[t0] = "failed"
    BY <1>1, <1>2, <1>7 DEF Justified, RowInv
  <2>4. QED
    BY <1>1, <1>4, <1>7, <2>2, <2>3
<1>8. CASE w.op = "succeeded"
  <2>1. Result(w) = [row[t0] EXCEPT !.state = "SUCCEEDED", !.reason = "NONE"]
    BY <1>8 DEF Result
  <2>2. row[t0].state = "RUNNING" /\ row[t0].id = t0 /\ job[t0] = "succeeded"
    BY <1>1, <1>2, <1>8 DEF Justified, RowInv
  <2>3. Result(w) \in Row /\ Result(w).state = "SUCCEEDED" /\ Result(w).id = t0
    BY <1>1, <1>2, <2>1, <2>2 DEF Row, States, Reasons
  <2>4. QED
    BY <1>1, <1>4, <1>8, <2>2, <2>3
<1>9. QED
  BY <1>1, <1>5, <1>6, <1>7, <1>8

\* Such a move keeps the rows in step with the provider and the requests
\* distinct, and forgets nothing.
LEMMA ExecuteIsSafe ==
  ASSUME TypeOK, RowInv, KeyInv,
         NEW w \in Write, Justified(w), Matches(w), Execute(w),
         UNCHANGED <<call, job>>
  PROVE  /\ row' \in [Submits -> Row]
         /\ RowInv'
         /\ KeyInv'
         /\ \A t \in Submits :
              /\ Present(t) => Present(t)'
              /\ row[t].id # NoId => row'[t].id = row[t].id
              /\ row[t].state \in Terminal => row'[t] = row[t]
              /\ Been(t) \subseteq Been(t)'
<1>1. RowInv'
  BY WriteMoves DEF RowInv, Present, Accepted
<1>2. KeyInv'
  <2>1. CASE w.op = "insert"
    BY <2>1, WriteMoves DEF KeyInv, Present, Key, Matches
  <2>2. CASE w.op # "insert"
    <3>1. \A t \in Submits : Present(t)' => Present(t)
      BY <2>2, WriteMoves DEF Present
    <3>2. QED
      BY <3>1 DEF KeyInv, Key
  <2>3. QED
    BY <2>1, <2>2
<1>3. QED
  BY <1>1, <1>2, WriteMoves, NoIdAssumption DEF Present, Been, Terminal

\* The same for a statement of which the handler learnt one of the three
\* outcomes.
LEMMA OutcomeIsSafe ==
  ASSUME TypeOK, RowInv, KeyInv, LateInv,
         NEW w \in Write, Justified(w),
         Applied(w) \/ Missed(w) \/ Lost(w),
         UNCHANGED <<call, job>>
  PROVE  /\ row' \in [Submits -> Row]
         /\ RowInv'
         /\ KeyInv'
         /\ late' \subseteq Write
         /\ LateInv'
         /\ \A t \in Submits :
              /\ Present(t) => Present(t)'
              /\ row[t].id # NoId => row'[t].id = row[t].id
              /\ row[t].state \in Terminal => row'[t] = row[t]
              /\ Been(t) \subseteq Been(t)'
<1>1. late' \subseteq late \union {w}
  BY DEF Applied, Missed, Lost
<1>2. late' \subseteq Write /\ LateInv'
  BY <1>1 DEF TypeOK, LateInv, Justified
<1>3. CASE Applied(w)
  BY <1>2, <1>3, ExecuteIsSafe DEF Applied
<1>4. CASE Missed(w) \/ Lost(w)
  <2>1. row' = row
    BY <1>4 DEF Missed, Lost
  <2>2. RowInv' /\ KeyInv'
    BY <2>1 DEF RowInv, KeyInv, Present, Key
  <2>3. QED
    BY <1>2, <2>1, <2>2 DEF TypeOK, Present, Been
<1>5. QED
  BY <1>3, <1>4

-----------------------------------------------------------------------------
(* Every step keeps the invariant.                                         *)

\* The invariant holds at the start.
LEMMA InitIsSafe == Init => IInv
<1> SUFFICES ASSUME Init PROVE IInv
  OBVIOUS
<1>1. TypeOK
  BY TimeAssumption
  DEF Init, TypeOK, Absent, Row, States, Reasons, Jobs, Idle, AgeCap
<1>2. QED
  BY <1>1
  DEF Init, IInv, LateInv, RowInv, KeyInv, SubmitInv, PollInv, AnswerInv, ToldInv,
      Present, Absent, Idle, Persisting

\* A step of a Submit handler that sends statement w and goes to a label.  If
\* it answers, it names its own row and the state the statement gave it.
LEMMA SubmitWriteStep ==
  ASSUME IInv,
         NEW s \in Submits, NEW w \in Write, Justified(w),
         Applied(w) \/ Missed(w) \/ Lost(w),
         NEW label \in {"requery", "fallback", "done"}, Goto(s, label),
         label = "requery" => job[s] = "none",
         label = "fallback" => Present(s),
         \/ UNCHANGED <<answer, told>>
         \/ \E v \in States : Reply(s, s, v) /\ v = row'[s].state /\ Present(s),
         UNCHANGED <<call, reason, job, age, poll>>
  PROVE  IInv'
<1>1. /\ row' \in [Submits -> Row] /\ RowInv' /\ KeyInv'
      /\ late' \subseteq Write /\ LateInv'
      /\ \A t \in Submits :
           /\ Present(t) => Present(t)'
           /\ row[t].id # NoId => row'[t].id = row[t].id
           /\ Been(t) \subseteq Been(t)'
  BY OutcomeIsSafe DEF IInv
<1>2. TypeOK'
  <2>1. pc' \in [Submits -> {"insert", "requery", "submitting", "markFailed",
                            "markRunning", "fallback", "done", "crashed"}]
    BY DEF IInv, TypeOK, Goto
  <2>2. answer' \in [Submits -> Submits \union {NoId}] /\ told' \in [Submits -> SUBSET States]
    <3>1. CASE UNCHANGED <<answer, told>>
      BY <3>1 DEF IInv, TypeOK
    <3>2. ASSUME NEW v \in States, Reply(s, s, v)
          PROVE  /\ answer' \in [Submits -> Submits \union {NoId}]
                 /\ told' \in [Submits -> SUBSET States]
      BY <3>2 DEF IInv, TypeOK, Reply
    <3>3. QED
      BY <3>1, <3>2
  <2>3. QED
    BY <1>1, <2>1, <2>2 DEF IInv, TypeOK, AgeCap
<1>3. SubmitInv'
  BY <1>1 DEF IInv, SubmitInv, TypeOK, Goto, Persisting
<1>4. PollInv'
  BY <1>1 DEF IInv, PollInv
<1>5. AnswerInv' /\ ToldInv'
  <2>1. CASE UNCHANGED <<answer, told>>
    BY <1>1, <2>1 DEF IInv, AnswerInv, ToldInv, TypeOK, Key
  <2>2. CASE \E v \in States : Reply(s, s, v) /\ v = row'[s].state /\ Present(s)
    <3>1. AnswerInv'
      BY <1>1, <2>2 DEF IInv, AnswerInv, TypeOK, Key, Reply
    <3>2. row'[s].state \in Been(s)'
      BY <1>1, <2>2 DEF Been
    <3>3. ToldInv'
      BY <1>1, <2>2, <3>2 DEF IInv, ToldInv, TypeOK, Reply
    <3>4. QED
      BY <3>1, <3>3
  <2>3. QED
    BY <2>1, <2>2
<1>6. QED
  BY <1>1, <1>2, <1>3, <1>4, <1>5 DEF IInv

\* The same for a step of a Get handler, which returns to idle.
LEMMA PollWriteStep ==
  ASSUME IInv,
         NEW g \in Pollers, NEW w \in Write, Justified(w),
         Applied(w) \/ Missed(w) \/ Lost(w),
         Finish(g),
         \/ UNCHANGED told
         \/ \E v \in States : Tell(w.task, v) /\ v = row'[w.task].state /\ v # "ABSENT",
         UNCHANGED <<call, pc, reason, job, age, answer>>
  PROVE  IInv'
<1>1. /\ row' \in [Submits -> Row] /\ RowInv' /\ KeyInv'
      /\ late' \subseteq Write /\ LateInv'
      /\ \A t \in Submits :
           /\ Present(t) => Present(t)'
           /\ row[t].id # NoId => row'[t].id = row[t].id
           /\ Been(t) \subseteq Been(t)'
  BY OutcomeIsSafe DEF IInv
<1>2. TypeOK'
  BY <1>1 DEF IInv, TypeOK, AgeCap, Finish, Idle, States, Tell
<1>3. SubmitInv'
  BY <1>1 DEF IInv, SubmitInv, TypeOK, Persisting
<1>4. PollInv'
  BY <1>1 DEF IInv, PollInv, TypeOK, Finish, Idle
<1>5. AnswerInv'
  BY <1>1 DEF IInv, AnswerInv, TypeOK, Key
<1>6. ToldInv'
  <2>1. CASE UNCHANGED told
    BY <1>1, <2>1 DEF IInv, ToldInv
  <2>2. CASE \E v \in States : Tell(w.task, v) /\ v = row'[w.task].state /\ v # "ABSENT"
    <3>1. row'[w.task].state \in Been(w.task)'
      BY <2>2 DEF Been, Present
    <3>2. QED
      BY <1>1, <2>2, <3>1 DEF IInv, ToldInv, TypeOK, Tell
  <2>3. QED
    BY <2>1, <2>2
<1>7. QED
  BY <1>1, <1>2, <1>3, <1>4, <1>5, <1>6 DEF IInv

\* A Submit call that finds its request taken answers with the stored task.
LEMMA RequeryIsSafe ==
  ASSUME IInv, NEW s \in Submits, SubmitRequery(s)
  PROVE  IInv'
<1>1. TypeOK'
  <2>1. pc' \in [Submits -> {"insert", "requery", "submitting", "markFailed",
                            "markRunning", "fallback", "done", "crashed"}]
    BY DEF IInv, TypeOK, SubmitRequery, Goto
  <2>2. /\ answer' \in [Submits -> Submits \union {NoId}]
        /\ told' \in [Submits -> SUBSET States]
    <3>1. CASE NoReply
      BY <3>1 DEF IInv, TypeOK, NoReply
    <3>2. ASSUME NEW t \in Submits, Reply(s, t, row[t].state)
          PROVE  /\ answer' \in [Submits -> Submits \union {NoId}]
                 /\ told' \in [Submits -> SUBSET States]
      <4>1. row[t].state \in States
        BY DEF IInv, TypeOK, Row
      <4>2. QED
        BY <3>2, <4>1 DEF IInv, TypeOK, Reply
    <3>3. QED
      BY <3>1, <3>2 DEF SubmitRequery
  <2>3. QED
    BY <2>1, <2>2 DEF IInv, TypeOK, SubmitRequery, AgeCap
<1>2. LateInv' /\ RowInv' /\ KeyInv' /\ PollInv'
  BY DEF IInv, LateInv, Justified, RowInv, KeyInv, PollInv, Present, Key, SubmitRequery
<1>3. SubmitInv'
  BY DEF IInv, SubmitInv, TypeOK, Present, SubmitRequery, Goto, Persisting
<1>4. AnswerInv' /\ ToldInv'
  <2>1. CASE NoReply
    BY <2>1 DEF IInv, AnswerInv, ToldInv, Present, Key, Been, SubmitRequery, NoReply
  <2>2. ASSUME NEW t \in Submits, Present(t), Key(t) = Key(s),
               call[t].body = call[s].body, Reply(s, t, row[t].state)
        PROVE  AnswerInv' /\ ToldInv'
    BY <2>2
    DEF IInv, TypeOK, AnswerInv, ToldInv, Present, Key, Been, SubmitRequery, Reply
  <2>3. QED
    BY <2>1, <2>2 DEF SubmitRequery
<1>5. QED
  BY <1>1, <1>2, <1>3, <1>4 DEF IInv

\* The steps of a Submit handler that leave the table alone: the outcomes of
\* SubmitVideo, and a crash.
LEMMA SubmitVideoIsSafe ==
  ASSUME IInv, NEW s \in Submits,
         \/ SubmitReturnsId(s) \/ SubmitRefused(s)
         \/ SubmitUncertain(s) \/ SubmitGarbled(s)
  PROVE  IInv'
<1> USE DEF SubmitReturnsId, SubmitRefused, SubmitUncertain, SubmitGarbled, Goto, NoReply
<1>1. TypeOK'
  <2>1. pc' \in [Submits -> {"insert", "requery", "submitting", "markFailed",
                            "markRunning", "fallback", "done", "crashed"}]
    BY DEF IInv, TypeOK
  <2>2. reason' \in [Submits -> Reasons]
    BY DEF IInv, TypeOK, Reasons
  <2>3. job' \in [Submits -> Jobs]
    BY DEF IInv, TypeOK, Jobs
  <2>4. QED
    BY <2>1, <2>2, <2>3 DEF IInv, TypeOK, AgeCap
<1>2. \A t \in Submits :
        /\ job[t] \in Accepted \union {"refused"} => job'[t] = job[t]
        /\ job[t] = "none" <=> job'[t] = "none"
  BY DEF IInv, TypeOK, Accepted
<1>3. LateInv' /\ RowInv'
  BY <1>2 DEF IInv, TypeOK, LateInv, Justified, Write, RowInv, Present, Accepted
<1>4. KeyInv' /\ AnswerInv' /\ ToldInv'
  BY DEF IInv, KeyInv, AnswerInv, ToldInv, Present, Key, Been
<1>5. PollInv'
  BY <1>2 DEF IInv, PollInv, Accepted
<1>6. SubmitInv'
  BY DEF IInv, TypeOK, SubmitInv, Persisting, Present, Accepted
<1>7. QED
  BY <1>1, <1>3, <1>4, <1>5, <1>6 DEF IInv

\* The statement a Submit handler is sending, of which a crash leaves the fate
\* to the database.
LEMMA InFlightIsJustified ==
  ASSUME IInv, NEW s \in Submits
  PROVE  \A w \in InFlight(s) : w \in Write /\ Justified(w)
<1>1. reason[s] \in Reasons
  BY DEF IInv, TypeOK
<1>2. SUFFICES ASSUME NEW w \in InFlight(s) PROVE w \in Write /\ Justified(w)
  OBVIOUS
<1>3. CASE pc[s] = "insert"
  BY <1>3, WriteTypes DEF InFlight, InsertPending, Justified, Write, States, Reasons
<1>4. CASE pc[s] = "markFailed"
  BY <1>1, <1>4
  DEF InFlight, MarkFailed, Justified, Write, States, Reasons, IInv, SubmitInv
<1>5. CASE pc[s] = "markRunning"
  BY <1>5 DEF InFlight, MarkRunning, Justified, Write, States, Reasons, IInv, SubmitInv
<1>6. CASE pc[s] = "fallback"
  BY <1>6 DEF InFlight, MarkFailed, Justified, Write, States, Reasons
<1>7. CASE pc[s] \notin {"insert", "markFailed", "markRunning", "fallback"}
  BY <1>7 DEF InFlight
<1>8. QED
  BY <1>3, <1>4, <1>5, <1>6, <1>7

\* A crash loses the call and no write.
LEMMA CrashIsSafe ==
  ASSUME IInv, NEW s \in Submits, Crash(s)
  PROVE  IInv'
<1>1. \A w \in InFlight(s) : w \in Write /\ Justified(w)
  BY InFlightIsJustified
<1>2. TypeOK'
  BY <1>1 DEF IInv, TypeOK, Crash, Goto, NoReply, AgeCap
<1>3. LateInv'
  BY <1>1 DEF IInv, LateInv, Justified, Crash
<1>4. RowInv' /\ KeyInv' /\ PollInv' /\ AnswerInv' /\ ToldInv'
  BY DEF IInv, RowInv, KeyInv, PollInv, AnswerInv, ToldInv, Present, Key, Been,
         Crash, NoReply
<1>5. SubmitInv'
  BY DEF IInv, TypeOK, SubmitInv, Persisting, Present, Crash, Goto
<1>6. QED
  BY <1>2, <1>3, <1>4, <1>5 DEF IInv

\* The insert that creates the row also starts the upstream request.
LEMMA InsertedIsSafe ==
  ASSUME IInv, NEW s \in Submits, SubmitInserted(s)
  PROVE  IInv'
<1>1. row' = [row EXCEPT ![s] = [state |-> "PENDING", id |-> NoId, reason |-> "NONE"]]
  BY DEF SubmitInserted, Applied, Execute, InsertPending, Result
<1>2. /\ ~Present(s)
      /\ \A u \in Submits : Key(u) = Key(s) => ~Present(u)
      /\ row[s].id = NoId
  BY DEF SubmitInserted, Applied, Matches, InsertPending, Present, IInv, RowInv
<1>3. TypeOK'
  <2>1. row' \in [Submits -> Row]
    BY <1>1 DEF IInv, TypeOK, Row, States, Reasons
  <2>2. QED
    BY <2>1 DEF IInv, TypeOK, SubmitInserted, Applied, Goto, NoReply, Jobs, AgeCap
<1>4. /\ job' = [job EXCEPT ![s] = "sent"] /\ job[s] = "none"
      /\ pc' = [pc EXCEPT ![s] = "submitting"]
      /\ UNCHANGED <<call, reason, late, poll, answer, told>>
  BY DEF SubmitInserted, Applied, Goto, NoReply, IInv, SubmitInv
<1>5. LateInv'
  BY <1>4 DEF IInv, TypeOK, LateInv, Justified, Write, Accepted
<1>6. RowInv'
  BY <1>1, <1>2, <1>4 DEF IInv, TypeOK, RowInv, Present, Accepted
<1>7. KeyInv'
  BY <1>1, <1>2, <1>4 DEF IInv, TypeOK, KeyInv, Present, Key
<1>8. SubmitInv'
  BY <1>1, <1>2, <1>4 DEF IInv, TypeOK, SubmitInv, Persisting, Present, Accepted
<1>9. PollInv'
  BY <1>1, <1>2, <1>4 DEF IInv, TypeOK, PollInv
<1>10. AnswerInv'
  BY <1>1, <1>2, <1>4 DEF IInv, TypeOK, AnswerInv, Present, Key
<1>11. ToldInv'
  <2>1. \A t \in Submits : Been(t) \subseteq Been(t)'
    BY <1>1, <1>2 DEF IInv, TypeOK, Been, Present
  <2>2. QED
    BY <1>4, <2>1 DEF IInv, ToldInv
<1>12. QED
  BY <1>3, <1>5, <1>6, <1>7, <1>8, <1>9, <1>10, <1>11 DEF IInv

\* Every step of a SubmitGeneration keeps the invariant.
LEMMA SubmitStepIsSafe ==
  ASSUME IInv, NEW s \in Submits, SubmitStep(s)
  PROVE  IInv'
<1>0. reason[s] \in Reasons /\ Reasons = {"NONE", "DEFINITE", "INVALID", "UNKNOWN"}
  BY DEF IInv, TypeOK, Reasons
<1>1. CASE SubmitInserted(s)
  BY <1>1, InsertedIsSafe
<1>2. CASE SubmitConflict(s) \/ SubmitInsertLost(s)
  <2> DEFINE w == InsertPending(s)
  <2>1. w \in Write /\ Justified(w)
    BY WriteTypes DEF InsertPending, Justified, Write, States, Reasons
  <2>2. job[s] = "none"
    BY <1>2 DEF SubmitConflict, SubmitInsertLost, IInv, SubmitInv
  <2>3. QED
    BY <1>2, <2>1, <2>2, SubmitWriteStep DEF SubmitConflict, SubmitInsertLost, NoReply
<1>3. CASE SubmitRequery(s)
  BY <1>3, RequeryIsSafe
<1>4. CASE \/ SubmitReturnsId(s) \/ SubmitRefused(s)
           \/ SubmitUncertain(s) \/ SubmitGarbled(s)
  BY <1>4, SubmitVideoIsSafe
<1>5. CASE SubmitMarkFailed(s)
  <2> DEFINE w == MarkFailed(s, "PENDING", reason[s])
  <2>1. w \in Write /\ Justified(w)
    BY <1>0, <1>5
    DEF MarkFailed, Justified, Write, States, SubmitMarkFailed, IInv, SubmitInv
  <2>2. Present(s)
    BY <1>5 DEF SubmitMarkFailed, IInv, SubmitInv, Persisting
  <2>3. Applied(w) => row'[s].state = "FAILED"
    BY DEF Applied, Execute, Result, MarkFailed, IInv, TypeOK, Row
  <2>4. Applied(w) \/ Missed(w) \/ Lost(w)
    BY <1>5 DEF SubmitMarkFailed, LostDetached
  <2>5. \/ UNCHANGED <<answer, told>>
        \/ \E v \in States : Reply(s, s, v) /\ v = row'[s].state /\ Present(s)
    BY <1>5, <2>2, <2>3 DEF SubmitMarkFailed, NoReply, States
  <2>6. Goto(s, "done") /\ UNCHANGED <<call, reason, job, age, poll>>
    BY <1>5 DEF SubmitMarkFailed
  <2>7. QED
    BY <2>1, <2>4, <2>5, <2>6, SubmitWriteStep
<1>6. CASE SubmitMarkRunning(s)
  <2> DEFINE w == MarkRunning(s)
  <2>1. w \in Write /\ Justified(w)
    BY <1>6
    DEF MarkRunning, Justified, Write, States, Reasons, SubmitMarkRunning, IInv, SubmitInv
  <2>2. Present(s)
    BY <1>6 DEF SubmitMarkRunning, IInv, SubmitInv, Persisting
  <2>3. Applied(w) => row'[s].state = "RUNNING"
    BY DEF Applied, Execute, Result, MarkRunning, IInv, TypeOK, Row
  <2>4. Applied(w) \/ Missed(w) \/ Lost(w)
    BY <1>6 DEF SubmitMarkRunning, LostDetached
  <2>5. \/ UNCHANGED <<answer, told>>
        \/ \E v \in States : Reply(s, s, v) /\ v = row'[s].state /\ Present(s)
    BY <1>6, <2>2, <2>3 DEF SubmitMarkRunning, NoReply, States
  <2>6. /\ Goto(s, "done") \/ Goto(s, "fallback")
        /\ UNCHANGED <<call, reason, job, age, poll>>
    BY <1>6 DEF SubmitMarkRunning
  <2>7. QED
    BY <2>1, <2>2, <2>4, <2>5, <2>6, SubmitWriteStep
<1>7. CASE SubmitFallback(s)
  <2> DEFINE w == MarkFailed(s, "PENDING", "UNKNOWN")
  <2>1. w \in Write /\ Justified(w)
    BY DEF MarkFailed, Justified, Write, States, Reasons
  <2>2. QED
    BY <1>7, <2>1, SubmitWriteStep DEF SubmitFallback, LostDetached, NoReply
<1>8. QED
  BY <1>1, <1>2, <1>3, <1>4, <1>5, <1>6, <1>7 DEF SubmitStep

\* A Get handler that only reads: it answers, or remembers what it read.
LEMMA PollReadIsSafe ==
  ASSUME IInv, NEW g \in Pollers, NEW t \in Submits, PollRead(g, t)
  PROVE  IInv'
<1>1. row[t] \in Row /\ row[t].state \in States
  BY DEF IInv, TypeOK, Row
<1>2. CASE PollAnswers(g, t)
  <2>1. TypeOK'
    BY <1>1, <1>2 DEF PollAnswers, Tell, IInv, TypeOK, AgeCap
  <2>2. LateInv' /\ RowInv' /\ KeyInv' /\ SubmitInv' /\ PollInv' /\ AnswerInv'
    BY <1>2 DEF PollAnswers, IInv, LateInv, Justified, RowInv, KeyInv, SubmitInv,
                PollInv, AnswerInv, Present, Key, Persisting
  <2>3. ToldInv'
    BY <1>2 DEF PollAnswers, MayRead, Tell, IInv, TypeOK, ToldInv, Been, Present
  <2>4. QED
    BY <2>1, <2>2, <2>3 DEF IInv
<1>3. CASE PollFindsAbandoned(g, t) \/ PollFindsRunning(g, t)
  <2>1. TypeOK'
    BY <1>1, <1>3
    DEF PollFindsAbandoned, PollFindsRunning, Step, IInv, TypeOK, AgeCap
  <2>2. LateInv' /\ RowInv' /\ KeyInv' /\ SubmitInv' /\ AnswerInv' /\ ToldInv'
    BY <1>3 DEF PollFindsAbandoned, PollFindsRunning, IInv, LateInv, Justified, RowInv,
                KeyInv, SubmitInv, AnswerInv, ToldInv, Present, Key, Been, Persisting
  <2>3. PollInv'
    <3>1. CASE PollFindsAbandoned(g, t)
      <4>1. poll' = [poll EXCEPT ![g] = [pc |-> "reap", task |-> t, seen |-> row[t].state]]
            /\ row[t].state = "PENDING" /\ UNCHANGED <<row, job>>
        BY <3>1, NoIdAssumption DEF PollFindsAbandoned, Step, IInv, RowInv
      <4>2. QED
        BY <4>1 DEF IInv, TypeOK, PollInv
    <3>2. CASE PollFindsRunning(g, t)
      BY <3>2 DEF PollFindsRunning, Step, IInv, TypeOK, PollInv
    <3>3. QED
      BY <1>3, <3>1, <3>2
  <2>4. QED
    BY <2>1, <2>2, <2>3 DEF IInv
<1>4. QED
  BY <1>2, <1>3 DEF PollRead

\* Every step of a GetGeneration keeps the invariant.
LEMMA PollStepIsSafe ==
  ASSUME IInv, NEW g \in Pollers, PollStep(g)
  PROVE  IInv'
<1> DEFINE t == poll[g].task
<1>1. t \in Submits
  BY DEF PollStep, PollReap, PollStillRunning, PollJobEnded, PollQueryFails,
         PollMarkSucceeded, PollMarkFailed, IInv, PollInv
<1>2. CASE PollReap(g)
  <2> DEFINE w == MarkFailed(t, poll[g].seen, "UNKNOWN")
  <2>1. poll[g].seen = "PENDING"
    BY <1>2 DEF PollReap, IInv, PollInv
  <2>2. w \in Write /\ Justified(w) /\ w.task = t
    BY <1>1, <2>1 DEF MarkFailed, Justified, Write, States, Reasons
  <2>3. Applied(w) => row'[t].state = "FAILED"
    BY <1>1 DEF Applied, Execute, Result, MarkFailed, IInv, TypeOK, Row
  <2>4. Applied(w) \/ Missed(w) \/ Lost(w)
    BY <1>2 DEF PollReap, LostDetached
  <2>5. \/ UNCHANGED told
        \/ \E v \in States : Tell(w.task, v) /\ v = row'[w.task].state /\ v # "ABSENT"
    BY <1>2, <2>2, <2>3 DEF PollReap, States
  <2>6. Finish(g) /\ UNCHANGED <<call, pc, reason, job, age, answer>>
    BY <1>2 DEF PollReap
  <2>7. QED
    BY <2>2, <2>4, <2>5, <2>6, PollWriteStep
<1>3. CASE PollStillRunning(g)
  <2>1. TypeOK'
    BY <1>1, <1>3 DEF PollStillRunning, Tell, Finish, Idle, States, IInv, TypeOK, AgeCap
  <2>2. LateInv' /\ RowInv' /\ KeyInv' /\ SubmitInv' /\ AnswerInv'
    BY <1>3 DEF PollStillRunning, IInv, LateInv, Justified, RowInv,
                KeyInv, SubmitInv, AnswerInv, Present, Key, Persisting
  <2>3. PollInv'
    BY <1>3 DEF PollStillRunning, Finish, Idle, IInv, TypeOK, PollInv
  <2>4. "RUNNING" \in Been(t)
    BY <1>3 DEF PollStillRunning, IInv, PollInv, Been
  <2>5. ToldInv'
    BY <1>1, <1>3, <2>4 DEF PollStillRunning, Tell, IInv, TypeOK, ToldInv, Been, Present
  <2>6. QED
    BY <2>1, <2>2, <2>3, <2>5 DEF IInv
<1>4. CASE PollJobEnded(g) \/ PollQueryFails(g)
  <2>1. /\ UNCHANGED <<call, pc, reason, row, late, job, age, answer, told>>
        /\ \/ poll' = [poll EXCEPT ![g] = Idle]
           \/ /\ poll' = [poll EXCEPT ![g].pc = "markSucceeded"]
              /\ poll[g].pc = "query" /\ job[t] = "succeeded"
           \/ /\ poll' = [poll EXCEPT ![g].pc = "markFailed"]
              /\ poll[g].pc = "query" /\ job[t] = "failed"
    BY <1>4 DEF PollJobEnded, PollQueryFails, Finish
  <2>2. poll' \in [Pollers ->
           [pc : {"idle", "reap", "query", "markSucceeded", "markFailed"},
            task : Submits \union {NoId}, seen : States]]
    <3>1. CASE poll' = [poll EXCEPT ![g] = Idle]
      BY <3>1 DEF Idle, States, IInv, TypeOK
    <3>2. CASE poll' = [poll EXCEPT ![g].pc = "markSucceeded"]
      BY <3>2 DEF IInv, TypeOK
    <3>3. CASE poll' = [poll EXCEPT ![g].pc = "markFailed"]
      BY <3>3 DEF IInv, TypeOK
    <3>4. QED
      BY <2>1, <3>1, <3>2, <3>3
  <2>3. TypeOK'
    BY <2>1, <2>2 DEF IInv, TypeOK, AgeCap
  <2>4. LateInv' /\ RowInv' /\ KeyInv' /\ SubmitInv' /\ AnswerInv' /\ ToldInv'
    BY <2>1 DEF IInv, LateInv, Justified, RowInv, KeyInv,
                SubmitInv, AnswerInv, ToldInv, Present, Key, Been, Persisting
  <2>5. PollInv'
    <3>1. CASE poll' = [poll EXCEPT ![g] = Idle]
      BY <2>1, <3>1 DEF Idle, IInv, TypeOK, PollInv
    <3>2. CASE /\ poll' = [poll EXCEPT ![g].pc = "markSucceeded"]
               /\ poll[g].pc = "query" /\ job[t] = "succeeded"
      BY <2>1, <3>2 DEF IInv, TypeOK, PollInv
    <3>3. CASE /\ poll' = [poll EXCEPT ![g].pc = "markFailed"]
               /\ poll[g].pc = "query" /\ job[t] = "failed"
      BY <2>1, <3>3 DEF IInv, TypeOK, PollInv
    <3>4. QED
      BY <2>1, <3>1, <3>2, <3>3
  <2>6. QED
    BY <2>3, <2>4, <2>5 DEF IInv
<1>5. CASE PollMarkSucceeded(g)
  <2> DEFINE w == MarkSucceeded(t)
  <2>1. job[t] = "succeeded"
    BY <1>5 DEF PollMarkSucceeded, IInv, PollInv
  <2>2. w \in Write /\ Justified(w) /\ w.task = t
    BY <1>1, <2>1 DEF MarkSucceeded, Justified, Write, States, Reasons
  <2>3. Applied(w) => row'[t].state = "SUCCEEDED"
    BY <1>1 DEF Applied, Execute, Result, MarkSucceeded, IInv, TypeOK, Row
  <2>4. PollMarks(g, w, "SUCCEEDED")
    BY <1>5 DEF PollMarkSucceeded
  <2>5. QED
    BY <2>2, <2>3, <2>4, PollWriteStep DEF PollMarks, States
<1>6. CASE PollMarkFailed(g)
  <2> DEFINE w == MarkFailed(t, "RUNNING", "DEFINITE")
  <2>1. job[t] = "failed"
    BY <1>6 DEF PollMarkFailed, IInv, PollInv
  <2>2. w \in Write /\ Justified(w) /\ w.task = t
    BY <1>1, <2>1 DEF MarkFailed, Justified, Write, States, Reasons
  <2>3. Applied(w) => row'[t].state = "FAILED"
    BY <1>1 DEF Applied, Execute, Result, MarkFailed, IInv, TypeOK, Row
  <2>4. PollMarks(g, w, "FAILED")
    BY <1>6 DEF PollMarkFailed
  <2>5. QED
    BY <2>2, <2>3, <2>4, PollWriteStep DEF PollMarks, States
<1>7. QED
  BY <1>2, <1>3, <1>4, <1>5, <1>6 DEF PollStep

\* The database, the provider and the clock.
LEMMA WorldIsSafe ==
  ASSUME IInv,
         LateExecute \/ Tick \/ \E s \in Submits : UpstreamStep(s)
  PROVE  IInv'
<1>1. CASE LateExecute
  <2>1. PICK w \in late : Matches(w) /\ Execute(w)
    BY <1>1 DEF LateExecute
  <2>2. /\ w \in Write /\ Justified(w)
        /\ UNCHANGED <<call, pc, reason, late, job, age, poll, answer, told>>
    BY <1>1, <2>1 DEF LateExecute, IInv, TypeOK, LateInv
  <2>3. /\ row' \in [Submits -> Row] /\ RowInv' /\ KeyInv'
        /\ \A t \in Submits :
             /\ Present(t) => Present(t)'
             /\ row[t].id # NoId => row'[t].id = row[t].id
             /\ Been(t) \subseteq Been(t)'
    BY <2>1, <2>2, ExecuteIsSafe DEF IInv
  <2>4. TypeOK'
    BY <2>2, <2>3 DEF IInv, TypeOK, AgeCap
  <2>5. LateInv' /\ ToldInv' /\ SubmitInv' /\ PollInv'
    BY <2>2, <2>3 DEF IInv, LateInv, Justified, ToldInv, SubmitInv, PollInv, Persisting
  <2>6. AnswerInv'
    BY <2>2, <2>3 DEF IInv, TypeOK, AnswerInv, Key
  <2>7. QED
    BY <2>3, <2>4, <2>5, <2>6 DEF IInv
<1>2. CASE Tick
  <2>1. age' \in [Submits -> 0 .. AgeCap]
    BY <1>2, TimeAssumption DEF Tick, IInv, TypeOK, AgeCap
  <2>2. TypeOK'
    BY <1>2, <2>1 DEF Tick, IInv, TypeOK, AgeCap
  <2>3. QED
    BY <1>2, <2>2 DEF Tick, IInv, LateInv, Justified, RowInv, KeyInv, SubmitInv,
                PollInv, AnswerInv, ToldInv, Present, Key, Been, Persisting
<1>3. ASSUME NEW s \in Submits, UpstreamStep(s)
      PROVE  IInv'
  <2>1. job' \in [Submits -> Jobs]
    BY <1>3 DEF UpstreamStep, IInv, TypeOK, Jobs, Accepted
  <2>2. TypeOK'
    BY <1>3, <2>1 DEF UpstreamStep, IInv, TypeOK, AgeCap
  <2>3. \A t \in Submits :
          /\ job[t] \in {"none", "refused", "succeeded", "failed"} => job'[t] = job[t]
          /\ job[t] \in Accepted => job'[t] \in Accepted
          /\ job'[t] # "none" => job[t] # "none"
    BY <1>3 DEF UpstreamStep, IInv, TypeOK, Accepted
  <2>4. LateInv' /\ RowInv' /\ SubmitInv' /\ PollInv'
    BY <1>3, <2>3 DEF UpstreamStep, IInv, TypeOK, LateInv, Justified, Write, RowInv,
                      SubmitInv, PollInv, Present, Persisting
  <2>5. KeyInv' /\ AnswerInv' /\ ToldInv'
    BY <1>3 DEF UpstreamStep, IInv, KeyInv, AnswerInv, ToldInv, Present, Key, Been
  <2>6. QED
    BY <2>2, <2>4, <2>5 DEF IInv
<1>4. QED
  BY <1>1, <1>2, <1>3

\* So every step does.
LEMMA NextIsSafe == IInv /\ [Next]_vars => IInv'
<1> SUFFICES ASSUME IInv, [Next]_vars PROVE IInv'
  OBVIOUS
<1>1. CASE Next
  BY <1>1, SubmitStepIsSafe, CrashIsSafe, PollStepIsSafe, PollReadIsSafe, WorldIsSafe
  DEF Next
<1>2. CASE UNCHANGED vars
  BY <1>2 DEF vars, IInv, TypeOK, LateInv, Justified, RowInv, KeyInv, SubmitInv, PollInv,
              AnswerInv, ToldInv, Present, Key, Been, Persisting, AgeCap
<1>3. QED
  BY <1>1, <1>2

\* The strengthened invariant holds of every behaviour of the system.
THEOREM InductiveInvariant == Spec => []IInv
  BY InitIsSafe, NextIsSafe, PTL DEF Spec

-----------------------------------------------------------------------------
(* The safety properties the runs check, for every instance.               *)

\* Every variable keeps its type.
THEOREM TypeCorrect == Spec => []TypeOK
  BY InductiveInvariant, PTL DEF IInv

\* At most one Submit call of a (caller, request_id) ever reaches the provider:
\* a call with an upstream request has a row, and rows have distinct keys.
THEOREM OneRequest == Spec => []OneUpstreamRequestPerKey
<1>1. IInv => OneUpstreamRequestPerKey
  BY DEF IInv, RowInv, KeyInv, OneUpstreamRequestPerKey
<1>2. QED
  BY <1>1, InductiveInvariant, PTL

\* Calls with one (caller, request_id) that were answered name one task, and
\* asked for one thing.
THEOREM OneTask == Spec => []SameKeySameTask
<1>1. IInv => SameKeySameTask
  <2> SUFFICES ASSUME IInv, NEW s \in Submits, NEW u \in Submits,
                      answer[s] # NoId, answer[u] # NoId, Key(s) = Key(u)
               PROVE  answer[s] = answer[u] /\ call[s].body = call[u].body
    BY DEF SameKeySameTask
  <2>1. answer[s] \in Submits /\ answer[u] \in Submits
    BY DEF IInv, TypeOK
  <2>2. answer[s] = answer[u]
    BY <2>1 DEF IInv, AnswerInv, KeyInv
  <2>3. QED
    BY <2>2 DEF IInv, AnswerInv
<1>2. QED
  BY <1>1, InductiveInvariant, PTL

\* The table agrees with the provider about every job it names.
THEOREM TableAgrees == Spec => []RowMatchesUpstream
<1>1. IInv => RowMatchesUpstream
  BY DEF IInv, RowInv, RowMatchesUpstream
<1>2. QED
  BY <1>1, InductiveInvariant, PTL

\* A definite failure has no live job behind it.
THEOREM DefiniteFailures == Spec => []DefiniteFailureIsTrue
<1>1. IInv => DefiniteFailureIsTrue
  BY DEF IInv, RowInv, DefiniteFailureIsTrue
<1>2. QED
  BY <1>1, InductiveInvariant, PTL

\* A terminal state that was told is the state of the row.
THEOREM Verdicts == Spec => []VerdictsHold
<1>1. IInv => VerdictsHold
  BY DEF IInv, ToldInv, Been, VerdictsHold, Terminal
<1>2. QED
  BY <1>1, InductiveInvariant, PTL

\* A reap on any Pod, also one that races a Submit still at work, loses no job
\* the caller was told of: no bound on SubmitVideo is needed.
THEOREM ReapsLoseNoJob == Spec => []ReapLosesNoJob
<1>1. IInv => ReapLosesNoJob
  <2> SUFFICES ASSUME IInv, NEW t \in Submits
               PROVE  /\ "RUNNING" \in told[t] => row[t].id = t
                      /\ row[t].id # NoId /\ row[t].state = "FAILED"
                           => row[t].reason = "DEFINITE" /\ job[t] = "failed"
    BY DEF ReapLosesNoJob
  <2>1. "RUNNING" \in told[t] => row[t].state = "RUNNING" \/ row[t].id # NoId
    BY DEF IInv, ToldInv, Been
  <2>2. QED
    BY <2>1 DEF IInv, RowInv
<1>2. QED
  BY <1>1, InductiveInvariant, PTL

-----------------------------------------------------------------------------
(* Steps: closed rows, and the abstract life of a task.                    *)

\* A step that writes no row says only what some task has been.
Says == \/ UNCHANGED told
        \/ \E t \in Submits : \E v \in Been(t) : Tell(t, v)

\* A step that writes a row does so by one justified statement, and says at
\* most what the row has just become; an insert alone says nothing.
Writes ==
  \E w \in Write :
    /\ Justified(w) /\ Matches(w) /\ Execute(w)
    /\ \/ UNCHANGED told
       \/ w.op # "insert" /\ Tell(w.task, row'[w.task].state)

\* A step writes a row or answers a caller, never both.
LEMMA StepWritesOrSays ==
  ASSUME IInv, Next
  PROVE  UNCHANGED call /\ ((UNCHANGED row /\ Says) \/ Writes)
<1>0. /\ \A t \in Submits : row[t] \in Row
      /\ \A s \in Submits : reason[s] \in Reasons
      /\ Reasons = {"NONE", "DEFINITE", "INVALID", "UNKNOWN"}
  BY DEF IInv, TypeOK, Reasons
<1>1. ASSUME NEW s \in Submits, SubmitStep(s)
      PROVE  UNCHANGED call /\ ((UNCHANGED row /\ Says) \/ Writes)
  <2>1. CASE SubmitInserted(s)
    <3>1. InsertPending(s) \in Write /\ Justified(InsertPending(s))
      BY WriteTypes DEF InsertPending, Justified, Write, States, Reasons
    <3>2. QED
      BY <2>1, <3>1 DEF SubmitInserted, Applied, NoReply, Writes
  <2>2. CASE SubmitConflict(s) \/ SubmitInsertLost(s)
    BY <2>2 DEF SubmitConflict, SubmitInsertLost, Missed, Lost, NoReply, Says
  <2>3. CASE SubmitRequery(s)
    BY <2>3, <1>0 DEF SubmitRequery, NoReply, Reply, Says, Tell, Been, Row
  <2>4. CASE \/ SubmitReturnsId(s) \/ SubmitRefused(s)
             \/ SubmitUncertain(s) \/ SubmitGarbled(s)
    BY <2>4 DEF SubmitReturnsId, SubmitRefused, SubmitUncertain, SubmitGarbled,
                NoReply, Says
  <2>5. CASE SubmitMarkFailed(s)
    <3> DEFINE w == MarkFailed(s, "PENDING", reason[s])
    <3>1. w \in Write /\ Justified(w) /\ w.task = s /\ w.op # "insert"
      BY <1>0, <2>5
      DEF MarkFailed, Justified, Write, States, SubmitMarkFailed, IInv, SubmitInv
    <3>2. Applied(w) => row'[s].state = "FAILED"
      BY <1>0 DEF Applied, Execute, Result, MarkFailed, IInv, TypeOK, Row
    <3>3. CASE Applied(w) /\ Reply(s, s, "FAILED")
      BY <2>5, <3>1, <3>2, <3>3 DEF SubmitMarkFailed, Applied, Reply, Tell, Writes
    <3>4. CASE (Missed(w) \/ LostDetached(w)) /\ NoReply
      BY <2>5, <3>4 DEF SubmitMarkFailed, Missed, LostDetached, Lost, NoReply, Says
    <3>5. QED
      BY <2>5, <3>3, <3>4 DEF SubmitMarkFailed
  <2>6. CASE SubmitMarkRunning(s)
    <3> DEFINE w == MarkRunning(s)
    <3>1. w \in Write /\ Justified(w) /\ w.task = s /\ w.op # "insert"
      BY <2>6 DEF MarkRunning, Justified, Write, States, Reasons,
                  SubmitMarkRunning, IInv, SubmitInv
    <3>2. Applied(w) => row'[s].state = "RUNNING"
      BY <1>0 DEF Applied, Execute, Result, MarkRunning, IInv, TypeOK, Row
    <3>3. CASE Applied(w) /\ Reply(s, s, "RUNNING")
      BY <2>6, <3>1, <3>2, <3>3 DEF SubmitMarkRunning, Applied, Reply, Tell, Writes
    <3>4. CASE (Missed(w) \/ LostDetached(w)) /\ NoReply
      BY <2>6, <3>4 DEF SubmitMarkRunning, Missed, LostDetached, Lost, NoReply, Says
    <3>5. QED
      BY <2>6, <3>3, <3>4 DEF SubmitMarkRunning
  <2>7. CASE SubmitFallback(s)
    <3> DEFINE w == MarkFailed(s, "PENDING", "UNKNOWN")
    <3>1. w \in Write /\ Justified(w)
      BY DEF MarkFailed, Justified, Write, States, Reasons
    <3>2. QED
      BY <2>7, <3>1 DEF SubmitFallback, Applied, Missed, LostDetached, Lost, NoReply,
                        Says, Writes
  <2>8. QED
    BY <1>1, <2>1, <2>2, <2>3, <2>4, <2>5, <2>6, <2>7 DEF SubmitStep
<1>2. ASSUME NEW s \in Submits, Crash(s) \/ UpstreamStep(s)
      PROVE  UNCHANGED call /\ ((UNCHANGED row /\ Says) \/ Writes)
  BY <1>2 DEF Crash, UpstreamStep, NoReply, Says
<1>3. ASSUME NEW g \in Pollers, PollStep(g)
      PROVE  UNCHANGED call /\ ((UNCHANGED row /\ Says) \/ Writes)
  <2> DEFINE t == poll[g].task
  <2>1. t \in Submits
    BY <1>3 DEF PollStep, PollReap, PollStillRunning, PollJobEnded, PollQueryFails,
                PollMarkSucceeded, PollMarkFailed, IInv, PollInv
  <2>2. ASSUME NEW w \in Write, Justified(w), w.task = t, w.op # "insert", NEW v,
               Applied(w) => row'[t].state = v,
               \/ Applied(w) /\ Tell(t, v)
               \/ (Missed(w) \/ Lost(w)) /\ UNCHANGED told
        PROVE  (UNCHANGED row /\ Says) \/ Writes
    BY <2>2 DEF Applied, Missed, Lost, Says, Writes
  <2>3. CASE PollReap(g)
    <3> DEFINE w == MarkFailed(t, poll[g].seen, "UNKNOWN")
    <3>1. poll[g].seen = "PENDING"
      BY <2>3 DEF PollReap, IInv, PollInv
    <3>2. w \in Write /\ Justified(w) /\ w.task = t /\ w.op # "insert"
      BY <2>1, <3>1 DEF MarkFailed, Justified, Write, States, Reasons
    <3>3. Applied(w) => row'[t].state = "FAILED"
      BY <1>0, <2>1 DEF Applied, Execute, Result, MarkFailed, IInv, TypeOK, Row
    <3>4. \/ Applied(w) /\ Tell(t, "FAILED")
          \/ (Missed(w) \/ Lost(w)) /\ UNCHANGED told
      BY <2>3 DEF PollReap, LostDetached
    <3>5. QED
      BY <2>2, <2>3, <3>2, <3>3, <3>4 DEF PollReap
  <2>4. CASE PollStillRunning(g)
    <3>1. "RUNNING" \in Been(t)
      BY <2>4 DEF PollStillRunning, IInv, PollInv, Been
    <3>2. QED
      BY <2>1, <2>4, <3>1 DEF PollStillRunning, Says
  <2>5. CASE PollJobEnded(g) \/ PollQueryFails(g)
    BY <2>5 DEF PollJobEnded, PollQueryFails, Says
  <2>6. CASE PollMarkSucceeded(g)
    <3> DEFINE w == MarkSucceeded(t)
    <3>1. w \in Write /\ Justified(w) /\ w.task = t /\ w.op # "insert"
      BY <2>1, <2>6 DEF MarkSucceeded, Justified, Write, States, Reasons,
                        PollMarkSucceeded, IInv, PollInv
    <3>2. Applied(w) => row'[t].state = "SUCCEEDED"
      BY <1>0, <2>1 DEF Applied, Execute, Result, MarkSucceeded, IInv, TypeOK, Row
    <3>3. PollMarks(g, w, "SUCCEEDED")
      BY <2>6 DEF PollMarkSucceeded
    <3>4. QED
      BY <2>2, <3>1, <3>2, <3>3 DEF PollMarks
  <2>7. CASE PollMarkFailed(g)
    <3> DEFINE w == MarkFailed(t, "RUNNING", "DEFINITE")
    <3>1. w \in Write /\ Justified(w) /\ w.task = t /\ w.op # "insert"
      BY <2>1, <2>7 DEF MarkFailed, Justified, Write, States, Reasons,
                        PollMarkFailed, IInv, PollInv
    <3>2. Applied(w) => row'[t].state = "FAILED"
      BY <1>0, <2>1 DEF Applied, Execute, Result, MarkFailed, IInv, TypeOK, Row
    <3>3. PollMarks(g, w, "FAILED")
      BY <2>7 DEF PollMarkFailed
    <3>4. QED
      BY <2>2, <3>1, <3>2, <3>3 DEF PollMarks
  <2>8. QED
    BY <1>3, <2>3, <2>4, <2>5, <2>6, <2>7 DEF PollStep
<1>4. ASSUME NEW g \in Pollers, NEW t \in Submits, PollRead(g, t)
      PROVE  UNCHANGED call /\ ((UNCHANGED row /\ Says) \/ Writes)
  BY <1>4 DEF PollRead, PollAnswers, PollFindsAbandoned, PollFindsRunning, MayRead,
              Says, Been
<1>5. CASE LateExecute \/ Tick
  BY <1>5 DEF LateExecute, Tick, IInv, TypeOK, LateInv, Says, Writes
<1>6. QED
  BY <1>1, <1>2, <1>3, <1>4, <1>5 DEF Next

\* No step, of whatever handler or of the database alone, writes a closed row
\* or changes a provider task id.
THEOREM ClosedRows == Spec => ClosedRowsFrozen
<1> DEFINE Frozen == \A t \in Submits :
                       /\ row[t].state \in Terminal => row'[t] = row[t]
                       /\ row[t].id # NoId => row'[t].id = row[t].id
<1>1. IInv /\ [Next]_vars => [Frozen]_vars
  <2> SUFFICES ASSUME IInv, Next PROVE Frozen
    OBVIOUS
  <2>1. CASE UNCHANGED row
    BY <2>1
  <2>2. CASE Writes
    BY <2>2, WriteMoves DEF Writes, IInv, Terminal
  <2>3. QED
    BY <2>1, <2>2, StepWritesOrSays
<1>2. QED
  BY <1>1, InductiveInvariant, PTL DEF Spec, ClosedRowsFrozen

\* The initial states of the code are initial states of the promised life.
LEMMA RefinesInit == Init => Lifecycle!Init
<1> SUFFICES ASSUME Init PROVE Lifecycle!Init
  OBVIOUS
<1>1. [t \in Submits |-> Key(t)] \in [Submits -> Callers \X RequestIds]
  BY DEF Init, Key
<1>2. /\ [t \in Submits |-> row[t].state] = [t \in Submits |-> "ABSENT"]
      /\ [t \in Submits |-> Been(t)] = [t \in Submits |-> {}]
  BY DEF Init, Absent, Been, Present
<1>3. QED
  BY <1>1, <1>2 DEF Init, Lifecycle!Init

\* Every step of the code is a step of the promised life, or leaves it alone.
LEMMA RefinesNext == IInv /\ [Next]_vars => [Lifecycle!Next]_(Lifecycle!vars)
<1> SUFFICES ASSUME IInv, [Next]_vars
             PROVE  [Lifecycle!Next]_(Lifecycle!vars)
  OBVIOUS
<1> DEFINE request == [t \in Submits |-> Key(t)]
           state   == [t \in Submits |-> row[t].state]
           been    == [t \in Submits |-> Been(t)]
<1>0. told \in [Submits -> SUBSET States]
  BY DEF IInv, TypeOK
<1>1. CASE UNCHANGED <<call, row, told>>
  BY <1>1 DEF Lifecycle!vars, Key, Been, Present
<1>2. CASE UNCHANGED call /\ UNCHANGED row /\ Says
  <2>1. UNCHANGED <<request, state, been>>
    BY <1>2 DEF Key, Been, Present
  <2>2. CASE UNCHANGED told
    BY <2>1, <2>2 DEF Lifecycle!vars
  <2>3. ASSUME NEW t \in Submits, NEW v \in Been(t), Tell(t, v)
        PROVE  Lifecycle!Next
    <3>1. v \in been[t]
      OBVIOUS
    <3>2. Lifecycle!Tell(t, v)
      BY <2>1, <2>3, <3>1 DEF Lifecycle!Tell, Tell
    <3>3. v \in Lifecycle!States
      BY DEF Been, Lifecycle!States, IInv, TypeOK, Row, States
    <3>4. QED
      BY <3>2, <3>3 DEF Lifecycle!Next
  <2>4. QED
    BY <1>2, <2>2, <2>3 DEF Says
<1>3. CASE UNCHANGED call /\ Writes
  <2>1. PICK w \in Write : /\ Justified(w) /\ Matches(w) /\ Execute(w)
                           /\ \/ UNCHANGED told
                              \/ w.op # "insert" /\ Tell(w.task, row'[w.task].state)
    BY <1>3 DEF Writes
  <2> DEFINE t == w.task
             v == row'[t].state
  <2>2. t \in Submits /\ row' \in [Submits -> Row]
        /\ \A u \in Submits : u # t => row'[u] = row[u]
    BY <2>1, WriteMoves DEF IInv
  <2>3. request' = request
    BY <1>3 DEF Key
  <2>4. /\ state' = [state EXCEPT ![t] = v]
        /\ \A S : Been(t)' = S => been' = [been EXCEPT ![t] = S]
    BY <2>2 DEF Been, Present
  <2>5. \/ told' = [told EXCEPT ![t] = @ \union {v}]
        \/ UNCHANGED told
    BY <2>1 DEF Tell
  <2>6. CASE w.op = "insert"
    <3>1. /\ row[t].state = "ABSENT" /\ v = "PENDING" /\ row'[t].id = NoId
      BY <2>1, <2>6, WriteMoves DEF IInv
    <3>2. \A u \in Submits : request[u] = request[t] => state[u] = "ABSENT"
      BY <2>1, <2>2, <2>6 DEF Matches, Present
    <3>3. Been(t)' = {"PENDING"}
      BY <3>1 DEF Been, Present
    <3>4. Lifecycle!Create(t)
      BY <2>1, <2>2, <2>3, <2>4, <2>6, <3>1, <3>2, <3>3 DEF Lifecycle!Create
    <3>5. QED
      BY <2>2, <3>4 DEF Lifecycle!Next
  <2>7. CASE w.op # "insert"
    <3>1. <<row[t].state, v>> \in Lifecycle!Moves
      BY <2>1, <2>7, WriteMoves DEF IInv, Lifecycle!Moves
    <3>2. Been(t)' = Been(t) \union {v}
      BY <2>1, <2>2, <2>7, WriteMoves, NoIdAssumption DEF IInv, Been, Present
    <3>3. PICK z \in Lifecycle!States : z = v
      BY <2>2 DEF Lifecycle!States, Row, States
    <3>4. Lifecycle!Advance(t, z)
      BY <2>2, <2>3, <2>4, <2>5, <3>1, <3>2, <3>3 DEF Lifecycle!Advance
    <3>5. QED
      BY <2>2, <3>4 DEF Lifecycle!Next
  <2>8. QED
    BY <2>6, <2>7
<1>4. QED
  BY <1>1, <1>2, <1>3, StepWritesOrSays DEF vars

\* The code implements the promised life of a task.
THEOREM Refinement == Spec => ImplementsLifecycle
  BY RefinesInit, RefinesNext, InductiveInvariant, PTL
  DEF Spec, ImplementsLifecycle, Lifecycle!Spec

-----------------------------------------------------------------------------
(* What leaves a row pending.                                              *)

AtWork == {"submitting"} \union Persisting

\* A pending row has a handler at work, or one that died, unless its insert
\* came late or the database failed.
OrphanInv ==
  \A s \in Submits :
    row[s].state = "PENDING" =>
      InsertPending(s) \in late \/ DbMayFail \/ pc[s] \in AtWork \union {"crashed"}

\* A statement that is no insert makes no row appear or return to pending, and
\* leaves no insert behind.
LEMMA OnlyInsertsInsert ==
  ASSUME IInv, NEW w \in Write, Justified(w), w.op # "insert",
         Applied(w) \/ Missed(w) \/ Lost(w)
  PROVE  \A u \in Submits :
           /\ Present(u)' <=> Present(u)
           /\ InsertPending(u) \in late' <=> InsertPending(u) \in late
           /\ row'[u].state = "PENDING" => row[u].state = "PENDING"
<1>1. \A u \in Submits : InsertPending(u) # w
  BY DEF InsertPending
<1>2. \A u \in Submits : InsertPending(u) \in late' <=> InsertPending(u) \in late
  BY <1>1 DEF Applied, Missed, Lost
<1>3. CASE Applied(w)
  BY <1>2, <1>3, WriteMoves DEF Applied, IInv, Present
<1>4. CASE Missed(w) \/ Lost(w)
  BY <1>2, <1>4 DEF Missed, Lost, Present
<1>5. QED
  BY <1>3, <1>4

\* A Submit handler past its insert, or a crash: it inserts nothing, and comes
\* to be at work only by having been.
Proceeds(s) ==
  /\ \A u \in Submits : u # s => pc'[u] = pc[u]
  /\ pc'[s] \in AtWork => pc[s] \in AtWork
  /\ \A u \in Submits :
       /\ u # s => (InsertPending(u) \in late' <=> InsertPending(u) \in late)
       /\ InsertPending(u) \in late => InsertPending(u) \in late'
       /\ row'[u].state = "PENDING" => row[u].state = "PENDING"

\* A submit that inserts no row goes forward.
LEMMA SubmitProceeds ==
  ASSUME IInv, NEW s \in Submits, SubmitStep(s) \/ Crash(s), ~SubmitInserted(s)
  PROVE  Proceeds(s)
<1>0. reason[s] \in Reasons /\ Reasons = {"NONE", "DEFINITE", "INVALID", "UNKNOWN"}
  BY DEF IInv, TypeOK, Reasons
<1>1. CASE SubmitConflict(s) \/ SubmitInsertLost(s) \/ SubmitRequery(s)
  BY <1>1 DEF SubmitConflict, SubmitInsertLost, SubmitRequery, Missed, Lost, Goto,
              InsertPending, IInv, TypeOK, Proceeds, Present, AtWork, Persisting
<1>2. CASE \/ SubmitReturnsId(s) \/ SubmitRefused(s)
           \/ SubmitUncertain(s) \/ SubmitGarbled(s)
  BY <1>2 DEF SubmitReturnsId, SubmitRefused, SubmitUncertain, SubmitGarbled, Goto,
              IInv, TypeOK, Proceeds, Present, AtWork, Persisting
<1>3. CASE SubmitMarkFailed(s)
  <2> DEFINE w == MarkFailed(s, "PENDING", reason[s])
  <2>1. w \in Write /\ Justified(w) /\ w.op # "insert"
    BY <1>0, <1>3
    DEF MarkFailed, Justified, Write, States, SubmitMarkFailed, IInv, SubmitInv
  <2>2. Applied(w) \/ Missed(w) \/ Lost(w)
    BY <1>3 DEF SubmitMarkFailed, LostDetached
  <2>3. pc' = [pc EXCEPT ![s] = "done"]
    BY <1>3 DEF SubmitMarkFailed, Goto
  <2>4. QED
    BY <2>1, <2>2, <2>3, OnlyInsertsInsert
    DEF IInv, TypeOK, Proceeds, AtWork, Persisting
<1>4. CASE SubmitMarkRunning(s)
  <2> DEFINE w == MarkRunning(s)
  <2>1. w \in Write /\ Justified(w) /\ w.op # "insert"
    BY <1>4 DEF MarkRunning, Justified, Write, States, Reasons,
                SubmitMarkRunning, IInv, SubmitInv
  <2>2. Applied(w) \/ Missed(w) \/ Lost(w)
    BY <1>4 DEF SubmitMarkRunning, LostDetached
  <2>3. /\ pc[s] = "markRunning"
        /\ \E label \in {"done", "fallback"} : pc' = [pc EXCEPT ![s] = label]
    BY <1>4 DEF SubmitMarkRunning, Goto
  <2>4. QED
    BY <2>1, <2>2, <2>3, OnlyInsertsInsert
    DEF IInv, TypeOK, Proceeds, AtWork, Persisting
<1>5. CASE SubmitFallback(s)
  <2> DEFINE w == MarkFailed(s, "PENDING", "UNKNOWN")
  <2>1. w \in Write /\ Justified(w) /\ w.op # "insert"
    BY DEF MarkFailed, Justified, Write, States, Reasons
  <2>2. Applied(w) \/ Missed(w) \/ Lost(w)
    BY <1>5 DEF SubmitFallback, LostDetached
  <2>3. pc' = [pc EXCEPT ![s] = "done"]
    BY <1>5 DEF SubmitFallback, Goto
  <2>4. QED
    BY <2>1, <2>2, <2>3, OnlyInsertsInsert
    DEF IInv, TypeOK, Proceeds, AtWork, Persisting
<1>6. CASE Crash(s)
  <2>1. \A u \in Submits : u # s => InsertPending(u) \notin InFlight(s)
    BY <1>6 DEF InFlight, InsertPending, MarkFailed, MarkRunning
  <2>2. QED
    BY <1>6, <2>1 DEF Crash, Goto, IInv, TypeOK, Proceeds, Present, AtWork, Persisting
<1>7. QED
  BY <1>1, <1>2, <1>3, <1>4, <1>5, <1>6 DEF SubmitStep

\* A Get handler inserts nothing, and leaves every Submit handler where it is.
LEMMA PollKeepsRows ==
  ASSUME IInv, NEW g \in Pollers, PollStep(g) \/ \E t \in Submits : PollRead(g, t)
  PROVE  /\ UNCHANGED pc
         /\ \A u \in Submits :
              /\ InsertPending(u) \in late' <=> InsertPending(u) \in late
              /\ row'[u].state = "PENDING" => row[u].state = "PENDING"
<1> DEFINE t == poll[g].task
<1>0. PollStep(g) => t \in Submits
  BY DEF PollStep, PollReap, PollStillRunning, PollJobEnded, PollQueryFails,
         PollMarkSucceeded, PollMarkFailed, IInv, PollInv
<1>1. CASE PollReap(g)
  <2> DEFINE w == MarkFailed(t, poll[g].seen, "UNKNOWN")
  <2>1. poll[g].seen = "PENDING"
    BY <1>1 DEF PollReap, IInv, PollInv
  <2>2. w \in Write /\ Justified(w) /\ w.op # "insert"
    BY <1>0, <1>1, <2>1 DEF MarkFailed, Justified, Write, States, Reasons, PollStep
  <2>3. (Applied(w) \/ Missed(w) \/ Lost(w)) /\ UNCHANGED pc
    BY <1>1 DEF PollReap, LostDetached
  <2>4. QED
    BY <2>2, <2>3, OnlyInsertsInsert
<1>2. CASE PollMarkSucceeded(g)
  <2> DEFINE w == MarkSucceeded(t)
  <2>1. w \in Write /\ Justified(w) /\ w.op # "insert"
    BY <1>0, <1>2 DEF MarkSucceeded, Justified, Write, States, Reasons,
                      PollMarkSucceeded, PollStep, IInv, PollInv
  <2>2. (Applied(w) \/ Missed(w) \/ Lost(w)) /\ UNCHANGED pc
    BY <1>2 DEF PollMarkSucceeded, PollMarks
  <2>3. QED
    BY <2>1, <2>2, OnlyInsertsInsert
<1>3. CASE PollMarkFailed(g)
  <2> DEFINE w == MarkFailed(t, "RUNNING", "DEFINITE")
  <2>1. w \in Write /\ Justified(w) /\ w.op # "insert"
    BY <1>0, <1>3 DEF MarkFailed, Justified, Write, States, Reasons,
                      PollMarkFailed, PollStep, IInv, PollInv
  <2>2. (Applied(w) \/ Missed(w) \/ Lost(w)) /\ UNCHANGED pc
    BY <1>3 DEF PollMarkFailed, PollMarks
  <2>3. QED
    BY <2>1, <2>2, OnlyInsertsInsert
<1>4. CASE \/ PollStillRunning(g) \/ PollJobEnded(g) \/ PollQueryFails(g)
           \/ \E z \in Submits : PollRead(g, z)
  BY <1>4 DEF PollStillRunning, PollJobEnded, PollQueryFails, PollRead, PollAnswers,
              PollFindsAbandoned, PollFindsRunning
<1>5. QED
  BY <1>1, <1>2, <1>3, <1>4 DEF PollStep

\* Every step keeps a pending row with a handler at work, a dead one, a late insert or a failed database.
LEMMA OrphanStep ==
  ASSUME IInv, OrphanInv, [Next]_vars
  PROVE  OrphanInv'
<1>1. ASSUME NEW s \in Submits, SubmitInserted(s)
      PROVE  OrphanInv'
  <2>1. /\ row' = [row EXCEPT ![s] = [state |-> "PENDING", id |-> NoId, reason |-> "NONE"]]
        /\ pc' = [pc EXCEPT ![s] = "submitting"]
        /\ UNCHANGED late
    BY <1>1 DEF SubmitInserted, Applied, Execute, InsertPending, Result, Goto
  <2>2. QED
    BY <2>1 DEF OrphanInv, IInv, TypeOK, AtWork, InsertPending
<1>2. ASSUME NEW s \in Submits, SubmitStep(s) \/ Crash(s), ~SubmitInserted(s)
      PROVE  OrphanInv'
  <2>1. Proceeds(s)
    BY <1>2, SubmitProceeds
  <2>2. \A u \in Submits : u # s =>
          (row'[u].state = "PENDING" =>
             InsertPending(u) \in late' \/ DbMayFail \/ pc'[u] \in AtWork \union {"crashed"})
    BY <2>1 DEF Proceeds, OrphanInv
  <2>3. row'[s].state = "PENDING" =>
          InsertPending(s) \in late' \/ DbMayFail \/ pc'[s] \in AtWork \union {"crashed"}
    <3>1. SUFFICES ASSUME row'[s].state = "PENDING", InsertPending(s) \notin late', ~DbMayFail
                   PROVE  pc'[s] \in AtWork \union {"crashed"}
      OBVIOUS
    <3>2. /\ row[s].state = "PENDING" /\ InsertPending(s) \notin late
          /\ pc[s] \in AtWork \union {"crashed"}
      BY <2>1, <3>1 DEF Proceeds, OrphanInv
    <3>3. CASE \/ SubmitReturnsId(s) \/ SubmitRefused(s)
               \/ SubmitUncertain(s) \/ SubmitGarbled(s) \/ Crash(s)
      BY <3>3 DEF SubmitReturnsId, SubmitRefused, SubmitUncertain, SubmitGarbled, Crash,
                  Goto, AtWork, Persisting, IInv, TypeOK
    <3>4. CASE SubmitConflict(s) \/ SubmitInsertLost(s) \/ SubmitRequery(s)
      BY <3>2, <3>4 DEF SubmitConflict, SubmitInsertLost, SubmitRequery, AtWork, Persisting
    <3>5. ASSUME NEW w \in Write, w.task = s, w.expect = "PENDING",
                 w.op \in {"running", "failed"}, Applied(w) \/ Missed(w)
          PROVE  FALSE
      <4>1. Matches(w)
        BY <3>2, <3>5 DEF Matches
      <4>2. row' = [row EXCEPT ![s] = Result(w)]
        BY <3>5, <4>1 DEF Applied, Missed, Execute
      <4>3. row[s] \in Row /\ Result(w).state # "PENDING"
        BY <3>5 DEF Result, IInv, TypeOK, Row
      <4>4. QED
        BY <3>1, <4>2, <4>3 DEF IInv, TypeOK
    <3>6. CASE SubmitMarkFailed(s)
      <4>1. MarkFailed(s, "PENDING", reason[s]) \in Write
        BY WriteTypes DEF States, IInv, TypeOK
      <4>2. QED
        BY <3>1, <3>5, <3>6, <4>1 DEF SubmitMarkFailed, MarkFailed, LostDetached
    <3>7. CASE SubmitMarkRunning(s)
      <4>1. MarkRunning(s) \in Write
        BY DEF MarkRunning, Write, States, Reasons
      <4>2. QED
        BY <3>1, <3>5, <3>7, <4>1 DEF SubmitMarkRunning, MarkRunning, LostDetached
    <3>8. CASE SubmitFallback(s)
      <4>1. MarkFailed(s, "PENDING", "UNKNOWN") \in Write
        BY DEF MarkFailed, Write, States, Reasons
      <4>2. QED
        BY <3>1, <3>5, <3>8, <4>1 DEF SubmitFallback, MarkFailed, LostDetached
    <3>9. QED
      BY <1>2, <3>3, <3>4, <3>6, <3>7, <3>8 DEF SubmitStep
  <2>4. QED
    BY <2>2, <2>3 DEF OrphanInv
<1>3. ASSUME NEW g \in Pollers, PollStep(g) \/ \E t \in Submits : PollRead(g, t)
      PROVE  OrphanInv'
  BY <1>3, PollKeepsRows DEF OrphanInv
<1>4. CASE LateExecute
  <2>1. PICK w \in late : Matches(w) /\ Execute(w)
    BY <1>4 DEF LateExecute
  <2>2. w \in Write /\ Justified(w) /\ UNCHANGED <<pc, late>>
    BY <1>4, <2>1 DEF LateExecute, IInv, TypeOK, LateInv
  <2>3. \A u \in Submits :
          row'[u].state = "PENDING" => row[u].state = "PENDING" \/ InsertPending(u) \in late
    BY <2>1, <2>2, WriteMoves DEF IInv
  <2>4. QED
    BY <2>2, <2>3 DEF OrphanInv
<1>5. CASE UNCHANGED vars \/ Tick \/ \E s \in Submits : UpstreamStep(s)
  BY <1>5 DEF vars, Tick, UpstreamStep, OrphanInv
<1>6. QED
  BY <1>1, <1>2, <1>3, <1>4, <1>5 DEF Next

\* A handler that returned leaves its row pending only when the database lost
\* one of its statements.
THEOREM NoOrphans == Spec => []NoOrphanPending
<1>1. Init => OrphanInv
  BY DEF Init, OrphanInv, Absent
<1>2. IInv /\ OrphanInv /\ [Next]_vars => OrphanInv'
  BY OrphanStep
<1>3. OrphanInv => NoOrphanPending
  BY DEF OrphanInv, NoOrphanPending, AtWork, Persisting
<1>4. QED
  BY <1>1, <1>2, <1>3, InductiveInvariant, PTL DEF Spec

-----------------------------------------------------------------------------
(* The table under the rows (TaskTable): its inductive invariant.          *)

\* The columns of a row of the table, and the task it holds.
Held(r, t) ==
  /\ DOMAIN r = TaskColumns
  /\ r.caller = call[t].caller /\ r.request_id = call[t].request
  /\ r.request_hash = call[t].body
  /\ r.state = row[t].state
  /\ r.provider_task_id = IF row[t].id = NoId THEN Blank ELSE row[t].id
  /\ r.error_code = ErrorCode(row[t].reason) /\ r.error_reason = ErrorText(row[t].reason)

\* Every row holds a task that was inserted, every such task has a row, and no
\* task has two.
TableInv ==
  /\ \A r \in table : r.task_id \in Submits /\ Present(r.task_id) /\ Held(r, r.task_id)
  /\ \A t \in Submits : Present(t) => \E r \in table : r.task_id = t
  /\ \A r, q \in table : r.task_id = q.task_id => r = q

\* A Submit handler that looks its request up met a row that has it.
RequeryInv ==
  \A s \in Submits : pc[s] = "requery" => \E t \in Submits : Present(t) /\ Key(t) = Key(s)

-----------------------------------------------------------------------------
(* The builders: what a column holds after a mutation.                     *)

\* The columns of a mutation over what lies under it.
LEMMA OverColumns ==
  ASSUME NEW mutation, NEW under
  PROVE  DOMAIN Over(mutation, under) = DOMAIN mutation \union DOMAIN under
  BY DEF Over

\* A column the mutation sets has its value there,
LEMMA OverSet ==
  ASSUME NEW mutation, NEW under, NEW col \in DOMAIN mutation
  PROVE  Over(mutation, under)[col] = mutation[col]
  BY DEF Over

\* and another keeps what lies under it.
LEMMA OverKept ==
  ASSUME NEW mutation, NEW under, NEW col \in DOMAIN under \ DOMAIN mutation
  PROVE  Over(mutation, under)[col] = under[col]
  BY DEF Over

\* Only, of a query that finds one row, or none.
LEMMA OnlyOne ==
  ASSUME NEW r
  PROVE  Only({r}) = [err |-> "none", row |-> r]
<1>1. Cardinality({r}) = 1 /\ {r} # {}
  BY FS_Singleton
<1>2. (CHOOSE q \in {r} : TRUE) = r
  OBVIOUS
<1>3. QED
  BY <1>1, <1>2 DEF Only

\* Of no rows Only is notFound.
LEMMA OnlyNone == Only({}) = [err |-> "notFound"]
<1>1. Cardinality({}) = 0
  BY FS_EmptySet
<1>2. QED
  BY <1>1 DEF Only

\* What the WHERE clauses of an update and of a read by id ask of a row.
LEMMA WhereMeets ==
  ASSUME NEW r, NEW w
  PROVE  Satisfies(r, Where(w)) <=> r.task_id = w.task /\ r.state = w.expect
  BY DEF Satisfies, Where

\* A read by id asks for the id alone.
LEMMA IdMeets ==
  ASSUME NEW r, NEW t
  PROVE  Satisfies(r, [task_id |-> t]) <=> r.task_id = t
  BY DEF Satisfies


\* The row an insert adds.
LEMMA InsertedRow ==
  ASSUME NEW s, NEW r, r = Over(InsertMutation(s), CreateDefaults)
  PROVE  /\ DOMAIN r = TaskColumns
         /\ r.task_id = s
         /\ r.caller = call[s].caller /\ r.request_id = call[s].request
         /\ r.request_hash = call[s].body
         /\ r.state = "PENDING" /\ r.provider_task_id = Blank
         /\ r.error_code = 0 /\ r.error_reason = Blank
<1>1. /\ DOMAIN InsertMutation(s) = TaskColumns \ {"created_at", "updated_at"}
      /\ DOMAIN CreateDefaults \subseteq TaskColumns
      /\ {"created_at", "updated_at"} \subseteq DOMAIN CreateDefaults
      /\ {"created_at", "updated_at"} \subseteq TaskColumns
  BY DEF InsertMutation, CreateDefaults, TaskColumns
<1>2. DOMAIN r = TaskColumns
  <2>1. DOMAIN r = DOMAIN InsertMutation(s) \union DOMAIN CreateDefaults
    BY OverColumns
  <2>2. QED
    BY <1>1, <2>1
<1>3. \A col \in TaskColumns \ {"created_at", "updated_at"} : r[col] = InsertMutation(s)[col]
  BY <1>1, OverColumns, OverSet, OverKept
<1>4. /\ r.task_id = InsertMutation(s).task_id
      /\ r.caller = InsertMutation(s).caller /\ r.request_id = InsertMutation(s).request_id
      /\ r.request_hash = InsertMutation(s).request_hash /\ r.state = InsertMutation(s).state
      /\ r.provider_task_id = InsertMutation(s).provider_task_id
      /\ r.error_code = InsertMutation(s).error_code
      /\ r.error_reason = InsertMutation(s).error_reason
  BY <1>3 DEF TaskColumns
<1>5. QED
  BY <1>2, <1>4 DEF InsertMutation

\* The columns of a mutation that closes a row.
LEMMA ErrorMutation ==
  ASSUME NEW v, NEW e, NEW m, m = Over([state |-> v], ErrorColumns(e))
  PROVE  /\ DOMAIN m = {"state", "error_code", "error_message", "error_reason"}
         /\ m.state = v /\ m.error_code = ErrorCode(e) /\ m.error_reason = ErrorText(e)
<1> DEFINE s == [state |-> v]
           c == ErrorColumns(e)
<1>1. /\ DOMAIN s = {"state"} /\ s.state = v
      /\ DOMAIN c = {"error_code", "error_message", "error_reason"}
      /\ c.error_code = ErrorCode(e) /\ c.error_reason = ErrorText(e)
  BY DEF ErrorColumns
<1> HIDE DEF s, c
<1>2. m = Over(s, c)
  BY DEF s, c
<1>3. DOMAIN m = DOMAIN s \union DOMAIN c
  BY <1>2, OverColumns
<1>4. m["state"] = s["state"]
  BY <1>1, <1>2, OverSet
<1>5. m["error_code"] = c["error_code"] /\ m["error_reason"] = c["error_reason"]
  BY <1>1, <1>2, OverKept
<1>6. QED
  BY <1>1, <1>3, <1>4, <1>5

\* The row an update leaves of row r.
LEMMA UpdatedRow ==
  ASSUME NEW r, DOMAIN r = TaskColumns, NEW w,
         w.op \in {"running", "failed", "succeeded"},
         NEW q, q = Over(Over(UpdateMutation(w), UpdateDefaults), r)
  PROVE  /\ DOMAIN q = TaskColumns
         /\ q.task_id = r.task_id
         /\ q.caller = r.caller /\ q.request_id = r.request_id
         /\ q.request_hash = r.request_hash
         /\ w.op = "running" =>
              /\ q.state = "RUNNING" /\ q.provider_task_id = w.task
              /\ q.error_code = r.error_code /\ q.error_reason = r.error_reason
         /\ w.op = "failed" =>
              /\ q.state = "FAILED" /\ q.provider_task_id = r.provider_task_id
              /\ q.error_code = ErrorCode(w.reason) /\ q.error_reason = ErrorText(w.reason)
         /\ w.op = "succeeded" =>
              /\ q.state = "SUCCEEDED" /\ q.provider_task_id = r.provider_task_id
              /\ q.error_code = 0 /\ q.error_reason = Blank
<1> DEFINE m == UpdateMutation(w)
           f == Over(m, UpdateDefaults)
<1>1. /\ DOMAIN UpdateDefaults = {"updated_at"}
      /\ w.op = "running" =>
           /\ DOMAIN m = {"provider", "provider_task_id", "state"}
           /\ m["state"] = "RUNNING" /\ m["provider_task_id"] = w.task
  BY DEF UpdateMutation, UpdateDefaults
<1>4. w.op = "failed" =>
        /\ DOMAIN m = {"state", "error_code", "error_message", "error_reason"}
        /\ m["state"] = "FAILED" /\ m["error_code"] = ErrorCode(w.reason)
        /\ m["error_reason"] = ErrorText(w.reason)
  BY ErrorMutation DEF UpdateMutation
<1>5. w.op = "succeeded" =>
        /\ DOMAIN m = {"state", "error_code", "error_message", "error_reason"}
        /\ m["state"] = "SUCCEEDED" /\ m["error_code"] = 0
        /\ m["error_reason"] = Blank
  BY ErrorMutation DEF UpdateMutation, ErrorCode, ErrorText
<1> HIDE DEF m
<1> HIDE DEF f
<1>6. /\ DOMAIN f = DOMAIN m \union {"updated_at"}
      /\ \A col \in DOMAIN m : f[col] = m[col]
  <2>1. DOMAIN f = DOMAIN m \union DOMAIN UpdateDefaults
    BY OverColumns DEF f
  <2>2. \A col \in DOMAIN m : f[col] = m[col]
    BY OverSet DEF f
  <2>3. QED
    BY <1>1, <2>1, <2>2
<1>7. /\ DOMAIN q = DOMAIN m \union {"updated_at"} \union TaskColumns
      /\ \A col \in DOMAIN m : q[col] = m[col]
      /\ \A col \in TaskColumns \ (DOMAIN m \union {"updated_at"}) : q[col] = r[col]
  <2>1. q = Over(f, r)
    BY DEF f, m
  <2>2. DOMAIN q = DOMAIN f \union DOMAIN r
    BY <2>1, OverColumns
  <2>3. \A col \in DOMAIN f : q[col] = f[col]
    BY <2>1, OverSet
  <2>4. \A col \in DOMAIN r \ DOMAIN f : q[col] = r[col]
    BY <2>1, OverKept
  <2>5. QED
    BY <1>6, <2>2, <2>3, <2>4
<1>8. CASE w.op = "running"
  BY <1>8, <1>1, <1>7 DEF TaskColumns
<1>9. CASE w.op = "failed"
  BY <1>9, <1>4, <1>7 DEF TaskColumns
<1>10. CASE w.op = "succeeded"
  BY <1>10, <1>5, <1>7 DEF TaskColumns
<1>11. QED
  BY <1>8, <1>9, <1>10

-----------------------------------------------------------------------------
(* The statements.                                                         *)

\* A task that was inserted is found under its id, in one row; another is not.
LEMMA FoundById ==
  ASSUME TableInv, NEW t \in Submits
  PROVE  /\ Present(t) => \E r \in table :
              /\ r.task_id = t /\ Held(r, t)
              /\ Query(table, [task_id |-> t]) = {r}
         /\ ~Present(t) => Query(table, [task_id |-> t]) = {}
<1>1. Query(table, [task_id |-> t]) = {r \in table : r.task_id = t}
  BY IdMeets DEF Query
<1>2. QED
  BY <1>1 DEF TableInv

\* An update finds the one row of its task when the task is in the state it
\* expects, and none otherwise.
LEMMA UpdateFinds ==
  ASSUME TypeOK, TableInv, NEW w \in Write, w.expect # "ABSENT"
  PROVE  /\ row[w.task].state = w.expect => \E r \in table :
              /\ r.task_id = w.task /\ Held(r, w.task)
              /\ Query(table, Where(w)) = {r}
         /\ row[w.task].state # w.expect => Query(table, Where(w)) = {}
<1>1. Query(table, Where(w)) = {r \in table : r.task_id = w.task /\ r.state = w.expect}
  BY WhereMeets DEF Query
<1>2. w.task \in Submits
  BY DEF Write
<1>3. \A r \in table : r.task_id = w.task => Held(r, w.task) /\ r.state = row[w.task].state
  BY DEF TableInv, Held
<1>4. CASE row[w.task].state = w.expect
  <2>1. PICK r \in table : r.task_id = w.task
    BY <1>2, <1>4 DEF TableInv, Present
  <2>2. \A q \in table : q.task_id = w.task => q = r
    BY <2>1 DEF TableInv
  <2>3. Query(table, Where(w)) = {r}
    BY <1>1, <1>3, <1>4, <2>1, <2>2
  <2>4. QED
    BY <1>3, <1>4, <2>1, <2>3
<1>5. CASE row[w.task].state # w.expect
  BY <1>1, <1>3, <1>5
<1>6. QED
  BY <1>4, <1>5

\* An insert meets a key exactly when the task is there or another has its
\* request; it never lacks a column.
LEMMA InsertMeets ==
  ASSUME TableInv, NEW s \in Submits
  PROVE  LET free == \A u \in Submits : u = s \/ Key(u) = Key(s) => ~Present(u) IN
         /\ free => /\ Insert(s).err = "none"
                    /\ Insert(s).table = table \union {Over(InsertMutation(s), CreateDefaults)}
         /\ ~free => Insert(s).err = "constraint"
<1> DEFINE free == \A u \in Submits : u = s \/ Key(u) = Key(s) => ~Present(u)
           r == Over(InsertMutation(s), CreateDefaults)
           taken == \E key \in Keys : Repeats(r, table, key)
<1>1. /\ DOMAIN r = TaskColumns /\ r.task_id = s
      /\ r.caller = call[s].caller /\ r.request_id = call[s].request
  BY InsertedRow
<1> HIDE DEF r
<1>2. Required \subseteq DOMAIN r
  BY <1>1 DEF Required
<1>3. Repeats(r, table, {"task_id"}) <=> \E q \in table : q.task_id = s
  BY <1>1 DEF Repeats
<1>4. Repeats(r, table, {"caller", "request_id"})
        <=> \E q \in table : q.caller = call[s].caller /\ q.request_id = call[s].request
  BY <1>1 DEF Repeats
<1>5. taken <=> ~free
  BY <1>3, <1>4 DEF Keys, TableInv, Held, Key
<1>6. /\ ~taken => /\ Insert(s).err = "none"
                   /\ Insert(s).table = table \union {r}
      /\ taken => Insert(s).err = "constraint"
  BY <1>2 DEF Insert, Create, r
<1>7. QED
  BY <1>5, <1>6 DEF r

\* A statement hits exactly when the handlers' guard says so.
LEMMA HitsIsMatches ==
  ASSUME TypeOK, TableInv, NEW w \in Write, Justified(w)
  PROVE  Hits(w) <=> Matches(w)
<1>1. w.task \in Submits /\ w.op \in {"insert", "running", "failed", "succeeded"}
  BY DEF Write
<1>2. CASE w.op = "insert"
  <2>1. w.expect = "ABSENT"
    BY <1>2 DEF Justified, InsertPending
  <2>2. Matches(w) <=> \A u \in Submits : u = w.task \/ Key(u) = Key(w.task) => ~Present(u)
    BY <1>1, <1>2, <2>1 DEF Matches, Present
  <2>3. Hits(w) <=> Insert(w.task).err = "none"
    BY <1>2 DEF Hits
  <2>4. QED
    BY <1>1, <2>2, <2>3, InsertMeets
<1>3. CASE w.op # "insert"
  <2>1. w.expect # "ABSENT"
    BY <1>1, <1>3 DEF Justified
  <2>2. Hits(w) <=> Cardinality(Query(table, Where(w))) # 0
    BY <1>3 DEF Hits, Statement, Update
  <2>3. Matches(w) <=> row[w.task].state = w.expect
    BY <1>3 DEF Matches
  <2>4. CASE row[w.task].state = w.expect
    <3>1. PICK r \in table : Query(table, Where(w)) = {r}
      BY <2>1, <2>4, UpdateFinds
    <3>2. Cardinality({r}) = 1
      BY FS_Singleton
    <3>3. QED
      BY <2>2, <2>3, <2>4, <3>1, <3>2
  <2>5. CASE row[w.task].state # w.expect
    <3>1. Query(table, Where(w)) = {}
      BY <2>1, <2>5, UpdateFinds
    <3>2. Cardinality({}) = 0
      BY FS_EmptySet
    <3>3. QED
      BY <2>2, <2>3, <2>5, <3>1, <3>2
  <2>6. QED
    BY <2>4, <2>5
<1>4. QED
  BY <1>2, <1>3

-----------------------------------------------------------------------------
(* Every step keeps the invariant.                                         *)

\* An insert that meets no key adds the row of its task.
LEMMA InsertIsSafe ==
  ASSUME TypeOK, TableInv, UNCHANGED call, NEW w \in Write, w.op = "insert", Justified(w),
         Matches(w), Execute(w), table' = After(w)
  PROVE  TableInv'
<1> DEFINE t == w.task
<1>0. PICK r : r = Over(InsertMutation(t), CreateDefaults)
  OBVIOUS
<1>1. t \in Submits /\ ~Present(t)
  BY DEF Write, Matches, Justified, InsertPending, Present
<1>2. table' = table \union {r}
  <2>1. \A u \in Submits : u = t \/ Key(u) = Key(t) => ~Present(u)
    BY <1>1 DEF Matches
  <2>2. QED
    BY <1>0, <1>1, <2>1, InsertMeets DEF After
<1>3. row' = [row EXCEPT ![t] = [state |-> "PENDING", id |-> NoId, reason |-> "NONE"]]
  BY DEF Execute, Result
<1>4. /\ r.task_id = t /\ DOMAIN r = TaskColumns
      /\ r.caller = call[t].caller /\ r.request_id = call[t].request
      /\ r.request_hash = call[t].body
      /\ r.state = "PENDING" /\ r.provider_task_id = Blank
      /\ r.error_code = 0 /\ r.error_reason = Blank
  BY <1>0, InsertedRow
<1>5. row'[t] = [state |-> "PENDING", id |-> NoId, reason |-> "NONE"]
      /\ \A u \in Submits : u # t => row'[u] = row[u]
  BY <1>1, <1>3 DEF TypeOK
<1>6. Held(r, t)'
  BY <1>4, <1>5 DEF Held, ErrorCode, ErrorText
<1>7. \A q \in table : q.task_id # t
  BY <1>1 DEF TableInv
<1>8. \A q \in table : q.task_id \in Submits /\ Present(q.task_id)' /\ Held(q, q.task_id)'
  BY <1>5, <1>7 DEF TableInv, Held, Present
<1>9. Present(t)' /\ \A u \in Submits : u # t /\ Present(u)' => Present(u)
  BY <1>5 DEF Present
<1>10. \A q \in table' : q.task_id \in Submits /\ Present(q.task_id)' /\ Held(q, q.task_id)'
  BY <1>1, <1>2, <1>4, <1>6, <1>8, <1>9
<1>11. \A u \in Submits : Present(u)' => \E q \in table' : q.task_id = u
  BY <1>2, <1>4, <1>9 DEF TableInv
<1>12. \A p, q \in table' : p.task_id = q.task_id => p = q
  BY <1>2, <1>4, <1>7 DEF TableInv
<1>13. QED
  BY <1>10, <1>11, <1>12 DEF TableInv

\* An update that hits leaves the one row of its task with the columns of what
\* the task is now.
LEMMA UpdateIsSafe ==
  ASSUME TypeOK, RowInv, TableInv, UNCHANGED call,
         NEW w \in Write, w.op # "insert", Justified(w),
         Matches(w), Execute(w), table' = After(w)
  PROVE  TableInv'
<1> DEFINE t == w.task
<1>1. t \in Submits /\ w.op \in {"running", "failed", "succeeded"} /\ w.expect # "ABSENT"
      /\ row[t].state = w.expect /\ row[t] \in Row
  BY DEF Write, Justified, Matches, TypeOK
<1>2. PICK r \in table : r.task_id = t /\ Held(r, t) /\ Query(table, Where(w)) = {r}
  BY <1>1, UpdateFinds
<1>0. PICK q : q = Over(Over(UpdateMutation(w), UpdateDefaults), r)
  OBVIOUS
<1>3. table' = (table \ {r}) \union {q}
  BY <1>0, <1>2 DEF After, Statement, Update
<1>4. DOMAIN r = TaskColumns
  BY <1>2 DEF Held
<1>5. /\ DOMAIN q = TaskColumns
      /\ q.task_id = r.task_id
      /\ q.caller = r.caller /\ q.request_id = r.request_id
      /\ q.request_hash = r.request_hash
      /\ w.op = "running" =>
           /\ q.state = "RUNNING" /\ q.provider_task_id = w.task
           /\ q.error_code = r.error_code /\ q.error_reason = r.error_reason
      /\ w.op = "failed" =>
           /\ q.state = "FAILED" /\ q.provider_task_id = r.provider_task_id
           /\ q.error_code = ErrorCode(w.reason) /\ q.error_reason = ErrorText(w.reason)
      /\ w.op = "succeeded" =>
           /\ q.state = "SUCCEEDED" /\ q.provider_task_id = r.provider_task_id
           /\ q.error_code = 0 /\ q.error_reason = Blank
  BY <1>0, <1>1, <1>4, UpdatedRow
<1>6. row'[t] = Result(w) /\ \A u \in Submits : u # t => row'[u] = row[u]
  BY <1>1 DEF Execute, TypeOK
<1>7. Held(q, t)'
  <2>1. CASE w.op = "running"
    <3>1. row'[t].state = "RUNNING" /\ row'[t].id = t /\ row'[t].reason = row[t].reason
      BY <1>1, <1>6, <2>1 DEF Result, Row
    <3>2. QED
      BY <1>1, <1>2, <1>5, <2>1, <3>1, NoIdAssumption DEF Held
  <2>2. CASE w.op = "failed"
    <3>1. row'[t].state = "FAILED" /\ row'[t].id = row[t].id /\ row'[t].reason = w.reason
      BY <1>1, <1>6, <2>2 DEF Result, Row
    <3>2. QED
      BY <1>1, <1>2, <1>5, <2>2, <3>1 DEF Held
  <2>3. CASE w.op = "succeeded"
    <3>1. row'[t].state = "SUCCEEDED" /\ row'[t].id = row[t].id /\ row'[t].reason = "NONE"
      BY <1>1, <1>6, <2>3 DEF Result, Row
    <3>2. QED
      BY <1>1, <1>2, <1>5, <2>3, <3>1 DEF Held, ErrorCode, ErrorText
  <2>4. QED
    BY <1>1, <2>1, <2>2, <2>3
<1>8. Present(t)' /\ \A u \in Submits : u # t => (Present(u)' <=> Present(u))
  <2>1. row'[t].state # "ABSENT"
    BY <1>1, <1>6 DEF Result, Row
  <2>2. QED
    BY <1>6, <2>1 DEF Present
<1>9. \A p \in table : p.task_id = t => p = r
  BY <1>2 DEF TableInv
<1>10. \A p \in table : p # r =>
         p.task_id \in Submits /\ Present(p.task_id)' /\ Held(p, p.task_id)'
  BY <1>6, <1>8, <1>9 DEF TableInv, Held
<1>11. q.task_id = t
  BY <1>2, <1>5
<1>12. \A p \in table' : p.task_id \in Submits /\ Present(p.task_id)' /\ Held(p, p.task_id)'
  BY <1>1, <1>3, <1>7, <1>8, <1>10, <1>11
<1>13. \A u \in Submits : Present(u)' => \E p \in table' : p.task_id = u
  BY <1>2, <1>3, <1>8, <1>11 DEF TableInv
<1>14. \A p1, p2 \in table' : p1.task_id = p2.task_id => p1 = p2
  BY <1>3, <1>9, <1>11 DEF TableInv
<1>15. QED
  BY <1>12, <1>13, <1>14 DEF TableInv

\* The statement that TaskTable names for a step is the one the step executes.
LEMMA ExecutedStatement ==
  ASSUME TypeOK, RowInv, NEW w \in Write, Justified(w), Matches(w), Execute(w),
         NEW t \in Submits, row'[t] # row[t]
  PROVE  LET e == Executed(t) IN
         e \in Write /\ e.op = w.op /\ Justified(e) /\ Matches(e) /\ Execute(e)
<1> DEFINE e == Executed(t)
<1>1. /\ t = w.task
      /\ w.op \in {"insert", "running", "failed", "succeeded"} /\ w.reason \in Reasons
      /\ row[t] \in Row /\ row[t].state = w.expect
  BY WriteMoves DEF Write, Matches, TypeOK
<1>2. CASE w.op = "insert"
  <2>1. e = w
    BY <1>1, <1>2, WriteMoves DEF Executed
  <2>2. QED
    BY <2>1
<1>3. CASE w.op = "running"
  <2>1. row'[t].state = "RUNNING" /\ w.expect = "PENDING"
    BY <1>1, <1>3, WriteMoves DEF Justified
  <2>2. e = MarkRunning(t)
    BY <2>1 DEF Executed
  <2>3. Result(e) = Result(w)
    BY <1>1, <1>3, <2>2 DEF Result, MarkRunning
  <2>4. /\ e \in Write /\ e.op = w.op /\ e.task = w.task /\ e.expect = w.expect
        /\ e.op # "failed"
    BY <1>1, <1>3, <2>1, <2>2 DEF MarkRunning, Write, States, Reasons
  <2>5. QED
    BY <1>3, <2>3, <2>4 DEF Justified, Matches, Execute
<1>4. CASE w.op = "failed"
  <2>1. /\ row'[t].state = "FAILED" /\ row'[t].reason = w.reason
        /\ w.expect \in {"PENDING", "RUNNING"}
    BY <1>1, <1>4, WriteMoves DEF Justified
  <2>2. e = MarkFailed(t, w.expect, w.reason)
    BY <1>1, <2>1 DEF Executed
  <2>3. Result(e) = Result(w)
    BY <1>1, <1>4, <2>2 DEF Result, MarkFailed
  <2>4. QED
    BY <1>1, <1>4, <2>1, <2>2, <2>3
    DEF MarkFailed, Justified, Matches, Execute, Write, States
<1>5. CASE w.op = "succeeded"
  <2>1. row'[t].state = "SUCCEEDED" /\ w.expect = "RUNNING"
    BY <1>1, <1>5, WriteMoves DEF Justified
  <2>2. e = MarkSucceeded(t)
    BY <2>1 DEF Executed
  <2>3. Result(e) = Result(w)
    BY <1>1, <1>5, <2>2 DEF Result, MarkSucceeded
  <2>4. /\ e \in Write /\ e.op = w.op /\ e.task = w.task /\ e.expect = w.expect
        /\ e.op # "failed"
    BY <1>1, <1>5, <2>1, <2>2 DEF MarkSucceeded, Write, States, Reasons
  <2>5. QED
    BY <1>5, <2>3, <2>4 DEF Justified, Matches, Execute
<1>6. QED
  BY <1>1, <1>2, <1>3, <1>4, <1>5

\* Whatever the step, the table goes on holding the rows.
LEMMA TableStep ==
  ASSUME IInv, TableInv, [TableNext]_tableVars
  PROVE  TableInv'
<1>1. CASE UNCHANGED <<call, row, table>>
  BY <1>1 DEF TableInv, Held, Present
<1>2. CASE UNCHANGED call /\ Writes /\ Recorded /\ row' # row
  <2>1. PICK w \in Write : Justified(w) /\ Matches(w) /\ Execute(w)
    BY <1>2 DEF Writes
  <2>2. PICK t \in Submits : row'[t] # row[t] /\ table' = After(Executed(t))
    BY <1>2 DEF Recorded
  <2>3. /\ Executed(t) \in Write /\ Justified(Executed(t))
        /\ Matches(Executed(t)) /\ Execute(Executed(t))
    BY <2>1, <2>2, ExecutedStatement DEF IInv
  <2>4. QED
    BY <1>2, <2>2, <2>3, InsertIsSafe, UpdateIsSafe DEF IInv
<1>3. QED
  <2>1. CASE UNCHANGED tableVars
    BY <1>1, <2>1 DEF tableVars, vars
  <2>2. CASE TableNext
    <3>1. UNCHANGED call /\ (UNCHANGED row \/ Writes) /\ Recorded
      BY <2>2, StepWritesOrSays DEF TableNext
    <3>2. CASE UNCHANGED row
      BY <1>1, <3>1, <3>2 DEF Recorded
    <3>3. CASE row' # row
      BY <1>2, <3>1, <3>3
    <3>4. QED
      BY <3>2, <3>3
  <2>3. QED
    BY <2>1, <2>2

\* A task that exists goes on existing.
LEMMA PresentStays ==
  ASSUME IInv, [Next]_vars
  PROVE  UNCHANGED call /\ \A t \in Submits : Present(t) => Present(t)'
<1>1. CASE UNCHANGED vars
  BY <1>1 DEF vars, Present
<1>2. CASE Next
  <2>1. CASE UNCHANGED row
    BY <1>2, <2>1, StepWritesOrSays DEF Present
  <2>2. CASE Writes
    BY <1>2, <2>2, StepWritesOrSays, WriteMoves DEF Writes, IInv, Present
  <2>3. QED
    BY <1>2, <2>1, <2>2, StepWritesOrSays
<1>3. QED
  BY <1>1, <1>2

\* Only a handler whose insert met a key looks its request up.
LEMMA RequeryStep ==
  ASSUME IInv, RequeryInv, [Next]_vars
  PROVE  RequeryInv'
<1>1. ASSUME NEW s \in Submits, pc'[s] = "requery", pc[s] # "requery"
      PROVE  \E t \in Submits : Present(t) /\ Key(t) = Key(s)
  <2>1. CASE SubmitConflict(s)
    BY <2>1 DEF SubmitConflict, Missed, Matches, InsertPending, Present
  <2>2. CASE \E u \in Submits : SubmitConflict(u) /\ u # s
    BY <1>1, <2>2 DEF SubmitConflict, Goto
  <2>3. CASE \E u \in Submits : (SubmitStep(u) /\ ~SubmitConflict(u)) \/ Crash(u)
    BY <1>1, <2>3
    DEF SubmitStep, SubmitConflict, SubmitInserted, SubmitInsertLost, SubmitRequery,
        SubmitReturnsId, SubmitRefused, SubmitUncertain, SubmitGarbled, SubmitMarkFailed,
        SubmitMarkRunning, SubmitFallback, Crash, Goto, IInv, TypeOK
  <2>4. CASE UNCHANGED pc
    BY <1>1, <2>4
  <2>5. ASSUME NEW g \in Pollers, PollStep(g) \/ \E t \in Submits : PollRead(g, t)
        PROVE  UNCHANGED pc
    BY <2>5, PollKeepsRows
  <2>6. CASE LateExecute \/ Tick \/ (\E u \in Submits : UpstreamStep(u)) \/ UNCHANGED vars
    BY <2>4, <2>6 DEF LateExecute, Tick, UpstreamStep, vars
  <2>7. QED
    BY <2>1, <2>2, <2>3, <2>4, <2>5, <2>6 DEF Next
<1>2. QED
  BY <1>1, PresentStays DEF RequeryInv, Key

-----------------------------------------------------------------------------
\* A handler that looks its request up finds one task, which has it.
LEMMA FoundByRequest ==
  ASSUME KeyInv, TableInv, RequeryInv, NEW s \in Submits, pc[s] = "requery"
  PROVE  LET got == GetByCallerRequest(call[s].caller, call[s].request) IN
         got.err = "none" /\ Key(got.row.task_id) = Key(s) /\ Present(got.row.task_id)
<1> DEFINE where == [caller |-> call[s].caller, request_id |-> call[s].request]
<1>1. PICK t \in Submits : Present(t) /\ Key(t) = Key(s)
  BY DEF RequeryInv
<1>2. PICK r \in table : r.task_id = t
  BY <1>1 DEF TableInv
<1>3. \A q \in table : Satisfies(q, where)
                         <=> q.caller = call[s].caller /\ q.request_id = call[s].request
  BY DEF Satisfies
<1>4. \A q \in table : Satisfies(q, where) <=> Key(q.task_id) = Key(s)
  BY <1>3 DEF TableInv, Held, Key
<1>5. \A q \in table : Key(q.task_id) = Key(s) => q = r
  BY <1>1, <1>2 DEF TableInv, KeyInv
<1>6. Query(table, where) = {r}
  BY <1>1, <1>2, <1>4, <1>5 DEF Query
<1>7. GetByCallerRequest(call[s].caller, call[s].request) = [err |-> "none", row |-> r]
  BY <1>6, OnlyOne DEF GetByCallerRequest
<1>8. QED
  BY <1>1, <1>2, <1>7

\* What the invariant says of a table is what the handlers rely on.
LEMMA TableInvSuffices ==
  ASSUME IInv, TableInv, RequeryInv
  PROVE  TableImplementsRows
<1>1. ASSUME NEW t \in Submits
      PROVE  LET got == GetByTaskID(t) IN
             IF Present(t)
               THEN got.err = "none" /\ FromEnt(got.row) = row[t]
                    /\ got.row.request_hash = call[t].body
               ELSE IsNotFound(got.err)
  <2>1. CASE Present(t)
    <3>1. PICK r \in table : Held(r, t) /\ Query(table, [task_id |-> t]) = {r}
      BY <2>1, FoundById
    <3>2. GetByTaskID(t) = [err |-> "none", row |-> r]
      BY <3>1, OnlyOne DEF GetByTaskID
    <3>3. FromEnt(r) = row[t]
      <4>1. row[t] = [state |-> row[t].state, id |-> row[t].id, reason |-> row[t].reason]
            /\ row[t].id \in Submits \union {NoId}
        BY DEF IInv, TypeOK, Row
      <4>2. r.provider_task_id = Blank <=> row[t].id = NoId
        BY <3>1, <4>1, BlankAssumption DEF Held
      <4>3. (r.error_code = 0 <=> row[t].reason = "NONE")
            /\ (row[t].reason # "NONE" => r.error_reason = row[t].reason)
        BY <3>1 DEF Held, ErrorCode, ErrorText
      <4>4. QED
        BY <3>1, <4>1, <4>2, <4>3 DEF FromEnt, Held
    <3>4. QED
      BY <2>1, <3>1, <3>2, <3>3 DEF Held
  <2>2. CASE ~Present(t)
    <3>1. GetByTaskID(t) = [err |-> "notFound"]
      BY <2>2, FoundById, OnlyNone DEF GetByTaskID
    <3>2. QED
      BY <2>2, <3>1 DEF IsNotFound
  <2>3. QED
    BY <2>1, <2>2
<1>2. \A w \in late \union UNION {InFlight(s) : s \in Submits} : Hits(w) <=> Matches(w)
  <2>1. \A w \in late \union UNION {InFlight(s) : s \in Submits} : w \in Write /\ Justified(w)
    BY InFlightIsJustified DEF IInv, TypeOK, LateInv
  <2>2. QED
    BY <2>1, HitsIsMatches DEF IInv
<1>3. \A s \in Submits : pc[s] = "insert" =>
        Insert(s).err = "none" \/ IsConstraintError(Insert(s).err)
  BY InsertMeets DEF IsConstraintError
<1>4. \A s \in Submits : pc[s] = "requery" =>
        LET got == GetByCallerRequest(call[s].caller, call[s].request) IN
        got.err = "none" /\ Key(got.row.task_id) = Key(s) /\ Present(got.row.task_id)
  BY FoundByRequest DEF IInv
<1>5. QED
  BY <1>1, <1>2, <1>3, <1>4 DEF TableImplementsRows

-----------------------------------------------------------------------------
\* The table only adds a variable to the handlers and the provider: what is
\* shown of Spec holds of every behaviour with the table (store.go).
THEOREM TableKeepsSpec == TableSpec => Spec
<1>1. TableInit => Init
  BY DEF TableInit
<1>2. [TableNext]_tableVars => [Next]_vars
  BY DEF TableNext, tableVars, vars
<1>3. QED
  BY <1>1, <1>2, PTL DEF TableSpec, Spec

\* The inductive invariant of the table, on top of that of the handlers.
THEOREM TableInvariant == TableSpec => [](IInv /\ TableInv /\ RequeryInv)
<1>1. TableInit => IInv /\ TableInv /\ RequeryInv
  BY InitIsSafe DEF TableInit, Init, TableInv, RequeryInv, Present, Absent
<1>2. IInv /\ TableInv /\ RequeryInv /\ [TableNext]_tableVars
        => (IInv /\ TableInv /\ RequeryInv)'
  <2>1. [TableNext]_tableVars => [Next]_vars
    BY DEF TableNext, tableVars, vars
  <2>2. QED
    BY <2>1, NextIsSafe, TableStep, RequeryStep
<1>3. QED
  BY <1>1, <1>2, PTL DEF TableSpec

\* Through every race, loss and crash each statement of the store finds, misses
\* and leaves in the table what its handler supposes (store.go:86-209).
THEOREM TableIsRows == TableSpec => []TableImplementsRows
<1>1. IInv /\ TableInv /\ RequeryInv => TableImplementsRows
  BY TableInvSuffices
<1>2. QED
  BY <1>1, TableInvariant, PTL
=============================================================================
