------------------------- MODULE VideoRequestProofs -------------------------
(***************************************************************************)
(* Theorems about VideoSubmit, for every timeout, poll interval and number *)
(* of attempts: the five safety properties its run checks, all from one    *)
(* inductive invariant.  And theorems about VideoRequest, for requests     *)
(* with any parts and with words and durations of any value.  A submit of  *)
(* an order is a submit of VideoSubmit, so what is proved of those holds   *)
(* of it too; the parameters of the job it starts fit the model, and the   *)
(* texts and media of that job are the caller's.                           *)
(***************************************************************************)
EXTENDS VideoRequest, SequenceLemmas, TLAPS

-----------------------------------------------------------------------------
(* The plans.                                                              *)

\* There are five plans.
LEMMA PlanNames == DOMAIN Path = {"edit", "image", "ltx", "veo", "create"}
  BY DEF Path

\* The exchanges of an edit.
LEMMA EditSteps ==
  /\ Len(Path["edit"]) = 6
  /\ Path["edit"][1] = "source" /\ Path["edit"][2] = "start"
  /\ Path["edit"][3] = "finalize" /\ Path["edit"][4] = "active"
  /\ Path["edit"][5] = "reference" /\ Path["edit"][6] = "create"
  BY DEF Path

\* The plans that fetch one file and create.
LEMMA LoadAndCreate ==
  ASSUME NEW p \in {"image", "ltx", "veo"}
  PROVE  Len(Path[p]) = 2 /\ Path[p][1] = "source" /\ Path[p][2] = "create"
  BY DEF Path

\* The plan without media of its own.
LEMMA CreateOnly == Len(Path["create"]) = 1 /\ Path["create"][1] = "create"
  BY DEF Path

\* Every plan ends with its only create exchange, and only an edit uploads.
LEMMA PlanShape ==
  ASSUME NEW p \in DOMAIN Path, NEW i \in 1..Len(Path[p])
  PROVE  /\ Path[p][i] # "create" => i + 1 \in 1..Len(Path[p])
         /\ Path[p][i] = "create" => Len(Path[p]) = i
         /\ Path[p][i] = "finalize" => p = "edit" /\ i = 3
         /\ Path[p][i] = "active" => p = "edit" /\ i = 4
         /\ p = "edit" => i \in 1..6
         /\ p = "image" => i \in 1..2
<1>1. CASE p = "edit"
  BY <1>1, EditSteps
<1>2. CASE p \in {"image", "ltx", "veo"}
  <2>1. Len(Path[p]) = 2 /\ Path[p][1] = "source" /\ Path[p][2] = "create"
    BY <1>2, LoadAndCreate
  <2>2. i = 1 \/ i = 2
    BY <2>1
  <2>3. QED
    BY <1>2, <2>1, <2>2
<1>3. CASE p = "create"
  BY <1>3, CreateOnly
<1>4. QED
  BY <1>1, <1>2, <1>3, PlanNames

-----------------------------------------------------------------------------
(* The inductive invariant.                                                *)

\* A job exists only from the create exchange on, and while the call lasts
\* exactly when the upstream has taken the request being made.
JobInv ==
    /\ outcome = "none" => jobs = IF call = "taken" THEN 1 ELSE 0
    /\ jobs > 0 \/ call = "taken" => Step = "create"
    /\ jobs <= 1
    /\ OutcomeIsHonest

\* Past waitFileActive the file is ACTIVE, or has no name to wait for.
FileInv == plan = "edit" /\ at >= 5 => file \in {"active", "nameless"}

\* The latest moment step i of a Gemini plan can begin.
Begin(p, i, waiting) ==
    IF p = "image" THEN (IF i = 1 THEN 0 ELSE Timeout)
    ELSE IF i = 1 THEN 0
    ELSE IF i = 2 THEN Timeout
    ELSE IF i = 3 THEN 2 * Timeout
    ELSE IF i = 4 THEN waiting + Timeout + PollEvery
    ELSE IF i = 5 THEN 5 * Timeout + PollEvery
    ELSE 6 * Timeout + PollEvery

TimeInv ==
    plan \in Gemini =>
        /\ now <= Longest[plan]
        /\ plan = "edit" /\ at = 4 => since <= 3 * Timeout
        /\ outcome = "none" =>
            /\ call = "idle" => now <= Begin(plan, at, since)
            /\ call \in {"sent", "taken"} =>
                   asked <= Begin(plan, at, since) /\ now - asked <= Timeout
            /\ call = "pausing" =>
                   Step = "active" /\ asked <= since + Timeout /\ now - asked <= PollEvery

IInv == TypeOK /\ JobInv /\ FileInv /\ TimeInv

-----------------------------------------------------------------------------
(* The steps of a call change at, attempt, call and outcome in few ways.   *)

\* The index stays inside the plan.
LEMMA StepTypes ==
  ASSUME TypeOK
  PROVE  /\ plan \in DOMAIN Path /\ at \in 1..Len(Path[plan])
         /\ Step # "create" => at + 1 \in 1..Len(Path[plan])
         /\ Step = "finalize" => plan = "edit" /\ at = 3 /\ at + 2 \in 1..Len(Path[plan])
         /\ Step = "active" => plan = "edit" /\ at = 4
         /\ plan = "edit" => at \in 1..6
         /\ plan = "image" => at \in 1..2
<1>1. plan \in DOMAIN Path /\ at \in 1..Len(Path[plan])
  BY DEF TypeOK
<1>2. Step = "finalize" => at + 2 \in 1..Len(Path[plan])
  BY <1>1, PlanShape, EditSteps DEF Step
<1>3. QED
  BY <1>1, <1>2, PlanShape DEF Step

\* What an answer does: the job is known, or the call goes on without one.
LEMMA Outcome ==
  ASSUME NEW reply \in Replies \ {"ok"}
  PROVE  /\ Failure(reply) \in {"DEFINITE", "INVALID", "UNKNOWN"}
         /\ reply \in {"error", "garbled", "lost"} => Failure(reply) # "DEFINITE"
  BY DEF Failure, FromHTTP, Replies

\* A call begins with nothing sent.
LEMMA InitHolds == Init => IInv
<1> SUFFICES ASSUME Init PROVE IInv
  OBVIOUS
<1> USE ConstantsAssumption
<1>1. TypeOK
  <2>1. plan \in DOMAIN Path /\ at = 1
    BY DEF Init
  <2>2. 1 \in 1..Len(Path[plan])
    BY <2>1, EditSteps, LoadAndCreate, CreateOnly, PlanNames
  <2>3. attempt \in 1..MaxAttempts
    BY DEF Init
  <2>4. now \in Nat /\ asked \in 0..now /\ since \in 0..now /\ jobs \in Nat
    BY DEF Init
  <2>5. at \in 1..Len(Path[plan])
    BY <2>1, <2>2
  <2>6. QED
    BY <2>1, <2>3, <2>4, <2>5, Zenon DEF Init, TypeOK, Outcomes
<1>2. JobInv
  BY DEF Init, JobInv, OutcomeIsHonest
<1>3. FileInv
  BY DEF Init, FileInv
<1>4. TimeInv
  BY DEF Init, TimeInv, Begin, Gemini, Longest
<1>5. QED
  BY <1>1, <1>2, <1>3, <1>4 DEF IInv

\* Every step keeps the types: no exchange leads past the end of its plan.
LEMMA TypeInductive ==
  ASSUME TypeOK, JobInv, [Next]_vars
  PROVE  TypeOK'
<1> USE ConstantsAssumption
<1>0. plan \in DOMAIN Path /\ at \in 1..Len(Path[plan]) /\ attempt \in 1..MaxAttempts
  BY DEF TypeOK
<1>1. CASE CheckRequest
  <2>1. Step \in Loads => at + 1 \in 1..Len(Path[plan])
    BY StepTypes DEF Loads
  <2>2. QED
    BY <1>0, <1>1, <2>1 DEF TypeOK, CheckRequest, Advance, Return, Outcomes
<1>2. CASE Send
  BY <1>2 DEF TypeOK, Send
<1>3. CASE GiveUp
  BY <1>3 DEF TypeOK, GiveUp, Return, Outcomes
<1>4. CASE Answer
  <2>1. ASSUME NEW reply \in Replies \ {"ok"}, AnswerFails(reply)
        PROVE  TypeOK'
    <3>1. UNCHANGED <<plan, now, jobs, cancelled>>
      BY <1>4 DEF Answer
    <3>2. CASE Retries(reply)
      BY <2>1, <3>1, <3>2 DEF AnswerFails, Retries, TypeOK
    <3>3. CASE ~Retries(reply)
      BY <2>1, <3>1, <3>3, Outcome DEF AnswerFails, Return, TypeOK, Outcomes
    <3>4. QED
      BY <3>2, <3>3
  <2>2. CASE AnswerLoaded
    <3>1. at + 1 \in 1..Len(Path[plan])
      BY <2>2, StepTypes DEF AnswerLoaded, Loads
    <3>2. QED
      BY <1>4, <2>2, <3>1 DEF Answer, AnswerLoaded, Advance, TypeOK
  <2>3. CASE AnswerUploaded
    <3>1. at + 1 \in 1..Len(Path[plan]) /\ at + 2 \in 1..Len(Path[plan])
      BY <2>3, StepTypes DEF AnswerUploaded
    <3>2. QED
      BY <1>4, <2>3, <3>1 DEF Answer, AnswerUploaded, TypeOK
  <2>4. CASE AnswerFileState
    <3>1. at + 1 \in 1..Len(Path[plan])
      BY <2>4, StepTypes DEF AnswerFileState
    <3>2. QED
      BY <1>4, <2>4, <3>1 DEF Answer, AnswerFileState, Advance, Return, TypeOK, Outcomes
  <2>5. CASE AnswerCreated
    BY <1>4, <2>5 DEF Answer, AnswerCreated, Return, TypeOK, Outcomes
  <2>6. QED
    BY <1>4, <2>1, <2>2, <2>3, <2>4, <2>5 DEF Answer
<1>5. CASE PauseEnds
  BY <1>5 DEF TypeOK, PauseEnds
<1>6. CASE UpstreamTakesJob
  BY <1>6 DEF TypeOK, UpstreamTakesJob
<1>7. CASE UpstreamMovesFile
  BY <1>7 DEF TypeOK, UpstreamMovesFile
<1>8. CASE Cancel
  BY <1>8 DEF TypeOK, Cancel
<1>9. CASE Tick
  BY <1>9 DEF TypeOK, Tick
<1>10. CASE UNCHANGED vars
  BY <1>10 DEF TypeOK, vars
<1>11. QED
  BY <1>1, <1>2, <1>3, <1>4, <1>5, <1>6, <1>7, <1>8, <1>9, <1>10 DEF Next

\* A job appears only when the upstream takes the create exchange, which is
\* sent again only if it was not taken.
LEMMA JobInductive ==
  ASSUME TypeOK, JobInv, [Next]_vars
  PROVE  JobInv'
<1> USE DEF JobInv, OutcomeIsHonest
<1>0. jobs \in Nat
  BY DEF TypeOK
<1>1. CASE CheckRequest
  BY <1>0, <1>1 DEF CheckRequest, Advance, Return
<1>2. CASE Send
  BY <1>0, <1>2 DEF Send, Step
<1>3. CASE GiveUp
  BY <1>0, <1>3 DEF GiveUp, Return
<1>4. CASE Answer
  <2> USE <1>0
  <2>1. ASSUME NEW reply \in Replies \ {"ok"}, AnswerFails(reply)
        PROVE  JobInv'
    <3>1. UNCHANGED <<plan, jobs>> /\ outcome = "none" /\ call \in {"sent", "taken"}
      BY <1>4 DEF Answer
    <3>2. CASE Retries(reply)
      <4>1. call # "taken"
        BY <2>1, <3>2 DEF AnswerFails, Retries
      <4>2. call' = "idle" /\ outcome' = outcome
        BY <2>1, <3>2 DEF AnswerFails
      <4>3. QED
        BY <3>1, <4>1, <4>2
    <3>3. CASE ~Retries(reply)
      <4>1. outcome' = Failure(reply) /\ call' = "idle" /\ at' = at
        BY <2>1, <3>3 DEF AnswerFails, Return
      <4>2. Failure(reply) \in {"DEFINITE", "INVALID", "UNKNOWN"}
        BY Outcome
      <4>3. Failure(reply) = "DEFINITE" => jobs = 0
        <5>1. call = "taken" => Failure(reply) # "DEFINITE"
          BY <2>1, Outcome DEF AnswerFails
        <5>2. QED
          BY <3>1, <5>1
      <4>4. QED
        BY <3>1, <4>1, <4>2, <4>3 DEF Step
    <3>4. QED
      BY <3>2, <3>3
  <2>2. CASE AnswerLoaded
    BY <1>4, <2>2 DEF Answer, AnswerLoaded, Loads, Advance
  <2>3. CASE AnswerUploaded
    BY <1>4, <2>3 DEF Answer, AnswerUploaded
  <2>4. CASE AnswerFileState
    BY <1>4, <2>4 DEF Answer, AnswerFileState, Advance, Return
  <2>5. CASE AnswerCreated
    BY <1>4, <2>5 DEF Answer, AnswerCreated, Return, Step
  <2>6. QED
    BY <1>4, <2>1, <2>2, <2>3, <2>4, <2>5 DEF Answer
<1>5. CASE PauseEnds
  BY <1>0, <1>5 DEF PauseEnds
<1>6. CASE UpstreamTakesJob
  BY <1>0, <1>6 DEF UpstreamTakesJob, Step
<1>7. CASE UpstreamMovesFile
  BY <1>0, <1>7 DEF UpstreamMovesFile, Step
<1>8. CASE Cancel
  BY <1>0, <1>8 DEF Cancel, Step
<1>9. CASE Tick
  BY <1>0, <1>9 DEF Tick, Step
<1>10. CASE UNCHANGED vars
  BY <1>0, <1>10 DEF vars, Step
<1>11. QED
  BY <1>1, <1>2, <1>3, <1>4, <1>5, <1>6, <1>7, <1>8, <1>9, <1>10 DEF Next

\* The step of an edit whose file is being waited for can only end by FileReady.
LEMMA FileInductive ==
  ASSUME TypeOK, FileInv, [Next]_vars
  PROVE  FileInv'
<1> USE DEF FileInv
<1>0. plan = "edit" => /\ at \in 1..6
                       /\ at = 4 => Step = "active"
                       /\ Step = "finalize" => at = 3
                       /\ Step = "active" => at = 4
  BY StepTypes, EditSteps DEF Step
<1>1. CASE CheckRequest
  BY <1>0, <1>1 DEF CheckRequest, Advance, Return, Loads
<1>2. CASE Send
  BY <1>2 DEF Send
<1>3. CASE GiveUp
  BY <1>3 DEF GiveUp, Return
<1>4. CASE Answer
  <2>1. ASSUME NEW reply \in Replies \ {"ok"}, AnswerFails(reply)
        PROVE  FileInv'
    BY <1>4, <2>1 DEF Answer, AnswerFails, Return
  <2>2. CASE AnswerLoaded
    BY <1>0, <1>4, <2>2 DEF Answer, AnswerLoaded, Loads, Advance
  <2>3. CASE AnswerUploaded
    BY <1>0, <1>4, <2>3 DEF Answer, AnswerUploaded
  <2>4. CASE AnswerFileState
    BY <1>0, <1>4, <2>4 DEF Answer, AnswerFileState, Advance, Return, FileReady
  <2>5. CASE AnswerCreated
    BY <1>4, <2>5 DEF Answer, AnswerCreated, Return
  <2>6. QED
    BY <1>4, <2>1, <2>2, <2>3, <2>4, <2>5 DEF Answer
<1>5. CASE PauseEnds
  BY <1>5 DEF PauseEnds
<1>6. CASE UpstreamTakesJob
  BY <1>6 DEF UpstreamTakesJob
<1>7. CASE UpstreamMovesFile
  BY <1>7 DEF UpstreamMovesFile
<1>8. CASE Cancel
  BY <1>8 DEF Cancel
<1>9. CASE Tick
  BY <1>9 DEF Tick
<1>10. CASE UNCHANGED vars
  BY <1>10 DEF vars
<1>11. QED
  BY <1>1, <1>2, <1>3, <1>4, <1>5, <1>6, <1>7, <1>8, <1>9, <1>10 DEF Next

\* Where a Gemini plan can be.
LEMMA GeminiSteps ==
  ASSUME TypeOK, plan \in Gemini
  PROVE  /\ plan = "edit" \/ plan = "image"
         /\ plan = "edit" => at \in {1, 2, 3, 4, 5, 6}
         /\ plan = "image" => at \in {1, 2}
         /\ plan = "edit" /\ Step \in Loads \cup {"start"} => at \in {1, 2, 5}
         /\ plan = "image" /\ Step \in Loads \cup {"start"} => at = 1
         /\ Step = "finalize" => plan = "edit" /\ at = 3
         /\ Step = "active" <=> plan = "edit" /\ at = 4
<1>1. CASE plan = "edit"
  <2>1. at \in {1, 2, 3, 4, 5, 6}
    BY <1>1, StepTypes
  <2>2. QED
    BY <1>1, <2>1, EditSteps DEF Step, Loads
<1>2. CASE plan = "image"
  <2>1. at \in {1, 2}
    BY <1>2, StepTypes
  <2>2. QED
    BY <1>2, <2>1, LoadAndCreate DEF Step, Loads
<1>3. QED
  BY <1>1, <1>2 DEF Gemini

\* A step that has begun in time and lasts one timeout leaves time for the rest.
LEMMA BeginBounds ==
  ASSUME TypeOK, plan \in Gemini, plan = "edit" /\ at = 4 => since <= 3 * Timeout
  PROVE  /\ Begin(plan, at, since) \in Nat
         /\ Begin(plan, at, since) + Timeout <= Longest[plan]
         /\ plan = "edit" /\ at \in {1, 2, 4, 5} =>
                Begin(plan, at, since) + Timeout <= Begin(plan, at + 1, since)
         /\ plan = "edit" /\ at \in {1, 2, 5} => Begin(plan, at, since) <= Begin(plan, at + 1, since)
         /\ plan = "edit" /\ at = 3 =>
                /\ Begin(plan, at, since) + Timeout = 3 * Timeout
                /\ 3 * Timeout <= Begin(plan, 5, since)
         /\ plan = "image" /\ at = 1 => Begin(plan, at, since) + Timeout <= Begin(plan, at + 1, since)
<1> USE ConstantsAssumption
<1>0. Longest["edit"] = 7 * Timeout + PollEvery /\ Longest["image"] = 2 * Timeout
  BY DEF Longest
<1>1. CASE plan = "edit"
  <2>1. since \in Nat /\ at \in {1, 2, 3, 4, 5, 6}
    BY <1>1, GeminiSteps DEF TypeOK
  <2>2. CASE at = 4
    BY <1>0, <1>1, <2>1, <2>2 DEF Begin
  <2>3. CASE at \in {1, 2, 3}
    BY <1>0, <1>1, <2>1, <2>3 DEF Begin
  <2>4. CASE at \in {5, 6}
    BY <1>0, <1>1, <2>1, <2>4 DEF Begin
  <2>5. QED
    BY <2>1, <2>2, <2>3, <2>4
<1>2. CASE plan = "image"
  <2>1. at \in {1, 2}
    BY <1>2, GeminiSteps
  <2>2. QED
    BY <1>0, <1>2, <2>1 DEF Begin
<1>3. QED
  BY <1>1, <1>2, GeminiSteps

\* An exchange that is being made has not outlasted its timeout.
LEMMA InTime ==
  ASSUME TypeOK, TimeInv, plan \in Gemini
  PROVE  /\ Begin(plan, at, since) \in Nat /\ Timeout \in Nat /\ PollEvery \in Nat
         /\ now \in Nat /\ asked \in Nat /\ since \in Nat /\ asked <= now /\ since <= now
         /\ now <= Longest[plan] /\ Longest[plan] \in Nat
         /\ plan = "edit" /\ at = 4 => since <= 3 * Timeout
         /\ outcome = "none" /\ call = "idle" => now <= Begin(plan, at, since)
         /\ outcome = "none" /\ call \in {"sent", "taken"} =>
                now <= Begin(plan, at, since) + Timeout
<1>1. Begin(plan, at, since) \in Nat
  BY BeginBounds DEF TimeInv
<1>2. Timeout \in Nat /\ PollEvery \in Nat
  BY ConstantsAssumption
<1>3. now \in Nat /\ asked \in Nat /\ since \in Nat /\ asked <= now /\ since <= now
  BY DEF TypeOK
<1>4. Longest[plan] \in Nat
  BY <1>2 DEF Gemini, Longest
<1>5. outcome = "none" /\ call \in {"sent", "taken"} => now <= Begin(plan, at, since) + Timeout
  BY <1>1, <1>2, <1>3 DEF TimeInv
<1>6. QED
  BY <1>1, <1>2, <1>3, <1>4, <1>5 DEF TimeInv

\* The end of the call keeps what there is to keep.
LEMMA Returned ==
  ASSUME TypeOK, TimeInv, outcome' # "none", UNCHANGED <<plan, at, since, now>>
  PROVE  TimeInv'
  BY DEF TimeInv

\* The next step begins within its bound.
LEMMA Advanced ==
  ASSUME TypeOK, TimeInv, plan' = plan, now' = now, plan' \in Gemini,
         call' = "idle", now <= Begin(plan, at', since'),
         plan = "edit" /\ at' = 4 => since' <= 3 * Timeout
  PROVE  TimeInv'
  BY DEF TimeInv

\* Time passes only within an exchange or a pause, and neither lasts longer than
\* it may.
LEMMA TimeInductive ==
  ASSUME TypeOK, TimeInv, [Next]_vars
  PROVE  TimeInv'
<1>0. plan' = plan
  BY DEF Next, CheckRequest, Send, GiveUp, Answer, PauseEnds, UpstreamTakesJob,
         UpstreamMovesFile, Cancel, Tick, vars
<1> SUFFICES ASSUME plan \in Gemini PROVE TimeInv'
  BY <1>0 DEF TimeInv
<1> USE InTime
<1>1. CASE CheckRequest
  <2>1. CASE outcome' # "none"
    <3>1. UNCHANGED <<plan, at, since, now>>
      BY <1>1, <2>1 DEF CheckRequest, Advance, Return
    <3>2. QED
      BY <2>1, <3>1, Returned
  <2>2. CASE outcome' = "none"
    <3>1. Step \in Loads /\ at' = at + 1 /\ call' = "idle" /\ since' = since /\ now' = now
          /\ outcome = "none" /\ call = "idle"
      BY <1>1, <2>2 DEF CheckRequest, Advance, Return
    <3>2. Begin(plan, at, since) <= Begin(plan, at', since') /\ ~(plan = "edit" /\ at' = 4)
          /\ Begin(plan, at', since') \in Nat
      <4>1. CASE plan = "edit"
        <5>1. at \in {1, 2, 5} /\ since \in Nat
          BY <3>1, <4>1, GeminiSteps
        <5>2. QED
          BY <3>1, <4>1, <5>1, ConstantsAssumption DEF Begin
      <4>2. CASE plan = "image"
        <5>1. at = 1
          BY <3>1, <4>2, GeminiSteps
        <5>2. QED
          BY <3>1, <4>2, <5>1, ConstantsAssumption DEF Begin
      <4>3. QED
        BY <4>1, <4>2, GeminiSteps
    <3>3. QED
      BY <1>0, <3>1, <3>2, Advanced
  <2>3. QED
    BY <2>1, <2>2
<1>2. CASE Send
  <2>1. /\ outcome = "none" /\ call = "idle" /\ call' = "sent" /\ asked' = now
        /\ UNCHANGED <<plan, at, since, now, outcome>>
    BY <1>2 DEF Send
  <2>2. now - now <= Timeout
    BY ConstantsAssumption
  <2>3. QED
    BY <2>1, <2>2 DEF TimeInv
<1>3. CASE GiveUp
  BY <1>3, Returned DEF GiveUp, Return
<1>4. CASE Answer
  <2>0. outcome = "none" /\ call \in {"sent", "taken"} /\ plan' = plan /\ now' = now
        /\ now <= Begin(plan, at, since) + Timeout
    BY <1>4 DEF Answer
  <2>1. ASSUME NEW reply \in Replies \ {"ok"}, AnswerFails(reply)
        PROVE  TimeInv'
    <3>1. ~Retries(reply)
      BY DEF Retries, Gemini
    <3>2. outcome' # "none" /\ at' = at /\ since' = since
      BY <2>1, <3>1, Outcome DEF AnswerFails, Return
    <3>3. QED
      BY <2>0, <3>2, Returned
  <2>2. CASE AnswerLoaded
    <3>1. Step \in Loads \cup {"start"} /\ at' = at + 1 /\ call' = "idle" /\ since' = since
      BY <2>2 DEF AnswerLoaded, Advance
    <3>2. Begin(plan, at, since) + Timeout <= Begin(plan, at', since')
          /\ Begin(plan, at', since') \in Nat /\ ~(plan = "edit" /\ at' = 4)
      <4>1. CASE plan = "edit"
        <5>1. at \in {1, 2, 5} /\ since \in Nat
          BY <3>1, <4>1, GeminiSteps
        <5>2. QED
          BY <3>1, <4>1, <5>1, ConstantsAssumption DEF Begin
      <4>2. CASE plan = "image"
        <5>1. at = 1
          BY <3>1, <4>2, GeminiSteps
        <5>2. QED
          BY <3>1, <4>2, <5>1, ConstantsAssumption DEF Begin
      <4>3. QED
        BY <4>1, <4>2, GeminiSteps
    <3>3. now <= Begin(plan, at', since')
      BY <2>0, <3>2
    <3>4. QED
      BY <1>0, <2>0, <3>1, <3>2, <3>3, Advanced
  <2>3. CASE AnswerUploaded
    <3>1. plan = "edit" /\ at = 3 /\ at' \in {4, 5} /\ call' = "idle" /\ since' = now
      BY <2>3, GeminiSteps DEF AnswerUploaded
    <3>2. Begin(plan, at, since) = 2 * Timeout
      BY <3>1 DEF Begin
    <3>3. now <= 3 * Timeout
      BY <2>0, <3>2
    <3>4. now <= Begin(plan, at', since')
      <4>1. CASE at' = 4
        BY <3>1, <4>1 DEF Begin
      <4>2. CASE at' = 5
        BY <3>1, <3>3, <4>2 DEF Begin
      <4>3. QED
        BY <3>1, <4>1, <4>2
    <3>5. QED
      BY <1>0, <2>0, <3>1, <3>3, <3>4, Advanced
  <2>4. CASE AnswerFileState
    <3>1. plan = "edit" /\ at = 4 /\ Step = "active" /\ since' = since
      BY <2>4, GeminiSteps DEF AnswerFileState
    <3>2. CASE FileReady(file)
      <4>1. at' = 5 /\ call' = "idle"
        BY <2>4, <3>1, <3>2 DEF AnswerFileState, Advance
      <4>2. Begin(plan, at, since) + Timeout <= Begin(plan, at', since')
        BY <3>1, <4>1 DEF Begin
      <4>3. Begin(plan, at', since') \in Nat
        BY <3>1, <4>1 DEF Begin
      <4>4. QED
        BY <1>0, <2>0, <3>1, <4>1, <4>2, <4>3, Advanced
    <3>3. CASE ~FileReady(file) /\ (file = "failed" \/ WaitExpired)
      BY <2>0, <2>4, <3>1, <3>3, Returned DEF AnswerFileState, Return
    <3>4. CASE ~FileReady(file) /\ ~(file = "failed" \/ WaitExpired)
      <4>1. call' = "pausing" /\ asked' = now /\ at' = at /\ outcome' = outcome
        BY <2>4, <3>4 DEF AnswerFileState
      <4>2. now <= since + Timeout
        BY <3>4 DEF WaitExpired
      <4>3. Step' = "active" /\ now - now <= PollEvery
        BY <2>0, <3>1, <4>1 DEF Step
      <4>4. QED
        BY <1>0, <2>0, <3>1, <4>1, <4>2, <4>3 DEF TimeInv
    <3>5. QED
      BY <3>2, <3>3, <3>4
  <2>5. CASE AnswerCreated
    BY <2>0, <2>5, Returned DEF AnswerCreated, Return
  <2>6. QED
    BY <1>4, <2>1, <2>2, <2>3, <2>4, <2>5 DEF Answer
<1>5. CASE PauseEnds
  <2>1. /\ outcome = "none" /\ call = "pausing" /\ call' = "idle"
        /\ UNCHANGED <<plan, at, since, now, asked, outcome>>
    BY <1>5 DEF PauseEnds
  <2>2. Step = "active" /\ asked <= since + Timeout /\ now - asked <= PollEvery
    BY <2>1 DEF TimeInv
  <2>3. plan = "edit" /\ at = 4
    BY <2>2, GeminiSteps
  <2>4. Begin(plan, at', since') = since + Timeout + PollEvery
    BY <2>1, <2>3 DEF Begin
  <2>5. now <= since + Timeout + PollEvery
    BY <2>2
  <2>6. QED
    BY <2>1, <2>3, <2>4, <2>5, Advanced
<1>6. CASE UpstreamTakesJob
  <2>1. outcome = "none" /\ call = "sent" /\ call' = "taken"
        /\ UNCHANGED <<plan, at, since, now, asked, outcome>>
    BY <1>6 DEF UpstreamTakesJob
  <2>2. QED
    BY <2>1 DEF TimeInv
<1>7. CASE UpstreamMovesFile
  BY <1>7 DEF UpstreamMovesFile, TimeInv, Step
<1>8. CASE Cancel
  BY <1>8 DEF Cancel, TimeInv, Step
<1>9. CASE Tick
  <2>1. /\ outcome = "none" /\ now' = now + 1
        /\ UNCHANGED <<plan, at, since, asked, call, outcome>>
    BY <1>9 DEF Tick
  <2>2. plan = "edit" /\ at = 4 => since <= 3 * Timeout
    OBVIOUS
  <2>3. CASE call \in {"sent", "taken"}
    <3>1. now - asked < Timeout /\ asked <= Begin(plan, at, since)
      BY <1>9, <2>1, <2>3 DEF Tick, TimeInv
    <3>2. now + 1 <= Begin(plan, at, since) + Timeout /\ (now + 1) - asked <= Timeout
      BY <3>1
    <3>3. Begin(plan, at, since) + Timeout <= Longest[plan]
      BY <2>2, BeginBounds
    <3>4. now + 1 <= Longest[plan]
      BY <3>2, <3>3
    <3>5. QED
      BY <2>1, <2>2, <2>3, <3>1, <3>2, <3>4 DEF TimeInv
  <2>4. CASE call = "pausing"
    <3>1. Step = "active" /\ asked <= since + Timeout /\ now - asked < PollEvery
      BY <1>9, <2>1, <2>4 DEF Tick, TimeInv
    <3>2. plan = "edit" /\ at = 4
      BY <3>1, GeminiSteps
    <3>3. (now + 1) - asked <= PollEvery
      BY <3>1
    <3>4. now + 1 <= since + Timeout + PollEvery
      BY <3>1, <3>3
    <3>5. now + 1 <= Longest[plan]
      <4>1. Longest[plan] = 7 * Timeout + PollEvery
        BY <3>2 DEF Longest
      <4>2. QED
        BY <2>2, <3>2, <3>4, <4>1
    <3>6. Step' = "active"
      BY <2>1, <3>1 DEF Step
    <3>7. QED
      BY <2>1, <2>2, <2>4, <3>1, <3>3, <3>5, <3>6 DEF TimeInv
  <2>5. QED
    BY <1>9, <2>3, <2>4 DEF Tick
<1>10. CASE UNCHANGED vars
  BY <1>10 DEF vars, TimeInv, Step
<1>11. QED
  BY <1>1, <1>2, <1>3, <1>4, <1>5, <1>6, <1>7, <1>8, <1>9, <1>10 DEF Next

-----------------------------------------------------------------------------
(* The theorems.                                                           *)

\* The strengthened invariant holds in every reachable state.
THEOREM InductiveInvariant == Spec => []IInv
<1>1. IInv /\ [Next]_vars => IInv'
  BY TypeInductive, JobInductive, FileInductive, TimeInductive DEF IInv
<1>2. QED
  BY InitHolds, <1>1, PTL DEF Spec

\* Every variable keeps its type: no plan is overrun, no attempt is one too many.
THEOREM TypeCorrect == Spec => []TypeOK
<1>1. IInv => TypeOK
  BY DEF IInv
<1>2. QED
  BY InductiveInvariant, <1>1, PTL

\* SubmitVideo starts at most one upstream job, however often ltx tries.
THEOREM OneJob == Spec => []AtMostOneJob
<1>1. IInv => AtMostOneJob
  BY DEF IInv, JobInv, AtMostOneJob
<1>2. QED
  BY InductiveInvariant, <1>1, PTL

\* An id stands for one job, and a definite failure for none.
THEOREM HonestOutcome == Spec => []OutcomeIsHonest
<1>1. IInv => OutcomeIsHonest
  BY DEF IInv, JobInv
<1>2. QED
  BY InductiveInvariant, <1>1, PTL

\* waitFileActive stands between the upload and the interaction.
THEOREM ActiveFile == Spec => []JobNeedsActiveFile
<1>1. IInv => JobNeedsActiveFile
  <2> SUFFICES ASSUME IInv, plan = "edit", jobs > 0
               PROVE  file \in {"active", "nameless"}
    BY DEF JobNeedsActiveFile
  <2>1. TypeOK /\ Step = "create"
    BY DEF IInv, JobInv
  <2>2. Len(Path[plan]) = at
    BY <2>1, StepTypes, PlanShape DEF Step
  <2>3. at = 6
    BY <2>2, EditSteps
  <2>4. QED
    BY <2>3 DEF IInv, FileInv
<1>2. QED
  BY InductiveInvariant, <1>1, PTL

\* A Gemini submit lasts no longer than its exchanges, whatever the timeouts are.
THEOREM BoundedSubmit == Spec => []SubmitIsBounded
<1>1. IInv => SubmitIsBounded
  BY DEF IInv, TimeInv, SubmitIsBounded
<1>2. QED
  BY InductiveInvariant, <1>1, PTL

-----------------------------------------------------------------------------
(* VideoRequest implements VideoSubmit.                                    *)

\* A step for an order is a step of a submit, or changes nothing of it.
LEMMA OrderStep == [RequestNext]_requestVars => [Next]_vars
<1>1. CASE CheckOrder
  BY <1>1 DEF CheckOrder, Next
<1>2. CASE SendOrder
  BY <1>2 DEF SendOrder, Next
<1>3. CASE GiveUpOrder
  BY <1>3 DEF GiveUpOrder, Next
<1>4. CASE UNCHANGED requestVars
  BY <1>4 DEF requestVars, vars
<1>5. QED
  BY <1>1, <1>2, <1>3, <1>4 DEF RequestNext, Next

\* A submit of an order is a submit, with its fairness (VideoSubmit's Spec).
THEOREM RequestImplementsSubmit == RequestSpec => Spec
<1>1. RequestInit => Init
  BY DEF RequestInit
<1>2. QED
  BY <1>1, OrderStep, PTL DEF RequestSpec, Spec

\* Hence every request starts at most one upstream job (ltx/provider.go).
THEOREM RequestStartsOneJob == RequestSpec => []AtMostOneJob
  BY RequestImplementsSubmit, OneJob, PTL

\* Hence what it returns is true of the job it started (provider/error.go).
THEOREM RequestOutcomeIsHonest == RequestSpec => []OutcomeIsHonest
  BY RequestImplementsSubmit, HonestOutcome, PTL

-----------------------------------------------------------------------------
(* The order of a submit and the body of its create.                       *)

\* A create that is under way carries the body of the order, and so did the one
\* a job was taken for; no exchange is made for an order that is refused.
BodyInv ==
  /\ order \in Orders
  /\ at > 1 \/ call # "idle" \/ jobs > 0 => ~Refused(order)
  /\ call \in {"sent", "taken"} /\ Step = "create" => body = Body(order)
  /\ jobs > 0 => body = Body(order)

\* An answer ends the exchange.
LEMMA AnswerEndsExchange ==
  ASSUME Answer
  PROVE  /\ call \in {"sent", "taken"} /\ call' \in {"idle", "pausing"}
         /\ UNCHANGED <<plan, jobs>>
<1>1. CASE \E reply \in Replies \ {"ok"} : AnswerFails(reply)
  BY <1>1 DEF Answer, AnswerFails, Return
<1>2. CASE AnswerLoaded \/ AnswerUploaded \/ AnswerFileState \/ AnswerCreated
  BY <1>2 DEF Answer, AnswerLoaded, AnswerUploaded, AnswerFileState, AnswerCreated, Advance, Return
<1>3. QED
  BY <1>1, <1>2 DEF Answer

\* At the start no create has been made.
LEMMA BodyInit == RequestInit => BodyInv
  BY DEF RequestInit, Init, BodyInv

\* Every step of the call keeps the body and the order together.
LEMMA BodyStep ==
  ASSUME TypeOK, BodyInv, [RequestNext]_requestVars
  PROVE  BodyInv'
<1> USE DEF BodyInv
<1>0. at \in Nat /\ at >= 1 /\ jobs \in Nat
  BY StepTypes DEF TypeOK
<1>1. CASE CheckOrder
  <2>1. /\ call = "idle" /\ call' = "idle" /\ UNCHANGED <<jobs, order, body>>
        /\ outcome = "none"
        /\ at' = at \/ (at' = at + 1 /\ outcome' = outcome)
    BY <1>1 DEF CheckOrder, CheckRequest, Advance, Return
  <2>2. at' # at => ~Refused(order)
    BY <1>0, <1>1, <2>1 DEF CheckOrder, Refusal
  <2>3. QED
    BY <1>0, <2>1, <2>2
<1>2. CASE SendOrder
  <2>1. /\ call = "idle" /\ call' = "sent" /\ UNCHANGED <<plan, at, jobs, order>>
        /\ body' = IF Step = "create" THEN Body(order) ELSE body
    BY <1>2 DEF SendOrder, Send
  <2>2. ~Refused(order)
    BY <1>0, <1>2 DEF SendOrder, NeedsExchange, Refusal
  <2>3. QED
    BY <2>1, <2>2 DEF Step
<1>3. CASE GiveUpOrder
  BY <1>0, <1>3 DEF GiveUpOrder, GiveUp, Return
<1>4. CASE Answer /\ UNCHANGED <<order, body>>
  BY <1>0, <1>4, AnswerEndsExchange
<1>5. CASE PauseEnds /\ UNCHANGED <<order, body>>
  BY <1>5 DEF PauseEnds
<1>6. CASE UpstreamTakesJob /\ UNCHANGED <<order, body>>
  BY <1>0, <1>6 DEF UpstreamTakesJob, Step
<1>7. CASE (UpstreamMovesFile \/ Cancel \/ Tick) /\ UNCHANGED <<order, body>>
  BY <1>7 DEF UpstreamMovesFile, Cancel, Tick, Step
<1>8. CASE UNCHANGED requestVars
  BY <1>8 DEF requestVars, vars, Step
<1>9. QED
  BY <1>1, <1>2, <1>3, <1>4, <1>5, <1>6, <1>7, <1>8 DEF RequestNext

-----------------------------------------------------------------------------
(* What the fitted parameters are.                                         *)

\* A parameter is taken by the model, and the wish is kept where it is taken.
Fits(o, params) ==
  \A field \in {"resolution", "duration", "ratio"} :
    /\ params[field] \in TakenBy(o)[field]
    /\ o.wish[field] \in TakenBy(o)[field] => params[field] = o.wish[field]

\* Parameters fit when each of them does.
LEMMA FitsByField ==
  ASSUME NEW o, NEW rs, NEW ds, NEW as, TakenBy(o) = Values(rs, ds, as),
         NEW r \in rs, NEW d \in ds, NEW a \in as,
         o.wish.resolution \in rs => r = o.wish.resolution,
         o.wish.duration \in ds => d = o.wish.duration,
         o.wish.ratio \in as => a = o.wish.ratio
  PROVE  Fits(o, Params(r, d, a))
<1> DEFINE params == Params(r, d, a)
<1>1. params.resolution = r /\ params.duration = d /\ params.ratio = a
  BY DEF Params
<1>2. /\ TakenBy(o).resolution = rs /\ TakenBy(o).duration = ds /\ TakenBy(o).ratio = as
  BY DEF Values
<1>3. ASSUME NEW field \in {"resolution", "duration", "ratio"}
      PROVE  /\ params[field] \in TakenBy(o)[field]
             /\ o.wish[field] \in TakenBy(o)[field] => params[field] = o.wish[field]
  <2> HIDE DEF params
  <2>1. CASE field = "resolution"
    BY <1>1, <1>2, <2>1
  <2>2. CASE field = "duration"
    BY <1>1, <1>2, <2>2
  <2>3. CASE field = "ratio"
    BY <1>1, <1>2, <2>3
  <2>4. QED
    BY <2>1, <2>2, <2>3
<1>4. QED
  BY <1>3 DEF Fits

\* Snapping to 5 or 10.
LEMMA SnapFits ==
  ASSUME NEW v \in Int
  PROVE  /\ Snap(v, 5, 10) \in {5, 10}
         /\ v \in {5, 10} => Snap(v, 5, 10) = v
  BY DEF Snap, Distance

-----------------------------------------------------------------------------
(* The families of models.                                                 *)

Models == OminiLink \union Ark \union LTX \union GeminiModels \union DashScope

Wishes == [resolution : STRING, duration : Int, ratio : STRING]

Lite == "veo-3.1-lite-generate-001"
Full == "dreamina-seedance-2-0"
Fast == "viduq3-pro-fast"

\* What each model takes: the families exclude one another.
LEMMA TakenByModel ==
  ASSUME NEW o
  PROVE  /\ o.model = Lite => TakenBy(o) = Values({"720p", "1080p"}, {4, 6, 8}, {"16:9", "9:16"})
         /\ o.model \in Veo \ {Lite} =>
              TakenBy(o) = Values({"720p", "1080p", "4k"}, {4, 6, 8}, {"16:9", "9:16"})
         /\ o.model = Full =>
              TakenBy(o) = Values({"480p", "720p", "1080p", "4k"}, 4..15, Ratios)
         /\ o.model \in Seedance \ {Full} => TakenBy(o) = Values({"480p", "720p"}, 4..15, Ratios)
         /\ o.model \in KlingV3 => TakenBy(o) = Values({"720p", "1080p", "4k"}, 3..15, {Unset})
         /\ o.model \in Kling \ KlingV3 =>
              TakenBy(o) = Values({"720p", "1080p"}, {5, 10}, {Unset})
         /\ o.model = Fast => TakenBy(o) = Values({"720p", "1080p"}, 1..16, {Unset})
         /\ o.model \in Vidu \ {Fast} =>
              TakenBy(o) = Values({"540p", "720p", "1080p"}, 1..16, {Unset})
         /\ o.model \in Ark =>
              TakenBy(o) = Values({"480p", "720p", "1080p"}, {-1} \union 4..30,
                                  IF HasImage(o) THEN {"adaptive"} ELSE Ratios)
         /\ o.model \in GeminiModels =>
              TakenBy(o) = IF HasVideo(o) THEN Values({Unset}, {0}, {Unset})
                             ELSE Values({Unset}, 3..10, {"16:9", "9:16"})
         /\ o.model \in LTX => TakenBy(o) = Values({"480p", "720p", "1080p"}, {0}, {Unset})
         /\ o.model = Wan27VideoEdit => TakenBy(o) = Values({"720p", "1080p"}, {0}, {Unset})
         /\ o.model \in DashScopeKling =>
              TakenBy(o) = Values({"720p", "1080p"}, Nat \ {0}, {Unset})
         /\ o.model \in OlderWanI2V =>
              TakenBy(o) = Values({"480p", o.wish.resolution} \ {Unset}, Nat, {Unset})
         /\ o.model \in Wan27I2V \union HappyHorseI2V =>
              TakenBy(o) = Values({"720p", "1080p"}, Nat, {Unset})
  BY DEF TakenBy, Lite, Full, Fast, Veo, Seedance, KlingV3, Kling, Vidu, Ark, GeminiModels, LTX,
     Wan27VideoEdit, DashScopeKling, OlderWanI2V, Wan27I2V, HappyHorseI2V

\* The function that fits the parameters for each family.
LEMMA ParamsByModel ==
  ASSUME NEW o
  PROVE  /\ o.model \in Ark => ParamsOf(o) = ArkParams(o.wish, HasImage(o))
         /\ o.model \in OminiLinkFamilies => ParamsOf(o) = OminiLinkParams(o.model, o.wish)
         /\ o.model \in DashScope => ParamsOf(o) = DashScopeParams(o.model, o.wish)
         /\ o.model \in GeminiModels => ParamsOf(o) = GeminiParams(o.wish, HasVideo(o))
         /\ o.model \in LTX => ParamsOf(o) = LtxParams(o.wish)
  BY DEF ParamsOf, OminiLinkFamilies, Veo, Seedance, Kling, Vidu, Ark, GeminiModels, LTX, DashScope,
     Wan27VideoEdit, DashScopeKling, OlderWanI2V, Wan27I2V, HappyHorseI2V

\* The wish by its fields.
LEMMA WishFields ==
  ASSUME NEW w \in Wishes
  PROVE  /\ w = [resolution |-> w.resolution, duration |-> w.duration, ratio |-> w.ratio]
         /\ w.resolution \in STRING /\ w.duration \in Int /\ w.ratio \in STRING
  BY DEF Wishes

\* A duration that was not given, and what a DashScope create leaves out.
Duration(w) == IF w.duration <= 0 THEN 5 ELSE w.duration
Ratio(w)    == IF w.ratio = Unset THEN "3:4" ELSE w.ratio

\* The duration a wish stands for.
LEMMA DurationOfWish ==
  ASSUME NEW w \in Wishes
  PROVE  /\ Duration(w) \in Int /\ Duration(w) > 0
         /\ w.duration > 0 => Duration(w) = w.duration
  BY DEF Duration, Wishes

\* OminiLink's four families.
LEMMA OminiLinkByModel ==
  ASSUME NEW m, NEW w
  PROVE  /\ m \in Veo =>
              OminiLinkParams(m, w) = VeoParams(m, w.resolution, Duration(w), Ratio(w))
         /\ m \in Seedance =>
              OminiLinkParams(m, w) = SeedanceParams(m, w.resolution, Duration(w), Ratio(w))
         /\ m \in Kling => OminiLinkParams(m, w) = KlingParams(m, w.resolution, Duration(w))
         /\ m \in Vidu => OminiLinkParams(m, w) = ViduParams(m, w.resolution, Duration(w))
  BY DEF OminiLinkParams, Duration, Ratio, Veo, Seedance, Kling, Vidu

\* DashScope's.
LEMMA DashScopeByModel ==
  ASSUME NEW m, NEW w
  PROVE  /\ m \in DashScopeKling =>
              DashScopeParams(m, w) = Params(OneOf(w.resolution, {"1080p"}, "720p"), Duration(w), Unset)
         /\ m \in Wan27I2V \union HappyHorseI2V =>
              DashScopeParams(m, w) =
                Params(OneOf(w.resolution, {"720p", "1080p"}, "720p"), SentDuration(w), Unset)
         /\ m \in OlderWanI2V =>
              DashScopeParams(m, w) =
                Params(IF w.resolution = Unset THEN "480p" ELSE w.resolution, SentDuration(w), Unset)
         /\ m = Wan27VideoEdit =>
              DashScopeParams(m, w) =
                Params(OneOf(w.resolution, {"720p", "1080p"}, "720p"), 0, Unset)
  BY DEF DashScopeParams, Duration, Wan27VideoEdit, DashScopeKling, OlderWanI2V, Wan27I2V,
     HappyHorseI2V

-----------------------------------------------------------------------------
(* Each family fits.                                                       *)

\* Veo: three durations and two ratios, and no 4k of the lite model.
LEMMA VeoFits ==
  ASSUME NEW o, o.model \in Veo, o.wish \in Wishes
  PROVE  Fits(o, ParamsOf(o))
<1> DEFINE w == o.wish
           rs == IF o.model = Lite THEN {"720p", "1080p"} ELSE {"720p", "1080p", "4k"}
           ds == {4, 6, 8}
           as == {"16:9", "9:16"}
           r == IF w.resolution = "4k" /\ o.model = Lite THEN "1080p"
                  ELSE OneOf(w.resolution, {"1080p", "4k"}, "720p")
           d == IF Duration(w) <= 5 THEN 4 ELSE IF Duration(w) <= 7 THEN 6 ELSE 8
           a == VeoAspectRatio(Ratio(w))
<1>1. ParamsOf(o) = Params(r, d, a)
  BY ParamsByModel, OminiLinkByModel DEF VeoParams, OminiLinkFamilies, Lite
<1>2. TakenBy(o) = Values(rs, ds, as)
  BY TakenByModel DEF Lite, Veo
<1>3. r \in rs /\ (w.resolution \in rs => r = w.resolution)
  BY DEF OneOf
<1>4. d \in ds /\ (w.duration \in ds => d = w.duration)
  BY WishFields DEF Duration
<1>5. a \in as /\ (w.ratio \in as => a = w.ratio)
  BY DEF VeoAspectRatio, Ratio, Unset
<1> HIDE DEF w, rs, ds, as, r, d, a
<1>6. QED
  BY <1>1, <1>2, <1>3, <1>4, <1>5, FitsByField DEF w

\* Seedance: mini and fast have two resolutions.
LEMMA SeedanceFits ==
  ASSUME NEW o, o.model \in Seedance, o.wish \in Wishes
  PROVE  Fits(o, ParamsOf(o))
<1> DEFINE w == o.wish
           rs == IF o.model \in MiniOrFast THEN {"480p", "720p"} ELSE {"480p", "720p", "1080p", "4k"}
           ds == 4..15
           as == Ratios
           r == OneOf(w.resolution, rs, "720p")
           d == Clamp(Duration(w), 4, 15)
           a == OneOf(Ratio(w), Ratios, "3:4")
<1>1. ParamsOf(o) = Params(r, d, a)
  BY ParamsByModel, OminiLinkByModel DEF SeedanceParams, OminiLinkFamilies, Ratios
<1>2. TakenBy(o) = Values(rs, ds, as)
  BY TakenByModel DEF Seedance, MiniOrFast, Full
<1>3. r \in rs /\ (w.resolution \in rs => r = w.resolution)
  BY DEF OneOf
<1>4. d \in ds /\ (w.duration \in ds => d = w.duration)
  <2>1. Duration(w) \in Int /\ (w.duration > 0 => Duration(w) = w.duration)
    BY DurationOfWish
  <2>2. w.duration \in Int
    BY WishFields
  <2>3. /\ Clamp(Duration(w), 4, 15) \in 4..15
        /\ Duration(w) \in 4..15 => Clamp(Duration(w), 4, 15) = Duration(w)
    BY <2>1 DEF Clamp
  <2>4. QED
    BY <2>1, <2>2, <2>3
<1>5. a \in as /\ (w.ratio \in as => a = w.ratio)
  BY DEF OneOf, Ratio, Ratios, Unset
<1> HIDE DEF w, rs, ds, as, r, d, a
<1>6. QED
  BY <1>1, <1>2, <1>3, <1>4, <1>5, FitsByField DEF w

\* Kling from v3 on: any duration from 3 to 15.
LEMMA KlingV3Fits ==
  ASSUME NEW o, o.model \in KlingV3, o.wish \in Wishes
  PROVE  Fits(o, ParamsOf(o))
<1> DEFINE w == o.wish
           rs == {"720p", "1080p", "4k"}
           ds == 3..15
           as == {Unset}
           r == OneOf(w.resolution, {"1080p", "4k"}, "720p")
           d == Clamp(Duration(w), 3, 15)
           a == Unset
<1>1. ParamsOf(o) = Params(r, d, a)
  BY ParamsByModel, OminiLinkByModel DEF KlingParams, OminiLinkFamilies, Kling, KlingV3
<1>2. TakenBy(o) = Values(rs, ds, as)
  BY TakenByModel
<1>3. r \in rs /\ (w.resolution \in rs => r = w.resolution)
  BY DEF OneOf
<1>4. d \in ds /\ (w.duration \in ds => d = w.duration)
  <2>1. Duration(w) \in Int /\ (w.duration > 0 => Duration(w) = w.duration)
    BY DurationOfWish
  <2>2. w.duration \in Int
    BY WishFields
  <2>3. /\ Clamp(Duration(w), 3, 15) \in 3..15
        /\ Duration(w) \in 3..15 => Clamp(Duration(w), 3, 15) = Duration(w)
    BY <2>1 DEF Clamp
  <2>4. QED
    BY <2>1, <2>2, <2>3
<1>5. a \in as /\ (w.ratio \in as => a = w.ratio)
  OBVIOUS
<1> HIDE DEF w, rs, ds, as, r, d, a
<1>6. QED
  BY <1>1, <1>2, <1>3, <1>4, <1>5, FitsByField DEF w

\* Kling before v3: 5 or 10, and no 4k.
LEMMA OlderKlingFits ==
  ASSUME NEW o, o.model \in Kling \ KlingV3, o.wish \in Wishes
  PROVE  Fits(o, ParamsOf(o))
<1> DEFINE w == o.wish
           rs == {"720p", "1080p"}
           ds == {5, 10}
           as == {Unset}
           r == IF w.resolution \in {"1080p", "4k"} THEN "1080p" ELSE "720p"
           d == Snap(Duration(w), 5, 10)
           a == Unset
<1>1. ParamsOf(o) = Params(r, d, a)
  BY ParamsByModel, OminiLinkByModel DEF KlingParams, OminiLinkFamilies
<1>2. TakenBy(o) = Values(rs, ds, as)
  BY TakenByModel
<1>3. r \in rs /\ (w.resolution \in rs => r = w.resolution)
  OBVIOUS
<1>4. d \in ds /\ (w.duration \in ds => d = w.duration)
  <2>1. Duration(w) \in Int /\ (w.duration > 0 => Duration(w) = w.duration)
    BY DurationOfWish
  <2>2. w.duration \in Int
    BY WishFields
  <2>3. /\ Snap(Duration(w), 5, 10) \in {5, 10}
        /\ Duration(w) \in {5, 10} => Snap(Duration(w), 5, 10) = Duration(w)
    BY <2>1, SnapFits
  <2>4. QED
    BY <2>1, <2>2, <2>3
<1>5. a \in as /\ (w.ratio \in as => a = w.ratio)
  OBVIOUS
<1> HIDE DEF w, rs, ds, as, r, d, a
<1>6. QED
  BY <1>1, <1>2, <1>3, <1>4, <1>5, FitsByField DEF w

\* Vidu: pro-fast has no 540p.
LEMMA ViduFits ==
  ASSUME NEW o, o.model \in Vidu, o.wish \in Wishes
  PROVE  Fits(o, ParamsOf(o))
<1> DEFINE w == o.wish
           rs == IF o.model = Fast THEN {"720p", "1080p"} ELSE {"540p", "720p", "1080p"}
           ds == 1..16
           as == {Unset}
           r == OneOf(w.resolution, IF o.model = Fast THEN {"1080p"} ELSE {"540p", "720p", "1080p"}, "720p")
           d == Clamp(Duration(w), 1, 16)
           a == Unset
<1>1. ParamsOf(o) = Params(r, d, a)
  BY ParamsByModel, OminiLinkByModel DEF ViduParams, OminiLinkFamilies, Fast
<1>2. TakenBy(o) = Values(rs, ds, as)
  BY TakenByModel DEF Vidu, Fast
<1>3. r \in rs /\ (w.resolution \in rs => r = w.resolution)
  BY DEF OneOf
<1>4. d \in ds /\ (w.duration \in ds => d = w.duration)
  <2>1. Duration(w) \in Int /\ (w.duration > 0 => Duration(w) = w.duration)
    BY DurationOfWish
  <2>2. w.duration \in Int
    BY WishFields
  <2>3. /\ Clamp(Duration(w), 1, 16) \in 1..16
        /\ Duration(w) \in 1..16 => Clamp(Duration(w), 1, 16) = Duration(w)
    BY <2>1 DEF Clamp
  <2>4. QED
    BY <2>1, <2>2, <2>3
<1>5. a \in as /\ (w.ratio \in as => a = w.ratio)
  OBVIOUS
<1> HIDE DEF w, rs, ds, as, r, d, a
<1>6. QED
  BY <1>1, <1>2, <1>3, <1>4, <1>5, FitsByField DEF w

\* Ark: no 4k, -1 as it is, and an adaptive ratio with a first frame.
LEMMA ArkFits ==
  ASSUME NEW o, o.model \in Ark, o.wish \in Wishes
  PROVE  Fits(o, ParamsOf(o))
<1> DEFINE w == o.wish
           rs == {"480p", "720p", "1080p"}
           ds == {-1} \union 4..30
           as == IF HasImage(o) THEN {"adaptive"} ELSE Ratios
           r == CASE w.resolution \in {"480p", "720p", "1080p"} -> w.resolution
                  [] w.resolution = "4k" -> "1080p"
                  [] OTHER -> "720p"
           d == CASE w.duration = -1 -> -1
                  [] w.duration <= 0 /\ w.duration # -1 -> 5
                  [] OTHER -> Clamp(w.duration, 4, 30)
           a == IF HasImage(o) THEN "adaptive"
                  ELSE OneOf(w.ratio, Ratios, "16:9")
<1>1. ParamsOf(o) = Params(r, d, a)
  BY ParamsByModel DEF ArkParams, Ratios
<1>2. TakenBy(o) = Values(rs, ds, as)
  BY TakenByModel
<1>3. r \in rs /\ (w.resolution \in rs => r = w.resolution)
  OBVIOUS
<1>4. d \in ds /\ (w.duration \in ds => d = w.duration)
  <2>1. w.duration \in Int
    BY WishFields
  <2>2. w.duration \in Int
    BY WishFields
  <2>3. /\ Clamp(w.duration, 4, 30) \in 4..30
        /\ w.duration \in 4..30 => Clamp(w.duration, 4, 30) = w.duration
    BY <2>1 DEF Clamp
  <2>4. QED
    BY <2>1, <2>2, <2>3
<1>5. a \in as /\ (w.ratio \in as => a = w.ratio)
  BY DEF OneOf, Ratios
<1> HIDE DEF w, rs, ds, as, r, d, a
<1>6. QED
  BY <1>1, <1>2, <1>3, <1>4, <1>5, FitsByField DEF w

\* Gemini: an edit is sent no parameter.
LEMMA GeminiFits ==
  ASSUME NEW o, o.model \in GeminiModels, o.wish \in Wishes
  PROVE  Fits(o, ParamsOf(o))
<1> DEFINE w == o.wish
           rs == {Unset}
           ds == IF HasVideo(o) THEN {0} ELSE 3..10
           as == IF HasVideo(o) THEN {Unset} ELSE {"16:9", "9:16"}
           r == Unset
           d == IF HasVideo(o) THEN 0 ELSE IF w.duration <= 0 THEN 5 ELSE Clamp(w.duration, 3, 10)
           a == IF HasVideo(o) THEN Unset ELSE OneOf(w.ratio, {"16:9", "9:16"}, "9:16")
<1>1. ParamsOf(o) = Params(r, d, a)
  BY ParamsByModel DEF GeminiParams
<1>2. TakenBy(o) = Values(rs, ds, as)
  BY TakenByModel
<1>3. r \in rs /\ (w.resolution \in rs => r = w.resolution)
  OBVIOUS
<1>4. d \in ds /\ (w.duration \in ds => d = w.duration)
  <2>1. w.duration \in Int
    BY WishFields
  <2>2. w.duration \in Int
    BY WishFields
  <2>3. /\ Clamp(w.duration, 3, 10) \in 3..10
        /\ w.duration \in 3..10 => Clamp(w.duration, 3, 10) = w.duration
    BY <2>1 DEF Clamp
  <2>4. QED
    BY <2>1, <2>2, <2>3
<1>5. a \in as /\ (w.ratio \in as => a = w.ratio)
  BY DEF OneOf
<1> HIDE DEF w, rs, ds, as, r, d, a
<1>6. QED
  BY <1>1, <1>2, <1>3, <1>4, <1>5, FitsByField DEF w

\* LTX: the resolution only.
LEMMA LtxFits ==
  ASSUME NEW o, o.model \in LTX, o.wish \in Wishes
  PROVE  Fits(o, ParamsOf(o))
<1> DEFINE w == o.wish
           rs == {"480p", "720p", "1080p"}
           ds == {0}
           as == {Unset}
           r == OneOf(w.resolution, {"480p", "720p", "1080p"}, "720p")
           d == 0
           a == Unset
<1>1. ParamsOf(o) = Params(r, d, a)
  BY ParamsByModel DEF LtxParams
<1>2. TakenBy(o) = Values(rs, ds, as)
  BY TakenByModel
<1>3. r \in rs /\ (w.resolution \in rs => r = w.resolution)
  BY DEF OneOf
<1>4. d \in ds /\ (w.duration \in ds => d = w.duration)
  OBVIOUS
<1>5. a \in as /\ (w.ratio \in as => a = w.ratio)
  OBVIOUS
<1> HIDE DEF w, rs, ds, as, r, d, a
<1>6. QED
  BY <1>1, <1>2, <1>3, <1>4, <1>5, FitsByField DEF w

\* Wan 2.7 edits: no duration.
LEMMA WanEditFits ==
  ASSUME NEW o, o.model = Wan27VideoEdit, o.wish \in Wishes
  PROVE  Fits(o, ParamsOf(o))
<1> DEFINE w == o.wish
           rs == {"720p", "1080p"}
           ds == {0}
           as == {Unset}
           r == OneOf(w.resolution, {"720p", "1080p"}, "720p")
           d == 0
           a == Unset
<1>1. ParamsOf(o) = Params(r, d, a)
  BY ParamsByModel, DashScopeByModel DEF DashScope
<1>2. TakenBy(o) = Values(rs, ds, as)
  BY TakenByModel
<1>3. r \in rs /\ (w.resolution \in rs => r = w.resolution)
  BY DEF OneOf
<1>4. d \in ds /\ (w.duration \in ds => d = w.duration)
  OBVIOUS
<1>5. a \in as /\ (w.ratio \in as => a = w.ratio)
  OBVIOUS
<1> HIDE DEF w, rs, ds, as, r, d, a
<1>6. QED
  BY <1>1, <1>2, <1>3, <1>4, <1>5, FitsByField DEF w

\* Kling on DashScope: any duration above 0.
LEMMA DashScopeKlingFits ==
  ASSUME NEW o, o.model \in DashScopeKling, o.wish \in Wishes
  PROVE  Fits(o, ParamsOf(o))
<1> DEFINE w == o.wish
           rs == {"720p", "1080p"}
           ds == Nat \ {0}
           as == {Unset}
           r == OneOf(w.resolution, {"1080p"}, "720p")
           d == Duration(w)
           a == Unset
<1>1. ParamsOf(o) = Params(r, d, a)
  BY ParamsByModel, DashScopeByModel DEF DashScope
<1>2. TakenBy(o) = Values(rs, ds, as)
  BY TakenByModel
<1>3. r \in rs /\ (w.resolution \in rs => r = w.resolution)
  BY DEF OneOf
<1>4. d \in ds /\ (w.duration \in ds => d = w.duration)
  BY WishFields DEF Duration
<1>5. a \in as /\ (w.ratio \in as => a = w.ratio)
  OBVIOUS
<1> HIDE DEF w, rs, ds, as, r, d, a
<1>6. QED
  BY <1>1, <1>2, <1>3, <1>4, <1>5, FitsByField DEF w

\* Wan before 2.7: the resolution as it is.
LEMMA OlderWanFits ==
  ASSUME NEW o, o.model \in OlderWanI2V, o.wish \in Wishes
  PROVE  Fits(o, ParamsOf(o))
<1> DEFINE w == o.wish
           rs == {"480p", w.resolution} \ {Unset}
           ds == Nat
           as == {Unset}
           r == IF w.resolution = Unset THEN "480p" ELSE w.resolution
           d == SentDuration(w)
           a == Unset
<1>1. ParamsOf(o) = Params(r, d, a)
  BY ParamsByModel, DashScopeByModel DEF DashScope
<1>2. TakenBy(o) = Values(rs, ds, as)
  BY TakenByModel
<1>3. r \in rs /\ (w.resolution \in rs => r = w.resolution)
  BY DEF Unset
<1>4. d \in ds /\ (w.duration \in ds => d = w.duration)
  BY WishFields DEF SentDuration
<1>5. a \in as /\ (w.ratio \in as => a = w.ratio)
  OBVIOUS
<1> HIDE DEF w, rs, ds, as, r, d, a
<1>6. QED
  BY <1>1, <1>2, <1>3, <1>4, <1>5, FitsByField DEF w

\* Wan 2.7 and HappyHorse.
LEMMA WanHappyHorseFits ==
  ASSUME NEW o, o.model \in Wan27I2V \union HappyHorseI2V, o.wish \in Wishes
  PROVE  Fits(o, ParamsOf(o))
<1> DEFINE w == o.wish
           rs == {"720p", "1080p"}
           ds == Nat
           as == {Unset}
           r == OneOf(w.resolution, {"720p", "1080p"}, "720p")
           d == SentDuration(w)
           a == Unset
<1>1. ParamsOf(o) = Params(r, d, a)
  BY ParamsByModel, DashScopeByModel DEF DashScope
<1>2. TakenBy(o) = Values(rs, ds, as)
  BY TakenByModel
<1>3. r \in rs /\ (w.resolution \in rs => r = w.resolution)
  BY DEF OneOf
<1>4. d \in ds /\ (w.duration \in ds => d = w.duration)
  BY WishFields DEF SentDuration
<1>5. a \in as /\ (w.ratio \in as => a = w.ratio)
  OBVIOUS
<1> HIDE DEF w, rs, ds, as, r, d, a
<1>6. QED
  BY <1>1, <1>2, <1>3, <1>4, <1>5, FitsByField DEF w

-----------------------------------------------------------------------------
(* Every job.                                                              *)

\* A model of no known family is refused before the first exchange.
LEMMA AcceptedFamily ==
  ASSUME NEW o, o.model \in OminiLink, ~Refused(o)
  PROVE  o.model \in OminiLinkFamilies
  BY DEF Refused, OminiLink, OminiLinkFamilies, Ark, Veo, Seedance, Kling, Vidu, DashScope,
     Wan27VideoEdit, DashScopeKling, OlderWanI2V, Wan27I2V, HappyHorseI2V, GeminiModels, LTX

\* The parameters of an order that is accepted fit its model.
LEMMA OrderFits ==
  ASSUME NEW o, o.model \in Models, o.wish \in Wishes, ~Refused(o)
  PROVE  Fits(o, ParamsOf(o))
<1>1. CASE o.model \in OminiLink
  <2>1. o.model \in Seedance \union Veo \union Kling \union Vidu
    BY <1>1, AcceptedFamily DEF OminiLinkFamilies
  <2>2. QED
    BY <2>1, VeoFits, SeedanceFits, KlingV3Fits, OlderKlingFits, ViduFits
<1>2. CASE o.model \in DashScope
  <2>1. o.model \in DashScopeKling \union OlderWanI2V \union Wan27I2V \union HappyHorseI2V
          \union {Wan27VideoEdit}
    BY <1>2 DEF DashScope
  <2>2. QED
    BY <2>1, WanEditFits, DashScopeKlingFits, OlderWanFits, WanHappyHorseFits
<1>3. CASE o.model \in Ark \union LTX \union GeminiModels
  BY <1>3, ArkFits, LtxFits, GeminiFits
<1>4. QED
  BY <1>1, <1>2, <1>3 DEF Models

\* A submit of an order keeps its order and body together.
THEOREM BodyIsOfOrder == RequestSpec => []BodyInv
<1>1. RequestInit => BodyInv
  BY BodyInit
<1>2. TypeOK /\ BodyInv /\ [RequestNext]_requestVars => BodyInv'
  BY BodyStep
<1>3. QED
  BY <1>1, <1>2, RequestImplementsSubmit, TypeCorrect, PTL DEF RequestSpec

\* ParametersFitModel: whatever the caller wishes for, in any words and
\* numbers, every job is started with parameters its model takes, and with the
\* caller's own wherever it takes those (ominilinkvideo/constraints.go,
\* arkvideo and dashscopevideo provider.go).
THEOREM EveryJobFits == RequestSpec => []ParametersFitModel
<1>1. BodyInv => ParametersFitModel
  <2>1. SUFFICES ASSUME BodyInv, jobs > 0
                 PROVE  Fits(order, body.params)
    BY DEF ParametersFitModel, Fits
  <2>2. body.params = ParamsOf(order)
    BY <2>1 DEF BodyInv, Body
  <2>3. order.model \in Models /\ order.wish \in Wishes /\ ~Refused(order)
    BY <2>1, OrdersAssumption DEF BodyInv, Models, Wishes
  <2>4. QED
    BY <2>2, <2>3, OrderFits
<1>2. QED
  BY <1>1, BodyIsOfOrder, PTL

-----------------------------------------------------------------------------
(* The parts in the body.                                                  *)

\* The media of one role.
InRoles(role) == [role : {role}, tag : STRING]

\* The first n of the images or videos given, in a role.
Firsts(sent, role, given, n) ==
  /\ sent \in Seq(InRoles(role)) /\ Len(sent) = n
  /\ \A i \in 1..n : sent[i].tag = given[i].tag

\* A part in a role is a medium of that role and of no other.
LEMMA InRoleIs ==
  ASSUME NEW role, NEW part \in Parts
  PROVE  InRole(role, part) \in InRoles(role) /\ InRole(role, part).tag = part.tag
  BY DEF InRole, InRoles, Parts

\* Roles exclude one another.
LEMMA RolesDiffer ==
  ASSUME NEW role, NEW other, role # other
  PROVE  InRoles(role) \cap InRoles(other) = {}
  BY DEF InRoles

\* The parts of one kind are parts.
LEMMA PartsOfKind ==
  ASSUME NEW o, o.parts \in Seq(Parts)
  PROVE  Images(o) \in Seq(Parts) /\ Videos(o) \in Seq(Parts)
<1>1. ASSUME NEW kinds PROVE OfKind(o.parts, kinds) \in Seq(Parts)
  BY WithinType DEF OfKind
<1>2. QED
  BY <1>1 DEF Images, Videos

\* One medium in a role.
LEMMA OneFirst ==
  ASSUME NEW role, NEW given \in Seq(Parts), given # <<>>
  PROVE  Firsts(<<InRole(role, given[1])>>, role, given, 1) /\ 1 <= Len(given)
<1>1. 1 \in 1..Len(given)
  BY EmptySeq
<1>2. given[1] \in Parts
  BY <1>1
<1>3. PICK e \in InRoles(role) : e = InRole(role, given[1]) /\ e.tag = given[1].tag
  BY <1>2, InRoleIs
<1>4. <<e>> \in Seq(InRoles(role)) /\ Len(<<e>>) = 1 /\ \A i \in 1..1 : i = 1 /\ <<e>>[i] = e
  OBVIOUS
<1>5. QED
  BY <1>1, <1>3, <1>4 DEF Firsts

\* All media in a role, or the first of them.
LEMMA ManyFirst ==
  ASSUME NEW o, o.parts \in Seq(Parts)
  PROVE  /\ Firsts(References(o), "reference_image", Images(o), Len(Images(o)))
         /\ Images(o) # <<>> => Firsts(SubSeq(References(o), 1, 1), "reference_image", Images(o), 1)
<1> DEFINE given == Images(o)
           role == "reference_image"
           refs == References(o)
<1>1. given \in Seq(Parts)
  BY PartsOfKind
<1>2. PICK n \in Nat : n = Len(given)
  BY <1>1
<1>3. \A i \in 1..n : given[i] \in Parts
  BY <1>1, <1>2
<1>4. refs = [i \in 1..n |-> InRole(role, given[i])]
  BY <1>2 DEF References
<1>5. \A i \in 1..n : refs[i] = InRole(role, given[i])
  BY <1>4
<1>6. \A i \in 1..n : refs[i] \in InRoles(role) /\ refs[i].tag = given[i].tag
  BY <1>3, <1>5, InRoleIs
<1>7. Len(refs) = n /\ refs \in Seq(InRoles(role))
  BY <1>4, <1>6
<1> HIDE DEF given, role, refs
<1>8. Firsts(refs, role, given, n)
  BY <1>6, <1>7 DEF Firsts
<1>9. ASSUME given # <<>> PROVE Firsts(SubSeq(refs, 1, 1), role, given, 1)
  <2>1. 1 \in 1..n
    BY <1>1, <1>2, <1>9, EmptySeq
  <2>2. PICK t : t = SubSeq(refs, 1, 1)
    OBVIOUS
  <2>3. \A i \in 1..1 : refs[i] \in InRoles(role)
    BY <1>6, <2>1
  <2>4. t \in Seq(InRoles(role)) /\ Len(t) = 1 /\ t[1] = refs[1]
    BY <2>2, <2>3, SubSeqProperties
  <2>5. QED
    BY <1>6, <2>1, <2>2, <2>4 DEF Firsts
<1>10. QED
  BY <1>2, <1>8, <1>9 DEF given, role, refs

\* What PartsArrive says of one role.
Arrives(media, role, given) ==
  LET sent == Within(media, InRoles(role))
  IN  Len(sent) <= Len(given) /\ \A i \in 1..Len(sent) : sent[i].tag = given[i].tag

\* Media of one role, none of another.
LEMMA ArrivesOwn ==
  ASSUME NEW role, NEW other, NEW media, NEW given, NEW given2 \in Seq(Parts), NEW n \in Nat,
         Firsts(media, role, given, n), n <= Len(given), other # role
  PROVE  Arrives(media, role, given) /\ Arrives(media, other, given2)
<1>1. media \in Seq(InRoles(role))
  BY DEF Firsts
<1>2. Within(media, InRoles(role)) = media
  BY <1>1, WithinAll
<1>3. Within(media, InRoles(other)) = <<>>
  BY <1>1, RolesDiffer, WithinNone
<1>4. Len(given2) \in Nat /\ Len(<<>>) = 0
  BY EmptySeq
<1>5. Arrives(media, role, given)
  BY <1>2 DEF Arrives, Firsts
<1>6. Arrives(media, other, given2)
  BY <1>3, <1>4 DEF Arrives
<1>7. QED
  BY <1>5, <1>6

\* Without media every role is right.
LEMMA ArrivesNone ==
  ASSUME NEW role, NEW given \in Seq(Parts)
  PROVE  Arrives(<<>>, role, given)
<1>1. Within(<<>>, InRoles(role)) = <<>>
  BY WithinEmpty
<1>2. Len(given) \in Nat /\ Len(<<>>) = 0
  BY EmptySeq
<1>3. QED
  BY <1>1, <1>2 DEF Arrives

\* An edit sends a video and references.
LEMMA EditArrives ==
  ASSUME NEW o, o.parts \in Seq(Parts), Edits(o), ~Refused(o)
  PROVE  /\ Arrives(EditMedia(o), "video", Videos(o))
         /\ Arrives(EditMedia(o), "reference_image", Images(o))
         /\ Arrives(EditMedia(o), "first_frame", Images(o))
<1> DEFINE V == InRoles("video")
           R == InRoles("reference_image")
           F == InRoles("first_frame")
<1>0. Images(o) \in Seq(Parts) /\ Videos(o) \in Seq(Parts)
  BY PartsOfKind
<1>1. /\ Videos(o) # <<>>
      /\ o.model # Wan27VideoEdit => Images(o) # <<>>
  <2>1. CASE o.model = Wan27VideoEdit
    <3>1. /\ o.model \notin Ark /\ o.model \notin OminiLink /\ o.model \notin GeminiModels
          /\ o.model \notin LTX /\ o.model \notin DashScope \ {Wan27VideoEdit}
      BY <2>1 DEF Wan27VideoEdit, Ark, OminiLink, OminiLinkFamilies, Seedance, Veo, Kling, Vidu,
         GeminiModels, LTX
    <3>2. HasVideo(o)
      BY <2>1, <3>1 DEF Refused
    <3>3. QED
      BY <2>1, <3>2 DEF HasVideo
  <2>2. CASE o.model \in GeminiModels /\ HasVideo(o)
    <3>1. /\ o.model \notin Ark /\ o.model \notin OminiLink /\ o.model # Wan27VideoEdit
          /\ o.model \notin DashScope
      BY <2>2 DEF Wan27VideoEdit, Ark, OminiLink, OminiLinkFamilies, Seedance, Veo, Kling, Vidu,
         GeminiModels, DashScope, DashScopeKling, OlderWanI2V, Wan27I2V, HappyHorseI2V
    <3>2. HasImage(o)
      BY <2>2, <3>1 DEF Refused
    <3>3. QED
      BY <2>2, <3>2 DEF HasVideo, HasImage
  <2>3. QED
    BY <2>1, <2>2 DEF Edits
<1>2. PICK v : v = <<InRole("video", Videos(o)[1])>>
  OBVIOUS
<1>3. Firsts(v, "video", Videos(o), 1) /\ 1 <= Len(Videos(o))
  BY <1>0, <1>1, <1>2, OneFirst
<1>20. \E r : /\ EditMedia(o) = v \o r
             /\ \E n \in Nat : Firsts(r, "reference_image", Images(o), n) /\ n <= Len(Images(o))
  <2>0. Len(Images(o)) \in Nat /\ Len(Images(o)) <= Len(Images(o))
    BY <1>0
  <2>1. CASE o.model = Wan27VideoEdit
    <3>1. Firsts(References(o), "reference_image", Images(o), Len(Images(o)))
      BY ManyFirst
    <3>2. EditMedia(o) = v \o References(o)
      BY <1>2, <2>1 DEF EditMedia
    <3>3. QED
      BY <2>0, <3>1, <3>2
  <2>2. CASE o.model # Wan27VideoEdit
    <3>1. 1 <= Len(Images(o))
      BY <1>0, <1>1, <2>2, EmptySeq
    <3>2. Firsts(SubSeq(References(o), 1, 1), "reference_image", Images(o), 1)
      BY <1>1, <2>2, ManyFirst
    <3>3. EditMedia(o) = v \o SubSeq(References(o), 1, 1)
      BY <1>2, <2>2 DEF EditMedia
    <3>4. 1 \in Nat
      OBVIOUS
    <3>5. QED
      BY <3>1, <3>2, <3>3, <3>4
  <2>3. QED
    BY <2>1, <2>2
<1>21. PICK r : /\ EditMedia(o) = v \o r
               /\ \E n \in Nat : Firsts(r, "reference_image", Images(o), n) /\ n <= Len(Images(o))
  BY <1>20
<1>4. PICK n \in Nat : /\ EditMedia(o) = v \o r
                       /\ Firsts(r, "reference_image", Images(o), n) /\ n <= Len(Images(o))
  BY <1>21
<1>5. v \in Seq(V) /\ r \in Seq(R)
  BY <1>3, <1>4 DEF Firsts
<1>6. PICK M : M = V \union R
  OBVIOUS
<1>7. v \in Seq(M) /\ r \in Seq(M)
  BY <1>5, <1>6, SeqMonotonic
<1>8. \A S : Within(v \o r, S) = Within(v, S) \o Within(r, S)
  BY <1>7, WithinConcat
<1> HIDE DEF V, R, F
<1>9. V \cap R = {} /\ R \cap V = {} /\ V \cap F = {} /\ R \cap F = {}
  BY RolesDiffer DEF V, R, F
<1>10. /\ Within(v, V) = v /\ Within(r, V) = <<>>
       /\ Within(v, R) = <<>> /\ Within(r, R) = r
       /\ Within(v, F) = <<>> /\ Within(r, F) = <<>>
  BY <1>5, <1>9, WithinAll, WithinNone
<1>11. v \o <<>> = v /\ <<>> \o r = r /\ <<>> \o <<>> = <<>>
  BY <1>7, ConcatEmptySeq, EmptySeq
<1>12. Within(v \o r, V) = v /\ Within(v \o r, R) = r /\ Within(v \o r, F) = <<>>
  BY <1>8, <1>10, <1>11
<1>13. Arrives(v \o r, "video", Videos(o)) /\ Arrives(v \o r, "reference_image", Images(o))
  BY <1>3, <1>4, <1>12 DEF Arrives, Firsts, V, R
<1>14. Arrives(v \o r, "first_frame", Images(o))
  <2>1. Len(Images(o)) \in Nat /\ Len(<<>>) = 0
    BY <1>0, EmptySeq
  <2>2. QED
    BY <1>12, <2>1 DEF Arrives, F
<1>15. QED
  BY <1>4, <1>13, <1>14

\* Every other create sends at most a first frame.
LEMMA FrameArrives ==
  ASSUME NEW o, o.parts \in Seq(Parts)
  PROVE  /\ Arrives(FirstFrame(o), "video", Videos(o))
         /\ Arrives(FirstFrame(o), "reference_image", Images(o))
         /\ Arrives(FirstFrame(o), "first_frame", Images(o))
<1>0. Images(o) \in Seq(Parts) /\ Videos(o) \in Seq(Parts)
  BY PartsOfKind
<1>1. CASE HasImage(o)
  <2>1. Images(o) # <<>> /\ FirstFrame(o) = <<InRole("first_frame", Images(o)[1])>>
    BY <1>1 DEF HasImage, FirstFrame
  <2>2. Firsts(FirstFrame(o), "first_frame", Images(o), 1) /\ 1 <= Len(Images(o))
    BY <1>0, <2>1, OneFirst
  <2>3. /\ "video" # "first_frame" /\ "reference_image" # "first_frame" /\ 1 \in Nat
    OBVIOUS
  <2>4. Arrives(FirstFrame(o), "first_frame", Images(o)) /\ Arrives(FirstFrame(o), "video", Videos(o))
    BY <1>0, <2>2, <2>3, ArrivesOwn
  <2>5. Arrives(FirstFrame(o), "reference_image", Images(o))
    BY <1>0, <2>2, <2>3, ArrivesOwn
  <2>6. QED
    BY <2>4, <2>5
<1>2. CASE ~HasImage(o)
  BY <1>0, <1>2, ArrivesNone DEF FirstFrame
<1>3. QED
  BY <1>1, <1>2

\* PartsArrive: however the caller mixed its parts, the job is made of its texts,
\* in order, and of its media, each kind in its order and from its first, and not
\* before its source file is ready (geminivideo, arkvideo, dashscopevideo, ltx and
\* ominilinkvideo provider.go).
THEOREM PartsOfTheOrder == RequestSpec => []PartsArrive
<1>1. BodyInv /\ JobNeedsActiveFile => PartsArrive
  <2> SUFFICES ASSUME BodyInv, JobNeedsActiveFile, jobs > 0
               PROVE  /\ body.texts = [i \in 1..Len(Texts(order)) |-> Texts(order)[i].tag]
                      /\ \A role \in MediaRead :
                           Arrives(body.media, role, IF role = "video" THEN Videos(order) ELSE Images(order))
    BY DEF PartsArrive, Arrives, InRoles
  <2>1. body = Body(order) /\ ~Refused(order) /\ order.parts \in Seq(Parts)
    BY OrdersAssumption DEF BodyInv
  <2>2. body.texts = [i \in 1..Len(Texts(order)) |-> Texts(order)[i].tag]
    BY <2>1 DEF Body
  <2>3. body.media = IF Edits(order) THEN EditMedia(order) ELSE FirstFrame(order)
    BY <2>1 DEF Body
  <2>4. /\ Arrives(body.media, "video", Videos(order))
        /\ Arrives(body.media, "reference_image", Images(order))
        /\ Arrives(body.media, "first_frame", Images(order))
    BY <2>1, <2>3, EditArrives, FrameArrives
  <2>5. QED
    BY <2>2, <2>4 DEF MediaRead
<1>2. QED
  BY <1>1, BodyIsOfOrder, RequestImplementsSubmit, ActiveFile, PTL
=============================================================================
