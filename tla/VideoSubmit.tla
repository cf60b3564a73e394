----------------------------- MODULE VideoSubmit -----------------------------
(***************************************************************************)
(* One call of SubmitVideo, the provider operation SubmitGeneration runs   *)
(* between InsertPending and MarkRunning.  The HTTP providers differ in    *)
(* the exchanges they make, so a submit is a plan of steps:                *)
(*                                                                         *)
(*   edit    geminivideo with a source video: fetch it, open a resumable   *)
(*           upload, finalize it, poll the file until it is ACTIVE, fetch  *)
(*           the reference image, create the interaction                   *)
(*   image   geminivideo image-to-video: fetch the image, create           *)
(*   ltx     ltx: fetch the first frame, create with up to MaxAttempts     *)
(*   veo     ominilinkvideo with a Veo model: fetch the image, create      *)
(*   create  dashscopevideo, arkvideo and the other ominilinkvideo models: *)
(*           create only, media are passed by URL                          *)
(*                                                                         *)
(* The upstream is the environment: it takes a job at some moment of a     *)
(* create exchange, answers or loses the answer, and moves the uploaded    *)
(* file to ACTIVE or FAILED.  Time is kept for the Gemini plans, the only  *)
(* ones whose HTTP client has a timeout; it counts from the start of the   *)
(* call.                                                                   *)
(***************************************************************************)
EXTENDS Naturals, Sequences

CONSTANTS
    Timeout,      \* defaultHTTPTimeout: client.Timeout and the limit of waitFileActive
    PollEvery,    \* pollInterval of waitFileActive
    MaxAttempts,  \* attempts of ltx's submit (3 in the code)
    Margin        \* stalePendingSafetyMargin of the service

ASSUME ConstantsAssumption ==
    /\ Timeout \in Nat \ {0} /\ PollEvery \in Nat \ {0}
    /\ MaxAttempts \in Nat \ {0} /\ Margin \in Nat

VARIABLES
    plan,       \* which provider path the request takes
    at,         \* index of the current step of the plan
    attempt,    \* ltx: number of the current create attempt
    call,       \* "idle", "sent", "taken" (sent, and the upstream took the job), "pausing"
    asked,      \* when the call was sent or the pause began
    since,      \* when waitFileActive began
    now,        \* time since SubmitVideo was called
    file,       \* the uploaded file at the upstream
    jobs,       \* jobs the upstream has taken from this call
    cancelled,  \* the request context is done
    outcome     \* what SubmitVideo returned

vars == <<plan, at, attempt, call, asked, since, now, file, jobs, cancelled, outcome>>

Path ==
    [edit   |-> <<"source", "start", "finalize", "active", "reference", "create">>,
     image  |-> <<"source", "create">>,
     ltx    |-> <<"source", "create">>,
     veo    |-> <<"source", "create">>,
     create |-> <<"create">>]

Gemini == {"edit", "image"}
Loads == {"source", "reference"}

\* UNKNOWN is what isUncertainSubmit recognises: timeouts, cancellations, UNAVAILABLE.
Outcomes == {"none", "id", "DEFINITE", "INVALID", "UNKNOWN"}
Replies == {"ok", "refused", "busy", "missing", "error", "garbled", "lost"}

Step == Path[plan][at]

Init ==
    /\ plan \in DOMAIN Path
    /\ at = 1 /\ attempt = 1 /\ call = "idle"
    /\ asked = 0 /\ since = 0 /\ now = 0
    /\ file = "none" /\ jobs = 0
    /\ cancelled = FALSE /\ outcome = "none"

-----------------------------------------------------------------------------
(* What SubmitVideo makes of an answer.                                    *)

\* A mutant stands before the operator it would replace.
FromHTTPTrustsErrors(reply) ==
    CASE reply = "lost"    -> "UNKNOWN"
      [] reply = "garbled" -> "INVALID"
      [] OTHER             -> "DEFINITE"

\* FromHTTPDetail: 400, 401, 403, 422 (refused) and 429 (busy) are definite;
\* 404, 408, 5xx and transport errors are not; an undecodable 2xx is INVALID_RESPONSE.
FromHTTP(reply) ==
    CASE reply \in {"refused", "busy"}          -> "DEFINITE"
      [] reply \in {"missing", "error", "lost"} -> "UNKNOWN"
      [] reply = "garbled"                      -> "INVALID"

\* The start of an upload reports every failure as UNAVAILABLE.
Failure(reply) == IF Step = "start" THEN "UNKNOWN" ELSE FromHTTP(reply)

RetriesErrorsToo(reply) ==
    plan = "ltx" /\ Step = "create" /\ reply \in {"missing", "busy", "error"} /\ attempt < MaxAttempts

\* ltx resubmits after 404 and 429 only: a 5xx may have been accepted.
Retries(reply) ==
    plan = "ltx" /\ Step = "create" /\ reply \in {"missing", "busy"} /\ attempt < MaxAttempts

WaitNeverExpires == FALSE

\* The deadline of waitFileActive, looked at only after an answered GET.
WaitExpired == now > since + Timeout

WaitOnlyShunsFailed(state) == state # "failed"

\* The state a GET must report for waitFileActive to return nil.
FileReady(state) == state = "active"

Advance == at' = at + 1 /\ call' = "idle" /\ UNCHANGED <<attempt, outcome>>

Return(result) == outcome' = result /\ call' = "idle" /\ UNCHANGED <<at, attempt>>

-----------------------------------------------------------------------------
(* The caller.                                                             *)

\* The request is validated before the first exchange; media it carries itself
\* are checked and copied without one.
CheckRequest ==
    /\ outcome = "none" /\ call = "idle" /\ attempt = 1
    /\ \/ Step \in Loads /\ Advance
       \/ (at = 1 \/ Step \in Loads) /\ Return("DEFINITE")
    /\ UNCHANGED <<plan, asked, since, now, file, jobs, cancelled>>

\* client.Do with a context that is still live.
Send ==
    /\ outcome = "none" /\ call = "idle" /\ ~cancelled
    /\ call' = "sent" /\ asked' = now
    /\ UNCHANGED <<plan, at, attempt, since, now, file, jobs, cancelled, outcome>>

\* A done context: client.Do fails at once, and both waits select on it.
GiveUp ==
    /\ outcome = "none" /\ call \in {"idle", "pausing"} /\ cancelled
    /\ Return("UNKNOWN")
    /\ UNCHANGED <<plan, asked, since, now, file, jobs, cancelled>>

\* The exchange failed, was answered with an error status, or cannot be decoded.
\* A job is never taken by a request that is refused, throttled or not found.
AnswerFails(reply) ==
    /\ call = "taken" => reply \in {"error", "garbled", "lost"}
    /\ IF Retries(reply)
         THEN attempt' = attempt + 1 /\ call' = "idle" /\ UNCHANGED <<at, outcome>>
         ELSE Return(Failure(reply))
    /\ UNCHANGED <<asked, since, file>>

AnswerLoaded == Step \in Loads \cup {"start"} /\ Advance /\ UNCHANGED <<asked, since, file>>

\* waitFileActive takes its deadline; a file without a name is not waited for.
AnswerUploaded ==
    /\ Step = "finalize"
    /\ \/ at' = at + 1 /\ file' = "processing"
       \/ at' = at + 2 /\ file' = "nameless"
    /\ call' = "idle" /\ since' = now
    /\ UNCHANGED <<attempt, asked, outcome>>

AnswerFileState ==
    /\ Step = "active"
    /\ IF FileReady(file) THEN Advance /\ UNCHANGED asked
       ELSE IF file = "failed" \/ WaitExpired THEN Return("UNKNOWN") /\ UNCHANGED asked
       ELSE call' = "pausing" /\ asked' = now /\ UNCHANGED <<at, attempt, outcome>>
    /\ UNCHANGED <<since, file>>

AnswerCreated ==
    /\ Step = "create" /\ call = "taken" /\ Return("id")
    /\ UNCHANGED <<asked, since, file>>

Answer ==
    /\ outcome = "none" /\ call \in {"sent", "taken"}
    /\ \/ \E reply \in Replies \ {"ok"} : AnswerFails(reply)
       \/ AnswerLoaded \/ AnswerUploaded \/ AnswerFileState \/ AnswerCreated
    /\ UNCHANGED <<plan, now, jobs, cancelled>>

PauseEnds ==
    /\ outcome = "none" /\ call = "pausing" /\ now - asked >= PollEvery
    /\ call' = "idle"
    /\ UNCHANGED <<plan, at, attempt, asked, since, now, file, jobs, cancelled, outcome>>

-----------------------------------------------------------------------------
(* The environment.                                                        *)

UpstreamTakesJob ==
    /\ outcome = "none" /\ call = "sent" /\ Step = "create"
    /\ call' = "taken" /\ jobs' = jobs + 1
    /\ UNCHANGED <<plan, at, attempt, asked, since, now, file, cancelled, outcome>>

UpstreamMovesFile ==
    /\ file = "processing" /\ outcome = "none"
    /\ file' \in {"active", "failed"}
    /\ UNCHANGED <<plan, at, attempt, call, asked, since, now, jobs, cancelled, outcome>>

Cancel ==
    /\ outcome = "none" /\ ~cancelled /\ cancelled' = TRUE
    /\ UNCHANGED <<plan, at, attempt, call, asked, since, now, file, jobs, outcome>>

\* Time passes during exchanges and pauses, never past the client's timeout.
Tick ==
    /\ outcome = "none" /\ plan \in Gemini
    /\ \/ call \in {"sent", "taken"} /\ now - asked < Timeout
       \/ call = "pausing" /\ now - asked < PollEvery
    /\ now' = now + 1
    /\ UNCHANGED <<plan, at, attempt, call, asked, since, file, jobs, cancelled, outcome>>

Next ==
    \/ CheckRequest \/ Send \/ GiveUp \/ Answer \/ PauseEnds
    \/ UpstreamTakesJob \/ UpstreamMovesFile \/ Cancel \/ Tick

EndsWithContextOnly == cancelled

\* An exchange must end once its context is done; Gemini's also by client.Timeout.
ExchangeMustEnd == cancelled \/ plan \in Gemini

Fairness ==
    /\ WF_vars(CheckRequest \/ Send \/ GiveUp \/ PauseEnds)
    /\ WF_vars(ExchangeMustEnd /\ Answer)
    /\ WF_vars(Tick)

Spec == Init /\ [][Next]_vars /\ Fairness

-----------------------------------------------------------------------------
(* Properties.                                                             *)

TypeOK ==
    /\ plan \in DOMAIN Path /\ at \in 1..Len(Path[plan])
    /\ attempt \in 1..MaxAttempts
    /\ call \in {"idle", "sent", "taken", "pausing"}
    /\ now \in Nat /\ asked \in 0..now /\ since \in 0..now
    /\ file \in {"none", "processing", "active", "failed", "nameless"}
    /\ jobs \in Nat /\ cancelled \in BOOLEAN /\ outcome \in Outcomes

\* A call of SubmitVideo starts at most one upstream job, retries included:
\* ltx repeats a create only when the answer says it was not accepted.
AtMostOneJob == jobs <= 1

\* What SubmitGeneration stores is true: an id stands for exactly one job, and
\* a reason other than SUBMIT_OUTCOME_UNKNOWN or INVALID_RESPONSE means no job runs.
OutcomeIsHonest ==
    /\ outcome = "id" => jobs = 1
    /\ outcome = "DEFINITE" => jobs = 0

\* No interaction is created on a named file that waitFileActive has not seen ACTIVE.
JobNeedsActiveFile ==
    plan = "edit" /\ jobs > 0 => file \in {"active", "nameless"}

Longest == [edit |-> 7 * Timeout + PollEvery, image |-> 2 * Timeout]

\* How long a Gemini submit really lasts at most: one timeout for each exchange,
\* and for waitFileActive two and a pause, its deadline being looked at late.
SubmitIsBounded == plan \in Gemini => now <= Longest[plan]

\* A Gemini submit always returns; any submit returns once its context is done,
\* so the row it is for is closed without waiting for a poll.
SubmitEnds == (plan \in Gemini \/ cancelled) ~> outcome # "none"

\* What generation.go:33-40 says: no submit lasts longer than one Gemini timeout,
\* and the margin covers what comes on top of it.
SubmitWithinWindow == now <= Timeout + Margin
=============================================================================
