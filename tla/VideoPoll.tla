------------------------------ MODULE VideoPoll ------------------------------
(***************************************************************************)
(* What the video providers make of an answer to a status query.  Every    *)
(* GetVideo asks the upstream once and turns the document it gets into     *)
(* VideoJobRunning, VideoJobSucceeded, VideoJobFailed or an error, which   *)
(* its callers treat as a failed query; ReadVideoResult asks again for the *)
(* address of the video.                                                   *)
(*                                                                         *)
(* A document is what the parsers look at: its status word, whether the    *)
(* status lies in a nested object, the top-level code, message and reason  *)
(* (error.message or fail_reason), the `done' of a long-running operation, *)
(* an error object without a message, and a video address.  "veo" is       *)
(* ominilinkvideo on a model that answers with operations, "running"       *)
(* stands for every word a provider does not list.                         *)
(***************************************************************************)
EXTENDS Naturals

AllFamilies == {"gemini", "ltx", "ark", "dashscope", "ominilink", "veo"}

\* The words of a success and of a failure each GetVideo lists, in the lower case they
\* are compared in, "canceled" for both its spellings.
GeminiWords    == [succeeded |-> {"completed", "succeeded", "success"},
                   failed    |-> {"failed", "error", "canceled"}]
LtxWords       == [succeeded |-> {"done"}, failed |-> {"error"}]
DashScopeWords == [succeeded |-> {"succeeded"},
                   failed    |-> {"failed", "canceled", "unknown", "failure", "error"}]
ArkWords       == [succeeded |-> {"succeeded", "success", "completed", "done"},
                   failed    |-> {"failed", "failure", "fail", "error", "canceled", "expired"}]
OminiLinkWords == [succeeded |-> {"succeeded", "success", "completed", "done"},
                   failed    |-> {"failed", "failure", "fail", "error", "canceled", "expired"}]

WordsOf(family) ==
    CASE family = "gemini"    -> GeminiWords
      [] family = "ltx"       -> LtxWords
      [] family = "dashscope" -> DashScopeWords
      [] family = "ark"       -> ArkWords
      [] OTHER                -> OminiLinkWords

Succeeds(family) == WordsOf(family).succeeded
Fails(family)    == WordsOf(family).failed

-----------------------------------------------------------------------------
(* The answers an upstream may give, by the state of its job.              *)

\* "none" is no status word.
Blank ==
    [word |-> "none", nested |-> FALSE, code |-> "none", message |-> FALSE, reason |-> FALSE,
     done |-> "absent", broken |-> FALSE, url |-> FALSE]

Words(family, job) ==
    CASE job = "running"   -> {"running"}
      [] job = "succeeded" -> Succeeds(family)
      [] job = "failed"    -> Fails(family)

\* A status word, with or without a message, and on success perhaps an address.
Worded(family, job) ==
    [word : Words(family, job), nested : {FALSE}, code : {"none"}, message : BOOLEAN,
     reason : {FALSE}, done : {"absent"}, broken : {FALSE}, url : {FALSE, job = "succeeded"}]

\* ominilink: flat or in a data object, with or without a code, a failure with a reason.
Enveloped(job) ==
    [word : Words("ominilink", job), nested : BOOLEAN, code : {"none", "ok"}, message : BOOLEAN,
     reason : {FALSE, job = "failed"}, done : {"absent"}, broken : {FALSE},
     url : {FALSE, job = "succeeded"}]

Operation(job) ==
    [word : {"none"}, nested : {FALSE}, code : {"none"}, message : {FALSE},
     reason : {FALSE, job = "failed"},
     done   : CASE job = "running"   -> {"absent", "false"}
                [] job = "succeeded" -> {"true"}
                [] job = "failed"    -> {"absent", "true"},
     broken : {job = "failed"},
     url    : {FALSE, job = "succeeded"}]

Rejected == [Blank EXCEPT !.code = "bad", !.message = TRUE]

Documents(family, job) ==
    CASE family \in {"gemini", "ltx"} -> Worded(family, job)
      [] family = "ark"       -> Worded(family, job) \cup
                                 (IF job = "failed" THEN {[Blank EXCEPT !.message = TRUE]} ELSE {})
      [] family = "dashscope" -> Worded(family, job) \cup {Rejected}
      [] family = "ominilink" -> Enveloped(job) \cup {Rejected}
      [] family = "veo"       -> Operation(job) \cup {Rejected}

-----------------------------------------------------------------------------
(* The parsers.                                                            *)

OminiLink == {"ominilink", "veo"}

\* A top-level code other than success.
DashScopeRejects(doc) == doc.code = "bad"

\* apiFailureMessage: a message counts only next to a top-level failure word.
ApiFailure(doc) ==
    doc.reason \/ (doc.message /\ ~doc.nested /\ doc.word \in {"failed", "failure", "error"})

OminiLinkRejects(doc) == doc.code = "bad" \/ ApiFailure(doc)

\* The answers that make GetVideo return an error instead of a job.
QueryError(family, doc) ==
    \/ family = "dashscope" /\ DashScopeRejects(doc)
    \/ family \in OminiLink /\ OminiLinkRejects(doc)

VeoStatus(doc) ==
    CASE doc.done = "true" /\ doc.url   -> "success"
      [] doc.done = "true" /\ ~doc.url  -> "processing"
      [] doc.done = "false"             -> "processing"
      [] doc.done = "absent"            -> IF doc.broken THEN "failed" ELSE "none"

\* Mutants stand before the operator they would replace.
ArkStatusByMessage(doc) == IF doc.message THEN "failed" ELSE doc.word

\* A message without a status is a failure; next to a status it explains it.
ArkStatus(doc) == IF doc.message /\ doc.word = "none" THEN "failed" ELSE doc.word

OminiLinkStatus(doc) == IF doc.word = "none" THEN VeoStatus(doc) ELSE doc.word

\* The status GetVideo looks up.
Status(family, doc) ==
    CASE family = "ark"         -> ArkStatus(doc)
      [] family \in OminiLink   -> OminiLinkStatus(doc)
      [] OTHER                  -> doc.word

VerdictWithoutExpiry(family, doc) ==
    CASE QueryError(family, doc)                                  -> "error"
      [] ~QueryError(family, doc)
         /\ Status(family, doc) \in Succeeds(family)              -> "succeeded"
      [] ~QueryError(family, doc)
         /\ Status(family, doc) \in Fails(family) \ {"expired"}   -> "failed"
      [] OTHER                                                    -> "running"

\* GetVideo.
Verdict(family, doc) ==
    CASE QueryError(family, doc)                       -> "error"
      [] ~QueryError(family, doc)
         /\ Status(family, doc) \in Succeeds(family)   -> "succeeded"
      [] ~QueryError(family, doc)
         /\ Status(family, doc) \in Fails(family)      -> "failed"
      [] OTHER                                         -> "running"
=============================================================================
