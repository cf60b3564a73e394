---------------------------- MODULE VideoDelivery ----------------------------
(***************************************************************************)
(* How the end of a video job, and the video, reach the client.  Two calls *)
(* do it:                                                                  *)
(*                                                                         *)
(*   generate  Generate(video), which runs RunVideoJob in the foreground   *)
(*             under maxPollTime: submit, poll until the job ends, read    *)
(*   get       one GetGeneration: on a running task a single poll, which   *)
(*             may close the row; on a succeeded one the video             *)
(*                                                                         *)
(* Both end in ReadVideoResult, which opens the video (a public URL, or    *)
(* for Gemini a file downloaded whole first) and hands it to               *)
(* EmitVideoChunksFromReader: blocks are read one ahead of the one being   *)
(* sent, so that the last one can carry Final.                             *)
(*                                                                         *)
(* The bytes of a block do not matter, only how many there are; the submit *)
(* itself is the subject of VideoSubmit, the races on a row that of        *)
(* GenerationTask.                                                         *)
(***************************************************************************)
EXTENDS Naturals, Sequences, SequencesExt, VideoPoll

CONSTANTS
    Block,      \* protocol.VideoChunkBytes
    MaxBytes,   \* protocol.MaxVideoBytes
    Sizes,      \* the lengths a video at the upstream may have
    MaxPoll,    \* maxPollTime of the provider
    Families    \* the providers' kinds of answer

ASSUME ConstantsAssumption ==
    /\ Block \in Nat \ {0} /\ MaxBytes \in Nat /\ MaxPoll \in Nat
    /\ Sizes \subseteq Nat /\ Families \subseteq AllFamilies

VARIABLES
    mode,       \* "generate" or "get"
    phase,      \* "submit", "poll", "pause", "open", "read", "ended" (all blocks read)
    family,     \* the provider
    job,        \* the upstream job: "none", "running", "succeeded", "failed"
    row,        \* state of the task's row, "none" in a generate
    heard,      \* the last answer of a poll: its status word, and the verdict on it
    clock,      \* time since GenerateVideo was called, up to MaxPoll
    cancelled,  \* the client's context is done
    size,       \* length of the video, once it is open
    cut,        \* the body ended early (io.ErrUnexpectedEOF)
    total,      \* bytes read
    ahead,      \* length of the block read ahead, 0 before the first
    sequence,   \* number of the next chunk
    outbox,     \* chunks handed to emit and not yet sent
    chunks,     \* chunks the client received
    result      \* "none", "ok", "error", "unsent" when stream.Send failed, or the status
                \* that ended a get: "pending" for RUNNING, "failed" for FAILED

jobVars == <<mode, family, job, row, heard, clock, cancelled>>
readVars == <<size, cut, total, ahead, sequence, outbox>>
vars == <<jobVars, phase, readVars, chunks, result>>

Chunk == [seq : Nat, bytes : 1..Block, final : BOOLEAN]

Silence == [word |-> "none", verdict |-> "none"]

Init ==
    /\ mode \in {"generate", "get"} /\ family \in Families
    /\ row \in IF mode = "generate" THEN {"none"} ELSE {"running", "succeeded"}
    /\ job = row /\ heard = Silence
    /\ phase = CASE row = "none" -> "submit" [] row = "running" -> "poll" [] OTHER -> "open"
    /\ clock = 0 /\ cancelled = FALSE
    /\ size = 0 /\ cut = FALSE
    /\ total = 0 /\ ahead = 0 /\ sequence = 0
    /\ outbox = <<>> /\ chunks = <<>> /\ result = "none"

\* The provider's context: the client's, and in GenerateVideo the maxPollTime deadline.
ContextDone == cancelled \/ (mode = "generate" /\ clock = MaxPoll)

Running == result = "none"

Reply(status) == result' = status /\ UNCHANGED <<phase, readVars, chunks>>

Fail == Reply("error")

\* The bytes come over the network, except Gemini's, which are in a local file by then.
Remote == family # "gemini"

GoTo(next) == phase' = next /\ UNCHANGED <<readVars, chunks, result>>

-----------------------------------------------------------------------------
(* RunVideoJob, and the poll of GetGeneration.                             *)

SubmitVideo ==
    /\ Running /\ phase = "submit"
    /\ \/ GoTo("poll") /\ job' = "running"
       \/ Fail /\ UNCHANGED job
    /\ UNCHANGED <<mode, family, row, heard, clock, cancelled>>

\* A get closes the row first, and answers only what the row then says; the write may
\* fail or match nothing.
Closes(state, next) ==
    IF mode = "generate" THEN next /\ UNCHANGED row
    ELSE (row' = state /\ next) \/ (Fail /\ UNCHANGED row)

\* What follows a verdict: RunVideoJob goes on polling, a get leaves that to its client.
Follow(verdict) ==
    \/ verdict = "running" /\ UNCHANGED row
       /\ IF mode = "generate" THEN GoTo("pause") ELSE Reply("pending")
    \/ verdict = "succeeded" /\ Closes("succeeded", GoTo("open"))
    \/ verdict = "failed" /\ Closes("failed", Reply(IF mode = "generate" THEN "error" ELSE "failed"))
    \/ verdict = "error" /\ Fail /\ UNCHANGED row

\* GetVideo: the query is answered with a document, or it fails: a transport error,
\* an HTTP error status or a body that is no JSON.
GetVideo ==
    /\ Running /\ phase = "poll"
    /\ \/ \E doc \in Documents(family, job) :
             /\ heard' = [word |-> doc.word, verdict |-> Verdict(family, doc)]
             /\ Follow(Verdict(family, doc))
       \/ Fail /\ UNCHANGED <<row, heard>>
    /\ UNCHANGED <<mode, family, job, clock, cancelled>>

PauseEnds == Running /\ phase = "pause" /\ GoTo("poll") /\ UNCHANGED jobVars

\* Mutants, here and below, stand before the operator they would replace.
PauseIgnoresContext == phase \in {"submit", "poll", "open"} \/ (phase = "read" /\ Remote)

\* What a done context interrupts: every exchange and the pause, but not a local file.
Interruptible == phase \in {"submit", "poll", "pause", "open"} \/ (phase = "read" /\ Remote)

ContextEndsCall ==
    /\ Running /\ ContextDone /\ outbox = <<>> /\ Interruptible
    /\ Fail /\ UNCHANGED jobVars

-----------------------------------------------------------------------------
(* ReadVideoResult and EmitVideoChunksFromReader.                          *)

\* ReadVideoResult asks for the job again, now for the address of the video, and opens
\* it; either request may fail, and a video that has no address is an error.
Open ==
    /\ Running /\ phase = "open"
    /\ \/ Fail
       \/ /\ \E doc \in Documents(family, job) : ~QueryError(family, doc) /\ doc.url
          /\ phase' = "read" /\ size' \in Sizes
          /\ UNCHANGED <<cut, total, ahead, sequence, outbox, chunks, result>>
    /\ UNCHANGED jobVars

OverLimit(n) == total + n > MaxBytes

LastChunksBothFinal(n) ==
    CASE ahead = 0 -> <<[seq |-> 0, bytes |-> n, final |-> TRUE]>>
      [] n = 0     -> <<[seq |-> sequence, bytes |-> ahead, final |-> TRUE]>>
      [] OTHER     -> <<[seq |-> sequence, bytes |-> ahead, final |-> TRUE],
                        [seq |-> sequence + 1, bytes |-> n, final |-> TRUE]>>

\* What is emitted when the reader ends with n bytes in a last, short block.
LastChunks(n) ==
    CASE ahead = 0 -> <<[seq |-> 0, bytes |-> n, final |-> TRUE]>>
      [] n = 0     -> <<[seq |-> sequence, bytes |-> ahead, final |-> TRUE]>>
      [] OTHER     -> <<[seq |-> sequence, bytes |-> ahead, final |-> FALSE],
                        [seq |-> sequence + 1, bytes |-> n, final |-> TRUE]>>

\* io.ReadFull filled the buffer: the block before it can be sent.
FullBlock ==
    /\ size - total >= Block
    /\ ~OverLimit(Block)
    /\ total' = total + Block /\ ahead' = Block
    /\ IF ahead = 0 THEN UNCHANGED <<sequence, outbox>>
       ELSE /\ outbox' = <<[seq |-> sequence, bytes |-> ahead, final |-> FALSE]>>
            /\ sequence' = sequence + 1
    /\ UNCHANGED <<phase, cut, result>>

\* The reader ended after n bytes of a block.
LastBlock(n) ==
    /\ ~OverLimit(n) /\ ahead + n > 0
    /\ total' = total + n /\ outbox' = LastChunks(n) /\ phase' = "ended"
    /\ UNCHANGED <<ahead, sequence, result>>

RejectBlock(n) ==
    /\ OverLimit(n) \/ ahead + n = 0
    /\ result' = "error"
    /\ UNCHANGED <<phase, total, ahead, sequence, outbox>>

\* A clean end, or a body shorter than announced: readBlock treats them alike.
ReaderEnds(n) == LastBlock(n) \/ RejectBlock(n)

ReadBlock ==
    /\ Running /\ phase = "read" /\ outbox = <<>>
    /\ \/ FullBlock
       \/ size - total >= Block /\ RejectBlock(Block) /\ UNCHANGED cut
       \/ size - total < Block /\ ReaderEnds(size - total) /\ UNCHANGED cut
       \/ /\ Remote /\ cut' = TRUE
          /\ \E n \in 0..(Block - 1) : n < size - total /\ ReaderEnds(n)
    /\ UNCHANGED <<jobVars, size, chunks>>

\* Any other read error: the blocks read but not sent are dropped.
ReadFails == Fail

ConnectionBreaks ==
    /\ Running /\ phase = "read" /\ outbox = <<>> /\ Remote /\ total < size
    /\ ReadFails
    /\ UNCHANGED jobVars

\* emit is stream.Send, which fails only when the stream's own context is done.
Emit ==
    /\ Running /\ outbox # <<>>
    /\ \/ /\ chunks' = Append(chunks, Head(outbox)) /\ outbox' = Tail(outbox)
          /\ UNCHANGED result
       \/ cancelled /\ result' = "unsent" /\ UNCHANGED <<chunks, outbox>>
    /\ UNCHANGED <<jobVars, phase, size, cut, total, ahead, sequence>>

Return ==
    /\ Running /\ phase = "ended" /\ outbox = <<>>
    /\ result' = "ok"
    /\ UNCHANGED <<jobVars, phase, readVars, chunks>>

-----------------------------------------------------------------------------
(* The environment.                                                        *)

JobEnds ==
    /\ job = "running" /\ job' \in {"succeeded", "failed"}
    /\ UNCHANGED <<mode, family, row, heard, clock, cancelled, phase, readVars, chunks, result>>

Cancel ==
    /\ Running /\ ~cancelled /\ cancelled' = TRUE
    /\ UNCHANGED <<mode, family, job, row, heard, clock, phase, readVars, chunks, result>>

Tick ==
    /\ Running /\ mode = "generate" /\ clock < MaxPoll /\ clock' = clock + 1
    /\ UNCHANGED <<mode, family, job, row, heard, cancelled, phase, readVars, chunks, result>>

Next ==
    \/ SubmitVideo \/ GetVideo \/ PauseEnds \/ ContextEndsCall
    \/ Open \/ ReadBlock \/ ConnectionBreaks \/ Emit \/ Return
    \/ JobEnds \/ Cancel \/ Tick

\* Time passes, a done context ends what it interrupts, a local file is read, and a
\* client that is there takes what it is sent.  No upstream need ever answer.
Fairness ==
    /\ WF_vars(Tick) /\ WF_vars(ContextEndsCall)
    /\ WF_vars(~Remote /\ ReadBlock) /\ WF_vars(Emit) /\ WF_vars(Return)

Spec == Init /\ [][Next]_vars /\ Fairness

-----------------------------------------------------------------------------
(* Properties.                                                             *)

TypeOK ==
    /\ mode \in {"generate", "get"}
    /\ phase \in {"submit", "poll", "pause", "open", "read", "ended"}
    /\ job \in {"none", "running", "succeeded", "failed"}
    /\ clock \in 0..MaxPoll /\ cancelled \in BOOLEAN /\ cut \in BOOLEAN
    /\ family \in Families /\ row \in {"none", "running", "succeeded", "failed"}
    /\ heard.verdict \in {"none", "running", "succeeded", "failed", "error"}
    /\ size \in Sizes \cup {0}
    /\ total \in 0..MaxBytes /\ ahead \in {0, Block} /\ sequence \in Nat
    /\ outbox \in Seq(Chunk) /\ Len(outbox) <= 2 /\ chunks \in Seq(Chunk)
    /\ result \in {"none", "ok", "error", "unsent", "pending", "failed"}

\* The chunks a client receives are numbered 0, 1, 2, ... without a gap, all but
\* the last are full blocks, and only the last one is final.
StreamWellFormed ==
    \A i \in 1..Len(chunks) :
        /\ chunks[i].seq = i - 1
        /\ i < Len(chunks) => chunks[i].bytes = Block /\ ~chunks[i].final

\* The bytes of well-formed chunks: full blocks and the last.
Received == (Len(chunks) - 1) * Block + Last(chunks).bytes

\* A client that holds a final chunk holds the whole video, unless the upstream
\* closed the body early, which readBlock cannot tell from its end.
FinalMarksWholeVideo ==
    chunks # <<>> /\ Last(chunks).final => Received = total /\ (cut \/ Received = size)

\* The call returns OK exactly when the final chunk was sent: no error follows a
\* video the client takes for complete, and no success lacks its end.
SuccessIsFinal ==
    /\ result = "ok" => chunks # <<>> /\ Last(chunks).final
    /\ result \in {"error", "unsent", "pending", "failed"} => \A i \in 1..Len(chunks) : ~chunks[i].final

\* What the client holds tells it the truth about the video: well-formed chunks, a
\* final one only at the end of it all, and success with that one alone.
StreamTellsVideo == StreamWellFormed /\ FinalMarksWholeVideo /\ SuccessIsFinal

\* A row is closed, and a video read, only as the upstream job really ended,
\* whatever form the answer had.
RowTellsTruth ==
    /\ row = "succeeded" => job = "succeeded"
    /\ row = "failed" => job = "failed"
    /\ phase \in {"open", "read", "ended"} => job = "succeeded"

\* A poll that is answered after the job ended never says RUNNING.  A Veo operation
\* is the exception: done without an address is taken for `processing'.
EndedJobEndsWait ==
    [][phase = "poll" /\ job \in {"succeeded", "failed"} /\ family # "veo"
       => phase' # "pause" /\ result' # "pending"]_vars

\* provider_test.go:265 of ominilinkvideo: a task whose status is `failed' is
\* VideoJobFailed, so that GetGeneration closes its row.
FailedStatusFails == mode = "get" /\ heard.word = "failed" => heard.verdict = "failed"

\* Generate(video) returns by its deadline even when the job never ends or the
\* upstream never answers, and any call returns once its client is gone.
CallEnds == (mode = "generate" \/ cancelled) ~> result # "none"
=============================================================================
