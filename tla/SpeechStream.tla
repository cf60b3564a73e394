---------------------------- MODULE SpeechStream ----------------------------
(***************************************************************************)
(* One call of SynthesizeSpeech (internal/infra/minimaxtts/provider.go):   *)
(* the calling goroutine, the read loop, the ping loop and the watcher     *)
(* that closes the WebSocket when the request context ends, with the mutex *)
(* and the sync.Once they share, and the upstream at the other end.        *)
(*                                                                         *)
(* The audio is counted in messages.  A message is read when the upstream  *)
(* sends it: a delay in between looks like a slower upstream.              *)
(***************************************************************************)
EXTENDS Naturals

CONSTANTS
  MaxSize,   \* largest speech the upstream may have for the text, in messages
  MaxAudio   \* protocol.MaxMediaBytes, in messages

ASSUME SizeAssumption == MaxSize \in Nat \ {0} /\ MaxAudio \in Nat

VARIABLES
  size,     \* messages of the whole speech
  peer,     \* whether the upstream has closed, and with which close code
  sent,     \* audio messages it has sent
  wrote,    \* what it was sent: start, text, finish
  ctx,      \* the request context
  caller,   \* where SynthesizeSpeech is
  reader,   \* where readLoop is
  pinger,   \* where pingLoop is
  watcher,  \* the function registered by context.AfterFunc
  once,     \* progress of the one execution of the body of Close
  mu,       \* holder of the stream's mutex
  closing, failed,  \* the flags it protects
  open,     \* the connection has not been closed at this end
  done,     \* doneChan is closed
  got,      \* audio messages appended to the result
  err,      \* streamErr is set
  result    \* what SynthesizeSpeech returns

vars == <<size, peer, sent, wrote, ctx, caller, reader, pinger, watcher, once, mu,
          closing, failed, open, done, got, err, result>>

upstream == <<size, peer, sent>>
threads  == <<caller, reader, pinger, watcher>>
flags    == <<once, closing, failed, open, done>>
outcome  == <<got, err, result>>

-----------------------------------------------------------------------------
Init ==
  /\ size \in 1 .. MaxSize
  /\ peer = "open" /\ sent = 0 /\ wrote = {}
  /\ ctx = "live"
  /\ caller = "dial" /\ reader = "off" /\ pinger = "off" /\ watcher = "off"
  /\ once = "new" /\ mu = "free"
  /\ closing = FALSE /\ failed = FALSE /\ open = FALSE /\ done = FALSE
  /\ got = 0 /\ err = FALSE /\ result = "none"

-----------------------------------------------------------------------------
(* SynthesizeSpeech, newStream, handshake, SendText and Flush.             *)

CallerGoes(label) ==
  /\ caller' = label
  /\ UNCHANGED <<upstream, ctx, once, closing, failed, done, got, err>>

CallerOnly == UNCHANGED <<wrote, reader, pinger, watcher, mu, open>>

\* The call will fail: what is left is to stop the watcher and Close.
Leave == CallerGoes("unwatch") /\ result' = "error"

\* Mutant: the watcher is left for later.
DialUnwatched ==
  /\ caller = "dial"
  /\ CallerGoes("connected") /\ open' = TRUE
  /\ UNCHANGED <<wrote, reader, pinger, watcher, mu, result>>

\* DialContext succeeds, and the watcher is registered at once.
Dial ==
  /\ caller = "dial"
  /\ CallerGoes("connected") /\ open' = TRUE /\ watcher' = "armed"
  /\ UNCHANGED <<wrote, reader, pinger, mu, result>>

DialFails == caller = "dial" /\ CallerGoes("returned") /\ result' = "error" /\ CallerOnly

\* connected_success, then task_started, read by the caller itself.
Handshake ==
  /\ open /\ peer = "open"
  /\ \/ caller = "connected" /\ CallerGoes("start") /\ UNCHANGED <<reader, pinger>>
     \/ caller = "started" /\ CallerGoes("text") /\ reader' = "read" /\ pinger' = "wait"
  /\ UNCHANGED <<wrote, watcher, mu, open, result>>

\* Another event or task_failed; or the connection was closed.
HandshakeRefused ==
  caller \in {"connected", "started"} /\ open /\ peer = "open" /\ Leave /\ CallerOnly
HandshakeBroken ==
  caller \in {"connected", "started"} /\ (~open \/ peer # "open") /\ Leave /\ CallerOnly

Messages == {"start", "text", "finish"}
After(m) == CASE m = "start"  -> "started"
              [] m = "text"   -> "finish"
              [] m = "finish" -> "wait"

\* Before each write the caller takes the mutex and looks at the flags.
CallerLocks ==
  /\ caller \in Messages /\ mu = "free"
  /\ IF closing \/ (failed /\ caller # "start")
       THEN Leave /\ UNCHANGED mu
       ELSE CallerGoes(caller) /\ mu' = "caller" /\ UNCHANGED result
  /\ UNCHANGED <<wrote, reader, pinger, watcher, open>>

CallerWrites ==
  /\ caller \in Messages /\ mu = "caller"
  /\ mu' = "free"
  /\ \/ /\ open
        /\ CallerGoes(After(caller)) /\ wrote' = wrote \union {caller} /\ UNCHANGED result
     \/ Leave /\ UNCHANGED wrote
  /\ UNCHANGED <<reader, pinger, watcher, open>>

\* The three arms of the select in Flush.
FlushDone ==
  caller = "wait" /\ done /\ CallerGoes("collect") /\ UNCHANGED result /\ CallerOnly

\* Mutant: Flush has no timer.
FlushNoTimer(why) ==
  /\ caller = "wait" /\ why = "cancelled" /\ ctx = "cancelled"
  /\ CallerGoes("flushClose") /\ result' = "error" /\ CallerOnly

FlushGivesUp(why) ==
  /\ caller = "wait"
  /\ why = "cancelled" => ctx = "cancelled"
  /\ CallerGoes("flushClose") /\ result' = "error" /\ CallerOnly

FlushClosed ==
  /\ caller = "flushClose" /\ once = "done"
  /\ CallerGoes("unwatch") /\ UNCHANGED result /\ CallerOnly

\* The read loop has ended: the audio is the answer if there is no error, the
\* context still lives, and there is some.
Collect ==
  /\ caller = "collect"
  /\ CallerGoes("unwatch")
  /\ result' = IF err \/ ctx = "cancelled" \/ got = 0 THEN "error" ELSE "audio"
  /\ CallerOnly

\* Mutant: no deferred Close.
UnwatchReturns ==
  /\ caller = "unwatch" /\ CallerGoes("returned")
  /\ watcher' = IF watcher = "armed" THEN "ended" ELSE watcher
  /\ UNCHANGED <<wrote, reader, pinger, mu, open, result>>

\* stopWatch: a watcher that already fired is not waited for.
Unwatch ==
  /\ caller = "unwatch" /\ CallerGoes("close")
  /\ watcher' = IF watcher = "armed" THEN "ended" ELSE watcher
  /\ UNCHANGED <<wrote, reader, pinger, mu, open, result>>

Return ==
  /\ caller = "close" /\ once = "done"
  /\ CallerGoes("returned") /\ UNCHANGED result /\ CallerOnly

-----------------------------------------------------------------------------
(* Close, under sync.Once: one goroutine runs the body, the others wait    *)
(* until it has ended.                                                     *)

CloseGoes(from, to) ==
  /\ once = from /\ once' = to
  /\ UNCHANGED <<upstream, ctx, threads, failed, done, outcome>>

CloseEnter ==
  /\ caller \in {"flushClose", "close"} \/ watcher = "close"
  /\ CloseGoes("new", "lock")
  /\ UNCHANGED <<wrote, mu, closing, open>>

CloseLock ==
  /\ mu = "free" /\ mu' = "closer"
  /\ CloseGoes("lock", "write") /\ closing' = TRUE
  /\ UNCHANGED <<wrote, open>>

\* task_finish is written once more; its outcome is ignored.
CloseWrite ==
  /\ CloseGoes("write", "conn") /\ mu' = "free"
  /\ wrote' \in {wrote, wrote \union {"finish"}}
  /\ UNCHANGED <<closing, open>>

\* close(stopPing) and conn.Close().
CloseConn ==
  CloseGoes("conn", "done") /\ open' = FALSE /\ UNCHANGED <<wrote, mu, closing>>

WatcherGoes(from, to) ==
  /\ watcher = from /\ watcher' = to
  /\ UNCHANGED <<upstream, wrote, ctx, caller, reader, pinger, flags, mu, outcome>>

WatcherFires == ctx = "cancelled" /\ WatcherGoes("armed", "close")
WatcherEnds  == once = "done" /\ WatcherGoes("close", "ended")

-----------------------------------------------------------------------------
(* readLoop.                                                               *)

ReaderGoes(from, to) ==
  /\ reader = from /\ reader' = to
  /\ UNCHANGED <<upstream, wrote, ctx, caller, pinger, watcher, once, mu, closing, open,
                 got, result>>

\* An audio message: the event it also carries, if any, is not looked at.
ReadAudio ==
  /\ reader = "read" /\ open /\ peer = "open" /\ "text" \in wrote
  /\ sent < size /\ sent' = sent + 1
  /\ IF err THEN UNCHANGED <<got, err>>
     ELSE IF got + 1 > MaxAudio THEN err' = TRUE /\ UNCHANGED got
     ELSE got' = got + 1 /\ UNCHANGED err
  /\ UNCHANGED <<size, peer, wrote, ctx, threads, flags, mu, result>>

\* task_finished: the upstream has sent the whole speech.
ReadFinished ==
  /\ open /\ peer = "open" /\ "finish" \in wrote /\ sent = size
  /\ ReaderGoes("read", "exit") /\ UNCHANGED <<failed, done, err>>

\* task_failed, or a message or audio that cannot be decoded.
ReadFailed ==
  open /\ peer = "open" /\ ReaderGoes("read", "fail") /\ UNCHANGED <<failed, done, err>>

ReadBroken ==
  /\ ~open \/ peer # "open"
  /\ ReaderGoes("read", "broken") /\ UNCHANGED <<failed, done, err>>

\* Mutant: every close of the connection ends the loop in silence.
ReaderExcusesAll ==
  mu = "free" /\ ReaderGoes("broken", "exit") /\ UNCHANGED <<failed, done, err>>

\* No error when this end is closing, nor on a normal or going-away close.
ReaderExcuses ==
  /\ mu = "free"
  /\ ReaderGoes("broken", IF closing \/ peer = "polite" THEN "exit" ELSE "fail")
  /\ UNCHANGED <<failed, done, err>>

ReaderFails ==
  mu = "free" /\ ReaderGoes("fail", "report") /\ failed' = TRUE /\ UNCHANGED <<done, err>>

\* Mutant: doneChan is closed before the error is handed over.
ReaderReportsLate ==
  \/ ReaderGoes("report", "late") /\ done' = TRUE /\ UNCHANGED <<failed, err>>
  \/ ReaderGoes("late", "ended") /\ err' = TRUE /\ UNCHANGED <<failed, done>>

ReaderReports == ReaderGoes("report", "exit") /\ err' = TRUE /\ UNCHANGED <<failed, done>>
ReaderExits   == ReaderGoes("exit", "ended") /\ done' = TRUE /\ UNCHANGED <<failed, err>>

-----------------------------------------------------------------------------
(* pingLoop.  The ping has a deadline of its own.                          *)

PingerGoes(from, to) ==
  /\ pinger = from /\ pinger' = to
  /\ UNCHANGED <<upstream, wrote, ctx, caller, reader, watcher, flags, outcome>>

\* Mutant: the loop does not look at the closing flag.
PingerLocksBlind == mu = "free" /\ PingerGoes("wait", "ping") /\ mu' = "pinger"

PingerLocks ==
  /\ mu = "free"
  /\ IF closing THEN PingerGoes("wait", "ended") /\ UNCHANGED mu
                ELSE PingerGoes("wait", "ping") /\ mu' = "pinger"

PingerPings ==
  /\ \/ PingerGoes("ping", "wait")
     \/ (~open \/ peer # "open") /\ PingerGoes("ping", "ended")
  /\ mu' = "free"

\* stopPing or doneChan.
PingerStops == (done \/ once = "done") /\ PingerGoes("wait", "ended") /\ UNCHANGED mu

-----------------------------------------------------------------------------
(* The client and the upstream.                                            *)

Cancel ==
  /\ ctx = "live" /\ caller # "returned"
  /\ ctx' = "cancelled"
  /\ UNCHANGED <<upstream, wrote, threads, flags, mu, outcome>>

PeerCloses(code) ==
  /\ open /\ peer = "open"
  /\ peer' = code
  /\ UNCHANGED <<size, sent, wrote, ctx, threads, flags, mu, outcome>>

\* Everything has ended.
Over ==
  /\ caller = "returned"
  /\ {reader, pinger, watcher} \subseteq {"off", "ended"}
  /\ UNCHANGED vars

CallerStep ==
  \/ Dial \/ DialFails \/ HandshakeBroken \/ CallerLocks \/ CallerWrites
  \/ FlushDone \/ (\E why \in {"cancelled", "timeout"} : FlushGivesUp(why)) \/ FlushClosed
  \/ Collect \/ Unwatch \/ Return

CloseStep == CloseEnter \/ CloseLock \/ CloseWrite \/ CloseConn

ReaderStep ==
  ReadBroken \/ ReaderExcuses \/ ReaderFails \/ ReaderReports \/ ReaderExits

Next ==
  \/ CallerStep \/ Handshake \/ HandshakeRefused
  \/ CloseStep
  \/ WatcherFires \/ WatcherEnds
  \/ ReadAudio \/ ReadFinished \/ ReadFailed \/ ReaderStep
  \/ PingerLocks \/ PingerPings \/ PingerStops
  \/ Cancel \/ (\E code \in {"polite", "abrupt"} : PeerCloses(code))
  \/ Over

Spec == Init /\ [][Next]_vars

\* Goroutines run, timers fire, a blocked Lock succeeds in the end (a Go mutex
\* does not starve), and a write to the connection ends.  The upstream owes
\* nothing: it may stay silent for ever.
Fairness ==
  /\ SF_vars(CallerStep) /\ SF_vars(CloseStep) /\ SF_vars(ReaderStep)
  /\ WF_vars(WatcherFires) /\ WF_vars(WatcherEnds)
  /\ WF_vars(PingerPings) /\ SF_vars(PingerStops)

FairSpec == Spec /\ Fairness

-----------------------------------------------------------------------------
(* What must hold.                                                         *)

Counts ==
  /\ size \in 1 .. MaxSize /\ sent \in 0 .. size /\ got \in 0 .. sent
  /\ got <= MaxAudio

Labels ==
  /\ peer \in {"open", "polite", "abrupt"}
  /\ wrote \subseteq Messages
  /\ ctx \in {"live", "cancelled"}
  /\ caller \in {"dial", "connected", "started", "wait", "flushClose", "collect",
                 "unwatch", "close", "returned"} \union Messages
  /\ reader \in {"off", "read", "broken", "fail", "report", "exit", "ended"}
  /\ pinger \in {"off", "wait", "ping", "ended"}
  /\ watcher \in {"off", "armed", "close", "ended"}
  /\ once \in {"new", "lock", "write", "conn", "done"}
  /\ mu \in {"free", "caller", "closer", "pinger"}
  /\ result \in {"none", "audio", "error"}

Flags ==
  /\ closing \in BOOLEAN /\ failed \in BOOLEAN /\ open \in BOOLEAN
  /\ done \in BOOLEAN /\ err \in BOOLEAN

TypeOK == Counts /\ Labels /\ Flags

\* Half an audio is never returned as a success (provider.go:2-3).
AudioIsWhole == result = "audio" => got = size

\* It is not, whatever fails, times out or is cancelled in whatever order,
\* unless the upstream itself closed the connection with a normal code
\* (provider.go:348-356).
AudioIsWholeUnlessClosed == result = "audio" => got = size \/ peer = "polite"

\* A failure the read loop has met is never lost on the way to the caller: it
\* is recorded before doneChan lets the caller look (provider.go:345, 409-416).
NoSilentFailure == result = "audio" => ~failed /\ ~err

\* Once Close has begun nobody starts another write, so task_finish is the last
\* word and no two goroutines write at once (provider.go:267-271, 298, 396).
ClosingIsFinal == [][closing => mu' \in {mu, "free"}]_vars

\* A cancelled call returns, wherever it is: the watcher closes the connection
\* under a handshake that would wait for ever (provider.go:194-197, 221-222).
CancelEndsCall == ctx = "cancelled" ~> caller = "returned"

\* A call that has flushed returns, cancelled or not, even if the upstream says
\* no more (provider.go:319-330).
FlushEnds == caller = "wait" ~> caller = "returned"

\* A call that returned leaves no goroutine and no open connection behind
\* (provider.go:148-151, 333-342, 385-393).
NothingLeaks ==
  caller = "returned"
    ~> {reader, pinger, watcher} \subseteq {"off", "ended"} /\ ~open

=============================================================================
