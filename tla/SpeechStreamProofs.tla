------------------------- MODULE SpeechStreamProofs -------------------------
(***************************************************************************)
(* Theorems about SpeechStream, for speeches and limits of any size: what  *)
(* the four goroutines of a call may never do, whatever fails, times out   *)
(* or is cancelled, in whatever order.                                     *)
(***************************************************************************)
EXTENDS SpeechStream, TLAPS

\* What is written after each message.
LEMMA AfterWrites ==
  After("start") = "started" /\ After("text") = "finish" /\ After("finish") = "wait"
  BY DEF After

-----------------------------------------------------------------------------
(* Types: the counts, the labels and the flags apart, for the provers take  *)
(* arithmetic and Boolean variables one at a time.                         *)

\* The types at the start.
LEMMA TypeInit == Init => TypeOK
<1>1. Init => Counts
  BY SizeAssumption DEF Init, Counts
<1>2. Init => Labels
  BY DEF Init, Labels
<1>3. Init => Flags
  BY DEF Init, Flags
<1>4. QED
  BY <1>1, <1>2, <1>3 DEF TypeOK

\* Only ReadAudio counts, and it stops at the limit.
LEMMA CountsStep == Counts /\ [Next]_vars => Counts'
<1> SUFFICES ASSUME Counts, [Next]_vars PROVE Counts'
  OBVIOUS
<1> USE SizeAssumption DEF Counts, upstream, threads, flags, outcome
<1>1. CASE UNCHANGED vars
  BY <1>1 DEF vars
<1>2. CASE Dial \/ DialFails \/ Handshake
  BY <1>2 DEF Dial, DialFails, Handshake, CallerGoes, CallerOnly
<1>3. CASE HandshakeRefused \/ HandshakeBroken
  BY <1>3 DEF HandshakeRefused, HandshakeBroken, Leave, CallerGoes, CallerOnly
<1>4. CASE CallerLocks
  BY <1>4 DEF CallerLocks, Leave, CallerGoes
<1>5. CASE CallerWrites
  BY <1>5 DEF CallerWrites, Leave, CallerGoes
<1>6. CASE FlushDone
  BY <1>6 DEF FlushDone, CallerGoes, CallerOnly
<1>7. CASE \E why \in {"cancelled", "timeout"} : FlushGivesUp(why)
  BY <1>7 DEF FlushGivesUp, CallerGoes, CallerOnly
<1>8. CASE FlushClosed
  BY <1>8 DEF FlushClosed, CallerGoes, CallerOnly
<1>9. CASE Collect \/ Unwatch \/ Return
  BY <1>9 DEF Collect, Unwatch, Return, CallerGoes, CallerOnly
<1>10. CASE CloseStep
  BY <1>10 DEF CloseStep, CloseEnter, CloseLock, CloseWrite, CloseConn, CloseGoes
<1>11. CASE WatcherFires \/ WatcherEnds
  BY <1>11 DEF WatcherFires, WatcherEnds, WatcherGoes
<1>12. CASE ReadAudio
  BY <1>12 DEF ReadAudio
<1>13. CASE ReadFinished \/ ReadFailed \/ ReaderStep
  BY <1>13 DEF ReadFinished, ReadFailed, ReaderStep, ReadBroken, ReaderExcuses, ReaderFails,
     ReaderReports, ReaderExits, ReaderGoes
<1>14. CASE PingerLocks \/ PingerPings \/ PingerStops
  BY <1>14 DEF PingerLocks, PingerPings, PingerStops, PingerGoes
<1>15. CASE Cancel \/ \E code \in {"polite", "abrupt"} : PeerCloses(code)
  BY <1>15 DEF Cancel, PeerCloses
<1>16. CASE Over
  BY <1>16 DEF Over, vars
<1>17. QED
  BY <1>1, <1>2, <1>3, <1>4, <1>5, <1>6, <1>7, <1>8, <1>9, <1>10, <1>11, <1>12, <1>13, <1>14, <1>15, <1>16
     DEF Next, CallerStep

\* Every goroutine stays at a place of its own code.
LEMMA LabelsStep == Labels /\ [Next]_vars => Labels'
<1> SUFFICES ASSUME Labels, [Next]_vars PROVE Labels'
  OBVIOUS
<1> USE DEF Labels, Messages, upstream, threads, flags, outcome
<1>1. CASE UNCHANGED vars
  BY <1>1 DEF vars
<1>2. CASE Dial \/ DialFails \/ Handshake
  BY <1>2 DEF Dial, DialFails, Handshake, CallerGoes, CallerOnly
<1>3. CASE HandshakeRefused \/ HandshakeBroken
  BY <1>3 DEF HandshakeRefused, HandshakeBroken, Leave, CallerGoes, CallerOnly
<1>4. CASE CallerLocks
  BY <1>4 DEF CallerLocks, Leave, CallerGoes
<1>5. CASE CallerWrites
  BY <1>5, AfterWrites DEF CallerWrites, Leave, CallerGoes
<1>6. CASE FlushDone
  BY <1>6 DEF FlushDone, CallerGoes, CallerOnly
<1>7. CASE \E why \in {"cancelled", "timeout"} : FlushGivesUp(why)
  BY <1>7 DEF FlushGivesUp, CallerGoes, CallerOnly
<1>8. CASE FlushClosed
  BY <1>8 DEF FlushClosed, CallerGoes, CallerOnly
<1>9. CASE Collect \/ Unwatch \/ Return
  BY <1>9 DEF Collect, Unwatch, Return, CallerGoes, CallerOnly
<1>10. CASE CloseStep
  BY <1>10 DEF CloseStep, CloseEnter, CloseLock, CloseWrite, CloseConn, CloseGoes
<1>11. CASE WatcherFires \/ WatcherEnds
  BY <1>11 DEF WatcherFires, WatcherEnds, WatcherGoes
<1>12. CASE ReadAudio
  BY <1>12 DEF ReadAudio
<1>13. CASE ReadFinished \/ ReadFailed \/ ReaderStep
  BY <1>13 DEF ReadFinished, ReadFailed, ReaderStep, ReadBroken, ReaderExcuses, ReaderFails,
     ReaderReports, ReaderExits, ReaderGoes
<1>14. CASE PingerLocks \/ PingerPings \/ PingerStops
  BY <1>14 DEF PingerLocks, PingerPings, PingerStops, PingerGoes
<1>15. CASE Cancel \/ \E code \in {"polite", "abrupt"} : PeerCloses(code)
  BY <1>15 DEF Cancel, PeerCloses
<1>16. CASE Over
  BY <1>16 DEF Over, vars
<1>17. QED
  BY <1>1, <1>2, <1>3, <1>4, <1>5, <1>6, <1>7, <1>8, <1>9, <1>10, <1>11, <1>12, <1>13, <1>14, <1>15, <1>16
     DEF Next, CallerStep

\* The flags stay Boolean.
LEMMA FlagsStep == Flags /\ [Next]_vars => Flags'
<1> SUFFICES ASSUME Flags, [Next]_vars PROVE Flags'
  OBVIOUS
<1> USE DEF Flags, upstream, threads, flags, outcome
<1>1. CASE UNCHANGED vars
  BY <1>1 DEF vars
<1>2. CASE Dial \/ DialFails \/ Handshake
  BY <1>2 DEF Dial, DialFails, Handshake, CallerGoes, CallerOnly
<1>3. CASE HandshakeRefused \/ HandshakeBroken
  BY <1>3 DEF HandshakeRefused, HandshakeBroken, Leave, CallerGoes, CallerOnly
<1>4. CASE CallerLocks
  BY <1>4 DEF CallerLocks, Leave, CallerGoes
<1>5. CASE CallerWrites
  BY <1>5 DEF CallerWrites, Leave, CallerGoes
<1>6. CASE FlushDone
  BY <1>6 DEF FlushDone, CallerGoes, CallerOnly
<1>7. CASE \E why \in {"cancelled", "timeout"} : FlushGivesUp(why)
  BY <1>7 DEF FlushGivesUp, CallerGoes, CallerOnly
<1>8. CASE FlushClosed
  BY <1>8 DEF FlushClosed, CallerGoes, CallerOnly
<1>9. CASE Collect \/ Unwatch \/ Return
  BY <1>9 DEF Collect, Unwatch, Return, CallerGoes, CallerOnly
<1>10. CASE CloseStep
  BY <1>10 DEF CloseStep, CloseEnter, CloseLock, CloseWrite, CloseConn, CloseGoes
<1>11. CASE WatcherFires \/ WatcherEnds
  BY <1>11 DEF WatcherFires, WatcherEnds, WatcherGoes
<1>12. CASE ReadAudio
  BY <1>12 DEF ReadAudio
<1>13. CASE ReadFinished \/ ReadFailed \/ ReaderStep
  BY <1>13 DEF ReadFinished, ReadFailed, ReaderStep, ReadBroken, ReaderExcuses, ReaderFails,
     ReaderReports, ReaderExits, ReaderGoes
<1>14. CASE PingerLocks \/ PingerPings \/ PingerStops
  BY <1>14 DEF PingerLocks, PingerPings, PingerStops, PingerGoes
<1>15. CASE Cancel \/ \E code \in {"polite", "abrupt"} : PeerCloses(code)
  BY <1>15 DEF Cancel, PeerCloses
<1>16. CASE Over
  BY <1>16 DEF Over, vars
<1>17. QED
  BY <1>1, <1>2, <1>3, <1>4, <1>5, <1>6, <1>7, <1>8, <1>9, <1>10, <1>11, <1>12, <1>13, <1>14, <1>15, <1>16
     DEF Next, CallerStep

\* Type correctness: every goroutine of a call is always at a place of its
\* code, and the result is never longer than what was sent nor than the limit.
THEOREM TypeCorrect == Spec => []TypeOK
<1>1. TypeOK /\ [Next]_vars => TypeOK'
  BY CountsStep, LabelsStep, FlagsStep DEF TypeOK
<1>2. QED
  BY TypeInit, <1>1, PTL DEF Spec

-----------------------------------------------------------------------------
(* The inductive invariant.                                                *)

\* Closing has begun only when the body of Close is past its Lock.
CloseInv == closing => once \in {"write", "conn", "done"}

\* Whoever closes: the caller on its way out, or the watcher after a cancel.
CloserInv ==
  /\ watcher = "close" => ctx = "cancelled"
  /\ once # "new" => \/ ctx = "cancelled"
                     \/ caller \in {"flushClose", "close", "returned"}
                     \/ caller = "unwatch" /\ result = "error"

\* Audio is lost only together with an error.
AudioInv == ~err => got = sent

\* Why the read loop has ended.
ReaderInv ==
  /\ reader \in {"exit", "ended"} => sent = size \/ err \/ peer = "polite" \/ closing
  /\ done => reader = "ended"
  /\ reader = "off" => ~failed
  /\ caller \in {"dial", "connected", "start", "started"} => reader = "off"
  /\ failed => reader = "report" \/ err
  /\ reader \in {"exit", "ended"} /\ failed => err

\* What the caller has by then.
ResultInv ==
  /\ result = "audio" => /\ caller \in {"unwatch", "close", "returned"}
                         /\ done /\ ~err /\ (got = size \/ peer = "polite")
  /\ caller = "collect" => done
  /\ caller = "flushClose" => result = "error"
  /\ caller \in {"dial", "connected", "started", "wait", "collect"} \union Messages
       => result = "none"

Reasons == CloseInv /\ CloserInv /\ AudioInv /\ ReaderInv /\ ResultInv
IInv    == Counts /\ Labels /\ Reasons

\* The reasons hold at the start: nothing has happened yet.
LEMMA ReasonsInit == Init => Reasons
  BY DEF Init, Reasons, CloseInv, CloserInv, AudioInv, ReaderInv, ResultInv, Messages

\* Every step of every goroutine keeps them.
LEMMA ReasonsStep == IInv /\ [Next]_vars => Reasons'
<1> SUFFICES ASSUME IInv, [Next]_vars PROVE Reasons'
  OBVIOUS
<1> USE DEF IInv, Counts, Labels, Reasons, CloseInv, CloserInv, AudioInv, ReaderInv, ResultInv,
            Messages, upstream, threads, flags, outcome
<1>1. CASE UNCHANGED vars
  BY <1>1 DEF vars
<1>2. CASE Dial \/ DialFails \/ Handshake
  BY <1>2 DEF Dial, DialFails, Handshake, CallerGoes, CallerOnly
<1>3. CASE HandshakeRefused \/ HandshakeBroken
  BY <1>3 DEF HandshakeRefused, HandshakeBroken, Leave, CallerGoes, CallerOnly
<1>4. CASE CallerLocks
  BY <1>4 DEF CallerLocks, Leave, CallerGoes
<1>5. CASE CallerWrites
  BY <1>5, AfterWrites DEF CallerWrites, Leave, CallerGoes
<1>6. CASE FlushDone
  BY <1>6 DEF FlushDone, CallerGoes, CallerOnly
<1>7. CASE \E why \in {"cancelled", "timeout"} : FlushGivesUp(why)
  BY <1>7 DEF FlushGivesUp, CallerGoes, CallerOnly
<1>8. CASE FlushClosed
  BY <1>8 DEF FlushClosed, CallerGoes, CallerOnly
<1>9. CASE Collect \/ Unwatch \/ Return
  BY <1>9 DEF Collect, Unwatch, Return, CallerGoes, CallerOnly
<1>10. CASE CloseStep
  BY <1>10 DEF CloseStep, CloseEnter, CloseLock, CloseWrite, CloseConn, CloseGoes
<1>11. CASE WatcherFires \/ WatcherEnds
  BY <1>11 DEF WatcherFires, WatcherEnds, WatcherGoes
<1>12. CASE ReadAudio
  BY <1>12 DEF ReadAudio
<1>13. CASE ReadFinished \/ ReadFailed \/ ReaderStep
  BY <1>13 DEF ReadFinished, ReadFailed, ReaderStep, ReadBroken, ReaderExcuses, ReaderFails,
     ReaderReports, ReaderExits, ReaderGoes
<1>14. CASE PingerLocks \/ PingerPings \/ PingerStops
  BY <1>14 DEF PingerLocks, PingerPings, PingerStops, PingerGoes
<1>15. CASE Cancel \/ \E code \in {"polite", "abrupt"} : PeerCloses(code)
  BY <1>15 DEF Cancel, PeerCloses
<1>16. CASE Over
  BY <1>16 DEF Over, vars
<1>17. QED
  BY <1>1, <1>2, <1>3, <1>4, <1>5, <1>6, <1>7, <1>8, <1>9, <1>10, <1>11, <1>12, <1>13, <1>14, <1>15, <1>16
     DEF Next, CallerStep

\* So they always hold.
LEMMA Invariance == Spec => []IInv
<1>1. Init => IInv
  BY TypeInit, ReasonsInit DEF IInv, TypeOK
<1>2. IInv /\ [Next]_vars => IInv'
  BY CountsStep, LabelsStep, ReasonsStep DEF IInv
<1>3. QED
  BY <1>1, <1>2, PTL DEF Spec

-----------------------------------------------------------------------------
(* The theorems.                                                           *)

\* An audio cut short is never a success, unless the upstream closed the
\* connection with a normal code: the caller collects only when the read loop
\* has ended, and that loop ends without an error only at task_finished, at a
\* polite close, or while this end closes, which then is an error of the caller.
THEOREM AudioIsNotCut == Spec => []AudioIsWholeUnlessClosed
<1>1. IInv => AudioIsWholeUnlessClosed
  BY DEF IInv, Reasons, ResultInv, AudioIsWholeUnlessClosed
<1>2. QED
  BY <1>1, Invariance, PTL

\* An error the read loop has met reaches the caller: it is recorded before
\* doneChan is closed, and failed is set only on the way there.
THEOREM ErrorsAreTold == Spec => []NoSilentFailure
<1>1. IInv => NoSilentFailure
  BY DEF IInv, Reasons, ReaderInv, ResultInv, NoSilentFailure
<1>2. QED
  BY <1>1, Invariance, PTL

\* Once Close has begun nobody begins another write: whoever takes the mutex
\* looks at closing under it, and Close itself has passed its Lock.
THEOREM CloseIsLast == Spec => ClosingIsFinal
<1>1. IInv /\ [Next]_vars => [closing => mu' \in {mu, "free"}]_vars
  <2> SUFFICES ASSUME IInv, Next, closing PROVE mu' \in {mu, "free"}
    OBVIOUS
  <2> USE DEF IInv, Reasons, CloseInv, upstream, threads, flags, outcome
  <2>1. CASE CallerStep \/ Handshake \/ HandshakeRefused
    BY <2>1 DEF CallerStep, Dial, DialFails, Handshake, HandshakeRefused, HandshakeBroken,
       CallerLocks, CallerWrites, FlushDone, FlushGivesUp, FlushClosed, Collect, Unwatch,
       Return, Leave, CallerOnly
  <2>2. CASE CloseStep
    BY <2>2 DEF CloseStep, CloseEnter, CloseLock, CloseWrite, CloseConn, CloseGoes
  <2>3. CASE WatcherFires \/ WatcherEnds
    BY <2>3 DEF WatcherFires, WatcherEnds, WatcherGoes
  <2>4. CASE ReadAudio \/ ReadFinished \/ ReadFailed \/ ReaderStep
    BY <2>4 DEF ReadAudio, ReadFinished, ReadFailed, ReaderStep, ReadBroken, ReaderExcuses,
       ReaderFails, ReaderReports, ReaderExits, ReaderGoes
  <2>5. CASE PingerLocks \/ PingerPings \/ PingerStops
    BY <2>5 DEF PingerLocks, PingerPings, PingerStops, PingerGoes
  <2>6. CASE Cancel \/ Over \/ \E code \in {"polite", "abrupt"} : PeerCloses(code)
    BY <2>6 DEF Cancel, Over, PeerCloses, vars
  <2>7. QED
    BY <2>1, <2>2, <2>3, <2>4, <2>5, <2>6 DEF Next
<1>2. QED
  BY <1>1, Invariance, PTL DEF Spec, ClosingIsFinal
====
