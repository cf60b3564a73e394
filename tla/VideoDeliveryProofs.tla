------------------------- MODULE VideoDeliveryProofs -------------------------
(***************************************************************************)
(* Theorems about VideoDelivery, for blocks, limits and videos of any      *)
(* length: what a client may hold of a stream of chunks, wherever the      *)
(* upstream, the network or the client itself breaks it off.               *)
(***************************************************************************)
EXTENDS VideoDelivery, TLAPS

-----------------------------------------------------------------------------
(* What is sent at the end of a video.                                     *)

\* A full block that another one follows, and a last one.
Full(k)    == [seq |-> k, bytes |-> Block, final |-> FALSE]
End(k, n)  == [seq |-> k, bytes |-> n, final |-> TRUE]

\* The three ways EmitVideoChunksFromReader ends a stream.
LEMMA LastChunksAre ==
  ASSUME NEW n, ahead \in {0, Block}, ahead # 0 \/ n # 0
  PROVE  \/ ahead = 0 /\ LastChunks(n) = <<End(0, n)>>
         \/ ahead = Block /\ n = 0 /\ LastChunks(n) = <<End(sequence, Block)>>
         \/ ahead = Block /\ n # 0 /\ LastChunks(n) = <<Full(sequence), End(sequence + 1, n)>>
<1>1. CASE ahead = 0
  BY <1>1 DEF LastChunks, End
<1>2. CASE ahead # 0 /\ n = 0
  BY <1>2 DEF LastChunks, End
<1>3. CASE ahead # 0 /\ n # 0
  BY <1>3 DEF LastChunks, End, Full
<1>4. QED
  BY <1>1, <1>2, <1>3

-----------------------------------------------------------------------------
(* The inductive invariant.                                                *)

\* What is being read: never more than there is, block by block.
ReadInv ==
  /\ size \in Nat /\ total \in Nat /\ total <= size
  /\ ahead \in {0, Block} /\ sequence \in Nat
  /\ chunks \in Seq(Chunk) /\ outbox \in Seq(Chunk)

\* The first n chunks the client has are full blocks, numbered from 0.
FullUpTo(n) == \A i \in 1 .. n : chunks[i] = Full(i - 1)

\* Before the video is read there is no chunk; while it is, only full blocks, the
\* one read ahead not among them; and of an ended one the outbox holds the rest.
StreamInv ==
  /\ phase \in {"submit", "poll", "pause", "open"}
       => chunks = <<>> /\ outbox = <<>> /\ total = 0 /\ ahead = 0 /\ sequence = 0
  /\ phase = "read" =>
       /\ FullUpTo(Len(chunks))
       /\ \/ outbox = <<>> /\ sequence = Len(chunks)
          \/ outbox = <<Full(Len(chunks))>> /\ sequence = Len(chunks) + 1
       /\ ahead = 0 => sequence = 0
       /\ total = sequence * Block + ahead
  /\ phase = "ended" => cut \/ total = size
  /\ phase = "ended" /\ outbox # <<>> =>
       /\ FullUpTo(Len(chunks))
       /\ \E n \in 1 .. Block :
             \/ outbox = <<End(Len(chunks), n)>> /\ total = Len(chunks) * Block + n
             \/ /\ outbox = <<Full(Len(chunks)), End(Len(chunks) + 1, n)>>
                /\ total = (Len(chunks) + 1) * Block + n
  /\ phase = "ended" /\ outbox = <<>> =>
       /\ Len(chunks) > 0 /\ FullUpTo(Len(chunks) - 1)
       /\ \E n \in 1 .. Block : /\ chunks[Len(chunks)] = End(Len(chunks) - 1, n)
                                /\ total = (Len(chunks) - 1) * Block + n

\* A success comes after the last chunk, every other result before it.
EndInv ==
  /\ phase \in {"submit", "poll", "pause", "open", "read", "ended"}
  /\ result = "ok" => phase = "ended" /\ outbox = <<>>
  /\ result \in {"error", "unsent", "pending", "failed"} => phase # "ended" \/ outbox # <<>>

Inv == ReadInv /\ StreamInv /\ EndInv

\* What may be in the outbox is a sequence of chunks.
LEMMA ChunksFit ==
  ASSUME NEW k \in Nat, NEW n \in 1 .. Block
  PROVE  /\ <<Full(k)>> \in Seq(Chunk) /\ <<End(k, n)>> \in Seq(Chunk)
         /\ <<Full(k), End(k + 1, n)>> \in Seq(Chunk)
<1>1. Full(k) \in Chunk /\ End(k, n) \in Chunk /\ End(k + 1, n) \in Chunk
  BY ConstantsAssumption DEF End, Full, Chunk
<1>2. QED
  BY <1>1

\* Nothing is sent at the start.
LEMMA InvInit == Init => Inv
<1> SUFFICES ASSUME Init PROVE Inv
  OBVIOUS
<1>1. phase \in {"submit", "poll", "open"}
  BY Zenon DEF Init
<1>2. ReadInv
  BY DEF Init, ReadInv
<1>3. StreamInv
  BY <1>1 DEF Init, StreamInv
<1>4. EndInv
  BY <1>1 DEF Init, EndInv
<1>5. QED
  BY <1>2, <1>3, <1>4 DEF Inv

\* What the client does not see, and the environment, change nothing of it.
streamVars == <<phase, size, cut, total, ahead, sequence, outbox, chunks, result>>

\* Every step keeps the stream and the reading together.
LEMMA InvStep == Inv /\ [Next]_vars => Inv'
<1> SUFFICES ASSUME Inv, [Next]_vars PROVE Inv'
  OBVIOUS
<1> USE DEF Inv, ReadInv, StreamInv, EndInv
<1>1. CASE UNCHANGED streamVars
  BY <1>1 DEF streamVars, FullUpTo
<1>2. ASSUME NEW next \in {"poll", "pause", "open"}, Running, GoTo(next),
             phase \in {"submit", "poll", "pause"}
      PROVE  Inv'
  BY <1>2 DEF Running, GoTo, readVars, FullUpTo
<1>3. ASSUME NEW status \in {"error", "pending", "failed"}, Running, Reply(status),
             phase # "ended" \/ outbox # <<>>
      PROVE  Inv'
  BY <1>3 DEF Running, Reply, readVars, FullUpTo
<1>4. CASE Open
  <2>1. CASE Fail /\ Running /\ phase = "open"
    BY <1>3, <2>1 DEF Fail
  <2>2. CASE ~Fail
    <3>1. /\ phase = "open" /\ phase' = "read" /\ size' \in Sizes /\ result = "none"
          /\ UNCHANGED <<cut, total, ahead, sequence, outbox, chunks, result>>
      BY <1>4, <2>2 DEF Open, Running
    <3>2. total = 0
      BY <3>1
    <3>3. size' \in Nat
      BY <3>1, ConstantsAssumption
    <3>4. Len(chunks) = 0 /\ FullUpTo(Len(chunks))'
      BY <3>1 DEF FullUpTo
    <3>5. ReadInv' /\ EndInv'
      BY <3>1, <3>2, <3>3
    <3>6. outbox' = <<>> /\ sequence' = Len(chunks') /\ sequence' = 0
      BY <3>1, <3>4
    <3>7. total' = sequence' * Block + ahead'
      <4>1. 0 * Block + 0 = 0
        BY ConstantsAssumption
      <4>2. QED
        BY <3>1, <3>2, <3>6, <4>1
    <3>8. StreamInv'
      BY <3>1, <3>4, <3>6, <3>7 DEF FullUpTo
    <3>9. QED
      BY <3>5, <3>8
  <2>3. QED
    BY <1>4, <2>1, <2>2 DEF Open
<1>5. CASE ReadBlock
  <2>1. /\ result = "none" /\ phase = "read" /\ outbox = <<>> /\ size' = size /\ chunks' = chunks
        /\ FullUpTo(Len(chunks)) /\ sequence = Len(chunks) /\ (ahead = 0 => sequence = 0)
    BY <1>5 DEF ReadBlock, Running
  <2>2. CASE FullBlock
    <3>1. total' \in Nat /\ total' <= size' /\ ahead' = Block /\ ahead' # 0
      BY <2>1, <2>2, ConstantsAssumption DEF FullBlock
    <3>2. \/ outbox' = <<>> /\ sequence' = sequence
          \/ outbox' = <<Full(sequence)>> /\ sequence' = sequence + 1
      BY <2>1, <2>2 DEF FullBlock, Full
    <3>3. outbox' \in Seq(Chunk)
      <4>1. Block \in 1 .. Block /\ sequence \in Nat
        BY ConstantsAssumption
      <4>2. <<Full(sequence)>> \in Seq(Chunk)
        BY <4>1, ChunksFit, Zenon
      <4>3. <<>> \in Seq(Chunk)
        OBVIOUS
      <4>4. QED
        BY <3>2, <4>2, <4>3, Zenon
    <3>4. phase' = phase /\ result' = result
      BY <2>2 DEF FullBlock
    <3>5. total' = sequence' * Block + ahead'
      <4>1. total = sequence * Block + ahead /\ sequence \in Nat /\ Block \in Nat /\ total \in Nat
        BY <2>1, ConstantsAssumption
      <4>2. 0 * Block = 0 /\ (sequence + 1) * Block = sequence * Block + Block
        BY <4>1
      <4>3. CASE ahead = 0
        BY <2>1, <2>2, <4>1, <4>2, <4>3 DEF FullBlock
      <4>4. CASE ahead # 0
        BY <2>1, <2>2, <4>1, <4>2, <4>4 DEF FullBlock
      <4>5. QED
        BY <4>3, <4>4
    <3>6. QED
      BY <2>1, <3>1, <3>2, <3>3, <3>4, <3>5 DEF FullUpTo
  <2>3. ASSUME NEW n \in Nat, RejectBlock(n)
        PROVE  Inv'
    BY <2>1, <2>3 DEF RejectBlock, FullUpTo
  <2>4. ASSUME NEW n \in 0 .. (Block - 1), n <= size - total, LastBlock(n), cut' \/ n = size - total
        PROVE  Inv'
    <3>1. /\ total' = total + n /\ outbox' = LastChunks(n) /\ phase' = "ended"
          /\ UNCHANGED <<ahead, sequence, result>> /\ ahead + n > 0
      BY <2>4 DEF LastBlock
    <3>2. ahead # 0 \/ n # 0
      BY <3>1
    <3>3. n \in Nat /\ Block \in 1 .. Block /\ (n # 0 => n \in 1 .. Block)
      BY ConstantsAssumption
    <3>4. \/ outbox' = <<End(sequence, n)>> /\ n # 0 /\ ahead = 0
          \/ outbox' = <<End(sequence, Block)>> /\ n = 0 /\ ahead = Block
          \/ outbox' = <<Full(sequence), End(sequence + 1, n)>> /\ n # 0 /\ ahead = Block
      <4>1. ahead \in {0, Block}
        OBVIOUS
      <4>2. \/ ahead = 0 /\ LastChunks(n) = <<End(0, n)>>
            \/ ahead = Block /\ n = 0 /\ LastChunks(n) = <<End(sequence, Block)>>
            \/ ahead = Block /\ n # 0 /\ LastChunks(n) = <<Full(sequence), End(sequence + 1, n)>>
        BY <3>2, <4>1, LastChunksAre
      <4>3. QED
        BY <2>1, <3>1, <3>2, <4>2
    <3>5. \E m \in 1 .. Block :
             \/ outbox' = <<End(sequence, m)>> /\ total' = sequence * Block + m
             \/ outbox' = <<Full(sequence), End(sequence + 1, m)>> /\ total' = (sequence + 1) * Block + m
      <4>1. /\ total = sequence * Block + ahead /\ sequence \in Nat /\ total \in Nat
            /\ (sequence + 1) * Block = sequence * Block + Block /\ sequence * Block \in Nat
        BY <2>1, ConstantsAssumption
      <4>2. CASE n # 0 /\ ahead = 0
        BY <3>1, <3>3, <3>4, <4>1, <4>2
      <4>3. CASE n = 0 /\ ahead = Block
        BY <3>1, <3>3, <3>4, <4>1, <4>3
      <4>4. CASE n # 0 /\ ahead = Block
        BY <3>1, <3>3, <3>4, <4>1, <4>4
      <4>5. QED
        BY <3>4, <4>2, <4>3, <4>4
    <3>6. outbox' \in Seq(Chunk)
      <4>1. sequence \in Nat
        OBVIOUS
      <4>2. \A m \in 1 .. Block :
               <<End(sequence, m)>> \in Seq(Chunk) /\ <<Full(sequence), End(sequence + 1, m)>> \in Seq(Chunk)
        BY <4>1, ChunksFit, Zenon
      <4>3. QED
        BY <3>5, <4>2, Zenon
    <3>7. total' \in Nat /\ total' <= size'
      BY <2>1, <2>4, <3>1, <3>3, ConstantsAssumption
    <3>8. outbox' # <<>>
      <4>1. Len(outbox') # 0
        <5>1. ASSUME NEW m
              PROVE  Len(<<End(sequence, m)>>) # 0 /\ Len(<<Full(sequence), End(sequence + 1, m)>>) # 0
          OBVIOUS
        <5>2. QED
          BY <3>5, <5>1, Zenon
      <4>2. Len(<<>>) = 0
        OBVIOUS
      <4>3. QED
        BY <4>1, <4>2, Zenon
    <3>9. ReadInv' /\ EndInv'
      BY <2>1, <3>1, <3>6, <3>7, <3>8
    <3>10. FullUpTo(Len(chunks))'
      BY <2>1 DEF FullUpTo
    <3>11. \E m \in 1 .. Block :
              \/ outbox' = <<End(Len(chunks'), m)>> /\ total' = Len(chunks') * Block + m
              \/ /\ outbox' = <<Full(Len(chunks')), End(Len(chunks') + 1, m)>>
                 /\ total' = (Len(chunks') + 1) * Block + m
      BY <2>1, <3>5
    <3>12. StreamInv'
      <4>1. cut' \/ total' = size'
        BY <2>1, <2>4, <3>1, <3>3
      <4>2. QED
        BY <3>1, <3>8, <3>10, <3>11, <4>1
    <3>13. QED
      BY <3>9, <3>12
  <2>5. CASE size - total >= Block /\ RejectBlock(Block)
    BY <2>3, <2>5, ConstantsAssumption
  <2>6. CASE size - total < Block /\ ReaderEnds(size - total)
    <3>1. size - total \in Nat /\ size - total \in 0 .. (Block - 1)
      BY <2>6, ConstantsAssumption
    <3>2. QED
      BY <2>3, <2>4, <2>6, <3>1 DEF ReaderEnds
  <2>7. ASSUME NEW n \in 0 .. (Block - 1), n < size - total, cut', ReaderEnds(n)
        PROVE  Inv'
    <3>1. n \in Nat /\ n <= size - total
      BY <2>7, ConstantsAssumption
    <3>2. QED
      BY <2>3, <2>4, <2>7, <3>1 DEF ReaderEnds
  <2>8. \/ FullBlock
        \/ size - total >= Block /\ RejectBlock(Block)
        \/ size - total < Block /\ ReaderEnds(size - total)
        \/ cut' /\ \E n \in 0 .. (Block - 1) : n < size - total /\ ReaderEnds(n)
    BY <1>5, Zenon DEF ReadBlock
  <2>9. QED
    BY <2>2, <2>5, <2>6, <2>7, <2>8
<1>6. CASE Emit
  <2>1. /\ result = "none" /\ outbox # <<>> /\ FullUpTo(Len(chunks))
        /\ UNCHANGED <<phase, size, cut, total, ahead, sequence>>
    BY <1>6 DEF Emit, Running
  <2>2. CASE result' = "unsent" /\ UNCHANGED <<chunks, outbox>>
    BY <2>1, <2>2 DEF FullUpTo
  <2>3. CASE chunks' = Append(chunks, Head(outbox)) /\ outbox' = Tail(outbox) /\ result' = result
    <3> DEFINE len == Len(chunks)
    <3>0. len \in Nat
      OBVIOUS
    <3>1. CASE phase = "read"
      <4>1. outbox = <<Full(len)>>
        BY <2>1, <3>1
      <4>2. outbox' = <<>> /\ chunks' = Append(chunks, Full(len)) /\ len' = len + 1
        BY <2>3, <4>1
      <4>3. FullUpTo(Len(chunks))'
        BY <2>1, <4>2 DEF FullUpTo
      <4>4. QED
        BY <2>1, <2>3, <3>1, <4>1, <4>2, <4>3
    <3>2. CASE phase = "ended"
      <4>1. PICK n \in 1 .. Block :
               \/ outbox = <<End(len, n)>> /\ total = len * Block + n
               \/ outbox = <<Full(len), End(len + 1, n)>> /\ total = (len + 1) * Block + n
        BY <2>1, <3>2
      <4>2. CASE outbox = <<End(len, n)>> /\ total = len * Block + n
        <5>1. outbox' = <<>> /\ chunks' = Append(chunks, End(len, n)) /\ len' = len + 1
          BY <2>3, <4>2
        <5>2. FullUpTo(Len(chunks) - 1)' /\ chunks'[len'] = End(len' - 1, n) /\ len' - 1 = len
          BY <2>1, <5>1 DEF FullUpTo
        <5>3. chunks' \in Seq(Chunk) /\ outbox' \in Seq(Chunk)
          BY <2>3, <4>2
        <5>4. /\ Len(chunks') > 0 /\ FullUpTo(Len(chunks) - 1)'
              /\ \E m \in 1 .. Block : /\ chunks'[Len(chunks')] = End(Len(chunks') - 1, m)
                                       /\ total' = (Len(chunks') - 1) * Block + m
          BY <2>1, <3>0, <4>2, <5>1, <5>2
        <5>5. ReadInv' /\ EndInv'
          BY <2>1, <2>3, <3>2, <5>1, <5>3
        <5>6. StreamInv'
          BY <2>1, <3>2, <5>1, <5>4
        <5>7. QED
          BY <5>5, <5>6
      <4>3. CASE outbox = <<Full(len), End(len + 1, n)>> /\ total = (len + 1) * Block + n
        <5>1. outbox' = <<End(len + 1, n)>> /\ chunks' = Append(chunks, Full(len)) /\ len' = len + 1
          BY <2>3, <4>3
        <5>2. FullUpTo(Len(chunks))'
          BY <2>1, <5>1 DEF FullUpTo
        <5>3. chunks' \in Seq(Chunk) /\ outbox' \in Seq(Chunk) /\ outbox' # <<>>
          BY <2>3, <4>3
        <5>4. \E m \in 1 .. Block : /\ outbox' = <<End(Len(chunks'), m)>>
                                    /\ total' = Len(chunks') * Block + m
          BY <2>1, <3>0, <4>3, <5>1
        <5>5. ReadInv' /\ EndInv'
          BY <2>1, <2>3, <3>2, <5>3
        <5>6. StreamInv'
          BY <2>1, <3>2, <5>2, <5>3, <5>4
        <5>7. QED
          BY <5>5, <5>6
      <4>4. QED
        BY <4>1, <4>2, <4>3
    <3>3. QED
      BY <2>1, <3>1, <3>2
  <2>4. QED
    BY <1>6, <2>2, <2>3 DEF Emit
<1>7. CASE Return
  BY <1>7 DEF Return, Running, readVars, FullUpTo
<1>8. CASE SubmitVideo \/ PauseEnds \/ ContextEndsCall \/ ConnectionBreaks
  <2>1. CASE SubmitVideo \/ PauseEnds
    BY <2>1, <1>2, <1>3 DEF SubmitVideo, PauseEnds, Fail
  <2>2. CASE ContextEndsCall
    BY <2>2, <1>3 DEF ContextEndsCall, Interruptible, Fail
  <2>3. CASE ConnectionBreaks
    BY <2>3, <1>3 DEF ConnectionBreaks, ReadFails, Fail
  <2>4. QED
    BY <1>8, <2>1, <2>2, <2>3
<1>9. CASE GetVideo
  <2>1. /\ Running /\ phase = "poll"
        /\ \/ GoTo("pause") \/ GoTo("open")
           \/ Reply("error") \/ Reply("pending") \/ Reply("failed")
    BY <1>9, Zenon DEF GetVideo, Follow, Closes, Fail
  <2>2. QED
    BY <2>1, <1>2, <1>3
<1>10. CASE JobEnds \/ Cancel \/ Tick
  BY <1>10, <1>1 DEF JobEnds, Cancel, Tick, streamVars, readVars
<1>11. QED
  BY <1>1, <1>4, <1>5, <1>6, <1>7, <1>8, <1>9, <1>10 DEF Next, vars, jobVars, readVars, streamVars

\* So it always holds.
LEMMA Invariance == Spec => []Inv
  BY InvInit, InvStep, PTL DEF Spec

-----------------------------------------------------------------------------
(* The theorems.                                                           *)

\* The chunks the client has, while some are missing and when none is.
Ended == phase = "ended" /\ outbox = <<>>

\* By the invariant the chunks are full blocks, and an ended video's last is final.
LEMMA ChunksAre ==
  Inv => /\ chunks \in Seq(Chunk)
         /\ ~Ended => FullUpTo(Len(chunks))
         /\ Ended => /\ Len(chunks) > 0 /\ FullUpTo(Len(chunks) - 1)
                     /\ \E n \in 1 .. Block : /\ chunks[Len(chunks)] = End(Len(chunks) - 1, n)
                                              /\ total = (Len(chunks) - 1) * Block + n
<1> SUFFICES ASSUME Inv PROVE /\ ~Ended => FullUpTo(Len(chunks))
                              /\ Ended => /\ Len(chunks) > 0 /\ FullUpTo(Len(chunks) - 1)
                                          /\ \E n \in 1 .. Block :
                                                /\ chunks[Len(chunks)] = End(Len(chunks) - 1, n)
                                                /\ total = (Len(chunks) - 1) * Block + n
  BY DEF Inv, ReadInv
<1>1. CASE phase \in {"submit", "poll", "pause", "open"}
  <2>1. Len(chunks) = 0
    BY <1>1 DEF Inv, StreamInv
  <2>2. QED
    BY <1>1, <2>1 DEF Ended, FullUpTo
<1>2. CASE phase \in {"read", "ended"}
  BY <1>2, Zenon DEF Inv, StreamInv, Ended
<1>3. QED
  BY <1>1, <1>2 DEF Inv, EndInv

\* What a client has received is always a beginning of a well-formed stream, for
\* any block length and any video: numbered from 0 without a gap, full blocks but
\* for the last, and no chunk after a final one.
THEOREM ChunksAreAStream == Spec => []StreamWellFormed
<1>1. Inv => StreamWellFormed
  <2> SUFFICES ASSUME Inv, NEW i \in 1 .. Len(chunks)
               PROVE  /\ chunks[i].seq = i - 1
                      /\ i < Len(chunks) => chunks[i].bytes = Block /\ ~chunks[i].final
    BY Zenon DEF StreamWellFormed
  <2>1. Len(chunks) \in Nat
    BY ChunksAre
  <2>2. CASE ~Ended \/ i < Len(chunks)
    <3>1. chunks[i] = Full(i - 1)
      BY <2>1, <2>2, ChunksAre DEF FullUpTo
    <3>2. QED
      BY <3>1 DEF Full
  <2>3. CASE Ended /\ i = Len(chunks)
    <3>1. PICK n : chunks[i] = End(i - 1, n)
      BY <2>3, ChunksAre
    <3>2. chunks[i].seq = i - 1
      BY <3>1 DEF End
    <3>3. ~(i < Len(chunks))
      BY <2>1, <2>3
    <3>4. QED
      BY <3>2, <3>3
  <2>4. i < Len(chunks) \/ i = Len(chunks)
    BY <2>1
  <2>5. QED
    BY <2>2, <2>3, <2>4
<1>2. QED
  BY <1>1, Invariance, PTL

\* A call succeeds exactly when the client has the final chunk: an error can follow
\* only chunks that are not final, and success only a final one.
THEOREM SuccessHasItsEnd == Spec => []SuccessIsFinal
<1>1. Inv => SuccessIsFinal
  <2> SUFFICES ASSUME Inv PROVE SuccessIsFinal
    OBVIOUS
  <2>1. Len(chunks) \in Nat /\ (chunks = <<>> => Len(chunks) = 0)
    BY ChunksAre
  <2>2. result = "ok" => chunks # <<>> /\ Last(chunks).final
    <3> SUFFICES ASSUME result = "ok" PROVE chunks # <<>> /\ Last(chunks).final
      OBVIOUS
    <3>1. Ended
      BY DEF Inv, EndInv, Ended
    <3>2. PICK n : Len(chunks) > 0 /\ chunks[Len(chunks)] = End(Len(chunks) - 1, n)
      BY <3>1, ChunksAre
    <3>3. chunks # <<>>
      BY <2>1, <3>2
    <3>4. QED
      BY <3>2, <3>3 DEF End, Last
  <2>3. result \in {"error", "unsent", "pending", "failed"}
           => \A i \in 1 .. Len(chunks) : ~chunks[i].final
    <3> SUFFICES ASSUME ~Ended, NEW i \in 1 .. Len(chunks) PROVE ~chunks[i].final
      BY DEF Inv, EndInv, Ended
    <3>1. chunks[i] = Full(i - 1)
      BY ChunksAre DEF FullUpTo
    <3>2. QED
      BY <3>1 DEF Full
  <2>4. QED
    BY <2>2, <2>3 DEF SuccessIsFinal
<1>2. QED
  BY <1>1, Invariance, PTL


\* A final chunk means the whole video, up to what the reader took for its end: the
\* look-ahead holds back the block that may be the last, and counts it once.
THEOREM FinalIsTheEnd == Spec => []FinalMarksWholeVideo
<1>1. Inv => FinalMarksWholeVideo
  <2> SUFFICES ASSUME Inv, chunks # <<>>, Last(chunks).final
               PROVE  Received = total /\ (cut \/ Received = size)
    BY DEF FinalMarksWholeVideo
  <2> DEFINE len == Len(chunks)
  <2>1. len \in Nat /\ len > 0 /\ Last(chunks) = chunks[len]
    BY ChunksAre DEF Last
  <2>2. Ended
    <3> SUFFICES ASSUME ~Ended PROVE FALSE
      OBVIOUS
    <3>1. chunks[len] = Full(len - 1)
      BY <2>1, ChunksAre DEF FullUpTo
    <3>2. ~chunks[len].final
      BY <3>1 DEF Full
    <3>3. QED
      BY <2>1, <3>2
  <2>3. PICK n \in 1 .. Block : chunks[len] = End(len - 1, n) /\ total = (len - 1) * Block + n
    BY <2>2, ChunksAre
  <2>4. chunks[len].bytes = n
    BY <2>3 DEF End
  <2>5. Received = total
    BY <2>1, <2>3, <2>4 DEF Received
  <2>6. cut \/ total = size
    BY <2>2 DEF Ended, Inv, StreamInv
  <2>7. QED
    BY <2>5, <2>6
<1>2. QED
  BY <1>1, Invariance, PTL

\* The three together, which is what a client may rely on.
THEOREM ClientIsToldTheVideo == Spec => []StreamTellsVideo
  BY ChunksAreAStream, FinalIsTheEnd, SuccessHasItsEnd, PTL DEF StreamTellsVideo
-----------------------------------------------------------------------------
(* What the providers make of the end of a job.                            *)

\* A verdict that a job has ended is true of the job, and no verdict on an ended
\* one is RUNNING, but for Veo.
Judged(f, j, doc) ==
  /\ Verdict(f, doc) = "succeeded" => j = "succeeded"
  /\ Verdict(f, doc) = "failed" => j = "failed"
  /\ Verdict(f, doc) \in {"running", "succeeded", "failed", "error"}
  /\ j # "running" /\ f # "veo" => Verdict(f, doc) # "running"

\* The verdict by the status.
LEMMA VerdictIs ==
  ASSUME NEW f, NEW doc
  PROVE  /\ QueryError(f, doc) => Verdict(f, doc) = "error"
         /\ ~QueryError(f, doc) =>
              /\ Status(f, doc) \in Succeeds(f) => Verdict(f, doc) = "succeeded"
              /\ Status(f, doc) \in Fails(f) /\ Status(f, doc) \notin Succeeds(f) =>
                   Verdict(f, doc) = "failed"
              /\ Status(f, doc) \notin Fails(f) /\ Status(f, doc) \notin Succeeds(f) =>
                   Verdict(f, doc) = "running"
<1>1. CASE QueryError(f, doc)
  BY <1>1 DEF Verdict
<1>2. CASE ~QueryError(f, doc)
  <2>1. Status(f, doc) \in Succeeds(f) => Verdict(f, doc) = "succeeded"
    <3>1. Status(f, doc) \notin Fails(f) \/ Status(f, doc) \notin Succeeds(f)
      BY DEF Fails, Succeeds, WordsOf, GeminiWords, LtxWords, DashScopeWords, ArkWords, OminiLinkWords
    <3>2. QED
      BY <1>2, <3>1 DEF Verdict
  <2>2. QED
    BY <1>2, <2>1 DEF Verdict
<1>3. QED
  BY <1>1, <1>2

\* The lists of words.
LEMMA Lists ==
  /\ Succeeds("gemini") = {"completed", "succeeded", "success"}
  /\ Fails("gemini") = {"failed", "error", "canceled"}
  /\ Succeeds("ltx") = {"done"} /\ Fails("ltx") = {"error"}
  /\ Succeeds("dashscope") = {"succeeded"}
  /\ Fails("dashscope") = {"failed", "canceled", "unknown", "failure", "error"}
  /\ \A f \in {"ark", "ominilink", "veo"} :
       /\ Succeeds(f) = {"succeeded", "success", "completed", "done"}
       /\ Fails(f) = {"failed", "failure", "fail", "error", "canceled", "expired"}
  BY DEF Succeeds, Fails, WordsOf, GeminiWords, LtxWords, DashScopeWords, ArkWords, OminiLinkWords

\* A word of an answer is one of the list for the state of the job.
LEMMA WordsOfJob ==
  ASSUME NEW f
  PROVE  /\ Words(f, "running") = {"running"}
         /\ Words(f, "succeeded") = Succeeds(f)
         /\ Words(f, "failed") = Fails(f)
  BY DEF Words

Ends == {"running", "succeeded", "failed"}

\* Gemini and LTX go by the word.
LEMMA WordJudged ==
  ASSUME NEW f \in {"gemini", "ltx"}, NEW j \in Ends, NEW doc \in Documents(f, j)
  PROVE  Judged(f, j, doc)
<1>1. doc \in Worded(f, j)
  BY DEF Documents
<1>2. doc.word \in Words(f, j)
  BY <1>1 DEF Worded
<1>3. ~QueryError(f, doc) /\ Status(f, doc) = doc.word
  BY DEF QueryError, OminiLink, Status
<1>4. QED
  BY <1>2, <1>3, VerdictIs, WordsOfJob, Lists DEF Judged, Ends

\* DashScope answers with a word or a code.
LEMMA DashScopeJudged ==
  ASSUME NEW j \in Ends, NEW doc \in Documents("dashscope", j)
  PROVE  Judged("dashscope", j, doc)
<1>1. doc \in Worded("dashscope", j) \/ doc = Rejected
  BY DEF Documents
<1>2. CASE doc = Rejected
  <2>1. QueryError("dashscope", doc)
    BY <1>2 DEF QueryError, DashScopeRejects, Rejected, Blank
  <2>2. QED
    BY <2>1, VerdictIs DEF Judged
<1>3. CASE doc \in Worded("dashscope", j)
  <2>1. doc.word \in Words("dashscope", j) /\ doc.code = "none"
    BY <1>3 DEF Worded
  <2>2. ~QueryError("dashscope", doc) /\ Status("dashscope", doc) = doc.word
    BY <2>1 DEF QueryError, OminiLink, Status, DashScopeRejects
  <2>3. QED
    BY <2>1, <2>2, VerdictIs, WordsOfJob, Lists DEF Judged, Ends
<1>4. QED
  BY <1>1, <1>2, <1>3

\* Ark's message counts only where there is no word.
LEMMA ArkJudged ==
  ASSUME NEW j \in Ends, NEW doc \in Documents("ark", j)
  PROVE  Judged("ark", j, doc)
<1>0. ~QueryError("ark", doc) /\ Status("ark", doc) = ArkStatus(doc)
  BY DEF QueryError, OminiLink, Status
<1>1. doc \in Worded("ark", j) \/ (j = "failed" /\ doc = [Blank EXCEPT !.message = TRUE])
  BY DEF Documents
<1>2. CASE j = "failed" /\ doc = [Blank EXCEPT !.message = TRUE]
  <2>1. ArkStatus(doc) = "failed"
    BY <1>2 DEF ArkStatus, Blank
  <2>2. QED
    BY <1>0, <1>2, <2>1, VerdictIs, Lists DEF Judged
<1>3. CASE doc \in Worded("ark", j)
  <2>1. doc.word \in Words("ark", j)
    BY <1>3 DEF Worded
  <2>2. doc.word # "none"
    BY <2>1, WordsOfJob, Lists DEF Ends
  <2>3. ArkStatus(doc) = doc.word
    BY <2>2 DEF ArkStatus
  <2>4. QED
    BY <1>0, <2>1, <2>3, VerdictIs, WordsOfJob, Lists DEF Judged, Ends
<1>4. QED
  BY <1>1, <1>2, <1>3

\* OminiLink answers with a word, in an envelope or not, or with a rejection.
LEMMA OminiLinkJudged ==
  ASSUME NEW j \in Ends, NEW doc \in Documents("ominilink", j)
  PROVE  Judged("ominilink", j, doc)
<1>1. doc \in Enveloped(j) \/ doc = Rejected
  BY DEF Documents
<1>2. CASE QueryError("ominilink", doc)
  BY <1>2, VerdictIs DEF Judged
<1>3. CASE ~QueryError("ominilink", doc)
  <2>1. doc # Rejected
    BY <1>3 DEF QueryError, OminiLink, OminiLinkRejects, Rejected, Blank
  <2>2. doc.word \in Words("ominilink", j)
    BY <1>1, <2>1 DEF Enveloped
  <2>3. doc.word # "none"
    BY <2>2, WordsOfJob, Lists DEF Ends
  <2>4. Status("ominilink", doc) = doc.word
    BY <2>3 DEF Status, OminiLink, OminiLinkStatus
  <2>5. QED
    BY <1>3, <2>2, <2>4, VerdictIs, WordsOfJob, Lists DEF Judged, Ends
<1>4. QED
  BY <1>2, <1>3

\* Veo answers with an operation.
LEMMA VeoJudged ==
  ASSUME NEW j \in Ends, NEW doc \in Documents("veo", j)
  PROVE  Judged("veo", j, doc)
<1>1. doc \in Operation(j) \/ doc = Rejected
  BY DEF Documents
<1>2. CASE QueryError("veo", doc)
  BY <1>2, VerdictIs DEF Judged
<1>3. CASE ~QueryError("veo", doc)
  <2>1. doc # Rejected
    BY <1>3 DEF QueryError, OminiLink, OminiLinkRejects, Rejected, Blank
  <2>2. doc \in Operation(j)
    BY <1>1, <2>1
  <2>3. Status("veo", doc) = VeoStatus(doc)
    BY <2>2 DEF Status, OminiLink, OminiLinkStatus, Operation
  <2>4. CASE j = "running"
    <3>1. doc.done \in {"absent", "false"} /\ doc.broken = FALSE
      BY <2>2, <2>4 DEF Operation
    <3>2. VeoStatus(doc) \in {"processing", "none"}
      BY <3>1 DEF VeoStatus
    <3>3. QED
      BY <1>3, <2>3, <3>2, VerdictIs, Lists DEF Judged
  <2>5. CASE j = "succeeded"
    <3>1. doc.done = "true"
      BY <2>2, <2>5 DEF Operation
    <3>2. VeoStatus(doc) \in {"processing", "success"}
      BY <3>1 DEF VeoStatus
    <3>3. QED
      BY <1>3, <2>3, <2>5, <3>2, VerdictIs, Lists DEF Judged
  <2>6. CASE j = "failed"
    <3>1. doc.done \in {"absent", "true"} /\ doc.broken = TRUE /\ doc.url = FALSE
      BY <2>2, <2>6 DEF Operation
    <3>2. VeoStatus(doc) \in {"processing", "failed"}
      BY <3>1 DEF VeoStatus
    <3>3. QED
      BY <1>3, <2>3, <2>6, <3>2, VerdictIs, Lists DEF Judged
  <2>7. QED
    BY <2>4, <2>5, <2>6 DEF Ends
<1>4. QED
  BY <1>2, <1>3

\* So every family judges truly.
LEMMA EveryFamilyJudges ==
  ASSUME NEW f \in AllFamilies, NEW j \in Ends, NEW doc \in Documents(f, j)
  PROVE  Judged(f, j, doc)
  BY WordJudged, DashScopeJudged, ArkJudged, OminiLinkJudged, VeoJudged DEF AllFamilies

-----------------------------------------------------------------------------
(* The row and the job.                                                    *)

\* What is asked for was submitted, and the row and the reading follow its end.
JobInv ==
  /\ family \in AllFamilies
  /\ phase \in {"submit", "poll", "pause", "open", "read", "ended"}
  /\ IF phase = "submit" THEN row = "none" ELSE job \in Ends
  /\ job \in Ends \union {"none"}
  /\ RowTellsTruth

\* A row read as closed was closed for its job (GenerationTask).
LEMMA JobInit == Init => JobInv
<1> SUFFICES ASSUME Init PROVE JobInv
  OBVIOUS
<1>1. family \in AllFamilies
  BY ConstantsAssumption DEF Init
<1>2. CASE mode = "generate"
  <2>1. row = "none" /\ job = "none"
    BY <1>2 DEF Init
  <2>2. phase = "submit"
    BY <2>1 DEF Init
  <2>3. QED
    BY <1>1, <2>1, <2>2 DEF JobInv, RowTellsTruth, Ends
<1>3. CASE mode = "get"
  <2>1. row \in {"running", "succeeded"} /\ job = row
    BY <1>3 DEF Init
  <2>2. (row = "running" /\ phase = "poll") \/ (row = "succeeded" /\ phase = "open")
    BY <2>1 DEF Init
  <2>3. QED
    BY <1>1, <2>1, <2>2 DEF JobInv, RowTellsTruth, Ends
<1>4. QED
  BY <1>2, <1>3 DEF Init

\* What a poll can do.
LEMMA PollDoes ==
  ASSUME JobInv, GetVideo
  PROVE  /\ phase = "poll" /\ job \in Ends /\ UNCHANGED <<family, job>>
         /\ \/ phase' = "pause" /\ UNCHANGED row
            \/ phase' = phase /\ UNCHANGED row
            \/ phase' = "open" /\ job = "succeeded" /\ row' \in {row, "succeeded"}
            \/ phase' = phase /\ job = "failed" /\ row' \in {row, "failed"}
         /\ phase' = "pause" \/ result' = "pending" => job = "running" \/ family = "veo"
<1>1. /\ phase = "poll" /\ job \in Ends /\ UNCHANGED <<family, job>> /\ family \in AllFamilies
      /\ result = "none"
  BY DEF GetVideo, JobInv, Running
<1>2. CASE Fail /\ UNCHANGED <<row, heard>>
  BY <1>1, <1>2 DEF Fail, Reply
<1>3. ASSUME NEW doc \in Documents(family, job), Follow(Verdict(family, doc))
      PROVE  /\ \/ phase' = "pause" /\ UNCHANGED row
                \/ phase' = phase /\ UNCHANGED row
                \/ phase' = "open" /\ job = "succeeded" /\ row' \in {row, "succeeded"}
                \/ phase' = phase /\ job = "failed" /\ row' \in {row, "failed"}
             /\ phase' = "pause" \/ result' = "pending" => job = "running" \/ family = "veo"
  <2>1. Judged(family, job, doc)
    BY <1>1, EveryFamilyJudges
  <2> DEFINE verdict == Verdict(family, doc)
  <2> HIDE DEF verdict
  <2>2. /\ verdict = "succeeded" => job = "succeeded"
        /\ verdict = "failed" => job = "failed"
        /\ verdict = "running" => job = "running" \/ family = "veo"
    BY <1>1, <2>1 DEF Judged, verdict
  <2>3. Follow(verdict)
    BY <1>3 DEF verdict
  <2>4. CASE verdict = "running" /\ UNCHANGED row /\ (IF mode = "generate" THEN GoTo("pause") ELSE Reply("pending"))
    BY <1>1, <2>2, <2>4 DEF GoTo, Reply
  <2>5. CASE verdict = "succeeded" /\ Closes("succeeded", GoTo("open"))
    <3>1. (row' \in {row, "succeeded"} /\ GoTo("open")) \/ (Fail /\ UNCHANGED row)
      BY <2>5, Zenon DEF Closes
    <3>2. QED
      BY <1>1, <2>2, <2>5, <3>1 DEF GoTo, Reply, Fail
  <2>6. CASE verdict = "failed"
             /\ Closes("failed", Reply(IF mode = "generate" THEN "error" ELSE "failed"))
    BY <1>1, <2>2, <2>6 DEF Reply, Closes, Fail
  <2>7. CASE verdict = "error" /\ Fail /\ UNCHANGED row
    BY <1>1, <2>7 DEF Fail, Reply
  <2>8. QED
    BY <2>3, <2>4, <2>5, <2>6, <2>7 DEF Follow
<1>4. (\E doc \in Documents(family, job) : Follow(Verdict(family, doc)))
        \/ (Fail /\ UNCHANGED <<row, heard>>)
  BY Zenon DEF GetVideo
<1>5. QED
  BY <1>1, <1>2, <1>3, <1>4

\* Every step keeps the row, the reading and the job together.
LEMMA JobStep == JobInv /\ [Next]_vars => JobInv'
<1> SUFFICES ASSUME JobInv, [Next]_vars PROVE JobInv'
  OBVIOUS
<1> USE DEF JobInv, RowTellsTruth
<1>1. CASE SubmitVideo
  BY <1>1 DEF SubmitVideo, GoTo, Fail, Reply, Ends
<1>2. CASE GetVideo
  <2>1. /\ phase = "poll" /\ job \in Ends /\ UNCHANGED <<family, job>>
        /\ \/ phase' = "pause" /\ UNCHANGED row
           \/ phase' = phase /\ UNCHANGED row
           \/ phase' = "open" /\ job = "succeeded" /\ row' \in {row, "succeeded"}
           \/ phase' = phase /\ job = "failed" /\ row' \in {row, "failed"}
    BY <1>2, PollDoes
  <2>2. QED
    BY <2>1 DEF JobInv, RowTellsTruth
<1>3. CASE PauseEnds \/ ContextEndsCall \/ ConnectionBreaks
  BY <1>3 DEF PauseEnds, ContextEndsCall, ConnectionBreaks, ReadFails, GoTo, Fail, Reply, jobVars
<1>4. CASE Open
  BY <1>4 DEF Open, Fail, Reply, jobVars
<1>5. CASE ReadBlock
  <2>1. phase = "read" /\ UNCHANGED jobVars /\ phase' \in {phase, "ended"}
    BY <1>5 DEF ReadBlock, FullBlock, RejectBlock, ReaderEnds, LastBlock
  <2>2. QED
    BY <2>1 DEF jobVars
<1>6. CASE Emit \/ Return
  BY <1>6 DEF Emit, Return, jobVars
<1>7. CASE JobEnds
  BY <1>7 DEF JobEnds, Ends
<1>8. CASE Cancel \/ Tick
  BY <1>8 DEF Cancel, Tick
<1>9. CASE UNCHANGED vars
  BY <1>9 DEF vars, jobVars
<1>10. QED
  BY <1>1, <1>2, <1>3, <1>4, <1>5, <1>6, <1>7, <1>8, <1>9 DEF Next

\* So it always holds.
LEMMA JobInvariance == Spec => []JobInv
  BY JobInit, JobStep, PTL DEF Spec

\* RowTellsTruth: whatever form an answer has, GetGeneration closes a row, and a
\* video is opened, only as the upstream job ended (the GetVideo of each provider).
THEOREM RowIsTrue == Spec => []RowTellsTruth
<1>1. JobInv => RowTellsTruth
  BY DEF JobInv
<1>2. QED
  BY <1>1, JobInvariance, PTL

\* EndedJobEndsWait: an answered poll of an ended job never keeps the client waiting,
\* but for Veo's (the word lists of the providers).
THEOREM WaitEnds == Spec => EndedJobEndsWait
<1> DEFINE Ending == phase = "poll" /\ job \in {"succeeded", "failed"} /\ family # "veo"
                       => phase' # "pause" /\ result' # "pending"
<1>1. JobInv /\ Inv /\ [Next]_vars => [Ending]_vars
  <2> SUFFICES ASSUME JobInv, Inv, Next, phase = "poll", job \in {"succeeded", "failed"},
                      family # "veo"
               PROVE  phase' # "pause" /\ result' # "pending"
    OBVIOUS
  <2>0. outbox = <<>>
    BY DEF Inv, StreamInv
  <2>1. CASE GetVideo
    BY <2>1, PollDoes
  <2>2. CASE ContextEndsCall
    BY <2>2 DEF ContextEndsCall, Fail, Reply
  <2>3. CASE SubmitVideo \/ PauseEnds \/ Open \/ ReadBlock \/ ConnectionBreaks \/ Emit \/ Return
    BY <2>0, <2>3 DEF SubmitVideo, PauseEnds, Open, ReadBlock, ConnectionBreaks, Emit, Return
  <2>4. CASE JobEnds
    BY <2>4 DEF JobEnds
  <2>5. CASE Cancel \/ Tick
    BY <2>5 DEF Cancel, Tick, Running
  <2>6. QED
    BY <2>1, <2>2, <2>3, <2>4, <2>5 DEF Next
<1>2. QED
  BY <1>1, JobInvariance, Invariance, PTL DEF Spec, EndedJobEndsWait
=============================================================================
