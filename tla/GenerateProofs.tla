--------------------------- MODULE GenerateProofs ---------------------------
(***************************************************************************)
(* Theorems about Generate: TextStream, for any requests and tool calls,   *)
(* answers of any length and conversations of any number of rounds; and    *)
(* ImageCall, for any order and any number of references and items.        *)
(***************************************************************************)
EXTENDS TextStream, ImageCall, SequenceLemmas

-----------------------------------------------------------------------------
(* Types of the text stream.                                               *)

Piece ==
  [kind : Texts \union {"fragment"}, tag : Tags]
    \union [kind : {"call"}, tag : Tags \ {NoId}, name : Tags \ {NoId}]

ChunkType  == [pieces : Seq(Piece), usage : UsageReports, named : BOOLEAN, choices : BOOLEAN]
EventType  == [seq : Nat, items : Seq(Piece), final : BOOLEAN]
ReportType == [usage : UsageReports, cache : {"hit", "disabled", "miss", "unknown"}]
MetricType == [requests : {0, 1}, terminals : Seq({"succeeded", "cancelled", "failed"}), ttft : Nat, reports : Seq(ReportType)]

TextTypes ==
  /\ family \in TextFamilies /\ bound \in BOOLEAN /\ round \in Nat
  /\ request \in RequestType /\ told \in Seq(ChunkType)
  /\ phase \in {"new", "asked", "reading", "closing", "ended"}
  /\ outbox \in Seq(Piece) /\ sequence \in Nat
  /\ usage \in UsageReports /\ named \in BOOLEAN
  /\ events \in Seq(EventType)
  /\ result \in {"none", "ok"} \union Errors
  /\ metric \in MetricType

\* What a model may say is made of pieces.
LEMMA DeltaTypes ==
  /\ Deltas \subseteq Piece /\ Fragments \subseteq Piece
  /\ Payloads \subseteq Seq(Piece)
<1>1. \A c \in Calls : c.id \in Tags /\ c.name \in Tags \ {NoId}
  BY PromptsAssumption, OpeningAssumption DEF CallType
<1>2. \A c \in Calls : ToolCall(c) \in Piece
  BY <1>1 DEF ToolCall, Piece
<1>3. Text("said") \in Piece /\ Blank \in Piece
  BY DEF Text, Blank, Piece, Texts, Tags
<1>4. ToolCalls \subseteq Piece /\ Deltas \subseteq Piece
  <2>1. ToolCalls \subseteq Piece
    BY <1>2 DEF ToolCalls
  <2>2. QED
    BY <1>3, <2>1 DEF Deltas
<1>5. Fragments \subseteq Piece
  <2>1. [kind |-> "fragment", tag |-> NoId] \in Piece
    BY DEF Piece, Tags
  <2>2. QED
    BY <2>1 DEF Fragments
<1>6. Payloads \subseteq Seq(Piece)
  <2>1. <<>> \in Seq(Piece)
    BY EmptySeq
  <2>2. \A d \in Deltas : <<d>> \in Seq(Piece)
    BY <1>4
  <2>3. \A c \in ToolCalls : <<Text("said"), c>> \in Seq(Piece)
    BY <1>3, <1>4
  <2>4. QED
    BY <2>1, <2>2, <2>3 DEF Payloads
<1>7. QED
  BY <1>4, <1>5, <1>6

\* So are chunks and whole answers.
LEMMA ChunkTypes ==
  Chunks \subseteq ChunkType /\ Documents \subseteq ChunkType
<1>1. ASSUME NEW P, NEW U, NEW n \in BOOLEAN, NEW c \in BOOLEAN,
             P \subseteq Seq(Piece), U \subseteq UsageReports
      PROVE  Told(P, U, n, c) \subseteq ChunkType
  BY <1>1 DEF Told, ChunkType
<1>0. <<>> \in Seq(Piece) /\ \A d \in Piece : <<d>> \in Seq(Piece)
  BY EmptySeq
<1>2. {<<>>} \union {<<d>> : d \in Deltas} \subseteq Seq(Piece)
  <2>1. \A d \in Deltas : <<d>> \in Seq(Piece)
    BY <1>0, DeltaTypes
  <2>2. QED
    BY <2>1, <1>0
<1>3. Payloads \union {<<f>> : f \in Fragments} \subseteq Seq(Piece)
  <2>1. \A f \in Fragments : <<f>> \in Seq(Piece)
    BY <1>0, DeltaTypes
  <2>2. QED
    BY <2>1, DeltaTypes
<1>4. {<<>>} \subseteq Seq(Piece) /\ {NoUsage} \subseteq UsageReports
  BY <1>2 DEF UsageReports
<1>5. /\ Told({<<>>} \union {<<d>> : d \in Deltas}, {NoUsage}, FALSE, TRUE) \subseteq ChunkType
      /\ Told({<<>>}, UsageReports, TRUE, TRUE) \subseteq ChunkType
      /\ Told(Payloads \union {<<f>> : f \in Fragments}, UsageReports, TRUE, TRUE) \subseteq ChunkType
  BY <1>1, <1>2, <1>3, <1>4
<1>6. /\ Told(Payloads, UsageReports, TRUE, TRUE) \subseteq ChunkType
      /\ Told({<<>>}, UsageReports, TRUE, FALSE) \subseteq ChunkType
  BY <1>1, <1>4, DeltaTypes
<1>7. QED
  BY <1>5, <1>6 DEF Chunks, Documents

\* The items of a sequence of events, one event after the other, and the pieces of chunks.
ItemsOf(es)  == FlattenSeq([i \in DOMAIN es |-> es[i].items])
PiecesOf(cs) == FlattenSeq([i \in DOMAIN cs |-> cs[i].pieces])

\* A sequence with one more element at its end.
LEMMA IsAppend ==
  ASSUME NEW B, NEW s \in Seq(B), NEW t \in Seq(B), Len(t) = Len(s) + 1,
         \A i \in 1..Len(s) : t[i] = s[i]
  PROVE  t = Append(s, t[Len(s) + 1])
<1>1. PICK n \in Nat : n = Len(s)
  OBVIOUS
<1>2. t[n + 1] \in B
  BY <1>1
<1>3. PICK u : u = Append(s, t[n + 1])
  OBVIOUS
<1>4. u \in Seq(B) /\ Len(u) = n + 1 /\ u[n + 1] = t[n + 1] /\ \A i \in 1..n : u[i] = s[i]
  BY <1>1, <1>2, <1>3
<1>5. u \in [1..(n + 1) -> B] /\ t \in [1..(n + 1) -> B]
  BY <1>1, <1>4, LenProperties
<1>6. \A i \in 1..(n + 1) : i \in 1..n \/ i = n + 1
  OBVIOUS
<1>7. \A i \in 1..(n + 1) : t[i] = u[i]
  BY <1>1, <1>4, <1>6
<1>8. t = u
  BY <1>5, <1>7
<1>9. QED
  BY <1>1, <1>3, <1>8

\* What events carry are pieces.
LEMMA ItemsType ==
  ASSUME NEW es \in Seq(EventType)
  PROVE  ItemsOf(es) \in Seq(Piece)
<1>1. PICK n \in Nat : n = Len(es) /\ DOMAIN es = 1..n
  OBVIOUS
<1>2. PICK f : f = [i \in DOMAIN es |-> es[i].items]
  OBVIOUS
<1>3. \A i \in 1..n : es[i].items \in Seq(Piece)
  <2>1. \A i \in 1..n : es[i] \in EventType
    BY <1>1
  <2>2. QED
    BY <2>1 DEF EventType
<1>4. DOMAIN f = 1..n /\ (\A i \in 1..n : f[i] \in Seq(Piece)) /\ f = [i \in 1..n |-> f[i]]
  BY <1>1, <1>2, <1>3
<1>5. f \in Seq(Seq(Piece))
  BY <1>4, SequenceOf
<1>6. QED
  BY <1>2, <1>5, FlattenType DEF ItemsOf

\* One event more.
LEMMA ItemsAppend ==
  ASSUME NEW es \in Seq(EventType), NEW e \in EventType
  PROVE  ItemsOf(Append(es, e)) = ItemsOf(es) \o e.items
<1>1. PICK n \in Nat : n = Len(es) /\ DOMAIN es = 1..n
  OBVIOUS
<1>2. PICK es2 : es2 = Append(es, e)
  OBVIOUS
<1>3. DOMAIN es2 = 1..(n + 1) /\ es2[n + 1] = e /\ \A i \in 1..n : es2[i] = es[i]
  BY <1>1, <1>2
<1>4. PICK f, g : f = [i \in DOMAIN es |-> es[i].items] /\ g = [i \in DOMAIN es2 |-> es2[i].items]
  OBVIOUS
<1>5. e.items \in Seq(Piece) /\ \A i \in 1..n : es[i].items \in Seq(Piece)
  <2>1. \A i \in 1..n : es[i] \in EventType
    BY <1>1
  <2>2. QED
    BY <2>1 DEF EventType
<1>6. DOMAIN f = 1..n /\ f = [i \in 1..n |-> f[i]] /\ \A i \in 1..n : f[i] \in Seq(Piece)
  BY <1>1, <1>4, <1>5
<1>7. /\ DOMAIN g = 1..(n + 1) /\ g = [i \in 1..(n + 1) |-> g[i]]
      /\ g[n + 1] = e.items /\ \A i \in 1..n : g[i] = f[i]
  <2>1. n + 1 \in 1..(n + 1) /\ \A i \in 1..n : i \in 1..(n + 1)
    OBVIOUS
  <2>2. QED
    BY <1>1, <1>3, <1>4, <2>1
<1>8. f \in Seq(Seq(Piece)) /\ Len(f) = n /\ g \in Seq(Seq(Piece)) /\ Len(g) = n + 1
  <2>1. \A i \in 1..(n + 1) : i \in 1..n \/ i = n + 1
    OBVIOUS
  <2>2. \A i \in 1..(n + 1) : g[i] \in Seq(Piece)
    BY <1>5, <1>6, <1>7, <2>1
  <2>3. g \in Seq(Seq(Piece)) /\ Len(g) = n + 1
    <3>1. PICK k \in Nat : k = n + 1
      OBVIOUS
    <3>2. DOMAIN g = 1..k /\ (\A i \in 1..k : g[i] \in Seq(Piece)) /\ g = [i \in 1..k |-> g[i]]
      BY <1>7, <2>2, <3>1
    <3>3. g \in Seq(Seq(Piece)) /\ Len(g) = k
      BY <3>2, SequenceOf
    <3>4. QED
      BY <3>1, <3>3
  <2>4. QED
    BY <1>6, <2>3, SequenceOf
<1>10. g = Append(f, e.items)
  BY <1>7, <1>8, IsAppend
<1>11. FlattenSeq(g) = FlattenSeq(f) \o e.items
  BY <1>5, <1>8, <1>10, FlattenAppend
<1>12. QED
  BY <1>2, <1>4, <1>11 DEF ItemsOf

\* What chunks carry are pieces.
LEMMA PiecesType ==
  ASSUME NEW cs \in Seq(ChunkType)
  PROVE  PiecesOf(cs) \in Seq(Piece)
<1>1. PICK n \in Nat : n = Len(cs) /\ DOMAIN cs = 1..n
  OBVIOUS
<1>2. PICK f : f = [i \in DOMAIN cs |-> cs[i].pieces]
  OBVIOUS
<1>3. \A i \in 1..n : cs[i].pieces \in Seq(Piece)
  <2>1. \A i \in 1..n : cs[i] \in ChunkType
    BY <1>1
  <2>2. QED
    BY <2>1 DEF ChunkType
<1>4. DOMAIN f = 1..n /\ (\A i \in 1..n : f[i] \in Seq(Piece)) /\ f = [i \in 1..n |-> f[i]]
  BY <1>1, <1>2, <1>3
<1>5. f \in Seq(Seq(Piece))
  BY <1>4, SequenceOf
<1>6. QED
  BY <1>2, <1>5, FlattenType DEF PiecesOf

\* One chunk more.
LEMMA PiecesAppend ==
  ASSUME NEW cs \in Seq(ChunkType), NEW c \in ChunkType
  PROVE  PiecesOf(Append(cs, c)) = PiecesOf(cs) \o c.pieces
<1>1. PICK n \in Nat : n = Len(cs) /\ DOMAIN cs = 1..n
  OBVIOUS
<1>2. PICK cs2 : cs2 = Append(cs, c)
  OBVIOUS
<1>3. DOMAIN cs2 = 1..(n + 1) /\ cs2[n + 1] = c /\ \A i \in 1..n : cs2[i] = cs[i]
  BY <1>1, <1>2
<1>4. PICK f, g : f = [i \in DOMAIN cs |-> cs[i].pieces] /\ g = [i \in DOMAIN cs2 |-> cs2[i].pieces]
  OBVIOUS
<1>5. c.pieces \in Seq(Piece) /\ \A i \in 1..n : cs[i].pieces \in Seq(Piece)
  <2>1. \A i \in 1..n : cs[i] \in ChunkType
    BY <1>1
  <2>2. QED
    BY <2>1 DEF ChunkType
<1>6. DOMAIN f = 1..n /\ f = [i \in 1..n |-> f[i]] /\ \A i \in 1..n : f[i] \in Seq(Piece)
  BY <1>1, <1>4, <1>5
<1>7. /\ DOMAIN g = 1..(n + 1) /\ g = [i \in 1..(n + 1) |-> g[i]]
      /\ g[n + 1] = c.pieces /\ \A i \in 1..n : g[i] = f[i]
  <2>1. n + 1 \in 1..(n + 1) /\ \A i \in 1..n : i \in 1..(n + 1)
    OBVIOUS
  <2>2. QED
    BY <1>1, <1>3, <1>4, <2>1
<1>8. f \in Seq(Seq(Piece)) /\ Len(f) = n /\ g \in Seq(Seq(Piece)) /\ Len(g) = n + 1
  <2>1. \A i \in 1..(n + 1) : i \in 1..n \/ i = n + 1
    OBVIOUS
  <2>2. \A i \in 1..(n + 1) : g[i] \in Seq(Piece)
    BY <1>5, <1>6, <1>7, <2>1
  <2>3. g \in Seq(Seq(Piece)) /\ Len(g) = n + 1
    <3>1. PICK k \in Nat : k = n + 1
      OBVIOUS
    <3>2. DOMAIN g = 1..k /\ (\A i \in 1..k : g[i] \in Seq(Piece)) /\ g = [i \in 1..k |-> g[i]]
      BY <1>7, <2>2, <3>1
    <3>3. g \in Seq(Seq(Piece)) /\ Len(g) = k
      BY <3>2, SequenceOf
    <3>4. QED
      BY <3>1, <3>3
  <2>4. QED
    BY <1>6, <2>3, SequenceOf
<1>10. g = Append(f, c.pieces)
  BY <1>7, <1>8, IsAppend
<1>11. FlattenSeq(g) = FlattenSeq(f) \o c.pieces
  BY <1>5, <1>8, <1>10, FlattenAppend
<1>12. QED
  BY <1>2, <1>4, <1>11 DEF PiecesOf

\* Before the first there are none.
LEMMA NothingYet ==
  ItemsOf(<<>>) = <<>> /\ PiecesOf(<<>>) = <<>>
<1>1. [i \in DOMAIN <<>> |-> (<<>>)[i].items] = <<>> /\ [i \in DOMAIN <<>> |-> (<<>>)[i].pieces] = <<>>
  OBVIOUS
<1>2. QED
  BY <1>1, FlattenEmpty DEF ItemsOf, PiecesOf

\* What the client got are pieces.
LEMMA GotType ==
  ASSUME TextTypes
  PROVE  Got \in Seq(Piece)
<1>0. events \in Seq(EventType)
  BY DEF TextTypes
<1>1. QED
  BY <1>0, ItemsType DEF Got, ItemsOf

\* So is what it takes for said.
LEMMA SaidType ==
  ASSUME TextTypes
  PROVE  Said \in Seq(Piece)
<1>1. Said \in Seq({p \in Piece : p.kind \in Texts \union {"call"}})
  BY GotType, OfKindType DEF Said
<1>2. QED
  BY <1>1, SeqMonotonic

\* The calls in it are calls.
LEMMA CallsSaidType ==
  ASSUME TextTypes
  PROVE  CallsSaid \in Seq(CallType)
<1>1. PICK calls : calls = OfKind(Said, {"call"})
  OBVIOUS
<1>2. calls \in Seq({p \in Piece : p.kind \in {"call"}})
  BY <1>1, SaidType, OfKindType
<1>3. PICK n \in Nat : n = Len(calls) /\ DOMAIN calls = 1..n
  BY <1>2
<1>4. PICK f : f = [i \in DOMAIN calls |-> Call(calls[i].tag, calls[i].name)]
  OBVIOUS
<1>5. \A i \in 1..n : calls[i] \in {p \in Piece : p.kind \in {"call"}}
  BY <1>2, <1>3
<1>6. \A p \in {q \in Piece : q.kind \in {"call"}} : p.tag \in Tags /\ p.name \in Tags
  BY DEF Piece, Texts
<1>7. \A i \in 1..n : f[i] \in CallType
  BY <1>3, <1>4, <1>5, <1>6 DEF Call, CallType
<1>8. DOMAIN f = 1..n /\ f = [i \in 1..n |-> f[i]]
  BY <1>3, <1>4
<1>9. f \in Seq(CallType)
  BY <1>7, <1>8, SequenceOf
<1>10. QED
  BY <1>1, <1>4, <1>9 DEF CallsSaid

\* The client's answers are items of a request.
LEMMA AnswersType ==
  ASSUME TextTypes
  PROVE  Answers \in Seq(ItemType) /\ Answer \in ItemType
<1>1. PICK n \in Nat : n = Len(CallsSaid) /\ DOMAIN CallsSaid = 1..n
  BY CallsSaidType
<1>2. \A i \in 1..n : CallsSaid[i] \in CallType
  BY <1>1, CallsSaidType
<1>3. <<>> \in Seq(PartType)
  BY EmptySeq
<1>4. \A c \in CallType : Output(c.id, c.name, <<>>) \in ItemType
  BY <1>3 DEF CallType, Output, ItemType
<1>5. Answers = [i \in 1..n |-> Output(CallsSaid[i].id, CallsSaid[i].name, <<>>)]
  BY <1>1 DEF Answers
<1>6. \A i \in 1..n : Answers[i] \in ItemType
  BY <1>2, <1>4, <1>5
<1>7. DOMAIN Answers = 1..n /\ Answers = [i \in 1..n |-> Answers[i]]
  BY <1>5
<1>8. Answers \in Seq(ItemType)
  BY <1>6, <1>7, SequenceOf
<1>9. OfKind(Said, Texts) \in Seq(PartType)
  <2>1. OfKind(Said, Texts) \in Seq({p \in Piece : p.kind \in Texts})
    BY SaidType, OfKindType
  <2>2. {p \in Piece : p.kind \in Texts} \subseteq PartType
    BY DEF Piece, PartType, Texts
  <2>3. QED
    BY <2>1, <2>2, SeqMonotonic
<1>10. Answer \in ItemType
  BY <1>9, CallsSaidType DEF Answer, Message, ItemType
<1>11. QED
  BY <1>8, <1>10

\* An event more is a sequence of events.
LEMMA EventsGrow ==
  ASSUME NEW e \in EventType, NEW s \in Seq(EventType)
  PROVE  Append(s, e) \in Seq(EventType)
  OBVIOUS

\* Closing an entry keeps its type.
LEMMA CloseType ==
  ASSUME NEW m \in MetricType, NEW outcome \in {"succeeded", "cancelled", "failed"}
  PROVE  Close(m, outcome) \in MetricType
<1>1. m.terminals \in Seq({"succeeded", "cancelled", "failed"})
  BY DEF MetricType
<1>2. PICK t : t = Append(m.terminals, outcome)
  OBVIOUS
<1>3. t \in Seq({"succeeded", "cancelled", "failed"})
  BY <1>1, <1>2
<1>4. [m EXCEPT !.terminals = t] \in MetricType
  BY <1>3 DEF MetricType
<1>5. QED
  BY <1>2, <1>4 DEF Close

\* A new request starts with everything of its type.
LEMMA GenerateKeepsTypes ==
  ASSUME TextTypes, NEW r \in RequestType, Generate(r)
  PROVE  TextTypes'
<1>1. told' \in Seq(ChunkType) /\ outbox' \in Seq(Piece) /\ events' \in Seq(EventType)
  BY EmptySeq DEF Generate
<1>2. NoMetric \in MetricType
  BY EmptySeq DEF NoMetric, MetricType
<1>3. [NoMetric EXCEPT !.requests = 1] \in MetricType
  BY <1>2 DEF MetricType
<1>4. Close([NoMetric EXCEPT !.requests = 1], "failed") \in MetricType
  BY <1>3, CloseType
<1>5. metric' \in MetricType
  BY <1>3, <1>4 DEF Generate
<1>6. /\ phase' \in {"new", "asked", "reading", "closing", "ended"}
      /\ result' \in {"none", "ok"} \union Errors
  BY DEF Generate, Errors
<1>7. /\ family' \in TextFamilies /\ bound' \in BOOLEAN /\ round' \in Nat /\ request' \in RequestType
      /\ sequence' \in Nat /\ usage' \in UsageReports /\ named' \in BOOLEAN
  <2>1. /\ family' = family /\ bound' = bound /\ round' = round + 1 /\ request' = r
        /\ sequence' = 0 /\ usage' = NoUsage /\ named' = FALSE
    BY DEF Generate
  <2>2. family \in TextFamilies /\ bound \in BOOLEAN /\ round \in Nat
    BY DEF TextTypes
  <2>3. round' \in Nat /\ sequence' \in Nat
    BY <2>1, <2>2
  <2>4. named' \in BOOLEAN
    BY <2>1
  <2>5. usage' \in UsageReports
    BY <2>1 DEF UsageReports
  <2>6. QED
    BY <2>1, <2>2, <2>3, <2>4, <2>5
<1>8. QED
  BY <1>1, <1>5, <1>6, <1>7 DEF TextTypes

\* So does a return.
LEMMA ReturnType ==
  ASSUME NEW m \in MetricType, NEW status \in {"ok"} \union Errors, Return(status, m)
  PROVE  metric' \in MetricType /\ phase' = "ended" /\ result' = status
<1>1. Outcome(status) \in {"succeeded", "cancelled", "failed"}
  BY DEF Outcome, Errors
<1>2. QED
  BY <1>1, CloseType DEF Return

\* The classification of a cache's use.
LEMMA CacheType ==
  ASSUME NEW mode, NEW u \in UsageReports
  PROVE  ClassifyCache(mode, u) \in {"hit", "disabled", "miss", "unknown"}
  BY DEF ClassifyCache, UsageReports, NoUsage, Uncached, Cached

\* A report keeps the type of the entry.
LEMMA ReportedType ==
  ASSUME NEW m \in MetricType, NEW u \in UsageReports
  PROVE  Reported(m, u) \in MetricType
<1>1. m.reports \in Seq(ReportType)
  BY DEF MetricType
<1>2. [usage |-> u, cache |-> ClassifyCache(Mode, u)] \in ReportType
  BY CacheType DEF ReportType
<1>3. PICK t : t = Append(m.reports, [usage |-> u, cache |-> ClassifyCache(Mode, u)])
  OBVIOUS
<1>4. t \in Seq(ReportType)
  BY <1>1, <1>2, <1>3
<1>5. [m EXCEPT !.reports = t] \in MetricType
  BY <1>4 DEF MetricType
<1>6. QED
  BY <1>3, <1>5 DEF Reported

\* What is passed on are pieces.
LEMMA ForwardedType ==
  ASSUME NEW pieces \in Seq(Piece)
  PROVE  Forwarded(pieces) \in Seq(Piece)
  BY WithinType DEF Forwarded

\* Every step keeps the types.
LEMMA TypesStep ==
  ASSUME TextTypes, [Next]_vars
  PROVE  TextTypes'
<1>1. ASSUME Open PROVE TextTypes'
  BY <1>1, GenerateKeepsTypes DEF Open, TextTypes
<1>2. ASSUME FollowUp PROVE TextTypes'
  <2>1. request \in RequestType
    BY DEF TextTypes
  <2>2. \A items \in Seq(ItemType), b \in BOOLEAN :
          [request EXCEPT !.items = items, !.resumes = b] \in RequestType
    BY <2>1 DEF RequestType
  <2>3. Answers \in Seq(ItemType) /\ request.items \o <<Answer>> \o Answers \in Seq(ItemType)
    BY <2>1, AnswersType DEF RequestType
  <2>4. CASE Generate([request EXCEPT !.items = @ \o <<Answer>> \o Answers, !.resumes = FALSE])
    BY <2>4, <2>2, <2>3, GenerateKeepsTypes
  <2>5. CASE Generate([request EXCEPT !.items = Answers, !.resumes = TRUE])
    BY <2>5, <2>2, <2>3, GenerateKeepsTypes
  <2>6. QED
    BY <1>2, <2>4, <2>5 DEF FollowUp
<1>3. ASSUME UpstreamFails PROVE TextTypes'
  <2>1. PICK status \in Errors : Return(status, metric)
    BY <1>3 DEF UpstreamFails
  <2>2. metric' \in MetricType /\ phase' = "ended" /\ result' = status
    BY <2>1, ReturnType DEF TextTypes
  <2>3. QED
    BY <1>3, <2>2 DEF UpstreamFails, TextTypes, turn, stream
<1>4. ASSUME ChunkArrives PROVE TextTypes'
  <2>1. PICK chunk \in Chunks :
           /\ told' = Append(told, chunk) /\ outbox' = Forwarded(chunk.pieces)
           /\ usage' = UsageAfter(chunk) /\ named' = (named \/ chunk.named)
    BY <1>4 DEF ChunkArrives
  <2>2. chunk \in ChunkType
    BY ChunkTypes
  <2>3. told' \in Seq(ChunkType)
    BY <2>1, <2>2 DEF TextTypes
  <2>4. outbox' \in Seq(Piece)
    BY <2>1, <2>2, ForwardedType DEF ChunkType
  <2>5. usage' \in UsageReports /\ named' \in BOOLEAN
    BY <2>1, <2>2 DEF ChunkType, UsageAfter, TextTypes
  <2>6. QED
    BY <1>4, <2>3, <2>4, <2>5 DEF ChunkArrives, TextTypes, turn
<1>5. ASSUME Emit PROVE TextTypes'
  <2>0. outbox \in Seq(Piece) /\ outbox # <<>> /\ metric \in MetricType /\ sequence \in Nat
    BY <1>5 DEF Emit, TextTypes
  <2>1. Head(outbox) \in Piece /\ Tail(outbox) \in Seq(Piece)
    BY <2>0, HeadTailProperties
  <2>2. PICK timed : timed = [metric EXCEPT !.ttft =
                        IF @ = 0 /\ IsFirstModelOutput(Head(outbox)) THEN sequence + 1 ELSE @]
    OBVIOUS
  <2>3. timed \in MetricType
    BY <2>0, <2>2 DEF MetricType
  <2>4. CASE /\ events' = Append(events, Event(sequence, <<Head(outbox)>>, FALSE))
             /\ outbox' = Tail(outbox) /\ sequence' = sequence + 1
             /\ metric' = timed /\ UNCHANGED <<phase, result>>
    <3>1. Event(sequence, <<Head(outbox)>>, FALSE) \in EventType
      BY <2>0, <2>1 DEF Event, EventType
    <3>2. events \in Seq(EventType)
      BY DEF TextTypes
    <3>3. events' \in Seq(EventType)
      <4>1. Append(events, Event(sequence, <<Head(outbox)>>, FALSE)) \in Seq(EventType)
        BY <3>1, <3>2, EventsGrow
      <4>2. QED
        BY <4>1, <2>4
    <3>4. sequence' \in Nat /\ outbox' \in Seq(Piece) /\ metric' \in MetricType
      BY <2>0, <2>1, <2>3, <2>4
    <3>5. QED
      BY <1>5, <2>4, <3>3, <3>4 DEF Emit, TextTypes, turn
  <2>5. CASE /\ \E status \in Errors : Return(status, timed)
             /\ outbox' = <<>> /\ UNCHANGED <<events, sequence>>
    <3>1. PICK status \in Errors : Return(status, timed)
      BY <2>5
    <3>2. metric' \in MetricType /\ phase' = "ended" /\ result' = status
      BY <2>3, <3>1, ReturnType
    <3>3. outbox' \in Seq(Piece)
      BY <2>5, EmptySeq
    <3>4. QED
      BY <1>5, <2>5, <3>2, <3>3 DEF Emit, TextTypes, turn
  <2>6. QED
    BY <1>5, <2>2, <2>4, <2>5 DEF Emit
<1>6. ASSUME StreamEnds PROVE TextTypes'
  <2>1. metric' \in MetricType
    BY <1>6, ReportedType DEF StreamEnds, TextTypes
  <2>2. QED
    BY <1>6, <2>1 DEF StreamEnds, TextTypes, turn, stream
<1>7. ASSUME DocumentArrives PROVE TextTypes'
  <2>1. PICK doc \in Documents :
           /\ told' = <<doc>> /\ outbox' = doc.pieces
           /\ usage' = IF doc.choices THEN doc.usage ELSE NoUsage
           /\ named' = doc.choices /\ metric' = Reported(metric, usage')
    BY <1>7 DEF DocumentArrives
  <2>2. doc \in ChunkType
    BY ChunkTypes
  <2>3. told' \in Seq(ChunkType) /\ outbox' \in Seq(Piece)
    BY <2>1, <2>2 DEF ChunkType
  <2>4. usage' \in UsageReports /\ named' \in BOOLEAN
    BY <2>1, <2>2 DEF ChunkType, UsageReports
  <2>5. metric' \in MetricType
    BY <2>1, <2>4, ReportedType DEF TextTypes
  <2>6. QED
    BY <1>7, <2>3, <2>4, <2>5 DEF DocumentArrives, TextTypes, turn
<1>8. ASSUME SendFinal PROVE TextTypes'
  <2>1. PICK status \in {"ok"} \union Errors :
          /\ Return(status, metric)
          /\ \/ events' = Append(events, Event(sequence, outbox, TRUE))
             \/ UNCHANGED events
    BY <1>8 DEF SendFinal
  <2>2. metric' \in MetricType /\ phase' = "ended" /\ result' = status
    BY <2>1, ReturnType DEF TextTypes
  <2>3. Event(sequence, outbox, TRUE) \in EventType
    BY DEF Event, EventType, TextTypes
  <2>a. events \in Seq(EventType)
    BY DEF TextTypes
  <2>4. events' \in Seq(EventType)
    <3>1. Append(events, Event(sequence, outbox, TRUE)) \in Seq(EventType)
      BY <2>3, <2>a, EventsGrow
    <3>2. QED
      BY <3>1, <2>1, <2>a
  <2>5. outbox' \in Seq(Piece)
    BY <1>8, EmptySeq DEF SendFinal
  <2>6. QED
    BY <1>8, <2>2, <2>4, <2>5 DEF SendFinal, TextTypes, turn
<1>9. ASSUME UNCHANGED vars PROVE TextTypes'
  BY <1>9 DEF vars, turn, stream, TextTypes
<1>10. QED
  BY <1>1, <1>2, <1>3, <1>4, <1>5, <1>6, <1>7, <1>8, <1>9 DEF Next

-----------------------------------------------------------------------------
(* Accounting.  Beside the entries themselves the invariant says what they *)
(* are derived from: the usage kept so far is that of the chunks told, and *)
(* until the call returns the time of the first output is exact.           *)

Counts(f, s) == {i \in 1..Len(s) : s[i].choices /\ (s[i].usage # NoUsage \/ f = "gemini")}

UsageIn(f, s) == IF Counts(f, s) # {} THEN s[Max(Counts(f, s))].usage ELSE NoUsage

Outputs(s) == {i \in 1..Len(s) : ~s[i].final /\ \E p \in ToSet(s[i].items) : IsFirstModelOutput(p)}

FirstIn(s) == IF Outputs(s) # {} THEN Min(Outputs(s)) ELSE 0

Accounts ==
  /\ metric.requests = IF phase = "new" THEN 0 ELSE 1
  /\ metric.terminals = IF phase = "ended" THEN <<Outcome(result)>> ELSE <<>>
  /\ (result # "none") <=> (phase = "ended")
  /\ metric.reports = <<>> \/ metric.reports = <<[usage |-> usage, cache |-> ClassifyCache(Mode, usage)]>>
  /\ phase \in {"new", "asked", "reading"} => metric.reports = <<>>
  /\ phase = "closing" \/ result = "ok" => metric.reports # <<>>

Usages ==
  /\ usage = UsageIn(family, told)
  /\ family = "ark" /\ request.streaming /\ ~named => usage = NoUsage

Asked ==
  phase \in {"asked", "reading", "closing"} \/ metric.reports # <<>> =>
    sent = <<Upstream(family, bound, request)>>

Timed ==
  /\ phase # "ended" =>
       /\ sequence = Len(events) /\ metric.ttft = FirstIn(events)
       /\ \A i \in DOMAIN events : ~events[i].final
  /\ FirstIn(events) # 0 => metric.ttft = FirstIn(events)
  /\ FirstIn(events) = 0 => metric.ttft \in {0, Len(events) + 1}

TextInv == TextTypes /\ Accounts /\ Usages /\ Asked /\ Timed

\* The usage told last, a chunk more.
LEMMA UsageAppend ==
  ASSUME NEW s \in Seq(ChunkType), NEW c \in ChunkType, NEW f
  PROVE  UsageIn(f, Append(s, c)) =
           IF c.choices /\ (c.usage # NoUsage \/ f = "gemini") THEN c.usage ELSE UsageIn(f, s)
<1>1. PICK n \in Nat : n = Len(s)
  OBVIOUS
<1>2. PICK t : t = Append(s, c)
  OBVIOUS
<1>3. Len(t) = n + 1 /\ t[n + 1] = c /\ \A i \in 1..n : t[i] = s[i]
  BY <1>1, <1>2
<1>4. \A i \in 1..(n + 1) : i \in 1..n \/ i = n + 1
  OBVIOUS
<1>5. CASE c.choices /\ (c.usage # NoUsage \/ f = "gemini")
  <2>1. n + 1 \in Counts(f, t)
    BY <1>3, <1>5 DEF Counts
  <2>2. Counts(f, t) \in SUBSET Nat /\ \A i \in Counts(f, t) : i <= n + 1
    BY <1>3 DEF Counts
  <2>3. Max(Counts(f, t)) = n + 1
    BY <2>1, <2>2, MaxIs
  <2>4. QED
    BY <1>2, <1>3, <1>5, <2>1, <2>3 DEF UsageIn
<1>6. CASE ~(c.choices /\ (c.usage # NoUsage \/ f = "gemini"))
  <2>1. Counts(f, t) = Counts(f, s)
    BY <1>1, <1>3, <1>4, <1>6 DEF Counts
  <2>2. ASSUME Counts(f, s) # {} PROVE t[Max(Counts(f, s))] = s[Max(Counts(f, s))]
    <3>1. Counts(f, s) \in SUBSET (1..n)
      BY <1>1 DEF Counts
    <3>2. Max(Counts(f, s)) \in 1..n
      BY <3>1, <2>2, MaxOf
    <3>3. QED
      BY <3>2, <1>3
  <2>3. QED
    BY <1>2, <1>6, <2>1, <2>2 DEF UsageIn
<1>7. QED
  BY <1>5, <1>6

\* Before the first chunk none is told.
LEMMA UsageEmpty ==
  ASSUME NEW f
  PROVE  UsageIn(f, <<>>) = NoUsage
<1>1. Counts(f, <<>>) = {}
  BY DEF Counts
<1>2. QED
  BY <1>1 DEF UsageIn

\* UsageTold is that of the chunks so far.
LEMMA UsageToldIs ==
  ASSUME TextTypes
  PROVE  UsageTold = UsageIn(family, told)
<1>1. told \in Seq(ChunkType)
  BY DEF TextTypes
<1>2. PICK n \in Nat : n = Len(told)
  BY <1>1
<1>3. Counts(family, told) \in SUBSET (1..n)
  BY <1>2 DEF Counts
<1>4. CASE Counts(family, told) = {}
  BY <1>4 DEF UsageTold, UsageIn, Counts, SelectLastInSeq
<1>5. CASE Counts(family, told) # {}
  <2>1. Max(Counts(family, told)) \in 1..n
    BY <1>3, <1>5, MaxOf
  <2>2. Max(Counts(family, told)) # 0
    BY <2>1
  <2>3. QED
    BY <2>2, <1>5 DEF UsageTold, UsageIn, Counts, SelectLastInSeq
<1>6. QED
  BY <1>4, <1>5

\* The first event with output, an event more.
LEMMA FirstAppend ==
  ASSUME NEW s \in Seq(EventType), NEW e \in EventType
  PROVE  FirstIn(Append(s, e)) =
           IF FirstIn(s) = 0 /\ ~e.final /\ \E p \in ToSet(e.items) : IsFirstModelOutput(p)
           THEN Len(s) + 1 ELSE FirstIn(s)
<1>1. PICK n \in Nat : n = Len(s)
  OBVIOUS
<1>2. PICK t : t = Append(s, e)
  OBVIOUS
<1>3. Len(t) = n + 1 /\ t[n + 1] = e /\ \A i \in 1..n : t[i] = s[i]
  BY <1>1, <1>2
<1>4. \A i \in 1..(n + 1) : i \in 1..n \/ i = n + 1
  OBVIOUS
<1>5. Outputs(s) \in SUBSET Nat /\ Outputs(s) \in SUBSET (1..n)
  BY <1>1 DEF Outputs
<1>6. Outputs(s) = {} <=> FirstIn(s) = 0
  <2>1. ASSUME Outputs(s) # {} PROVE Min(Outputs(s)) \in 1..n
    BY <2>1, <1>5, MinOf
  <2>2. QED
    BY <2>1 DEF FirstIn
<1>7. CASE ~e.final /\ \E p \in ToSet(e.items) : IsFirstModelOutput(p)
  <2>1. n + 1 \in Outputs(t) /\ \A i \in Outputs(t) : i = n + 1 \/ i \in Outputs(s)
    BY <1>1, <1>3, <1>4, <1>7 DEF Outputs
  <2>2. \A i \in Outputs(s) : i \in Outputs(t)
    BY <1>1, <1>3 DEF Outputs
  <2>3. CASE Outputs(s) = {}
    <3>1. Outputs(t) = {n + 1}
      BY <2>1, <2>3
    <3>2. Min(Outputs(t)) = n + 1
      BY <3>1, MinIs
    <3>3. QED
      BY <3>1, <3>2, <1>1, <1>2, <1>6, <1>7, <2>3 DEF FirstIn
  <2>4. CASE Outputs(s) # {}
    <3>1. PICK m \in Outputs(s) : m = Min(Outputs(s)) /\ \A i \in Outputs(s) : m <= i
      BY <2>4, <1>5, MinOf
    <3>2. m \in Outputs(t) /\ \A i \in Outputs(t) : m <= i
      BY <3>1, <2>1, <2>2, <1>5
    <3>3. Outputs(t) \in SUBSET Nat
      BY <1>3 DEF Outputs
    <3>4. Min(Outputs(t)) = m
      BY <3>2, <3>3, MinIs
    <3>5. QED
      BY <3>1, <3>2, <3>4, <1>2, <1>6, <2>4 DEF FirstIn
  <2>5. QED
    BY <2>3, <2>4
<1>8. CASE ~(~e.final /\ \E p \in ToSet(e.items) : IsFirstModelOutput(p))
  <2>1. Outputs(t) = Outputs(s)
    BY <1>1, <1>3, <1>4, <1>8 DEF Outputs
  <2>2. QED
    BY <2>1, <1>2, <1>8 DEF FirstIn
<1>9. QED
  BY <1>7, <1>8

\* Before the first event there is none.
LEMMA FirstEmpty ==
  FirstIn(<<>>) = 0
<1>1. Outputs(<<>>) = {}
  BY DEF Outputs
<1>2. QED
  BY <1>1 DEF FirstIn

\* A new request starts with an entry of its own.
LEMMA GenerateOpens ==
  ASSUME TextTypes, NEW r \in RequestType, Generate(r)
  PROVE  TextInv'
<1>0. \/ /\ phase' = "ended" /\ result' = "failed"
         /\ metric' = [requests |-> 1, terminals |-> <<"failed">>, ttft |-> 0, reports |-> <<>>]
      \/ /\ phase' = "asked" /\ result' = "none"
         /\ metric' = [requests |-> 1, terminals |-> <<>>, ttft |-> 0, reports |-> <<>>]
  <2>1. [NoMetric EXCEPT !.requests = 1] =
          [requests |-> 1, terminals |-> <<>>, ttft |-> 0, reports |-> <<>>]
    BY DEF NoMetric
  <2>2. Append(<<>>, "failed") = <<"failed">>
    OBVIOUS
  <2>3. Close([NoMetric EXCEPT !.requests = 1], "failed") =
          [requests |-> 1, terminals |-> <<"failed">>, ttft |-> 0, reports |-> <<>>]
    <3>1. PICK m : m = [requests |-> 1, terminals |-> <<>>, ttft |-> 0, reports |-> <<>>]
      OBVIOUS
    <3>2. PICK t : t = Append(<<>>, "failed")
      OBVIOUS
    <3>3. [m EXCEPT !.terminals = t] = [requests |-> 1, terminals |-> t, ttft |-> 0, reports |-> <<>>]
      BY <3>1
    <3>4. m.terminals = <<>>
      BY <3>1
    <3>5. Close(m, "failed") = [m EXCEPT !.terminals = t]
      BY <3>2, <3>4 DEF Close
    <3>6. QED
      BY <2>1, <2>2, <3>1, <3>2, <3>3, <3>5
  <2>4. QED
    BY <2>1, <2>3 DEF Generate
<1>1. Accounts'
  BY <1>0 DEF Accounts, Outcome
<1>2. Usages'
  BY UsageEmpty DEF Generate, Usages
<1>3. Asked'
  BY DEF Generate, Asked, NoMetric, Close
<1>4. Timed'
  <2>1. events' = <<>> /\ sequence' = 0 /\ metric'.ttft = 0
    BY <1>0 DEF Generate
  <2>2. FirstIn(events)' = 0 /\ Len(events') = 0 /\ DOMAIN events' = {}
    BY <2>1, FirstEmpty
  <2>3. QED
    BY <2>1, <2>2 DEF Timed
<1>5. QED
  BY <1>1, <1>2, <1>3, <1>4, GenerateKeepsTypes DEF TextInv

\* So does a follow-up.
LEMMA FollowUpOpens ==
  ASSUME TextTypes, FollowUp
  PROVE  TextInv'
<1>1. request \in RequestType
  BY DEF TextTypes
<1>2. \A items \in Seq(ItemType), b \in BOOLEAN :
        [request EXCEPT !.items = items, !.resumes = b] \in RequestType
  BY <1>1 DEF RequestType
<1>3. Answers \in Seq(ItemType) /\ request.items \o <<Answer>> \o Answers \in Seq(ItemType)
  BY <1>1, AnswersType DEF RequestType
<1>4. CASE Generate([request EXCEPT !.items = @ \o <<Answer>> \o Answers, !.resumes = FALSE])
  BY <1>4, <1>2, <1>3, GenerateOpens
<1>5. CASE Generate([request EXCEPT !.items = Answers, !.resumes = TRUE])
  BY <1>5, <1>2, <1>3, GenerateOpens
<1>6. QED
  BY <1>4, <1>5 DEF FollowUp

\* A return closes the entry once.
LEMMA CallReturns ==
  ASSUME Accounts, phase # "ended", phase # "new", NEW m, NEW status \in Errors \union {"ok"},
         m.requests = metric.requests, m.terminals = metric.terminals,
         m.reports = metric.reports, m \in MetricType, Return(status, m),
         status = "ok" => metric.reports # <<>>,
         UNCHANGED <<usage, bound, request>>
  PROVE  Accounts'
<1>1. metric' = [m EXCEPT !.terminals = Append(<<>>, Outcome(status))] /\ phase' = "ended" /\ result' = status
  BY DEF Return, Close, Accounts
<1>2. /\ metric'.requests = 1 /\ metric'.terminals = <<Outcome(status)>>
      /\ metric'.reports = metric.reports
  BY <1>1 DEF MetricType, Accounts
<1>3. status # "none"
  BY DEF Errors
<1>4. Mode' = Mode
  BY DEF Mode
<1>5. metric'.reports = <<>> \/ metric'.reports = <<[usage |-> usage', cache |-> ClassifyCache(Mode', usage')]>>
  BY <1>2, <1>4 DEF Accounts
<1>6. QED
  BY <1>1, <1>2, <1>3, <1>5 DEF Accounts

\* Every step keeps the entry and the phase together.
LEMMA AccountsStep ==
  ASSUME TextInv, [Next]_vars
  PROVE  Accounts'
<1> USE DEF TextInv
<1>m. metric \in MetricType
  BY DEF TextTypes
<1>1. ASSUME Open PROVE Accounts'
  BY <1>1, GenerateOpens DEF Open, TextTypes
<1>2. ASSUME FollowUp PROVE Accounts'
  BY <1>2, FollowUpOpens
<1>3. ASSUME UpstreamFails PROVE Accounts'
  <2>1. PICK status \in Errors : Return(status, metric)
    BY <1>3 DEF UpstreamFails
  <2>2. status # "ok"
    BY DEF Errors
  <2>3. QED
    BY <1>3, <1>m, <2>1, <2>2, CallReturns DEF UpstreamFails, turn, stream
<1>4. ASSUME ChunkArrives PROVE Accounts'
  BY <1>4 DEF ChunkArrives, Accounts, turn
<1>5. ASSUME Emit PROVE Accounts'
  <2>1. PICK timed : timed = [metric EXCEPT !.ttft =
                        IF @ = 0 /\ IsFirstModelOutput(Head(outbox)) THEN sequence + 1 ELSE @]
    OBVIOUS
  <2>2. /\ timed.requests = metric.requests /\ timed.terminals = metric.terminals
        /\ timed.reports = metric.reports
    BY <1>m, <2>1 DEF MetricType
  <2>3. timed \in MetricType
    <3>1. sequence \in Nat
      BY DEF TextTypes
    <3>2. QED
      BY <1>m, <2>1, <3>1 DEF MetricType
  <2>4. CASE metric' = timed /\ UNCHANGED <<phase, result>>
    BY <1>5, <2>2, <2>4 DEF Emit, Accounts, turn, Mode
  <2>5. CASE \E status \in Errors : Return(status, timed)
    <3>1. PICK status \in Errors : Return(status, timed)
      BY <2>5
    <3>2. status # "ok"
      BY DEF Errors
    <3>3. QED
      BY <1>5, <2>2, <2>3, <3>1, <3>2, CallReturns DEF Emit, turn
  <2>6. QED
    BY <1>5, <2>1, <2>4, <2>5 DEF Emit
<1>6. ASSUME StreamEnds PROVE Accounts'
  <2>1. metric.reports = <<>> /\ metric' = Reported(metric, usage)
    BY <1>6 DEF StreamEnds, Accounts
  <2>2. /\ metric'.reports = <<[usage |-> usage, cache |-> ClassifyCache(Mode, usage)]>>
        /\ metric'.requests = metric.requests /\ metric'.terminals = metric.terminals
    BY <2>1, <1>m DEF Reported, MetricType
  <2>3. Mode' = Mode /\ usage' = usage /\ phase' = "closing" /\ result' = result
    BY <1>6 DEF StreamEnds, turn, stream, Mode
  <2>4. QED
    BY <1>6, <2>2, <2>3 DEF StreamEnds, Accounts
<1>7. ASSUME DocumentArrives PROVE Accounts'
  <2>1. metric.reports = <<>> /\ metric' = Reported(metric, usage')
    BY <1>7 DEF DocumentArrives, Accounts
  <2>2. /\ metric'.reports = <<[usage |-> usage', cache |-> ClassifyCache(Mode, usage')]>>
        /\ metric'.requests = metric.requests /\ metric'.terminals = metric.terminals
    BY <2>1, <1>m DEF Reported, MetricType
  <2>3. Mode' = Mode /\ phase = "asked" /\ phase' = "closing" /\ result' = result
    BY <1>7 DEF DocumentArrives, turn, Mode
  <2>4. QED
    BY <2>2, <2>3 DEF Accounts
<1>8. ASSUME SendFinal PROVE Accounts'
  <2>1. PICK status \in Errors \union {"ok"} : Return(status, metric)
    BY <1>8 DEF SendFinal
  <2>2. metric.reports # <<>> /\ UNCHANGED <<usage, bound, request>>
    BY <1>8 DEF SendFinal, Accounts, turn
  <2>3. phase = "closing"
    BY <1>8 DEF SendFinal
  <2>4. QED
    BY <1>m, <2>1, <2>2, <2>3, CallReturns
<1>9. ASSUME UNCHANGED vars PROVE Accounts'
  BY <1>9 DEF vars, turn, stream, Accounts, Mode
<1>10. QED
  BY <1>1, <1>2, <1>3, <1>4, <1>5, <1>6, <1>7, <1>8, <1>9 DEF Next

\* Ark tells of usage in the completed response alone.
LEMMA ArkTellsOnce ==
  ASSUME family = "ark", NEW chunk \in Chunks, ~chunk.named
  PROVE  chunk.usage = NoUsage
<1>1. chunk \in Told({<<>>} \union {<<d>> : d \in Deltas}, {NoUsage}, FALSE, TRUE)
  BY DEF Chunks, Told
<1>2. QED
  BY <1>1 DEF Told

\* Only whole answers may be without choices.
LEMMA ChunksHaveChoices ==
  ASSUME NEW chunk \in Chunks
  PROVE  chunk.choices
<1>1. ASSUME NEW P, NEW U, NEW n \in BOOLEAN, chunk \in Told(P, U, n, TRUE)
      PROVE  chunk.choices
  BY <1>1 DEF Told
<1>2. CASE family = "ark"
  BY <1>1, <1>2 DEF Chunks
<1>3. CASE family # "ark"
  BY <1>1, <1>3 DEF Chunks
<1>4. QED
  BY <1>2, <1>3

\* Every step keeps the usage to report the one told last.
LEMMA UsagesStep ==
  ASSUME TextInv, [Next]_vars
  PROVE  Usages'
<1> USE DEF TextInv
<1>0. told \in Seq(ChunkType) /\ family \in TextFamilies
  BY DEF TextTypes
<1>1. ASSUME Open \/ FollowUp PROVE Usages'
  BY <1>1, GenerateOpens, FollowUpOpens DEF Open, TextTypes
<1>2. ASSUME UNCHANGED <<usage, told, family, named, request>> PROVE Usages'
  BY <1>2 DEF Usages
<1>3. ASSUME UpstreamFails \/ Emit \/ StreamEnds \/ SendFinal \/ UNCHANGED vars PROVE Usages'
  BY <1>3, <1>2 DEF UpstreamFails, Emit, StreamEnds, SendFinal, vars, turn, stream
<1>4. ASSUME ChunkArrives PROVE Usages'
  <2>1. PICK chunk \in Chunks :
           /\ told' = Append(told, chunk)
           /\ usage' = UsageAfter(chunk) /\ named' = (named \/ chunk.named)
    BY <1>4 DEF ChunkArrives
  <2>2. chunk \in ChunkType /\ chunk.choices
    BY ChunkTypes, ChunksHaveChoices
  <2>3. family' = family /\ request' = request /\ request.streaming
    BY <1>4 DEF ChunkArrives, turn
  <2>4. UsageIn(family, told') = IF chunk.usage # NoUsage \/ family = "gemini" THEN chunk.usage ELSE usage
    BY <1>0, <2>1, <2>2, UsageAppend DEF Usages
  <2>5. CASE family = "ark"
    <3>1. ~named
      BY <1>4, <2>5 DEF ChunkArrives, Completed
    <3>2. usage = NoUsage
      BY <2>3, <2>5, <3>1 DEF Usages
    <3>3. ~chunk.named => chunk.usage = NoUsage
      BY <2>5, ArkTellsOnce
    <3>4. QED
      BY <2>1, <2>3, <2>4, <2>5, <3>1, <3>2, <3>3 DEF Usages, UsageAfter
  <2>6. CASE family \in {"openai", "gemini"}
    BY <2>1, <2>3, <2>4, <2>6 DEF Usages, UsageAfter
  <2>7. QED
    BY <1>0, <2>5, <2>6 DEF TextFamilies
<1>5. ASSUME DocumentArrives PROVE Usages'
  <2>1. PICK doc \in Documents :
           told' = <<doc>> /\ usage' = IF doc.choices THEN doc.usage ELSE NoUsage
    BY <1>5 DEF DocumentArrives
  <2>2. doc \in ChunkType
    BY ChunkTypes
  <2>3. <<>> \in Seq(ChunkType) /\ Append(<<>>, doc) = <<doc>>
    BY EmptySeq
  <2>4. UsageIn(family, <<doc>>) =
          IF doc.choices /\ (doc.usage # NoUsage \/ family = "gemini") THEN doc.usage ELSE NoUsage
    <3>1. UsageIn(family, Append(<<>>, doc)) =
            IF doc.choices /\ (doc.usage # NoUsage \/ family = "gemini") THEN doc.usage
            ELSE UsageIn(family, <<>>)
      BY <2>2, <2>3, UsageAppend
    <3>2. QED
      BY <2>3, <3>1, UsageEmpty
  <2>5. family' = family /\ request' = request /\ ~request.streaming
    BY <1>5 DEF DocumentArrives, turn
  <2>6. QED
    BY <2>1, <2>4, <2>5 DEF Usages
<1>6. QED
  BY <1>1, <1>3, <1>4, <1>5 DEF Next

\* Every step keeps `disabled' to requests that were not to be cached.
LEMMA AskedStep ==
  ASSUME TextInv, [Next]_vars
  PROVE  Asked'
<1> USE DEF TextInv
<1>1. ASSUME Open \/ FollowUp PROVE Asked'
  BY <1>1, GenerateOpens, FollowUpOpens DEF Open, TextTypes
<1>2. ASSUME phase \in {"asked", "reading", "closing"}, UNCHANGED turn PROVE Asked'
  BY <1>2 DEF Asked, turn
<1>3. ASSUME UpstreamFails \/ ChunkArrives \/ Emit \/ StreamEnds \/ DocumentArrives \/ SendFinal PROVE Asked'
  BY <1>3, <1>2 DEF UpstreamFails, ChunkArrives, Emit, StreamEnds, DocumentArrives, SendFinal
<1>4. ASSUME UNCHANGED vars PROVE Asked'
  BY <1>4 DEF vars, turn, Asked
<1>5. QED
  BY <1>1, <1>3, <1>4 DEF Next

\* Every step keeps the time of the first output and the events together.
LEMMA TimedStep ==
  ASSUME TextInv, [Next]_vars
  PROVE  Timed'
<1> USE DEF TextInv
<1>0. metric \in MetricType /\ events \in Seq(EventType) /\ outbox \in Seq(Piece) /\ sequence \in Nat
  BY DEF TextTypes
<1>1. ASSUME Open \/ FollowUp PROVE Timed'
  BY <1>1, GenerateOpens, FollowUpOpens DEF Open, TextTypes
<1>2. ASSUME UNCHANGED <<events, sequence>>, metric'.ttft = metric.ttft, phase # "ended" PROVE Timed'
  BY <1>2 DEF Timed
<1>3. ASSUME UpstreamFails PROVE Timed'
  <2>1. PICK status \in Errors : Return(status, metric)
    BY <1>3 DEF UpstreamFails
  <2>2. metric'.ttft = metric.ttft
    BY <1>0, <2>1 DEF Return, Close, MetricType
  <2>3. QED
    BY <1>2, <1>3, <2>2 DEF UpstreamFails, stream
<1>4. ASSUME ChunkArrives PROVE Timed'
  BY <1>2, <1>4 DEF ChunkArrives
<1>5. ASSUME StreamEnds \/ DocumentArrives PROVE Timed'
  <2>1. metric' = Reported(metric, usage) \/ metric' = Reported(metric, usage')
    BY <1>5 DEF StreamEnds, DocumentArrives
  <2>2. metric'.ttft = metric.ttft
    BY <1>0, <2>1 DEF Reported, MetricType
  <2>3. UNCHANGED <<events, sequence>> /\ phase # "ended"
    BY <1>5 DEF StreamEnds, DocumentArrives, stream
  <2>4. QED
    BY <1>2, <2>2, <2>3
<1>6. ASSUME Emit PROVE Timed'
  <2>0. phase = "reading" /\ outbox # <<>>
    BY <1>6 DEF Emit
  <2>1. PICK head \in Piece : head = Head(outbox)
    BY <1>0, <2>0, HeadTailProperties
  <2>2. PICK timed : timed = [metric EXCEPT !.ttft =
                        IF @ = 0 /\ IsFirstModelOutput(Head(outbox)) THEN sequence + 1 ELSE @]
    OBVIOUS
  <2>3. /\ sequence = Len(events) /\ metric.ttft = FirstIn(events)
        /\ \A i \in DOMAIN events : ~events[i].final
    BY <2>0 DEF Timed
  <2>4. timed.ttft = IF FirstIn(events) = 0 /\ IsFirstModelOutput(head) THEN Len(events) + 1 ELSE FirstIn(events)
    BY <1>0, <2>1, <2>2, <2>3 DEF MetricType
  <2>5. CASE /\ events' = Append(events, Event(sequence, <<Head(outbox)>>, FALSE))
             /\ sequence' = sequence + 1
             /\ metric' = timed
    <3>0. <<head>> \in Seq(Piece)
      BY <2>1
    <3>1. PICK e \in EventType : e = Event(sequence, <<Head(outbox)>>, FALSE)
      BY <1>0, <2>1, <3>0 DEF Event, EventType
    <3>2. ~e.final /\ e.items = <<head>>
      BY <2>1, <3>1 DEF Event
    <3>3. ToSet(e.items) = {head}
      BY <3>2 DEF ToSet
    <3>4. FirstIn(events') = IF FirstIn(events) = 0 /\ IsFirstModelOutput(head) THEN Len(events) + 1 ELSE FirstIn(events)
      BY <1>0, <2>5, <3>1, <3>2, <3>3, FirstAppend
    <3>5. Len(events') = Len(events) + 1 /\ \A i \in DOMAIN events' : ~events'[i].final
      <4>1. PICK n \in Nat : n = Len(events) /\ DOMAIN events = 1..n
        BY <1>0
      <4>2. events' = Append(events, e)
        BY <2>5, <3>1
      <4>3. /\ DOMAIN events' = 1..(n + 1) /\ Len(events') = n + 1 /\ events'[n + 1] = e
            /\ \A i \in 1..n : events'[i] = events[i]
        BY <1>0, <4>1, <4>2
      <4>4. \A i \in 1..(n + 1) : i \in 1..n \/ i = n + 1
        OBVIOUS
      <4>5. QED
        BY <2>3, <3>2, <4>1, <4>3, <4>4
    <3>6. QED
      BY <2>3, <2>4, <2>5, <3>4, <3>5 DEF Timed
  <2>6. CASE /\ \E status \in Errors : Return(status, timed)
             /\ UNCHANGED <<events, sequence>>
    <3>1. timed \in MetricType
      <4>1. sequence + 1 \in Nat
        BY <1>0
      <4>2. QED
        BY <1>0, <4>1, <2>2 DEF MetricType
    <3>2. metric'.ttft = timed.ttft /\ phase' = "ended"
      BY <2>6, <3>1 DEF Return, Close, MetricType
    <3>3. QED
      BY <2>4, <2>6, <3>2 DEF Timed
  <2>7. QED
    BY <1>6, <2>2, <2>5, <2>6 DEF Emit
<1>7. ASSUME SendFinal PROVE Timed'
  <2>1. PICK status \in Errors \union {"ok"} : Return(status, metric)
    BY <1>7 DEF SendFinal
  <2>2. metric'.ttft = metric.ttft /\ phase' = "ended"
    BY <1>0, <2>1 DEF Return, Close, MetricType
  <2>3. metric.ttft = FirstIn(events)
    BY <1>7 DEF SendFinal, Timed
  <2>4. CASE UNCHANGED events
    BY <2>2, <2>3, <2>4 DEF Timed
  <2>5. CASE events' = Append(events, Event(sequence, outbox, TRUE))
    <3>1. PICK e \in EventType : e = Event(sequence, outbox, TRUE)
      BY <1>0 DEF Event, EventType
    <3>2. e.final
      BY <3>1 DEF Event
    <3>3. FirstIn(events') = FirstIn(events)
      BY <1>0, <2>5, <3>1, <3>2, FirstAppend
    <3>4. QED
      BY <2>2, <2>3, <3>3 DEF Timed
  <2>6. QED
    BY <1>7, <2>4, <2>5 DEF SendFinal
<1>8. ASSUME UNCHANGED vars PROVE Timed'
  BY <1>8 DEF vars, stream, Timed
<1>9. QED
  BY <1>1, <1>3, <1>4, <1>5, <1>6, <1>7, <1>8 DEF Next

\* The invariant holds before the first request.
LEMMA TextStarts ==
  ASSUME Init
  PROVE  TextInv
<1>1. NoMetric \in MetricType /\ NoMetric.requests = 0 /\ NoMetric.terminals = <<>>
        /\ NoMetric.ttft = 0 /\ NoMetric.reports = <<>>
  BY EmptySeq DEF NoMetric, MetricType
<1>2. request \in RequestType
  BY PromptsAssumption DEF Init
<1>3. told = <<>> /\ events = <<>> /\ outbox = <<>>
  BY DEF Init
<1>4. told \in Seq(ChunkType) /\ events \in Seq(EventType) /\ outbox \in Seq(Piece)
  BY <1>3, EmptySeq
<1>5. bound \in BOOLEAN /\ named \in BOOLEAN
  BY DEF Init
<1>6. usage \in UsageReports
  BY DEF Init, UsageReports
<1>7. TextTypes
  BY <1>1, <1>2, <1>4, <1>5, <1>6 DEF Init, TextTypes
<1>8. Accounts
  BY <1>1 DEF Init, Accounts
<1>9. Usages
  BY <1>3, UsageEmpty DEF Init, Usages
<1>10. Asked
  BY <1>1 DEF Init, Asked
<1>11. Timed
  <2>1. FirstIn(events) = 0 /\ Len(events) = 0 /\ DOMAIN events = {}
    BY <1>3, FirstEmpty
  <2>2. QED
    BY <2>1, <1>1 DEF Init, Timed
<1>12. QED
  BY <1>7, <1>8, <1>9, <1>10, <1>11 DEF TextInv

\* The inductive invariant of the text stream, which the theorems after it rest on.
THEOREM TextInvariant == Spec => []TextInv
<1>1. Init => TextInv
  BY TextStarts
<1>2. TextInv /\ [Next]_vars => TextInv'
  BY TypesStep, AccountsStep, UsagesStep, AskedStep, TimedStep DEF TextInv
<1>3. QED
  BY <1>1, <1>2, PTL DEF Spec

\* What the provider was asked for and what the entry says of the cache.
LEMMA DisabledIsNotAsked ==
  ASSUME TextTypes, NEW u \in UsageReports, ClassifyCache(Mode, u) = "disabled",
         sent = <<Upstream(family, bound, request)>>
  PROVE  ~sent[1].caches
<1>1. Mode = "explicit_disabled"
  BY DEF ClassifyCache, UsageReports, NoUsage, Uncached, Cached
<1>2. bound \in BOOLEAN /\ request.caching \in {"omitted", "on", "off"}
  BY DEF TextTypes, RequestType
<1>3. ~bound /\ request.caching = "off"
  BY <1>1, <1>2 DEF Mode, CachingMode
<1>4. ~AsksToCache(family, bound, request)
  BY <1>3 DEF AsksToCache
<1>5. QED
  BY <1>4 DEF Upstream

\* The invariant means what Accounted says.
LEMMA EntriesAgree ==
  ASSUME TextInv
  PROVE  Accounted
<1> DEFINE first == SelectInSeq(events, LAMBDA e : ~e.final /\ \E p \in ToSet(e.items) : IsFirstModelOutput(p))
<1>0. TextTypes /\ Accounts /\ Usages /\ Asked /\ Timed
  BY DEF TextInv
<1>1. Len(metric.terminals) = IF phase = "ended" THEN metric.requests ELSE 0
  <2>1. CASE phase = "ended"
    <3>1. metric.terminals = <<Outcome(result)>> /\ metric.requests = 1
      BY <1>0, <2>1 DEF Accounts
    <3>2. QED
      BY <2>1, <3>1
  <2>2. CASE phase # "ended"
    <3>1. metric.terminals = <<>>
      BY <1>0, <2>2 DEF Accounts
    <3>2. QED
      BY <2>2, <3>1
  <2>3. QED
    BY <2>1, <2>2
<1>2. phase = "ended" => (metric.terminals = <<"succeeded">> <=> result = "ok")
  <2>1. result \in {"none", "ok"} \union Errors
    BY <1>0 DEF TextTypes
  <2>2. QED
    BY <1>0, <2>1 DEF Accounts, Outcome, Errors
<1>3. phase = "closing" \/ result = "ok" => Len(metric.reports) = 1
  BY <1>0 DEF Accounts
<1>4. ASSUME NEW i \in DOMAIN metric.reports
      PROVE  /\ metric.reports[i].usage = UsageTold
             /\ metric.reports[i].cache = "disabled" => ~sent[1].caches
  <2>1. metric.reports # <<>>
    BY <1>4
  <2>2. metric.reports = <<[usage |-> usage, cache |-> ClassifyCache(Mode, usage)]>>
    BY <1>0, <2>1 DEF Accounts
  <2>3. metric.reports[i] = [usage |-> usage, cache |-> ClassifyCache(Mode, usage)]
    BY <1>4, <2>2
  <2>4. usage = UsageTold
    BY <1>0, UsageToldIs DEF Usages
  <2>5. sent = <<Upstream(family, bound, request)>> /\ usage \in UsageReports
    BY <1>0, <2>1 DEF Asked, TextTypes
  <2>6. QED
    BY <1>0, <2>3, <2>4, <2>5, DisabledIsNotAsked
<1>5. first = FirstIn(events)
  BY DEF SelectInSeq, FirstIn, Outputs
<1>6. first # 0 => metric.ttft = first
  BY <1>0, <1>5 DEF Timed
<1>7. first = 0 => metric.ttft \in {0, Len(events) + 1}
  BY <1>0, <1>5 DEF Timed
<1>8. QED
  BY <1>1, <1>2, <1>3, <1>4, <1>6, <1>7 DEF Accounted

\* A request of a text model is counted once and ended once, as a success exactly when the
\* client got its final event; its usage is what the upstream last told.
THEOREM RequestsAreAccounted == Spec => []Accounted
<1>1. QED
  BY TextInvariant, EntriesAgree, PTL

-----------------------------------------------------------------------------
(* Delivery.  While the call runs, what the client got and what waits in   *)
(* the outbox are together what it is due; and Ark's emittedCalls are the  *)
(* calls among the deltas so far.                                          *)

Numbered ==
  \A i \in DOMAIN events :
    /\ events[i].seq = i - 1
    /\ events[i].final <=> (i = Len(events) /\ result = "ok")

Delivered ==
  /\ family = "ark" /\ request.streaming => emitted = {p \in ToSet(AllTold) : p.kind = "call"}
  /\ phase \in {"new", "asked"} => told = <<>> /\ events = <<>> /\ outbox = <<>>
  /\ IF phase # "ended" THEN Due = Got \o outbox
     ELSE IF result = "ok" THEN Got = Due /\ events # <<>>
     ELSE \E rest \in Seq(Piece) : Due = Got \o rest

DeliveryInv == TextInv /\ Numbered /\ Delivered

\* Unrepeated, a piece more: a call is left out if it was there before.
LEMMA UnrepeatedAppend ==
  ASSUME NEW s \in Seq(Piece), NEW d \in Piece, Unrepeated(s) \in Seq(Piece)
  PROVE  /\ Unrepeated(Append(s, d)) =
              IF d.kind = "call" /\ d \in ToSet(s) THEN Unrepeated(s) ELSE Append(Unrepeated(s), d)
         /\ Unrepeated(Append(s, d)) \in Seq(Piece)
<1> DEFINE new(u) == {i \in DOMAIN u : ~(u[i].kind = "call" /\ \E j \in 1..(i - 1) : u[j] = u[i])}
           firsts(u) == Within([i \in DOMAIN u |-> i], new(u))
<1>1. PICK n \in Nat : n = Len(s) /\ DOMAIN s = 1..n
  OBVIOUS
<1>2. PICK t : t = Append(s, d)
  OBVIOUS
<1>3. /\ t \in Seq(Piece) /\ Len(t) = n + 1 /\ DOMAIN t = 1..(n + 1) /\ t[n + 1] = d
      /\ \A i \in 1..n : t[i] = s[i]
  BY <1>1, <1>2
<1>4. \A u : Unrepeated(u) = [i \in DOMAIN firsts(u) |-> u[firsts(u)[i]]]
  BY DEF Unrepeated
<1>5. PICK from, upTo : from = [i \in 1..n |-> i] /\ upTo = [i \in 1..(n + 1) |-> i]
  OBVIOUS
<1>6. from \in Seq(1..n) /\ Len(from) = n /\ from \in Seq(Nat)
  BY <1>5
<1>7. upTo = Append(from, n + 1)
  <2>1. upTo \in Seq(Nat) /\ Len(upTo) = n + 1 /\ upTo[n + 1] = n + 1 /\ \A i \in 1..n : upTo[i] = from[i]
    BY <1>5
  <2>2. Len(upTo) = Len(from) + 1 /\ \A i \in 1..Len(from) : upTo[i] = from[i]
    BY <1>6, <2>1
  <2>3. upTo = Append(from, upTo[Len(from) + 1])
    BY <1>6, <2>1, <2>2, IsAppend
  <2>4. QED
    BY <1>6, <2>1, <2>3
<1>8. \A i \in 1..n : i \in new(s) <=> i \in new(t)
  <2>1. ASSUME NEW i \in 1..n PROVE \A j \in 1..(i - 1) : j \in 1..n /\ t[j] = s[j]
    BY <1>3
  <2>2. ASSUME NEW i \in 1..n
        PROVE  (\E j \in 1..(i - 1) : s[j] = s[i]) <=> (\E j \in 1..(i - 1) : t[j] = t[i])
    BY <1>3, <2>1
  <2>3. \A i \in 1..n : i \in DOMAIN s /\ i \in DOMAIN t /\ t[i].kind = s[i].kind
    BY <1>1, <1>3
  <2>4. QED
    BY <2>2, <2>3
<1>9. n + 1 \in new(t) <=> ~(d.kind = "call" /\ d \in ToSet(s))
  <2>1. n + 1 \in DOMAIN t /\ (n + 1) - 1 = n
    BY <1>3
  <2>2. (\E j \in 1..n : t[j] = d) <=> d \in ToSet(s)
    BY <1>1, <1>3 DEF ToSet
  <2>3. QED
    BY <1>3, <2>1, <2>2
<1>10. PICK fs \in Seq(1..n) : fs = firsts(s)
  <2>1. Within(from, new(s)) \in Seq(1..n)
    BY <1>6, WithinType
  <2>2. firsts(s) = Within(from, new(s))
    BY <1>1, <1>5
  <2>3. QED
    BY <2>1, <2>2
<1>11. Within(from, new(t)) = fs
  <2>1. Within(from, new(s)) = Within(from, new(t))
    <3>1. PICK S, T : S = new(s) /\ T = new(t)
      OBVIOUS
    <3>2. \A i \in 1..n : i \in S <=> i \in T
      BY <1>8, <3>1
    <3>3. (1..n) \cap S = (1..n) \cap T
      BY <3>2
    <3>4. Within(from, S) = Within(from, (1..n) \cap S) /\ Within(from, T) = Within(from, (1..n) \cap T)
      BY <1>6, WithinSame
    <3>5. Within(from, S) = Within(from, T)
      BY <3>3, <3>4
    <3>6. QED
      BY <3>1, <3>5
  <2>2. firsts(s) = Within(from, new(s))
    BY <1>1, <1>5
  <2>3. QED
    BY <1>10, <2>1, <2>2
<1>12. firsts(t) = IF n + 1 \in new(t) THEN Append(fs, n + 1) ELSE fs
  <2>1. firsts(t) = Within(upTo, new(t))
    BY <1>3, <1>5
  <2>2. Within(Append(from, n + 1), new(t)) =
          IF n + 1 \in new(t) THEN Append(Within(from, new(t)), n + 1) ELSE Within(from, new(t))
    BY <1>6, WithinAppend
  <2>3. QED
    BY <1>7, <1>11, <2>1, <2>2
<1> HIDE DEF new, firsts
<1>13. PICK l \in Nat : l = Len(fs) /\ DOMAIN fs = 1..l
  <2>1. Len(fs) \in Nat /\ DOMAIN fs = 1..Len(fs)
    BY <1>10, LenProperties
  <2>2. QED
    BY <2>1
<1>14. Unrepeated(s) = [i \in 1..l |-> s[fs[i]]]
  BY <1>4, <1>10, <1>13
<1>15. \A i \in 1..l : fs[i] \in 1..n
  BY <1>10, <1>13
<1>16. PICK us \in Seq(Piece) : us = Unrepeated(s)
  OBVIOUS
<1>17. Len(us) = l /\ \A i \in 1..l : us[i] = s[fs[i]]
  BY <1>14, <1>16
<1>18. CASE n + 1 \notin new(t)
  <2>1. Unrepeated(t) = [i \in 1..l |-> t[fs[i]]]
    BY <1>4, <1>12, <1>13, <1>18
  <2>2. \A i \in 1..l : t[fs[i]] = s[fs[i]]
    BY <1>3, <1>15
  <2>3. Unrepeated(t) = Unrepeated(s)
    BY <1>14, <2>1, <2>2
  <2>4. QED
    BY <1>2, <1>9, <1>18, <2>3
<1>19. CASE n + 1 \in new(t)
  <2>1. PICK gs : gs = Append(fs, n + 1)
    OBVIOUS
  <2>2. DOMAIN gs = 1..(l + 1) /\ gs[l + 1] = n + 1 /\ \A i \in 1..l : gs[i] = fs[i]
    <3>1. fs \in Seq(Nat)
      BY <1>10, SeqMonotonic
    <3>2. QED
      BY <1>13, <2>1, <3>1
  <2>3. Unrepeated(t) = [i \in 1..(l + 1) |-> t[gs[i]]]
    BY <1>4, <1>12, <1>19, <2>1, <2>2
  <2>4. PICK k \in Nat : k = l + 1
    OBVIOUS
  <2>5. PICK ut : ut = [i \in 1..k |-> t[gs[i]]]
    OBVIOUS
  <2>6. \A i \in 1..k : i \in 1..l \/ i = l + 1
    BY <2>4
  <2>7. \A i \in 1..l : i \in 1..k /\ ut[i] = us[i] /\ ut[i] \in Piece
    <3>1. ASSUME NEW i \in 1..l PROVE i \in 1..k /\ ut[i] = us[i] /\ ut[i] \in Piece
      <4>1. i \in 1..k /\ ut[i] = t[gs[i]]
        BY <2>4, <2>5
      <4>2. gs[i] = fs[i] /\ fs[i] \in 1..n
        BY <1>15, <2>2
      <4>3. t[fs[i]] = s[fs[i]] /\ s[fs[i]] \in Piece
        BY <1>1, <1>3, <4>2
      <4>4. QED
        BY <1>17, <4>1, <4>2, <4>3
    <3>2. QED
      BY <3>1
  <2>8. ut[l + 1] = d
    BY <1>3, <2>2, <2>4, <2>5
  <2>9. ut \in Seq(Piece) /\ Len(ut) = k
    <3>1. \A i \in 1..k : ut[i] \in Piece
      BY <2>6, <2>7, <2>8
    <3>2. DOMAIN ut = 1..k /\ ut = [i \in 1..k |-> ut[i]]
      BY <2>5
    <3>3. QED
      BY <3>1, <3>2, SequenceOf
  <2>10. Len(ut) = Len(us) + 1 /\ \A i \in 1..Len(us) : ut[i] = us[i]
    BY <1>17, <2>4, <2>7, <2>9
  <2>11. ut = Append(us, ut[Len(us) + 1])
    BY <2>9, <2>10, IsAppend
  <2>12. ut = Append(us, d)
    BY <1>17, <2>8, <2>11
  <2>13. QED
    BY <1>2, <1>9, <1>16, <1>19, <2>3, <2>4, <2>5, <2>9, <2>12
<1>20. QED
  BY <1>18, <1>19

\* Unrepeated of nothing.
LEMMA UnrepeatedEmpty ==
  Unrepeated(<<>>) = <<>>
<1>1. PICK f : f = Within([i \in DOMAIN <<>> |-> i],
                 {i \in DOMAIN <<>> : ~((<<>>)[i].kind = "call" /\ \E j \in 1..(i - 1) : (<<>>)[j] = (<<>>)[i])})
  OBVIOUS
<1>2. [i \in DOMAIN <<>> |-> i] = <<>>
  OBVIOUS
<1>3. f = <<>>
  BY <1>1, <1>2, WithinEmpty
<1>4. [i \in DOMAIN f |-> (<<>>)[f[i]]] = <<>>
  BY <1>3
<1>5. QED
  BY <1>1, <1>4 DEF Unrepeated

\* Unrepeated leaves pieces.
LEMMA UnrepeatedType ==
  ASSUME NEW s \in Seq(Piece)
  PROVE  Unrepeated(s) \in Seq(Piece)
<1> DEFINE P == {r \in Seq(Piece) : Unrepeated(r) \in Seq(Piece)}
<1>1. <<>> \in P
  BY UnrepeatedEmpty, EmptySeq
<1>2. ASSUME NEW r \in Seq(Piece), NEW e \in Piece, r \in P PROVE Append(r, e) \in P
  <2>1. Append(r, e) \in Seq(Piece)
    OBVIOUS
  <2>2. Unrepeated(Append(r, e)) \in Seq(Piece)
    BY <1>2, UnrepeatedAppend
  <2>3. QED
    BY <2>1, <2>2
<1> HIDE DEF P
<1>3. Seq(Piece) \subseteq P
  BY <1>1, <1>2, SeqInduction
<1>4. QED
  BY <1>3 DEF P

\* Every step keeps the invariant.
LEMMA TextStep ==
  ASSUME TextInv, [Next]_vars
  PROVE  TextInv'
  BY TypesStep, AccountsStep, UsagesStep, AskedStep, TimedStep DEF TextInv

\* What was told and what is due are pieces.
LEMMA AllToldType ==
  ASSUME TextTypes
  PROVE  AllTold \in Seq(Piece) /\ Due \in Seq(Piece) /\ AllTold = PiecesOf(told)
<1>1. told \in Seq(ChunkType)
  BY DEF TextTypes
<1>2. AllTold \in Seq(Piece) /\ AllTold = PiecesOf(told)
  BY <1>1, PiecesType DEF AllTold, PiecesOf
<1>3. QED
  BY <1>2, UnrepeatedType DEF Due

\* A new conversation, or a new round of one: nothing is told and nothing is due.
LEMMA NothingDue ==
  ASSUME told = <<>>, events = <<>>
  PROVE  AllTold = <<>> /\ Due = <<>> /\ Got = <<>>
<1>1. AllTold = <<>> /\ Got = <<>>
  BY NothingYet DEF AllTold, PiecesOf, Got, ItemsOf
<1>2. QED
  BY <1>1, UnrepeatedEmpty DEF Due

\* Nothing told, nothing due.
LEMMA StartsEmpty ==
  ASSUME told = <<>>, events = <<>>, outbox = <<>>, emitted = {}, result # "ok"
  PROVE  Numbered /\ Delivered
<1>1. AllTold = <<>> /\ Due = <<>> /\ Got = <<>>
  BY NothingDue
<1>2. Due = Got \o outbox /\ <<>> \in Seq(Piece) /\ Due = Got \o <<>>
  BY <1>1, EmptySeq
<1>3. ToSet(AllTold) = {}
  BY <1>1 DEF ToSet
<1>4. Delivered
  BY <1>2, <1>3 DEF Delivered
<1>5. QED
  BY <1>4 DEF Numbered

\* So a new request starts.
LEMMA GenerateDelivers ==
  ASSUME Open \/ FollowUp
  PROVE  Numbered' /\ Delivered'
<1>1. told' = <<>> /\ events' = <<>> /\ outbox' = <<>> /\ emitted' = {} /\ result' # "ok"
  <2>1. \E r : Generate(r)
    BY DEF Open, FollowUp
  <2>2. QED
    BY <2>1 DEF Generate
<1>2. (told = <<>> /\ events = <<>> /\ outbox = <<>> /\ emitted = {} /\ result # "ok" => Numbered /\ Delivered)'
  BY StartsEmpty, PTL
<1>3. QED
  BY <1>1, <1>2

\* Every step keeps the numbers of the events.
LEMMA NumberedStep ==
  ASSUME DeliveryInv, [Next]_vars
  PROVE  Numbered'
<1>0. Timed /\ Accounts /\ Numbered /\ events \in Seq(EventType) /\ sequence \in Nat /\ outbox \in Seq(Piece)
  BY DEF DeliveryInv, TextInv, TextTypes
<1>1. ASSUME Open \/ FollowUp PROVE Numbered'
  BY <1>1, GenerateDelivers
<1>2. ASSUME phase # "ended", events' = events, result' # "ok" PROVE Numbered'
  BY <1>0, <1>2 DEF Timed, Numbered
<1>3. ASSUME phase # "ended", NEW items \in Seq(Piece), NEW final \in BOOLEAN,
             events' = Append(events, Event(sequence, items, final)), final <=> result' = "ok"
      PROVE  Numbered'
  <2>1. PICK e \in EventType : e = Event(sequence, items, final)
    BY <1>0 DEF Event, EventType
  <2>2. e.seq = sequence /\ e.final = final
    BY <2>1 DEF Event
  <2>3. PICK n \in Nat : n = Len(events) /\ DOMAIN events = 1..n
    BY <1>0
  <2>4. /\ DOMAIN events' = 1..(n + 1) /\ Len(events') = n + 1 /\ events'[n + 1] = e
        /\ \A i \in 1..n : events'[i] = events[i]
    BY <1>0, <1>3, <2>1, <2>3
  <2>5. n = sequence /\ \A i \in 1..n : ~events[i].final /\ events[i].seq = i - 1
    BY <1>0, <1>3, <2>3 DEF Timed, Numbered
  <2>6. \A i \in 1..(n + 1) : i = n + 1 \/ (i \in 1..n /\ i # n + 1)
    OBVIOUS
  <2>7. (n + 1) - 1 = n
    OBVIOUS
  <2>8. ASSUME NEW i \in 1..(n + 1)
        PROVE  events'[i].seq = i - 1 /\ (events'[i].final <=> (i = n + 1 /\ result' = "ok"))
    <3>1. CASE i = n + 1
      BY <1>3, <2>2, <2>4, <2>5, <2>7, <3>1
    <3>2. CASE i \in 1..n /\ i # n + 1
      BY <2>4, <2>5, <3>2
    <3>3. QED
      BY <2>6, <3>1, <3>2
  <2>9. QED
    BY <2>4, <2>8 DEF Numbered
<1>4. phase # "ended" => result = "none"
  BY <1>0 DEF Accounts
<1>5. ASSUME UpstreamFails \/ ChunkArrives \/ StreamEnds \/ DocumentArrives PROVE Numbered'
  <2>1. phase # "ended" /\ events' = events
    BY <1>5 DEF UpstreamFails, ChunkArrives, StreamEnds, DocumentArrives, stream
  <2>2. result' # "ok"
    <3>1. CASE UpstreamFails
      BY <3>1 DEF UpstreamFails, Return, Errors
    <3>2. CASE ~UpstreamFails
      BY <1>4, <1>5, <2>1, <3>2 DEF ChunkArrives, StreamEnds, DocumentArrives
    <3>3. QED
      BY <3>1, <3>2
  <2>3. QED
    BY <1>2, <2>1, <2>2
<1>6. ASSUME Emit PROVE Numbered'
  <2>1. phase = "reading" /\ outbox # <<>>
    BY <1>6 DEF Emit
  <2>2. <<Head(outbox)>> \in Seq(Piece)
    <3>1. Head(outbox) \in Piece
      BY <1>0, <2>1, HeadTailProperties
    <3>2. QED
      BY <3>1
  <2>3. CASE events' = Append(events, Event(sequence, <<Head(outbox)>>, FALSE)) /\ result' = result
    BY <1>3, <1>4, <2>1, <2>2, <2>3
  <2>4. CASE events' = events /\ result' \in Errors
    BY <1>2, <2>1, <2>4 DEF Errors
  <2>5. QED
    BY <1>6, <2>3, <2>4 DEF Emit, Return
<1>7. ASSUME SendFinal PROVE Numbered'
  <2>1. phase = "closing"
    BY <1>7 DEF SendFinal
  <2>2. CASE events' = Append(events, Event(sequence, outbox, TRUE)) /\ result' = "ok"
    BY <1>0, <1>3, <2>1, <2>2
  <2>3. CASE events' = events /\ result' \in Errors
    BY <1>2, <2>1, <2>3 DEF Errors
  <2>4. QED
    BY <1>7, <2>2, <2>3 DEF SendFinal, Return
<1>8. ASSUME UNCHANGED vars PROVE Numbered'
  BY <1>0, <1>8 DEF vars, stream, Numbered
<1>9. QED
  BY <1>1, <1>5, <1>6, <1>7, <1>8 DEF Next

\* Ark's stream tells of one delta at a time.
LEMMA ArkPieces ==
  ASSUME family = "ark", NEW chunk \in Chunks
  PROVE  chunk.pieces = <<>> \/ \E d \in Piece : chunk.pieces = <<d>>
<1>1. chunk.pieces \in {<<>>} \union {<<d>> : d \in Deltas}
  <2>1. ASSUME NEW P, NEW U, NEW n \in BOOLEAN, chunk \in Told(P, U, n, TRUE) PROVE chunk.pieces \in P
    BY <2>1 DEF Told
  <2>2. CASE chunk \in Told({<<>>} \union {<<d>> : d \in Deltas}, {NoUsage}, FALSE, TRUE)
    BY <2>1, <2>2
  <2>3. CASE chunk \in Told({<<>>}, UsageReports, TRUE, TRUE)
    <3>1. chunk.pieces \in {<<>>}
      BY <2>1, <2>3
    <3>2. QED
      BY <3>1
  <2>4. QED
    BY <2>2, <2>3 DEF Chunks
<1>2. QED
  BY <1>1, DeltaTypes

\* One more delta of Ark's is passed on unless it is a call that came before.
LEMMA ArkForwards ==
  ASSUME family = "ark", NEW d \in Piece, NEW s \in Seq(Piece),
         emitted = {p \in ToSet(s) : p.kind = "call"}
  PROVE  /\ Unrepeated(s \o <<d>>) = Unrepeated(s) \o Forwarded(<<d>>)
         /\ {p \in ToSet(s \o <<d>>) : p.kind = "call"} = emitted \union {p \in ToSet(<<d>>) : p.kind = "call"}
<1>0. s \o <<d>> = Append(s, d) /\ Unrepeated(s) \in Seq(Piece)
  BY UnrepeatedType
<1>1. ToSet(<<d>>) = {d}
  BY DEF ToSet
<1>2. ToSet(s \o <<d>>) = ToSet(s) \union {d}
  <2>1. Range(Append(s, d)) = Range(s) \union {d}
    BY RangeAppend
  <2>2. QED
    BY <1>0, <2>1 DEF Range, ToSet
<1>3. Forwarded(<<d>>) = IF ArkIsNew(d) THEN <<d>> ELSE <<>>
  <2>1. PICK S : S = {p \in ToSet(<<d>>) : ArkIsNew(p)}
    OBVIOUS
  <2>2. <<>> \in Seq(Piece) /\ Append(<<>>, d) = <<d>>
    BY EmptySeq
  <2>3. Within(Append(<<>>, d), S) = IF d \in S THEN Append(Within(<<>>, S), d) ELSE Within(<<>>, S)
    BY <2>2, WithinAppend
  <2>4. Within(<<d>>, S) = IF d \in S THEN <<d>> ELSE <<>>
    BY <2>2, <2>3, WithinEmpty
  <2>5. d \in S <=> ArkIsNew(d)
    BY <1>1, <2>1
  <2>6. QED
    BY <2>1, <2>4, <2>5 DEF Forwarded
<1>4. ArkIsNew(d) <=> ~(d.kind = "call" /\ d \in ToSet(s))
  BY DEF ArkIsNew
<1>5. Unrepeated(Append(s, d)) = IF ArkIsNew(d) THEN Append(Unrepeated(s), d) ELSE Unrepeated(s)
  BY <1>0, <1>4, UnrepeatedAppend
<1>6. \A u \in Seq(Piece) : Append(u, d) = u \o <<d>> /\ u = u \o <<>>
  OBVIOUS
<1>7. Unrepeated(s \o <<d>>) = Unrepeated(s) \o Forwarded(<<d>>)
  BY <1>0, <1>3, <1>5, <1>6
<1>8. QED
  BY <1>1, <1>2, <1>7

\* Every step keeps what is due the same as what was got and what waits.
LEMMA DeliveredStep ==
  ASSUME DeliveryInv, [Next]_vars
  PROVE  Delivered'
<1>0. /\ TextTypes /\ Accounts /\ Delivered
      /\ told \in Seq(ChunkType) /\ events \in Seq(EventType) /\ outbox \in Seq(Piece) /\ sequence \in Nat
  BY DEF DeliveryInv, TextInv, TextTypes
<1>a. AllTold \in Seq(Piece) /\ Due \in Seq(Piece) /\ Got \in Seq(Piece) /\ AllTold = PiecesOf(told) /\ Got = ItemsOf(events)
  BY <1>0, AllToldType, GotType DEF Got, ItemsOf
<1>1. ASSUME Open \/ FollowUp PROVE Delivered'
  BY <1>1, GenerateDelivers
<1>2. ASSUME UNCHANGED <<family, request, told, emitted>>
      PROVE  /\ (family = "ark" /\ request.streaming => emitted = {p \in ToSet(AllTold) : p.kind = "call"})'
             /\ AllTold' = AllTold /\ Due' = Due
  BY <1>0, <1>2 DEF Delivered, AllTold, Due
<1>3. ASSUME events' = events PROVE Got' = Got
  BY <1>3 DEF Got
<1>4. ASSUME phase # "ended", phase' = "ended", result' # "ok", events' = events,
             UNCHANGED <<family, request, told, emitted>>
      PROVE  Delivered'
  <2>1. Due' = Due /\ Got' = Got /\ Due = Got \o outbox
    BY <1>0, <1>2, <1>3, <1>4 DEF Delivered
  <2>2. \E rest \in Seq(Piece) : Due' = Got' \o rest
    BY <1>0, <2>1
  <2>3. QED
    BY <1>2, <1>4, <2>2 DEF Delivered
<1>5. ASSUME UpstreamFails PROVE Delivered'
  <2>1. phase # "ended" /\ phase' = "ended" /\ result' # "ok"
    BY <1>5 DEF UpstreamFails, Return, Errors
  <2>2. QED
    BY <1>4, <1>5, <2>1 DEF UpstreamFails, turn, stream
<1>6. ASSUME ChunkArrives PROVE Delivered'
  <2>1. PICK chunk \in Chunks :
           /\ told' = Append(told, chunk) /\ outbox' = Forwarded(chunk.pieces)
           /\ emitted' = emitted \union {p \in ToSet(chunk.pieces) : family = "ark" /\ p.kind = "call"}
    BY <1>6 DEF ChunkArrives
  <2>2. /\ phase' = "reading" /\ phase # "ended" /\ outbox = <<>> /\ request.streaming
        /\ family' = family /\ request' = request /\ events' = events
    BY <1>6 DEF ChunkArrives, turn
  <2>3. chunk \in ChunkType /\ chunk.pieces \in Seq(Piece)
    BY ChunkTypes DEF ChunkType
  <2>4. AllTold' = AllTold \o chunk.pieces
    <3>1. AllTold' = PiecesOf(told')
      BY DEF AllTold, PiecesOf
    <3>2. QED
      BY <1>0, <1>a, <2>1, <2>3, <3>1, PiecesAppend
  <2>5. Got' = Got /\ Due = Got
    BY <1>0, <1>a, <1>3, <2>2 DEF Delivered
  <2>6. CASE family = "ark"
    <3>1. Due = Unrepeated(AllTold) /\ Due' = Unrepeated(AllTold')
      BY <2>2, <2>6 DEF Due
    <3>2. emitted = {p \in ToSet(AllTold) : p.kind = "call"}
      BY <1>0, <2>2, <2>6 DEF Delivered
    <3>3. CASE chunk.pieces = <<>>
      <4>1. AllTold' = AllTold /\ ToSet(chunk.pieces) = {}
        BY <1>a, <2>4, <3>3 DEF ToSet
      <4>2. outbox' = <<>> /\ emitted' = emitted
        BY <2>1, <2>6, <3>3, <4>1, WithinEmpty DEF Forwarded
      <4>3. Due' = Got' \o outbox'
        BY <1>a, <2>5, <3>1, <4>1, <4>2
      <4>4. QED
        BY <2>2, <3>2, <4>1, <4>2, <4>3 DEF Delivered
    <3>4. CASE \E d \in Piece : chunk.pieces = <<d>>
      <4>1. PICK d \in Piece : chunk.pieces = <<d>>
        BY <3>4
      <4>2. /\ Unrepeated(AllTold \o <<d>>) = Unrepeated(AllTold) \o Forwarded(<<d>>)
            /\ {p \in ToSet(AllTold \o <<d>>) : p.kind = "call"} = emitted \union {p \in ToSet(<<d>>) : p.kind = "call"}
        BY <1>a, <2>6, <3>2, ArkForwards
      <4>3. Due' = Got' \o outbox'
        BY <2>1, <2>4, <2>5, <3>1, <4>1, <4>2
      <4>4. emitted' = {p \in ToSet(AllTold') : p.kind = "call"}
        BY <2>1, <2>4, <2>6, <4>1, <4>2
      <4>5. QED
        BY <2>2, <4>3, <4>4 DEF Delivered
    <3>5. QED
      BY <2>6, <3>3, <3>4, ArkPieces
  <2>7. CASE family # "ark"
    <3>1. Due = AllTold /\ Due' = AllTold' /\ outbox' = chunk.pieces
      BY <2>1, <2>2, <2>7 DEF Due, Forwarded
    <3>2. Due' = Got' \o outbox'
      BY <2>4, <2>5, <3>1
    <3>3. QED
      BY <2>2, <2>7, <3>2 DEF Delivered
  <2>8. QED
    BY <2>6, <2>7
<1>7. ASSUME Emit PROVE Delivered'
  <2>1. /\ phase = "reading" /\ outbox # <<>> /\ UNCHANGED <<family, request, told, emitted>>
    BY <1>7 DEF Emit, turn
  <2>2. CASE /\ events' = Append(events, Event(sequence, <<Head(outbox)>>, FALSE))
             /\ outbox' = Tail(outbox) /\ UNCHANGED <<phase, result>>
    <3>1. PICK head \in Piece : head = Head(outbox)
      BY <1>0, <2>1, HeadTailProperties
    <3>2. <<head>> \in Seq(Piece) /\ Tail(outbox) \in Seq(Piece) /\ outbox = <<head>> \o Tail(outbox)
      BY <1>0, <2>1, <3>1, HeadTailProperties
    <3>3. PICK e \in EventType : e = Event(sequence, <<head>>, FALSE)
      BY <1>0, <3>2 DEF Event, EventType
    <3>4. e.items = <<head>>
      BY <3>3 DEF Event
    <3>5. Got' = Got \o <<head>>
      <4>1. Got' = ItemsOf(events')
        BY DEF Got, ItemsOf
      <4>2. QED
        BY <1>0, <1>a, <2>2, <3>1, <3>3, <3>4, <4>1, ItemsAppend
    <3>6. Due' = Due /\ Due = Got \o outbox
      BY <1>0, <1>2, <2>1 DEF Delivered
    <3>7. Due' = Got' \o outbox'
      <4>1. \A r, t, u \in Seq(Piece) : (r \o t) \o u = r \o (t \o u)
        BY ConcatAssociative
      <4>2. (Got \o <<head>>) \o Tail(outbox) = Got \o (<<head>> \o Tail(outbox))
        BY <1>a, <3>2, <4>1
      <4>3. QED
        BY <2>2, <3>2, <3>5, <3>6, <4>2
    <3>8. QED
      BY <1>2, <2>1, <2>2, <3>7 DEF Delivered
  <2>3. CASE phase' = "ended" /\ result' \in Errors /\ events' = events
    BY <1>4, <2>1, <2>3 DEF Errors
  <2>4. QED
    BY <1>7, <2>2, <2>3 DEF Emit, Return
<1>8. ASSUME StreamEnds PROVE Delivered'
  <2>1. /\ phase' = "closing" /\ phase # "ended" /\ outbox' = outbox /\ events' = events
        /\ UNCHANGED <<family, request, told, emitted>>
    BY <1>8 DEF StreamEnds, turn, stream
  <2>2. QED
    BY <1>0, <1>2, <1>3, <2>1 DEF Delivered
<1>9. ASSUME DocumentArrives PROVE Delivered'
  <2>1. PICK doc \in Documents : told' = <<doc>> /\ outbox' = doc.pieces
    BY <1>9 DEF DocumentArrives
  <2>2. /\ phase = "asked" /\ phase' = "closing" /\ ~request.streaming
        /\ family' = family /\ request' = request /\ events' = events
    BY <1>9 DEF DocumentArrives, turn
  <2>3. doc \in ChunkType /\ doc.pieces \in Seq(Piece)
    BY ChunkTypes DEF ChunkType
  <2>4. told = <<>> /\ events = <<>>
    BY <1>0, <2>2 DEF Delivered
  <2>5. AllTold = <<>> /\ Got = <<>>
    BY <2>4, NothingDue
  <2>6. AllTold' = doc.pieces
    <3>1. AllTold' = PiecesOf(told')
      BY DEF AllTold, PiecesOf
    <3>2. told' = Append(told, doc)
      BY <2>1, <2>4
    <3>3. PiecesOf(Append(told, doc)) = PiecesOf(told) \o doc.pieces
      BY <1>0, <2>3, PiecesAppend
    <3>4. \A ps \in Seq(Piece) : <<>> \o ps = ps
      OBVIOUS
    <3>5. PiecesOf(told) = <<>>
      BY <1>a, <2>5
    <3>6. QED
      BY <2>3, <3>1, <3>2, <3>3, <3>4, <3>5
  <2>7. Due' = Got' \o outbox'
    BY <1>3, <2>1, <2>2, <2>3, <2>5, <2>6 DEF Due
  <2>8. QED
    BY <2>2, <2>7 DEF Delivered
<1>10. ASSUME SendFinal PROVE Delivered'
  <2>1. phase = "closing" /\ UNCHANGED <<family, request, told, emitted>>
    BY <1>10 DEF SendFinal, turn
  <2>2. CASE events' = Append(events, Event(sequence, outbox, TRUE)) /\ result' = "ok" /\ phase' = "ended"
    <3>1. PICK e \in EventType : e = Event(sequence, outbox, TRUE)
      BY <1>0 DEF Event, EventType
    <3>2. e.items = outbox
      BY <3>1 DEF Event
    <3>3. Got' = Got \o outbox
      <4>1. Got' = ItemsOf(events')
        BY DEF Got, ItemsOf
      <4>2. QED
        BY <1>0, <1>a, <2>2, <3>1, <3>2, <4>1, ItemsAppend
    <3>4. Due' = Due /\ Due = Got \o outbox
      BY <1>0, <1>2, <2>1 DEF Delivered
    <3>5. events' # <<>>
      <4>1. ASSUME NEW es \in Seq(EventType) PROVE Append(es, e) # <<>>
        <5>1. Len(Append(es, e)) = Len(es) + 1 /\ Len(es) \in Nat /\ Len(<<>>) = 0
          OBVIOUS
        <5>2. QED
          BY <5>1
      <4>2. QED
        BY <1>0, <2>2, <3>1, <4>1
    <3>6. QED
      BY <1>2, <2>1, <2>2, <3>3, <3>4, <3>5 DEF Delivered
  <2>3. CASE phase' = "ended" /\ result' \in Errors /\ events' = events
    BY <1>4, <2>1, <2>3 DEF Errors
  <2>4. QED
    BY <1>10, <2>2, <2>3 DEF SendFinal, Return
<1>11. ASSUME UNCHANGED vars PROVE Delivered'
  BY <1>0, <1>2, <1>3, <1>11 DEF vars, turn, stream, Delivered
<1>12. QED
  BY <1>1, <1>5, <1>6, <1>7, <1>8, <1>9, <1>10, <1>11 DEF Next

\* The inductive invariant of delivery: what a call has told its client and what it still
\* holds for it are together what the upstream told.
THEOREM DeliveryInvariant == Spec => []DeliveryInv
<1>1. Init => DeliveryInv
  <2> SUFFICES ASSUME Init PROVE DeliveryInv
    OBVIOUS
  <2>1. told = <<>> /\ events = <<>> /\ outbox = <<>> /\ emitted = {} /\ result # "ok"
    BY DEF Init
  <2>2. QED
    BY <2>1, TextStarts, StartsEmpty DEF DeliveryInv
<1>2. DeliveryInv /\ [Next]_vars => DeliveryInv'
  BY TextStep, NumberedStep, DeliveredStep DEF DeliveryInv
<1>3. QED
  BY <1>1, <1>2, PTL DEF Spec

\* What a sequence was continued from is a prefix of it.
LEMMA PrefixOf ==
  ASSUME NEW A, NEW s \in Seq(A), NEW t \in Seq(A)
  PROVE  IsPrefix(s, s \o t)
<1>1. PICK a \in Nat, b \in Nat : a = Len(s) /\ b = Len(t)
  OBVIOUS
<1>2. PICK u \in Seq(A) : u = s \o t
  <2>1. s \o t \in Seq(A)
    OBVIOUS
  <2>2. QED
    BY <2>1
<1>3. Len(u) = a + b /\ \A i \in 1..a : u[i] = s[i]
  BY <1>1, <1>2
<1>4. SubSeq(s, 1, a) = [i \in 1..a |-> s[i]] /\ SubSeq(u, 1, a) = [i \in 1..a |-> u[i]]
  BY <1>1, <1>3
<1>5. SubSeq(s, 1, a) = SubSeq(u, 1, a)
  BY <1>3, <1>4
<1>6. QED
  BY <1>1, <1>2, <1>3, <1>5 DEF IsPrefix

\* The invariant means what AnswerArrives says.
LEMMA DeliveryMeans ==
  ASSUME DeliveryInv
  PROVE  AnswerArrives
<1>1. Numbered /\ Delivered /\ Got \in Seq(Piece)
  BY GotType DEF DeliveryInv, TextInv
<1>2. Due \in Seq(Piece) /\ outbox \in Seq(Piece)
  BY AllToldType DEF DeliveryInv, TextInv, TextTypes
<1>3. result # "ok" => IsPrefix(Got, Due)
  <2> SUFFICES ASSUME result # "ok" PROVE IsPrefix(Got, Due)
    OBVIOUS
  <2>1. PICK rest \in Seq(Piece) : Due = Got \o rest
    BY <1>1, <1>2 DEF Delivered
  <2>2. QED
    BY <1>1, <2>1, PrefixOf
<1>4. result = "ok" => phase = "ended"
  BY DEF DeliveryInv, TextInv, Accounts
<1>5. QED
  BY <1>1, <1>3, <1>4 DEF AnswerArrives, Numbered, Delivered

\* The client gets the model's deltas in order, none lost and none doubled, in events
\* numbered without a gap; the call succeeds exactly with the final event, which is last and
\* completes the answer: for answers and conversations of any length.
THEOREM AnswersArrive == Spec => []AnswerArrives
<1>1. QED
  BY DeliveryInvariant, DeliveryMeans, PTL

-----------------------------------------------------------------------------
(* The prompt.  What the upstream hears is put together of what it hears   *)
(* of each item, and that is what the item means.                          *)

\* A unit is a part, a tool's output or a call; a word is a unit with the role it is said in.
Unit ==
  PartType \union [kind : {"output"}, tag : Tags]
    \union [kind : {"call"}, tag : Tags, name : Tags]

Roles     == {"system", "user", "assistant", "tool"}
EntryType == [role : Roles, units : Seq(Unit)]
Words     == Roles \X Unit

\* Units said in a role, and the entries of a conversation.
Voice         == [r \in Roles |-> [u \in Unit |-> <<r, u>>]]
Voiced(r, us) == Mapped(us, Voice[r])
Voices        == [e \in EntryType |-> Voiced(e.role, e.units)]
HeardIn(es)   == Gather(es, Voices)

\* A role gives words.
LEMMA VoiceType ==
  ASSUME NEW r \in Roles
  PROVE  Voice[r] \in [Unit -> Words] /\ \A u \in Unit : Voice[r][u] = <<r, u>>
  BY DEF Voice, Words

\* So do units said in it, each for itself.
LEMMA VoicedType ==
  ASSUME NEW r \in Roles, NEW us \in Seq(Unit)
  PROVE  Voiced(r, us) \in Seq(Words) /\ Voiced(r, us) = [i \in DOMAIN us |-> <<r, us[i]>>]
<1>1. Voiced(r, us) \in Seq(Words)
  BY VoiceType, MappedType DEF Voiced
<1>2. \A i \in DOMAIN us : us[i] \in Unit
  OBVIOUS
<1>3. \A i \in DOMAIN us : Voice[r][us[i]] = <<r, us[i]>>
  BY <1>2, VoiceType
<1>4. QED
  BY <1>1, <1>3 DEF Voiced, Mapped

\* Some units after others.
LEMMA VoicedConcat ==
  ASSUME NEW r \in Roles, NEW us \in Seq(Unit), NEW vs \in Seq(Unit)
  PROVE  Voiced(r, us \o vs) = Voiced(r, us) \o Voiced(r, vs)
<1>1. Voice[r] \in [Unit -> Words]
  BY VoiceType
<1>2. QED
  BY <1>1, MappedConcat DEF Voiced

\* Nothing said.
LEMMA VoicedNothing ==
  ASSUME NEW r
  PROVE  Voiced(r, <<>>) = <<>>
  BY MappedEmpty DEF Voiced

\* What an entry says.
LEMMA VoicesType ==
  /\ Voices \in [EntryType -> Seq(Words)]
  /\ \A r \in Roles, us \in Seq(Unit) :
       /\ [role |-> r, units |-> us] \in EntryType
       /\ Voices[[role |-> r, units |-> us]] = Voiced(r, us)
<1>1. \A e \in EntryType : e.role \in Roles /\ e.units \in Seq(Unit)
  BY DEF EntryType
<1>2. \A e \in EntryType : Voiced(e.role, e.units) \in Seq(Words)
  BY <1>1, VoicedType
<1>3. Voices \in [EntryType -> Seq(Words)]
  BY <1>2 DEF Voices
<1>4. \A r \in Roles, us \in Seq(Unit) : [role |-> r, units |-> us] \in EntryType
  BY DEF EntryType
<1>5. QED
  BY <1>3, <1>4 DEF Voices

\* An entry of units, whether or not it is left out when there are none.
LEMMA HeardEntry ==
  ASSUME NEW r \in Roles, NEW us \in Seq(Unit)
  PROVE  /\ Entry(r, us) \in Seq(EntryType) /\ EntryUnlessEmpty(r, us) \in Seq(EntryType)
         /\ HeardIn(Entry(r, us)) = Voiced(r, us)
         /\ HeardIn(EntryUnlessEmpty(r, us)) = Voiced(r, us)
<1>1. PICK e \in EntryType : e = [role |-> r, units |-> us] /\ Voices[e] = Voiced(r, us)
  BY VoicesType
<1>2. Entry(r, us) = <<e>>
  BY <1>1 DEF Entry
<1>3. HeardIn(<<e>>) = Voiced(r, us)
  BY <1>1, VoicesType, GatherOne DEF HeardIn
<1>4. <<e>> \in Seq(EntryType) /\ <<>> \in Seq(EntryType)
  BY EmptySeq
<1>5. CASE us = <<>>
  <2>1. EntryUnlessEmpty(r, us) = <<>>
    BY <1>5 DEF EntryUnlessEmpty
  <2>2. HeardIn(<<>>) = <<>> /\ Voiced(r, us) = <<>>
    BY <1>5, GatherEmpty, VoicedNothing DEF HeardIn
  <2>3. QED
    BY <1>2, <1>3, <1>4, <2>1, <2>2
<1>6. CASE us # <<>>
  <2>1. EntryUnlessEmpty(r, us) = <<e>>
    BY <1>2, <1>6 DEF EntryUnlessEmpty
  <2>2. QED
    BY <1>2, <1>3, <1>4, <2>1
<1>7. QED
  BY <1>5, <1>6

\* An entry for each unit.
Apart(r, us) == [i \in DOMAIN us |-> [role |-> r, units |-> <<us[i]>>]]

\* It says them all in the one role.
LEMMA HeardApart ==
  ASSUME NEW r \in Roles, NEW us \in Seq(Unit)
  PROVE  Apart(r, us) \in Seq(EntryType) /\ HeardIn(Apart(r, us)) = Voiced(r, us)
<1> DEFINE g == [u \in Unit |-> [role |-> r, units |-> <<u>>]]
           P == {vs \in Seq(Unit) : HeardIn(Mapped(vs, g)) = Voiced(r, vs)}
<1>1. g \in [Unit -> EntryType]
  <2>1. \A u \in Unit : <<u>> \in Seq(Unit)
    OBVIOUS
  <2>2. \A u \in Unit : [role |-> r, units |-> <<u>>] \in EntryType
    BY <2>1, VoicesType
  <2>3. QED
    BY <2>2
<1>2. \A u \in Unit : Voices[g[u]] = <<Voice[r][u]>>
  <2> SUFFICES ASSUME NEW u \in Unit PROVE Voices[g[u]] = <<Voice[r][u]>>
    OBVIOUS
  <2>1. <<u>> \in Seq(Unit) /\ <<>> \in Seq(Unit) /\ <<u>> = Append(<<>>, u)
    BY EmptySeq
  <2>2. Voices[g[u]] = Voiced(r, <<u>>)
    BY <2>1, VoicesType
  <2>3. PICK v \in [Unit -> Words] : v = Voice[r]
    BY VoiceType
  <2>4. Mapped(Append(<<>>, u), v) = Append(Mapped(<<>>, v), v[u])
    BY <2>1, MappedAppend
  <2>5. Mapped(<<>>, v) = <<>>
    BY MappedEmpty
  <2>6. \A w : Append(<<>>, w) = <<w>>
    OBVIOUS
  <2>7. Mapped(<<u>>, v) = <<v[u]>>
    BY <2>1, <2>4, <2>5, <2>6
  <2>8. QED
    BY <2>2, <2>3, <2>7 DEF Voiced
<1> HIDE DEF g
<1>3. <<>> \in P
  BY EmptySeq, MappedEmpty, GatherEmpty, VoicedNothing DEF HeardIn
<1>4. ASSUME NEW vs \in Seq(Unit), NEW u \in Unit, vs \in P PROVE Append(vs, u) \in P
  <2>1. Mapped(Append(vs, u), g) = Append(Mapped(vs, g), g[u])
    BY <1>1, MappedAppend
  <2>2. Mapped(vs, g) \in Seq(EntryType) /\ g[u] \in EntryType
    BY <1>1, MappedType
  <2>3. HeardIn(Append(Mapped(vs, g), g[u])) = HeardIn(Mapped(vs, g)) \o Voices[g[u]]
    <3>1. Voices \in [EntryType -> Seq(Words)]
      BY VoicesType
    <3>2. \A es \in Seq(EntryType), e \in EntryType : Gather(Append(es, e), Voices) = Gather(es, Voices) \o Voices[e]
      BY <3>1, GatherAppend
    <3>3. QED
      BY <2>2, <3>2 DEF HeardIn
  <2>4. Voiced(r, Append(vs, u)) = Append(Voiced(r, vs), Voice[r][u])
    <3>1. Voice[r] \in [Unit -> Words]
      BY VoiceType
    <3>2. Mapped(Append(vs, u), Voice[r]) = Append(Mapped(vs, Voice[r]), Voice[r][u])
      BY <3>1, MappedAppend
    <3>3. QED
      BY <3>2 DEF Voiced
  <2>5. Voiced(r, vs) \in Seq(Words) /\ Voice[r][u] \in Words
    BY VoicedType, VoiceType
  <2>6. Voiced(r, vs) \o <<Voice[r][u]>> = Append(Voiced(r, vs), Voice[r][u])
    BY <2>5
  <2>7. Append(vs, u) \in Seq(Unit)
    OBVIOUS
  <2>8. QED
    BY <1>2, <1>4, <2>1, <2>3, <2>4, <2>6, <2>7
<1> HIDE DEF P
<1>5. Seq(Unit) \subseteq P
  BY <1>3, <1>4, SeqInduction
<1>6. HeardIn(Mapped(us, g)) = Voiced(r, us)
  BY <1>5 DEF P
<1>7. Mapped(us, g) = Apart(r, us)
  <2>1. \A i \in DOMAIN us : us[i] \in Unit
    OBVIOUS
  <2>2. \A i \in DOMAIN us : g[us[i]] = [role |-> r, units |-> <<us[i]>>]
    BY <2>1 DEF g
  <2>3. QED
    BY <2>2 DEF Mapped, Apart
<1>8. Mapped(us, g) \in Seq(EntryType)
  BY <1>1, MappedType
<1>9. QED
  BY <1>6, <1>7, <1>8

\* One part of the conversation after the other.
LEMMA HeardConcat ==
  ASSUME NEW es \in Seq(EntryType), NEW fs \in Seq(EntryType)
  PROVE  HeardIn(es \o fs) = HeardIn(es) \o HeardIn(fs) /\ es \o fs \in Seq(EntryType)
<1>1. HeardIn(es \o fs) = HeardIn(es) \o HeardIn(fs)
  BY VoicesType, GatherConcat DEF HeardIn
<1>2. QED
  BY <1>1

\* What an item holds are units.
LEMMA MessageUnits ==
  ASSUME NEW f \in TextFamilies, NEW item \in ItemType, item.role # "tool"
  PROVE  /\ item.role \in {"system", "user", "assistant"} /\ item.calls \in Seq(CallType)
         /\ Parts(f, item) \in Seq(PartType) /\ CallUnits(f, item) \in Seq(Unit)
<1>1. /\ item.role \in {"system", "user", "assistant"} /\ item.parts \in Seq(PartType)
      /\ item.calls \in Seq(CallType)
  BY DEF ItemType
<1>2. Parts(f, item) \in Seq(PartType)
  <2>1. PICK K : K = Carried(f, item)
    OBVIOUS
  <2>2. OfKind(item.parts, K) \in Seq({p \in PartType : p.kind \in K})
    BY <1>1, OfKindType
  <2>3. OfKind(item.parts, K) \in Seq(PartType)
    BY <2>2, SeqMonotonic
  <2>4. QED
    BY <2>1, <2>3 DEF Parts
<1>3. CallUnits(f, item) \in Seq(Unit)
  <2>1. CASE item.role # "assistant"
    BY <2>1, EmptySeq DEF CallUnits
  <2>2. CASE item.role = "assistant"
    <3>1. PICK n \in Nat : n = Len(item.calls) /\ DOMAIN item.calls = 1..n
      BY <1>1
    <3>2. \A c \in CallType : CallId(f, c) \in Tags /\ c.name \in Tags
      BY DEF CallId, CallType
    <3>3. \A i \in 1..n : item.calls[i] \in CallType
      BY <1>1, <3>1
    <3>4. PICK us : us = CallUnits(f, item)
      OBVIOUS
    <3>5. us = [i \in 1..n |-> [kind |-> "call", tag |-> CallId(f, item.calls[i]), name |-> item.calls[i].name]]
      BY <2>2, <3>1, <3>4 DEF CallUnits
    <3>6. \A i \in 1..n : us[i] \in Unit
      BY <3>2, <3>3, <3>5 DEF Unit
    <3>7. DOMAIN us = 1..n /\ us = [i \in 1..n |-> us[i]]
      BY <3>5
    <3>8. us \in Seq(Unit)
      BY <3>6, <3>7, SequenceOf
    <3>9. QED
      BY <3>4, <3>8
  <2>3. QED
    BY <2>1, <2>2
<1>4. QED
  BY <1>1, <1>2, <1>3

\* So does the output of a tool.
LEMMA OutputUnits ==
  ASSUME NEW f \in TextFamilies, NEW item \in ItemType, item.role = "tool"
  PROVE  item.images \in Seq(PartType) /\ OutputUnit(f, item) \in Unit
<1>1. item.images \in Seq(PartType) /\ item.id \in Tags /\ item.name \in Tags
  BY DEF ItemType
<1>2. QED
  BY <1>1 DEF OutputUnit, Unit

\* A part is a unit.
LEMMA PartsAreUnits ==
  Seq(PartType) \subseteq Seq(Unit)
<1>1. PartType \subseteq Unit
  BY DEF Unit
<1>2. QED
  BY <1>1, SeqMonotonic

\* What an item means, in words.
LEMMA MeantIs ==
  ASSUME family \in TextFamilies, NEW item \in ItemType
  PROVE  /\ Meant(item) \in Seq(Words)
         /\ item.role = "tool" =>
              Meant(item) = Voiced("tool", <<OutputUnit(family, item)>>) \o Voiced("user", item.images)
         /\ item.role # "tool" =>
              Meant(item) = Voiced(item.role, Parts(family, item)) \o Voiced(item.role, CallUnits(family, item))
<1>1. CASE item.role = "tool"
  <2>1. PICK o \in Unit : o = OutputUnit(family, item)
    BY <1>1, OutputUnits
  <2>2. PICK us \in Seq(Unit) : us = item.images
    BY <1>1, OutputUnits, PartsAreUnits
  <2>3. <<o>> \in Seq(Unit) /\ "tool" \in Roles /\ "user" \in Roles
    BY DEF Roles
  <2>4. /\ Voiced("tool", <<o>>) \in Seq(Words) /\ Voiced("tool", <<o>>) = [i \in DOMAIN <<o>> |-> <<"tool", <<o>>[i]>>]
        /\ Voiced("user", us) \in Seq(Words) /\ Voiced("user", us) = [i \in DOMAIN us |-> <<"user", us[i]>>]
    BY <2>3, VoicedType
  <2>5. [i \in DOMAIN <<o>> |-> <<"tool", <<o>>[i]>>] = <<<<"tool", o>>>>
    OBVIOUS
  <2>6. Meant(item) = <<<<"tool", o>>>> \o [i \in DOMAIN us |-> <<"user", us[i]>>]
    BY <1>1, <2>1, <2>2 DEF Meant
  <2>7. Meant(item) = Voiced("tool", <<o>>) \o Voiced("user", us)
    BY <2>4, <2>5, <2>6
  <2>8. Voiced("tool", <<o>>) \o Voiced("user", us) \in Seq(Words)
    BY <2>4
  <2>9. QED
    BY <1>1, <2>1, <2>2, <2>7, <2>8
<1>2. CASE item.role # "tool"
  <2>1. item.role \in Roles
    BY <1>2, MessageUnits DEF Roles
  <2>2. PICK us \in Seq(Unit), vs \in Seq(Unit) : us = Parts(family, item) /\ vs = CallUnits(family, item)
    BY <1>2, MessageUnits, PartsAreUnits
  <2>3. us \o vs \in Seq(Unit)
    OBVIOUS
  <2>4. /\ Voiced(item.role, us \o vs) \in Seq(Words)
        /\ Voiced(item.role, us \o vs) = [i \in DOMAIN (us \o vs) |-> <<item.role, (us \o vs)[i]>>]
    BY <2>1, <2>3, VoicedType
  <2>5. Meant(item) = [i \in DOMAIN (us \o vs) |-> <<item.role, (us \o vs)[i]>>]
    BY <1>2, <2>2 DEF Meant
  <2>6. Voiced(item.role, us \o vs) = Voiced(item.role, us) \o Voiced(item.role, vs)
    BY <2>1, VoicedConcat
  <2>7. QED
    BY <1>2, <2>2, <2>4, <2>5, <2>6
<1>3. QED
  BY <1>1, <1>2

\* What Gemini leaves to the instruction.
Instructs(item) == family = "gemini" /\ item.role = "system"

\* A converted item says what it means, except that Gemini hears a system message, if at
\* all, in the instruction.
LEMMA ConvertedSays ==
  ASSUME family \in TextFamilies, NEW item \in ItemType
  PROVE  /\ Converted(family, item) \in Seq(EntryType)
         /\ HeardIn(Converted(family, item)) = IF Instructs(item) THEN <<>> ELSE Meant(item)
<1>0. "tool" \in Roles /\ "user" \in Roles /\ "assistant" \in Roles
  BY DEF Roles
<1>1. CASE item.role = "tool"
  <2>1. PICK us \in Seq(Unit), os \in Seq(Unit) : us = item.images /\ os = <<OutputUnit(family, item)>>
    <3>1. item.images \in Seq(Unit)
      BY <1>1, OutputUnits, PartsAreUnits
    <3>2. PICK o \in Unit : o = OutputUnit(family, item)
      BY <1>1, OutputUnits
    <3>3. <<o>> \in Seq(Unit)
      OBVIOUS
    <3>4. QED
      BY <3>1, <3>2, <3>3
  <2>2. Meant(item) = Voiced("tool", os) \o Voiced("user", us)
    BY <1>1, <2>1, MeantIs
  <2>3. /\ Entry("tool", os) \in Seq(EntryType) /\ HeardIn(Entry("tool", os)) = Voiced("tool", os)
        /\ EntryUnlessEmpty("user", us) \in Seq(EntryType)
        /\ HeardIn(EntryUnlessEmpty("user", us)) = Voiced("user", us)
        /\ Apart("user", us) \in Seq(EntryType) /\ HeardIn(Apart("user", us)) = Voiced("user", us)
    <3>1. Entry("tool", os) \in Seq(EntryType) /\ HeardIn(Entry("tool", os)) = Voiced("tool", os)
      BY <1>0, HeardEntry
    <3>2. EntryUnlessEmpty("user", us) \in Seq(EntryType)
          /\ HeardIn(EntryUnlessEmpty("user", us)) = Voiced("user", us)
      BY <1>0, HeardEntry
    <3>3. Apart("user", us) \in Seq(EntryType) /\ HeardIn(Apart("user", us)) = Voiced("user", us)
      BY <1>0, HeardApart
    <3>4. QED
      BY <3>1, <3>2, <3>3
  <2>4. Converted(family, item) \in {Entry("tool", os) \o EntryUnlessEmpty("user", us), Entry("tool", os) \o Apart("user", us)}
    <3>1. CASE family = "ark"
      <4>1. Converted(family, item) = ArkItem(item)
        BY <3>1 DEF Converted
      <4>2. ArkItem(item) = Entry("tool", os) \o EntryUnlessEmpty("user", us)
        BY <1>1, <2>1, <3>1 DEF ArkItem
      <4>3. QED
        BY <4>1, <4>2
    <3>2. CASE family = "openai"
      <4>1. Converted(family, item) = OpenAIItem(item)
        BY <3>2 DEF Converted
      <4>2. OpenAIItem(item) = Entry("tool", os) \o Apart("user", us)
        BY <1>1, <2>1, <3>2 DEF OpenAIItem, Apart
      <4>3. QED
        BY <4>1, <4>2
    <3>3. CASE family = "gemini"
      <4>1. Converted(family, item) = GeminiItem(item)
        BY <3>3 DEF Converted
      <4>2. GeminiItem(item) = Entry("tool", os) \o EntryUnlessEmpty("user", us)
        BY <1>1, <2>1, <3>3 DEF GeminiItem
      <4>3. QED
        BY <4>1, <4>2
    <3>4. QED
      BY <3>1, <3>2, <3>3 DEF TextFamilies
  <2>5. ~Instructs(item)
    BY <1>1 DEF Instructs
  <2>6. /\ HeardIn(Entry("tool", os) \o EntryUnlessEmpty("user", us)) = Voiced("tool", os) \o Voiced("user", us)
        /\ Entry("tool", os) \o EntryUnlessEmpty("user", us) \in Seq(EntryType)
    BY <2>3, HeardConcat
  <2>7. /\ HeardIn(Entry("tool", os) \o Apart("user", us)) = Voiced("tool", os) \o Voiced("user", us)
        /\ Entry("tool", os) \o Apart("user", us) \in Seq(EntryType)
    BY <2>3, HeardConcat
  <2>8. QED
    BY <2>2, <2>4, <2>5, <2>6, <2>7
<1>2. CASE item.role # "tool"
  <2>1. item.role \in Roles
    BY <1>2, MessageUnits DEF Roles
  <2>2. PICK us \in Seq(Unit), vs \in Seq(Unit) : us = Parts(family, item) /\ vs = CallUnits(family, item)
    BY <1>2, MessageUnits, PartsAreUnits
  <2>3. Meant(item) = Voiced(item.role, us) \o Voiced(item.role, vs)
    BY <1>2, <2>2, MeantIs
  <2>4. Voiced(item.role, us \o vs) = Voiced(item.role, us) \o Voiced(item.role, vs) /\ us \o vs \in Seq(Unit)
    <3>1. Voiced(item.role, us \o vs) = Voiced(item.role, us) \o Voiced(item.role, vs)
      BY <2>1, VoicedConcat
    <3>2. us \o vs \in Seq(Unit)
      OBVIOUS
    <3>3. QED
      BY <3>1, <3>2
  <2>5. CASE family = "ark"
    <3>1. Converted(family, item) = ArkItem(item)
      BY <2>5 DEF Converted
    <3>2. ArkItem(item) = EntryUnlessEmpty(item.role, us) \o Apart("assistant", vs)
      BY <1>2, <2>2, <2>5 DEF ArkItem, Apart
    <3>3. /\ EntryUnlessEmpty(item.role, us) \in Seq(EntryType)
          /\ HeardIn(EntryUnlessEmpty(item.role, us)) = Voiced(item.role, us)
          /\ Apart("assistant", vs) \in Seq(EntryType) /\ HeardIn(Apart("assistant", vs)) = Voiced("assistant", vs)
      <4>1. EntryUnlessEmpty(item.role, us) \in Seq(EntryType)
            /\ HeardIn(EntryUnlessEmpty(item.role, us)) = Voiced(item.role, us)
        BY <2>1, HeardEntry
      <4>2. Apart("assistant", vs) \in Seq(EntryType) /\ HeardIn(Apart("assistant", vs)) = Voiced("assistant", vs)
        BY <1>0, HeardApart
      <4>3. QED
        BY <4>1, <4>2
    <3>4. Voiced("assistant", vs) = Voiced(item.role, vs)
      <4>1. CASE item.role = "assistant"
        BY <4>1
      <4>2. CASE item.role # "assistant"
        <5>1. vs = <<>>
          BY <2>2, <4>2 DEF CallUnits
        <5>2. QED
          BY <5>1, VoicedNothing
      <4>3. QED
        BY <4>1, <4>2
    <3>5. /\ HeardIn(EntryUnlessEmpty(item.role, us) \o Apart("assistant", vs)) = Voiced(item.role, us) \o Voiced(item.role, vs)
          /\ EntryUnlessEmpty(item.role, us) \o Apart("assistant", vs) \in Seq(EntryType)
      BY <3>3, <3>4, HeardConcat
    <3>6. ~Instructs(item)
      BY <2>5 DEF Instructs
    <3>7. QED
      BY <2>3, <3>1, <3>2, <3>5, <3>6
  <2>6. CASE family = "openai"
    <3>1. Converted(family, item) = OpenAIItem(item)
      BY <2>6 DEF Converted
    <3>2. OpenAIItem(item) = Entry(item.role, us \o vs)
      BY <1>2, <2>2, <2>6 DEF OpenAIItem
    <3>3. /\ Entry(item.role, us \o vs) \in Seq(EntryType)
          /\ HeardIn(Entry(item.role, us \o vs)) = Voiced(item.role, us \o vs)
      BY <2>1, <2>4, HeardEntry
    <3>4. ~Instructs(item)
      BY <2>6 DEF Instructs
    <3>5. QED
      BY <2>3, <2>4, <3>1, <3>2, <3>3, <3>4
  <2>7. CASE family = "gemini" /\ item.role = "system"
    <3>1. Converted(family, item) = GeminiItem(item)
      BY <2>7 DEF Converted
    <3>2. GeminiItem(item) = <<>>
      BY <2>7 DEF GeminiItem
    <3>3. HeardIn(<<>>) = <<>> /\ <<>> \in Seq(EntryType)
      BY GatherEmpty, EmptySeq DEF HeardIn
    <3>4. QED
      BY <2>7, <3>1, <3>2, <3>3 DEF Instructs
  <2>8. CASE family = "gemini" /\ item.role # "system"
    <3>1. Converted(family, item) = GeminiItem(item)
      BY <2>8 DEF Converted
    <3>2. GeminiItem(item) = EntryUnlessEmpty(item.role, us \o vs)
      BY <1>2, <2>2, <2>8 DEF GeminiItem
    <3>3. /\ EntryUnlessEmpty(item.role, us \o vs) \in Seq(EntryType)
          /\ HeardIn(EntryUnlessEmpty(item.role, us \o vs)) = Voiced(item.role, us \o vs)
      BY <2>1, <2>4, HeardEntry
    <3>4. ~Instructs(item)
      BY <2>8 DEF Instructs
    <3>5. QED
      BY <2>3, <2>4, <3>1, <3>2, <3>3, <3>4
  <2>9. QED
    BY <2>5, <2>6, <2>7, <2>8 DEF TextFamilies
<1>3. QED
  BY <1>1, <1>2

\* What the upstream hears is its instruction and then the conversation.
LEMMA HeardIs ==
  ASSUME NEW up, up.system \in Seq(Unit), up.entries \in Seq(EntryType)
  PROVE  Heard(up) = Voiced("system", up.system) \o HeardIn(up.entries)
<1>1. PICK es \in Seq(EntryType) : es = up.entries
  OBVIOUS
<1>2. [i \in DOMAIN up.system |-> <<"system", up.system[i]>>] = Voiced("system", up.system)
  <2>1. "system" \in Roles
    BY DEF Roles
  <2>2. QED
    BY <2>1, VoicedType
<1>3. [i \in DOMAIN es |-> [j \in DOMAIN es[i].units |-> <<es[i].role, es[i].units[j]>>]] = Mapped(es, Voices)
  <2>1. \A i \in DOMAIN es : es[i] \in EntryType
    OBVIOUS
  <2>2. ASSUME NEW e \in EntryType
        PROVE  Voices[e] = [j \in DOMAIN e.units |-> <<e.role, e.units[j]>>]
    <3>1. e.role \in Roles /\ e.units \in Seq(Unit)
      BY DEF EntryType
    <3>2. Voices[e] = Voiced(e.role, e.units)
      BY DEF Voices
    <3>3. QED
      BY <3>1, <3>2, VoicedType
  <2>3. \A i \in DOMAIN es : Voices[es[i]] = [j \in DOMAIN es[i].units |-> <<es[i].role, es[i].units[j]>>]
    BY <2>1, <2>2
  <2>4. QED
    BY <2>3 DEF Mapped
<1>4. QED
  BY <1>1, <1>2, <1>3 DEF Heard, HeardIn, Gather

\* The entries say what the items mean, less Gemini's system messages.
LEMMA EntriesSay ==
  ASSUME family \in TextFamilies, NEW items \in Seq(ItemType),
         NEW cs, cs = [i \in DOMAIN items |-> Converted(family, items[i])]
  PROVE  /\ FlattenSeq(cs) \in Seq(EntryType)
         /\ HeardIn(FlattenSeq(cs)) =
              FlattenSeq([i \in DOMAIN items |-> IF Instructs(items[i]) THEN <<>> ELSE Meant(items[i])])
<1>1. PICK n \in Nat : n = Len(items) /\ DOMAIN items = 1..n
  OBVIOUS
<1>2. \A i \in 1..n : items[i] \in ItemType
  BY <1>1
<1>3. \A i \in 1..n : cs[i] \in Seq(EntryType)
  BY <1>1, <1>2, ConvertedSays
<1>4. DOMAIN cs = 1..n /\ cs = [i \in 1..n |-> cs[i]]
  BY <1>1
<1>5. cs \in Seq(Seq(EntryType))
  BY <1>3, <1>4, SequenceOf
<1>6. PICK h : h = [s \in Seq(EntryType) |-> Gather(s, Voices)]
  OBVIOUS
<1>7. Gather(FlattenSeq(cs), Voices) = Gather(cs, h)
  <2>1. Voices \in [EntryType -> Seq(Words)]
    BY VoicesType
  <2>2. QED
    BY <1>5, <1>6, <2>1, GatherFlatten
<1>8. Mapped(cs, h) = [i \in 1..n |-> HeardIn(cs[i])]
  <2>1. \A i \in 1..n : h[cs[i]] = HeardIn(cs[i])
    BY <1>3, <1>6 DEF HeardIn
  <2>2. QED
    BY <1>4, <2>1 DEF Mapped
<1>9. \A i \in 1..n : HeardIn(cs[i]) = IF Instructs(items[i]) THEN <<>> ELSE Meant(items[i])
  BY <1>1, <1>2, ConvertedSays
<1>10. Mapped(cs, h) = [i \in DOMAIN items |-> IF Instructs(items[i]) THEN <<>> ELSE Meant(items[i])]
  BY <1>1, <1>8, <1>9
<1>11. FlattenSeq(cs) \in Seq(EntryType)
  BY <1>5, FlattenType
<1>12. QED
  BY <1>7, <1>10, <1>11 DEF HeardIn, Gather

\* Parts said in a role, less those that are not wanted.
Chosen(r, ts, S) == [i \in DOMAIN ts |-> IF ts[i] \in S THEN Voiced(r, ts[i]) ELSE <<>>]

\* Of what is put together, the parts that are wanted.
LEMMA VoicedWithin ==
  ASSUME NEW r \in Roles, NEW ts \in Seq(Seq(Unit)), NEW S
  PROVE  /\ FlattenSeq(Within(ts, S)) \in Seq(Unit)
         /\ Voiced(r, FlattenSeq(Within(ts, S))) = FlattenSeq(Chosen(r, ts, S))
<1> DEFINE h == [t \in Seq(Unit) |-> IF t \in S THEN Voiced(r, t) ELSE <<>>]
           P == {qs \in Seq(Seq(Unit)) : Voiced(r, FlattenSeq(Within(qs, S))) = Gather(qs, h)}
<1>1. h \in [Seq(Unit) -> Seq(Words)]
  <2>1. \A t \in Seq(Unit) : Voiced(r, t) \in Seq(Words)
    BY VoicedType
  <2>2. <<>> \in Seq(Words)
    BY EmptySeq
  <2>3. QED
    BY <2>1, <2>2
<1>2. \A t \in Seq(Unit) : h[t] = IF t \in S THEN Voiced(r, t) ELSE <<>>
  OBVIOUS
<1> HIDE DEF h
<1>3. <<>> \in P
  BY EmptySeq, WithinEmpty, FlattenEmpty, VoicedNothing, GatherEmpty
<1>4. ASSUME NEW qs \in Seq(Seq(Unit)), NEW t \in Seq(Unit), qs \in P PROVE Append(qs, t) \in P
  <2>1. Gather(Append(qs, t), h) = Gather(qs, h) \o h[t]
    BY <1>1, GatherAppend
  <2>2. Within(Append(qs, t), S) = IF t \in S THEN Append(Within(qs, S), t) ELSE Within(qs, S)
    BY WithinAppend
  <2>3. Append(qs, t) \in Seq(Seq(Unit))
    OBVIOUS
  <2>4. PICK ws \in Seq(Seq(Unit)) : ws = Within(qs, S)
    BY WithinType
  <2>5. FlattenSeq(ws) \in Seq(Unit)
    BY FlattenType
  <2>6. Voiced(r, FlattenSeq(ws)) = Gather(qs, h) /\ Gather(qs, h) \in Seq(Words)
    <3>1. Gather(qs, h) \in Seq(Words)
      BY <1>1, GatherType
    <3>2. QED
      BY <1>4, <2>4, <3>1
  <2>7. CASE t \in S
    <3>1. FlattenSeq(Append(ws, t)) = FlattenSeq(ws) \o t
      BY FlattenAppend
    <3>2. Voiced(r, FlattenSeq(ws) \o t) = Voiced(r, FlattenSeq(ws)) \o Voiced(r, t)
      BY <2>5, VoicedConcat
    <3>3. QED
      BY <1>2, <2>1, <2>2, <2>3, <2>4, <2>6, <2>7, <3>1, <3>2
  <2>8. CASE t \notin S
    <3>1. Gather(qs, h) \o <<>> = Gather(qs, h)
      BY <2>6
    <3>2. h[t] = <<>>
      BY <1>2, <2>8
    <3>3. QED
      BY <2>1, <2>2, <2>3, <2>4, <2>6, <2>8, <3>1, <3>2
  <2>9. QED
    BY <2>7, <2>8
<1> HIDE DEF P
<1>5. Seq(Seq(Unit)) \subseteq P
  BY <1>3, <1>4, SeqInduction
<1>6. Voiced(r, FlattenSeq(Within(ts, S))) = Gather(ts, h)
  BY <1>5 DEF P
<1>7. Mapped(ts, h) = Chosen(r, ts, S)
  <2>1. \A i \in DOMAIN ts : ts[i] \in Seq(Unit)
    OBVIOUS
  <2>2. QED
    BY <1>2, <2>1 DEF Mapped, Chosen
<1>8. Within(ts, S) \in Seq(Seq(Unit))
  BY WithinType
<1>9. FlattenSeq(Within(ts, S)) \in Seq(Unit)
  BY <1>8, FlattenType
<1>10. QED
  BY <1>6, <1>7, <1>9 DEF Gather

\* The texts of the first k items, and those that are not white space throughout.
LeadTexts(items, k) == [i \in 1..k |-> OfKind(items[i].parts, Texts)]
Spoken(texts)       == {ps \in ToSet(texts) : \E i \in DOMAIN ps : ps[i].kind = "text"}

\* The system messages that lead.
LEMMA LeadIs ==
  ASSUME NEW items \in Seq(ItemType)
  PROVE  \E k \in 0..Len(items) :
           /\ \A i \in 1..Len(items) : i <= k <=> \A j \in 1..i : items[j].role = "system"
           /\ LeadingSystem(items) = FlattenSeq(Within(LeadTexts(items, k), Spoken(LeadTexts(items, k))))
<1>1. PICK n \in Nat : n = Len(items)
  OBVIOUS
<1>2. PICK I : I = {i \in 1..n : items[i].role # "system"}
  OBVIOUS
<1>3. I \in SUBSET Nat /\ SelectInSeq(items, LAMBDA item : item.role # "system") = IF I # {} THEN Min(I) ELSE 0
  BY <1>1, <1>2 DEF SelectInSeq
<1>4. PICK first : first = SelectInSeq(items, LAMBDA item : item.role # "system")
  OBVIOUS
<1>5. PICK lead : lead = IF first = 0 THEN items ELSE SubSeq(items, 1, first - 1)
  OBVIOUS
<1>6. PICK k \in 0..n : /\ DOMAIN lead = 1..k /\ \A i \in 1..k : lead[i] = items[i]
                        /\ \A i \in 1..n : i <= k <=> \A j \in 1..i : items[j].role = "system"
  <2>1. CASE I = {}
    <3>1. lead = items
      BY <1>3, <1>4, <1>5, <2>1
    <3>2. DOMAIN lead = 1..n /\ n \in 0..n
      BY <1>1, <3>1
    <3>3. \A i \in 1..n : items[i].role = "system"
      BY <1>2, <2>1
    <3>4. \A i \in 1..n : i <= n /\ \A j \in 1..i : items[j].role = "system"
      BY <3>3
    <3>5. \A i \in 1..n : lead[i] = items[i]
      BY <3>1
    <3>6. \A i \in 1..n : i <= n <=> \A j \in 1..i : items[j].role = "system"
      BY <3>4
    <3>7. /\ n \in 0..n /\ DOMAIN lead = 1..n /\ (\A i \in 1..n : lead[i] = items[i])
          /\ \A i \in 1..n : i <= n <=> \A j \in 1..i : items[j].role = "system"
      BY <3>2, <3>5, <3>6
    <3>8. QED
      BY <3>7, Zenon
  <2>2. CASE I # {}
    <3>1. PICK m \in I : m = first /\ \A i \in I : m <= i
      BY <1>3, <1>4, <2>2, MinOf
    <3>2. PICK k \in Nat : m = k + 1
      <4>1. m \in 1..n
        BY <1>2
      <4>2. m - 1 \in Nat /\ m = (m - 1) + 1
        BY <4>1
      <4>3. QED
        BY <4>2
    <3>3. k \in 0..n /\ k + 1 \in 1..n
      BY <1>2, <3>2
    <3>4. lead = SubSeq(items, 1, k)
      BY <1>5, <3>1, <3>2
    <3>5. DOMAIN lead = 1..k /\ \A i \in 1..k : lead[i] = items[i]
      BY <1>1, <3>3, <3>4
    <3>6. ASSUME NEW i \in 1..n PROVE i <= k <=> \A j \in 1..i : items[j].role = "system"
      <4>1. ASSUME i <= k, NEW j \in 1..i PROVE items[j].role = "system"
        <5>1. j \in 1..n /\ ~(m <= j)
          BY <3>2, <4>1
        <5>2. j \notin I
          BY <3>1, <5>1
        <5>3. QED
          BY <1>2, <5>1, <5>2
      <4>2. ASSUME ~(i <= k) PROVE ~(\A j \in 1..i : items[j].role = "system")
        <5>1. m \in 1..i /\ items[m].role # "system"
          BY <1>2, <3>2, <4>2
        <5>2. QED
          BY <5>1
      <4>3. QED
        BY <4>1, <4>2
    <3>7. QED
      BY <3>3, <3>5, <3>6
  <2>3. QED
    BY <2>1, <2>2
<1>7. [i \in DOMAIN lead |-> OfKind(lead[i].parts, Texts)] = [i \in 1..k |-> OfKind(items[i].parts, Texts)]
  BY <1>6
<1>8. [i \in DOMAIN lead |-> OfKind(lead[i].parts, Texts)] = LeadTexts(items, k)
  BY <1>7 DEF LeadTexts
<1>9. LeadingSystem(items) = FlattenSeq(Within(LeadTexts(items, k), Spoken(LeadTexts(items, k))))
  BY <1>4, <1>5, <1>8 DEF LeadingSystem, Spoken
<1>10. QED
  BY <1>1, <1>6, <1>9

\* Whether a message has a text shows in its texts.
LEMMA HasText ==
  ASSUME NEW parts \in Seq(PartType)
  PROVE  /\ OfKind(parts, Texts) \in Seq(Unit)
         /\ (\E i \in DOMAIN OfKind(parts, Texts) : OfKind(parts, Texts)[i].kind = "text")
              <=> \E p \in ToSet(parts) : p.kind = "text"
<1>1. PICK S : S = {parts[i] : i \in {j \in DOMAIN parts : parts[j].kind \in Texts}}
  OBVIOUS
<1>2. PICK ps : ps = OfKind(parts, Texts)
  OBVIOUS
<1>3. ps = Within(parts, S)
  BY <1>1, <1>2 DEF OfKind
<1>4. Range(ps) = Range(parts) \cap S
  BY <1>3, WithinHits
<1>5. ps \in Seq(PartType)
  BY <1>3, WithinType
<1>6. Range(ps) = {ps[i] : i \in DOMAIN ps} /\ Range(parts) = {parts[i] : i \in DOMAIN parts} /\ ToSet(parts) = Range(parts)
  BY DEF Range, ToSet
<1>7. "text" \in Texts
  BY DEF Texts
<1>8. (\E i \in DOMAIN ps : ps[i].kind = "text") <=> \E p \in ToSet(parts) : p.kind = "text"
  <2>1. ASSUME NEW i \in DOMAIN ps, ps[i].kind = "text" PROVE \E p \in ToSet(parts) : p.kind = "text"
    <3>1. ps[i] \in ToSet(parts)
      BY <1>4, <1>6
    <3>2. QED
      BY <2>1, <3>1
  <2>2. ASSUME NEW p \in ToSet(parts), p.kind = "text" PROVE \E i \in DOMAIN ps : ps[i].kind = "text"
    <3>1. PICK j \in DOMAIN parts : p = parts[j]
      BY <1>6
    <3>2. p \in S
      BY <1>1, <1>7, <2>2, <3>1
    <3>3. p \in Range(ps)
      BY <1>4, <1>6, <3>2
    <3>4. PICK i \in DOMAIN ps : ps[i] = p
      BY <1>6, <3>3
    <3>5. QED
      BY <2>2, <3>4
  <2>3. QED
    BY <2>1, <2>2
<1>9. ps \in Seq(Unit)
  BY <1>5, PartsAreUnits
<1>10. QED
  BY <1>2, <1>8, <1>9

\* What passes of each item, one after the other.
Passing == [i \in DOMAIN request.items |-> IF Passes(i) THEN Meant(request.items[i]) ELSE <<>>]

\* It is a part for each item.
LEMMA PassingType ==
  ASSUME family \in TextFamilies, request.items \in Seq(ItemType)
  PROVE  /\ Passing \in Seq(Seq(Words)) /\ Len(Passing) = Len(request.items)
         /\ \A i \in 1..Len(request.items) :
              Passing[i] = IF Passes(i) THEN Meant(request.items[i]) ELSE <<>>
<1>1. PICK n \in Nat : n = Len(request.items) /\ DOMAIN request.items = 1..n
  OBVIOUS
<1>2. PICK ss : ss = Passing
  OBVIOUS
<1>3. DOMAIN ss = 1..n /\ ss = [i \in 1..n |-> ss[i]]
      /\ \A i \in 1..n : ss[i] = IF Passes(i) THEN Meant(request.items[i]) ELSE <<>>
  BY <1>1, <1>2 DEF Passing
<1>4. \A i \in 1..n : Meant(request.items[i]) \in Seq(Words)
  <2>1. \A i \in 1..n : request.items[i] \in ItemType
    BY <1>1
  <2>2. QED
    BY <2>1, MeantIs
<1>5. \A i \in 1..n : ss[i] \in Seq(Words)
  BY <1>3, <1>4, EmptySeq
<1>6. ss \in Seq(Seq(Words)) /\ Len(ss) = n
  BY <1>3, <1>5, SequenceOf
<1>7. QED
  BY <1>1, <1>2, <1>3, <1>6

\* Gemini's instruction says what passes of the leading system messages.
LEMMA InstructionSays ==
  ASSUME family = "gemini", request.items \in Seq(ItemType), ~request.cached,
         NEW k \in 0..Len(request.items),
         \A i \in 1..Len(request.items) : i <= k <=> Leads(i), NEW texts, texts = LeadTexts(request.items, k)
  PROVE  /\ FlattenSeq(Within(texts, Spoken(texts))) \in Seq(Unit)
         /\ Voiced("system", FlattenSeq(Within(texts, Spoken(texts)))) = FlattenSeq(FirstOf(Passing, k))
<1>1. PICK n \in Nat : n = Len(request.items) /\ DOMAIN request.items = 1..n
  OBVIOUS
<1>2. \A i \in 1..k : i \in 1..n /\ Leads(i)
  <2>1. \A i \in 1..k : i \in 1..n /\ i <= k
    BY <1>1
  <2>2. QED
    BY <1>1, <2>1
<1>3. \A i \in 1..k : request.items[i] \in ItemType /\ request.items[i].role = "system"
  <2>1. \A i \in 1..k : i \in 1..i
    OBVIOUS
  <2>2. QED
    BY <1>1, <1>2, <2>1 DEF Leads
<1>4. \A i \in 1..k : request.items[i].parts \in Seq(PartType)
  BY <1>3 DEF ItemType
<1>5. \A i \in 1..k : texts[i] = OfKind(request.items[i].parts, Texts) /\ texts[i] \in Seq(Unit)
  BY <1>4, HasText DEF LeadTexts
<1>6. DOMAIN texts = 1..k /\ texts = [i \in 1..k |-> texts[i]] /\ k \in Nat
  BY DEF LeadTexts
<1>7. texts \in Seq(Seq(Unit))
  BY <1>5, <1>6, SequenceOf
<1>8. "system" \in Roles /\ family \in TextFamilies
  BY DEF Roles, TextFamilies
<1>9. /\ FlattenSeq(Within(texts, Spoken(texts))) \in Seq(Unit)
      /\ Voiced("system", FlattenSeq(Within(texts, Spoken(texts)))) = FlattenSeq(Chosen("system", texts, Spoken(texts)))
  BY <1>7, <1>8, VoicedWithin
<1>10. ASSUME NEW i \in 1..k
       PROVE  Passing[i] = IF texts[i] \in Spoken(texts) THEN Voiced("system", texts[i]) ELSE <<>>
  <2>1. PICK item \in ItemType : item = request.items[i] /\ item.role = "system" /\ item.parts \in Seq(PartType)
    BY <1>3, <1>4
  <2>2. texts[i] = OfKind(item.parts, Texts)
    BY <1>5, <2>1
  <2>3. texts[i] \in Spoken(texts) <=> \E p \in ToSet(item.parts) : p.kind = "text"
    <3>1. texts[i] \in ToSet(texts)
      BY <1>6 DEF ToSet
    <3>2. texts[i] \in Spoken(texts) <=> \E j \in DOMAIN texts[i] : texts[i][j].kind = "text"
      BY <3>1 DEF Spoken
    <3>3. QED
      BY <2>1, <2>2, <3>2, HasText
  <2>4. Passes(i) <=> \E p \in ToSet(item.parts) : p.kind = "text"
    BY <1>2, <2>1 DEF Passes
  <2>5. Meant(item) = Voiced("system", texts[i])
    <3>1. Meant(item) = Voiced("system", Parts(family, item)) \o Voiced("system", CallUnits(family, item))
      BY <1>8, <2>1, MeantIs
    <3>2. CallUnits(family, item) = <<>>
      BY <2>1 DEF CallUnits
    <3>3. Carried(family, item) = Texts
      BY <2>1 DEF Carried
    <3>4. Parts(family, item) = texts[i]
      BY <2>2, <3>3 DEF Parts
    <3>5. Voiced("system", texts[i]) \in Seq(Words)
      BY <1>5, <1>8, VoicedType
    <3>6. Voiced("system", texts[i]) \o <<>> = Voiced("system", texts[i])
      BY <3>5
    <3>7. QED
      BY <3>1, <3>2, <3>4, <3>6, VoicedNothing
  <2>6. Passing[i] = IF Passes(i) THEN Meant(item) ELSE <<>>
    BY <1>1, <1>2, <1>8, <2>1, PassingType
  <2>7. QED
    BY <2>3, <2>4, <2>5, <2>6
<1>11. Chosen("system", texts, Spoken(texts)) = FirstOf(Passing, k)
  BY <1>6, <1>10 DEF Chosen, FirstOf
<1>12. QED
  BY <1>9, <1>11

\* The upstream hears what passes.
LEMMA PromptSays ==
  ASSUME family \in TextFamilies, request \in RequestType
  PROVE  Heard(Upstream(family, bound, request)) = FlattenSeq(Passing)
<1>1. request.items \in Seq(ItemType)
  BY DEF RequestType
<1>2. PICK n \in Nat : n = Len(request.items) /\ DOMAIN request.items = 1..n
  BY <1>1
<1>3. PICK up : up = Upstream(family, bound, request)
  OBVIOUS
<1>4. PICK cs : cs = [i \in 1..n |-> IF Instructs(request.items[i]) THEN <<>> ELSE Meant(request.items[i])]
  OBVIOUS
<1>5. up.entries \in Seq(EntryType) /\ HeardIn(up.entries) = FlattenSeq(cs)
  <2>1. PICK es : es = [i \in DOMAIN request.items |-> Converted(family, request.items[i])]
    OBVIOUS
  <2>2. /\ FlattenSeq(es) \in Seq(EntryType)
        /\ HeardIn(FlattenSeq(es)) =
             FlattenSeq([i \in DOMAIN request.items |-> IF Instructs(request.items[i]) THEN <<>> ELSE Meant(request.items[i])])
    BY <1>1, <2>1, EntriesSay
  <2>3. up.entries = FlattenSeq(es)
    BY <1>3, <2>1 DEF Upstream
  <2>4. QED
    BY <1>2, <1>4, <2>2, <2>3
<1>6. up.system = IF family = "gemini" /\ ~request.cached THEN LeadingSystem(request.items) ELSE <<>>
  BY <1>3 DEF Upstream
<1>7. \A i \in 1..n : Passing[i] = IF Passes(i) THEN Meant(request.items[i]) ELSE <<>>
  BY <1>1, <1>2, PassingType
<1>8. Passing \in Seq(Seq(Words)) /\ Len(Passing) = n
  BY <1>1, <1>2, PassingType
<1>9. FlattenSeq(Passing) \in Seq(Words)
  BY <1>8, FlattenType
<1>10. CASE family # "gemini"
  <2>1. \A i \in 1..n : Passing[i] = Meant(request.items[i]) /\ cs[i] = Meant(request.items[i])
    BY <1>4, <1>7, <1>10 DEF Passes, Instructs
  <2>2. Passing = [i \in 1..n |-> Passing[i]] /\ cs = [i \in 1..n |-> cs[i]]
    BY <1>2, <1>4 DEF Passing
  <2>3. cs = Passing
    BY <2>1, <2>2
  <2>4. up.system = <<>> /\ <<>> \in Seq(Unit)
    BY <1>6, <1>10, EmptySeq
  <2>5. Heard(up) = Voiced("system", <<>>) \o FlattenSeq(Passing)
    BY <1>5, <2>3, <2>4, HeardIs
  <2>6. <<>> \o FlattenSeq(Passing) = FlattenSeq(Passing)
    BY <1>9
  <2>7. QED
    BY <1>3, <2>5, <2>6, VoicedNothing
<1>11. CASE family = "gemini"
  <2>1. PICK k \in 0..n :
          /\ \A i \in 1..n : i <= k <=> Leads(i)
          /\ LeadingSystem(request.items) =
               FlattenSeq(Within(LeadTexts(request.items, k), Spoken(LeadTexts(request.items, k))))
    BY <1>1, <1>2, LeadIs DEF Leads
  <2>2. FlattenSeq(Passing) = FlattenSeq(FirstOf(Passing, k)) \o FlattenSeq(RestOf(Passing, k))
    BY <1>8, FlattenSplit
  <2>3. ASSUME NEW i \in 1..n
        PROVE  cs[i] = IF i <= k THEN <<>> ELSE Passing[i]
    <3>1. CASE Instructs(request.items[i])
      <4>1. cs[i] = <<>>
        BY <1>4, <3>1
      <4>2. CASE i <= k
        BY <4>1, <4>2
      <4>3. CASE ~(i <= k)
        <5>1. ~Leads(i)
          BY <2>1, <4>3
        <5>2. ~Passes(i)
          BY <1>11, <3>1, <5>1 DEF Passes, Instructs
        <5>3. QED
          BY <1>7, <4>1, <4>3, <5>2
      <4>4. QED
        BY <4>2, <4>3
    <3>2. CASE ~Instructs(request.items[i])
      <4>1. request.items[i].role # "system"
        BY <1>11, <3>2 DEF Instructs
      <4>2. ~Leads(i)
        <5>1. i \in 1..i
          OBVIOUS
        <5>2. QED
          BY <4>1, <5>1 DEF Leads
      <4>3. ~(i <= k)
        BY <2>1, <4>2
      <4>4. Passes(i)
        BY <4>1 DEF Passes
      <4>5. QED
        BY <1>4, <1>7, <3>2, <4>3, <4>4
    <3>3. QED
      BY <3>1, <3>2
  <2>4. FlattenSeq(cs) = FlattenSeq(RestOf(Passing, k))
    <3>1. \A i \in 1..n : cs[i] \in Seq(Words)
      <4>1. \A i \in 1..n : Passing[i] \in Seq(Words)
        BY <1>8
      <4>2. QED
        BY <2>3, <4>1, EmptySeq
    <3>2. DOMAIN cs = 1..n /\ cs = [i \in 1..n |-> cs[i]]
      BY <1>4
    <3>3. cs \in Seq(Seq(Words)) /\ Len(cs) = n
      BY <3>1, <3>2, SequenceOf
    <3>4. FlattenSeq(cs) = FlattenSeq(FirstOf(cs, k)) \o FlattenSeq(RestOf(cs, k))
      BY <3>3, FlattenSplit
    <3>5. FirstOf(cs, k) = [i \in 1..k |-> <<>>]
      <4>1. \A i \in 1..k : i \in 1..n /\ i <= k
        OBVIOUS
      <4>2. \A i \in 1..k : cs[i] = <<>>
        BY <2>3, <4>1
      <4>3. QED
        BY <4>2 DEF FirstOf
    <3>6. RestOf(cs, k) = RestOf(Passing, k)
      <4>1. \A i \in 1..(n - k) : k + i \in 1..n /\ ~(k + i <= k)
        OBVIOUS
      <4>2. \A i \in 1..(n - k) : cs[k + i] = Passing[k + i]
        BY <2>3, <4>1
      <4>3. QED
        BY <1>8, <3>3, <4>2 DEF RestOf
    <3>7. FlattenSeq([i \in 1..k |-> <<>>]) = <<>>
      <4>1. k \in Nat
        OBVIOUS
      <4>2. QED
        BY <4>1, FlattenNothings
    <3>8. PICK rest \in Seq(Words) : rest = FlattenSeq(RestOf(Passing, k))
      <4>1. RestOf(Passing, k) \in Seq(Seq(Words))
        BY <1>8, HalvesType
      <4>2. QED
        BY <4>1, FlattenType
    <3>9. <<>> \o rest = rest
      OBVIOUS
    <3>10. QED
      BY <3>4, <3>5, <3>6, <3>7, <3>8, <3>9
  <2>5. up.system \in Seq(Unit) /\ Voiced("system", up.system) = FlattenSeq(FirstOf(Passing, k))
    <3>1. CASE ~request.cached
      <4>1. PICK texts : texts = LeadTexts(request.items, k)
        OBVIOUS
      <4>2. up.system = FlattenSeq(Within(texts, Spoken(texts)))
        BY <1>6, <1>11, <2>1, <3>1, <4>1
      <4>3. /\ FlattenSeq(Within(texts, Spoken(texts))) \in Seq(Unit)
            /\ Voiced("system", FlattenSeq(Within(texts, Spoken(texts)))) = FlattenSeq(FirstOf(Passing, k))
        BY <1>1, <1>2, <1>11, <2>1, <3>1, <4>1, InstructionSays
      <4>4. QED
        BY <4>2, <4>3
    <3>2. CASE request.cached
      <4>1. up.system = <<>> /\ <<>> \in Seq(Unit)
        BY <1>6, <3>2, EmptySeq
      <4>2. \A i \in 1..k : Passing[i] = <<>>
        <5>1. \A i \in 1..k : i \in 1..n /\ i \in 1..i /\ i <= k
          OBVIOUS
        <5>2. \A i \in 1..k : request.items[i].role = "system"
          BY <2>1, <5>1 DEF Leads
        <5>3. \A i \in 1..k : ~Passes(i)
          BY <1>11, <3>2, <5>2 DEF Passes
        <5>4. QED
          BY <1>7, <5>1, <5>3
      <4>3. FirstOf(Passing, k) = [i \in 1..k |-> <<>>]
        BY <4>2 DEF FirstOf
      <4>4. k \in Nat
        OBVIOUS
      <4>5. QED
        BY <4>1, <4>3, <4>4, FlattenNothings, VoicedNothing
    <3>3. QED
      BY <3>1, <3>2
  <2>6. Heard(up) = Voiced("system", up.system) \o FlattenSeq(cs)
    BY <1>5, <2>5, HeardIs
  <2>7. QED
    BY <1>3, <2>2, <2>4, <2>5, <2>6
<1>12. QED
  BY <1>10, <1>11

-----------------------------------------------------------------------------
(* The outputs of tools.  Those of a follow-up answer calls the client was *)
(* told of, which the model made; those of an opening conversation answer  *)
(* its own.                                                                *)

\* What is said in a role, as a set.
LEMMA VoicedRange ==
  ASSUME NEW r \in Roles, NEW us \in Seq(Unit)
  PROVE  Range(Voiced(r, us)) = {<<r, u>> : u \in Range(us)}
<1>1. Voiced(r, us) = [i \in DOMAIN us |-> <<r, us[i]>>]
  BY VoicedType
<1>2. QED
  BY <1>1 DEF Range

\* Only the item of a tool says an output, its own.
LEMMA MeantOutput ==
  ASSUME family \in TextFamilies, NEW item \in ItemType, NEW w \in Range(Meant(item)), w[2].kind = "output"
  PROVE  item.role = "tool" /\ w[2] = OutputUnit(family, item)
<1>0. "tool" \in Roles /\ "user" \in Roles
  BY DEF Roles
<1>1. \A us \in Seq(PartType) : \A u \in Range(us) : u.kind # "output"
  <2>1. \A us \in Seq(PartType) : Range(us) \subseteq PartType
    BY RangeOfSeq
  <2>2. \A u \in PartType : u.kind # "output"
    BY DEF PartType, Texts
  <2>3. QED
    BY <2>1, <2>2
<1>2. CASE item.role = "tool"
  <2>1. PICK us \in Seq(Unit), os \in Seq(Unit) : us = item.images /\ os = <<OutputUnit(family, item)>>
    <3>1. item.images \in Seq(Unit)
      BY <1>2, OutputUnits, PartsAreUnits
    <3>2. PICK o \in Unit : o = OutputUnit(family, item)
      BY <1>2, OutputUnits
    <3>3. <<o>> \in Seq(Unit)
      OBVIOUS
    <3>4. QED
      BY <3>1, <3>2, <3>3
  <2>2. Meant(item) = Voiced("tool", os) \o Voiced("user", us)
    BY <1>2, <2>1, MeantIs
  <2>3. Voiced("tool", os) \in Seq(Words) /\ Voiced("user", us) \in Seq(Words)
    BY <1>0, VoicedType
  <2>4. Range(Meant(item)) = Range(Voiced("tool", os)) \union Range(Voiced("user", us))
    BY <2>2, <2>3, RangeConcatenation
  <2>5. Range(Voiced("user", us)) = {<<"user", u>> : u \in Range(us)}
    BY <1>0, VoicedRange
  <2>6. Range(Voiced("tool", os)) = {<<"tool", u>> : u \in Range(os)}
    BY <1>0, VoicedRange
  <2>7. Range(os) = {OutputUnit(family, item)}
    BY <2>1 DEF Range
  <2>8. item.images \in Seq(PartType)
    BY <1>2, OutputUnits
  <2>9. \A u \in Range(us) : u.kind # "output"
    BY <1>1, <2>1, <2>8
  <2>10. w \notin Range(Voiced("user", us))
    BY <2>5, <2>9
  <2>11. w = <<"tool", OutputUnit(family, item)>>
    BY <2>4, <2>6, <2>7, <2>10
  <2>12. QED
    BY <1>2, <2>11
<1>3. CASE item.role # "tool"
  <2>1. item.role \in Roles
    BY <1>3, MessageUnits DEF Roles
  <2>2. PICK us \in Seq(Unit), vs \in Seq(Unit) : us = Parts(family, item) /\ vs = CallUnits(family, item)
    BY <1>3, MessageUnits, PartsAreUnits
  <2>3. Meant(item) = Voiced(item.role, us) \o Voiced(item.role, vs)
    BY <1>3, <2>2, MeantIs
  <2>4. Voiced(item.role, us) \in Seq(Words) /\ Voiced(item.role, vs) \in Seq(Words)
    BY <2>1, VoicedType
  <2>5. Range(Meant(item)) = Range(Voiced(item.role, us)) \union Range(Voiced(item.role, vs))
    BY <2>3, <2>4, RangeConcatenation
  <2>6. Range(Voiced(item.role, us)) = {<<item.role, u>> : u \in Range(us)}
    BY <2>1, VoicedRange
  <2>7. Range(Voiced(item.role, vs)) = {<<item.role, u>> : u \in Range(vs)}
    BY <2>1, VoicedRange
  <2>8. us \in Seq(PartType)
    BY <1>3, <2>2, MessageUnits
  <2>9. \A u \in Range(us) : u.kind # "output"
    BY <1>1, <2>8
  <2>10. \A u \in Range(vs) : u.kind = "call"
    BY <2>2 DEF CallUnits, Range
  <2>11. QED
    BY <2>5, <2>6, <2>7, <2>9, <2>10
<1>4. QED
  BY <1>2, <1>3

\* An assistant's message says each of its calls.
LEMMA MeantCalls ==
  ASSUME family \in TextFamilies, NEW item \in ItemType, item.role = "assistant", NEW c \in ToSet(item.calls)
  PROVE  <<"assistant", [kind |-> "call", tag |-> CallId(family, c), name |-> c.name]>> \in Range(Meant(item))
<1>1. "assistant" \in Roles
  BY DEF Roles
<1>2. PICK us \in Seq(Unit), vs \in Seq(Unit) : us = Parts(family, item) /\ vs = CallUnits(family, item)
  BY MessageUnits, PartsAreUnits
<1>3. Meant(item) = Voiced("assistant", us) \o Voiced("assistant", vs)
  BY <1>2, MeantIs
<1>4. Voiced("assistant", us) \in Seq(Words) /\ Voiced("assistant", vs) \in Seq(Words)
  BY <1>1, VoicedType
<1>5. Range(Meant(item)) = Range(Voiced("assistant", us)) \union Range(Voiced("assistant", vs))
  BY <1>3, <1>4, RangeConcatenation
<1>6. Range(Voiced("assistant", vs)) = {<<"assistant", u>> : u \in Range(vs)}
  BY <1>1, VoicedRange
<1>7. PICK i \in DOMAIN item.calls : c = item.calls[i]
  BY DEF ToSet
<1>8. [kind |-> "call", tag |-> CallId(family, c), name |-> c.name] \in Range(vs)
  <2>1. vs = [j \in DOMAIN item.calls |->
                [kind |-> "call", tag |-> CallId(family, item.calls[j]), name |-> item.calls[j].name]]
    BY <1>2 DEF CallUnits
  <2>2. QED
    BY <1>7, <2>1 DEF Range
<1>9. QED
  BY <1>5, <1>6, <1>8

\* The items' outputs answer calls: of the response that is continued, or of an item before.
Answered ==
  IF request.resumes
  THEN family = "ark" /\ \A i \in DOMAIN request.items :
         request.items[i].role = "tool" => request.items[i].id \in held
  ELSE Coherent(request.items)

\* So do those that the upstream hears.
LEMMA OutputsAnswer ==
  ASSUME family \in TextFamilies, request \in RequestType, Answered,
         NEW heard, heard = FlattenSeq(Passing), NEW i \in DOMAIN heard, heard[i][2].kind = "output"
  PROVE  \/ \E j \in 1..(i - 1) : heard[j][2].kind = "call" /\ KnownAs(heard[j][2]) = heard[i][2].tag
         \/ family = "ark" /\ request.resumes /\ heard[i][2].tag \in held
         \/ \E j \in 1..(i - 1) : Unnamed(heard[j][2]) /\ heard[j][2].name = heard[i][2].tag
<1>1. request.items \in Seq(ItemType)
  BY DEF RequestType
<1>2. PICK n \in Nat : n = Len(request.items) /\ DOMAIN request.items = 1..n
  BY <1>1
<1>3. PICK ss \in Seq(Seq(Words)) : ss = Passing /\ Len(ss) = n
  BY <1>1, <1>2, PassingType
<1>4. \A k \in 1..n : ss[k] = IF Passes(k) THEN Meant(request.items[k]) ELSE <<>>
  BY <1>1, <1>2, <1>3, PassingType
<1>5. \A k \in 1..n : request.items[k] \in ItemType
  BY <1>1, <1>2
<1>6. Placed(ss, heard) /\ heard \in Seq(Words)
  <2>1. Placed(ss, FlattenSeq(ss)) /\ FlattenSeq(ss) \in Seq(Words)
    BY FlattenPlaces, FlattenType
  <2>2. QED
    BY <1>3, <2>1
<1>7. i \in 1..Len(heard)
  BY <1>6
<1>8. PICK k \in 1..n : /\ heard[i] \in Range(ss[k])
                        /\ \A j \in 1..(k - 1) : \A e \in Range(ss[j]) : \E l \in 1..(i - 1) : heard[l] = e
  BY <1>3, <1>6, <1>7 DEF Placed
<1>9. heard[i] \in Range(Meant(request.items[k]))
  <2>1. Range(<<>>) = {}
    BY DEF Range
  <2>2. QED
    BY <1>4, <1>8, <2>1
<1>10. PICK item \in ItemType : item = request.items[k] /\ item.role = "tool" /\ heard[i][2] = OutputUnit(family, item)
  BY <1>5, <1>9, MeantOutput
<1>11. CASE request.resumes
  <2>1. family = "ark" /\ item.id \in held
    BY <1>2, <1>10, <1>11 DEF Answered
  <2>2. OutputUnit(family, item).tag = item.id
    BY <2>1 DEF OutputUnit
  <2>3. QED
    BY <1>10, <1>11, <2>1, <2>2
<1>12. CASE ~request.resumes
  <2>1. PICK j \in 1..(k - 1) : /\ request.items[j].role = "assistant"
                                /\ \E c \in ToSet(request.items[j].calls) : c.name # NoId /\ Answering(item, c)
    BY <1>2, <1>10, <1>12 DEF Answered, Coherent
  <2>2. j \in 1..n
    BY <1>2
  <2>3. PICK said \in ItemType : said = request.items[j] /\ said.role = "assistant"
    BY <1>5, <2>1, <2>2
  <2>4. PICK c \in ToSet(said.calls) : c.name # NoId /\ Answering(item, c)
    BY <2>1, <2>3
  <2>5. PICK u : u = [kind |-> "call", tag |-> CallId(family, c), name |-> c.name]
    OBVIOUS
  <2>6. <<"assistant", u>> \in Range(Meant(said))
    BY <2>3, <2>5, MeantCalls
  <2>7. Passes(j)
    BY <2>3 DEF Passes
  <2>8. PICK l \in 1..(i - 1) : heard[l] = <<"assistant", u>>
    BY <1>4, <1>8, <2>2, <2>3, <2>6, <2>7
  <2>9. heard[l][2] = u /\ u.kind = "call" /\ u.tag = CallId(family, c) /\ u.name = c.name
    BY <2>5, <2>8
  <2>10. item.name = c.name /\ item.id = IF c.id = NoId THEN c.name ELSE c.id
    BY <2>4 DEF Answering
  <2>11. KnownAs(u) = OutputUnit(family, item).tag \/ (Unnamed(u) /\ u.name = OutputUnit(family, item).tag)
    <3>1. CASE family = "gemini"
      BY <2>4, <2>9, <2>10, <3>1 DEF KnownAs, OutputUnit
    <3>2. CASE family = "ark"
      BY <2>4, <2>9, <2>10, <3>2 DEF KnownAs, OutputUnit, CallId
    <3>3. CASE family = "openai"
      BY <2>4, <2>9, <2>10, <3>3 DEF KnownAs, OutputUnit, CallId, Unnamed
    <3>4. QED
      BY <3>1, <3>2, <3>3 DEF TextFamilies
  <2>12. QED
    BY <1>10, <2>8, <2>9, <2>11
<1>13. QED
  BY <1>11, <1>12

\* The request in hand is the one that was sent, and its outputs answer.
Sent ==
  /\ sent \in {<<>>, <<Upstream(family, bound, request)>>}
  /\ phase = "new" => sent = <<>> /\ ~request.resumes

PromptInv == DeliveryInv /\ Sent /\ Answered

\* Putting a request to the upstream.
LEMMA GenerateSends ==
  ASSUME NEW r, Generate(r)
  PROVE  /\ Sent' /\ request' = r /\ family' = family
         /\ held' = IF r.resumes THEN {p.tag : p \in {q \in ToldPieces : q.kind = "call"}} ELSE {}
<1>1. request' = r /\ family' = family /\ bound' = bound
  BY DEF Generate
<1>2. phase' # "new"
  BY DEF Generate
<1>3. sent' = <<>> \/ sent' = <<Upstream(family, bound, r)>>
  BY DEF Generate
<1>4. Sent'
  BY <1>1, <1>2, <1>3 DEF Sent
<1>5. QED
  BY <1>1, <1>4 DEF Generate

\* A piece that is due was told.
LEMMA DueWasTold ==
  ASSUME TextTypes
  PROVE  Range(Due) \subseteq ToldPieces
<1>1. told \in Seq(ChunkType)
  BY DEF TextTypes
<1>2. PICK n \in Nat : n = Len(told) /\ DOMAIN told = 1..n
  BY <1>1
<1>3. PICK ss : ss = [i \in DOMAIN told |-> told[i].pieces]
  OBVIOUS
<1>4. \A i \in 1..n : ss[i] \in Seq(Piece)
  <2>1. \A i \in 1..n : told[i] \in ChunkType
    BY <1>1, <1>2
  <2>2. QED
    BY <1>2, <1>3, <2>1 DEF ChunkType
<1>5. DOMAIN ss = 1..n /\ ss = [i \in 1..n |-> ss[i]]
  BY <1>2, <1>3
<1>6. ss \in Seq(Seq(Piece)) /\ Len(ss) = n
  BY <1>4, <1>5, SequenceOf
<1>7. Placed(ss, AllTold)
  BY <1>3, <1>6, FlattenPlaces DEF AllTold
<1>8. PICK all \in Seq(Piece) : all = AllTold
  BY AllToldType
<1>9. Range(all) \subseteq ToldPieces
  <2> SUFFICES ASSUME NEW k \in 1..Len(all) PROVE all[k] \in ToldPieces
    <3>1. DOMAIN all = 1..Len(all)
      OBVIOUS
    <3>2. QED
      BY <3>1 DEF Range
  <2>1. PICK i \in 1..n : all[k] \in Range(ss[i])
    BY <1>6, <1>7, <1>8 DEF Placed
  <2>2. all[k] \in ToSet(told[i].pieces)
    BY <1>2, <1>3, <2>1 DEF Range, ToSet
  <2>3. QED
    BY <1>2, <2>2 DEF ToldPieces
<1>10. Range(Unrepeated(all)) \subseteq Range(all)
  <2>1. PICK s : s = [i \in DOMAIN all |-> i]
    OBVIOUS
  <2>2. PICK m \in Nat : m = Len(all) /\ DOMAIN all = 1..m
    OBVIOUS
  <2>3. DOMAIN s = 1..m /\ s = [i \in 1..m |-> s[i]] /\ \A i \in 1..m : s[i] \in 1..m
    BY <2>1, <2>2
  <2>4. s \in Seq(1..m)
    BY <2>3, SequenceOf
  <2>5. \E S : Unrepeated(all) = [i \in DOMAIN Within(s, S) |-> all[Within(s, S)[i]]]
    BY <2>1 DEF Unrepeated
  <2>6. PICK first : (\E S : first = Within(s, S)) /\ Unrepeated(all) = [i \in DOMAIN first |-> all[first[i]]]
    BY <2>5
  <2>7. first \in Seq(1..m)
    BY <2>4, <2>6, WithinType
  <2>8. \A i \in DOMAIN first : first[i] \in DOMAIN all
    BY <2>2, <2>7
  <2>9. QED
    BY <2>6, <2>8 DEF Range
<1>11. QED
  BY <1>8, <1>9, <1>10 DEF Due

\* So the calls that the client answers are, after a whole answer, calls of the model.
LEMMA SaidWasTold ==
  ASSUME DeliveryInv, result = "ok", NEW i \in DOMAIN CallsSaid
  PROVE  /\ CallsSaid[i].id \in {p.tag : p \in {q \in ToldPieces : q.kind = "call"}}
         /\ CallsSaid[i].id # NoId /\ CallsSaid[i].name # NoId
<1>1. TextTypes
  BY DEF DeliveryInv, TextInv
<1>2. Got = Due
  BY DeliveryMeans DEF AnswerArrives
<1>3. PICK calls : calls = OfKind(Said, {"call"})
  OBVIOUS
<1>4. DOMAIN CallsSaid = DOMAIN calls /\ CallsSaid[i] = Call(calls[i].tag, calls[i].name)
  BY <1>3 DEF CallsSaid
<1>5. Range(calls) \subseteq Range(Said)
  <2>1. Said \in Seq(Piece)
    BY <1>1, SaidType
  <2>2. \E S : calls = Within(Said, S)
    BY <1>3 DEF OfKind
  <2>3. QED
    BY <2>1, <2>2, WithinHits
<1>6. Range(Said) \subseteq Range(Got)
  <2>1. Got \in Seq(Piece)
    BY <1>1, GotType
  <2>2. \E S : Said = Within(Got, S)
    BY DEF Said, OfKind
  <2>3. QED
    BY <2>1, <2>2, WithinHits
<1>7. calls[i] \in ToldPieces
  <2>1. calls[i] \in Range(calls)
    BY <1>4 DEF Range
  <2>2. Range(Due) \subseteq ToldPieces
    BY <1>1, DueWasTold
  <2>3. QED
    BY <1>2, <1>5, <1>6, <2>1, <2>2
<1>8. calls \in Seq({p \in Piece : p.kind \in {"call"}})
  BY <1>1, <1>3, SaidType, OfKindType
<1>9. calls[i] \in {p \in Piece : p.kind \in {"call"}}
  BY <1>4, <1>8
<1>10. calls[i].kind = "call" /\ calls[i].tag # NoId /\ calls[i].name # NoId
  BY <1>9 DEF Piece, Texts
<1>11. QED
  BY <1>4, <1>7, <1>10 DEF Call

\* A follow-up answers calls of the response it continues, or of the answer it repeats.
LEMMA FollowUpAnswers ==
  ASSUME PromptInv, FollowUp
  PROVE  Sent' /\ Answered'
<1>1. DeliveryInv /\ TextTypes /\ result = "ok"
  BY DEF PromptInv, DeliveryInv, TextInv, FollowUp
<1>2. request \in RequestType /\ request.items \in Seq(ItemType)
  BY <1>1 DEF TextTypes, RequestType
<1>3. PICK m \in Nat : DOMAIN CallsSaid = 1..m
  BY <1>1, CallsSaidType
<1>4. /\ DOMAIN Answers = 1..m
      /\ \A i \in 1..m : Answers[i] = Output(CallsSaid[i].id, CallsSaid[i].name, <<>>)
  BY <1>3 DEF Answers
<1>5. \A i \in 1..m : Answers[i].role = "tool" /\ Answers[i].id = CallsSaid[i].id /\ Answers[i].name = CallsSaid[i].name
  BY <1>4 DEF Output
<1>6. \A i \in 1..m : /\ CallsSaid[i].id \in {p.tag : p \in {q \in ToldPieces : q.kind = "call"}}
                      /\ CallsSaid[i].id # NoId /\ CallsSaid[i].name # NoId
  BY <1>1, <1>3, SaidWasTold
<1>7. CASE family = "ark" /\ Generate([request EXCEPT !.items = Answers, !.resumes = TRUE])
  <2>1. PICK r : r = [request EXCEPT !.items = Answers, !.resumes = TRUE]
    OBVIOUS
  <2>2. r.items = Answers /\ r.resumes = TRUE
    BY <1>2, <2>1 DEF RequestType
  <2>3. /\ Sent' /\ request' = r /\ family' = family
        /\ held' = {p.tag : p \in {q \in ToldPieces : q.kind = "call"}}
    BY <1>7, <2>1, <2>2, GenerateSends
  <2>4. Answered'
    BY <1>4, <1>5, <1>6, <1>7, <2>2, <2>3 DEF Answered
  <2>5. QED
    BY <2>3, <2>4
<1>8. CASE ~request.resumes /\ Generate([request EXCEPT !.items = @ \o <<Answer>> \o Answers, !.resumes = FALSE])
  <2>1. PICK items : items = request.items \o <<Answer>> \o Answers
    OBVIOUS
  <2>2. PICK r : r = [request EXCEPT !.items = items, !.resumes = FALSE]
    OBVIOUS
  <2>3. r.items = items /\ r.resumes = FALSE
    BY <1>2, <2>2 DEF RequestType
  <2>4. Sent' /\ request' = r
    BY <1>8, <2>1, <2>2, GenerateSends
  <2>5. Coherent(items)
    <3>1. PICK n \in Nat : n = Len(request.items) /\ DOMAIN request.items = 1..n
      BY <1>2
    <3>2. Answers \in Seq(ItemType) /\ Answer \in ItemType /\ Len(Answers) = m
      <4>1. Answers \in Seq(ItemType) /\ Answer \in ItemType
        BY <1>1, AnswersType
      <4>2. QED
        BY <1>4, <4>1
    <3>3. /\ DOMAIN items = 1..(n + 1 + m)
          /\ \A i \in 1..n : items[i] = request.items[i]
          /\ items[n + 1] = Answer
          /\ \A i \in 1..m : items[n + 1 + i] = Answers[i]
      <4>1. PICK s : s = request.items \o <<Answer>>
        OBVIOUS
      <4>2. s \in Seq(ItemType) /\ Len(s) = n + 1 /\ s[n + 1] = Answer /\ \A i \in 1..n : s[i] = request.items[i]
        BY <1>2, <3>1, <3>2, <4>1
      <4>3. items = s \o Answers
        BY <2>1, <4>1
      <4>4. /\ DOMAIN (s \o Answers) = 1..(Len(s) + Len(Answers))
            /\ \A i \in 1..Len(s) : (s \o Answers)[i] = s[i]
            /\ \A i \in 1..Len(Answers) : (s \o Answers)[Len(s) + i] = Answers[i]
        <5>1. PICK p \in Seq(ItemType), q \in Seq(ItemType) : p = s /\ q = Answers
          BY <3>2, <4>2
        <5>2. /\ DOMAIN (p \o q) = 1..(Len(p) + Len(q))
              /\ \A i \in 1..Len(p) : (p \o q)[i] = p[i]
              /\ \A i \in 1..Len(q) : (p \o q)[Len(p) + i] = q[i]
          BY ConcatIs
        <5>3. QED
          BY <5>1, <5>2
      <4>5. QED
        BY <3>2, <4>2, <4>3, <4>4
    <3>4. Coherent(request.items)
      BY <1>8 DEF PromptInv, Answered
    <3>5. Answer.role = "assistant" /\ Answer.calls = CallsSaid
      BY DEF Answer, Message
    <3>6. ASSUME NEW i \in 1..(n + 1 + m), items[i].role = "tool"
          PROVE  \E j \in 1..(i - 1) :
                   /\ items[j].role = "assistant"
                   /\ \E c \in ToSet(items[j].calls) : c.name # NoId /\ Answering(items[i], c)
      <4>1. CASE i \in 1..n
        <5>1. request.items[i].role = "tool"
          BY <3>3, <3>6, <4>1
        <5>2. PICK j \in 1..(i - 1) :
                 /\ request.items[j].role = "assistant"
                 /\ \E c \in ToSet(request.items[j].calls) : c.name # NoId /\ Answering(request.items[i], c)
          BY <3>1, <3>4, <4>1, <5>1 DEF Coherent
        <5>3. items[j] = request.items[j] /\ items[i] = request.items[i]
          BY <3>3, <4>1
        <5>4. QED
          BY <5>2, <5>3
      <4>2. CASE i = n + 1
        <5>1. items[i].role = "assistant"
          BY <3>3, <3>5, <4>2
        <5>2. QED
          BY <3>6, <5>1
      <4>3. CASE i \notin 1..n /\ i # n + 1
        <5>1. PICK k \in 1..m : i = n + 1 + k
          <6>1. i - (n + 1) \in 1..m /\ i = n + 1 + (i - (n + 1))
            BY <4>3
          <6>2. QED
            BY <6>1
        <5>2. PICK c : c = CallsSaid[k]
          OBVIOUS
        <5>3. c \in ToSet(CallsSaid) /\ c.id # NoId /\ c.name # NoId
          BY <1>3, <1>6, <5>2 DEF ToSet
        <5>4. items[i] = Answers[k]
          BY <3>3, <5>1
        <5>5. items[i].id = c.id /\ items[i].name = c.name
          BY <1>5, <5>2, <5>4
        <5>6. Answering(items[i], c)
          BY <5>3, <5>5 DEF Answering
        <5>7. n + 1 \in 1..(i - 1) /\ items[n + 1].role = "assistant" /\ c \in ToSet(items[n + 1].calls)
          BY <3>3, <3>5, <5>1, <5>3
        <5>8. QED
          BY <5>3, <5>6, <5>7
      <4>4. QED
        BY <4>1, <4>2, <4>3
    <3>7. QED
      BY <3>3, <3>6 DEF Coherent
  <2>6. Answered'
    BY <2>3, <2>4, <2>5 DEF Answered
  <2>7. QED
    BY <2>4, <2>6
<1>9. QED
  BY <1>7, <1>8 DEF FollowUp

\* Every step keeps the request and what was sent together.
LEMMA PromptStep ==
  ASSUME PromptInv, [Next]_vars
  PROVE  Sent' /\ Answered'
<1>0. Sent /\ Answered
  BY DEF PromptInv
<1>1. ASSUME UNCHANGED turn, phase' # "new" \/ phase' = phase PROVE Sent' /\ Answered'
  BY <1>0, <1>1 DEF turn, Sent, Answered
<1>2. ASSUME Open PROVE Sent' /\ Answered'
  <2>1. phase = "new" /\ Generate(request)
    BY <1>2 DEF Open
  <2>2. ~request.resumes
    BY <1>0, <2>1 DEF Sent
  <2>3. Sent' /\ request' = request
    BY <2>1, GenerateSends
  <2>4. Answered'
    BY <1>0, <2>2, <2>3 DEF Answered
  <2>5. QED
    BY <2>3, <2>4
<1>3. ASSUME FollowUp PROVE Sent' /\ Answered'
  BY <1>3, FollowUpAnswers
<1>4. ASSUME UpstreamFails PROVE Sent' /\ Answered'
  BY <1>1, <1>4 DEF UpstreamFails, Return
<1>5. ASSUME ChunkArrives PROVE Sent' /\ Answered'
  BY <1>1, <1>5 DEF ChunkArrives
<1>6. ASSUME Emit PROVE Sent' /\ Answered'
  BY <1>1, <1>6 DEF Emit, Return
<1>7. ASSUME StreamEnds PROVE Sent' /\ Answered'
  BY <1>1, <1>7 DEF StreamEnds
<1>8. ASSUME DocumentArrives PROVE Sent' /\ Answered'
  BY <1>1, <1>8 DEF DocumentArrives
<1>9. ASSUME SendFinal PROVE Sent' /\ Answered'
  BY <1>1, <1>9 DEF SendFinal, Return
<1>10. ASSUME UNCHANGED vars PROVE Sent' /\ Answered'
  BY <1>1, <1>10 DEF vars
<1>11. QED
  BY <1>2, <1>3, <1>4, <1>5, <1>6, <1>7, <1>8, <1>9, <1>10 DEF Next

\* The inductive invariant of the prompt: what was sent is the request in hand, and every
\* output in the request answers.
THEOREM PromptInvariant == Spec => []PromptInv
<1>1. Init => PromptInv
  <2> SUFFICES ASSUME Init PROVE PromptInv
    OBVIOUS
  <2>1. DeliveryInv
    <3>1. told = <<>> /\ events = <<>> /\ outbox = <<>> /\ emitted = {} /\ result # "ok"
      BY DEF Init
    <3>2. QED
      BY <3>1, TextStarts, StartsEmpty DEF DeliveryInv
  <2>2. sent = <<>> /\ request \in Prompts
    BY DEF Init
  <2>3. ~request.resumes /\ Coherent(request.items)
    BY <2>2, OpeningAssumption
  <2>4. QED
    BY <2>1, <2>2, <2>3 DEF PromptInv, Sent, Answered
<1>2. PromptInv /\ [Next]_vars => PromptInv'
  <2> SUFFICES ASSUME PromptInv, [Next]_vars PROVE PromptInv'
    OBVIOUS
  <2>1. DeliveryInv'
    BY TextStep, NumberedStep, DeliveredStep DEF PromptInv, DeliveryInv
  <2>2. QED
    BY <2>1, PromptStep DEF PromptInv
<1>3. QED
  BY <1>1, <1>2, PTL DEF Spec

\* The invariant means what PromptArrives says.
LEMMA PromptMeans ==
  ASSUME PromptInv
  PROVE  PromptArrives
<1>1. family \in TextFamilies /\ request \in RequestType /\ Sent /\ Answered
  BY DEF PromptInv, DeliveryInv, TextInv, TextTypes
<1>2. CASE sent = <<>>
  BY <1>2 DEF PromptArrives
<1>3. CASE sent = <<Upstream(family, bound, request)>>
  <2>1. PICK up : up = Upstream(family, bound, request)
    OBVIOUS
  <2>2. DOMAIN sent = {1} /\ sent[1] = up
    BY <1>3, <2>1
  <2>3. PICK heard : heard = FlattenSeq(Passing)
    OBVIOUS
  <2>4. Heard(up) = heard
    BY <1>1, <2>1, <2>3, PromptSays
  <2>5. up.resumes = (family = "ark" /\ request.resumes)
    BY <2>1 DEF Upstream
  <2>6. ASSUME NEW i \in DOMAIN heard, heard[i][2].kind = "output"
        PROVE  \/ \E j \in 1..(i - 1) : heard[j][2].kind = "call" /\ KnownAs(heard[j][2]) = heard[i][2].tag
               \/ up.resumes /\ heard[i][2].tag \in held
               \/ \E j \in 1..(i - 1) : Unnamed(heard[j][2]) /\ heard[j][2].name = heard[i][2].tag
    BY <1>1, <2>3, <2>5, <2>6, OutputsAnswer
  <2>7. QED
    BY <2>2, <2>3, <2>4, <2>6 DEF PromptArrives, Passing
<1>4. QED
  BY <1>1, <1>2, <1>3 DEF Sent

\* The upstream hears the conversation as the client told it, every unit once, in order and
\* in its role, and each tool output answers a call the upstream knows: for any requests,
\* any answers and any number of follow-ups.
THEOREM PromptsArrive == Spec => []PromptArrives
<1>1. QED
  BY PromptInvariant, PromptMeans, PTL

-----------------------------------------------------------------------------
(* The image.  The invariant says what has been gathered, posted, painted  *)
(* and shown at each step; it has one conjunct for each of the stages.     *)

PaintedType == [kind : {"text", "blank", "untyped", "large", "image"}, of : Nat]
FileType    == [tag : STRING, image : {TRUE}]
PaintedAt(n) == [kind : {"text", "blank", "untyped", "large", "image"}, of : {n}]
AnswerType  == [kind : {"b64", "url", "garbled", "nothing", "large", "text", "blank", "untyped"}, revised : BOOLEAN]

\* The references written so far are the first ones, and all of them are images.
Gathered ==
  /\ gathered \in Seq(FileType)
  /\ Len(gathered) <= Len(Refs(asking))
  /\ \A i \in 1..Len(gathered) : gathered[i].tag = Refs(asking)[i].tag

\* A request was made for nothing but a valid order, and the whole of it.
Posted ==
  /\ step = "new" => gathered = <<>>
  /\ step \in {"new", "gathering"} => posted = <<>>
  /\ step = "gathering" => asking.model # Gemini
  /\ \/ posted = <<>>
     \/ asking.model = Gemini /\ \E content : posted = <<Post("generateContent", content)>>
     \/ asking.model \notin {Gemini, Flux2Klein9B} /\ Refs(asking) = <<>>
          /\ posted = <<Post("generations", Prompt(asking))>>
     \/ asking.model # Gemini /\ Len(gathered) = Len(Refs(asking))
          /\ posted = <<Post("edits", Prompt(asking) \o gathered)>>

\* The items made so far are those of the items read so far, in their order.
PaintedFrom(ps, n) ==
  /\ \A i \in 1..Len(ps) : ps[i].of \in 1..n
  /\ \A i, j \in 1..Len(ps) : i < j => ps[i].of <= ps[j].of
  /\ \A k \in 1..n :
       /\ answered[k].kind = "b64" => Contains(ps, [kind |-> "image", of |-> k])
       /\ answered[k].revised \/ answered[k].kind = "text" => Contains(ps, [kind |-> "text", of |-> k])

Painted ==
  /\ answered \in Seq(AnswerType) /\ painted \in Seq(PaintedType)
  /\ read \in Nat /\ read <= Len(answered)
  /\ step \in {"new", "gathering", "asked"} => painted = <<>> /\ read = 0
  /\ PaintedFrom(painted, read)

Shown ==
  /\ verdict = "INVALID_ARGUMENT" => posted = <<>>
  /\ (verdict = "ok") <=> (shown # <<>>)
  /\ step # "ended" => verdict = "none"
  /\ shown # <<>> =>
       /\ shown = <<[seq |-> 0, final |-> TRUE, items |-> painted]>>
       /\ step = "ended" /\ read = Len(answered) /\ ValidImageEvent

ImageInv ==
  /\ asking.parts \in Seq(ImagePart)
  /\ Gathered /\ Posted /\ Painted /\ Shown

\* The texts and references of an order are parts of it.
LEMMA PromptAndRefs ==
  ASSUME asking.parts \in Seq(ImagePart)
  PROVE  Refs(asking) \in Seq(ImagePart) /\ Prompt(asking) \in Seq(ImagePart)
<1>1. /\ Refs(asking) \in Seq({p \in ImagePart : p.kind \in {"image"}})
      /\ Prompt(asking) \in Seq({p \in ImagePart : p.kind \in {"text"}})
  BY OfKindType DEF Refs, Prompt
<1>2. QED
  BY <1>1, SeqMonotonic

\* The image invariant holds at the start.
LEMMA ImageStarts ==
  ASSUME ImageInit
  PROVE  ImageInv
<1>1. asking.parts \in Seq(ImagePart)
  BY ImageOrdersAssumption DEF ImageInit
<1>2. gathered = <<>> /\ answered = <<>> /\ painted = <<>> /\ read = 0
  BY DEF ImageInit
<1>3. Refs(asking) \in Seq(ImagePart)
  BY <1>1, PromptAndRefs
<1>4. Gathered
  <2>1. gathered \in Seq(FileType)
    BY <1>2, EmptySeq
  <2>2. Len(gathered) = 0 /\ Len(Refs(asking)) \in Nat
    BY <1>2, <1>3
  <2>3. QED
    BY <2>1, <2>2 DEF Gathered
<1>5. Posted
  BY DEF ImageInit, Posted
<1>6. Painted
  <2>1. answered \in Seq(AnswerType) /\ painted \in Seq(PaintedType)
    BY <1>2, EmptySeq
  <2>2. Len(painted) = 0 /\ Len(answered) = 0
    BY <1>2
  <2>3. PaintedFrom(painted, read)
    BY <1>2, <2>2 DEF PaintedFrom
  <2>4. QED
    BY <1>2, <2>1, <2>2, <2>3 DEF Painted
<1>7. Shown
  BY DEF ImageInit, Shown
<1>8. QED
  BY <1>1, <1>4, <1>5, <1>6, <1>7 DEF ImageInv

\* What an item of the answer turns into: items of its own number, among them its image
\* and its text.
LEMMA ImageItemsAre ==
  ASSUME NEW item \in AnswerType, item.kind # "garbled", NEW n \in Nat
  PROVE  /\ ImageItems(item, n) \in Seq(PaintedAt(n))
         /\ item.kind \in {"b64", "url"} => Contains(ImageItems(item, n), [kind |-> "image", of |-> n])
         /\ item.revised \/ item.kind = "text" => Contains(ImageItems(item, n), [kind |-> "text", of |-> n])
<1> DEFINE P == PaintedAt(n)
           said == CASE item.kind = "nothing"             -> <<>>
                     [] item.kind \in {"text", "blank"}   -> <<[kind |-> item.kind, of |-> n]>>
                     [] item.kind = "untyped"             -> <<[kind |-> "untyped", of |-> n]>>
                     [] item.kind = "large"               -> <<[kind |-> "large", of |-> n]>>
                     [] item.kind \in {"b64", "url"}      -> <<[kind |-> "image", of |-> n]>>
           more == IF item.revised THEN <<[kind |-> "text", of |-> n]>> ELSE <<>>
<1>1. ImageItems(item, n) = said \o more
  BY DEF ImageItems
<1>2. item.kind \in {"b64", "url", "nothing", "large", "text", "blank", "untyped"}
  BY DEF AnswerType
<1>3. \A k \in {"text", "blank", "untyped", "large", "image"} : [kind |-> k, of |-> n] \in P
  BY DEF PaintedAt
<1>4. <<>> \in Seq(P) /\ \A p \in P : <<p>> \in Seq(P)
  BY EmptySeq
<1>5. /\ item.kind = "nothing" => said = <<>>
      /\ item.kind = "text" => said = <<[kind |-> "text", of |-> n]>>
      /\ item.kind = "blank" => said = <<[kind |-> "blank", of |-> n]>>
      /\ item.kind = "untyped" => said = <<[kind |-> "untyped", of |-> n]>>
      /\ item.kind = "large" => said = <<[kind |-> "large", of |-> n]>>
      /\ item.kind \in {"b64", "url"} => said = <<[kind |-> "image", of |-> n]>>
  OBVIOUS
<1> HIDE DEF P, said
<1>6. said \in Seq(P)
  BY <1>2, <1>3, <1>4, <1>5
<1>7. more \in Seq(P) /\ (item.revised => more = <<[kind |-> "text", of |-> n]>>)
  BY <1>3, <1>4
<1> HIDE DEF more
<1>8. PICK a \in Nat, b \in Nat : a = Len(said) /\ b = Len(more)
  BY <1>6, <1>7
<1>9. /\ Len(said \o more) = a + b
      /\ \A i \in 1..a : (said \o more)[i] = said[i]
      /\ \A i \in 1..b : (said \o more)[a + i] = more[i]
  BY <1>6, <1>7, <1>8
<1>10. ASSUME NEW e, said = <<e>> PROVE Contains(said \o more, e)
  <2>1. a = 1 /\ said[1] = e
    BY <1>8, <1>10
  <2>2. 1 \in 1..(a + b) /\ (said \o more)[1] = e
    BY <1>8, <1>9, <2>1
  <2>3. QED
    BY <1>9, <2>2 DEF Contains
<1>11. ASSUME NEW e, more = <<e>> PROVE Contains(said \o more, e)
  <2>1. b = 1 /\ more[1] = e
    BY <1>8, <1>11
  <2>2. a + 1 \in 1..(a + b) /\ (said \o more)[a + 1] = e
    BY <1>8, <1>9, <2>1
  <2>3. QED
    BY <1>9, <2>2 DEF Contains
<1>12. said \o more \in Seq(P)
  BY <1>6, <1>7
<1>13. QED
  BY <1>1, <1>5, <1>7, <1>10, <1>11, <1>12 DEF P

\* What each of the steps leaves alone.
LEMMA ImageFrame ==
  ASSUME [ImageNext]_imageVars
  PROVE  /\ asking' = asking
         /\ ~GatherReference => gathered' = gathered
         /\ ~PaintingArrives /\ ~ReadItem => UNCHANGED <<answered, painted, read>>
         /\ ~SendImage => shown' = shown
<1>1. ASSUME GenerateImage PROVE UNCHANGED <<asking, gathered, answered, painted, read, shown>>
  BY <1>1 DEF GenerateImage
<1>2. ASSUME GatherReference PROVE UNCHANGED <<asking, answered, painted, read, shown>>
  BY <1>2 DEF GatherReference
<1>3. ASSUME PostEdits PROVE UNCHANGED <<asking, gathered, answered, painted, read, shown>>
  BY <1>3 DEF PostEdits
<1>4. ASSUME PaintingArrives PROVE UNCHANGED <<asking, gathered, shown>>
  BY <1>4 DEF PaintingArrives
<1>5. ASSUME PaintingFails PROVE UNCHANGED <<asking, gathered, answered, painted, read, shown>>
  BY <1>5 DEF PaintingFails
<1>6. ASSUME ReadItem PROVE UNCHANGED <<asking, gathered, shown>>
  BY <1>6 DEF ReadItem
<1>7. ASSUME SendImage PROVE UNCHANGED <<asking, gathered, answered, painted, read>>
  BY <1>7 DEF SendImage
<1>8. ASSUME ContextDone PROVE UNCHANGED <<asking, gathered, answered, painted, read, shown>>
  BY <1>8 DEF ContextDone
<1>9. ASSUME UNCHANGED imageVars PROVE UNCHANGED <<asking, gathered, answered, painted, read, shown>>
  BY <1>9 DEF imageVars
<1>10. QED
  BY <1>1, <1>2, <1>3, <1>4, <1>5, <1>6, <1>7, <1>8, <1>9 DEF ImageNext

\* Every step keeps what was gathered a beginning of the references.
LEMMA GatheredStep ==
  ASSUME ImageInv, [ImageNext]_imageVars
  PROVE  Gathered' /\ asking' = asking
<1>0. asking.parts \in Seq(ImagePart) /\ Gathered
  BY DEF ImageInv
<1>1. PICK refs \in Seq(ImagePart) : refs = Refs(asking)
  BY <1>0, PromptAndRefs
<1>2. asking' = asking
  BY ImageFrame
<1>3. refs = Refs(asking)'
  BY <1>1, <1>2 DEF Refs
<1>4. CASE gathered' = gathered
  BY <1>0, <1>2, <1>4 DEF Gathered, Refs
<1>5. CASE GatherReference
  <2>1. PICK n \in Nat : n = Len(gathered) /\ n < Len(refs) /\ n + 1 \in 1..Len(refs)
    BY <1>0, <1>1, <1>5 DEF GatherReference, Gathered
  <2>2. refs[n + 1] \in ImagePart
    BY <2>1
  <2>3. PICK g : g = [tag |-> refs[n + 1].tag, image |-> TRUE]
    OBVIOUS
  <2>4. g \in FileType /\ g.tag = refs[n + 1].tag
    BY <2>2, <2>3 DEF ImagePart, FileType
  <2>5. \A fetch : ReferenceMIME(fetch) = "image" => (fetch # "noImage") = TRUE
    BY DEF ReferenceMIME
  <2>6. gathered' = gathered \/ gathered' = Append(gathered, g)
    BY <1>1, <1>5, <2>1, <2>3, <2>5 DEF GatherReference
  <2>7. CASE gathered' = Append(gathered, g)
    <3>1. gathered \in Seq(FileType)
      BY <1>0 DEF Gathered
    <3>2. /\ gathered' \in Seq(FileType)
          /\ Len(gathered') = n + 1 /\ gathered'[n + 1] = g
          /\ \A i \in 1..n : gathered'[i] = gathered[i]
      BY <2>1, <2>4, <2>7, <3>1
    <3>3. \A i \in 1..(n + 1) : i \in 1..n \/ i = n + 1
      OBVIOUS
    <3>4. \A i \in 1..n : gathered[i].tag = refs[i].tag
      BY <1>0, <1>1, <2>1 DEF Gathered
    <3>5. \A i \in 1..(n + 1) : gathered'[i].tag = refs[i].tag
      BY <2>4, <3>2, <3>3, <3>4
    <3>6. n + 1 <= Len(refs)
      BY <2>1
    <3>7. QED
      BY <1>2, <1>3, <3>2, <3>5, <3>6 DEF Gathered
  <2>8. QED
    BY <1>4, <2>6, <2>7
<1>6. CASE ~GatherReference
  BY <1>4, <1>6, ImageFrame
<1>7. QED
  BY <1>2, <1>5, <1>6

\* Every step keeps what was posted the order's.
LEMMA PostedStep ==
  ASSUME ImageInv, [ImageNext]_imageVars
  PROVE  Posted'
<1>0. Posted /\ Gathered /\ asking.parts \in Seq(ImagePart) /\ asking' = asking
  BY GatheredStep DEF ImageInv
<1>1. ASSUME UNCHANGED <<gathered, posted>>, step' # "new", step' # "gathering" PROVE Posted'
  BY <1>0, <1>1 DEF Posted, Post, Refs, Prompt
<1>2. ASSUME GenerateImage PROVE Posted'
  <2>0. step = "new" /\ posted = <<>> /\ gathered' = gathered
    BY <1>0, <1>2 DEF GenerateImage, Posted
  <2>1. CASE Invalid(asking)
    BY <1>1, <1>2, <2>0, <2>1 DEF GenerateImage, End
  <2>2. \A p : Append(<<>>, p) = <<p>>
    OBVIOUS
  <2>3. CASE ~Invalid(asking) /\ asking.model = Gemini
    <3>1. PICK content : posted' = <<Post("generateContent", content)>> /\ step' = "asked"
      BY <1>2, <2>0, <2>2, <2>3 DEF GenerateImage, PostTo
    <3>2. QED
      BY <1>0, <2>3, <3>1 DEF Posted, Post
  <2>4. CASE ~Invalid(asking) /\ asking.model # Gemini /\ Refs(asking) = <<>>
    <3>1. posted' = <<Post("generations", Prompt(asking))>> /\ step' = "asked"
      BY <1>2, <2>0, <2>2, <2>4 DEF GenerateImage, PostTo
    <3>2. asking.model # Flux2Klein9B
      BY <2>4 DEF Invalid
    <3>3. QED
      BY <1>0, <2>4, <3>1, <3>2 DEF Posted, Post, Refs, Prompt
  <2>5. CASE ~Invalid(asking) /\ asking.model # Gemini /\ Refs(asking) # <<>>
    <3>1. step' = "gathering" /\ posted' = <<>>
      BY <1>2, <2>0, <2>5 DEF GenerateImage
    <3>2. QED
      BY <1>0, <2>5, <3>1 DEF Posted
  <2>6. QED
    BY <2>1, <2>3, <2>4, <2>5
<1>3. ASSUME GatherReference PROVE Posted'
  <2>1. step = "gathering" /\ posted' = <<>> /\ asking.model # Gemini
    BY <1>0, <1>3 DEF GatherReference, Posted
  <2>2. step' # "new"
    BY <1>3, <2>1 DEF GatherReference, End
  <2>3. QED
    BY <1>0, <2>1, <2>2 DEF Posted
<1>4. ASSUME PostEdits PROVE Posted'
  <2>1. posted = <<>> /\ asking.model # Gemini /\ gathered' = gathered /\ Len(gathered) = Len(Refs(asking))
    BY <1>0, <1>4 DEF PostEdits, Posted
  <2>2. \A p : Append(<<>>, p) = <<p>>
    OBVIOUS
  <2>3. posted' = <<Post("edits", Prompt(asking) \o gathered)>> /\ step' = "asked"
    BY <1>4, <2>1, <2>2 DEF PostEdits, PostTo
  <2>4. QED
    BY <1>0, <2>1, <2>3 DEF Posted, Post, Refs, Prompt
<1>5. ASSUME PaintingArrives \/ PaintingFails \/ ReadItem \/ SendImage \/ ContextDone PROVE Posted'
  <2>1. UNCHANGED <<gathered, posted>>
    BY <1>5 DEF PaintingArrives, PaintingFails, ReadItem, SendImage, ContextDone
  <2>2. step' # "new" /\ step' # "gathering"
    BY <1>5 DEF PaintingArrives, PaintingFails, ReadItem, Take, Fail, SendImage, ContextDone, End
  <2>3. QED
    BY <1>1, <2>1, <2>2
<1>6. ASSUME UNCHANGED imageVars PROVE Posted'
  BY <1>0, <1>6 DEF Posted, Post, Refs, Prompt, imageVars
<1>7. QED
  BY <1>2, <1>3, <1>4, <1>5, <1>6 DEF ImageNext

\* One more item is read, and what it turns into comes behind what there is.
LEMMA PaintMore ==
  ASSUME answered \in Seq(AnswerType), painted \in Seq(PaintedType),
         NEW n \in Nat, n < Len(answered), PaintedFrom(painted, n),
         NEW items \in Seq(PaintedAt(n + 1)),
         answered[n + 1].kind = "b64" => Contains(items, [kind |-> "image", of |-> n + 1]),
         answered[n + 1].revised \/ answered[n + 1].kind = "text" =>
           Contains(items, [kind |-> "text", of |-> n + 1])
  PROVE  painted \o items \in Seq(PaintedType) /\ PaintedFrom(painted \o items, n + 1)
<1>1. PICK a \in Nat, b \in Nat : a = Len(painted) /\ b = Len(items)
  OBVIOUS
<1>2. PICK t : t = painted \o items
  OBVIOUS
<1>3. \A i \in 1..b : items[i] \in PaintedType /\ items[i].of = n + 1
  <2>1. \A i \in 1..b : items[i] \in PaintedAt(n + 1)
    BY <1>1
  <2>2. n + 1 \in Nat
    OBVIOUS
  <2>3. QED
    BY <2>1, <2>2 DEF PaintedType, PaintedAt
<1>4. items \in Seq(PaintedType)
  BY <1>1, <1>3
<1>5. /\ t \in Seq(PaintedType) /\ Len(t) = a + b
      /\ \A i \in 1..a : t[i] = painted[i]
      /\ \A i \in 1..b : t[a + i] = items[i]
  BY <1>1, <1>2, <1>4
<1>6. \A i \in 1..(a + b) : i \in 1..a \/ \E j \in 1..b : i = a + j
  <2>1. \A i \in 1..(a + b) : i \in 1..a \/ (i - a \in 1..b /\ i = a + (i - a))
    BY <1>1
  <2>2. QED
    BY <2>1
<1>7. ASSUME NEW i \in 1..(a + b), i \notin 1..a PROVE t[i].of = n + 1
  <2>1. PICK j \in 1..b : i = a + j
    BY <1>6, <1>7
  <2>2. t[i] = items[j]
    BY <1>5, <2>1
  <2>3. QED
    BY <1>3, <2>2
<1>8. \A i \in 1..a : t[i].of \in 1..n /\ t[i].of \in Nat /\ t[i].of <= n
  BY <1>1, <1>5 DEF PaintedFrom
<1>9. ASSUME NEW i \in 1..(a + b) PROVE t[i].of \in 1..(n + 1)
  <2>1. CASE i \in 1..a
    BY <1>8, <2>1
  <2>2. CASE i \notin 1..a
    <3>1. t[i].of = n + 1
      BY <1>7, <2>2
    <3>2. QED
      BY <3>1
  <2>3. QED
    BY <2>1, <2>2
<1>10. ASSUME NEW i \in 1..(a + b), NEW j \in 1..(a + b), i < j PROVE t[i].of <= t[j].of
  <2>1. CASE j \in 1..a
    <3>1. i \in 1..a
      BY <1>10, <2>1
    <3>2. QED
      BY <1>1, <1>5, <1>10, <2>1, <3>1 DEF PaintedFrom
  <2>2. CASE j \notin 1..a
    <3>1. t[j].of = n + 1 /\ t[i].of \in 1..(n + 1)
      BY <1>7, <1>9, <2>2
    <3>2. QED
      BY <3>1
  <2>3. QED
    BY <2>1, <2>2
<1>11. ASSUME NEW e, Contains(painted, e) \/ Contains(items, e) PROVE Contains(t, e)
  <2>1. CASE Contains(painted, e)
    <3>1. PICK i \in 1..a : painted[i] = e
      BY <1>1, <2>1 DEF Contains
    <3>2. i \in 1..(a + b) /\ t[i] = e
      BY <1>5, <3>1
    <3>3. QED
      BY <1>5, <3>2 DEF Contains
  <2>2. CASE Contains(items, e)
    <3>1. PICK i \in 1..b : items[i] = e
      BY <1>1, <2>2 DEF Contains
    <3>2. a + i \in 1..(a + b) /\ t[a + i] = e
      BY <1>5, <3>1
    <3>3. QED
      BY <1>5, <3>2 DEF Contains
  <2>3. QED
    BY <1>11, <2>1, <2>2
<1>12. ASSUME NEW k \in 1..(n + 1)
       PROVE  /\ answered[k].kind = "b64" => Contains(t, [kind |-> "image", of |-> k])
              /\ answered[k].revised \/ answered[k].kind = "text" => Contains(t, [kind |-> "text", of |-> k])
  <2>1. CASE k \in 1..n
    BY <1>11, <2>1 DEF PaintedFrom
  <2>2. CASE k = n + 1
    BY <1>11, <2>2
  <2>3. QED
    BY <2>1, <2>2
<1>13. PaintedFrom(t, n + 1)
  BY <1>5, <1>9, <1>10, <1>12 DEF PaintedFrom
<1>14. QED
  BY <1>2, <1>5, <1>13

\* Every step keeps what was read and what was answered together.
LEMMA PaintedStep ==
  ASSUME ImageInv, [ImageNext]_imageVars
  PROVE  Painted'
<1>0. Painted /\ answered \in Seq(AnswerType) /\ painted \in Seq(PaintedType) /\ read \in Nat
  BY DEF ImageInv, Painted
<1>1. ASSUME UNCHANGED <<answered, painted, read>>,
             step' \in {"new", "gathering", "asked"} => step \in {"new", "gathering", "asked"}
      PROVE  Painted'
  BY <1>0, <1>1 DEF Painted, PaintedFrom
<1>2. ASSUME GenerateImage \/ GatherReference \/ PostEdits \/ PaintingFails \/ SendImage \/ ContextDone \/ UNCHANGED imageVars
      PROVE  Painted'
  <2>1. UNCHANGED <<answered, painted, read>>
    BY <1>2 DEF GenerateImage, GatherReference, PostEdits, PaintingFails, SendImage, ContextDone, imageVars
  <2>2. step' \in {"new", "gathering", "asked"} => step \in {"new", "gathering", "asked"}
    BY <1>2 DEF GenerateImage, GatherReference, PostEdits, PaintingFails, SendImage, ContextDone, End, imageVars
  <2>3. QED
    BY <1>1, <2>1, <2>2
<1>3. ASSUME PaintingArrives PROVE Painted'
  <2>1. step' = "reading" /\ painted' = <<>> /\ read' = 0
    BY <1>0, <1>3 DEF PaintingArrives, Painted
  <2>2. PICK n \in 0..MaxItems : answered' \in [1..n -> UpstreamItems]
    BY <1>3 DEF PaintingArrives
  <2>3. n \in Nat
    BY <2>2, MaxItemsAssumption
  <2>4. UpstreamItems \subseteq AnswerType
    BY DEF UpstreamItems, GeminiItems, OpenAIItems, AnswerType
  <2>5. answered' \in Seq(AnswerType) /\ Len(answered') = n
    BY <2>2, <2>3, <2>4
  <2>6. painted' \in Seq(PaintedType) /\ Len(painted') = 0
    BY <2>1, EmptySeq
  <2>7. PaintedFrom(painted, read)'
    BY <2>1, <2>6 DEF PaintedFrom
  <2>8. QED
    BY <2>1, <2>3, <2>5, <2>6, <2>7 DEF Painted
<1>4. ASSUME ReadItem PROVE Painted'
  <2>1. answered' = answered /\ step = "reading" /\ read < Len(answered) /\ read + 1 \in 1..Len(answered)
    BY <1>0, <1>4 DEF ReadItem
  <2>2. PICK item \in AnswerType : item = answered[read + 1]
    BY <1>0, <2>1
  <2>3. ASSUME NEW why, Fail(why) PROVE Painted'
    BY <1>1, <2>1, <2>3 DEF Fail, End
  <2>4. ASSUME NEW it \in AnswerType, it.kind # "garbled", Take(ImageItems(it, read + 1)),
               item.kind = "b64" => it.kind = "b64",
               item.revised \/ item.kind = "text" => it.revised \/ it.kind = "text"
        PROVE  Painted'
    <3>1. PICK items : items = ImageItems(it, read + 1)
      OBVIOUS
    <3>2. /\ items \in Seq(PaintedAt(read + 1))
          /\ item.kind = "b64" => Contains(items, [kind |-> "image", of |-> read + 1])
          /\ item.revised \/ item.kind = "text" => Contains(items, [kind |-> "text", of |-> read + 1])
      <4>1. read + 1 \in Nat
        BY <1>0
      <4>2. /\ ImageItems(it, read + 1) \in Seq(PaintedAt(read + 1))
            /\ it.kind \in {"b64", "url"} => Contains(ImageItems(it, read + 1), [kind |-> "image", of |-> read + 1])
            /\ it.revised \/ it.kind = "text" => Contains(ImageItems(it, read + 1), [kind |-> "text", of |-> read + 1])
        BY <2>4, <4>1, ImageItemsAre
      <4>3. QED
        BY <2>4, <3>1, <4>2
    <3>3. painted' = painted \o items /\ read' = read + 1 /\ step' = step
      BY <2>4, <3>1 DEF Take
    <3>4. PaintedFrom(painted, read)
      BY <1>0 DEF Painted
    <3>5. painted \o items \in Seq(PaintedType) /\ PaintedFrom(painted \o items, read + 1)
      BY <1>0, <2>1, <2>2, <3>2, <3>4, PaintMore
    <3>6. PaintedFrom(painted, read)'
      BY <2>1, <3>3, <3>5 DEF PaintedFrom
    <3>7. read' \in Nat /\ read' <= Len(answered')
      BY <1>0, <2>1, <3>3
    <3>8. answered' \in Seq(AnswerType) /\ painted' \in Seq(PaintedType)
      BY <1>0, <2>1, <3>3, <3>5
    <3>9. step' = "reading"
      BY <2>1, <3>3
    <3>10. QED
      BY <3>6, <3>7, <3>8, <3>9 DEF Painted
  <2>5. \/ \E why : Fail(why)
        \/ item.kind # "garbled" /\ Take(ImageItems(item, read + 1))
        \/ item.kind = "url" /\ Take(ImageItems([item EXCEPT !.kind = "nothing"], read + 1))
    BY <1>4, <2>2 DEF ReadItem
  <2>6. CASE item.kind = "url" /\ Take(ImageItems([item EXCEPT !.kind = "nothing"], read + 1))
    <3>1. PICK it \in AnswerType : it = [item EXCEPT !.kind = "nothing"]
      BY <2>2 DEF AnswerType
    <3>2. it.kind = "nothing" /\ it.revised = item.revised
      BY <3>1 DEF AnswerType
    <3>3. QED
      BY <2>4, <2>6, <3>1, <3>2
  <2>7. QED
    BY <2>3, <2>4, <2>5, <2>6
<1>5. QED
  BY <1>2, <1>3, <1>4 DEF ImageNext

\* Every step keeps what the client was shown and what was read together.
LEMMA ShownStep ==
  ASSUME ImageInv, [ImageNext]_imageVars
  PROVE  Shown'
<1>0. Shown /\ Posted
  BY DEF ImageInv
<1>1. ASSUME step # "ended", shown' = shown, verdict' = "none" PROVE Shown'
  BY <1>0, <1>1 DEF Shown
<1>2. ASSUME NEW why, End(why), step # "ended", shown' = shown, why # "ok",
             why = "INVALID_ARGUMENT" => posted' = <<>>
      PROVE  Shown'
  BY <1>0, <1>2 DEF Shown, End
<1>3. ASSUME GenerateImage PROVE Shown'
  <2>1. step = "new" /\ posted = <<>> /\ shown' = shown /\ verdict = "none"
    BY <1>0, <1>3 DEF GenerateImage, Posted, Shown
  <2>2. CASE Invalid(asking)
    <3>1. End("INVALID_ARGUMENT") /\ posted' = <<>>
      BY <1>3, <2>1, <2>2 DEF GenerateImage
    <3>2. QED
      BY <1>2, <2>1, <3>1
  <2>3. CASE ~Invalid(asking)
    <3>1. verdict' = verdict
      BY <1>3, <2>3 DEF GenerateImage, PostTo
    <3>2. QED
      BY <1>1, <2>1, <3>1
  <2>4. QED
    BY <2>2, <2>3
<1>4. ASSUME GatherReference PROVE Shown'
  <2>1. step = "gathering" /\ posted' = <<>> /\ shown' = shown /\ verdict = "none"
    BY <1>0, <1>4 DEF GatherReference, Posted, Shown
  <2>2. verdict' = verdict \/ \E fetch : End(ReferenceError(fetch))
    BY <1>4 DEF GatherReference
  <2>3. \A fetch : ReferenceError(fetch) # "ok"
    BY DEF ReferenceError
  <2>4. QED
    BY <1>1, <1>2, <2>1, <2>2, <2>3
<1>5. ASSUME PostEdits \/ PaintingArrives PROVE Shown'
  <2>1. step # "ended" /\ shown' = shown /\ verdict' = verdict
    BY <1>5 DEF PostEdits, PostTo, PaintingArrives
  <2>2. QED
    BY <1>0, <1>1, <2>1 DEF Shown
<1>6. ASSUME PaintingFails \/ ContextDone PROVE Shown'
  <2>1. step # "ended" /\ shown' = shown
    BY <1>6 DEF PaintingFails, ContextDone
  <2>2. \E why \in {"STATUS", "UNAVAILABLE", "INVALID_RESPONSE", "cancelled"} : End(why)
    BY <1>6 DEF PaintingFails, ContextDone
  <2>3. QED
    BY <1>2, <2>1, <2>2
<1>7. ASSUME ReadItem PROVE Shown'
  <2>1. step # "ended" /\ shown' = shown /\ verdict = "none"
    BY <1>0, <1>7 DEF ReadItem, Shown
  <2>2. \/ \E items : Take(items)
        \/ \E why \in {"STATUS", "UNAVAILABLE", "INVALID_RESPONSE"} : Fail(why)
    BY <1>7 DEF ReadItem
  <2>3. QED
    BY <1>1, <1>2, <2>1, <2>2 DEF Take, Fail
<1>8. ASSUME SendImage PROVE Shown'
  <2>1. /\ step = "reading" /\ read = Len(answered) /\ UNCHANGED <<answered, blocked, painted, read>>
        /\ shown = <<>>
    BY <1>0, <1>8 DEF SendImage, Shown
  <2>2. CASE End("INVALID_RESPONSE") \/ End("lost")
    <3>1. CASE shown' = shown
      BY <1>2, <2>1, <2>2, <3>1
    <3>2. CASE shown' # shown
      BY <1>8, <2>2, <3>2 DEF SendImage, End
    <3>3. QED
      BY <3>1, <3>2
  <2>3. CASE ValidImageEvent /\ End("ok") /\ shown' = Append(shown, [seq |-> 0, final |-> TRUE, items |-> painted])
    <3>1. \A e : Append(<<>>, e) = <<e>>
      OBVIOUS
    <3>2. shown' = <<[seq |-> 0, final |-> TRUE, items |-> painted']>>
      BY <2>1, <2>3, <3>1
    <3>3. ValidImageEvent'
      BY <2>1, <2>3 DEF ValidImageEvent
    <3>4. step' = "ended" /\ verdict' = "ok" /\ shown' # <<>>
      BY <2>3, <3>2 DEF End
    <3>5. QED
      BY <2>1, <3>2, <3>3, <3>4 DEF Shown
  <2>4. QED
    BY <1>8, <2>2, <2>3 DEF SendImage
<1>9. ASSUME UNCHANGED imageVars PROVE Shown'
  BY <1>0, <1>9 DEF imageVars, Shown, ValidImageEvent
<1>10. QED
  BY <1>3, <1>4, <1>5, <1>6, <1>7, <1>8, <1>9 DEF ImageNext

\* The inductive invariant of an image call, which the theorem after it rests on.
THEOREM ImageInvariant == ImageSpec => []ImageInv
<1>1. ImageInit => ImageInv
  BY ImageStarts
<1>2. ImageInv /\ [ImageNext]_imageVars => ImageInv'
  <2> SUFFICES ASSUME ImageInv, [ImageNext]_imageVars PROVE ImageInv'
    OBVIOUS
  <2>1. asking'.parts \in Seq(ImagePart)
    BY GatheredStep DEF ImageInv
  <2>2. QED
    BY <2>1, GatheredStep, PostedStep, PaintedStep, ShownStep DEF ImageInv
<1>3. QED
  BY <1>1, <1>2, PTL DEF ImageSpec

\* The tags of a sequence are a sequence.
LEMMA TagsOf ==
  ASSUME NEW T, NEW s, NEW n \in Nat, DOMAIN s = 1..n, \A i \in 1..n : s[i].tag \in T,
         NEW tags, tags = [i \in DOMAIN s |-> s[i].tag]
  PROVE  tags \in Seq(T) /\ Len(tags) = n /\ \A i \in 1..n : tags[i] = s[i].tag
<1>1. DOMAIN tags = 1..n /\ (\A i \in 1..n : tags[i] \in T) /\ tags = [i \in 1..n |-> tags[i]]
  OBVIOUS
<1>2. tags \in Seq(T) /\ Len(tags) = n
  BY <1>1, SequenceOf
<1>3. QED
  BY <1>2

\* The invariant means what ImageArrives says.
LEMMA ImageInvMeans ==
  ASSUME ImageInv
  PROVE  ImageArrives
<1>0. asking.parts \in Seq(ImagePart) /\ Gathered /\ Posted /\ Painted /\ Shown
  BY DEF ImageInv
<1>1. PICK prompt \in Seq(ImagePart), refs \in Seq(ImagePart) : prompt = Prompt(asking) /\ refs = Refs(asking)
  BY <1>0, PromptAndRefs
<1>2. PICK p \in Nat, r \in Nat : p = Len(prompt) /\ r = Len(refs)
  BY <1>1
<1>3. gathered \in Seq(FileType) /\ \A i \in 1..Len(gathered) : gathered[i].tag = refs[i].tag
  BY <1>0, <1>1 DEF Gathered
<1>4. ASSUME posted # <<>>
      PROVE  \E post : /\ posted = <<post>>
                       /\ asking.model # Gemini =>
                            PostedTags(post) = [i \in DOMAIN prompt |-> prompt[i].tag]
                                                 \o [i \in DOMAIN refs |-> refs[i].tag]
                       /\ post.endpoint = "edits" => \A i \in DOMAIN refs : post.content[p + i].image
                       /\ asking.model = Flux2Klein9B => post.b64
  <2>1. CASE asking.model = Gemini
    <3>1. PICK content : posted = <<Post("generateContent", content)>>
      BY <1>0, <1>4, <2>1 DEF Posted
    <3>2. Post("generateContent", content).endpoint = "generateContent" /\ Gemini # Flux2Klein9B
      BY DEF Post, Gemini, Flux2Klein9B
    <3>3. QED
      BY <2>1, <3>1, <3>2
  <2>2. CASE asking.model \notin {Gemini, Flux2Klein9B} /\ refs = <<>> /\ posted = <<Post("generations", prompt)>>
    <3>1. PICK post : post = Post("generations", prompt)
      OBVIOUS
    <3>2. post.endpoint = "generations" /\ post.content = prompt
      BY <3>1 DEF Post
    <3>3. PICK tags : tags = [i \in DOMAIN prompt |-> prompt[i].tag]
      OBVIOUS
    <3>4. tags \in Seq(STRING)
      <4>1. DOMAIN prompt = 1..p /\ \A i \in 1..p : prompt[i] \in ImagePart
        BY <1>1, <1>2
      <4>2. DOMAIN tags = 1..p /\ (\A i \in 1..p : tags[i] \in STRING) /\ tags = [i \in 1..p |-> tags[i]]
        BY <3>3, <4>1 DEF ImagePart
      <4>3. QED
        BY <4>2, SequenceOf
    <3>5. [i \in DOMAIN refs |-> refs[i].tag] = <<>>
      BY <2>2
    <3>6. PostedTags(post) = tags \o <<>>
      BY <3>2, <3>3, <3>4 DEF PostedTags
    <3>7. PostedTags(post) = [i \in DOMAIN prompt |-> prompt[i].tag] \o [i \in DOMAIN refs |-> refs[i].tag]
      BY <3>3, <3>5, <3>6
    <3>8. QED
      BY <2>2, <3>1, <3>2, <3>7
  <2>3. CASE asking.model # Gemini /\ Len(gathered) = r /\ posted = <<Post("edits", prompt \o gathered)>>
    <3>1. PICK post : post = Post("edits", prompt \o gathered)
      OBVIOUS
    <3>2. post.endpoint = "edits" /\ post.content = prompt \o gathered
          /\ post.b64 = (asking.model = Flux2Klein9B)
      BY <3>1 DEF Post
    <3>3. PICK content : content = prompt \o gathered
      OBVIOUS
    <3>4. /\ DOMAIN content = 1..(p + r)
          /\ \A i \in 1..p : content[i] = prompt[i]
          /\ \A i \in 1..r : content[p + i] = gathered[i]
      <4>1. PICK X : X = ImagePart \union FileType
        OBVIOUS
      <4>2. prompt \in Seq(X) /\ gathered \in Seq(X)
        BY <1>1, <1>3, <4>1, SeqMonotonic
      <4>3. /\ DOMAIN (prompt \o gathered) = 1..(Len(prompt) + Len(gathered))
            /\ \A i \in 1..Len(prompt) : (prompt \o gathered)[i] = prompt[i]
            /\ \A i \in 1..Len(gathered) : (prompt \o gathered)[Len(prompt) + i] = gathered[i]
        BY <4>2, ConcatIs
      <4>4. QED
        BY <4>3, <3>3, <1>2, <2>3
    <3>5. \A i \in 1..r : gathered[i].image /\ gathered[i].tag = refs[i].tag
      <4>1. \A i \in 1..r : gathered[i] \in FileType
        BY <1>2, <1>3, <2>3
      <4>2. QED
        BY <4>1, <1>2, <1>3, <2>3 DEF FileType
    <3>6. \A i \in DOMAIN refs : content[p + i].image
      <4>1. DOMAIN refs = 1..r
        BY <1>1, <1>2
      <4>2. QED
        BY <3>4, <3>5, <4>1
    <3>7. PICK ptags, rtags : ptags = [i \in DOMAIN prompt |-> prompt[i].tag] /\ rtags = [i \in DOMAIN refs |-> refs[i].tag]
      OBVIOUS
    <3>8. /\ ptags \in Seq(STRING) /\ Len(ptags) = p /\ \A i \in 1..p : ptags[i] = prompt[i].tag
          /\ rtags \in Seq(STRING) /\ Len(rtags) = r /\ \A i \in 1..r : rtags[i] = refs[i].tag
      <4>1. /\ DOMAIN prompt = 1..p /\ \A i \in 1..p : prompt[i] \in ImagePart
            /\ DOMAIN refs = 1..r /\ \A i \in 1..r : refs[i] \in ImagePart
        BY <1>1, <1>2
      <4>2. \A i \in 1..p : prompt[i].tag \in STRING
        BY <4>1 DEF ImagePart
      <4>3. \A i \in 1..r : refs[i].tag \in STRING
        BY <4>1 DEF ImagePart
      <4>4. ptags \in Seq(STRING) /\ Len(ptags) = p /\ \A i \in 1..p : ptags[i] = prompt[i].tag
        BY <3>7, <4>1, <4>2, TagsOf
      <4>5. rtags \in Seq(STRING) /\ Len(rtags) = r /\ \A i \in 1..r : rtags[i] = refs[i].tag
        BY <3>7, <4>1, <4>3, TagsOf
      <4>6. QED
        BY <4>4, <4>5
    <3>9. PICK tags : tags = [i \in DOMAIN content |-> content[i].tag]
      OBVIOUS
    <3>10. tags = ptags \o rtags
      <4>1. PICK both : both = ptags \o rtags
        OBVIOUS
      <4>2. /\ both = [i \in 1..(p + r) |-> both[i]]
            /\ \A i \in 1..p : both[i] = ptags[i]
            /\ \A i \in 1..r : both[p + i] = rtags[i]
        <5>1. ptags \in Seq(STRING) /\ rtags \in Seq(STRING)
          BY <3>8
        <5>2. /\ ptags \o rtags = [i \in 1..(Len(ptags) + Len(rtags)) |-> (ptags \o rtags)[i]]
              /\ \A i \in 1..Len(ptags) : (ptags \o rtags)[i] = ptags[i]
              /\ \A i \in 1..Len(rtags) : (ptags \o rtags)[Len(ptags) + i] = rtags[i]
          BY <5>1, ConcatIs
        <5>3. Len(ptags) = p /\ Len(rtags) = r
          BY <3>8
        <5>4. QED
          BY <5>2, <5>3, <4>1
      <4>3. tags = [i \in 1..(p + r) |-> tags[i]] /\ \A i \in 1..(p + r) : tags[i] = content[i].tag
        BY <3>4, <3>9
      <4>4. ASSUME NEW i \in 1..(p + r) PROVE tags[i] = both[i]
        <5>1. CASE i \in 1..p
          <6>1. tags[i] = content[i].tag /\ content[i] = prompt[i]
            BY <3>4, <4>3, <5>1
          <6>2. both[i] = ptags[i] /\ ptags[i] = prompt[i].tag
            BY <3>8, <4>2, <5>1
          <6>3. QED
            BY <6>1, <6>2
        <5>2. CASE i \notin 1..p
          <6>1. PICK j \in 1..r : i = p + j
            <7>1. i - p \in 1..r /\ i = p + (i - p)
              BY <5>2
            <7>2. QED
              BY <7>1
          <6>2. tags[i] = content[p + j].tag
            BY <4>3, <6>1
          <6>3. tags[i] = refs[j].tag
            BY <3>4, <3>5, <6>2
          <6>4. QED
            BY <3>8, <4>2, <6>1, <6>3
        <5>3. QED
          BY <5>1, <5>2
      <4>5. QED
        BY <4>1, <4>2, <4>3, <4>4
    <3>11. PostedTags(post) = tags
      BY <3>2, <3>3, <3>9 DEF PostedTags
    <3>12. QED
      BY <2>3, <3>1, <3>2, <3>3, <3>6, <3>7, <3>10, <3>11
  <2>4. QED
    BY <1>0, <1>1, <1>2, <1>4, <2>1, <2>2, <2>3 DEF Posted
<1>5. Len(posted) <= 1
  <2>1. CASE posted = <<>>
    <3>1. Len(posted) = 0
      BY <2>1
    <3>2. QED
      BY <3>1
  <2>2. CASE posted # <<>>
    <3>1. PICK post : posted = <<post>>
      BY <1>4, <2>2
    <3>2. Len(posted) = 1
      BY <3>1
    <3>3. QED
      BY <3>2
  <2>3. QED
    BY <2>1, <2>2
<1>6. \A post \in ToSet(posted) :
         /\ asking.model # Gemini =>
              PostedTags(post) = [i \in DOMAIN Prompt(asking) |-> Prompt(asking)[i].tag]
                                   \o [i \in DOMAIN Refs(asking) |-> Refs(asking)[i].tag]
         /\ post.endpoint = "edits" =>
              \A i \in DOMAIN Refs(asking) : post.content[Len(Prompt(asking)) + i].image
         /\ asking.model = Flux2Klein9B => post.b64
  <2> SUFFICES ASSUME NEW post \in ToSet(posted)
               PROVE  /\ asking.model # Gemini =>
                           PostedTags(post) = [i \in DOMAIN prompt |-> prompt[i].tag]
                                                \o [i \in DOMAIN refs |-> refs[i].tag]
                      /\ post.endpoint = "edits" => \A i \in DOMAIN refs : post.content[p + i].image
                      /\ asking.model = Flux2Klein9B => post.b64
    BY <1>1, <1>2
  <2>1. posted # <<>>
    BY DEF ToSet
  <2>2. \A q : posted = <<q>> => post = q
    BY DEF ToSet
  <2>3. QED
    BY <1>4, <2>1, <2>2
<1>7. ASSUME NEW event \in ToSet(shown)
      PROVE  /\ Len(shown) = 1 /\ event.seq = 0 /\ event.final
             /\ event.items = painted /\ read = Len(answered) /\ ValidImageEvent
  <2>1. shown # <<>>
    BY <1>7 DEF ToSet
  <2>2. PICK e : e = [seq |-> 0, final |-> TRUE, items |-> painted]
    OBVIOUS
  <2>3. shown = <<e>> /\ read = Len(answered) /\ ValidImageEvent
    BY <1>0, <2>1, <2>2 DEF Shown
  <2>4. event = e /\ Len(shown) = 1
    BY <1>7, <2>3 DEF ToSet
  <2>5. QED
    BY <2>2, <2>3, <2>4
<1>8. ASSUME NEW event \in ToSet(shown)
      PROVE  /\ blocked \/ \E i \in DOMAIN event.items : event.items[i].kind \in {"text", "image"}
             /\ \A i, j \in DOMAIN event.items : i < j => event.items[i].of <= event.items[j].of
             /\ \A n \in DOMAIN answered :
                  /\ answered[n].kind = "b64" => Contains(event.items, [kind |-> "image", of |-> n])
                  /\ answered[n].revised \/ answered[n].kind = "text" =>
                       Contains(event.items, [kind |-> "text", of |-> n])
  <2>1. event.items = painted /\ read = Len(answered) /\ ValidImageEvent
    BY <1>7
  <2>2. painted \in Seq(PaintedType) /\ answered \in Seq(AnswerType) /\ PaintedFrom(painted, read)
    BY <1>0 DEF Painted
  <2>3. DOMAIN painted = 1..Len(painted) /\ DOMAIN answered = 1..read
    BY <2>1, <2>2
  <2>4. blocked \/ \E i \in DOMAIN painted : painted[i].kind \in {"text", "image"}
    BY <2>1 DEF ValidImageEvent, Speaks
  <2>5. QED
    BY <2>1, <2>2, <2>3, <2>4 DEF PaintedFrom
<1>9. verdict = "INVALID_ARGUMENT" => posted = <<>>
  BY <1>0 DEF Shown
<1>10. (verdict = "ok") = (shown # <<>>)
  BY <1>0 DEF Shown
<1>11. QED
  BY <1>5, <1>6, <1>7, <1>8, <1>9, <1>10 DEF ImageArrives

\* An image is asked for at most once and with the whole order, and the client gets one
\* event with the whole answer or none: for any order, any number of references and any
\* number of items.
THEOREM ImagesArrive == ImageSpec => []ImageArrives
<1>1. QED
  BY ImageInvariant, ImageInvMeans, PTL

=============================================================================
