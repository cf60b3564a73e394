----------------------------- MODULE TextStream -----------------------------
(***************************************************************************)
(* A client's conversation with a text model: Generate(text), streamed or  *)
(* not, over the ark, openai and gemini providers, and the follow-up in    *)
(* which the client sends the outputs of the tools the model called.       *)
(*                                                                         *)
(* GenerateStream reads the upstream's chunks and hands each delta to the  *)
(* service's emit; the service numbers and sends it, and after the last    *)
(* one sends the single final event.  Beside it runs the accounting of     *)
(* llmmetric, of which every request makes an entry.  The follow-up either *)
(* repeats the conversation or, on Ark, names the response it continues.   *)
(***************************************************************************)
EXTENDS TextRequest, FiniteSets

CONSTANTS
    Prompts,    \* the requests a conversation may open with
    Calls,      \* the tool calls a model may make
    MaxChunks,  \* bound: chunks of an answer
    MaxRounds   \* bound: requests of a conversation

ASSUME BoundsAssumption == MaxChunks \in Nat /\ MaxRounds \in Nat

ASSUME PromptsAssumption == Prompts \subseteq RequestType /\ Calls \subseteq CallType

\* A call names its function; and a conversation opens with all that was said: it continues
\* no response, and its tool outputs are of calls it has.
ASSUME OpeningAssumption ==
    /\ \A c \in Calls : c.name # NoId
    /\ \A r \in Prompts : ~r.resumes /\ Coherent(r.items)

VARIABLES
    family,     \* the provider, with
    bound,      \* whether it is an Ark bound to an endpoint
    round,      \* requests made
    request,    \* the GenerateRequest, with `streaming' for OutputSpec.stream
    sent,       \* the requests the upstream got for it
    held,       \* the calls in the response this one continues, as the upstream has them
    told,       \* the chunks it answered with
    phase,      \* "asked" until the upstream answers, then "reading", "closing" when
                \* GenerateStream or Generate has returned an event, "ended"
    outbox,     \* deltas not yet handed to emit; without stream, what the final event says
    emitted,    \* emittedCalls of the Ark provider
    sequence,   \* number of the next event
    usage,      \* the usage to report
    named,      \* the response id is known
    events,     \* what the client received
    result,     \* "none", "ok", "cancelled" or "failed"
    metric      \* this request's entries in llmmetric

turn   == <<family, bound, round, request, sent, held>>
stream == <<told, outbox, emitted, sequence, usage, named, events>>
vars   == <<turn, stream, phase, result, metric>>

Text(tag)     == [kind |-> "text", tag |-> tag]
Blank         == [kind |-> "blank", tag |-> "blank"]
\* convertFunctionCall: a call that Gemini gives no id goes by its name.
ToolCall(c)   == [kind |-> "call", tag |-> IF c.id = NoId THEN c.name ELSE c.id, name |-> c.name]
\* The later fragments of a call an OpenAI-compatible upstream sends in pieces.
Fragments     == IF family = "openai" THEN {[kind |-> "fragment", tag |-> NoId]} ELSE {}

\* The calls a model may make; Ark and OpenAI give each an id.
ToolCalls == {ToolCall(c) : c \in {d \in Calls : family # "gemini" => d.id # NoId}}

Deltas == {Text("said"), Blank} \union ToolCalls

Payloads == {<<>>} \union {<<d>> : d \in Deltas} \union {<<Text("said"), c>> : c \in ToolCalls}

\* A report tells of no cached tokens, or of some.
NoUsage == 0
Uncached == 1
Cached == 2
UsageReports == {NoUsage, Uncached, Cached}

\* Any of these pieces with any of these reports.
Told(pieces, reports, isNamed, hasChoices) ==
    [pieces : pieces, usage : reports, named : {isNamed}, choices : {hasChoices}]

\* What an upstream may stream.  Ark: a delta, or the completed response with id and
\* usage, which is the last; any other event carries nothing.  OpenAI: text and calls of a choice, perhaps
\* usage.  Gemini: the parts of the candidates, perhaps usage.
Chunks ==
    IF family = "ark"
    THEN Told({<<>>} \union {<<d>> : d \in Deltas}, {NoUsage}, FALSE, TRUE)
         \union Told({<<>>}, UsageReports, TRUE, TRUE)
    ELSE Told(Payloads \union {<<f>> : f \in Fragments}, UsageReports, TRUE, TRUE)

\* A whole answer at once; one of OpenAI may be without choices.
Documents ==
    Told(Payloads, UsageReports, TRUE, TRUE)
    \union IF family = "openai" THEN Told({<<>>}, UsageReports, TRUE, FALSE) ELSE {}

-----------------------------------------------------------------------------
(* Accounting.                                                             *)

NoMetric == [requests |-> 0, terminals |-> <<>>, ttft |-> 0, reports |-> <<>>]

ClassifyCache(mode, u) ==
    CASE u = Cached                                -> "hit"
      [] u # Cached /\ mode = "explicit_disabled"  -> "disabled"
      [] u = Uncached /\ mode # "explicit_disabled" -> "miss"
      [] u = NoUsage /\ mode # "explicit_disabled" -> "unknown"

IsFirstModelOutput(delta) == delta.kind \in {"text", "call"}

\* The deferred RecordTerminal, on every way out.
Close(m, outcome) == [m EXCEPT !.terminals = Append(@, outcome)]

Outcome(status) == IF status = "ok" THEN "succeeded" ELSE status

\* The call returns.  A failed stream.Send reports a cancelled client, or a lost connection.
Return(status, m) ==
    /\ phase' = "ended" /\ result' = status
    /\ metric' = Close(m, Outcome(status))

Errors == {"cancelled", "failed"}

-----------------------------------------------------------------------------
(* The request.                                                            *)

ToldPieces == UNION {ToSet(told[i].pieces) : i \in DOMAIN told}

\* generateText up to the provider's request: counted, and sent unless it cannot be built.
Generate(r) ==
    /\ round' = round + 1 /\ request' = r
    /\ told' = <<>> /\ outbox' = <<>> /\ emitted' = {} /\ sequence' = 0
    /\ usage' = NoUsage /\ named' = FALSE /\ events' = <<>>
    /\ held' = IF r.resumes THEN {p.tag : p \in {q \in ToldPieces : q.kind = "call"}} ELSE {}
    /\ UNCHANGED <<family, bound>>
    /\ IF Unsendable(family, r)
       THEN /\ sent' = <<>> /\ phase' = "ended" /\ result' = "failed"
            /\ metric' = Close([NoMetric EXCEPT !.requests = 1], "failed")
       ELSE /\ sent' = <<Upstream(family, bound, r)>> /\ phase' = "asked" /\ result' = "none"
            /\ metric' = [NoMetric EXCEPT !.requests = 1]

Open == phase = "new" /\ Generate(request)

Got == FlattenSeq([i \in DOMAIN events |-> events[i].items])

Said == OfKind(Got, Texts \union {"call"})

CallsSaid == LET calls == OfKind(Said, {"call"})
             IN  [i \in DOMAIN calls |-> Call(calls[i].tag, calls[i].name)]

\* The client answers every call it was told of.
Answers == [i \in DOMAIN CallsSaid |-> Output(CallsSaid[i].id, CallsSaid[i].name, <<>>)]

Answer == Message("assistant", OfKind(Said, Texts), CallsSaid)

\* After a whole answer with calls the client goes on: with everything said so far, or,
\* when the response has an id to name, with the outputs alone.
FollowUp ==
    /\ phase = "ended" /\ result = "ok" /\ round < MaxRounds /\ CallsSaid # <<>>
    /\ \/ Generate([request EXCEPT !.items = @ \o <<Answer>> \o Answers, !.resumes = FALSE])
          /\ ~request.resumes
       \/ family = "ark" /\ named
          /\ Generate([request EXCEPT !.items = Answers, !.resumes = TRUE])

-----------------------------------------------------------------------------
(* The answer.                                                             *)

\* An error before or between the chunks: an HTTP status, a broken body, a chunk that is
\* no JSON, or the context's end.  A time-out of the upstream counts as cancelled too.
UpstreamFails ==
    /\ phase \in {"asked", "reading"} /\ outbox = <<>>
    /\ \E status \in Errors : Return(status, metric)
    /\ UNCHANGED <<turn, stream>>

\* Mutants, here and below, stand before the operator they would replace.
ArkIsNewByName(delta) == delta.kind # "call" \/ \A c \in emitted : c.name # delta.name

\* The deltas a chunk gives rise to.  Ark passes a call on once.
ArkIsNew(delta) == delta.kind # "call" \/ delta \notin emitted

Forwarded(pieces) == IF family = "ark" THEN Within(pieces, {d \in ToSet(pieces) : ArkIsNew(d)}) ELSE pieces

\* Ark takes usage from the completed response, OpenAI from a chunk that has it, Gemini
\* from every response, also one without.
UsageAfter(chunk) ==
    IF family = "openai" /\ chunk.usage = NoUsage THEN usage
    ELSE IF family = "ark" /\ ~chunk.named THEN usage ELSE chunk.usage

\* Ark's last event, which does not count against the bound.
Completed(id) == family = "ark" /\ id

ChunkArrives ==
    /\ phase \in {"asked", "reading"} /\ outbox = <<>> /\ request.streaming
    /\ ~Completed(named)
    /\ \E chunk \in Chunks :
           /\ Len(told) < MaxChunks \/ Completed(chunk.named)
           /\ told' = Append(told, chunk)
           /\ outbox' = Forwarded(chunk.pieces)
           /\ emitted' = emitted \union {p \in ToSet(chunk.pieces) : family = "ark" /\ p.kind = "call"}
           /\ usage' = UsageAfter(chunk)
           /\ named' = (named \/ chunk.named)
    /\ phase' = "reading"
    /\ UNCHANGED <<turn, sequence, events, result, metric>>

Event(n, items, final) == [seq |-> n, items |-> items, final |-> final]

\* emit: the first output is timed before it is sent, and a failed Send ends the call
\* with its own error whatever the provider makes of it.
Emit ==
    /\ phase = "reading" /\ outbox # <<>>
    /\ LET timed == [metric EXCEPT !.ttft =
                        IF @ = 0 /\ IsFirstModelOutput(Head(outbox)) THEN sequence + 1 ELSE @]
       IN  \/ /\ events' = Append(events, Event(sequence, <<Head(outbox)>>, FALSE))
              /\ outbox' = Tail(outbox) /\ sequence' = sequence + 1
              /\ metric' = timed /\ UNCHANGED <<phase, result>>
           \/ /\ \E status \in Errors : Return(status, timed)
              /\ outbox' = <<>> /\ UNCHANGED <<events, sequence>>
    /\ UNCHANGED <<turn, told, emitted, usage, named>>

Mode == CachingMode(bound, request)

\* RecordUsageAndCache.
Reported(m, u) == [m EXCEPT !.reports = Append(@, [usage |-> u, cache |-> ClassifyCache(Mode, u)])]

\* Counting is left to what follows the final Send.
StreamEndsUncounted ==
    /\ phase \in {"asked", "reading"} /\ outbox = <<>> /\ request.streaming
    /\ phase' = "closing" /\ UNCHANGED <<turn, stream, result, metric>>

\* The end of the stream, by [DONE] or by the end of the body, whether or not the answer
\* was complete: the provider returns its metadata, and the service counts the usage.
StreamEnds ==
    /\ phase \in {"asked", "reading"} /\ outbox = <<>> /\ request.streaming
    /\ phase' = "closing" /\ metric' = Reported(metric, usage)
    /\ UNCHANGED <<turn, stream, result>>

\* Generate without stream.  An OpenAI answer without choices is taken for an empty one,
\* whatever its id and usage.
DocumentArrives ==
    /\ phase = "asked" /\ ~request.streaming
    /\ \E doc \in Documents :
           /\ told' = <<doc>> /\ outbox' = doc.pieces
           /\ usage' = IF doc.choices THEN doc.usage ELSE NoUsage
           /\ named' = doc.choices
           /\ metric' = Reported(metric, usage')
    /\ phase' = "closing"
    /\ UNCHANGED <<turn, emitted, sequence, events, result>>

\* The one final event: metadata after a stream, else the whole answer.
SendFinal ==
    /\ phase = "closing"
    /\ \/ Return("ok", metric) /\ events' = Append(events, Event(sequence, outbox, TRUE))
       \/ (\E status \in Errors : Return(status, metric)) /\ UNCHANGED events
    /\ outbox' = <<>>
    /\ UNCHANGED <<turn, told, emitted, sequence, usage, named>>

-----------------------------------------------------------------------------
Init ==
    /\ family \in TextFamilies /\ bound \in {FALSE, family = "ark"}
    /\ round = 0 /\ sent = <<>> /\ held = {} /\ phase = "new"
    /\ request \in Prompts
    /\ told = <<>> /\ outbox = <<>> /\ emitted = {} /\ sequence = 0
    /\ usage = NoUsage /\ named = FALSE /\ events = <<>>
    /\ result = "none" /\ metric = NoMetric

Next ==
    \/ Open \/ FollowUp \/ UpstreamFails \/ ChunkArrives \/ Emit \/ StreamEnds
    \/ DocumentArrives \/ SendFinal

Spec == Init /\ [][Next]_vars

-----------------------------------------------------------------------------
(* Properties.                                                             *)

\* Every variable holds a value of its kind, and a request in the making is unfinished.
TypeOK ==
    /\ family \in TextFamilies /\ bound \in BOOLEAN /\ round \in 0..MaxRounds
    /\ Len(sent) <= 1 /\ Len(told) <= MaxChunks + 1
    /\ phase \in {"new", "asked", "reading", "closing", "ended"}
    /\ sequence \in 0..2 * MaxChunks /\ usage \in UsageReports /\ named \in BOOLEAN
    /\ result \in {"none", "ok"} \union Errors
    /\ metric.requests \in 0..1 /\ metric.ttft \in 0..2 * MaxChunks
    /\ (result = "none") = (phase # "ended")

\* The units of the upstream's request, each with the role it is said in.
Heard(up) ==
    LET said(entry) == [i \in DOMAIN entry.units |-> <<entry.role, entry.units[i]>>]
    IN  said([role |-> "system", units |-> up.system])
        \o FlattenSeq([i \in DOMAIN up.entries |-> said(up.entries[i])])

\* What the client's items say, one after the other, less what the family cannot carry:
\* of Gemini's system messages only the texts of the leading ones get through.
Leads(i) == \A j \in 1..i : request.items[j].role = "system"

Meant(item) ==
    IF item.role = "tool"
    THEN <<<<"tool", OutputUnit(family, item)>>>> \o [i \in DOMAIN item.images |-> <<"user", item.images[i]>>]
    ELSE LET units == Parts(family, item) \o CallUnits(family, item)
         IN  [i \in DOMAIN units |-> <<item.role, units[i]>>]

Passes(i) ==
    family = "gemini" /\ request.items[i].role = "system" =>
        /\ Leads(i) /\ ~request.cached
        /\ \E p \in ToSet(request.items[i].parts) : p.kind = "text"

\* How a call is known to the output that answers it.
KnownAs(unit) == IF family = "gemini" THEN unit.name ELSE unit.tag

\* Chat Completions gets a call without an id as it is, the others under its name.
Unnamed(unit) == family = "openai" /\ unit.kind = "call" /\ unit.tag = NoId

\* The upstream hears the conversation as the client told it, every unit once, in order
\* and in its role; and each tool output in it answers a call the upstream knows, one
\* said before it or one in the response the request continues.  (The three providers'
\* buildInput, buildContents and buildRequestBody, with convertFunctionCall and the
\* fallback of an empty call id.)
PromptArrives ==
    \A n \in DOMAIN sent :
        LET heard == Heard(sent[n])
        IN  /\ heard = FlattenSeq([i \in DOMAIN request.items |->
                                       IF Passes(i) THEN Meant(request.items[i]) ELSE <<>>])
            /\ \A i \in DOMAIN heard : heard[i][2].kind = "output" =>
                   \/ \E j \in 1..(i - 1) : heard[j][2].kind = "call" /\ KnownAs(heard[j][2]) = heard[i][2].tag
                   \/ sent[n].resumes /\ heard[i][2].tag \in held
                   \/ \E j \in 1..(i - 1) : Unnamed(heard[j][2]) /\ heard[j][2].name = heard[i][2].tag

AllTold == FlattenSeq([i \in DOMAIN told |-> told[i].pieces])

\* The pieces of s less the calls that came before.
Unrepeated(s) ==
    LET repeated(i) == s[i].kind = "call" /\ \E j \in 1..(i - 1) : s[j] = s[i]
        first == Within([i \in DOMAIN s |-> i], {i \in DOMAIN s : ~repeated(i)})
    IN  [i \in DOMAIN first |-> s[first[i]]]

\* The deltas the client should get.  Ark's stream may repeat a call; it arrives once.
Due == IF family = "ark" /\ request.streaming THEN Unrepeated(AllTold) ELSE AllTold

\* The client gets the model's deltas in order, none lost or doubled, in events numbered
\* without a gap; the call succeeds exactly when a final event came, which is the last
\* one and follows the whole answer.  (GenerateStream of the providers, emit and the
\* final Send of generateText.)
AnswerArrives ==
    /\ \A i \in DOMAIN events :
           /\ events[i].seq = i - 1
           /\ events[i].final <=> (i = Len(events) /\ result = "ok")
    /\ IF result = "ok" THEN Got = Due /\ events # <<>> ELSE IsPrefix(Got, Due)

\* The usage the upstream told last; for Gemini that of the last response.  A document
\* without choices is no answer, and its usage does not count.
UsageTold ==
    LET last == SelectLastInSeq(told, LAMBDA c : c.choices /\ (c.usage # NoUsage \/ family = "gemini"))
    IN  IF last = 0 THEN NoUsage ELSE told[last].usage

\* Accounting agrees with what happened: a request ends once, as a success exactly when
\* the client got its final event; the usage of an answer read to its end is counted
\* once even if the client is gone by then, as told, and "disabled" only when the upstream was not
\* asked to cache; the first output is timed if and only if one was sent on, before it.
\* (RecordRequest, RecordTTFT, RecordUsageAndCache and RecordTerminal in generateText.)
Accounted ==
    LET first == SelectInSeq(events, LAMBDA e : ~e.final /\ \E p \in ToSet(e.items) : IsFirstModelOutput(p))
    IN  /\ Len(metric.terminals) = IF phase = "ended" THEN metric.requests ELSE 0
        /\ phase = "ended" => (metric.terminals = <<"succeeded">> <=> result = "ok")
        /\ phase = "closing" \/ result = "ok" => Len(metric.reports) = 1
        /\ \A i \in DOMAIN metric.reports :
               /\ metric.reports[i].usage = UsageTold
               /\ metric.reports[i].cache = "disabled" => ~sent[1].caches
        /\ first # 0 => metric.ttft = first
        /\ first = 0 => metric.ttft \in {0, Len(events) + 1}
=============================================================================
