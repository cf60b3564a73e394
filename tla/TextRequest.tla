----------------------------- MODULE TextRequest -----------------------------
(***************************************************************************)
(* What a text provider sends upstream for a GenerateRequest.  Each of the *)
(* three families walks Input.items once and writes its own conversation:  *)
(*                                                                         *)
(*   ark     Responses API: one item per message, call and tool output     *)
(*   openai  Chat Completions: an assistant's calls lie in its message     *)
(*   gemini  contents, and the leading system messages in an instruction   *)
(*                                                                         *)
(* A conversation is a sequence of entries [role, units], a unit one text, *)
(* medium, call or tool output.  Texts and media are named by a tag; how   *)
(* they are encoded, and the sampling options, are left out.               *)
(***************************************************************************)
EXTENDS Subsequences, SequencesExt

TextFamilies == {"ark", "openai", "gemini"}

\* A medium of kind "untyped" is an image URI without a MIME type, "file" is an audio
\* or a file part, and "blank" a text of white space only.
Part(kind, tag) == [kind |-> kind, tag |-> tag]
Call(id, name)  == [id |-> id, name |-> name]

Message(role, parts, calls) == [role |-> role, parts |-> parts, calls |-> calls]
Output(id, name, images)    == [role |-> "tool", id |-> id, name |-> name, images |-> images]

Texts == {"text", "blank"}

\* An id or a name that is not given.
NoId == ""

\* A tag is a string; that the literals here are strings too is news to the prover.
Tags == STRING \union {NoId, "said", "blank"}

\* The items of a request are messages and the outputs of tools.
PartType == [kind : Texts \union {"image", "untyped", "video", "file"}, tag : Tags]
CallType == [id : Tags, name : Tags]
ItemType ==
    [role : {"system", "user", "assistant"}, parts : Seq(PartType), calls : Seq(CallType)]
    \union [role : {"tool"}, id : Tags, name : Tags, images : Seq(PartType)]

\* The kinds of part a converter keeps.  An OpenAI message with calls keeps its text, and
\* so does a system message of Gemini, which is an instruction.
Carried(family, item) ==
    CASE family = "ark"    -> Texts \union {"image", "untyped", "video"}
      [] family = "openai" -> Texts \union IF item.role = "assistant" /\ item.calls # <<>>
                                           THEN {} ELSE {"image", "untyped"}
      [] family = "gemini" -> Texts \union IF item.role = "system" THEN {} ELSE {"image", "video", "file"}

Parts(family, item) == OfKind(item.parts, Carried(family, item))

\* A mutant of the operator after it: the id as the client gave it.
CallIdAsGiven(family, call) == call.id

\* The id a call goes by upstream.
CallId(family, call) == IF family # "openai" /\ call.id = NoId THEN call.name ELSE call.id

CallUnits(family, item) ==
    IF item.role # "assistant" THEN <<>>
    ELSE [i \in DOMAIN item.calls |->
              [kind |-> "call", tag |-> CallId(family, item.calls[i]), name |-> item.calls[i].name]]

\* Gemini knows a function response by the function's name.
OutputUnit(family, item) ==
    [kind |-> "output",
     tag  |-> IF family = "gemini" /\ item.name # NoId THEN item.name ELSE item.id]

Entry(role, units) == <<[role |-> role, units |-> units]>>
EntryUnlessEmpty(role, units) == IF units = <<>> THEN <<>> ELSE Entry(role, units)

-----------------------------------------------------------------------------
(* The converters.                                                         *)

ArkItem(item) ==
    IF item.role = "tool"
    THEN Entry("tool", <<OutputUnit("ark", item)>>) \o EntryUnlessEmpty("user", item.images)
    ELSE EntryUnlessEmpty(item.role, Parts("ark", item))
         \o [i \in DOMAIN CallUnits("ark", item) |->
                 [role |-> "assistant", units |-> <<CallUnits("ark", item)[i]>>]]

OpenAIItem(item) ==
    IF item.role = "tool"
    THEN Entry("tool", <<OutputUnit("openai", item)>>)
         \o [i \in DOMAIN item.images |-> [role |-> "user", units |-> <<item.images[i]>>]]
    ELSE Entry(item.role, Parts("openai", item) \o CallUnits("openai", item))

GeminiItem(item) ==
    CASE item.role = "system" -> <<>>
      [] item.role = "tool"   -> Entry("tool", <<OutputUnit("gemini", item)>>)
                                 \o EntryUnlessEmpty("user", item.images)
      [] OTHER -> EntryUnlessEmpty(item.role, Parts("gemini", item) \o CallUnits("gemini", item))

Converted(family, item) ==
    CASE family = "ark"    -> ArkItem(item)
      [] family = "openai" -> OpenAIItem(item)
      [] family = "gemini" -> GeminiItem(item)

\* The texts of the leading system messages, each unless it is white space.
LeadingSystem(items) ==
    LET first == SelectInSeq(items, LAMBDA item : item.role # "system")
        lead  == IF first = 0 THEN items ELSE SubSeq(items, 1, first - 1)
        texts == [i \in DOMAIN lead |-> OfKind(lead[i].parts, Texts)]
    IN  FlattenSeq(Within(texts, {ps \in ToSet(texts) : \E i \in DOMAIN ps : ps[i].kind = "text"}))

-----------------------------------------------------------------------------
(* The request.  `tools' is "none", "named" or "nameless" (no tool has a   *)
(* usable name), `resumes' a previous_response_id, `cached' a              *)
(* cached_content, `caching' the caller's switch.                          *)

RequestType ==
    [items : Seq(ItemType), streaming : BOOLEAN, tools : {"none", "named", "nameless"},
     resumes : BOOLEAN, cached : BOOLEAN, caching : {"omitted", "on", "off"}]

\* The output of a tool names the call it answers, by its function if the call has no id.
Answering(output, call) ==
    output.name = call.name /\ output.id = IF call.id = NoId THEN call.name ELSE call.id

\* Every output answers a call of an assistant before it.
Coherent(items) ==
    \A i \in DOMAIN items : items[i].role = "tool" =>
        \E j \in 1..(i - 1) :
            /\ items[j].role = "assistant"
            /\ \E c \in ToSet(items[j].calls) : c.name # NoId /\ Answering(items[i], c)

Media(item) == IF item.role = "tool" THEN item.images ELSE item.parts

\* buildRequest and validateGeminiGenerateInput refuse these before anything is sent.
Unsendable(family, request) ==
    \/ family = "ark" /\ ~request.resumes /\ request.tools = "nameless"
    \/ family = "gemini" /\ \E i \in DOMAIN request.items :
           \E p \in ToSet(Media(request.items[i])) : p.kind = "untyped"

SendsTools(family, request) ==
    CASE family = "ark"    -> ~request.resumes /\ request.tools # "none"
      [] family = "openai" -> request.tools # "none"
      [] family = "gemini" -> ~request.cached /\ request.tools = "named"

\* What generateText calls the request's use of the cache.  An Ark endpoint caches by
\* itself and refuses the switch.
CachingMode(bound, request) ==
    CASE bound                          -> "implicit_automatic"
      [] ~bound /\ request.caching = "omitted" -> "default_enabled"
      [] ~bound /\ request.caching = "on"      -> "explicit_enabled"
      [] ~bound /\ request.caching = "off"     -> "explicit_disabled"

\* Whether the upstream is asked to cache: by Ark's field, or DashScope's mark on the text
\* of the first system message.  Gemini caches unasked.
AsksToCache(family, bound, request) ==
    /\ ~bound /\ request.caching # "off"
    /\ \/ family = "ark"
       \/ family = "openai" /\ LET first == SelectInSeq(request.items, LAMBDA item : item.role = "system")
                               IN  first # 0 /\ \E p \in ToSet(request.items[first].parts) : p.kind = "text"

Upstream(family, bound, request) ==
    [system  |-> IF family = "gemini" /\ ~request.cached THEN LeadingSystem(request.items) ELSE <<>>,
     entries |-> FlattenSeq([i \in DOMAIN request.items |-> Converted(family, request.items[i])]),
     tools   |-> SendsTools(family, request),
     caches  |-> AsksToCache(family, bound, request),
     resumes |-> family = "ark" /\ request.resumes]
=============================================================================
