------------------------------ MODULE ImageCall ------------------------------
(***************************************************************************)
(* Generate(image): one call, one upstream request, one event.  An OpenAI- *)
(* compatible provider takes text to /images/generations and text with     *)
(* references to /images/edits, for which it first gathers the bytes and   *)
(* the MIME type of every reference; what the upstream answers may be      *)
(* bytes or a URL the provider fetches, item by item.  Gemini gets the     *)
(* parts as they are and answers with texts and images.                    *)
(*                                                                         *)
(* Images and texts are named by a tag.  A reference is fetched by URI or  *)
(* comes inline, of whatever type its sender declares.                     *)
(***************************************************************************)
EXTENDS Subsequences, SequencesExt

CONSTANTS
    ImageOrders,  \* the requests: model, parts, and the size wished for
    MaxItems      \* bound: items of an answer

ASSUME MaxItemsAssumption == MaxItems \in Nat

\* A reference comes inline, or by URI with a MIME type or without one.
ImagePart == [kind : {"text", "blank", "image"}, tag : STRING, source : {"inline", "typed", "untyped"}]

ASSUME ImageOrdersAssumption == \A o \in ImageOrders : o.parts \in Seq(ImagePart)

VARIABLES
    asking,     \* the request
    step,       \* "new", "gathering", "asked", "reading", "ended"
    gathered,   \* references in the multipart body so far
    posted,     \* requests the upstream got
    answered,   \* items of the upstream's answer
    blocked,    \* the answer says that safety has blocked it
    painted,    \* items of the event, of which
    read,       \* this many items of the answer have been made
    shown,      \* events the client received
    verdict     \* "none", "ok", or why not

imageVars == <<asking, step, gathered, posted, answered, blocked, painted, read, shown, verdict>>

Flux2Klein9B == "flux.2-klein-9b"
Gemini == "gemini"

\* What a URL, or the upstream's answer to it, may come to.  "typed": bytes with a
\* Content-Type image/*; "plain": image bytes without it.
Fetches == {"typed", "plain", "noImage", "empty", "large", "status", "lost", "noURL"}

Loaded == {"typed", "plain", "noImage"}

\* The tag of blank text, and of a part without bytes or URI.
NoTag == ""

Refs(o)    == OfKind(o.parts, {"image"})
Prompt(o)  == OfKind(o.parts, {"text"})

-----------------------------------------------------------------------------
(* The request.                                                            *)

\* Validation of the provider.  Blank text is no prompt; FLUX edits only; Gemini must
\* be told the type of what it fetches itself.
Invalid(o) ==
    IF o.model = Gemini
    THEN \E i \in DOMAIN o.parts : o.parts[i].kind = "image" /\ o.parts[i].source = "untyped"
    ELSE Prompt(o) = <<>> \/ (o.model = Flux2Klein9B /\ Refs(o) = <<>>)

\* No size is sent.
Unsized == ""

\* A pixel size is taken as it is, a ratio w:h by its shape; no other word is sent.
ImageSize(size) ==
    IF size.pixels # Unsized THEN size.pixels
    ELSE CASE size.w = 0 \/ size.h = 0                -> Unsized
           [] size.w = size.h /\ size.w # 0          -> "1024x1024"
           [] size.w < size.h /\ size.w # 0          -> "1024x1536"
           [] size.w > size.h /\ size.h # 0          -> "1536x1024"

\* FLUX.2 must answer with bytes: the URLs of its workers lead nowhere.
Post(endpoint, content) ==
    [endpoint |-> endpoint, content |-> content,
     size     |-> IF asking.model = Gemini THEN Unsized ELSE ImageSize(asking.size),
     b64      |-> endpoint = "edits" /\ asking.model = Flux2Klein9B]

End(why) == step' = "ended" /\ verdict' = why

PostTo(endpoint, content) ==
    /\ posted' = Append(posted, Post(endpoint, content))
    /\ step' = "asked" /\ UNCHANGED verdict

\* Gemini's parts, in their order; an OpenAI prompt, and references behind it.
GenerateImage ==
    /\ step = "new"
    /\ IF Invalid(asking) THEN End("INVALID_ARGUMENT") /\ UNCHANGED posted
       ELSE IF asking.model = Gemini
         THEN PostTo("generateContent", Within(asking.parts, {p \in ToSet(asking.parts) : p.tag # NoTag}))
       ELSE IF Refs(asking) = <<>> THEN PostTo("generations", Prompt(asking))
       ELSE step' = "gathering" /\ UNCHANGED <<posted, verdict>>
    /\ UNCHANGED <<asking, gathered, answered, blocked, painted, read, shown>>

\* A mutant of the operator after it: what is no image is called one.
SniffedMIME(fetch) == "image"

\* resolveReferenceImageMIME: the Content-Type if it is one of an image, else the bytes'.
ReferenceMIME(fetch) == IF fetch \in {"typed", "plain"} THEN "image" ELSE "other"

\* What a fetch that brings no usable reference ends the call with.
ReferenceError(fetch) ==
    CASE fetch = "status" -> "STATUS"
      [] fetch = "lost"   -> "UNAVAILABLE"
      [] OTHER            -> "INVALID_ARGUMENT"

\* materializeReferenceImage of the next reference, which holds the bytes of its tag.
GatherReference ==
    /\ step = "gathering" /\ Len(gathered) < Len(Refs(asking))
    /\ LET next == Refs(asking)[Len(gathered) + 1] IN
       \/ /\ next.source = "inline"
          /\ gathered' = Append(gathered, [tag |-> next.tag, image |-> TRUE])
          /\ UNCHANGED <<step, verdict>>
       \/ /\ next.source # "inline"
          /\ \E fetch \in Fetches :
               IF fetch \in Loaded /\ ReferenceMIME(fetch) = "image"
               THEN /\ gathered' = Append(gathered, [tag |-> next.tag, image |-> fetch # "noImage"])
                    /\ UNCHANGED <<step, verdict>>
               ELSE End(ReferenceError(fetch)) /\ UNCHANGED gathered
    /\ UNCHANGED <<asking, posted, answered, blocked, painted, read, shown>>

\* doImageEdits, when the last reference is written.
PostEdits ==
    /\ step = "gathering" /\ Len(gathered) = Len(Refs(asking))
    /\ PostTo("edits", Prompt(asking) \o gathered)
    /\ UNCHANGED <<asking, gathered, answered, blocked, painted, read, shown>>

-----------------------------------------------------------------------------
(* The answer.                                                             *)

\* An OpenAI item: bytes, a URL, bytes that are not base64, or none of them; and
\* perhaps the prompt as the upstream revised it.  A Gemini item: a text or an image.
OpenAIItems ==
    [kind : {"b64", "url", "garbled", "nothing", "large"}, revised : BOOLEAN]
GeminiItems ==
    [kind : {"text", "blank", "b64", "untyped", "large"}, revised : {FALSE}]

UpstreamItems == IF asking.model = Gemini THEN GeminiItems ELSE OpenAIItems

\* Neither GeminiItems nor a blocked answer exists for OpenAI.
PaintingArrives ==
    /\ step = "asked"
    /\ \E n \in 0..MaxItems : answered' \in [1..n -> UpstreamItems]
    /\ blocked' \in {FALSE, asking.model = Gemini}
    /\ step' = "reading"
    /\ UNCHANGED <<asking, gathered, posted, painted, read, shown, verdict>>

\* A status other than 200, a lost connection, a body too large or no JSON.
PaintingFails ==
    /\ step = "asked"
    /\ \/ End("STATUS") \/ End("UNAVAILABLE")
       \/ asking.model # Gemini /\ End("INVALID_RESPONSE")
    /\ UNCHANGED <<asking, gathered, posted, answered, blocked, painted, read, shown>>

\* What convertImageResponse makes of an item whose bytes it has: the image, then the
\* revised prompt.
ImageItems(item, n) ==
    (CASE item.kind = "nothing"                 -> <<>>
       [] item.kind \in {"text", "blank"}       -> <<[kind |-> item.kind, of |-> n]>>
       [] item.kind = "untyped"                 -> <<[kind |-> "untyped", of |-> n]>>
       [] item.kind = "large"                   -> <<[kind |-> "large", of |-> n]>>
       [] item.kind \in {"b64", "url"}          -> <<[kind |-> "image", of |-> n]>>)
    \o (IF item.revised THEN <<[kind |-> "text", of |-> n]>> ELSE <<>>)

Take(items) ==
    /\ painted' = painted \o items /\ read' = read + 1
    /\ UNCHANGED <<step, verdict>>

Fail(why) == End(why) /\ UNCHANGED <<painted, read>>

\* decodeImageItem and the size limit; a URL is fetched, and only 200 will do.  An
\* empty body is no image.  Gemini's images are measured by the service alone.
ReadItem ==
    /\ step = "reading" /\ read < Len(answered)
    /\ LET n == read + 1
           item == answered[n]
           unusable == item.kind = "garbled" \/ (item.kind = "large" /\ asking.model # Gemini)
       IN  \/ unusable /\ Fail("INVALID_RESPONSE")
           \/ ~unusable /\ item.kind # "url" /\ Take(ImageItems(item, n))
           \/ item.kind = "url" /\ Take(ImageItems(item, n))
           \/ item.kind = "url" /\ Take(ImageItems([item EXCEPT !.kind = "nothing"], n))
           \/ item.kind = "url" /\ \E why \in {"STATUS", "UNAVAILABLE", "INVALID_RESPONSE"} : Fail(why)
    /\ UNCHANGED <<asking, gathered, posted, answered, blocked, shown>>

Speaks(item) == item.kind \in {"text", "image"}

\* validateImageEvent.
ValidImageEvent ==
    /\ \A i \in DOMAIN painted : painted[i].kind \notin {"untyped", "large"}
    /\ blocked \/ \E i \in DOMAIN painted : Speaks(painted[i])

\* The one event of generateImage; stream.Send may fail.
SendImage ==
    /\ step = "reading" /\ read = Len(answered)
    /\ IF ~ValidImageEvent THEN End("INVALID_RESPONSE") /\ UNCHANGED shown
       ELSE \/ End("ok") /\ shown' = Append(shown, [seq |-> 0, final |-> TRUE, items |-> painted])
            \/ End("lost") /\ UNCHANGED shown
    /\ UNCHANGED <<asking, gathered, posted, answered, blocked, painted, read>>

\* The context is done: the next exchange fails with it.  Inline references, and the
\* items that need no fetch, are not exchanges.
ContextDone ==
    /\ \/ step = "asked"
       \/ step = "gathering" /\ Len(gathered) < Len(Refs(asking))
            /\ Refs(asking)[Len(gathered) + 1].source # "inline"
       \/ step = "reading" /\ read < Len(answered) /\ answered[read + 1].kind = "url"
    /\ End("cancelled")
    /\ UNCHANGED <<asking, gathered, posted, answered, blocked, painted, read, shown>>

ImageInit ==
    /\ asking \in ImageOrders
    /\ step = "new" /\ verdict = "none" /\ blocked = FALSE /\ read = 0
    /\ gathered = <<>> /\ posted = <<>> /\ answered = <<>> /\ painted = <<>> /\ shown = <<>>

ImageNext ==
    \/ GenerateImage \/ GatherReference \/ PostEdits \/ PaintingArrives \/ PaintingFails
    \/ ReadItem \/ SendImage \/ ContextDone

ImageSpec == ImageInit /\ [][ImageNext]_imageVars

-----------------------------------------------------------------------------
(* Properties.                                                             *)

PostedTags(post) == [i \in DOMAIN post.content |-> post.content[i].tag]

\* An image is asked for at most once, with the whole prompt and every reference in the
\* caller's order, none of those fetched being anything but an image, and never when
\* the caller's request was refused.  The client gets one event or an error, never part
\* of an answer: the event has what the upstream said and painted in its order, and says
\* something.  (GenerateImage, doImageEdits, convertImageResponse, validateImageEvent.)
ImageArrives ==
    /\ Len(posted) <= 1
    /\ \A post \in ToSet(posted) :
         /\ asking.model # Gemini =>
              PostedTags(post) = [i \in DOMAIN Prompt(asking) |-> Prompt(asking)[i].tag]
                                   \o [i \in DOMAIN Refs(asking) |-> Refs(asking)[i].tag]
         /\ post.endpoint = "edits" =>
              \A i \in DOMAIN Refs(asking) : post.content[Len(Prompt(asking)) + i].image
         /\ asking.model = Flux2Klein9B => post.b64
    /\ verdict = "INVALID_ARGUMENT" => posted = <<>>
    /\ (verdict = "ok") = (shown # <<>>)
    /\ \A event \in ToSet(shown) :
         /\ Len(shown) = 1 /\ event.seq = 0 /\ event.final
         /\ blocked \/ \E i \in DOMAIN event.items : event.items[i].kind \in {"text", "image"}
         /\ \A i, j \in DOMAIN event.items : i < j => event.items[i].of <= event.items[j].of
         /\ \A n \in DOMAIN answered :
              /\ answered[n].kind = "b64" => Contains(event.items, [kind |-> "image", of |-> n])
              /\ answered[n].revised \/ answered[n].kind = "text" =>
                   Contains(event.items, [kind |-> "text", of |-> n])
=============================================================================
