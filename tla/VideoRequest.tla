---------------------------- MODULE VideoRequest ----------------------------
(***************************************************************************)
(* What SubmitVideo is asked and what it sends.  A submit of VideoSubmit   *)
(* runs here for a request the service has accepted: its model decides the *)
(* provider and the plan, its parts whether it is refused before the first *)
(* exchange and which exchanges it needs, and its output parameters, fitted*)
(* to what the model takes, go into the body of the create.                *)
(*                                                                         *)
(* Model ids are those of models/ids.go; words stand for what is left of   *)
(* them after trimming and lower-casing.  A Kling mode is written as the   *)
(* resolution it stands for.                                               *)
(***************************************************************************)
EXTENDS VideoSubmit, Subsequences, Integers

CONSTANT Orders   \* the requests that reach the service

VARIABLES
    order,   \* the GenerateRequest: model, parts of its messages, and wish
    body     \* the body of the create that was sent last

requestVars == <<vars, order, body>>

-----------------------------------------------------------------------------
(* The request.                                                            *)

Unset == ""
NoBody == [model |-> Unset]

\* A part is text, an image or a video; a medium comes by uri or inline, and a
\* uri may be one that is no URL.
Parts == [kind : {"text", "image", "video"}, tag : STRING, source : STRING]

IsText(part) == part.kind = "text"

Images(o) == OfKind(o.parts, {"image"})
Videos(o) == OfKind(o.parts, {"video"})
Texts(o)  == OfKind(o.parts, {"text"})

\* FirstImageMedia, FirstVideoMedia and JoinedText of what is left of blank text.
HasImage(o) == Images(o) # <<>>
HasVideo(o) == Videos(o) # <<>>
HasText(o)  == \E i \in 1..Len(o.parts) : IsText(o.parts[i]) /\ o.parts[i].tag # Unset

ByURI(media) == media.source # "inline"

ValidateMedia(media) == media.source \in {"uri", "noURL", "inline"}

ValidateInput(o) == \A i \in 1..Len(o.parts) : IsText(o.parts[i]) \/ ValidateMedia(o.parts[i])

\* What SubmitGeneration and Generate let through.
ValidateGenerateRequest(o) ==
    /\ ValidateInput(o)
    /\ HasVideo(o) => HasText(o)
    /\ HasVideo(o) \/ HasImage(o) \/ HasText(o)

-----------------------------------------------------------------------------
(* Models.                                                                 *)

Wan27I2V       == {"wan2.7-i2v"}
HappyHorseI2V  == {"happyhorse-1.1-i2v", "happyhorse-1.0-i2v"}
DashScopeKling == {"kling/kling-v3-video-generation", "kling/kling-v3-omni-video-generation"}
OlderWanI2V    == {"wan2.2-i2v-flash", "wan2.2-i2v-plus", "wan2.2-i2v-turbo",
                   "wan2.6-i2v", "wan2.6-i2v-flash"}
Wan27VideoEdit == "wan2.7-videoedit"
DashScope      == Wan27I2V \union HappyHorseI2V \union DashScopeKling \union OlderWanI2V
                    \union {Wan27VideoEdit}

Seedance == {"dreamina-seedance-2-0-mini", "dreamina-seedance-2-0", "dreamina-seedance-2-0-fast"}
Veo      == {"veo-3.1-lite-generate-001", "veo-3.1-fast-generate-001", "veo-3.1-generate-001"}
Kling    == {"kling-v2-master", "kling-v2-1-master", "kling-v2-5-turbo", "kling-v2-6",
             "kling-video-o1", "kling-v3-omni", "kling-v3"}
Vidu     == {"viduq3", "viduq3-mix", "viduq3-turbo", "viduq3-pro-fast", "viduq3-pro"}

\* ModelFamilyOf knows no other.
OminiLinkFamilies == Seedance \union Veo \union Kling \union Vidu

OminiLink == OminiLinkFamilies \union {"hailuo-02"}

KlingV3  == {"kling-video-o1", "kling-v3-omni", "kling-v3"}
Ark      == {"doubao-seedance-2-5-260628"}
LTX      == {"ltx"}
GeminiModels == {"gemini-omni-flash-preview"}

PlanOf(o) ==
    CASE o.model \in GeminiModels -> IF HasVideo(o) THEN "edit" ELSE "image"
      [] o.model \in LTX          -> "ltx"
      [] o.model \in Veo          -> "veo"
      [] OTHER                    -> "create"

ASSUME OrdersAssumption ==
    \A o \in Orders :
        /\ o.model \in OminiLink \union Ark \union LTX \union GeminiModels \union DashScope
        /\ o.parts \in Seq(Parts)
        /\ o.wish \in [resolution : STRING, duration : Int, ratio : STRING]

-----------------------------------------------------------------------------
(* The parameters.                                                         *)

Clamp(v, least, most) == IF v < least THEN least ELSE IF v > most THEN most ELSE v

OneOf(word, words, otherwise) == IF word \in words THEN word ELSE otherwise

Distance(a, b) == IF a < b THEN b - a ELSE a - b

\* snapToAllowed: the nearest, the first of two as near.
Snap(v, lower, upper) == IF Distance(v, upper) < Distance(v, lower) THEN upper ELSE lower

Params(resolution, duration, ratio) ==
    [resolution |-> resolution, duration |-> duration, ratio |-> ratio]

VeoAspectRatio(ratio) == IF ratio \in {"16:9", "4:3"} THEN "16:9" ELSE "9:16"

VeoParams(model, resolution, duration, ratio) ==
    Params(IF resolution = "4k" /\ model = "veo-3.1-lite-generate-001" THEN "1080p"
             ELSE OneOf(resolution, {"1080p", "4k"}, "720p"),
           IF duration <= 5 THEN 4 ELSE IF duration <= 7 THEN 6 ELSE 8,
           VeoAspectRatio(ratio))

MiniOrFast == {"dreamina-seedance-2-0-mini", "dreamina-seedance-2-0-fast"}

\* Mutant: mini and fast are not told from the full model.
SeedanceParamsAlike(model, resolution, duration, ratio) ==
    Params(OneOf(resolution, {"480p", "720p", "1080p", "4k"}, "720p"),
           Clamp(duration, 4, 15),
           OneOf(ratio, {"16:9", "4:3", "1:1", "3:4", "9:16", "21:9", "adaptive"}, "3:4"))

SeedanceParams(model, resolution, duration, ratio) ==
    Params(OneOf(resolution,
                 IF model \in MiniOrFast THEN {"480p", "720p"} ELSE {"480p", "720p", "1080p", "4k"},
                 "720p"),
           Clamp(duration, 4, 15),
           OneOf(ratio, {"16:9", "4:3", "1:1", "3:4", "9:16", "21:9", "adaptive"}, "3:4"))

\* Neither Kling nor Vidu is sent a ratio.
KlingParams(model, resolution, duration) ==
    IF model \in KlingV3
      THEN Params(OneOf(resolution, {"1080p", "4k"}, "720p"), Clamp(duration, 3, 15), Unset)
      ELSE Params(IF resolution \in {"1080p", "4k"} THEN "1080p" ELSE "720p",
                  Snap(duration, 5, 10), Unset)

ViduParams(model, resolution, duration) ==
    Params(OneOf(resolution,
                 IF model = "viduq3-pro-fast" THEN {"1080p"} ELSE {"540p", "720p", "1080p"},
                 "720p"),
           Clamp(duration, 1, 16), Unset)

OminiLinkParams(model, wish) ==
    LET duration == IF wish.duration <= 0 THEN 5 ELSE wish.duration
        ratio    == IF wish.ratio = Unset THEN "3:4" ELSE wish.ratio
    IN CASE model \in Veo      -> VeoParams(model, wish.resolution, duration, ratio)
         [] model \in Seedance -> SeedanceParams(model, wish.resolution, duration, ratio)
         [] model \in Kling    -> KlingParams(model, wish.resolution, duration)
         [] model \in Vidu     -> ViduParams(model, wish.resolution, duration)

\* With a first frame the ratio is adaptive; -1 lets the model choose the duration.
ArkParams(wish, firstFrame) ==
    Params(CASE wish.resolution \in {"480p", "720p", "1080p"} -> wish.resolution
             [] wish.resolution = "4k"                        -> "1080p"
             [] OTHER                                         -> "720p",
           CASE wish.duration = -1 -> -1
             [] wish.duration <= 0 /\ wish.duration # -1 -> 5
             [] OTHER              -> Clamp(wish.duration, 4, 30),
           IF firstFrame THEN "adaptive"
             ELSE OneOf(wish.ratio, {"21:9", "16:9", "4:3", "1:1", "3:4", "9:16", "adaptive"}, "16:9"))

SentDuration(wish) == IF wish.duration <= 0 THEN 0 ELSE wish.duration

\* DashScope leaves durations to the upstream, and of the older Wan models the
\* resolution too; a duration of 0 is not sent.
DashScopeParams(model, wish) ==
    CASE model \in DashScopeKling ->
           Params(OneOf(wish.resolution, {"1080p"}, "720p"),
                  IF wish.duration <= 0 THEN 5 ELSE wish.duration, Unset)
      [] model \in Wan27I2V \union HappyHorseI2V ->
           Params(OneOf(wish.resolution, {"720p", "1080p"}, "720p"), SentDuration(wish), Unset)
      [] model \in OlderWanI2V ->
           Params(IF wish.resolution = Unset THEN "480p" ELSE wish.resolution,
                  SentDuration(wish), Unset)
      [] model = Wan27VideoEdit ->
           Params(OneOf(wish.resolution, {"720p", "1080p"}, "720p"), 0, Unset)

GeminiParams(wish, edit) ==
    IF edit THEN Params(Unset, 0, Unset)
    ELSE Params(Unset, IF wish.duration <= 0 THEN 5 ELSE Clamp(wish.duration, 3, 10),
                OneOf(wish.ratio, {"16:9", "9:16"}, "9:16"))

\* The length of an LTX video is configured.
LtxParams(wish) == Params(OneOf(wish.resolution, {"480p", "720p", "1080p"}, "720p"), 0, Unset)

-----------------------------------------------------------------------------
(* The call.                                                               *)

\* Validation that comes before the first exchange.  Models that edit take a
\* video; to Ark an image is optional; a URL is what an asynchronous create of
\* Ark, OminiLink and DashScope is given.
Refused(o) ==
    CASE o.model \in Ark ->
           HasVideo(o) \/ ~HasText(o) \/ (HasImage(o) /\ ~ByURI(Images(o)[1]))
      [] o.model \in OminiLink ->
           \/ HasVideo(o) \/ ~HasText(o) \/ ~HasImage(o) \/ ~ByURI(Images(o)[1])
           \/ o.model \notin OminiLinkFamilies
      [] o.model = Wan27VideoEdit ->
           \/ ~HasText(o) \/ ~HasVideo(o) \/ ~ByURI(Videos(o)[1])
           \/ \E i \in 1..Len(Images(o)) : ~ByURI(Images(o)[i])
           \/ Len(Images(o)) > 4
      [] o.model \in DashScope \ {Wan27VideoEdit} ->
           HasVideo(o) \/ ~HasText(o) \/ ~HasImage(o) \/ ~ByURI(Images(o)[1])
      [] o.model \in GeminiModels -> ~HasText(o) \/ ~HasImage(o)
      [] o.model \in LTX          -> ~HasImage(o)

\* The medium a step of the plan fetches or copies.
Medium == IF plan = "edit" /\ Step = "source" THEN Videos(order)[1] ELSE Images(order)[1]

Refusal ==
    \/ at = 1 /\ Refused(order)
    \/ Step \in Loads /\ Medium.source = "noURL"

NeedsExchange == ~Refusal /\ (Step \in Loads => Medium.source = "uri")

ParamsOf(o) ==
    CASE o.model \in Ark               -> ArkParams(o.wish, HasImage(o))
      [] o.model \in OminiLinkFamilies -> OminiLinkParams(o.model, o.wish)
      [] o.model \in DashScope         -> DashScopeParams(o.model, o.wish)
      [] o.model \in GeminiModels      -> GeminiParams(o.wish, HasVideo(o))
      [] o.model \in LTX               -> LtxParams(o.wish)

InRole(role, part) == [role |-> role, tag |-> part.tag]

\* Mutant: the last image of the messages.
LastFrame(o) ==
    IF HasImage(o) THEN <<InRole("first_frame", Images(o)[Len(Images(o))])>> ELSE <<>>

FirstFrame(o) == IF HasImage(o) THEN <<InRole("first_frame", Images(o)[1])>> ELSE <<>>

References(o) == [i \in 1..Len(Images(o)) |-> InRole("reference_image", Images(o)[i])]

\* Gemini is sent one reference, Wan up to four.
EditMedia(o) ==
    <<InRole("video", Videos(o)[1])>> \o
      (IF o.model = Wan27VideoEdit THEN References(o) ELSE SubSeq(References(o), 1, 1))

Edits(o) == o.model = Wan27VideoEdit \/ (o.model \in GeminiModels /\ HasVideo(o))

Body(o) ==
    [texts  |-> [i \in 1..Len(Texts(o)) |-> Texts(o)[i].tag],
     media  |-> IF Edits(o) THEN EditMedia(o) ELSE FirstFrame(o),
     params |-> ParamsOf(o)]

RequestInit ==
    /\ Init
    /\ order \in Orders /\ ValidateGenerateRequest(order)
    /\ plan = PlanOf(order)
    /\ body = NoBody

CheckOrder ==
    /\ CheckRequest
    /\ ~NeedsExchange
    /\ outcome' = IF Refusal THEN "DEFINITE" ELSE "none"
    /\ UNCHANGED <<order, body>>

SendOrder ==
    /\ Send
    /\ NeedsExchange
    /\ body' = IF Step = "create" THEN Body(order) ELSE body
    /\ UNCHANGED order

GiveUpOrder ==
    /\ GiveUp
    /\ call = "idle" => NeedsExchange
    /\ UNCHANGED <<order, body>>

RequestNext ==
    \/ CheckOrder \/ SendOrder \/ GiveUpOrder
    \/ /\ \/ Answer \/ PauseEnds
          \/ UpstreamTakesJob \/ UpstreamMovesFile \/ Cancel \/ Tick
       /\ UNCHANGED <<order, body>>

RequestSpec == RequestInit /\ [][RequestNext]_requestVars /\ Fairness

-----------------------------------------------------------------------------
(* Properties.                                                             *)

Ratios == {"21:9", "16:9", "4:3", "1:1", "3:4", "9:16", "adaptive"}

Values(resolutions, durations, ratios) ==
    [resolution |-> resolutions, duration |-> durations, ratio |-> ratios]

\* What a model's create may carry; 0 and Unset are fields that are left out.
\* The older Wan models are given any resolution the caller names.
TakenBy(o) ==
    CASE o.model = "veo-3.1-lite-generate-001" ->
           Values({"720p", "1080p"}, {4, 6, 8}, {"16:9", "9:16"})
      [] o.model \in Veo \ {"veo-3.1-lite-generate-001"} ->
           Values({"720p", "1080p", "4k"}, {4, 6, 8}, {"16:9", "9:16"})
      [] o.model = "dreamina-seedance-2-0" ->
           Values({"480p", "720p", "1080p", "4k"}, 4..15, Ratios)
      [] o.model \in Seedance \ {"dreamina-seedance-2-0"} -> Values({"480p", "720p"}, 4..15, Ratios)
      [] o.model \in KlingV3           -> Values({"720p", "1080p", "4k"}, 3..15, {Unset})
      [] o.model \in Kling \ KlingV3   -> Values({"720p", "1080p"}, {5, 10}, {Unset})
      [] o.model = "viduq3-pro-fast"   -> Values({"720p", "1080p"}, 1..16, {Unset})
      [] o.model \in Vidu \ {"viduq3-pro-fast"} -> Values({"540p", "720p", "1080p"}, 1..16, {Unset})
      [] o.model \in Ark ->
           Values({"480p", "720p", "1080p"}, {-1} \union 4..30,
                  IF HasImage(o) THEN {"adaptive"} ELSE Ratios)
      [] o.model \in GeminiModels ->
           IF HasVideo(o) THEN Values({Unset}, {0}, {Unset})
             ELSE Values({Unset}, 3..10, {"16:9", "9:16"})
      [] o.model \in LTX              -> Values({"480p", "720p", "1080p"}, {0}, {Unset})
      [] o.model = Wan27VideoEdit     -> Values({"720p", "1080p"}, {0}, {Unset})
      [] o.model \in DashScopeKling   -> Values({"720p", "1080p"}, Nat \ {0}, {Unset})
      [] o.model \in OlderWanI2V      ->
           Values({"480p", o.wish.resolution} \ {Unset}, Nat, {Unset})
      [] o.model \in Wan27I2V \union HappyHorseI2V -> Values({"720p", "1080p"}, Nat, {Unset})

MediaRead == {"first_frame", "reference_image", "video"}

\* Whatever the upstream took a job for, every parameter it was given is one the
\* model takes, and the caller's own wherever the model takes that
\* (ominilinkvideo/constraints.go, arkvideo and dashscopevideo provider.go).
ParametersFitModel ==
    jobs > 0 =>
      \A field \in {"resolution", "duration", "ratio"} :
        /\ body.params[field] \in TakenBy(order)[field]
        /\ order.wish[field] \in TakenBy(order)[field] => body.params[field] = order.wish[field]

\* The texts of that job are all the caller's and in order, and the media sent are
\* the caller's, each kind in its order and from its first, however the parts were
\* mixed; and a source video that is a file was ready when the job was made
\* (JobNeedsActiveFile).
PartsArrive ==
    jobs > 0 =>
      /\ JobNeedsActiveFile
      /\ body.texts = [i \in 1..Len(Texts(order)) |-> Texts(order)[i].tag]
      /\ \A role \in MediaRead :
           LET sent  == Within(body.media, [role : {role}, tag : STRING])
               given == IF role = "video" THEN Videos(order) ELSE Images(order)
           IN /\ Len(sent) <= Len(given)
              /\ \A i \in 1..Len(sent) : sent[i].tag = given[i].tag
=============================================================================
