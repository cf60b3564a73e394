---------------------------- MODULE MCVideoSubmit ----------------------------
(***************************************************************************)
(* Small instances of VideoRequest for TLC.  The unit of time is two       *)
(* minutes: a timeout of 5 and a margin of 1 are the code's 10 and 2       *)
(* minutes; the poll interval (5 s) is rounded up to one unit.             *)
(*                                                                         *)
(* Every model is asked for every resolution with every duration around a  *)
(* limit, and for every ratio; with the wish left unset, for every mix of  *)
(* up to three parts.  Gemini, whose exchanges are timed, and LTX, whose   *)
(* create is retried, get a few of each.                                   *)
(***************************************************************************)
EXTENDS VideoRequest

Part(kind, tag, source) == [kind |-> kind, tag |-> tag, source |-> source]

Say   == Part("text", "t1", "inline")
More  == Part("text", "t2", "inline")
Blank == Part("text", Unset, "inline")
Image(tag, source) == Part("image", tag, source)
Video(tag, source) == Part("video", tag, source)

Frame == Image("i1", "uri")
Clip  == Video("v1", "uri")

Plain == <<Say, Frame>>

Wish(resolution, duration, ratio) ==
    [resolution |-> resolution, duration |-> duration, ratio |-> ratio]

NoWish == Wish(Unset, 0, Unset)

Wishes ==
    {Wish(r, d, Unset) : r \in {Unset, "480p", "540p", "720p", "1080p", "4k", "8k"},
                         d \in {-1, 0, 1, 3, 4, 5, 6, 7, 8, 9, 10, 15, 16, 17, 30, 31}}
    \union {Wish("720p", 5, r) : r \in Ratios \union {"2:1"}}

FewWishes == {Wish("1080p", 2, "16:9"), Wish("4k", 11, "1:1"), Wish("480p", 7, "9:16")}

Mixes ==
    {<<Say>>, <<Blank>>, <<Frame>>, <<Blank, Frame>>, <<Image("i1", "noURL"), Say>>,
     <<Image("i1", "inline"), Say>>, <<Say, Image("i2", "uri"), More, Frame>>,
     <<Frame, Say, Image("i2", "inline")>>,
     <<Clip, Say>>, <<Video("v1", "inline"), Say>>,
     <<Image("i2", "uri"), Clip, Say, Frame, Video("v2", "uri"), More>>,
     <<Clip, Say, Image("i2", "inline")>>}
    \union {<<Clip, Say>> \o [i \in 1..n |-> Image(<<"i1", "i2", "i3", "i4", "i5">>[i], "uri")] : n \in 4..5}

Untimed == DashScope \union OminiLink \union Ark

GeminiMixes ==
    {<<Frame>>, Plain, <<Image("i1", "inline"), Say>>, <<Image("i1", "noURL"), Say>>,
     <<Clip, Say>>, <<Clip, Say, Frame>>,
     <<Image("i2", "inline"), More, Video("v1", "inline"), Say, Frame>>,
     <<Clip, Say, Image("i1", "noURL")>>}

Order(model, parts, wish) == [model |-> model, parts |-> parts, wish |-> wish]

MCOrders ==
    {Order(m, Plain, w)   : m \in Untimed, w \in Wishes}
    \union {Order(m, p, NoWish) : m \in Untimed \union LTX, p \in Mixes}
    \union {Order(m, p, NoWish) : m \in GeminiModels, p \in GeminiMixes}
    \union {Order(m, Plain, w) : m \in GeminiModels \union LTX, w \in FewWishes}
    \union {Order(m, <<Say>>, w) : m \in Ark, w \in Wishes}
=============================================================================
