---------------------------- MODULE MCTextStream ----------------------------
(***************************************************************************)
(* Small instances of TextStream and ImageCall for TLC: a call of Generate *)
(* asks for text, which may open a conversation, or for an image.  The     *)
(* opening conversations hold between them every kind of part, a system    *)
(* message that leads, one that does not and one of white space, an        *)
(* assistant message with text and two calls, and tool outputs with        *)
(* images; the follow-ups add the rest.  The calls differ in name or only  *)
(* in id, as two calls of one tool do, or have no id.                      *)
(***************************************************************************)
EXTENDS TextStream, ImageCall

MCCalls == {Call("a", "look"), Call("b", "look"), Call("", "find")}

User(kind, tag)   == Message("user", <<Part(kind, tag)>>, <<>>)
System(kind, tag) == Message("system", <<Part(kind, tag)>>, <<>>)

Media4 == Message("user", <<Part("text", "t"), Part("image", "i"), Part("video", "v"), Part("file", "f")>>, <<>>)
History ==
    <<User("text", "q"),
      Message("assistant", <<Part("text", "s"), Part("image", "p")>>, <<Call("x", "look"), Call("", "find")>>),
      Output("x", "look", <<Part("image", "o"), Part("image", "u")>>),
      Output("find", "find", <<>>)>>

Conversations ==
    {<<>>, <<User("text", "q")>>, <<Media4>>, <<User("untyped", "n"), User("text", "q")>>,
     <<System("text", "r"), System("blank", "w"), User("text", "q"), System("text", "m"), User("file", "f")>>,
     History}

Whole(items) == [items |-> items, streaming |-> FALSE, tools |-> "named", resumes |-> FALSE,
                 cached |-> FALSE, caching |-> "omitted"]

\* Every conversation as it is, then the switches, one at a time.
MCPrompts ==
    {Whole(items) : items \in Conversations}
    \union {[Whole(<<User("text", "q")>>) EXCEPT !.streaming = TRUE, !.caching = c] : c \in {"omitted", "off"}}
    \union {[Whole(<<System("text", "r"), User("text", "q")>>) EXCEPT !.caching = c] : c \in {"on", "off"}}
    \union {[Whole(<<System("text", "r"), User("text", "q")>>) EXCEPT !.cached = TRUE],
            [Whole(<<User("text", "q")>>) EXCEPT !.tools = "nameless"],
            [Whole(<<User("text", "q")>>) EXCEPT !.tools = "none"]}

\* The text of every order, references of each source, and a size of each shape.
Prompted(ps) == ps \o <<[kind |-> "text", tag |-> "p", source |-> "inline"]>>
Reference(tag, source) == [kind |-> "image", tag |-> tag, source |-> source]
BlankText == [kind |-> "blank", tag |-> "", source |-> "inline"]

Size(pixels, w, h) == [pixels |-> pixels, w |-> w, h |-> h]
Sizes == {Size("", 0, 0), Size("512x512", 3, 4), Size("", 3, 4), Size("", 5, 5), Size("", 21, 9), Size("", 0, 9)}

ImageParts ==
    {<<BlankText>>, Prompted(<<>>), Prompted(<<BlankText>>),
     <<Reference("a", "inline")>>, Prompted(<<Reference("a", "inline")>>),
     Prompted(<<Reference("a", "untyped")>>), Prompted(<<Reference("a", "typed")>>),
     Prompted(Prompted(<<Reference("a", "typed"), Reference("b", "inline")>>) \o <<Reference("c", "untyped")>>)}

ImageModels == {"gpt-image-2", Flux2Klein9B, Gemini}

Asking(model, parts, size) == [model |-> model, parts |-> parts, size |-> size]

MCImageOrders ==
    {Asking(m, ps, Size("", 3, 4)) : m \in ImageModels, ps \in ImageParts}
    \union {Asking("gpt-image-2", Prompted(<<>>), s) : s \in Sizes}

-----------------------------------------------------------------------------
\* Within is the library's SelectSeq of a membership test.
ASSUME WithinIsSelectSeq ==
    \A s \in BoundedSeq({1, 2, 3}, 4), S \in SUBSET {1, 2, 3} :
        Within(s, S) = SelectSeq(s, LAMBDA x : x \in S)

VARIABLE capability   \* capabilityOf the request's output kind

MCvars == <<capability, vars, imageVars>>

\* Of the other capability there is one request, which is not made.
MCInit ==
    /\ capability \in {"text", "image"}
    /\ Init /\ ImageInit
    /\ capability = "text"  => asking = Asking(Gemini, Prompted(<<>>), Size("", 3, 4))
    /\ capability = "image" => family = "ark" /\ ~bound /\ request = Whole(<<>>)

MCNext ==
    /\ \/ capability = "text"  /\ Next      /\ UNCHANGED imageVars
       \/ capability = "image" /\ ImageNext /\ UNCHANGED vars
    /\ UNCHANGED capability

MCSpec == MCInit /\ [][MCNext]_MCvars
=============================================================================
