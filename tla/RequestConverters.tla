-------------------------- MODULE RequestConverters ---------------------------
(***************************************************************************)
(* The request converters of the registry: how the conversation in a       *)
(* request of one API format becomes one of another.                       *)
(*                                                                         *)
(* A message is a role and its parts, in every format: an item of Codex is *)
(* a message of one call, one result or some texts, and what OpenAI keeps  *)
(* in a message's content and its tool calls are parts of one message. A   *)
(* part is something said (`n`, the number it was said under); a call has  *)
(* a name in its format (`ref`) that its result refers to. The role        *)
(* "assistant" is also the one Gemini calls "model". Models, system        *)
(* prompts, tool declarations and sampling parameters are left out.        *)
(*                                                                         *)
(* What a message says and what a result is may be written as one string   *)
(* or as a list of parts, each with a type of the client's format. It      *)
(* matters to the converters that have a parameter `lists`: whether the    *)
(* client writes lists where a string would do.                            *)
(***************************************************************************)
EXTENDS Naturals, Sequences, FiniteSets, SequencesExt

(* How long a signature is: what the code tells apart. *)
Missing == 0
Short == 2   \* ten bytes or more
Long == 3    \* fifty or more
NoSig == [n |-> 0, len |-> Missing]

NoRef == <<>>
Id(k) == <<"id", k>>
Name(k) == <<"name", k>>

(* A part of a conversation; `of` is the call a call or a result is about, *)
(* `item` the id a Codex call's item has of its own.                       *)
Part(kind, n, of, sig) ==
    [kind |-> kind, n |-> n, of |-> of, sig |-> sig,
     ref |-> IF kind \in {"call", "result"} THEN Id(of) ELSE NoRef,
     item |-> NoRef]

Said(text) == Part("text", text, 0, NoSig)

Message(role, parts) == [role |-> role, parts |-> parts]

Kind(parts, kinds) == SelectSeq(parts, LAMBDA p : p.kind \in kinds)
Has(m, kind) == \E i \in DOMAIN m.parts : m.parts[i].kind = kind

(* The parts `translate` makes of each part, in order. *)
EachPart(parts, translate(_)) ==
    FlattenSeq([i \in DOMAIN parts |-> translate(parts[i])])

(* The messages `translate` makes of each message, in order. *)
EachMessage(history, translate(_)) ==
    FlattenSeq([i \in DOMAIN history |-> translate(history[i])])

(* A list copied with the types of the client's format, which the provider *)
(* does not know.                                                          *)
Untranslated(p) ==
    IF p.kind \in {"text", "image"} THEN [p EXCEPT !.kind = "foreign"] ELSE p

(* The result kept of a list where the code takes a string: none. *)
Emptied(p) == IF p.kind = "result" THEN [p EXCEPT !.n = 0] ELSE p

AsText(p) == [p EXCEPT !.kind = "text", !.sig = NoSig]
Refer(p, ref) == [p EXCEPT !.ref = ref]
Unless(parts, messages) == IF parts = <<>> THEN <<>> ELSE messages

-----------------------------------------------------------------------------
(* Claude to OpenAI. `string` tells a content that is one string from a    *)
(* list of parts.                                                          *)

IsString(parts) ==
    LET shown == Kind(parts, {"text", "image"})
    IN  shown = <<>> \/ (Len(shown) = 1 /\ shown[1].kind = "text")

ChatMessage(role, parts) ==
    [role |-> role, parts |-> parts, string |-> IsString(parts)]

(* The results of a message come before the rest of it. *)
ToChatMessages(m) ==
    LET results == Kind(m.parts, {"result"})
        rest    == Kind(m.parts, {"text", "image"}) \o Kind(m.parts, {"call"})
    IN  [i \in DOMAIN results |-> ChatMessage("tool", <<results[i]>>)]
        \o Unless(rest, <<ChatMessage(m.role, rest)>>)

(* The results held back, in the order of the calls they answer. *)
FlushTools(s) ==
    LET answer(ref) ==
            SelectSeq(s.held, LAMBDA m : m.parts[1].ref = ref)
    IN  [out |-> s.out \o FlattenSeq([i \in DOMAIN s.order |-> answer(s.order[i])]),
         order |-> <<>>, held |-> <<>>]

OrderStep(s, m) ==
    LET flushed == FlushTools(s)
        calls   == Kind(m.parts, {"call"})
        ref     == m.parts[1].ref
    IN  IF m.role = "tool"
        THEN IF s.order = <<>> THEN [s EXCEPT !.out = Append(@, m)]
             ELSE IF Contains(s.order, ref)
             THEN [s EXCEPT !.held =
                     Append(SelectSeq(@, LAMBDA h : h.parts[1].ref # ref), m)]
             ELSE s
        ELSE [flushed EXCEPT
                !.out = Append(@, m),
                !.order = IF m.role = "assistant"
                          THEN [i \in DOMAIN calls |-> calls[i].ref]
                          ELSE <<>>]

NoneHeld == [out |-> <<>>, order |-> <<>>, held |-> <<>>]

(* Mutant of FixToolMessageOrdering: the results still held are forgotten. *)
FixToolMessageOrderingUnflushed(messages) ==
    FoldLeft(OrderStep, NoneHeld, messages).out

(* A message that shows nothing and calls nothing is never made. *)
FixToolMessageOrdering(messages) ==
    FlushTools(FoldLeft(OrderStep, NoneHeld, messages)).out

(* What is left of a message whose content is taken for a string. *)
StringOf(m) == IF m.string THEN m.parts ELSE <<>>

AsNote(p) == IF p.kind = "call" THEN Refer(p, Name(p.of)) ELSE p

(* Calls and results become notes in the text. *)
Flattened(m) ==
    IF Has(m, "call")
    THEN [m EXCEPT !.parts = (IF m.string THEN Kind(@, {"text"}) ELSE <<>>)
                              \o EachPart(Kind(@, {"call"}), LAMBDA p : <<AsNote(p)>>),
                   !.string = TRUE]
    ELSE IF m.role = "tool" THEN [m EXCEPT !.role = "user"] ELSE m

MergeTexts(out, m) ==
    IF out # <<>> /\ Last(out).role = m.role
    THEN Append(Front(out), [role |-> m.role, string |-> TRUE,
                             parts |-> StringOf(Last(out)) \o StringOf(m)])
    ELSE Append(out, m)

FlattenToolMessages(messages) ==
    FoldLeft(MergeTexts, <<>>, [i \in DOMAIN messages |-> Flattened(messages[i])])

ClaudeToOpenAI(history) ==
    FlattenToolMessages(FixToolMessageOrdering(EachMessage(history, ToChatMessages)))

-----------------------------------------------------------------------------
(* Claude to Codex. Calls and results are items of their own, before the   *)
(* message they were in, which keeps the last of its texts; of a result    *)
(* only a string is kept.                                                  *)

ToItems(m, lists) ==
    LET of    == Kind(m.parts, {"call", "result"})
        texts == Kind(m.parts, {"text"})
        item(p) == Message(m.role, <<IF lists THEN Emptied(p) ELSE p>>)
    IN  [i \in DOMAIN of |-> item(of[i])]
        \o Unless(texts, <<Message(m.role, <<Last(texts)>>)>>)

ClaudeToCodex(history, lists) == EachMessage(history, LAMBDA m : ToItems(m, lists))

-----------------------------------------------------------------------------
(* Claude to Gemini: what both adapters that do it share. *)

(* A thought without text is taken for a trailing signature. *)
HasValidThinkingSignature(p) ==
    IF p.kind = "hint" THEN p.sig # NoSig ELSE p.sig.len >= Short

IsThought(p) == p.kind \in {"thought", "hint"}
Thinks(m) == \E i \in DOMAIN m.parts : IsThought(m.parts[i])

FilterThinking(p) ==
    IF ~IsThought(p) \/ HasValidThinkingSignature(p) THEN <<p>>
    ELSE IF p.kind = "hint" THEN <<>> ELSE <<AsText(p)>>

(* A message of which nothing is left says an empty text. *)
FilterInvalidThinkingBlocks(history) ==
    LET filtered(m) == EachPart(m.parts, FilterThinking)
    IN  [i \in DOMAIN history |->
            IF history[i].role # "assistant" THEN history[i]
            ELSE [history[i] EXCEPT !.parts =
                    IF filtered(history[i]) = <<>> THEN <<Part("blank", 0, 0, NoSig)>>
                    ELSE filtered(history[i])]]

LastOf(messages, role) == SelectLastInSeq(messages, LAMBDA m : m.role = role)

(* The last answer has a call and no thought. *)
ShouldDisableThinkingDueToHistory(history) ==
    LET i == LastOf(history, "assistant")
    IN  i > 0 /\ Has(history[i], "call") /\ ~Thinks(history[i])

HasThinkingHistory(history) ==
    \E i \in DOMAIN history : history[i].role = "assistant" /\ Thinks(history[i])

HasFunctionCalls(history) == \E i \in DOMAIN history : Has(history[i], "call")

(* A message of Gemini as it is built: `sig` is the signature of the last  *)
(* thought, `named` the calls whose names are known.                       *)
Built == [parts |-> <<>>, sig |-> NoSig, named |-> {}, out |-> <<>>]

Put(b, p) == [b EXCEPT !.parts = Append(@, p)]

Signed(p, sig) == [p EXCEPT !.sig = sig]

(* Mutant of FunctionName: the response goes under the id of its call. *)
FunctionNameUnknown(b, p) == Id(p.of)

(* The name of the function a result is of, its call's id failing that. *)
FunctionName(b, p) == IF p.of \in b.named THEN Name(p.of) ELSE Id(p.of)

PutResult(b, p) == Put(b, Signed(Refer(p, FunctionName(b, p)), b.sig))

MergeRoles(out, m) ==
    IF out # <<>> /\ Last(out).role = m.role
    THEN Append(Front(out), Message(m.role, Last(out).parts \o m.parts))
    ELSE Append(out, m)

MergeAdjacentRoles(contents) == FoldLeft(MergeRoles, <<>>, contents)

(* The contents of a message are complete; without parts they are left out. *)
CloseContents(b, m) ==
    [b EXCEPT !.parts = <<>>,
              !.out = @ \o Unless(b.parts, <<Message(m.role, b.parts)>>)]

ClearThinking(contents) ==
    LET cleared(p) == IF p.kind = "thought" THEN AsText(p) ELSE Signed(p, NoSig)
    IN  [i \in DOMAIN contents |->
            [contents[i] EXCEPT !.parts =
                [j \in DOMAIN @ |-> cleared(@[j])]]]

-----------------------------------------------------------------------------
(* Claude to Gemini, the converter of the registry. *)

IsThinkingEnabled(history, requested, supported) ==
    /\ requested /\ supported
    /\ ~ShouldDisableThinkingDueToHistory(history)
    /\ HasFunctionCalls(history) => HasThinkingHistory(history)

(* A thought is sent as one at the head of its message only. *)
PutThought(b, p, thinking) ==
    IF ~thinking \/ b.parts # <<>>
    THEN IF p.kind = "hint" THEN b ELSE Put(b, AsText(p))
    ELSE IF p.kind = "hint" THEN Put(b, Said(0))
    ELSE [Put(b, p) EXCEPT !.sig = p.sig]

PutPart(b, p, thinking) ==
    CASE p.kind \in {"blank", "nothing"} -> b
      [] IsThought(p) -> PutThought(b, p, thinking)
      [] p.kind = "call" ->
            [Put(b, Signed(Refer(p, Name(p.of)), b.sig)) EXCEPT !.named = @ \union {p.of}]
      [] p.kind = "result" -> PutResult(b, p)
      [] OTHER -> Put(b, p)

ClaudeToGemini(history, requested, supported) ==
    LET h        == FilterInvalidThinkingBlocks(history)
        thinking == IsThinkingEnabled(h, requested, supported)
        put(b, p) == PutPart(b, p, thinking)
        build(b, m) == CloseContents(FoldLeft(put, b, m.parts), m)
        contents == MergeAdjacentRoles(FoldLeft(build, Built, h).out)
    IN  [thinking |-> thinking,
         messages |-> IF thinking THEN contents ELSE ClearThinking(contents)]

-----------------------------------------------------------------------------
(* Codex to the others. *)

(* A call goes under the id of its item, its call id failing that. *)
ItemCall(p) ==
    IF p.kind = "call" /\ p.item # NoRef THEN Refer(p, p.item) ELSE p

(* A message for each item; its content is copied, the types of a list's   *)
(* parts with it (input_text, output_text and input_image).                *)
CodexToClaude(history, lists) ==
    LET copied(m, p) ==
            IF lists \/ ~IsString(m.parts) THEN Untranslated(p) ELSE p
    IN  [i \in DOMAIN history |->
            [history[i] EXCEPT !.parts =
                [j \in DOMAIN @ |-> ItemCall(copied(history[i], @[j]))]]]

CodexToOpenAI(history, lists) ==
    LET items == CodexToClaude(history, lists)
    IN  [i \in DOMAIN items |->
            IF Has(items[i], "result") THEN [items[i] EXCEPT !.role = "tool"]
            ELSE items[i]]

CodexToGemini(history) ==
    LET named(p) ==
            CASE p.kind = "call" -> <<Refer(p, <<"name", "id", p.of>>)>>
              [] p.kind = "result" -> <<Refer(p, <<"function", p.of>>)>>
              [] p.kind = "text" -> <<p>>
              [] OTHER -> <<>>
        contents(m) == Unless(EachPart(m.parts, named),
                              <<Message(m.role, EachPart(m.parts, named))>>)
    IN  EachMessage(history, contents)

-----------------------------------------------------------------------------
(* Gemini to the others; a thought is a text. *)

Texts(m) == EachPart(Kind(m.parts, {"text", "thought"}), LAMBDA p : <<AsText(p)>>)

(* Calls are numbered through, results keep the name of the function. *)
GeminiToClaude(history) ==
    LET calls == EachPart(FlattenSeq([i \in DOMAIN history |-> history[i].parts]),
                          LAMBDA p : IF p.kind = "call" THEN <<p.n>> ELSE <<>>)
        block(p) ==
            CASE p.kind = "call" ->
                    <<Refer(p, <<"count", SelectInSeq(calls, LAMBDA n : n = p.n)>>)>>
              [] p.kind = "result" -> <<Refer(p, Name(p.of))>>
              [] p.kind = "image" -> <<>>
              [] OTHER -> <<AsText(p)>>
    IN  [i \in DOMAIN history |->
            [history[i] EXCEPT !.parts = EachPart(@, block)]]

(* An id of the second it is made in: no name ends in a call id. *)
GeminiToCodex(history) ==
    LET now(m, p) == <<Message(m.role, <<Refer(p, <<"now">>)>>)>>
        items(m) ==
            EachPart(Kind(m.parts, {"call", "result"}), LAMBDA p : now(m, p))
            \o Unless(Texts(m), <<Message(m.role, Texts(m))>>)
    IN  EachMessage(history, items)

GeminiToOpenAI(history) ==
    LET tool(p) == <<Message("tool", <<Refer(p, Name(p.of))>>)>>
        call(p) == <<Refer(p, <<"call", Name(p.of)>>)>>
        messages(m) ==
            LET rest == Texts(m) \o EachPart(Kind(m.parts, {"call"}), call)
            IN  EachPart(Kind(m.parts, {"result"}), tool)
                \o Unless(rest, <<Message(m.role, rest)>>)
    IN  EachMessage(history, messages)

-----------------------------------------------------------------------------
(* OpenAI to the others. Of a tool message only a string is kept. *)

OfTool(m, lists) ==
    IF lists /\ m.role = "tool" THEN [i \in DOMAIN m.parts |-> Emptied(m.parts[i])]
    ELSE m.parts

(* Beside calls only a content that is one string is kept. *)
OpenAIToClaude(history, lists) ==
    LET kept(m) ==
            IF Has(m, "call") /\ ~IsString(m.parts) THEN Kind(m.parts, {"call"})
            ELSE OfTool(m, lists)
        role(m) == IF m.role = "tool" THEN "user" ELSE m.role
    IN  [i \in DOMAIN history |-> Message(role(history[i]), kept(history[i]))]

(* A message becomes an item even if it only calls. *)
OpenAIToCodex(history, lists) ==
    LET call(p) == <<Message("assistant", <<p>>)>>
        items(m) ==
            IF m.role = "tool" THEN <<Message("user", OfTool(m, lists))>>
            ELSE <<Message(m.role, Kind(m.parts, {"text"}))>>
                 \o EachPart(Kind(m.parts, {"call"}), call)
    IN  EachMessage(history, items)

(* Calls go under the name of their function, results under the call's id. *)
OpenAIToGemini(history, lists) ==
    LET part(p) ==
            CASE p.kind = "call" -> <<Refer(p, Name(p.of))>>
              [] p.kind = "image" -> <<>>
              [] OTHER -> <<p>>
        role(m) == IF m.role = "tool" THEN "user" ELSE m.role
    IN  [i \in DOMAIN history |->
            Message(role(history[i]), EachPart(OfTool(history[i], lists), part))]
===============================================================================
