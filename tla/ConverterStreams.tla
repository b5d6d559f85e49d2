--------------------------- MODULE ConverterStreams ---------------------------
(***************************************************************************)
(* The response converters of the registry: how each turns the stream of   *)
(* one API format into that of another, event by event, and a whole        *)
(* response into another.                                                  *)
(*                                                                         *)
(* An event is a record; `kind` says what it carries and `data` is the     *)
(* sequence of texts in it, each the number of the part it belongs to. An  *)
(* OpenAI or Gemini chunk that carries several things is the events it     *)
(* carries, in the order the converters look at them. Identifiers, token   *)
(* counts and wording are left out.                                        *)
(***************************************************************************)
EXTENDS Integers, Sequences, FiniteSets, SequencesExt, Functions

(* The tags a model may put around its thoughts inside its text. *)
Open == -1
Close == -2

E(type, i, kind, data) == [type |-> type, i |-> i, kind |-> kind, data |-> data]

Start(i, kind) == E("content_block_start", i, kind, <<>>)
Delta(i, kind, data) == E("content_block_delta", i, kind, data)
Stop(i) == E("content_block_stop", i, "none", <<>>)
MessageStart == E("message_start", 0, "none", <<>>)
MessageDelta(reason) == E("message_delta", 0, reason, <<>>)
MessageStop == E("message_stop", 0, "none", <<>>)
Chunk(i, kind, data) == E("chunk", i, kind, data)
Finish(reason) == E("finish", 0, reason, <<>>)
Done == E("[DONE]", 0, "none", <<>>)
Candidate(kind, data) == E("candidate", 0, kind, data)
Finished(reason) == E("finished", 0, reason, <<>>)
Created == E("response.created", 0, "none", <<>>)
ItemDelta(data) == E("response.output_item.delta", 0, "text", data)
ResponseDone == E("response.done", 0, "none", <<>>)
TextDelta(data) == E("response.output_text.delta", 0, "text", data)
ItemAdded(data) == E("response.output_item.added", 0, "call", data)
Completed == E("response.completed", 0, "none", <<>>)
ErrorEvent(retryable) ==
    E("error", 0, IF retryable THEN "retryable" ELSE "final", <<>>)

NewTransformState ==
    [id |-> FALSE, thinking |-> FALSE, thinkingStopped |-> FALSE,
     content |-> FALSE, contentStopped |-> FALSE, mode |-> 0,
     calls |-> << >>, current |-> 0, reason |-> "end", out |-> <<>>]

With(f, x, v) == [y \in DOMAIN f \cup {x} |-> IF y = x THEN v ELSE f[y]]

Emit(s, events) == [s EXCEPT !.out = @ \o events]

(* What a converter says before the first chunk it looks at. *)
First(s, events) == IF s.id THEN s ELSE [Emit(s, events) EXCEPT !.id = TRUE]

-----------------------------------------------------------------------------
(* OpenAI to Claude. *)

TextBlockIndex(s) == IF s.thinking THEN 1 ELSE 0

(* Mutant of NextBlockIndex: the calls before are not counted. *)
NextBlockIndexFlat(s) ==
    Cardinality({b \in {"thinking", "content"} : s[b]})

NextBlockIndex(s) ==
    Cardinality({b \in {"thinking", "content"} : s[b]})
        + Cardinality(DOMAIN s.calls)

EmitText(s, text) ==
    IF text = <<>> THEN s
    ELSE LET start == IF s.content THEN <<>> ELSE <<Start(TextBlockIndex(s), "text")>>
         IN  [Emit(s, Append(start, Delta(TextBlockIndex(s), "text", text)))
                EXCEPT !.content = TRUE]

EmitThoughts(s, thoughts) ==
    IF thoughts = <<>> THEN s ELSE Emit(s, <<Delta(0, "thought", thoughts)>>)

OpenThinking(s) ==
    IF s.thinking THEN s
    ELSE [Emit(s, <<Start(0, "thought")>>) EXCEPT !.thinking = TRUE]

Place(c, tag) == SelectInSeq(c, LAMBDA t : t = tag)
Before(c, tag) == SubSeq(c, 1, Place(c, tag) - 1)
After(c, tag) == SubSeq(c, Place(c, tag) + 1, Len(c))

(* Mutant of Inside: the text after the closing tag is lost. *)
InsideLosing(s, c) ==
    IF Contains(c, Close)
    THEN [s |-> [EmitThoughts(s, Before(c, Close)) EXCEPT !.mode = 2], text |-> <<>>]
    ELSE [s |-> EmitThoughts(s, c), text |-> <<>>]

(* Inside the tags: what is thought, and the text left after them. *)
Inside(s, c) ==
    IF Contains(c, Close)
    THEN [s |-> [EmitThoughts(s, Before(c, Close)) EXCEPT !.mode = 2],
          text |-> After(c, Close)]
    ELSE [s |-> EmitThoughts(s, c), text |-> <<>>]

(* The text before the tags and the text after them are sent as one. *)
HandleStreamingThinkTags(s, c) ==
    IF s.mode = 2 \/ (s.mode = 0 /\ ~Contains(c, Open))
    THEN [s |-> s, text |-> c]
    ELSE IF s.mode = 1 THEN Inside(s, c)
         ELSE LET r == Inside([OpenThinking(s) EXCEPT !.mode = 1], After(c, Open))
              IN  [r EXCEPT !.text = Before(c, Open) \o r.text]

CloseThinking(s) ==
    IF ~s.thinking \/ s.thinkingStopped THEN s
    ELSE [Emit(s, <<Delta(0, "signature", <<>>), Stop(0)>>) EXCEPT
            !.thinkingStopped = TRUE]

CloseText(s) ==
    IF ~s.content \/ s.contentStopped THEN s
    ELSE [Emit(s, <<Stop(TextBlockIndex(s))>>) EXCEPT !.contentStopped = TRUE]

OpenCall(s, i) ==
    IF i \in DOMAIN s.calls THEN s
    ELSE LET t == CloseText(CloseThinking(s))
             b == NextBlockIndex(t)
         IN  [Emit(t, <<Start(b, "call")>>) EXCEPT !.calls = With(@, i, b)]

CallDelta(s, i, args) ==
    IF args = <<>> THEN s ELSE Emit(s, <<Delta(s.calls[i], "call", args)>>)

(* The calls' blocks are stopped in an order that is the map's. *)
CallStops(s) ==
    LET i == SetToSeq(DOMAIN s.calls)
    IN  [k \in DOMAIN i |-> Stop(s.calls[i[k]])]

(* Mutant of FinishMessage: the reason is not mapped. *)
FinishMessageEnd(s, reason) ==
    LET t == CloseText(CloseThinking(s))
    IN  Emit(t, Append(CallStops(t), MessageDelta("end")))

FinishMessage(s, reason) ==
    LET t == CloseText(CloseThinking(s))
    IN  Emit(t, Append(CallStops(t), MessageDelta(reason)))

OpenAIToClaude(s, e) ==
    LET t == First(s, <<MessageStart>>)
    IN  CASE e.type = "[DONE]" -> Emit(s, <<MessageStop>>)
          [] e.type = "finish" -> FinishMessage(t, e.kind)
          [] e.type = "chunk" /\ e.kind = "text" /\ e.data # <<>> ->
                LET r == HandleStreamingThinkTags(t, e.data) IN EmitText(r.s, r.text)
          [] e.type = "chunk" /\ e.kind = "call" ->
                CallDelta(OpenCall(t, e.i), e.i, e.data)
          [] e.type = "chunk" /\ e.kind # "call" /\ e.data = <<>> -> t
          [] OTHER -> s

-----------------------------------------------------------------------------
(* The other pairs. *)

OpenAIToCodex(s, e) ==
    LET t == First(s, <<Created>>)
    IN  CASE e.type \in {"[DONE]", "finish"} ->
                Emit(IF e.type = "finish" THEN t ELSE s, <<ResponseDone>>)
          [] e.type = "chunk" /\ e.kind = "text" /\ e.data # <<>> ->
                Emit(t, <<ItemDelta(e.data)>>)
          [] e.type = "error" -> Emit(s, IF s.id THEN <<>> ELSE <<Created>>)
          [] OTHER -> t

OpenAIToGemini(s, e) ==
    CASE e.type = "chunk" /\ e.kind = "text" /\ e.data # <<>> ->
            Emit(s, <<Candidate("text", e.data)>>)
      [] e.type = "finish" ->
            Emit(s, <<Finished(IF e.kind = "length" THEN "length" ELSE "end")>>)
      [] OTHER -> s

ClaudeToOpenAI(s, e) ==
    CASE e.type = "message_start" -> Emit(s, <<Chunk(0, "text", <<>>)>>)
      [] e.type = "content_block_start" ->
            [s EXCEPT !.current = e.i,
                      !.calls = IF e.kind = "call" THEN With(@, e.i, e.i) ELSE @]
      [] e.type = "content_block_delta" /\ e.kind = "text" ->
            Emit(s, <<Chunk(0, "text", e.data)>>)
      [] e.type = "content_block_delta" /\ e.kind = "call"
            /\ s.current \in DOMAIN s.calls ->
            Emit(s, <<Chunk(s.current, "call", e.data)>>)
      [] e.type = "message_delta" -> [s EXCEPT !.reason = e.kind]
      [] e.type = "message_stop" -> Emit(s, <<Finish(s.reason), Done>>)
      [] e.type = "[DONE]" -> Emit(s, <<Done>>)
      [] OTHER -> s

(* Mutant of ClaudeToCodex: a stop reason already ends the response. *)
ClaudeToCodexEager(s, e) ==
    CASE e.type = "message_start" -> Emit(s, <<Created>>)
      [] e.type = "content_block_delta" /\ e.kind = "text" ->
            Emit(s, <<ItemDelta(e.data)>>)
      [] e.type \in {"message_delta", "message_stop", "[DONE]"} ->
            Emit(s, <<ResponseDone>>)
      [] OTHER -> s

ClaudeToCodex(s, e) ==
    CASE e.type = "message_start" -> Emit(s, <<Created>>)
      [] e.type = "content_block_delta" /\ e.kind = "text" ->
            Emit(s, <<ItemDelta(e.data)>>)
      [] e.type \in {"message_stop", "[DONE]"} -> Emit(s, <<ResponseDone>>)
      [] OTHER -> s

ClaudeToGemini(s, e) ==
    CASE e.type = "content_block_delta" /\ e.kind = "text" ->
            Emit(s, <<Candidate("text", e.data)>>)
      [] e.type = "message_stop" -> Emit(s, <<Finished("end")>>)
      [] OTHER -> s

CodexToClaude(s, e) ==
    CASE e.type = "response.created" -> Emit(s, <<MessageStart, Start(0, "text")>>)
      [] e.type = "response.output_item.delta" ->
            Emit(s, <<Delta(0, "text", e.data)>>)
      [] e.type = "response.done" ->
            Emit(s, <<Stop(0), MessageDelta("end"), MessageStop>>)
      [] OTHER -> s

CodexToOpenAI(s, e) ==
    CASE e.type = "response.created" -> Emit(s, <<Chunk(0, "text", <<>>)>>)
      [] e.type = "response.output_item.delta" ->
            Emit(s, <<Chunk(0, "text", e.data)>>)
      [] e.type = "response.done" -> Emit(s, <<Finish("end"), Done>>)
      [] OTHER -> s

(* One text block takes the texts and the thoughts; calls are left out. *)
GeminiToClaude(s, e) ==
    LET t == First(s, <<MessageStart, Start(0, "text")>>)
    IN  CASE e.type = "candidate" /\ e.kind \in {"text", "thought"} ->
                Emit(t, <<Delta(0, e.kind, e.data)>>)
          [] e.type = "finished" ->
                Emit(t, <<Stop(0), MessageDelta(e.kind), MessageStop>>)
          [] e.type = "[DONE]" -> s
          [] OTHER -> t

(* A thought's text is sent as text. *)
GeminiToOpenAI(s, e) ==
    LET t == First(s, <<Chunk(0, "text", <<>>)>>)
    IN  CASE e.type = "candidate" /\ e.kind \in {"text", "thought"} ->
                Emit(t, <<Chunk(0, "text", e.data)>>)
          [] e.type = "finished" -> Emit(t, <<Finish(e.kind), Done>>)
          [] e.type = "[DONE]" -> s
          [] OTHER -> t

(* gemini_to_codex.go reads Codex events and writes Gemini chunks. *)
GeminiToCodex(s, e) ==
    CASE e.type = "response.output_text.delta" ->
            Emit(s, <<Candidate("text", e.data)>>)
      [] e.type = "response.output_item.added" ->
            Emit(s, <<Candidate("call", e.data)>>)
      [] e.type = "response.completed" -> Emit(s, <<Finished("end")>>)
      [] OTHER -> s

(* codex_to_gemini.go reads Gemini chunks and writes Codex events. *)
CodexToGemini(s, e) ==
    LET t == First(s, <<Created>>)
    IN  CASE e.type = "[DONE]" -> Emit(s, <<Completed, Done>>)
          [] e.type = "candidate" /\ e.kind \in {"text", "thought"} ->
                Emit(t, <<TextDelta(e.data)>>)
          [] e.type = "candidate" /\ e.kind = "call" -> Emit(t, <<ItemAdded(e.data)>>)
          [] OTHER -> t

TransformStreamChunk(from, to, s, e) ==
    CASE from = to -> Emit(s, <<e>>)
      [] from = "openai" /\ to = "claude" -> OpenAIToClaude(s, e)
      [] from = "openai" /\ to = "codex"  -> OpenAIToCodex(s, e)
      [] from = "openai" /\ to = "gemini" -> OpenAIToGemini(s, e)
      [] from = "claude" /\ to = "openai" -> ClaudeToOpenAI(s, e)
      [] from = "claude" /\ to = "codex"  -> ClaudeToCodex(s, e)
      [] from = "claude" /\ to = "gemini" -> ClaudeToGemini(s, e)
      [] from = "codex"  /\ to = "claude" -> CodexToClaude(s, e)
      [] from = "codex"  /\ to = "openai" -> CodexToOpenAI(s, e)
      [] from = "codex"  /\ to = "gemini" -> CodexToGemini(s, e)
      [] from = "gemini" /\ to = "claude" -> GeminiToClaude(s, e)
      [] from = "gemini" /\ to = "openai" -> GeminiToOpenAI(s, e)
      [] from = "gemini" /\ to = "codex"  -> GeminiToCodex(s, e)

-----------------------------------------------------------------------------
(* Whole responses: the parts of a message and why it ended. *)

Message(parts, reason) == [parts |-> parts, reason |-> reason]
PartOf(kind, data) == [kind |-> kind, data |-> data]

Kept(parts, kinds) ==
    FlattenSeq([k \in 1 .. Len(parts) |->
                   IF parts[k].kind \in kinds THEN <<parts[k]>> ELSE <<>>])

TextOf(parts) == FlattenSeq([k \in DOMAIN parts |-> parts[k].data])

(* OpenAI's message: one text, then the calls. *)
Joined(parts, shown) ==
    LET text == TextOf(Kept(parts, shown))
    IN  (IF text = <<>> THEN <<>> ELSE <<PartOf("text", text)>>)
            \o Kept(parts, {"call"})

Calls(parts) == Kept(parts, {"call"}) # <<>>

(* Mutant of ExtractThinkTags: a tag that is not closed is left in place. *)
ExtractThinkTagsUnclosed(text) ==
    IF ~(Contains(text, Open) /\ Contains(text, Close)) THEN <<PartOf("text", text)>>
    ELSE LET left == Before(text, Open) \o After(text, Close)
         IN  <<PartOf("thought", Before(After(text, Open), Close))>>
                \o (IF left = <<>> THEN <<>> ELSE <<PartOf("text", left)>>)

(* The thoughts between the first pair of tags, or all that follows the    *)
(* first when it is not closed.                                            *)
ExtractThinkTags(text) ==
    IF ~Contains(text, Open) THEN <<PartOf("text", text)>>
    ELSE LET closed  == Contains(text, Close)
             inside  == After(text, Open)
             thought == IF closed THEN Before(inside, Close) ELSE inside
             left    == Before(text, Open)
                            \o (IF closed THEN After(text, Close) ELSE <<>>)
         IN  <<PartOf("thought", thought)>>
                \o (IF left = <<>> THEN <<>> ELSE <<PartOf("text", left)>>)

OpenAIMessageToClaude(m) ==
    LET text    == Kept(m.parts, {"text"})
        content == IF text = <<>> THEN <<>> ELSE ExtractThinkTags(TextOf(text))
        parts   == content \o Kept(m.parts, {"call"})
    IN  Message(IF parts = <<>> THEN <<PartOf("text", <<>>)>> ELSE parts, m.reason)

(* Codex and Gemini have no reason for calls. *)
CutOrEnd(m) == IF m.reason = "length" THEN "length" ELSE "end"
CallsOr(reason, parts) == IF Calls(parts) THEN "calls" ELSE reason

OpenAIMessageToCodex(m) == Message(m.parts, "end")

OpenAIMessageToGemini(m) == Message(m.parts, CutOrEnd(m))

ClaudeMessageToOpenAI(m) == Message(Joined(m.parts, {"text"}), m.reason)

ClaudeMessageToCodex(m) == Message(Kept(m.parts, {"text", "call"}), "end")

ClaudeMessageToGemini(m) == Message(Kept(m.parts, {"text", "call"}), CutOrEnd(m))

CodexMessageToClaude(m) == Message(m.parts, CallsOr("end", m.parts))

CodexMessageToOpenAI(m) ==
    Message(Joined(m.parts, {"text"}), CallsOr("end", m.parts))

GeminiMessageToClaude(m) ==
    Message(m.parts, IF m.reason = "length" THEN "length" ELSE CallsOr("end", m.parts))

(* A thought's text is text here too. *)
GeminiMessageToOpenAI(m) ==
    Message(Joined(m.parts, {"text", "thought"}),
            IF m.reason = "length" THEN "length" ELSE CallsOr("end", m.parts))

(* gemini_to_codex.go finds no output in Gemini's message, and             *)
(* codex_to_gemini.go no candidates in Codex's.                            *)
Nothing == Message(<<>>, "end")
GeminiMessageToCodex(m) == Nothing
CodexMessageToGemini(m) == Nothing

TransformResponse(from, to, m) ==
    CASE from = to -> m
      [] from = "openai" /\ to = "claude" -> OpenAIMessageToClaude(m)
      [] from = "openai" /\ to = "codex"  -> OpenAIMessageToCodex(m)
      [] from = "openai" /\ to = "gemini" -> OpenAIMessageToGemini(m)
      [] from = "claude" /\ to = "openai" -> ClaudeMessageToOpenAI(m)
      [] from = "claude" /\ to = "codex"  -> ClaudeMessageToCodex(m)
      [] from = "claude" /\ to = "gemini" -> ClaudeMessageToGemini(m)
      [] from = "codex"  /\ to = "claude" -> CodexMessageToClaude(m)
      [] from = "codex"  /\ to = "openai" -> CodexMessageToOpenAI(m)
      [] from = "codex"  /\ to = "gemini" -> CodexMessageToGemini(m)
      [] from = "gemini" /\ to = "claude" -> GeminiMessageToClaude(m)
      [] from = "gemini" /\ to = "openai" -> GeminiMessageToOpenAI(m)
      [] from = "gemini" /\ to = "codex"  -> GeminiMessageToCodex(m)
=============================================================================
