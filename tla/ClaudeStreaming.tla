--------------------------- MODULE ClaudeStreaming ---------------------------
(***************************************************************************)
(* The translation of Gemini stream lines into Claude events, as operators *)
(* on the translator's state (ClaudeStreamingState), and the two functions *)
(* it must agree with: the collector, which folds its events back into one *)
(* message, and the translation of a whole response.                       *)
(*                                                                         *)
(* A text, a thought or a call is the number it arrived with, and so are a *)
(* search query and a list of links; 0 stands for an empty text, a missing *)
(* signature, and no query or links.                                       *)
(***************************************************************************)
EXTENDS Naturals, Sequences, SequencesExt

None == 0

(* Part(k, kind, empty, signed): the k-th part of the stream; a "bare" call *)
(* is one without arguments.                                               *)
Part(k, kind, empty, signed) ==
    [kind |-> kind,
     text |-> IF empty THEN None ELSE k,
     sig  |-> IF signed THEN k ELSE None]

(* What one chunk says of a web search: its queries and the links found.   *)
Grounding(queries, links) == [queries |-> queries, links |-> links]

Event(type, i, block, data, sig) ==
    [type |-> type, index |-> i, block |-> block, data |-> data, sig |-> sig]

MessageStart == Event("message_start", 0, "none", None, None)
MessageDelta(i, reason) == Event("message_delta", i, reason, None, None)
MessageStop(i) == Event("message_stop", i, "none", None, None)
Start(i, block, data, sig) == Event("content_block_start", i, block, data, sig)
Delta(i, block, data) == Event("content_block_delta", i, block, data, None)
Signed(i, sig) == Event("content_block_delta", i, "thinking", None, sig)
Stop(i, block) == Event("content_block_stop", i, block, None, None)

(* What the stream remembers of a web search until it tells it.            *)
Sought(query, links) == [query |-> query, links |-> links]
Unsought == Sought(None, None)

NewState == [block |-> "none", index |-> 0, started |-> FALSE,
             stopped |-> FALSE, usedTool |-> FALSE, pending |-> None,
             trailing |-> None, grounding |-> Unsought, out |-> <<>>]

Emit(s, events) == [s EXCEPT !.out = @ \o events]

EmitMessageStart(s) ==
    IF s.started THEN s ELSE [Emit(s, <<MessageStart>>) EXCEPT !.started = TRUE]

(* Mutant of EndBlock: the pending signature is not delivered. *)
EndBlockUnsigned(s) ==
    IF s.block = "none" THEN s
    ELSE [Emit(s, <<Stop(s.index, s.block)>>) EXCEPT
            !.index = s.index + 1, !.block = "none", !.pending = None]

(* A thinking block's pending signature is delivered as it ends. *)
EndBlock(s) ==
    IF s.block = "none" THEN s
    ELSE LET signs == s.block = "thinking" /\ s.pending # None
             last  == IF signs THEN <<Signed(s.index, s.pending)>> ELSE <<>>
         IN  [Emit(s, Append(last, Stop(s.index, s.block))) EXCEPT
                !.index = s.index + 1, !.block = "none",
                !.pending = IF signs THEN None ELSE s.pending]

(* Mutant of StartBlock: the block before it is left open. *)
StartBlockInside(s, block, data, sig) ==
    [Emit(s, <<Start(s.index, block, data, sig)>>) EXCEPT !.block = block]

StartBlock(s, block, data, sig) ==
    LET t == EndBlock(s)
    IN  [Emit(t, <<Start(t.index, block, data, sig)>>) EXCEPT !.block = block]

EmitDelta(s, data) == Emit(s, <<Delta(s.index, s.block, data)>>)

(* A block of its own, which leaves no block open. *)
Whole(s, block, deltas) ==
    [Emit(s, <<Start(s.index, block, None, None)>> \o deltas
             \o <<Stop(s.index, block)>>) EXCEPT !.index = s.index + 1]

EmptyThinking(s, sig) ==
    Whole(s, "thinking",
          <<Delta(s.index, "thinking", None), Signed(s.index, sig)>>)

FlushTrailing(s) ==
    IF s.trailing = None THEN s
    ELSE [EmptyThinking(EndBlock(s), s.trailing) EXCEPT !.trailing = None]

(* Mutant of Within: any open block will do. *)
WithinAny(s, block) ==
    IF s.block # "none" THEN s ELSE StartBlock(s, block, None, None)

Within(s, block) ==
    IF s.block = block THEN s ELSE StartBlock(s, block, None, None)

ProcessThinking(s, text, sig) ==
    LET t == Within(FlushTrailing(s), "thinking")
        u == IF text = None THEN t ELSE EmitDelta(t, text)
    IN  IF sig = None THEN u ELSE [u EXCEPT !.pending = sig]

ProcessText(s, text, sig) ==
    LET t == FlushTrailing(s)
    IN  IF text = None
        THEN IF sig = None THEN s ELSE [s EXCEPT !.trailing = sig]
        ELSE IF sig = None
        THEN EmitDelta(Within(t, "text"), text)
        ELSE EmptyThinking(
                 EndBlock(EmitDelta(StartBlock(t, "text", None, None), text)),
                 sig)

ProcessFunctionCall(s, part) ==
    LET t == [FlushTrailing(s) EXCEPT !.usedTool = TRUE]
        u == StartBlock(t, "tool_use", part.text, part.sig)
    IN  EndBlock(IF part.kind = "bare" THEN u ELSE EmitDelta(u, part.text))

(* A part without text or signature is dropped, also an empty thought; an  *)
(* image that carries a signature is taken for a signed empty text.        *)
ProcessPart(s, part) ==
    IF part.kind \in {"call", "bare"} THEN ProcessFunctionCall(s, part)
    ELSE IF part.text = None /\ part.sig = None THEN s
    ELSE CASE part.kind = "thought" -> ProcessThinking(s, part.text, part.sig)
           [] part.kind = "image" /\ part.sig # None ->
                 ProcessText(s, None, part.sig)
           [] OTHER -> ProcessText(s, part.text, part.sig)

StopReason(s, finish) ==
    IF s.usedTool THEN "tool_use"
    ELSE IF finish = "MAX_TOKENS" THEN "max_tokens" ELSE "end_turn"

(* captureGrounding: of several queries the first; a chunk that names none *)
(* leaves the query as it was, and so with the links.                      *)
Captured(sought, grounding) ==
    Sought(IF grounding.queries = <<>> THEN sought.query ELSE grounding.queries[1],
           IF grounding.links = None THEN sought.links ELSE grounding.links)

(* The text that tells of the search, here in two pieces, is one delta.    *)
EmitGrounding(s) ==
    IF s.grounding = Unsought THEN s
    ELSE [Whole(s, "text", <<Delta(s.index, "text", s.grounding.query),
                             Delta(s.index, "text", s.grounding.links)>>)
          EXCEPT !.grounding = Unsought]

(* The stop reason is sent again by a second finish, the stop is not. *)
EmitFinish(s, finish) ==
    LET ended   == EndBlock(s)
        signed  == IF ended.trailing = None THEN ended
                   ELSE [EmptyThinking(ended, ended.trailing)
                         EXCEPT !.trailing = None]
        sourced == EmitGrounding(signed)
        closing == <<MessageDelta(sourced.index, StopReason(sourced, finish))>>
                   \o (IF s.stopped THEN <<>> ELSE <<MessageStop(sourced.index)>>)
    IN  [Emit(sourced, closing) EXCEPT !.stopped = TRUE]

(* Mutant of EmitForceStop: a message that has begun is taken for closed. *)
EmitForceStopUnstarted(s) == IF s.started THEN s ELSE EmitFinish(s, "")

EmitForceStop(s) == IF s.stopped THEN s ELSE EmitFinish(s, "")

(* The lines: a chunk; the [DONE] mark; and what does not parse as a chunk: *)
(* an error message, a text that can be cut out, or nothing of use.  An    *)
(* error line as the API sends it parses, as a chunk with no candidate.    *)
Chunk(parts, grounding, finish) ==
    [kind |-> "chunk", parts |-> parts, grounding |-> grounding,
     finish |-> finish, text |-> None]
NoGrounding == Grounding(<<>>, None)
Other(kind, k) == [Chunk(<<>>, NoGrounding, "") EXCEPT !.kind = kind, !.text = k]

ProcessParts(s, parts) ==
    LET read[k \in 0..Len(parts)] ==
            IF k = 0 THEN s ELSE ProcessPart(read[k - 1], parts[k])
    IN  read[Len(parts)]

ProcessChunk(s, line) ==
    LET read     == ProcessParts(EmitMessageStart(s), line.parts)
        captured == [read EXCEPT !.grounding = Captured(@, line.grounding)]
    IN  IF line.finish = "" THEN captured
        ELSE EmitFinish(captured, line.finish)

HandleParseError(s, line) ==
    IF line.kind = "useless" THEN s
    ELSE ProcessText(EmitMessageStart(s), line.text, None)

ProcessGeminiSSELine(s, line) ==
    CASE line.kind = "chunk"    -> ProcessChunk(s, line)
      [] line.kind = "done"     -> EmitForceStop(s)
      [] line.kind = "apierror" -> ProcessChunk(s, Chunk(<<>>, NoGrounding, ""))
      [] OTHER                  -> HandleParseError(s, line)

-------------------------------------------------------------------------------
(* The collector: its builders outlive the blocks, and a block's end takes *)
(* the first of them that is not empty.                                    *)

Collecting == [text |-> <<>>, thinking |-> <<>>, tool |-> None,
               content |-> <<>>, reason |-> "end_turn", over |-> FALSE]

Block(type, data, sig) == [type |-> type, data |-> data, sig |-> sig]

CollectStart(c, e) ==
    CASE e.block = "text"     -> [c EXCEPT !.text = <<>>]
      [] e.block = "thinking" -> [c EXCEPT !.thinking = <<>>]
      [] OTHER                -> [c EXCEPT !.tool = e.data]

CollectDelta(c, e) ==
    IF e.data = None THEN c
    ELSE CASE e.block = "text"     -> [c EXCEPT !.text = Append(@, e.data)]
           [] e.block = "thinking" -> [c EXCEPT !.thinking = Append(@, e.data)]
           [] OTHER                -> c

(* Mutant of CollectStop: the call is kept after its block. *)
CollectStopKeepingTool(c) ==
    IF c.text # <<>>
    THEN [c EXCEPT !.content = Append(@, Block("text", c.text, None)),
                   !.text = <<>>]
    ELSE IF c.tool = None THEN c
    ELSE [c EXCEPT !.content = Append(@, Block("tool_use", <<c.tool>>, None))]

CollectStop(c) ==
    LET add(block) == Append(c.content, block)
    IN  IF c.text # <<>>
        THEN [c EXCEPT !.content = add(Block("text", c.text, None)),
                       !.text = <<>>]
        ELSE IF c.thinking # <<>>
        THEN [c EXCEPT !.content = add(Block("thinking", c.thinking, None)),
                       !.thinking = <<>>]
        ELSE IF c.tool # None
        THEN [c EXCEPT !.content = add(Block("tool_use", <<c.tool>>, None)),
                       !.tool = None]
        ELSE c

CollectEvent(c, e) ==
    IF c.over THEN c
    ELSE CASE e.type = "content_block_start" -> CollectStart(c, e)
           [] e.type = "content_block_delta" -> CollectDelta(c, e)
           [] e.type = "content_block_stop"  -> CollectStop(c)
           [] e.type = "message_delta" -> [c EXCEPT !.reason = e.block]
           [] e.type = "message_stop"  -> [c EXCEPT !.over = TRUE]
           [] OTHER -> c

CollectClaudeSSEToJSON(events) ==
    LET collected[k \in 0..Len(events)] ==
            IF k = 0 THEN Collecting ELSE CollectEvent(collected[k - 1], events[k])
    IN  collected[Len(events)]

-------------------------------------------------------------------------------
(* The translation of a response that came whole. *)

Whole0 == [text |-> <<>>, thinking |-> <<>>, sig |-> None, trailing |-> None,
           usedTool |-> FALSE, content |-> <<>>]

FlushText(w) ==
    IF w.text = <<>> THEN w
    ELSE [w EXCEPT !.content = Append(@, Block("text", w.text, None)),
                   !.text = <<>>]

FlushThinking(w) ==
    IF w.thinking = <<>> /\ w.sig = None THEN w
    ELSE [w EXCEPT !.content = Append(@, Block("thinking", w.thinking, w.sig)),
                   !.thinking = <<>>, !.sig = None]

AddSigned(w, sig) ==
    [w EXCEPT !.content = Append(@, Block("thinking", <<>>, sig))]

DropTrailing(w) ==
    IF w.trailing = None THEN w
    ELSE [AddSigned(w, w.trailing) EXCEPT !.trailing = None]

ConvertCall(w, part) ==
    LET t == DropTrailing(FlushText(FlushThinking(w)))
    IN  [t EXCEPT !.usedTool = TRUE,
                  !.content = Append(@, Block("tool_use", <<part.text>>,
                                              part.sig))]

(* Mutant of ConvertThought: the text before it is flushed after it. *)
ConvertThoughtFirst(w, part) ==
    [w EXCEPT !.thinking = IF part.text = None THEN @ ELSE Append(@, part.text),
              !.sig = IF part.sig = None THEN @ ELSE part.sig]

ConvertThought(w, part) ==
    LET t == FlushText(w)
        u == IF t.trailing = None THEN t ELSE DropTrailing(FlushThinking(t))
    IN  [u EXCEPT !.thinking = IF part.text = None THEN @
                               ELSE Append(@, part.text),
                  !.sig = IF part.sig = None THEN @ ELSE part.sig]

ConvertText(w, part) ==
    IF part.text = None
    THEN [w EXCEPT !.trailing = IF part.sig = None THEN @ ELSE part.sig]
    ELSE LET t == FlushThinking(w)
             u == IF t.trailing = None THEN t ELSE DropTrailing(FlushText(t))
             v == [u EXCEPT !.text = Append(@, part.text)]
         IN  IF part.sig = None THEN v ELSE AddSigned(FlushText(v), part.sig)

ConvertPart(w, part) ==
    CASE part.kind \in {"call", "bare"} -> ConvertCall(w, part)
      [] part.kind = "thought" -> ConvertThought(w, part)
      [] part.kind = "image" /\ part.sig # None ->
            ConvertText(w, [part EXCEPT !.text = None])
      [] part.kind = "image" /\ part.sig = None ->
            FlushText([FlushThinking(w) EXCEPT !.text = Append(@, part.text)])
      [] OTHER -> ConvertText(w, part)

ConvertParts(parts) ==
    LET read[k \in 0..Len(parts)] ==
            IF k = 0 THEN Whole0 ELSE ConvertPart(read[k - 1], parts[k])
    IN  read[Len(parts)]

(* All queries of the search are told, and then the links.                 *)
ConvertGeminiToClaudeResponse(parts, grounding, finish) ==
    LET read    == ConvertParts(parts)
        sources == grounding.queries
                   \o (IF grounding.links = None THEN <<>> ELSE <<grounding.links>>)
        sourced == IF sources = <<>> THEN read
                   ELSE [FlushText(FlushThinking(read)) EXCEPT !.text = sources]
        whole   == DropTrailing(FlushText(FlushThinking(sourced)))
    IN  [content |-> whole.content,
         reason  |-> IF whole.usedTool THEN "tool_use"
                     ELSE IF finish = "MAX_TOKENS" THEN "max_tokens"
                     ELSE "end_turn"]
===============================================================================
