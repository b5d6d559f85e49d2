----------------------------- MODULE CustomAdapter -----------------------------
(***************************************************************************)
(* One attempt of a custom provider: the request is converted and sent,    *)
(* and the answer is relayed line by line (or whole), converted when the   *)
(* provider does not speak the client's format. The stand-alone proxy's    *)
(* loop is the same one with the pair openai to claude.                    *)
(***************************************************************************)
EXTENDS ConverterStreams

CONSTANTS
    Pairs,      \* <<the provider's format, the client's>>
    MaxParts    \* bound: parts of an answer

ASSUME PairsAssumption ==
    Pairs \subseteq ({"claude", "openai", "gemini", "codex"} \X
                     {"claude", "openai", "gemini", "codex"})
ASSUME BoundAssumption == MaxParts \in Nat

VARIABLES
    pair,       \* targetType and clientType
    answer,     \* the kinds of the parts the upstream answers with
    cut,        \* is the answer cut by the token limit?
    stream,     \* did the request ask for a stream?
    upstream,   \* connecting, sending, failed (an error event), or early
                \* closed or broken
    rest,       \* the lines not yet read
    s,          \* TransformState
    out,        \* what was written to the client
    body,       \* the whole response written to the client
    sseError,   \* the last error event: none, retryable or final
    client,     \* here, left, or gone (its context is done)
    outcome     \* what Execute returned

vars == <<pair, answer, cut, stream, upstream, rest, s, out, body, sseError,
          client, outcome>>

from == pair[1]
to == pair[2]

-----------------------------------------------------------------------------
(* The upstream's answer, in its own format. *)

Kinds == {"thought", "text", "call"}
Answers == UNION {[1 .. n -> Kinds] : n \in 0 .. MaxParts}

(* OpenAI answers think once, then speak, then call. *)
Rank(kind) == CASE kind = "thought" -> 1 [] kind = "text" -> 2 [] kind = "call" -> 3
OnceThought(a) == Cardinality({k \in DOMAIN a : a[k] = "thought"}) <= 1
InOrder(a) == \A j, k \in DOMAIN a : j < k => Rank(a[j]) <= Rank(a[k])
Possible(format, a) ==
    CASE format = "openai" -> OnceThought(a) /\ InOrder(a)
      [] format = "codex"  -> \A k \in DOMAIN a : a[k] # "thought"
      [] OTHER -> TRUE

Reason(a) == IF cut THEN "length"
             ELSE IF \E k \in DOMAIN a : a[k] = "call" THEN "calls" ELSE "end"

CallNo(a, k) == Cardinality({j \in 1 .. k - 1 : a[j] = "call"})

(* A thought that the token limit cuts is never closed. *)
Tagged(a, k) == IF cut /\ k = Len(a) THEN <<Open, k>> ELSE <<Open, k, Close>>

Texts(tokens) == [j \in DOMAIN tokens |-> Chunk(0, "text", <<tokens[j]>>)]

PartLines(format, a, k) ==
    CASE format = "claude" ->
            <<Start(k - 1, a[k]), Delta(k - 1, a[k], <<k>>), Stop(k - 1)>>
      [] format = "gemini" -> <<Candidate(a[k], <<k>>)>>
      [] format = "codex" ->
            <<IF a[k] = "text" THEN ItemDelta(<<k>>) ELSE ItemAdded(<<k>>)>>
      [] format = "openai" /\ a[k] = "text" -> Texts(<<k>>)
      [] format = "openai" /\ a[k] = "thought" -> Texts(Tagged(a, k))
      [] format = "openai" /\ a[k] = "call" ->
            <<Chunk(CallNo(a, k), "call", <<>>), Chunk(CallNo(a, k), "call", <<k>>)>>

Lines(format, a) ==
    LET parts == FlattenSeq([k \in DOMAIN a |-> PartLines(format, a, k)])
        first == CASE format = "claude" -> <<MessageStart>>
                   [] format = "openai" -> <<Chunk(0, "text", <<>>)>>
                   [] format = "codex"  -> <<Created>>
                   [] format = "gemini" -> <<>>
        last  == CASE format = "claude" -> <<MessageDelta(Reason(a)), MessageStop>>
                   [] format = "openai" ->
                        <<Finish(Reason(a)), E("usage", 0, "none", <<>>), Done>>
                   [] format = "codex"  -> <<ResponseDone>>
                   [] format = "gemini" -> <<Finished(IF cut THEN "length" ELSE "end")>>
    IN  first \o parts \o last

(* The same answer as one response. *)
PartsOf(format, a) ==
    LET tokens(k) == IF format = "openai" /\ a[k] = "thought" THEN Tagged(a, k) ELSE <<k>>
        kind(k)   == IF format = "openai" /\ a[k] = "thought" THEN "text" ELSE a[k]
    IN  [k \in DOMAIN a |-> PartOf(kind(k), tokens(k))]

WholeMessage(format, a) ==
    Message(IF format = "openai" THEN Joined(PartsOf(format, a), {"text"})
            ELSE PartsOf(format, a),
            IF format \in {"gemini", "codex"} /\ ~cut THEN "end" ELSE Reason(a))

(* A server may put what follows in its text into the same chunk. *)
Batches == {n \in 1 .. Len(rest) : n = 1 \/ \A j \in 1 .. n :
                rest[j].type = "chunk" /\ rest[j].kind = "text" /\ rest[j].data # <<>>}
Batch(n) == IF n = 1 THEN rest[1]
            ELSE Chunk(0, "text", FlattenSeq([j \in 1 .. n |-> rest[j].data]))

-----------------------------------------------------------------------------
(* Execute's outcomes: a success, or an error and whether it is retryable. *)

Pending == <<"pending", "none">>
Success == <<"success", "none">>
Retryable(cause) == <<"retryable", cause>>
Final(cause) == <<"final", cause>>
ClientDisconnected == Final("client disconnected")

IsRetryableStatusCode(code) == code \in {429, 500, 502, 503, 504}

Init ==
    /\ pair \in Pairs
    /\ answer \in {a \in Answers : Possible(pair[1], a)}
    /\ cut \in BOOLEAN
    /\ stream \in BOOLEAN
    /\ upstream = "connecting"
    /\ rest = Lines(from, answer)
    /\ s = NewTransformState
    /\ out = <<>> /\ body = Nothing
    /\ sseError = "none"
    /\ client = "here"
    /\ outcome = Pending

Return(o) == outcome' = o

(* The request cannot be converted (or its model cannot be replaced). *)
RequestFails ==
    /\ upstream = "connecting" /\ outcome = Pending
    /\ Return(Retryable("format conversion"))
    /\ UNCHANGED <<pair, answer, cut, stream, upstream, rest, s, out, body,
                   sseError, client>>

(* client.Do fails, also because the request's context is done. *)
ConnectFails ==
    /\ upstream = "connecting" /\ outcome = Pending
    /\ Return(Retryable("network"))
    /\ UNCHANGED <<pair, answer, cut, stream, upstream, rest, s, out, body,
                   sseError, client>>

Refuses ==
    /\ upstream = "connecting" /\ outcome = Pending
    /\ \E code \in {400, 401, 429, 500} :
          Return(IF IsRetryableStatusCode(code) THEN Retryable("status")
                 ELSE Final("status"))
    /\ UNCHANGED <<pair, answer, cut, stream, upstream, rest, s, out, body,
                   sseError, client>>

Responds ==
    /\ upstream = "connecting" /\ outcome = Pending
    /\ upstream' = "sending"
    /\ UNCHANGED <<pair, answer, cut, stream, rest, s, out, body, sseError,
                   client, outcome>>

(* handleNonStreamResponse: the write's result is not looked at. *)
RelayWhole ==
    /\ ~stream /\ upstream = "sending" /\ outcome = Pending
    /\ \/ /\ body' = TransformResponse(from, to, WholeMessage(from, answer))
          /\ Return(Success)
       \/ /\ Return(Retryable("failed to read upstream response"))
          /\ UNCHANGED body
       \/ /\ from # to
          /\ Return(Final("format conversion"))
          /\ UNCHANGED body
    /\ UNCHANGED <<pair, answer, cut, stream, upstream, rest, s, out, sseError,
                   client>>

(* Mutant of TrackError: an error event is not remembered. *)
TrackNoError(e) == sseError

TrackError(e) == IF e.type = "error" THEN e.kind ELSE sseError

(* A write to a client that has left may fail before its context is done. *)
Wrote(events) ==
    \/ out' = out \o events /\ UNCHANGED outcome
    \/ /\ events # <<>> /\ client # "here"
       /\ Return(ClientDisconnected)
       /\ UNCHANGED out

(* Mutant of ReadLine: the output of the line before is written again. *)
ReadLineKeepingOut ==
    /\ stream /\ upstream # "connecting" /\ outcome = Pending
    /\ rest # <<>>
    /\ \E n \in Batches :
          LET e == Batch(n)
              t == TransformStreamChunk(from, to, s, e)
          IN  /\ rest' = SubSeq(rest, n + 1, Len(rest))
              /\ sseError' = TrackError(e)
              /\ s' = t
              /\ Wrote(t.out)
    /\ UNCHANGED <<pair, answer, cut, stream, upstream, body, client>>

(* One complete line of the stream is converted and written. *)
ReadLine ==
    /\ stream /\ upstream # "connecting" /\ outcome = Pending
    /\ rest # <<>>
    /\ \E n \in Batches :
          LET e == Batch(n)
              t == TransformStreamChunk(from, to, s, e)
          IN  /\ rest' = SubSeq(rest, n + 1, Len(rest))
              /\ sseError' = TrackError(e)
              /\ s' = [t EXCEPT !.out = <<>>]
              /\ Wrote(t.out)
    /\ UNCHANGED <<pair, answer, cut, stream, upstream, body, client>>

SSEResult == CASE sseError = "none"      -> Success
               [] sseError = "retryable" -> Retryable("SSE error")
               [] sseError = "final"     -> Final("SSE error")

(* The end of the stream, or a broken connection, which is taken for one   *)
(* as long as the client is there.                                         *)
StreamEnds ==
    /\ stream /\ upstream # "connecting" /\ outcome = Pending
    /\ rest = <<>>
    /\ Return(IF upstream = "broken" /\ client = "gone" THEN ClientDisconnected
              ELSE SSEResult)
    /\ UNCHANGED <<pair, answer, cut, stream, upstream, rest, s, out, body,
                   sseError, client>>

(* Mutant of Cancelled: the upstream request is not bound to the client's. *)
CancelledWhileStreaming ==
    /\ client = "gone" /\ outcome = Pending
    /\ stream /\ upstream # "connecting"
    /\ Return(ClientDisconnected)
    /\ UNCHANGED <<pair, answer, cut, stream, upstream, rest, s, out, body,
                   sseError, client>>

(* A done context is seen before a read, or ends the call that waits.      *)
Cancelled ==
    /\ client = "gone" /\ outcome = Pending
    /\ Return(IF upstream = "connecting" THEN Retryable("network")
              ELSE IF stream THEN ClientDisconnected
              ELSE Retryable("failed to read upstream response"))
    /\ UNCHANGED <<pair, answer, cut, stream, upstream, rest, s, out, body,
                   sseError, client>>

-----------------------------------------------------------------------------
(* The upstream and the client. *)

(* Instead of its next event the upstream sends an error, its last event.  *)
UpstreamErrs ==
    /\ stream /\ upstream = "sending" /\ outcome = Pending /\ rest # <<>>
    /\ upstream' = "failed"
    /\ \E retryable \in BOOLEAN : rest' = <<ErrorEvent(retryable)>>
    /\ UNCHANGED <<pair, answer, cut, stream, s, out, body, sseError, client,
                   outcome>>

(* The stream stops early: what was not read is lost, an incomplete last   *)
(* line with it.                                                           *)
UpstreamBreaks ==
    /\ stream /\ upstream \in {"sending", "failed"} /\ outcome = Pending
    /\ rest # <<>>
    /\ upstream' \in {"closed", "broken"}
    /\ rest' = <<>>
    /\ UNCHANGED <<pair, answer, cut, stream, s, out, body, sseError, client,
                   outcome>>

ClientLeaves ==
    /\ client = "here" /\ outcome = Pending
    /\ client' = "left"
    /\ UNCHANGED <<pair, answer, cut, stream, upstream, rest, s, out, body,
                   sseError, outcome>>

(* net/http notices that the connection is closed. *)
ClientNoticed ==
    /\ client = "left"
    /\ client' = "gone"
    /\ UNCHANGED <<pair, answer, cut, stream, upstream, rest, s, out, body,
                   sseError, outcome>>

Returned == outcome # Pending /\ client # "left" /\ UNCHANGED vars

Next ==
    \/ RequestFails \/ ConnectFails \/ Refuses \/ Responds
    \/ RelayWhole \/ ReadLine \/ StreamEnds \/ Cancelled
    \/ UpstreamErrs \/ UpstreamBreaks
    \/ ClientLeaves \/ ClientNoticed \/ Returned

(* Nothing makes the upstream go on: the adapter's http.Client has no      *)
(* timeout. Only the server's notice of a closed connection and the return *)
(* from a wait whose context is done are fair.                             *)
Fairness == WF_vars(ClientNoticed) /\ WF_vars(Cancelled)

Spec == Init /\ [][Next]_vars /\ Fairness

-----------------------------------------------------------------------------
(* What a client of a format reads from the events written to it. *)

TextType(format) ==
    CASE format = "claude" -> {"content_block_delta"}
      [] format = "openai" -> {"chunk"}
      [] format = "gemini" -> {"candidate"}
      [] format = "codex"  -> {"response.output_item.delta", "response.output_text.delta",
                               "response.output_item.added"}

(* The texts in the events of some types and kinds, one after the other. *)
Said(events, types, kinds) ==
    FlattenSeq([k \in 1 .. Len(events) |->
                   IF events[k].type \in types /\ events[k].kind \in kinds
                   THEN events[k].data ELSE <<>>])

ReadOf(kind) == Said(out, TextType(to), {kind})

Terminators(format) ==
    CASE format = "claude" -> {"message_stop"}
      [] format = "openai" -> {"[DONE]"}
      [] format = "gemini" -> {"finished"}
      [] format = "codex"  -> {"response.done", "response.completed"}

(* The upstream sent all of it and the client was there for it. *)
Complete == /\ stream /\ outcome = Success /\ client = "here"
            /\ upstream = "sending" /\ rest = <<>>

(* The texts a client is to read: thoughts are texts in OpenAI's format,   *)
(* which only Claude clients are spared, and to OpenAI clients of Gemini.  *)
ShownKinds == IF from = "gemini" /\ to = "openai" THEN {"text", "thought"} ELSE {"text"}
ShownText ==
    LET parts == PartsOf(from, answer)
    IN  IF from = "openai" /\ to = "claude"
        THEN TextOf([k \in DOMAIN answer |->
                        IF answer[k] = "text" THEN parts[k] ELSE PartOf("text", <<>>)])
        ELSE TextOf(Kept(parts, ShownKinds))

-----------------------------------------------------------------------------
(* The pairs and answers are those the providers can have, and the state   *)
(* stays within its types.                                                 *)
TypeInvariant ==
    /\ pair \in Pairs /\ cut \in BOOLEAN /\ stream \in BOOLEAN
    /\ answer \in Answers
    /\ upstream \in {"connecting", "sending", "failed", "closed", "broken"}
    /\ s.mode \in 0 .. 2 /\ s.out = <<>>
    /\ sseError \in {"none", "retryable", "final"}
    /\ client \in {"here", "left", "gone"}
    /\ outcome \in {Pending, Success} \/ outcome[1] \in {"retryable", "final"}

(* Whatever the two formats, the client reads the upstream's text in       *)
(* order, and all of it when the stream ended in full: README.md:111 says  *)
(* of the twelve converters that they cover every pair, for responses too. *)
TextKept ==
    /\ IsPrefix(ReadOf("text"), ShownText)
    /\ Complete => ReadOf("text") = ShownText
    /\ ~stream /\ outcome = Success => TextOf(Kept(body.parts, {"text"})) = ShownText

(* A block of a Claude message is started once, receives deltas only while *)
(* it is open, and is stopped once, before the message's delta: the text   *)
(* block's index is the one textBlockIndex returned when it was started.   *)
OpenBlocksOnly == to = "claude" =>
    \A k \in DOMAIN out :
        LET e == out[k]
            opened == {j \in 1 .. k - 1 : out[j].type = "content_block_start"
                                            /\ out[j].i = e.i}
            closed == {j \in 1 .. k - 1 : out[j].type = "content_block_stop"
                                            /\ out[j].i = e.i}
        IN  CASE e.type = "content_block_start" -> opened = {}
              [] e.type = "content_block_delta" ->
                    /\ opened # {} /\ closed = {}
                    /\ \A j \in opened : e.kind \in {out[j].kind, "signature"}
                                            \/ from = "gemini"
              [] e.type = "content_block_stop" -> opened # {} /\ closed = {}
              [] e.type = "message_delta" ->
                    \A j \in 1 .. k - 1 : out[j].type = "content_block_start" =>
                        \E m \in j .. k - 1 : out[m] = Stop(out[j].i)
              [] OTHER -> TRUE

(* OpenAI's finish and its [DONE] both end a Codex response. *)
EndsTwice == {<<"openai", "codex">>}

(* A converted stream is ended in the client's format at most once, with   *)
(* nothing after it, and is ended when the upstream's was.                 *)
EndsOnce == pair \notin EndsTwice =>
    LET ends == {k \in DOMAIN out : out[k].type \in Terminators(to)}
    IN  /\ ends \subseteq {Len(out)}
        /\ Complete => ends # {}

(* The pairs whose streams carry calls. *)
CarriesCalls == from = to \/ pair \in {<<"openai", "claude">>, <<"claude", "openai">>}

(* A stream and a whole response translate one answer alike: the same      *)
(* text, the same thoughts, and the same calls where streams carry them.   *)
SameAsWhole == Complete /\ pair \notin {<<"codex", "gemini">>, <<"gemini", "codex">>} =>
    LET whole == TransformResponse(from, to, WholeMessage(from, answer)).parts
    IN  /\ ReadOf("text") = TextOf(Kept(whole, {"text"}))
        /\ to # "codex" => ReadOf("thought") = TextOf(Kept(whole, {"thought"}))
        /\ CarriesCalls => ReadOf("call") = TextOf(Kept(whole, {"call"}))

(* A Claude or OpenAI client that is told to run calls has read one, and   *)
(* one that has read a call is told to run it, unless the answer was cut.  *)
ReasonMatchesCalls == to \in {"claude", "openai"} =>
    LET Agrees(reason, calls) == /\ reason = "calls" => calls
                                 /\ calls /\ ~cut => reason = "calls"
    IN  /\ \A e \in ToSet(out) : e.type \in {"message_delta", "finish"} =>
                Agrees(e.kind, ReadOf("call") # <<>>)
        /\ outcome = Success /\ ~stream => Agrees(body.reason, Calls(body.parts))

(* What Execute returns of a stream fits what happened: no success after   *)
(* an error event, no lost error while the client is there, and a          *)
(* disconnected client only if it has left.                                *)
OutcomeFits == stream /\ upstream # "connecting" =>
    /\ outcome = ClientDisconnected => client # "here"
    /\ outcome = Success =>
        /\ rest = <<>>
        /\ upstream # "failed"
    /\ outcome = Pending \/ client # "here" \/ upstream # "failed" \/ outcome = SSEResult

(* An attempt whose client has left returns, however long the upstream is  *)
(* silent.                                                                 *)
LeavingEnds == (client # "here") ~> (outcome # Pending)
=============================================================================
