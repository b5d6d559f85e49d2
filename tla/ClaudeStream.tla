---------------------------- MODULE ClaudeStream ----------------------------
(***************************************************************************)
(* One answer on its way from Gemini to a Claude client: the loops of the  *)
(* adapter that read the upstream's lines, translate each and write what   *)
(* comes out before they read the next (handleStreamResponse), or gather   *)
(* it all into one message (handleCollectedStreamResponse).  The upstream  *)
(* may stop at any line, with or without a finish, the client may leave at *)
(* any moment, and the client reads one event after the other.             *)
(***************************************************************************)
EXTENDS ClaudeStreaming, FiniteSets

CONSTANTS
    MaxParts,   \* the parts an upstream sends
    MaxLines,   \* the lines it sends them in
    Shapes      \* the parts it may send, as <<kind, empty, signed>>

ASSUME BoundsAssumption == MaxParts \in Nat /\ MaxLines \in Nat
ASSUME ShapesAssumption ==
    Shapes \subseteq {"text", "thought", "call", "bare", "image"} \X BOOLEAN \X BOOLEAN

VARIABLES
    mode,       \* "stream", or "collect" for a client that asked for no stream
    s,          \* the translator's state, with all events it made
    sent,       \* how many of them the client has read
    upstream,   \* "open", or how it ended: "eof", "reset"
    client,     \* "here" or "gone"
    outcome,    \* what the adapter returned
    received,   \* history: the parts the upstream sent
    sources,    \* history: the first query and the links it told last
    finish,     \* history: its finish reason
    orderly,    \* history: it sent nothing but [DONE] once it had finished
    lines       \* history: the number of lines it sent

vars == <<mode, s, sent, upstream, client, outcome, received, sources, finish,
          orderly, lines>>
upstreamVars == <<received, sources, finish, orderly, lines>>

Arrival == Len(received) + 1

(* What an upstream sends: parts, at most two to a line, what it found in  *)
(* the web, a reason to finish with any of them, the [DONE] mark and lines *)
(* that do not parse, in any order and again after it has finished.        *)
PartsFrom(k) ==
    {<<>>} \cup {<<Part(k, a[1], a[2], a[3])>> : a \in Shapes}
    \cup {<<Part(k, a[1], a[2], a[3]), Part(k + 1, b[1], b[2], b[3])>> :
             a \in Shapes, b \in Shapes}

NextParts == {p \in PartsFrom(Arrival) : Len(received) + Len(p) <= MaxParts}

(* Numbers for what is found, which no part has.                           *)
Groundings ==
    LET k == MaxParts + 3 * lines
    IN  {Grounding(<<k + 1, k + 2>>, None), Grounding(<<>>, k + 3)}

PartChunks(f) == {Chunk(parts, NoGrounding, f) : parts \in NextParts}
SearchChunks(f) == {Chunk(<<>>, g, f) : g \in Groundings}

Chunks == PartChunks("") \cup PartChunks("MAX_TOKENS")
          \cup SearchChunks("") \cup SearchChunks("STOP")

Others == {Other("done", None), Other("apierror", None), Other("useless", None),
           Other("error", Arrival), Other("partial", Arrival)}

Lines == {line \in Chunks \cup Others :
             line.kind \in {"error", "partial"} => Len(received) < MaxParts}

-------------------------------------------------------------------------------
Init ==
    /\ mode \in {"stream", "collect"}
    /\ s = NewState
    /\ sent = 0
    /\ upstream = "open"
    /\ client = "here"
    /\ outcome = "none"
    /\ received = <<>> /\ sources = Unsought /\ finish = ""
    /\ orderly = TRUE /\ lines = 0

AllWritten == mode = "collect" \/ sent = Len(s.out)
Reading == outcome = "none" /\ upstream = "open" /\ AllWritten

Record(line) ==
    /\ received' = IF line.kind \in {"error", "partial"}
                   THEN Append(received,
                               [kind |-> "text", text |-> line.text,
                                sig |-> None])
                   ELSE received \o line.parts
    /\ sources' = Captured(sources, line.grounding)
    /\ finish' = IF line.finish = "" THEN finish ELSE line.finish
    /\ orderly' = (orderly /\ (s.stopped => line.kind = "done"))
    /\ lines' = lines + 1

Translate == \E line \in Lines : /\ s' = ProcessGeminiSSELine(s, line)
                                 /\ Record(line)

ReadLine ==
    /\ mode = "stream" /\ Reading /\ lines < MaxLines
    /\ Translate
    /\ UNCHANGED <<mode, sent, upstream, client, outcome>>

CollectLine ==
    /\ mode = "collect" /\ Reading /\ lines < MaxLines
    /\ Translate
    /\ UNCHANGED <<mode, sent, upstream, client, outcome>>

(* Mutant of WriteEvent: the output is written twice. *)
WriteEventAgain ==
    /\ mode = "stream" /\ outcome = "none" /\ client = "here"
    /\ sent' = sent + 1
    /\ UNCHANGED <<mode, s, upstream, client, outcome, upstreamVars>>

(* Output is written, and flushed, an event at a time; the client reads it. *)
WriteEvent ==
    /\ mode = "stream" /\ outcome = "none"
    /\ client = "here" /\ sent < Len(s.out)
    /\ sent' = sent + 1
    /\ UNCHANGED <<mode, s, upstream, client, outcome, upstreamVars>>

(* A write fails once the client has left, or the loop sees it between two *)
(* reads.  The closing events of a stream that has ended are written       *)
(* without a look at the result.                                           *)
SeeClientGone ==
    /\ client = "gone" /\ outcome = "none" /\ upstream = "open"
    /\ outcome' = "disconnected"
    /\ UNCHANGED <<mode, s, sent, upstream, client, upstreamVars>>

(* The end of the body, or a broken connection, closes what is open. *)
StreamEnds ==
    /\ Reading /\ mode = "stream"
    /\ upstream' \in {"eof", "reset"}
    /\ s' = EmitForceStop(s)
    /\ UNCHANGED <<mode, sent, client, outcome, upstreamVars>>

StreamReturns ==
    /\ mode = "stream" /\ outcome = "none" /\ upstream # "open"
    /\ client = "gone" \/ AllWritten
    /\ outcome' \in IF upstream = "reset" /\ client = "gone"
                    THEN {"disconnected"} ELSE {"ok"}
    /\ UNCHANGED <<mode, s, sent, upstream, client, upstreamVars>>

CollectEnds ==
    /\ Reading /\ mode = "collect"
    /\ upstream' \in {"eof", "reset"}
    /\ s' = IF upstream' = "eof" THEN EmitForceStop(s) ELSE s
    /\ outcome' = IF upstream' = "reset" THEN "unread"
                  ELSE IF s'.out = <<>> THEN "empty" ELSE "ok"
    /\ UNCHANGED <<mode, sent, client, upstreamVars>>

ClientLeaves ==
    /\ client = "here" /\ outcome = "none"
    /\ client' = "gone"
    /\ UNCHANGED <<mode, s, sent, upstream, outcome, upstreamVars>>

Returned == outcome # "none" /\ UNCHANGED vars

Next == \/ ReadLine \/ CollectLine \/ WriteEvent \/ SeeClientGone \/ StreamEnds
        \/ StreamReturns \/ CollectEnds \/ ClientLeaves \/ Returned

(* The call has a timeout that covers the body, so that an upstream that   *)
(* says no more ends; the loop itself always takes its next step.          *)
Fairness == /\ WF_vars(WriteEvent) /\ WF_vars(SeeClientGone)
            /\ WF_vars(StreamEnds) /\ WF_vars(StreamReturns)
            /\ WF_vars(CollectEnds)

Spec == Init /\ [][Next]_vars /\ Fairness

-------------------------------------------------------------------------------
(* What was sent, and what was made of it. *)

BlockOf(kind) == CASE kind \in {"call", "bare"} -> "tool_use"
                   [] kind = "thought" -> "thinking"
                   [] OTHER -> "text"

Held(seq, Test(_), Value(_)) ==
    FlattenSeq([k \in DOMAIN seq |->
                    IF Test(seq[k]) THEN <<Value(seq[k])>> ELSE <<>>])

Telling(piece) == IF piece = None THEN <<>> ELSE <<<<"text", piece>>>>
Sources == Telling(sources.query) \o Telling(sources.links)

PartsSent == Held(received, LAMBDA p : p.text # None,
                  LAMBDA p : <<BlockOf(p.kind), p.text>>)
SignaturesSent == Held(received, LAMBDA p : p.sig # None, LAMBDA p : p.sig)

PartsMade(events) ==
    Held(events,
         LAMBDA e : e.data # None /\ (e.type = "content_block_start"
                                      \/ e.block # "tool_use"),
         LAMBDA e : <<e.block, e.data>>)
SignaturesMade(events) ==
    Held(events, LAMBDA e : e.sig # None, LAMBDA e : e.sig)

Pairs(block) == [k \in 1..Len(block.data) |-> <<block.type, block.data[k]>>]
PartsOf(content) == FlattenSeq([k \in 1..Len(content) |-> Pairs(content[k])])
SignaturesOf(content) ==
    Held(content, LAMBDA b : b.sig # None, LAMBDA b : b.sig)

SomeToolUsed == \E k \in 1..Len(received) : BlockOf(received[k].kind) = "tool_use"

-------------------------------------------------------------------------------
TypeInvariant ==
    /\ mode \in {"stream", "collect"}
    /\ upstream \in {"open", "eof", "reset"}
    /\ client \in {"here", "gone"}
    /\ outcome \in {"none", "ok", "disconnected", "unread", "empty"}
    /\ sent \in 0..Len(s.out)
    /\ s.block \in {"none", "text", "thinking", "tool_use"}
    /\ {s.pending, s.trailing} \subseteq Nat
    /\ orderly \in BOOLEAN

(* Every text, thought and call of an upstream that sends nothing after it *)
(* has finished is delivered once, in the order it came and in a block of  *)
(* its kind, whatever signatures are waiting to be delivered between them; *)
(* what was found in the web closes the message.                           *)
ContentInOrder ==
    orderly =>
        PartsMade(s.out) = PartsSent \o (IF s.stopped THEN Sources ELSE <<>>)

(* Its signatures are delivered in the order they came, and the newest one *)
(* is delivered or waits: a client that sends the message back must have   *)
(* it.                                                                     *)
SignaturesKept ==
    orderly =>
        LET made == SignaturesMade(s.out)
            came == SignaturesSent
        IN  /\ \A i, j \in 1..Len(made) : i < j => made[i] < made[j]
            /\ came # <<>> =>
                  came[Len(came)] \in
                      ToSet(made) \cup (IF s.stopped THEN {}
                                        ELSE {s.pending, s.trailing})

(* A message that is collected has the content and the stop reason of the  *)
(* stream it stands for, although its builders know no block numbers.      *)
CollectedWhole ==
    (mode = "collect" /\ outcome = "ok" /\ orderly) =>
        LET json == CollectClaudeSSEToJSON(s.out)
        IN  /\ PartsOf(json.content) = PartsSent \o Sources
            /\ json.reason = IF SomeToolUsed THEN "tool_use"
                             ELSE IF finish = "MAX_TOKENS" THEN "max_tokens"
                             ELSE "end_turn"

(* The parts after which only the whole response delivers the signature    *)
(* that waits: an image, and a thought that says nothing.                  *)
Disturbs(part) ==
    \/ part.kind = "image"
    \/ part.kind = "thought" /\ part.text = None /\ part.sig = None

(* The streamed answer and the whole response made of the same parts, with *)
(* the first of the search queries alone, carry the same content and stop  *)
(* reason; and the same signatures, unless a part came that disturbs them. *)
(* (Of several queries the stream tells the first and the whole response   *)
(* all of them.)                                                           *)
TranslationsAgree ==
    outcome = "ok" /\ orderly =>
        LET queries == IF sources.query = None THEN <<>> ELSE <<sources.query>>
            whole   == ConvertGeminiToClaudeResponse(
                           received, Grounding(queries, sources.links), finish)
        IN  /\ PartsMade(s.out) = PartsOf(whole.content)
            /\ \/ \E k \in 1..Len(received) : Disturbs(received[k])
               \/ SignaturesMade(s.out) = SignaturesOf(whole.content)
            /\ CollectClaudeSSEToJSON(s.out).reason = whole.reason

(* The events the client has read, as the states of a message. *)
PhaseAfter(e) ==
    CASE e.type = "message_start" -> "open"
      [] e.type = "content_block_start" -> e.block
      [] e.type = "content_block_delta" -> IF e.sig # None THEN "signed" ELSE e.block
      [] e.type = "content_block_stop" -> "open"
      [] e.type = "message_delta" -> "closing"
      [] OTHER -> "over"

ClientPhase == IF sent = 0 THEN "before" ELSE PhaseAfter(s.out[sent])
ClientIndex == IF sent = 0 THEN 0
               ELSE s.out[sent].index
                    + IF s.out[sent].type = "content_block_stop" THEN 1 ELSE 0

Message == INSTANCE ClaudeEvents WITH phase <- ClientPhase,
                                      index <- ClientIndex

(* Wherever the upstream breaks off, the client reads a well-formed message *)
(* as long as a message was begun, by a chunk or by an error line, and the  *)
(* upstream sends nothing after it has finished. FORWARDING.md:264-282 shows *)
(* no other message; that the code makes others the README says.            *)
WellFormed ==
    /\ Message!Init
    /\ [][orderly /\ s.started => Message!Next \/ UNCHANGED Message!vars]_vars

(* Every answer ends, and a client that stays and is told that all went    *)
(* well has read the stop.                                                 *)
AnswerEnds ==
    <>(outcome # "none"
       /\ (outcome = "ok" /\ mode = "stream" /\ client = "here" =>
              \E k \in 1..sent : s.out[k].type = "message_stop"))
===============================================================================
