--------------------------- MODULE ClaudeStreamProofs ---------------------------
(***************************************************************************)
(* Theorems about an answer on its way to a Claude client, for answers of  *)
(* any number of parts and lines and parts of any shape: the stream itself *)
(* and, from "The blocks of a message" on, its agreement with the message  *)
(* CollectClaudeSSEToJSON folds it into and with the whole response that   *)
(* convertGeminiToClaudeResponse makes of the same parts.                  *)
(***************************************************************************)
EXTENDS ClaudeStream, SequenceLemmas

-------------------------------------------------------------------------------
(* The translator's state, and the events it makes.                        *)
Kinds == {"text", "thinking", "tool_use"}

Types == {"message_start", "content_block_start", "content_block_delta",
          "content_block_stop", "message_delta", "message_stop"}
Reasons == {"tool_use", "max_tokens", "end_turn"}

Events == [type : Types, index : Nat, block : Kinds \cup Reasons \cup {"none"},
           data : Nat, sig : Nat]

(* What is remembered of a web search, and what a chunk may say of one.    *)
Searches == [query : Nat, links : Nat]
Findings == [queries : Seq(Nat), links : Nat]

States ==
    [block : Kinds \cup {"none"}, index : Nat, started : BOOLEAN,
     stopped : BOOLEAN, usedTool : BOOLEAN, pending : Nat, trailing : Nat,
     grounding : Searches, out : Seq(Events)]

PartKinds == {"text", "thought", "call", "bare", "image"}
GeminiParts == [kind : PartKinds, text : Nat, sig : Nat]

(* Where a client is that has read the first k events.                     *)
PhaseAt(out, k) == IF k = 0 THEN "before" ELSE PhaseAfter(out[k])
IndexAfter(e) == e.index + IF e.type = "content_block_stop" THEN 1 ELSE 0
IndexAt(out, k) == IF k = 0 THEN 0 ELSE IndexAfter(out[k])

(* A step of ClaudeEvents, or none, from one phase and index to another;   *)
(* or the end of a message that never began.                               *)
Follows(p, i, q, j) ==
    \/ p = "before" /\ q = "open" /\ j = i
    \/ p = "open" /\ q \in Kinds /\ j = i
    \/ p = "thinking" /\ q = "signed" /\ j = i
    \/ p \in Kinds \cup {"signed"} /\ q = "open" /\ j = i + 1
    \/ p \in {"open", "before"} /\ q = "closing" /\ j = i
    \/ p = "closing" /\ q = "over" /\ j = i
    \/ q = p /\ j = i

(* An event that a client in a phase may read: which type it has, in which *)
(* block it is, and that nothing is said outside a block's deltas but by   *)
(* the start of a call.                                                    *)
Proper(p, e) ==
    /\ e.type = "message_start" => p = "before"
    /\ e.type = "content_block_start" =>
          p = "open" /\ e.block \in Kinds /\ (e.block = "tool_use" \/ e.data = None)
    /\ e.type = "content_block_delta" =>
          p = e.block /\ p \in Kinds /\ (p = "thinking" \/ e.sig = None)
    /\ e.type = "content_block_stop" => p \in Kinds \cup {"signed"}
    /\ e.type = "message_delta" => p \in {"open", "before"}
    /\ e.type = "message_stop" => p = "closing"
    /\ e.type \notin {"content_block_start", "content_block_delta"} => e.data = None

Chained(out) ==
    \A k \in 1..Len(out) :
        /\ Follows(PhaseAt(out, k - 1), IndexAt(out, k - 1), PhaseAt(out, k), IndexAt(out, k))
        /\ Proper(PhaseAt(out, k - 1), out[k])

Begins(base, out) ==
    /\ Len(base) <= Len(out)
    /\ \A k \in 1..Len(base) : out[k] = base[k]

(* Where events go on from, and whether the upstream kept to the protocol  *)
(* so far.                                                                 *)
From(wild, out) == [wild |-> wild, out |-> out]

(* Events that go on from base, that a client reads as one message, and    *)
(* that leave the client in a phase and before a block; after an upstream  *)
(* that did not stop when it had finished, events of any order.            *)
Reads(base, out, p, i) ==
    /\ base.out \in Seq(Events) /\ out \in Seq(Events)
    /\ Begins(base.out, out)
    /\ \/ base.wild
       \/ /\ Chained(out)
          /\ PhaseAt(out, Len(out)) = p /\ IndexAt(out, Len(out)) = i

LEMMA ReadsOne ==
  ASSUME NEW base, NEW out, NEW p, NEW i, Reads(base, out, p, i),
         NEW e \in Events, NEW q, NEW j, q = PhaseAfter(e), j = IndexAfter(e),
         Follows(p, i, q, j), Proper(p, e)
  PROVE  Reads(base, out \o <<e>>, q, j)
<1> DEFINE o == out \o <<e>>
           n == Len(out)
<1>1. base.out \in Seq(Events) /\ out \in Seq(Events) /\ Begins(base.out, out)
  BY DEF Reads
<1>2. o \in Seq(Events) /\ Len(o) = n + 1 /\ o[n + 1] = e /\ n \in Nat
      /\ \A k \in 1..n : o[k] = out[k]
  BY <1>1
<1> HIDE DEF o
<1>3. Begins(base.out, o)
  BY <1>1, <1>2 DEF Begins
<1>10. CASE base.wild
  <2>1. Reads(base, o, q, j)
    BY <1>1, <1>2, <1>3, <1>10 DEF Reads
  <2> QED
    BY <2>1 DEF o
<1>11. CASE ~base.wild
  <2>1. Chained(out)
    BY <1>11 DEF Reads
  <2>4. \A k \in 0..n : PhaseAt(o, k) = PhaseAt(out, k) /\ IndexAt(o, k) = IndexAt(out, k)
    BY <1>2 DEF PhaseAt, IndexAt
  <2>5. PhaseAt(o, n + 1) = q /\ IndexAt(o, n + 1) = j
    BY <1>2 DEF PhaseAt, IndexAt
  <2>6. PhaseAt(o, n) = p /\ IndexAt(o, n) = i
    BY <1>2, <1>11, <2>4 DEF Reads
  <2>7. ASSUME NEW k \in 1..Len(o)
        PROVE  /\ Follows(PhaseAt(o, k - 1), IndexAt(o, k - 1), PhaseAt(o, k), IndexAt(o, k))
               /\ Proper(PhaseAt(o, k - 1), o[k])
    <3>1. CASE k = n + 1
      <4>1. k - 1 = n
        BY <1>2, <3>1
      <4> QED
        BY <3>1, <4>1, <1>2, <2>5, <2>6
    <3>2. CASE k # n + 1
      <4>1. k \in 1..n /\ k - 1 \in 0..n /\ k \in 0..n
        BY <1>2, <3>2
      <4>2. /\ Follows(PhaseAt(out, k - 1), IndexAt(out, k - 1), PhaseAt(out, k), IndexAt(out, k))
            /\ Proper(PhaseAt(out, k - 1), out[k])
        BY <2>1, <4>1 DEF Chained
      <4> QED
        BY <4>1, <4>2, <1>2, <2>4
    <3> QED
      BY <3>1, <3>2
  <2>8. Chained(o)
    BY <2>7 DEF Chained
  <2>9. Reads(base, o, q, j)
    BY <1>1, <1>2, <1>3, <2>5, <2>8 DEF Reads
  <2> QED
    BY <2>9 DEF o
<1> QED
  BY <1>10, <1>11

LEMMA ReadsTwo ==
  ASSUME NEW base, NEW out, NEW p, NEW i, Reads(base, out, p, i),
         NEW a \in Events, NEW b \in Events,
         Follows(p, i, PhaseAfter(a), IndexAfter(a)), Proper(p, a),
         Follows(PhaseAfter(a), IndexAfter(a), PhaseAfter(b), IndexAfter(b)),
         Proper(PhaseAfter(a), b)
  PROVE  Reads(base, out \o <<a, b>>, PhaseAfter(b), IndexAfter(b))
<1>1. Reads(base, out \o <<a>>, PhaseAfter(a), IndexAfter(a))
  BY ReadsOne
<1>2. Reads(base, (out \o <<a>>) \o <<b>>, PhaseAfter(b), IndexAfter(b))
  BY <1>1, ReadsOne
<1>3. out \in Seq(Events)
  BY DEF Reads
<1>4. (out \o <<a>>) \o <<b>> = out \o <<a, b>>
  <2>1. <<a>> \in Seq(Events) /\ <<b>> \in Seq(Events) /\ <<a>> \o <<b>> = <<a, b>>
    BY OneAndTwo
  <2>2. (out \o <<a>>) \o <<b>> = out \o (<<a>> \o <<b>>)
    BY <1>3, <2>1, ConcatAssociative
  <2> QED
    BY <2>1, <2>2
<1> QED
  BY <1>2, <1>4

(* The events are typed, and where they leave the client.                  *)
LEMMA EventFacts ==
  ASSUME NEW i \in Nat, NEW kind \in Kinds, NEW d \in Nat, NEW g \in Nat
  PROVE  /\ MessageStart \in Events
         /\ PhaseAfter(MessageStart) = "open" /\ IndexAfter(MessageStart) = 0
         /\ Start(i, kind, d, g) \in Events
         /\ PhaseAfter(Start(i, kind, d, g)) = kind /\ IndexAfter(Start(i, kind, d, g)) = i
         /\ Delta(i, kind, d) \in Events
         /\ PhaseAfter(Delta(i, kind, d)) = kind /\ IndexAfter(Delta(i, kind, d)) = i
         /\ Signed(i, g) \in Events /\ IndexAfter(Signed(i, g)) = i
         /\ PhaseAfter(Signed(i, g)) = IF g = None THEN "thinking" ELSE "signed"
         /\ Stop(i, kind) \in Events
         /\ PhaseAfter(Stop(i, kind)) = "open" /\ IndexAfter(Stop(i, kind)) = i + 1
         /\ MessageStop(i) \in Events
         /\ PhaseAfter(MessageStop(i)) = "over" /\ IndexAfter(MessageStop(i)) = i
<1>1. kind \in Kinds \cup Reasons \cup {"none"}
  OBVIOUS
<1>2. MessageStart \in Events
      /\ PhaseAfter(MessageStart) = "open" /\ IndexAfter(MessageStart) = 0
  BY <1>1 DEF Event, Events, MessageStart, PhaseAfter, IndexAfter, Types, Kinds, None
<1>3. Start(i, kind, d, g) \in Events
      /\ PhaseAfter(Start(i, kind, d, g)) = kind /\ IndexAfter(Start(i, kind, d, g)) = i
  BY <1>1 DEF Event, Events, Start, PhaseAfter, IndexAfter, Types, Kinds, None
<1>4. Delta(i, kind, d) \in Events
      /\ PhaseAfter(Delta(i, kind, d)) = kind /\ IndexAfter(Delta(i, kind, d)) = i
  BY <1>1 DEF Event, Events, Delta, PhaseAfter, IndexAfter, Types, Kinds, None
<1>5. Signed(i, g) \in Events /\ IndexAfter(Signed(i, g)) = i
      /\ PhaseAfter(Signed(i, g)) = IF g = None THEN "thinking" ELSE "signed"
  BY <1>1 DEF Event, Events, Signed, PhaseAfter, IndexAfter, Types, Kinds, None
<1>6. Stop(i, kind) \in Events
      /\ PhaseAfter(Stop(i, kind)) = "open" /\ IndexAfter(Stop(i, kind)) = i + 1
  BY <1>1 DEF Event, Events, Stop, PhaseAfter, IndexAfter, Types, Kinds, None
<1>7. MessageStop(i) \in Events
      /\ PhaseAfter(MessageStop(i)) = "over" /\ IndexAfter(MessageStop(i)) = i
  BY <1>1 DEF Event, Events, MessageStop, PhaseAfter, IndexAfter, Types, Kinds, None
<1> QED
  BY <1>2, <1>3, <1>4, <1>5, <1>6, <1>7

(* ... and where a client may read them.                                   *)
LEMMA EventsProper ==
  ASSUME NEW i, NEW kind \in Kinds, NEW d, NEW g, NEW p
  PROVE  /\ Proper("before", MessageStart)
         /\ kind = "tool_use" \/ d = None => Proper("open", Start(i, kind, d, g))
         /\ Proper(kind, Delta(i, kind, d))
         /\ Proper("thinking", Signed(i, g))
         /\ p \in Kinds \cup {"signed"} => Proper(p, Stop(i, kind))
         /\ p \in {"open", "before"} => Proper(p, MessageDelta(i, d))
         /\ Proper("closing", MessageStop(i))
<1>1. Proper("before", MessageStart)
  BY DEF Proper, Event, MessageStart
<1>2. kind = "tool_use" \/ d = None => Proper("open", Start(i, kind, d, g))
  BY DEF Proper, Event, Start
<1>3. Proper(kind, Delta(i, kind, d))
  BY DEF Proper, Event, Delta
<1>4. Proper("thinking", Signed(i, g))
  BY DEF Proper, Event, Signed, Kinds
<1>5. p \in Kinds \cup {"signed"} => Proper(p, Stop(i, kind))
  BY DEF Proper, Event, Stop
<1>6. p \in {"open", "before"} => Proper(p, MessageDelta(i, d))
  BY DEF Proper, Event, MessageDelta
<1>7. Proper("closing", MessageStop(i))
  BY DEF Proper, Event, MessageStop
<1> QED
  BY <1>1, <1>2, <1>3, <1>4, <1>5, <1>6, <1>7

LEMMA ReasonFacts ==
  ASSUME NEW i \in Nat, NEW reason \in Reasons
  PROVE  /\ MessageDelta(i, reason) \in Events
         /\ PhaseAfter(MessageDelta(i, reason)) = "closing"
         /\ IndexAfter(MessageDelta(i, reason)) = i
BY DEF Event, Events, MessageDelta, PhaseAfter, IndexAfter, Types, None

-------------------------------------------------------------------------------
(* The phase a state of the translator leaves the client in.               *)
PhaseOf(t) ==
    IF t.stopped THEN "over"
    ELSE IF t.block # "none" THEN t.block
    ELSE IF t.started THEN "open" ELSE "before"

(* ... and the phase inside a message.                                     *)
Here(t) == IF t.block = "none" THEN "open" ELSE t.block

(* A message that has not begun has nothing to deliver.                    *)
Unbegun(t) == ~t.started => /\ t.block = "none" /\ t.index = 0
                            /\ t.trailing = None /\ t.grounding = Unsought

Fits(base, t) ==
    t \in States /\ Unbegun(t) /\ Reads(base, t.out, PhaseOf(t), t.index)

(* A message goes on after its end only if the upstream does.              *)
Going(base, t) == t.stopped => base.wild

(* What the steps inside a message keep.                                   *)
Inside(base, t) ==
    t \in States /\ t.started /\ Going(base, t) /\ Reads(base, t.out, Here(t), t.index)

LEMMA InsideFits ==
  ASSUME NEW base, NEW t
  PROVE  /\ Inside(base, t) => Fits(base, t) /\ Going(base, t) /\ t.started
         /\ Fits(base, t) /\ Going(base, t) /\ t.started => Inside(base, t)
BY DEF Inside, Fits, Going, Reads, PhaseOf, Here, Unbegun

LEMMA InitFits == Fits(From(FALSE, <<>>), NewState)
<1>1. NewState \in States
  BY DEF NewState, States, Searches, Kinds, None, Unsought, Sought
<1>2. Unbegun(NewState) /\ NewState.out = <<>> /\ NewState.index = 0
      /\ PhaseOf(NewState) = "before"
  BY DEF Unbegun, NewState, None, PhaseOf
<1>3. Reads(From(FALSE, <<>>), <<>>, "before", 0)
  BY DEF From, Reads, Begins, Chained, PhaseAt, IndexAt
<1> QED
  BY <1>1, <1>2, <1>3 DEF Fits

(* A typed state with some fields changed.                                 *)
LEMMA EmitTyped ==
  ASSUME NEW t \in States, NEW events \in Seq(Events)
  PROVE  LET u == Emit(t, events)
         IN  /\ u \in States /\ u.out = t.out \o events
             /\ u.block = t.block /\ u.index = t.index
             /\ u.started = t.started /\ u.stopped = t.stopped
             /\ u.usedTool = t.usedTool /\ u.pending = t.pending
             /\ u.trailing = t.trailing /\ u.grounding = t.grounding
<1>1. t.out \in Seq(Events)
  BY DEF States
<1>2. t.out \o events \in Seq(Events)
  BY <1>1
<1> QED
  BY <1>2 DEF Emit, States

(* One event, or two, more.                                                *)
LEMMA FitsOne ==
  ASSUME NEW base, NEW t \in States, NEW p, Reads(base, t.out, p, t.index), NEW e \in Events,
         Follows(p, t.index, PhaseAfter(e), IndexAfter(e)), Proper(p, e)
  PROVE  Reads(base, Emit(t, <<e>>).out, PhaseAfter(e), IndexAfter(e))
<1>2. Emit(t, <<e>>).out = t.out \o <<e>>
  BY OneAndTwo, EmitTyped
<1> QED
  BY <1>2, ReadsOne

LEMMA FitsTwo ==
  ASSUME NEW base, NEW t \in States, NEW p, Reads(base, t.out, p, t.index),
         NEW a \in Events, NEW b \in Events,
         Follows(p, t.index, PhaseAfter(a), IndexAfter(a)), Proper(p, a),
         Follows(PhaseAfter(a), IndexAfter(a), PhaseAfter(b), IndexAfter(b)),
         Proper(PhaseAfter(a), b)
  PROVE  Reads(base, Emit(t, <<a, b>>).out, PhaseAfter(b), IndexAfter(b))
<1>2. Emit(t, <<a, b>>).out = t.out \o <<a, b>>
  BY OneAndTwo, EmitTyped
<1> QED
  BY <1>2, ReadsTwo

LEMMA EmitMessageStartFits ==
  ASSUME NEW base, NEW t, Fits(base, t), Going(base, t)
  PROVE  LET u == EmitMessageStart(t)
         IN  Inside(base, u) /\ u.usedTool = t.usedTool /\ u.pending = t.pending
             /\ u.trailing = t.trailing /\ u.grounding = t.grounding
<1>1. CASE t.started
  BY <1>1, InsideFits DEF EmitMessageStart
<1>2. CASE ~t.started
  <2> DEFINE v == Emit(t, <<MessageStart>>)
             u == EmitMessageStart(t)
  <2>1. t \in States /\ t.block = "none" /\ t.index = 0
        /\ Reads(base, t.out, "before", t.index)
    BY <1>2 DEF Fits, Unbegun, PhaseOf, Going, Reads
  <2>2. MessageStart \in Events /\ PhaseAfter(MessageStart) = "open"
        /\ IndexAfter(MessageStart) = 0
    BY EventFacts DEF Kinds
  <2>3. Reads(base, v.out, "open", 0)
    <3>1. Follows("before", 0, "open", 0) /\ Proper("before", MessageStart)
      BY EventsProper DEF Follows, Kinds
    <3> QED
      BY <2>1, <2>2, <3>1, FitsOne
  <2>4. v \in States /\ v.block = "none" /\ v.index = 0 /\ v.stopped = t.stopped
        /\ v.usedTool = t.usedTool /\ v.pending = t.pending
        /\ v.trailing = t.trailing /\ v.grounding = t.grounding
    <3>1. <<MessageStart>> \in Seq(Events)
      BY <2>2, OneAndTwo
    <3> QED
      BY <2>1, <3>1, EmitTyped
  <2>5. u = [v EXCEPT !.started = TRUE]
    BY <1>2 DEF EmitMessageStart
  <2> HIDE DEF u, v
  <2>6. u \in States /\ u.started = TRUE /\ u.out = v.out /\ u.block = "none"
        /\ u.index = 0 /\ u.stopped = t.stopped
        /\ u.usedTool = t.usedTool /\ u.pending = t.pending
        /\ u.trailing = t.trailing /\ u.grounding = t.grounding
    BY <2>4, <2>5 DEF States
  <2>7. Here(u) = "open"
    BY <2>6 DEF Here
  <2>8. Inside(base, u)
    BY <2>3, <2>6, <2>7 DEF Inside, Going
  <2> QED
    BY <2>6, <2>8 DEF u
<1> QED
  BY <1>1, <1>2

(* Inside a message, a state with the same events, block and place fits.   *)
LEMMA SameEventsFit ==
  ASSUME NEW base, NEW t, Inside(base, t), NEW u \in States,
         u.out = t.out, u.block = t.block, u.index = t.index,
         u.started = t.started, u.stopped = t.stopped
  PROVE  Inside(base, u)
BY DEF Inside, Going, Here

(* Inside a message, a state with more events fits if they leave the       *)
(* client in its block and at its place.                                   *)
LEMMA MoreEventsFit ==
  ASSUME NEW base, NEW u \in States, u.started, Going(base, u),
         Reads(base, u.out, IF u.block = "none" THEN "open" ELSE u.block, u.index)
  PROVE  Inside(base, u)
BY DEF Inside, Here

(* A typed state whose block is ended.                                     *)
Ended(v, n, p) == [v EXCEPT !.index = n, !.block = "none", !.pending = p]

LEMMA EndTyped ==
  ASSUME NEW v \in States, NEW n \in Nat, NEW p \in Nat
  PROVE  /\ Ended(v, n, p) \in States
         /\ Ended(v, n, p).out = v.out /\ Ended(v, n, p).block = "none"
         /\ Ended(v, n, p).index = n /\ Ended(v, n, p).pending = p
         /\ Ended(v, n, p).started = v.started /\ Ended(v, n, p).stopped = v.stopped
         /\ Ended(v, n, p).usedTool = v.usedTool
         /\ Ended(v, n, p).trailing = v.trailing
         /\ Ended(v, n, p).grounding = v.grounding
<1>1. Ended(v, n, p) \in States
  BY DEF States, Ended
<1>2. /\ Ended(v, n, p).out = v.out /\ Ended(v, n, p).block = "none"
      /\ Ended(v, n, p).index = n /\ Ended(v, n, p).pending = p
  BY DEF States, Ended
<1>3. /\ Ended(v, n, p).started = v.started /\ Ended(v, n, p).stopped = v.stopped
      /\ Ended(v, n, p).usedTool = v.usedTool
      /\ Ended(v, n, p).trailing = v.trailing
      /\ Ended(v, n, p).grounding = v.grounding
  BY DEF States, Ended
<1> QED
  BY <1>1, <1>2, <1>3

LEMMA EndBlockFits ==
  ASSUME NEW base, NEW t, Inside(base, t)
  PROVE  Inside(base, EndBlock(t)) /\ EndBlock(t).block = "none"
<1>1. CASE t.block = "none"
  BY <1>1 DEF EndBlock
<1>2. CASE t.block # "none"
  <2> DEFINE signs == t.block = "thinking" /\ t.pending # None
             mark == Signed(t.index, t.pending)
             last == IF signs THEN <<mark>> ELSE <<>>
             left == IF signs THEN None ELSE t.pending
             stop == Stop(t.index, t.block)
             v == Emit(t, Append(last, stop))
             u == EndBlock(t)
  <2>1. t \in States /\ t.block \in Kinds /\ t.index \in Nat /\ t.pending \in Nat
        /\ Reads(base, t.out, t.block, t.index) /\ t.started /\ Going(base, t)
    BY <1>2 DEF Inside, Here, States
  <2>2. stop \in Events /\ PhaseAfter(stop) = "open" /\ IndexAfter(stop) = t.index + 1
    BY <2>1, EventFacts
  <2>3. mark \in Events /\ IndexAfter(mark) = t.index
        /\ (signs => PhaseAfter(mark) = "signed")
    BY <2>1, EventFacts
  <2>10. Proper(t.block, stop) /\ Proper("signed", stop) /\ Proper("thinking", mark)
    BY <2>1, EventsProper
  <2>4. Append(last, stop) \in Seq(Events) /\ Reads(base, v.out, "open", t.index + 1)
    <3> HIDE DEF stop, mark
    <3>1. CASE signs
      <4>1. Append(last, stop) = <<mark, stop>> /\ <<mark, stop>> \in Seq(Events)
        <5>1. last = <<mark>>
          BY <3>1
        <5> HIDE DEF last
        <5>2. Append(<<mark>>, stop) = <<mark, stop>> /\ <<mark, stop>> \in Seq(Events)
          BY <2>2, <2>3, OneAndTwo
        <5> QED
          BY <5>1, <5>2
      <4>2. Follows(t.block, t.index, "signed", t.index)
            /\ Follows("signed", t.index, "open", t.index + 1)
        BY <3>1, <2>1 DEF Follows
      <4> QED
        BY <3>1, <4>1, <4>2, <2>1, <2>2, <2>3, <2>10, FitsTwo
    <3>2. CASE ~signs
      <4>1. Append(last, stop) = <<stop>> /\ <<stop>> \in Seq(Events)
        BY <3>2, <2>2, OneAndTwo
      <4>2. Follows(t.block, t.index, "open", t.index + 1)
        BY <2>1 DEF Follows
      <4> QED
        BY <4>1, <4>2, <2>1, <2>2, <2>10, FitsOne
    <3> QED
      BY <3>1, <3>2
  <2>5. v \in States /\ v.started = t.started /\ v.stopped = t.stopped
    <3> HIDE DEF stop, last
    <3> QED
      BY <2>1, <2>4, EmitTyped
  <2>6. u = Ended(v, t.index + 1, left)
    BY <1>2 DEF EndBlock, Ended
  <2>9. left \in Nat
    BY <2>1 DEF None
  <2> HIDE DEF u, v, left, signs, last, stop, mark
  <2>7. u \in States /\ u.out = v.out /\ u.block = "none" /\ u.index = t.index + 1
        /\ u.started = t.started /\ u.stopped = t.stopped
    <3>1. t.index + 1 \in Nat
      BY <2>1
    <3> QED
      BY <3>1, <2>5, <2>6, <2>9, EndTyped, ZenonT(60)
  <2>8. Inside(base, u)
    BY <2>1, <2>4, <2>7, MoreEventsFit DEF Going
  <2> QED
    BY <2>7, <2>8 DEF u
<1> QED
  BY <1>1, <1>2

LEMMA StartBlockFits ==
  ASSUME NEW base, NEW t, Inside(base, t), NEW kind \in Kinds,
         NEW d \in Nat, NEW g \in Nat, kind = "tool_use" \/ d = None
  PROVE  Inside(base, StartBlock(t, kind, d, g)) /\ StartBlock(t, kind, d, g).block = kind
<1> DEFINE w == EndBlock(t)
           e == Start(w.index, kind, d, g)
           v == Emit(w, <<e>>)
           u == StartBlock(t, kind, d, g)
<1>1. Inside(base, w) /\ w.block = "none"
  BY EndBlockFits
<1>2. u = [v EXCEPT !.block = kind]
  BY DEF StartBlock
<1> HIDE DEF w, u
<1>3. w \in States /\ w.index \in Nat /\ Reads(base, w.out, "open", w.index)
      /\ w.started /\ Going(base, w)
  BY <1>1 DEF Inside, Here, States
<1>4. e \in Events /\ PhaseAfter(e) = kind /\ IndexAfter(e) = w.index
  BY <1>3, EventFacts
<1>9. Proper("open", e)
  BY EventsProper
<1> HIDE DEF e
<1>5. Reads(base, v.out, kind, w.index)
  <2>1. Follows("open", w.index, kind, w.index)
    BY DEF Follows
  <2> QED
    BY <2>1, <1>3, <1>4, <1>9, FitsOne
<1>6. v \in States /\ v.started = w.started /\ v.stopped = w.stopped /\ v.index = w.index
  BY <1>3, <1>4, OneAndTwo, EmitTyped
<1> HIDE DEF v
<1>7. u \in States /\ u.out = v.out /\ u.block = kind /\ u.index = w.index
      /\ u.started = w.started /\ u.stopped = w.stopped
  BY <1>2, <1>6 DEF States
<1>8. Inside(base, u)
  <2>1. kind # "none"
    BY DEF Kinds
  <2> QED
    BY <2>1, <1>3, <1>5, <1>7, MoreEventsFit DEF Going
<1> QED
  BY <1>7, <1>8 DEF u

LEMMA EmitDeltaFits ==
  ASSUME NEW base, NEW t, Inside(base, t), t.block # "none", NEW d \in Nat
  PROVE  Inside(base, EmitDelta(t, d)) /\ EmitDelta(t, d).block = t.block
<1> DEFINE e == Delta(t.index, t.block, d)
           u == Emit(t, <<e>>)
<1>1. t \in States /\ t.index \in Nat /\ t.block \in Kinds
      /\ Reads(base, t.out, t.block, t.index) /\ t.started /\ Going(base, t)
  BY DEF Inside, Here, States
<1>2. e \in Events /\ PhaseAfter(e) = t.block /\ IndexAfter(e) = t.index
  BY <1>1, EventFacts
<1>7. Proper(t.block, e)
  BY <1>1, EventsProper
<1> HIDE DEF e
<1>3. Reads(base, u.out, t.block, t.index)
  <2>1. Follows(t.block, t.index, t.block, t.index)
    BY DEF Follows
  <2> QED
    BY <2>1, <1>1, <1>2, <1>7, FitsOne
<1>4. u \in States /\ u.started = t.started /\ u.stopped = t.stopped /\ u.index = t.index
      /\ u.block = t.block
  BY <1>1, <1>2, OneAndTwo, EmitTyped, ZenonT(60)
<1> HIDE DEF u
<1>5. Inside(base, u)
  BY <1>1, <1>3, <1>4, MoreEventsFit DEF Going
<1>6. EmitDelta(t, d) = u
  BY DEF EmitDelta, u, e
<1> QED
  BY <1>4, <1>5, <1>6

(* What the translator remembers besides its block does not show.          *)
LEMMA MemoryFits ==
  ASSUME NEW base, NEW t, Inside(base, t), NEW n \in Nat, NEW b \in BOOLEAN
  PROVE  /\ Inside(base, [t EXCEPT !.pending = n])
         /\ Inside(base, [t EXCEPT !.trailing = n])
         /\ Inside(base, [t EXCEPT !.usedTool = b])
         /\ [t EXCEPT !.pending = n].block = t.block
         /\ [t EXCEPT !.trailing = n].block = t.block
         /\ [t EXCEPT !.usedTool = b].block = t.block
<1>1. t \in States
  BY DEF Inside
<1>2. ASSUME NEW u, u = [t EXCEPT !.pending = n]
      PROVE  Inside(base, u) /\ u.block = t.block
  <2>1. u \in States /\ u.out = t.out /\ u.block = t.block /\ u.index = t.index
        /\ u.started = t.started /\ u.stopped = t.stopped
    BY <1>1, <1>2 DEF States
  <2> QED
    BY <2>1, SameEventsFit
<1>3. ASSUME NEW u, u = [t EXCEPT !.trailing = n]
      PROVE  Inside(base, u) /\ u.block = t.block
  <2>1. u \in States /\ u.out = t.out /\ u.block = t.block /\ u.index = t.index
        /\ u.started = t.started /\ u.stopped = t.stopped
    BY <1>1, <1>3 DEF States
  <2> QED
    BY <2>1, SameEventsFit
<1>5. ASSUME NEW u, u = [t EXCEPT !.usedTool = b]
      PROVE  Inside(base, u) /\ u.block = t.block
  <2>1. u \in States /\ u.out = t.out /\ u.block = t.block /\ u.index = t.index
        /\ u.started = t.started /\ u.stopped = t.stopped
    BY <1>1, <1>5 DEF States
  <2> QED
    BY <2>1, SameEventsFit
<1> QED
  BY <1>2, <1>3, <1>5

(* ... and neither does what it knows of a search.                         *)
Grounded(v, x) == [v EXCEPT !.grounding = x]

LEMMA GroundedFits ==
  ASSUME NEW base, NEW t, Inside(base, t), NEW h \in Searches
  PROVE  Inside(base, Grounded(t, h)) /\ Grounded(t, h).block = t.block
<1> DEFINE u == Grounded(t, h)
<1>1. t \in States
  BY DEF Inside
<1>2. u \in States /\ u.out = t.out /\ u.block = t.block /\ u.index = t.index
      /\ u.started = t.started /\ u.stopped = t.stopped
  BY <1>1 DEF States, Grounded
<1> HIDE DEF u
<1>3. Inside(base, u)
  BY <1>2, SameEventsFit
<1> QED
  BY <1>2, <1>3 DEF u

(* Deltas that leave a block open, or a thinking block signed.             *)
Carries(base, deltas, kind, p, i) ==
    \A out : Reads(base, out, kind, i) => Reads(base, out \o deltas, p, i)

LEMMA DeltasCarry ==
  ASSUME NEW base, NEW i \in Nat, NEW kind \in Kinds, NEW d \in Nat, NEW x \in Nat
  PROVE  /\ <<Delta(i, kind, d), Delta(i, kind, x)>> \in Seq(Events)
         /\ Carries(base, <<Delta(i, kind, d), Delta(i, kind, x)>>, kind, kind, i)
<1> DEFINE a == Delta(i, kind, d)
           b == Delta(i, kind, x)
<1>1. a \in Events /\ PhaseAfter(a) = kind /\ IndexAfter(a) = i
      /\ b \in Events /\ PhaseAfter(b) = kind /\ IndexAfter(b) = i
  BY EventFacts
<1>2. Proper(kind, a) /\ Proper(kind, b)
  BY EventsProper
<1> HIDE DEF a, b
<1>3. Carries(base, <<a, b>>, kind, kind, i)
  <2>1. Follows(kind, i, kind, i)
    BY DEF Follows
  <2> QED
    BY <1>1, <1>2, <2>1, ReadsTwo DEF Carries
<1>4. <<a, b>> \in Seq(Events)
  BY <1>1, OneAndTwo
<1> QED
  BY <1>3, <1>4 DEF a, b

LEMMA ThinkingCarries ==
  ASSUME NEW base, NEW i \in Nat, NEW d \in Nat, NEW g \in Nat
  PROVE  /\ <<Delta(i, "thinking", d), Signed(i, g)>> \in Seq(Events)
         /\ \E p \in {"thinking", "signed"} :
               Carries(base, <<Delta(i, "thinking", d), Signed(i, g)>>, "thinking", p, i)
<1> DEFINE b == Delta(i, "thinking", d)
           e == Signed(i, g)
           p == IF g = None THEN "thinking" ELSE "signed"
<1>1. b \in Events /\ PhaseAfter(b) = "thinking" /\ IndexAfter(b) = i
  BY EventFacts DEF Kinds
<1>2. e \in Events /\ PhaseAfter(e) = p /\ IndexAfter(e) = i
  BY EventFacts DEF Kinds
<1>3. Proper("thinking", e) /\ Proper("thinking", b)
  BY EventsProper DEF Kinds
<1> HIDE DEF b, e
<1>4. Carries(base, <<b, e>>, "thinking", p, i)
  <2>1. Follows("thinking", i, "thinking", i) /\ Follows("thinking", i, p, i)
    BY DEF Follows
  <2> QED
    BY <1>1, <1>2, <1>3, <2>1, ReadsTwo DEF Carries
<1>5. <<b, e>> \in Seq(Events)
  BY <1>1, <1>2, OneAndTwo
<1>6. p \in {"thinking", "signed"}
  OBVIOUS
<1> QED
  BY <1>4, <1>5, <1>6 DEF b, e

(* A typed state at another place.                                         *)
Moved(v, n) == [v EXCEPT !.index = n]

LEMMA MovedTyped ==
  ASSUME NEW v \in States, NEW n \in Nat
  PROVE  /\ Moved(v, n) \in States
         /\ Moved(v, n).out = v.out /\ Moved(v, n).block = v.block
         /\ Moved(v, n).index = n
         /\ Moved(v, n).started = v.started /\ Moved(v, n).stopped = v.stopped
BY DEF Moved, States

LEMMA WholeFits ==
  ASSUME NEW base, NEW t, Inside(base, t), t.block = "none", NEW kind \in Kinds,
         NEW deltas \in Seq(Events), NEW p \in {kind, "signed"},
         Carries(base, deltas, kind, p, t.index)
  PROVE  Inside(base, Whole(t, kind, deltas)) /\ Whole(t, kind, deltas).block = "none"
<1> DEFINE start == Start(t.index, kind, None, None)
           stop == Stop(t.index, kind)
           events == <<start>> \o deltas \o <<stop>>
           v == Emit(t, events)
           u == Whole(t, kind, deltas)
<1>1. t \in States /\ t.out \in Seq(Events) /\ t.index \in Nat
      /\ Reads(base, t.out, "open", t.index) /\ t.started /\ Going(base, t)
  BY DEF Inside, Here, States
<1>2. start \in Events /\ PhaseAfter(start) = kind /\ IndexAfter(start) = t.index
      /\ stop \in Events /\ PhaseAfter(stop) = "open" /\ IndexAfter(stop) = t.index + 1
  BY <1>1, EventFacts DEF None
<1>13. Proper("open", start) /\ Proper(p, stop)
  BY EventsProper
<1> HIDE DEF start, stop
<1>3. <<start>> \in Seq(Events) /\ <<stop>> \in Seq(Events)
  BY <1>2, OneAndTwo
<1>4. Reads(base, t.out \o <<start>>, kind, t.index)
  <2>1. Follows("open", t.index, kind, t.index)
    BY DEF Follows
  <2> QED
    BY <2>1, <1>1, <1>2, <1>13, ReadsOne
<1>5. Reads(base, (t.out \o <<start>>) \o deltas, p, t.index)
  BY <1>4 DEF Carries
<1>6. Reads(base, ((t.out \o <<start>>) \o deltas) \o <<stop>>, "open", t.index + 1)
  <2>1. Follows(p, t.index, "open", t.index + 1)
    BY DEF Follows
  <2> QED
    BY <2>1, <1>2, <1>5, <1>13, ReadsOne
<1>7. /\ ((t.out \o <<start>>) \o deltas) \o <<stop>> = t.out \o events
      /\ events \in Seq(Events)
  <2> DEFINE a == t.out
             b == <<start>>
             c == <<stop>>
  <2>1. a \in Seq(Events) /\ b \in Seq(Events) /\ c \in Seq(Events)
    BY <1>1, <1>3
  <2> DEFINE d == b \o deltas
  <2>2. events = d \o c
    OBVIOUS
  <2> HIDE DEF a, b, c, events, v, u
  <2>3. (a \o b) \o deltas = a \o d /\ d \in Seq(Events)
    <3>1. deltas \in Seq(Events)
      OBVIOUS
    <3>2. (a \o b) \o deltas = a \o (b \o deltas)
      BY ONLY <2>1, <3>1, ConcatAssociative, SMTT(60)
    <3>3. b \o deltas \in Seq(Events)
      BY ONLY <2>1, <3>1, ConcatProperties
    <3> QED
      BY <3>2, <3>3
  <2> HIDE DEF d
  <2>7. a \in Seq(Events) /\ d \in Seq(Events) /\ c \in Seq(Events)
    BY <2>1, <2>3
  <2>4. (a \o d) \o c = a \o (d \o c)
    BY <2>7, ConcatAssociative, SMTT(60)
  <2>6. d \o c \in Seq(Events)
    BY <2>7, ConcatProperties
  <2>5. ((a \o b) \o deltas) \o c = a \o events /\ events \in Seq(Events)
    BY <2>2, <2>3, <2>4, <2>6
  <2> QED
    BY <2>5 DEF a, b, c
<1> HIDE DEF events
<1>9. v \in States /\ v.out = t.out \o events /\ v.block = "none" /\ v.index = t.index
      /\ v.started = t.started /\ v.stopped = t.stopped
  BY <1>1, <1>7, EmitTyped
<1>10. u = Moved(v, t.index + 1)
  BY DEF Whole, Moved, events, start, stop
<1> HIDE DEF u, v
<1>11. u \in States /\ u.out = v.out /\ u.block = "none" /\ u.index = t.index + 1
       /\ u.started = t.started /\ u.stopped = t.stopped
  <2>1. t.index + 1 \in Nat
    BY <1>1
  <2> QED
    BY <2>1, <1>9, <1>10, MovedTyped
<1>12. Inside(base, u)
  BY <1>1, <1>6, <1>7, <1>9, <1>11, MoreEventsFit DEF Going
<1> QED
  BY <1>11, <1>12 DEF u

LEMMA InsideFacts ==
  ASSUME NEW base, NEW t, Inside(base, t)
  PROVE  /\ t \in States /\ t.index \in Nat /\ t.pending \in Nat
         /\ t.trailing \in Nat /\ t.grounding \in Searches
         /\ t.block \in Kinds \cup {"none"} /\ t.out \in Seq(Events)
BY DEF Inside, States

LEMMA EmptyThinkingFits ==
  ASSUME NEW base, NEW t, Inside(base, t), t.block = "none", NEW sig \in Nat
  PROVE  Inside(base, EmptyThinking(t, sig)) /\ EmptyThinking(t, sig).block = "none"
<1> DEFINE deltas == <<Delta(t.index, "thinking", None), Signed(t.index, sig)>>
<1>1. t.index \in Nat /\ None \in Nat /\ "thinking" \in Kinds
  BY InsideFacts DEF None, Kinds
<1>2. deltas \in Seq(Events)
      /\ \E p \in {"thinking", "signed"} : Carries(base, deltas, "thinking", p, t.index)
  BY <1>1, ThinkingCarries
<1>3. EmptyThinking(t, sig) = Whole(t, "thinking", deltas)
  BY DEF EmptyThinking
<1> HIDE DEF deltas
<1>4. PICK p \in {"thinking", "signed"} : Carries(base, deltas, "thinking", p, t.index)
  BY <1>2
<1>5. Inside(base, Whole(t, "thinking", deltas)) /\ Whole(t, "thinking", deltas).block = "none"
  BY <1>1, <1>2, <1>4, WholeFits
<1> QED
  BY <1>3, <1>5

LEMMA FlushTrailingFits ==
  ASSUME NEW base, NEW t, Inside(base, t)
  PROVE  Inside(base, FlushTrailing(t))
<1>1. CASE t.trailing = None
  BY <1>1 DEF FlushTrailing
<1>2. CASE t.trailing # None
  <2> DEFINE w == EndBlock(t)
             v == EmptyThinking(w, t.trailing)
  <2>1. Inside(base, w) /\ w.block = "none" /\ t.trailing \in Nat
    BY EndBlockFits, InsideFacts
  <2>2. FlushTrailing(t) = [v EXCEPT !.trailing = None]
    BY <1>2 DEF FlushTrailing
  <2> HIDE DEF w
  <2>3. Inside(base, v)
    BY <2>1, EmptyThinkingFits
  <2> HIDE DEF v
  <2>4. None \in Nat /\ TRUE \in BOOLEAN
    BY DEF None
  <2>5. Inside(base, [v EXCEPT !.trailing = None])
    BY <2>3, <2>4, MemoryFits
  <2> QED
    BY <2>2, <2>5
<1> QED
  BY <1>1, <1>2

LEMMA WithinFits ==
  ASSUME NEW base, NEW t, Inside(base, t), NEW kind \in Kinds
  PROVE  Inside(base, Within(t, kind)) /\ Within(t, kind).block = kind
<1>1. None \in Nat
  BY DEF None
<1> QED
  BY <1>1, StartBlockFits DEF Within

LEMMA ProcessThinkingFits ==
  ASSUME NEW base, NEW t, Inside(base, t), NEW text \in Nat, NEW sig \in Nat
  PROVE  Inside(base, ProcessThinking(t, text, sig))
<1> DEFINE v == FlushTrailing(t)
           w == Within(v, "thinking")
           u == IF text = None THEN w ELSE EmitDelta(w, text)
<1>1. Inside(base, v)
  BY FlushTrailingFits
<1>2. ProcessThinking(t, text, sig) = IF sig = None THEN u ELSE [u EXCEPT !.pending = sig]
  BY DEF ProcessThinking
<1> HIDE DEF v
<1>3. Inside(base, w) /\ w.block # "none"
  BY <1>1, WithinFits DEF Kinds
<1> HIDE DEF w
<1>4. Inside(base, u)
  BY <1>3, EmitDeltaFits
<1> HIDE DEF u
<1>5. Inside(base, [u EXCEPT !.pending = sig])
  BY <1>4, MemoryFits
<1> QED
  BY <1>2, <1>4, <1>5

LEMMA ProcessTextFits ==
  ASSUME NEW base, NEW t, Inside(base, t), NEW text \in Nat, NEW sig \in Nat
  PROVE  Inside(base, ProcessText(t, text, sig))
<1> DEFINE v == FlushTrailing(t)
<1>1. Inside(base, v) /\ None \in Nat /\ "text" \in Kinds /\ "text" # "none"
  BY FlushTrailingFits DEF None, Kinds
<1>2. CASE text = None
  <2>1. Inside(base, [t EXCEPT !.trailing = sig])
    BY MemoryFits
  <2> QED
    BY <1>2, <2>1 DEF ProcessText
<1>3. CASE text # None /\ sig = None
  <2> DEFINE w == Within(v, "text")
  <2>1. ProcessText(t, text, sig) = EmitDelta(w, text)
    BY <1>3 DEF ProcessText
  <2> HIDE DEF v
  <2>2. Inside(base, w) /\ w.block # "none"
    BY <1>1, WithinFits
  <2> HIDE DEF w
  <2> QED
    BY <2>1, <2>2, EmitDeltaFits
<1>4. CASE text # None /\ sig # None
  <2> DEFINE w == StartBlock(v, "text", None, None)
             x == EmitDelta(w, text)
             y == EndBlock(x)
  <2>1. ProcessText(t, text, sig) = EmptyThinking(y, sig)
    BY <1>4 DEF ProcessText
  <2> HIDE DEF v
  <2>2. Inside(base, w) /\ w.block # "none"
    BY <1>1, StartBlockFits
  <2> HIDE DEF w
  <2>3. Inside(base, x)
    BY <2>2, EmitDeltaFits
  <2> HIDE DEF x
  <2>4. Inside(base, y) /\ y.block = "none"
    BY <2>3, EndBlockFits
  <2> HIDE DEF y
  <2> QED
    BY <2>1, <2>4, EmptyThinkingFits
<1> QED
  BY <1>2, <1>3, <1>4

LEMMA ProcessFunctionCallFits ==
  ASSUME NEW base, NEW t, Inside(base, t), NEW part \in GeminiParts
  PROVE  Inside(base, ProcessFunctionCall(t, part))
<1> DEFINE f == FlushTrailing(t)
           v == [f EXCEPT !.usedTool = TRUE]
           w == StartBlock(v, "tool_use", part.text, part.sig)
           x == IF part.kind = "bare" THEN w ELSE EmitDelta(w, part.text)
<1>1. part.text \in Nat /\ part.sig \in Nat /\ "tool_use" \in Kinds /\ "tool_use" # "none"
  BY DEF GeminiParts, Kinds
<1>2. ProcessFunctionCall(t, part) = EndBlock(x)
  BY DEF ProcessFunctionCall
<1>3. Inside(base, f)
  BY FlushTrailingFits
<1> HIDE DEF f
<1>4. Inside(base, v)
  BY <1>3, MemoryFits
<1> HIDE DEF v
<1>5. Inside(base, w) /\ w.block # "none"
  BY <1>1, <1>4, StartBlockFits
<1> HIDE DEF w
<1>6. Inside(base, x)
  BY <1>1, <1>5, EmitDeltaFits
<1> HIDE DEF x
<1> QED
  BY <1>2, <1>6, EndBlockFits

(* Every part of an answer keeps the message well formed ...               *)
LEMMA ProcessPartFits ==
  ASSUME NEW base, NEW t, Inside(base, t), NEW part \in GeminiParts
  PROVE  Inside(base, ProcessPart(t, part))
<1>1. part.text \in Nat /\ part.sig \in Nat /\ None \in Nat
  BY DEF GeminiParts, None
<1>2. /\ Inside(base, ProcessFunctionCall(t, part))
      /\ Inside(base, ProcessThinking(t, part.text, part.sig))
      /\ Inside(base, ProcessText(t, None, part.sig))
      /\ Inside(base, ProcessText(t, part.text, part.sig))
  BY <1>1, ProcessFunctionCallFits, ProcessThinkingFits, ProcessTextFits
<1>3. \/ ProcessPart(t, part) = ProcessFunctionCall(t, part)
      \/ ProcessPart(t, part) = ProcessThinking(t, part.text, part.sig)
      \/ ProcessPart(t, part) = ProcessText(t, None, part.sig)
      \/ ProcessPart(t, part) = ProcessText(t, part.text, part.sig)
      \/ ProcessPart(t, part) = t
  BY DEF ProcessPart
<1> QED
  BY <1>2, <1>3

(* ... and so does a line of any number of them.                           *)
LEMMA ReadParts ==
  ASSUME NEW t, NEW parts, Len(parts) \in Nat
  PROVE  \E read : /\ ProcessParts(t, parts) = read[Len(parts)]
                   /\ read[0] = t
                   /\ \A i \in 1..Len(parts) :
                         read[i] = ProcessPart(read[i - 1], parts[i])
<1> DEFINE D(f, n) == [k \in 0..n |-> IF k = 0 THEN t ELSE ProcessPart(f[k - 1], parts[k])]
           P(n) == \E f : f = D(f, n)
           S == {n \in Nat : P(n)}
<1>1. 0 \in S
  <2> DEFINE g == [k \in 0..0 |-> t]
  <2>1. g = D(g, 0)
    OBVIOUS
  <2> QED
    BY <2>1
<1>2. ASSUME NEW n \in Nat, n \in S PROVE n + 1 \in S
  <2>1. PICK f : f = D(f, n)
    BY <1>2
  <2> DEFINE g == [k \in 0..n + 1 |-> IF k <= n THEN f[k] ELSE ProcessPart(f[n], parts[k])]
  <2>2. ASSUME NEW k \in 0..n
        PROVE  f[k] = IF k = 0 THEN t ELSE ProcessPart(f[k - 1], parts[k])
    BY <2>1, <1>2
  <2>3. ASSUME NEW k \in 0..n + 1
        PROVE  g[k] = IF k = 0 THEN t ELSE ProcessPart(g[k - 1], parts[k])
    <3>1. CASE k <= n
      <4>1. g[k] = f[k] /\ f[k] = IF k = 0 THEN t ELSE ProcessPart(f[k - 1], parts[k])
        BY <2>2, <3>1
      <4>2. k # 0 => k - 1 \in 0..n /\ g[k - 1] = f[k - 1]
        BY <3>1
      <4> QED
        BY <4>1, <4>2
    <3>2. CASE k = n + 1
      <4>1. k - 1 = n /\ g[n] = f[n] /\ k # 0 /\ g[k] = ProcessPart(f[n], parts[k])
        BY <3>2, <1>2
      <4> QED
        BY <4>1
    <3> QED
      BY <3>1, <3>2
  <2>4. g = D(g, n + 1)
    BY <2>3
  <2> HIDE DEF g
  <2>5. P(n + 1)
    BY <2>4
  <2> HIDE DEF P
  <2> QED
    BY <2>5, <1>2
<1>3. Nat \subseteq S
  <2> HIDE DEF S
  <2> QED
    BY <1>1, <1>2, SetInduction
<1>4. \E f : f = D(f, Len(parts))
  BY <1>3
<1> DEFINE read == CHOOSE f : f = D(f, Len(parts))
<1>5. read = D(read, Len(parts))
  BY <1>4
<1>6. ProcessParts(t, parts) = read[Len(parts)]
  BY DEF ProcessParts
<1> HIDE DEF read
<1>7. read[0] = t
  BY <1>5
<1>8. ASSUME NEW k \in 1..Len(parts)
      PROVE  read[k] = ProcessPart(read[k - 1], parts[k])
  BY <1>5
<1> QED
  BY <1>6, <1>7, <1>8

LEMMA ProcessPartsFits ==
  ASSUME NEW base, NEW t, Inside(base, t), NEW parts \in Seq(GeminiParts)
  PROVE  Inside(base, ProcessParts(t, parts))
<1>1. Len(parts) \in Nat
  OBVIOUS
<1>2. PICK read : /\ ProcessParts(t, parts) = read[Len(parts)]
                  /\ read[0] = t
                  /\ \A i \in 1..Len(parts) :
                         read[i] = ProcessPart(read[i - 1], parts[i])
  BY <1>1, ReadParts
<1> DEFINE S == {n \in Nat : n <= Len(parts) => Inside(base, read[n])}
<1>3. 0 \in S
  BY <1>2
<1>4. ASSUME NEW n \in Nat, n \in S PROVE n + 1 \in S
  <2>1. SUFFICES ASSUME n + 1 <= Len(parts) PROVE Inside(base, read[n + 1])
    OBVIOUS
  <2>2. Inside(base, read[n]) /\ n + 1 \in 1..Len(parts) /\ (n + 1) - 1 = n
    BY <2>1, <1>4, <1>1
  <2>3. read[n + 1] = ProcessPart(read[n], parts[n + 1]) /\ parts[n + 1] \in GeminiParts
    BY <2>2, <1>2
  <2> QED
    BY <2>2, <2>3, ProcessPartFits
<1>5. Nat \subseteq S
  <2> HIDE DEF S
  <2> QED
    BY <1>3, <1>4, SetInduction
<1> QED
  BY <1>1, <1>2, <1>5

(* The end of a message: its last blocks, its reason and its stop.         *)
LEMMA SignedFits ==
  ASSUME NEW base, NEW t, Inside(base, t), t.block = "none"
  PROVE  LET u == IF t.trailing = None THEN t
                  ELSE [EmptyThinking(t, t.trailing) EXCEPT !.trailing = None]
         IN  Inside(base, u) /\ u.block = "none"
<1> DEFINE v == EmptyThinking(t, t.trailing)
<1>1. Inside(base, v) /\ v.block = "none"
  BY InsideFacts, EmptyThinkingFits
<1> HIDE DEF v
<1>2. None \in Nat /\ TRUE \in BOOLEAN
  BY DEF None
<1>3. Inside(base, [v EXCEPT !.trailing = None]) /\ [v EXCEPT !.trailing = None].block = "none"
  BY <1>1, <1>2, MemoryFits, ZenonT(60)
<1> QED
  BY <1>3 DEF v

LEMMA SourcedFits ==
  ASSUME NEW base, NEW t, Inside(base, t), t.block = "none"
  PROVE  Inside(base, EmitGrounding(t)) /\ EmitGrounding(t).block = "none"
<1> DEFINE q == t.grounding.query
           l == t.grounding.links
           deltas == <<Delta(t.index, "text", q), Delta(t.index, "text", l)>>
           v == Whole(t, "text", deltas)
<1>1. t.index \in Nat /\ q \in Nat /\ l \in Nat /\ "text" \in Kinds
  BY InsideFacts DEF Searches, Kinds
<1>2. EmitGrounding(t) = IF t.grounding = Unsought THEN t ELSE Grounded(v, Unsought)
  BY DEF EmitGrounding, Grounded
<1>3. deltas \in Seq(Events) /\ Carries(base, deltas, "text", "text", t.index)
  <2> HIDE DEF q, l, deltas
  <2>1. /\ <<Delta(t.index, "text", q), Delta(t.index, "text", l)>> \in Seq(Events)
        /\ Carries(base, <<Delta(t.index, "text", q), Delta(t.index, "text", l)>>,
                   "text", "text", t.index)
    BY <1>1, DeltasCarry
  <2> QED
    BY <2>1 DEF deltas
<1> HIDE DEF deltas
<1>4. Inside(base, v) /\ v.block = "none"
  BY <1>1, <1>3, WholeFits
<1> HIDE DEF v
<1>5. Unsought \in Searches
  BY DEF Unsought, Sought, Searches, None
<1>6. Inside(base, Grounded(v, Unsought)) /\ Grounded(v, Unsought).block = "none"
  BY <1>4, <1>5, GroundedFits
<1> QED
  BY <1>2, <1>6

(* A typed state of a message that is over.                                *)
Over(v) == [v EXCEPT !.stopped = TRUE]

LEMMA OverTyped ==
  ASSUME NEW v \in States
  PROVE  /\ Over(v) \in States
         /\ Over(v).out = v.out /\ Over(v).index = v.index /\ Over(v).stopped
         /\ Over(v).block = v.block /\ Over(v).started = v.started
         /\ Over(v).trailing = v.trailing /\ Over(v).grounding = v.grounding
BY DEF Over, States

LEMMA ClosingFits ==
  ASSUME NEW base, NEW t, Fits(base, t), Going(base, t), t.block = "none",
         NEW reason \in Reasons
  PROVE  Fits(base, Over(Emit(t, <<MessageDelta(t.index, reason)>>
                                 \o (IF t.stopped THEN <<>> ELSE <<MessageStop(t.index)>>))))
<1> DEFINE a == MessageDelta(t.index, reason)
           b == MessageStop(t.index)
           events == <<a>> \o (IF t.stopped THEN <<>> ELSE <<b>>)
           v == Emit(t, events)
           u == Over(v)
<1>1. t \in States /\ t.index \in Nat /\ Unbegun(t)
  BY DEF Fits, States
<1>2. /\ a \in Events /\ PhaseAfter(a) = "closing" /\ IndexAfter(a) = t.index
      /\ b \in Events /\ PhaseAfter(b) = "over" /\ IndexAfter(b) = t.index
  <2>1. a \in Events /\ PhaseAfter(a) = "closing" /\ IndexAfter(a) = t.index
    BY <1>1, ReasonFacts
  <2>2. 0 \in Nat /\ "text" \in Kinds
    BY DEF Kinds
  <2>3. b \in Events /\ PhaseAfter(b) = "over" /\ IndexAfter(b) = t.index
    BY <1>1, <2>2, EventFacts
  <2> QED
    BY <2>1, <2>3
<1>10. PICK p \in {"open", "before"} : Reads(base, t.out, p, t.index)
  BY DEF Fits, Going, Reads, PhaseOf
<1>9. Proper(p, a) /\ Proper("closing", b)
  BY EventsProper DEF Kinds
<1>11. Follows(p, t.index, "closing", t.index)
       /\ Follows("closing", t.index, "over", t.index)
  BY <1>1 DEF Follows
<1> HIDE DEF a, b
<1>3. /\ <<a>> \o <<b>> = <<a, b>> /\ <<a, b>> \in Seq(Events)
      /\ <<a>> \in Seq(Events) /\ <<a>> \o <<>> = <<a>>
  <2>1. <<a>> \o <<b>> = <<a, b>> /\ <<a, b>> \in Seq(Events) /\ <<a>> \in Seq(Events)
    BY <1>2, OneAndTwo
  <2> QED
    BY <2>1, ConcatEmptySeq
<1>12. events = IF t.stopped THEN <<a>> ELSE <<a, b>>
  BY <1>3
<1> HIDE DEF events
<1>13. events \in Seq(Events)
  BY <1>3, <1>12
<1>5. /\ v \in States /\ v.index = t.index /\ v.started = t.started
      /\ v.block = t.block /\ v.trailing = t.trailing /\ v.grounding = t.grounding
  BY <1>1, <1>13, EmitTyped
<1>4. Reads(base, v.out, "over", t.index)
  <2>1. CASE t.stopped
    <3>1. Reads(base, Emit(t, <<a>>).out, "closing", t.index)
      BY <1>1, <1>2, <1>9, <1>10, <1>11, FitsOne
    <3> QED
      BY <1>12, <2>1, <3>1 DEF Going, Reads
  <2>2. CASE ~t.stopped
    <3>1. Reads(base, Emit(t, <<a, b>>).out, "over", t.index)
      BY <1>1, <1>2, <1>9, <1>10, <1>11, FitsTwo
    <3> QED
      BY <1>12, <2>2, <3>1
  <2> QED
    BY <2>1, <2>2
<1> HIDE DEF v
<1>6. u \in States /\ u.out = v.out /\ u.index = v.index /\ u.stopped
      /\ u.block = v.block /\ u.started = v.started
      /\ u.trailing = v.trailing /\ u.grounding = v.grounding
  BY <1>5, OverTyped
<1> HIDE DEF u
<1>7. Fits(base, u)
  BY <1>1, <1>4, <1>5, <1>6 DEF Fits, Unbegun, PhaseOf
<1> QED
  BY <1>7 DEF u, v, events, a, b

(* The state in which all that waited has been delivered, and which a      *)
(* finish closes.                                                          *)
Emptied(t) ==
    LET ended  == EndBlock(t)
        signed == IF ended.trailing = None THEN ended
                  ELSE [EmptyThinking(ended, ended.trailing) EXCEPT !.trailing = None]
    IN  EmitGrounding(signed)

LEMMA FinishCloses ==
  ASSUME NEW t, ~t.stopped, NEW fin
  PROVE  EmitFinish(t, fin) =
            LET u == Emptied(t)
            IN  Over(Emit(u, <<MessageDelta(u.index, StopReason(u, fin))>>
                             \o <<MessageStop(u.index)>>))
BY DEF EmitFinish, Emptied, Over

LEMMA FinishClosesAgain ==
  ASSUME NEW t, NEW fin
  PROVE  EmitFinish(t, fin) =
            LET u == Emptied(t)
            IN  Over(Emit(u, <<MessageDelta(u.index, StopReason(u, fin))>>
                             \o (IF t.stopped THEN <<>> ELSE <<MessageStop(u.index)>>)))
BY DEF EmitFinish, Emptied, Over

(* What is emptied is over if it was.                                      *)
LEMMA StoppedAsBefore ==
  ASSUME NEW t, t \in States
  PROVE  Emptied(t).stopped = t.stopped /\ Emptied(t).started = t.started
BY DEF Emptied, EndBlock, EmptyThinking, EmitGrounding, Whole, Emit, States

LEMMA EmptiedFits ==
  ASSUME NEW base, NEW t, Fits(base, t), Going(base, t)
  PROVE  LET u == Emptied(t)
         IN  Fits(base, u) /\ Going(base, u) /\ u.block = "none"
             /\ (~t.started => u = t)
<1> DEFINE ended == EndBlock(t)
           signed == IF ended.trailing = None THEN ended
                     ELSE [EmptyThinking(ended, ended.trailing) EXCEPT !.trailing = None]
           sourced == EmitGrounding(signed)
<1>1. Emptied(t) = sourced
  BY DEF Emptied
<1>2. CASE t.started
  <2>1. Inside(base, ended) /\ ended.block = "none"
    BY <1>2, EndBlockFits, InsideFits
  <2> HIDE DEF ended
  <2>2. Inside(base, signed) /\ signed.block = "none"
    BY <2>1, SignedFits
  <2> HIDE DEF signed
  <2>3. Inside(base, sourced) /\ sourced.block = "none"
    BY <2>2, SourcedFits
  <2> HIDE DEF sourced
  <2> QED
    BY <1>1, <1>2, <2>3, InsideFits
<1>3. CASE ~t.started
  <2>1. t.block = "none" /\ t.trailing = None /\ t.grounding = Unsought
    BY <1>3 DEF Fits, Unbegun
  <2>2. ended = t
    BY <2>1 DEF EndBlock
  <2>3. signed = t
    BY <2>1, <2>2
  <2>4. sourced = t
    BY <2>1, <2>3 DEF EmitGrounding
  <2> HIDE DEF sourced
  <2> QED
    BY <1>1, <2>1, <2>4
<1> QED
  BY <1>2, <1>3

LEMMA EmitFinishFits ==
  ASSUME NEW base, NEW t, Fits(base, t), Going(base, t), NEW fin
  PROVE  Fits(base, EmitFinish(t, fin))
         /\ (~t.started => ~EmitFinish(t, fin).started)
<1> DEFINE u == Emptied(t)
           reason == StopReason(u, fin)
           closing == <<MessageDelta(u.index, reason)>>
                      \o (IF t.stopped THEN <<>> ELSE <<MessageStop(u.index)>>)
<1>1. EmitFinish(t, fin) = Over(Emit(u, closing))
  BY FinishClosesAgain
<1>2. reason \in Reasons
  BY DEF StopReason, Reasons
<1>3. Fits(base, u) /\ Going(base, u) /\ u.block = "none"
  BY EmptiedFits
<1>4. u.stopped = t.stopped /\ u.started = t.started
  BY StoppedAsBefore DEF Fits
<1> HIDE DEF u, reason
<1>5. Fits(base, Over(Emit(u, closing)))
  BY <1>2, <1>3, <1>4, ClosingFits
<1>6. Over(Emit(u, closing)).started = u.started
  <2> HIDE DEF closing
  <2> QED
    BY <1>3 DEF Over, Emit, Fits, States
<1> QED
  BY <1>1, <1>4, <1>5, <1>6

LEMMA EmitForceStopFits ==
  ASSUME NEW base, NEW t, Fits(base, t)
  PROVE  Fits(base, EmitForceStop(t))
         /\ (~t.started => ~EmitForceStop(t).started)
<1>1. CASE t.stopped
  BY <1>1 DEF EmitForceStop
<1>2. CASE ~t.stopped
  <2>1. Going(base, t) /\ EmitForceStop(t) = EmitFinish(t, "")
    BY <1>2 DEF Going, EmitForceStop
  <2> QED
    BY <2>1, EmitFinishFits
<1> QED
  BY <1>1, <1>2

LEMMA CapturedTyped ==
  ASSUME NEW h \in Searches, NEW f \in Findings
  PROVE  Captured(h, f) \in Searches
<1>1. h.query \in Nat /\ h.links \in Nat /\ f.queries \in Seq(Nat) /\ f.links \in Nat
  BY DEF Searches, Findings
<1>2. f.queries # <<>> => f.queries[1] \in Nat
  BY <1>1
<1> QED
  BY <1>1, <1>2 DEF Captured, Sought, Searches

LEMMA ProcessChunkFits ==
  ASSUME NEW base, NEW t, Inside(base, EmitMessageStart(t)), NEW line,
         line.parts \in Seq(GeminiParts), line.grounding \in Findings
  PROVE  Fits(base, ProcessChunk(t, line))
<1> DEFINE begun == EmitMessageStart(t)
           read == ProcessParts(begun, line.parts)
           h == Captured(read.grounding, line.grounding)
           captured == Grounded(read, h)
<1>1. ProcessChunk(t, line) = IF line.finish = "" THEN captured
                              ELSE EmitFinish(captured, line.finish)
  BY DEF ProcessChunk, Grounded
<1> HIDE DEF begun
<1>3. Inside(base, read)
  BY ProcessPartsFits DEF begun
<1> HIDE DEF read
<1>4. h \in Searches
  BY <1>3, InsideFacts, CapturedTyped
<1> HIDE DEF h
<1>5. Inside(base, captured)
  BY <1>3, <1>4, GroundedFits
<1> HIDE DEF captured
<1>6. Fits(base, captured) /\ Fits(base, EmitFinish(captured, line.finish))
  BY <1>5, InsideFits, EmitFinishFits
<1>7. CASE line.finish = ""
  BY <1>1, <1>6, <1>7
<1>8. CASE line.finish # ""
  BY <1>1, <1>6, <1>8
<1> QED
  BY <1>7, <1>8

LineKinds == {"chunk", "done", "apierror", "useless", "error", "partial"}
LineTyped(line) ==
    /\ line.kind \in LineKinds
    /\ line.parts \in Seq(GeminiParts)
    /\ line.grounding \in Findings /\ line.text \in Nat

(* A line that is not the mark and of some use begins a message ...        *)
LEMMA LineFitsBegun ==
  ASSUME NEW base, NEW t, Inside(base, EmitMessageStart(t)), NEW line, LineTyped(line),
         line.kind \notin {"done", "useless"}
  PROVE  Fits(base, ProcessGeminiSSELine(t, line))
<1>1. /\ line.parts \in Seq(GeminiParts) /\ line.grounding \in Findings
      /\ line.kind \in LineKinds /\ line.text \in Nat
  BY DEF LineTyped
<1>3. CASE line.kind = "chunk"
  BY <1>1, <1>3, ProcessChunkFits DEF ProcessGeminiSSELine
<1>4. CASE line.kind = "apierror"
  <2> DEFINE empty == Chunk(<<>>, NoGrounding, "")
  <2>1. empty.parts \in Seq(GeminiParts) /\ empty.grounding \in Findings
    BY DEF Chunk, NoGrounding, Grounding, Findings, None
  <2>2. ProcessGeminiSSELine(t, line) = ProcessChunk(t, empty)
    BY <1>4 DEF ProcessGeminiSSELine
  <2> HIDE DEF empty
  <2> QED
    BY <1>4, <2>1, <2>2, ProcessChunkFits
<1>5. CASE line.kind \in {"error", "partial"}
  <2>1. ProcessGeminiSSELine(t, line) = ProcessText(EmitMessageStart(t), line.text, None)
    <3>1. line.kind \notin {"chunk", "done", "apierror", "useless"}
      BY <1>5
    <3> QED
      BY <3>1 DEF ProcessGeminiSSELine, HandleParseError
  <2>2. None \in Nat
    BY DEF None
  <2>3. Inside(base, ProcessText(EmitMessageStart(t), line.text, None))
    BY <1>1, <2>2, ProcessTextFits
  <2> QED
    BY <2>1, <2>3, InsideFits
<1> QED
  BY <1>1, <1>3, <1>4, <1>5 DEF LineKinds

(* ... and any line keeps it well formed, after the end the mark alone.     *)
LEMMA ProcessLineFits ==
  ASSUME NEW base, NEW t, Fits(base, t), NEW line, LineTyped(line),
         line.kind = "done" \/ Going(base, t)
  PROVE  Fits(base, ProcessGeminiSSELine(t, line))
<1>1. CASE line.kind = "done"
  BY <1>1, EmitForceStopFits DEF ProcessGeminiSSELine
<1>2. CASE line.kind = "useless"
  BY <1>2 DEF ProcessGeminiSSELine, HandleParseError
<1>3. CASE line.kind \notin {"done", "useless"}
  <2>1. Inside(base, EmitMessageStart(t))
    BY <1>3, EmitMessageStartFits
  <2> QED
    BY <1>3, <2>1, LineFitsBegun
<1> QED
  BY <1>1, <1>2, <1>3

(* A message that a line begins begins with its start.                     *)
Opened(t) == t.started => t.out # <<>> /\ t.out[1] = MessageStart

LEMMA LineOpens ==
  ASSUME NEW t, Fits(From(FALSE, <<>>), t), ~t.started, ~t.stopped,
         NEW line, LineTyped(line)
  PROVE  Opened(ProcessGeminiSSELine(t, line))
<1> DEFINE u == ProcessGeminiSSELine(t, line)
           start == <<MessageStart>>
           begun == EmitMessageStart(t)
<1>1. CASE line.kind = "done"
  BY <1>1, EmitForceStopFits DEF ProcessGeminiSSELine, Opened
<1>2. CASE line.kind = "useless"
  BY <1>2 DEF ProcessGeminiSSELine, HandleParseError, Opened
<1>3. CASE line.kind \notin {"done", "useless"}
  <2>1. t \in States /\ t.out \in Seq(Events) /\ Reads(From(FALSE, <<>>), t.out, "before", t.index)
    BY DEF Fits, States, PhaseOf, Unbegun
  <2>2. t.out = <<>>
    <3>1. PhaseAt(t.out, Len(t.out)) = "before"
      BY <2>1 DEF Reads, From
    <3>2. ASSUME Len(t.out) # 0 PROVE FALSE
      <4> DEFINE e == t.out[Len(t.out)]
      <4>1. e \in Events /\ PhaseAfter(e) = "before"
        BY <2>1, <3>1, <3>2 DEF PhaseAt
      <4> HIDE DEF e
      <4> QED
        BY <4>1 DEF Events, Types, PhaseAfter, Kinds, Reasons
    <3> QED
      BY <2>1, <3>2
  <2>3. MessageStart \in Events /\ start \in Seq(Events) /\ <<>> \o start = start
        /\ Len(start) = 1 /\ start[1] = MessageStart /\ start # <<>>
    <3>1. MessageStart \in Events
      BY EventFacts DEF Kinds
    <3> QED
      BY <3>1, OneAndTwo, ConcatEmptySeq
  <2>4. begun.out = start
    BY <2>1, <2>2, <2>3 DEF EmitMessageStart, Emit, States
  <2>5. Inside(From(FALSE, <<>>), begun)
    BY EmitMessageStartFits DEF Going
  <2> HIDE DEF begun, start
  <2>6. Inside(From(FALSE, start), begun)
    BY <2>3, <2>4, <2>5 DEF Inside, Going, Reads, From, Begins
  <2>7. Fits(From(FALSE, start), u)
    BY <1>3, <2>6, LineFitsBegun DEF begun
  <2> HIDE DEF u
  <2>8. Begins(start, u.out) /\ u.out \in Seq(Events)
    BY <2>7 DEF Fits, Reads, From
  <2>9. u.out # <<>> /\ u.out[1] = MessageStart
    BY <2>3, <2>8 DEF Begins
  <2> QED
    BY <2>9 DEF Opened, u
<1> QED
  BY <1>1, <1>2, <1>3

-------------------------------------------------------------------------------
(* The lines an upstream may send.                                         *)
LEMMA PartTyped ==
  ASSUME NEW k \in Nat, NEW a \in Shapes
  PROVE  Part(k, a[1], a[2], a[3]) \in GeminiParts
BY ShapesAssumption DEF Part, GeminiParts, PartKinds, None

LEMMA PartsTyped ==
  ASSUME NEW k \in Nat, NEW parts \in PartsFrom(k)
  PROVE  parts \in Seq(GeminiParts)
<1>1. CASE parts = <<>>
  BY <1>1
<1>2. ASSUME NEW a \in Shapes, parts = <<Part(k, a[1], a[2], a[3])>>
      PROVE  parts \in Seq(GeminiParts)
  <2> DEFINE p == Part(k, a[1], a[2], a[3])
  <2>1. p \in GeminiParts
    BY PartTyped
  <2> HIDE DEF p
  <2>2. <<p>> \in Seq(GeminiParts)
    BY <2>1, OneAndTwo
  <2> QED
    BY <1>2, <2>2 DEF p
<1>3. ASSUME NEW a \in Shapes, NEW b \in Shapes,
             parts = <<Part(k, a[1], a[2], a[3]), Part(k + 1, b[1], b[2], b[3])>>
      PROVE  parts \in Seq(GeminiParts)
  <2> DEFINE p == Part(k, a[1], a[2], a[3])
             q == Part(k + 1, b[1], b[2], b[3])
  <2>1. p \in GeminiParts /\ q \in GeminiParts
    <3>1. k + 1 \in Nat
      OBVIOUS
    <3> QED
      BY <3>1, PartTyped
  <2> HIDE DEF p, q
  <2>2. <<p, q>> \in Seq(GeminiParts)
    BY <2>1, OneAndTwo
  <2> QED
    BY <1>3, <2>2 DEF p, q
<1> QED
  BY <1>1, <1>2, <1>3 DEF PartsFrom

LEMMA GroundingsTyped ==
  ASSUME lines \in Nat, NEW g \in Groundings
  PROVE  g \in Findings
<1> DEFINE k == MaxParts + 3 * lines
<1>1. k + 1 \in Nat /\ k + 2 \in Nat /\ k + 3 \in Nat
  BY BoundsAssumption
<1>2. g = Grounding(<<k + 1, k + 2>>, None) \/ g = Grounding(<<>>, k + 3)
  BY DEF Groundings
<1> HIDE DEF k
<1>3. <<k + 1, k + 2>> \in Seq(Nat) /\ <<>> \in Seq(Nat)
  BY <1>1, OneAndTwo
<1> DEFINE two == <<k + 1, k + 2>>
           none == <<>>
<1>4. two \in Seq(Nat) /\ none \in Seq(Nat)
  BY <1>3
<1>5. g = Grounding(two, None) \/ g = Grounding(none, k + 3)
  BY <1>2
<1> HIDE DEF two, none
<1> QED
  BY <1>1, <1>4, <1>5 DEF Grounding, Findings, None

LEMMA EmptyTyped == <<>> \in Seq(GeminiParts) /\ None \in Nat
BY DEF None

LEMMA NoGroundingTyped == NoGrounding \in Findings
BY DEF NoGrounding, Grounding, Findings, None

LEMMA OtherTyped ==
  ASSUME NEW l \in Others, received \in Seq(GeminiParts)
  PROVE  /\ LineTyped(l) /\ l.kind # "chunk"
         /\ l.parts = <<>> /\ l.grounding = NoGrounding /\ l.finish = ""
<1>1. Arrival \in Nat
  BY DEF Arrival
<1>2. PICK kind \in LineKinds \ {"chunk"}, g \in {None, Arrival} : l = Other(kind, g)
  BY DEF Others, LineKinds
<1>3. l.kind = kind /\ l.parts = <<>> /\ l.grounding = NoGrounding /\ l.text = g
      /\ l.finish = ""
  BY <1>2 DEF Other, Chunk
<1>4. NoGrounding \in Findings /\ <<>> \in Seq(GeminiParts) /\ g \in Nat
  BY <1>1, NoGroundingTyped DEF None
<1> QED
  BY <1>3, <1>4 DEF LineTyped

LEMMA ChunkTyped ==
  ASSUME NEW l \in Chunks, received \in Seq(GeminiParts), lines \in Nat
  PROVE  /\ LineTyped(l) /\ l.kind = "chunk"
         /\ l.parts = <<>> \/ l.parts \in NextParts
<1>1. Arrival \in Nat
  BY DEF Arrival
<1>2. CASE \E g \in Groundings, f \in {"", "STOP"} : l = Chunk(<<>>, g, f)
  <2>1. PICK g \in Groundings, f \in {"", "STOP"} : l = Chunk(<<>>, g, f)
    BY <1>2
  <2>2. l.kind = "chunk" /\ l.parts = <<>> /\ l.grounding = g /\ l.text = None
    BY <2>1 DEF Chunk
  <2>3. g \in Findings
    BY GroundingsTyped
  <2>4. <<>> \in Seq(GeminiParts) /\ None \in Nat
    BY EmptyTyped
  <2> QED
    BY <2>2, <2>3, <2>4 DEF LineTyped, LineKinds
<1>3. CASE \E parts \in NextParts, f \in {"", "MAX_TOKENS"} : l = Chunk(parts, NoGrounding, f)
  <2>1. PICK parts \in NextParts, f \in {"", "MAX_TOKENS"} : l = Chunk(parts, NoGrounding, f)
    BY <1>3
  <2>2. l.kind = "chunk" /\ l.parts = parts /\ l.grounding = NoGrounding /\ l.text = None
    BY <2>1 DEF Chunk
  <2>3. parts \in PartsFrom(Arrival)
    BY DEF NextParts
  <2>4. parts \in Seq(GeminiParts)
    BY <1>1, <2>3, PartsTyped
  <2>5. NoGrounding \in Findings /\ None \in Nat
    BY NoGroundingTyped DEF None
  <2> QED
    BY <2>2, <2>4, <2>5 DEF LineTyped, LineKinds
<1>4. ASSUME NEW f \in {"", "STOP"}, l \in SearchChunks(f)
      PROVE  \E g \in Groundings, e \in {"", "STOP"} : l = Chunk(<<>>, g, e)
  BY <1>4 DEF SearchChunks
<1>5. ASSUME NEW f \in {"", "MAX_TOKENS"}, l \in PartChunks(f)
      PROVE  \E parts \in NextParts, e \in {"", "MAX_TOKENS"} :
                l = Chunk(parts, NoGrounding, e)
  BY <1>5 DEF PartChunks
<1>6. \/ \E f \in {"", "STOP"} : l \in SearchChunks(f)
      \/ \E f \in {"", "MAX_TOKENS"} : l \in PartChunks(f)
  BY DEF Chunks
<1> QED
  BY <1>2, <1>3, <1>4, <1>5, <1>6

LEMMA LinesTyped ==
  ASSUME received \in Seq(GeminiParts), lines \in Nat, NEW line \in Lines
  PROVE  LineTyped(line)
BY OtherTyped, ChunkTyped DEF Lines

-------------------------------------------------------------------------------
(* The invariant: the events made so far are one message, unless the       *)
(* upstream went on after it had finished, and the client has read a       *)
(* beginning of them.                                                      *)
WInv ==
    /\ Fits(From(~orderly, <<>>), s)
    /\ orderly => Opened(s)
    /\ sent \in 0..Len(s.out)
    /\ mode = "collect" => sent = 0
    /\ received \in Seq(GeminiParts)
    /\ sources \in Searches
    /\ lines \in Nat /\ orderly \in BOOLEAN

LEMMA FitsFromItself ==
  ASSUME NEW t, NEW wild, NEW always, wild => always, Fits(From(wild, <<>>), t)
  PROVE  Fits(From(always, t.out), t)
BY DEF Fits, Reads, Begins, From

LEMMA FitsFromNothing ==
  ASSUME NEW out, NEW wild, NEW t, Fits(From(wild, out), t)
  PROVE  Fits(From(wild, <<>>), t)
BY DEF Fits, Reads, Begins, From

LEMMA WInitially == Init => WInv
<1>1. SUFFICES ASSUME Init PROVE WInv
  OBVIOUS
<1>2. s = NewState /\ sent = 0 /\ received = <<>> /\ sources = Unsought
      /\ orderly = TRUE /\ lines = 0
  BY <1>1 DEF Init
<1>3. Fits(From(FALSE, <<>>), s)
  BY <1>2, InitFits
<1>4. s.out \in Seq(Events) /\ ~s.started
  BY <1>2, <1>3 DEF Fits, Reads, NewState
<1>5. 0 \in 0..Len(s.out) /\ <<>> \in Seq(GeminiParts)
  BY <1>4
<1>6. sources \in Searches
  BY <1>2 DEF Unsought, Sought, Searches, None
<1>7. Fits(From(~orderly, <<>>), s)
  <2>1. (~orderly) = FALSE
    BY <1>2
  <2> QED
    BY <1>3, <2>1
<1> QED
  BY <1>2, <1>4, <1>5, <1>6, <1>7 DEF WInv, Opened

(* A step that leaves the message alone.                                   *)
ReadOn ==
    /\ Fits(From(~orderly', s.out), s')
    /\ orderly' => Opened(s')
    /\ sent' = sent
    /\ mode' = mode
    /\ received' \in Seq(GeminiParts)
    /\ sources' \in Searches
    /\ lines' \in Nat /\ orderly' \in BOOLEAN

(* What has begun with the start still does.                               *)
LEMMA OpenedMore ==
  ASSUME NEW wild, NEW out, NEW t, Fits(From(wild, out), t),
         out # <<>>, out[1] = MessageStart, out \in Seq(Events)
  PROVE  Opened(t)
BY DEF Fits, Reads, Begins, From, Opened

LEMMA TranslateReadsOn ==
  ASSUME WInv, Translate, UNCHANGED <<mode, sent>>
  PROVE  ReadOn
<1>1. /\ Fits(From(~orderly, <<>>), s) /\ received \in Seq(GeminiParts)
      /\ sources \in Searches /\ lines \in Nat /\ orderly \in BOOLEAN
  BY DEF WInv
<1>2. PICK line \in Lines : s' = ProcessGeminiSSELine(s, line) /\ Record(line)
  BY DEF Translate
<1>3. LineTyped(line)
  BY <1>1, LinesTyped
<1>4. /\ orderly' = (orderly /\ (s.stopped => line.kind = "done"))
      /\ orderly' \in BOOLEAN /\ lines' \in Nat
  <2>1. orderly' = (orderly /\ (s.stopped => line.kind = "done")) /\ lines' = lines + 1
    BY <1>2, ZenonT(60) DEF Record
  <2>2. orderly' \in BOOLEAN
    BY <2>1
  <2>3. lines' \in Nat
    BY <1>1, <2>1
  <2> QED
    BY <2>1, <2>2, <2>3
<1> DEFINE always == ~orderly'
<1>5. /\ (~orderly => always) /\ (s.stopped => line.kind = "done" \/ always)
  BY <1>4
<1>6. Fits(From(always, s.out), s')
  <2> HIDE DEF always
  <2>1. Fits(From(always, s.out), s)
    BY <1>1, <1>5, FitsFromItself
  <2>2. line.kind = "done" \/ Going(From(always, s.out), s)
    BY <1>5 DEF Going, From
  <2> QED
    BY <1>2, <1>3, <2>1, <2>2, ProcessLineFits
<1>7. ASSUME orderly' PROVE Opened(s')
  <2>1. orderly /\ Opened(s)
    BY <1>4, <1>7 DEF WInv
  <2>2. CASE s.started
    <3>1. s.out \in Seq(Events) /\ s.out # <<>> /\ s.out[1] = MessageStart
      BY <1>1, <2>1, <2>2 DEF Opened, Fits, States
    <3> QED
      BY <1>6, <3>1, OpenedMore
  <2>3. CASE ~s.started /\ s.stopped
    <3>1. s' = s
      BY <1>2, <1>5, <1>7, <2>3 DEF ProcessGeminiSSELine, EmitForceStop
    <3> QED
      BY <2>3, <3>1 DEF Opened
  <2>4. CASE ~s.started /\ ~s.stopped
    <3>1. Fits(From(FALSE, <<>>), s)
      <4>1. (~orderly) = FALSE
        BY <2>1, <1>1
      <4> QED
        BY <1>1, <4>1
    <3> QED
      BY <1>2, <1>3, <2>4, <3>1, LineOpens
  <2> QED
    BY <2>2, <2>3, <2>4
<1>8. sources' \in Searches
  BY <1>1, <1>2, <1>3, CapturedTyped DEF Record, LineTyped
<1>9. received' \in Seq(GeminiParts)
  <2> DEFINE p == [kind |-> "text", text |-> line.text, sig |-> None]
  <2>1. p \in GeminiParts
    BY <1>3 DEF LineTyped, GeminiParts, PartKinds, None
  <2> HIDE DEF p
  <2>2. Append(received, p) \in Seq(GeminiParts)
    BY <1>1, <2>1
  <2>3. received \o line.parts \in Seq(GeminiParts)
    BY <1>1, <1>3 DEF LineTyped
  <2>4. received' = Append(received, p) \/ received' = received \o line.parts
    BY <1>2 DEF Record, p
  <2> QED
    BY <2>2, <2>3, <2>4
<1> QED
  BY <1>4, <1>6, <1>7, <1>8, <1>9 DEF ReadOn

(* A step that ends the message, or leaves it alone.                       *)
LEMMA EndReadsOn ==
  ASSUME WInv, s' = EmitForceStop(s) \/ s' = s, UNCHANGED <<mode, sent, upstreamVars>>
  PROVE  ReadOn
<1>1. UNCHANGED <<orderly, received, sources, lines>>
  BY DEF upstreamVars
<1> DEFINE wild == ~orderly
<1>2. Fits(From(wild, s.out), s)
  <2>1. Fits(From(wild, <<>>), s)
    BY DEF WInv
  <2> HIDE DEF wild
  <2> QED
    BY <2>1, FitsFromItself
<1>3. Fits(From(wild, s.out), s') /\ (~s.started => ~s'.started)
  BY <1>2, EmitForceStopFits
<1>4. ASSUME orderly PROVE Opened(s')
  <2>1. Opened(s)
    BY <1>4 DEF WInv
  <2>2. CASE s.started
    <3>1. s.out \in Seq(Events) /\ s.out # <<>> /\ s.out[1] = MessageStart
      BY <1>2, <2>1, <2>2 DEF Opened, Fits, States
    <3> QED
      BY <1>3, <3>1, OpenedMore
  <2>3. CASE ~s.started
    BY <1>3, <2>3 DEF Opened
  <2> QED
    BY <2>2, <2>3
<1>5. Fits(From(~orderly', s.out), s')
  BY <1>1, <1>3
<1> QED
  BY <1>1, <1>4, <1>5 DEF ReadOn, WInv

LEMMA StepReads ==
  ASSUME WInv, [Next]_vars
  PROVE  ReadOn \/ WriteEvent
<1>1. CASE ReadLine
  BY <1>1, TranslateReadsOn DEF ReadLine
<1>2. CASE CollectLine
  BY <1>2, TranslateReadsOn DEF CollectLine
<1>3. CASE SeeClientGone
  BY <1>3, EndReadsOn DEF SeeClientGone
<1>4. CASE StreamEnds
  BY <1>4, EndReadsOn DEF StreamEnds
<1>5. CASE StreamReturns
  BY <1>5, EndReadsOn DEF StreamReturns
<1>6. CASE CollectEnds
  BY <1>6, EndReadsOn DEF CollectEnds
<1>7. CASE ClientLeaves
  BY <1>7, EndReadsOn DEF ClientLeaves
<1>8. CASE UNCHANGED vars
  BY <1>8, EndReadsOn DEF vars, upstreamVars
<1> QED
  BY <1>1, <1>2, <1>3, <1>4, <1>5, <1>6, <1>7, <1>8 DEF Next, Returned

LEMMA WStep ==
  ASSUME WInv, [Next]_vars
  PROVE  WInv'
<1>1. CASE ReadOn
  <2>1. Fits(From(~orderly', <<>>), s') /\ s.out \in Seq(Events) /\ s'.out \in Seq(Events)
        /\ Len(s.out) <= Len(s'.out)
    <3> DEFINE wild == ~orderly'
    <3>1. Fits(From(wild, s.out), s')
      BY <1>1 DEF ReadOn
    <3> HIDE DEF wild
    <3>2. Fits(From(wild, <<>>), s')
      BY <3>1, FitsFromNothing
    <3>3. s.out \in Seq(Events) /\ s'.out \in Seq(Events) /\ Len(s.out) <= Len(s'.out)
      BY <3>1 DEF Fits, Reads, Begins, From
    <3> QED
      BY <3>2, <3>3 DEF wild
  <2>2. sent' \in 0..Len(s'.out)
    BY <1>1, <2>1 DEF WInv, ReadOn
  <2> QED
    BY <1>1, <2>1, <2>2 DEF WInv, ReadOn
<1>2. CASE WriteEvent
  <2>1. s.out \in Seq(Events)
    BY DEF WInv, Fits, States
  <2>2. sent + 1 \in 0..Len(s.out)
    BY <1>2, <2>1 DEF WInv, WriteEvent
  <2> QED
    BY <1>2, <2>2 DEF WInv, WriteEvent, upstreamVars
<1> QED
  BY <1>1, <1>2, StepReads

LEMMA WInvariant == Spec => []WInv
<1>1. WInv /\ [Next]_vars => WInv'
  BY WStep
<1> QED
  BY WInitially, <1>1, PTL DEF Spec

(* A step of the message, or none, from one place in it to the next.       *)
LEMMA FollowsSteps ==
  ASSUME Follows(ClientPhase, ClientIndex, ClientPhase', ClientIndex'),
         ClientPhase = "before" => ClientPhase' # "closing"
  PROVE  [Message!Next]_(Message!vars)
<1> DEFINE p == ClientPhase
           i == ClientIndex
<1>1. CASE p = "before" /\ p' = "open" /\ i' = i
  BY <1>1 DEF Message!Next, Message!MessageStart
<1>2. CASE p = "open" /\ p' \in Kinds /\ i' = i
  BY <1>2 DEF Message!Next, Message!BlockStart, Message!BlockTypes, Kinds
<1>3. CASE p = "thinking" /\ p' = "signed" /\ i' = i
  BY <1>3 DEF Message!Next, Message!Signature
<1>4. CASE p \in Kinds \cup {"signed"} /\ p' = "open" /\ i' = i + 1
  BY <1>4 DEF Message!Next, Message!BlockStop, Message!BlockTypes, Kinds
<1>5. CASE p \in {"open", "before"} /\ p' = "closing" /\ i' = i
  <2>1. p = "open"
    BY <1>5
  <2> QED
    BY <1>5, <2>1 DEF Message!Next, Message!MessageDelta
<1>6. CASE p = "closing" /\ p' = "over" /\ i' = i
  BY <1>6 DEF Message!Next, Message!MessageStop
<1>7. CASE p' = p /\ i' = i
  BY <1>7 DEF Message!vars
<1> QED
  BY <1>1, <1>2, <1>3, <1>4, <1>5, <1>6, <1>7 DEF Follows

LEMMA ClientAt ==
  ClientPhase = PhaseAt(s.out, sent) /\ ClientIndex = IndexAt(s.out, sent)
BY DEF ClientPhase, ClientIndex, PhaseAt, IndexAt, IndexAfter

LEMMA MessageStep ==
  ASSUME WInv, [Next]_vars, orderly, s.started
  PROVE  [Message!Next]_(Message!vars)
<1>1. CASE ReadOn
  <2>1. Begins(s.out, s'.out) /\ sent \in 0..Len(s.out)
    BY <1>1 DEF ReadOn, Fits, Reads, WInv, From
  <2>2. ClientPhase' = ClientPhase /\ ClientIndex' = ClientIndex
    BY <1>1, <2>1 DEF ReadOn, Begins, ClientPhase, ClientIndex
  <2> QED
    BY <2>2 DEF Message!vars
<1>2. CASE WriteEvent
  <2>1. Chained(s.out) /\ sent + 1 \in 1..Len(s.out) /\ s' = s /\ sent' = sent + 1
        /\ (sent + 1) - 1 = sent /\ s.out[1] = MessageStart /\ s.out \in Seq(Events)
    <3>1. Chained(s.out) /\ s.out \in Seq(Events) /\ s.out[1] = MessageStart
      BY DEF WInv, Fits, Reads, From, Opened
    <3> QED
      BY <1>2, <3>1 DEF WriteEvent, WInv
  <2>2. Follows(PhaseAt(s.out, sent), IndexAt(s.out, sent),
                PhaseAt(s.out, sent + 1), IndexAt(s.out, sent + 1))
    BY <2>1 DEF Chained
  <2>3. ClientPhase' = PhaseAt(s.out, sent + 1) /\ ClientIndex' = IndexAt(s.out, sent + 1)
    <3>1. sent + 1 # 0
      BY <2>1
    <3> QED
      BY <2>1, <3>1 DEF ClientPhase, ClientIndex, PhaseAt, IndexAt, IndexAfter
  <2>4. Follows(ClientPhase, ClientIndex, ClientPhase', ClientIndex')
    BY <2>2, <2>3, ClientAt
  <2>5. ASSUME ClientPhase = "before" PROVE ClientPhase' # "closing"
    <3>1. CASE sent = 0
      <4>1. ClientPhase' = PhaseAfter(MessageStart)
        BY <2>1, <2>3, <3>1 DEF PhaseAt
      <4>2. PhaseAfter(MessageStart) = "open"
        BY EventFacts DEF Kinds
      <4> QED
        BY <4>1, <4>2
    <3>2. CASE sent # 0
      <4> DEFINE e == s.out[sent]
      <4>1. e \in Events /\ PhaseAfter(e) = "before"
        BY <2>1, <2>5, <3>2 DEF ClientPhase
      <4> HIDE DEF e
      <4> QED
        BY <4>1 DEF Events, Types, PhaseAfter, Kinds, Reasons
    <3> QED
      BY <3>1, <3>2
  <2> QED
    BY <2>4, <2>5, FollowsSteps
<1> QED
  BY <1>1, <1>2, StepReads

(* Whatever parts an upstream sends, of any shape and in any lines, with   *)
(* or without a finish, and wherever it breaks off, the client reads a     *)
(* well-formed message, event by event: no block inside another, no number *)
(* used twice or left out, a signature last in its block, the start first  *)
(* and nothing after the stop (claude_streaming.go); as long as a message  *)
(* was begun, and the upstream says nothing once it has finished.          *)
THEOREM TheClientReadsAMessage == Spec => WellFormed
<1>1. Init => Message!Init
  BY DEF Init, Message!Init, ClientPhase, ClientIndex
<1>2. WInv /\ [Next]_vars
         => [orderly /\ s.started => Message!Next \/ UNCHANGED Message!vars]_vars
  BY MessageStep
<1>3. Spec => Message!Init
              /\ [][orderly /\ s.started => Message!Next \/ UNCHANGED Message!vars]_vars
  BY <1>1, <1>2, WInvariant, PTL DEF Spec
<1> QED
  BY <1>3 DEF WellFormed

-------------------------------------------------------------------------------
(* What an answer says: every text, thought and call the upstream sent is  *)
(* delivered once and in its order, and no signature a client must send    *)
(* back is lost.                                                           *)
(* What one event, and one part, add to what was made and what was sent.   *)
Contents == (Kinds \cup Reasons \cup {"none"}) \X Nat

Made(e) == IF e.data # None /\ (e.type = "content_block_start" \/ e.block # "tool_use")
           THEN <<<<e.block, e.data>>>> ELSE <<>>
Marks(e) == IF e.sig # None THEN <<e.sig>> ELSE <<>>

(* A signed image is delivered as its signature alone.                     *)
Says(p) == IF p.text # None /\ ~(p.kind = "image" /\ p.sig # None)
           THEN <<<<BlockOf(p.kind), p.text>>>> ELSE <<>>
Signs(p) == IF p.sig # None THEN <<p.sig>> ELSE <<>>

LEMMA MadeTyped ==
  ASSUME NEW e \in Events
  PROVE  Made(e) \in Seq(Contents) /\ Marks(e) \in Seq(Nat)
<1>1. <<e.block, e.data>> \in Contents /\ e.sig \in Nat
  BY DEF Events, Contents
<1> DEFINE c == <<e.block, e.data>>
<1>2. c \in Contents
  BY <1>1
<1>3. Made(e) = <<c>> \/ Made(e) = <<>>
  BY DEF Made
<1> HIDE DEF c
<1>4. <<c>> \in Seq(Contents) /\ <<>> \in Seq(Contents) /\ <<>> \in Seq(Nat)
  BY <1>2, OneAndTwo
<1>5. <<e.sig>> \in Seq(Nat)
  BY <1>1, OneAndTwo
<1> QED
  BY <1>3, <1>4, <1>5 DEF Marks

LEMMA PartsMadeOne ==
  ASSUME NEW out \in Seq(Events), NEW e \in Events
  PROVE  /\ PartsMade(Append(out, e)) = PartsMade(out) \o Made(e)
         /\ PartsMade(out) \in Seq(Contents)
         /\ PartsMade(<<>>) = <<>>
<1> DEFINE ss == [k \in DOMAIN out |-> Made(out[k])]
           o == Append(out, e)
           tt == [k \in DOMAIN o |-> Made(o[k])]
           n == Len(out)
<1>1. PartsMade(out) = FlattenSeq(ss) /\ PartsMade(o) = FlattenSeq(tt)
  BY DEF PartsMade, Held, Made
<1>2. o \in Seq(Events) /\ Len(o) = n + 1 /\ o[n + 1] = e /\ n \in Nat
      /\ (\A k \in 1..n : o[k] = out[k]) /\ DOMAIN o = 1..n + 1 /\ DOMAIN out = 1..n
  BY AppendProperties
<1> HIDE DEF o
<1>3. ss \in Seq(Seq(Contents)) /\ Len(ss) = n
  <2>1. \A k \in 1..n : Made(out[k]) \in Seq(Contents)
    BY <1>2, MadeTyped
  <2> QED
    BY <1>2, <2>1
<1>4. tt \in Seq(Seq(Contents)) /\ Len(tt) = n + 1 /\ tt[n + 1] = Made(e)
  <2>1. \A k \in 1..n + 1 : Made(o[k]) \in Seq(Contents)
    BY <1>2, MadeTyped
  <2> QED
    BY <1>2, <2>1
<1>5. \A k \in 1..n : tt[k] = ss[k]
  BY <1>2
<1> HIDE DEF ss, tt
<1>6. FlattenSeq(tt) = FlattenSeq(ss) \o tt[Len(tt)]
  BY <1>3, <1>4, <1>5, FlattenLast
<1>7. FlattenSeq(ss) \in Seq(Contents)
  BY <1>3, FlattenTyped
<1>8. PartsMade(<<>>) = <<>>
  <2> DEFINE e0 == [k \in DOMAIN <<>> |-> Made(<<>>[k])]
  <2>1. PartsMade(<<>>) = FlattenSeq(e0)
    BY DEF PartsMade, Held, Made
  <2>2. e0 = <<>>
    OBVIOUS
  <2>3. <<>> \in Seq(Seq(Contents))
    OBVIOUS
  <2> QED
    BY <2>1, <2>2, <2>3, FlattenTyped
<1> QED
  BY <1>1, <1>4, <1>6, <1>7, <1>8 DEF o

LEMMA SignaturesMadeOne ==
  ASSUME NEW out \in Seq(Events), NEW e \in Events
  PROVE  /\ SignaturesMade(Append(out, e)) = SignaturesMade(out) \o Marks(e)
         /\ SignaturesMade(out) \in Seq(Nat)
         /\ SignaturesMade(<<>>) = <<>>
<1> DEFINE ss == [k \in DOMAIN out |-> Marks(out[k])]
           o == Append(out, e)
           tt == [k \in DOMAIN o |-> Marks(o[k])]
           n == Len(out)
<1>1. SignaturesMade(out) = FlattenSeq(ss) /\ SignaturesMade(o) = FlattenSeq(tt)
  BY DEF SignaturesMade, Held, Marks
<1>2. o \in Seq(Events) /\ Len(o) = n + 1 /\ o[n + 1] = e /\ n \in Nat
      /\ (\A k \in 1..n : o[k] = out[k]) /\ DOMAIN o = 1..n + 1 /\ DOMAIN out = 1..n
  BY AppendProperties
<1> HIDE DEF o
<1>3. ss \in Seq(Seq(Nat)) /\ Len(ss) = n
  <2>1. \A k \in 1..n : Marks(out[k]) \in Seq(Nat)
    BY <1>2, MadeTyped
  <2> QED
    BY <1>2, <2>1
<1>4. tt \in Seq(Seq(Nat)) /\ Len(tt) = n + 1 /\ tt[n + 1] = Marks(e)
  <2>1. \A k \in 1..n + 1 : Marks(o[k]) \in Seq(Nat)
    BY <1>2, MadeTyped
  <2> QED
    BY <1>2, <2>1
<1>5. \A k \in 1..n : tt[k] = ss[k]
  BY <1>2
<1> HIDE DEF ss, tt
<1>6. FlattenSeq(tt) = FlattenSeq(ss) \o tt[Len(tt)]
  BY <1>3, <1>4, <1>5, FlattenLast
<1>7. FlattenSeq(ss) \in Seq(Nat)
  BY <1>3, FlattenTyped
<1>8. SignaturesMade(<<>>) = <<>>
  <2> DEFINE e0 == [k \in DOMAIN <<>> |-> Marks(<<>>[k])]
  <2>1. SignaturesMade(<<>>) = FlattenSeq(e0)
    BY DEF SignaturesMade, Held, Marks
  <2>2. e0 = <<>>
    OBVIOUS
  <2>3. <<>> \in Seq(Seq(Nat))
    OBVIOUS
  <2> QED
    BY <2>1, <2>2, <2>3, FlattenTyped
<1> QED
  BY <1>1, <1>4, <1>6, <1>7, <1>8 DEF o

(* What the parts of a sequence say.                                       *)
Said(seq) == FlattenSeq([k \in DOMAIN seq |-> Says(seq[k])])

LEMMA SaidOne ==
  ASSUME NEW q \in Seq(GeminiParts), NEW p \in GeminiParts
  PROVE  /\ Said(Append(q, p)) = Said(q) \o Says(p)
         /\ Said(q) \in Seq(Contents) /\ Says(p) \in Seq(Contents)
         /\ Said(<<>>) = <<>>
<1> DEFINE ss == [k \in DOMAIN q |-> Says(q[k])]
           o == Append(q, p)
           tt == [k \in DOMAIN o |-> Says(o[k])]
           n == Len(q)
<1>0. ASSUME NEW a \in GeminiParts PROVE Says(a) \in Seq(Contents)
  <2> DEFINE c == <<BlockOf(a.kind), a.text>>
  <2>1. c \in Contents
    BY DEF Contents, GeminiParts, PartKinds, BlockOf, Kinds
  <2>2. Says(a) = <<c>> \/ Says(a) = <<>>
    BY DEF Says
  <2> HIDE DEF c
  <2>3. <<c>> \in Seq(Contents) /\ <<>> \in Seq(Contents)
    BY <2>1, OneAndTwo
  <2> QED
    BY <2>2, <2>3
<1>1. Said(q) = FlattenSeq(ss) /\ Said(o) = FlattenSeq(tt)
  BY DEF Said
<1>2. o \in Seq(GeminiParts) /\ Len(o) = n + 1 /\ o[n + 1] = p /\ n \in Nat
      /\ (\A k \in 1..n : o[k] = q[k]) /\ DOMAIN o = 1..n + 1 /\ DOMAIN q = 1..n
  BY AppendProperties
<1> HIDE DEF o
<1>3. ss \in Seq(Seq(Contents)) /\ Len(ss) = n
  <2>1. \A k \in 1..n : Says(q[k]) \in Seq(Contents)
    BY <1>0, <1>2
  <2> QED
    BY <1>2, <2>1
<1>4. tt \in Seq(Seq(Contents)) /\ Len(tt) = n + 1 /\ tt[n + 1] = Says(p)
  <2>1. \A k \in 1..n + 1 : Says(o[k]) \in Seq(Contents)
    BY <1>0, <1>2
  <2> QED
    BY <1>2, <2>1
<1>5. \A k \in 1..n : tt[k] = ss[k]
  BY <1>2
<1> HIDE DEF ss, tt
<1>6. FlattenSeq(tt) = FlattenSeq(ss) \o tt[Len(tt)]
  BY <1>3, <1>4, <1>5, FlattenLast
<1>7. FlattenSeq(ss) \in Seq(Contents)
  BY <1>3, FlattenTyped
<1>8. Said(<<>>) = <<>>
  <2> DEFINE e0 == [k \in DOMAIN <<>> |-> Says(<<>>[k])]
  <2>1. Said(<<>>) = FlattenSeq(e0)
    BY DEF Said
  <2>2. e0 = <<>>
    OBVIOUS
  <2>3. <<>> \in Seq(Seq(Contents))
    OBVIOUS
  <2> QED
    BY <2>1, <2>2, <2>3, FlattenTyped
<1> QED
  BY <1>0, <1>1, <1>4, <1>6, <1>7, <1>8 DEF o

(* The signatures of the parts of a sequence, and the newest.              *)
Signatures(seq) == FlattenSeq([k \in DOMAIN seq |-> Signs(seq[k])])
Latest(seq) == LET g == Signatures(seq) IN IF g = <<>> THEN None ELSE g[Len(g)]

LEMMA SignaturesOne ==
  ASSUME NEW q \in Seq(GeminiParts), NEW p \in GeminiParts
  PROVE  /\ Signatures(Append(q, p)) = Signatures(q) \o Signs(p)
         /\ Signatures(q) \in Seq(Nat) /\ Signs(p) \in Seq(Nat)
         /\ Signatures(<<>>) = <<>>
<1> DEFINE ss == [k \in DOMAIN q |-> Signs(q[k])]
           o == Append(q, p)
           tt == [k \in DOMAIN o |-> Signs(o[k])]
           n == Len(q)
<1>0. ASSUME NEW a \in GeminiParts PROVE Signs(a) \in Seq(Nat)
  <2>1. a.sig \in Nat
    BY DEF GeminiParts
  <2>2. <<a.sig>> \in Seq(Nat) /\ <<>> \in Seq(Nat)
    BY <2>1, OneAndTwo
  <2> QED
    BY <2>2 DEF Signs
<1>1. Signatures(q) = FlattenSeq(ss) /\ Signatures(o) = FlattenSeq(tt)
  BY DEF Signatures
<1>2. o \in Seq(GeminiParts) /\ Len(o) = n + 1 /\ o[n + 1] = p /\ n \in Nat
      /\ (\A k \in 1..n : o[k] = q[k]) /\ DOMAIN o = 1..n + 1 /\ DOMAIN q = 1..n
  BY AppendProperties
<1> HIDE DEF o
<1>3. ss \in Seq(Seq(Nat)) /\ Len(ss) = n
  <2>1. \A k \in 1..n : Signs(q[k]) \in Seq(Nat)
    BY <1>0, <1>2
  <2> QED
    BY <1>2, <2>1
<1>4. tt \in Seq(Seq(Nat)) /\ Len(tt) = n + 1 /\ tt[n + 1] = Signs(p)
  <2>1. \A k \in 1..n + 1 : Signs(o[k]) \in Seq(Nat)
    BY <1>0, <1>2
  <2> QED
    BY <1>2, <2>1
<1>5. \A k \in 1..n : tt[k] = ss[k]
  BY <1>2
<1> HIDE DEF ss, tt
<1>6. FlattenSeq(tt) = FlattenSeq(ss) \o tt[Len(tt)]
  BY <1>3, <1>4, <1>5, FlattenLast
<1>7. FlattenSeq(ss) \in Seq(Nat)
  BY <1>3, FlattenTyped
<1>8. Signatures(<<>>) = <<>>
  <2> DEFINE e0 == [k \in DOMAIN <<>> |-> Signs(<<>>[k])]
  <2>1. Signatures(<<>>) = FlattenSeq(e0)
    BY DEF Signatures
  <2>2. e0 = <<>>
    OBVIOUS
  <2>3. <<>> \in Seq(Seq(Nat))
    OBVIOUS
  <2> QED
    BY <2>1, <2>2, <2>3, FlattenTyped
<1> QED
  BY <1>0, <1>1, <1>4, <1>6, <1>7, <1>8 DEF o

(* What two sequences of events make, one after the other.                 *)
LEMMA MadeTogether ==
  ASSUME NEW a \in Seq(Events), NEW b \in Seq(Events)
  PROVE  /\ PartsMade(a \o b) = PartsMade(a) \o PartsMade(b)
         /\ SignaturesMade(a \o b) = SignaturesMade(a) \o SignaturesMade(b)
<1> DEFINE P(q) == /\ PartsMade(a \o q) = PartsMade(a) \o PartsMade(q)
                   /\ SignaturesMade(a \o q) = SignaturesMade(a) \o SignaturesMade(q)
           S == {q \in Seq(Events) : P(q)}
<1>0. ASSUME NEW q \in Seq(Events), NEW e \in Events
      PROVE  /\ PartsMade(q) \in Seq(Contents) /\ SignaturesMade(q) \in Seq(Nat)
             /\ PartsMade(<<>>) = <<>> /\ SignaturesMade(<<>>) = <<>>
             /\ PartsMade(Append(q, e)) = PartsMade(q) \o Made(e)
             /\ SignaturesMade(Append(q, e)) = SignaturesMade(q) \o Marks(e)
             /\ Made(e) \in Seq(Contents) /\ Marks(e) \in Seq(Nat)
  BY PartsMadeOne, SignaturesMadeOne, MadeTyped
<1>1. <<>> \in S
  <2>1. MessageStart \in Events
    BY EventFacts DEF Kinds
  <2>2. a \o <<>> = a /\ <<>> \in Seq(Events)
    BY ConcatEmptySeq
  <2>3. PartsMade(a) \o <<>> = PartsMade(a) /\ SignaturesMade(a) \o <<>> = SignaturesMade(a)
    BY <1>0, <2>1, ConcatEmptySeq
  <2>4. P(<<>>)
    BY <1>0, <2>1, <2>2, <2>3
  <2> QED
    BY <2>2, <2>4
<1>2. ASSUME NEW q \in Seq(Events), NEW e \in Events, q \in S PROVE Append(q, e) \in S
  <2>1. P(q)
    BY <1>2
  <2>2. a \o q \in Seq(Events) /\ Append(q, e) \in Seq(Events)
    BY ConcatProperties, AppendProperties
  <2>3. a \o Append(q, e) = Append(a \o q, e)
    <3>1. <<e>> \in Seq(Events)
      BY OneAndTwo
    <3>2. Append(q, e) = q \o <<e>> /\ Append(a \o q, e) = (a \o q) \o <<e>>
      BY <2>2, AppendIsConcat
    <3>3. (a \o q) \o <<e>> = a \o (q \o <<e>>)
      BY <3>1, ConcatAssociative
    <3> QED
      BY <3>2, <3>3
  <2> DEFINE aq == a \o q
             m == PartsMade(a)
             x == PartsMade(q)
             y == Made(e)
             n == SignaturesMade(a)
             u == SignaturesMade(q)
             v == Marks(e)
  <2>4. m \in Seq(Contents) /\ x \in Seq(Contents) /\ y \in Seq(Contents)
        /\ n \in Seq(Nat) /\ u \in Seq(Nat) /\ v \in Seq(Nat)
    BY <1>0
  <2>5. PartsMade(aq) = m \o x /\ SignaturesMade(aq) = n \o u
    BY <2>1
  <2>6. aq \in Seq(Events)
    BY <2>2
  <2>7. PartsMade(Append(aq, e)) = PartsMade(aq) \o y
        /\ SignaturesMade(Append(aq, e)) = SignaturesMade(aq) \o v
        /\ PartsMade(Append(q, e)) = x \o y /\ SignaturesMade(Append(q, e)) = u \o v
    <3> HIDE DEF aq
    <3> QED
      BY <1>0, <2>6
  <2>8. a \o Append(q, e) = Append(aq, e)
    BY <2>3
  <2> HIDE DEF aq, m, x, y, n, u, v
  <2>9. (m \o x) \o y = m \o (x \o y)
    <3>1. m \in Seq(Contents) /\ x \in Seq(Contents) /\ y \in Seq(Contents)
      BY <2>4
    <3> QED
      BY ONLY <3>1, ConcatAssociative, SMTT(60)
  <2>12. (n \o u) \o v = n \o (u \o v)
    <3> DEFINE N == Nat
    <3>1. n \in Seq(N) /\ u \in Seq(N) /\ v \in Seq(N)
      BY <2>4
    <3> HIDE DEF N
    <3> QED
      BY ONLY <3>1, ConcatAssociative, SMTT(60)
  <2>10. /\ PartsMade(a \o Append(q, e)) = m \o PartsMade(Append(q, e))
         /\ SignaturesMade(a \o Append(q, e)) = n \o SignaturesMade(Append(q, e))
    BY <2>5, <2>7, <2>8, <2>9, <2>12
  <2>11. P(Append(q, e))
    BY <2>10 DEF m, n
  <2> HIDE DEF P
  <2> QED
    BY <2>2, <2>11
<1>3. Seq(Events) \subseteq S
  <2> HIDE DEF S
  <2> QED
    BY <1>1, <1>2, SequenceInduction
<1> QED
  BY <1>3

-------------------------------------------------------------------------------
(* The ledger of a message on its way: the content delivered, the sources  *)
(* that wait, signatures below k in their order, and where the signature n *)
(* is that a client must have in the end.                                  *)
Below(out, k) ==
    \A i \in 1..Len(SignaturesMade(out)) : SignaturesMade(out)[i] < k
Rising(out) ==
    \A i, j \in 1..Len(SignaturesMade(out)) :
        i < j => SignaturesMade(out)[i] < SignaturesMade(out)[j]

Sorted(t, k) ==
    /\ Rising(t.out) /\ Below(t.out, k)
    /\ t.pending # None => /\ t.block = "thinking" /\ t.pending < k
                           /\ Below(t.out, t.pending)
    /\ t.trailing # None => /\ t.trailing < k /\ t.pending < t.trailing
                            /\ Below(t.out, t.trailing)

Delivered(out, n) == \E i \in 1..Len(SignaturesMade(out)) : SignaturesMade(out)[i] = n
Kept(t, n) == n = None \/ Delivered(t.out, n) \/ n \in {t.pending, t.trailing}

Ledger(t, content, sources_, k, n) ==
    /\ PartsMade(t.out) = content
    /\ t.grounding = sources_
    /\ Sorted(t, k) /\ Kept(t, n)

(* What one event alone makes.                                             *)
LEMMA OneEvent ==
  ASSUME NEW e \in Events
  PROVE  PartsMade(<<e>>) = Made(e) /\ SignaturesMade(<<e>>) = Marks(e)
<1>1. <<>> \in Seq(Events) /\ Append(<<>>, e) = <<e>>
  BY OneAndTwo
<1>2. /\ PartsMade(<<>>) = <<>> /\ SignaturesMade(<<>>) = <<>>
      /\ PartsMade(<<e>>) = PartsMade(<<>>) \o Made(e)
      /\ SignaturesMade(<<e>>) = SignaturesMade(<<>>) \o Marks(e)
  BY <1>1, PartsMadeOne, SignaturesMadeOne
<1>3. Made(e) \in Seq(Contents) /\ Marks(e) \in Seq(Nat)
  BY MadeTyped
<1>4. <<>> \o Made(e) = Made(e) /\ <<>> \o Marks(e) = Marks(e)
  BY <1>3, ConcatEmptySeq
<1> QED
  BY <1>2, <1>4

LEMMA MoreEvents ==
  ASSUME NEW out \in Seq(Events), NEW events \in Seq(Events),
         SignaturesMade(events) = <<>>
  PROVE  /\ SignaturesMade(out \o events) = SignaturesMade(out)
         /\ PartsMade(out \o events) = PartsMade(out) \o PartsMade(events)
         /\ PartsMade(events) = <<>> => PartsMade(out \o events) = PartsMade(out)
<1>1. /\ PartsMade(out \o events) = PartsMade(out) \o PartsMade(events)
      /\ SignaturesMade(out \o events) = SignaturesMade(out) \o SignaturesMade(events)
  BY MadeTogether
<1>2. MessageStart \in Events
  BY EventFacts DEF Kinds
<1>3. PartsMade(out) \in Seq(Contents) /\ SignaturesMade(out) \in Seq(Nat)
  BY <1>2, PartsMadeOne, SignaturesMadeOne
<1>4. PartsMade(out) \o <<>> = PartsMade(out) /\ SignaturesMade(out) \o <<>> = SignaturesMade(out)
  BY <1>3, ConcatEmptySeq
<1> QED
  BY <1>1, <1>4

(* One signature more, above all that were made.                           *)
LEMMA MoreSignatures ==
  ASSUME NEW out \in Seq(Events), NEW events \in Seq(Events), NEW g \in Nat,
         SignaturesMade(events) = <<g>>, Rising(out), Below(out, g)
  PROVE  /\ Rising(out \o events) /\ Delivered(out \o events, g)
         /\ \A k \in Nat : g < k => Below(out \o events, k)
         /\ \A n : Delivered(out, n) => Delivered(out \o events, n)
<1> DEFINE m == SignaturesMade(out)
           o == SignaturesMade(out \o events)
           l == Len(m)
<1>1. o = m \o <<g>>
  BY MadeTogether
<1>2. MessageStart \in Events
  BY EventFacts DEF Kinds
<1>3. m \in Seq(Nat)
  BY <1>2, SignaturesMadeOne
<1>4. \A i \in 1..l : m[i] < g
  BY DEF Below
<1>5. \A i, j \in 1..l : i < j => m[i] < m[j]
  BY DEF Rising
<1> HIDE DEF m, o
<1>6. Len(o) = l + 1 /\ o[l + 1] = g /\ (\A i \in 1..l : o[i] = m[i]) /\ l \in Nat
      /\ \A i \in 1..l : m[i] \in Nat
  BY <1>1, <1>3
<1>7. \A i, j \in 1..Len(o) : i < j => o[i] < o[j]
  <2>1. SUFFICES ASSUME NEW i \in 1..Len(o), NEW j \in 1..Len(o), i < j
                 PROVE  o[i] < o[j]
    OBVIOUS
  <2> HIDE DEF l
  <2>2. i \in 1..l /\ (j = l + 1 \/ j \in 1..l)
    BY <1>6, <2>1
  <2> QED
    BY <1>4, <1>5, <1>6, <2>1, <2>2
<1>8. \A k \in Nat : g < k => \A i \in 1..Len(o) : o[i] < k
  BY <1>4, <1>6, SMTT(60)
<1>9. Delivered(out \o events, g)
  BY <1>6 DEF o, Delivered
<1>10. \A n : Delivered(out, n) => Delivered(out \o events, n)
  BY <1>6 DEF m, o, Delivered
<1>11. Rising(out \o events)
  BY <1>7 DEF o, Rising
<1>12. \A k \in Nat : g < k => Below(out \o events, k)
  BY <1>8 DEF o, Below
<1> QED
  BY <1>9, <1>10, <1>11, <1>12

LEMMA SameSignatures ==
  ASSUME NEW out, NEW o, SignaturesMade(o) = SignaturesMade(out)
  PROVE  /\ Rising(o) <=> Rising(out)
         /\ \A k : Below(o, k) <=> Below(out, k)
         /\ \A n : Delivered(o, n) <=> Delivered(out, n)
BY DEF Rising, Below, Delivered

LEMMA BelowMore ==
  ASSUME NEW out \in Seq(Events), NEW k \in Nat, NEW l \in Nat, k <= l, Below(out, k)
  PROVE  Below(out, l)
<1>1. MessageStart \in Events
  BY EventFacts DEF Kinds
<1>2. SignaturesMade(out) \in Seq(Nat)
  BY <1>1, SignaturesMadeOne
<1>3. \A i \in 1..Len(SignaturesMade(out)) : SignaturesMade(out)[i] \in Nat
  BY <1>2
<1> QED
  BY <1>3 DEF Below

(* A signature the newest one may not come before.                         *)
LEMMA LedgerMore ==
  ASSUME NEW base, NEW t, Inside(base, t), NEW c, NEW g, NEW n,
         NEW k \in Nat, NEW l \in Nat, k <= l, Ledger(t, c, g, k, n)
  PROVE  Ledger(t, c, g, l, n)
<1>1. t.out \in Seq(Events) /\ t.pending \in Nat /\ t.trailing \in Nat
  BY InsideFacts
<1> QED
  BY <1>1, BelowMore DEF Ledger, Sorted

(* What the events hold.                                                   *)
LEMMA EmptyEmpty == <<>> \o <<>> = <<>>
<1>1. <<>> \in Seq(Nat)
  OBVIOUS
<1> QED
  BY <1>1, ConcatEmptySeq

LEMMA TwoEvents ==
  ASSUME NEW a \in Events, NEW b \in Events
  PROVE  /\ PartsMade(<<a, b>>) = Made(a) \o Made(b)
         /\ SignaturesMade(<<a, b>>) = Marks(a) \o Marks(b)
<1>1. <<a>> \in Seq(Events) /\ Append(<<a>>, b) = <<a, b>>
  BY OneAndTwo
<1>2. /\ PartsMade(<<a, b>>) = PartsMade(<<a>>) \o Made(b)
      /\ SignaturesMade(<<a, b>>) = SignaturesMade(<<a>>) \o Marks(b)
  BY <1>1, PartsMadeOne, SignaturesMadeOne
<1> QED
  BY <1>2, OneEvent

LEMMA EventValues ==
  ASSUME NEW i, NEW kind, NEW d, NEW g
  PROVE  /\ Made(Start(i, kind, d, g)) = IF d = None THEN <<>> ELSE <<<<kind, d>>>>
         /\ Marks(Start(i, kind, d, g)) = IF g = None THEN <<>> ELSE <<g>>
         /\ Made(Delta(i, kind, d)) = IF d = None \/ kind = "tool_use" THEN <<>>
                                      ELSE <<<<kind, d>>>>
         /\ Marks(Delta(i, kind, d)) = <<>>
         /\ Made(Signed(i, g)) = <<>>
         /\ Marks(Signed(i, g)) = IF g = None THEN <<>> ELSE <<g>>
         /\ Made(Stop(i, kind)) = <<>> /\ Marks(Stop(i, kind)) = <<>>
         /\ Made(MessageStart) = <<>> /\ Marks(MessageStart) = <<>>
         /\ Made(MessageDelta(i, kind)) = <<>> /\ Marks(MessageDelta(i, kind)) = <<>>
         /\ Made(MessageStop(i)) = <<>> /\ Marks(MessageStop(i)) = <<>>
<1>1. /\ Made(Start(i, kind, d, g)) = IF d = None THEN <<>> ELSE <<<<kind, d>>>>
      /\ Marks(Start(i, kind, d, g)) = IF g = None THEN <<>> ELSE <<g>>
  BY DEF Made, Marks, Start, Event
<1>2. /\ Made(Delta(i, kind, d)) = IF d = None \/ kind = "tool_use" THEN <<>>
                                   ELSE <<<<kind, d>>>>
      /\ Marks(Delta(i, kind, d)) = <<>>
  BY DEF Made, Marks, Delta, Event
<1>3. /\ Made(Signed(i, g)) = <<>>
      /\ Marks(Signed(i, g)) = IF g = None THEN <<>> ELSE <<g>>
  BY DEF Made, Marks, Signed, Event
<1>4. Made(Stop(i, kind)) = <<>> /\ Marks(Stop(i, kind)) = <<>>
  BY DEF Made, Marks, Stop, Event
<1>5. Made(MessageStart) = <<>> /\ Marks(MessageStart) = <<>>
  BY DEF Made, Marks, MessageStart, Event
<1>6. Made(MessageDelta(i, kind)) = <<>> /\ Marks(MessageDelta(i, kind)) = <<>>
  BY DEF Made, Marks, MessageDelta, Event
<1>7. Made(MessageStop(i)) = <<>> /\ Marks(MessageStop(i)) = <<>>
  BY DEF Made, Marks, MessageStop, Event
<1> QED
  BY <1>1, <1>2, <1>3, <1>4, <1>5, <1>6, <1>7

(* Events without signatures, while the memory stays as it is.             *)
LEMMA SpeakStep ==
  ASSUME NEW t \in States, NEW u \in States, NEW events \in Seq(Events),
         NEW c, NEW g, NEW k, NEW n, Ledger(t, c, g, k, n),
         u.out = t.out \o events, SignaturesMade(events) = <<>>,
         u.pending = t.pending, u.trailing = t.trailing, u.grounding = t.grounding,
         u.block = t.block \/ t.pending = None
  PROVE  /\ Ledger(u, c \o PartsMade(events), g, k, n)
         /\ PartsMade(events) = <<>> => Ledger(u, c, g, k, n)
<1>1. t.out \in Seq(Events)
  BY DEF States
<1>2. SignaturesMade(u.out) = SignaturesMade(t.out)
      /\ PartsMade(u.out) = c \o PartsMade(events)
      /\ (PartsMade(events) = <<>> => PartsMade(u.out) = c)
  BY <1>1, MoreEvents, ZenonT(60) DEF Ledger
<1>3. Sorted(u, k) /\ Kept(u, n)
  BY <1>2, SameSignatures DEF Ledger, Sorted, Kept
<1> QED
  BY <1>2, <1>3 DEF Ledger

(* Events with one signature, above all that were made.                    *)
LEMMA SignStep ==
  ASSUME NEW t \in States, NEW u \in States, NEW events \in Seq(Events),
         NEW c, NEW g, NEW k, NEW n, Ledger(t, c, g, k, n),
         NEW l \in Nat, NEW x \in Nat, x < l,
         u.out = t.out \o events, SignaturesMade(events) = <<x>>, Below(t.out, x),
         u.pending = None, u.grounding = t.grounding,
         u.trailing = None \/ (x < u.trailing /\ u.trailing < l),
         n # t.pending \/ n = x \/ n = None,
         n # t.trailing \/ n = x \/ n = u.trailing \/ n = None
  PROVE  /\ Ledger(u, c \o PartsMade(events), g, l, n)
         /\ Ledger(u, c \o PartsMade(events), g, l, x)
<1>1. t.out \in Seq(Events) /\ u.out \in Seq(Events) /\ u.trailing \in Nat
  BY DEF States
<1>2. /\ Rising(u.out) /\ Delivered(u.out, x)
      /\ \A m \in Nat : x < m => Below(u.out, m)
      /\ \A m : Delivered(t.out, m) => Delivered(u.out, m)
  BY <1>1, MoreSignatures DEF Ledger, Sorted
<1>3. PartsMade(u.out) = c \o PartsMade(events)
  BY <1>1, MadeTogether DEF Ledger
<1>4. Sorted(u, l)
  BY <1>1, <1>2 DEF Sorted, None
<1>5. Kept(u, x)
  BY <1>2 DEF Kept
<1>6. Kept(u, n)
  BY <1>2 DEF Kept, Ledger
<1> QED
  BY <1>3, <1>4, <1>5, <1>6 DEF Ledger

LEMMA EndBlockLedger ==
  ASSUME NEW base, NEW t, Inside(base, t), NEW c, NEW g, NEW k \in Nat, NEW n,
         Ledger(t, c, g, k, n), c \in Seq(Contents)
  PROVE  /\ Ledger(EndBlock(t), c, g, k, n)
         /\ EndBlock(t).pending = None /\ EndBlock(t).trailing = t.trailing
         /\ EndBlock(t).usedTool = t.usedTool
<1>0. t \in States /\ t.index \in Nat /\ t.pending \in Nat /\ t.trailing \in Nat
      /\ t.block \in Kinds \cup {"none"}
  BY InsideFacts
<1>1. CASE t.block = "none"
  <2>1. EndBlock(t) = t
    BY <1>1 DEF EndBlock
  <2>2. t.pending = None
    BY <1>1 DEF Ledger, Sorted
  <2> QED
    BY <2>1, <2>2
<1>2. CASE t.block # "none"
  <2> DEFINE signs == t.pending # None
             mark == Signed(t.index, t.pending)
             stop == Stop(t.index, t.block)
             events == Append(IF signs THEN <<mark>> ELSE <<>>, stop)
             v == Emit(t, events)
             u == EndBlock(t)
  <2>1. t.block = "thinking" \/ t.pending = None
    BY DEF Ledger, Sorted
  <2>2. mark \in Events /\ stop \in Events
    BY <1>0, <1>2, EventFacts
  <2>3. /\ Made(mark) = <<>> /\ Made(stop) = <<>> /\ Marks(stop) = <<>>
        /\ signs => Marks(mark) = <<t.pending>>
    BY EventValues, ZenonT(60)
  <2>4. u = Ended(v, t.index + 1, None)
    BY <1>2, <2>1 DEF EndBlock, Ended
  <2> HIDE DEF mark, stop
  <2>5. <<mark, stop>> \in Seq(Events) /\ <<stop>> \in Seq(Events)
        /\ Append(<<mark>>, stop) = <<mark, stop>> /\ Append(<<>>, stop) = <<stop>>
    BY <2>2, OneAndTwo
  <2>6. events \in Seq(Events)
    BY <2>5
  <2>7. PartsMade(events) = <<>>
        /\ SignaturesMade(events) = IF signs THEN <<t.pending>> ELSE <<>>
    <3>1. CASE signs
      <4>1. PartsMade(<<mark, stop>>) = Made(mark) \o Made(stop)
            /\ SignaturesMade(<<mark, stop>>) = Marks(mark) \o Marks(stop)
        BY <2>2, TwoEvents
      <4>2. <<>> \o <<>> = <<>> /\ <<t.pending>> \o <<>> = <<t.pending>>
        <5>1. <<t.pending>> \in Seq(Nat) /\ <<>> \in Seq(Nat)
          BY <1>0, OneAndTwo
        <5> QED
          BY <5>1, ConcatEmptySeq
      <4> QED
        BY <3>1, <4>1, <4>2, <2>3, <2>5
    <3>2. CASE ~signs
      BY <3>2, <2>2, <2>3, <2>5, OneEvent
    <3> QED
      BY <3>1, <3>2
  <2> HIDE DEF events
  <2>8. /\ v \in States /\ v.out = t.out \o events /\ v.trailing = t.trailing
        /\ v.grounding = t.grounding /\ v.usedTool = t.usedTool
    BY <1>0, <2>6, EmitTyped
  <2> HIDE DEF v, u
  <2>9. /\ u \in States /\ u.out = t.out \o events /\ u.trailing = t.trailing
        /\ u.grounding = t.grounding /\ u.pending = None /\ u.usedTool = t.usedTool
    <3> DEFINE i == t.index + 1
               z == Ended(v, i, None)
    <3>1. i \in Nat /\ None \in Nat
      BY <1>0 DEF None
    <3>2. u = z
      BY <2>4
    <3>3. v \in States
      BY <2>8
    <3> HIDE DEF i
    <3>4. z \in States /\ z.out = v.out /\ z.pending = None /\ z.usedTool = v.usedTool
      BY <3>1, <3>3, EndTyped, ZenonT(60)
    <3>5. z.trailing = v.trailing /\ z.grounding = v.grounding
      BY <3>1, <3>3, EndTyped, ZenonT(60)
    <3> HIDE DEF z
    <3> QED
      BY <2>8, <3>2, <3>4, <3>5
  <2>10. Ledger(u, c, g, k, n)
    <3>1. CASE signs
      <4>1. Below(t.out, t.pending) /\ t.pending < k
            /\ (t.trailing = None \/ (t.pending < t.trailing /\ t.trailing < k))
        BY <3>1 DEF Ledger, Sorted
      <4>2. Ledger(u, c \o PartsMade(events), g, k, n)
        BY <1>0, <2>6, <2>7, <2>9, <3>1, <4>1, SignStep
      <4>3. c \o <<>> = c
        BY ConcatEmptySeq
      <4> QED
        BY <2>7, <4>2, <4>3
    <3>2. CASE ~signs
      BY <1>0, <2>6, <2>7, <2>9, <3>2, SpeakStep
    <3> QED
      BY <3>1, <3>2
  <2> QED
    BY <2>9, <2>10 DEF u
<1> QED
  BY <1>1, <1>2

(* The content with one thing more, if there is one.                       *)
Told(c, kind, d) == IF d = None THEN c ELSE c \o <<<<kind, d>>>>

LEMMA ToldTyped ==
  ASSUME NEW c \in Seq(Contents), NEW kind \in Kinds, NEW d \in Nat
  PROVE  Told(c, kind, d) \in Seq(Contents)
<1> DEFINE x == <<kind, d>>
<1>1. x \in Contents
  BY DEF Contents
<1> HIDE DEF x
<1>2. <<x>> \in Seq(Contents)
  BY <1>1, OneAndTwo
<1>3. c \o <<x>> \in Seq(Contents)
  BY <1>2, ConcatProperties
<1> QED
  BY <1>3 DEF Told, x

LEMMA KeptNone ==
  ASSUME NEW t, NEW c, NEW g, NEW k, NEW n, Ledger(t, c, g, k, n)
  PROVE  Ledger(t, c, g, k, None)
BY DEF Ledger, Kept

(* A typed state with another block, or with another trailing signature.   *)
Blocked(v, kind) == [v EXCEPT !.block = kind]
Trailing(v, x) == [v EXCEPT !.trailing = x]

LEMMA BlockedTyped ==
  ASSUME NEW v \in States, NEW kind \in Kinds
  PROVE  /\ Blocked(v, kind) \in States /\ Blocked(v, kind).out = v.out
         /\ Blocked(v, kind).block = kind
         /\ Blocked(v, kind).pending = v.pending /\ Blocked(v, kind).trailing = v.trailing
         /\ Blocked(v, kind).grounding = v.grounding
         /\ Blocked(v, kind).usedTool = v.usedTool
<1>1. Blocked(v, kind) \in States
  BY DEF Blocked, States
<1> QED
  BY <1>1 DEF Blocked, States

LEMMA TrailingTyped ==
  ASSUME NEW v \in States, NEW x \in Nat
  PROVE  /\ Trailing(v, x) \in States /\ Trailing(v, x).out = v.out
         /\ Trailing(v, x).block = v.block
         /\ Trailing(v, x).pending = v.pending /\ Trailing(v, x).trailing = x
         /\ Trailing(v, x).grounding = v.grounding
         /\ Trailing(v, x).usedTool = v.usedTool
<1>1. Trailing(v, x) \in States
  BY DEF Trailing, States
<1> QED
  BY <1>1 DEF Trailing, States

LEMMA StartBlockLedger ==
  ASSUME NEW base, NEW t, Inside(base, t), NEW c \in Seq(Contents), NEW g,
         NEW k \in Nat, NEW n, Ledger(t, c, g, k, n),
         NEW kind \in Kinds, NEW d \in Nat, NEW x \in Nat
  PROVE  /\ x = None => Ledger(StartBlock(t, kind, d, x), Told(c, kind, d), g, k, n)
         /\ (x # None /\ x = k /\ t.trailing = None) =>
               Ledger(StartBlock(t, kind, d, x), Told(c, kind, d), g, k + 1, x)
         /\ StartBlock(t, kind, d, x).pending = None
         /\ StartBlock(t, kind, d, x).trailing = t.trailing
         /\ StartBlock(t, kind, d, x).usedTool = t.usedTool
<1> DEFINE w == EndBlock(t)
           e == Start(w.index, kind, d, x)
           v == Emit(w, <<e>>)
           u == StartBlock(t, kind, d, x)
<1>1. Ledger(w, c, g, k, n) /\ w.pending = None /\ w.trailing = t.trailing
      /\ w.usedTool = t.usedTool
  BY EndBlockLedger
<1>2. w \in States /\ w.index \in Nat /\ w.out \in Seq(Events)
  <2>1. Inside(base, w)
    BY EndBlockFits
  <2> HIDE DEF w
  <2> QED
    BY <2>1, InsideFacts
<1>3. u = Blocked(v, kind)
  BY DEF StartBlock, Blocked
<1> HIDE DEF w, u
<1>4. e \in Events
  BY <1>2, EventFacts
<1>5. /\ Made(e) = IF d = None THEN <<>> ELSE <<<<kind, d>>>>
      /\ Marks(e) = IF x = None THEN <<>> ELSE <<x>>
  BY EventValues
<1> HIDE DEF e
<1>6. <<e>> \in Seq(Events) /\ PartsMade(<<e>>) = Made(e) /\ SignaturesMade(<<e>>) = Marks(e)
  BY <1>4, OneAndTwo, OneEvent
<1>7. /\ v \in States /\ v.out = w.out \o <<e>> /\ v.pending = w.pending
      /\ v.trailing = w.trailing /\ v.grounding = w.grounding /\ v.usedTool = w.usedTool
  BY <1>2, <1>6, EmitTyped
<1> HIDE DEF v
<1>8. /\ u \in States /\ u.out = w.out \o <<e>> /\ u.pending = w.pending
      /\ u.trailing = w.trailing /\ u.grounding = w.grounding /\ u.usedTool = w.usedTool
  BY <1>3, <1>7, BlockedTyped
<1>9. ASSUME x = None PROVE Ledger(u, Told(c, kind, d), g, k, n)
  <2>1. SignaturesMade(<<e>>) = <<>>
    BY <1>5, <1>6, <1>9
  <2>2. /\ Ledger(u, c \o PartsMade(<<e>>), g, k, n)
        /\ PartsMade(<<e>>) = <<>> => Ledger(u, c, g, k, n)
    BY <1>1, <1>2, <1>6, <1>8, <2>1, SpeakStep
  <2> QED
    BY <1>5, <1>6, <2>2 DEF Told
<1>10. ASSUME x # None, x = k, t.trailing = None
       PROVE  Ledger(u, Told(c, kind, d), g, k + 1, x)
  <2>1. SignaturesMade(<<e>>) = <<x>> /\ Below(w.out, x) /\ x < k + 1 /\ k + 1 \in Nat
    BY <1>1, <1>5, <1>6, <1>10 DEF Ledger, Sorted
  <2>2. Ledger(w, c, g, k, None)
    BY <1>1, KeptNone
  <2>3. Ledger(u, c \o PartsMade(<<e>>), g, k + 1, x)
    BY <1>1, <1>2, <1>6, <1>8, <1>10, <2>1, <2>2, SignStep
  <2>4. c \o <<>> = c
    BY ConcatEmptySeq
  <2> QED
    BY <1>5, <1>6, <2>3, <2>4 DEF Told
<1> QED
  BY <1>1, <1>8, <1>9, <1>10 DEF u

LEMMA EmitDeltaLedger ==
  ASSUME NEW base, NEW t, Inside(base, t), NEW c \in Seq(Contents), NEW g,
         NEW k, NEW n, Ledger(t, c, g, k, n),
         t.block # "none", NEW d \in Nat
  PROVE  /\ t.block # "tool_use" => Ledger(EmitDelta(t, d), Told(c, t.block, d), g, k, n)
         /\ t.block = "tool_use" => Ledger(EmitDelta(t, d), c, g, k, n)
         /\ EmitDelta(t, d).pending = t.pending
         /\ EmitDelta(t, d).trailing = t.trailing
         /\ EmitDelta(t, d).usedTool = t.usedTool
<1> DEFINE e == Delta(t.index, t.block, d)
           u == EmitDelta(t, d)
<1>1. t \in States /\ t.index \in Nat /\ t.block \in Kinds
  BY InsideFacts
<1>2. e \in Events
  BY <1>1, EventFacts
<1>3. /\ Made(e) = IF d = None \/ t.block = "tool_use" THEN <<>> ELSE <<<<t.block, d>>>>
      /\ Marks(e) = <<>>
  BY DEF Made, Marks, Delta, Event
<1>4. u = Emit(t, <<e>>)
  BY DEF EmitDelta
<1> HIDE DEF e, u
<1>5. <<e>> \in Seq(Events) /\ PartsMade(<<e>>) = Made(e) /\ SignaturesMade(<<e>>) = Marks(e)
  BY <1>2, OneAndTwo, OneEvent
<1>6. /\ u \in States /\ u.out = t.out \o <<e>> /\ u.pending = t.pending /\ u.block = t.block
      /\ u.trailing = t.trailing /\ u.grounding = t.grounding /\ u.usedTool = t.usedTool
  BY <1>1, <1>4, <1>5, EmitTyped
<1>7. /\ Ledger(u, c \o PartsMade(<<e>>), g, k, n)
      /\ PartsMade(<<e>>) = <<>> => Ledger(u, c, g, k, n)
  BY <1>1, <1>3, <1>5, <1>6, SpeakStep
<1> QED
  BY <1>3, <1>5, <1>6, <1>7 DEF Told, u

(* A block of its own makes what its deltas make.                          *)
LEMMA WholeMakes ==
  ASSUME NEW base, NEW t, Inside(base, t), NEW kind \in Kinds,
         NEW deltas \in Seq(Events)
  PROVE  \E events \in Seq(Events) :
            /\ Whole(t, kind, deltas) = Moved(Emit(t, events), t.index + 1)
            /\ PartsMade(events) = PartsMade(deltas)
            /\ SignaturesMade(events) = SignaturesMade(deltas)
<1> DEFINE start == Start(t.index, kind, None, None)
           stop == Stop(t.index, kind)
           a == <<start>> \o deltas
           events == a \o <<stop>>
<1>1. t.index \in Nat
  BY InsideFacts
<1>2. start \in Events /\ stop \in Events
  BY <1>1, EventFacts DEF None
<1>3. Made(start) = <<>> /\ Marks(start) = <<>> /\ Made(stop) = <<>> /\ Marks(stop) = <<>>
  BY EventValues
<1>4. Whole(t, kind, deltas) = Moved(Emit(t, events), t.index + 1)
  BY DEF Whole, Moved
<1> HIDE DEF start, stop
<1>5. <<start>> \in Seq(Events) /\ <<stop>> \in Seq(Events)
      /\ PartsMade(<<start>>) = <<>> /\ SignaturesMade(<<start>>) = <<>>
      /\ PartsMade(<<stop>>) = <<>> /\ SignaturesMade(<<stop>>) = <<>>
  BY <1>2, <1>3, OneAndTwo, OneEvent
<1>6. PartsMade(deltas) \in Seq(Contents) /\ SignaturesMade(deltas) \in Seq(Nat)
  BY <1>2, PartsMadeOne, SignaturesMadeOne
<1>7. /\ <<>> \o PartsMade(deltas) = PartsMade(deltas)
      /\ <<>> \o SignaturesMade(deltas) = SignaturesMade(deltas)
  BY <1>6, ConcatEmptySeq
<1>8. /\ PartsMade(a) = PartsMade(deltas) /\ SignaturesMade(a) = SignaturesMade(deltas)
      /\ a \in Seq(Events)
  BY <1>5, <1>7, MadeTogether, ConcatProperties, ZenonT(60)
<1> HIDE DEF a
<1>9. /\ PartsMade(events) = PartsMade(a) /\ SignaturesMade(events) = SignaturesMade(a)
      /\ events \in Seq(Events)
  BY <1>5, <1>8, MoreEvents, ConcatProperties
<1> HIDE DEF events
<1> QED
  BY <1>4, <1>8, <1>9

LEMMA EmptyThinkingMakes ==
  ASSUME NEW base, NEW t, Inside(base, t), NEW x \in Nat \ {0}
  PROVE  \E events \in Seq(Events) :
            /\ EmptyThinking(t, x) = Moved(Emit(t, events), t.index + 1)
            /\ PartsMade(events) = <<>> /\ SignaturesMade(events) = <<x>>
<1> DEFINE a == Delta(t.index, "thinking", None)
           b == Signed(t.index, x)
<1>1. t.index \in Nat /\ "thinking" \in Kinds /\ None \in Nat /\ x # None
  BY InsideFacts DEF Kinds, None
<1>2. a \in Events /\ b \in Events
  BY <1>1, EventFacts
<1>3. Made(a) = <<>> /\ Marks(a) = <<>> /\ Made(b) = <<>> /\ Marks(b) = <<x>>
  BY <1>1, EventValues, ZenonT(60)
<1>4. EmptyThinking(t, x) = Whole(t, "thinking", <<a, b>>)
  BY DEF EmptyThinking
<1> HIDE DEF a, b
<1>5. <<a, b>> \in Seq(Events)
  BY <1>2, OneAndTwo
<1>6. PartsMade(<<a, b>>) = <<>> /\ SignaturesMade(<<a, b>>) = <<x>>
  <2>1. PartsMade(<<a, b>>) = Made(a) \o Made(b)
        /\ SignaturesMade(<<a, b>>) = Marks(a) \o Marks(b)
    BY <1>2, TwoEvents
  <2>2. <<>> \o <<>> = <<>> /\ <<>> \o <<x>> = <<x>>
    <3>1. <<x>> \in Seq(Nat) /\ <<>> \in Seq(Nat)
      BY OneAndTwo
    <3> QED
      BY <3>1, ConcatEmptySeq
  <2> QED
    BY <1>3, <2>1, <2>2
<1> DEFINE deltas == <<a, b>>
<1>7. deltas \in Seq(Events) /\ EmptyThinking(t, x) = Whole(t, "thinking", deltas)
      /\ PartsMade(deltas) = <<>> /\ SignaturesMade(deltas) = <<x>>
  BY <1>4, <1>5, <1>6
<1> HIDE DEF deltas
<1>8. PICK events \in Seq(Events) :
          /\ Whole(t, "thinking", deltas) = Moved(Emit(t, events), t.index + 1)
          /\ PartsMade(events) = PartsMade(deltas)
          /\ SignaturesMade(events) = SignaturesMade(deltas)
  BY <1>1, <1>7, WholeMakes
<1> QED
  BY <1>7, <1>8

LEMMA MovedEmitTyped ==
  ASSUME NEW t \in States, NEW events \in Seq(Events)
  PROVE  LET v == Moved(Emit(t, events), t.index + 1)
         IN  /\ v \in States /\ v.out = t.out \o events /\ v.block = t.block
             /\ v.pending = t.pending /\ v.trailing = t.trailing
             /\ v.grounding = t.grounding /\ v.usedTool = t.usedTool
<1> DEFINE e == Emit(t, events)
<1>1. /\ e \in States /\ e.out = t.out \o events /\ e.block = t.block
      /\ e.pending = t.pending /\ e.trailing = t.trailing
      /\ e.grounding = t.grounding /\ e.usedTool = t.usedTool
  BY EmitTyped
<1>2. t.index + 1 \in Nat
  BY DEF States
<1> HIDE DEF e
<1>3. Moved(e, t.index + 1) \in States /\ Moved(e, t.index + 1).out = e.out
      /\ Moved(e, t.index + 1).block = e.block
  BY <1>1, <1>2, MovedTyped
<1>4. /\ Moved(e, t.index + 1).pending = e.pending
      /\ Moved(e, t.index + 1).trailing = e.trailing
      /\ Moved(e, t.index + 1).grounding = e.grounding
      /\ Moved(e, t.index + 1).usedTool = e.usedTool
  BY <1>1 DEF Moved, States
<1> QED
  BY <1>1, <1>3, <1>4 DEF e

(* An empty thinking block delivers a signature above all that were made.  *)
LEMMA EmptyThinkingLedger ==
  ASSUME NEW base, NEW t, Inside(base, t), NEW c \in Seq(Contents), NEW g,
         NEW k, NEW n, Ledger(t, c, g, k, n), t.pending = None,
         NEW x \in Nat \ {0}, NEW l \in Nat, x < l, Below(t.out, x),
         t.trailing = None \/ t.trailing = x
  PROVE  /\ Ledger(Trailing(EmptyThinking(t, x), None), c, g, l, n)
         /\ Ledger(Trailing(EmptyThinking(t, x), None), c, g, l, x)
         /\ t.trailing = None => Ledger(EmptyThinking(t, x), c, g, l, x)
         /\ EmptyThinking(t, x) \in States
         /\ EmptyThinking(t, x).pending = None
         /\ EmptyThinking(t, x).trailing = t.trailing
         /\ EmptyThinking(t, x).grounding = t.grounding
         /\ EmptyThinking(t, x).usedTool = t.usedTool
<1> DEFINE v == EmptyThinking(t, x)
           u == Trailing(v, None)
<1>1. t \in States /\ t.trailing \in Nat
  BY InsideFacts
<1>2. PICK events \in Seq(Events) :
          /\ v = Moved(Emit(t, events), t.index + 1)
          /\ PartsMade(events) = <<>> /\ SignaturesMade(events) = <<x>>
  BY EmptyThinkingMakes
<1> HIDE DEF v
<1>3. /\ v \in States /\ v.out = t.out \o events /\ v.pending = None
      /\ v.trailing = t.trailing /\ v.grounding = t.grounding
      /\ v.usedTool = t.usedTool
  BY <1>1, <1>2, MovedEmitTyped
<1>4. /\ u \in States /\ u.out = t.out \o events /\ u.pending = None
      /\ u.trailing = None /\ u.grounding = t.grounding
  <2>1. None \in Nat
    BY DEF None
  <2> QED
    BY <1>3, <2>1, TrailingTyped
<1> HIDE DEF u
<1>5. c \o <<>> = c
  BY ConcatEmptySeq
<1>6. Ledger(u, c, g, l, n) /\ Ledger(u, c, g, l, x)
  <2>1. n # t.pending \/ n = x \/ n = None
    OBVIOUS
  <2>2. n # t.trailing \/ n = x \/ n = u.trailing \/ n = None
    OBVIOUS
  <2>3. Ledger(u, c \o PartsMade(events), g, l, n) /\ Ledger(u, c \o PartsMade(events), g, l, x)
    BY <1>1, <1>2, <1>4, <2>1, <2>2, SignStep
  <2> QED
    BY <1>2, <1>5, <2>3
<1>7. ASSUME t.trailing = None PROVE Ledger(v, c, g, l, x)
  <2>1. Ledger(t, c, g, k, None)
    BY KeptNone
  <2>2. Ledger(v, c \o PartsMade(events), g, l, x)
    BY <1>1, <1>2, <1>3, <1>7, <2>1, SignStep
  <2> QED
    BY <1>2, <1>5, <2>2
<1> QED
  BY <1>3, <1>6, <1>7 DEF u, v

LEMMA FlushTrailingLedger ==
  ASSUME NEW base, NEW t, Inside(base, t), NEW c \in Seq(Contents), NEW g,
         NEW k \in Nat, NEW n, Ledger(t, c, g, k, n)
  PROVE  /\ Ledger(FlushTrailing(t), c, g, k, n)
         /\ FlushTrailing(t).trailing = None
         /\ FlushTrailing(t).usedTool = t.usedTool
<1>1. CASE t.trailing = None
  BY <1>1 DEF FlushTrailing
<1>2. CASE t.trailing # None
  <2> DEFINE w == EndBlock(t)
             x == t.trailing
  <2>1. FlushTrailing(t) = Trailing(EmptyThinking(w, x), None)
    BY <1>2 DEF FlushTrailing, Trailing
  <2>2. Inside(base, w)
    BY EndBlockFits
  <2>3. Ledger(w, c, g, k, n) /\ w.pending = None /\ w.trailing = x /\ w.usedTool = t.usedTool
    BY EndBlockLedger
  <2>4. x \in Nat \ {0}
    BY <1>2, InsideFacts DEF None
  <2> HIDE DEF w, x
  <2>5. Below(w.out, x) /\ x < k
    BY <2>3, <2>4 DEF Ledger, Sorted, None
  <2>6. /\ Ledger(Trailing(EmptyThinking(w, x), None), c, g, k, n)
        /\ EmptyThinking(w, x) \in States
        /\ EmptyThinking(w, x).usedTool = w.usedTool
    BY <2>2, <2>3, <2>4, <2>5, EmptyThinkingLedger
  <2>7. None \in Nat
    BY DEF None
  <2> DEFINE y == EmptyThinking(w, x)
             z == Trailing(y, None)
  <2>8. y \in States
    BY <2>6
  <2>9. Ledger(z, c, g, k, n) /\ y.usedTool = t.usedTool
    BY <2>3, <2>6
  <2>10. FlushTrailing(t) = z
    BY <2>1
  <2> HIDE DEF y
  <2>11. z.trailing = None /\ z.usedTool = y.usedTool
    BY <2>7, <2>8, TrailingTyped
  <2> HIDE DEF z
  <2> QED
    BY <2>9, <2>10, <2>11
<1> QED
  BY <1>1, <1>2

LEMMA WithinLedger ==
  ASSUME NEW base, NEW t, Inside(base, t), NEW c \in Seq(Contents), NEW g,
         NEW k \in Nat, NEW n, Ledger(t, c, g, k, n), NEW kind \in Kinds
  PROVE  /\ Ledger(Within(t, kind), c, g, k, n)
         /\ Within(t, kind).trailing = t.trailing
         /\ Within(t, kind).usedTool = t.usedTool
<1>1. None \in Nat
  BY DEF None
<1>2. /\ Ledger(StartBlock(t, kind, None, None), Told(c, kind, None), g, k, n)
      /\ StartBlock(t, kind, None, None).trailing = t.trailing
      /\ StartBlock(t, kind, None, None).usedTool = t.usedTool
  BY <1>1, StartBlockLedger
<1> QED
  BY <1>2 DEF Within, Told

(* What a part with signature x leaves to keep.                            *)
Newest(n, x) == IF x = None THEN n ELSE x

LEMMA ProcessThinkingLedger ==
  ASSUME NEW base, NEW t, Inside(base, t), NEW c \in Seq(Contents), NEW g,
         NEW k \in Nat \ {0}, NEW n, Ledger(t, c, g, k, n),
         NEW text \in Nat, NEW x \in Nat, x = None \/ x = k
  PROVE  /\ Ledger(ProcessThinking(t, text, x), Told(c, "thinking", text), g, k + 1, Newest(n, x))
         /\ ProcessThinking(t, text, x).usedTool = t.usedTool
<1> DEFINE v == FlushTrailing(t)
           w == Within(v, "thinking")
           d == Told(c, "thinking", text)
           u == IF text = None THEN w ELSE EmitDelta(w, text)
           y == ProcessThinking(t, text, x)
<1>1. y = IF x = None THEN u ELSE [u EXCEPT !.pending = x]
  BY DEF ProcessThinking
<1>2. Inside(base, v) /\ Ledger(v, c, g, k, n) /\ v.trailing = None
      /\ v.usedTool = t.usedTool
  BY FlushTrailingFits, FlushTrailingLedger
<1> HIDE DEF v, y
<1>3. "thinking" \in Kinds /\ "thinking" # "none" /\ "thinking" # "tool_use"
  BY DEF Kinds
<1>4. Inside(base, w) /\ w.block = "thinking" /\ Ledger(w, c, g, k, n) /\ w.trailing = None
      /\ w.usedTool = t.usedTool
  <2>1. Inside(base, w) /\ w.block = "thinking"
    BY <1>2, <1>3, WithinFits
  <2>2. Ledger(w, c, g, k, n) /\ w.trailing = v.trailing /\ w.usedTool = v.usedTool
    BY <1>2, <1>3, WithinLedger
  <2> QED
    BY <1>2, <2>1, <2>2
<1> HIDE DEF w
<1>5. Inside(base, u) /\ u.block = "thinking" /\ Ledger(u, d, g, k, n) /\ u.trailing = None
      /\ u.usedTool = t.usedTool
  <2>1. CASE text = None
    BY <1>4, <2>1 DEF Told
  <2>2. CASE text # None
    BY <1>3, <1>4, <2>2, EmitDeltaFits, EmitDeltaLedger
  <2> QED
    BY <2>1, <2>2
<1> HIDE DEF u, d
<1>6. u \in States /\ k + 1 \in Nat /\ k <= k + 1
  BY <1>5, InsideFacts
<1>7. Ledger(u, d, g, k + 1, n)
  BY <1>5, <1>6, LedgerMore
<1>8. CASE x = None
  BY <1>1, <1>5, <1>7, <1>8 DEF y, Newest, d
<1>9. CASE x # None
  <2>1. y = [u EXCEPT !.pending = k] /\ x = k
    BY <1>1, <1>9
  <2>2. /\ y.out = u.out /\ y.block = u.block /\ y.trailing = None
        /\ y.grounding = u.grounding /\ y.pending = k /\ y.usedTool = u.usedTool
    BY <1>5, <1>6, <2>1 DEF States
  <2>3. Below(u.out, k)
    BY <1>5 DEF Ledger, Sorted
  <2>4. Sorted(y, k + 1)
    BY <1>5, <1>7, <2>2, <2>3 DEF Ledger, Sorted
  <2>5. Ledger(y, d, g, k + 1, k)
    BY <1>7, <2>2, <2>4 DEF Ledger, Kept
  <2> QED
    BY <1>5, <1>9, <2>1, <2>2, <2>5 DEF y, Newest, d
<1> QED
  BY <1>8, <1>9

LEMMA ProcessTextLedger ==
  ASSUME NEW base, NEW t, Inside(base, t), NEW c \in Seq(Contents), NEW g,
         NEW k \in Nat \ {0}, NEW n, Ledger(t, c, g, k, n),
         NEW text \in Nat, NEW x \in Nat, x = None \/ x = k
  PROVE  /\ Ledger(ProcessText(t, text, x), Told(c, "text", text), g, k + 1, Newest(n, x))
         /\ ProcessText(t, text, x).usedTool = t.usedTool
<1> DEFINE v == FlushTrailing(t)
           d == Told(c, "text", text)
           y == ProcessText(t, text, x)
<1>1. Inside(base, v) /\ Ledger(v, c, g, k, n) /\ v.trailing = None
      /\ v.usedTool = t.usedTool
  BY FlushTrailingFits, FlushTrailingLedger
<1>2. "text" \in Kinds /\ "text" # "none" /\ "text" # "tool_use" /\ None \in Nat
      /\ k + 1 \in Nat /\ k <= k + 1
  BY DEF Kinds, None
<1>3. CASE text = None /\ x = None
  <2>1. y = t /\ d = c
    BY <1>3 DEF ProcessText, Told
  <2> QED
    BY <1>2, <1>3, <2>1, LedgerMore DEF Newest
<1>4. CASE text = None /\ x # None
  <2>1. y = Trailing(t, k) /\ d = c /\ x = k /\ t \in States /\ t.pending \in Nat
    BY <1>4, InsideFacts DEF ProcessText, Told, Trailing
  <2> HIDE DEF y
  <2>2. /\ y.out = t.out /\ y.block = t.block /\ y.trailing = k /\ y.pending = t.pending
        /\ y.grounding = t.grounding /\ y.usedTool = t.usedTool
    BY <2>1, TrailingTyped
  <2>3. Ledger(t, c, g, k + 1, n)
    BY <1>2, LedgerMore
  <2>4. Sorted(y, k + 1)
    <3>1. Below(t.out, k) /\ t.pending < k
      BY <2>1 DEF Ledger, Sorted, None
    <3> QED
      BY <2>1, <2>2, <2>3, <3>1 DEF Ledger, Sorted
  <2>5. Ledger(y, c, g, k + 1, k)
    BY <2>2, <2>3, <2>4 DEF Ledger, Kept
  <2> QED
    BY <1>4, <2>1, <2>2, <2>5 DEF y, Newest
<1>5. CASE text # None /\ x = None
  <2> DEFINE w == Within(v, "text")
  <2>1. y = EmitDelta(w, text)
    BY <1>5 DEF ProcessText
  <2> HIDE DEF v
  <2>2. Inside(base, w) /\ w.block = "text" /\ Ledger(w, c, g, k, n)
        /\ w.usedTool = t.usedTool
    BY <1>1, <1>2, WithinFits, WithinLedger
  <2> HIDE DEF w
  <2>3. Inside(base, EmitDelta(w, text)) /\ Ledger(EmitDelta(w, text), d, g, k, n)
        /\ EmitDelta(w, text).usedTool = t.usedTool
    BY <1>2, <2>2, EmitDeltaFits, EmitDeltaLedger
  <2> HIDE DEF y, d
  <2>4. Ledger(y, d, g, k + 1, n)
    BY <1>2, <2>1, <2>3, LedgerMore
  <2> QED
    BY <1>5, <2>1, <2>3, <2>4 DEF Newest, y, d
<1>6. CASE text # None /\ x # None
  <2> DEFINE w == StartBlock(v, "text", None, None)
             p == EmitDelta(w, text)
             z == EndBlock(p)
  <2>1. y = EmptyThinking(z, k) /\ x = k
    BY <1>6 DEF ProcessText
  <2> HIDE DEF v
  <2>2. Inside(base, w) /\ w.block = "text" /\ Ledger(w, c, g, k, n) /\ w.trailing = None
        /\ w.usedTool = t.usedTool
    <3>1. Inside(base, v) /\ Ledger(v, c, g, k, n) /\ k \in Nat /\ None \in Nat /\ "text" \in Kinds
      BY <1>1, <1>2
    <3>2. Ledger(w, Told(c, "text", None), g, k, n)
          /\ w.trailing = v.trailing /\ w.usedTool = v.usedTool
      BY <3>1, StartBlockLedger, SMTT(60)
    <3>3. Inside(base, w) /\ w.block = "text"
      BY <1>1, <1>2, StartBlockFits
    <3> QED
      BY <1>1, <3>1, <3>2, <3>3 DEF Told
  <2> HIDE DEF w
  <2>3. Inside(base, p) /\ Ledger(p, d, g, k, n) /\ p.trailing = None
        /\ p.usedTool = t.usedTool
    BY <1>2, <2>2, EmitDeltaFits, EmitDeltaLedger
  <2>4. d \in Seq(Contents)
    BY <1>2, ToldTyped
  <2> HIDE DEF p, d
  <2>5. Inside(base, z) /\ Ledger(z, d, g, k, n) /\ z.trailing = None /\ z.pending = None
        /\ z.usedTool = t.usedTool
    BY <2>3, <2>4, EndBlockFits, EndBlockLedger
  <2> HIDE DEF z, y
  <2>6. Below(z.out, k) /\ k < k + 1
    BY <2>5 DEF Ledger, Sorted
  <2>7. Ledger(EmptyThinking(z, k), d, g, k + 1, k)
        /\ EmptyThinking(z, k).usedTool = z.usedTool
    BY <1>2, <2>4, <2>5, <2>6, EmptyThinkingLedger
  <2> QED
    BY <1>6, <2>1, <2>5, <2>7 DEF Newest, y, d
<1> QED
  BY <1>3, <1>4, <1>5, <1>6

LEMMA ProcessFunctionCallLedger ==
  ASSUME NEW base, NEW t, Inside(base, t), NEW c \in Seq(Contents), NEW g,
         NEW k \in Nat \ {0}, NEW n, Ledger(t, c, g, k, n),
         NEW part \in GeminiParts, part.sig \in {None, k}
  PROVE  /\ Ledger(ProcessFunctionCall(t, part), Told(c, "tool_use", part.text), g, k + 1,
                   Newest(n, part.sig))
         /\ ProcessFunctionCall(t, part).usedTool
<1> DEFINE f == FlushTrailing(t)
           v == [f EXCEPT !.usedTool = TRUE]
           d == Told(c, "tool_use", part.text)
           w == StartBlock(v, "tool_use", part.text, part.sig)
           x == IF part.kind = "bare" THEN w ELSE EmitDelta(w, part.text)
           m == Newest(n, part.sig)
<1>1. part.text \in Nat /\ part.sig \in Nat /\ "tool_use" \in Kinds /\ "tool_use" # "none"
      /\ k + 1 \in Nat /\ k <= k + 1 /\ TRUE \in BOOLEAN
  BY DEF GeminiParts, Kinds
<1>2. ProcessFunctionCall(t, part) = EndBlock(x)
  BY DEF ProcessFunctionCall
<1>3. Inside(base, f) /\ Ledger(f, c, g, k, n) /\ f.trailing = None
  BY FlushTrailingFits, FlushTrailingLedger
<1> HIDE DEF f
<1>4. Inside(base, v)
  BY <1>1, <1>3, MemoryFits
<1>5. Ledger(v, c, g, k, n) /\ v.trailing = None /\ v.usedTool = TRUE
  <2>1. f \in States
    BY <1>3, InsideFacts
  <2>2. /\ v.out = f.out /\ v.block = f.block /\ v.pending = f.pending
        /\ v.trailing = f.trailing /\ v.grounding = f.grounding /\ v.usedTool = TRUE
    BY <2>1 DEF States
  <2> HIDE DEF v
  <2> QED
    BY <1>3, <2>2 DEF Ledger, Sorted, Kept
<1> HIDE DEF v
<1>6. Inside(base, w) /\ w.block = "tool_use"
  <2> DEFINE a == part.text
             b == part.sig
  <2>1. a \in Nat /\ b \in Nat
    BY <1>1
  <2> HIDE DEF a, b
  <2>2. Inside(base, StartBlock(v, "tool_use", a, b))
        /\ StartBlock(v, "tool_use", a, b).block = "tool_use"
    <3>1. "tool_use" \in Kinds
      BY DEF Kinds
    <3>2. Inside(base, StartBlock(v, "tool_use", a, b))
      BY <1>4, <2>1, <3>1, StartBlockFits
    <3>3. StartBlock(v, "tool_use", a, b).block = "tool_use"
      BY <1>4, <2>1, <3>1, StartBlockFits
    <3> QED
      BY <3>2, <3>3
  <2> QED
    BY <2>2 DEF a, b
<1>7. w.usedTool = v.usedTool
  BY <1>1, <1>4, <1>5, StartBlockLedger
<1>8. Ledger(w, d, g, k + 1, m)
  <2>1. CASE part.sig = None
    <3>1. Ledger(w, d, g, k, n)
      BY <1>1, <1>4, <1>5, <2>1, StartBlockLedger
    <3> HIDE DEF w, d
    <3>2. Ledger(w, d, g, k + 1, n)
      BY <1>1, <1>6, <3>1, LedgerMore
    <3> QED
      BY <2>1, <3>2 DEF Newest
  <2>2. CASE part.sig # None
    <3>1. part.sig = k
      BY <2>2
    <3>2. Ledger(w, d, g, k + 1, part.sig)
      BY <1>1, <1>4, <1>5, <2>2, <3>1, StartBlockLedger
    <3> QED
      BY <2>2, <3>2 DEF Newest
  <2> QED
    BY <2>1, <2>2
<1>9. d \in Seq(Contents)
  BY <1>1, ToldTyped
<1> HIDE DEF w, d, m
<1>10. Inside(base, x) /\ Ledger(x, d, g, k + 1, m) /\ x.usedTool = w.usedTool
  <2>1. CASE part.kind = "bare"
    BY <1>6, <1>8, <2>1
  <2>2. CASE part.kind # "bare"
    <3>1. Inside(base, EmitDelta(w, part.text))
      BY <1>1, <1>6, EmitDeltaFits
    <3>2. Ledger(EmitDelta(w, part.text), d, g, k + 1, m)
          /\ EmitDelta(w, part.text).usedTool = w.usedTool
      BY <1>1, <1>6, <1>8, <1>9, EmitDeltaLedger
    <3> QED
      BY <2>2, <3>1, <3>2
  <2> QED
    BY <2>1, <2>2
<1> HIDE DEF x
<1>11. Ledger(EndBlock(x), d, g, k + 1, m) /\ EndBlock(x).usedTool = x.usedTool
  BY <1>1, <1>9, <1>10, EndBlockLedger
<1> QED
  BY <1>2, <1>5, <1>7, <1>10, <1>11 DEF d, m

(* A part numbered k says what it says, with no signature lost.            *)
LEMMA ProcessPartLedger ==
  ASSUME NEW base, NEW t, Inside(base, t), NEW c \in Seq(Contents), NEW g,
         NEW k \in Nat \ {0}, NEW n, Ledger(t, c, g, k, n),
         NEW part \in GeminiParts, part.sig \in {None, k}
  PROVE  /\ Ledger(ProcessPart(t, part), c \o Says(part), g, k + 1, Newest(n, part.sig))
         /\ ProcessPart(t, part).usedTool
               <=> (t.usedTool \/ BlockOf(part.kind) = "tool_use")
<1> DEFINE kind == BlockOf(part.kind)
           text == IF part.kind = "image" /\ part.sig # None THEN None ELSE part.text
           u == ProcessPart(t, part)
<1>1. part.text \in Nat /\ part.sig \in Nat /\ None \in Nat /\ text \in Nat
      /\ t.usedTool \in BOOLEAN
  <2>1. t \in States
    BY InsideFacts
  <2> QED
    BY <2>1 DEF GeminiParts, None, States
<1>2. c \o Says(part) = Told(c, kind, text)
  <2>1. c \o <<>> = c
    BY ConcatEmptySeq
  <2> QED
    BY <2>1 DEF Says, Told
<1>3. CASE part.kind \in {"call", "bare"}
  <2>1. u = ProcessFunctionCall(t, part) /\ kind = "tool_use" /\ text = part.text
    BY <1>3 DEF ProcessPart, BlockOf
  <2>2. /\ Ledger(ProcessFunctionCall(t, part), Told(c, "tool_use", part.text), g, k + 1,
                  Newest(n, part.sig))
        /\ ProcessFunctionCall(t, part).usedTool
    BY ProcessFunctionCallLedger
  <2> QED
    BY <1>2, <2>1, <2>2
<1>4. CASE part.kind = "thought" /\ (part.text # None \/ part.sig # None)
  <2>1. u = ProcessThinking(t, part.text, part.sig) /\ kind = "thinking" /\ text = part.text
    BY <1>4 DEF ProcessPart, BlockOf
  <2>2. /\ Ledger(ProcessThinking(t, part.text, part.sig), Told(c, "thinking", part.text),
                  g, k + 1, Newest(n, part.sig))
        /\ ProcessThinking(t, part.text, part.sig).usedTool = t.usedTool
    <3> DEFINE a == part.text
               b == part.sig
    <3>1. a \in Nat /\ b \in Nat /\ (b = None \/ b = k)
      BY <1>1
    <3> HIDE DEF a, b
    <3>2. /\ Ledger(ProcessThinking(t, a, b), Told(c, "thinking", a), g, k + 1, Newest(n, b))
          /\ ProcessThinking(t, a, b).usedTool = t.usedTool
      BY <3>1, ProcessThinkingLedger
    <3> QED
      BY <3>2 DEF a, b
  <2> QED
    BY <1>2, <2>1, <2>2
<1>5. CASE part.kind \notin {"call", "bare", "thought"} /\ (part.text # None \/ part.sig # None)
  <2>1. u = ProcessText(t, text, part.sig) /\ kind = "text"
    BY <1>5 DEF ProcessPart, BlockOf
  <2> HIDE DEF text
  <2>2. /\ Ledger(ProcessText(t, text, part.sig), Told(c, "text", text),
                  g, k + 1, Newest(n, part.sig))
        /\ ProcessText(t, text, part.sig).usedTool = t.usedTool
    <3> DEFINE b == part.sig
    <3>1. text \in Nat /\ b \in Nat /\ (b = None \/ b = k)
      BY <1>1
    <3> HIDE DEF b
    <3>2. /\ Ledger(ProcessText(t, text, b), Told(c, "text", text), g, k + 1, Newest(n, b))
          /\ ProcessText(t, text, b).usedTool = t.usedTool
      BY <3>1, ProcessTextLedger
    <3> QED
      BY <3>2 DEF b
  <2> QED
    BY <1>2, <2>1, <2>2
<1>6. CASE part.kind \notin {"call", "bare"} /\ part.text = None /\ part.sig = None
  <2>1. u = t
    BY <1>6 DEF ProcessPart
  <2>2. kind # "tool_use" /\ Told(c, kind, text) = c /\ Newest(n, part.sig) = n
    BY <1>6 DEF GeminiParts, PartKinds, BlockOf, Told, Newest
  <2>3. k + 1 \in Nat /\ k \in Nat /\ k <= k + 1
    OBVIOUS
  <2>4. Ledger(t, c, g, k + 1, n)
    BY <2>3, LedgerMore
  <2> QED
    BY <1>1, <1>2, <2>1, <2>2, <2>4
<1> QED
  BY <1>3, <1>4, <1>5, <1>6

(* What a sequence with one part more says, and its newest signature.      *)
LEMMA OnePartMore ==
  ASSUME NEW q \in Seq(GeminiParts), NEW p \in GeminiParts
  PROVE  /\ Said(Append(q, p)) = Said(q) \o Says(p)
         /\ Said(q) \in Seq(Contents)
         /\ Latest(Append(q, p)) = Newest(Latest(q), p.sig)
<1>1. Said(Append(q, p)) = Said(q) \o Says(p) /\ Said(q) \in Seq(Contents)
  BY SaidOne
<1> DEFINE a == Signatures(q)
           b == Signatures(Append(q, p))
<1>2. a \in Seq(Nat) /\ b = a \o Signs(p) /\ p.sig \in Nat
  BY SignaturesOne DEF GeminiParts
<1>3. Latest(q) = (IF a = <<>> THEN None ELSE a[Len(a)])
      /\ Latest(Append(q, p)) = (IF b = <<>> THEN None ELSE b[Len(b)])
  BY DEF Latest
<1> HIDE DEF a, b
<1>4. CASE p.sig = None
  <2>1. Signs(p) = <<>> /\ a \o <<>> = a
    BY <1>2, <1>4, ConcatEmptySeq DEF Signs
  <2> QED
    BY <1>1, <1>2, <1>3, <1>4, <2>1 DEF Newest
<1>5. CASE p.sig # None
  <2>1. b = a \o <<p.sig>>
    BY <1>2, <1>5 DEF Signs
  <2>2. b # <<>> /\ b[Len(b)] = p.sig
    BY <1>2, <2>1
  <2> QED
    BY <1>1, <1>3, <1>5, <2>2 DEF Newest
<1> QED
  BY <1>4, <1>5

(* A sequence with one more element, after another.                        *)
LEMMA AppendLast ==
  ASSUME NEW T, NEW q \in Seq(T), NEW b \in Seq(T), NEW p \in T
  PROVE  q \o Append(b, p) = Append(q \o b, p) /\ q \o b \in Seq(T)
<1> DEFINE e == <<p>>
<1>1. e \in Seq(T) /\ Append(b, p) = b \o e /\ q \o b \in Seq(T)
  BY OneAndTwo, AppendIsConcat, ConcatProperties
<1>2. Append(q \o b, p) = (q \o b) \o e
  BY <1>1, AppendIsConcat
<1> HIDE DEF e
<1>3. (q \o b) \o e = q \o (b \o e)
  BY ONLY <1>1, q \in Seq(T), b \in Seq(T), ConcatAssociative
<1> QED
  BY <1>1, <1>2, <1>3

(* Parts whose signatures are their numbers, from k on.                    *)
Numbered(parts, k) == \A j \in 1..Len(parts) : parts[j].sig \in {None, k + j - 1}

UsesTool(parts) == \E j \in 1..Len(parts) : BlockOf(parts[j].kind) = "tool_use"

(* The states in which the parts of a line are read, one after the other.  *)
ReadBy(read, t, parts) ==
    /\ ProcessParts(t, parts) = read[Len(parts)]
    /\ read[0] = t
    /\ \A i \in 1..Len(parts) : read[i] = ProcessPart(read[i - 1], parts[i])

LEMMA PartsAreRead ==
  ASSUME NEW t, NEW parts \in Seq(GeminiParts)
  PROVE  \E read : ReadBy(read, t, parts)
<1>1. Len(parts) \in Nat
  OBVIOUS
<1>2. PICK read : /\ ProcessParts(t, parts) = read[Len(parts)]
                  /\ read[0] = t
                  /\ \A i \in 1..Len(parts) :
                         read[i] = ProcessPart(read[i - 1], parts[i])
  BY <1>1, ReadParts
<1> QED
  BY <1>2 DEF ReadBy

(* A line of any number of parts says what they say.                       *)
LEMMA ProcessPartsLedger ==
  ASSUME NEW base, NEW t, Inside(base, t), NEW q \in Seq(GeminiParts), NEW g,
         NEW k \in Nat \ {0}, Ledger(t, Said(q), g, k, Latest(q)),
         NEW parts \in Seq(GeminiParts), Numbered(parts, k)
  PROVE  Ledger(ProcessParts(t, parts), Said(q \o parts), g, k + Len(parts), Latest(q \o parts))
<1>1. Len(parts) \in Nat
  OBVIOUS
<1>2. PICK read : ReadBy(read, t, parts)
  BY PartsAreRead
<1> DEFINE n == Len(parts)
           so(m) == q \o SubSeq(parts, 1, m)
           L(m) == /\ Inside(base, read[m])
                   /\ Ledger(read[m], Said(so(m)), g, k + m, Latest(so(m)))
           S == {m \in Nat : m <= n => L(m)}
<1>3. 0 \in S
  <2>1. SubSeq(parts, 1, 0) = <<>>
    OBVIOUS
  <2>2. q \o <<>> = q
    BY ConcatEmptySeq
  <2>3. k + 0 = k
    OBVIOUS
  <2> QED
    BY <1>2, <2>1, <2>2, <2>3 DEF ReadBy
<1>4. ASSUME NEW m \in Nat, m \in S PROVE m + 1 \in S
  <2>1. SUFFICES ASSUME m + 1 <= n PROVE L(m + 1)
    OBVIOUS
  <2> DEFINE a == so(m)
             p == parts[m + 1]
             b == SubSeq(parts, 1, m)
             v == read[m]
  <2>2. m + 1 \in 1..n /\ (m + 1) - 1 = m /\ k + (m + 1) - 1 = k + m
        /\ k + m \in Nat \ {0} /\ (k + m) + 1 = k + (m + 1)
    BY <2>1, <1>1
  <2>3. p \in GeminiParts /\ p.sig \in {None, k + m} /\ read[m + 1] = ProcessPart(v, p)
    BY <1>2, <2>2 DEF Numbered, ReadBy
  <2>4. b \in Seq(GeminiParts) /\ SubSeq(parts, 1, m + 1) = Append(b, p)
    BY <2>1, <1>1
  <2>5. L(m)
    BY <2>1, <1>1, <1>4
  <2>6. Inside(base, v) /\ Ledger(v, Said(a), g, k + m, Latest(a))
    BY <2>5
  <2>7. so(m + 1) = Append(a, p) /\ a \in Seq(GeminiParts)
    <3>1. so(m + 1) = q \o Append(b, p) /\ a = q \o b
      BY <2>4
    <3> HIDE DEF a, so, b, p
    <3>2. b \in Seq(GeminiParts) /\ p \in GeminiParts
      BY <2>3, <2>4
    <3>3. q \o Append(b, p) = Append(q \o b, p) /\ q \o b \in Seq(GeminiParts)
      BY ONLY <3>2, q \in Seq(GeminiParts), AppendLast
    <3> QED
      BY <3>1, <3>3
  <2> HIDE DEF a, so, p, v
  <2>8. Inside(base, ProcessPart(v, p))
    BY <2>3, <2>6, ProcessPartFits
  <2>9. Said(a) \in Seq(Contents) /\ Said(Append(a, p)) = Said(a) \o Says(p)
        /\ Latest(Append(a, p)) = Newest(Latest(a), p.sig)
    BY <2>3, <2>7, OnePartMore
  <2>10. Ledger(ProcessPart(v, p), Said(a) \o Says(p), g, (k + m) + 1, Newest(Latest(a), p.sig))
    <3> DEFINE h == k + m
               c == Said(a)
               l == Latest(a)
    <3>1. h \in Nat \ {0} /\ Ledger(v, c, g, h, l) /\ c \in Seq(Contents) /\ p.sig \in {None, h}
      BY <2>2, <2>3, <2>6, <2>9
    <3> HIDE DEF h, c, l
    <3>2. Ledger(ProcessPart(v, p), c \o Says(p), g, h + 1, Newest(l, p.sig))
      BY <2>3, <2>6, <3>1, ProcessPartLedger
    <3> QED
      BY <3>2 DEF h, c, l
  <2>11. Ledger(ProcessPart(v, p), Said(Append(a, p)), g, k + (m + 1), Latest(Append(a, p)))
    BY <2>2, <2>9, <2>10
  <2> QED
    BY <2>3, <2>7, <2>8, <2>11
<1>5. Nat \subseteq S
  <2> HIDE DEF S
  <2> QED
    BY <1>3, <1>4, SetInduction
<1>6. L(n)
  BY <1>1, <1>5
<1>7. SubSeq(parts, 1, n) = parts
  OBVIOUS
<1> QED
  BY <1>2, <1>6, <1>7 DEF ReadBy

(* A start has nothing to say.                                             *)
LEMMA EmitMessageStartLedger ==
  ASSUME NEW base, NEW t, Fits(base, t), NEW c, NEW g, NEW k, NEW n,
         Ledger(t, c, g, k, n)
  PROVE  Ledger(EmitMessageStart(t), c, g, k, n)
<1>1. CASE t.started
  BY <1>1 DEF EmitMessageStart
<1>2. CASE ~t.started
  <2> DEFINE v == Emit(t, <<MessageStart>>)
             u == EmitMessageStart(t)
  <2>1. MessageStart \in Events
    BY EventFacts DEF Kinds
  <2>2. <<MessageStart>> \in Seq(Events)
        /\ PartsMade(<<MessageStart>>) = <<>> /\ SignaturesMade(<<MessageStart>>) = <<>>
    BY <2>1, OneAndTwo, OneEvent, EventValues
  <2>3. t \in States
    BY DEF Fits
  <2>4. /\ v \in States /\ v.out = t.out \o <<MessageStart>> /\ v.block = t.block
        /\ v.pending = t.pending /\ v.trailing = t.trailing /\ v.grounding = t.grounding
    BY <2>2, <2>3, EmitTyped
  <2>5. u = [v EXCEPT !.started = TRUE]
    BY <1>2 DEF EmitMessageStart
  <2> HIDE DEF u, v
  <2>6. u \in States
    BY <2>4, <2>5 DEF States
  <2>7. /\ u.out = t.out \o <<MessageStart>> /\ u.block = t.block
        /\ u.pending = t.pending /\ u.trailing = t.trailing /\ u.grounding = t.grounding
    BY <2>4, <2>5 DEF States
  <2>8. Ledger(u, c, g, k, n)
    BY <2>2, <2>3, <2>6, <2>7, SpeakStep
  <2> QED
    BY <2>8 DEF u
<1> QED
  BY <1>1, <1>2

(* The ledger of a message that is over: nothing waits any more.           *)
Settled(t, c, k, n) ==
    /\ Ledger(t, c, Unsought, k, n)
    /\ t.pending = None /\ t.trailing = None

(* The content with what was found in the web.                             *)
Pieces(g) == Telling(g.query) \o Telling(g.links)
Tells(c, g) == c \o Pieces(g)

LEMMA TellsTyped ==
  ASSUME NEW c \in Seq(Contents), NEW g \in Searches
  PROVE  /\ Pieces(g) \in Seq(Contents) /\ Tells(c, g) \in Seq(Contents)
         /\ g = Unsought => Pieces(g) = <<>> /\ Tells(c, g) = c
<1> DEFINE q == g.query
           l == g.links
           a == Telling(q)
           b == Telling(l)
<1>1. q \in Nat /\ l \in Nat
  BY DEF Searches
<1>2. ASSUME NEW x \in Nat PROVE Telling(x) \in Seq(Contents)
  <2> DEFINE y == <<"text", x>>
  <2>1. y \in Contents
    BY DEF Contents, Kinds
  <2> HIDE DEF y
  <2>2. <<y>> \in Seq(Contents) /\ <<>> \in Seq(Contents)
    BY <2>1, OneAndTwo
  <2> QED
    BY <2>2 DEF Telling, y
<1>3. a \in Seq(Contents) /\ b \in Seq(Contents)
  BY <1>1, <1>2
<1>4. g = Unsought => a = <<>> /\ b = <<>>
  BY DEF Unsought, Sought, Telling
<1> HIDE DEF a, b
<1>5. a \o b \in Seq(Contents)
  BY <1>3, ConcatProperties
<1>6. Pieces(g) = a \o b
  BY DEF Pieces, a, b
<1>7. a = <<>> /\ b = <<>> => a \o b = <<>>
  BY <1>3, ConcatEmptySeq
<1> DEFINE r == Pieces(g)
<1>8. r \in Seq(Contents) /\ (g = Unsought => r = <<>>)
  BY <1>4, <1>5, <1>6, <1>7
<1> HIDE DEF r
<1>9. c \o r \in Seq(Contents) /\ (r = <<>> => c \o r = c)
  BY <1>8, ConcatProperties, ConcatEmptySeq
<1> QED
  BY <1>8, <1>9 DEF Tells, r

LEMMA GroundedTyped ==
  ASSUME NEW v \in States, NEW x \in Searches
  PROVE  /\ Grounded(v, x) \in States /\ Grounded(v, x).out = v.out
         /\ Grounded(v, x).block = v.block /\ Grounded(v, x).grounding = x
         /\ Grounded(v, x).pending = v.pending /\ Grounded(v, x).trailing = v.trailing
<1>1. Grounded(v, x) \in States
  BY DEF Grounded, States
<1> QED
  BY <1>1 DEF Grounded, States

LEMMA GroundedLedger ==
  ASSUME NEW v \in States, NEW x \in Searches, NEW c, NEW g, NEW k, NEW n,
         Ledger(v, c, g, k, n)
  PROVE  Ledger(Grounded(v, x), c, x, k, n)
<1> DEFINE u == Grounded(v, x)
<1>1. /\ u.out = v.out /\ u.block = v.block /\ u.grounding = x
      /\ u.pending = v.pending /\ u.trailing = v.trailing
  BY GroundedTyped
<1> HIDE DEF u
<1>2. Sorted(u, k) /\ Kept(u, n) /\ PartsMade(u.out) = c
  BY <1>1 DEF Ledger, Sorted, Kept
<1>3. Ledger(u, c, x, k, n)
  BY <1>1, <1>2 DEF Ledger
<1> QED
  BY <1>3 DEF u

(* The closing steps deliver the signature that waits, then the sources.   *)
LEMMA SignedLedger ==
  ASSUME NEW base, NEW t, Inside(base, t), t.block = "none", NEW c \in Seq(Contents), NEW g,
         NEW k \in Nat, NEW n, Ledger(t, c, g, k, n)
  PROVE  LET u == IF t.trailing = None THEN t
                  ELSE [EmptyThinking(t, t.trailing) EXCEPT !.trailing = None]
         IN  Ledger(u, c, g, k, n) /\ u.pending = None /\ u.trailing = None
<1> DEFINE u == IF t.trailing = None THEN t
                ELSE [EmptyThinking(t, t.trailing) EXCEPT !.trailing = None]
<1>1. u = FlushTrailing(t)
  BY DEF FlushTrailing, EndBlock
<1>2. u.block = "none"
  BY SignedFits
<1> HIDE DEF u
<1>3. Ledger(u, c, g, k, n) /\ u.trailing = None
  BY <1>1, FlushTrailingLedger
<1>4. u.pending = None
  BY <1>2, <1>3 DEF Ledger, Sorted
<1> QED
  BY <1>3, <1>4 DEF u

LEMMA SourcedLedger ==
  ASSUME NEW base, NEW t, Inside(base, t), t.block = "none",
         t.pending = None, t.trailing = None,
         NEW c \in Seq(Contents), NEW g, NEW k \in Nat, NEW n, Ledger(t, c, g, k, n)
  PROVE  Settled(EmitGrounding(t), Tells(c, g), k, n) /\ EmitGrounding(t) \in States
<1> DEFINE u == EmitGrounding(t)
<1>1. t \in States /\ g \in Searches /\ t.grounding = g /\ t.index \in Nat
      /\ g.query \in Nat /\ g.links \in Nat /\ Unsought \in Searches
  BY InsideFacts DEF Ledger, Searches, Unsought, Sought, None
<1>2. CASE g = Unsought
  <2>1. u = t
    BY <1>1, <1>2 DEF EmitGrounding
  <2>2. Tells(c, g) = c
    BY <1>1, <1>2, TellsTyped
  <2> QED
    BY <1>1, <1>2, <2>1, <2>2 DEF Settled
<1>3. CASE g # Unsought
  <2> DEFINE e == Delta(t.index, "text", g.query)
             f == Delta(t.index, "text", g.links)
             deltas == <<e, f>>
             v == Whole(t, "text", deltas)
  <2>1. u = Grounded(v, Unsought)
    BY <1>1, <1>3 DEF EmitGrounding, Grounded
  <2>2. e \in Events /\ f \in Events /\ "text" \in Kinds
    BY <1>1, EventFacts DEF Kinds, None
  <2>3. /\ Made(e) = Telling(g.query) /\ Marks(e) = <<>>
        /\ Made(f) = Telling(g.links) /\ Marks(f) = <<>>
    BY DEF Made, Marks, Delta, Event, Telling
  <2> HIDE DEF e, f, u
  <2>4. <<e, f>> \in Seq(Events) /\ PartsMade(<<e, f>>) = Made(e) \o Made(f)
        /\ SignaturesMade(<<e, f>>) = Marks(e) \o Marks(f)
    BY <2>2, OneAndTwo, TwoEvents
  <2>5. <<>> \o <<>> = <<>>
    BY EmptyEmpty
  <2>6. deltas \in Seq(Events) /\ PartsMade(deltas) = Pieces(g)
        /\ SignaturesMade(deltas) = <<>>
    BY <2>3, <2>4, <2>5 DEF Pieces
  <2> HIDE DEF deltas
  <2>7. PICK events \in Seq(Events) :
            /\ Whole(t, "text", deltas) = Moved(Emit(t, events), t.index + 1)
            /\ PartsMade(events) = PartsMade(deltas)
            /\ SignaturesMade(events) = SignaturesMade(deltas)
    BY <2>2, <2>6, WholeMakes
  <2> HIDE DEF v
  <2>8. v = Moved(Emit(t, events), t.index + 1)
    BY <2>7 DEF v
  <2>9. /\ v \in States /\ v.out = t.out \o events /\ v.block = t.block
        /\ v.pending = t.pending /\ v.trailing = t.trailing
        /\ v.grounding = t.grounding
    BY <1>1, <2>8, MovedEmitTyped
  <2>10. SignaturesMade(events) = <<>> /\ PartsMade(events) = Pieces(g)
    BY <2>6, <2>7
  <2>11. Ledger(v, c \o PartsMade(events), g, k, n)
    BY <1>1, <2>9, <2>10, SpeakStep
  <2>12. Ledger(v, Tells(c, g), g, k, n)
    BY <2>10, <2>11 DEF Tells
  <2>13. Ledger(u, Tells(c, g), Unsought, k, n)
    BY <1>1, <2>1, <2>9, <2>12, GroundedLedger
  <2>14. u \in States /\ u.pending = None /\ u.trailing = None
    BY <1>1, <2>1, <2>9, GroundedTyped
  <2>15. Settled(u, Tells(c, g), k, n)
    BY <2>13, <2>14 DEF Settled
  <2> QED
    BY <2>14, <2>15 DEF u
<1> QED
  BY <1>2, <1>3

LEMMA ClosingLedger ==
  ASSUME NEW t \in States, NEW c \in Seq(Contents), NEW k, NEW n, Settled(t, c, k, n),
         NEW reason \in Reasons
  PROVE  Settled(Over(Emit(t, <<MessageDelta(t.index, reason)>>
                                \o <<MessageStop(t.index)>>)), c, k, n)
<1> DEFINE a == MessageDelta(t.index, reason)
           b == MessageStop(t.index)
           events == <<a>> \o <<b>>
           v == Emit(t, events)
           u == Over(v)
<1>1. t.index \in Nat
  BY DEF States
<1>2. a \in Events /\ b \in Events
  BY <1>1, ReasonFacts, EventFacts DEF Kinds
<1>3. Made(a) = <<>> /\ Marks(a) = <<>> /\ Made(b) = <<>> /\ Marks(b) = <<>>
  BY EventValues
<1> HIDE DEF a, b
<1>4. events \in Seq(Events) /\ events = <<a, b>>
  BY <1>2, OneAndTwo
<1>5. PartsMade(events) = <<>> /\ SignaturesMade(events) = <<>>
  <2>1. /\ PartsMade(<<a, b>>) = Made(a) \o Made(b)
        /\ SignaturesMade(<<a, b>>) = Marks(a) \o Marks(b)
    BY <1>2, TwoEvents
  <2>2. <<>> \o <<>> = <<>>
    BY EmptyEmpty
  <2> QED
    BY <1>3, <1>4, <2>1, <2>2
<1> HIDE DEF events
<1>6. /\ v \in States /\ v.out = t.out \o events /\ v.block = t.block
      /\ v.pending = t.pending /\ v.trailing = t.trailing /\ v.grounding = t.grounding
  BY <1>4, EmitTyped
<1> HIDE DEF v
<1>7. /\ u \in States /\ u.out = v.out /\ u.block = v.block
      /\ u.trailing = v.trailing /\ u.grounding = v.grounding
  BY <1>6, OverTyped
<1>8. u.pending = v.pending
  BY <1>6 DEF Over, States
<1> HIDE DEF u
<1>9. Ledger(u, c, Unsought, k, n)
  BY <1>4, <1>5, <1>6, <1>7, <1>8, SpeakStep DEF Settled
<1>10. Settled(u, c, k, n)
  BY <1>6, <1>7, <1>8, <1>9 DEF Settled
<1> QED
  BY <1>10 DEF u, v, events, a, b

LEMMA EmitFinishLedger ==
  ASSUME NEW base, NEW t, Fits(base, t), ~t.stopped, NEW fin,
         NEW c \in Seq(Contents), NEW g, NEW k \in Nat, NEW n, Ledger(t, c, g, k, n)
  PROVE  Settled(EmitFinish(t, fin), Tells(c, g), k, n)
         /\ EmitFinish(t, fin).stopped
<1> DEFINE ended == EndBlock(t)
           signed == IF ended.trailing = None THEN ended
                     ELSE [EmptyThinking(ended, ended.trailing) EXCEPT !.trailing = None]
           sourced == EmitGrounding(signed)
           reason == StopReason(sourced, fin)
           closing == <<MessageDelta(sourced.index, reason)>>
                      \o <<MessageStop(sourced.index)>>
           d == Tells(c, g)
<1>1. EmitFinish(t, fin) = Over(Emit(sourced, closing))
  BY DEF EmitFinish, Over
<1>2. reason \in Reasons
  BY DEF StopReason, Reasons
<1>3. Settled(sourced, d, k, n) /\ sourced \in States
  <2>1. CASE t.started
    <3>1. Inside(base, t)
      BY <2>1, InsideFits DEF Going
    <3>2. Inside(base, ended) /\ ended.block = "none"
      BY <3>1, EndBlockFits
    <3>3. Ledger(ended, c, g, k, n)
      BY <3>1, EndBlockLedger
    <3> HIDE DEF ended
    <3>4. Inside(base, signed) /\ signed.block = "none"
      BY <3>2, SignedFits
    <3>5. Ledger(signed, c, g, k, n) /\ signed.pending = None /\ signed.trailing = None
      BY <3>2, <3>3, SignedLedger
    <3> HIDE DEF signed
    <3> QED
      BY <3>4, <3>5, SourcedLedger
  <2>2. CASE ~t.started
    <3>1. t.block = "none" /\ t.trailing = None /\ t.grounding = Unsought /\ t \in States
      BY <2>2 DEF Fits, Unbegun
    <3>2. ended = t
      BY <3>1 DEF EndBlock
    <3>3. signed = t
      BY <3>1, <3>2
    <3>4. sourced = t
      BY <3>1, <3>3 DEF EmitGrounding
    <3>5. g = Unsought /\ t.pending = None /\ Unsought \in Searches
      BY <3>1 DEF Ledger, Sorted, Unsought, Sought, Searches, None
    <3>6. d = c
      BY <3>5, TellsTyped
    <3>7. Settled(t, c, k, n)
      BY <3>1, <3>5 DEF Settled
    <3> HIDE DEF sourced
    <3> QED
      BY <3>1, <3>4, <3>6, <3>7
  <2> QED
    BY <2>1, <2>2
<1>4. d \in Seq(Contents)
  <2>1. g \in Searches
    BY DEF Ledger, Fits, States
  <2> QED
    BY <2>1, TellsTyped
<1> HIDE DEF sourced, reason, d
<1>5. Settled(Over(Emit(sourced, closing)), d, k, n)
  BY <1>2, <1>3, <1>4, ClosingLedger
<1>6. EmitFinish(t, fin).stopped
  <2>1. sourced.index \in Nat
    BY <1>3 DEF States
  <2>2. closing \in Seq(Events)
    <3> DEFINE a == MessageDelta(sourced.index, reason)
               b == MessageStop(sourced.index)
    <3>1. a \in Events /\ b \in Events
      BY <1>2, <2>1, ReasonFacts, EventFacts DEF Kinds
    <3> HIDE DEF a, b
    <3>2. <<a>> \o <<b>> \in Seq(Events)
      BY <3>1, OneAndTwo
    <3> QED
      BY <3>2 DEF a, b
  <2> HIDE DEF closing
  <2>3. Emit(sourced, closing) \in States
    BY <1>3, <2>2, EmitTyped
  <2> QED
    BY <1>1, <2>3, OverTyped
<1> QED
  BY <1>1, <1>5, <1>6 DEF d

LEMMA SaidTyped ==
  ASSUME NEW q \in Seq(GeminiParts)
  PROVE  Said(q) \in Seq(Contents)
<1> DEFINE p == [kind |-> "text", text |-> 0, sig |-> 0]
<1>1. p \in GeminiParts
  BY DEF GeminiParts, PartKinds
<1> HIDE DEF p
<1> QED
  BY <1>1, OnePartMore

(* The account of a message, on its way or over.                           *)
Account(t, c, g, k, n) ==
    IF t.stopped THEN Settled(t, Tells(c, g), k, n) ELSE Ledger(t, c, g, k, n)

LEMMA ProcessChunkAccount ==
  ASSUME NEW base, NEW t, Fits(base, t), ~t.stopped, ~base.wild,
         NEW q \in Seq(GeminiParts), NEW g \in Searches,
         NEW k \in Nat \ {0}, Ledger(t, Said(q), g, k, Latest(q)),
         NEW line, line.parts \in Seq(GeminiParts), line.grounding \in Findings,
         Numbered(line.parts, k)
  PROVE  Account(ProcessChunk(t, line), Said(q \o line.parts),
                 Captured(g, line.grounding),
                 k + Len(line.parts), Latest(q \o line.parts))
<1> DEFINE begun == EmitMessageStart(t)
           read == ProcessParts(begun, line.parts)
           h == Captured(g, line.grounding)
           captured == Grounded(read, h)
           r == q \o line.parts
           l == k + Len(line.parts)
<1>1. ProcessChunk(t, line) =
          LET now == Grounded(read, Captured(read.grounding, line.grounding))
          IN  IF line.finish = "" THEN now ELSE EmitFinish(now, line.finish)
  BY DEF ProcessChunk, Grounded
<1>2. Inside(base, begun) /\ Ledger(begun, Said(q), g, k, Latest(q))
  BY EmitMessageStartFits, EmitMessageStartLedger DEF Going
<1> HIDE DEF begun
<1>3. Inside(base, read)
  BY <1>2, ProcessPartsFits
<1>4. Ledger(read, Said(r), g, l, Latest(r))
  <2> DEFINE parts == line.parts
  <2>1. parts \in Seq(GeminiParts) /\ Numbered(parts, k)
    OBVIOUS
  <2> HIDE DEF parts
  <2>2. Ledger(ProcessParts(begun, parts), Said(q \o parts), g, k + Len(parts),
               Latest(q \o parts))
    BY <1>2, <2>1, ProcessPartsLedger
  <2> QED
    BY <2>2 DEF parts
<1>5. r \in Seq(GeminiParts) /\ l \in Nat
  BY ConcatProperties
<1> HIDE DEF read, r, l
<1>11. read.grounding = g /\ h \in Searches
  BY <1>4, CapturedTyped DEF Ledger
<1>12. ProcessChunk(t, line) = IF line.finish = "" THEN captured
                               ELSE EmitFinish(captured, line.finish)
  BY <1>1, <1>11
<1> HIDE DEF h
<1>6. Inside(base, captured)
  BY <1>3, <1>11, GroundedFits
<1>7. Ledger(captured, Said(r), h, l, Latest(r))
  <2>1. read \in States
    BY <1>3, InsideFacts
  <2> QED
    BY <1>4, <1>11, <2>1, GroundedLedger
<1>8. Said(r) \in Seq(Contents)
  BY <1>5, SaidTyped
<1> HIDE DEF captured
<1>13. ~captured.stopped /\ Fits(base, captured)
  BY <1>6, InsideFits DEF Going
<1>9. /\ Settled(EmitFinish(captured, line.finish), Tells(Said(r), h), l, Latest(r))
      /\ EmitFinish(captured, line.finish).stopped
  BY <1>5, <1>7, <1>8, <1>13, EmitFinishLedger
<1>14. CASE line.finish = ""
  BY <1>7, <1>12, <1>13, <1>14 DEF Account, h, r, l
<1>15. CASE line.finish # ""
  BY <1>9, <1>12, <1>15 DEF Account, h, r, l
<1> QED
  BY <1>14, <1>15

(* A text that is cut out of a line that does not parse is a part.         *)
Cut(x) == [kind |-> "text", text |-> x, sig |-> None]

LEMMA CutAccount ==
  ASSUME NEW base, NEW t, Fits(base, t), ~t.stopped, ~base.wild,
         NEW q \in Seq(GeminiParts), NEW g,
         NEW k \in Nat \ {0}, Ledger(t, Said(q), g, k, Latest(q)), NEW x \in Nat
  PROVE  /\ Account(ProcessText(EmitMessageStart(t), x, None), Said(Append(q, Cut(x))),
                    g, k + 1, Latest(Append(q, Cut(x))))
         /\ Cut(x) \in GeminiParts
<1> DEFINE begun == EmitMessageStart(t)
           p == Cut(x)
           u == ProcessText(begun, x, None)
<1>1. Inside(base, begun) /\ Ledger(begun, Said(q), g, k, Latest(q))
  BY EmitMessageStartFits, EmitMessageStartLedger DEF Going
<1>2. p \in GeminiParts /\ p.sig = None /\ p.kind = "text" /\ p.text = x /\ None \in Nat
  BY DEF Cut, GeminiParts, PartKinds, None
<1> HIDE DEF begun, p
<1>3. ProcessPart(begun, p) = u
  <2>1. CASE x # None
    BY <1>2, <2>1 DEF ProcessPart
  <2>2. CASE x = None
    BY <1>2, <2>2 DEF ProcessPart, ProcessText
  <2> QED
    BY <2>1, <2>2
<1>4. Said(q) \in Seq(Contents) /\ Said(Append(q, p)) = Said(q) \o Says(p)
      /\ Latest(Append(q, p)) = Newest(Latest(q), p.sig)
  BY <1>2, OnePartMore
<1>5. Ledger(ProcessPart(begun, p), Said(q) \o Says(p), g, k + 1, Newest(Latest(q), p.sig))
  <2> DEFINE c == Said(q)
             l == Latest(q)
  <2>1. Ledger(begun, c, g, k, l) /\ c \in Seq(Contents) /\ p.sig \in {None, k}
    BY <1>1, <1>2, <1>4
  <2> HIDE DEF c, l
  <2>2. Ledger(ProcessPart(begun, p), c \o Says(p), g, k + 1, Newest(l, p.sig))
    BY <1>1, <1>2, <2>1, ProcessPartLedger
  <2> QED
    BY <2>2 DEF c, l
<1>6. Inside(base, u)
  BY <1>1, <1>2, ProcessTextFits
<1> HIDE DEF u
<1>7. Account(u, Said(Append(q, p)), g, k + 1, Latest(Append(q, p)))
  <2>1. ~u.stopped
    BY <1>6, InsideFits DEF Going
  <2> QED
    BY <1>3, <1>4, <1>5, <2>1 DEF Account
<1> QED
  BY <1>2, <1>7 DEF u, p, begun

-------------------------------------------------------------------------------
(* The parts heard, and the sources found, when a line has been read.      *)
Cuts(line) == line.kind \in {"error", "partial"}
Heard(q, line) == IF Cuts(line) THEN Append(q, Cut(line.text)) ELSE q \o line.parts
Found(g, line) == Captured(g, line.grounding)
Added(line) == IF Cuts(line) THEN 1 ELSE Len(line.parts)

LEMMA NothingCaptured ==
  ASSUME NEW g \in Searches
  PROVE  Captured(g, NoGrounding) = g
BY DEF Captured, Sought, NoGrounding, Grounding, Searches

LEMMA ProcessLineAccount ==
  ASSUME NEW base, NEW t, Fits(base, t), ~t.stopped, ~base.wild,
         NEW q \in Seq(GeminiParts), NEW g \in Searches,
         NEW k \in Nat \ {0}, Ledger(t, Said(q), g, k, Latest(q)),
         NEW line, LineTyped(line), Numbered(line.parts, k),
         line.kind # "chunk" => line.parts = <<>> /\ line.grounding = NoGrounding
  PROVE  Account(ProcessGeminiSSELine(t, line), Said(Heard(q, line)), Found(g, line),
                 k + Added(line), Latest(Heard(q, line)))
<1> DEFINE u == ProcessGeminiSSELine(t, line)
           h == Heard(q, line)
<1>1. /\ line.parts \in Seq(GeminiParts) /\ line.grounding \in Findings
      /\ line.kind \in LineKinds /\ line.text \in Nat /\ Said(q) \in Seq(Contents)
  BY SaidTyped DEF LineTyped
<1>2. ASSUME line.kind \notin {"chunk", "error", "partial"}
      PROVE  h = q /\ Found(g, line) = g /\ k + Added(line) = k
  <2>1. line.parts = <<>> /\ q \o <<>> = q /\ Len(<<>>) = 0 /\ k + 0 = k
        /\ Captured(g, line.grounding) = g
    BY <1>2, ConcatEmptySeq, NothingCaptured
  <2> QED
    BY <1>2, <2>1 DEF Heard, Found, Added, Cuts
<1>3. CASE line.kind = "done"
  <2>1. h = q /\ Found(g, line) = g /\ k + Added(line) = k
    BY <1>2, <1>3
  <2>2. u = EmitFinish(t, "")
    BY <1>3 DEF ProcessGeminiSSELine, EmitForceStop
  <2> HIDE DEF h, u
  <2>3. /\ Settled(EmitFinish(t, ""), Tells(Said(q), g), k, Latest(q))
        /\ EmitFinish(t, "").stopped
    BY <1>1, EmitFinishLedger
  <2>4. Account(u, Said(h), Found(g, line), k + Added(line), Latest(h))
    BY <2>1, <2>2, <2>3 DEF Account
  <2> QED
    BY <2>4 DEF u, h
<1>4. CASE line.kind = "chunk"
  <2>1. h = q \o line.parts /\ Added(line) = Len(line.parts)
        /\ Found(g, line) = Captured(g, line.grounding)
    BY <1>4 DEF Heard, Found, Added, Cuts
  <2>2. u = ProcessChunk(t, line)
    BY <1>4 DEF ProcessGeminiSSELine
  <2> HIDE DEF h, u
  <2>3. Account(ProcessChunk(t, line), Said(q \o line.parts),
                Captured(g, line.grounding),
                k + Len(line.parts), Latest(q \o line.parts))
    BY <1>1, ProcessChunkAccount
  <2>4. Account(u, Said(h), Found(g, line), k + Added(line), Latest(h))
    BY <2>1, <2>2, <2>3
  <2> QED
    BY <2>4 DEF u, h
<1>5. CASE line.kind = "apierror"
  <2> DEFINE empty == Chunk(<<>>, NoGrounding, "")
  <2>1. h = q /\ Found(g, line) = g /\ k + Added(line) = k
    BY <1>2, <1>5
  <2>2. u = ProcessChunk(t, empty)
    BY <1>5 DEF ProcessGeminiSSELine
  <2>3. empty.parts = <<>> /\ empty.grounding = NoGrounding /\ NoGrounding \in Findings
        /\ Captured(g, NoGrounding) = g
    BY NoGroundingTyped, NothingCaptured DEF Chunk
  <2>4. <<>> \in Seq(GeminiParts) /\ Numbered(<<>>, k) /\ q \o <<>> = q /\ Len(<<>>) = 0
    BY ConcatEmptySeq DEF Numbered
  <2> HIDE DEF h, u, empty
  <2>5. Account(ProcessChunk(t, empty), Said(q \o empty.parts),
                Captured(g, empty.grounding),
                k + Len(empty.parts), Latest(q \o empty.parts))
    BY <2>3, <2>4, ProcessChunkAccount
  <2>6. Account(u, Said(h), Found(g, line), k + Added(line), Latest(h))
    BY <2>1, <2>2, <2>3, <2>4, <2>5
  <2> QED
    BY <2>6 DEF u, h
<1>6. CASE line.kind = "useless"
  <2>1. h = q /\ Found(g, line) = g /\ k + Added(line) = k
    BY <1>2, <1>6
  <2>2. u = t
    BY <1>6 DEF ProcessGeminiSSELine, HandleParseError
  <2> HIDE DEF h, u
  <2>3. Account(u, Said(h), Found(g, line), k + Added(line), Latest(h))
    BY <2>1, <2>2 DEF Account
  <2> QED
    BY <2>3 DEF u, h
<1>7. CASE line.kind \in {"error", "partial"}
  <2> DEFINE x == line.text
  <2>1. h = Append(q, Cut(x)) /\ Found(g, line) = g /\ k + Added(line) = k + 1
    BY <1>7, NothingCaptured DEF Heard, Found, Added, Cuts
  <2>2. u = ProcessText(EmitMessageStart(t), x, None) /\ x \in Nat
    BY <1>1, <1>7 DEF ProcessGeminiSSELine, HandleParseError
  <2> HIDE DEF h, u, x
  <2>3. Account(ProcessText(EmitMessageStart(t), x, None), Said(Append(q, Cut(x))),
                g, k + 1, Latest(Append(q, Cut(x))))
    BY <2>2, CutAccount
  <2>4. Account(u, Said(h), Found(g, line), k + Added(line), Latest(h))
    BY <2>1, <2>2, <2>3
  <2> QED
    BY <2>4 DEF u, h
<1> QED
  BY <1>1, <1>3, <1>4, <1>5, <1>6, <1>7 DEF LineKinds

(* A part keeps its content unless it is a signed image.                   *)
Plain(p) == p.text # None => ~(p.kind = "image" /\ p.sig # None)

Offered == <<"image", FALSE, TRUE>> \in Shapes

LEMMA PartFacts ==
  ASSUME NEW k \in Nat, NEW a \in Shapes
  PROVE  /\ Part(k, a[1], a[2], a[3]).sig \in {None, k}
         /\ ~Offered => Plain(Part(k, a[1], a[2], a[3]))
<1> DEFINE p == Part(k, a[1], a[2], a[3])
<1>1. /\ p.kind = a[1] /\ p.text = IF a[2] THEN None ELSE k
      /\ p.sig = IF a[3] THEN k ELSE None
  BY DEF Part
<1>2. a = <<a[1], a[2], a[3]>> /\ a[2] \in BOOLEAN /\ a[3] \in BOOLEAN
  BY ShapesAssumption
<1>3. ASSUME ~Plain(p) PROVE Offered
  <2>1. a[1] = "image" /\ a[2] = FALSE /\ a[3] = TRUE
    BY <1>1, <1>2, <1>3 DEF Plain
  <2> QED
    BY <1>2, <2>1 DEF Offered
<1> QED
  BY <1>1, <1>3

LEMMA PartsNumbered ==
  ASSUME NEW k \in Nat, NEW parts \in PartsFrom(k)
  PROVE  /\ Numbered(parts, k)
         /\ ~Offered => \A j \in 1..Len(parts) : Plain(parts[j])
<1>1. CASE parts = <<>>
  BY <1>1 DEF Numbered
<1>2. ASSUME NEW a \in Shapes, parts = <<Part(k, a[1], a[2], a[3])>>
      PROVE  /\ Numbered(parts, k)
             /\ ~Offered => \A j \in 1..Len(parts) : Plain(parts[j])
  <2> DEFINE p == Part(k, a[1], a[2], a[3])
  <2>1. p.sig \in {None, k} /\ (~Offered => Plain(p))
    BY PartFacts
  <2> HIDE DEF p
  <2>2. Len(<<p>>) = 1 /\ <<p>>[1] = p /\ parts = <<p>>
    BY <1>2 DEF p
  <2>3. \A j \in 1..Len(parts) : j = 1 /\ parts[j] = p
    BY <2>2
  <2> QED
    BY <2>1, <2>3 DEF Numbered
<1>3. ASSUME NEW a \in Shapes, NEW b \in Shapes,
             parts = <<Part(k, a[1], a[2], a[3]), Part(k + 1, b[1], b[2], b[3])>>
      PROVE  /\ Numbered(parts, k)
             /\ ~Offered => \A j \in 1..Len(parts) : Plain(parts[j])
  <2> DEFINE p == Part(k, a[1], a[2], a[3])
             q == Part(k + 1, b[1], b[2], b[3])
  <2>1. /\ p.sig \in {None, k} /\ (~Offered => Plain(p))
        /\ q.sig \in {None, k + 1} /\ (~Offered => Plain(q))
    <3>1. k + 1 \in Nat
      OBVIOUS
    <3> QED
      BY <3>1, PartFacts
  <2> HIDE DEF p, q
  <2>2. Len(<<p, q>>) = 2 /\ <<p, q>>[1] = p /\ <<p, q>>[2] = q /\ parts = <<p, q>>
    BY <1>3 DEF p, q
  <2>3. \A j \in 1..Len(parts) : (j = 1 /\ parts[j] = p) \/ (j = 2 /\ parts[j] = q)
    BY <2>2
  <2> QED
    BY <2>1, <2>3 DEF Numbered
<1> QED
  BY <1>1, <1>2, <1>3 DEF PartsFrom

LineFits(line) ==
    /\ Numbered(line.parts, Arrival)
    /\ line.kind # "chunk" => line.parts = <<>> /\ line.grounding = NoGrounding
    /\ ~Offered => \A j \in 1..Len(line.parts) : Plain(line.parts[j])

(* A line that may come is numbered from what has arrived.                 *)
LEMMA LinesFit ==
  ASSUME received \in Seq(GeminiParts), lines \in Nat, NEW line \in Lines
  PROVE  LineFits(line)
<1>1. Arrival \in Nat
  BY DEF Arrival
<1>2. line \in Others \/ line \in Chunks
  BY DEF Lines
<1>3. line.parts = <<>> => Numbered(line.parts, Arrival)
                           /\ \A j \in 1..Len(line.parts) : Plain(line.parts[j])
  BY DEF Numbered
<1>4. CASE line \in Others
  <2>1. line.parts = <<>> /\ line.grounding = NoGrounding
    BY <1>4, OtherTyped
  <2> QED
    BY <1>3, <2>1 DEF LineFits
<1>5. CASE line \in Chunks
  <2>1. line.kind = "chunk" /\ (line.parts = <<>> \/ line.parts \in NextParts)
    BY <1>5, ChunkTyped
  <2>2. ASSUME line.parts \in NextParts
        PROVE  /\ Numbered(line.parts, Arrival)
               /\ ~Offered => \A j \in 1..Len(line.parts) : Plain(line.parts[j])
    <3>1. line.parts \in PartsFrom(Arrival)
      BY <2>2 DEF NextParts
    <3> QED
      BY <1>1, <3>1, PartsNumbered
  <2> QED
    BY <1>3, <2>1, <2>2 DEF LineFits
<1> QED
  BY <1>2, <1>4, <1>5

-------------------------------------------------------------------------------
(* The invariant: the account is kept of all that came, whatever number it *)
(* came with, and a message that is over has nothing left to deliver.      *)
LInv ==
    /\ WInv
    /\ orderly => Account(s, Said(received), sources, Arrival, Latest(received))

(* The values of the other variables.                                      *)
BInv ==
    /\ mode \in {"stream", "collect"}
    /\ upstream \in {"open", "eof", "reset"}
    /\ client \in {"here", "gone"}
    /\ outcome \in {"none", "ok", "disconnected", "unread", "empty"}
    /\ ~Offered => \A j \in 1..Len(received) : Plain(received[j])

LEMMA LInitially == Init => LInv /\ BInv
<1>1. SUFFICES ASSUME Init PROVE LInv /\ BInv
  OBVIOUS
<1>2. /\ s = NewState /\ sources = Unsought /\ received = <<>> /\ Len(received) = 0
      /\ mode \in {"stream", "collect"} /\ upstream = "open" /\ client = "here"
      /\ outcome = "none"
  BY <1>1 DEF Init
<1>3. /\ s.out = <<>> /\ s.pending = None /\ s.trailing = None /\ s.grounding = Unsought
      /\ ~s.stopped
  BY <1>2 DEF NewState
<1>4. PartsMade(<<>>) = <<>> /\ SignaturesMade(<<>>) = <<>>
  <2>1. MessageStart \in Events /\ <<>> \in Seq(Events)
    BY EventFacts DEF Kinds
  <2> QED
    BY <2>1, PartsMadeOne, SignaturesMadeOne
<1>5. Said(<<>>) = <<>> /\ Latest(<<>>) = None
  <2> DEFINE p == Cut(0)
  <2>1. p \in GeminiParts /\ <<>> \in Seq(GeminiParts)
    BY DEF Cut, GeminiParts, PartKinds, None
  <2> HIDE DEF p
  <2>2. Said(<<>>) = <<>>
    BY ONLY <2>1, SaidOne
  <2>3. Signatures(<<>>) = <<>>
    BY ONLY <2>1, SignaturesOne
  <2> QED
    BY <2>2, <2>3 DEF Latest
<1>6. Sorted(s, Arrival)
  <2>1. Len(<<>>) = 0
    OBVIOUS
  <2> QED
    BY <1>3, <1>4, <2>1 DEF Sorted, Rising, Below
<1>7. Account(s, Said(received), sources, Arrival, Latest(received))
  BY <1>2, <1>3, <1>4, <1>5, <1>6 DEF Account, Ledger, Kept
<1>8. BInv
  BY <1>2 DEF BInv
<1> QED
  BY <1>1, <1>7, <1>8, WInitially DEF LInv

(* What a line that was recorded does to the history.                      *)
LEMMA RecordFacts ==
  ASSUME WInv, BInv, NEW line \in Lines, Record(line)
  PROVE  /\ received' = Heard(received, line)
         /\ sources' = Found(sources, line)
         /\ Arrival \in Nat \ {0} /\ Arrival' = Arrival + Added(line)
         /\ UNCHANGED <<mode, upstream, client, outcome>> => BInv'
<1>1. received \in Seq(GeminiParts) /\ lines \in Nat
  BY DEF WInv
<1>2. LineTyped(line) /\ LineFits(line)
  BY <1>1, LinesTyped, LinesFit
<1>3. received' = Heard(received, line) /\ sources' = Found(sources, line)
  BY DEF Record, Heard, Cuts, Cut, Found
<1>4. Cut(line.text) \in GeminiParts /\ line.parts \in Seq(GeminiParts)
  BY <1>2 DEF LineTyped, Cut, GeminiParts, PartKinds, None
<1>5. Len(received') = Len(received) + Added(line) /\ Added(line) \in Nat
  <2>1. CASE Cuts(line)
    <3> DEFINE p == Cut(line.text)
    <3>1. p \in GeminiParts /\ received' = Append(received, p) /\ Added(line) = 1
      BY <1>3, <1>4, <2>1 DEF Heard, Added
    <3> HIDE DEF p
    <3> QED
      BY <1>1, <3>1
  <2>2. CASE ~Cuts(line)
    <3> DEFINE parts == line.parts
    <3>1. received' = received \o parts /\ Added(line) = Len(parts) /\ parts \in Seq(GeminiParts)
      BY <1>3, <1>4, <2>2 DEF Heard, Added
    <3> HIDE DEF parts
    <3> QED
      BY <1>1, <3>1, ConcatProperties
  <2> QED
    BY <2>1, <2>2
<1>7. Len(received) \in Nat /\ Arrival \in Nat \ {0}
  BY <1>1 DEF Arrival
<1>10. Arrival' = Arrival + Added(line)
  BY <1>5, <1>7 DEF Arrival
<1>11. ASSUME UNCHANGED <<mode, upstream, client, outcome>> PROVE BInv'
  <2>4. ASSUME ~Offered PROVE \A j \in 1..Len(received') : Plain(received'[j])
    <3>1. \A j \in 1..Len(received) : Plain(received[j])
      BY <2>4 DEF BInv
    <3>2. CASE Cuts(line)
      <4> DEFINE p == Cut(line.text)
      <4>1. p \in GeminiParts /\ received' = Append(received, p) /\ Plain(p)
        BY <1>3, <1>4, <3>2 DEF Heard, Plain, Cut
      <4> HIDE DEF p
      <4>2. \A j \in 1..Len(received') :
                received'[j] = p \/ (j \in 1..Len(received) /\ received'[j] = received[j])
        BY <1>1, <4>1
      <4> QED
        BY <3>1, <4>1, <4>2
    <3>3. CASE ~Cuts(line)
      <4> DEFINE parts == line.parts
      <4>1. /\ received' = received \o parts /\ parts \in Seq(GeminiParts)
            /\ \A j \in 1..Len(parts) : Plain(parts[j])
        BY <1>2, <1>3, <1>4, <2>4, <3>3 DEF Heard, LineFits
      <4> HIDE DEF parts
      <4>2. \A j \in 1..Len(received') :
                \/ j \in 1..Len(received) /\ received'[j] = received[j]
                \/ \E i \in 1..Len(parts) : received'[j] = parts[i]
        <5>1. Len(received') = Len(received) + Len(parts)
          BY <1>1, <4>1, ConcatProperties
        <5>2. \A j \in 1..Len(received) : received'[j] = received[j]
          BY <1>1, <4>1, ConcatProperties
        <5>3. \A i \in 1..Len(parts) : received'[Len(received) + i] = parts[i]
          BY <1>1, <4>1, ConcatProperties
        <5>4. ASSUME NEW j \in 1..Len(received'), j \notin 1..Len(received)
              PROVE  \E i \in 1..Len(parts) : received'[j] = parts[i]
          <6> DEFINE i == j - Len(received)
          <6>1. i \in 1..Len(parts) /\ Len(received) + i = j
            BY <1>7, <4>1, <5>1, <5>4
          <6> QED
            BY <5>3, <6>1
        <5> QED
          BY <5>2, <5>4
      <4> QED
        BY <3>1, <4>1, <4>2
    <3> QED
      BY <3>2, <3>3
  <2> QED
    BY <1>11, <2>4 DEF BInv, Offered
<1> QED
  BY <1>3, <1>7, <1>10, <1>11

(* A line keeps the account.                                               *)
LEMMA TranslateAccounts ==
  ASSUME LInv, BInv, Translate, UNCHANGED <<mode, upstream, client, outcome>>
  PROVE  /\ BInv'
         /\ orderly' => Account(s', Said(received'), sources', Arrival', Latest(received'))
<1>1. /\ WInv /\ Fits(From(~orderly, <<>>), s) /\ received \in Seq(GeminiParts)
      /\ sources \in Searches /\ lines \in Nat /\ orderly \in BOOLEAN
  BY DEF LInv, WInv
<1>2. PICK line \in Lines : s' = ProcessGeminiSSELine(s, line) /\ Record(line)
  BY DEF Translate
<1>3. LineTyped(line) /\ LineFits(line)
  BY <1>1, LinesTyped, LinesFit
<1>4. /\ received' = Heard(received, line) /\ sources' = Found(sources, line)
      /\ Arrival \in Nat \ {0} /\ Arrival' = Arrival + Added(line)
      /\ BInv'
  BY <1>1, <1>2, RecordFacts
<1>7. orderly' = (orderly /\ (s.stopped => line.kind = "done"))
  BY <1>2, ZenonT(60) DEF Record
<1> DEFINE goal == Account(s', Said(received'), sources', Arrival', Latest(received'))
<1>8. SUFFICES ASSUME orderly, s.stopped => line.kind = "done" PROVE goal
  BY <1>4, <1>7, ZenonT(60)
<1> DEFINE base == From(FALSE, <<>>)
<1>9. /\ Fits(base, s) /\ ~base.wild
      /\ Account(s, Said(received), sources, Arrival, Latest(received))
  <2>1. (~orderly) = FALSE
    BY <1>1, <1>8
  <2>2. Fits(base, s)
    BY <1>1, <2>1
  <2> QED
    BY <1>8, <2>2 DEF LInv, From
<1> HIDE DEF base, goal
<1>5. CASE s.stopped
  <2>1. line.kind = "done" /\ line.parts = <<>> /\ line.grounding = NoGrounding
    BY <1>3, <1>5, <1>8 DEF LineFits
  <2>2. s' = s
    BY <1>2, <1>5, <2>1 DEF ProcessGeminiSSELine, EmitForceStop
  <2>3. received \o <<>> = received
    BY <1>1, ConcatEmptySeq
  <2>4. received' = received /\ sources' = sources
    BY <1>1, <1>4, <2>1, <2>3, NothingCaptured DEF Heard, Cuts, Found
  <2>5. Arrival' = Arrival
    BY <2>4 DEF Arrival
  <2> QED
    BY <1>9, <2>2, <2>4, <2>5 DEF goal
<1>6. CASE ~s.stopped
  <2> DEFINE u == ProcessGeminiSSELine(s, line)
             h == Heard(received, line)
             k == Arrival
  <2>1. Ledger(s, Said(received), sources, k, Latest(received))
    BY <1>6, <1>9 DEF Account
  <2>2. /\ Numbered(line.parts, k) /\ k \in Nat \ {0}
        /\ line.kind # "chunk" => line.parts = <<>> /\ line.grounding = NoGrounding
    BY <1>3, <1>4 DEF LineFits
  <2> HIDE DEF k
  <2>3. Account(u, Said(h), Found(sources, line), k + Added(line), Latest(h))
    BY <1>1, <1>3, <1>6, <1>9, <2>1, <2>2, ProcessLineAccount
  <2>4. s' = u /\ received' = h /\ Arrival' = k + Added(line)
    BY <1>2, <1>4 DEF u, h, k
  <2> HIDE DEF u, h
  <2> QED
    BY <1>4, <2>3, <2>4 DEF goal
<1> QED
  BY <1>5, <1>6

(* An end, or a step that leaves the message alone, keeps it too.          *)
LEMMA EndAccounts ==
  ASSUME LInv, s' = EmitForceStop(s) \/ s' = s, UNCHANGED upstreamVars
  PROVE  orderly' => Account(s', Said(received'), sources', Arrival', Latest(received'))
<1> SUFFICES ASSUME orderly'
             PROVE  Account(s', Said(received'), sources', Arrival', Latest(received'))
  OBVIOUS
<1>5. orderly' = orderly
  BY DEF upstreamVars
<1> DEFINE base == From(FALSE, <<>>)
<1>1. /\ Fits(base, s) /\ received \in Seq(GeminiParts) /\ sources \in Searches
      /\ Account(s, Said(received), sources, Arrival, Latest(received))
  <2>1. /\ orderly \in BOOLEAN /\ Fits(From(~orderly, <<>>), s)
        /\ received \in Seq(GeminiParts) /\ sources \in Searches
    BY DEF LInv, WInv
  <2>2. (~orderly) = FALSE
    BY <1>5, <2>1
  <2>3. Account(s, Said(received), sources, Arrival, Latest(received))
    BY <1>5 DEF LInv
  <2> QED
    BY <2>1, <2>2, <2>3
<1> HIDE DEF base
<1>2. received' = received /\ sources' = sources /\ Arrival' = Arrival
  BY DEF upstreamVars, Arrival
<1>3. CASE s' = s
  BY <1>1, <1>2, <1>3
<1>4. CASE s' = EmitForceStop(s)
  <2>1. CASE s.stopped
    BY <1>1, <1>2, <1>4, <2>1 DEF EmitForceStop
  <2>2. CASE ~s.stopped
    <3> DEFINE u == EmitFinish(s, "")
               c == Said(received)
               n == Latest(received)
               k == Arrival
    <3>1. s' = u
      BY <1>4, <2>2 DEF EmitForceStop
    <3>2. c \in Seq(Contents) /\ Ledger(s, c, sources, k, n) /\ k \in Nat
      BY <1>1, <2>2, SaidTyped DEF Account, Arrival
    <3> HIDE DEF u, c, n, k
    <3>3. Settled(EmitFinish(s, ""), Tells(c, sources), k, n)
          /\ EmitFinish(s, "").stopped
      BY <1>1, <2>2, <3>2, EmitFinishLedger
    <3>4. Account(u, c, sources, k, n)
      BY <3>3 DEF Account, u
    <3> QED
      BY <1>2, <3>1, <3>4 DEF c, n, k
  <2> QED
    BY <2>1, <2>2
<1> QED
  BY <1>3, <1>4

LEMMA LStep ==
  ASSUME LInv, BInv, [Next]_vars
  PROVE  LInv' /\ BInv'
<1>1. WInv'
  BY WStep DEF LInv
<1> DEFINE Kept_ == orderly' => Account(s', Said(received'), sources', Arrival', Latest(received'))
<1>2. CASE ReadLine
  <2>1. BInv' /\ Kept_
    BY <1>2, TranslateAccounts DEF ReadLine
  <2> QED
    BY <1>1, <2>1 DEF LInv
<1>3. CASE CollectLine
  <2>1. BInv' /\ Kept_
    BY <1>3, TranslateAccounts DEF CollectLine
  <2> QED
    BY <1>1, <2>1 DEF LInv
<1>4. ASSUME s' = EmitForceStop(s) \/ s' = s, UNCHANGED upstreamVars,
             mode' = mode, upstream' \in {"open", "eof", "reset"},
             client' \in {"here", "gone"},
             outcome' \in {"none", "ok", "disconnected", "unread", "empty"}
      PROVE  LInv' /\ BInv'
  <2>1. Kept_
    BY <1>4, EndAccounts
  <2>2. BInv'
    BY <1>4 DEF BInv, upstreamVars
  <2> QED
    BY <1>1, <2>1, <2>2 DEF LInv
<1>5. ASSUME s' = s, UNCHANGED <<mode, upstream, client, outcome, upstreamVars>>
      PROVE  LInv' /\ BInv'
  BY <1>4, <1>5 DEF BInv
<1>6. CASE WriteEvent
  BY <1>5, <1>6 DEF WriteEvent
<1>7. CASE SeeClientGone
  BY <1>4, <1>7 DEF SeeClientGone, BInv
<1>8. CASE StreamEnds
  BY <1>4, <1>8 DEF StreamEnds, BInv
<1>9. CASE StreamReturns
  BY <1>4, <1>9 DEF StreamReturns, BInv
<1>10. CASE CollectEnds
  BY <1>4, <1>10 DEF CollectEnds, BInv
<1>11. CASE ClientLeaves
  BY <1>4, <1>11 DEF ClientLeaves, BInv
<1>12. CASE UNCHANGED vars
  BY <1>5, <1>12 DEF vars, upstreamVars
<1> QED
  BY <1>2, <1>3, <1>6, <1>7, <1>8, <1>9, <1>10, <1>11, <1>12 DEF Next, Returned

-------------------------------------------------------------------------------
(* The inductive invariant of the message's content, for any parts in any  *)
(* lines, streamed or collected: before the stop the ledger, after it its  *)
(* settlement, says what of the parts received has been delivered, which   *)
(* sources wait, and where each signature is.                              *)
THEOREM AccountInvariant == Spec => [](LInv /\ BInv)
<1>1. LInv /\ BInv /\ [Next]_vars => (LInv /\ BInv)'
  BY LStep
<1> QED
  BY <1>1, LInitially, PTL DEF Spec

(* What a state is worth in the account.                                   *)
LEMMA AccountFacts ==
  ASSUME LInv, orderly
  PROVE  /\ PartsMade(s.out) = IF s.stopped THEN Tells(Said(received), sources)
                               ELSE Said(received)
         /\ Sorted(s, Arrival) /\ Kept(s, Latest(received))
         /\ s.stopped => s.pending = None /\ s.trailing = None /\ s.grounding = Unsought
         /\ ~s.stopped => s.grounding = sources
BY DEF LInv, Account, Settled, Ledger

(* The text, thoughts and calls of the parts are what they say, unless one *)
(* of them is a signed image.                                              *)
LEMMA SaidIsSent ==
  ASSUME received \in Seq(GeminiParts), \A j \in 1..Len(received) : Plain(received[j])
  PROVE  PartsSent = Said(received)
<1> DEFINE Sends(p) == IF p.text # None THEN <<<<BlockOf(p.kind), p.text>>>> ELSE <<>>
<1>1. \A j \in DOMAIN received : Sends(received[j]) = Says(received[j])
  BY DEF Says, Plain
<1>2. [k \in DOMAIN received |-> Sends(received[k])]
         = [k \in DOMAIN received |-> Says(received[k])]
  BY <1>1
<1>3. PartsSent = FlattenSeq([k \in DOMAIN received |-> Sends(received[k])])
  BY DEF PartsSent, Held
<1> HIDE DEF Sends
<1> QED
  BY <1>2, <1>3 DEF Said

(* What is delivered is what was said: every text, every thought and every *)
(* call, once and in order, and after the stop the sources; only an image  *)
(* that carries a signature is not delivered (processPart).                *)
LEMMA DeliveredAsSaid ==
  ASSUME LInv, orderly
  PROVE  PartsMade(s.out) = Said(received) \o (IF s.stopped THEN Sources ELSE <<>>)
<1>1. Said(received) \in Seq(Contents)
  BY SaidTyped DEF LInv, WInv
<1>2. Said(received) \o <<>> = Said(received)
  BY <1>1, ConcatEmptySeq
<1> QED
  BY <1>2, AccountFacts DEF Tells, Pieces, Sources

(* Every text, thought and call the upstream sent is delivered once and in *)
(* order, for any parts in any lines, if none of them is an image that     *)
(* carries a signature: ProcessGeminiSSELine and EmitForceStop keep the    *)
(* account of what came.                                                   *)
THEOREM ContentIsInOrder ==
  ASSUME <<"image", FALSE, TRUE>> \notin Shapes
  PROVE  Spec => []ContentInOrder
<1>1. LInv /\ BInv => ContentInOrder
  <2>1. SUFFICES ASSUME LInv, BInv, orderly
                 PROVE  PartsMade(s.out) = PartsSent \o (IF s.stopped THEN Sources ELSE <<>>)
    BY DEF ContentInOrder
  <2>2. received \in Seq(GeminiParts) /\ \A j \in 1..Len(received) : Plain(received[j])
    BY <2>1 DEF LInv, WInv, BInv, Offered
  <2>3. PartsSent = Said(received)
    BY <2>2, SaidIsSent
  <2>4. PartsMade(s.out) = Said(received) \o (IF s.stopped THEN Sources ELSE <<>>)
    BY <2>1, DeliveredAsSaid
  <2> QED
    BY <2>3, <2>4
<1> QED
  BY <1>1, AccountInvariant, PTL

(* Signatures are delivered in the order they came, and the newest is      *)
(* delivered or waits, whatever came between and wherever it broke off.    *)
THEOREM SignaturesAreKept == Spec => []SignaturesKept
<1>1. LInv => SignaturesKept
  <2>1. SUFFICES ASSUME LInv, orderly PROVE SignaturesKept
    BY DEF SignaturesKept
  <2> DEFINE made == SignaturesMade(s.out)
             came == SignaturesSent
  <2>2. came = Signatures(received)
    BY DEF SignaturesSent, Held, Signatures, Signs
  <2>3. received \in Seq(GeminiParts) /\ s.out \in Seq(Events)
    BY <2>1 DEF LInv, WInv, Fits, States
  <2>4. made \in Seq(Nat)
    <3>1. MessageStart \in Events
      BY EventFacts DEF Kinds
    <3> QED
      BY <2>3, <3>1, SignaturesMadeOne
  <2>5. came \in Seq(Nat \ {0})
    <3> DEFINE ss == [k \in DOMAIN received |-> Signs(received[k])]
    <3>1. \A k \in 1..Len(received) : Signs(received[k]) \in Seq(Nat \ {0})
      <4>1. ASSUME NEW k \in 1..Len(received) PROVE Signs(received[k]) \in Seq(Nat \ {0})
        <5> DEFINE g == received[k].sig
        <5>1. g \in Nat
          <6>1. received[k] \in GeminiParts
            BY <2>3
          <6> QED
            BY <6>1 DEF GeminiParts
        <5>2. Signs(received[k]) = IF g # None THEN <<g>> ELSE <<>>
          BY DEF Signs
        <5> HIDE DEF g
        <5>3. CASE g # None
          <6>1. g \in Nat \ {0}
            BY <5>1, <5>3 DEF None
          <6>2. <<g>> \in Seq(Nat \ {0})
            BY <6>1, OneAndTwo
          <6> QED
            BY <5>2, <5>3, <6>2
        <5>4. CASE g = None
          <6>1. <<>> \in Seq(Nat \ {0})
            OBVIOUS
          <6> QED
            BY <5>2, <5>4, <6>1
        <5> QED
          BY <5>3, <5>4
      <4> QED
        BY <4>1
    <3>2. ss \in Seq(Seq(Nat \ {0}))
      BY <2>3, <3>1
    <3>3. came = FlattenSeq(ss)
      BY <2>2 DEF Signatures
    <3> HIDE DEF ss, came
    <3> QED
      BY <3>2, <3>3, FlattenTyped
  <2>6. came # <<>> => Latest(received) = came[Len(came)]
    BY <2>2 DEF Latest
  <2> HIDE DEF came
  <2>7. ASSUME came # <<>> PROVE came[Len(came)] \in Nat \ {0}
    BY <2>5, <2>7
  <2>8. Rising(s.out) /\ Kept(s, Latest(received))
        /\ (s.stopped => s.pending = None /\ s.trailing = None)
    BY <2>1, AccountFacts DEF Sorted
  <2>9. \A i, j \in 1..Len(made) : i < j => made[i] < made[j]
    BY <2>8 DEF Rising
  <2>10. ASSUME came # <<>>
         PROVE  came[Len(came)] \in ToSet(made) \cup (IF s.stopped THEN {}
                                                      ELSE {s.pending, s.trailing})
    <3> DEFINE n == came[Len(came)]
    <3>1. n # None /\ n = Latest(received)
      BY <2>6, <2>7, <2>10 DEF None
    <3>2. Delivered(s.out, n) => n \in ToSet(made)
      BY <2>4 DEF Delivered, ToSet
    <3> HIDE DEF n, made
    <3>3. n \in ToSet(made) \/ (~s.stopped /\ n \in {s.pending, s.trailing})
      BY <2>8, <3>1, <3>2 DEF Kept
    <3> QED
      BY <3>3 DEF n
  <2>11. SignaturesKept
    BY <2>9, <2>10 DEF SignaturesKept, came
  <2> QED
    BY <2>11
<1> QED
  BY <1>1, AccountInvariant, PTL

(* The variables have their types: the client has read no more events than *)
(* were made, whatever an upstream sends and after whatever end.           *)
THEOREM StreamTyped == Spec => []TypeInvariant
<1>1. LInv /\ BInv => TypeInvariant
  <2>1. SUFFICES ASSUME LInv, BInv PROVE TypeInvariant
    OBVIOUS
  <2>2. s \in States /\ sent \in 0..Len(s.out) /\ orderly \in BOOLEAN
    BY <2>1 DEF LInv, WInv, Fits
  <2>3. s.pending \in Nat /\ s.trailing \in Nat
        /\ s.block \in {"none", "text", "thinking", "tool_use"}
    BY <2>2 DEF States, Kinds
  <2> QED
    BY <2>1, <2>2, <2>3 DEF TypeInvariant, BInv
<1> QED
  BY <1>1, AccountInvariant, PTL

-------------------------------------------------------------------------------
(* The blocks of a message, and what is in them.                           *)
Blocks == [type : Kinds, data : Seq(Nat), sig : Nat]

Opt(x) == IF x = None THEN <<>> ELSE <<x>>

LEMMA OptTyped ==
  ASSUME NEW x \in Nat
  PROVE  Opt(x) \in Seq(Nat)
<1>1. <<x>> \in Seq(Nat) /\ <<>> \in Seq(Nat)
  BY OneAndTwo
<1> QED
  BY <1>1 DEF Opt

LEMMA BlockTyped ==
  ASSUME NEW kind \in Kinds, NEW d \in Seq(Nat), NEW g \in Nat
  PROVE  /\ Block(kind, d, g) \in Blocks
         /\ Block(kind, d, g).type = kind /\ Block(kind, d, g).data = d
         /\ Block(kind, d, g).sig = g
BY DEF Block, Blocks

LEMMA PairsTyped ==
  ASSUME NEW b \in Blocks
  PROVE  Pairs(b) \in Seq(Contents) /\ (b.data = <<>> => Pairs(b) = <<>>)
<1>1. b.type \in Kinds /\ b.data \in Seq(Nat)
  BY DEF Blocks
<1>2. \A k \in 1..Len(b.data) : <<b.type, b.data[k]>> \in Contents
  BY <1>1 DEF Contents
<1>3. Pairs(b) \in Seq(Contents)
  BY <1>1, <1>2 DEF Pairs
<1>4. ASSUME b.data = <<>> PROVE Pairs(b) = <<>>
  <2>1. Len(Pairs(b)) = 0
    BY <1>1, <1>4 DEF Pairs
  <2> QED
    BY <1>3, <2>1
<1> QED
  BY <1>3, <1>4

LEMMA PairsOf ==
  ASSUME NEW kind \in Kinds, NEW d \in Seq(Nat), NEW g \in Nat
  PROVE  /\ Pairs(Block(kind, d, g)) \in Seq(Contents)
         /\ Len(Pairs(Block(kind, d, g))) = Len(d)
         /\ \A k \in 1..Len(d) : Pairs(Block(kind, d, g))[k] = <<kind, d[k]>>
<1> DEFINE b == Block(kind, d, g)
<1>1. b \in Blocks /\ b.type = kind /\ b.data = d
  BY BlockTyped
<1> HIDE DEF b
<1>2. Pairs(b) = [k \in 1..Len(d) |-> <<kind, d[k]>>] /\ Len(d) \in Nat
  BY <1>1 DEF Pairs
<1>3. Pairs(b) \in Seq(Contents)
  BY <1>1, PairsTyped
<1>4. Len(Pairs(b)) = Len(d) /\ \A k \in 1..Len(d) : Pairs(b)[k] = <<kind, d[k]>>
  BY <1>2
<1> QED
  BY <1>3, <1>4 DEF b

(* One element more in a block.                                            *)
LEMMA PairsMore ==
  ASSUME NEW kind \in Kinds, NEW d \in Seq(Nat), NEW x \in Nat, NEW g \in Nat
  PROVE  /\ Pairs(Block(kind, Append(d, x), g)) = Pairs(Block(kind, d, g)) \o <<<<kind, x>>>>
         /\ Pairs(Block(kind, <<x>>, g)) = <<<<kind, x>>>>
<1> DEFINE c == <<kind, x>>
           l == Pairs(Block(kind, d, g))
           e == Append(d, x)
           f == <<x>>
           m == Pairs(Block(kind, e, g))
           o == Pairs(Block(kind, f, g))
           n == Len(d)
<1>1. c \in Contents
  BY DEF Contents
<1>2. l \in Seq(Contents) /\ Len(l) = n /\ \A k \in 1..n : l[k] = <<kind, d[k]>>
  BY PairsOf
<1>10. e \in Seq(Nat) /\ Len(e) = n + 1 /\ e[n + 1] = x /\ \A k \in 1..n : e[k] = d[k]
  BY AppendProperties
<1>11. f \in Seq(Nat) /\ Len(f) = 1 /\ f[1] = x
  BY OneAndTwo
<1>6. n \in Nat
  OBVIOUS
<1> HIDE DEF e, f
<1>12. m \in Seq(Contents) /\ Len(m) = Len(e) /\ \A k \in 1..Len(e) : m[k] = <<kind, e[k]>>
  BY <1>10, PairsOf
<1>13. o \in Seq(Contents) /\ Len(o) = Len(f) /\ \A k \in 1..Len(f) : o[k] = <<kind, f[k]>>
  BY <1>11, PairsOf
<1> HIDE DEF l, m, o, n
<1>3. m[n + 1] = c /\ Len(m) = n + 1 /\ \A k \in 1..n : m[k] = l[k]
  <2>1. Len(m) = n + 1 /\ n + 1 \in 1..Len(e)
    BY <1>6, <1>10, <1>12
  <2>2. m[n + 1] = <<kind, e[n + 1]>>
    BY <1>12, <2>1
  <2>3. ASSUME NEW k \in 1..n PROVE m[k] = l[k]
    <3>1. k \in 1..Len(e) /\ e[k] = d[k]
      BY <1>6, <1>10
    <3> QED
      BY <1>2, <1>12, <3>1
  <2> QED
    BY <1>10, <2>1, <2>2, <2>3
<1>4. o[1] = c /\ Len(o) = 1
  BY <1>11, <1>13
<1>5. <<c>> \in Seq(Contents) /\ Len(<<c>>) = 1 /\ <<c>>[1] = c
  BY <1>1, OneAndTwo
<1>14. Append(l, c) \in Seq(Contents) /\ Len(Append(l, c)) = n + 1
       /\ Append(l, c)[n + 1] = c /\ \A k \in 1..n : Append(l, c)[k] = l[k]
  BY <1>1, <1>2, AppendProperties
<1>9. Append(l, c) = l \o <<c>>
  BY <1>1, <1>2, AppendIsConcat
<1> HIDE DEF c
<1>7. o = <<c>>
  BY <1>4, <1>5, <1>13
<1> DEFINE a == Append(l, c)
<1> HIDE DEF a
<1>8. m = a
  <2>1. a \in Seq(Contents) /\ Len(a) = n + 1 /\ a[n + 1] = c /\ \A k \in 1..n : a[k] = l[k]
    BY <1>14 DEF a
  <2>2. \A k \in 1..n + 1 : m[k] = a[k]
    BY <1>3, <1>6, <2>1
  <2> QED
    BY <1>3, <1>12, <2>1, <2>2
<1> QED
  BY <1>7, <1>8, <1>9 DEF l, m, o, c, e, f, a

(* One block more in a message.                                            *)
LEMMA PartsOfOne ==
  ASSUME NEW content \in Seq(Blocks), NEW b \in Blocks
  PROVE  /\ PartsOf(Append(content, b)) = PartsOf(content) \o Pairs(b)
         /\ PartsOf(content) \in Seq(Contents)
         /\ PartsOf(<<>>) = <<>>
<1> DEFINE ss == [k \in 1..Len(content) |-> Pairs(content[k])]
           o == Append(content, b)
           tt == [k \in 1..Len(o) |-> Pairs(o[k])]
           n == Len(content)
<1>1. PartsOf(content) = FlattenSeq(ss) /\ PartsOf(o) = FlattenSeq(tt)
  BY DEF PartsOf
<1>2. o \in Seq(Blocks) /\ Len(o) = n + 1 /\ o[n + 1] = b /\ n \in Nat
      /\ (\A k \in 1..n : o[k] = content[k]) /\ \A k \in 1..n : content[k] \in Blocks
  BY AppendProperties
<1> HIDE DEF o
<1>3. ss \in Seq(Seq(Contents)) /\ Len(ss) = n
  <2>1. \A k \in 1..n : Pairs(content[k]) \in Seq(Contents)
    BY <1>2, PairsTyped
  <2> QED
    BY <1>2, <2>1
<1>4. tt \in Seq(Seq(Contents)) /\ Len(tt) = n + 1 /\ tt[n + 1] = Pairs(b)
  <2>1. \A k \in 1..n + 1 : Pairs(o[k]) \in Seq(Contents)
    BY <1>2, PairsTyped
  <2> QED
    BY <1>2, <2>1
<1>5. \A k \in 1..n : tt[k] = ss[k]
  BY <1>2
<1> HIDE DEF ss, tt
<1>6. FlattenSeq(tt) = FlattenSeq(ss) \o tt[Len(tt)]
  BY <1>3, <1>4, <1>5, FlattenLast
<1>7. FlattenSeq(ss) \in Seq(Contents)
  BY <1>3, FlattenTyped
<1>8. PartsOf(<<>>) = <<>>
  <2> DEFINE e0 == [k \in 1..Len(<<>>) |-> Pairs(<<>>[k])]
  <2>1. PartsOf(<<>>) = FlattenSeq(e0)
    BY DEF PartsOf
  <2>2. e0 = <<>>
    OBVIOUS
  <2>3. <<>> \in Seq(Seq(Contents))
    OBVIOUS
  <2> QED
    BY <2>1, <2>2, <2>3, FlattenTyped
<1> QED
  BY <1>1, <1>4, <1>6, <1>7, <1>8 DEF o

LEMMA SignaturesOfOne ==
  ASSUME NEW content \in Seq(Blocks), NEW b \in Blocks
  PROVE  /\ SignaturesOf(Append(content, b)) = SignaturesOf(content) \o Opt(b.sig)
         /\ SignaturesOf(content) \in Seq(Nat)
         /\ SignaturesOf(<<>>) = <<>>
<1> DEFINE Sig(x) == IF x.sig # None THEN <<x.sig>> ELSE <<>>
           ss == [k \in DOMAIN content |-> Sig(content[k])]
           o == Append(content, b)
           tt == [k \in DOMAIN o |-> Sig(o[k])]
           n == Len(content)
<1>1. SignaturesOf(content) = FlattenSeq(ss) /\ SignaturesOf(o) = FlattenSeq(tt)
  BY DEF SignaturesOf, Held
<1>2. o \in Seq(Blocks) /\ Len(o) = n + 1 /\ o[n + 1] = b /\ n \in Nat
      /\ (\A k \in 1..n : o[k] = content[k]) /\ (\A k \in 1..n : content[k] \in Blocks)
      /\ DOMAIN content = 1..n /\ DOMAIN o = 1..n + 1
  BY AppendProperties
<1>10. ASSUME NEW x \in Blocks PROVE Sig(x) = Opt(x.sig) /\ Sig(x) \in Seq(Nat)
  <2>1. x.sig \in Nat
    BY DEF Blocks
  <2> QED
    BY <2>1, OptTyped DEF Opt
<1> HIDE DEF o, Sig
<1>3. ss \in Seq(Seq(Nat)) /\ Len(ss) = n
  <2>1. \A k \in 1..n : Sig(content[k]) \in Seq(Nat)
    BY <1>2, <1>10
  <2> QED
    BY <1>2, <2>1
<1>4. tt \in Seq(Seq(Nat)) /\ Len(tt) = n + 1 /\ tt[n + 1] = Sig(b)
  <2>1. \A k \in 1..n + 1 : Sig(o[k]) \in Seq(Nat)
    BY <1>2, <1>10
  <2> QED
    BY <1>2, <2>1
<1>5. \A k \in 1..n : tt[k] = ss[k]
  BY <1>2
<1> HIDE DEF ss, tt
<1>6. FlattenSeq(tt) = FlattenSeq(ss) \o tt[Len(tt)]
  BY <1>3, <1>4, <1>5, FlattenLast
<1>7. FlattenSeq(ss) \in Seq(Nat)
  BY <1>3, FlattenTyped
<1>8. SignaturesOf(<<>>) = <<>>
  <2> DEFINE e0 == [k \in DOMAIN <<>> |-> Sig(<<>>[k])]
  <2>1. SignaturesOf(<<>>) = FlattenSeq(e0)
    BY DEF SignaturesOf, Held, Sig
  <2>2. e0 = <<>>
    OBVIOUS
  <2>3. <<>> \in Seq(Seq(Nat))
    OBVIOUS
  <2> QED
    BY <2>1, <2>2, <2>3, FlattenTyped
<1>9. Sig(b) = Opt(b.sig)
  BY <1>10
<1> QED
  BY <1>1, <1>4, <1>6, <1>7, <1>8, <1>9 DEF o

-------------------------------------------------------------------------------
(* The collector's state, and what the client of a collected message would *)
(* have if the block it builds ended now.                                  *)
Collectors == [text : Seq(Nat), thinking : Seq(Nat), tool : Nat,
               content : Seq(Blocks), reason : Kinds \cup Reasons \cup {"none"},
               over : BOOLEAN]

Gathered(c) == PartsOf(CollectStop(c).content)

(* At most the builder of the block the client is inside of holds          *)
(* something, and what was gathered is what the events made.               *)
Gathers(c, p, made) ==
    /\ c \in Collectors
    /\ p # "text" => c.text = <<>>
    /\ p \notin {"thinking", "signed"} => c.thinking = <<>>
    /\ p # "tool_use" => c.tool = None
    /\ c.over <=> p = "over"
    /\ Gathered(c) = made

Empty(c) == c.text = <<>> /\ c.thinking = <<>> /\ c.tool = None

LEMMA CollectStopFacts ==
  ASSUME NEW c \in Collectors
  PROVE  /\ Empty(c) => CollectStop(c) = c
         /\ c.text # <<>> =>
               CollectStop(c) = [c EXCEPT !.content = Append(c.content, Block("text", c.text, None)),
                                          !.text = <<>>]
         /\ c.text = <<>> /\ c.thinking # <<>> =>
               CollectStop(c) = [c EXCEPT !.content = Append(c.content, Block("thinking", c.thinking, None)),
                                          !.thinking = <<>>]
         /\ c.text = <<>> /\ c.thinking = <<>> /\ c.tool # None =>
               CollectStop(c) = [c EXCEPT !.content = Append(c.content, Block("tool_use", <<c.tool>>, None)),
                                          !.tool = None]
BY DEF CollectStop, Empty

(* A block that ends joins the message.                                    *)
LEMMA GatheredFacts ==
  ASSUME NEW c \in Collectors
  PROVE  /\ CollectStop(c) \in Collectors
         /\ CollectStop(c).over = c.over /\ CollectStop(c).reason = c.reason
         /\ Empty(c) => Gathered(c) = PartsOf(c.content)
         /\ c.text # <<>> =>
               /\ Gathered(c) = PartsOf(c.content) \o Pairs(Block("text", c.text, None))
               /\ CollectStop(c).text = <<>> /\ CollectStop(c).thinking = c.thinking
               /\ CollectStop(c).tool = c.tool
         /\ c.text = <<>> /\ c.thinking # <<>> =>
               /\ Gathered(c) = PartsOf(c.content) \o Pairs(Block("thinking", c.thinking, None))
               /\ CollectStop(c).text = <<>> /\ CollectStop(c).thinking = <<>>
               /\ CollectStop(c).tool = c.tool
         /\ c.text = <<>> /\ c.thinking = <<>> /\ c.tool # None =>
               /\ Gathered(c) = PartsOf(c.content) \o <<<<"tool_use", c.tool>>>>
               /\ Empty(CollectStop(c))
<1> DEFINE u == CollectStop(c)
<1>1. /\ c.text \in Seq(Nat) /\ c.thinking \in Seq(Nat) /\ c.tool \in Nat
      /\ c.content \in Seq(Blocks) /\ None \in Nat /\ <<>> \in Seq(Nat)
  BY DEF Collectors, None
<1>2. ASSUME NEW b \in Blocks, NEW v \in Collectors, u = [v EXCEPT !.content = Append(c.content, b)],
             v.over = c.over, v.reason = c.reason
      PROVE  /\ u \in Collectors /\ u.over = c.over /\ u.reason = c.reason
             /\ Gathered(c) = PartsOf(c.content) \o Pairs(b)
             /\ u.text = v.text /\ u.thinking = v.thinking /\ u.tool = v.tool
  <2>1. Append(c.content, b) \in Seq(Blocks)
    BY <1>1
  <2> DEFINE d == Append(c.content, b)
  <2>2. d \in Seq(Blocks) /\ PartsOf(d) = PartsOf(c.content) \o Pairs(b) /\ u = [v EXCEPT !.content = d]
    BY <1>1, <1>2, <2>1, PartsOfOne
  <2> HIDE DEF u, d
  <2>3. u \in Collectors /\ u.content = d /\ u.over = v.over /\ u.reason = v.reason
        /\ u.text = v.text /\ u.thinking = v.thinking /\ u.tool = v.tool
    BY <2>2 DEF Collectors
  <2>4. Gathered(c) = PartsOf(u.content)
    BY DEF Gathered, u
  <2> QED
    BY <1>2, <2>2, <2>3, <2>4
<1>3. CASE Empty(c)
  <2>1. u = c
    BY <1>3, CollectStopFacts, ZenonT(60)
  <2> QED
    BY <1>3, <2>1, ZenonT(60) DEF Empty, Gathered
<1>4. CASE c.text # <<>>
  <2> DEFINE b == Block("text", c.text, None)
             v == [c EXCEPT !.text = <<>>]
  <2>1. b \in Blocks
    BY <1>1, BlockTyped DEF Kinds
  <2>2. v \in Collectors /\ v.over = c.over /\ v.reason = c.reason /\ v.text = <<>>
        /\ v.thinking = c.thinking /\ v.tool = c.tool
    BY <1>1, ZenonT(60) DEF Collectors
  <2>3. u = [c EXCEPT !.content = Append(c.content, b), !.text = <<>>]
    BY <1>4, CollectStopFacts, ZenonT(60)
  <2> HIDE DEF b, u
  <2>4. u = [v EXCEPT !.content = Append(c.content, b)]
    BY <2>3 DEF Collectors
  <2> HIDE DEF v
  <2>5. /\ u \in Collectors /\ u.over = c.over /\ u.reason = c.reason
        /\ Gathered(c) = PartsOf(c.content) \o Pairs(b)
        /\ u.text = v.text /\ u.thinking = v.thinking /\ u.tool = v.tool
    BY <1>2, <2>1, <2>2, <2>4 DEF u
  <2> QED
    BY <1>4, <2>2, <2>5 DEF Empty, u, b
<1>5. CASE c.text = <<>> /\ c.thinking # <<>>
  <2> DEFINE b == Block("thinking", c.thinking, None)
             v == [c EXCEPT !.thinking = <<>>]
  <2>1. b \in Blocks
    BY <1>1, BlockTyped DEF Kinds
  <2>2. v \in Collectors /\ v.over = c.over /\ v.reason = c.reason /\ v.text = c.text
        /\ v.thinking = <<>> /\ v.tool = c.tool
    BY <1>1, ZenonT(60) DEF Collectors
  <2>3. u = [c EXCEPT !.content = Append(c.content, b), !.thinking = <<>>]
    BY <1>5, CollectStopFacts, ZenonT(60)
  <2> HIDE DEF b, u
  <2>4. u = [v EXCEPT !.content = Append(c.content, b)]
    BY <2>3 DEF Collectors
  <2> HIDE DEF v
  <2>5. /\ u \in Collectors /\ u.over = c.over /\ u.reason = c.reason
        /\ Gathered(c) = PartsOf(c.content) \o Pairs(b)
        /\ u.text = v.text /\ u.thinking = v.thinking /\ u.tool = v.tool
    BY <1>2, <2>1, <2>2, <2>4 DEF u
  <2> QED
    BY <1>5, <2>2, <2>5 DEF Empty, u, b
<1>6. CASE c.text = <<>> /\ c.thinking = <<>> /\ c.tool # None
  <2> DEFINE x == c.tool
             b == Block("tool_use", <<x>>, None)
             v == [c EXCEPT !.tool = None]
  <2>1. b \in Blocks /\ Pairs(b) = <<<<"tool_use", x>>>>
    <3>1. x \in Nat /\ <<x>> \in Seq(Nat) /\ "tool_use" \in Kinds
      BY <1>1, OneAndTwo DEF Kinds
    <3> HIDE DEF x
    <3> QED
      BY <1>1, <3>1, BlockTyped, PairsMore
  <2>2. v \in Collectors /\ v.over = c.over /\ v.reason = c.reason /\ v.text = c.text
        /\ v.thinking = c.thinking /\ v.tool = None
    BY <1>1 DEF Collectors
  <2>3. u = [c EXCEPT !.content = Append(c.content, b), !.tool = None]
    BY <1>6, CollectStopFacts, ZenonT(60)
  <2> HIDE DEF b, u
  <2>4. u = [v EXCEPT !.content = Append(c.content, b)]
    BY <2>3 DEF Collectors
  <2> HIDE DEF v
  <2>5. /\ u \in Collectors /\ u.over = c.over /\ u.reason = c.reason
        /\ Gathered(c) = PartsOf(c.content) \o Pairs(b)
        /\ u.text = v.text /\ u.thinking = v.thinking /\ u.tool = v.tool
    BY <1>2, <2>1, <2>2, <2>4 DEF u
  <2> QED
    BY <1>6, <2>1, <2>2, <2>5 DEF Empty, u
<1> QED
  BY <1>3, <1>4, <1>5, <1>6 DEF Empty

LEMMA EventTyped ==
  ASSUME NEW e \in Events
  PROVE  /\ e.data \in Nat /\ e.sig \in Nat /\ e.type \in Types
         /\ e.block \in Kinds \cup Reasons \cup {"none"}
         /\ e.data = None => Made(e) = <<>>
         /\ PhaseAfter(e) = CASE e.type = "message_start" -> "open"
                              [] e.type = "content_block_start" -> e.block
                              [] e.type = "content_block_delta" ->
                                    IF e.sig # None THEN "signed" ELSE e.block
                              [] e.type = "content_block_stop" -> "open"
                              [] e.type = "message_delta" -> "closing"
                              [] OTHER -> "over"
BY DEF Events, Made, PhaseAfter

LEMMA GathersTyped ==
  ASSUME NEW c, NEW p, NEW made, Gathers(c, p, made)
  PROVE  made \in Seq(Contents) /\ made \o <<>> = made
<1>1. CollectStop(c) \in Collectors
  BY GatheredFacts DEF Gathers
<1>2. CollectStop(c).content \in Seq(Blocks) /\ Block("text", <<>>, None) \in Blocks
  <2>1. "text" \in Kinds /\ <<>> \in Seq(Nat) /\ None \in Nat
    BY DEF Kinds, None
  <2> QED
    BY <1>1, <2>1, BlockTyped DEF Collectors
<1>3. made \in Seq(Contents)
  BY <1>2, PartsOfOne DEF Gathers, Gathered
<1> QED
  BY <1>3, ConcatEmptySeq

(* A client outside the blocks has built none.                             *)
LEMMA GathersNothing ==
  ASSUME NEW c, NEW p, NEW made, Gathers(c, p, made), p \notin Kinds \cup {"signed"}
  PROVE  Empty(c) /\ c \in Collectors /\ made = PartsOf(c.content) /\ Gathered(c) = made
<1>1. Empty(c) /\ c \in Collectors /\ Gathered(c) = made
  BY DEF Gathers, Empty, Kinds
<1> QED
  BY <1>1, GatheredFacts

LEMMA StartGathers ==
  ASSUME NEW c, NEW made, Gathers(c, "open", made), NEW e \in Events,
         e.type = "content_block_start", e.block \in Kinds,
         e.block = "tool_use" \/ e.data = None
  PROVE  Gathers(CollectStart(c, e), e.block, made \o Made(e))
<1>1. /\ Empty(c) /\ c \in Collectors /\ made = PartsOf(c.content) /\ Gathered(c) = made
      /\ made \o <<>> = made
  BY GathersNothing, GathersTyped DEF Kinds
<1>2. e.data \in Nat
  BY EventTyped
<1>3. CASE e.block # "tool_use"
  <2>1. Made(e) = <<>>
    BY <1>3, EventTyped
  <2>2. CollectStart(c, e) = c
    BY <1>1, <1>3 DEF CollectStart, Empty, Collectors, Kinds
  <2>3. e.block # "over" /\ ~c.over
    BY DEF Kinds, Gathers
  <2> QED
    BY <1>1, <2>1, <2>2, <2>3 DEF Gathers, Empty
<1>4. CASE e.block = "tool_use"
  <2> DEFINE u == [c EXCEPT !.tool = e.data]
  <2>1. CollectStart(c, e) = u
    BY <1>4 DEF CollectStart
  <2>2. u \in Collectors /\ u.tool = e.data /\ u.text = <<>> /\ u.thinking = <<>>
        /\ u.content = c.content /\ u.over = c.over
    BY <1>1, <1>2 DEF Collectors, Empty
  <2>3. ~c.over
    BY DEF Gathers
  <2> HIDE DEF u
  <2>4. Gathered(u) = made \o Made(e)
    <3>1. CASE e.data = None
      <4>1. Empty(u) /\ Made(e) = <<>>
        BY <2>2, <3>1, EventTyped DEF Empty
      <4> QED
        BY <1>1, <2>2, <4>1, GatheredFacts
    <3>2. CASE e.data # None
      <4>1. Made(e) = <<<<"tool_use", u.tool>>>>
        BY <1>4, <2>2, <3>2 DEF Made
      <4> QED
        <5>1. Gathered(u) = PartsOf(u.content) \o <<<<"tool_use", u.tool>>>>
          BY <2>2, <3>2, GatheredFacts
        <5> QED
          BY <1>1, <2>2, <4>1, <5>1
    <3> QED
      BY <3>1, <3>2
  <2> QED
    BY <1>4, <2>1, <2>2, <2>3, <2>4 DEF Gathers
<1> QED
  BY <1>3, <1>4

(* A text, or a thought, that is heard joins its block.                    *)
LEMMA HearGathers ==
  ASSUME NEW c, NEW p, NEW made, Gathers(c, p, made), NEW e \in Events,
         e.type = "content_block_delta", p = e.block, e.block \in {"text", "thinking"},
         e.data # None
  PROVE  /\ CollectDelta(c, e) \in Collectors
         /\ Gathered(CollectDelta(c, e)) = made \o Made(e)
         /\ CollectDelta(c, e).tool = c.tool /\ CollectDelta(c, e).over = c.over
         /\ p = "text" => CollectDelta(c, e).thinking = c.thinking
         /\ p = "thinking" => CollectDelta(c, e).text = c.text
<1> DEFINE x == e.data
           k == e.block
<1>1. /\ c \in Collectors /\ Gathered(c) = made /\ x \in Nat /\ Made(e) = <<<<k, x>>>>
      /\ c.text \in Seq(Nat) /\ c.thinking \in Seq(Nat) /\ c.content \in Seq(Blocks)
      /\ made \in Seq(Contents) /\ k \in Kinds /\ None \in Nat
      /\ c.tool = None
  BY EventTyped, GathersTyped DEF Gathers, Made, Collectors, Kinds, None
<1>2. <<<<k, x>>>> \in Seq(Contents)
  <2>1. <<k, x>> \in Contents
    BY <1>1 DEF Contents
  <2> QED
    BY <2>1, OneAndTwo
(* The builder of the block has d; with x the message has x more.          *)
<1>3. ASSUME NEW d \in Seq(Nat), d = <<>> => made = PartsOf(c.content),
             d # <<>> => made = PartsOf(c.content) \o Pairs(Block(k, d, None))
      PROVE  /\ PartsOf(c.content) \o Pairs(Block(k, Append(d, x), None)) = made \o Made(e)
             /\ Append(d, x) \in Seq(Nat) /\ Append(d, x) # <<>>
  <2> DEFINE q == PartsOf(c.content)
             b == Pairs(Block(k, d, None))
             z == <<<<k, x>>>>
  <2>1. Pairs(Block(k, Append(d, x), None)) = b \o z
    BY <1>1, PairsMore
  <2>2. q \in Seq(Contents) /\ b \in Seq(Contents) /\ (d = <<>> => b = <<>>)
    <3>1. Block(k, d, None) \in Blocks /\ Block(k, d, None).data = d
      BY <1>1, BlockTyped
    <3> QED
      BY <1>1, <3>1, PairsTyped, PartsOfOne
  <2>3. made = q \o b
    <3>1. q \o <<>> = q
      BY <2>2, ConcatEmptySeq
    <3> QED
      BY <1>3, <2>2, <3>1
  <2>4. z \in Seq(Contents) /\ Made(e) = z
    BY <1>1, <1>2
  <2>5. Append(d, x) \in Seq(Nat) /\ Append(d, x) # <<>>
    <3>1. x \in Nat
      BY <1>1
    <3> HIDE DEF x
    <3>2. Append(d, x) \in Seq(Nat) /\ Len(Append(d, x)) = Len(d) + 1 /\ Len(d) \in Nat
      BY <3>1, AppendProperties
    <3>3. Len(<<>>) = 0
      OBVIOUS
    <3> QED
      BY <3>2, <3>3
  <2> HIDE DEF q, b, z
  <2>7. q \in Seq(Contents) /\ b \in Seq(Contents) /\ z \in Seq(Contents)
    BY <2>2, <2>4
  <2>6. (q \o b) \o z = q \o (b \o z)
    BY ONLY <2>7, ConcatAssociative, SMTT(60)
  <2> QED
    BY <2>1, <2>3, <2>4, <2>5, <2>6 DEF q
<1>4. CASE k = "text"
  <2> DEFINE d == c.text
             f == Append(d, x)
             u == [c EXCEPT !.text = f]
  <2>1. CollectDelta(c, e) = u
    BY <1>4 DEF CollectDelta
  <2>2. d = <<>> => Empty(c)
    BY <1>1, <1>4 DEF Gathers, Empty
  <2>3. /\ d = <<>> => made = PartsOf(c.content)
        /\ d # <<>> => made = PartsOf(c.content) \o Pairs(Block(k, d, None))
    BY <1>1, <1>4, <2>2, GatheredFacts
  <2>4. PartsOf(c.content) \o Pairs(Block(k, f, None)) = made \o Made(e) /\ f \in Seq(Nat) /\ f # <<>>
    BY <1>1, <1>3, <2>3
  <2> HIDE DEF f
  <2>5. u \in Collectors /\ u.text = f /\ u.content = c.content /\ u.thinking = c.thinking
        /\ u.tool = c.tool /\ u.over = c.over
    BY <1>1, <2>4 DEF Collectors
  <2> HIDE DEF u
  <2>6. Gathered(u) = PartsOf(u.content) \o Pairs(Block("text", u.text, None))
    BY <2>4, <2>5, GatheredFacts
  <2>7. Gathered(u) = made \o Made(e)
    BY <1>4, <2>4, <2>5, <2>6
  <2> QED
    BY <1>4, <2>1, <2>5, <2>7
<1>5. CASE k = "thinking"
  <2> DEFINE d == c.thinking
             f == Append(d, x)
             u == [c EXCEPT !.thinking = f]
  <2>1. CollectDelta(c, e) = u
    BY <1>5 DEF CollectDelta
  <2>2. c.text = <<>> /\ (d = <<>> => Empty(c))
    BY <1>1, <1>5 DEF Gathers, Empty
  <2>3. /\ d = <<>> => made = PartsOf(c.content)
        /\ d # <<>> => made = PartsOf(c.content) \o Pairs(Block(k, d, None))
    BY <1>1, <1>5, <2>2, GatheredFacts
  <2>4. PartsOf(c.content) \o Pairs(Block(k, f, None)) = made \o Made(e) /\ f \in Seq(Nat) /\ f # <<>>
    BY <1>1, <1>3, <2>3
  <2> HIDE DEF f
  <2>5. u \in Collectors /\ u.thinking = f /\ u.content = c.content /\ u.text = c.text
        /\ u.tool = c.tool /\ u.over = c.over
    BY <1>1, <2>4 DEF Collectors
  <2> HIDE DEF u
  <2>6. Gathered(u) = PartsOf(u.content) \o Pairs(Block("thinking", u.thinking, None))
    BY <2>2, <2>4, <2>5, GatheredFacts
  <2>7. Gathered(u) = made \o Made(e)
    BY <1>5, <2>4, <2>5, <2>6
  <2> QED
    BY <1>5, <2>1, <2>5, <2>7
<1> QED
  BY <1>4, <1>5

LEMMA DeltaGathers ==
  ASSUME NEW c, NEW p, NEW made, Gathers(c, p, made), NEW e \in Events,
         e.type = "content_block_delta", p = e.block, p \in Kinds,
         p = "thinking" \/ e.sig = None
  PROVE  Gathers(CollectDelta(c, e), PhaseAfter(e), made \o Made(e))
<1>1. /\ PhaseAfter(e) = p \/ (PhaseAfter(e) = "signed" /\ p = "thinking")
      /\ made \o <<>> = made /\ ~c.over /\ p # "over"
  BY EventTyped, GathersTyped DEF Gathers, Kinds
<1>2. CASE e.data = None \/ p = "tool_use"
  <2>1. Made(e) = <<>>
    BY <1>2 DEF Made
  <2>2. CollectDelta(c, e) = c
    BY <1>2 DEF CollectDelta
  <2> QED
    BY <1>1, <2>1, <2>2 DEF Gathers
<1>3. CASE ~(e.data = None \/ p = "tool_use")
  <2> DEFINE u == CollectDelta(c, e)
  <2>1. /\ u \in Collectors /\ Gathered(u) = made \o Made(e)
        /\ u.tool = c.tool /\ u.over = c.over
        /\ p = "text" => u.thinking = c.thinking
        /\ p = "thinking" => u.text = c.text
    BY <1>3, HearGathers DEF Kinds
  <2>2. p \in {"text", "thinking"}
    BY <1>3 DEF Kinds
  <2> HIDE DEF u
  <2>3. Gathers(u, PhaseAfter(e), made \o Made(e))
    BY <1>1, <2>1, <2>2 DEF Gathers
  <2> QED
    BY <2>3 DEF u
<1> QED
  BY <1>2, <1>3

LEMMA StopGathers ==
  ASSUME NEW c, NEW p, NEW made, Gathers(c, p, made), p \in Kinds \cup {"signed"}
  PROVE  Gathers(CollectStop(c), "open", made)
<1> DEFINE u == CollectStop(c)
<1>1. /\ c \in Collectors /\ Gathered(c) = made /\ ~c.over
      /\ Empty(c) \/ c.text # <<>> \/ c.thinking # <<>> \/ c.tool # None
  BY DEF Gathers, Empty, Kinds
<1>2. u \in Collectors /\ u.over = c.over
  BY <1>1, GatheredFacts
<1>3. Empty(u)
  <2>1. CASE Empty(c)
    BY <1>1, <2>1, CollectStopFacts, ZenonT(60)
  <2>2. CASE c.text # <<>>
    <3>1. c.thinking = <<>> /\ c.tool = None
      BY <2>2 DEF Gathers
    <3> QED
      BY <1>1, <2>2, <3>1, GatheredFacts DEF Empty
  <2>3. CASE c.text = <<>> /\ c.thinking # <<>>
    <3>1. c.tool = None
      BY <2>3 DEF Gathers
    <3> QED
      BY <1>1, <2>3, <3>1, GatheredFacts DEF Empty
  <2>4. CASE c.text = <<>> /\ c.thinking = <<>> /\ c.tool # None
    BY <1>1, <2>4, GatheredFacts
  <2> QED
    BY <1>1, <2>1, <2>2, <2>3, <2>4
<1>4. Gathered(u) = PartsOf(u.content)
  BY <1>2, <1>3, GatheredFacts
<1>5. PartsOf(u.content) = made
  BY <1>1 DEF Gathered
<1> HIDE DEF u
<1>6. Gathers(u, "open", made)
  BY <1>1, <1>2, <1>3, <1>4, <1>5 DEF Gathers, Empty
<1> QED
  BY <1>6 DEF u

(* The collector keeps up with the events, one by one.                     *)
LEMMA EventGathers ==
  ASSUME NEW c, NEW p, NEW made, Gathers(c, p, made), NEW e \in Events, Proper(p, e)
  PROVE  /\ Gathers(CollectEvent(c, e), PhaseAfter(e), made \o Made(e))
         /\ e.type = "message_delta" => CollectEvent(c, e).reason = e.block
         /\ e.type = "message_stop" => CollectEvent(c, e).reason = c.reason
<1>1. /\ c \in Collectors /\ Gathered(c) = made /\ made \o <<>> = made
      /\ e.type \in Types /\ e.block \in Kinds \cup Reasons \cup {"none"}
  BY GathersTyped, EventTyped DEF Gathers
<1>2. ~c.over
  BY <1>1 DEF Gathers, Proper, Types, Kinds
<1>3. CASE e.type = "message_start"
  <2>1. CollectEvent(c, e) = c /\ p = "before" /\ Made(e) = <<>> /\ PhaseAfter(e) = "open"
    BY <1>2, <1>3, EventTyped DEF CollectEvent, Proper
  <2> QED
    BY <1>1, <1>3, <2>1 DEF Gathers
<1>4. CASE e.type = "content_block_start"
  <2>1. CollectEvent(c, e) = CollectStart(c, e) /\ PhaseAfter(e) = e.block
    BY <1>2, <1>4, EventTyped DEF CollectEvent
  <2> QED
    BY <1>4, <2>1, StartGathers DEF Proper
<1>5. CASE e.type = "content_block_delta"
  <2>1. CollectEvent(c, e) = CollectDelta(c, e)
    BY <1>2, <1>5 DEF CollectEvent
  <2> QED
    BY <1>5, <2>1, DeltaGathers DEF Proper
<1>6. CASE e.type = "content_block_stop"
  <2>1. CollectEvent(c, e) = CollectStop(c) /\ PhaseAfter(e) = "open" /\ Made(e) = <<>>
    BY <1>2, <1>6, EventTyped DEF CollectEvent, Proper
  <2> QED
    BY <1>1, <1>6, <2>1, StopGathers DEF Proper
<1>7. CASE e.type = "message_delta"
  <2> DEFINE u == [c EXCEPT !.reason = e.block]
  <2>1. CollectEvent(c, e) = u /\ PhaseAfter(e) = "closing" /\ Made(e) = <<>>
        /\ p \in {"open", "before"}
    BY <1>2, <1>7, EventTyped DEF CollectEvent, Proper
  <2>2. Empty(c) /\ made = PartsOf(c.content)
    BY <2>1, GathersNothing DEF Kinds
  <2>3. u \in Collectors /\ u.text = c.text /\ u.thinking = c.thinking /\ u.tool = c.tool
        /\ u.content = c.content /\ u.over = c.over /\ u.reason = e.block
    BY <1>1 DEF Collectors
  <2> HIDE DEF u
  <2>4. Empty(u) /\ Gathered(u) = made
    BY <2>2, <2>3, GatheredFacts, ZenonT(60) DEF Empty
  <2> QED
    BY <1>1, <1>2, <1>7, <2>1, <2>3, <2>4 DEF Gathers, Empty
<1>8. CASE e.type = "message_stop"
  <2> DEFINE u == [c EXCEPT !.over = TRUE]
  <2>1. CollectEvent(c, e) = u /\ PhaseAfter(e) = "over" /\ Made(e) = <<>> /\ p = "closing"
    BY <1>2, <1>8, EventTyped DEF CollectEvent, Proper
  <2>2. Empty(c) /\ made = PartsOf(c.content)
    BY <2>1, GathersNothing DEF Kinds
  <2>3. u \in Collectors /\ u.text = c.text /\ u.thinking = c.thinking /\ u.tool = c.tool
        /\ u.content = c.content /\ u.over = TRUE /\ u.reason = c.reason
    BY <1>1 DEF Collectors
  <2> HIDE DEF u
  <2>4. Empty(u) /\ Gathered(u) = made
    BY <2>2, <2>3, GatheredFacts DEF Empty
  <2> QED
    BY <1>1, <1>8, <2>1, <2>3, <2>4 DEF Gathers, Empty
<1> QED
  BY <1>1, <1>3, <1>4, <1>5, <1>6, <1>7, <1>8 DEF Types

(* The collector reads the events one after the other.                     *)
CollectedBy(read, events) ==
    /\ CollectClaudeSSEToJSON(events) = read[Len(events)]
    /\ read[0] = Collecting
    /\ \A i \in 1..Len(events) : read[i] = CollectEvent(read[i - 1], events[i])

LEMMA EventsAreCollected ==
  ASSUME NEW events \in Seq(Events)
  PROVE  \E read : CollectedBy(read, events)
<1> DEFINE D(f, n) == [k \in 0..n |-> IF k = 0 THEN Collecting ELSE CollectEvent(f[k - 1], events[k])]
           P(n) == \E f : f = D(f, n)
           S == {n \in Nat : P(n)}
<1>1. 0 \in S
  <2> DEFINE g == [k \in 0..0 |-> Collecting]
  <2>1. g = D(g, 0)
    OBVIOUS
  <2> QED
    BY <2>1
<1>2. ASSUME NEW n \in Nat, n \in S PROVE n + 1 \in S
  <2>1. PICK f : f = D(f, n)
    BY <1>2
  <2> DEFINE g == [k \in 0..n + 1 |-> IF k <= n THEN f[k] ELSE CollectEvent(f[n], events[k])]
  <2>2. ASSUME NEW k \in 0..n
        PROVE  f[k] = IF k = 0 THEN Collecting ELSE CollectEvent(f[k - 1], events[k])
    BY <2>1, <1>2
  <2>3. ASSUME NEW k \in 0..n + 1
        PROVE  g[k] = IF k = 0 THEN Collecting ELSE CollectEvent(g[k - 1], events[k])
    <3>1. CASE k <= n
      <4>1. g[k] = f[k] /\ f[k] = IF k = 0 THEN Collecting ELSE CollectEvent(f[k - 1], events[k])
        BY <2>2, <3>1
      <4>2. k # 0 => k - 1 \in 0..n /\ g[k - 1] = f[k - 1]
        BY <3>1
      <4> QED
        BY <4>1, <4>2
    <3>2. CASE k = n + 1
      <4>1. k - 1 = n /\ g[n] = f[n] /\ k # 0 /\ g[k] = CollectEvent(f[n], events[k])
        BY <3>2, <1>2
      <4> QED
        BY <4>1
    <3> QED
      BY <3>1, <3>2
  <2>4. g = D(g, n + 1)
    BY <2>3
  <2> HIDE DEF g
  <2>5. P(n + 1)
    BY <2>4
  <2> HIDE DEF P
  <2> QED
    BY <2>5, <1>2
<1>3. Nat \subseteq S
  <2> HIDE DEF S
  <2> QED
    BY <1>1, <1>2, SetInduction
<1>9. Len(events) \in Nat
  OBVIOUS
<1>4. \E f : f = D(f, Len(events))
  BY <1>3, <1>9
<1> DEFINE read == CHOOSE f : f = D(f, Len(events))
<1>5. read = D(read, Len(events))
  BY <1>4
<1>6. CollectClaudeSSEToJSON(events) = read[Len(events)]
  BY DEF CollectClaudeSSEToJSON
<1> HIDE DEF read
<1>7. read[0] = Collecting
  BY <1>5, <1>9
<1>8. ASSUME NEW k \in 1..Len(events)
      PROVE  read[k] = CollectEvent(read[k - 1], events[k])
  BY <1>5, <1>9
<1> QED
  BY <1>6, <1>7, <1>8 DEF CollectedBy

LEMMA NothingGathered == Gathers(Collecting, "before", <<>>)
<1>1. Collecting \in Collectors /\ Empty(Collecting) /\ Collecting.content = <<>>
      /\ Collecting.over = FALSE
  BY DEF Collecting, Collectors, Empty, Reasons, None
<1> DEFINE b == Block("text", <<>>, None)
<1>2. b \in Blocks /\ <<>> \in Seq(Blocks)
  <2>1. "text" \in Kinds /\ <<>> \in Seq(Nat) /\ None \in Nat
    BY DEF Kinds, None
  <2> DEFINE d == <<>>
  <2>2. d \in Seq(Nat)
    BY <2>1
  <2> HIDE DEF d
  <2>3. Block("text", d, None) \in Blocks
    BY <2>1, <2>2, BlockTyped
  <2> QED
    BY <2>3 DEF d
<1> HIDE DEF b
<1>3. PartsOf(<<>>) = <<>>
  BY ONLY <1>2, PartsOfOne
<1>4. Gathered(Collecting) = <<>>
  BY <1>1, <1>3, GatheredFacts
<1> QED
  BY <1>1, <1>4 DEF Gathers, Empty

(* The collector has what the events of a message made, and its reason is  *)
(* the one the message ended with.                                         *)
LEMMA CollectorGathers ==
  ASSUME NEW out \in Seq(Events), Chained(out)
  PROVE  /\ Gathers(CollectClaudeSSEToJSON(out), PhaseAt(out, Len(out)), PartsMade(out))
         /\ (Len(out) >= 2 /\ out[Len(out)].type = "message_stop"
             /\ out[Len(out) - 1].type = "message_delta") =>
                CollectClaudeSSEToJSON(out).reason = out[Len(out) - 1].block
<1> DEFINE n == Len(out)
<1>1. n \in Nat
  OBVIOUS
<1>2. PICK read : CollectedBy(read, out)
  BY EventsAreCollected
<1> DEFINE so(m) == SubSeq(out, 1, m)
           L(m) == /\ Gathers(read[m], PhaseAt(out, m), PartsMade(so(m)))
                   /\ m >= 1 /\ out[m].type = "message_delta" => read[m].reason = out[m].block
                   /\ m >= 1 /\ out[m].type = "message_stop" => read[m].reason = read[m - 1].reason
           S == {m \in Nat : m <= n => L(m)}
<1>3. 0 \in S
  <2>1. SubSeq(out, 1, 0) = <<>>
    OBVIOUS
  <2>2. PartsMade(<<>>) = <<>>
    <3>1. MessageStart \in Events
      BY EventFacts DEF Kinds
    <3> QED
      BY <3>1, PartsMadeOne
  <2>3. PhaseAt(out, 0) = "before"
    BY DEF PhaseAt
  <2>4. Gathers(read[0], PhaseAt(out, 0), PartsMade(so(0)))
    BY <1>2, <2>1, <2>2, <2>3, NothingGathered DEF CollectedBy
  <2> QED
    BY <2>4
<1>4. ASSUME NEW m \in Nat, m \in S PROVE m + 1 \in S
  <2>1. SUFFICES ASSUME m + 1 <= n PROVE L(m + 1)
    OBVIOUS
  <2> DEFINE e == out[m + 1]
             c == read[m]
             p == PhaseAt(out, m)
             made == PartsMade(so(m))
  <2>2. m + 1 \in 1..n /\ (m + 1) - 1 = m /\ m <= n
    BY <2>1, <1>1
  <2>3. e \in Events /\ read[m + 1] = CollectEvent(c, e) /\ Proper(p, e)
        /\ PhaseAt(out, m + 1) = PhaseAfter(e)
    BY <1>2, <2>2 DEF CollectedBy, Chained, PhaseAt
  <2>4. Gathers(c, p, made)
    BY <1>4, <2>2
  <2>5. so(m + 1) = Append(so(m), e) /\ so(m) \in Seq(Events)
    BY <1>1, <2>2
  <2>6. PartsMade(so(m + 1)) = made \o Made(e)
    <3> DEFINE a == so(m)
    <3>1. a \in Seq(Events) /\ so(m + 1) = Append(a, e)
      BY <2>5
    <3> HIDE DEF a, so, e
    <3> QED
      BY <2>3, <3>1, PartsMadeOne DEF a
  <2> HIDE DEF e, c, p, made, so
  <2>7. /\ Gathers(CollectEvent(c, e), PhaseAfter(e), made \o Made(e))
        /\ e.type = "message_delta" => CollectEvent(c, e).reason = e.block
        /\ e.type = "message_stop" => CollectEvent(c, e).reason = c.reason
    BY <2>3, <2>4, EventGathers
  <2>8. read[(m + 1) - 1] = c
    BY <2>2 DEF c
  <2> QED
    BY <2>3, <2>6, <2>7, <2>8 DEF e
<1>5. Nat \subseteq S
  <2> HIDE DEF S
  <2> QED
    BY <1>3, <1>4, SetInduction
<1>6. L(n)
  BY <1>1, <1>5
<1>7. so(n) = out
  OBVIOUS
<1>8. ASSUME n >= 2, out[n].type = "message_stop", out[n - 1].type = "message_delta"
      PROVE  read[n].reason = out[n - 1].block
  <2>1. n - 1 \in Nat /\ n - 1 >= 1 /\ n - 1 <= n
    BY <1>1, <1>8
  <2>2. L(n - 1)
    BY <1>5, <2>1
  <2> QED
    BY <1>6, <1>8, <2>1, <2>2
<1> QED
  BY <1>2, <1>6, <1>7, <1>8 DEF CollectedBy

-------------------------------------------------------------------------------
(* Nothing but a call makes the translator remember one.                   *)
Knows(t, b) == "usedTool" \in DOMAIN t /\ (t.usedTool <=> b)

LEMMA EmitKnows ==
  ASSUME NEW t, NEW b, Knows(t, b), NEW events
  PROVE  Knows(Emit(t, events), b)
BY DEF Emit, Knows

LEMMA MemoryKnows ==
  ASSUME NEW t, NEW b, Knows(t, b), NEW x, NEW y, NEW z
  PROVE  /\ Knows([t EXCEPT !.pending = x], b)
         /\ Knows([t EXCEPT !.trailing = x], b)
         /\ Knows([t EXCEPT !.grounding = x], b)
         /\ Knows([t EXCEPT !.block = x], b)
         /\ Knows([t EXCEPT !.index = x], b)
         /\ Knows([t EXCEPT !.started = x], b)
         /\ Knows([t EXCEPT !.stopped = x], b)
         /\ Knows([t EXCEPT !.index = x, !.block = y, !.pending = z], b)
         /\ Knows([t EXCEPT !.usedTool = TRUE], TRUE)
BY DEF Knows

LEMMA EndBlockKnows ==
  ASSUME NEW t, NEW b, Knows(t, b)
  PROVE  Knows(EndBlock(t), b)
BY EmitKnows, MemoryKnows DEF EndBlock

LEMMA StartBlockKnows ==
  ASSUME NEW t, NEW b, Knows(t, b), NEW kind, NEW d, NEW g
  PROVE  Knows(StartBlock(t, kind, d, g), b) /\ Knows(Within(t, kind), b)
<1>1. ASSUME NEW x, NEW y PROVE Knows(StartBlock(t, kind, x, y), b)
  BY EndBlockKnows, EmitKnows, MemoryKnows, ZenonT(60) DEF StartBlock
<1> QED
  BY <1>1 DEF Within

LEMMA WholeKnows ==
  ASSUME NEW t, NEW b, Knows(t, b), NEW kind, NEW deltas, NEW g
  PROVE  Knows(Whole(t, kind, deltas), b) /\ Knows(EmptyThinking(t, g), b)
<1>1. ASSUME NEW k, NEW ds PROVE Knows(Whole(t, k, ds), b)
  BY EmitKnows, MemoryKnows DEF Whole
<1> QED
  BY <1>1 DEF EmptyThinking

LEMMA FlushTrailingKnows ==
  ASSUME NEW t, NEW b, Knows(t, b)
  PROVE  Knows(FlushTrailing(t), b)
<1>1. Knows(EmptyThinking(EndBlock(t), t.trailing), b)
  BY EndBlockKnows, WholeKnows
<1> QED
  BY <1>1, MemoryKnows DEF FlushTrailing

LEMMA ProcessTextKnows ==
  ASSUME NEW t, NEW b, Knows(t, b), NEW text, NEW sig
  PROVE  Knows(ProcessText(t, text, sig), b)
<1> DEFINE v == FlushTrailing(t)
           w == StartBlock(v, "text", None, None)
<1>1. Knows(v, b)
  BY FlushTrailingKnows
<1>2. Knows(EmitDelta(Within(v, "text"), text), b)
  BY <1>1, StartBlockKnows, EmitKnows DEF EmitDelta
<1>3. Knows(w, b)
  BY <1>1, StartBlockKnows
<1> HIDE DEF w
<1>4. Knows(EndBlock(EmitDelta(w, text)), b)
  BY <1>3, EmitKnows, EndBlockKnows DEF EmitDelta
<1>5. Knows(EmptyThinking(EndBlock(EmitDelta(w, text)), sig), b)
  BY <1>4, WholeKnows
<1> QED
  BY <1>2, <1>5, MemoryKnows DEF ProcessText, w

LEMMA ProcessPartKnows ==
  ASSUME NEW t, NEW b, Knows(t, b), NEW part
  PROVE  Knows(ProcessPart(t, part), b \/ BlockOf(part.kind) = "tool_use")
<1>1. CASE part.kind \in {"call", "bare"}
  <2> DEFINE v == [FlushTrailing(t) EXCEPT !.usedTool = TRUE]
             u == StartBlock(v, "tool_use", part.text, part.sig)
  <2>1. Knows(v, TRUE)
    BY FlushTrailingKnows, MemoryKnows
  <2> HIDE DEF v
  <2>2. Knows(u, TRUE)
    BY <2>1, StartBlockKnows
  <2> HIDE DEF u
  <2>3. Knows(EndBlock(u), TRUE) /\ Knows(EndBlock(EmitDelta(u, part.text)), TRUE)
    BY <2>2, EmitKnows, EndBlockKnows DEF EmitDelta
  <2>4. Knows(ProcessFunctionCall(t, part), TRUE)
    BY <2>3 DEF ProcessFunctionCall, u, v
  <2>5. BlockOf(part.kind) = "tool_use" /\ ProcessPart(t, part) = ProcessFunctionCall(t, part)
    BY <1>1 DEF BlockOf, ProcessPart
  <2> QED
    BY <2>4, <2>5
<1>2. CASE part.kind = "thought" /\ (part.text # None \/ part.sig # None)
  <2> DEFINE v == Within(FlushTrailing(t), "thinking")
             u == IF part.text = None THEN v ELSE EmitDelta(v, part.text)
  <2>1. Knows(v, b)
    BY FlushTrailingKnows, StartBlockKnows
  <2> HIDE DEF v
  <2>2. Knows(u, b)
    BY <2>1, EmitKnows DEF EmitDelta
  <2> HIDE DEF u
  <2>3. Knows(IF part.sig = None THEN u ELSE [u EXCEPT !.pending = part.sig], b)
    BY <2>2, MemoryKnows
  <2>4. ProcessPart(t, part) = IF part.sig = None THEN u ELSE [u EXCEPT !.pending = part.sig]
    BY <1>2 DEF ProcessPart, ProcessThinking, u, v
  <2>5. BlockOf(part.kind) # "tool_use"
    BY <1>2 DEF BlockOf
  <2>6. b <=> (b \/ BlockOf(part.kind) = "tool_use")
    BY <2>5
  <2>7. Knows(ProcessPart(t, part), b)
    BY <2>3, <2>4
  <2> QED
    BY <2>6, <2>7 DEF Knows
<1>3. CASE part.kind \notin {"call", "bare", "thought"}
          /\ (part.text # None \/ part.sig # None)
  <2>1. BlockOf(part.kind) # "tool_use"
    BY <1>3 DEF BlockOf
  <2>2. \/ ProcessPart(t, part) = ProcessText(t, None, part.sig)
        \/ ProcessPart(t, part) = ProcessText(t, part.text, part.sig)
    BY <1>3 DEF ProcessPart
  <2>3. b <=> (b \/ BlockOf(part.kind) = "tool_use")
    BY <2>1
  <2>4. Knows(ProcessPart(t, part), b)
    BY <2>2, ProcessTextKnows
  <2> QED
    BY <2>3, <2>4 DEF Knows
<1>4. CASE part.kind \notin {"call", "bare"} /\ part.text = None /\ part.sig = None
  <2>1. BlockOf(part.kind) # "tool_use" /\ ProcessPart(t, part) = t
    BY <1>4 DEF BlockOf, ProcessPart
  <2> QED
    BY <2>1 DEF Knows
<1> QED
  BY <1>1, <1>2, <1>3, <1>4

(* What a line's parts use.                                                *)
LEMMA ProcessPartsKnows ==
  ASSUME NEW t, NEW b, Knows(t, b), NEW parts \in Seq(GeminiParts)
  PROVE  Knows(ProcessParts(t, parts), b \/ UsesTool(parts))
<1>1. Len(parts) \in Nat
  OBVIOUS
<1>2. PICK read : ReadBy(read, t, parts)
  BY PartsAreRead
<1> DEFINE n == Len(parts)
           Used(m) == \E j \in 1..m : BlockOf(parts[j].kind) = "tool_use"
           S == {m \in Nat : m <= n => Knows(read[m], b \/ Used(m))}
<1>3. 0 \in S
  <2>1. read[0] = t
    BY <1>2 DEF ReadBy
  <2>2. b <=> (b \/ Used(0))
    OBVIOUS
  <2>3. Knows(read[0], b \/ Used(0))
    BY <2>1, <2>2 DEF Knows
  <2> QED
    BY <2>3
<1>4. ASSUME NEW m \in Nat, m \in S PROVE m + 1 \in S
  <2>1. SUFFICES ASSUME m + 1 <= n PROVE Knows(read[m + 1], b \/ Used(m + 1))
    OBVIOUS
  <2>2. m + 1 \in 1..n /\ (m + 1) - 1 = m /\ m <= n
    BY <2>1, <1>1
  <2>3. read[m + 1] = ProcessPart(read[m], parts[m + 1])
    BY <1>2, <2>2 DEF ReadBy
  <2>4. Knows(read[m], b \/ Used(m))
    BY <1>4, <2>2
  <2>5. Used(m + 1) <=> Used(m) \/ BlockOf(parts[m + 1].kind) = "tool_use"
    <3>1. 1..m + 1 = (1..m) \cup {m + 1}
      OBVIOUS
    <3> QED
      BY <3>1
  <2> HIDE DEF Used
  <2>6. Knows(read[m + 1], (b \/ Used(m)) \/ BlockOf(parts[m + 1].kind) = "tool_use")
    BY <2>3, <2>4, ProcessPartKnows
  <2> QED
    BY <2>5, <2>6 DEF Knows
<1>5. Nat \subseteq S
  <2> HIDE DEF S
  <2> QED
    BY <1>3, <1>4, SetInduction
<1> QED
  BY <1>1, <1>2, <1>5 DEF ReadBy, UsesTool

(* The reason a message ends with.                                         *)
ReasonOf(used, fin) ==
    IF used THEN "tool_use" ELSE IF fin = "MAX_TOKENS" THEN "max_tokens" ELSE "end_turn"

(* A message that ends with a reason and the stop.                         *)
Ends(out, reason) ==
    /\ Len(out) >= 2
    /\ out[Len(out)].type = "message_stop"
    /\ out[Len(out) - 1].type = "message_delta"
    /\ out[Len(out) - 1].block = reason

LEMMA EmptiedKnows ==
  ASSUME NEW t, NEW b, Knows(t, b)
  PROVE  Knows(Emptied(t), b)
<1> DEFINE ended == EndBlock(t)
           x == EmptyThinking(ended, ended.trailing)
           signed == IF ended.trailing = None THEN ended ELSE [x EXCEPT !.trailing = None]
           y == Whole(signed, "text", <<Delta(signed.index, "text", signed.grounding.query),
                                   Delta(signed.index, "text", signed.grounding.links)>>)
<1>1. Knows(ended, b)
  BY EndBlockKnows
<1> HIDE DEF ended
<1>2. Knows(x, b)
  BY <1>1, WholeKnows
<1> HIDE DEF x
<1>3. Knows(signed, b)
  BY <1>1, <1>2, MemoryKnows
<1> HIDE DEF signed
<1>4. Knows(y, b)
  BY <1>3, WholeKnows
<1> HIDE DEF y
<1>5. Knows(IF signed.grounding = Unsought THEN signed
            ELSE [y EXCEPT !.grounding = Unsought], b)
  BY <1>3, <1>4, MemoryKnows
<1> QED
  BY <1>5 DEF Emptied, EmitGrounding, y, signed, x, ended

(* A finish ends the message with its reason.                              *)
LEMMA FinishEnds ==
  ASSUME NEW base, NEW t, Fits(base, t), ~t.stopped, NEW fin, NEW b, Knows(t, b)
  PROVE  /\ Ends(EmitFinish(t, fin).out, ReasonOf(b, fin))
         /\ EmitFinish(t, fin).stopped
<1> DEFINE u == Emptied(t)
           reason == StopReason(u, fin)
           m == MessageDelta(u.index, reason)
           e == MessageStop(u.index)
           v == Emit(u, <<m>> \o <<e>>)
<1>1. EmitFinish(t, fin) = Over(v)
  BY FinishCloses
<1>2. reason \in Reasons /\ Fits(base, u) /\ ~u.stopped
  <2>1. Fits(base, u) /\ u.stopped = t.stopped
    BY EmptiedFits, StoppedAsBefore DEF Going, Fits
  <2> QED
    BY <2>1 DEF StopReason, Reasons
<1>3. Knows(u, b)
  BY EmptiedKnows
<1> HIDE DEF u
<1>4. reason = ReasonOf(b, fin)
  BY <1>3 DEF StopReason, ReasonOf, Knows
<1> HIDE DEF reason
<1>5. /\ m \in Events /\ m.type = "message_delta" /\ m.block = reason
      /\ e \in Events /\ e.type = "message_stop"
  <2>1. u.index \in Nat
    BY <1>2 DEF Fits, States
  <2>2. m \in Events /\ e \in Events
    <3>1. "text" \in Kinds /\ 0 \in Nat
      BY DEF Kinds
    <3> QED
      BY <1>2, <2>1, <3>1, ReasonFacts, EventFacts
  <2> QED
    BY <2>2 DEF MessageDelta, MessageStop, Event
<1> HIDE DEF m, e
<1>6. <<m>> \o <<e>> \in Seq(Events) /\ Len(<<m>> \o <<e>>) = 2
      /\ (<<m>> \o <<e>>)[1] = m /\ (<<m>> \o <<e>>)[2] = e
  BY <1>5, OneAndTwo
<1> DEFINE closing == <<m>> \o <<e>>
<1>7. u.out \in Seq(Events) /\ u \in States
  BY <1>2 DEF Fits, States
<1>8. closing \in Seq(Events) /\ Len(closing) = 2 /\ closing[1] = m /\ closing[2] = e
      /\ v = Emit(u, closing)
  BY <1>6
<1> HIDE DEF closing, v
<1>9. v \in States /\ v.out = u.out \o closing
  BY <1>7, <1>8, EmitTyped
<1>10. Over(v).out = u.out \o closing /\ Over(v).stopped
  BY <1>9, OverTyped
<1> DEFINE q == u.out
           o == q \o closing
<1>11. Len(o) = Len(q) + 2 /\ o[Len(q) + 1] = m /\ o[Len(q) + 2] = e
  <2>1. q \in Seq(Events) /\ closing \in Seq(Events)
    BY <1>7, <1>8
  <2>2. Len(closing) = 2 /\ closing[1] = m /\ closing[2] = e
    BY <1>8
  <2> HIDE DEF q
  <2>3. Len(o) = Len(q) + Len(closing) /\ \A j \in 1..Len(closing) : o[Len(q) + j] = closing[j]
    BY <2>1, ConcatProperties
  <2> HIDE DEF o
  <2>4. 1 \in 1..Len(closing) /\ 2 \in 1..Len(closing)
    BY <2>2
  <2> QED
    BY <2>2, <2>3, <2>4
<1>12. Len(u.out) \in Nat /\ (Len(u.out) + 2) - 1 = Len(u.out) + 1
  BY <1>7
<1>13. EmitFinish(t, fin).out = o /\ EmitFinish(t, fin).stopped
  BY <1>1, <1>10
<1>14. Len(o) >= 2 /\ o[Len(o)] = e /\ o[Len(o) - 1] = m
  <2>1. Len(o) = Len(q) + 2 /\ Len(q) \in Nat /\ o[Len(q) + 1] = m /\ o[Len(q) + 2] = e
    BY <1>11, <1>12
  <2> HIDE DEF o, q
  <2>2. Len(o) >= 2 /\ Len(o) - 1 = Len(q) + 1
    BY <2>1
  <2> QED
    BY <2>1, <2>2
<1> HIDE DEF o
<1> QED
  BY <1>4, <1>5, <1>13, <1>14 DEF Ends

LEMMA FinishStops ==
  ASSUME NEW base, NEW t, Fits(base, t), ~t.stopped, NEW fin
  PROVE  EmitFinish(t, fin).stopped
<1> DEFINE b == t.usedTool
<1>1. Knows(t, b)
  BY DEF Knows, Fits, States
<1> HIDE DEF b
<1> QED
  BY <1>1, FinishEnds

LEMMA UsesMore ==
  ASSUME NEW q \in Seq(GeminiParts), NEW parts \in Seq(GeminiParts)
  PROVE  UsesTool(q \o parts) <=> UsesTool(q) \/ UsesTool(parts)
<1> DEFINE o == q \o parts
           n == Len(q)
           l == Len(parts)
<1>1. n \in Nat /\ l \in Nat /\ Len(o) = n + l /\ (\A j \in 1..n : o[j] = q[j])
      /\ \A j \in 1..l : o[n + j] = parts[j]
  BY ConcatProperties
<1> HIDE DEF o
<1>2. ASSUME UsesTool(o) PROVE UsesTool(q) \/ UsesTool(parts)
  <2>1. PICK j \in 1..n + l : BlockOf(o[j].kind) = "tool_use"
    BY <1>1, <1>2 DEF UsesTool
  <2>2. CASE j \in 1..n
    BY <1>1, <2>1, <2>2 DEF UsesTool
  <2>3. CASE j \notin 1..n
    <3> DEFINE i == j - n
    <3>1. i \in 1..l /\ n + i = j
      BY <1>1, <2>3
    <3>2. o[j] = parts[i]
      BY <1>1, <3>1
    <3> QED
      BY <2>1, <3>1, <3>2 DEF UsesTool
  <2> QED
    BY <2>2, <2>3
<1>3. ASSUME UsesTool(q) PROVE UsesTool(o)
  <2>1. PICK j \in 1..n : BlockOf(q[j].kind) = "tool_use"
    BY <1>3 DEF UsesTool
  <2>2. j \in 1..Len(o) /\ o[j] = q[j]
    BY <1>1
  <2> QED
    BY <2>1, <2>2 DEF UsesTool
<1>4. ASSUME UsesTool(parts) PROVE UsesTool(o)
  <2>1. PICK j \in 1..l : BlockOf(parts[j].kind) = "tool_use"
    BY <1>4 DEF UsesTool
  <2>2. n + j \in 1..Len(o) /\ o[n + j] = parts[j]
    BY <1>1
  <2> QED
    BY <2>1, <2>2 DEF UsesTool
<1> QED
  BY <1>2, <1>3, <1>4 DEF o

(* A text that was cut out of a line uses no tool.                         *)
LEMMA CutUsesNone ==
  ASSUME NEW q \in Seq(GeminiParts), NEW x \in Nat
  PROVE  UsesTool(Append(q, Cut(x))) <=> UsesTool(q)
<1> DEFINE p == Cut(x)
<1>1. p \in GeminiParts /\ p.kind = "text"
  BY DEF Cut, GeminiParts, PartKinds, None
<1>2. BlockOf(p.kind) # "tool_use"
  BY <1>1 DEF BlockOf
<1> HIDE DEF p
<1>3. Append(q, p) = q \o <<p>> /\ <<p>> \in Seq(GeminiParts) /\ Len(<<p>>) = 1 /\ <<p>>[1] = p
  BY <1>1, AppendIsConcat, OneAndTwo
<1>4. ~UsesTool(<<p>>)
  <2>1. \A j \in 1..Len(<<p>>) : <<p>>[j] = p
    BY <1>3
  <2> QED
    BY <1>2, <2>1 DEF UsesTool
<1> DEFINE l == <<p>>
<1>5. l \in Seq(GeminiParts) /\ ~UsesTool(l) /\ Append(q, p) = q \o l
  BY <1>3, <1>4
<1> HIDE DEF l
<1>6. UsesTool(q \o l) <=> UsesTool(q)
  BY <1>5, UsesMore
<1> QED
  BY <1>5, <1>6 DEF p

(* What a translator's state says of the reason: before the stop, whether a *)
(* tool was used, and after it the reason itself.                          *)
Reasoned(t, used, fin) ==
    IF t.stopped THEN Ends(t.out, ReasonOf(used, fin)) ELSE Knows(t, used) /\ fin = ""

LEMMA NoneUsed == <<>> \in Seq(GeminiParts) /\ ~UsesTool(<<>>)
<1>1. Len(<<>>) = 0
  OBVIOUS
<1>2. <<>> \in Seq(GeminiParts)
  OBVIOUS
<1> QED
  BY <1>1, <1>2 DEF UsesTool

LEMMA BegunKnows ==
  ASSUME NEW t, NEW b, Knows(t, b)
  PROVE  Knows(EmitMessageStart(t), b)
BY EmitKnows, MemoryKnows DEF EmitMessageStart

LEMMA ProcessChunkReasons ==
  ASSUME NEW base, NEW t, Fits(base, t), ~t.stopped, ~base.wild,
         NEW q \in Seq(GeminiParts),
         Knows(t, UsesTool(q)), NEW line,
         line.parts \in Seq(GeminiParts), line.grounding \in Findings
  PROVE  Reasoned(ProcessChunk(t, line), UsesTool(q \o line.parts), line.finish)
<1> DEFINE begun == EmitMessageStart(t)
           read == ProcessParts(begun, line.parts)
           h == Captured(read.grounding, line.grounding)
           captured == Grounded(read, h)
           c == UsesTool(q \o line.parts)
<1>1. ProcessChunk(t, line) = IF line.finish = "" THEN captured
                              ELSE EmitFinish(captured, line.finish)
  BY DEF ProcessChunk, Grounded
<1>2. Inside(base, begun) /\ Knows(begun, UsesTool(q))
  BY EmitMessageStartFits, BegunKnows DEF Going
<1> HIDE DEF begun
<1>3. Inside(base, read)
  BY <1>2, ProcessPartsFits
<1>7. Knows(read, c)
  <2>1. Knows(read, UsesTool(q) \/ UsesTool(line.parts))
    BY <1>2, ProcessPartsKnows
  <2>2. c <=> UsesTool(q) \/ UsesTool(line.parts)
    BY UsesMore
  <2> HIDE DEF read, c
  <2> QED
    BY <2>1, <2>2 DEF Knows
<1> HIDE DEF read, c
<1>4. Inside(base, captured)
  <2>1. h \in Searches
    BY <1>3, InsideFacts, CapturedTyped
  <2> HIDE DEF h
  <2> QED
    BY <1>3, <2>1, GroundedFits
<1>8. Knows(captured, c)
  BY <1>7, MemoryKnows DEF Grounded
<1> HIDE DEF captured
<1>5. Fits(base, captured) /\ ~captured.stopped
  BY <1>4, InsideFits DEF Going
<1>6. Ends(EmitFinish(captured, line.finish).out, ReasonOf(c, line.finish))
      /\ EmitFinish(captured, line.finish).stopped
  BY <1>5, <1>8, FinishEnds
<1>9. Reasoned(ProcessChunk(t, line), c, line.finish)
  <2>1. CASE line.finish = ""
    BY <1>1, <1>5, <1>8, <2>1 DEF Reasoned
  <2>2. CASE line.finish # ""
    BY <1>1, <1>6, <2>2 DEF Reasoned
  <2> QED
    BY <2>1, <2>2
<1> QED
  BY <1>9 DEF c

LEMMA ProcessLineReasons ==
  ASSUME NEW base, NEW t, Fits(base, t), ~t.stopped, ~base.wild,
         NEW q \in Seq(GeminiParts),
         Knows(t, UsesTool(q)), NEW line, LineTyped(line),
         line.kind # "chunk" => line.parts = <<>> /\ line.finish = ""
  PROVE  Reasoned(ProcessGeminiSSELine(t, line), UsesTool(Heard(q, line)), line.finish)
<1> DEFINE u == ProcessGeminiSSELine(t, line)
           used == UsesTool(q)
<1>1. line.parts \in Seq(GeminiParts) /\ line.grounding \in Findings
      /\ line.text \in Nat /\ line.kind \in LineKinds
  BY DEF LineTyped
<1>2. q \o <<>> = q
  BY ConcatEmptySeq
<1>9. Knows(t, used)
  OBVIOUS
<1>3. CASE line.kind = "chunk"
  <2>1. Reasoned(ProcessChunk(t, line), UsesTool(q \o line.parts), line.finish)
    BY <1>1, ProcessChunkReasons
  <2>2. Heard(q, line) = q \o line.parts
    BY <1>3 DEF Heard, Cuts
  <2> QED
    BY <1>3, <2>1, <2>2 DEF ProcessGeminiSSELine
<1>4. ASSUME line.kind \in {"done", "apierror", "useless"}
      PROVE  Heard(q, line) = q /\ line.finish = ""
  BY <1>2, <1>4 DEF Heard, Cuts
<1>5. CASE line.kind = "done"
  <2>1. u = EmitFinish(t, "")
    BY <1>5 DEF ProcessGeminiSSELine, EmitForceStop
  <2>2. Ends(EmitFinish(t, "").out, ReasonOf(UsesTool(q), "")) /\ EmitFinish(t, "").stopped
    BY FinishEnds
  <2> HIDE DEF u
  <2>3. Reasoned(u, UsesTool(q), "")
    BY <2>1, <2>2 DEF Reasoned
  <2> QED
    BY <1>4, <1>5, <2>3 DEF u
<1>10. <<>> \in Seq(GeminiParts)
  BY NoneUsed
<1>6. CASE line.kind = "apierror"
  <2> DEFINE empty == Chunk(<<>>, NoGrounding, "")
  <2>1. u = ProcessChunk(t, empty)
    BY <1>6 DEF ProcessGeminiSSELine
  <2>2. empty.parts = <<>> /\ empty.grounding \in Findings /\ empty.finish = ""
    BY NoGroundingTyped DEF Chunk
  <2> HIDE DEF u, empty, used
  <2>4. empty.parts \in Seq(GeminiParts) /\ empty.grounding \in Findings /\ q \o empty.parts = q
    BY <1>2, <1>10, <2>2
  <2>5. Reasoned(ProcessChunk(t, empty), UsesTool(q \o empty.parts), empty.finish)
    BY <2>4, ProcessChunkReasons
  <2>6. Reasoned(u, UsesTool(q), "")
    BY <2>1, <2>2, <2>4, <2>5
  <2> QED
    BY <1>4, <1>6, <2>6 DEF u
<1>7. CASE line.kind = "useless"
  <2>1. u = t
    BY <1>7 DEF ProcessGeminiSSELine, HandleParseError
  <2> QED
    BY <1>4, <1>7, <2>1 DEF Reasoned
<1>8. CASE line.kind \in {"error", "partial"}
  <2> DEFINE x == line.text
             begun == EmitMessageStart(t)
  <2>1. u = ProcessText(begun, x, None) /\ Heard(q, line) = Append(q, Cut(x))
        /\ line.finish = "" /\ x \in Nat
    BY <1>1, <1>8 DEF ProcessGeminiSSELine, HandleParseError, Heard, Cuts
  <2>2. Inside(base, begun) /\ Knows(begun, used) /\ None \in Nat
    BY EmitMessageStartFits, BegunKnows DEF Going, None
  <2> HIDE DEF begun, used, u, x
  <2>3. Inside(base, ProcessText(begun, x, None)) /\ Knows(ProcessText(begun, x, None), used)
    BY <2>1, <2>2, ProcessTextFits, ProcessTextKnows
  <2>4. UsesTool(Append(q, Cut(x))) <=> used
    BY <2>1, CutUsesNone DEF used
  <2>6. ~ProcessText(begun, x, None).stopped
    BY <2>3, InsideFits DEF Going
  <2>5. Knows(u, UsesTool(Append(q, Cut(x)))) /\ ~u.stopped
    BY <2>1, <2>3, <2>4, <2>6 DEF Knows
  <2> QED
    BY <2>1, <2>5 DEF Reasoned, u
<1> QED
  BY <1>1, <1>3, <1>5, <1>6, <1>7, <1>8 DEF LineKinds

(* Only a chunk carries a reason.                                          *)
LEMMA LinesFinish ==
  ASSUME received \in Seq(GeminiParts), lines \in Nat, NEW line \in Lines
  PROVE  line.kind # "chunk" => line.finish = ""
BY OtherTyped, ChunkTyped DEF Lines

-------------------------------------------------------------------------------
(* The invariant of the end of a message: its reason, and who ends it.     *)
RInv ==
    /\ orderly => Reasoned(s, UsesTool(received), finish)
    /\ mode = "stream" /\ upstream # "open" => s.stopped
    /\ outcome = "ok" => s.stopped

LEMMA RInitially == Init => RInv
<1> SUFFICES ASSUME Init PROVE RInv
  OBVIOUS
<1>1. s = NewState /\ received = <<>> /\ finish = "" /\ upstream = "open" /\ outcome = "none"
  BY DEF Init
<1>2. ~UsesTool(<<>>)
  BY NoneUsed
<1>3. Knows(s, FALSE) /\ ~s.stopped
  BY <1>1 DEF Knows, NewState
<1>4. Knows(s, UsesTool(received))
  BY <1>1, <1>2, <1>3 DEF Knows
<1> QED
  BY <1>1, <1>3, <1>4 DEF RInv, Reasoned

LEMMA TranslateReasons ==
  ASSUME WInv, RInv, BInv, Translate
  PROVE  orderly' => Reasoned(s', UsesTool(received'), finish')
<1>1. Fits(From(~orderly, <<>>), s) /\ received \in Seq(GeminiParts) /\ lines \in Nat
      /\ orderly \in BOOLEAN
  BY DEF WInv
<1>2. PICK line \in Lines : s' = ProcessGeminiSSELine(s, line) /\ Record(line)
  BY DEF Translate
<1>3. /\ LineTyped(line) /\ LineFits(line)
      /\ line.kind # "chunk" => line.finish = "" /\ line.parts = <<>>
  BY <1>1, LinesTyped, LinesFit, LinesFinish DEF LineFits
<1>4. received' = Heard(received, line) /\ finish' = IF line.finish = "" THEN finish ELSE line.finish
  BY <1>2, RecordFacts DEF Record
<1>7. orderly' = (orderly /\ (s.stopped => line.kind = "done"))
  BY <1>2, ZenonT(60) DEF Record
<1> DEFINE goal == Reasoned(s', UsesTool(received'), finish')
<1>8. SUFFICES ASSUME orderly, s.stopped => line.kind = "done" PROVE goal
  BY <1>7, ZenonT(60)
<1> DEFINE base == From(FALSE, <<>>)
<1>9. Fits(base, s) /\ ~base.wild /\ Reasoned(s, UsesTool(received), finish)
  <2>1. (~orderly) = FALSE
    BY <1>1, <1>8
  <2>2. Fits(base, s)
    BY <1>1, <2>1
  <2> QED
    BY <1>8, <2>2 DEF RInv, From
<1> HIDE DEF base, goal
<1>5. CASE s.stopped
  <2>1. line.kind = "done" /\ line.parts = <<>> /\ line.finish = ""
    BY <1>3, <1>5, <1>8
  <2>2. s' = s
    BY <1>2, <1>5, <2>1 DEF ProcessGeminiSSELine, EmitForceStop
  <2>3. received \o <<>> = received
    BY <1>1, ConcatEmptySeq
  <2>4. received' = received /\ finish' = finish
    BY <1>4, <2>1, <2>3 DEF Heard, Cuts
  <2> QED
    BY <1>9, <2>2, <2>4 DEF goal
<1>6. CASE ~s.stopped
  <2>1. Knows(s, UsesTool(received)) /\ finish = ""
    BY <1>6, <1>9 DEF Reasoned
  <2>2. finish' = line.finish
    BY <1>4, <2>1
  <2>3. Reasoned(ProcessGeminiSSELine(s, line), UsesTool(Heard(received, line)), line.finish)
    BY <1>1, <1>3, <1>6, <1>9, <2>1, ProcessLineReasons
  <2> QED
    BY <1>2, <1>4, <2>2, <2>3 DEF goal
<1> QED
  BY <1>5, <1>6

LEMMA EndReasons ==
  ASSUME WInv, RInv, UNCHANGED upstreamVars, s' = EmitForceStop(s)
  PROVE  (orderly' => Reasoned(s', UsesTool(received'), finish')) /\ s'.stopped
<1>1. /\ orderly => Reasoned(s, UsesTool(received), finish)
      /\ received' = received /\ finish' = finish /\ orderly' = orderly
      /\ orderly \in BOOLEAN
  BY DEF WInv, RInv, upstreamVars
<1> DEFINE wild == ~orderly
           base == From(wild, <<>>)
<1>4. Fits(base, s)
  BY DEF WInv
<1> HIDE DEF base
<1>2. CASE s.stopped
  BY <1>1, <1>2 DEF EmitForceStop
<1>3. CASE ~s.stopped
  <2>1. s' = EmitFinish(s, "")
    BY <1>3 DEF EmitForceStop
  <2>2. s'.stopped
    BY <1>3, <1>4, <2>1, FinishStops
  <2>3. ASSUME orderly PROVE Reasoned(s', UsesTool(received'), finish')
    <3>1. Knows(s, UsesTool(received)) /\ finish = ""
      BY <1>1, <1>3, <2>3 DEF Reasoned
    <3>2. Ends(EmitFinish(s, "").out, ReasonOf(UsesTool(received), ""))
      BY <1>3, <1>4, <3>1, FinishEnds
    <3> QED
      BY <1>1, <2>1, <2>2, <3>1, <3>2 DEF Reasoned
  <2> QED
    BY <1>1, <2>2, <2>3
<1> QED
  BY <1>2, <1>3

LEMMA RStep ==
  ASSUME LInv, BInv, RInv, [Next]_vars
  PROVE  RInv'
<1>0. WInv
  BY DEF LInv
<1>1. CASE ReadLine
  BY <1>0, <1>1, TranslateReasons DEF ReadLine, Reading, RInv
<1>2. CASE CollectLine
  BY <1>0, <1>2, TranslateReasons DEF CollectLine, Reading, RInv
<1>3. CASE StreamEnds
  BY <1>0, <1>3, EndReasons DEF StreamEnds, Reading, RInv
<1>4. CASE CollectEnds
  <2>1. CASE upstream' = "eof"
    BY <1>0, <1>4, <2>1, EndReasons DEF CollectEnds, RInv
  <2>2. CASE upstream' # "eof"
    <3>1. upstream' = "reset" /\ mode = "collect" /\ mode' = mode
          /\ received' = received /\ finish' = finish /\ orderly' = orderly
      BY <1>4, <2>2 DEF CollectEnds, upstreamVars
    <3>2. s' = s
      BY <1>4, <2>2 DEF CollectEnds
    <3>3. outcome' # "ok"
      BY <1>4, <3>1 DEF CollectEnds
    <3> QED
      BY <3>1, <3>2, <3>3 DEF RInv
  <2> QED
    BY <2>1, <2>2
<1>5. ASSUME s' = s, UNCHANGED <<mode, upstream, upstreamVars>>,
             outcome' = "ok" => outcome = "ok" \/ (mode = "stream" /\ upstream # "open")
      PROVE  RInv'
  BY <1>5 DEF RInv, upstreamVars
<1>6. CASE WriteEvent
  BY <1>5, <1>6 DEF WriteEvent
<1>7. CASE SeeClientGone
  BY <1>5, <1>7 DEF SeeClientGone
<1>8. CASE StreamReturns
  BY <1>5, <1>8 DEF StreamReturns
<1>9. CASE ClientLeaves
  BY <1>5, <1>9 DEF ClientLeaves
<1>10. CASE UNCHANGED vars
  BY <1>5, <1>10 DEF vars, upstreamVars
<1> QED
  BY <1>1, <1>2, <1>3, <1>4, <1>6, <1>7, <1>8, <1>9, <1>10 DEF Next, Returned

LEMMA EndInvariant == Spec => [](LInv /\ BInv /\ RInv)
<1>1. LInv /\ BInv /\ RInv /\ [Next]_vars => RInv'
  BY RStep
<1>2. Init => RInv
  BY RInitially
<1> QED
  BY <1>1, <1>2, AccountInvariant, PTL DEF Spec

(* What a message that was ended says, streamed or collected.              *)
LEMMA EndedMessage ==
  ASSUME LInv, RInv, orderly, s.stopped
  PROVE  /\ PartsOf(CollectClaudeSSEToJSON(s.out).content) = PartsMade(s.out)
         /\ CollectClaudeSSEToJSON(s.out).reason = ReasonOf(UsesTool(received), finish)
<1> DEFINE out == s.out
           json == CollectClaudeSSEToJSON(out)
           n == Len(out)
<1>1. out \in Seq(Events) /\ Chained(out)
  <2>1. (~orderly) = FALSE
    OBVIOUS
  <2>2. Fits(From(FALSE, <<>>), s)
    BY <2>1 DEF LInv, WInv
  <2> QED
    BY <2>2 DEF Fits, States, Reads, From
<1>2. Ends(out, ReasonOf(UsesTool(received), finish))
  BY DEF RInv, Reasoned
<1> HIDE DEF out
<1>3. /\ Gathers(json, PhaseAt(out, n), PartsMade(out))
      /\ json.reason = ReasonOf(UsesTool(received), finish)
  BY <1>1, <1>2, CollectorGathers DEF Ends
<1>4. PhaseAt(out, n) = "over"
  BY <1>2 DEF PhaseAt, PhaseAfter, Ends
<1>5. PhaseAt(out, n) \notin Kinds \cup {"signed"}
  BY <1>4 DEF Kinds
<1> HIDE DEF json
<1>6. PartsMade(out) = PartsOf(json.content)
  BY <1>3, <1>5, GathersNothing
<1> QED
  BY <1>3, <1>6 DEF json, out

(* A message that is collected is the one that was streamed.               *)
THEOREM CollectedIsWhole ==
  ASSUME <<"image", FALSE, TRUE>> \notin Shapes
  PROVE  Spec => []CollectedWhole
<1>1. LInv /\ RInv /\ ContentInOrder => CollectedWhole
  <2> SUFFICES ASSUME LInv, RInv, ContentInOrder, outcome = "ok", orderly
               PROVE  LET json == CollectClaudeSSEToJSON(s.out)
                      IN  /\ PartsOf(json.content) = PartsSent \o Sources
                          /\ json.reason = IF SomeToolUsed THEN "tool_use"
                                           ELSE IF finish = "MAX_TOKENS" THEN "max_tokens"
                                           ELSE "end_turn"
    BY DEF CollectedWhole
  <2>1. s.stopped
    BY DEF RInv
  <2>2. PartsMade(s.out) = PartsSent \o Sources
    BY <2>1 DEF ContentInOrder
  <2>3. ReasonOf(UsesTool(received), finish)
          = IF SomeToolUsed THEN "tool_use"
            ELSE IF finish = "MAX_TOKENS" THEN "max_tokens" ELSE "end_turn"
    BY DEF ReasonOf, UsesTool, SomeToolUsed
  <2> QED
    BY <2>1, <2>2, <2>3, EndedMessage
<1> QED
  BY <1>1, ContentIsInOrder, EndInvariant, PTL

-------------------------------------------------------------------------------
(* The response that came whole: its builders, and what they carry.        *)
Wholes == [text : Seq(Nat), thinking : Seq(Nat), sig : Nat, trailing : Nat,
           usedTool : BOOLEAN, content : Seq(Blocks)]

Strand(kind, d) == [k \in 1..Len(d) |-> <<kind, d[k]>>]
Carried(w) == (PartsOf(w.content) \o Strand("thinking", w.thinking)) \o Strand("text", w.text)
Sigs(w) == SignaturesOf(w.content)

(* At most one of the two builders holds something.                        *)
Apart(w) == w \in Wholes /\ (w.text = <<>> \/ (w.thinking = <<>> /\ w.sig = None))

LEMMA StrandFacts ==
  ASSUME NEW kind \in Kinds, NEW d \in Seq(Nat)
  PROVE  /\ Strand(kind, d) \in Seq(Contents)
         /\ d = <<>> => Strand(kind, d) = <<>>
         /\ \A g \in Nat : Pairs(Block(kind, d, g)) = Strand(kind, d)
         /\ \A x \in Nat : Strand(kind, Append(d, x)) = Strand(kind, d) \o <<<<kind, x>>>>
         /\ \A x \in Nat : Strand(kind, <<x>>) = <<<<kind, x>>>>
<1>1. ASSUME NEW e \in Seq(Nat), NEW g \in Nat PROVE Pairs(Block(kind, e, g)) = Strand(kind, e)
  BY DEF Pairs, Block, Strand
<1>2. 0 \in Nat
  OBVIOUS
<1>3. Pairs(Block(kind, d, 0)) \in Seq(Contents) /\ (d = <<>> => Pairs(Block(kind, d, 0)) = <<>>)
  <2>1. Block(kind, d, 0) \in Blocks /\ Block(kind, d, 0).data = d
    BY <1>2, BlockTyped
  <2> DEFINE b == Block(kind, d, 0)
  <2> HIDE DEF b
  <2>2. b \in Blocks /\ b.data = d
    BY <2>1 DEF b
  <2>3. Pairs(b) \in Seq(Contents) /\ (d = <<>> => Pairs(b) = <<>>)
    BY <2>2, PairsTyped
  <2> QED
    BY <2>3 DEF b
<1>4. ASSUME NEW x \in Nat
      PROVE  /\ Strand(kind, Append(d, x)) = Strand(kind, d) \o <<<<kind, x>>>>
             /\ Strand(kind, <<x>>) = <<<<kind, x>>>>
  <2>1. /\ Pairs(Block(kind, Append(d, x), 0)) = Pairs(Block(kind, d, 0)) \o <<<<kind, x>>>>
        /\ Pairs(Block(kind, <<x>>, 0)) = <<<<kind, x>>>>
    BY <1>2, PairsMore
  <2>2. Append(d, x) \in Seq(Nat) /\ <<x>> \in Seq(Nat)
    BY OneAndTwo, AppendProperties
  <2> DEFINE e == Append(d, x)
             f == <<x>>
  <2>3. Pairs(Block(kind, e, 0)) = Strand(kind, e) /\ Pairs(Block(kind, f, 0)) = Strand(kind, f)
        /\ Pairs(Block(kind, d, 0)) = Strand(kind, d)
    BY <1>1, <1>2, <2>2
  <2> QED
    BY <2>1, <2>3
<1>5. Pairs(Block(kind, d, 0)) = Strand(kind, d)
  BY <1>1, <1>2
<1> QED
  BY <1>1, <1>3, <1>4, <1>5

(* The changes a builder makes, one at a time.                             *)
Texted(w, x) == [w EXCEPT !.text = x]
Thinks(w, x, g) == [w EXCEPT !.thinking = x, !.sig = g]
Trails(w, g) == [w EXCEPT !.trailing = g]
Used(w) == [w EXCEPT !.usedTool = TRUE]
More(w, b) == [w EXCEPT !.content = Append(@, b)]

LEMMA TextedFacts ==
  ASSUME NEW w \in Wholes, NEW x \in Seq(Nat)
  PROVE  /\ Texted(w, x) \in Wholes /\ Texted(w, x).text = x
         /\ Texted(w, x).thinking = w.thinking /\ Texted(w, x).sig = w.sig
         /\ Texted(w, x).trailing = w.trailing /\ Texted(w, x).usedTool = w.usedTool
         /\ Texted(w, x).content = w.content
<1>1. Texted(w, x) \in Wholes
  BY DEF Texted, Wholes
<1> QED
  BY <1>1 DEF Texted, Wholes

LEMMA ThinksFacts ==
  ASSUME NEW w \in Wholes, NEW x \in Seq(Nat), NEW g \in Nat
  PROVE  /\ Thinks(w, x, g) \in Wholes /\ Thinks(w, x, g).text = w.text
         /\ Thinks(w, x, g).thinking = x /\ Thinks(w, x, g).sig = g
         /\ Thinks(w, x, g).trailing = w.trailing /\ Thinks(w, x, g).usedTool = w.usedTool
         /\ Thinks(w, x, g).content = w.content
<1>1. Thinks(w, x, g) \in Wholes
  BY DEF Thinks, Wholes
<1> QED
  BY <1>1 DEF Thinks, Wholes

LEMMA TrailsFacts ==
  ASSUME NEW w \in Wholes, NEW g \in Nat
  PROVE  /\ Trails(w, g) \in Wholes /\ Trails(w, g).text = w.text
         /\ Trails(w, g).thinking = w.thinking /\ Trails(w, g).sig = w.sig
         /\ Trails(w, g).trailing = g /\ Trails(w, g).usedTool = w.usedTool
         /\ Trails(w, g).content = w.content
<1>1. Trails(w, g) \in Wholes
  BY DEF Trails, Wholes
<1> QED
  BY <1>1 DEF Trails, Wholes

LEMMA UsedFacts ==
  ASSUME NEW w \in Wholes
  PROVE  /\ Used(w) \in Wholes /\ Used(w).text = w.text
         /\ Used(w).thinking = w.thinking /\ Used(w).sig = w.sig
         /\ Used(w).trailing = w.trailing /\ Used(w).usedTool = TRUE
         /\ Used(w).content = w.content
<1>1. Used(w) \in Wholes
  BY DEF Used, Wholes
<1> QED
  BY <1>1 DEF Used, Wholes

LEMMA MoreFacts ==
  ASSUME NEW w \in Wholes, NEW b \in Blocks
  PROVE  /\ More(w, b) \in Wholes /\ More(w, b).text = w.text
         /\ More(w, b).thinking = w.thinking /\ More(w, b).sig = w.sig
         /\ More(w, b).trailing = w.trailing /\ More(w, b).usedTool = w.usedTool
         /\ PartsOf(More(w, b).content) = PartsOf(w.content) \o Pairs(b)
         /\ Sigs(More(w, b)) = Sigs(w) \o Opt(b.sig)
         /\ PartsOf(w.content) \in Seq(Contents) /\ Sigs(w) \in Seq(Nat)
<1> DEFINE d == Append(w.content, b)
<1>1. w.content \in Seq(Blocks)
  BY DEF Wholes
<1>2. d \in Seq(Blocks)
  BY <1>1
<1>3. /\ PartsOf(d) = PartsOf(w.content) \o Pairs(b) /\ PartsOf(w.content) \in Seq(Contents)
      /\ SignaturesOf(d) = SignaturesOf(w.content) \o Opt(b.sig) /\ SignaturesOf(w.content) \in Seq(Nat)
  BY <1>1, PartsOfOne, SignaturesOfOne
<1>4. More(w, b) = [w EXCEPT !.content = d]
  BY DEF More
<1> HIDE DEF d
<1>5. More(w, b) \in Wholes
  BY <1>2, <1>4 DEF Wholes
<1>6. /\ More(w, b).text = w.text /\ More(w, b).thinking = w.thinking /\ More(w, b).sig = w.sig
      /\ More(w, b).trailing = w.trailing /\ More(w, b).usedTool = w.usedTool
      /\ More(w, b).content = d
  BY <1>4 DEF Wholes
<1> QED
  BY <1>3, <1>5, <1>6 DEF Sigs

LEMMA WholeTyped ==
  ASSUME NEW w \in Wholes
  PROVE  /\ PartsOf(w.content) \in Seq(Contents) /\ Sigs(w) \in Seq(Nat)
         /\ Strand("thinking", w.thinking) \in Seq(Contents)
         /\ Strand("text", w.text) \in Seq(Contents)
         /\ w.thinking = <<>> => Strand("thinking", w.thinking) = <<>>
         /\ w.text = <<>> => Strand("text", w.text) = <<>>
         /\ w.text \in Seq(Nat) /\ w.thinking \in Seq(Nat) /\ w.sig \in Nat /\ w.trailing \in Nat
         /\ w.content \in Seq(Blocks) /\ w.usedTool \in BOOLEAN
<1>1. /\ w.text \in Seq(Nat) /\ w.thinking \in Seq(Nat) /\ w.sig \in Nat /\ w.trailing \in Nat
      /\ w.content \in Seq(Blocks) /\ w.usedTool \in BOOLEAN
  BY DEF Wholes
<1>2. "thinking" \in Kinds /\ "text" \in Kinds
  BY DEF Kinds
<1>3. Strand("thinking", w.thinking) \in Seq(Contents)
      /\ (w.thinking = <<>> => Strand("thinking", w.thinking) = <<>>)
  BY <1>1, <1>2, StrandFacts
<1>4. Strand("text", w.text) \in Seq(Contents)
      /\ (w.text = <<>> => Strand("text", w.text) = <<>>)
  BY <1>1, <1>2, StrandFacts
<1> DEFINE b == Block("text", w.text, 0)
<1>5. b \in Blocks
  BY <1>1, <1>2, BlockTyped
<1>6. PartsOf(w.content) \in Seq(Contents) /\ Sigs(w) \in Seq(Nat)
  <2> HIDE DEF b
  <2> QED
    BY <1>5, MoreFacts
<1> QED
  BY <1>1, <1>3, <1>4, <1>6

(* What is carried when a builder is empty, or both are.                   *)
LEMMA CarriedFacts ==
  ASSUME NEW w \in Wholes
  PROVE  /\ w.text = <<>> => Carried(w) = PartsOf(w.content) \o Strand("thinking", w.thinking)
         /\ w.thinking = <<>> => Carried(w) = PartsOf(w.content) \o Strand("text", w.text)
         /\ w.text = <<>> /\ w.thinking = <<>> => Carried(w) = PartsOf(w.content)
         /\ Carried(w) \in Seq(Contents)
<1> DEFINE p == PartsOf(w.content)
           h == Strand("thinking", w.thinking)
           x == Strand("text", w.text)
<1>1. /\ p \in Seq(Contents) /\ h \in Seq(Contents) /\ x \in Seq(Contents)
      /\ w.thinking = <<>> => h = <<>>
      /\ w.text = <<>> => x = <<>>
  BY WholeTyped
<1>2. Carried(w) = (p \o h) \o x
  BY DEF Carried
<1> HIDE DEF p, h, x
<1>3. p \o h \in Seq(Contents) /\ (p \o h) \o x \in Seq(Contents)
  BY <1>1, ConcatProperties
<1>4. (p \o h) \o <<>> = p \o h /\ p \o <<>> = p
  BY <1>1, <1>3, ConcatEmptySeq
<1> QED
  BY <1>1, <1>2, <1>3, <1>4 DEF p, h, x

LEMMA FlushTextFacts ==
  ASSUME NEW w, Apart(w)
  PROVE  /\ Apart(FlushText(w)) /\ FlushText(w).text = <<>>
         /\ Carried(FlushText(w)) = Carried(w)
         /\ Sigs(FlushText(w)) = Sigs(w)
         /\ FlushText(w).thinking = w.thinking /\ FlushText(w).sig = w.sig
         /\ FlushText(w).trailing = w.trailing /\ FlushText(w).usedTool = w.usedTool
<1>1. CASE w.text = <<>>
  BY <1>1 DEF FlushText
<1>2. CASE w.text # <<>>
  <2> DEFINE b == Block("text", w.text, None)
             v == More(w, b)
             u == FlushText(w)
  <2>1. w \in Wholes /\ w.thinking = <<>> /\ w.sig = None
    BY <1>2 DEF Apart
  <2>2. w.text \in Seq(Nat) /\ "text" \in Kinds /\ None \in Nat /\ <<>> \in Seq(Nat)
    BY <2>1, WholeTyped DEF Kinds, None
  <2>3. b \in Blocks /\ b.sig = None
    BY <2>2, BlockTyped
  <2>4. Pairs(b) = Strand("text", w.text)
    BY <2>2, StrandFacts
  <2>5. u = [w EXCEPT !.content = Append(w.content, b), !.text = <<>>]
    BY <1>2 DEF FlushText
  <2>6. v = [w EXCEPT !.content = Append(w.content, b)]
    BY DEF More
  <2>7. u = Texted(v, <<>>)
    <3> HIDE DEF b, u, v
    <3> QED
      BY <2>1, <2>5, <2>6 DEF Texted, Wholes
  <2> HIDE DEF b, u
  <2>8. /\ v \in Wholes /\ v.thinking = w.thinking /\ v.sig = w.sig
        /\ v.trailing = w.trailing /\ v.usedTool = w.usedTool
        /\ PartsOf(v.content) = PartsOf(w.content) \o Pairs(b)
        /\ Sigs(v) = Sigs(w) \o Opt(b.sig) /\ Sigs(w) \in Seq(Nat)
    BY <2>1, <2>3, MoreFacts
  <2> HIDE DEF v
  <2> DEFINE e == <<>>
  <2>9. e \in Seq(Nat) /\ u = Texted(v, e)
    BY <2>2, <2>7
  <2> HIDE DEF e
  <2>10. /\ u \in Wholes /\ u.text = e /\ u.thinking = v.thinking /\ u.sig = v.sig
         /\ u.trailing = v.trailing /\ u.usedTool = v.usedTool /\ u.content = v.content
    BY <2>8, <2>9, TextedFacts
  <2>11. Sigs(u) = Sigs(w)
    <3>1. Opt(b.sig) = <<>> /\ Sigs(w) \o <<>> = Sigs(w)
      BY <2>3, <2>8, ConcatEmptySeq DEF Opt
    <3> QED
      BY <2>8, <2>10, <3>1 DEF Sigs
  <2>12. Carried(w) = PartsOf(w.content) \o Strand("text", w.text)
    BY <2>1, CarriedFacts
  <2>13. u.text = <<>> /\ u.thinking = <<>>
    BY <2>1, <2>8, <2>10 DEF e
  <2>14. Carried(u) = PartsOf(u.content)
    BY <2>10, <2>13, CarriedFacts
  <2> QED
    BY <2>4, <2>8, <2>10, <2>11, <2>12, <2>13, <2>14 DEF Apart, u
<1> QED
  BY <1>1, <1>2

LEMMA FlushThinkingFacts ==
  ASSUME NEW w, Apart(w)
  PROVE  /\ Apart(FlushThinking(w)) /\ FlushThinking(w).thinking = <<>>
         /\ FlushThinking(w).sig = None
         /\ Carried(FlushThinking(w)) = Carried(w)
         /\ Sigs(FlushThinking(w)) = Sigs(w) \o Opt(w.sig)
         /\ FlushThinking(w).text = w.text
         /\ FlushThinking(w).trailing = w.trailing /\ FlushThinking(w).usedTool = w.usedTool
<1>1. CASE w.thinking = <<>> /\ w.sig = None
  <2>1. FlushThinking(w) = w
    BY <1>1 DEF FlushThinking
  <2>2. Sigs(w) \in Seq(Nat)
    BY WholeTyped DEF Apart
  <2>3. Sigs(w) \o <<>> = Sigs(w)
    BY <2>2, ConcatEmptySeq
  <2> QED
    BY <1>1, <2>1, <2>3 DEF Opt
<1>2. CASE ~(w.thinking = <<>> /\ w.sig = None)
  <2> DEFINE b == Block("thinking", w.thinking, w.sig)
             v == More(w, b)
             u == FlushThinking(w)
  <2>1. w \in Wholes /\ w.text = <<>>
    BY <1>2 DEF Apart
  <2>2. w.thinking \in Seq(Nat) /\ w.sig \in Nat /\ "thinking" \in Kinds /\ None \in Nat
        /\ <<>> \in Seq(Nat)
    BY <2>1, WholeTyped DEF Kinds, None
  <2>3. b \in Blocks /\ b.sig = w.sig
    BY <2>2, BlockTyped
  <2>4. Pairs(b) = Strand("thinking", w.thinking)
    BY <2>2, StrandFacts
  <2>5. u = [w EXCEPT !.content = Append(w.content, b), !.thinking = <<>>, !.sig = None]
    BY <1>2 DEF FlushThinking
  <2>6. v = [w EXCEPT !.content = Append(w.content, b)]
    BY DEF More
  <2>7. u = Thinks(v, <<>>, None)
    <3> HIDE DEF b, u, v
    <3> QED
      BY <2>1, <2>5, <2>6 DEF Thinks, Wholes
  <2> HIDE DEF b, u
  <2>8. /\ v \in Wholes /\ v.text = w.text
        /\ v.trailing = w.trailing /\ v.usedTool = w.usedTool
        /\ PartsOf(v.content) = PartsOf(w.content) \o Pairs(b)
        /\ Sigs(v) = Sigs(w) \o Opt(b.sig)
    BY <2>1, <2>3, MoreFacts
  <2> HIDE DEF v
  <2> DEFINE e == <<>>
  <2>9. e \in Seq(Nat) /\ u = Thinks(v, e, None)
    BY <2>2, <2>7
  <2> HIDE DEF e
  <2>10. /\ u \in Wholes /\ u.text = v.text /\ u.thinking = e /\ u.sig = None
         /\ u.trailing = v.trailing /\ u.usedTool = v.usedTool /\ u.content = v.content
    BY <2>2, <2>8, <2>9, ThinksFacts, ZenonT(60)
  <2>11. Sigs(u) = Sigs(w) \o Opt(w.sig)
    BY <2>3, <2>8, <2>10 DEF Sigs
  <2>12. Carried(w) = PartsOf(w.content) \o Strand("thinking", w.thinking)
    BY <2>1, CarriedFacts
  <2>13. u.text = <<>> /\ u.thinking = <<>>
    BY <2>1, <2>8, <2>10 DEF e
  <2>14. Carried(u) = PartsOf(u.content)
    BY <2>10, <2>13, CarriedFacts
  <2> QED
    BY <2>1, <2>4, <2>8, <2>10, <2>11, <2>12, <2>13, <2>14 DEF Apart, u
<1> QED
  BY <1>1, <1>2

(* A signature without a thought adds nothing to the content.              *)
LEMMA AddSignedFacts ==
  ASSUME NEW w, Apart(w), NEW x \in Nat
  PROVE  /\ Apart(AddSigned(w, x))
         /\ Carried(AddSigned(w, x)) = Carried(w)
         /\ Sigs(AddSigned(w, x)) = Sigs(w) \o Opt(x)
         /\ AddSigned(w, x).text = w.text /\ AddSigned(w, x).thinking = w.thinking
         /\ AddSigned(w, x).sig = w.sig
         /\ AddSigned(w, x).trailing = w.trailing /\ AddSigned(w, x).usedTool = w.usedTool
<1> DEFINE d == <<>>
           b == Block("thinking", d, x)
           v == More(w, b)
<1>1. AddSigned(w, x) = v
  BY DEF AddSigned, More
<1>2. w \in Wholes /\ "thinking" \in Kinds /\ d \in Seq(Nat)
  BY DEF Apart, Kinds
<1>8. d = <<>>
  OBVIOUS
<1> HIDE DEF d
<1>3. b \in Blocks /\ b.sig = x /\ b.data = d
  BY <1>2, BlockTyped
<1> HIDE DEF b
<1>4. Pairs(b) = <<>>
  BY <1>3, <1>8, PairsTyped
<1>5. /\ v \in Wholes /\ v.text = w.text /\ v.thinking = w.thinking /\ v.sig = w.sig
      /\ v.trailing = w.trailing /\ v.usedTool = w.usedTool
      /\ PartsOf(v.content) = PartsOf(w.content) \o Pairs(b)
      /\ Sigs(v) = Sigs(w) \o Opt(b.sig) /\ PartsOf(w.content) \in Seq(Contents)
  BY <1>2, <1>3, MoreFacts
<1> HIDE DEF v
<1>6. PartsOf(w.content) \o <<>> = PartsOf(w.content)
  BY <1>5, ConcatEmptySeq
<1>7. Carried(v) = Carried(w)
  BY <1>4, <1>5, <1>6 DEF Carried
<1> QED
  BY <1>1, <1>3, <1>5, <1>7 DEF Apart

LEMMA DropTrailingFacts ==
  ASSUME NEW w, Apart(w)
  PROVE  /\ Apart(DropTrailing(w)) /\ DropTrailing(w).trailing = None
         /\ Carried(DropTrailing(w)) = Carried(w)
         /\ Sigs(DropTrailing(w)) = Sigs(w) \o Opt(w.trailing)
         /\ DropTrailing(w).text = w.text /\ DropTrailing(w).thinking = w.thinking
         /\ DropTrailing(w).sig = w.sig /\ DropTrailing(w).usedTool = w.usedTool
<1>1. w \in Wholes /\ w.trailing \in Nat /\ Sigs(w) \in Seq(Nat) /\ None \in Nat
  BY WholeTyped DEF Apart, None
<1>2. CASE w.trailing = None
  <2>1. DropTrailing(w) = w
    BY <1>2 DEF DropTrailing
  <2>2. Sigs(w) \o <<>> = Sigs(w)
    BY <1>1, ConcatEmptySeq
  <2> QED
    BY <1>2, <2>1, <2>2 DEF Opt
<1>3. CASE w.trailing # None
  <2> DEFINE v == AddSigned(w, w.trailing)
             u == Trails(v, None)
  <2>1. DropTrailing(w) = u
    BY <1>3 DEF DropTrailing, Trails
  <2>2. /\ Apart(v) /\ Carried(v) = Carried(w) /\ Sigs(v) = Sigs(w) \o Opt(w.trailing)
        /\ v.text = w.text /\ v.thinking = w.thinking /\ v.sig = w.sig
        /\ v.usedTool = w.usedTool
    BY <1>1, AddSignedFacts
  <2> HIDE DEF v
  <2>3. /\ u \in Wholes /\ u.text = v.text /\ u.thinking = v.thinking /\ u.sig = v.sig
        /\ u.trailing = None /\ u.usedTool = v.usedTool /\ u.content = v.content
    BY <1>1, <2>2, TrailsFacts, ZenonT(60) DEF Apart
  <2> HIDE DEF u
  <2>4. Carried(u) = Carried(v) /\ Sigs(u) = Sigs(v) /\ Apart(u)
    BY <2>2, <2>3 DEF Carried, Sigs, Apart
  <2> QED
    BY <2>1, <2>2, <2>3, <2>4
<1> QED
  BY <1>2, <1>3

(* The signatures delivered when both that wait are.                       *)
Full(m, p, r) == (m \o Opt(p)) \o Opt(r)

(* A part without content is an image or a call that does not exist.       *)
Meaningful(p) == p.kind \in {"call", "bare", "image"} => p.text # None

(* Text after a thought and a trailing signature.                          *)
LEMMA UntrailedFacts ==
  ASSUME NEW w, Apart(w), w.thinking = <<>>, w.sig = None
  PROVE  LET u == IF w.trailing = None THEN w ELSE DropTrailing(FlushText(w))
         IN  /\ Apart(u) /\ Carried(u) = Carried(w)
             /\ Sigs(u) = Sigs(w) \o Opt(w.trailing)
             /\ u.thinking = <<>> /\ u.sig = None /\ u.trailing = None
             /\ u.usedTool = w.usedTool
<1> DEFINE u == IF w.trailing = None THEN w ELSE DropTrailing(FlushText(w))
<1>1. CASE w.trailing = None
  <2>1. Sigs(w) \in Seq(Nat)
    BY WholeTyped DEF Apart
  <2>2. Sigs(w) \o <<>> = Sigs(w)
    BY <2>1, ConcatEmptySeq
  <2> QED
    BY <1>1, <2>2 DEF Opt
<1>2. CASE w.trailing # None
  <2> DEFINE v == FlushText(w)
  <2>1. /\ Apart(v) /\ Carried(v) = Carried(w) /\ Sigs(v) = Sigs(w)
        /\ v.thinking = w.thinking /\ v.sig = w.sig
        /\ v.trailing = w.trailing /\ v.usedTool = w.usedTool
    BY FlushTextFacts
  <2> HIDE DEF v
  <2>2. /\ Apart(DropTrailing(v)) /\ DropTrailing(v).trailing = None
        /\ Carried(DropTrailing(v)) = Carried(v)
        /\ Sigs(DropTrailing(v)) = Sigs(v) \o Opt(v.trailing)
        /\ DropTrailing(v).thinking = v.thinking
        /\ DropTrailing(v).sig = v.sig /\ DropTrailing(v).usedTool = v.usedTool
    BY <2>1, DropTrailingFacts
  <2>3. u = DropTrailing(v)
    BY <1>2 DEF v
  <2> HIDE DEF u
  <2>4. /\ Apart(u) /\ Carried(u) = Carried(w)
        /\ Sigs(u) = Sigs(w) \o Opt(w.trailing)
        /\ u.thinking = <<>> /\ u.sig = None /\ u.trailing = None
        /\ u.usedTool = w.usedTool
    BY <2>1, <2>2, <2>3
  <2> QED
    BY <2>4 DEF u
<1> QED
  BY <1>1, <1>2

(* One text more, where no thought waits.                                  *)
LEMMA TextedMore ==
  ASSUME NEW w, Apart(w), w.thinking = <<>>, w.sig = None, NEW x \in Nat
  PROVE  LET u == Texted(w, Append(w.text, x))
         IN  /\ Apart(u) /\ Carried(u) = Carried(w) \o <<<<"text", x>>>>
             /\ Sigs(u) = Sigs(w)
             /\ u.thinking = <<>> /\ u.sig = None /\ u.trailing = w.trailing
             /\ u.usedTool = w.usedTool
<1> DEFINE d == Append(w.text, x)
           u == Texted(w, d)
           c == <<<<"text", x>>>>
<1>1. w \in Wholes /\ w.text \in Seq(Nat) /\ "text" \in Kinds
  BY WholeTyped DEF Apart, Kinds
<1>2. d \in Seq(Nat) /\ Strand("text", d) = Strand("text", w.text) \o c
  BY <1>1, AppendProperties, StrandFacts
<1>3. c \in Seq(Contents)
  <2> DEFINE e == <<"text", x>>
  <2>1. e \in Contents
    BY <1>1 DEF Contents
  <2> HIDE DEF e
  <2>2. <<e>> \in Seq(Contents)
    BY <2>1, OneAndTwo
  <2> QED
    BY <2>2 DEF e
<1> HIDE DEF d, c
<1>4. /\ u \in Wholes /\ u.text = d /\ u.thinking = w.thinking /\ u.sig = w.sig
      /\ u.trailing = w.trailing /\ u.usedTool = w.usedTool /\ u.content = w.content
  BY <1>1, <1>2, TextedFacts
<1> HIDE DEF u
<1>5. Carried(u) = PartsOf(w.content) \o Strand("text", d)
      /\ Carried(w) = PartsOf(w.content) \o Strand("text", w.text)
  BY <1>1, <1>4, CarriedFacts
<1>6. Carried(u) = Carried(w) \o c
  <2> DEFINE p == PartsOf(w.content)
             q == Strand("text", w.text)
  <2>1. p \in Seq(Contents) /\ q \in Seq(Contents)
    BY <1>1, WholeTyped
  <2>2. Carried(u) = p \o (q \o c) /\ Carried(w) = p \o q
    BY <1>2, <1>5
  <2> HIDE DEF p, q
  <2>3. p \o (q \o c) = (p \o q) \o c
    BY ONLY <1>3, <2>1, ConcatAssociative, SMTT(60)
  <2> QED
    BY <2>2, <2>3
<1> QED
  BY <1>4, <1>6 DEF Apart, Sigs, u, d, c

LEMMA ConvertTextFacts ==
  ASSUME NEW w, Apart(w), NEW part, part.text \in Nat, part.sig \in Nat
  PROVE  LET u == ConvertText(w, part)
         IN  /\ Apart(u)
             /\ Carried(u) = Told(Carried(w), "text", part.text)
             /\ part.text = None =>
                   /\ Sigs(u) = Sigs(w) /\ u.sig = w.sig
                   /\ u.trailing = Newest(w.trailing, part.sig)
             /\ part.text # None =>
                   /\ Sigs(u) = Full(Sigs(w), w.sig, w.trailing) \o Opt(part.sig)
                   /\ u.sig = None /\ u.trailing = None
             /\ u.usedTool = w.usedTool
<1> DEFINE u == ConvertText(w, part)
<1>0. w \in Wholes /\ w.trailing \in Nat
  BY WholeTyped DEF Apart
<1>1. CASE part.text = None
  <2> DEFINE n == Newest(w.trailing, part.sig)
             v == Trails(w, n)
  <2>1. u = v
    <3>1. u = [w EXCEPT !.trailing = IF part.sig = None THEN w.trailing ELSE part.sig]
      BY <1>1 DEF ConvertText
    <3> QED
      BY <3>1 DEF Trails, Newest
  <2>2. n \in Nat
    BY <1>0 DEF Newest
  <2> HIDE DEF n, u
  <2>3. /\ v \in Wholes /\ v.text = w.text /\ v.thinking = w.thinking /\ v.sig = w.sig
        /\ v.trailing = n /\ v.usedTool = w.usedTool /\ v.content = w.content
    BY <1>0, <2>2, TrailsFacts
  <2> HIDE DEF v
  <2>4. Apart(v) /\ Carried(v) = Carried(w) /\ Sigs(v) = Sigs(w)
    BY <2>3 DEF Apart, Carried, Sigs
  <2> QED
    BY <1>1, <2>1, <2>3, <2>4 DEF Told, n, u
<1>2. CASE part.text # None
  <2> DEFINE t == FlushThinking(w)
             y == IF t.trailing = None THEN t ELSE DropTrailing(FlushText(t))
             v == Texted(y, Append(y.text, part.text))
             x == part.text
  <2>1. u = IF part.sig = None THEN v ELSE AddSigned(FlushText(v), part.sig)
    BY <1>2 DEF ConvertText, Texted
  <2>2. /\ Apart(t) /\ t.thinking = <<>> /\ t.sig = None /\ Carried(t) = Carried(w)
        /\ Sigs(t) = Sigs(w) \o Opt(w.sig)
        /\ t.trailing = w.trailing /\ t.usedTool = w.usedTool
    BY FlushThinkingFacts
  <2> HIDE DEF t, u
  <2>3. /\ Apart(y) /\ Carried(y) = Carried(t) /\ Sigs(y) = Sigs(t) \o Opt(t.trailing)
        /\ y.thinking = <<>> /\ y.sig = None /\ y.trailing = None
        /\ y.usedTool = t.usedTool
    BY <2>2, UntrailedFacts
  <2> HIDE DEF y
  <2>4. /\ Apart(v) /\ Carried(v) = Carried(y) \o <<<<"text", x>>>>
        /\ Sigs(v) = Sigs(y) /\ v.thinking = <<>> /\ v.sig = None /\ v.trailing = y.trailing
        /\ v.usedTool = y.usedTool
    BY <2>3, TextedMore
  <2> HIDE DEF v
  <2> DEFINE full == Full(Sigs(w), w.sig, w.trailing)
             c == Told(Carried(w), "text", x)
  <2>5. Sigs(v) = full /\ Carried(v) = c
    BY <1>2, <2>2, <2>3, <2>4 DEF Full, Told
  <2>6. v.usedTool = w.usedTool /\ v.trailing = None
    BY <2>2, <2>3, <2>4
  <2>7. CASE part.sig = None
    <3>1. Sigs(v) \in Seq(Nat)
      BY <2>4, WholeTyped DEF Apart
    <3>2. Sigs(v) \o <<>> = Sigs(v)
      BY <3>1, ConcatEmptySeq
    <3> HIDE DEF full, c
    <3>3. Sigs(v) = full \o Opt(part.sig)
      BY <2>5, <2>7, <3>2 DEF Opt
    <3> QED
      BY <1>2, <2>1, <2>4, <2>5, <2>6, <2>7, <3>3 DEF full, c, u
  <2>8. CASE part.sig # None
    <3> DEFINE f == FlushText(v)
               z == AddSigned(f, part.sig)
    <3>1. /\ Apart(f) /\ Carried(f) = Carried(v) /\ Sigs(f) = Sigs(v)
          /\ f.sig = v.sig /\ f.trailing = v.trailing /\ f.usedTool = v.usedTool
      BY <2>4, FlushTextFacts
    <3> HIDE DEF f
    <3>2. /\ Apart(z) /\ Carried(z) = Carried(f) /\ Sigs(z) = Sigs(f) \o Opt(part.sig)
          /\ z.sig = f.sig /\ z.trailing = f.trailing /\ z.usedTool = f.usedTool
      BY <3>1, AddSignedFacts
    <3>3. u = z
      BY <2>1, <2>8 DEF f
    <3> HIDE DEF z, full, c
    <3>4. /\ Apart(u) /\ Carried(u) = c /\ Sigs(u) = full \o Opt(part.sig)
          /\ u.sig = None /\ u.trailing = None /\ u.usedTool = w.usedTool
      BY <2>4, <2>5, <2>6, <3>1, <3>2, <3>3
    <3> QED
      BY <1>2, <3>4 DEF full, c, u
  <2> QED
    BY <2>7, <2>8
<1> QED
  BY <1>1, <1>2

LEMMA ConvertCallFacts ==
  ASSUME NEW w, Apart(w), NEW part, part.text \in Nat, part.sig \in Nat, part.text # None
  PROVE  LET u == ConvertCall(w, part)
         IN  /\ Apart(u)
             /\ Carried(u) = Told(Carried(w), "tool_use", part.text)
             /\ Sigs(u) = Full(Sigs(w), w.sig, w.trailing) \o Opt(part.sig)
             /\ u.sig = None /\ u.trailing = None
             /\ u.usedTool = TRUE
<1> DEFINE x == part.text
           f == FlushThinking(w)
           h == FlushText(f)
           t == DropTrailing(h)
           b == Block("tool_use", <<x>>, part.sig)
           v == Used(t)
           y == More(v, b)
           u == ConvertCall(w, part)
<1>1. u = [t EXCEPT !.usedTool = TRUE, !.content = Append(t.content, b)]
  BY DEF ConvertCall
<1>2. x \in Nat /\ <<x>> \in Seq(Nat) /\ "tool_use" \in Kinds
  BY OneAndTwo DEF Kinds
<1>3. b \in Blocks /\ b.sig = part.sig /\ Pairs(b) = <<<<"tool_use", x>>>>
  <2> DEFINE g == part.sig
             d == <<x>>
  <2>1. x \in Nat /\ g \in Nat /\ d \in Seq(Nat)
    BY <1>2
  <2>2. Strand("tool_use", d) = <<<<"tool_use", x>>>>
    <3> HIDE DEF x
    <3> QED
      BY <1>2, <2>1, StrandFacts
  <2> HIDE DEF x, g, d
  <2>3. Block("tool_use", d, g) \in Blocks /\ Block("tool_use", d, g).sig = g
    BY <1>2, <2>1, BlockTyped
  <2>4. Pairs(Block("tool_use", d, g)) = Strand("tool_use", d)
    BY <1>2, <2>1, StrandFacts
  <2> QED
    BY <2>2, <2>3, <2>4 DEF g, d
<1>4. /\ Apart(f) /\ f.thinking = <<>> /\ f.sig = None /\ Carried(f) = Carried(w)
      /\ Sigs(f) = Sigs(w) \o Opt(w.sig) /\ f.trailing = w.trailing
  BY FlushThinkingFacts
<1> HIDE DEF f, u, b
<1>5. /\ Apart(h) /\ h.text = <<>> /\ Carried(h) = Carried(f) /\ Sigs(h) = Sigs(f)
      /\ h.thinking = f.thinking /\ h.sig = f.sig /\ h.trailing = f.trailing
  BY <1>4, FlushTextFacts
<1> HIDE DEF h
<1>6. /\ Apart(t) /\ t.trailing = None /\ Carried(t) = Carried(h)
      /\ Sigs(t) = Sigs(h) \o Opt(h.trailing)
      /\ t.text = h.text /\ t.thinking = h.thinking /\ t.sig = h.sig
  BY <1>5, DropTrailingFacts
<1> HIDE DEF t
<1>7. t \in Wholes /\ t.text = <<>> /\ t.thinking = <<>>
  BY <1>4, <1>5, <1>6 DEF Apart
<1>8. /\ v \in Wholes /\ v.text = t.text /\ v.thinking = t.thinking /\ v.sig = t.sig
      /\ v.trailing = t.trailing /\ v.usedTool = TRUE /\ v.content = t.content
  BY <1>7, UsedFacts
<1>9. u = y
  BY <1>1, <1>7 DEF Used, More, Wholes
<1> HIDE DEF v
<1>10. /\ y \in Wholes /\ y.text = v.text /\ y.thinking = v.thinking /\ y.sig = v.sig
       /\ y.trailing = v.trailing /\ y.usedTool = v.usedTool
       /\ PartsOf(y.content) = PartsOf(v.content) \o Pairs(b)
       /\ Sigs(y) = Sigs(v) \o Opt(b.sig)
  BY <1>3, <1>8, MoreFacts
<1> HIDE DEF y
<1>11. Carried(y) = PartsOf(y.content) /\ Carried(t) = PartsOf(t.content)
  BY <1>7, <1>8, <1>10, CarriedFacts
<1>12. Carried(y) = Told(Carried(w), "tool_use", x)
  BY <1>3, <1>4, <1>5, <1>6, <1>8, <1>10, <1>11 DEF Told
<1>13. Sigs(y) = Full(Sigs(w), w.sig, w.trailing) \o Opt(part.sig)
  BY <1>3, <1>4, <1>5, <1>6, <1>8, <1>10 DEF Full, Sigs
<1>14. Apart(y) /\ y.sig = None /\ y.trailing = None /\ y.usedTool = TRUE
  BY <1>4, <1>5, <1>6, <1>7, <1>8, <1>10 DEF Apart
<1> QED
  BY <1>9, <1>12, <1>13, <1>14 DEF u

LEMMA ConvertThoughtFacts ==
  ASSUME NEW w, Apart(w), NEW part, part.text \in Nat, part.sig \in Nat
  PROVE  LET u == ConvertThought(w, part)
         IN  /\ Apart(u)
             /\ Carried(u) = Told(Carried(w), "thinking", part.text)
             /\ Sigs(u) = IF w.trailing = None THEN Sigs(w) ELSE Full(Sigs(w), w.sig, w.trailing)
             /\ u.sig = Newest(IF w.trailing = None THEN w.sig ELSE None, part.sig)
             /\ u.trailing = None
             /\ u.usedTool = w.usedTool
<1> DEFINE x == part.text
           t == FlushText(w)
           y == IF t.trailing = None THEN t ELSE DropTrailing(FlushThinking(t))
           d == IF x = None THEN y.thinking ELSE Append(y.thinking, x)
           n == Newest(y.sig, part.sig)
           u == ConvertThought(w, part)
           m == IF w.trailing = None THEN Sigs(w) ELSE Full(Sigs(w), w.sig, w.trailing)
           p == IF w.trailing = None THEN w.sig ELSE None
<1>1. u = Thinks(y, d, n)
  BY DEF ConvertThought, Thinks, Newest
<1>2. /\ Apart(t) /\ t.text = <<>> /\ Carried(t) = Carried(w) /\ Sigs(t) = Sigs(w)
      /\ t.thinking = w.thinking /\ t.sig = w.sig
      /\ t.trailing = w.trailing /\ t.usedTool = w.usedTool
  BY FlushTextFacts
<1> HIDE DEF t, u
<1>3. /\ Apart(y) /\ y.text = <<>> /\ Carried(y) = Carried(w) /\ Sigs(y) = m
      /\ y.sig = p /\ y.trailing = None /\ y.usedTool = w.usedTool
  <2>1. CASE t.trailing = None
    BY <1>2, <2>1
  <2>2. CASE t.trailing # None
    <3> DEFINE f == FlushThinking(t)
               z == DropTrailing(f)
    <3>1. /\ Apart(f) /\ f.sig = None /\ Carried(f) = Carried(t)
          /\ Sigs(f) = Sigs(t) \o Opt(t.sig) /\ f.text = t.text
          /\ f.trailing = t.trailing /\ f.usedTool = t.usedTool
      BY <1>2, FlushThinkingFacts
    <3> HIDE DEF f
    <3>2. /\ Apart(z) /\ z.trailing = None /\ Carried(z) = Carried(f)
          /\ Sigs(z) = Sigs(f) \o Opt(f.trailing) /\ z.text = f.text
          /\ z.sig = f.sig /\ z.usedTool = f.usedTool
      BY <3>1, DropTrailingFacts
    <3>3. y = z
      BY <2>2 DEF f
    <3> HIDE DEF z, y
    <3>4. Sigs(y) = Full(Sigs(w), w.sig, w.trailing)
      BY <1>2, <3>1, <3>2, <3>3 DEF Full
    <3>5. w.trailing # None
      BY <1>2, <2>2
    <3> QED
      BY <1>2, <3>1, <3>2, <3>3, <3>4, <3>5
  <2> QED
    BY <2>1, <2>2
<1> HIDE DEF y, m, p
<1>4. /\ y \in Wholes /\ y.thinking \in Seq(Nat) /\ y.sig \in Nat /\ "thinking" \in Kinds
  BY <1>3, WholeTyped DEF Apart, Kinds
<1>5. d \in Seq(Nat) /\ n \in Nat
  BY <1>4, AppendProperties DEF Newest
<1>6. Strand("thinking", d) = Told(Strand("thinking", y.thinking), "thinking", x)
  <2>1. Strand("thinking", Append(y.thinking, x))
          = Strand("thinking", y.thinking) \o <<<<"thinking", x>>>>
    BY <1>4, StrandFacts
  <2> QED
    BY <2>1 DEF Told
<1> HIDE DEF d, n
<1>7. /\ u \in Wholes /\ u.text = y.text /\ u.thinking = d /\ u.sig = n
      /\ u.trailing = y.trailing /\ u.usedTool = y.usedTool /\ u.content = y.content
  <2>1. y \in Wholes
    BY <1>4
  <2>2. /\ Thinks(y, d, n) \in Wholes /\ Thinks(y, d, n).text = y.text
        /\ Thinks(y, d, n).thinking = d /\ Thinks(y, d, n).sig = n
        /\ Thinks(y, d, n).trailing = y.trailing /\ Thinks(y, d, n).usedTool = y.usedTool
        /\ Thinks(y, d, n).content = y.content
    BY <1>5, <2>1, ThinksFacts
  <2> QED
    BY <1>1, <2>2
<1>8. Carried(u) = PartsOf(y.content) \o Strand("thinking", d)
      /\ Carried(y) = PartsOf(y.content) \o Strand("thinking", y.thinking)
  BY <1>3, <1>4, <1>7, CarriedFacts
<1>9. Carried(u) = Told(Carried(y), "thinking", x)
  <2> DEFINE a == PartsOf(y.content)
             q == Strand("thinking", y.thinking)
             c == <<<<"thinking", x>>>>
  <2>1. a \in Seq(Contents) /\ q \in Seq(Contents)
    BY <1>4, WholeTyped
  <2>2. Carried(y) = a \o q /\ Carried(u) = a \o Told(q, "thinking", x)
    BY <1>6, <1>8
  <2>3. c \in Seq(Contents)
    <3> DEFINE e == <<"thinking", x>>
    <3>1. e \in Contents
      BY <1>4 DEF Contents
    <3> HIDE DEF e
    <3>2. <<e>> \in Seq(Contents)
      BY <3>1, OneAndTwo
    <3> QED
      BY <3>2 DEF e
  <2>4. Told(q, "thinking", x) = (IF x = None THEN q ELSE q \o c)
        /\ Told(Carried(y), "thinking", x) = (IF x = None THEN Carried(y) ELSE Carried(y) \o c)
    BY DEF Told
  <2> HIDE DEF a, q, c
  <2>5. a \o (q \o c) = (a \o q) \o c
    BY ONLY <2>1, <2>3, ConcatAssociative, SMTT(60)
  <2> QED
    BY <2>2, <2>4, <2>5
<1>10. Apart(u) /\ Sigs(u) = m
  BY <1>3, <1>7 DEF Apart, Sigs
<1>11. u.sig = Newest(p, part.sig)
  BY <1>3, <1>7 DEF n
<1> QED
  BY <1>3, <1>7, <1>9, <1>10, <1>11 DEF u, m, p

(* What a part does to the signatures: those delivered (m), the one of a   *)
(* thought that is not over (p) and a trailing one (r).                    *)
Mute(part) == part.kind = "text" /\ part.text = None

NextMade(m, p, r, part) ==
    IF Mute(part) \/ (part.kind = "thought" /\ r = None) THEN m
    ELSE IF part.kind = "thought" THEN Full(m, p, r)
    ELSE Full(m, p, r) \o Opt(part.sig)

NextPending(p, r, part) ==
    IF Mute(part) THEN p
    ELSE IF part.kind = "thought" THEN Newest(IF r = None THEN p ELSE None, part.sig)
    ELSE None

NextTrailing(r, part) == IF Mute(part) THEN Newest(r, part.sig) ELSE None

(* An image that carries no signature is a text of its own.                *)
LEMMA ConvertImageFacts ==
  ASSUME NEW w, Apart(w), NEW x \in Nat, x # None
  PROVE  LET u == FlushText([FlushThinking(w) EXCEPT !.text = Append(@, x)])
         IN  /\ Apart(u)
             /\ Carried(u) = Told(Carried(w), "text", x)
             /\ u.usedTool = w.usedTool
<1> DEFINE t == FlushThinking(w)
           v == Texted(t, Append(t.text, x))
           u == FlushText(v)
<1>1. FlushText([FlushThinking(w) EXCEPT !.text = Append(@, x)]) = u
  BY DEF Texted
<1>2. /\ Apart(t) /\ t.thinking = <<>> /\ t.sig = None /\ Carried(t) = Carried(w)
      /\ t.usedTool = w.usedTool
  BY FlushThinkingFacts
<1> HIDE DEF t
<1>3. /\ Apart(v) /\ Carried(v) = Carried(t) \o <<<<"text", x>>>> /\ v.usedTool = t.usedTool
  BY <1>2, TextedMore
<1> HIDE DEF v
<1>4. Apart(u) /\ Carried(u) = Carried(v) /\ u.usedTool = v.usedTool
  BY <1>3, FlushTextFacts
<1> HIDE DEF u
<1>5. Apart(u) /\ Carried(u) = Told(Carried(w), "text", x) /\ u.usedTool = w.usedTool
  BY <1>2, <1>3, <1>4 DEF Told
<1> QED
  BY <1>1, <1>5

(* The whole translation carries what its parts say, in order; a call says *)
(* that a tool is used.                                                    *)
LEMMA ConvertPartFacts ==
  ASSUME NEW w, Apart(w), NEW part \in GeminiParts, Meaningful(part)
  PROVE  LET u == ConvertPart(w, part)
         IN  /\ Apart(u)
             /\ Carried(u) = Carried(w) \o Says(part)
             /\ u.usedTool <=> w.usedTool \/ BlockOf(part.kind) = "tool_use"
             /\ part.kind # "image" =>
                   /\ Sigs(u) = NextMade(Sigs(w), w.sig, w.trailing, part)
                   /\ u.sig = NextPending(w.sig, w.trailing, part)
                   /\ u.trailing = NextTrailing(w.trailing, part)
<1> DEFINE u == ConvertPart(w, part)
           x == part.text
           c == Carried(w)
           m == Sigs(w)
<1>1. part.text \in Nat /\ part.sig \in Nat /\ part.kind \in PartKinds
  BY DEF GeminiParts
<1>2. c \in Seq(Contents) /\ w.usedTool \in BOOLEAN
  BY CarriedFacts, WholeTyped DEF Apart
<1>3. c \o <<>> = c
  BY <1>2, ConcatEmptySeq
<1>4. CASE part.kind \in {"call", "bare"}
  <2>1. u = ConvertCall(w, part) /\ x # None /\ ~Mute(part) /\ BlockOf(part.kind) = "tool_use"
        /\ part.kind # "thought" /\ part.kind # "image"
    BY <1>4 DEF ConvertPart, Meaningful, Mute, BlockOf
  <2>2. Says(part) = <<<<"tool_use", x>>>>
    BY <2>1 DEF Says
  <2> HIDE DEF u
  <2>3. /\ Apart(u) /\ Carried(u) = Told(c, "tool_use", x)
        /\ Sigs(u) = Full(m, w.sig, w.trailing) \o Opt(part.sig)
        /\ u.sig = None /\ u.trailing = None /\ u.usedTool = TRUE
    BY <1>1, <2>1, ConvertCallFacts
  <2> HIDE DEF c, m
  <2>4. Carried(u) = c \o Says(part)
    BY <2>1, <2>2, <2>3 DEF Told
  <2>5. /\ Sigs(u) = NextMade(m, w.sig, w.trailing, part)
        /\ u.sig = NextPending(w.sig, w.trailing, part)
        /\ u.trailing = NextTrailing(w.trailing, part)
    BY <2>1, <2>3 DEF NextMade, NextPending, NextTrailing
  <2> QED
    BY <2>1, <2>3, <2>4, <2>5 DEF u, c, m
<1>5. CASE part.kind = "thought"
  <2>1. u = ConvertThought(w, part) /\ ~Mute(part) /\ BlockOf(part.kind) = "thinking"
    BY <1>5 DEF ConvertPart, Mute, BlockOf
  <2>2. Says(part) = IF x = None THEN <<>> ELSE <<<<"thinking", x>>>>
    BY <1>5, <2>1 DEF Says
  <2> HIDE DEF u
  <2>3. /\ Apart(u) /\ Carried(u) = Told(c, "thinking", x)
        /\ Sigs(u) = IF w.trailing = None THEN m ELSE Full(m, w.sig, w.trailing)
        /\ u.sig = Newest(IF w.trailing = None THEN w.sig ELSE None, part.sig)
        /\ u.trailing = None /\ u.usedTool = w.usedTool
    BY <1>1, <2>1, ConvertThoughtFacts
  <2> HIDE DEF c, m
  <2>4. Carried(u) = c \o Says(part)
    BY <1>3, <2>2, <2>3 DEF Told
  <2>5. /\ Sigs(u) = NextMade(m, w.sig, w.trailing, part)
        /\ u.sig = NextPending(w.sig, w.trailing, part)
        /\ u.trailing = NextTrailing(w.trailing, part)
    BY <1>5, <2>1, <2>3 DEF NextMade, NextPending, NextTrailing
  <2> QED
    BY <2>1, <2>3, <2>4, <2>5 DEF u, c, m
<1>6. CASE part.kind = "text"
  <2>1. u = ConvertText(w, part) /\ BlockOf(part.kind) = "text" /\ (Mute(part) <=> x = None)
    BY <1>6 DEF ConvertPart, Mute, BlockOf
  <2>2. Says(part) = IF x = None THEN <<>> ELSE <<<<"text", x>>>>
    BY <1>6, <2>1 DEF Says
  <2> HIDE DEF u
  <2>3. /\ Apart(u) /\ Carried(u) = Told(c, "text", x)
        /\ x = None => /\ Sigs(u) = m /\ u.sig = w.sig
                       /\ u.trailing = Newest(w.trailing, part.sig)
        /\ x # None => /\ Sigs(u) = Full(m, w.sig, w.trailing) \o Opt(part.sig)
                       /\ u.sig = None /\ u.trailing = None
        /\ u.usedTool = w.usedTool
    BY <1>1, <2>1, ConvertTextFacts, ZenonT(60)
  <2> HIDE DEF c, m
  <2>4. Carried(u) = c \o Says(part)
    BY <1>3, <2>2, <2>3 DEF Told
  <2>5. /\ Sigs(u) = NextMade(m, w.sig, w.trailing, part)
        /\ u.sig = NextPending(w.sig, w.trailing, part)
        /\ u.trailing = NextTrailing(w.trailing, part)
    BY <1>6, <2>1, <2>3 DEF NextMade, NextPending, NextTrailing
  <2> QED
    BY <2>1, <2>3, <2>4, <2>5 DEF u, c, m
<1>7. CASE part.kind = "image" /\ part.sig # None
  <2> DEFINE bare == [part EXCEPT !.text = None]
  <2>1. u = ConvertText(w, bare) /\ BlockOf(part.kind) = "text"
    BY <1>7 DEF ConvertPart, BlockOf
  <2>2. Says(part) = <<>>
    BY <1>7 DEF Says
  <2>3. bare.text = None /\ bare.text \in Nat /\ bare.sig \in Nat
    BY DEF GeminiParts, None
  <2> HIDE DEF u, bare
  <2>4. Apart(u) /\ Carried(u) = Told(c, "text", bare.text) /\ u.usedTool = w.usedTool
    BY <2>1, <2>3, ConvertTextFacts
  <2> HIDE DEF c
  <2>5. Carried(u) = c \o Says(part)
    BY <1>3, <2>2, <2>3, <2>4 DEF Told
  <2> QED
    BY <1>7, <2>1, <2>4, <2>5 DEF u, c
<1>8. CASE part.kind = "image" /\ part.sig = None
  <2>1. u = FlushText([FlushThinking(w) EXCEPT !.text = Append(@, x)])
        /\ BlockOf(part.kind) = "text" /\ x # None
    BY <1>8 DEF ConvertPart, BlockOf, Meaningful
  <2>2. Says(part) = <<<<"text", x>>>>
    BY <1>8, <2>1 DEF Says
  <2> HIDE DEF u
  <2>3. Apart(u) /\ Carried(u) = Told(c, "text", x) /\ u.usedTool = w.usedTool
    BY <1>1, <2>1, ConvertImageFacts
  <2> HIDE DEF c
  <2>4. Carried(u) = c \o Says(part)
    BY <2>1, <2>2, <2>3 DEF Told
  <2> QED
    BY <1>8, <2>1, <2>3, <2>4 DEF u, c
<1> QED
  BY <1>1, <1>4, <1>5, <1>6, <1>7, <1>8 DEF PartKinds

(* The whole translation reads the parts one after the other.              *)
ConvertedBy(read, parts) ==
    /\ ConvertParts(parts) = read[Len(parts)]
    /\ read[0] = Whole0
    /\ \A i \in 1..Len(parts) : read[i] = ConvertPart(read[i - 1], parts[i])

LEMMA PartsAreConverted ==
  ASSUME NEW parts \in Seq(GeminiParts)
  PROVE  \E read : ConvertedBy(read, parts)
<1> DEFINE D(f, n) == [k \in 0..n |-> IF k = 0 THEN Whole0 ELSE ConvertPart(f[k - 1], parts[k])]
           P(n) == \E f : f = D(f, n)
           S == {n \in Nat : P(n)}
<1>1. 0 \in S
  <2> DEFINE g == [k \in 0..0 |-> Whole0]
  <2>1. g = D(g, 0)
    OBVIOUS
  <2> QED
    BY <2>1
<1>2. ASSUME NEW n \in Nat, n \in S PROVE n + 1 \in S
  <2>1. PICK f : f = D(f, n)
    BY <1>2
  <2> DEFINE g == [k \in 0..n + 1 |-> IF k <= n THEN f[k] ELSE ConvertPart(f[n], parts[k])]
  <2>2. ASSUME NEW k \in 0..n
        PROVE  f[k] = IF k = 0 THEN Whole0 ELSE ConvertPart(f[k - 1], parts[k])
    BY <2>1, <1>2
  <2>3. ASSUME NEW k \in 0..n + 1
        PROVE  g[k] = IF k = 0 THEN Whole0 ELSE ConvertPart(g[k - 1], parts[k])
    <3>1. CASE k <= n
      <4>1. g[k] = f[k] /\ f[k] = IF k = 0 THEN Whole0 ELSE ConvertPart(f[k - 1], parts[k])
        BY <2>2, <3>1
      <4>2. k # 0 => k - 1 \in 0..n /\ g[k - 1] = f[k - 1]
        BY <3>1
      <4> QED
        BY <4>1, <4>2
    <3>2. CASE k = n + 1
      <4>1. k - 1 = n /\ g[n] = f[n] /\ k # 0 /\ g[k] = ConvertPart(f[n], parts[k])
        BY <3>2, <1>2
      <4> QED
        BY <4>1
    <3> QED
      BY <3>1, <3>2
  <2>4. g = D(g, n + 1)
    BY <2>3
  <2> HIDE DEF g
  <2>5. P(n + 1)
    BY <2>4
  <2> HIDE DEF P
  <2> QED
    BY <2>5, <1>2
<1>3. Nat \subseteq S
  <2> HIDE DEF S
  <2> QED
    BY <1>1, <1>2, SetInduction
<1>9. Len(parts) \in Nat
  OBVIOUS
<1>4. \E f : f = D(f, Len(parts))
  BY <1>3, <1>9
<1> DEFINE read == CHOOSE f : f = D(f, Len(parts))
<1>5. read = D(read, Len(parts))
  BY <1>4
<1>6. ConvertParts(parts) = read[Len(parts)]
  BY DEF ConvertParts
<1> HIDE DEF read
<1>7. read[0] = Whole0
  BY <1>5, <1>9
<1>8. ASSUME NEW k \in 1..Len(parts)
      PROVE  read[k] = ConvertPart(read[k - 1], parts[k])
  BY <1>5, <1>9
<1> QED
  BY <1>6, <1>7, <1>8 DEF ConvertedBy

LEMMA ConvertNone == ConvertParts(<<>>) = Whole0
<1> DEFINE e == <<>>
<1>1. e \in Seq(GeminiParts) /\ Len(e) = 0
  OBVIOUS
<1> HIDE DEF e
<1>2. PICK read : ConvertedBy(read, e)
  BY <1>1, PartsAreConverted
<1>3. ConvertParts(e) = Whole0
  BY <1>1, <1>2 DEF ConvertedBy
<1> QED
  BY <1>3 DEF e

LEMMA ConvertMore ==
  ASSUME NEW q \in Seq(GeminiParts), NEW p \in GeminiParts
  PROVE  ConvertParts(Append(q, p)) = ConvertPart(ConvertParts(q), p)
<1> DEFINE o == Append(q, p)
           n == Len(q)
<1>1. /\ o \in Seq(GeminiParts) /\ Len(o) = n + 1 /\ o[n + 1] = p /\ n \in Nat
      /\ \A k \in 1..n : o[k] = q[k]
  BY AppendProperties
<1> HIDE DEF o
<1>2. PICK read : ConvertedBy(read, q)
  BY PartsAreConverted
<1>3. PICK more : ConvertedBy(more, o)
  BY <1>1, PartsAreConverted
<1> DEFINE S == {m \in Nat : m <= n => more[m] = read[m]}
<1>4. 0 \in S
  BY <1>2, <1>3 DEF ConvertedBy
<1>5. ASSUME NEW m \in Nat, m \in S PROVE m + 1 \in S
  <2>1. SUFFICES ASSUME m + 1 <= n PROVE more[m + 1] = read[m + 1]
    OBVIOUS
  <2>2. /\ m + 1 \in 1..n /\ m + 1 \in 1..n + 1 /\ (m + 1) - 1 = m
        /\ o[m + 1] = q[m + 1] /\ more[m] = read[m]
    BY <1>1, <1>5, <2>1
  <2>3. read[m + 1] = ConvertPart(read[m], q[m + 1])
    BY <1>2, <2>2 DEF ConvertedBy
  <2>4. more[m + 1] = ConvertPart(more[m], o[m + 1])
    BY <1>1, <1>3, <2>2 DEF ConvertedBy
  <2> QED
    BY <2>2, <2>3, <2>4
<1>6. Nat \subseteq S
  <2> HIDE DEF S
  <2> QED
    BY <1>4, <1>5, SetInduction
<1>7. more[n] = read[n]
  BY <1>1, <1>6
<1>8. n + 1 \in 1..n + 1 /\ (n + 1) - 1 = n
  BY <1>1
<1>9. more[n + 1] = ConvertPart(more[n], o[n + 1])
  BY <1>1, <1>3, <1>8 DEF ConvertedBy
<1> QED
  BY <1>1, <1>2, <1>3, <1>7, <1>9 DEF ConvertedBy, o

(* What the whole translation has made of a sequence of parts.             *)
Brings(q) ==
    LET w == ConvertParts(q)
    IN  Apart(w) /\ Carried(w) = Said(q) /\ (w.usedTool <=> UsesTool(q))

LEMMA NothingCollected == PartsOf(<<>>) = <<>> /\ SignaturesOf(<<>>) = <<>>
<1> DEFINE d == <<>>
           b == Block("text", d, None)
<1>1. "text" \in Kinds /\ d \in Seq(Nat) /\ None \in Nat /\ <<>> \in Seq(Blocks)
  BY DEF Kinds, None
<1> HIDE DEF d
<1>2. b \in Blocks
  BY <1>1, BlockTyped
<1> HIDE DEF b
<1> QED
  BY ONLY <1>1, <1>2, PartsOfOne, SignaturesOfOne

LEMMA NothingCarried ==
    Apart(Whole0) /\ Carried(Whole0) = <<>> /\ Sigs(Whole0) = <<>>
    /\ Whole0.usedTool = FALSE /\ Whole0.sig = None /\ Whole0.trailing = None
<1>1. /\ Whole0.text = <<>> /\ Whole0.thinking = <<>> /\ Whole0.sig = None
      /\ Whole0.trailing = None /\ Whole0.usedTool = FALSE /\ Whole0.content = <<>>
  BY DEF Whole0
<1>2. Whole0 \in Wholes
  BY DEF Whole0, Wholes, None
<1>3. PartsOf(<<>>) = <<>> /\ SignaturesOf(<<>>) = <<>>
  BY NothingCollected
<1> HIDE DEF Whole0
<1>4. Carried(Whole0) = PartsOf(Whole0.content)
  BY <1>1, <1>2, CarriedFacts
<1> QED
  BY <1>1, <1>2, <1>3, <1>4 DEF Apart, Sigs

LEMMA SaidNone == Said(<<>>) = <<>> /\ Signatures(<<>>) = <<>>
<1> DEFINE p == Cut(0)
<1>1. p \in GeminiParts /\ <<>> \in Seq(GeminiParts)
  BY DEF Cut, GeminiParts, PartKinds, None
<1> HIDE DEF p
<1> QED
  BY ONLY <1>1, SaidOne, SignaturesOne

LEMMA UsesOne ==
  ASSUME NEW q \in Seq(GeminiParts), NEW p \in GeminiParts
  PROVE  UsesTool(Append(q, p)) <=> UsesTool(q) \/ BlockOf(p.kind) = "tool_use"
<1> DEFINE l == <<p>>
<1>1. l \in Seq(GeminiParts) /\ Append(q, p) = q \o l /\ Len(l) = 1 /\ l[1] = p
  BY AppendIsConcat, OneAndTwo
<1> HIDE DEF l
<1>2. UsesTool(q \o l) <=> UsesTool(q) \/ UsesTool(l)
  BY <1>1, UsesMore
<1>3. UsesTool(l) <=> BlockOf(p.kind) = "tool_use"
  <2>1. \A j \in 1..Len(l) : l[j] = p
    BY <1>1
  <2>2. 1 \in 1..Len(l)
    BY <1>1
  <2> QED
    BY <2>1, <2>2 DEF UsesTool
<1> QED
  BY <1>1, <1>2, <1>3

LEMMA BringsMore ==
  ASSUME NEW q \in Seq(GeminiParts), Brings(q), NEW p \in GeminiParts, Meaningful(p)
  PROVE  Brings(Append(q, p))
<1> DEFINE o == Append(q, p)
           w == ConvertParts(q)
           u == ConvertPart(w, p)
<1>1. ConvertParts(o) = u /\ Said(o) = Said(q) \o Says(p)
      /\ (UsesTool(o) <=> UsesTool(q) \/ BlockOf(p.kind) = "tool_use")
  BY ConvertMore, SaidOne, UsesOne
<1>2. Apart(w) /\ Carried(w) = Said(q) /\ (w.usedTool <=> UsesTool(q))
  BY DEF Brings
<1> HIDE DEF w, o
<1>3. /\ Apart(u) /\ Carried(u) = Carried(w) \o Says(p)
      /\ (u.usedTool <=> w.usedTool \/ BlockOf(p.kind) = "tool_use")
  BY <1>2, ConvertPartFacts
<1> HIDE DEF u
<1>4. Brings(o)
  BY <1>1, <1>2, <1>3 DEF Brings
<1> QED
  BY <1>4 DEF o

LEMMA PartsCarried ==
  ASSUME NEW q \in Seq(GeminiParts), \A j \in 1..Len(q) : Meaningful(q[j])
  PROVE  Brings(q)
<1> DEFINE n == Len(q)
           so(m) == SubSeq(q, 1, m)
           S == {m \in Nat : m <= n => Brings(so(m))}
<1>0. n \in Nat
  OBVIOUS
<1>1. 0 \in S
  <2>1. so(0) = <<>>
    OBVIOUS
  <2>2. Brings(<<>>)
    BY ConvertNone, NothingCarried, NoneUsed, SaidNone DEF Brings
  <2> QED
    BY <2>1, <2>2
<1>2. ASSUME NEW m \in Nat, m \in S PROVE m + 1 \in S
  <2>1. SUFFICES ASSUME m + 1 <= n PROVE Brings(so(m + 1))
    OBVIOUS
  <2> DEFINE a == so(m)
             p == q[m + 1]
  <2>2. m + 1 \in 1..n /\ m <= n
    BY <1>0, <2>1
  <2>3. p \in GeminiParts /\ Meaningful(p)
    BY <2>2
  <2>4. a \in Seq(GeminiParts) /\ so(m + 1) = Append(a, p)
    BY <2>1, <1>0
  <2>5. Brings(a)
    BY <1>2, <2>2
  <2> HIDE DEF a, p, so
  <2>6. Brings(Append(a, p))
    BY <2>3, <2>4, <2>5, BringsMore
  <2> QED
    BY <2>4, <2>6
<1>3. Nat \subseteq S
  <2> HIDE DEF S
  <2> QED
    BY <1>1, <1>2, SetInduction
<1>4. Brings(so(n)) /\ so(n) = q
  BY <1>0, <1>3
<1> QED
  BY <1>4

LEMMA FlushedFacts ==
  ASSUME NEW w, Apart(w)
  PROVE  LET f == FlushText(FlushThinking(w))
         IN  /\ Apart(f) /\ f.text = <<>> /\ f.thinking = <<>> /\ f.sig = None
             /\ Carried(f) = Carried(w) /\ PartsOf(f.content) = Carried(w)
             /\ Sigs(f) = Sigs(w) \o Opt(w.sig)
             /\ f.trailing = w.trailing /\ f.usedTool = w.usedTool
<1> DEFINE h == FlushThinking(w)
           f == FlushText(h)
<1>1. /\ Apart(h) /\ h.thinking = <<>> /\ h.sig = None /\ Carried(h) = Carried(w)
      /\ Sigs(h) = Sigs(w) \o Opt(w.sig) /\ h.trailing = w.trailing /\ h.usedTool = w.usedTool
  BY FlushThinkingFacts
<1> HIDE DEF h
<1>2. /\ Apart(f) /\ f.text = <<>> /\ Carried(f) = Carried(h) /\ Sigs(f) = Sigs(h)
      /\ f.thinking = h.thinking /\ f.sig = h.sig
      /\ f.trailing = h.trailing /\ f.usedTool = h.usedTool
  BY <1>1, FlushTextFacts
<1> HIDE DEF f
<1>3. Carried(f) = PartsOf(f.content)
  BY <1>1, <1>2, CarriedFacts DEF Apart
<1> QED
  BY <1>1, <1>2, <1>3 DEF f, h

(* What was found, as the whole response tells it.                         *)
Listing(g) == Opt(g.query) \o Opt(g.links)

LEMMA ListingFacts ==
  ASSUME NEW g \in Searches
  PROVE  /\ Listing(g) \in Seq(Nat) /\ Strand("text", Listing(g)) = Pieces(g)
         /\ Listing(g) = <<>> => Pieces(g) = <<>>
<1> DEFINE q == g.query
           l == g.links
           e == <<>>
           y == <<q>>
           z == <<l>>
           Speech(x) == <<"text", x>>
           v == <<Speech(q)>>
           w == <<Speech(l)>>
<1>1. q \in Nat /\ l \in Nat /\ "text" \in Kinds
  BY DEF Searches, Kinds
<1>2. /\ e \in Seq(Nat) /\ y \in Seq(Nat) /\ z \in Seq(Nat) /\ y # e /\ z # e
      /\ y \o z = Append(y, l)
  BY <1>1, OneAndTwo, AppendIsConcat
<1>3. e \o e = e /\ y \o e = y /\ e \o z = z /\ y \o z \in Seq(Nat)
  BY <1>2, ConcatEmptySeq, ConcatProperties
<1>4. Strand("text", e) = <<>>
  BY <1>1, <1>2, StrandFacts
<1>5. Strand("text", y) = v /\ Strand("text", z) = w
  BY <1>1, <1>2, StrandFacts
<1>6. Strand("text", Append(y, l)) = Strand("text", y) \o w
  BY <1>1, <1>2, StrandFacts
<1>7. v \in Seq(Contents) /\ w \in Seq(Contents) /\ <<>> \in Seq(Contents)
  <2>1. Speech(q) \in Contents /\ Speech(l) \in Contents
    BY <1>1 DEF Contents
  <2> HIDE DEF Speech
  <2> QED
    BY <2>1, OneAndTwo
<1>8. /\ Opt(q) = IF q = None THEN e ELSE y
      /\ Opt(l) = IF l = None THEN e ELSE z
      /\ Telling(q) = IF q = None THEN <<>> ELSE v
      /\ Telling(l) = IF l = None THEN <<>> ELSE w
  BY DEF Opt, Telling
<1>9. Listing(g) = Opt(q) \o Opt(l) /\ Pieces(g) = Telling(q) \o Telling(l)
  BY DEF Listing, Pieces
<1> HIDE DEF q, l, y, z, v, w, e
<1>10. /\ v \o <<>> = v /\ <<>> \o w = w /\ <<>> \o <<>> = <<>>
  BY <1>7, ConcatEmptySeq
<1>11. Listing(g) \in Seq(Nat)
  BY <1>2, <1>3, <1>8, <1>9
<1>12. Strand("text", Listing(g)) = Pieces(g)
  <2>1. CASE q = None /\ l = None
    BY <2>1, <1>3, <1>4, <1>8, <1>9, <1>10
  <2>2. CASE q # None /\ l = None
    BY <2>2, <1>3, <1>5, <1>8, <1>9, <1>10
  <2>3. CASE q = None /\ l # None
    BY <2>3, <1>3, <1>5, <1>8, <1>9, <1>10
  <2>4. CASE q # None /\ l # None
    BY <2>4, <1>2, <1>5, <1>6, <1>8, <1>9
  <2> QED
    BY <2>1, <2>2, <2>3, <2>4
<1>13. Listing(g) = e => Pieces(g) = <<>>
  BY <1>4, <1>12
<1> QED
  BY <1>11, <1>12, <1>13 DEF e

(* The sources are a text of their own, after all that waits.              *)
LEMMA SourcedWhole ==
  ASSUME NEW w, Apart(w), NEW d \in Seq(Nat)
  PROVE  LET u == Texted(FlushText(FlushThinking(w)), d)
         IN  /\ Apart(u) /\ Carried(u) = Carried(w) \o Strand("text", d)
             /\ Sigs(u) = Sigs(w) \o Opt(w.sig) /\ u.sig = None
             /\ u.trailing = w.trailing /\ u.usedTool = w.usedTool
<1> DEFINE f == FlushText(FlushThinking(w))
           u == Texted(f, d)
<1>1. /\ Apart(f) /\ f.thinking = <<>> /\ f.sig = None
      /\ PartsOf(f.content) = Carried(w) /\ Sigs(f) = Sigs(w) \o Opt(w.sig)
      /\ f.trailing = w.trailing /\ f.usedTool = w.usedTool
  BY FlushedFacts
<1> HIDE DEF f
<1>2. /\ u \in Wholes /\ u.text = d /\ u.thinking = f.thinking /\ u.sig = f.sig
      /\ u.trailing = f.trailing /\ u.usedTool = f.usedTool /\ u.content = f.content
  BY <1>1, TextedFacts DEF Apart
<1> HIDE DEF u
<1>3. Carried(u) = PartsOf(u.content) \o Strand("text", d)
  BY <1>1, <1>2, CarriedFacts
<1>4. Sigs(u) = Sigs(f)
  BY <1>2 DEF Sigs
<1>5. Apart(u)
  BY <1>1, <1>2 DEF Apart
<1>6. /\ Carried(u) = Carried(w) \o Strand("text", d)
      /\ Sigs(u) = Sigs(w) \o Opt(w.sig) /\ u.sig = None
      /\ u.trailing = w.trailing /\ u.usedTool = w.usedTool
  BY <1>1, <1>2, <1>3, <1>4
<1> QED
  BY <1>5, <1>6 DEF u, f

LEMMA ResponseFacts ==
  ASSUME NEW parts \in Seq(GeminiParts), Brings(parts), NEW g \in Searches, NEW fin
  PROVE  LET w == ConvertParts(parts)
             r == ConvertGeminiToClaudeResponse(parts, Grounding(Opt(g.query), g.links), fin)
         IN  /\ PartsOf(r.content) = Tells(Said(parts), g)
             /\ SignaturesOf(r.content) = Full(Sigs(w), w.sig, w.trailing)
             /\ r.reason = ReasonOf(UsesTool(parts), fin)
<1> DEFINE w == ConvertParts(parts)
           r == ConvertGeminiToClaudeResponse(parts, Grounding(Opt(g.query), g.links), fin)
           h == Grounding(Opt(g.query), g.links)
           d == Listing(g)
           v == IF d = <<>> THEN w ELSE Texted(FlushText(FlushThinking(w)), d)
           f == FlushText(FlushThinking(v))
           u == DropTrailing(f)
<1>1. r = [content |-> u.content,
           reason |-> IF u.usedTool THEN "tool_use"
                      ELSE IF fin = "MAX_TOKENS" THEN "max_tokens" ELSE "end_turn"]
  <2>1. h.queries = Opt(g.query) /\ h.links = g.links
    BY DEF Grounding
  <2>2. d = h.queries \o (IF h.links = None THEN <<>> ELSE <<h.links>>)
    BY <2>1 DEF Listing, Opt
  <2>3. r = ConvertGeminiToClaudeResponse(parts, h, fin)
    OBVIOUS
  <2> HIDE DEF h, d
  <2> QED
    BY <2>2, <2>3 DEF ConvertGeminiToClaudeResponse, Texted
<1>2. Apart(w) /\ Carried(w) = Said(parts) /\ (w.usedTool <=> UsesTool(parts))
  BY DEF Brings
<1> HIDE DEF w, r
<1>0. w.sig \in Nat /\ Sigs(w) \in Seq(Nat) /\ w.usedTool \in BOOLEAN
  BY <1>2, WholeTyped DEF Apart
<1>3. /\ Apart(v) /\ Carried(v) = Tells(Said(parts), g)
      /\ Sigs(v) \o Opt(v.sig) = Sigs(w) \o Opt(w.sig)
      /\ v.trailing = w.trailing /\ v.usedTool = w.usedTool
  <2>0. /\ d \in Seq(Nat) /\ Strand("text", d) = Pieces(g)
        /\ d = <<>> => Pieces(g) = <<>>
        /\ Carried(w) \in Seq(Contents)
    BY <1>2, ListingFacts, CarriedFacts DEF Apart
  <2> HIDE DEF d
  <2>1. CASE d = <<>>
    <3>1. Carried(w) \o <<>> = Carried(w)
      BY <2>0, ConcatEmptySeq
    <3> QED
      BY <1>2, <2>0, <2>1, <3>1 DEF Tells
  <2>2. CASE d # <<>>
    <3> DEFINE a == Sigs(w) \o Opt(w.sig)
    <3>1. /\ Apart(v) /\ Carried(v) = Carried(w) \o Strand("text", d)
          /\ Sigs(v) = a /\ v.sig = None
          /\ v.trailing = w.trailing /\ v.usedTool = w.usedTool
      BY <1>2, <2>0, <2>2, SourcedWhole
    <3> HIDE DEF v, a
    <3>2. Sigs(v) \in Seq(Nat) /\ Opt(v.sig) = <<>>
      BY <3>1, WholeTyped DEF Apart, Opt
    <3>3. Sigs(v) \o <<>> = Sigs(v)
      BY <3>2, ConcatEmptySeq
    <3> QED
      BY <1>2, <2>0, <3>1, <3>2, <3>3 DEF Tells, a
  <2> QED
    BY <2>1, <2>2
<1> HIDE DEF v
<1>4. /\ Apart(f) /\ f.text = <<>> /\ f.thinking = <<>> /\ Carried(f) = Carried(v)
      /\ Sigs(f) = Sigs(v) \o Opt(v.sig)
      /\ f.trailing = v.trailing /\ f.usedTool = v.usedTool
  BY <1>3, FlushedFacts
<1> HIDE DEF f
<1>5. /\ Apart(u) /\ Carried(u) = Carried(f) /\ Sigs(u) = Sigs(f) \o Opt(f.trailing)
      /\ u.text = f.text /\ u.thinking = f.thinking /\ u.usedTool = f.usedTool
  BY <1>4, DropTrailingFacts
<1> HIDE DEF u
<1>6. Carried(u) = PartsOf(u.content)
  BY <1>4, <1>5, CarriedFacts DEF Apart
<1>7. PartsOf(u.content) = Tells(Said(parts), g)
      /\ Sigs(u) = Full(Sigs(w), w.sig, w.trailing)
      /\ (u.usedTool <=> UsesTool(parts))
  BY <1>2, <1>3, <1>4, <1>5, <1>6 DEF Full
<1>8. r.content = u.content /\ r.reason = ReasonOf(UsesTool(parts), fin)
  BY <1>1, <1>7 DEF ReasonOf
<1> QED
  BY <1>7, <1>8 DEF w, r, Sigs

-------------------------------------------------------------------------------
(* The signatures of the streamed translation: those delivered, the one of *)
(* an open thinking block and the trailing one.                            *)
Waits(t, m, p, r) ==
    /\ SignaturesMade(t.out) = m /\ t.pending = p /\ t.trailing = r
    /\ p # None => t.block = "thinking"

LEMMA WaitsTyped ==
  ASSUME NEW t \in States, NEW m, NEW p, NEW r, Waits(t, m, p, r)
  PROVE  /\ m \in Seq(Nat) /\ p \in Nat /\ r \in Nat
         /\ m \o <<>> = m
         /\ \A x \in Nat : m \o Opt(x) \in Seq(Nat)
         /\ \A x \in Nat : (m \o Opt(x)) \o <<>> = m \o Opt(x)
<1>1. MessageStart \in Events /\ t.out \in Seq(Events) /\ t.pending \in Nat /\ t.trailing \in Nat
  BY EventFacts DEF Kinds, States
<1>2. SignaturesMade(t.out) \in Seq(Nat)
  BY <1>1, SignaturesMadeOne
<1>3. m \in Seq(Nat) /\ p \in Nat /\ r \in Nat
  BY <1>1, <1>2 DEF Waits
<1>4. m \o <<>> = m
  BY <1>3, ConcatEmptySeq
<1>5. ASSUME NEW x \in Nat PROVE m \o Opt(x) \in Seq(Nat) /\ (m \o Opt(x)) \o <<>> = m \o Opt(x)
  <2> DEFINE a == m \o Opt(x)
  <2>1. Opt(x) \in Seq(Nat)
    BY OptTyped
  <2>2. a \in Seq(Nat)
    BY <1>3, <2>1, ConcatProperties
  <2> HIDE DEF a
  <2>3. a \o <<>> = a
    BY <2>2, ConcatEmptySeq
  <2> QED
    BY <2>2, <2>3 DEF a
<1> QED
  BY <1>3, <1>4, <1>5

(* Events more, while what waits is delivered or stays.                    *)
LEMMA MoreWaits ==
  ASSUME NEW t \in States, NEW m, NEW p, NEW r, Waits(t, m, p, r),
         NEW events \in Seq(Events), NEW u \in States, u.out = t.out \o events,
         u.pending = None \/ (u.pending = p /\ u.block = t.block)
  PROVE  /\ Waits(u, m \o SignaturesMade(events), u.pending, u.trailing)
         /\ SignaturesMade(events) = <<>> => Waits(u, m, u.pending, u.trailing)
<1>1. t.out \in Seq(Events)
  BY DEF States
<1>2. SignaturesMade(u.out) = m \o SignaturesMade(events)
  BY <1>1, MadeTogether DEF Waits
<1>3. m \o <<>> = m
  BY WaitsTyped
<1> QED
  BY <1>2, <1>3 DEF Waits

LEMMA EndBlockWaits ==
  ASSUME NEW base, NEW t, Inside(base, t), NEW m, NEW p, NEW r, Waits(t, m, p, r)
  PROVE  Waits(EndBlock(t), m \o Opt(p), None, r)
<1>0. t \in States /\ t.index \in Nat /\ t.pending \in Nat /\ t.block \in Kinds \cup {"none"}
      /\ t.pending = p
  BY InsideFacts DEF Waits
<1>1. CASE t.block = "none"
  <2>1. EndBlock(t) = t /\ p = None /\ Opt(p) = <<>>
    BY <1>1 DEF EndBlock, Waits, Opt
  <2>2. m \o <<>> = m
    BY <1>0, WaitsTyped
  <2> QED
    BY <2>1, <2>2
<1>2. CASE t.block # "none"
  <2> DEFINE signs == p # None
             mark == Signed(t.index, p)
             stop == Stop(t.index, t.block)
             events == Append(IF signs THEN <<mark>> ELSE <<>>, stop)
             v == Emit(t, events)
             u == EndBlock(t)
             i == t.index + 1
             z == Ended(v, i, None)
  <2>1. t.block = "thinking" \/ p = None
    BY DEF Waits
  <2>2. mark \in Events /\ stop \in Events
    BY <1>0, <1>2, EventFacts
  <2>3. Marks(stop) = <<>> /\ (signs => Marks(mark) = <<p>>)
    BY EventValues
  <2>4. u = z
    BY <1>0, <1>2, <2>1 DEF EndBlock, Ended
  <2> HIDE DEF mark, stop
  <2>5. <<mark, stop>> \in Seq(Events) /\ <<stop>> \in Seq(Events)
        /\ Append(<<mark>>, stop) = <<mark, stop>> /\ Append(<<>>, stop) = <<stop>>
    BY <2>2, OneAndTwo
  <2>6. events \in Seq(Events)
    BY <2>5
  <2>7. SignaturesMade(events) = Opt(p)
    <3>1. CASE signs
      <4>1. SignaturesMade(<<mark, stop>>) = Marks(mark) \o Marks(stop)
        BY <2>2, TwoEvents
      <4>2. <<p>> \o <<>> = <<p>>
        <5>1. <<p>> \in Seq(Nat)
          BY <1>0, OneAndTwo
        <5> QED
          BY <5>1, ConcatEmptySeq
      <4> QED
        BY <3>1, <4>1, <4>2, <2>3, <2>5 DEF Opt
    <3>2. CASE ~signs
      BY <3>2, <2>2, <2>3, <2>5, OneEvent DEF Opt
    <3> QED
      BY <3>1, <3>2
  <2> HIDE DEF events
  <2>8. v \in States /\ v.out = t.out \o events /\ v.trailing = t.trailing
    BY <1>0, <2>6, EmitTyped
  <2>9. i \in Nat /\ None \in Nat
    BY <1>0 DEF None
  <2> HIDE DEF v, u, i
  <2>10. z \in States /\ z.out = v.out /\ z.pending = None /\ z.trailing = v.trailing
    BY <2>8, <2>9, EndTyped, ZenonT(60)
  <2> HIDE DEF z
  <2>11. Waits(z, m \o SignaturesMade(events), z.pending, z.trailing)
    BY <1>0, <2>6, <2>8, <2>10, MoreWaits
  <2> QED
    BY <2>4, <2>7, <2>8, <2>10, <2>11 DEF Waits, u
<1> QED
  BY <1>1, <1>2

LEMMA StartBlockWaits ==
  ASSUME NEW base, NEW t, Inside(base, t), NEW m, NEW p, NEW r, Waits(t, m, p, r),
         NEW kind \in Kinds, NEW d \in Nat, NEW x \in Nat
  PROVE  Waits(StartBlock(t, kind, d, x), (m \o Opt(p)) \o Opt(x), None, r)
<1> DEFINE w == EndBlock(t)
           e == Start(w.index, kind, d, x)
           v == Emit(w, <<e>>)
           u == StartBlock(t, kind, d, x)
           a == m \o Opt(p)
<1>1. Waits(w, a, None, r)
  BY EndBlockWaits
<1>2. w \in States /\ w.index \in Nat /\ w.out \in Seq(Events)
  <2>1. Inside(base, w)
    BY EndBlockFits
  <2> HIDE DEF w
  <2> QED
    BY <2>1, InsideFacts
<1>3. u = Blocked(v, kind)
  BY DEF StartBlock, Blocked
<1> HIDE DEF w, u, a
<1>4. e \in Events
  BY <1>2, EventFacts
<1>5. Marks(e) = Opt(x)
  BY EventValues DEF Opt
<1> HIDE DEF e
<1> DEFINE events == <<e>>
<1>6. events \in Seq(Events) /\ SignaturesMade(events) = Opt(x)
  BY <1>4, <1>5, OneAndTwo, OneEvent
<1>7. /\ v \in States /\ v.out = w.out \o events /\ v.pending = w.pending
      /\ v.trailing = w.trailing
  BY <1>2, <1>6, EmitTyped
<1> HIDE DEF v, events
<1>8. /\ u \in States /\ u.out = w.out \o events /\ u.pending = None
      /\ u.trailing = r
  BY <1>1, <1>3, <1>7, BlockedTyped DEF Waits
<1>9. Waits(u, a \o SignaturesMade(events), u.pending, u.trailing)
  BY <1>1, <1>2, <1>6, <1>8, MoreWaits
<1> QED
  BY <1>6, <1>8, <1>9 DEF u, a

LEMMA EmitDeltaWaits ==
  ASSUME NEW base, NEW t, Inside(base, t), NEW m, NEW p, NEW r, Waits(t, m, p, r),
         t.block # "none", NEW d \in Nat
  PROVE  Waits(EmitDelta(t, d), m, p, r)
<1> DEFINE e == Delta(t.index, t.block, d)
           u == EmitDelta(t, d)
           events == <<e>>
<1>1. t \in States /\ t.index \in Nat /\ t.block \in Kinds
  BY InsideFacts
<1>2. e \in Events
  BY <1>1, EventFacts
<1>3. Marks(e) = <<>>
  BY DEF Marks, Delta, Event
<1>4. u = Emit(t, events)
  BY DEF EmitDelta
<1> HIDE DEF e, u
<1>5. events \in Seq(Events) /\ SignaturesMade(events) = <<>>
  BY <1>2, <1>3, OneAndTwo, OneEvent
<1> HIDE DEF events
<1>6. /\ u \in States /\ u.out = t.out \o events /\ u.pending = t.pending /\ u.block = t.block
      /\ u.trailing = t.trailing
  BY <1>1, <1>4, <1>5, EmitTyped
<1>7. t.pending = p /\ t.trailing = r
  BY DEF Waits
<1>8. Waits(u, m, u.pending, u.trailing)
  BY <1>1, <1>5, <1>6, <1>7, MoreWaits
<1> QED
  BY <1>6, <1>7, <1>8 DEF u

LEMMA EmptyThinkingWaits ==
  ASSUME NEW base, NEW t, Inside(base, t), NEW m, NEW r, Waits(t, m, None, r),
         NEW x \in Nat \ {0}
  PROVE  /\ EmptyThinking(t, x) \in States
         /\ Waits(EmptyThinking(t, x), m \o Opt(x), None, r)
         /\ Waits(Trailing(EmptyThinking(t, x), None), m \o Opt(x), None, None)
<1> DEFINE v == EmptyThinking(t, x)
           u == Trailing(v, None)
<1>1. t \in States /\ None \in Nat /\ Opt(x) = <<x>> /\ t.pending = None /\ t.trailing = r
  BY InsideFacts DEF None, Opt, Waits
<1>2. PICK events \in Seq(Events) :
          /\ v = Moved(Emit(t, events), t.index + 1)
          /\ PartsMade(events) = <<>> /\ SignaturesMade(events) = <<x>>
  BY EmptyThinkingMakes
<1> HIDE DEF v
<1>3. /\ v \in States /\ v.out = t.out \o events /\ v.pending = None
      /\ v.trailing = r
  BY <1>1, <1>2, MovedEmitTyped
<1>4. u \in States /\ u.out = t.out \o events /\ u.pending = None /\ u.trailing = None
  BY <1>1, <1>3, TrailingTyped
<1> HIDE DEF u
<1>5. Waits(v, m \o SignaturesMade(events), v.pending, v.trailing)
  BY <1>1, <1>3, MoreWaits
<1>6. Waits(u, m \o SignaturesMade(events), u.pending, u.trailing)
  BY <1>1, <1>4, MoreWaits
<1>7. Waits(v, m \o Opt(x), None, r)
  BY <1>1, <1>2, <1>3, <1>5
<1>8. Waits(u, m \o Opt(x), None, None)
  BY <1>1, <1>2, <1>4, <1>6
<1> QED
  BY <1>3, <1>7, <1>8 DEF u, v

LEMMA FlushTrailingWaits ==
  ASSUME NEW base, NEW t, Inside(base, t), NEW m, NEW p, NEW r, Waits(t, m, p, r)
  PROVE  /\ r = None => FlushTrailing(t) = t
         /\ r # None => Waits(FlushTrailing(t), Full(m, p, r), None, None)
<1>1. r = t.trailing
  BY DEF Waits
<1>2. CASE r = None
  BY <1>1, <1>2 DEF FlushTrailing
<1>3. CASE r # None
  <2> DEFINE w == EndBlock(t)
             y == EmptyThinking(w, r)
             a == m \o Opt(p)
  <2>1. Waits(w, a, None, r)
    BY EndBlockWaits
  <2>2. Inside(base, w) /\ r \in Nat \ {0}
    BY <1>1, <1>3, EndBlockFits, InsideFacts DEF None
  <2>3. FlushTrailing(t) = Trailing(y, None)
    BY <1>1, <1>3 DEF FlushTrailing, Trailing
  <2> HIDE DEF w, a
  <2>4. Waits(Trailing(y, None), a \o Opt(r), None, None)
    BY <2>1, <2>2, EmptyThinkingWaits
  <2> HIDE DEF y
  <2> QED
    BY <1>3, <2>3, <2>4 DEF Full, a
<1> QED
  BY <1>2, <1>3

LEMMA WithinWaits ==
  ASSUME NEW base, NEW t, Inside(base, t), NEW m, NEW p, NEW r, Waits(t, m, p, r)
  PROVE  /\ Waits(Within(t, "thinking"), m, p, r)
         /\ Waits(Within(t, "text"), m \o Opt(p), None, r)
<1>0. t \in States /\ None \in Nat /\ "text" \in Kinds /\ "thinking" \in Kinds
  BY InsideFacts DEF None, Kinds
<1>1. /\ Waits(StartBlock(t, "thinking", None, None), (m \o Opt(p)) \o Opt(None), None, r)
      /\ Waits(StartBlock(t, "text", None, None), (m \o Opt(p)) \o Opt(None), None, r)
  BY <1>0, StartBlockWaits
<1>2. /\ p \in Nat /\ m \o <<>> = m /\ (m \o Opt(p)) \o <<>> = m \o Opt(p)
      /\ Opt(None) = <<>> /\ (p = None => Opt(p) = <<>>)
  BY <1>0, WaitsTyped DEF Opt
<1> DEFINE a == m \o Opt(p)
<1>3. a \o Opt(None) = a /\ (p = None => a = m)
  BY <1>2
<1>4. /\ Waits(StartBlock(t, "thinking", None, None), a, None, r)
      /\ Waits(StartBlock(t, "text", None, None), a, None, r)
  BY <1>1, <1>3
<1>5. p # None => t.block = "thinking"
  BY DEF Waits
<1> HIDE DEF a
<1>6. Waits(Within(t, "thinking"), m, p, r)
  <2>1. CASE t.block = "thinking"
    BY <2>1 DEF Within
  <2>2. CASE t.block # "thinking"
    <3>1. p = None /\ a = m
      BY <1>3, <1>5, <2>2
    <3>2. Within(t, "thinking") = StartBlock(t, "thinking", None, None)
      BY <2>2 DEF Within
    <3> QED
      BY <1>4, <3>1, <3>2
  <2> QED
    BY <2>1, <2>2
<1>7. Waits(Within(t, "text"), a, None, r)
  <2>1. CASE t.block = "text"
    <3>1. p = None /\ a = m
      BY <1>3, <1>5, <2>1
    <3> QED
      BY <2>1, <3>1 DEF Within
  <2>2. CASE t.block # "text"
    BY <1>4, <2>2 DEF Within
  <2> QED
    BY <2>1, <2>2
<1> QED
  BY <1>6, <1>7 DEF a

(* The flush, whether or not there is a trailing signature.                *)
LEMMA FlushWaits ==
  ASSUME NEW base, NEW t, Inside(base, t), NEW m, NEW p, NEW r, Waits(t, m, p, r)
  PROVE  Waits(FlushTrailing(t), IF r = None THEN m ELSE Full(m, p, r),
               IF r = None THEN p ELSE None, None)
<1>1. /\ r = None => FlushTrailing(t) = t
      /\ r # None => Waits(FlushTrailing(t), Full(m, p, r), None, None)
  BY FlushTrailingWaits
<1> QED
  BY <1>1

(* What is delivered once a block after the flush begins.                  *)
LEMMA FlushedFull ==
  ASSUME NEW t \in States, NEW m, NEW p, NEW r, Waits(t, m, p, r)
  PROVE  (IF r = None THEN m ELSE Full(m, p, r)) \o Opt(IF r = None THEN p ELSE None)
            = Full(m, p, r)
<1>1. /\ p \in Nat /\ r \in Nat /\ m \in Seq(Nat) /\ (m \o Opt(p)) \o <<>> = m \o Opt(p)
      /\ m \o Opt(p) \in Seq(Nat)
  BY WaitsTyped
<1>2. CASE r = None
  BY <1>1, <1>2 DEF Full, Opt
<1>3. CASE r # None
  <2> DEFINE a == m \o Opt(p)
             f == a \o Opt(r)
  <2>1. a \in Seq(Nat) /\ Opt(r) \in Seq(Nat)
    BY <1>1, OptTyped
  <2> HIDE DEF a
  <2>2. f \in Seq(Nat)
    BY <2>1, ConcatProperties
  <2> HIDE DEF f
  <2>3. f \o <<>> = f
    BY <2>2, ConcatEmptySeq
  <2>4. Full(m, p, r) = f
    BY DEF Full, f, a
  <2> QED
    BY <1>3, <2>3, <2>4 DEF Opt
<1> QED
  BY <1>2, <1>3

LEMMA ProcessThinkingWaits ==
  ASSUME NEW base, NEW t, Inside(base, t), NEW m, NEW p, NEW r, Waits(t, m, p, r),
         NEW text \in Nat, NEW x \in Nat
  PROVE  Waits(ProcessThinking(t, text, x), IF r = None THEN m ELSE Full(m, p, r),
               Newest(IF r = None THEN p ELSE None, x), None)
<1> DEFINE v == FlushTrailing(t)
           w == Within(v, "thinking")
           u == IF text = None THEN w ELSE EmitDelta(w, text)
           y == ProcessThinking(t, text, x)
           a == IF r = None THEN m ELSE Full(m, p, r)
           b == IF r = None THEN p ELSE None
<1>1. y = IF x = None THEN u ELSE [u EXCEPT !.pending = x]
  BY DEF ProcessThinking
<1>2. Inside(base, v) /\ Waits(v, a, b, None)
  BY FlushTrailingFits, FlushWaits
<1> HIDE DEF v, y, a, b
<1>3. "thinking" \in Kinds /\ "thinking" # "none"
  BY DEF Kinds
<1>4. Inside(base, w) /\ w.block = "thinking" /\ Waits(w, a, b, None)
  BY <1>2, <1>3, WithinFits, WithinWaits
<1> HIDE DEF w
<1>5. Inside(base, u) /\ u.block = "thinking" /\ Waits(u, a, b, None)
  <2>1. CASE text = None
    BY <1>4, <2>1
  <2>2. CASE text # None
    BY <1>3, <1>4, <2>2, EmitDeltaFits, EmitDeltaWaits
  <2> QED
    BY <2>1, <2>2
<1> HIDE DEF u
<1>6. u \in States
  BY <1>5, InsideFacts
<1>7. CASE x = None
  BY <1>1, <1>5, <1>7 DEF y, Newest, a, b
<1>8. CASE x # None
  <2>1. /\ y.out = u.out /\ y.block = "thinking" /\ y.trailing = u.trailing /\ y.pending = x
    BY <1>1, <1>5, <1>6, <1>8 DEF States
  <2>2. Waits(y, a, x, None)
    BY <1>5, <2>1 DEF Waits
  <2> QED
    BY <1>8, <2>2 DEF y, Newest, a, b
<1> QED
  BY <1>7, <1>8

LEMMA ProcessTextWaits ==
  ASSUME NEW base, NEW t, Inside(base, t), NEW m, NEW p, NEW r, Waits(t, m, p, r),
         NEW text \in Nat, NEW x \in Nat
  PROVE  /\ text = None => Waits(ProcessText(t, text, x), m, p, Newest(r, x))
         /\ text # None => Waits(ProcessText(t, text, x), Full(m, p, r) \o Opt(x), None, None)
<1> DEFINE v == FlushTrailing(t)
           y == ProcessText(t, text, x)
           a == IF r = None THEN m ELSE Full(m, p, r)
           b == IF r = None THEN p ELSE None
           f == Full(m, p, r)
<1>1. t \in States /\ Inside(base, v) /\ Waits(v, a, b, None) /\ a \o Opt(b) = f
  BY InsideFacts, FlushTrailingFits, FlushWaits, FlushedFull
<1>2. "text" \in Kinds /\ "text" # "none" /\ None \in Nat
  BY DEF Kinds, None
<1>3. ASSUME text = None PROVE Waits(y, m, p, Newest(r, x))
  <2>1. CASE x = None
    <3>1. y = t
      BY <1>3, <2>1 DEF ProcessText
    <3> QED
      BY <2>1, <3>1 DEF Newest
  <2>2. CASE x # None
    <3>1. y = Trailing(t, x)
      BY <1>3, <2>2 DEF ProcessText, Trailing
    <3> HIDE DEF y
    <3>2. y.out = t.out /\ y.block = t.block /\ y.trailing = x /\ y.pending = t.pending
      BY <1>1, <3>1, TrailingTyped
    <3> QED
      BY <2>2, <3>2 DEF Waits, Newest
  <2> QED
    BY <2>1, <2>2
<1>4. ASSUME text # None, x = None PROVE Waits(y, f \o Opt(x), None, None)
  <2> DEFINE w == Within(v, "text")
  <2>1. y = EmitDelta(w, text)
    BY <1>4 DEF ProcessText
  <2> HIDE DEF v, a, b, f, y
  <2>2. Inside(base, w) /\ w.block = "text" /\ Waits(w, a \o Opt(b), None, None)
    BY <1>1, <1>2, WithinFits, WithinWaits
  <2> HIDE DEF w
  <2>3. Waits(w, f, None, None)
    BY <1>1, <2>2
  <2>4. Waits(y, f, None, None)
    BY <1>2, <2>1, <2>2, <2>3, EmitDeltaWaits
  <2>5. w \in States
    BY <2>2, InsideFacts
  <2>6. f \o <<>> = f
    BY <2>3, <2>5, WaitsTyped
  <2> QED
    BY <1>4, <2>4, <2>6 DEF Opt
<1>5. ASSUME text # None, x # None PROVE Waits(y, f \o Opt(x), None, None)
  <2> DEFINE w == StartBlock(v, "text", None, None)
             e == EmitDelta(w, text)
             z == EndBlock(e)
  <2>1. y = EmptyThinking(z, x) /\ x \in Nat \ {0}
    BY <1>5 DEF ProcessText, None
  <2> HIDE DEF v, a, b, f, y
  <2>2. Inside(base, w) /\ w.block = "text"
    BY <1>1, <1>2, StartBlockFits
  <2>3. Waits(w, (a \o Opt(b)) \o Opt(None), None, None)
    BY <1>1, <1>2, StartBlockWaits
  <2> HIDE DEF w
  <2>4. w \in States
    BY <2>2, InsideFacts
  <2>5. Waits(w, f, None, None)
    <3>1. a \o Opt(b) = f /\ Opt(None) = <<>>
      BY <1>1 DEF Opt
    <3>2. v \in States
      BY <1>1, InsideFacts
    <3>3. b \in Nat /\ (a \o Opt(b)) \o <<>> = a \o Opt(b)
      BY <1>1, <3>2, WaitsTyped
    <3> QED
      BY <2>3, <3>1, <3>3
  <2>6. Inside(base, e) /\ Waits(e, f, None, None)
    BY <1>2, <2>2, <2>5, EmitDeltaFits, EmitDeltaWaits
  <2> HIDE DEF e
  <2>7. Inside(base, z) /\ Waits(z, f \o Opt(None), None, None)
    BY <2>6, EndBlockFits, EndBlockWaits
  <2>8. f \o Opt(None) = f
    <3>1. f \o <<>> = f
      BY <2>4, <2>5, WaitsTyped
    <3> QED
      BY <3>1 DEF Opt
  <2> HIDE DEF z
  <2>9. Waits(EmptyThinking(z, x), f \o Opt(x), None, None)
    BY <2>1, <2>7, <2>8, EmptyThinkingWaits
  <2> QED
    BY <2>1, <2>9
<1> QED
  BY <1>3, <1>4, <1>5

LEMMA ProcessFunctionCallWaits ==
  ASSUME NEW base, NEW t, Inside(base, t), NEW m, NEW p, NEW r, Waits(t, m, p, r),
         NEW part \in GeminiParts
  PROVE  Waits(ProcessFunctionCall(t, part), Full(m, p, r) \o Opt(part.sig), None, None)
<1> DEFINE h == FlushTrailing(t)
           v == [h EXCEPT !.usedTool = TRUE]
           g == part.sig
           d == part.text
           w == StartBlock(v, "tool_use", d, g)
           x == IF part.kind = "bare" THEN w ELSE EmitDelta(w, d)
           a == IF r = None THEN m ELSE Full(m, p, r)
           b == IF r = None THEN p ELSE None
           f == Full(m, p, r)
<1>1. d \in Nat /\ g \in Nat /\ TRUE \in BOOLEAN /\ None \in Nat
  BY DEF GeminiParts, None
<1>9. "tool_use" \in Kinds /\ "tool_use" # "none"
  BY DEF Kinds
<1>2. ProcessFunctionCall(t, part) = EndBlock(x)
  BY DEF ProcessFunctionCall
<1>3. Inside(base, h) /\ Waits(h, a, b, None) /\ a \o Opt(b) = f
  BY InsideFacts, FlushTrailingFits, FlushWaits, FlushedFull
<1> HIDE DEF h, a, b, f, d, g
<1>4. Inside(base, v)
  BY <1>1, <1>3, MemoryFits
<1>5. Waits(v, a, b, None)
  <2>1. h \in States
    BY <1>3, InsideFacts
  <2>2. v.out = h.out /\ v.block = h.block /\ v.pending = h.pending /\ v.trailing = h.trailing
    BY <2>1 DEF States
  <2> HIDE DEF v
  <2> QED
    BY <1>3, <2>2 DEF Waits
<1> HIDE DEF v
<1>6. Inside(base, w)
  <2>1. "tool_use" \in Kinds
    BY DEF Kinds
  <2> QED
    BY <1>1, <1>4, <2>1, StartBlockFits
<1>10. w.block = "tool_use"
  <2>1. "tool_use" \in Kinds
    BY DEF Kinds
  <2> QED
    BY <1>1, <1>4, <2>1, StartBlockFits
<1>7. Waits(w, f \o Opt(g), None, None)
  <2>1. Waits(w, (a \o Opt(b)) \o Opt(g), None, None)
    BY <1>1, <1>4, <1>5, <1>9, StartBlockWaits
  <2> QED
    BY <1>3, <2>1
<1> HIDE DEF w
<1> DEFINE n == f \o Opt(g)
<1> HIDE DEF n
<1>8. Inside(base, x) /\ Waits(x, n, None, None)
  <2>1. Waits(w, n, None, None) /\ w.block # "none"
    BY <1>7, <1>9, <1>10 DEF n
  <2>2. Inside(base, EmitDelta(w, d)) /\ Waits(EmitDelta(w, d), n, None, None)
    BY <1>1, <1>6, <2>1, EmitDeltaFits, EmitDeltaWaits
  <2> QED
    BY <1>6, <2>1, <2>2
<1> HIDE DEF x
<1>11. Waits(EndBlock(x), n \o Opt(None), None, None)
  BY <1>8, EndBlockWaits
<1>12. n \o Opt(None) = n
  <2>1. x \in States
    BY <1>8, InsideFacts
  <2>2. n \o <<>> = n
    BY <1>8, <2>1, WaitsTyped
  <2> QED
    BY <2>2 DEF Opt
<1> QED
  BY <1>2, <1>11, <1>12 DEF n, f, g

(* A part that is no image and says something, or is signed, does to the   *)
(* streamed signatures what it does to those of the whole translation.     *)
LEMMA ProcessPartWaits ==
  ASSUME NEW base, NEW t, Inside(base, t), NEW m, NEW p, NEW r, Waits(t, m, p, r),
         NEW part \in GeminiParts, ~Disturbs(part)
  PROVE  Waits(ProcessPart(t, part), NextMade(m, p, r, part), NextPending(p, r, part),
               NextTrailing(r, part))
<1> DEFINE u == ProcessPart(t, part)
           d == part.text
           g == part.sig
<1>1. d \in Nat /\ g \in Nat /\ part.kind \in PartKinds
  BY DEF GeminiParts
<1>2. CASE part.kind \in {"call", "bare"}
  <2>1. u = ProcessFunctionCall(t, part) /\ ~Mute(part) /\ part.kind # "thought"
    BY <1>2 DEF ProcessPart, Mute
  <2>2. Waits(ProcessFunctionCall(t, part), Full(m, p, r) \o Opt(part.sig), None, None)
    BY ProcessFunctionCallWaits
  <2> HIDE DEF u
  <2>3. NextMade(m, p, r, part) = Full(m, p, r) \o Opt(part.sig)
        /\ NextPending(p, r, part) = None /\ NextTrailing(r, part) = None
    BY <2>1 DEF NextMade, NextPending, NextTrailing
  <2> QED
    BY <2>1, <2>2, <2>3 DEF u
<1>3. CASE part.kind = "thought"
  <2>1. u = ProcessThinking(t, d, g) /\ ~Mute(part)
    BY <1>3 DEF ProcessPart, Mute, Disturbs
  <2>2. NextMade(m, p, r, part) = (IF r = None THEN m ELSE Full(m, p, r))
        /\ NextPending(p, r, part) = Newest(IF r = None THEN p ELSE None, g)
        /\ NextTrailing(r, part) = None
    BY <1>3, <2>1 DEF NextMade, NextPending, NextTrailing
  <2> HIDE DEF u, d, g
  <2>3. Waits(ProcessThinking(t, d, g), IF r = None THEN m ELSE Full(m, p, r),
              Newest(IF r = None THEN p ELSE None, g), None)
    BY <1>1, ProcessThinkingWaits
  <2> QED
    BY <2>1, <2>2, <2>3 DEF u
<1>4. CASE part.kind = "text"
  <2>1. u = ProcessText(t, d, g) /\ (Mute(part) <=> d = None)
    <3>1. CASE d = None /\ g = None
      BY <1>4, <3>1 DEF ProcessPart, ProcessText, Mute
    <3>2. CASE ~(d = None /\ g = None)
      BY <1>4, <3>2 DEF ProcessPart, Mute
    <3> QED
      BY <3>1, <3>2
  <2>2. /\ d = None => /\ NextMade(m, p, r, part) = m /\ NextPending(p, r, part) = p
                       /\ NextTrailing(r, part) = Newest(r, g)
        /\ d # None => /\ NextMade(m, p, r, part) = Full(m, p, r) \o Opt(g)
                       /\ NextPending(p, r, part) = None /\ NextTrailing(r, part) = None
    BY <1>4, <2>1 DEF NextMade, NextPending, NextTrailing
  <2> HIDE DEF u, d, g
  <2>3. /\ d = None => Waits(ProcessText(t, d, g), m, p, Newest(r, g))
        /\ d # None => Waits(ProcessText(t, d, g), Full(m, p, r) \o Opt(g), None, None)
    BY <1>1, ProcessTextWaits
  <2> QED
    BY <2>1, <2>2, <2>3 DEF u
<1> QED
  BY <1>1, <1>2, <1>3, <1>4 DEF PartKinds, Disturbs

(* Parts of which the two translations make the same signatures.           *)
Clear(q) == \A j \in 1..Len(q) : Meaningful(q[j]) /\ ~Disturbs(q[j])

(* The signatures of the stream are those of the whole translation of the  *)
(* parts read so far: what it has delivered, and what waits.               *)
Waiting(t, q) ==
    LET w == ConvertParts(q) IN Waits(t, Sigs(w), w.sig, w.trailing)

AllDelivered(t, q) ==
    LET w == ConvertParts(q)
    IN  SignaturesMade(t.out) = Full(Sigs(w), w.sig, w.trailing)

Accords(t, q) == IF t.stopped THEN AllDelivered(t, q) ELSE Waiting(t, q)

LEMMA ClearOne ==
  ASSUME NEW q \in Seq(GeminiParts), NEW p \in GeminiParts
  PROVE  Clear(Append(q, p)) <=> Clear(q) /\ Meaningful(p) /\ ~Disturbs(p)
<1> DEFINE o == Append(q, p)
           n == Len(q)
<1>1. /\ Len(o) = n + 1 /\ o[n + 1] = p /\ n \in Nat
      /\ \A k \in 1..n : o[k] = q[k]
  BY AppendProperties
<1> HIDE DEF o
<1>2. ASSUME Clear(o) PROVE Clear(q) /\ Meaningful(p) /\ ~Disturbs(p)
  <2>1. ASSUME NEW j \in 1..n PROVE Meaningful(q[j]) /\ ~Disturbs(q[j])
    <3>1. j \in 1..n + 1 /\ o[j] = q[j]
      BY <1>1
    <3> QED
      BY <1>1, <1>2, <3>1 DEF Clear
  <2>2. n + 1 \in 1..n + 1
    BY <1>1
  <2>3. Meaningful(o[n + 1]) /\ ~Disturbs(o[n + 1])
    BY <1>1, <1>2, <2>2 DEF Clear
  <2> QED
    BY <1>1, <2>1, <2>3 DEF Clear
<1>3. ASSUME Clear(q), Meaningful(p), ~Disturbs(p) PROVE Clear(o)
  <2>1. ASSUME NEW j \in 1..n + 1 PROVE Meaningful(o[j]) /\ ~Disturbs(o[j])
    <3>1. j \in 1..n \/ j = n + 1
      BY <1>1
    <3> QED
      BY <1>1, <1>3, <3>1 DEF Clear
  <2> QED
    BY <1>1, <2>1 DEF Clear
<1> QED
  BY <1>2, <1>3 DEF o

LEMMA ClearMore ==
  ASSUME NEW q \in Seq(GeminiParts), NEW p \in Seq(GeminiParts), Clear(q \o p)
  PROVE  Clear(q) /\ Clear(p)
<1> DEFINE o == q \o p
           n == Len(q)
           l == Len(p)
<1>1. /\ Len(o) = n + l /\ n \in Nat /\ l \in Nat
      /\ \A k \in 1..n : o[k] = q[k]
      /\ \A k \in 1..l : o[n + k] = p[k]
  OBVIOUS
<1> HIDE DEF o
<1>2. ASSUME NEW j \in 1..n PROVE Meaningful(q[j]) /\ ~Disturbs(q[j])
  <2>1. j \in 1..n + l /\ o[j] = q[j]
    BY <1>1
  <2>2. Meaningful(o[j]) /\ ~Disturbs(o[j])
    BY <1>1, <2>1 DEF Clear, o
  <2> QED
    BY <2>1, <2>2
<1>3. ASSUME NEW j \in 1..l PROVE Meaningful(p[j]) /\ ~Disturbs(p[j])
  <2>1. n + j \in 1..n + l /\ o[n + j] = p[j]
    BY <1>1
  <2>2. Meaningful(o[n + j]) /\ ~Disturbs(o[n + j])
    BY <1>1, <2>1 DEF Clear, o
  <2> QED
    BY <2>1, <2>2
<1> QED
  BY <1>2, <1>3 DEF Clear

LEMMA ClearBrings ==
  ASSUME NEW q \in Seq(GeminiParts), Clear(q)
  PROVE  Brings(q) /\ Apart(ConvertParts(q))
<1>1. \A j \in 1..Len(q) : Meaningful(q[j])
  BY DEF Clear
<1>2. Brings(q)
  BY <1>1, PartsCarried
<1> QED
  BY <1>2 DEF Brings

LEMMA OnePartWaits ==
  ASSUME NEW base, NEW t, Inside(base, t), NEW q \in Seq(GeminiParts), Clear(q),
         Waiting(t, q), NEW part \in GeminiParts, Meaningful(part), ~Disturbs(part)
  PROVE  Waiting(ProcessPart(t, part), Append(q, part))
<1> DEFINE w == ConvertParts(q)
           u == ConvertPart(w, part)
           m == Sigs(w)
           p == w.sig
           r == w.trailing
<1>1. Apart(w)
  BY ClearBrings
<1>2. ConvertParts(Append(q, part)) = u
  BY ConvertMore
<1>3. Waits(t, m, p, r)
  BY DEF Waiting
<1> HIDE DEF w
<1>4. /\ Sigs(u) = NextMade(m, p, r, part) /\ u.sig = NextPending(p, r, part)
      /\ u.trailing = NextTrailing(r, part)
  BY <1>1, ConvertPartFacts DEF Disturbs
<1> HIDE DEF m, p, r
<1>5. Waits(ProcessPart(t, part), NextMade(m, p, r, part), NextPending(p, r, part),
            NextTrailing(r, part))
  BY <1>3, ProcessPartWaits
<1> HIDE DEF u
<1>6. Waits(ProcessPart(t, part), Sigs(u), u.sig, u.trailing)
  BY <1>4, <1>5
<1> QED
  BY <1>2, <1>6 DEF Waiting

(* The parts of a line do to the streamed signatures what they do to those *)
(* of the whole translation.                                               *)
LEMMA ProcessPartsWaits ==
  ASSUME NEW base, NEW t, Inside(base, t), NEW q \in Seq(GeminiParts), Clear(q),
         Waiting(t, q), NEW parts \in Seq(GeminiParts), Clear(parts)
  PROVE  Waiting(ProcessParts(t, parts), q \o parts)
<1>1. Len(parts) \in Nat
  OBVIOUS
<1>2. PICK read : ReadBy(read, t, parts)
  BY PartsAreRead
<1> DEFINE n == Len(parts)
           so(m) == q \o SubSeq(parts, 1, m)
           L(m) == /\ Inside(base, read[m])
                   /\ Clear(so(m))
                   /\ Waiting(read[m], so(m))
           S == {m \in Nat : m <= n => L(m)}
<1>3. 0 \in S
  <2>1. SubSeq(parts, 1, 0) = <<>>
    OBVIOUS
  <2>2. q \o <<>> = q
    BY ConcatEmptySeq
  <2> QED
    BY <1>2, <2>1, <2>2 DEF ReadBy
<1>4. ASSUME NEW m \in Nat, m \in S PROVE m + 1 \in S
  <2>1. SUFFICES ASSUME m + 1 <= n PROVE L(m + 1)
    OBVIOUS
  <2> DEFINE a == so(m)
             p == parts[m + 1]
             b == SubSeq(parts, 1, m)
             v == read[m]
  <2>2. m + 1 \in 1..n /\ (m + 1) - 1 = m
    BY <2>1, <1>1
  <2>3. p \in GeminiParts /\ read[m + 1] = ProcessPart(v, p)
        /\ Meaningful(p) /\ ~Disturbs(p)
    BY <1>2, <2>2 DEF Clear, ReadBy
  <2>4. b \in Seq(GeminiParts) /\ SubSeq(parts, 1, m + 1) = Append(b, p)
    BY <2>1, <1>1
  <2>5. L(m)
    BY <2>1, <1>1, <1>4
  <2>6. Inside(base, v) /\ Clear(a) /\ Waiting(v, a)
    BY <2>5
  <2>7. so(m + 1) = Append(a, p) /\ a \in Seq(GeminiParts)
    <3>1. so(m + 1) = q \o Append(b, p) /\ a = q \o b
      BY <2>4
    <3> HIDE DEF a, so, b, p
    <3>2. b \in Seq(GeminiParts) /\ p \in GeminiParts
      BY <2>3, <2>4
    <3>3. q \o Append(b, p) = Append(q \o b, p) /\ q \o b \in Seq(GeminiParts)
      BY ONLY <3>2, q \in Seq(GeminiParts), AppendLast
    <3> QED
      BY <3>1, <3>3
  <2> HIDE DEF a, so, p, v
  <2>8. Inside(base, ProcessPart(v, p))
    BY <2>3, <2>6, ProcessPartFits
  <2>9. Clear(Append(a, p))
    BY <2>3, <2>6, <2>7, ClearOne
  <2>10. Waiting(ProcessPart(v, p), Append(a, p))
    BY <2>3, <2>6, <2>7, OnePartWaits
  <2> QED
    BY <2>3, <2>7, <2>8, <2>9, <2>10
<1>5. Nat \subseteq S
  <2> HIDE DEF S
  <2> QED
    BY <1>3, <1>4, SetInduction
<1>6. L(n)
  BY <1>1, <1>5
<1>7. SubSeq(parts, 1, n) = parts
  OBVIOUS
<1> QED
  BY <1>2, <1>6, <1>7 DEF ReadBy

(* Nor does a start sign, nor a grounding that is kept.                    *)
LEMMA EmitMessageStartWaits ==
  ASSUME NEW base, NEW t, Fits(base, t), NEW m, NEW p, NEW r, Waits(t, m, p, r)
  PROVE  Waits(EmitMessageStart(t), m, p, r)
<1>1. CASE t.started
  BY <1>1 DEF EmitMessageStart
<1>2. CASE ~t.started
  <2> DEFINE events == <<MessageStart>>
             v == Emit(t, events)
             u == EmitMessageStart(t)
  <2>1. MessageStart \in Events
    BY EventFacts DEF Kinds
  <2>2. events \in Seq(Events) /\ SignaturesMade(events) = <<>>
    BY <2>1, OneAndTwo, OneEvent, EventValues
  <2>3. t \in States
    BY DEF Fits
  <2>5. u = [v EXCEPT !.started = TRUE]
    BY <1>2 DEF EmitMessageStart
  <2> HIDE DEF events
  <2>4. /\ v \in States /\ v.out = t.out \o events /\ v.block = t.block
        /\ v.pending = t.pending /\ v.trailing = t.trailing
    BY <2>2, <2>3, EmitTyped
  <2> HIDE DEF u, v
  <2>6. u \in States
    BY <2>4, <2>5 DEF States
  <2>7. /\ u.out = t.out \o events /\ u.block = t.block
        /\ u.pending = t.pending /\ u.trailing = t.trailing
    BY <2>4, <2>5 DEF States
  <2>8. t.pending = p /\ t.trailing = r
    BY DEF Waits
  <2>9. Waits(u, m, u.pending, u.trailing)
    BY <2>2, <2>3, <2>6, <2>7, <2>8, MoreWaits
  <2> QED
    BY <2>7, <2>8, <2>9 DEF u
<1> QED
  BY <1>1, <1>2

LEMMA GroundedWaits ==
  ASSUME NEW v \in States, NEW x \in Searches, NEW m, NEW p, NEW r, Waits(v, m, p, r)
  PROVE  Waits(Grounded(v, x), m, p, r)
<1> DEFINE u == Grounded(v, x)
<1>1. /\ u.out = v.out /\ u.block = v.block
      /\ u.pending = v.pending /\ u.trailing = v.trailing
  BY GroundedTyped
<1> HIDE DEF u
<1> QED
  BY <1>1 DEF Waits, u

(* The sources carry no signature, nor do the closing events.              *)
LEMMA SourcedSigns ==
  ASSUME NEW base, NEW t, Inside(base, t)
  PROVE  EmitGrounding(t) \in States
         /\ SignaturesMade(EmitGrounding(t).out) = SignaturesMade(t.out)
<1> DEFINE g == t.grounding
           e == Delta(t.index, "text", g.query)
           f == Delta(t.index, "text", g.links)
           deltas == <<e, f>>
           u == EmitGrounding(t)
           v == Whole(t, "text", deltas)
           m == SignaturesMade(t.out)
<1>1. t \in States /\ g.query \in Nat /\ g.links \in Nat /\ t.index \in Nat
      /\ "text" \in Kinds /\ Unsought \in Searches /\ t.out \in Seq(Events)
  BY InsideFacts DEF Kinds, None, Unsought, Sought, Searches, States
<1>2. g # Unsought => u = Grounded(v, Unsought)
  BY DEF EmitGrounding, Grounded
<1>13. g = Unsought => u = t
  BY DEF EmitGrounding
<1> HIDE DEF u
<1>3. e \in Events /\ f \in Events /\ Marks(e) = <<>> /\ Marks(f) = <<>>
  <2>1. e \in Events /\ f \in Events
    BY <1>1, EventFacts DEF None
  <2> QED
    BY <2>1 DEF Marks, Delta, Event
<1> HIDE DEF e, f
<1>4. deltas \in Seq(Events) /\ SignaturesMade(deltas) = <<>>
  <2>1. <<e, f>> \in Seq(Events) /\ SignaturesMade(<<e, f>>) = Marks(e) \o Marks(f)
    BY <1>3, OneAndTwo, TwoEvents
  <2> QED
    BY <1>3, <2>1, EmptyEmpty
<1> HIDE DEF deltas
<1>5. PICK events \in Seq(Events) :
          /\ Whole(t, "text", deltas) = Moved(Emit(t, events), t.index + 1)
          /\ PartsMade(events) = PartsMade(deltas)
          /\ SignaturesMade(events) = SignaturesMade(deltas)
  BY <1>1, <1>4, WholeMakes
<1> HIDE DEF v
<1>6. v = Moved(Emit(t, events), t.index + 1)
  BY <1>5 DEF v
<1>7. v \in States /\ v.out = t.out \o events
  BY <1>1, <1>6, MovedEmitTyped
<1>8. SignaturesMade(t.out \o events) = m \o SignaturesMade(events)
  BY <1>1, MadeTogether
<1>9. m \in Seq(Nat)
  <2>1. MessageStart \in Events
    BY EventFacts DEF Kinds
  <2> QED
    BY <1>1, <2>1, SignaturesMadeOne
<1> HIDE DEF m
<1>10. m \o <<>> = m
  BY <1>9, ConcatEmptySeq
<1>11. SignaturesMade(v.out) = m
  BY <1>4, <1>5, <1>7, <1>8, <1>10
<1>12. Grounded(v, Unsought) \in States /\ Grounded(v, Unsought).out = v.out
  BY <1>1, <1>7, GroundedTyped
<1> QED
  BY <1>1, <1>2, <1>11, <1>12, <1>13 DEF m, u

LEMMA ClosingSigns ==
  ASSUME NEW t \in States, NEW reason \in Reasons
  PROVE  SignaturesMade(Over(Emit(t, <<MessageDelta(t.index, reason)>>
                                     \o <<MessageStop(t.index)>>)).out)
            = SignaturesMade(t.out)
<1> DEFINE a == MessageDelta(t.index, reason)
           b == MessageStop(t.index)
           events == <<a>> \o <<b>>
           v == Emit(t, events)
           m == SignaturesMade(t.out)
<1>1. t.index \in Nat /\ t.out \in Seq(Events)
  BY DEF States
<1>2. a \in Events /\ b \in Events
  BY <1>1, ReasonFacts, EventFacts DEF Kinds
<1>3. Marks(a) = <<>> /\ Marks(b) = <<>>
  BY EventValues
<1> HIDE DEF a, b
<1>4. events \in Seq(Events) /\ events = <<a, b>>
  BY <1>2, OneAndTwo
<1>5. SignaturesMade(events) = <<>>
  <2>1. SignaturesMade(<<a, b>>) = Marks(a) \o Marks(b)
    BY <1>2, TwoEvents
  <2>2. <<>> \o <<>> = <<>>
    BY EmptyEmpty
  <2> QED
    BY <1>3, <1>4, <2>1, <2>2
<1> HIDE DEF events
<1>6. v \in States /\ v.out = t.out \o events
  BY <1>4, EmitTyped
<1> HIDE DEF v
<1>7. Over(v).out = v.out
  BY <1>6, OverTyped
<1>8. SignaturesMade(t.out \o events) = m \o SignaturesMade(events)
  BY <1>1, <1>4, MadeTogether
<1>9. m \in Seq(Nat)
  <2>1. MessageStart \in Events
    BY EventFacts DEF Kinds
  <2> QED
    BY <1>1, <2>1, SignaturesMadeOne
<1> HIDE DEF m
<1>10. m \o <<>> = m
  BY <1>9, ConcatEmptySeq
<1>11. SignaturesMade(Over(v).out) = m
  BY <1>5, <1>6, <1>7, <1>8, <1>10
<1> QED
  BY <1>11 DEF m, v, events, a, b

(* A finish delivers what waits, the trailing signature last.              *)
LEMMA EmitFinishSigns ==
  ASSUME NEW base, NEW t, Fits(base, t), ~t.stopped, NEW fin,
         NEW m, NEW p, NEW r, Waits(t, m, p, r)
  PROVE  SignaturesMade(EmitFinish(t, fin).out) = Full(m, p, r)
<1> DEFINE ended == EndBlock(t)
           signed == IF ended.trailing = None THEN ended
                     ELSE [EmptyThinking(ended, ended.trailing) EXCEPT !.trailing = None]
           sourced == EmitGrounding(signed)
           reason == StopReason(sourced, fin)
           closing == <<MessageDelta(sourced.index, reason)>>
                      \o <<MessageStop(sourced.index)>>
           f == Full(m, p, r)
           a == m \o Opt(p)
<1>1. EmitFinish(t, fin) = Over(Emit(sourced, closing))
  BY DEF EmitFinish, Over
<1>2. reason \in Reasons
  BY DEF StopReason, Reasons
<1>0. t \in States
  BY DEF Fits
<1>5. a \in Seq(Nat) /\ a \o <<>> = a /\ p \in Nat /\ r \in Nat
  BY <1>0, WaitsTyped
<1>3. sourced \in States /\ SignaturesMade(sourced.out) = f
  <2>1. CASE t.started
    <3>1. Inside(base, t)
      BY <2>1, InsideFits DEF Going
    <3>2. Inside(base, ended) /\ ended.block = "none"
      BY <3>1, EndBlockFits
    <3>3. Waits(ended, a, None, r)
      BY <3>1, EndBlockWaits
    <3> HIDE DEF ended, a
    <3>4. Inside(base, signed)
      BY <3>2, SignedFits
    <3>5. SignaturesMade(signed.out) = f
      <4>1. CASE r = None
        <5>1. ended.trailing = r /\ f = a \o <<>>
          BY <3>3, <4>1 DEF Waits, Full, Opt, a
        <5> QED
          BY <1>5, <3>3, <4>1, <5>1 DEF Waits
      <4>2. CASE r # None
        <5> DEFINE y == EmptyThinking(ended, r)
        <5>1. ended.trailing = r /\ f = a \o Opt(r) /\ r \in Nat \ {0}
          BY <1>5, <3>3, <4>2 DEF Waits, Full, a, None
        <5>2. signed = Trailing(y, None)
          BY <4>2, <5>1 DEF Trailing
        <5>3. Waits(Trailing(y, None), a \o Opt(r), None, None)
          BY <3>2, <3>3, <5>1, EmptyThinkingWaits
        <5> HIDE DEF signed, y, f
        <5> QED
          BY <5>1, <5>2, <5>3 DEF Waits
      <4> QED
        BY <4>1, <4>2
    <3> HIDE DEF signed
    <3>6. sourced \in States /\ SignaturesMade(sourced.out) = SignaturesMade(signed.out)
      BY <3>4, SourcedSigns
    <3> QED
      BY <3>5, <3>6
  <2>2. CASE ~t.started
    <3>1. t.block = "none" /\ t.trailing = None /\ t.grounding = Unsought
      BY <2>2 DEF Fits, Unbegun
    <3>2. ended = t
      BY <3>1 DEF EndBlock
    <3>3. signed = t
      BY <3>1, <3>2
    <3>4. sourced = t
      BY <3>1, <3>3 DEF EmitGrounding
    <3>5. p = None /\ r = None /\ SignaturesMade(t.out) = m
      BY <3>1 DEF Waits
    <3> HIDE DEF sourced
    <3>6. m \o <<>> = m
      BY <1>0, WaitsTyped
    <3>7. f = m
      BY <3>5, <3>6 DEF Full, Opt
    <3> QED
      BY <1>0, <3>4, <3>5, <3>7
  <2> QED
    BY <2>1, <2>2
<1> HIDE DEF sourced, reason, f
<1>6. SignaturesMade(Over(Emit(sourced, closing)).out) = SignaturesMade(sourced.out)
  BY <1>2, <1>3, ClosingSigns
<1> QED
  BY <1>1, <1>3, <1>6 DEF f

LEMMA SameAccords ==
  ASSUME NEW t, NEW q
  PROVE  /\ t.stopped => (Accords(t, q) <=> AllDelivered(t, q))
         /\ ~t.stopped => (Accords(t, q) <=> Waiting(t, q))
BY DEF Accords

LEMMA FinishAccords ==
  ASSUME NEW base, NEW t, Fits(base, t), ~t.stopped, NEW fin, NEW q, Waiting(t, q)
  PROVE  AllDelivered(EmitFinish(t, fin), q)
<1> DEFINE w == ConvertParts(q)
           m == Sigs(w)
           p == w.sig
           r == w.trailing
<1>1. Waits(t, m, p, r)
  BY DEF Waiting
<1> HIDE DEF m, p, r
<1>2. SignaturesMade(EmitFinish(t, fin).out) = Full(m, p, r)
  BY <1>1, EmitFinishSigns
<1> QED
  BY <1>2 DEF AllDelivered, m, p, r

LEMMA BegunWaiting ==
  ASSUME NEW base, NEW t, Fits(base, t), NEW q, Waiting(t, q)
  PROVE  Waiting(EmitMessageStart(t), q)
<1> DEFINE w == ConvertParts(q)
           m == Sigs(w)
           p == w.sig
           r == w.trailing
<1>1. Waits(t, m, p, r)
  BY DEF Waiting
<1> HIDE DEF m, p, r
<1>2. Waits(EmitMessageStart(t), m, p, r)
  BY <1>1, EmitMessageStartWaits
<1> QED
  BY <1>2 DEF Waiting, m, p, r

LEMMA GroundedWaiting ==
  ASSUME NEW v \in States, NEW x \in Searches, NEW q, Waiting(v, q)
  PROVE  Waiting(Grounded(v, x), q)
<1> DEFINE w == ConvertParts(q)
           m == Sigs(w)
           p == w.sig
           r == w.trailing
<1>1. Waits(v, m, p, r)
  BY DEF Waiting
<1> HIDE DEF m, p, r
<1>2. Waits(Grounded(v, x), m, p, r)
  BY <1>1, GroundedWaits
<1> QED
  BY <1>2 DEF Waiting, m, p, r

LEMMA ProcessChunkAccords ==
  ASSUME NEW base, NEW t, Fits(base, t), ~t.stopped, ~base.wild,
         NEW q \in Seq(GeminiParts),
         Clear(q), Waiting(t, q), NEW line,
         line.parts \in Seq(GeminiParts), line.grounding \in Findings, Clear(line.parts)
  PROVE  Accords(ProcessChunk(t, line), q \o line.parts)
<1> DEFINE begun == EmitMessageStart(t)
           read == ProcessParts(begun, line.parts)
           h == Captured(read.grounding, line.grounding)
           captured == Grounded(read, h)
           o == q \o line.parts
<1>1. ProcessChunk(t, line) = IF line.finish = "" THEN captured
                              ELSE EmitFinish(captured, line.finish)
  BY DEF ProcessChunk, Grounded
<1>2. Inside(base, begun) /\ Waiting(begun, q)
  BY EmitMessageStartFits, BegunWaiting DEF Going
<1> HIDE DEF begun
<1>3. Inside(base, read)
  BY <1>2, ProcessPartsFits
<1>7. Waiting(read, o)
  BY <1>2, ProcessPartsWaits
<1> HIDE DEF read, o
<1>10. h \in Searches
  BY <1>3, InsideFacts, CapturedTyped
<1> HIDE DEF h
<1>4. Inside(base, captured)
  BY <1>3, <1>10, GroundedFits
<1>8. Waiting(captured, o)
  <2>1. read \in States
    BY <1>3, InsideFacts
  <2> QED
    BY <1>7, <1>10, <2>1, GroundedWaiting
<1> HIDE DEF captured
<1>5. Fits(base, captured) /\ ~captured.stopped
  BY <1>4, InsideFits DEF Going
<1>6. AllDelivered(EmitFinish(captured, line.finish), o)
      /\ EmitFinish(captured, line.finish).stopped
  BY <1>5, <1>8, FinishAccords, FinishStops
<1>9. Accords(ProcessChunk(t, line), o)
  BY <1>1, <1>5, <1>6, <1>8, SameAccords
<1> QED
  BY <1>9 DEF o

LEMMA CutAccords ==
  ASSUME NEW base, NEW t, Fits(base, t), ~t.stopped, ~base.wild,
         NEW q \in Seq(GeminiParts),
         Clear(q), Waiting(t, q), NEW x \in Nat
  PROVE  Accords(ProcessText(EmitMessageStart(t), x, None), Append(q, Cut(x)))
<1> DEFINE begun == EmitMessageStart(t)
           p == Cut(x)
<1>1. /\ p \in GeminiParts /\ p.kind = "text" /\ p.text = x /\ p.sig = None
      /\ Meaningful(p) /\ ~Disturbs(p) /\ None \in Nat
  BY DEF Cut, GeminiParts, PartKinds, None, Meaningful, Disturbs
<1>2. Inside(base, begun) /\ Waiting(begun, q)
  BY EmitMessageStartFits, BegunWaiting DEF Going
<1> HIDE DEF begun, p
<1>3. ProcessPart(begun, p) = ProcessText(begun, x, None)
  <2>1. CASE x # None
    BY <1>1, <2>1 DEF ProcessPart
  <2>2. CASE x = None
    BY <1>1, <2>2 DEF ProcessPart, ProcessText
  <2> QED
    BY <2>1, <2>2
<1>4. Waiting(ProcessPart(begun, p), Append(q, p))
  BY <1>1, <1>2, OnePartWaits
<1>5. Inside(base, ProcessPart(begun, p))
  BY <1>1, <1>2, ProcessPartFits
<1>6. Accords(ProcessPart(begun, p), Append(q, p))
  BY <1>4, <1>5, InsideFits, SameAccords DEF Going
<1> QED
  BY <1>3, <1>6 DEF begun, p

LEMMA ProcessLineAccords ==
  ASSUME NEW base, NEW t, Fits(base, t), ~t.stopped, ~base.wild,
         NEW q \in Seq(GeminiParts),
         Clear(q), Waiting(t, q), NEW line, LineTyped(line), Clear(line.parts),
         line.kind # "chunk" => line.parts = <<>>
  PROVE  Accords(ProcessGeminiSSELine(t, line), Heard(q, line))
<1> DEFINE u == ProcessGeminiSSELine(t, line)
<1>1. line.parts \in Seq(GeminiParts) /\ line.grounding \in Findings
      /\ line.text \in Nat /\ line.kind \in LineKinds
  BY DEF LineTyped
<1>2. q \o <<>> = q
  BY ConcatEmptySeq
<1>3. CASE line.kind = "chunk"
  <2>1. Accords(ProcessChunk(t, line), q \o line.parts)
    BY <1>1, ProcessChunkAccords
  <2>2. Heard(q, line) = q \o line.parts
    BY <1>3 DEF Heard, Cuts
  <2> QED
    BY <1>3, <2>1, <2>2 DEF ProcessGeminiSSELine
<1>4. ASSUME line.kind \in {"done", "apierror", "useless"}
      PROVE  Heard(q, line) = q
  BY <1>2, <1>4 DEF Heard, Cuts
<1>5. CASE line.kind = "done"
  <2>1. u = EmitFinish(t, "")
    BY <1>5 DEF ProcessGeminiSSELine, EmitForceStop
  <2>2. AllDelivered(EmitFinish(t, ""), q) /\ EmitFinish(t, "").stopped
    BY FinishAccords, FinishStops
  <2> HIDE DEF u
  <2>3. Accords(u, q)
    BY <2>1, <2>2, SameAccords
  <2> QED
    BY <1>4, <1>5, <2>3 DEF u
<1>6. CASE line.kind = "apierror"
  <2> DEFINE empty == Chunk(<<>>, NoGrounding, "")
             e == <<>>
  <2>1. u = ProcessChunk(t, empty)
    BY <1>6 DEF ProcessGeminiSSELine
  <2>2. empty.parts = e /\ empty.grounding \in Findings
    BY NoGroundingTyped DEF Chunk
  <2>3. e \in Seq(GeminiParts) /\ Clear(e) /\ q \o e = q
    <3>1. Len(e) = 0 /\ e \in Seq(GeminiParts)
      OBVIOUS
    <3> QED
      BY <1>2, <3>1 DEF Clear
  <2> HIDE DEF u, empty, e
  <2>5. Accords(ProcessChunk(t, empty), q \o empty.parts)
    BY <2>2, <2>3, ProcessChunkAccords
  <2>6. Accords(u, q)
    BY <2>1, <2>2, <2>3, <2>5
  <2> QED
    BY <1>4, <1>6, <2>6 DEF u
<1>7. CASE line.kind = "useless"
  <2>1. u = t
    BY <1>7 DEF ProcessGeminiSSELine, HandleParseError
  <2> QED
    BY <1>4, <1>7, <2>1, SameAccords
<1>8. CASE line.kind \in {"error", "partial"}
  <2> DEFINE x == line.text
  <2>1. u = ProcessText(EmitMessageStart(t), x, None) /\ Heard(q, line) = Append(q, Cut(x))
        /\ x \in Nat
    BY <1>1, <1>8 DEF ProcessGeminiSSELine, HandleParseError, Heard, Cuts
  <2> HIDE DEF x, u
  <2>2. Accords(ProcessText(EmitMessageStart(t), x, None), Append(q, Cut(x)))
    BY <2>1, CutAccords
  <2> QED
    BY <2>1, <2>2 DEF u
<1> QED
  BY <1>1, <1>3, <1>5, <1>6, <1>7, <1>8 DEF LineKinds

(* Every call and every image has something to say.                        *)
Spoken == \A a \in Shapes : a[2] => a[1] \notin {"call", "bare", "image"}

Clean(q) == \A j \in 1..Len(q) : Meaningful(q[j])

LEMMA CleanOne ==
  ASSUME NEW q \in Seq(GeminiParts), NEW p \in GeminiParts, Clean(q), Meaningful(p)
  PROVE  Clean(Append(q, p))
<1> DEFINE o == Append(q, p)
           n == Len(q)
<1>1. /\ Len(o) = n + 1 /\ o[n + 1] = p /\ n \in Nat
      /\ \A k \in 1..n : o[k] = q[k]
  BY AppendProperties
<1> HIDE DEF o
<1>2. ASSUME NEW j \in 1..n + 1 PROVE Meaningful(o[j])
  <2>1. j \in 1..n \/ j = n + 1
    BY <1>1
  <2> QED
    BY <1>1, <2>1 DEF Clean
<1>3. Clean(o)
  BY <1>1, <1>2 DEF Clean
<1> QED
  BY <1>3 DEF o

LEMMA CleanMore ==
  ASSUME NEW q \in Seq(GeminiParts), NEW p \in Seq(GeminiParts), Clean(q), Clean(p)
  PROVE  Clean(q \o p)
<1> DEFINE o == q \o p
           n == Len(q)
           l == Len(p)
<1>1. /\ Len(o) = n + l /\ n \in Nat /\ l \in Nat
      /\ \A k \in 1..n : o[k] = q[k]
      /\ \A k \in 1..l : o[n + k] = p[k]
  OBVIOUS
<1> HIDE DEF o
<1>2. ASSUME NEW j \in 1..n + l PROVE Meaningful(o[j])
  <2>1. CASE j \in 1..n
    BY <1>1, <2>1 DEF Clean
  <2>2. CASE j \notin 1..n
    <3> DEFINE i == j - n
    <3>1. i \in 1..l /\ n + i = j
      BY <1>1, <2>2
    <3> HIDE DEF i
    <3>2. o[j] = p[i]
      BY <1>1, <3>1
    <3> QED
      BY <3>1, <3>2 DEF Clean
  <2> QED
    BY <2>1, <2>2
<1>3. Clean(o)
  BY <1>1, <1>2 DEF Clean
<1> QED
  BY <1>3 DEF o

LEMMA PartMeaningful ==
  ASSUME Spoken, NEW k \in Nat \ {0}, NEW a \in Shapes
  PROVE  Meaningful(Part(k, a[1], a[2], a[3]))
<1> DEFINE p == Part(k, a[1], a[2], a[3])
<1>1. p.kind = a[1] /\ p.text = IF a[2] THEN None ELSE k
  BY DEF Part
<1>2. a[2] \in BOOLEAN
  BY ShapesAssumption
<1> HIDE DEF p
<1>3. Meaningful(p)
  BY <1>1, <1>2 DEF Meaningful, Spoken, None
<1> QED
  BY <1>3 DEF p

LEMMA PartsClean ==
  ASSUME Spoken, NEW k \in Nat \ {0}, NEW parts \in PartsFrom(k)
  PROVE  Clean(parts)
<1>1. CASE parts = <<>>
  BY <1>1 DEF Clean
<1>2. ASSUME NEW a \in Shapes, parts = <<Part(k, a[1], a[2], a[3])>>
      PROVE  Clean(parts)
  <2> DEFINE p == Part(k, a[1], a[2], a[3])
  <2>1. Meaningful(p)
    BY PartMeaningful
  <2> HIDE DEF p
  <2>2. Len(<<p>>) = 1 /\ <<p>>[1] = p /\ parts = <<p>>
    BY <1>2 DEF p
  <2>3. \A j \in 1..Len(parts) : j = 1 /\ parts[j] = p
    BY <2>2
  <2> QED
    BY <2>1, <2>3 DEF Clean
<1>3. ASSUME NEW a \in Shapes, NEW b \in Shapes,
             parts = <<Part(k, a[1], a[2], a[3]), Part(k + 1, b[1], b[2], b[3])>>
      PROVE  Clean(parts)
  <2> DEFINE p == Part(k, a[1], a[2], a[3])
             q == Part(k + 1, b[1], b[2], b[3])
  <2>1. Meaningful(p) /\ Meaningful(q)
    <3>1. k + 1 \in Nat \ {0}
      OBVIOUS
    <3> QED
      BY <3>1, PartMeaningful
  <2> HIDE DEF p, q
  <2>2. Len(<<p, q>>) = 2 /\ <<p, q>>[1] = p /\ <<p, q>>[2] = q /\ parts = <<p, q>>
    BY <1>3 DEF p, q
  <2>3. \A j \in 1..Len(parts) : (j = 1 /\ parts[j] = p) \/ (j = 2 /\ parts[j] = q)
    BY <2>2
  <2> QED
    BY <2>1, <2>3 DEF Clean
<1> QED
  BY <1>1, <1>2, <1>3 DEF PartsFrom

LEMMA LinesClean ==
  ASSUME Spoken, received \in Seq(GeminiParts), lines \in Nat, NEW line \in Lines
  PROVE  Clean(line.parts)
<1>0. Clean(<<>>)
  BY DEF Clean
<1>1. Arrival \in Nat \ {0}
  BY DEF Arrival
<1>2. line.parts = <<>> \/ line.parts \in NextParts
  BY OtherTyped, ChunkTyped DEF Lines
<1>3. CASE line.parts \in NextParts
  <2>1. line.parts \in PartsFrom(Arrival)
    BY <1>3 DEF NextParts
  <2> QED
    BY <1>1, <2>1, PartsClean
<1> QED
  BY <1>0, <1>2, <1>3

LEMMA HeardClean ==
  ASSUME NEW q \in Seq(GeminiParts), NEW line, LineTyped(line), Clean(line.parts), Clean(q)
  PROVE  Clean(Heard(q, line))
<1>1. line.parts \in Seq(GeminiParts) /\ line.text \in Nat
  BY DEF LineTyped
<1>2. CASE Cuts(line)
  <2> DEFINE p == Cut(line.text)
  <2>1. p \in GeminiParts /\ Meaningful(p)
    BY <1>1 DEF Cut, GeminiParts, PartKinds, None, Meaningful
  <2> HIDE DEF p
  <2>2. Clean(Append(q, p))
    BY <2>1, CleanOne
  <2> QED
    BY <1>2, <2>2 DEF Heard, p
<1>3. CASE ~Cuts(line)
  BY <1>1, <1>3, CleanMore DEF Heard
<1> QED
  BY <1>2, <1>3

(* What was heard of clear parts was clear before.                         *)
LEMMA HeardClear ==
  ASSUME NEW q \in Seq(GeminiParts), NEW line, LineTyped(line), Clear(Heard(q, line)),
         line.kind # "chunk" => line.parts = <<>>
  PROVE  Clear(q) /\ Clear(line.parts)
<1>1. line.parts \in Seq(GeminiParts) /\ line.text \in Nat
  BY DEF LineTyped
<1>2. CASE Cuts(line)
  <2> DEFINE p == Cut(line.text)
  <2>1. p \in GeminiParts
    BY <1>1 DEF Cut, GeminiParts, PartKinds, None
  <2>2. Clear(Append(q, p))
    BY <1>2 DEF Heard
  <2> HIDE DEF p
  <2>3. Clear(q)
    BY <2>1, <2>2, ClearOne
  <2>4. line.parts = <<>>
    BY <1>2 DEF Cuts
  <2>5. Clear(<<>>)
    BY DEF Clear
  <2> QED
    BY <2>3, <2>4, <2>5
<1>3. CASE ~Cuts(line)
  BY <1>1, <1>3, ClearMore DEF Heard
<1> QED
  BY <1>2, <1>3

-------------------------------------------------------------------------------
(* The invariant of the signatures: the streamed translation has delivered *)
(* those that the whole one has put into its blocks, and the same wait.    *)
SInv ==
    Spoken => /\ Clean(received)
              /\ orderly /\ Clear(received) => Accords(s, received)

LEMMA SInitially == Init => SInv
<1> SUFFICES ASSUME Init PROVE SInv
  OBVIOUS
<1>1. s = NewState /\ received = <<>>
  BY DEF Init
<1>2. /\ s.out = <<>> /\ s.pending = None /\ s.trailing = None /\ ~s.stopped
  BY <1>1 DEF NewState
<1>3. SignaturesMade(<<>>) = <<>>
  <2>1. MessageStart \in Events /\ <<>> \in Seq(Events)
    BY EventFacts DEF Kinds
  <2> QED
    BY <2>1, SignaturesMadeOne
<1>4. ConvertParts(<<>>) = Whole0 /\ Sigs(Whole0) = <<>> /\ Whole0.sig = None
      /\ Whole0.trailing = None
  BY ConvertNone, NothingCarried
<1>5. Waits(s, <<>>, None, None)
  BY <1>2, <1>3 DEF Waits
<1> HIDE DEF Whole0
<1>6. Waiting(s, <<>>)
  BY <1>4, <1>5 DEF Waiting
<1>7. Accords(s, received)
  BY <1>1, <1>2, <1>6, SameAccords
<1>8. Clean(<<>>)
  BY DEF Clean
<1> QED
  BY <1>1, <1>7, <1>8 DEF SInv

(* What a line adds has something to say.                                  *)
LEMMA TranslateClean ==
  ASSUME WInv, Clean(received), Spoken, Translate
  PROVE  Clean(received')
<1>1. received \in Seq(GeminiParts) /\ lines \in Nat
  BY DEF WInv
<1>2. PICK line \in Lines : s' = ProcessGeminiSSELine(s, line) /\ Record(line)
  BY DEF Translate
<1>3. LineTyped(line) /\ Clean(line.parts)
  BY <1>1, LinesTyped, LinesClean
<1>4. received' = Heard(received, line)
  BY <1>2 DEF Record, Heard, Cuts, Cut
<1> QED
  BY <1>1, <1>3, <1>4, HeardClean

LEMMA TranslateAccords ==
  ASSUME WInv, Translate, orderly /\ Clear(received) => Accords(s, received)
  PROVE  orderly' /\ Clear(received') => Accords(s', received')
<1>1. Fits(From(~orderly, <<>>), s) /\ received \in Seq(GeminiParts) /\ lines \in Nat
      /\ orderly \in BOOLEAN
  BY DEF WInv
<1>2. PICK line \in Lines : s' = ProcessGeminiSSELine(s, line) /\ Record(line)
  BY DEF Translate
<1>3. /\ LineTyped(line) /\ LineFits(line)
      /\ line.kind # "chunk" => line.parts = <<>>
  BY <1>1, LinesTyped, LinesFit DEF LineFits
<1>4. received' = Heard(received, line)
  BY <1>2 DEF Record, Heard, Cuts, Cut
<1>5. orderly' = (orderly /\ (s.stopped => line.kind = "done"))
  BY <1>2, ZenonT(60) DEF Record
<1> DEFINE goal == Accords(s', received')
           clear == Clear(received')
<1> HIDE DEF goal, clear
<1>6. SUFFICES ASSUME orderly, s.stopped => line.kind = "done", clear PROVE goal
  BY <1>5, ZenonT(60) DEF goal, clear
<1>7. Clear(received) /\ Clear(line.parts)
  BY <1>1, <1>3, <1>4, <1>6, HeardClear DEF clear
<1>8. Accords(s, received)
  BY <1>6, <1>7
<1> DEFINE base == From(FALSE, <<>>)
<1>9. Fits(base, s) /\ ~base.wild
  <2>1. (~orderly) = FALSE
    BY <1>1, <1>6
  <2>2. Fits(base, s)
    BY <1>1, <2>1
  <2> QED
    BY <2>2 DEF From
<1> HIDE DEF base
<1>10. CASE s.stopped
  <2>1. line.kind = "done" /\ line.parts = <<>>
    BY <1>3, <1>6, <1>10
  <2>2. s' = s
    BY <1>2, <1>10, <2>1 DEF ProcessGeminiSSELine, EmitForceStop
  <2>3. received \o <<>> = received
    BY <1>1, ConcatEmptySeq
  <2>4. received' = received
    BY <1>4, <2>1, <2>3 DEF Heard, Cuts
  <2> QED
    BY <1>8, <2>2, <2>4 DEF goal
<1>11. CASE ~s.stopped
  <2>1. Waiting(s, received)
    BY <1>8, <1>11, SameAccords
  <2>2. Accords(ProcessGeminiSSELine(s, line), Heard(received, line))
    BY <1>1, <1>3, <1>7, <1>9, <1>11, <2>1, ProcessLineAccords
  <2> QED
    BY <1>2, <1>4, <2>2 DEF goal
<1> QED
  BY <1>10, <1>11

LEMMA EndAccords ==
  ASSUME WInv, SInv, UNCHANGED upstreamVars, s' = EmitForceStop(s) \/ s' = s
  PROVE  SInv'
<1> SUFFICES ASSUME Spoken
             PROVE  Clean(received') /\ (orderly' /\ Clear(received') => Accords(s', received'))
  BY DEF SInv, Spoken
<1>1. /\ received' = received /\ orderly' = orderly /\ Clean(received)
      /\ orderly /\ Clear(received) => Accords(s, received)
  BY DEF SInv, upstreamVars
<1> DEFINE wild == ~orderly
           base == From(wild, <<>>)
<1>3. Fits(base, s)
  BY DEF WInv
<1> HIDE DEF base
<1>2. ASSUME orderly, Clear(received) PROVE Accords(s', received)
  <2>1. Accords(s, received)
    BY <1>1, <1>2
  <2>2. CASE s' = s
    BY <2>1, <2>2
  <2>3. CASE s' = EmitForceStop(s) /\ s.stopped
    BY <2>1, <2>3 DEF EmitForceStop
  <2>4. CASE s' = EmitForceStop(s) /\ ~s.stopped
    <3>1. s' = EmitFinish(s, "") /\ Waiting(s, received)
      BY <2>1, <2>4, SameAccords DEF EmitForceStop
    <3>2. AllDelivered(EmitFinish(s, ""), received) /\ EmitFinish(s, "").stopped
      BY <1>3, <2>4, <3>1, FinishAccords, FinishStops
    <3>3. Accords(EmitFinish(s, ""), received)
      BY <3>2, SameAccords
    <3> QED
      BY <3>1, <3>3
  <2> QED
    BY <2>2, <2>3, <2>4
<1> QED
  BY <1>1, <1>2

LEMMA SStep ==
  ASSUME LInv, BInv, RInv, SInv, [Next]_vars
  PROVE  SInv'
<1>0. WInv
  BY DEF LInv
<1>1. ASSUME Translate PROVE SInv'
  <2> SUFFICES ASSUME Spoken
               PROVE  Clean(received') /\ (orderly' /\ Clear(received') => Accords(s', received'))
    BY DEF SInv, Spoken
  <2>1. Clean(received) /\ (orderly /\ Clear(received) => Accords(s, received))
    BY DEF SInv
  <2>2. Clean(received')
    BY <1>0, <1>1, <2>1, TranslateClean
  <2>3. orderly' /\ Clear(received') => Accords(s', received')
    BY <1>0, <1>1, <2>1, TranslateAccords
  <2> QED
    BY <2>2, <2>3
<1>2. CASE ReadLine \/ CollectLine
  BY <1>1, <1>2 DEF ReadLine, CollectLine
<1>3. CASE StreamEnds
  BY <1>0, <1>3, EndAccords DEF StreamEnds
<1>4. CASE CollectEnds
  BY <1>0, <1>4, EndAccords DEF CollectEnds
<1>5. CASE WriteEvent
  BY <1>0, <1>5, EndAccords DEF WriteEvent
<1>6. CASE SeeClientGone
  BY <1>0, <1>6, EndAccords DEF SeeClientGone
<1>7. CASE StreamReturns
  BY <1>0, <1>7, EndAccords DEF StreamReturns
<1>8. CASE ClientLeaves
  BY <1>0, <1>8, EndAccords DEF ClientLeaves
<1>9. CASE UNCHANGED vars
  BY <1>0, <1>9, EndAccords DEF vars, upstreamVars
<1> QED
  BY <1>2, <1>3, <1>4, <1>5, <1>6, <1>7, <1>8, <1>9 DEF Next, Returned

LEMMA SignatureInvariant == Spec => [](LInv /\ RInv /\ SInv)
<1>1. LInv /\ BInv /\ RInv /\ SInv /\ [Next]_vars => SInv'
  BY SStep
<1> QED
  BY <1>1, SInitially, EndInvariant, PTL DEF Spec

(* The streamed and the whole translation of one answer say the same: the  *)
(* same texts, thoughts and calls in the same order, of what was found the *)
(* first query and the links (the whole response tells the other queries   *)
(* too), the same stop reason, and the same signatures unless an image or  *)
(* a thought that says nothing came.                                       *)
THEOREM TheTranslationsAgree ==
  ASSUME \A a \in Shapes : a[2] => a[1] \notin {"call", "bare", "image"}
  PROVE  Spec => []TranslationsAgree
<1>1. LInv /\ RInv /\ SInv => TranslationsAgree
  <2> DEFINE queries == IF sources.query = None THEN <<>> ELSE <<sources.query>>
             whole == ConvertGeminiToClaudeResponse(
                          received, Grounding(queries, sources.links), finish)
             w == ConvertParts(received)
  <2> SUFFICES ASSUME LInv, RInv, SInv, outcome = "ok", orderly
               PROVE  /\ PartsMade(s.out) = PartsOf(whole.content)
                      /\ \/ \E k \in 1..Len(received) : Disturbs(received[k])
                         \/ SignaturesMade(s.out) = SignaturesOf(whole.content)
                      /\ CollectClaudeSSEToJSON(s.out).reason = whole.reason
    BY DEF TranslationsAgree
  <2>1. /\ received \in Seq(GeminiParts) /\ sources \in Searches /\ s.stopped
        /\ Clean(received) /\ (Clear(received) => AllDelivered(s, received))
    BY DEF LInv, WInv, RInv, SInv, Spoken, Accords
  <2>2. Brings(received)
    BY <2>1, PartsCarried DEF Clean
  <2>3. /\ PartsOf(whole.content) = Tells(Said(received), sources)
        /\ SignaturesOf(whole.content) = Full(Sigs(w), w.sig, w.trailing)
        /\ whole.reason = ReasonOf(UsesTool(received), finish)
    <3>1. queries = Opt(sources.query)
      BY DEF Opt
    <3>2. whole = ConvertGeminiToClaudeResponse(
                      received, Grounding(Opt(sources.query), sources.links), finish)
      BY <3>1
    <3> HIDE DEF whole
    <3> QED
      BY <2>1, <2>2, <3>2, ResponseFacts
  <2> HIDE DEF whole
  <2>4. PartsMade(s.out) = PartsOf(whole.content)
    BY <2>1, <2>3, AccountFacts
  <2>5. CollectClaudeSSEToJSON(s.out).reason = whole.reason
    BY <2>1, <2>3, EndedMessage
  <2>6. ASSUME ~\E k \in 1..Len(received) : Disturbs(received[k])
        PROVE  SignaturesMade(s.out) = SignaturesOf(whole.content)
    <3>1. Clear(received)
      BY <2>1, <2>6 DEF Clear, Clean
    <3>2. AllDelivered(s, received)
      BY <2>1, <3>1
    <3> QED
      BY <2>3, <3>2 DEF AllDelivered
  <2> QED
    BY <2>4, <2>5, <2>6
<1> QED
  BY <1>1, SignatureInvariant, PTL
===============================================================================
