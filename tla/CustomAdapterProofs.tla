-------------------------- MODULE CustomAdapterProofs --------------------------
(***************************************************************************)
(* Theorems about an attempt of a custom provider, for every pair of       *)
(* formats, answers of any number of parts, and any batching of lines.     *)
(***************************************************************************)
EXTENDS CustomAdapter, SequenceLemmas, FiniteSetTheorems

-------------------------------------------------------------------------------
(* The formats' events, and what a converter keeps between two of them.    *)
Formats == {"claude", "openai", "gemini", "codex"}

ClaudeTypes == {"message_start", "content_block_start", "content_block_delta",
                "content_block_stop", "message_delta", "message_stop"}
OpenAITypes == {"chunk", "finish", "usage", "[DONE]"}
GeminiTypes == {"candidate", "finished"}
CodexTypes == {"response.created", "response.output_item.delta",
               "response.output_text.delta", "response.output_item.added",
               "response.completed", "response.done"}
Types == ClaudeTypes \cup OpenAITypes \cup GeminiTypes \cup CodexTypes \cup {"error"}

EventKinds == {"none", "text", "thought", "call", "signature", "end", "length", "calls",
               "retryable", "final"}

Events(T) == [type : T, i : Nat, kind : EventKinds, data : Seq(Int)]

CallMaps == UNION {[D -> Nat] : D \in {D \in SUBSET Nat : IsFiniteSet(D)}}

States(T) ==
    [id : BOOLEAN, thinking : BOOLEAN, thinkingStopped : BOOLEAN, content : BOOLEAN,
     contentStopped : BOOLEAN, mode : 0..2, calls : CallMaps, current : Nat,
     reason : EventKinds, out : Seq(Events(T))]

LEMMA EventTyped ==
  ASSUME NEW T, NEW type \in T, NEW i \in Nat, NEW kind \in EventKinds, NEW data \in Seq(Int)
  PROVE  E(type, i, kind, data) \in Events(T)
BY DEF E, Events

(* The events that carry no number and no text.                            *)
LEMMA PlainTyped ==
  ASSUME NEW T, NEW type \in T, NEW kind \in EventKinds
  PROVE  E(type, 0, kind, <<>>) \in Events(T)
<1>1. <<>> \in Seq(Int)
  OBVIOUS
<1> QED
  BY <1>1, EventTyped

LEMMA NewTyped == ASSUME NEW T PROVE NewTransformState \in States(T)
<1>1. << >> \in [{} -> Nat] /\ {} \in SUBSET Nat /\ IsFiniteSet({})
  BY FS_EmptySet
<1>2. << >> \in CallMaps
  BY <1>1 DEF CallMaps
<1>3. <<>> \in Seq(Events(T))
  OBVIOUS
<1> QED
  BY <1>2, <1>3 DEF NewTransformState, States, EventKinds

LEMMA EmitTyped ==
  ASSUME NEW T, NEW t \in States(T), NEW events \in Seq(Events(T))
  PROVE  /\ Emit(t, events) \in States(T)
         /\ Emit(t, events) = [t EXCEPT !.out = t.out \o events]
<1>1. t.out \o events \in Seq(Events(T))
  <2>1. t.out \in Seq(Events(T))
    BY DEF States
  <2> QED
    BY <2>1
<1> DEFINE o == t.out \o events
<1>2. o \in Seq(Events(T))
  BY <1>1
<1>3. Emit(t, events) = [t EXCEPT !.out = o]
  BY DEF Emit
<1> HIDE DEF o
<1>4. [t EXCEPT !.out = o] \in States(T)
  BY <1>2 DEF States
<1> QED
  BY <1>3, <1>4 DEF o

LEMMA EmitOne ==
  ASSUME NEW T, NEW t \in States(T), NEW e \in Events(T)
  PROVE  Emit(t, <<e>>) \in States(T)
<1>1. <<e>> \in Seq(Events(T))
  OBVIOUS
<1> QED
  BY <1>1, EmitTyped

LEMMA FirstTyped ==
  ASSUME NEW T, NEW t \in States(T), NEW events \in Seq(Events(T))
  PROVE  First(t, events) \in States(T)
<1>1. Emit(t, events) \in States(T)
  BY EmitTyped
<1>2. ASSUME NEW u \in States(T) PROVE [u EXCEPT !.id = TRUE] \in States(T)
  BY DEF States
<1> QED
  BY <1>1, <1>2 DEF First

-------------------------------------------------------------------------------
(* The texts around a tag.                                                 *)
LEMMA PlaceFound ==
  ASSUME NEW c \in Seq(Int), NEW tag
  PROVE  Place(c, tag) \in 0..Len(c)
<1> DEFINE I == {i \in 1..Len(c) : c[i] = tag}
<1>1. Place(c, tag) = IF I # {} THEN Min(I) ELSE 0
  BY DEF Place, SelectInSeq
<1>2. Len(c) \in Nat
  OBVIOUS
<1>3. CASE I # {}
  <2>1. PICK x \in I : \A y \in I : ~ (<<y, x>> \in OpToRel(<, Nat))
    <3>1. I \subseteq Nat /\ I # {}
      BY <1>2, <1>3
    <3> HIDE DEF I
    <3> QED
      BY <3>1, NatLessThanWellFounded, WFMin
  <2>2. \A y \in I : x <= y
    <3>1. ASSUME NEW y \in I PROVE x <= y
      <4>1. x \in Nat /\ y \in Nat
        BY <1>2
      <4>2. y < x => <<y, x>> \in OpToRel(<, Nat)
        BY <4>1 DEF OpToRel
      <4>3. ~ (<<y, x>> \in OpToRel(<, Nat))
        BY <2>1
      <4>4. ~ (y < x)
        BY <4>2, <4>3
      <4> HIDE DEF I
      <4> QED
        BY ONLY <4>1, <4>4
    <3> QED
      BY <3>1
  <2>3. Min(I) \in I
    <3> HIDE DEF I
    <3> QED
      BY <2>2 DEF Min
  <2> QED
    BY <1>1, <1>2, <1>3, <2>3
<1>4. CASE I = {}
  BY <1>1, <1>2, <1>4
<1> QED
  BY <1>3, <1>4

LEMMA AroundTyped ==
  ASSUME NEW c \in Seq(Int), NEW tag
  PROVE  Before(c, tag) \in Seq(Int) /\ After(c, tag) \in Seq(Int)
<1> DEFINE k == Place(c, tag)
<1>1. k \in 0..Len(c)
  BY PlaceFound
<1>2. Before(c, tag) = SubSeq(c, 1, k - 1) /\ After(c, tag) = SubSeq(c, k + 1, Len(c))
  BY DEF Before, After
<1> HIDE DEF k
<1>3. SubSeq(c, 1, k - 1) \in Seq(Int) /\ SubSeq(c, k + 1, Len(c)) \in Seq(Int)
  BY <1>1
<1> QED
  BY <1>2, <1>3

-------------------------------------------------------------------------------
(* OpenAI to Claude. All its events but [DONE] leave the message open, and *)
(* all but the finish say nothing of why it ended.                         *)
ClaudeOpen == ClaudeTypes \ {"message_stop"}
ClaudeBlocks == ClaudeOpen \ {"message_delta"}

LEMMA TextIndex == ASSUME NEW T, NEW t \in States(T) PROVE TextBlockIndex(t) \in Nat
BY DEF TextBlockIndex

LEMMA EmitTextTyped ==
  ASSUME NEW T, ClaudeBlocks \subseteq T, NEW t \in States(T), NEW text \in Seq(Int)
  PROVE  EmitText(t, text) \in States(T)
<1> DEFINE b == TextBlockIndex(t)
           start == IF t.content THEN <<>> ELSE <<Start(b, "text")>>
           events == Append(start, Delta(b, "text", text))
<1>1. b \in Nat
  BY TextIndex
<1>2. "content_block_start" \in T /\ "content_block_delta" \in T /\ "text" \in EventKinds
  BY DEF ClaudeBlocks, ClaudeOpen, ClaudeTypes, EventKinds
<1>3. Start(b, "text") \in Events(T) /\ Delta(b, "text", text) \in Events(T)
  <2>1. <<>> \in Seq(Int)
    OBVIOUS
  <2> HIDE DEF b
  <2> QED
    BY <1>1, <1>2, <2>1, EventTyped DEF Start, Delta
<1>4. events \in Seq(Events(T))
  BY <1>3
<1>5. EmitText(t, text) = IF text = <<>> THEN t
                          ELSE [Emit(t, events) EXCEPT !.content = TRUE]
  BY DEF EmitText
<1> HIDE DEF events
<1>6. Emit(t, events) \in States(T)
  BY <1>4, EmitTyped
<1>7. ASSUME NEW u \in States(T) PROVE [u EXCEPT !.content = TRUE] \in States(T)
  BY DEF States
<1> QED
  BY <1>5, <1>6, <1>7

LEMMA ThoughtsTyped ==
  ASSUME NEW T, ClaudeBlocks \subseteq T, NEW t \in States(T), NEW thoughts \in Seq(Int)
  PROVE  /\ EmitThoughts(t, thoughts) \in States(T)
         /\ OpenThinking(t) \in States(T)
<1>1. /\ "content_block_start" \in T /\ "content_block_delta" \in T
      /\ "thought" \in EventKinds /\ 0 \in Nat
  BY DEF ClaudeBlocks, ClaudeOpen, ClaudeTypes, EventKinds
<1>2. Start(0, "thought") \in Events(T) /\ Delta(0, "thought", thoughts) \in Events(T)
  <2>1. <<>> \in Seq(Int)
    OBVIOUS
  <2> QED
    BY <1>1, <2>1, EventTyped DEF Start, Delta
<1>3. Emit(t, <<Start(0, "thought")>>) \in States(T)
      /\ Emit(t, <<Delta(0, "thought", thoughts)>>) \in States(T)
  BY <1>2, EmitOne
<1>4. ASSUME NEW u \in States(T) PROVE [u EXCEPT !.thinking = TRUE] \in States(T)
  BY DEF States
<1> QED
  BY <1>3, <1>4 DEF EmitThoughts, OpenThinking

LEMMA ModeSet ==
  ASSUME NEW T, NEW t \in States(T), NEW m \in 0..2
  PROVE  [t EXCEPT !.mode = m] \in States(T)
BY DEF States

LEMMA InsideTyped ==
  ASSUME NEW T, ClaudeBlocks \subseteq T, NEW t \in States(T), NEW c \in Seq(Int)
  PROVE  Inside(t, c) \in [s : States(T), text : Seq(Int)]
<1>1. Before(c, Close) \in Seq(Int) /\ After(c, Close) \in Seq(Int) /\ <<>> \in Seq(Int)
  BY AroundTyped
<1>2. EmitThoughts(t, Before(c, Close)) \in States(T) /\ EmitThoughts(t, c) \in States(T)
  BY <1>1, ThoughtsTyped
<1>3. ASSUME NEW u \in States(T) PROVE [u EXCEPT !.mode = 2] \in States(T)
  <2>1. 2 \in 0..2
    OBVIOUS
  <2> QED
    BY <1>3, <2>1, ModeSet
<1>4. [EmitThoughts(t, Before(c, Close)) EXCEPT !.mode = 2] \in States(T)
  BY <1>2, <1>3
<1> QED
  BY <1>1, <1>2, <1>4 DEF Inside

LEMMA TagsTyped ==
  ASSUME NEW T, ClaudeBlocks \subseteq T, NEW t \in States(T), NEW c \in Seq(Int)
  PROVE  HandleStreamingThinkTags(t, c) \in [s : States(T), text : Seq(Int)]
<1>1. Before(c, Open) \in Seq(Int) /\ After(c, Open) \in Seq(Int)
  BY AroundTyped
<1>2. OpenThinking(t) \in States(T)
  <2>1. <<>> \in Seq(Int)
    OBVIOUS
  <2> QED
    BY <2>1, ThoughtsTyped
<1>3. ASSUME NEW u \in States(T) PROVE [u EXCEPT !.mode = 1] \in States(T)
  <2>1. 1 \in 0..2
    OBVIOUS
  <2> QED
    BY <1>3, <2>1, ModeSet
<1> DEFINE u == [OpenThinking(t) EXCEPT !.mode = 1]
           r == Inside(u, After(c, Open))
<1>4. u \in States(T)
  BY <1>2, <1>3
<1> HIDE DEF u
<1>5. r \in [s : States(T), text : Seq(Int)] /\ Inside(t, c) \in [s : States(T), text : Seq(Int)]
  BY <1>1, <1>4, InsideTyped
<1> HIDE DEF r
<1>6. Before(c, Open) \o r.text \in Seq(Int)
  BY <1>1, <1>5
<1>7. [r EXCEPT !.text = Before(c, Open) \o r.text] \in [s : States(T), text : Seq(Int)]
  BY <1>5, <1>6
<1> QED
  BY <1>5, <1>7 DEF HandleStreamingThinkTags, r, u

-------------------------------------------------------------------------------
(* The calls: a finite map from their numbers to their blocks.             *)
LEMMA CallMapFacts ==
  ASSUME NEW m \in CallMaps
  PROVE  /\ DOMAIN m \subseteq Nat /\ IsFiniteSet(DOMAIN m) /\ Cardinality(DOMAIN m) \in Nat
         /\ \A i \in DOMAIN m : m[i] \in Nat
<1>1. PICK D \in SUBSET Nat : IsFiniteSet(D) /\ m \in [D -> Nat]
  BY DEF CallMaps
<1> QED
  BY <1>1, FS_CardinalityType

LEMMA WithTyped ==
  ASSUME NEW m \in CallMaps, NEW i \in Nat, NEW b \in Nat
  PROVE  With(m, i, b) \in CallMaps /\ i \in DOMAIN With(m, i, b)
<1> DEFINE D == DOMAIN m \cup {i}
<1>1. D \in SUBSET Nat /\ IsFiniteSet(D)
  BY CallMapFacts, FS_AddElement
<1>2. With(m, i, b) = [y \in D |-> IF y = i THEN b ELSE m[y]]
  BY DEF With
<1>3. \A y \in D : (IF y = i THEN b ELSE m[y]) \in Nat
  BY CallMapFacts
<1>4. i \in D
  OBVIOUS
<1> HIDE DEF D
<1>5. With(m, i, b) \in [D -> Nat]
  BY <1>2, <1>3
<1> QED
  BY <1>1, <1>2, <1>4, <1>5 DEF CallMaps

LEMMA CloseTyped ==
  ASSUME NEW T, ClaudeBlocks \subseteq T, NEW t \in States(T)
  PROVE  CloseText(CloseThinking(t)) \in States(T)
<1>1. /\ "content_block_stop" \in T /\ "content_block_delta" \in T
      /\ "signature" \in EventKinds /\ "none" \in EventKinds
  BY DEF ClaudeBlocks, ClaudeOpen, ClaudeTypes, EventKinds
<1>2. <<>> \in Seq(Int) /\ 0 \in Nat
  OBVIOUS
<1>3. ASSUME NEW i \in Nat PROVE Stop(i) \in Events(T)
  BY <1>1, <1>2, EventTyped DEF Stop
<1>4. Delta(0, "signature", <<>>) \in Events(T)
  BY <1>1, <1>2, EventTyped DEF Delta
<1>5. <<Delta(0, "signature", <<>>), Stop(0)>> \in Seq(Events(T))
  BY <1>2, <1>3, <1>4
<1>6. Emit(t, <<Delta(0, "signature", <<>>), Stop(0)>>) \in States(T)
  BY <1>5, EmitTyped
<1>7. ASSUME NEW u \in States(T)
      PROVE  /\ [u EXCEPT !.thinkingStopped = TRUE] \in States(T)
             /\ [u EXCEPT !.contentStopped = TRUE] \in States(T)
  BY DEF States
<1>8. CloseThinking(t) \in States(T)
  BY <1>6, <1>7 DEF CloseThinking
<1> DEFINE u == CloseThinking(t)
<1>9. u \in States(T)
  BY <1>8
<1> HIDE DEF u
<1>10. Stop(TextBlockIndex(u)) \in Events(T)
  BY <1>3, <1>9, TextIndex
<1>11. Emit(u, <<Stop(TextBlockIndex(u))>>) \in States(T)
  BY <1>9, <1>10, EmitOne
<1>12. CloseText(u) \in States(T)
  BY <1>7, <1>9, <1>11 DEF CloseText
<1> QED
  BY <1>12 DEF u

LEMMA NextBlock == ASSUME NEW T, NEW t \in States(T) PROVE NextBlockIndex(t) \in Nat
<1> DEFINE B == {b \in {"thinking", "content"} : t[b]}
<1>1. IsFiniteSet({"thinking", "content"})
  <2>1. IsFiniteSet({"thinking"})
    BY FS_Singleton
  <2>2. IsFiniteSet({"thinking"} \cup {"content"})
    BY <2>1, FS_AddElement
  <2>3. {"thinking", "content"} = {"thinking"} \cup {"content"}
    OBVIOUS
  <2> QED
    BY <2>2, <2>3
<1>2. B \in SUBSET {"thinking", "content"}
  OBVIOUS
<1>3. NextBlockIndex(t) = Cardinality(B) + Cardinality(DOMAIN t.calls)
  BY DEF NextBlockIndex
<1> HIDE DEF B
<1>4. Cardinality(B) \in Nat
  BY <1>1, <1>2, FS_Subset, FS_CardinalityType
<1>5. t.calls \in CallMaps
  BY DEF States
<1> QED
  BY <1>3, <1>4, <1>5, CallMapFacts

LEMMA OpenCallTyped ==
  ASSUME NEW T, ClaudeBlocks \subseteq T, NEW t \in States(T), NEW i \in Nat
  PROVE  OpenCall(t, i) \in States(T) /\ i \in DOMAIN OpenCall(t, i).calls
<1> DEFINE u == CloseText(CloseThinking(t))
           b == NextBlockIndex(u)
<1>1. u \in States(T)
  BY CloseTyped
<1>2. OpenCall(t, i) = IF i \in DOMAIN t.calls THEN t
                       ELSE [Emit(u, <<Start(b, "call")>>) EXCEPT !.calls = With(@, i, b)]
  BY DEF OpenCall
<1> HIDE DEF u
<1>3. b \in Nat
  BY <1>1, NextBlock
<1> HIDE DEF b
<1>4. Start(b, "call") \in Events(T)
  <2>1. "content_block_start" \in T /\ "call" \in EventKinds
    BY DEF ClaudeBlocks, ClaudeOpen, ClaudeTypes, EventKinds
  <2>2. <<>> \in Seq(Int)
    OBVIOUS
  <2> QED
    BY <1>3, <2>1, <2>2, EventTyped DEF Start
<1> DEFINE v == Emit(u, <<Start(b, "call")>>)
<1>5. v \in States(T)
  BY <1>1, <1>4, EmitOne
<1> HIDE DEF v
<1>6. v.calls \in CallMaps
  BY <1>5 DEF States
<1> DEFINE m == With(v.calls, i, b)
<1>7. m \in CallMaps /\ i \in DOMAIN m
  BY <1>3, <1>6, WithTyped
<1> HIDE DEF m
<1>8. [v EXCEPT !.calls = m] \in States(T) /\ [v EXCEPT !.calls = m].calls = m
  BY <1>5, <1>7 DEF States
<1> QED
  BY <1>2, <1>7, <1>8 DEF m, v

LEMMA CallDeltaTyped ==
  ASSUME NEW T, ClaudeBlocks \subseteq T, NEW t \in States(T), NEW i \in DOMAIN t.calls,
         NEW args \in Seq(Int)
  PROVE  CallDelta(t, i, args) \in States(T)
<1>1. t.calls[i] \in Nat
  BY CallMapFacts DEF States
<1> DEFINE b == t.calls[i]
<1>2. "content_block_delta" \in T /\ "call" \in EventKinds
  BY DEF ClaudeBlocks, ClaudeOpen, ClaudeTypes, EventKinds
<1>3. CallDelta(t, i, args) = IF args = <<>> THEN t ELSE Emit(t, <<Delta(b, "call", args)>>)
  BY DEF CallDelta
<1> HIDE DEF b
<1>4. Delta(b, "call", args) \in Events(T)
  BY <1>1, <1>2, EventTyped DEF Delta, b
<1> QED
  BY <1>3, <1>4, EmitOne

LEMMA FinishTyped ==
  ASSUME NEW T, ClaudeBlocks \subseteq T, "message_delta" \in T,
         NEW t \in States(T), NEW reason \in EventKinds
  PROVE  FinishMessage(t, reason) \in States(T)
<1> DEFINE u == CloseText(CloseThinking(t))
           i == SetToSeq(DOMAIN u.calls)
           stops == [k \in DOMAIN i |-> Stop(u.calls[i[k]])]
<1>1. u \in States(T)
  BY CloseTyped
<1>2. FinishMessage(t, reason) = Emit(u, Append(CallStops(u), MessageDelta(reason)))
  BY DEF FinishMessage
<1>3. CallStops(u) = stops
  BY DEF CallStops
<1> HIDE DEF u
<1>4. u.calls \in CallMaps
  BY <1>1 DEF States
<1>5. i \in Seq(DOMAIN u.calls)
  BY <1>4, CallMapFacts, Listed
<1>6. "content_block_stop" \in T /\ "message_delta" \in T /\ "none" \in EventKinds
  BY DEF ClaudeBlocks, ClaudeOpen, ClaudeTypes, EventKinds
<1>7. ASSUME NEW n \in Nat PROVE Stop(n) \in Events(T)
  <2>1. <<>> \in Seq(Int)
    OBVIOUS
  <2> QED
    BY <1>6, <2>1, EventTyped DEF Stop
<1>8. stops \in Seq(Events(T))
  <2>1. \A k \in DOMAIN i : Stop(u.calls[i[k]]) \in Events(T)
    <3>1. ASSUME NEW k \in DOMAIN i PROVE Stop(u.calls[i[k]]) \in Events(T)
      <4>1. i[k] \in DOMAIN u.calls
        <5> HIDE DEF i
        <5> QED
          BY <1>5
      <4>2. u.calls[i[k]] \in Nat
        <5> HIDE DEF i
        <5> QED
          BY <1>4, <4>1, CallMapFacts
      <4> QED
        BY <1>7, <4>2
    <3> QED
      BY <3>1
  <2>2. DOMAIN i = 1..Len(i) /\ Len(i) \in Nat
    <3> HIDE DEF i
    <3> QED
      BY <1>5
  <2> HIDE DEF i
  <2> QED
    BY <2>1, <2>2
<1> HIDE DEF stops
<1>9. MessageDelta(reason) \in Events(T)
  BY <1>6, PlainTyped DEF MessageDelta
<1>10. Append(stops, MessageDelta(reason)) \in Seq(Events(T))
  BY <1>8, <1>9
<1> DEFINE events == Append(stops, MessageDelta(reason))
<1>11. events \in Seq(Events(T))
  BY <1>10
<1> HIDE DEF events
<1>12. Emit(u, events) \in States(T)
  BY <1>1, <1>11, EmitTyped
<1> QED
  BY <1>2, <1>3, <1>12 DEF events

LEMMA OpenAIToClaudeTyped ==
  ASSUME NEW T, ClaudeBlocks \subseteq T, NEW t \in States(T), NEW e \in Events(Types),
         e.type = "finish" => "message_delta" \in T, e.type = "[DONE]" => "message_stop" \in T
  PROVE  OpenAIToClaude(t, e) \in States(T)
<1> DEFINE u == First(t, <<MessageStart>>)
<1>1. e.i \in Nat /\ e.kind \in EventKinds /\ e.data \in Seq(Int)
  BY DEF Events
<1>2. u \in States(T)
  <2>1. "message_start" \in T /\ "none" \in EventKinds
    BY DEF ClaudeBlocks, ClaudeOpen, ClaudeTypes, EventKinds
  <2>2. <<MessageStart>> \in Seq(Events(T))
    BY <2>1, PlainTyped DEF MessageStart
  <2> QED
    BY <2>2, FirstTyped
<1> HIDE DEF u
<1>3. CASE e.type = "[DONE]"
  <2>1. "message_stop" \in T /\ "none" \in EventKinds
    BY <1>3 DEF EventKinds
  <2>2. Emit(t, <<MessageStop>>) \in States(T)
    BY <2>1, PlainTyped, EmitOne DEF MessageStop
  <2> QED
    BY <1>3, <2>2 DEF OpenAIToClaude
<1>4. CASE e.type = "finish"
  <2>1. FinishMessage(u, e.kind) \in States(T)
    BY <1>1, <1>2, <1>4, FinishTyped
  <2> QED
    BY <1>4, <2>1 DEF OpenAIToClaude, u
<1>5. CASE e.type = "chunk" /\ e.kind = "text" /\ e.data # <<>>
  <2> DEFINE r == HandleStreamingThinkTags(u, e.data)
  <2>1. r \in [s : States(T), text : Seq(Int)]
    BY <1>1, <1>2, TagsTyped
  <2> HIDE DEF r
  <2>2. EmitText(r.s, r.text) \in States(T)
    BY <2>1, EmitTextTyped
  <2>3. OpenAIToClaude(t, e) = EmitText(r.s, r.text)
    BY <1>5 DEF OpenAIToClaude, u, r
  <2> QED
    BY <2>2, <2>3
<1>6. CASE e.type = "chunk" /\ e.kind = "call"
  <2> DEFINE v == OpenCall(u, e.i)
  <2>1. v \in States(T) /\ e.i \in DOMAIN v.calls
    BY <1>1, <1>2, OpenCallTyped
  <2> HIDE DEF v
  <2>2. CallDelta(v, e.i, e.data) \in States(T)
    BY <1>1, <2>1, CallDeltaTyped
  <2>3. OpenAIToClaude(t, e) = CallDelta(v, e.i, e.data)
    BY <1>6 DEF OpenAIToClaude, u, v
  <2> QED
    BY <2>2, <2>3
<1>7. CASE e.type = "chunk" /\ e.kind # "call" /\ e.data = <<>>
  BY <1>2, <1>7 DEF OpenAIToClaude, u
<1>8. CASE /\ e.type \notin {"[DONE]", "finish"}
           /\ ~ (e.type = "chunk" /\ e.kind = "text" /\ e.data # <<>>)
           /\ ~ (e.type = "chunk" /\ e.kind = "call")
           /\ ~ (e.type = "chunk" /\ e.kind # "call" /\ e.data = <<>>)
  BY <1>8 DEF OpenAIToClaude
<1> QED
  BY <1>3, <1>4, <1>5, <1>6, <1>7, <1>8

-------------------------------------------------------------------------------
(* The other converters. An ordinary line of the upstream does not end the *)
(* client's message; Enders are the lines that do.                         *)
Unending(format) == Types \ Terminators(format)

Enders(f, g) ==
    CASE f = "claude" -> {"message_stop"}
      [] f = "openai" -> IF g = "gemini" THEN {"finish"}
                         ELSE IF g = "codex" THEN {"finish", "[DONE]"} ELSE {"[DONE]"}
      [] f = "gemini" -> {"finished"}
      [] f = "codex"  -> {"response.done"}

LineTypes(format) ==
    CASE format = "claude" -> ClaudeTypes
      [] format = "openai" -> OpenAITypes
      [] format = "gemini" -> GeminiTypes
      [] format = "codex"  -> CodexTypes \ {"response.completed"}

Ordinary(f, g) == (LineTypes(f) \cup {"error"}) \ Enders(f, g)

LEMMA MadeTyped ==
  ASSUME NEW T, NEW data \in Seq(Int), NEW kind \in EventKinds, NEW i \in Nat
  PROVE  /\ "message_start" \in T => MessageStart \in Events(T)
         /\ "content_block_start" \in T => Start(i, kind) \in Events(T)
         /\ "content_block_delta" \in T => Delta(i, kind, data) \in Events(T)
         /\ "content_block_stop" \in T => Stop(i) \in Events(T)
         /\ "message_delta" \in T => MessageDelta(kind) \in Events(T)
         /\ "message_stop" \in T => MessageStop \in Events(T)
         /\ "chunk" \in T => Chunk(i, kind, data) \in Events(T)
         /\ "finish" \in T => Finish(kind) \in Events(T)
         /\ "[DONE]" \in T => Done \in Events(T)
         /\ "candidate" \in T => Candidate(kind, data) \in Events(T)
         /\ "finished" \in T => Finished(kind) \in Events(T)
         /\ "response.created" \in T => Created \in Events(T)
         /\ "response.output_item.delta" \in T => ItemDelta(data) \in Events(T)
         /\ "response.done" \in T => ResponseDone \in Events(T)
         /\ "response.output_text.delta" \in T => TextDelta(data) \in Events(T)
         /\ "response.output_item.added" \in T => ItemAdded(data) \in Events(T)
         /\ "response.completed" \in T => Completed \in Events(T)
         /\ "usage" \in T => E("usage", 0, "none", <<>>) \in Events(T)
<1>1. /\ "none" \in EventKinds /\ "text" \in EventKinds /\ "call" \in EventKinds
      /\ 0 \in Nat /\ <<>> \in Seq(Int)
  BY DEF EventKinds
<1>2. ASSUME NEW ty \in T, NEW n \in Nat, NEW k \in EventKinds, NEW d \in Seq(Int)
      PROVE  E(ty, n, k, d) \in Events(T)
  BY <1>2, EventTyped
<1> QED
  BY <1>1, <1>2 DEF MessageStart, Start, Delta, Stop, MessageDelta, MessageStop, Chunk, Finish,
     Done, Candidate, Finished, Created, ItemDelta, ResponseDone, TextDelta, ItemAdded, Completed

(* Which lines may end what a client of a format reads, and T for which    *)
(* events it may read.                                                     *)
Allowed(f, g, T, e) ==
    /\ e \in Events(Types) /\ Unending(g) \subseteq T
    /\ Terminators(g) \subseteq T \/ e.type \in Ordinary(f, g)

LEMMA OpenAIToCodexTyped ==
  ASSUME NEW T, NEW t \in States(T), NEW e, Allowed("openai", "codex", T, e)
  PROVE  OpenAIToCodex(t, e) \in States(T)
<1> DEFINE u == First(t, <<Created>>)
<1>1. /\ e.data \in Seq(Int) /\ "none" \in EventKinds /\ 0 \in Nat
      /\ {"response.created", "response.output_item.delta"} \subseteq T
      /\ e.type \in {"[DONE]", "finish"} => "response.done" \in T
  BY DEF Allowed, Events, Unending, Types, CodexTypes, Terminators, Ordinary, Enders, EventKinds
<1>2. Created \in Events(T) /\ ItemDelta(e.data) \in Events(T)
      /\ ("response.done" \in T => ResponseDone \in Events(T))
  BY <1>1, MadeTyped
<1>3. <<Created>> \in Seq(Events(T)) /\ <<>> \in Seq(Events(T))
  BY <1>2
<1>4. u \in States(T)
  BY <1>3, FirstTyped
<1> HIDE DEF u
<1>5. /\ Emit(u, <<ItemDelta(e.data)>>) \in States(T)
      /\ e.type \in {"[DONE]", "finish"} =>
            Emit(u, <<ResponseDone>>) \in States(T) /\ Emit(t, <<ResponseDone>>) \in States(T)
      /\ Emit(t, <<>>) \in States(T) /\ Emit(t, <<Created>>) \in States(T)
  BY <1>1, <1>2, <1>3, <1>4, EmitOne, EmitTyped
<1> QED
  BY <1>4, <1>5 DEF OpenAIToCodex, u

LEMMA OpenAIToGeminiTyped ==
  ASSUME NEW T, NEW t \in States(T), NEW e, Allowed("openai", "gemini", T, e)
  PROVE  OpenAIToGemini(t, e) \in States(T)
<1>1. /\ e.data \in Seq(Int) /\ {"text", "length", "end"} \subseteq EventKinds /\ 0 \in Nat
      /\ "candidate" \in T
      /\ e.type = "finish" => "finished" \in T
  BY DEF Allowed, Events, Unending, Types, GeminiTypes, Terminators, Ordinary, Enders, EventKinds
<1>2. Candidate("text", e.data) \in Events(T)
      /\ ("finished" \in T => Finished("length") \in Events(T) /\ Finished("end") \in Events(T))
  BY <1>1, MadeTyped
<1>3. /\ Emit(t, <<Candidate("text", e.data)>>) \in States(T)
      /\ e.type = "finish" => /\ Emit(t, <<Finished("length")>>) \in States(T)
                              /\ Emit(t, <<Finished("end")>>) \in States(T)
  BY <1>1, <1>2, EmitOne
<1> QED
  BY <1>3 DEF OpenAIToGemini

LEMMA ClaudeToOpenAITyped ==
  ASSUME NEW T, NEW t \in States(T), NEW e, Allowed("claude", "openai", T, e)
  PROVE  ClaudeToOpenAI(t, e) \in States(T)
<1>1. OpenAITypes \subseteq T \/ e.type \in ClaudeOpen \cup {"error"}
  BY DEF Allowed, Unending, Types, OpenAITypes, ClaudeTypes, ClaudeOpen, Terminators, Ordinary,
     LineTypes, Enders
<1>2. /\ e.data \in Seq(Int) /\ {"text", "call"} \subseteq EventKinds /\ 0 \in Nat
      /\ <<>> \in Seq(Int) /\ e.i \in Nat /\ e.kind \in EventKinds
      /\ "chunk" \in T /\ "finish" \in T
      /\ e.type \in {"message_stop", "[DONE]"} => "[DONE]" \in T
      /\ t.calls \in CallMaps /\ t.reason \in EventKinds /\ t.current \in Nat
  BY <1>1 DEF Allowed, Events, Unending, Types, OpenAITypes, Terminators, EventKinds, ClaudeOpen,
     ClaudeTypes, States
<1>3. /\ Chunk(0, "text", <<>>) \in Events(T) /\ Chunk(0, "text", e.data) \in Events(T)
      /\ Chunk(t.current, "call", e.data) \in Events(T)
      /\ "[DONE]" \in T => Done \in Events(T) /\ Finish(t.reason) \in Events(T)
  BY <1>2, MadeTyped
<1>4. e.type \in {"message_stop", "[DONE]"} => <<Finish(t.reason), Done>> \in Seq(Events(T))
  BY <1>2, <1>3
<1>5. /\ Emit(t, <<Chunk(0, "text", <<>>)>>) \in States(T)
      /\ Emit(t, <<Chunk(0, "text", e.data)>>) \in States(T)
      /\ Emit(t, <<Chunk(t.current, "call", e.data)>>) \in States(T)
      /\ e.type \in {"message_stop", "[DONE]"} =>
            Emit(t, <<Finish(t.reason), Done>>) \in States(T) /\ Emit(t, <<Done>>) \in States(T)
  BY <1>2, <1>3, <1>4, EmitOne, EmitTyped
<1> DEFINE m == IF e.kind = "call" THEN With(t.calls, e.i, e.i) ELSE t.calls
<1>6. m \in CallMaps
  BY <1>2, WithTyped
<1>7. [t EXCEPT !.current = e.i,
                !.calls = IF e.kind = "call" THEN With(@, e.i, e.i) ELSE @]
        = [t EXCEPT !.current = e.i, !.calls = m]
  BY DEF States
<1> HIDE DEF m
<1>8. [t EXCEPT !.current = e.i, !.calls = m] \in States(T)
      /\ [t EXCEPT !.reason = e.kind] \in States(T)
  BY <1>2, <1>6 DEF States
<1> QED
  BY <1>5, <1>7, <1>8 DEF ClaudeToOpenAI

LEMMA ClaudeToCodexTyped ==
  ASSUME NEW T, NEW t \in States(T), NEW e, Allowed("claude", "codex", T, e)
  PROVE  ClaudeToCodex(t, e) \in States(T)
<1>1. /\ e.data \in Seq(Int) /\ "none" \in EventKinds /\ 0 \in Nat
      /\ {"response.created", "response.output_item.delta"} \subseteq T
      /\ e.type \in {"[DONE]", "message_stop"} => "response.done" \in T
  BY DEF Allowed, Events, Unending, Types, CodexTypes, ClaudeTypes, OpenAITypes, Terminators,
     Ordinary, LineTypes, Enders, EventKinds
<1>2. Created \in Events(T) /\ ItemDelta(e.data) \in Events(T)
      /\ ("response.done" \in T => ResponseDone \in Events(T))
  BY <1>1, MadeTyped
<1>3. /\ Emit(t, <<Created>>) \in States(T) /\ Emit(t, <<ItemDelta(e.data)>>) \in States(T)
      /\ e.type \in {"[DONE]", "message_stop"} => Emit(t, <<ResponseDone>>) \in States(T)
  BY <1>1, <1>2, EmitOne
<1> QED
  BY <1>3 DEF ClaudeToCodex

LEMMA ClaudeToGeminiTyped ==
  ASSUME NEW T, NEW t \in States(T), NEW e, Allowed("claude", "gemini", T, e)
  PROVE  ClaudeToGemini(t, e) \in States(T)
<1>1. /\ e.data \in Seq(Int) /\ {"text", "end"} \subseteq EventKinds /\ 0 \in Nat
      /\ "candidate" \in T
      /\ e.type = "message_stop" => "finished" \in T
  BY DEF Allowed, Events, Unending, Types, GeminiTypes, Terminators, Ordinary, Enders, EventKinds
<1>2. Candidate("text", e.data) \in Events(T)
      /\ ("finished" \in T => Finished("end") \in Events(T))
  BY <1>1, MadeTyped
<1>3. /\ Emit(t, <<Candidate("text", e.data)>>) \in States(T)
      /\ e.type = "message_stop" => Emit(t, <<Finished("end")>>) \in States(T)
  BY <1>1, <1>2, EmitOne
<1> QED
  BY <1>3 DEF ClaudeToGemini

LEMMA CodexToClaudeTyped ==
  ASSUME NEW T, NEW t \in States(T), NEW e, Allowed("codex", "claude", T, e)
  PROVE  CodexToClaude(t, e) \in States(T)
<1>1. /\ e.data \in Seq(Int) /\ {"text", "end"} \subseteq EventKinds /\ 0 \in Nat
      /\ ClaudeOpen \subseteq T
      /\ e.type = "response.done" => "message_stop" \in T
  BY DEF Allowed, Events, Unending, Types, ClaudeTypes, ClaudeOpen, Terminators, Ordinary,
     Enders, EventKinds
<1>2. /\ MessageStart \in Events(T) /\ Start(0, "text") \in Events(T)
      /\ Delta(0, "text", e.data) \in Events(T) /\ Stop(0) \in Events(T)
      /\ MessageDelta("end") \in Events(T)
      /\ "message_stop" \in T => MessageStop \in Events(T)
  BY <1>1, MadeTyped DEF ClaudeOpen, ClaudeTypes
<1>3. /\ <<MessageStart, Start(0, "text")>> \in Seq(Events(T))
      /\ e.type = "response.done" =>
            <<Stop(0), MessageDelta("end"), MessageStop>> \in Seq(Events(T))
  BY <1>1, <1>2
<1>4. /\ Emit(t, <<MessageStart, Start(0, "text")>>) \in States(T)
      /\ Emit(t, <<Delta(0, "text", e.data)>>) \in States(T)
      /\ e.type = "response.done" =>
            Emit(t, <<Stop(0), MessageDelta("end"), MessageStop>>) \in States(T)
  BY <1>2, <1>3, EmitOne, EmitTyped
<1> QED
  BY <1>4 DEF CodexToClaude

LEMMA CodexToOpenAITyped ==
  ASSUME NEW T, NEW t \in States(T), NEW e, Allowed("codex", "openai", T, e)
  PROVE  CodexToOpenAI(t, e) \in States(T)
<1>1. /\ e.data \in Seq(Int) /\ {"text", "end"} \subseteq EventKinds /\ 0 \in Nat
      /\ <<>> \in Seq(Int) /\ "chunk" \in T /\ "finish" \in T
      /\ e.type = "response.done" => "[DONE]" \in T
  BY DEF Allowed, Events, Unending, Types, OpenAITypes, Terminators, Ordinary, Enders, EventKinds
<1>2. /\ Chunk(0, "text", <<>>) \in Events(T) /\ Chunk(0, "text", e.data) \in Events(T)
      /\ Finish("end") \in Events(T) /\ ("[DONE]" \in T => Done \in Events(T))
  BY <1>1, MadeTyped
<1>3. e.type = "response.done" => <<Finish("end"), Done>> \in Seq(Events(T))
  BY <1>1, <1>2
<1>4. /\ Emit(t, <<Chunk(0, "text", <<>>)>>) \in States(T)
      /\ Emit(t, <<Chunk(0, "text", e.data)>>) \in States(T)
      /\ e.type = "response.done" => Emit(t, <<Finish("end"), Done>>) \in States(T)
  BY <1>2, <1>3, EmitOne, EmitTyped
<1> QED
  BY <1>4 DEF CodexToOpenAI

LEMMA GeminiToClaudeTyped ==
  ASSUME NEW T, NEW t \in States(T), NEW e, Allowed("gemini", "claude", T, e)
  PROVE  GeminiToClaude(t, e) \in States(T)
<1> DEFINE u == First(t, <<MessageStart, Start(0, "text")>>)
<1>1. /\ e.data \in Seq(Int) /\ {"text", "end"} \subseteq EventKinds /\ 0 \in Nat
      /\ e.kind \in EventKinds /\ ClaudeOpen \subseteq T
      /\ e.type = "finished" => "message_stop" \in T
  BY DEF Allowed, Events, Unending, Types, ClaudeTypes, ClaudeOpen, Terminators, Ordinary,
     Enders, EventKinds
<1>2. /\ MessageStart \in Events(T) /\ Start(0, "text") \in Events(T)
      /\ Delta(0, e.kind, e.data) \in Events(T) /\ Stop(0) \in Events(T)
      /\ MessageDelta(e.kind) \in Events(T)
      /\ "message_stop" \in T => MessageStop \in Events(T)
  BY <1>1, MadeTyped DEF ClaudeOpen, ClaudeTypes
<1>3. /\ <<MessageStart, Start(0, "text")>> \in Seq(Events(T))
      /\ e.type = "finished" =>
            <<Stop(0), MessageDelta(e.kind), MessageStop>> \in Seq(Events(T))
  BY <1>1, <1>2
<1>4. u \in States(T)
  BY <1>3, FirstTyped
<1> HIDE DEF u
<1>5. /\ Emit(u, <<Delta(0, e.kind, e.data)>>) \in States(T)
      /\ e.type = "finished" =>
            Emit(u, <<Stop(0), MessageDelta(e.kind), MessageStop>>) \in States(T)
  BY <1>2, <1>3, <1>4, EmitOne, EmitTyped
<1> QED
  BY <1>4, <1>5 DEF GeminiToClaude, u

LEMMA GeminiToOpenAITyped ==
  ASSUME NEW T, NEW t \in States(T), NEW e, Allowed("gemini", "openai", T, e)
  PROVE  GeminiToOpenAI(t, e) \in States(T)
<1> DEFINE u == First(t, <<Chunk(0, "text", <<>>)>>)
<1>1. /\ e.data \in Seq(Int) /\ {"text", "end"} \subseteq EventKinds /\ 0 \in Nat
      /\ e.kind \in EventKinds /\ <<>> \in Seq(Int) /\ "chunk" \in T /\ "finish" \in T
      /\ e.type = "finished" => "[DONE]" \in T
  BY DEF Allowed, Events, Unending, Types, OpenAITypes, Terminators, Ordinary, Enders, EventKinds
<1>2. /\ Chunk(0, "text", <<>>) \in Events(T) /\ Chunk(0, "text", e.data) \in Events(T)
      /\ Finish(e.kind) \in Events(T) /\ ("[DONE]" \in T => Done \in Events(T))
  BY <1>1, MadeTyped
<1>3. /\ e.type = "finished" => <<Finish(e.kind), Done>> \in Seq(Events(T))
      /\ <<Chunk(0, "text", <<>>)>> \in Seq(Events(T))
  BY <1>1, <1>2
<1>4. u \in States(T)
  BY <1>3, FirstTyped
<1> HIDE DEF u
<1>5. /\ Emit(u, <<Chunk(0, "text", e.data)>>) \in States(T)
      /\ e.type = "finished" => Emit(u, <<Finish(e.kind), Done>>) \in States(T)
  BY <1>2, <1>3, <1>4, EmitOne, EmitTyped
<1> QED
  BY <1>4, <1>5 DEF GeminiToOpenAI, u

(* The swapped ones.                                                       *)
LEMMA GeminiToCodexTyped ==
  ASSUME NEW T, NEW t \in States(T), NEW e, Allowed("gemini", "codex", T, e)
  PROVE  GeminiToCodex(t, e) \in States(T)
<1>1. /\ e.data \in Seq(Int) /\ {"text", "call", "end"} \subseteq EventKinds /\ 0 \in Nat
      /\ "candidate" \in T /\ "finished" \in T
  BY DEF Allowed, Events, Unending, Types, GeminiTypes, Terminators, EventKinds
<1>2. /\ Candidate("text", e.data) \in Events(T) /\ Candidate("call", e.data) \in Events(T)
      /\ Finished("end") \in Events(T)
  BY <1>1, MadeTyped
<1>3. /\ Emit(t, <<Candidate("text", e.data)>>) \in States(T)
      /\ Emit(t, <<Candidate("call", e.data)>>) \in States(T)
      /\ Emit(t, <<Finished("end")>>) \in States(T)
  BY <1>2, EmitOne
<1> QED
  BY <1>3 DEF GeminiToCodex

LEMMA CodexToGeminiTyped ==
  ASSUME NEW T, NEW t \in States(T), NEW e, Allowed("codex", "gemini", T, e)
  PROVE  CodexToGemini(t, e) \in States(T)
<1> DEFINE u == First(t, <<Created>>)
<1>1. /\ e.data \in Seq(Int) /\ "none" \in EventKinds /\ 0 \in Nat
      /\ CodexTypes \cup {"[DONE]"} \subseteq T
  BY DEF Allowed, Events, Unending, Types, CodexTypes, OpenAITypes, Terminators, EventKinds
<1>2. /\ Created \in Events(T) /\ TextDelta(e.data) \in Events(T)
      /\ ItemAdded(e.data) \in Events(T) /\ Completed \in Events(T) /\ Done \in Events(T)
  BY <1>1, MadeTyped DEF CodexTypes
<1>3. <<Completed, Done>> \in Seq(Events(T)) /\ <<Created>> \in Seq(Events(T))
  BY <1>2
<1>4. u \in States(T)
  BY <1>3, FirstTyped
<1> HIDE DEF u
<1>5. /\ Emit(u, <<TextDelta(e.data)>>) \in States(T)
      /\ Emit(u, <<ItemAdded(e.data)>>) \in States(T)
      /\ Emit(t, <<Completed, Done>>) \in States(T)
  BY <1>2, <1>3, <1>4, EmitOne, EmitTyped
<1> QED
  BY <1>4, <1>5 DEF CodexToGemini, u

(* Whatever line comes, a converter's events are of its format's kinds;    *)
(* an ordinary line makes none that ends the message.                      *)
LEMMA TransformTyped ==
  ASSUME NEW f \in Formats, NEW g \in Formats, NEW T, NEW t \in States(T), NEW e,
         Allowed(f, g, T, e), f = g => e.type \in T
  PROVE  TransformStreamChunk(f, g, t, e) \in States(T)
<1>1. CASE f = g
  <2>1. e \in Events(T)
    BY <1>1 DEF Allowed, Events
  <2>2. Emit(t, <<e>>) \in States(T)
    BY <2>1, EmitOne
  <2> QED
    BY <1>1, <2>2 DEF TransformStreamChunk
<1>2. CASE f = "openai" /\ g # f
  <2>1. CASE g = "claude"
    <3>1. ClaudeOpen \subseteq T /\ e \in Events(Types)
          /\ (e.type = "[DONE]" => "message_stop" \in T)
      BY <1>2, <2>1 DEF Allowed, Unending, Types, ClaudeTypes, ClaudeOpen, Terminators, Ordinary,
         Enders
    <3>3. ClaudeBlocks \subseteq T /\ "message_delta" \in T
      BY <3>1 DEF ClaudeBlocks, ClaudeOpen, ClaudeTypes
    <3>2. OpenAIToClaude(t, e) \in States(T)
      BY <3>1, <3>3, OpenAIToClaudeTyped
    <3> QED
      BY <1>2, <2>1, <3>2 DEF TransformStreamChunk
  <2>2. CASE g = "codex"
    BY <1>2, <2>2, OpenAIToCodexTyped DEF TransformStreamChunk
  <2>3. CASE g = "gemini"
    BY <1>2, <2>3, OpenAIToGeminiTyped DEF TransformStreamChunk
  <2> QED
    BY <1>2, <2>1, <2>2, <2>3 DEF Formats
<1>3. CASE f = "claude" /\ g # f
  <2>1. CASE g = "openai"
    BY <1>3, <2>1, ClaudeToOpenAITyped DEF TransformStreamChunk
  <2>2. CASE g = "codex"
    BY <1>3, <2>2, ClaudeToCodexTyped DEF TransformStreamChunk
  <2>3. CASE g = "gemini"
    BY <1>3, <2>3, ClaudeToGeminiTyped DEF TransformStreamChunk
  <2> QED
    BY <1>3, <2>1, <2>2, <2>3 DEF Formats
<1>4. CASE f = "codex" /\ g # f
  <2>1. CASE g = "claude"
    BY <1>4, <2>1, CodexToClaudeTyped DEF TransformStreamChunk
  <2>2. CASE g = "openai"
    BY <1>4, <2>2, CodexToOpenAITyped DEF TransformStreamChunk
  <2>3. CASE g = "gemini"
    BY <1>4, <2>3, CodexToGeminiTyped DEF TransformStreamChunk
  <2> QED
    BY <1>4, <2>1, <2>2, <2>3 DEF Formats
<1>5. CASE f = "gemini" /\ g # f
  <2>1. CASE g = "claude"
    BY <1>5, <2>1, GeminiToClaudeTyped DEF TransformStreamChunk
  <2>2. CASE g = "openai"
    BY <1>5, <2>2, GeminiToOpenAITyped DEF TransformStreamChunk
  <2>3. CASE g = "codex"
    BY <1>5, <2>3, GeminiToCodexTyped DEF TransformStreamChunk
  <2> QED
    BY <1>5, <2>1, <2>2, <2>3 DEF Formats
<1> QED
  BY <1>1, <1>2, <1>3, <1>4, <1>5 DEF Formats

-------------------------------------------------------------------------------
(* Messages that are over: their last event ends them and no other does.   *)
Closed(format, o) ==
    /\ o \in Seq(Events(Types)) /\ o # <<>>
    /\ \A k \in 1..Len(o) : o[k].type \in Terminators(format) <=> k = Len(o)

LEMMA ClosedBy ==
  ASSUME NEW g, NEW p \in Seq(Events(Unending(g))), NEW x \in Events(Types),
         x.type \in Terminators(g)
  PROVE  Closed(g, p \o <<x>>)
<1> DEFINE o == p \o <<x>>
           n == Len(p)
<1>1. Unending(g) \subseteq Types
  BY DEF Unending
<1>2. Events(Unending(g)) \subseteq Events(Types)
  BY <1>1 DEF Events
<1>3. p \in Seq(Events(Types)) /\ n \in Nat
  BY <1>2
<1>4. /\ o \in Seq(Events(Types)) /\ Len(o) = n + 1 /\ o[n + 1] = x
      /\ \A k \in 1..n : o[k] = p[k] /\ p[k] \in Events(Unending(g))
  BY <1>3
<1>5. ASSUME NEW k \in 1..n PROVE o[k].type \notin Terminators(g)
  BY <1>4, <1>5 DEF Events, Unending
<1>6. o # <<>>
  BY <1>3, <1>4
<1> HIDE DEF o
<1> QED
  BY <1>3, <1>4, <1>5, <1>6 DEF Closed, o

LEMMA ClosedAfter ==
  ASSUME NEW g, NEW p \in Seq(Events(Unending(g))), NEW o, Closed(g, o)
  PROVE  Closed(g, p \o o)
<1> DEFINE q == p \o o
           n == Len(p)
           m == Len(o)
<1>1. Events(Unending(g)) \subseteq Events(Types)
  BY DEF Unending, Events
<1>2. o \in Seq(Events(Types)) /\ p \in Seq(Events(Types)) /\ n \in Nat /\ m \in Nat \ {0}
  BY <1>1 DEF Closed
<1>3. /\ q \in Seq(Events(Types)) /\ Len(q) = n + m
      /\ \A k \in 1..n : q[k] = p[k] /\ p[k] \in Events(Unending(g))
      /\ \A k \in n + 1..n + m : q[k] = o[k - n] /\ k - n \in 1..m
  BY <1>2
<1>4. \A k \in 1..m : o[k].type \in Terminators(g) <=> k = m
  BY DEF Closed
<1> HIDE DEF q, n, m
<1>5. ASSUME NEW k \in 1..n + m PROVE q[k].type \in Terminators(g) <=> k = n + m
  <2>1. CASE k <= n
    <3>1. q[k] \in Events(Unending(g)) /\ k # n + m
      BY <1>2, <1>3, <2>1
    <3> QED
      BY <3>1 DEF Events, Unending
  <2>2. CASE k > n
    <3>1. k \in n + 1..n + m
      BY <1>2, <2>2
    <3>2. q[k] = o[k - n] /\ k - n \in 1..m
      BY <1>3, <3>1
    <3>3. q[k].type \in Terminators(g) <=> k - n = m
      BY <1>4, <3>2
    <3> QED
      BY <1>2, <3>3
  <2> QED
    BY <1>2, <2>1, <2>2
<1>6. q # <<>>
  BY <1>2, <1>3
<1> QED
  BY <1>3, <1>5, <1>6 DEF Closed, q

(* The pairs that end a message as their formats do.                       *)
Swapped == {<<"codex", "gemini">>, <<"gemini", "codex">>}
Sound(f, g) == <<f, g>> \notin EndsTwice \cup Swapped

LEMMA ClosedByOne ==
  ASSUME NEW g, NEW x \in Events(Types), x.type \in Terminators(g)
  PROVE  Closed(g, <<x>>)
<1>1. <<>> \in Seq(Events(Unending(g))) /\ <<>> \o <<x>> = <<x>>
  OBVIOUS
<1> QED
  BY <1>1, ClosedBy

LEMMA ClosedByTwo ==
  ASSUME NEW g, NEW y \in Events(Unending(g)), NEW x \in Events(Types),
         x.type \in Terminators(g)
  PROVE  Closed(g, <<y, x>>)
<1>1. y \in Events(Types) /\ y.type \notin Terminators(g)
  BY DEF Events, Unending
<1> DEFINE o == <<y, x>>
<1>2. o \in Seq(Events(Types)) /\ Len(o) = 2 /\ o[1] = y /\ o[2] = x
  BY <1>1
<1> HIDE DEF o
<1> QED
  BY <1>1, <1>2 DEF Closed, o

LEMMA ClosedByThree ==
  ASSUME NEW g, NEW z \in Events(Unending(g)), NEW y \in Events(Unending(g)),
         NEW x \in Events(Types), x.type \in Terminators(g)
  PROVE  Closed(g, <<z, y, x>>)
<1>1. /\ y \in Events(Types) /\ y.type \notin Terminators(g)
      /\ z \in Events(Types) /\ z.type \notin Terminators(g)
  BY DEF Events, Unending
<1> DEFINE o == <<z, y, x>>
<1>2. o \in Seq(Events(Types)) /\ Len(o) = 3 /\ o[1] = z /\ o[2] = y /\ o[3] = x
  BY <1>1
<1> HIDE DEF o
<1> QED
  BY <1>1, <1>2 DEF Closed, o

LEMMA OutOfEmit ==
  ASSUME NEW T, NEW t \in States(T), NEW events \in Seq(Events(T))
  PROVE  Emit(t, events).out = t.out \o events
<1> DEFINE o == t.out \o events
<1>1. Emit(t, events) = [t EXCEPT !.out = o]
  BY DEF Emit
<1> HIDE DEF o
<1>2. [t EXCEPT !.out = o].out = o
  BY DEF States
<1> QED
  BY <1>1, <1>2 DEF o

LEMMA OutOfFirst ==
  ASSUME NEW T, NEW t \in States(T), t.out = <<>>, NEW events \in Seq(Events(T))
  PROVE  First(t, events).out \in {<<>>, events}
<1>1. Emit(t, events).out = events /\ Emit(t, events) \in States(T)
  <2>1. <<>> \o events = events
    OBVIOUS
  <2> QED
    BY <2>1, OutOfEmit, EmitTyped
<1>2. ASSUME NEW u \in States(T) PROVE [u EXCEPT !.id = TRUE].out = u.out
  BY DEF States
<1> QED
  BY <1>1, <1>2 DEF First

(* The finish of a Claude message and of OpenAI's, after what came first.  *)
LEMMA FinishClaude ==
  ASSUME NEW p \in Seq(Events(Unending("claude"))), NEW kind \in EventKinds
  PROVE  Closed("claude", p \o <<Stop(0), MessageDelta(kind), MessageStop>>)
<1>1. /\ 0 \in Nat /\ <<>> \in Seq(Int)
      /\ {"content_block_stop", "message_delta"} \subseteq Unending("claude")
      /\ "message_stop" \in Types /\ "message_stop" \in Terminators("claude")
  BY DEF Unending, Types, ClaudeTypes, Terminators
<1>2. /\ Stop(0) \in Events(Unending("claude"))
      /\ MessageDelta(kind) \in Events(Unending("claude"))
      /\ MessageStop \in Events(Types) /\ MessageStop.type = "message_stop"
  BY <1>1, MadeTyped DEF MessageStop, E
<1>3. Closed("claude", <<Stop(0), MessageDelta(kind), MessageStop>>)
  BY <1>1, <1>2, ClosedByThree
<1> QED
  BY <1>3, ClosedAfter

LEMMA FinishOpenAI ==
  ASSUME NEW p \in Seq(Events(Unending("openai"))), NEW kind \in EventKinds
  PROVE  Closed("openai", p \o <<Finish(kind), Done>>)
<1>1. /\ 0 \in Nat /\ <<>> \in Seq(Int) /\ "finish" \in Unending("openai")
      /\ "[DONE]" \in Types /\ "[DONE]" \in Terminators("openai")
  BY DEF Unending, Types, OpenAITypes, Terminators
<1>2. /\ Finish(kind) \in Events(Unending("openai"))
      /\ Done \in Events(Types) /\ Done.type = "[DONE]"
  BY <1>1, MadeTyped DEF Done, E
<1>3. Closed("openai", <<Finish(kind), Done>>)
  BY <1>1, <1>2, ClosedByTwo
<1> QED
  BY <1>3, ClosedAfter

LEMMA EmitFromNothing ==
  ASSUME NEW t \in States(Types), t.out = <<>>, NEW x \in Events(Types)
  PROVE  Emit(t, <<x>>).out = <<x>>
<1>1. <<x>> \in Seq(Events(Types)) /\ <<>> \o <<x>> = <<x>>
  OBVIOUS
<1>2. Emit(t, <<x>>).out = t.out \o <<x>>
  BY <1>1, OutOfEmit
<1> QED
  BY <1>1, <1>2

(* The line that ends the upstream's answer ends the client's, at once and *)
(* for good.                                                               *)
LEMMA EnderCloses ==
  ASSUME NEW f \in Formats, NEW g \in Formats, Sound(f, g),
         NEW t \in States(Types), t.out = <<>>,
         NEW e \in Events(Types), e.type \in Enders(f, g)
  PROVE  Closed(g, TransformStreamChunk(f, g, t, e).out)
<1>1. /\ e.kind \in EventKinds /\ e.data \in Seq(Int) /\ 0 \in Nat /\ <<>> \in Seq(Int)
      /\ {"end", "length", "none", "text"} \subseteq EventKinds
      /\ t.reason \in EventKinds
      /\ <<f, g>> # <<"openai", "codex">> /\ <<f, g>> # <<"codex", "gemini">>
      /\ <<f, g>> # <<"gemini", "codex">>
  BY DEF Events, EventKinds, States, Sound, EndsTwice, Swapped
<1>2. /\ {"message_start", "content_block_start", "message_stop", "chunk", "finish", "[DONE]",
          "finished", "response.done", "content_block_stop", "message_delta"} \subseteq Types
  BY DEF Types, ClaudeTypes, OpenAITypes, GeminiTypes, CodexTypes
<1>3. /\ MessageStop \in Events(Types) /\ MessageStop.type = "message_stop"
      /\ Done \in Events(Types) /\ Done.type = "[DONE]"
      /\ ResponseDone \in Events(Types) /\ ResponseDone.type = "response.done"
      /\ \A k \in EventKinds : /\ Finished(k) \in Events(Types) /\ Finished(k).type = "finished"
                               /\ Finish(k) \in Events(Types)
                               /\ MessageDelta(k) \in Events(Types)
      /\ Stop(0) \in Events(Types)
  BY <1>1, <1>2, MadeTyped DEF MessageStop, Done, ResponseDone, Finished, E
<1>4. CASE f = g
  <2>1. e.type \in Terminators(g)
    BY <1>1, <1>4 DEF Enders, Terminators, Formats
  <2>2. Emit(t, <<e>>).out = <<e>>
    BY EmitFromNothing
  <2>3. TransformStreamChunk(f, g, t, e) = Emit(t, <<e>>)
    BY <1>4 DEF TransformStreamChunk
  <2> QED
    BY <2>1, <2>2, <2>3, ClosedByOne
<1>5. CASE f = "openai" /\ g = "claude"
  <2>1. e.type = "[DONE]"
    BY <1>5 DEF Enders
  <2>2. TransformStreamChunk(f, g, t, e) = Emit(t, <<MessageStop>>)
    BY <1>5, <2>1 DEF TransformStreamChunk, OpenAIToClaude
  <2>3. Emit(t, <<MessageStop>>).out = <<MessageStop>>
    BY <1>3, EmitFromNothing
  <2>4. MessageStop.type \in Terminators(g)
    BY <1>3, <1>5 DEF Terminators
  <2> QED
    BY <1>3, <2>2, <2>3, <2>4, ClosedByOne
<1>6. CASE f \in {"openai", "claude"} /\ g = "gemini"
  <2>1. PICK k \in EventKinds : TransformStreamChunk(f, g, t, e) = Emit(t, <<Finished(k)>>)
    <3>1. CASE f = "openai"
      <4>1. e.type = "finish"
        BY <1>6, <3>1 DEF Enders
      <4> QED
        BY <1>1, <1>6, <3>1, <4>1 DEF TransformStreamChunk, OpenAIToGemini
    <3>2. CASE f = "claude"
      <4>1. e.type = "message_stop"
        BY <1>6, <3>2 DEF Enders
      <4> QED
        BY <1>1, <1>6, <3>2, <4>1 DEF TransformStreamChunk, ClaudeToGemini
    <3> QED
      BY <1>6, <3>1, <3>2
  <2>2. Emit(t, <<Finished(k)>>).out = <<Finished(k)>>
    BY <1>3, EmitFromNothing
  <2>3. Finished(k).type \in Terminators(g)
    BY <1>3, <1>6 DEF Terminators
  <2> QED
    BY <1>3, <2>1, <2>2, <2>3, ClosedByOne
<1>7. CASE f = "claude" /\ g = "codex"
  <2>1. e.type = "message_stop"
    BY <1>7 DEF Enders
  <2>2. TransformStreamChunk(f, g, t, e) = Emit(t, <<ResponseDone>>)
    BY <1>7, <2>1 DEF TransformStreamChunk, ClaudeToCodex
  <2>3. Emit(t, <<ResponseDone>>).out = <<ResponseDone>>
    BY <1>3, EmitFromNothing
  <2>4. ResponseDone.type \in Terminators(g)
    BY <1>3, <1>7 DEF Terminators
  <2> QED
    BY <1>3, <2>2, <2>3, <2>4, ClosedByOne
<1>8. CASE f \in {"claude", "codex", "gemini"} /\ g = "openai"
  <2>1. PICK u \in States(Types), k \in EventKinds :
          /\ u.out \in Seq(Events(Unending(g)))
          /\ TransformStreamChunk(f, g, t, e) = Emit(u, <<Finish(k), Done>>)
    <3>1. t.out \in Seq(Events(Unending(g)))
      OBVIOUS
    <3>2. CASE f = "claude"
      <4>1. e.type = "message_stop"
        BY <1>8, <3>2 DEF Enders
      <4>2. TransformStreamChunk(f, g, t, e) = Emit(t, <<Finish(t.reason), Done>>)
        BY <1>8, <3>2, <4>1 DEF TransformStreamChunk, ClaudeToOpenAI
      <4> QED
        BY <1>1, <3>1, <4>2
    <3>3. CASE f = "codex"
      <4>1. e.type = "response.done"
        BY <1>8, <3>3 DEF Enders
      <4>2. TransformStreamChunk(f, g, t, e) = Emit(t, <<Finish("end"), Done>>)
        BY <1>8, <3>3, <4>1 DEF TransformStreamChunk, CodexToOpenAI
      <4> QED
        BY <1>1, <3>1, <4>2
    <3>4. CASE f = "gemini"
      <4> DEFINE first == <<Chunk(0, "text", <<>>)>>
                 u == First(t, first)
      <4>1. e.type = "finished"
        BY <1>8, <3>4 DEF Enders
      <4>2. TransformStreamChunk(f, g, t, e) = Emit(u, <<Finish(e.kind), Done>>)
        BY <1>8, <3>4, <4>1 DEF TransformStreamChunk, GeminiToOpenAI
      <4>3. "chunk" \in Unending(g) /\ Unending(g) \subseteq Types
        BY <1>2, <1>8 DEF Unending, Terminators
      <4>4. Chunk(0, "text", <<>>) \in Events(Unending(g))
            /\ Chunk(0, "text", <<>>) \in Events(Types)
        BY <1>1, <1>2, <4>3, MadeTyped
      <4>5. first \in Seq(Events(Unending(g))) /\ first \in Seq(Events(Types))
            /\ <<>> \in Seq(Events(Unending(g)))
        BY <4>4
      <4> HIDE DEF first
      <4>6. u \in States(Types) /\ u.out \in {<<>>, first}
        BY <4>5, FirstTyped, OutOfFirst
      <4> HIDE DEF u
      <4> QED
        BY <1>1, <4>2, <4>5, <4>6
    <3> QED
      BY <1>8, <3>2, <3>3, <3>4
  <2>2. <<Finish(k), Done>> \in Seq(Events(Types))
    BY <1>3
  <2>3. Emit(u, <<Finish(k), Done>>).out = u.out \o <<Finish(k), Done>>
    BY <2>2, OutOfEmit
  <2>4. Closed("openai", u.out \o <<Finish(k), Done>>)
    BY <1>8, <2>1, FinishOpenAI
  <2> QED
    BY <1>8, <2>1, <2>3, <2>4
<1>9. CASE f \in {"codex", "gemini"} /\ g = "claude"
  <2>1. PICK u \in States(Types), k \in EventKinds :
          /\ u.out \in Seq(Events(Unending(g)))
          /\ TransformStreamChunk(f, g, t, e) = Emit(u, <<Stop(0), MessageDelta(k), MessageStop>>)
    <3>1. t.out \in Seq(Events(Unending(g)))
      OBVIOUS
    <3>2. CASE f = "codex"
      <4>1. e.type = "response.done"
        BY <1>9, <3>2 DEF Enders
      <4>2. TransformStreamChunk(f, g, t, e) = Emit(t, <<Stop(0), MessageDelta("end"), MessageStop>>)
        BY <1>9, <3>2, <4>1 DEF TransformStreamChunk, CodexToClaude
      <4> QED
        BY <1>1, <3>1, <4>2
    <3>3. CASE f = "gemini"
      <4> DEFINE first == <<MessageStart, Start(0, "text")>>
                 u == First(t, first)
      <4>1. e.type = "finished"
        BY <1>9, <3>3 DEF Enders
      <4>2. TransformStreamChunk(f, g, t, e)
              = Emit(u, <<Stop(0), MessageDelta(e.kind), MessageStop>>)
        BY <1>9, <3>3, <4>1 DEF TransformStreamChunk, GeminiToClaude
      <4>3. {"message_start", "content_block_start"} \subseteq Unending(g)
        BY <1>2, <1>9 DEF Unending, Terminators
      <4>4. /\ MessageStart \in Events(Unending(g)) /\ MessageStart \in Events(Types)
            /\ Start(0, "text") \in Events(Unending(g)) /\ Start(0, "text") \in Events(Types)
        BY <1>1, <1>2, <4>3, MadeTyped
      <4>5. first \in Seq(Events(Unending(g))) /\ first \in Seq(Events(Types))
            /\ <<>> \in Seq(Events(Unending(g)))
        BY <4>4
      <4> HIDE DEF first
      <4>6. u \in States(Types) /\ u.out \in {<<>>, first}
        BY <4>5, FirstTyped, OutOfFirst
      <4> HIDE DEF u
      <4> QED
        BY <1>1, <4>2, <4>5, <4>6
    <3> QED
      BY <1>9, <3>2, <3>3
  <2>2. <<Stop(0), MessageDelta(k), MessageStop>> \in Seq(Events(Types))
    BY <1>3
  <2>3. Emit(u, <<Stop(0), MessageDelta(k), MessageStop>>).out
          = u.out \o <<Stop(0), MessageDelta(k), MessageStop>>
    BY <2>2, OutOfEmit
  <2>4. Closed("claude", u.out \o <<Stop(0), MessageDelta(k), MessageStop>>)
    BY <1>9, <2>1, FinishClaude
  <2> QED
    BY <1>9, <2>1, <2>3, <2>4
<1> QED
  BY <1>1, <1>4, <1>5, <1>6, <1>7, <1>8, <1>9 DEF Formats

-------------------------------------------------------------------------------
(* The upstream's lines: ordinary ones, one that ends the answer, and, in  *)
(* OpenAI's format, two that Gemini's has no word for.                     *)
Silent(f, g) ==
    IF f = "openai" /\ g = "gemini" THEN {"usage", "[DONE]", "error"} ELSE {}

Upcoming(f, g, r) ==
    /\ r \in Seq(Events(Types))
    /\ \E k \in 1..Len(r) :
          /\ r[k].type \in Enders(f, g)
          /\ \A j \in 1..k - 1 : r[j].type \in Ordinary(f, g)
          /\ \A j \in k + 1..Len(r) : r[j].type \in Silent(f, g)

PartTypes(format) ==
    CASE format = "claude" -> {"content_block_start", "content_block_delta", "content_block_stop"}
      [] format = "openai" -> {"chunk"}
      [] format = "gemini" -> {"candidate"}
      [] format = "codex"  -> {"response.output_item.delta", "response.output_item.added"}

LEMMA PartTypesOrdinary ==
  ASSUME NEW f \in Formats, NEW g \in Formats
  PROVE  PartTypes(f) \subseteq Ordinary(f, g) /\ PartTypes(f) \subseteq LineTypes(f)
BY DEF PartTypes, Ordinary, LineTypes, Enders, Formats, ClaudeTypes, OpenAITypes, GeminiTypes,
   CodexTypes

LEMMA PartLinesTyped ==
  ASSUME NEW f \in Formats, NEW n \in Nat, NEW a \in [1..n -> Kinds], NEW k \in 1..n
  PROVE  PartLines(f, a, k) \in Seq(Events(PartTypes(f)))
<1>1. /\ a[k] \in Kinds /\ a[k] \in EventKinds /\ k \in Nat /\ k - 1 \in Nat
      /\ "text" \in EventKinds /\ "call" \in EventKinds
  BY DEF Kinds, EventKinds
<1>2. <<k>> \in Seq(Int) /\ <<>> \in Seq(Int) /\ 0 \in Nat
  BY <1>1
<1>3. CASE f = "claude"
  <2>1. PartLines(f, a, k) = <<Start(k - 1, a[k]), Delta(k - 1, a[k], <<k>>), Stop(k - 1)>>
    BY <1>3 DEF PartLines
  <2>2. PartTypes(f) = {"content_block_start", "content_block_delta", "content_block_stop"}
    BY <1>3 DEF PartTypes
  <2>3. /\ Start(k - 1, a[k]) \in Events(PartTypes(f)) /\ Stop(k - 1) \in Events(PartTypes(f))
        /\ Delta(k - 1, a[k], <<k>>) \in Events(PartTypes(f))
    BY <1>1, <1>2, <2>2, MadeTyped
  <2> QED
    BY <2>1, <2>3
<1>4. CASE f = "gemini"
  <2>1. PartLines(f, a, k) = <<Candidate(a[k], <<k>>)>>
    BY <1>4 DEF PartLines
  <2>2. Candidate(a[k], <<k>>) \in Events(PartTypes(f))
    BY <1>1, <1>2, <1>4, MadeTyped DEF PartTypes
  <2> QED
    BY <2>1, <2>2
<1>5. CASE f = "codex"
  <2>1. PartLines(f, a, k) = <<IF a[k] = "text" THEN ItemDelta(<<k>>) ELSE ItemAdded(<<k>>)>>
    BY <1>5 DEF PartLines
  <2>2. ItemDelta(<<k>>) \in Events(PartTypes(f)) /\ ItemAdded(<<k>>) \in Events(PartTypes(f))
    BY <1>1, <1>2, <1>5, MadeTyped DEF PartTypes
  <2> QED
    BY <2>1, <2>2
<1>6. CASE f = "openai"
  <2>1. PartTypes(f) = {"chunk"}
    BY <1>6 DEF PartTypes
  <2>2. ASSUME NEW tokens \in Seq(Int) PROVE Texts(tokens) \in Seq(Events(PartTypes(f)))
    <3>1. ASSUME NEW j \in 1..Len(tokens)
          PROVE  Chunk(0, "text", <<tokens[j]>>) \in Events(PartTypes(f))
      <4>1. <<tokens[j]>> \in Seq(Int)
        BY <2>2
      <4> QED
        BY <1>1, <1>2, <2>1, <4>1, MadeTyped
    <3>2. Texts(tokens) = [j \in 1..Len(tokens) |-> Chunk(0, "text", <<tokens[j]>>)]
      BY <2>2 DEF Texts
    <3>3. Len(tokens) \in Nat
      BY <2>2
    <3> QED
      BY <3>1, <3>2, <3>3
  <2>3. CASE a[k] = "text"
    <3>1. PartLines(f, a, k) = Texts(<<k>>)
      BY <1>6, <2>3 DEF PartLines
    <3> QED
      BY <1>2, <2>2, <3>1
  <2>4. CASE a[k] = "thought"
    <3>1. PartLines(f, a, k) = Texts(Tagged(a, k))
      BY <1>6, <2>4 DEF PartLines
    <3>2. Tagged(a, k) \in Seq(Int)
      BY <1>1 DEF Tagged, Open, Close
    <3> QED
      BY <2>2, <3>1, <3>2
  <2>5. CASE a[k] = "call"
    <3> DEFINE C == {j \in 1..k - 1 : a[j] = "call"}
               c == Cardinality(C)
    <3>1. c \in Nat
      <4>1. IsFiniteSet(1..k - 1)
        BY FS_Interval
      <4>2. C \in SUBSET (1..k - 1)
        OBVIOUS
      <4> HIDE DEF C
      <4>3. IsFiniteSet(C)
        BY <4>1, <4>2, FS_Subset
      <4> QED
        BY <4>3, FS_CardinalityType
    <3>2. CallNo(a, k) = c
      BY DEF CallNo
    <3> HIDE DEF c
    <3>3. PartLines(f, a, k) = <<Chunk(c, "call", <<>>), Chunk(c, "call", <<k>>)>>
      BY <1>6, <2>5, <3>2 DEF PartLines
    <3>4. /\ Chunk(c, "call", <<>>) \in Events(PartTypes(f))
          /\ Chunk(c, "call", <<k>>) \in Events(PartTypes(f))
      BY <1>1, <1>2, <2>1, <3>1, MadeTyped
    <3> QED
      BY <3>3, <3>4
  <2> QED
    BY <1>1, <2>3, <2>4, <2>5 DEF Kinds
<1> QED
  BY <1>3, <1>4, <1>5, <1>6 DEF Formats

LEMMA PartsTyped ==
  ASSUME NEW f \in Formats, NEW n \in Nat, NEW a \in [1..n -> Kinds]
  PROVE  FlattenSeq([k \in DOMAIN a |-> PartLines(f, a, k)]) \in Seq(Events(PartTypes(f)))
<1> DEFINE ss == [k \in DOMAIN a |-> PartLines(f, a, k)]
<1>1. \A k \in 1..n : PartLines(f, a, k) \in Seq(Events(PartTypes(f)))
  BY PartLinesTyped
<1>2. ss = [k \in 1..n |-> PartLines(f, a, k)]
  OBVIOUS
<1>3. ss \in [1..n -> Seq(Events(PartTypes(f)))]
  BY <1>1, <1>2
<1> HIDE DEF ss
<1>4. ss \in Seq(Seq(Events(PartTypes(f))))
  BY <1>3
<1>5. FlattenSeq(ss) \in Seq(Events(PartTypes(f)))
  BY <1>4, FlattenTyped
<1> QED
  BY <1>5 DEF ss

(* What comes before the parts and what comes after them.                  *)
LEMMA LinesSplit ==
  ASSUME NEW f \in Formats, NEW n \in Nat, NEW a \in [1..n -> Kinds], cut \in BOOLEAN
  PROVE  \E p, x, q :
            /\ p \in Seq(Events(PartTypes(f)))
            /\ Lines(f, a) = x \o p \o q
            /\ x \in Seq(Events(LineTypes(f))) /\ q \in Seq(Events(LineTypes(f)))
            /\ \A g \in Formats : x \in Seq(Events(Ordinary(f, g)))
            /\ \A g \in Formats : Sound(f, g) => Upcoming(f, g, q)
<1> DEFINE p == FlattenSeq([k \in DOMAIN a |-> PartLines(f, a, k)])
<1>1. p \in Seq(Events(PartTypes(f)))
  BY PartsTyped
<1> HIDE DEF p
<1>2. /\ "none" \in EventKinds /\ "text" \in EventKinds /\ 0 \in Nat /\ <<>> \in Seq(Int)
      /\ "end" \in EventKinds /\ "length" \in EventKinds /\ Reason(a) \in EventKinds
  BY DEF EventKinds, Reason
<1>3. LineTypes(f) \subseteq Types
  BY DEF LineTypes, Types, Formats
<1>4. Events(LineTypes(f)) \subseteq Events(Types)
  BY <1>3 DEF Events
<1>5. CASE f = "claude"
  <2> DEFINE x == <<MessageStart>>
             d == MessageDelta(Reason(a))
             q == <<d, MessageStop>>
  <2>1. Lines(f, a) = x \o p \o q
    BY <1>5 DEF Lines, p
  <2>2. /\ "message_start" \in LineTypes(f) /\ "message_delta" \in LineTypes(f)
        /\ "message_stop" \in LineTypes(f)
        /\ \A g \in Formats : {"message_start", "message_delta"} \subseteq Ordinary(f, g)
        /\ \A g \in Formats : Enders(f, g) = {"message_stop"}
    BY <1>5 DEF LineTypes, ClaudeTypes, Ordinary, Enders
  <2>3. /\ MessageStart \in Events(LineTypes(f)) /\ d \in Events(LineTypes(f))
        /\ MessageStop \in Events(LineTypes(f))
        /\ \A g \in Formats : MessageStart \in Events(Ordinary(f, g))
    BY <1>2, <2>2, MadeTyped
  <2>4. d.type = "message_delta" /\ MessageStop.type = "message_stop"
    BY DEF MessageDelta, MessageStop, E
  <2> HIDE DEF d
  <2>5. /\ q \in Seq(Events(LineTypes(f))) /\ Len(q) = 2 /\ q[1] = d /\ q[2] = MessageStop
        /\ q \in Seq(Events(Types))
    BY <1>4, <2>3
  <2>6. x \in Seq(Events(LineTypes(f))) /\ \A g \in Formats : x \in Seq(Events(Ordinary(f, g)))
    BY <2>3
  <2> HIDE DEF q, x
  <2>7. ASSUME NEW g \in Formats PROVE Upcoming(f, g, q)
    <3>1. q[2].type \in Enders(f, g) /\ q[1].type \in Ordinary(f, g)
      BY <2>2, <2>4, <2>5
    <3> QED
      BY <2>5, <3>1 DEF Upcoming
  <2> QED
    BY <1>1, <2>1, <2>5, <2>6, <2>7
<1>6. CASE f = "openai"
  <2> DEFINE x == <<Chunk(0, "text", <<>>)>>
             d == Finish(Reason(a))
             u == E("usage", 0, "none", <<>>)
             q == <<d, u, Done>>
  <2>1. Lines(f, a) = x \o p \o q
    BY <1>6 DEF Lines, p
  <2>2. /\ {"chunk", "finish", "usage", "[DONE]"} \subseteq LineTypes(f)
        /\ \A g \in Formats : "chunk" \in Ordinary(f, g)
        /\ \A g \in {"claude", "openai"} : /\ {"finish", "usage"} \subseteq Ordinary(f, g)
                                           /\ Enders(f, g) = {"[DONE]"}
        /\ Enders(f, "gemini") = {"finish"}
        /\ {"usage", "[DONE]"} \subseteq Silent(f, "gemini")
    BY <1>6 DEF LineTypes, OpenAITypes, Ordinary, Enders, Silent, Formats
  <2>3. /\ Chunk(0, "text", <<>>) \in Events(LineTypes(f)) /\ d \in Events(LineTypes(f))
        /\ u \in Events(LineTypes(f)) /\ Done \in Events(LineTypes(f))
        /\ \A g \in Formats : Chunk(0, "text", <<>>) \in Events(Ordinary(f, g))
    BY <1>2, <2>2, MadeTyped
  <2>4. d.type = "finish" /\ u.type = "usage" /\ Done.type = "[DONE]"
    BY DEF Finish, Done, E
  <2> HIDE DEF d, u
  <2>5. /\ q \in Seq(Events(LineTypes(f))) /\ Len(q) = 3 /\ q[1] = d /\ q[2] = u /\ q[3] = Done
        /\ q \in Seq(Events(Types))
    BY <1>4, <2>3
  <2>6. x \in Seq(Events(LineTypes(f))) /\ \A g \in Formats : x \in Seq(Events(Ordinary(f, g)))
    BY <2>3
  <2> HIDE DEF q, x
  <2>7. ASSUME NEW g \in Formats, Sound(f, g) PROVE Upcoming(f, g, q)
    <3>1. CASE g \in {"claude", "openai"}
      <4>1. /\ q[3].type \in Enders(f, g) /\ q[1].type \in Ordinary(f, g)
            /\ q[2].type \in Ordinary(f, g)
        BY <2>2, <2>4, <2>5, <3>1
      <4>2. \A j \in 1..2 : q[j].type \in Ordinary(f, g)
        <5>1. 1..2 = {1, 2}
          OBVIOUS
        <5> QED
          BY <4>1, <5>1
      <4> QED
        BY <2>5, <4>1, <4>2 DEF Upcoming
    <3>2. CASE g = "gemini"
      <4>1. /\ q[1].type \in Enders(f, g) /\ q[2].type \in Silent(f, g)
            /\ q[3].type \in Silent(f, g)
        BY <2>2, <2>4, <2>5, <3>2
      <4>2. \A j \in 2..3 : q[j].type \in Silent(f, g)
        <5>1. 2..3 = {2, 3}
          OBVIOUS
        <5> QED
          BY <4>1, <5>1
      <4> QED
        BY <2>5, <4>1, <4>2 DEF Upcoming
    <3>3. g # "codex"
      BY <1>6, <2>7 DEF Sound, EndsTwice
    <3> QED
      BY <3>1, <3>2, <3>3 DEF Formats
  <2> QED
    BY <1>1, <2>1, <2>5, <2>6, <2>7
<1>7. CASE f = "codex"
  <2> DEFINE x == <<Created>>
             q == <<ResponseDone>>
  <2>1. Lines(f, a) = x \o p \o q
    BY <1>7 DEF Lines, p
  <2>2. /\ {"response.created", "response.done"} \subseteq LineTypes(f)
        /\ \A g \in Formats : "response.created" \in Ordinary(f, g)
        /\ \A g \in Formats : Enders(f, g) = {"response.done"}
    BY <1>7 DEF LineTypes, CodexTypes, Ordinary, Enders
  <2>3. /\ Created \in Events(LineTypes(f)) /\ ResponseDone \in Events(LineTypes(f))
        /\ \A g \in Formats : Created \in Events(Ordinary(f, g))
    BY <1>2, <2>2, MadeTyped
  <2>4. ResponseDone.type = "response.done"
    BY DEF ResponseDone, E
  <2>5. /\ q \in Seq(Events(LineTypes(f))) /\ Len(q) = 1 /\ q[1] = ResponseDone
        /\ q \in Seq(Events(Types))
    BY <1>4, <2>3
  <2>6. x \in Seq(Events(LineTypes(f))) /\ \A g \in Formats : x \in Seq(Events(Ordinary(f, g)))
    BY <2>3
  <2> HIDE DEF q, x
  <2>7. ASSUME NEW g \in Formats PROVE Upcoming(f, g, q)
    <3>1. q[1].type \in Enders(f, g)
      BY <2>2, <2>4, <2>5
    <3> QED
      BY <2>5, <3>1 DEF Upcoming
  <2> QED
    BY <1>1, <2>1, <2>5, <2>6, <2>7
<1>8. CASE f = "gemini"
  <2> DEFINE x == <<>>
             d == Finished(IF cut THEN "length" ELSE "end")
             q == <<d>>
  <2>1. Lines(f, a) = x \o p \o q
    BY <1>8 DEF Lines, p
  <2>2. /\ "finished" \in LineTypes(f)
        /\ \A g \in Formats : Enders(f, g) = {"finished"}
    BY <1>8 DEF LineTypes, GeminiTypes, Enders
  <2>3. d \in Events(LineTypes(f))
    BY <1>2, <2>2, MadeTyped
  <2>4. d.type = "finished"
    BY DEF Finished, E
  <2> HIDE DEF d
  <2>5. /\ q \in Seq(Events(LineTypes(f))) /\ Len(q) = 1 /\ q[1] = d
        /\ q \in Seq(Events(Types))
    BY <1>4, <2>3
  <2>6. x \in Seq(Events(LineTypes(f))) /\ \A g \in Formats : x \in Seq(Events(Ordinary(f, g)))
    OBVIOUS
  <2> HIDE DEF q, x
  <2>7. ASSUME NEW g \in Formats PROVE Upcoming(f, g, q)
    <3>1. q[1].type \in Enders(f, g)
      BY <2>2, <2>4, <2>5
    <3> QED
      BY <2>5, <3>1 DEF Upcoming
  <2> QED
    BY <1>1, <2>1, <2>5, <2>6, <2>7
<1> QED
  BY <1>5, <1>6, <1>7, <1>8 DEF Formats

LEMMA UpcomingAfter ==
  ASSUME NEW f, NEW g, NEW p \in Seq(Events(Ordinary(f, g))), p \in Seq(Events(Types)),
         NEW q, Upcoming(f, g, q)
  PROVE  Upcoming(f, g, p \o q)
<1> DEFINE r == p \o q
           n == Len(p)
           m == Len(q)
<1>1. q \in Seq(Events(Types)) /\ n \in Nat /\ m \in Nat
  BY DEF Upcoming
<1>2. /\ r \in Seq(Events(Types)) /\ Len(r) = n + m
      /\ \A j \in 1..n : r[j] = p[j] /\ p[j] \in Events(Ordinary(f, g))
      /\ \A j \in 1..m : r[n + j] = q[j]
  BY <1>1
<1>3. PICK k \in 1..m : /\ q[k].type \in Enders(f, g)
                        /\ \A j \in 1..k - 1 : q[j].type \in Ordinary(f, g)
                        /\ \A j \in k + 1..m : q[j].type \in Silent(f, g)
  BY DEF Upcoming
<1> HIDE DEF r, n, m
<1>4. n + k \in 1..Len(r) /\ r[n + k].type \in Enders(f, g)
  BY <1>1, <1>2, <1>3
<1>5. ASSUME NEW j \in 1..(n + k) - 1 PROVE r[j].type \in Ordinary(f, g)
  <2>1. CASE j <= n
    <3>1. j \in 1..n
      BY <1>1, <2>1
    <3>2. r[j] \in Events(Ordinary(f, g))
      BY <1>2, <3>1
    <3> QED
      BY <3>2 DEF Events
  <2>2. CASE j > n
    <3>1. j - n \in 1..k - 1 /\ j - n \in 1..m /\ n + (j - n) = j
      BY <1>1, <2>2
    <3>2. r[j] = q[j - n]
      BY <1>2, <3>1
    <3> QED
      BY <1>3, <3>1, <3>2
  <2> QED
    BY <1>1, <2>1, <2>2
<1>6. ASSUME NEW j \in n + k + 1..Len(r) PROVE r[j].type \in Silent(f, g)
  <2>1. j - n \in k + 1..m /\ j - n \in 1..m /\ n + (j - n) = j
    BY <1>1, <1>2
  <2>2. r[j] = q[j - n]
    BY <1>2, <2>1
  <2> QED
    BY <1>3, <2>1, <2>2
<1>7. Upcoming(f, g, r)
  <2> DEFINE l == n + k
  <2>1. l \in 1..Len(r) /\ r[l].type \in Enders(f, g)
    BY <1>4
  <2>2. \A j \in 1..l - 1 : r[j].type \in Ordinary(f, g)
    BY <1>5
  <2>3. \A j \in l + 1..Len(r) : r[j].type \in Silent(f, g)
    BY <1>6
  <2> HIDE DEF l
  <2> QED
    BY <1>2, <2>1, <2>2, <2>3 DEF Upcoming
<1> QED
  BY <1>7 DEF r

(* The answer as it comes in: typed, and ended once.                       *)
LEMMA LinesFacts ==
  ASSUME NEW f \in Formats, NEW a \in Answers, cut \in BOOLEAN
  PROVE  /\ Lines(f, a) \in Seq(Events(LineTypes(f)))
         /\ \A g \in Formats : Sound(f, g) => Upcoming(f, g, Lines(f, a))
<1>1. PICK n \in 0..MaxParts : a \in [1..n -> Kinds]
  BY DEF Answers
<1>2. n \in Nat
  BY BoundAssumption
<1>3. PICK p, x, q :
            /\ p \in Seq(Events(PartTypes(f)))
            /\ Lines(f, a) = x \o p \o q
            /\ x \in Seq(Events(LineTypes(f))) /\ q \in Seq(Events(LineTypes(f)))
            /\ \A g \in Formats : x \in Seq(Events(Ordinary(f, g)))
            /\ \A g \in Formats : Sound(f, g) => Upcoming(f, g, q)
  BY <1>1, <1>2, LinesSplit
<1>4. LineTypes(f) \subseteq Types
  BY DEF LineTypes, Types, Formats
<1>5. Events(PartTypes(f)) \subseteq Events(LineTypes(f))
      /\ Events(LineTypes(f)) \subseteq Events(Types)
  BY <1>4, PartTypesOrdinary DEF Events
<1>6. x \o p \in Seq(Events(LineTypes(f)))
  BY <1>3, <1>5
<1>7. Lines(f, a) \in Seq(Events(LineTypes(f)))
  BY <1>3, <1>6
<1>8. ASSUME NEW g \in Formats, Sound(f, g) PROVE Upcoming(f, g, Lines(f, a))
  <2>1. Events(PartTypes(f)) \subseteq Events(Ordinary(f, g))
    BY PartTypesOrdinary DEF Events
  <2>2. p \in Seq(Events(Ordinary(f, g))) /\ x \in Seq(Events(Ordinary(f, g)))
    BY <1>3, <2>1
  <2>3. x \o p \in Seq(Events(Ordinary(f, g)))
    BY <2>2
  <2>4. x \o p \in Seq(Events(Types))
    BY <1>5, <1>6
  <2>5. Upcoming(f, g, q)
    BY <1>3, <1>8
  <2> DEFINE y == x \o p
  <2>6. y \in Seq(Events(Ordinary(f, g))) /\ y \in Seq(Events(Types))
    BY <2>3, <2>4
  <2>7. Lines(f, a) = y \o q
    BY <1>3
  <2> HIDE DEF y
  <2> QED
    BY <2>5, <2>6, <2>7, UpcomingAfter
<1> QED
  BY <1>7, <1>8

-------------------------------------------------------------------------------
(* What a read takes from the lines that are left.                         *)
Proper(r) ==
    /\ r \in Seq(Events(Types))
    /\ \A j \in 1..Len(r) : r[j].type = "error" => r[j].kind \in {"retryable", "final"}

LEMMA ErrorEventTyped ==
  ASSUME NEW b \in BOOLEAN
  PROVE  /\ ErrorEvent(b) \in Events({"error"}) /\ ErrorEvent(b).type = "error"
         /\ ErrorEvent(b).kind \in {"retryable", "final"}
         /\ Proper(<<ErrorEvent(b)>>) /\ Len(<<ErrorEvent(b)>>) = 1
         /\ <<ErrorEvent(b)>>[1] = ErrorEvent(b)
<1> DEFINE x == ErrorEvent(b)
<1>1. <<>> \in Seq(Int) /\ 0 \in Nat /\ "error" \in Types
  BY DEF Types
<1>2. /\ x \in Events({"error"}) /\ x \in Events(Types)
      /\ x.type = "error" /\ x.kind \in {"retryable", "final"}
  BY <1>1 DEF ErrorEvent, E, Events, EventKinds
<1> HIDE DEF x
<1>3. <<x>> \in Seq(Events(Types)) /\ Len(<<x>>) = 1 /\ <<x>>[1] = x
  BY <1>2
<1>4. Proper(<<x>>)
  BY <1>2, <1>3 DEF Proper
<1> QED
  BY <1>2, <1>3, <1>4 DEF x

LEMMA BatchFacts ==
  ASSUME Proper(rest), NEW n \in Batches
  PROVE  /\ n \in 1..Len(rest) /\ Batch(n) \in Events(Types)
         /\ \/ n = 1 /\ Batch(n) = rest[1]
            \/ /\ n > 1 /\ Batch(n).type = "chunk"
               /\ \A j \in 1..n : rest[j].type = "chunk"
         /\ Batch(n).type = "error" => Batch(n).kind \in {"retryable", "final"}
         /\ SubSeq(rest, n + 1, Len(rest)) \in Seq(Events(Types))
         /\ Len(SubSeq(rest, n + 1, Len(rest))) = Len(rest) - n
         /\ \A j \in 1..Len(rest) - n : SubSeq(rest, n + 1, Len(rest))[j] = rest[n + j]
         /\ Proper(SubSeq(rest, n + 1, Len(rest)))
<1>1. /\ n \in 1..Len(rest) /\ rest \in Seq(Events(Types)) /\ Len(rest) \in Nat
      /\ n = 1 \/ \A j \in 1..n : rest[j].type = "chunk" /\ rest[j].kind = "text"
                                     /\ rest[j].data # <<>>
  BY DEF Batches, Proper
<1> DEFINE r == SubSeq(rest, n + 1, Len(rest))
<1>2. /\ r \in Seq(Events(Types)) /\ Len(r) = Len(rest) - n
      /\ \A j \in 1..Len(rest) - n : r[j] = rest[n + j]
  BY <1>1
<1> HIDE DEF r
<1>3. Proper(r)
  <2>1. ASSUME NEW j \in 1..Len(r), r[j].type = "error"
        PROVE  r[j].kind \in {"retryable", "final"}
    <3>1. n + j \in 1..Len(rest) /\ r[j] = rest[n + j]
      BY <1>1, <1>2
    <3> QED
      BY <2>1, <3>1 DEF Proper
  <2> QED
    BY <1>2, <2>1 DEF Proper
<1>4. CASE n = 1
  <2>1. Batch(n) = rest[1] /\ rest[1] \in Events(Types)
    BY <1>1, <1>4 DEF Batch
  <2>2. rest[1].type = "error" => rest[1].kind \in {"retryable", "final"}
    BY <1>1 DEF Proper
  <2> QED
    BY <1>1, <1>2, <1>3, <1>4, <2>1, <2>2 DEF r
<1>5. CASE n # 1
  <2> DEFINE ss == [j \in 1..n |-> rest[j].data]
             d == FlattenSeq(ss)
  <2>1. \A j \in 1..n : rest[j].data \in Seq(Int)
    <3>1. \A j \in 1..n : rest[j] \in Events(Types)
      BY <1>1
    <3> QED
      BY <3>1 DEF Events
  <2>2. ss \in Seq(Seq(Int))
    BY <1>1, <2>1
  <2>3. Batch(n) = Chunk(0, "text", d)
    BY <1>5 DEF Batch
  <2> HIDE DEF ss
  <2>4. d \in Seq(Int)
    BY <2>2, FlattenTyped
  <2> HIDE DEF d
  <2>5. Chunk(0, "text", d) \in Events(Types) /\ Chunk(0, "text", d).type = "chunk"
    <3>1. "chunk" \in Types /\ "text" \in EventKinds /\ 0 \in Nat
      BY DEF Types, OpenAITypes, EventKinds
    <3> QED
      BY <2>4, <3>1, MadeTyped DEF Chunk, E
  <2> QED
    BY <1>1, <1>2, <1>3, <1>5, <2>3, <2>5 DEF r
<1> QED
  BY <1>4, <1>5

-------------------------------------------------------------------------------
(* The adapter's types: what is left to read are lines of the format, or   *)
(* its last error event, and the converter's output has been taken.        *)
CTypes ==
    /\ pair \in Pairs /\ cut \in BOOLEAN /\ stream \in BOOLEAN /\ answer \in Answers
    /\ upstream \in {"connecting", "sending", "failed", "closed", "broken"}
    /\ s \in States(Types) /\ s.out = <<>>
    /\ Proper(rest)
    /\ sseError \in {"none", "retryable", "final"}
    /\ client \in {"here", "left", "gone"}
    /\ outcome \in {Pending, Success} \/ outcome[1] \in {"retryable", "final"}

(* An error event, until it is read, is all that is left; when it has been *)
(* read it is remembered. A stream that stopped early has nothing left.    *)
Erring ==
    /\ upstream = "failed" =>
          \/ \E b \in BOOLEAN : rest = <<ErrorEvent(b)>>
          \/ rest = <<>> /\ sseError \in {"retryable", "final"}
    /\ upstream \in {"closed", "broken"} => rest = <<>>
    /\ upstream = "connecting" => outcome \notin {Success, ClientDisconnected}

CInv == CTypes /\ Erring /\ OutcomeFits

LEMMA PairFormats == ASSUME pair \in Pairs PROVE from \in Formats /\ to \in Formats
BY PairsAssumption DEF from, to, Formats

LEMMA StateTyped ==
  ASSUME NEW t \in States(Types), t.out = <<>>, NEW T
  PROVE  t \in States(T)
<1>1. <<>> \in Seq(Events(T))
  OBVIOUS
<1> QED
  BY <1>1 DEF States

LEMMA EmptiedTyped ==
  ASSUME NEW T, NEW t \in States(T)
  PROVE  [t EXCEPT !.out = <<>>] \in States(Types) /\ [t EXCEPT !.out = <<>>].out = <<>>
<1>1. <<>> \in Seq(Events(Types))
  OBVIOUS
<1> QED
  BY <1>1 DEF States

LEMMA TakesAll ==
  ASSUME NEW f \in Formats, NEW g \in Formats, NEW e \in Events(Types)
  PROVE  Allowed(f, g, Types, e) /\ e.type \in Types
<1>1. Terminators(g) \subseteq Types
  BY DEF Terminators, Types, ClaudeTypes, OpenAITypes, GeminiTypes, CodexTypes, Formats
<1> QED
  BY <1>1 DEF Allowed, Unending, Events

LEMMA CInit == Init => CInv
<1>1. SUFFICES ASSUME Init PROVE CInv
  OBVIOUS
<1>2. /\ pair \in Pairs /\ cut \in BOOLEAN /\ stream \in BOOLEAN /\ answer \in Answers
      /\ upstream = "connecting" /\ s = NewTransformState /\ rest = Lines(from, answer)
      /\ sseError = "none" /\ client = "here" /\ outcome = Pending
  BY <1>1 DEF Init
<1>3. s \in States(Types) /\ s.out = <<>>
  BY <1>2, NewTyped DEF NewTransformState
<1>4. from \in Formats
  BY <1>2, PairFormats
<1>5. rest \in Seq(Events(LineTypes(from)))
  BY <1>2, <1>4, LinesFacts
<1>6. Proper(rest)
  <2>1. LineTypes(from) \subseteq Types /\ "error" \notin LineTypes(from)
    BY <1>4 DEF LineTypes, Types, ClaudeTypes, OpenAITypes, GeminiTypes, CodexTypes, Formats
  <2>2. Events(LineTypes(from)) \subseteq Events(Types)
    BY <2>1 DEF Events
  <2>3. rest \in Seq(Events(Types))
    BY <1>5, <2>2
  <2>4. \A j \in 1..Len(rest) : rest[j] \in Events(LineTypes(from))
    BY <1>5
  <2>5. \A j \in 1..Len(rest) : rest[j].type # "error"
    BY <2>1, <2>4 DEF Events
  <2> QED
    BY <2>3, <2>5 DEF Proper
<1>7. Pending # Success /\ Pending # ClientDisconnected
  BY DEF Pending, Success, ClientDisconnected, Final
<1>8. CTypes
  BY <1>2, <1>3, <1>6 DEF CTypes
<1>9. Erring
  BY <1>2, <1>7 DEF Erring
<1>10. OutcomeFits
  BY <1>2 DEF OutcomeFits
<1> QED
  BY <1>8, <1>9, <1>10 DEF CInv

(* A read leaves a typed state, and either writes the converter's events,  *)
(* or fails to, for a client that has left.                                *)
LEMMA ReadFacts ==
  ASSUME CTypes, ReadLine
  PROVE  \E n \in Batches, t \in States(Types) :
            /\ t = TransformStreamChunk(from, to, s, Batch(n))
            /\ rest' = SubSeq(rest, n + 1, Len(rest))
            /\ sseError' = TrackError(Batch(n))
            /\ s' \in States(Types) /\ s'.out = <<>>
            /\ s' = [t EXCEPT !.out = <<>>]
            /\ \/ out' = out \o t.out /\ outcome' = outcome
               \/ out' = out /\ client # "here" /\ outcome' = ClientDisconnected
<1>1. PICK n \in Batches :
        LET e == Batch(n)
            t == TransformStreamChunk(from, to, s, e)
        IN  /\ rest' = SubSeq(rest, n + 1, Len(rest))
            /\ sseError' = TrackError(e)
            /\ s' = [t EXCEPT !.out = <<>>]
            /\ Wrote(t.out)
  BY DEF ReadLine
<1> DEFINE t == TransformStreamChunk(from, to, s, Batch(n))
<1>2. from \in Formats /\ to \in Formats
  BY PairFormats DEF CTypes
<1>3. Batch(n) \in Events(Types)
  BY BatchFacts DEF CTypes
<1>4. Allowed(from, to, Types, Batch(n)) /\ Batch(n).type \in Types
  BY <1>2, <1>3, TakesAll
<1>5. t \in States(Types)
  BY <1>2, <1>4, TransformTyped DEF CTypes
<1>6. /\ rest' = SubSeq(rest, n + 1, Len(rest)) /\ sseError' = TrackError(Batch(n))
      /\ s' = [t EXCEPT !.out = <<>>] /\ Wrote(t.out)
  BY <1>1
<1> HIDE DEF t
<1>7. s' \in States(Types) /\ s'.out = <<>>
  BY <1>5, <1>6, EmptiedTyped
<1>8. \/ out' = out \o t.out /\ outcome' = outcome
      \/ out' = out /\ client # "here" /\ outcome' = ClientDisconnected
  BY <1>6 DEF Wrote, Return
<1> QED
  BY <1>5, <1>6, <1>7, <1>8 DEF t

LEMMA ReadLineKeeps == CInv /\ ReadLine => CInv'
<1>1. SUFFICES ASSUME CInv, ReadLine PROVE CInv'
  OBVIOUS
<1>2. CTypes /\ Erring /\ OutcomeFits
  BY <1>1 DEF CInv
<1>3. PICK n \in Batches, t \in States(Types) :
            /\ t = TransformStreamChunk(from, to, s, Batch(n))
            /\ rest' = SubSeq(rest, n + 1, Len(rest))
            /\ sseError' = TrackError(Batch(n))
            /\ s' \in States(Types) /\ s'.out = <<>>
            /\ \/ out' = out \o t.out /\ outcome' = outcome
               \/ out' = out /\ client # "here" /\ outcome' = ClientDisconnected
  BY <1>1, <1>2, ReadFacts
<1>4. /\ stream /\ upstream # "connecting" /\ outcome = Pending /\ rest # <<>>
      /\ UNCHANGED <<pair, answer, cut, stream, upstream, body, client>>
  BY <1>1 DEF ReadLine
<1>5. /\ n \in 1..Len(rest) /\ Proper(rest')
      /\ Batch(n).type = "error" => Batch(n).kind \in {"retryable", "final"}
      /\ n = 1 => Batch(n) = rest[1]
      /\ Len(rest') = Len(rest) - n
  BY <1>2, <1>3, BatchFacts DEF CTypes
<1>6. Pending # Success /\ Pending # ClientDisconnected /\ Success # ClientDisconnected
  BY DEF Pending, Success, ClientDisconnected, Final
<1>7. outcome' = Pending \/ (outcome' = ClientDisconnected /\ client # "here")
  BY <1>3, <1>4
<1>8. sseError' \in {"none", "retryable", "final"}
  BY <1>2, <1>3, <1>5 DEF TrackError, CTypes
<1>9. CTypes'
  <2>1. ClientDisconnected[1] = "final"
    BY DEF ClientDisconnected, Final
  <2> QED
    BY <1>2, <1>3, <1>4, <1>5, <1>7, <1>8, <2>1 DEF CTypes, Pending, Success
<1>10. ASSUME upstream = "failed" PROVE rest' = <<>> /\ sseError' \in {"retryable", "final"}
  <2>1. PICK b \in BOOLEAN : rest = <<ErrorEvent(b)>>
    BY <1>2, <1>4, <1>10 DEF Erring
  <2>2. Len(rest) = 1 /\ rest[1].type = "error"
        /\ rest[1].kind \in {"retryable", "final"}
    BY <2>1, ErrorEventTyped
  <2>3. n = 1 /\ Len(rest') = 0
    BY <1>5, <2>2
  <2>4. rest' = <<>>
    BY <1>5, <2>3 DEF Proper
  <2> QED
    BY <1>3, <1>5, <2>2, <2>3, <2>4 DEF TrackError
<1>11. upstream \notin {"closed", "broken"}
  BY <1>2, <1>4 DEF Erring
<1>12. Erring'
  BY <1>4, <1>10, <1>11 DEF Erring
<1>13. OutcomeFits'
  BY <1>4, <1>6, <1>7 DEF OutcomeFits, Pending, Success, ClientDisconnected, Final
<1> QED
  BY <1>9, <1>12, <1>13 DEF CInv

(* The other steps: what they leave alone, and what they return.           *)
LEMMA OthersKeep ==
  ASSUME CInv,
         \/ RequestFails \/ ConnectFails \/ Refuses \/ Responds \/ RelayWhole
         \/ StreamEnds \/ Cancelled \/ UpstreamErrs \/ UpstreamBreaks
         \/ ClientLeaves \/ ClientNoticed \/ UNCHANGED vars
  PROVE  CInv'
<1>1. CTypes /\ Erring /\ OutcomeFits
  BY DEF CInv
<1>2. /\ Pending # Success /\ Pending # ClientDisconnected /\ Success # ClientDisconnected
      /\ ClientDisconnected[1] = "final" /\ ClientDisconnected \notin {Pending, Success}
      /\ \A c : /\ Retryable(c)[1] = "retryable" /\ Final(c)[1] = "final"
                /\ Retryable(c) \notin {Pending, Success, ClientDisconnected}
                /\ Final(c) \notin {Pending, Success}
  BY DEF Pending, Success, ClientDisconnected, Final, Retryable
<1>3. Final("status") # ClientDisconnected /\ Final("SSE error") # ClientDisconnected
  BY DEF ClientDisconnected, Final
<1>4. /\ SSEResult \in {Success, Retryable("SSE error"), Final("SSE error")}
      /\ SSEResult = Success <=> sseError = "none"
  BY <1>1, <1>2 DEF SSEResult, CTypes
<1> USE <1>1, <1>2
<1>5. CASE RequestFails \/ ConnectFails \/ Refuses
  <2>1. /\ upstream = "connecting"
        /\ outcome' \in {Retryable("format conversion"), Retryable("network"),
                         Retryable("status"), Final("status")}
        /\ UNCHANGED <<pair, answer, cut, stream, upstream, rest, s, out, body, sseError, client>>
    BY <1>5, ZenonT(60) DEF RequestFails, ConnectFails, Refuses, Return
  <2>2. CTypes'
    BY <2>1 DEF CTypes
  <2>3. Erring'
    BY <1>3, <2>1 DEF Erring
  <2>4. OutcomeFits'
    BY <2>1 DEF OutcomeFits
  <2> QED
    BY <2>2, <2>3, <2>4 DEF CInv
<1>6. CASE Responds
  <2>1. /\ upstream' = "sending" /\ outcome = Pending
        /\ UNCHANGED <<pair, answer, cut, stream, rest, s, out, body, sseError, client, outcome>>
    BY <1>6 DEF Responds
  <2>2. CTypes' /\ Erring' /\ OutcomeFits'
    BY <2>1 DEF CTypes, Erring, OutcomeFits
  <2> QED
    BY <2>2 DEF CInv
<1>7. CASE RelayWhole
  <2>1. /\ ~stream /\ upstream = "sending"
        /\ outcome' \in {Success, Retryable("failed to read upstream response"),
                         Final("format conversion")}
        /\ UNCHANGED <<pair, answer, cut, stream, upstream, rest, s, out, sseError, client>>
    BY <1>7 DEF RelayWhole, Return
  <2>2. CTypes'
    BY <2>1 DEF CTypes
  <2>3. Erring' /\ OutcomeFits'
    BY <2>1 DEF Erring, OutcomeFits
  <2> QED
    BY <2>2, <2>3 DEF CInv
<1>8. CASE StreamEnds
  <2>1. /\ stream /\ upstream # "connecting" /\ outcome = Pending /\ rest = <<>>
        /\ \/ outcome' = ClientDisconnected /\ client = "gone"
           \/ outcome' = SSEResult
        /\ UNCHANGED <<pair, answer, cut, stream, upstream, rest, s, out, body, sseError, client>>
    BY <1>8 DEF StreamEnds, Return
  <2>2. CTypes'
    BY <1>4, <2>1 DEF CTypes
  <2>3. Erring'
    BY <2>1 DEF Erring
  <2>4. SSEResult' = SSEResult
    BY <2>1 DEF SSEResult
  <2>5. upstream = "failed" => sseError # "none"
    <3>1. \A b \in BOOLEAN : <<ErrorEvent(b)>> # <<>>
      BY ErrorEventTyped
    <3> QED
      BY <2>1, <3>1 DEF Erring
  <2>6. OutcomeFits'
    BY <1>3, <1>4, <2>1, <2>4, <2>5 DEF OutcomeFits
  <2> QED
    BY <2>2, <2>3, <2>6 DEF CInv
<1>9. CASE Cancelled
  <2>1. /\ client = "gone"
        /\ outcome' \in {Retryable("network"), ClientDisconnected,
                         Retryable("failed to read upstream response")}
        /\ outcome' = ClientDisconnected => upstream # "connecting"
        /\ UNCHANGED <<pair, answer, cut, stream, upstream, rest, s, out, body, sseError, client>>
    BY <1>9 DEF Cancelled, Return
  <2>2. CTypes'
    BY <2>1 DEF CTypes
  <2>3. Erring'
    BY <2>1 DEF Erring
  <2>4. OutcomeFits'
    BY <2>1 DEF OutcomeFits
  <2> QED
    BY <2>2, <2>3, <2>4 DEF CInv
<1>10. CASE UpstreamErrs
  <2>1. /\ upstream' = "failed" /\ outcome = Pending
        /\ UNCHANGED <<pair, answer, cut, stream, s, out, body, sseError, client, outcome>>
    BY <1>10 DEF UpstreamErrs
  <2>2. PICK b \in BOOLEAN : rest' = <<ErrorEvent(b)>>
    BY <1>10 DEF UpstreamErrs
  <2>3. Proper(rest')
    BY <2>2, ErrorEventTyped
  <2>4. CTypes' /\ Erring' /\ OutcomeFits'
    BY <2>1, <2>2, <2>3 DEF CTypes, Erring, OutcomeFits
  <2> QED
    BY <2>4 DEF CInv
<1>11. CASE UpstreamBreaks
  <2>1. /\ upstream' \in {"closed", "broken"} /\ outcome = Pending /\ rest' = <<>>
        /\ UNCHANGED <<pair, answer, cut, stream, s, out, body, sseError, client, outcome>>
    BY <1>11 DEF UpstreamBreaks
  <2>2. Proper(<<>>)
    BY DEF Proper
  <2>3. CTypes' /\ Erring' /\ OutcomeFits'
    BY <2>1, <2>2 DEF CTypes, Erring, OutcomeFits
  <2> QED
    BY <2>3 DEF CInv
<1>12. CASE ClientLeaves \/ ClientNoticed
  <2>1. /\ client' \in {"left", "gone"}
        /\ UNCHANGED <<pair, answer, cut, stream, upstream, rest, s, out, body, sseError, outcome>>
    BY <1>12 DEF ClientLeaves, ClientNoticed
  <2>2. CTypes' /\ Erring'
    BY <2>1 DEF CTypes, Erring
  <2>3. OutcomeFits'
    BY <2>1 DEF OutcomeFits
  <2> QED
    BY <2>2, <2>3 DEF CInv
<1>13. CASE UNCHANGED vars
  <2>1. CTypes' /\ Erring'
    BY <1>13 DEF vars, CTypes, Erring
  <2>2. SSEResult' = SSEResult
    BY <1>13 DEF vars, SSEResult
  <2>3. OutcomeFits'
    BY <1>13, <2>2 DEF vars, OutcomeFits
  <2> QED
    BY <2>1, <2>3 DEF CInv
<1> QED
  BY <1>5, <1>6, <1>7, <1>8, <1>9, <1>10, <1>11, <1>12, <1>13

LEMMA CNext == CInv /\ [Next]_vars => CInv'
<1>1. SUFFICES ASSUME CInv, [Next]_vars PROVE CInv'
  OBVIOUS
<1>2. CASE ReadLine
  BY <1>1, <1>2, ReadLineKeeps
<1>3. CASE \/ RequestFails \/ ConnectFails \/ Refuses \/ Responds \/ RelayWhole
           \/ StreamEnds \/ Cancelled \/ UpstreamErrs \/ UpstreamBreaks
           \/ ClientLeaves \/ ClientNoticed \/ UNCHANGED vars
  BY <1>1, <1>3, OthersKeep
<1> QED
  BY <1>1, <1>2, <1>3 DEF Next, Returned

(* The invariant of Execute's loop, for any pair of formats and answers of *)
(* any number of parts: lines and state are typed, an error event is read  *)
(* before anything else and remembered, and the outcome fits.              *)
THEOREM AdapterInvariant == Spec => []CInv
BY CInit, CNext, PTL DEF Spec

(* The converters' state stays within its types: a think tag is before,    *)
(* inside or behind it, and every event is written before the next line.   *)
THEOREM AdapterTyped == Spec => []TypeInvariant
<1>1. CInv => TypeInvariant
  <2>1. SUFFICES ASSUME CInv PROVE TypeInvariant
    OBVIOUS
  <2>2. s.mode \in 0..2
    BY <2>1 DEF CInv, CTypes, States
  <2> QED
    BY <2>1, <2>2 DEF CInv, CTypes, TypeInvariant
<1> QED
  BY <1>1, AdapterInvariant, PTL

(* What Execute returns of a stream fits what happened, however the error  *)
(* event, the end of the stream and the client's leaving come: no success  *)
(* after an error event, no error event lost while the client is there, no *)
(* disconnected client that is there.                                      *)
THEOREM OutcomesFit == Spec => []OutcomeFits
<1>1. CInv => OutcomeFits
  BY DEF CInv
<1> QED
  BY <1>1, AdapterInvariant, PTL

-------------------------------------------------------------------------------
(* The end of a stream: either nothing written ends it and its end is      *)
(* still to be read, or it is ended, and what is left to read is silent.   *)
StillOpen ==
    /\ out \in Seq(Events(Unending(to)))
    /\ stream /\ upstream \in {"connecting", "sending"} /\ outcome \in {Pending, Success}
          => Upcoming(from, to, rest)

HasEnded ==
    /\ Closed(to, out)
    /\ \A j \in 1..Len(rest) : rest[j].type \in Silent(from, to)

EndInv == Sound(from, to) => StillOpen \/ HasEnded

LEMMA OrdinaryLeavesOpen ==
  ASSUME NEW f \in Formats, NEW g \in Formats,
         NEW t \in States(Types), t.out = <<>>,
         NEW e \in Events(Types), e.type \in Ordinary(f, g)
  PROVE  TransformStreamChunk(f, g, t, e).out \in Seq(Events(Unending(g)))
<1> DEFINE T == Unending(g)
<1>1. t \in States(T)
  BY StateTyped
<1>2. Allowed(f, g, T, e)
  BY DEF Allowed
<1>3. ASSUME f = g PROVE e.type \in T
  <2>1. LineTypes(f) \ Enders(f, f) \subseteq Unending(f)
    BY DEF LineTypes, Enders, Unending, Terminators, Formats, Types, ClaudeTypes,
           OpenAITypes, GeminiTypes, CodexTypes
  <2>2. "error" \in Unending(f)
    BY DEF Unending, Terminators, Formats, Types
  <2> QED
    BY <1>3, <2>1, <2>2 DEF Ordinary
<1> HIDE DEF T
<1>4. TransformStreamChunk(f, g, t, e) \in States(T)
  BY <1>1, <1>2, <1>3, TransformTyped
<1>5. \A u \in States(T) : u.out \in Seq(Events(T))
  BY DEF States
<1> QED
  BY <1>4, <1>5 DEF T

LEMMA SilentWritesNothing ==
  ASSUME NEW f, NEW g, NEW t, NEW e, e.type \in Silent(f, g)
  PROVE  TransformStreamChunk(f, g, t, e) = t /\ e.type # "chunk"
<1>1. f = "openai" /\ g = "gemini" /\ e.type \in {"usage", "[DONE]", "error"}
  BY DEF Silent
<1>2. OpenAIToGemini(t, e) = t
  BY <1>1 DEF OpenAIToGemini
<1> QED
  BY <1>1, <1>2 DEF TransformStreamChunk

(* A read of n lines takes the event that ends the stream alone, or leaves *)
(* it to be read.                                                          *)
LEMMA UpcomingRest ==
  ASSUME NEW f, NEW g, NEW r, Upcoming(f, g, r),
         NEW n \in 1..Len(r), n = 1 \/ \A j \in 1..n : r[j].type = "chunk",
         NEW q \in Seq(Events(Types)), Len(q) = Len(r) - n,
         \A j \in 1..Len(r) - n : q[j] = r[n + j],
         "chunk" \notin Enders(f, g)
  PROVE  \/ /\ n = 1 /\ r[1].type \in Enders(f, g)
            /\ \A j \in 1..Len(q) : q[j].type \in Silent(f, g)
         \/ r[1].type \in Ordinary(f, g) /\ Upcoming(f, g, q)
<1>1. r \in Seq(Events(Types)) /\ Len(r) \in Nat
  BY DEF Upcoming
<1>2. PICK k \in 1..Len(r) : /\ r[k].type \in Enders(f, g)
                             /\ \A j \in 1..k - 1 : r[j].type \in Ordinary(f, g)
                             /\ \A j \in k + 1..Len(r) : r[j].type \in Silent(f, g)
  BY DEF Upcoming
<1>3. n = 1 \/ n < k
  <2>1. CASE k <= n /\ n # 1
    <3>1. k \in 1..n
      BY <1>1, <2>1
    <3> QED
      BY <1>2, <2>1, <3>1
  <2> QED
    BY <1>1, <2>1
<1>4. CASE k = 1
  <2>1. n = 1
    BY <1>3, <1>4
  <2>2. ASSUME NEW j \in 1..Len(q) PROVE q[j].type \in Silent(f, g)
    <3>1. j \in 1..Len(r) - n /\ n + j \in k + 1..Len(r)
      BY ONLY <1>1, <1>4, <2>1, j \in 1..Len(q), Len(q) = Len(r) - n
    <3>2. q[j] = r[n + j]
      BY ONLY <3>1, \A i \in 1..Len(r) - n : q[i] = r[n + i]
    <3> QED
      BY ONLY <1>2, <3>1, <3>2
  <2> QED
    BY <1>2, <1>4, <2>1, <2>2
<1>5. CASE k # 1
  <2>1. n < k /\ 1 \in 1..k - 1 /\ k - n \in 1..Len(q) /\ n + (k - n) = k
    BY <1>1, <1>3, <1>5
  <2>2. r[1].type \in Ordinary(f, g)
    BY <1>2, <2>1
  <2>3. q[k - n] = r[k]
    BY <2>1
  <2>4. ASSUME NEW j \in 1..(k - n) - 1 PROVE q[j].type \in Ordinary(f, g)
    <3>1. j \in 1..Len(r) - n /\ n + j \in 1..k - 1
      <4>1. n \in Nat /\ k \in Nat /\ n < k /\ k <= Len(r) /\ Len(r) \in Nat
        BY <1>1, <2>1
      <4>2. j \in Nat /\ 1 <= j /\ j <= (k - n) - 1
        BY <4>1
      <4> QED
        BY ONLY <4>1, <4>2
    <3>2. q[j] = r[n + j]
      BY ONLY <3>1, \A i \in 1..Len(r) - n : q[i] = r[n + i]
    <3> QED
      BY ONLY <1>2, <3>1, <3>2
  <2>5. ASSUME NEW j \in (k - n) + 1..Len(q) PROVE q[j].type \in Silent(f, g)
    <3>1. j \in 1..Len(r) - n /\ n + j \in k + 1..Len(r)
      <4>1. n \in Nat /\ k \in Nat /\ n < k /\ k <= Len(r) /\ Len(r) \in Nat
        BY <1>1, <2>1
      <4>2. j \in Nat /\ (k - n) + 1 <= j /\ j <= Len(r) - n
        BY <4>1
      <4> QED
        BY ONLY <4>1, <4>2
    <3>2. q[j] = r[n + j]
      BY ONLY <3>1, \A i \in 1..Len(r) - n : q[i] = r[n + i]
    <3> QED
      BY ONLY <1>2, <3>1, <3>2
  <2> DEFINE m == k - n
  <2>6. m \in 1..Len(q) /\ q[m].type \in Enders(f, g)
        /\ (\A j \in 1..m - 1 : q[j].type \in Ordinary(f, g))
        /\ (\A j \in m + 1..Len(q) : q[j].type \in Silent(f, g))
    BY <1>2, <2>1, <2>3, <2>4, <2>5
  <2> HIDE DEF m
  <2> QED
    BY <2>2, <2>6 DEF Upcoming
<1> QED
  BY <1>4, <1>5

LEMMA NoChunkEnds == ASSUME NEW f \in Formats, NEW g PROVE "chunk" \notin Enders(f, g)
BY DEF Enders, Formats

LEMMA EndsAtFirst == CInv /\ Init => EndInv
<1>1. SUFFICES ASSUME CInv, Init, Sound(from, to) PROVE StillOpen
  BY DEF EndInv
<1>2. /\ pair \in Pairs /\ answer \in Answers /\ cut \in BOOLEAN
      /\ rest = Lines(from, answer) /\ out = <<>>
  BY <1>1 DEF Init, CInv, CTypes
<1>3. from \in Formats /\ to \in Formats
  BY <1>2, PairFormats
<1>4. Upcoming(from, to, rest)
  BY <1>1, <1>2, <1>3, LinesFacts
<1>5. out \in Seq(Events(Unending(to)))
  BY <1>2
<1> QED
  BY <1>4, <1>5 DEF StillOpen

(* The line that ends the stream is written, or is lost with the client.   *)
LEMMA ReadLineEnds == CInv /\ EndInv /\ ReadLine => EndInv'
<1>1. SUFFICES ASSUME CInv, EndInv, ReadLine PROVE EndInv'
  OBVIOUS
<1>2. CTypes /\ Erring
  BY <1>1 DEF CInv
<1>3. PICK n \in Batches, t \in States(Types) :
            /\ t = TransformStreamChunk(from, to, s, Batch(n))
            /\ rest' = SubSeq(rest, n + 1, Len(rest))
            /\ \/ out' = out \o t.out /\ outcome' = outcome
               \/ out' = out /\ client # "here" /\ outcome' = ClientDisconnected
  BY <1>1, <1>2, ReadFacts
<1>4. /\ stream /\ upstream # "connecting" /\ outcome = Pending /\ rest # <<>>
      /\ UNCHANGED <<pair, answer, cut, stream, upstream, body, client>>
  BY <1>1 DEF ReadLine
<1>5. from' = from /\ to' = to
  BY <1>4 DEF from, to
<1>6. SUFFICES ASSUME Sound(from, to) PROVE (StillOpen \/ HasEnded)'
  BY <1>5 DEF EndInv
<1>7. from \in Formats /\ to \in Formats /\ s \in States(Types) /\ s.out = <<>>
      /\ Proper(rest) /\ Len(rest) \in Nat
  BY <1>2, PairFormats DEF CTypes, Proper
<1>8. /\ n \in 1..Len(rest) /\ Batch(n) \in Events(Types)
      /\ \/ n = 1 /\ Batch(n) = rest[1]
         \/ /\ n > 1 /\ Batch(n).type = "chunk"
            /\ \A j \in 1..n : rest[j].type = "chunk"
      /\ rest' \in Seq(Events(Types)) /\ Len(rest') = Len(rest) - n
      /\ \A j \in 1..Len(rest) - n : rest'[j] = rest[n + j]
  BY <1>3, <1>7, BatchFacts
<1>9. Batch(n).type = rest[1].type
  BY <1>7, <1>8
<1>10. ClientDisconnected \notin {Pending, Success}
  BY DEF Pending, Success, ClientDisconnected, Final
<1>11. CASE HasEnded
  <2>1. 1 \in 1..Len(rest)
    BY <1>7, <1>8
  <2>2. rest[1].type \in Silent(from, to)
    BY <1>11, <2>1 DEF HasEnded
  <2>3. t = s /\ t.out = <<>>
    BY <1>3, <1>7, <1>9, <2>2, SilentWritesNothing
  <2>4. out' = out
    <3>1. out \in Seq(Events(Types))
      BY <1>11 DEF HasEnded, Closed
    <3> QED
      BY <1>3, <2>3, <3>1
  <2>5. ASSUME NEW j \in 1..Len(rest') PROVE rest'[j].type \in Silent(from, to)
    <3>1. j \in 1..Len(rest) - n /\ n + j \in 1..Len(rest)
      BY <1>7, <1>8
    <3> QED
      BY <1>8, <1>11, <3>1 DEF HasEnded
  <2>6. Closed(to, out')
    BY <1>11, <2>4 DEF HasEnded
  <2> QED
    BY <1>5, <2>5, <2>6 DEF HasEnded
<1>12. CASE StillOpen /\ out' = out /\ outcome' = ClientDisconnected
  BY <1>5, <1>10, <1>12 DEF StillOpen
<1>13. CASE StillOpen /\ out' = out \o t.out /\ upstream = "sending"
  <2>1. Upcoming(from, to, rest) /\ out \in Seq(Events(Unending(to)))
    BY <1>4, <1>13 DEF StillOpen
  <2>2. \/ /\ rest[1].type \in Enders(from, to)
           /\ \A j \in 1..Len(rest') : rest'[j].type \in Silent(from, to)
        \/ rest[1].type \in Ordinary(from, to) /\ Upcoming(from, to, rest')
    <3>1. "chunk" \notin Enders(from, to)
      BY <1>7, NoChunkEnds
    <3> DEFINE q == rest'
    <3>2. /\ q \in Seq(Events(Types)) /\ Len(q) = Len(rest) - n
          /\ \A j \in 1..Len(rest) - n : q[j] = rest[n + j]
      BY <1>8
    <3>3. n = 1 \/ \A j \in 1..n : rest[j].type = "chunk"
      BY <1>8
    <3> HIDE DEF q
    <3>4. \/ /\ rest[1].type \in Enders(from, to)
             /\ \A j \in 1..Len(q) : q[j].type \in Silent(from, to)
          \/ rest[1].type \in Ordinary(from, to) /\ Upcoming(from, to, q)
      BY <1>8, <2>1, <3>1, <3>2, <3>3, UpcomingRest
    <3> QED
      BY <3>4 DEF q
  <2>3. CASE /\ rest[1].type \in Enders(from, to)
             /\ \A j \in 1..Len(rest') : rest'[j].type \in Silent(from, to)
    <3>1. Closed(to, t.out)
      BY <1>3, <1>6, <1>7, <1>8, <1>9, <2>3, EnderCloses
    <3>2. Closed(to, out')
      BY <1>13, <2>1, <3>1, ClosedAfter
    <3> QED
      BY <1>5, <2>3, <3>2 DEF HasEnded
  <2>4. CASE rest[1].type \in Ordinary(from, to) /\ Upcoming(from, to, rest')
    <3>1. t.out \in Seq(Events(Unending(to)))
      BY <1>3, <1>7, <1>8, <1>9, <2>4, OrdinaryLeavesOpen
    <3>2. out' \in Seq(Events(Unending(to)))
      BY <1>13, <2>1, <3>1
    <3> QED
      BY <1>5, <2>4, <3>2 DEF StillOpen
  <2> QED
    BY <2>2, <2>3, <2>4
<1>14. CASE StillOpen /\ out' = out \o t.out /\ upstream = "failed"
  <2>1. PICK b \in BOOLEAN : rest = <<ErrorEvent(b)>>
    BY <1>2, <1>4, <1>14 DEF Erring
  <2>2. rest[1].type = "error"
    BY <2>1, ErrorEventTyped
  <2>3. "error" \in Ordinary(from, to)
    BY <1>7 DEF Ordinary, Enders, Formats
  <2>4. t.out \in Seq(Events(Unending(to)))
    BY <1>3, <1>7, <1>8, <1>9, <2>2, <2>3, OrdinaryLeavesOpen
  <2>5. out' \in Seq(Events(Unending(to)))
    BY <1>14, <2>4 DEF StillOpen
  <2> QED
    BY <1>4, <1>5, <1>14, <2>5 DEF StillOpen
<1>15. upstream \in {"sending", "failed"}
  BY <1>2, <1>4 DEF CTypes, Erring
<1> QED
  BY <1>1, <1>3, <1>6, <1>11, <1>12, <1>13, <1>14, <1>15 DEF EndInv

LEMMA OthersEnd ==
  ASSUME CInv, EndInv,
         \/ RequestFails \/ ConnectFails \/ Refuses \/ Responds \/ RelayWhole
         \/ StreamEnds \/ Cancelled \/ UpstreamErrs \/ UpstreamBreaks
         \/ ClientLeaves \/ ClientNoticed \/ UNCHANGED vars
  PROVE  EndInv'
<1>1. UNCHANGED <<pair, out, stream>>
  BY ZenonT(60) DEF RequestFails, ConnectFails, Refuses, Responds, RelayWhole, StreamEnds, Cancelled,
         UpstreamErrs, UpstreamBreaks, ClientLeaves, ClientNoticed, vars
<1>2. from' = from /\ to' = to
  BY <1>1 DEF from, to
<1>3. SUFFICES ASSUME Sound(from, to) PROVE (StillOpen \/ HasEnded)'
  BY <1>2 DEF EndInv
<1>4. /\ Pending # Success
      /\ \A c : /\ Retryable(c) \notin {Pending, Success}
                /\ Final(c) \notin {Pending, Success}
  BY DEF Pending, Success, Final, Retryable
<1>5. CASE UpstreamErrs
  <2>1. upstream' = "failed" /\ rest # <<>>
    BY <1>5 DEF UpstreamErrs
  <2>2. PICK b \in BOOLEAN : rest' = <<ErrorEvent(b)>>
    BY <1>5 DEF UpstreamErrs
  <2>3. Len(rest') = 1 /\ rest'[1].type = "error"
    BY <2>2, ErrorEventTyped
  <2>4. CASE StillOpen
    BY <1>1, <1>2, <2>1, <2>4 DEF StillOpen
  <2>5. CASE HasEnded
    <3>1. rest \in Seq(Events(Types))
      BY DEF CInv, CTypes, Proper
    <3>2. 1 \in 1..Len(rest)
      BY <2>1, <3>1
    <3>3. rest[1].type \in Silent(from, to)
      BY <2>5, <3>2 DEF HasEnded
    <3>4. "error" \in Silent(from, to)
      BY <3>3 DEF Silent
    <3>5. \A j \in 1..Len(rest') : rest'[j].type \in Silent(from, to)
      BY <2>3, <3>4
    <3> QED
      BY <1>1, <1>2, <2>5, <3>5 DEF HasEnded
  <2> QED
    BY <1>3, <2>4, <2>5 DEF EndInv
<1>6. CASE UpstreamBreaks
  <2>1. upstream' \in {"closed", "broken"} /\ rest' = <<>>
    BY <1>6 DEF UpstreamBreaks
  <2> QED
    BY <1>1, <1>2, <1>3, <2>1 DEF EndInv, StillOpen, HasEnded
<1>7. CASE Responds \/ ClientLeaves \/ ClientNoticed \/ UNCHANGED vars
  <2>1. /\ rest' = rest /\ outcome' = outcome
        /\ upstream' = upstream \/ (upstream = "connecting" /\ upstream' = "sending")
    BY <1>7 DEF Responds, ClientLeaves, ClientNoticed, vars
  <2> QED
    BY <1>1, <1>2, <1>3, <2>1 DEF EndInv, StillOpen, HasEnded
<1>8. CASE RequestFails \/ ConnectFails \/ Refuses \/ RelayWhole \/ StreamEnds \/ Cancelled
  <2>1. rest' = rest /\ upstream' = upstream /\ outcome = Pending
    BY <1>8, ZenonT(60) DEF RequestFails, ConnectFails, Refuses, RelayWhole, StreamEnds, Cancelled
  <2> QED
    BY <1>1, <1>2, <1>3, <2>1 DEF EndInv, StillOpen, HasEnded
<1> QED
  BY <1>5, <1>6, <1>7, <1>8

LEMMA EndsNext == CInv /\ EndInv /\ [Next]_vars => EndInv'
<1>1. SUFFICES ASSUME CInv, EndInv, [Next]_vars PROVE EndInv'
  OBVIOUS
<1>2. CASE ReadLine
  BY <1>1, <1>2, ReadLineEnds
<1>3. CASE \/ RequestFails \/ ConnectFails \/ Refuses \/ Responds \/ RelayWhole
           \/ StreamEnds \/ Cancelled \/ UpstreamErrs \/ UpstreamBreaks
           \/ ClientLeaves \/ ClientNoticed \/ UNCHANGED vars
  BY <1>1, <1>3, OthersEnd
<1> QED
  BY <1>1, <1>2, <1>3 DEF Next, Returned

(* The stream to the client is not ended, and its end is still to be read  *)
(* as long as the upstream sends, or it is ended by its last event and     *)
(* what is left of the upstream's stream writes nothing.                   *)
THEOREM EndInvariant == Spec => []EndInv
<1>1. Init => EndInv
  BY CInit, EndsAtFirst
<1>2. CInv /\ CInv' /\ EndInv /\ [Next]_vars => EndInv'
  BY EndsNext
<1> QED
  BY <1>1, <1>2, AdapterInvariant, PTL DEF Spec

(* A client of a converted stream reads one end, in its own format, with   *)
(* nothing after it, and reads it when the upstream's stream ended in full *)
(* before the client: for every pair of formats but the two whose          *)
(* converters are registered the wrong way, which lose the end.            *)
THEOREM StreamsEndOnce ==
  ASSUME Pairs \cap Swapped = {}
  PROVE  Spec => []EndsOnce
<1>1. CInv /\ EndInv => EndsOnce
  <2>1. SUFFICES ASSUME CInv, EndInv, pair \notin EndsTwice PROVE EndsOnce
    BY DEF EndsOnce
  <2> DEFINE ends == {k \in DOMAIN out : out[k].type \in Terminators(to)}
  <2>2. SUFFICES /\ ends \subseteq {Len(out)}
                 /\ Complete => ends # {}
    BY DEF EndsOnce
  <2>3. Sound(from, to)
    <3>1. pair \in Pairs /\ pair \in {"claude", "openai", "gemini", "codex"} \X
                                     {"claude", "openai", "gemini", "codex"}
      BY <2>1, PairsAssumption DEF CInv, CTypes
    <3>2. pair = <<from, to>>
      BY <3>1 DEF from, to
    <3> QED
      BY <2>1, <3>1, <3>2 DEF Sound
  <2>4. CASE StillOpen
    <3>1. out \in Seq(Events(Unending(to)))
      BY <2>4 DEF StillOpen
    <3>2. \A k \in DOMAIN out : out[k].type \notin Terminators(to)
      <4>1. ASSUME NEW k \in DOMAIN out PROVE out[k].type \notin Terminators(to)
        <5>1. out[k] \in Events(Unending(to))
          BY <3>1, <4>1
        <5>2. out[k].type \in Unending(to)
          BY <5>1 DEF Events
        <5> QED
          BY <5>2 DEF Unending
      <4> QED
        BY <4>1
    <3>3. ~ Complete
      <4>1. SUFFICES ASSUME Complete PROVE FALSE
        OBVIOUS
      <4>2. Upcoming(from, to, <<>>)
        BY <2>4, <4>1, ZenonT(60) DEF StillOpen, Complete
      <4> QED
        BY <4>2 DEF Upcoming
    <3> QED
      BY <3>2, <3>3
  <2>5. CASE HasEnded
    <3>1. /\ out \in Seq(Events(Types)) /\ out # <<>>
          /\ \A k \in 1..Len(out) : out[k].type \in Terminators(to) <=> k = Len(out)
      BY <2>5 DEF HasEnded, Closed
    <3>2. DOMAIN out = 1..Len(out) /\ Len(out) \in 1..Len(out)
      BY <3>1
    <3> QED
      BY <3>1, <3>2, ZenonT(60)
  <2> QED
    BY <2>1, <2>3, <2>4, <2>5 DEF EndInv
<1> QED
  BY <1>1, AdapterInvariant, EndInvariant, PTL

-------------------------------------------------------------------------------
(* The first of a text's tags.                                             *)
LEMMA SameSequence ==
  ASSUME NEW T, NEW p \in Seq(T), NEW q \in Seq(T), NEW n \in Nat, Len(p) = n, Len(q) = n,
         \A i \in 1..n : p[i] = q[i]
  PROVE  p = q
OBVIOUS

(* The first of the places where a sequence holds a tag.                   *)
LEMMA PlaceFirst ==
  ASSUME NEW c \in Seq(Int), NEW tag, Contains(c, tag)
  PROVE  /\ Place(c, tag) \in 1..Len(c) /\ c[Place(c, tag)] = tag
         /\ \A j \in 1..Len(c) : c[j] = tag => Place(c, tag) <= j
<1> DEFINE I == {i \in 1..Len(c) : c[i] = tag}
<1>1. Place(c, tag) = IF I # {} THEN Min(I) ELSE 0
  BY DEF Place, SelectInSeq
<1>2. Len(c) \in Nat
  OBVIOUS
<1>3. I # {}
  BY DEF Contains
<1>4. PICK x \in I : \A y \in I : ~ (<<y, x>> \in OpToRel(<, Nat))
  <2>1. I \subseteq Nat /\ I # {}
    BY <1>2, <1>3
  <2> HIDE DEF I
  <2> QED
    BY <2>1, NatLessThanWellFounded, WFMin
<1>5. \A y \in I : x <= y
  <2>1. ASSUME NEW y \in I PROVE x <= y
    <3>1. x \in Nat /\ y \in Nat
      BY <1>2
    <3>2. y < x => <<y, x>> \in OpToRel(<, Nat)
      BY <3>1 DEF OpToRel
    <3>3. ~ (<<y, x>> \in OpToRel(<, Nat))
      BY <1>4
    <3>4. ~ (y < x)
      BY <3>2, <3>3
    <3> HIDE DEF I
    <3> QED
      BY ONLY <3>1, <3>4
  <2> QED
    BY <2>1
<1>6. Min(I) \in I /\ \A y \in I : Min(I) <= y
  <2> HIDE DEF I
  <2> QED
    BY <1>5 DEF Min
<1> QED
  BY <1>1, <1>3, <1>6

(* A sequence that holds a tag is what is before it, the tag, and what is  *)
(* after it.                                                               *)
Split(c, tag, p, q) ==
    p \in Seq(Int) /\ q \in Seq(Int) /\ c = p \o (<<tag>> \o q) /\ ~Contains(p, tag)

LEMMA SplitIndices ==
  ASSUME NEW p \in Seq(Int), NEW q \in Seq(Int), NEW tag \in Int, NEW c, c = p \o (<<tag>> \o q)
  PROVE  /\ c \in Seq(Int) /\ Len(c) = Len(p) + (1 + Len(q))
         /\ \A j \in 1..Len(p) : c[j] = p[j]
         /\ c[Len(p) + 1] = tag
         /\ \A j \in 1..Len(q) : c[Len(p) + (1 + j)] = q[j]
<1> DEFINE o == <<tag>>
           r == o \o q
<1>1. o \in Seq(Int) /\ Len(o) = 1 /\ o[1] = tag
  OBVIOUS
<1> HIDE DEF o
<1>2. r \in Seq(Int)
  BY <1>1
<1>3. /\ Len(r) = 1 + Len(q)
      /\ \A i \in 1..Len(o) : (o \o q)[i] = o[i]
      /\ \A i \in 1..Len(q) : (o \o q)[Len(o) + i] = q[i]
  <2>1. /\ Len(o \o q) = Len(o) + Len(q)
        /\ \A i \in 1..Len(o) : (o \o q)[i] = o[i]
        /\ \A i \in 1..Len(q) : (o \o q)[Len(o) + i] = q[i]
    <3>1. o \in Seq(Int)
      BY <1>1
    <3> QED
      BY ONLY <3>1, q \in Seq(Int), ConcatPlaces
  <2> QED
    BY <1>1, <2>1
<1>4. 1 \in 1..Len(o) /\ 1 \in 1..Len(r)
  BY <1>1, <1>3
<1>5. r[1] = tag /\ \A i \in 1..Len(q) : r[1 + i] = q[i] /\ 1 + i \in 1..Len(r)
  BY <1>1, <1>3, <1>4, SMTT(60)
<1> HIDE DEF r
<1>6. /\ Len(p \o r) = Len(p) + Len(r)
      /\ \A i \in 1..Len(p) : (p \o r)[i] = p[i]
      /\ \A i \in 1..Len(r) : (p \o r)[Len(p) + i] = r[i]
      /\ p \o r \in Seq(Int)
  BY <1>2, ConcatPlaces
<1>7. c = p \o r
  BY DEF r, o
<1> QED
  BY <1>3, <1>4, <1>5, <1>6, <1>7

LEMMA SplitPlaces ==
  ASSUME NEW c, NEW tag \in Int, NEW p, NEW q, Split(c, tag, p, q)
  PROVE  /\ c \in Seq(Int) /\ Contains(c, tag)
         /\ Before(c, tag) = p /\ After(c, tag) = q
<1> DEFINE m == Len(p)
           n == Len(q)
<1>1. /\ p \in Seq(Int) /\ q \in Seq(Int) /\ c = p \o (<<tag>> \o q)
      /\ \A j \in 1..m : p[j] # tag
  BY DEF Split, Contains
<1>2. m \in Nat /\ n \in Nat
  BY <1>1
<1>3. /\ c \in Seq(Int) /\ Len(c) = m + (1 + n)
      /\ \A j \in 1..m : c[j] = p[j]
      /\ c[m + 1] = tag
      /\ \A j \in 1..n : c[m + (1 + j)] = q[j]
  BY <1>1, SplitIndices
<1>4. DOMAIN p = 1..m /\ DOMAIN q = 1..n
  BY <1>1
<1> HIDE DEF m, n
<1>5. m + 1 \in 1..Len(c)
  BY <1>2, <1>3
<1>6. Contains(c, tag)
  BY <1>3, <1>5 DEF Contains
<1>7. /\ Place(c, tag) \in 1..Len(c) /\ c[Place(c, tag)] = tag
      /\ \A j \in 1..Len(c) : c[j] = tag => Place(c, tag) <= j
  BY <1>3, <1>6, PlaceFirst
<1>8. Place(c, tag) = m + 1
  <2>1. Place(c, tag) <= m + 1
    BY <1>3, <1>5, <1>7
  <2>2. Place(c, tag) \notin 1..m
    BY <1>1, <1>3, <1>7 DEF m
  <2> QED
    BY <1>2, <1>3, <1>7, <2>1, <2>2
<1>9. Before(c, tag) = p
  <2> DEFINE b == SubSeq(c, 1, m)
  <2>1. (m + 1) - 1 = m
    BY <1>2
  <2>2. Before(c, tag) = b
    BY <1>8, <2>1 DEF Before
  <2>3. b \in Seq(Int) /\ Len(b) = m /\ \A j \in 1..m : b[j] = c[j]
    BY <1>2, <1>3
  <2> HIDE DEF b
  <2>4. b = p
    <3>1. p \in Seq(Int) /\ Len(p) = m /\ \A j \in 1..m : b[j] = p[j]
      BY <1>1, <1>3, <2>3 DEF m
    <3> QED
      BY <1>2, <2>3, <3>1, SameSequence
  <2> QED
    BY <2>2, <2>4
<1>10. After(c, tag) = q
  <2> DEFINE a == SubSeq(c, m + 2, Len(c))
  <2>1. (m + 1) + 1 = m + 2 /\ m + 2 \in 1..Len(c) + 1
    BY <1>2, <1>3
  <2>2. After(c, tag) = a
    BY <1>8, <2>1 DEF After
  <2>3. a \in Seq(Int) /\ Len(a) = n /\ \A j \in 1..n : a[j] = c[m + (1 + j)]
    BY <1>2, <1>3, <2>1
  <2> HIDE DEF a
  <2>4. a = q
    <3>1. q \in Seq(Int) /\ Len(q) = n /\ \A j \in 1..n : a[j] = q[j]
      BY <1>1, <1>3, <2>3 DEF n
    <3> QED
      BY <1>2, <2>3, <3>1, SameSequence
  <2> QED
    BY <2>2, <2>4
<1> QED
  BY <1>3, <1>6, <1>9, <1>10

LEMMA Splits ==
  ASSUME NEW c \in Seq(Int), NEW tag \in Int, Contains(c, tag)
  PROVE  Split(c, tag, Before(c, tag), After(c, tag))
<1> DEFINE x == Place(c, tag)
           p == SubSeq(c, 1, x - 1)
           q == SubSeq(c, x + 1, Len(c))
           o == <<tag>>
           r == o \o q
<1>1. x \in 1..Len(c) /\ c[x] = tag /\ \A j \in 1..Len(c) : c[j] = tag => x <= j
  BY PlaceFirst
<1>2. Before(c, tag) = p /\ After(c, tag) = q
  BY DEF Before, After
<1> HIDE DEF x
<1>3. Len(c) \in Nat
  OBVIOUS
<1>4. p \in Seq(Int) /\ Len(p) = x - 1 /\ \A j \in 1..x - 1 : p[j] = c[j]
  BY <1>1, <1>3
<1>5. q \in Seq(Int) /\ Len(q) = Len(c) - x /\ \A j \in 1..Len(c) - x : q[j] = c[x + j]
  BY <1>1, <1>3
<1> HIDE DEF p, q
<1>6. ~Contains(p, tag)
  <2>1. ASSUME NEW j \in 1..Len(p), p[j] = tag PROVE FALSE
    <3>1. j \in 1..x - 1 /\ c[j] = tag
      BY ONLY <1>4, <2>1, j \in 1..Len(p)
    <3>2. x \in Nat /\ x <= Len(c)
      BY ONLY <1>1, <1>3
    <3>3. j \in 1..Len(c) /\ ~(x <= j)
      BY ONLY <1>3, <3>1, <3>2
    <3> QED
      BY ONLY <1>1, <3>1, <3>3
  <2> QED
    BY <2>1 DEF Contains
<1>7. o \in Seq(Int) /\ Len(o) = 1 /\ o[1] = tag
  OBVIOUS
<1> HIDE DEF o
<1>8. /\ r \in Seq(Int) /\ Len(r) = 1 + Len(q)
      /\ \A i \in 1..Len(o) : (o \o q)[i] = o[i]
      /\ \A i \in 1..Len(q) : (o \o q)[Len(o) + i] = q[i]
  <2>1. q \in Seq(Int) /\ o \in Seq(Int)
    BY <1>5, <1>7
  <2>2. /\ Len(o \o q) = Len(o) + Len(q)
        /\ \A i \in 1..Len(o) : (o \o q)[i] = o[i]
        /\ \A i \in 1..Len(q) : (o \o q)[Len(o) + i] = q[i]
    BY ONLY <2>1, ConcatPlaces
  <2>3. r \in Seq(Int)
    BY <2>1
  <2> QED
    BY <1>7, <2>2, <2>3
<1>9. r[1] = tag /\ \A i \in 1..Len(q) : r[1 + i] = q[i]
  BY <1>7, <1>8
<1> HIDE DEF r
<1>10. c = p \o r
  <2>1. Len(c) = Len(p) + Len(r)
    BY <1>1, <1>3, <1>4, <1>5, <1>8
  <2>2. \A k \in 1..Len(p) : c[k] = p[k]
    BY <1>4
  <2>3. \A k \in 1..Len(r) : c[Len(p) + k] = r[k]
    <3>1. SUFFICES ASSUME NEW k \in 1..Len(r) PROVE c[Len(p) + k] = r[k]
      OBVIOUS
    <3>2. CASE k = 1
      BY <1>1, <1>3, <1>4, <1>9, <3>2
    <3>3. CASE k > 1
      <4>1. k - 1 \in 1..Len(q) /\ 1 + (k - 1) = k /\ Len(p) + k = x + (k - 1)
        BY <1>1, <1>3, <1>4, <1>5, <1>8, <3>3
      <4> DEFINE l == k - 1
      <4>2. l \in 1..Len(q) /\ 1 + l = k /\ Len(p) + k = x + l
        BY <4>1
      <4> HIDE DEF l
      <4>3. r[1 + l] = q[l] /\ q[l] = c[x + l]
        BY <1>5, <1>9, <4>2
      <4> QED
        BY <4>2, <4>3
    <3> QED
      BY <1>5, <1>8, <3>2, <3>3
  <2> QED
    BY <1>4, <1>8, <2>1, <2>2, <2>3, ConcatIs
<1> QED
  BY <1>2, <1>4, <1>5, <1>6, <1>10 DEF Split, r, o

LEMMA ContainsConcat ==
  ASSUME NEW p \in Seq(Int), NEW q \in Seq(Int), NEW tag
  PROVE  Contains(p \o q, tag) <=> Contains(p, tag) \/ Contains(q, tag)
<1> DEFINE r == p \o q
           m == Len(p)
           n == Len(q)
<1>1. /\ Len(r) = m + n /\ m \in Nat /\ n \in Nat
      /\ \A i \in 1..m : r[i] = p[i]
      /\ \A i \in 1..n : r[m + i] = q[i]
  BY ConcatPlaces
<1> HIDE DEF r, m, n
<1>2. ASSUME NEW i \in 1..m, p[i] = tag PROVE \E j \in 1..Len(r) : r[j] = tag
  <2>1. i \in 1..Len(r) /\ r[i] = tag
    BY <1>1, <1>2
  <2> QED
    BY <2>1
<1>3. ASSUME NEW i \in 1..n, q[i] = tag PROVE \E j \in 1..Len(r) : r[j] = tag
  <2>1. m + i \in 1..Len(r) /\ r[m + i] = tag
    BY <1>1, <1>3
  <2> QED
    BY <2>1
<1>4. ASSUME NEW j \in 1..Len(r), r[j] = tag
      PROVE  (\E i \in 1..m : p[i] = tag) \/ (\E i \in 1..n : q[i] = tag)
  <2>1. CASE j <= m
    <3>1. j \in 1..m
      BY <1>1, <2>1
    <3> QED
      BY <1>1, <1>4, <3>1
  <2>2. CASE j > m
    <3> DEFINE l == j - m
    <3>1. l \in 1..n /\ m + l = j
      BY <1>1, <2>2
    <3> HIDE DEF l
    <3>2. r[m + l] = q[l]
      BY <1>1, <3>1
    <3> QED
      BY <1>4, <3>1, <3>2
  <2> QED
    BY <1>1, <2>1, <2>2
<1>5. Contains(r, tag) <=> (\E i \in 1..m : p[i] = tag) \/ (\E i \in 1..n : q[i] = tag)
  BY <1>2, <1>3, <1>4 DEF Contains
<1> QED
  BY <1>5 DEF Contains, r, m, n

(* Pieces of one text, put together in two ways.                           *)
LEMMA Regrouped ==
  ASSUME NEW a \in Seq(Int), NEW b \in Seq(Int), NEW c \in Seq(Int)
  PROVE  (a \o b) \o c = a \o (b \o c)
<1> DEFINE T == Int
<1>1. a \in Seq(T) /\ b \in Seq(T) /\ c \in Seq(T)
  OBVIOUS
<1> HIDE DEF T
<1> QED
  BY ONLY <1>1, SMTT(60)

(* Nothing before or after a text leaves it as it is.                      *)
LEMMA Unaltered ==
  ASSUME NEW a \in Seq(Int)
  PROVE  <<>> \o a = a /\ a \o <<>> = a
<1> DEFINE T == Int
<1>1. a \in Seq(T)
  OBVIOUS
<1> HIDE DEF T
<1> QED
  BY ONLY <1>1, SMTT(60)

LEMMA SplitLonger ==
  ASSUME NEW c, NEW tag \in Int, NEW p, NEW q, Split(c, tag, p, q), NEW d \in Seq(Int)
  PROVE  Split(c \o d, tag, p, q \o d)
<1>1. /\ p \in Seq(Int) /\ q \in Seq(Int) /\ c = p \o (<<tag>> \o q) /\ ~Contains(p, tag)
      /\ <<tag>> \in Seq(Int) /\ <<tag>> \o q \in Seq(Int)
  BY DEF Split
<1> DEFINE a == <<tag>>
           b == a \o q
<1>2. a \in Seq(Int) /\ q \in Seq(Int) /\ b \in Seq(Int) /\ p \in Seq(Int) /\ d \in Seq(Int)
  BY <1>1
<1> HIDE DEF a
<1>3. b \o d = a \o (q \o d)
  BY ONLY <1>2, Regrouped, ZenonT(60)
<1> HIDE DEF b
<1>4. (p \o b) \o d = p \o (b \o d)
  BY ONLY <1>2, Regrouped, ZenonT(60)
<1>5. (p \o (<<tag>> \o q)) \o d = p \o (<<tag>> \o (q \o d))
  BY <1>3, <1>4 DEF a, b
<1>6. q \o d \in Seq(Int)
  BY <1>2
<1> QED
  BY <1>1, <1>5, <1>6 DEF Split

LEMMA SplitLater ==
  ASSUME NEW c \in Seq(Int), NEW tag \in Int, ~Contains(c, tag),
         NEW d, NEW p, NEW q, Split(d, tag, p, q)
  PROVE  Split(c \o d, tag, c \o p, q)
<1>1. /\ p \in Seq(Int) /\ q \in Seq(Int) /\ d = p \o (<<tag>> \o q) /\ ~Contains(p, tag)
      /\ <<tag>> \in Seq(Int) /\ <<tag>> \o q \in Seq(Int)
  BY DEF Split
<1>2. c \o (p \o (<<tag>> \o q)) = (c \o p) \o (<<tag>> \o q)
  <2> DEFINE r == <<tag>> \o q
  <2>1. r \in Seq(Int)
    BY <1>1
  <2> HIDE DEF r
  <2>2. c \o (p \o r) = (c \o p) \o r
    <3>1. p \in Seq(Int)
      BY <1>1
    <3> QED
      BY ONLY c \in Seq(Int), <2>1, <3>1, Regrouped
  <2> QED
    BY <2>2 DEF r
<1>3. c \o p \in Seq(Int) /\ ~Contains(c \o p, tag)
  BY <1>1, ContainsConcat
<1> QED
  BY <1>1, <1>2, <1>3 DEF Split

(* What is before and after a tag in a sequence that goes on.              *)
LEMMA TagEarlier ==
  ASSUME NEW c \in Seq(Int), NEW d \in Seq(Int), NEW tag \in Int, Contains(c, tag)
  PROVE  /\ Contains(c \o d, tag) /\ Before(c \o d, tag) = Before(c, tag)
         /\ After(c \o d, tag) = After(c, tag) \o d
         /\ Before(c, tag) \in Seq(Int) /\ After(c, tag) \in Seq(Int)
<1> DEFINE p == Before(c, tag)
           q == After(c, tag)
           e == c \o d
           r == q \o d
<1>1. Split(c, tag, p, q) /\ p \in Seq(Int) /\ q \in Seq(Int)
  BY Splits DEF Split
<1> HIDE DEF p, q
<1>2. Split(e, tag, p, r)
  BY <1>1, SplitLonger
<1> HIDE DEF e, r
<1>3. Contains(e, tag) /\ Before(e, tag) = p /\ After(e, tag) = r
  BY <1>2, SplitPlaces
<1> QED
  BY <1>1, <1>3 DEF p, q, e, r

LEMMA TagLater ==
  ASSUME NEW c \in Seq(Int), NEW d \in Seq(Int), NEW tag \in Int, ~Contains(c, tag)
  PROVE  /\ Contains(c \o d, tag) <=> Contains(d, tag)
         /\ Contains(d, tag) => /\ Before(c \o d, tag) = c \o Before(d, tag)
                                /\ After(c \o d, tag) = After(d, tag)
                                /\ Before(d, tag) \in Seq(Int) /\ After(d, tag) \in Seq(Int)
<1>1. Contains(c \o d, tag) <=> Contains(d, tag)
  BY ContainsConcat
<1>2. ASSUME Contains(d, tag)
      PROVE  /\ Before(c \o d, tag) = c \o Before(d, tag) /\ After(c \o d, tag) = After(d, tag)
             /\ Before(d, tag) \in Seq(Int) /\ After(d, tag) \in Seq(Int)
  <2> DEFINE p == Before(d, tag)
             q == After(d, tag)
             e == c \o d
             r == c \o p
  <2>1. Split(d, tag, p, q) /\ p \in Seq(Int) /\ q \in Seq(Int)
    BY <1>2, Splits DEF Split
  <2> HIDE DEF p, q
  <2>2. Split(e, tag, r, q)
    BY <2>1, SplitLater
  <2> HIDE DEF e, r
  <2>3. Before(e, tag) = r /\ After(e, tag) = q
    BY <2>2, SplitPlaces
  <2> QED
    BY <2>1, <2>3 DEF p, q, e, r
<1> QED
  BY <1>1, <1>2

-------------------------------------------------------------------------------
(* What the events of a stream say: their texts, as a function of each.    *)
EV == Events(Types)

Takes(T, K) == [x \in EV |-> IF x.type \in T /\ x.kind \in K THEN x.data ELSE <<>>]

LEMMA TakesMakes == ASSUME NEW T, NEW K PROVE Makes(Takes(T, K), EV, Int)
<1>1. <<>> \in Seq(Int)
  OBVIOUS
<1>2. \A x \in EV : x.data \in Seq(Int)
  BY DEF EV, Events
<1> QED
  BY <1>1, <1>2 DEF Takes, Makes

LEMMA SaidIsSpread ==
  ASSUME NEW T, NEW K, NEW q \in Seq(EV)
  PROVE  Said(q, T, K) = Spread(Takes(T, K), q)
<1> DEFINE a == [k \in 1..Len(q) |-> IF q[k].type \in T /\ q[k].kind \in K
                                    THEN q[k].data ELSE <<>>]
           b == [k \in 1..Len(q) |-> Takes(T, K)[q[k]]]
<1>1. \A k \in 1..Len(q) : q[k] \in EV
  OBVIOUS
<1>2. \A x \in EV : Takes(T, K)[x] = IF x.type \in T /\ x.kind \in K THEN x.data ELSE <<>>
  BY DEF Takes
<1>3. a = b
  BY <1>1, <1>2
<1> QED
  BY <1>3 DEF Said, Spread

LEMMA SaidTyped == ASSUME NEW T, NEW K, NEW q \in Seq(EV) PROVE Said(q, T, K) \in Seq(Int)
BY SaidIsSpread, TakesMakes, SpreadTyped

LEMMA SaidEmpty == ASSUME NEW T, NEW K PROVE Said(<<>>, T, K) = <<>>
<1> DEFINE q == <<>>
<1>1. q \in Seq(EV)
  OBVIOUS
<1>2. Spread(Takes(T, K), q) = <<>>
  BY TakesMakes, SpreadEmpty
<1> HIDE DEF q
<1>3. Said(q, T, K) = <<>>
  BY <1>1, <1>2, SaidIsSpread
<1> QED
  BY <1>3 DEF q

LEMMA SaidOne ==
  ASSUME NEW T, NEW K, NEW x \in EV
  PROVE  Said(<<x>>, T, K) = IF x.type \in T /\ x.kind \in K THEN x.data ELSE <<>>
<1> DEFINE q == <<x>>
<1>1. q \in Seq(EV)
  OBVIOUS
<1>2. Spread(Takes(T, K), q) = Takes(T, K)[x]
  BY TakesMakes, SpreadOne
<1> HIDE DEF q
<1>3. Said(q, T, K) = Takes(T, K)[x]
  BY <1>1, <1>2, SaidIsSpread
<1>4. Takes(T, K)[x] = IF x.type \in T /\ x.kind \in K THEN x.data ELSE <<>>
  BY DEF Takes
<1> QED
  BY <1>3, <1>4 DEF q

Joins(x, y, z) == x = y \o z

LEMMA SaidConcat ==
  ASSUME NEW T, NEW K, NEW p \in Seq(EV), NEW q \in Seq(EV)
  PROVE  Said(p \o q, T, K) = Said(p, T, K) \o Said(q, T, K)
<1> DEFINE r == p \o q
<1>1. r \in Seq(EV)
  OBVIOUS
<1>2. Spread(Takes(T, K), r) = Spread(Takes(T, K), p) \o Spread(Takes(T, K), q)
  BY TakesMakes, SpreadConcat
<1> HIDE DEF r
<1>3. Said(r, T, K) = Said(p, T, K) \o Said(q, T, K)
  BY <1>1, <1>2, SaidIsSpread
<1> QED
  BY <1>3 DEF r

LEMMA SaidJoins ==
  ASSUME NEW T, NEW K, NEW p \in Seq(EV), NEW q \in Seq(EV), NEW r, r = p \o q
  PROVE  Joins(Said(r, T, K), Said(p, T, K), Said(q, T, K))
<1>1. Said(p \o q, T, K) = Said(p, T, K) \o Said(q, T, K)
  BY SaidConcat
<1> QED
  BY <1>1 DEF Joins

LEMMA SaidNothing ==
  ASSUME NEW T, NEW K, NEW q \in Seq(EV),
         \A k \in 1..Len(q) : q[k].type \in T /\ q[k].kind \in K => q[k].data = <<>>
  PROVE  Said(q, T, K) = <<>>
<1>1. \A k \in 1..Len(q) : Takes(T, K)[q[k]] = <<>>
  <2>1. \A k \in 1..Len(q) : q[k] \in EV
    OBVIOUS
  <2>2. \A x \in EV : Takes(T, K)[x] = IF x.type \in T /\ x.kind \in K THEN x.data ELSE <<>>
    BY DEF Takes
  <2> QED
    BY <2>1, <2>2
<1>2. Spread(Takes(T, K), q) = <<>>
  BY <1>1, TakesMakes, SpreadNothing
<1> QED
  BY <1>2, SaidIsSpread

LEMMA SaidFlat ==
  ASSUME NEW T, NEW K, NEW ss \in Seq(Seq(EV))
  PROVE  Said(FlattenSeq(ss), T, K) = FlattenSeq([k \in 1..Len(ss) |-> Said(ss[k], T, K)])
<1> DEFINE C == Seq(EV)
<1>1. FlattenSeq(ss) \in Seq(EV)
  BY FlattenTyped
<1>2. Said(FlattenSeq(ss), T, K) = Spread(Takes(T, K), FlattenSeq(ss))
  BY <1>1, SaidIsSpread
<1>3. Spread(Takes(T, K), FlattenSeq(ss))
        = FlattenSeq([k \in 1..Len(ss) |-> Spread(Takes(T, K), ss[k])])
  BY TakesMakes, SpreadFlat
<1>4. \A k \in 1..Len(ss) : Said(ss[k], T, K) = Spread(Takes(T, K), ss[k])
  <2>1. \A k \in 1..Len(ss) : ss[k] \in C
    <3>1. ss \in Seq(C)
      OBVIOUS
    <3> HIDE DEF C
    <3> QED
      BY <3>1
  <2>2. \A q \in C : Said(q, T, K) = Spread(Takes(T, K), q)
    BY SaidIsSpread
  <2> QED
    BY <2>1, <2>2
<1>5. [k \in 1..Len(ss) |-> Said(ss[k], T, K)]
        = [k \in 1..Len(ss) |-> Spread(Takes(T, K), ss[k])]
  BY <1>4
<1> QED
  BY <1>2, <1>3, <1>5

LEMMA SaidTwo ==
  ASSUME NEW T, NEW K, NEW x \in EV, NEW y \in EV
  PROVE  Said(<<x, y>>, T, K) = Said(<<x>>, T, K) \o Said(<<y>>, T, K)
<1> DEFINE p == <<x>>
           q == <<y>>
<1>1. p \o q = <<x, y>> /\ p \in Seq(EV) /\ q \in Seq(EV)
  BY OneAndTwo
<1> HIDE DEF p, q
<1>2. Said(p \o q, T, K) = Said(p, T, K) \o Said(q, T, K)
  BY <1>1, SaidConcat
<1> QED
  BY <1>1, <1>2 DEF p, q

-------------------------------------------------------------------------------
(* The kinds of the upstream's texts a client of another format reads as   *)
(* one kind; the tags inside OpenAI's texts are another matter.            *)
Heard(f, g, kind) ==
    CASE f = g -> {kind}
      [] f = "gemini" /\ g = "openai" -> IF kind = "text" THEN {"text", "thought"} ELSE {}
      [] f = "gemini" /\ g = "claude" -> {kind} \ {"call"}
      [] <<f, g>> \in {<<"openai", "claude">>, <<"claude", "openai">>} -> {kind} \ {"thought"}
      [] OTHER -> {kind} \cap {"text"}

(* A line as the format has it.                                            *)
Formed(f, x) ==
    /\ x \in EV /\ x.type \in LineTypes(f) \cup {"error"}
    /\ x.type \in {"chunk", "candidate", "content_block_delta"} => x.kind \in Kinds
    /\ x.type # "response.output_text.delta"
    /\ x.type = "response.output_item.delta" => x.kind = "text"
    /\ x.type = "response.output_item.added" => x.kind = "call"

(* What a converter's output says of one kind.                             *)
Says(g, kind, o) == Said(o, TextType(g), {kind})

LEMMA SaysOf ==
  ASSUME NEW g \in Formats, NEW kind, NEW t \in States(Types), t.out = <<>>, NEW x \in EV
  PROVE  /\ Says(g, kind, t.out) = <<>>
         /\ Says(g, kind, Emit(t, <<x>>).out)
               = IF x.type \in TextType(g) /\ x.kind = kind THEN x.data ELSE <<>>
<1>1. Says(g, kind, <<>>) = <<>>
  BY SaidEmpty DEF Says
<1>2. Emit(t, <<x>>).out = <<x>>
  BY EmitFromNothing DEF EV
<1>3. Said(<<x>>, TextType(g), {kind})
         = IF x.type \in TextType(g) /\ x.kind \in {kind} THEN x.data ELSE <<>>
  BY SaidOne
<1> QED
  BY <1>1, <1>2, <1>3 DEF Says

(* Outputs without texts say nothing.                                      *)
LEMMA SaysNothing ==
  ASSUME NEW g \in Formats, NEW kind, NEW q \in Seq(EV),
         \A k \in 1..Len(q) : q[k].type \in TextType(g) => q[k].kind # kind \/ q[k].data = <<>>
  PROVE  Says(g, kind, q) = <<>>
BY SaidNothing DEF Says

LEMMA MadeEvents ==
  ASSUME NEW data \in Seq(Int), NEW kind \in EventKinds, NEW i \in Nat
  PROVE  /\ MessageStart \in EV /\ Start(i, kind) \in EV /\ Delta(i, kind, data) \in EV
         /\ Stop(i) \in EV /\ MessageDelta(kind) \in EV /\ MessageStop \in EV
         /\ Chunk(i, kind, data) \in EV /\ Finish(kind) \in EV /\ Done \in EV
         /\ Candidate(kind, data) \in EV /\ Finished(kind) \in EV
         /\ Created \in EV /\ ItemDelta(data) \in EV /\ ResponseDone \in EV
         /\ TextDelta(data) \in EV /\ ItemAdded(data) \in EV /\ Completed \in EV
         /\ E("usage", 0, "none", <<>>) \in EV
BY MadeTyped DEF EV, Types, ClaudeTypes, OpenAITypes, GeminiTypes, CodexTypes

-------------------------------------------------------------------------------
(* What a line brings to the client, and what is said of it.               *)
(* What a line brings to the client, in pairs without tags.                *)
Given(f, g, kind, e) ==
    IF e.type \in TextType(f) /\ e.kind \in Heard(f, g, kind) THEN e.data ELSE <<>>

(* What a converter's state has to say.                                    *)
Talk(g, kind, t) == Says(g, kind, t.out)

LEMMA SaysConcat ==
  ASSUME NEW g, NEW kind, NEW p \in Seq(EV), NEW q \in Seq(EV), NEW r, r = p \o q
  PROVE  Says(g, kind, r) = Says(g, kind, p) \o Says(g, kind, q)
BY SaidConcat DEF Says

LEMMA SaysTyped ==
  ASSUME NEW g, NEW kind, NEW q \in Seq(EV)
  PROVE  Says(g, kind, q) \in Seq(Int)
BY SaidTyped DEF Says

LEMMA TalkTyped ==
  ASSUME NEW g, NEW kind, NEW t \in States(Types)
  PROVE  Talk(g, kind, t) \in Seq(Int)
<1>1. t.out \in Seq(EV)
  BY DEF States, EV
<1> QED
  BY <1>1, SaysTyped DEF Talk

LEMMA TalkSilent ==
  ASSUME NEW g, NEW kind, NEW t \in States(Types), t.out = <<>>
  PROVE  Talk(g, kind, t) = <<>>
BY SaidEmpty DEF Says, Talk

LEMMA TalkEmits ==
  ASSUME NEW g, NEW kind, NEW t \in States(Types), NEW ev \in Seq(EV)
  PROVE  /\ Emit(t, ev) \in States(Types)
         /\ Talk(g, kind, Emit(t, ev)) = Talk(g, kind, t) \o Says(g, kind, ev)
<1> DEFINE o == t.out
           u == Emit(t, ev)
           r == u.out
<1>1. o \in Seq(EV)
  BY DEF States, EV
<1>2. u \in States(Types) /\ r = o \o ev
  BY EmitTyped, OutOfEmit DEF EV
<1> HIDE DEF u, o, r
<1>3. Says(g, kind, r) = Says(g, kind, o) \o Says(g, kind, ev)
  <2>1. Says(g, kind, o \o ev) = Says(g, kind, o) \o Says(g, kind, ev)
    BY <1>1, SaidConcat DEF Says
  <2> QED
    BY <1>2, <2>1
<1>4. Talk(g, kind, u) = Talk(g, kind, t) \o Says(g, kind, ev)
  BY <1>3 DEF Talk, o, r
<1> QED
  BY <1>2, <1>4 DEF u

LEMMA TalkMore ==
  ASSUME NEW g, NEW kind, NEW t \in States(Types), NEW ev \in Seq(EV)
  PROVE  /\ Emit(t, ev) \in States(Types)
         /\ Talk(g, kind, t) = <<>> => Talk(g, kind, Emit(t, ev)) = Says(g, kind, ev)
         /\ Says(g, kind, ev) = <<>> => Talk(g, kind, Emit(t, ev)) = Talk(g, kind, t)
<1> DEFINE u == Emit(t, ev)
           a == Talk(g, kind, t)
           b == Says(g, kind, ev)
           c == Talk(g, kind, u)
<1>1. u \in States(Types) /\ c = a \o b
  BY TalkEmits
<1>2. a \in Seq(Int) /\ b \in Seq(Int)
  BY TalkTyped, SaysTyped
<1> HIDE DEF a, b, c, u
<1>3. (a = <<>> => c = b) /\ (b = <<>> => c = a)
  <2>1. c = a \o b
    BY <1>1
  <2> QED
    BY ONLY <1>2, <2>1, Unaltered
<1> QED
  BY <1>1, <1>3 DEF a, b, c, u

(* One event more, after nothing.                                          *)
LEMMA TalkAdded ==
  ASSUME NEW g, NEW kind, NEW t \in States(Types), NEW x \in EV, Talk(g, kind, t) = <<>>
  PROVE  Talk(g, kind, Emit(t, <<x>>))
            = IF x.type \in TextType(g) /\ x.kind = kind THEN x.data ELSE <<>>
<1> DEFINE ev == <<x>>
<1>1. ev \in Seq(EV)
  OBVIOUS
<1>2. Says(g, kind, ev) = IF x.type \in TextType(g) /\ x.kind = kind THEN x.data ELSE <<>>
  BY SaidOne DEF Says
<1> HIDE DEF ev
<1>3. Talk(g, kind, Emit(t, ev)) = Says(g, kind, ev)
  BY <1>1, TalkMore
<1> QED
  BY <1>2, <1>3 DEF ev

LEMMA TalkFirst ==
  ASSUME NEW g, NEW kind, NEW t \in States(Types), NEW ev \in Seq(EV), Says(g, kind, ev) = <<>>
  PROVE  First(t, ev) \in States(Types) /\ Talk(g, kind, First(t, ev)) = Talk(g, kind, t)
<1> DEFINE u == Emit(t, ev)
<1>1. u \in States(Types) /\ Talk(g, kind, u) = Talk(g, kind, t)
  BY TalkMore
<1>2. First(t, ev) = IF t.id THEN t ELSE [u EXCEPT !.id = TRUE]
  BY DEF First
<1> HIDE DEF u
<1>3. [u EXCEPT !.id = TRUE] \in States(Types) /\ [u EXCEPT !.id = TRUE].out = u.out
  BY <1>1 DEF States
<1>4. Talk(g, kind, [u EXCEPT !.id = TRUE]) = Talk(g, kind, u)
  BY <1>3 DEF Talk
<1> QED
  BY <1>1, <1>2, <1>3, <1>4

(* The openings and the ends of messages say nothing.                      *)
LEMMA SaysQuiet ==
  ASSUME NEW g \in Formats, NEW kind, NEW r \in EventKinds
  PROVE  /\ <<Created>> \in Seq(EV) /\ Says(g, kind, <<Created>>) = <<>>
         /\ <<MessageStart, Start(0, "text")>> \in Seq(EV)
         /\ Says(g, kind, <<MessageStart, Start(0, "text")>>) = <<>>
         /\ <<Chunk(0, "text", <<>>)>> \in Seq(EV)
         /\ Says(g, kind, <<Chunk(0, "text", <<>>)>>) = <<>>
         /\ <<Stop(0), MessageDelta(r), MessageStop>> \in Seq(EV)
         /\ Says(g, kind, <<Stop(0), MessageDelta(r), MessageStop>>) = <<>>
         /\ <<Finish(r), Done>> \in Seq(EV)
         /\ Says(g, kind, <<Finish(r), Done>>) = <<>>
         /\ <<MessageStart>> \in Seq(EV) /\ Says(g, kind, <<MessageStart>>) = <<>>
<1>1. /\ Created \in EV /\ MessageStart \in EV /\ Start(0, "text") \in EV
      /\ Chunk(0, "text", <<>>) \in EV /\ Stop(0) \in EV /\ MessageDelta(r) \in EV
      /\ MessageStop \in EV /\ Finish(r) \in EV /\ Done \in EV
  <2>1. <<>> \in Seq(Int) /\ 0 \in Nat /\ "text" \in EventKinds
    BY DEF EventKinds
  <2> QED
    BY <2>1, MadeEvents
<1>2. /\ Created.data = <<>> /\ MessageStart.data = <<>> /\ Start(0, "text").data = <<>>
      /\ Chunk(0, "text", <<>>).data = <<>> /\ Stop(0).data = <<>> /\ MessageDelta(r).data = <<>>
      /\ MessageStop.data = <<>> /\ Finish(r).data = <<>> /\ Done.data = <<>>
  BY DEF E, MessageStart, Start, Delta, Stop, MessageDelta, MessageStop, Chunk, Finish, Done,
         Candidate, Finished, Created, ItemDelta, ResponseDone, ItemAdded
<1>3. ASSUME NEW x \in EV, x.data = <<>>
      PROVE  <<x>> \in Seq(EV) /\ Says(g, kind, <<x>>) = <<>>
  BY <1>3, SaidOne DEF Says
<1>4. ASSUME NEW x \in EV, NEW y \in EV, x.data = <<>>, y.data = <<>>
      PROVE  <<x, y>> \in Seq(EV) /\ Says(g, kind, <<x, y>>) = <<>>
  <2>1. /\ <<x, y>> \in Seq(EV) /\ Len(<<x, y>>) = 2
        /\ <<x, y>>[1] = x /\ <<x, y>>[2] = y
    OBVIOUS
  <2> DEFINE q == <<x, y>>
  <2> HIDE DEF q
  <2>2. \A k \in 1..Len(q) : q[k].data = <<>>
    BY <1>4, <2>1 DEF q
  <2>3. Says(g, kind, q) = <<>>
    BY <2>1, <2>2, SaidNothing DEF Says, q
  <2> QED
    BY <2>1, <2>3 DEF q
<1>5. ASSUME NEW x \in EV, NEW y \in EV, NEW z \in EV, x.data = <<>>, y.data = <<>>, z.data = <<>>
      PROVE  <<x, y, z>> \in Seq(EV) /\ Says(g, kind, <<x, y, z>>) = <<>>
  <2>1. /\ <<x, y, z>> \in Seq(EV) /\ Len(<<x, y, z>>) = 3
        /\ <<x, y, z>>[1] = x /\ <<x, y, z>>[2] = y /\ <<x, y, z>>[3] = z
    OBVIOUS
  <2> DEFINE q == <<x, y, z>>
  <2> HIDE DEF q
  <2>2. \A k \in 1..Len(q) : q[k].data = <<>>
    BY <1>5, <2>1 DEF q
  <2>3. Says(g, kind, q) = <<>>
    BY <2>1, <2>2, SaidNothing DEF Says, q
  <2> QED
    BY <2>1, <2>3 DEF q
<1> QED
  BY <1>1, <1>2, <1>3, <1>4, <1>5

LEMMA AsIsSays ==
  ASSUME NEW f \in Formats, NEW kind \in Kinds, NEW t \in States(Types), t.out = <<>>,
         NEW e, Formed(f, e)
  PROVE  Talk(f, kind, Emit(t, <<e>>)) = Given(f, f, kind, e)
<1>1. e \in EV
  BY DEF Formed
<1>2. Heard(f, f, kind) = {kind}
  BY DEF Heard
<1> QED
  BY <1>1, <1>2, TalkSilent, TalkAdded DEF Given

LEMMA OpenAIToCodexSays ==
  ASSUME NEW kind \in Kinds, NEW t \in States(Types), t.out = <<>>,
         NEW e, Formed("openai", e)
  PROVE  Talk("codex", kind, OpenAIToCodex(t, e)) = Given("openai", "codex", kind, e)
<1> DEFINE g == "codex"
           u == First(t, <<Created>>)
<1>1. /\ e \in EV /\ e.data \in Seq(Int) /\ g \in Formats /\ e.kind \in EventKinds
      /\ e.type \in {"chunk", "finish", "usage", "[DONE]", "error"}
  BY DEF Formed, EV, Events, Formats, LineTypes, OpenAITypes
<1>2. Talk(g, kind, t) = <<>>
  BY <1>1, TalkSilent
<1>3. u \in States(Types) /\ Talk(g, kind, u) = <<>>
  <2>1. <<Created>> \in Seq(EV) /\ Says(g, kind, <<Created>>) = <<>>
    BY <1>1, SaysQuiet
  <2> QED
    BY <1>2, <2>1, TalkFirst
<1> HIDE DEF u
<1>4. /\ TextType("openai") = {"chunk"} /\ Heard("openai", g, kind) = {kind} \cap {"text"}
      /\ {"response.done", "response.created"} \cap TextType(g) = {}
      /\ "response.output_item.delta" \in TextType(g)
  BY DEF TextType, Heard
<1>5. Created \in EV /\ ResponseDone \in EV /\ ItemDelta(e.data) \in EV
  <2>1. 0 \in Nat
    OBVIOUS
  <2> QED
    BY <1>1, <2>1, MadeEvents
<1>6. /\ Created.type = "response.created" /\ ResponseDone.type = "response.done"
      /\ ItemDelta(e.data).type = "response.output_item.delta"
      /\ ItemDelta(e.data).kind = "text" /\ ItemDelta(e.data).data = e.data
  BY DEF E, MessageStart, Start, Delta, Stop, MessageDelta, MessageStop, Chunk, Finish, Done,
         Candidate, Finished, Created, ItemDelta, ResponseDone, ItemAdded
<1>7. ASSUME NEW v \in States(Types), Talk(g, kind, v) = <<>>
      PROVE  /\ Talk(g, kind, Emit(v, <<ResponseDone>>)) = <<>>
             /\ Talk(g, kind, Emit(v, <<Created>>)) = <<>>
             /\ Talk(g, kind, Emit(v, <<ItemDelta(e.data)>>))
                   = IF kind = "text" THEN e.data ELSE <<>>
  BY <1>1, <1>4, <1>5, <1>6, <1>7, TalkAdded
<1>8. Talk(g, kind, Emit(t, <<>>)) = <<>>
  <2>1. <<>> \in Seq(EV) /\ Says(g, kind, <<>>) = <<>>
    BY SaidEmpty DEF Says
  <2> QED
    BY <1>2, <2>1, TalkMore, ZenonT(60)
<1>9. CASE e.type \in {"[DONE]", "finish"}
  <2>1. OpenAIToCodex(t, e) = Emit(IF e.type = "finish" THEN u ELSE t, <<ResponseDone>>)
    BY <1>9 DEF OpenAIToCodex, u
  <2> QED
    BY <1>2, <1>3, <1>4, <1>7, <1>9, <2>1 DEF Given
<1>10. CASE e.type = "chunk"
  <2>1. CASE e.kind = "text" /\ e.data # <<>>
    <3>1. OpenAIToCodex(t, e) = Emit(u, <<ItemDelta(e.data)>>)
      BY <1>10, <2>1 DEF OpenAIToCodex, u
    <3> QED
      BY <1>3, <1>4, <1>7, <1>10, <2>1, <3>1 DEF Given
  <2>2. CASE ~ (e.kind = "text" /\ e.data # <<>>)
    <3>1. OpenAIToCodex(t, e) = u
      BY <1>10, <2>2 DEF OpenAIToCodex, u
    <3> QED
      BY <1>3, <1>4, <1>10, <2>2, <3>1 DEF Given
  <2> QED
    BY <2>1, <2>2
<1>11. CASE e.type = "error"
  <2>1. OpenAIToCodex(t, e) = Emit(t, IF t.id THEN <<>> ELSE <<Created>>)
    BY <1>11 DEF OpenAIToCodex
  <2> QED
    BY <1>2, <1>4, <1>7, <1>8, <1>11, <2>1 DEF Given
<1>12. CASE e.type = "usage"
  <2>1. OpenAIToCodex(t, e) = u
    BY <1>12 DEF OpenAIToCodex, u
  <2> QED
    BY <1>3, <1>4, <1>12, <2>1 DEF Given
<1> QED
  BY <1>1, <1>9, <1>10, <1>11, <1>12

LEMMA OpenAIToGeminiSays ==
  ASSUME NEW kind \in Kinds, NEW t \in States(Types), t.out = <<>>,
         NEW e, Formed("openai", e)
  PROVE  Talk("gemini", kind, OpenAIToGemini(t, e)) = Given("openai", "gemini", kind, e)
<1> DEFINE g == "gemini"
           r == IF e.kind = "length" THEN "length" ELSE "end"
<1>1. /\ e \in EV /\ e.data \in Seq(Int) /\ g \in Formats /\ r \in EventKinds
      /\ e.type \in {"chunk", "finish", "usage", "[DONE]", "error"}
  BY DEF Formed, EV, Events, Formats, LineTypes, OpenAITypes, EventKinds
<1>2. Talk(g, kind, t) = <<>>
  BY <1>1, TalkSilent
<1> HIDE DEF r
<1>3. /\ TextType("openai") = {"chunk"} /\ Heard("openai", g, kind) = {kind} \cap {"text"}
      /\ TextType(g) = {"candidate"}
  BY DEF TextType, Heard
<1>4. Candidate("text", e.data) \in EV /\ Finished(r) \in EV
  <2>1. "text" \in EventKinds /\ 0 \in Nat
    BY DEF EventKinds
  <2> QED
    BY <1>1, <2>1, MadeEvents
<1>5. /\ Candidate("text", e.data).type = "candidate" /\ Candidate("text", e.data).kind = "text"
      /\ Candidate("text", e.data).data = e.data /\ Finished(r).type = "finished"
  BY DEF E, MessageStart, Start, Delta, Stop, MessageDelta, MessageStop, Chunk, Finish, Done,
         Candidate, Finished, Created, ItemDelta, ResponseDone, ItemAdded
<1>6. /\ Talk(g, kind, Emit(t, <<Finished(r)>>)) = <<>>
      /\ Talk(g, kind, Emit(t, <<Candidate("text", e.data)>>))
            = IF kind = "text" THEN e.data ELSE <<>>
  BY <1>1, <1>2, <1>3, <1>4, <1>5, TalkAdded
<1>7. CASE e.type = "chunk" /\ e.kind = "text" /\ e.data # <<>>
  <2>1. OpenAIToGemini(t, e) = Emit(t, <<Candidate("text", e.data)>>)
    BY <1>7 DEF OpenAIToGemini
  <2> QED
    BY <1>3, <1>6, <1>7, <2>1 DEF Given
<1>8. CASE e.type = "finish"
  <2>1. OpenAIToGemini(t, e) = Emit(t, <<Finished(r)>>)
    BY <1>8 DEF OpenAIToGemini, r
  <2> QED
    BY <1>3, <1>6, <1>8, <2>1 DEF Given
<1>9. CASE e.type # "finish" /\ ~ (e.type = "chunk" /\ e.kind = "text" /\ e.data # <<>>)
  <2>1. OpenAIToGemini(t, e) = t
    BY <1>9 DEF OpenAIToGemini
  <2> QED
    BY <1>2, <1>3, <1>9, <2>1 DEF Given
<1> QED
  BY <1>7, <1>8, <1>9

LEMMA ClaudeToOpenAISays ==
  ASSUME NEW kind \in Kinds, NEW t \in States(Types), t.out = <<>>,
         NEW e, Formed("claude", e),
         e.type = "content_block_delta" /\ e.kind = "call" => t.current \in DOMAIN t.calls
  PROVE  Talk("openai", kind, ClaudeToOpenAI(t, e)) = Given("claude", "openai", kind, e)
<1> DEFINE g == "openai"
<1>1. /\ e \in EV /\ e.data \in Seq(Int) /\ e.i \in Nat /\ e.kind \in EventKinds /\ g \in Formats
      /\ e.type \in {"message_start", "content_block_start", "content_block_delta",
                     "content_block_stop", "message_delta", "message_stop", "error"}
      /\ e.type = "content_block_delta" => e.kind \in {"thought", "text", "call"}
      /\ t.current \in Nat /\ t.reason \in EventKinds
  BY DEF Formed, EV, Events, Formats, LineTypes, ClaudeTypes, States, Kinds
<1>2. Talk(g, kind, t) = <<>>
  BY <1>1, TalkSilent
<1>3. /\ TextType("claude") = {"content_block_delta"}
      /\ Heard("claude", g, kind) = {kind} \ {"thought"} /\ TextType(g) = {"chunk"}
  BY DEF TextType, Heard
<1>4. Chunk(0, "text", e.data) \in EV /\ Chunk(t.current, "call", e.data) \in EV
  <2>1. "text" \in EventKinds /\ "call" \in EventKinds /\ 0 \in Nat
    BY DEF EventKinds
  <2> QED
    BY <1>1, <2>1, MadeEvents
<1>5. \A i, k : /\ Chunk(i, k, e.data).type = "chunk" /\ Chunk(i, k, e.data).kind = k
                /\ Chunk(i, k, e.data).data = e.data
  BY DEF E, MessageStart, Start, Delta, Stop, MessageDelta, MessageStop, Chunk, Finish, Done,
         Candidate, Finished, Created, ItemDelta, ResponseDone, ItemAdded
<1>6. /\ Talk(g, kind, Emit(t, <<Chunk(0, "text", e.data)>>))
            = IF kind = "text" THEN e.data ELSE <<>>
      /\ Talk(g, kind, Emit(t, <<Chunk(t.current, "call", e.data)>>))
            = IF kind = "call" THEN e.data ELSE <<>>
  BY <1>1, <1>2, <1>3, <1>4, <1>5, TalkAdded
<1>7. CASE e.type = "message_start"
  <2>1. ClaudeToOpenAI(t, e) = Emit(t, <<Chunk(0, "text", <<>>)>>)
    BY <1>7 DEF ClaudeToOpenAI
  <2>2. Talk(g, kind, Emit(t, <<Chunk(0, "text", <<>>)>>)) = <<>>
    <3>1. /\ <<Chunk(0, "text", <<>>)>> \in Seq(EV)
          /\ Says(g, kind, <<Chunk(0, "text", <<>>)>>) = <<>>
      BY <1>1, SaysQuiet
    <3>2. <<>> \o <<>> = <<>>
      OBVIOUS
    <3> QED
      BY <1>1, <1>2, <3>1, <3>2, TalkMore, ZenonT(60)
  <2> QED
    BY <1>3, <1>7, <2>1, <2>2 DEF Given
<1>8. CASE e.type = "content_block_start" \/ e.type = "message_delta"
  <2>1. ClaudeToOpenAI(t, e).out = t.out
    <3>1. CASE e.type = "content_block_start"
      <4>1. ClaudeToOpenAI(t, e) = [t EXCEPT !.current = e.i,
                            !.calls = IF e.kind = "call" THEN With(t.calls, e.i, e.i) ELSE t.calls]
        BY <3>1 DEF ClaudeToOpenAI
      <4> QED
        BY <4>1 DEF States
    <3>2. CASE e.type = "message_delta"
      <4>1. ClaudeToOpenAI(t, e) = [t EXCEPT !.reason = e.kind]
        BY <3>2 DEF ClaudeToOpenAI
      <4> QED
        BY <4>1 DEF States
    <3> QED
      BY <1>8, <3>1, <3>2
  <2> QED
    BY <1>2, <1>3, <1>8, <2>1 DEF Given, Talk
<1>9. CASE e.type = "content_block_delta"
  <2>1. CASE e.kind = "text"
    <3>1. ClaudeToOpenAI(t, e) = Emit(t, <<Chunk(0, "text", e.data)>>)
      BY <1>9, <2>1 DEF ClaudeToOpenAI
    <3> QED
      BY <1>3, <1>6, <1>9, <2>1, <3>1 DEF Given
  <2>2. CASE e.kind = "call"
    <3>1. ClaudeToOpenAI(t, e) = Emit(t, <<Chunk(t.current, "call", e.data)>>)
      BY <1>9, <2>2 DEF ClaudeToOpenAI
    <3> QED
      BY <1>3, <1>6, <1>9, <2>2, <3>1 DEF Given
  <2>3. CASE e.kind = "thought"
    <3>1. ClaudeToOpenAI(t, e) = t
      BY <1>9, <2>3 DEF ClaudeToOpenAI
    <3> QED
      BY <1>2, <1>3, <1>9, <2>3, <3>1 DEF Given
  <2> QED
    BY <1>1, <1>9, <2>1, <2>2, <2>3
<1>10. CASE e.type = "message_stop"
  <2>1. ClaudeToOpenAI(t, e) = Emit(t, <<Finish(t.reason), Done>>)
    BY <1>10 DEF ClaudeToOpenAI
  <2>2. Talk(g, kind, Emit(t, <<Finish(t.reason), Done>>)) = <<>>
    <3>1. /\ <<Finish(t.reason), Done>> \in Seq(EV)
          /\ Says(g, kind, <<Finish(t.reason), Done>>) = <<>>
      BY <1>1, SaysQuiet
    <3>2. <<>> \o <<>> = <<>>
      OBVIOUS
    <3> QED
      BY <1>1, <1>2, <3>1, <3>2, TalkMore, ZenonT(60)
  <2> QED
    BY <1>3, <1>10, <2>1, <2>2 DEF Given
<1>11. CASE e.type = "content_block_stop" \/ e.type = "error"
  <2>1. ClaudeToOpenAI(t, e) = t
    BY <1>11 DEF ClaudeToOpenAI
  <2> QED
    BY <1>2, <1>3, <1>11, <2>1 DEF Given
<1> QED
  BY <1>1, <1>7, <1>8, <1>9, <1>10, <1>11

LEMMA ClaudeToOthersSay ==
  ASSUME NEW kind \in Kinds, NEW t \in States(Types), t.out = <<>>,
         NEW e, Formed("claude", e)
  PROVE  /\ Talk("codex", kind, ClaudeToCodex(t, e)) = Given("claude", "codex", kind, e)
         /\ Talk("gemini", kind, ClaudeToGemini(t, e)) = Given("claude", "gemini", kind, e)
<1>1. /\ e \in EV /\ e.data \in Seq(Int) /\ e.i \in Nat /\ e.kind \in EventKinds
      /\ e.type \in {"message_start", "content_block_start", "content_block_delta",
                     "content_block_stop", "message_delta", "message_stop", "error"}
      /\ "codex" \in Formats /\ "gemini" \in Formats
  BY DEF Formed, EV, Events, Formats, LineTypes, ClaudeTypes
<1>2. Talk("codex", kind, t) = <<>> /\ Talk("gemini", kind, t) = <<>>
  BY <1>1, TalkSilent
<1>3. /\ TextType("claude") = {"content_block_delta"} /\ TextType("gemini") = {"candidate"}
      /\ "response.output_item.delta" \in TextType("codex")
      /\ {"response.done", "response.created"} \cap TextType("codex") = {}
      /\ Heard("claude", "codex", kind) = {kind} \cap {"text"}
      /\ Heard("claude", "gemini", kind) = {kind} \cap {"text"}
  BY DEF TextType, Heard
<1>4. /\ Created \in EV /\ ItemDelta(e.data) \in EV /\ ResponseDone \in EV
      /\ Candidate("text", e.data) \in EV /\ Finished("end") \in EV
  <2>1. "text" \in EventKinds /\ "end" \in EventKinds /\ 0 \in Nat
    BY DEF EventKinds
  <2> QED
    BY <1>1, <2>1, MadeEvents
<1>5. /\ Candidate("text", e.data).type = "candidate" /\ Candidate("text", e.data).kind = "text"
      /\ Candidate("text", e.data).data = e.data /\ Finished("end").type = "finished"
      /\ Created.type = "response.created" /\ ResponseDone.type = "response.done"
      /\ ItemDelta(e.data).type = "response.output_item.delta"
      /\ ItemDelta(e.data).kind = "text" /\ ItemDelta(e.data).data = e.data
  BY DEF E, MessageStart, Start, Delta, Stop, MessageDelta, MessageStop, Chunk, Finish, Done,
         Candidate, Finished, Created, ItemDelta, ResponseDone, ItemAdded
<1>6. /\ Talk("codex", kind, Emit(t, <<Created>>)) = <<>>
      /\ Talk("codex", kind, Emit(t, <<ResponseDone>>)) = <<>>
      /\ Talk("codex", kind, Emit(t, <<ItemDelta(e.data)>>))
            = IF kind = "text" THEN e.data ELSE <<>>
      /\ Talk("gemini", kind, Emit(t, <<Finished("end")>>)) = <<>>
      /\ Talk("gemini", kind, Emit(t, <<Candidate("text", e.data)>>))
            = IF kind = "text" THEN e.data ELSE <<>>
  BY <1>1, <1>2, <1>3, <1>4, <1>5, TalkAdded
<1>7. Talk("codex", kind, ClaudeToCodex(t, e)) = Given("claude", "codex", kind, e)
  <2>1. CASE e.type = "message_start"
    BY <1>3, <1>6, <2>1 DEF ClaudeToCodex, Given
  <2>2. CASE e.type = "content_block_delta" /\ e.kind = "text"
    BY <1>3, <1>6, <2>2 DEF ClaudeToCodex, Given
  <2>3. CASE e.type = "message_stop"
    BY <1>3, <1>6, <2>3 DEF ClaudeToCodex, Given
  <2>4. CASE /\ e.type \notin {"message_start", "message_stop"}
             /\ ~ (e.type = "content_block_delta" /\ e.kind = "text")
    BY <1>1, <1>2, <1>3, <2>4 DEF ClaudeToCodex, Given
  <2> QED
    BY <2>1, <2>2, <2>3, <2>4
<1>8. Talk("gemini", kind, ClaudeToGemini(t, e)) = Given("claude", "gemini", kind, e)
  <2>1. CASE e.type = "content_block_delta" /\ e.kind = "text"
    BY <1>3, <1>6, <2>1 DEF ClaudeToGemini, Given
  <2>2. CASE e.type = "message_stop"
    BY <1>3, <1>6, <2>2 DEF ClaudeToGemini, Given
  <2>3. CASE /\ e.type # "message_stop"
             /\ ~ (e.type = "content_block_delta" /\ e.kind = "text")
    BY <1>1, <1>2, <1>3, <2>3 DEF ClaudeToGemini, Given
  <2> QED
    BY <2>1, <2>2, <2>3
<1> QED
  BY <1>7, <1>8

LEMMA TalkQuiet ==
  ASSUME NEW g, NEW kind, NEW t \in States(Types), NEW q \in Seq(EV), Says(g, kind, q) = <<>>,
         Talk(g, kind, t) = <<>>
  PROVE  Talk(g, kind, Emit(t, q)) = <<>>
BY TalkMore

LEMMA CodexToClaudeSays ==
  ASSUME NEW kind \in Kinds, NEW t \in States(Types), t.out = <<>>,
         NEW e, Formed("codex", e)
  PROVE  Talk("claude", kind, CodexToClaude(t, e)) = Given("codex", "claude", kind, e)
<1> DEFINE g == "claude"
<1>1. /\ e \in EV /\ e.data \in Seq(Int) /\ g \in Formats /\ "end" \in EventKinds
      /\ e.type \in {"response.created", "response.output_item.delta",
                     "response.output_item.added", "response.done", "error"}
      /\ e.type = "response.output_item.delta" => e.kind = "text"
      /\ e.type = "response.output_item.added" => e.kind = "call"
  BY DEF Formed, EV, Events, Formats, LineTypes, CodexTypes, EventKinds
<1>2. Talk(g, kind, t) = <<>>
  BY TalkSilent
<1>3. /\ TextType("codex") = {"response.output_item.delta", "response.output_text.delta",
                              "response.output_item.added"}
      /\ Heard("codex", g, kind) = {kind} \cap {"text"} /\ TextType(g) = {"content_block_delta"}
  BY DEF TextType, Heard
<1>4. Delta(0, "text", e.data) \in EV
  <2>1. "text" \in EventKinds /\ 0 \in Nat
    BY DEF EventKinds
  <2> QED
    BY <1>1, <2>1, MadeEvents
<1>5. /\ Delta(0, "text", e.data).type = "content_block_delta"
      /\ Delta(0, "text", e.data).kind = "text" /\ Delta(0, "text", e.data).data = e.data
  BY DEF E, Delta
<1>6. Talk(g, kind, Emit(t, <<Delta(0, "text", e.data)>>)) = IF kind = "text" THEN e.data ELSE <<>>
  BY <1>2, <1>3, <1>4, <1>5, TalkAdded
<1>7. /\ Talk(g, kind, Emit(t, <<MessageStart, Start(0, "text")>>)) = <<>>
      /\ Talk(g, kind, Emit(t, <<Stop(0), MessageDelta("end"), MessageStop>>)) = <<>>
  <2>1. /\ <<MessageStart, Start(0, "text")>> \in Seq(EV)
        /\ Says(g, kind, <<MessageStart, Start(0, "text")>>) = <<>>
        /\ <<Stop(0), MessageDelta("end"), MessageStop>> \in Seq(EV)
        /\ Says(g, kind, <<Stop(0), MessageDelta("end"), MessageStop>>) = <<>>
    BY <1>1, SaysQuiet
  <2> QED
    BY <1>2, <2>1, TalkQuiet
<1>8. CASE e.type = "response.created"
  <2>1. CodexToClaude(t, e) = Emit(t, <<MessageStart, Start(0, "text")>>)
    BY <1>8 DEF CodexToClaude
  <2> QED
    BY <1>3, <1>7, <1>8, <2>1 DEF Given
<1>9. CASE e.type = "response.output_item.delta"
  <2>1. CodexToClaude(t, e) = Emit(t, <<Delta(0, "text", e.data)>>)
    BY <1>9 DEF CodexToClaude
  <2> QED
    BY <1>1, <1>3, <1>6, <1>9, <2>1 DEF Given
<1>10. CASE e.type = "response.done"
  <2>1. CodexToClaude(t, e) = Emit(t, <<Stop(0), MessageDelta("end"), MessageStop>>)
    BY <1>10 DEF CodexToClaude
  <2> QED
    BY <1>3, <1>7, <1>10, <2>1 DEF Given
<1>11. CASE e.type \in {"response.output_item.added", "error"}
  <2>1. CodexToClaude(t, e) = t
    BY <1>11 DEF CodexToClaude
  <2> QED
    BY <1>1, <1>2, <1>3, <1>11, <2>1 DEF Given
<1> QED
  BY <1>1, <1>8, <1>9, <1>10, <1>11

LEMMA CodexToOpenAISays ==
  ASSUME NEW kind \in Kinds, NEW t \in States(Types), t.out = <<>>,
         NEW e, Formed("codex", e)
  PROVE  Talk("openai", kind, CodexToOpenAI(t, e)) = Given("codex", "openai", kind, e)
<1> DEFINE g == "openai"
<1>1. /\ e \in EV /\ e.data \in Seq(Int) /\ g \in Formats /\ "end" \in EventKinds
      /\ e.type \in {"response.created", "response.output_item.delta",
                     "response.output_item.added", "response.done", "error"}
      /\ e.type = "response.output_item.delta" => e.kind = "text"
      /\ e.type = "response.output_item.added" => e.kind = "call"
  BY DEF Formed, EV, Events, Formats, LineTypes, CodexTypes, EventKinds
<1>2. Talk(g, kind, t) = <<>>
  BY TalkSilent
<1>3. /\ TextType("codex") = {"response.output_item.delta", "response.output_text.delta",
                              "response.output_item.added"}
      /\ Heard("codex", g, kind) = {kind} \cap {"text"} /\ TextType(g) = {"chunk"}
  BY DEF TextType, Heard
<1>4. Chunk(0, "text", e.data) \in EV
  <2>1. "text" \in EventKinds /\ 0 \in Nat
    BY DEF EventKinds
  <2> QED
    BY <1>1, <2>1, MadeEvents
<1>5. /\ Chunk(0, "text", e.data).type = "chunk"
      /\ Chunk(0, "text", e.data).kind = "text" /\ Chunk(0, "text", e.data).data = e.data
  BY DEF E, Chunk
<1>6. Talk(g, kind, Emit(t, <<Chunk(0, "text", e.data)>>)) = IF kind = "text" THEN e.data ELSE <<>>
  BY <1>2, <1>3, <1>4, <1>5, TalkAdded
<1>7. /\ Talk(g, kind, Emit(t, <<Chunk(0, "text", <<>>)>>)) = <<>>
      /\ Talk(g, kind, Emit(t, <<Finish("end"), Done>>)) = <<>>
  <2>1. /\ <<Chunk(0, "text", <<>>)>> \in Seq(EV)
        /\ Says(g, kind, <<Chunk(0, "text", <<>>)>>) = <<>>
        /\ <<Finish("end"), Done>> \in Seq(EV)
        /\ Says(g, kind, <<Finish("end"), Done>>) = <<>>
    BY <1>1, SaysQuiet
  <2> QED
    BY <1>2, <2>1, TalkQuiet
<1>8. CASE e.type = "response.created"
  <2>1. CodexToOpenAI(t, e) = Emit(t, <<Chunk(0, "text", <<>>)>>)
    BY <1>8 DEF CodexToOpenAI
  <2> QED
    BY <1>3, <1>7, <1>8, <2>1 DEF Given
<1>9. CASE e.type = "response.output_item.delta"
  <2>1. CodexToOpenAI(t, e) = Emit(t, <<Chunk(0, "text", e.data)>>)
    BY <1>9 DEF CodexToOpenAI
  <2> QED
    BY <1>1, <1>3, <1>6, <1>9, <2>1 DEF Given
<1>10. CASE e.type = "response.done"
  <2>1. CodexToOpenAI(t, e) = Emit(t, <<Finish("end"), Done>>)
    BY <1>10 DEF CodexToOpenAI
  <2> QED
    BY <1>3, <1>7, <1>10, <2>1 DEF Given
<1>11. CASE e.type \in {"response.output_item.added", "error"}
  <2>1. CodexToOpenAI(t, e) = t
    BY <1>11 DEF CodexToOpenAI
  <2> QED
    BY <1>1, <1>2, <1>3, <1>11, <2>1 DEF Given
<1> QED
  BY <1>1, <1>8, <1>9, <1>10, <1>11

LEMMA GeminiToClaudeSays ==
  ASSUME NEW kind \in Kinds, NEW t \in States(Types), t.out = <<>>,
         NEW e, Formed("gemini", e)
  PROVE  Talk("claude", kind, GeminiToClaude(t, e)) = Given("gemini", "claude", kind, e)
<1> DEFINE g == "claude"
           u == First(t, <<MessageStart, Start(0, "text")>>)
<1>1. /\ e \in EV /\ e.data \in Seq(Int) /\ g \in Formats /\ e.kind \in EventKinds
      /\ e.type \in {"candidate", "finished", "error"}
      /\ e.type = "candidate" => e.kind \in {"thought", "text", "call"}
      /\ kind \in {"thought", "text", "call"}
  BY DEF Formed, EV, Events, Formats, LineTypes, GeminiTypes, Kinds
<1>2. Talk(g, kind, t) = <<>>
  BY TalkSilent
<1>3. /\ TextType("gemini") = {"candidate"} /\ TextType(g) = {"content_block_delta"}
      /\ Heard("gemini", g, kind) = {kind} \ {"call"}
  BY DEF TextType, Heard
<1>4. u \in States(Types) /\ Talk(g, kind, u) = <<>>
  <2>1. /\ <<MessageStart, Start(0, "text")>> \in Seq(EV)
        /\ Says(g, kind, <<MessageStart, Start(0, "text")>>) = <<>>
    BY <1>1, SaysQuiet
  <2> QED
    BY <1>2, <2>1, TalkFirst
<1> HIDE DEF u
<1>5. Delta(0, e.kind, e.data) \in EV
  <2>1. 0 \in Nat
    OBVIOUS
  <2> QED
    BY <1>1, <2>1, MadeEvents
<1>6. /\ Delta(0, e.kind, e.data).type = "content_block_delta"
      /\ Delta(0, e.kind, e.data).kind = e.kind /\ Delta(0, e.kind, e.data).data = e.data
  BY DEF E, Delta
<1>7. Talk(g, kind, Emit(u, <<Delta(0, e.kind, e.data)>>)) = IF e.kind = kind THEN e.data ELSE <<>>
  BY <1>3, <1>4, <1>5, <1>6, TalkAdded
<1>8. Talk(g, kind, Emit(u, <<Stop(0), MessageDelta(e.kind), MessageStop>>)) = <<>>
  <2>1. /\ <<Stop(0), MessageDelta(e.kind), MessageStop>> \in Seq(EV)
        /\ Says(g, kind, <<Stop(0), MessageDelta(e.kind), MessageStop>>) = <<>>
    BY <1>1, SaysQuiet
  <2> QED
    BY <1>4, <2>1, TalkQuiet
<1>9. CASE e.type = "candidate" /\ e.kind \in {"text", "thought"}
  <2>1. GeminiToClaude(t, e) = Emit(u, <<Delta(0, e.kind, e.data)>>)
    BY <1>9 DEF GeminiToClaude, u
  <2> QED
    BY <1>3, <1>7, <1>9, <2>1 DEF Given
<1>10. CASE e.type = "finished"
  <2>1. GeminiToClaude(t, e) = Emit(u, <<Stop(0), MessageDelta(e.kind), MessageStop>>)
    BY <1>10 DEF GeminiToClaude, u
  <2> QED
    BY <1>3, <1>8, <1>10, <2>1 DEF Given
<1>11. CASE e.type = "error" \/ (e.type = "candidate" /\ e.kind = "call")
  <2>1. GeminiToClaude(t, e) = u
    BY <1>11 DEF GeminiToClaude, u
  <2> QED
    BY <1>3, <1>4, <1>11, <2>1 DEF Given
<1> QED
  BY <1>1, <1>9, <1>10, <1>11

LEMMA GeminiToOpenAISays ==
  ASSUME NEW kind \in Kinds, NEW t \in States(Types), t.out = <<>>,
         NEW e, Formed("gemini", e)
  PROVE  Talk("openai", kind, GeminiToOpenAI(t, e)) = Given("gemini", "openai", kind, e)
<1> DEFINE g == "openai"
           u == First(t, <<Chunk(0, "text", <<>>)>>)
<1>1. /\ e \in EV /\ e.data \in Seq(Int) /\ g \in Formats /\ e.kind \in EventKinds
      /\ e.type \in {"candidate", "finished", "error"}
      /\ e.type = "candidate" => e.kind \in {"thought", "text", "call"}
      /\ kind \in {"thought", "text", "call"}
  BY DEF Formed, EV, Events, Formats, LineTypes, GeminiTypes, Kinds
<1>2. Talk(g, kind, t) = <<>>
  BY TalkSilent
<1>3. /\ TextType("gemini") = {"candidate"} /\ TextType(g) = {"chunk"}
      /\ Heard("gemini", g, kind) = IF kind = "text" THEN {"text", "thought"} ELSE {}
  BY DEF TextType, Heard
<1>4. u \in States(Types) /\ Talk(g, kind, u) = <<>>
  <2>1. /\ <<Chunk(0, "text", <<>>)>> \in Seq(EV)
        /\ Says(g, kind, <<Chunk(0, "text", <<>>)>>) = <<>>
    BY <1>1, SaysQuiet
  <2> QED
    BY <1>2, <2>1, TalkFirst
<1> HIDE DEF u
<1>5. Chunk(0, "text", e.data) \in EV
  <2>1. 0 \in Nat /\ "text" \in EventKinds
    BY DEF EventKinds
  <2> QED
    BY <1>1, <2>1, MadeEvents
<1>6. /\ Chunk(0, "text", e.data).type = "chunk"
      /\ Chunk(0, "text", e.data).kind = "text" /\ Chunk(0, "text", e.data).data = e.data
  BY DEF E, Chunk
<1>7. Talk(g, kind, Emit(u, <<Chunk(0, "text", e.data)>>)) = IF kind = "text" THEN e.data ELSE <<>>
  BY <1>3, <1>4, <1>5, <1>6, TalkAdded
<1>8. Talk(g, kind, Emit(u, <<Finish(e.kind), Done>>)) = <<>>
  <2>1. /\ <<Finish(e.kind), Done>> \in Seq(EV)
        /\ Says(g, kind, <<Finish(e.kind), Done>>) = <<>>
    BY <1>1, SaysQuiet
  <2> QED
    BY <1>4, <2>1, TalkQuiet
<1>9. CASE e.type = "candidate" /\ e.kind \in {"text", "thought"}
  <2>1. GeminiToOpenAI(t, e) = Emit(u, <<Chunk(0, "text", e.data)>>)
    BY <1>9 DEF GeminiToOpenAI, u
  <2> QED
    BY <1>3, <1>7, <1>9, <2>1 DEF Given
<1>10. CASE e.type = "finished"
  <2>1. GeminiToOpenAI(t, e) = Emit(u, <<Finish(e.kind), Done>>)
    BY <1>10 DEF GeminiToOpenAI, u
  <2> QED
    BY <1>3, <1>8, <1>10, <2>1 DEF Given
<1>11. CASE e.type = "error" \/ (e.type = "candidate" /\ e.kind = "call")
  <2>1. GeminiToOpenAI(t, e) = u
    BY <1>11 DEF GeminiToOpenAI, u
  <2> QED
    BY <1>3, <1>4, <1>11, <2>1 DEF Given
<1> QED
  BY <1>1, <1>9, <1>10, <1>11

-------------------------------------------------------------------------------
(* Tags, read a piece of the text at a time.                               *)
(* What a converter that is inside or outside of the tags reads as text    *)
(* and as thoughts, and where it is then.                                  *)
Outside(m, c) == m = 2 \/ (m = 0 /\ ~Contains(c, Open))
Leaves(c) == IF Contains(c, Close) THEN After(c, Close) ELSE <<>>
Thinks(c) == IF Contains(c, Close) THEN Before(c, Close) ELSE c

TextIn(m, c) == IF Outside(m, c) THEN c
                ELSE IF m = 1 THEN Leaves(c) ELSE Before(c, Open) \o Leaves(After(c, Open))
ThoughtIn(m, c) == IF Outside(m, c) THEN <<>>
                   ELSE IF m = 1 THEN Thinks(c) ELSE Thinks(After(c, Open))
ModeAfter(m, c) == IF Outside(m, c) THEN m
                   ELSE IF Contains(IF m = 1 THEN c ELSE After(c, Open), Close) THEN 2 ELSE 1

LEMMA TagsAre == Open \in Int /\ Close \in Int
BY DEF Open, Close

LEMMA LeavesMore ==
  ASSUME NEW c \in Seq(Int), NEW d \in Seq(Int)
  PROVE  /\ Leaves(c) \in Seq(Int) /\ Thinks(c) \in Seq(Int)
         /\ Contains(c, Close) => /\ Contains(c \o d, Close)
                                  /\ Leaves(c \o d) = Leaves(c) \o d
                                  /\ Thinks(c \o d) = Thinks(c)
         /\ ~Contains(c, Close) => /\ Contains(c \o d, Close) <=> Contains(d, Close)
                                   /\ Leaves(c \o d) = Leaves(d) /\ Leaves(c) = <<>>
                                   /\ Thinks(c \o d) = c \o Thinks(d) /\ Thinks(c) = c
<1>1. Leaves(c) \in Seq(Int) /\ Thinks(c) \in Seq(Int)
  BY AroundTyped DEF Leaves, Thinks
<1>2. CASE Contains(c, Close)
  <2>1. /\ Contains(c \o d, Close) /\ Before(c \o d, Close) = Before(c, Close)
        /\ After(c \o d, Close) = After(c, Close) \o d
    BY <1>2, TagsAre, TagEarlier
  <2> QED
    BY <1>1, <1>2, <2>1 DEF Leaves, Thinks
<1>3. CASE ~Contains(c, Close)
  <2>1. /\ Contains(c \o d, Close) <=> Contains(d, Close)
        /\ Contains(d, Close) => /\ Before(c \o d, Close) = c \o Before(d, Close)
                                 /\ After(c \o d, Close) = After(d, Close)
    BY <1>3, TagsAre, TagLater
  <2> QED
    BY <1>1, <1>3, <2>1 DEF Leaves, Thinks
<1> QED
  BY <1>2, <1>3

LEMMA EmptyHasNoTag == ASSUME NEW tag PROVE ~Contains(<<>>, tag)
BY DEF Contains

LEMMA ReadsTyped ==
  ASSUME NEW m \in 0..2, NEW c \in Seq(Int)
  PROVE  /\ TextIn(m, c) \in Seq(Int) /\ ThoughtIn(m, c) \in Seq(Int)
         /\ ModeAfter(m, c) \in 0..2
         /\ TextIn(m, <<>>) = <<>> /\ ThoughtIn(m, <<>>) = <<>> /\ ModeAfter(m, <<>>) = m
<1>1. <<>> \in Seq(Int) /\ ~Contains(<<>>, Open) /\ ~Contains(<<>>, Close)
  BY EmptyHasNoTag
<1>2. Before(c, Open) \in Seq(Int) /\ After(c, Open) \in Seq(Int)
  BY AroundTyped
<1>3. /\ Leaves(c) \in Seq(Int) /\ Thinks(c) \in Seq(Int)
      /\ Leaves(After(c, Open)) \in Seq(Int) /\ Thinks(After(c, Open)) \in Seq(Int)
  BY <1>1, <1>2, LeavesMore
<1>4. TextIn(m, c) \in Seq(Int)
  BY <1>2, <1>3 DEF TextIn
<1>5. ThoughtIn(m, c) \in Seq(Int)
  BY <1>1, <1>3 DEF ThoughtIn
<1>6. ModeAfter(m, c) \in 0..2
  BY DEF ModeAfter
<1>7. TextIn(m, <<>>) = <<>> /\ ThoughtIn(m, <<>>) = <<>> /\ ModeAfter(m, <<>>) = m
  BY <1>1 DEF TextIn, ThoughtIn, ModeAfter, Outside, Leaves, Thinks
<1> QED
  BY <1>4, <1>5, <1>6, <1>7

(* Reading two pieces one after the other is reading them as one.          *)
LEMMA ReadsOn ==
  ASSUME NEW m \in 0..2, NEW c \in Seq(Int), NEW d \in Seq(Int), NEW n, n = ModeAfter(m, c)
  PROVE  /\ TextIn(m, c \o d) = TextIn(m, c) \o TextIn(n, d)
         /\ ThoughtIn(m, c \o d) = ThoughtIn(m, c) \o ThoughtIn(n, d)
<1>1. m = 0 \/ m = 1 \/ m = 2
  OBVIOUS
<1>2. n \in 0..2 /\ TextIn(n, d) \in Seq(Int) /\ ThoughtIn(n, d) \in Seq(Int)
  BY ReadsTyped
<1>3. CASE m = 2
  <2>1. n = 2
    BY <1>3 DEF ModeAfter, Outside
  <2>2. /\ TextIn(2, c \o d) = c \o d /\ TextIn(2, c) = c /\ TextIn(2, d) = d
        /\ ThoughtIn(2, c \o d) = <<>> /\ ThoughtIn(2, c) = <<>> /\ ThoughtIn(2, d) = <<>>
    BY DEF TextIn, ThoughtIn, Outside
  <2>3. <<>> \o <<>> = <<>>
    OBVIOUS
  <2> QED
    BY <1>3, <2>1, <2>2, <2>3
<1>4. CASE m = 1
  <2>1. /\ n = IF Contains(c, Close) THEN 2 ELSE 1
        /\ TextIn(m, c) = Leaves(c) /\ ThoughtIn(m, c) = Thinks(c)
        /\ TextIn(m, c \o d) = Leaves(c \o d) /\ ThoughtIn(m, c \o d) = Thinks(c \o d)
    BY <1>4 DEF ModeAfter, TextIn, ThoughtIn, Outside
  <2>2. CASE Contains(c, Close)
    <3>1. Leaves(c \o d) = Leaves(c) \o d /\ Thinks(c \o d) = Thinks(c)
      BY <2>2, LeavesMore
    <3>2. n = 2 /\ TextIn(n, d) = d /\ ThoughtIn(n, d) = <<>>
      BY <2>1, <2>2 DEF TextIn, ThoughtIn, Outside
    <3>3. Thinks(c) \in Seq(Int)
      BY LeavesMore
    <3>4. Thinks(c) \o <<>> = Thinks(c)
      BY <3>3
    <3> QED
      BY <2>1, <3>1, <3>2, <3>4
  <2>3. CASE ~Contains(c, Close)
    <3>1. /\ Leaves(c \o d) = Leaves(d) /\ Leaves(c) = <<>>
          /\ Thinks(c \o d) = c \o Thinks(d) /\ Thinks(c) = c
      BY <2>3, LeavesMore, ZenonT(60)
    <3>2. n = 1 /\ TextIn(n, d) = Leaves(d) /\ ThoughtIn(n, d) = Thinks(d)
      BY <2>1, <2>3 DEF TextIn, ThoughtIn, Outside
    <3>3. <<>> \o Leaves(d) = Leaves(d)
      BY <1>2, <3>2
    <3> QED
      BY <2>1, <3>1, <3>2, <3>3
  <2> QED
    BY <2>2, <2>3
<1>5. CASE m = 0 /\ ~Contains(c, Open)
  <2>1. n = 0 /\ TextIn(m, c) = c /\ ThoughtIn(m, c) = <<>>
    BY <1>5 DEF ModeAfter, TextIn, ThoughtIn, Outside
  <2>2. /\ Contains(c \o d, Open) <=> Contains(d, Open)
        /\ Contains(d, Open) => /\ Before(c \o d, Open) = c \o Before(d, Open)
                                /\ After(c \o d, Open) = After(d, Open)
                                /\ Before(d, Open) \in Seq(Int) /\ After(d, Open) \in Seq(Int)
    BY <1>5, TagsAre, TagLater
  <2>3. CASE ~Contains(d, Open)
    <3>1. TextIn(0, d) = d /\ ThoughtIn(0, d) = <<>>
      BY <2>3 DEF TextIn, ThoughtIn, Outside
    <3>2. TextIn(0, c \o d) = c \o d /\ ThoughtIn(0, c \o d) = <<>>
      BY <2>2, <2>3 DEF TextIn, ThoughtIn, Outside
    <3>3. <<>> \o <<>> = <<>>
      OBVIOUS
    <3> QED
      BY <1>5, <2>1, <3>1, <3>2, <3>3
  <2>4. CASE Contains(d, Open)
    <3> DEFINE b == Before(d, Open)
               a == After(d, Open)
               l == Leaves(a)
               h == Thinks(a)
    <3>1. b \in Seq(Int) /\ a \in Seq(Int)
      BY <2>2, <2>4
    <3>2. l \in Seq(Int) /\ h \in Seq(Int)
      <4> HIDE DEF a
      <4> QED
        BY <3>1, LeavesMore
    <3>3. TextIn(0, d) = b \o l /\ ThoughtIn(0, d) = h
      BY <2>4 DEF TextIn, ThoughtIn, Outside
    <3>4. TextIn(0, c \o d) = (c \o b) \o l /\ ThoughtIn(0, c \o d) = h
      <4> DEFINE r == c \o d
                 x == c \o b
      <4>1. Contains(r, Open) /\ Before(r, Open) = x /\ After(r, Open) = a
        BY <2>2, <2>4
      <4> HIDE DEF r, x, a
      <4>2. TextIn(0, r) = x \o Leaves(a) /\ ThoughtIn(0, r) = Thinks(a)
        BY <4>1 DEF TextIn, ThoughtIn, Outside
      <4> QED
        BY <4>2 DEF r, x
    <3> HIDE DEF b, a, l, h
    <3>5. (c \o b) \o l = c \o (b \o l)
      <4>1. b \in Seq(Int) /\ l \in Seq(Int) /\ c \in Seq(Int)
        BY ONLY <3>1, <3>2, c \in Seq(Int)
      <4> QED
        BY ONLY <4>1, Regrouped
    <3>6. <<>> \o h = h
      <4>1. h \in Seq(Int)
        BY ONLY <3>2
      <4> QED
        BY ONLY <4>1, Unaltered
    <3> QED
      BY <1>5, <2>1, <3>3, <3>4, <3>5, <3>6
  <2> QED
    BY <2>3, <2>4
<1>6. CASE m = 0 /\ Contains(c, Open)
  <2> DEFINE b == Before(c, Open)
             a == After(c, Open)
             e == a \o d
  <2>1. /\ Contains(c \o d, Open) /\ Before(c \o d, Open) = b /\ After(c \o d, Open) = e
        /\ b \in Seq(Int) /\ a \in Seq(Int)
    <3>1. Open \in Int
      BY TagsAre
    <3> QED
      BY ONLY <1>6, <3>1, c \in Seq(Int), d \in Seq(Int), TagEarlier
  <2>2. /\ TextIn(m, c) = b \o Leaves(a) /\ ThoughtIn(m, c) = Thinks(a)
        /\ n = IF Contains(a, Close) THEN 2 ELSE 1
    BY <1>6 DEF ModeAfter, TextIn, ThoughtIn, Outside
  <2>3. TextIn(m, c \o d) = b \o Leaves(e) /\ ThoughtIn(m, c \o d) = Thinks(e)
    BY <1>6, <2>1 DEF TextIn, ThoughtIn, Outside
  <2> HIDE DEF b, a
  <2>4. CASE Contains(a, Close)
    <3>1. Leaves(e) = Leaves(a) \o d /\ Thinks(e) = Thinks(a) /\ Leaves(a) \in Seq(Int)
          /\ Thinks(a) \in Seq(Int)
      BY <2>1, <2>4, LeavesMore
    <3>2. n = 2 /\ TextIn(n, d) = d /\ ThoughtIn(n, d) = <<>>
      BY <2>2, <2>4 DEF TextIn, ThoughtIn, Outside
    <3> DEFINE l == Leaves(a)
               h == Thinks(a)
    <3>3. l \in Seq(Int) /\ h \in Seq(Int) /\ b \in Seq(Int)
      BY <2>1, <3>1
    <3> HIDE DEF l, h
    <3>4. b \o (l \o d) = (b \o l) \o d
      BY ONLY <3>3, d \in Seq(Int), Regrouped, ZenonT(60)
    <3>5. h \o <<>> = h
      <4>1. h \in Seq(Int)
        BY ONLY <3>3
      <4> QED
        BY ONLY <4>1, Unaltered
    <3> HIDE DEF e
    <3> QED
      BY <2>2, <2>3, <3>1, <3>2, <3>4, <3>5 DEF l, h
  <2>5. CASE ~Contains(a, Close)
    <3>1. /\ Leaves(e) = Leaves(d) /\ Leaves(a) = <<>>
          /\ Thinks(e) = a \o Thinks(d) /\ Thinks(a) = a
      <4>1. a \in Seq(Int)
        BY <2>1
      <4> QED
        BY ONLY <2>5, <4>1, d \in Seq(Int), LeavesMore, ZenonT(60)
    <3>2. n = 1 /\ TextIn(n, d) = Leaves(d) /\ ThoughtIn(n, d) = Thinks(d)
      BY <2>2, <2>5 DEF TextIn, ThoughtIn, Outside
    <3>3. b \o <<>> = b
      BY <2>1
    <3> HIDE DEF e
    <3> QED
      BY <2>2, <2>3, <3>1, <3>2, <3>3
  <2> QED
    BY <2>4, <2>5
<1> QED
  BY <1>1, <1>3, <1>4, <1>5, <1>6

-------------------------------------------------------------------------------
(* OpenAI to Claude: what each part of a step says.                        *)
(* A step of a converter to Claude that says something of a kind.          *)
Tells(kind, t, u, x) ==
    /\ u \in States(Types) /\ x \in Seq(Int)
    /\ Talk("claude", kind, u) = Talk("claude", kind, t) \o x

LEMMA ClaudeText ==
  /\ TextType("claude") = {"content_block_delta"}
  /\ ClaudeBlocks \subseteq Types /\ "message_delta" \in Types
BY DEF TextType, ClaudeBlocks, ClaudeOpen, ClaudeTypes, Types

LEMMA TellsEmit ==
  ASSUME NEW kind, NEW t \in States(Types), NEW q \in Seq(EV)
  PROVE  Tells(kind, t, Emit(t, q), Says("claude", kind, q)) /\ Emit(t, q).mode = t.mode
<1>1. Says("claude", kind, q) \in Seq(Int)
  BY SaysTyped
<1>2. /\ Emit(t, q) \in States(Types)
      /\ Talk("claude", kind, Emit(t, q)) = Talk("claude", kind, t) \o Says("claude", kind, q)
  BY TalkEmits
<1>3. Emit(t, q).mode = t.mode
  BY DEF Emit, States
<1> QED
  BY <1>1, <1>2, <1>3 DEF Tells

LEMMA TellsSame ==
  ASSUME NEW kind, NEW t \in States(Types), NEW u \in States(Types), u.out = t.out
  PROVE  Tells(kind, t, u, <<>>)
<1>1. Talk("claude", kind, t) \in Seq(Int)
  BY TalkTyped
<1>2. Talk("claude", kind, u) = Talk("claude", kind, t)
  BY DEF Talk
<1> QED
  BY <1>1, <1>2 DEF Tells

LEMMA TellsThen ==
  ASSUME NEW kind, NEW t \in States(Types), NEW u, NEW v, NEW x, NEW y,
         Tells(kind, t, u, x), Tells(kind, u, v, y)
  PROVE  x = <<>> => Tells(kind, t, v, y)
<1> DEFINE a == Talk("claude", kind, t)
           b == Talk("claude", kind, u)
           c == Talk("claude", kind, v)
<1>1. a \in Seq(Int)
  BY TalkTyped
<1>2. /\ v \in States(Types) /\ x \in Seq(Int) /\ y \in Seq(Int) /\ b = a \o x /\ c = b \o y
  BY DEF Tells
<1> HIDE DEF a, b, c
<1>3. x = <<>> => c = a \o y
  BY ONLY <1>1, <1>2
<1> QED
  BY <1>2, <1>3 DEF Tells, a, b, c

LEMMA TellsNoMore ==
  ASSUME NEW kind, NEW t \in States(Types), NEW u, NEW v, NEW x,
         Tells(kind, t, u, x), Tells(kind, u, v, <<>>)
  PROVE  Tells(kind, t, v, x)
<1> DEFINE a == Talk("claude", kind, t)
           b == Talk("claude", kind, u)
           c == Talk("claude", kind, v)
<1>1. a \in Seq(Int)
  BY TalkTyped
<1>2. /\ v \in States(Types) /\ x \in Seq(Int) /\ b = a \o x /\ c = b \o <<>>
  BY DEF Tells
<1> HIDE DEF a, b, c
<1>3. c = a \o x
  BY ONLY <1>1, <1>2
<1> QED
  BY <1>2, <1>3 DEF Tells, a, b, c

LEMMA TellsFromNothing ==
  ASSUME NEW kind, NEW t \in States(Types), t.out = <<>>, NEW u, NEW x, Tells(kind, t, u, x)
  PROVE  Talk("claude", kind, u) = x
<1>1. Talk("claude", kind, t) = <<>>
  BY TalkSilent
<1>2. x \in Seq(Int) /\ Talk("claude", kind, u) = Talk("claude", kind, t) \o x
  BY DEF Tells
<1>3. <<>> \o x = x
  BY <1>2
<1> QED
  BY <1>1, <1>2, <1>3

(* Deltas say what they hold; the other events of a message, nothing.      *)
LEMMA SaysDelta ==
  ASSUME NEW kind, NEW k \in EventKinds, NEW i \in Nat, NEW data \in Seq(Int)
  PROVE  /\ <<Delta(i, k, data)>> \in Seq(EV)
         /\ Says("claude", kind, <<Delta(i, k, data)>>) = IF k = kind THEN data ELSE <<>>
<1>1. Delta(i, k, data) \in EV
  BY MadeEvents
<1>2. /\ Delta(i, k, data).type = "content_block_delta" /\ Delta(i, k, data).kind = k
      /\ Delta(i, k, data).data = data
  BY DEF E, Delta
<1>3. Says("claude", kind, <<Delta(i, k, data)>>)
        = IF Delta(i, k, data).type \in TextType("claude") /\ Delta(i, k, data).kind \in {kind}
          THEN Delta(i, k, data).data ELSE <<>>
  BY <1>1, SaidOne DEF Says
<1> QED
  BY <1>1, <1>2, <1>3, ClaudeText

LEMMA SaysStart ==
  ASSUME NEW kind, NEW k \in EventKinds, NEW i \in Nat
  PROVE  <<Start(i, k)>> \in Seq(EV) /\ Says("claude", kind, <<Start(i, k)>>) = <<>>
<1>1. Start(i, k) \in EV
  <2>1. <<>> \in Seq(Int)
    OBVIOUS
  <2> QED
    BY <2>1, MadeEvents
<1>2. Start(i, k).data = <<>>
  BY DEF E, Start
<1> QED
  BY <1>1, <1>2, SaidOne DEF Says

LEMMA EmitTextTells ==
  ASSUME NEW kind, NEW t \in States(Types), NEW text \in Seq(Int)
  PROVE  Tells(kind, t, EmitText(t, text), IF kind = "text" THEN text ELSE <<>>)
<1> DEFINE b == TextBlockIndex(t)
           d == Delta(b, "text", text)
           st == Start(b, "text")
           x == IF kind = "text" THEN text ELSE <<>>
<1>1. b \in Nat /\ "text" \in EventKinds
  BY TextIndex DEF EventKinds
<1> HIDE DEF b
<1>2. <<d>> \in Seq(EV) /\ Says("claude", kind, <<d>>) = x /\ d \in EV
  BY <1>1, SaysDelta, MadeEvents
<1>3. <<st>> \in Seq(EV) /\ Says("claude", kind, <<st>>) = <<>> /\ st \in EV
  <2>1. <<>> \in Seq(Int)
    OBVIOUS
  <2> QED
    BY <1>1, <2>1, SaysStart, MadeEvents
<1> HIDE DEF d, st
<1>4. x \in Seq(Int)
  OBVIOUS
<1>5. CASE text = <<>>
  <2>1. EmitText(t, text) = t /\ x = <<>>
    BY <1>5 DEF EmitText
  <2> HIDE DEF x
  <2> QED
    BY <2>1, TellsSame DEF x
<1>6. CASE text # <<>> /\ t.content
  <2> DEFINE q == <<d>>
             u == Emit(t, q)
  <2>1. EmitText(t, text) = [u EXCEPT !.content = TRUE]
    <3>1. Append(<<>>, d) = <<d>>
      OBVIOUS
    <3> QED
      BY <1>6, <3>1 DEF EmitText, d, b
  <2>2. Tells(kind, t, u, x)
    <3>1. q \in Seq(EV) /\ Says("claude", kind, q) = x
      BY <1>2
    <3> HIDE DEF q, x
    <3> QED
      BY <3>1, TellsEmit
  <2>3. Tells(kind, u, [u EXCEPT !.content = TRUE], <<>>)
    <3>1. u \in States(Types)
      BY <2>2 DEF Tells
    <3> HIDE DEF u
    <3>2. [u EXCEPT !.content = TRUE] \in States(Types) /\ [u EXCEPT !.content = TRUE].out = u.out
      BY <3>1 DEF States
    <3> QED
      BY <3>1, <3>2, TellsSame
  <2> HIDE DEF u, x
  <2>4. Tells(kind, t, [u EXCEPT !.content = TRUE], x)
    BY <2>2, <2>3, TellsNoMore
  <2> QED
    BY <2>1, <2>4 DEF x
<1>7. CASE text # <<>> /\ ~t.content
  <2> DEFINE q == <<st, d>>
             u == Emit(t, q)
  <2>1. EmitText(t, text) = [u EXCEPT !.content = TRUE]
    <3>1. Append(<<st>>, d) = <<st, d>>
      BY <1>2, <1>3, OneAndTwo
    <3> QED
      BY <1>7, <3>1 DEF EmitText, d, st, b
  <2>2. Tells(kind, t, u, x)
    <3>1. q \in Seq(EV)
      BY <1>2, <1>3
    <3>2. Says("claude", kind, q) = Says("claude", kind, <<st>>) \o Says("claude", kind, <<d>>)
      BY <1>2, <1>3, SaidTwo DEF Says
    <3>3. <<>> \o x = x
      BY <1>4
    <3>4. Says("claude", kind, q) = x
      BY <1>2, <1>3, <3>2, <3>3
    <3> HIDE DEF q, x
    <3> QED
      BY <3>1, <3>4, TellsEmit
  <2>3. Tells(kind, u, [u EXCEPT !.content = TRUE], <<>>)
    <3>1. u \in States(Types)
      BY <2>2 DEF Tells
    <3> HIDE DEF u
    <3>2. [u EXCEPT !.content = TRUE] \in States(Types) /\ [u EXCEPT !.content = TRUE].out = u.out
      BY <3>1 DEF States
    <3> QED
      BY <3>1, <3>2, TellsSame
  <2> HIDE DEF u, x
  <2>4. Tells(kind, t, [u EXCEPT !.content = TRUE], x)
    BY <2>2, <2>3, TellsNoMore
  <2> QED
    BY <2>1, <2>4 DEF x
<1> QED
  BY <1>5, <1>6, <1>7

LEMMA ThoughtsTell ==
  ASSUME NEW kind, NEW t \in States(Types), NEW th \in Seq(Int)
  PROVE  /\ Tells(kind, t, EmitThoughts(t, th), IF kind = "thought" THEN th ELSE <<>>)
         /\ EmitThoughts(t, th).mode = t.mode
<1> DEFINE q == <<Delta(0, "thought", th)>>
           x == IF kind = "thought" THEN th ELSE <<>>
<1>1. q \in Seq(EV) /\ Says("claude", kind, q) = x
  <2>1. "thought" \in EventKinds /\ 0 \in Nat
    BY DEF EventKinds
  <2>2. q \in Seq(EV) /\ Says("claude", kind, q) = IF "thought" = kind THEN th ELSE <<>>
    BY <2>1, SaysDelta
  <2> QED
    BY <2>2
<1>2. EmitThoughts(t, th) = IF th = <<>> THEN t ELSE Emit(t, q)
  BY DEF EmitThoughts
<1>3. CASE th = <<>>
  <2>1. x = <<>> /\ EmitThoughts(t, th) = t
    BY <1>2, <1>3
  <2> HIDE DEF x
  <2> QED
    BY <2>1, TellsSame DEF x
<1>4. CASE th # <<>>
  <2>1. EmitThoughts(t, th) = Emit(t, q)
    BY <1>2, <1>4
  <2> HIDE DEF q, x
  <2> QED
    BY <1>1, <2>1, TellsEmit DEF x
<1> QED
  BY <1>3, <1>4

LEMMA OpenThinkingTells ==
  ASSUME NEW kind, NEW t \in States(Types)
  PROVE  Tells(kind, t, OpenThinking(t), <<>>)
<1> DEFINE q == <<Start(0, "thought")>>
           u == Emit(t, q)
           v == [u EXCEPT !.thinking = TRUE]
<1>1. q \in Seq(EV) /\ Says("claude", kind, q) = <<>>
  <2>1. "thought" \in EventKinds /\ 0 \in Nat
    BY DEF EventKinds
  <2> QED
    BY <2>1, SaysStart
<1>2. OpenThinking(t) = IF t.thinking THEN t ELSE v
  BY DEF OpenThinking
<1> HIDE DEF q
<1>3. Tells(kind, t, u, <<>>)
  BY <1>1, TellsEmit
<1> HIDE DEF u
<1>4. u \in States(Types)
  BY <1>3 DEF Tells
<1>5. v \in States(Types) /\ v.out = u.out
  BY <1>4 DEF States
<1>6. Tells(kind, u, v, <<>>)
  BY <1>4, <1>5, TellsSame
<1> HIDE DEF v
<1>7. Tells(kind, t, v, <<>>)
  BY <1>3, <1>6, TellsNoMore
<1>8. Tells(kind, t, t, <<>>)
  BY TellsSame
<1> QED
  BY <1>2, <1>7, <1>8

LEMMA ModeTells ==
  ASSUME NEW kind, NEW t \in States(Types), NEW m \in 0..2
  PROVE  Tells(kind, t, [t EXCEPT !.mode = m], <<>>) /\ [t EXCEPT !.mode = m].mode = m
<1>1. [t EXCEPT !.mode = m] \in States(Types)
  BY ModeSet
<1>2. [t EXCEPT !.mode = m].out = t.out /\ [t EXCEPT !.mode = m].mode = m
  BY DEF States
<1> QED
  BY <1>1, <1>2, TellsSame

LEMMA InsideTells ==
  ASSUME NEW kind, NEW t \in States(Types), NEW c \in Seq(Int)
  PROVE  /\ Tells(kind, t, Inside(t, c).s, IF kind = "thought" THEN Thinks(c) ELSE <<>>)
         /\ Inside(t, c).text = Leaves(c)
         /\ Inside(t, c).s.mode = IF Contains(c, Close) THEN 2 ELSE t.mode
<1>1. Before(c, Close) \in Seq(Int)
  BY AroundTyped
<1>2. CASE Contains(c, Close)
  <2> DEFINE b == Before(c, Close)
             u == EmitThoughts(t, b)
             v == [u EXCEPT !.mode = 2]
             x == IF kind = "thought" THEN b ELSE <<>>
  <2>1. Inside(t, c) = [s |-> v, text |-> After(c, Close)]
    BY <1>2 DEF Inside
  <2>2. Tells(kind, t, u, x)
    BY <1>1, ThoughtsTell
  <2>3. u \in States(Types)
    BY <2>2 DEF Tells
  <2>4. Thinks(c) = b /\ Leaves(c) = After(c, Close)
    BY <1>2 DEF Thinks, Leaves
  <2> HIDE DEF u
  <2>5. Tells(kind, u, v, <<>>) /\ v.mode = 2
    <3>1. 2 \in 0..2
      OBVIOUS
    <3> QED
      BY <2>3, <3>1, ModeTells
  <2> HIDE DEF v, x
  <2>6. Tells(kind, t, v, x)
    BY <2>2, <2>5, TellsNoMore
  <2> QED
    BY <1>2, <2>1, <2>4, <2>5, <2>6 DEF x
<1>3. CASE ~Contains(c, Close)
  <2>1. Inside(t, c) = [s |-> EmitThoughts(t, c), text |-> <<>>]
    BY <1>3 DEF Inside
  <2>2. Thinks(c) = c /\ Leaves(c) = <<>>
    BY <1>3 DEF Thinks, Leaves
  <2>3. /\ Tells(kind, t, EmitThoughts(t, c), IF kind = "thought" THEN c ELSE <<>>)
        /\ EmitThoughts(t, c).mode = t.mode
    BY ThoughtsTell
  <2> QED
    BY <1>3, <2>1, <2>2, <2>3
<1> QED
  BY <1>2, <1>3

LEMMA TagsTell ==
  ASSUME NEW kind, NEW t \in States(Types), NEW c \in Seq(Int), NEW r,
         r = HandleStreamingThinkTags(t, c)
  PROVE  /\ Tells(kind, t, r.s, IF kind = "thought" THEN ThoughtIn(t.mode, c) ELSE <<>>)
         /\ r.text = TextIn(t.mode, c) /\ r.text \in Seq(Int)
         /\ r.s.mode = ModeAfter(t.mode, c) /\ r.s \in States(Types)
<1> DEFINE m == t.mode
           x == IF kind = "thought" THEN ThoughtIn(m, c) ELSE <<>>
<1>1. m \in 0..2
  BY DEF States
<1>2. TextIn(m, c) \in Seq(Int)
  BY <1>1, ReadsTyped
<1>3. CASE Outside(m, c)
  <2>1. r = [s |-> t, text |-> c]
    BY <1>3 DEF HandleStreamingThinkTags, Outside
  <2>2. ThoughtIn(m, c) = <<>> /\ TextIn(m, c) = c /\ ModeAfter(m, c) = m
    BY <1>3 DEF ThoughtIn, TextIn, ModeAfter
  <2>3. Tells(kind, t, t, <<>>)
    BY TellsSame
  <2> QED
    BY <2>1, <2>2, <2>3
<1>4. CASE ~Outside(m, c) /\ m = 1
  <2>1. r = Inside(t, c)
    BY <1>4 DEF HandleStreamingThinkTags, Outside
  <2>2. /\ ThoughtIn(m, c) = Thinks(c) /\ TextIn(m, c) = Leaves(c)
        /\ ModeAfter(m, c) = IF Contains(c, Close) THEN 2 ELSE 1
    BY <1>4 DEF ThoughtIn, TextIn, ModeAfter
  <2>3. /\ Tells(kind, t, r.s, IF kind = "thought" THEN Thinks(c) ELSE <<>>)
        /\ r.text = Leaves(c) /\ r.s.mode = IF Contains(c, Close) THEN 2 ELSE m
    <3> DEFINE i == Inside(t, c)
    <3>1. /\ Tells(kind, t, i.s, IF kind = "thought" THEN Thinks(c) ELSE <<>>)
          /\ i.text = Leaves(c) /\ i.s.mode = IF Contains(c, Close) THEN 2 ELSE m
      BY InsideTells
    <3>2. r = i
      BY <2>1
    <3> HIDE DEF i
    <3> QED
      BY <3>1, <3>2
  <2> QED
    BY <1>2, <1>4, <2>2, <2>3 DEF Tells
<1>5. CASE ~Outside(m, c) /\ m # 1
  <2> DEFINE a == After(c, Open)
             o == OpenThinking(t)
             u == [o EXCEPT !.mode = 1]
             i == Inside(u, a)
             y == IF kind = "thought" THEN Thinks(a) ELSE <<>>
  <2>1. /\ m = 0 /\ ThoughtIn(m, c) = Thinks(a) /\ TextIn(m, c) = Before(c, Open) \o Leaves(a)
        /\ ModeAfter(m, c) = IF Contains(a, Close) THEN 2 ELSE 1
    BY <1>1, <1>5 DEF ThoughtIn, TextIn, ModeAfter, Outside
  <2>2. r = [i EXCEPT !.text = Before(c, Open) \o i.text]
    BY <1>5, <2>1 DEF HandleStreamingThinkTags, Outside
  <2>3. a \in Seq(Int)
    BY AroundTyped
  <2>4. Tells(kind, t, o, <<>>)
    BY OpenThinkingTells
  <2>5. o \in States(Types)
    BY <2>4 DEF Tells
  <2> HIDE DEF o, a
  <2>6. Tells(kind, o, u, <<>>) /\ u.mode = 1
    <3>1. 1 \in 0..2
      OBVIOUS
    <3> QED
      BY <2>5, <3>1, ModeTells
  <2>7. u \in States(Types)
    BY <2>6 DEF Tells
  <2> HIDE DEF u
  <2>8. /\ Tells(kind, u, i.s, y) /\ i.text = Leaves(a)
        /\ i.s.mode = IF Contains(a, Close) THEN 2 ELSE 1
    BY <2>3, <2>6, <2>7, InsideTells
  <2>9. i \in [s : States(Types), text : Seq(Int)]
    BY <2>3, <2>7, InsideTyped, ClaudeText
  <2> HIDE DEF i, y
  <2>10. r.s = i.s /\ r.text = Before(c, Open) \o Leaves(a)
    BY <2>2, <2>8, <2>9
  <2>11. Tells(kind, t, u, <<>>)
    BY <2>4, <2>6, TellsNoMore
  <2>12. Tells(kind, t, i.s, y)
    <3> DEFINE v == i.s
    <3>1. Tells(kind, u, v, y)
      BY <2>8
    <3> HIDE DEF v
    <3>2. Tells(kind, t, v, y)
      BY <2>11, <3>1, TellsThen
    <3> QED
      BY <3>2 DEF v
  <2> QED
    BY <1>2, <2>1, <2>8, <2>9, <2>10, <2>12 DEF y
<1> QED
  BY <1>3, <1>4, <1>5

(* A step of a converter to Claude that says nothing of any kind.          *)
Mute(kind, t, u) == Tells(kind, t, u, <<>>) /\ u.mode = t.mode

LEMMA MuteStates ==
  ASSUME NEW kind, NEW t, NEW u, Mute(kind, t, u)
  PROVE  u \in States(Types)
BY DEF Mute, Tells

LEMMA MuteThen ==
  ASSUME NEW kind, NEW t \in States(Types), NEW u, NEW v, Mute(kind, t, u), Mute(kind, u, v)
  PROVE  Mute(kind, t, v)
BY TellsNoMore DEF Mute

LEMMA MuteEmit ==
  ASSUME NEW kind, NEW t \in States(Types), NEW q \in Seq(EV), Says("claude", kind, q) = <<>>
  PROVE  Mute(kind, t, Emit(t, q))
BY TellsEmit DEF Mute

LEMMA MuteSame ==
  ASSUME NEW kind, NEW t \in States(Types), NEW u \in States(Types),
         u.out = t.out, u.mode = t.mode
  PROVE  Mute(kind, t, u)
BY TellsSame DEF Mute

LEMMA MuteFirst ==
  ASSUME NEW kind, NEW t \in States(Types), NEW q \in Seq(EV), Says("claude", kind, q) = <<>>
  PROVE  Mute(kind, t, First(t, q))
<1> DEFINE u == Emit(t, q)
           v == [u EXCEPT !.id = TRUE]
<1>1. Mute(kind, t, u)
  BY MuteEmit
<1>2. First(t, q) = IF t.id THEN t ELSE v
  BY DEF First
<1> HIDE DEF u
<1>3. u \in States(Types)
  BY <1>1, MuteStates
<1>4. v \in States(Types) /\ v.out = u.out /\ v.mode = u.mode
  BY <1>3 DEF States
<1>5. Mute(kind, u, v)
  BY <1>3, <1>4, MuteSame
<1> HIDE DEF v
<1>6. Mute(kind, t, v) /\ Mute(kind, t, t)
  BY <1>1, <1>5, MuteThen, MuteSame
<1> QED
  BY <1>2, <1>6

LEMMA CloseThinkingMute ==
  ASSUME NEW kind \in Kinds, NEW t \in States(Types)
  PROVE  Mute(kind, t, CloseThinking(t))
<1> DEFINE d == Delta(0, "signature", <<>>)
           p == Stop(0)
           q == <<d, p>>
           u == Emit(t, q)
           v == [u EXCEPT !.thinkingStopped = TRUE]
<1>1. "signature" \in EventKinds /\ 0 \in Nat /\ <<>> \in Seq(Int)
  BY DEF EventKinds
<1>2. d \in EV /\ p \in EV
  BY <1>1, MadeEvents
<1>3. d.data = <<>> /\ p.data = <<>>
  BY DEF E, Delta, Stop
<1> HIDE DEF d, p
<1>4. q \in Seq(EV) /\ Says("claude", kind, q) = <<>>
  <2>1. Says("claude", kind, <<d>>) = <<>> /\ Says("claude", kind, <<p>>) = <<>>
    BY <1>2, <1>3, SaidOne DEF Says
  <2>2. Says("claude", kind, q) = Says("claude", kind, <<d>>) \o Says("claude", kind, <<p>>)
    BY <1>2, SaidTwo DEF Says
  <2>3. <<>> \o <<>> = <<>>
    OBVIOUS
  <2> QED
    BY <1>2, <2>1, <2>2, <2>3
<1>5. CloseThinking(t) = IF ~t.thinking \/ t.thinkingStopped THEN t ELSE v
  BY DEF CloseThinking, d, p
<1> HIDE DEF q
<1>6. Mute(kind, t, u)
  BY <1>4, MuteEmit
<1> HIDE DEF u
<1>7. u \in States(Types)
  BY <1>6, MuteStates
<1>8. v \in States(Types) /\ v.out = u.out /\ v.mode = u.mode
  BY <1>7 DEF States
<1>9. Mute(kind, u, v)
  BY <1>7, <1>8, MuteSame
<1> HIDE DEF v
<1>10. Mute(kind, t, v) /\ Mute(kind, t, t)
  BY <1>6, <1>9, MuteThen, MuteSame
<1> QED
  BY <1>5, <1>10

LEMMA CloseTextMute ==
  ASSUME NEW kind \in Kinds, NEW t \in States(Types)
  PROVE  Mute(kind, t, CloseText(t))
<1> DEFINE b == TextBlockIndex(t)
           p == Stop(b)
           q == <<p>>
           u == Emit(t, q)
           v == [u EXCEPT !.contentStopped = TRUE]
<1>1. b \in Nat /\ <<>> \in Seq(Int) /\ "none" \in EventKinds
  BY TextIndex DEF EventKinds
<1>2. p \in EV
  <2> HIDE DEF b
  <2> QED
    BY <1>1, MadeEvents
<1>3. p.data = <<>>
  BY DEF E, Stop
<1>4. CloseText(t) = IF ~t.content \/ t.contentStopped THEN t ELSE v
  BY DEF CloseText
<1> HIDE DEF p
<1>5. q \in Seq(EV) /\ Says("claude", kind, q) = <<>>
  BY <1>2, <1>3, SaidOne DEF Says
<1> HIDE DEF q
<1>6. Mute(kind, t, u)
  BY <1>5, MuteEmit
<1> HIDE DEF u
<1>7. u \in States(Types)
  BY <1>6, MuteStates
<1>8. v \in States(Types) /\ v.out = u.out /\ v.mode = u.mode
  BY <1>7 DEF States
<1>9. Mute(kind, u, v)
  BY <1>7, <1>8, MuteSame
<1> HIDE DEF v
<1>10. Mute(kind, t, v) /\ Mute(kind, t, t)
  BY <1>6, <1>9, MuteThen, MuteSame
<1> QED
  BY <1>4, <1>10

LEMMA CloseMute ==
  ASSUME NEW kind \in Kinds, NEW t \in States(Types)
  PROVE  Mute(kind, t, CloseText(CloseThinking(t)))
<1> DEFINE u == CloseThinking(t)
<1>1. Mute(kind, t, u)
  BY CloseThinkingMute
<1> HIDE DEF u
<1>2. Mute(kind, u, CloseText(u))
  BY <1>1, MuteStates, CloseTextMute
<1>3. Mute(kind, t, CloseText(u))
  BY <1>1, <1>2, MuteThen
<1> QED
  BY <1>3 DEF u

LEMMA OpenCallMute ==
  ASSUME NEW kind \in Kinds, NEW t \in States(Types), NEW i \in Nat
  PROVE  Mute(kind, t, OpenCall(t, i))
<1> DEFINE u == CloseText(CloseThinking(t))
           b == NextBlockIndex(u)
           q == <<Start(b, "call")>>
           v == Emit(u, q)
           m == With(v.calls, i, b)
           w == [v EXCEPT !.calls = m]
<1>1. Mute(kind, t, u)
  BY CloseMute
<1>2. OpenCall(t, i) = IF i \in DOMAIN t.calls THEN t ELSE w
  BY DEF OpenCall
<1> HIDE DEF u
<1>3. u \in States(Types)
  BY <1>1, MuteStates
<1>4. b \in Nat /\ "call" \in EventKinds
  BY <1>3, NextBlock DEF EventKinds
<1> HIDE DEF b
<1>5. q \in Seq(EV) /\ Says("claude", kind, q) = <<>>
  BY <1>4, SaysStart
<1> HIDE DEF q
<1>6. Mute(kind, u, v)
  BY <1>3, <1>5, MuteEmit
<1> HIDE DEF v
<1>7. v \in States(Types)
  BY <1>6, MuteStates
<1>8. m \in CallMaps
  BY <1>4, <1>7, WithTyped DEF States
<1> HIDE DEF m
<1>9. w \in States(Types) /\ w.out = v.out /\ w.mode = v.mode
  BY <1>7, <1>8 DEF States
<1>10. Mute(kind, v, w)
  BY <1>7, <1>9, MuteSame
<1> HIDE DEF w
<1>11. Mute(kind, u, w)
  BY <1>3, <1>6, <1>10, MuteThen
<1>12. Mute(kind, t, w) /\ Mute(kind, t, t)
  BY <1>1, <1>11, MuteThen, MuteSame
<1> QED
  BY <1>2, <1>12

LEMMA CallDeltaTells ==
  ASSUME NEW kind, NEW t \in States(Types), NEW i \in DOMAIN t.calls, NEW args \in Seq(Int)
  PROVE  /\ Tells(kind, t, CallDelta(t, i, args), IF kind = "call" THEN args ELSE <<>>)
         /\ CallDelta(t, i, args).mode = t.mode
<1> DEFINE b == t.calls[i]
           q == <<Delta(b, "call", args)>>
           x == IF kind = "call" THEN args ELSE <<>>
<1>1. b \in Nat /\ "call" \in EventKinds
  BY CallMapFacts DEF States, EventKinds
<1>2. CallDelta(t, i, args) = IF args = <<>> THEN t ELSE Emit(t, q)
  BY DEF CallDelta
<1> HIDE DEF b
<1>3. q \in Seq(EV) /\ Says("claude", kind, q) = IF "call" = kind THEN args ELSE <<>>
  BY <1>1, SaysDelta
<1> HIDE DEF q
<1>4. CASE args = <<>>
  <2>1. x = <<>> /\ CallDelta(t, i, args) = t
    BY <1>2, <1>4
  <2> HIDE DEF x
  <2> QED
    BY <2>1, TellsSame DEF x
<1>5. CASE args # <<>>
  <2>1. CallDelta(t, i, args) = Emit(t, q)
    BY <1>2, <1>5
  <2>2. Says("claude", kind, q) = x
    BY <1>3
  <2> HIDE DEF x
  <2> QED
    BY <1>3, <2>1, <2>2, TellsEmit DEF x
<1> QED
  BY <1>4, <1>5

LEMMA FinishMute ==
  ASSUME NEW kind \in Kinds, NEW t \in States(Types), NEW reason \in EventKinds
  PROVE  Mute(kind, t, FinishMessage(t, reason))
<1> DEFINE u == CloseText(CloseThinking(t))
           i == SetToSeq(DOMAIN u.calls)
           stops == [k \in DOMAIN i |-> Stop(u.calls[i[k]])]
           q == Append(stops, MessageDelta(reason))
           Quiet == {x \in EV : x.data = <<>>}
<1>1. Mute(kind, t, u)
  BY CloseMute
<1>2. FinishMessage(t, reason) = Emit(u, Append(CallStops(u), MessageDelta(reason)))
  BY DEF FinishMessage
<1>3. CallStops(u) = stops
  BY DEF CallStops
<1> HIDE DEF u
<1>4. u \in States(Types)
  BY <1>1, MuteStates
<1>5. u.calls \in CallMaps
  BY <1>4 DEF States
<1>6. i \in Seq(DOMAIN u.calls)
  BY <1>5, CallMapFacts, Listed
<1>7. ASSUME NEW n \in Nat PROVE Stop(n) \in Quiet
  <2>1. <<>> \in Seq(Int) /\ "none" \in EventKinds
    BY DEF EventKinds
  <2>2. Stop(n) \in EV
    BY <2>1, MadeEvents
  <2>3. Stop(n).data = <<>>
    BY DEF E, Stop
  <2> QED
    BY <2>2, <2>3
<1>8. MessageDelta(reason) \in Quiet
  <2>1. <<>> \in Seq(Int) /\ 0 \in Nat
    OBVIOUS
  <2>2. MessageDelta(reason) \in EV
    BY <2>1, MadeEvents
  <2>3. MessageDelta(reason).data = <<>>
    BY DEF E, MessageDelta
  <2> QED
    BY <2>2, <2>3
<1>9. stops \in Seq(Quiet)
  <2>1. \A k \in DOMAIN i : Stop(u.calls[i[k]]) \in Quiet
    <3>1. ASSUME NEW k \in DOMAIN i PROVE Stop(u.calls[i[k]]) \in Quiet
      <4>1. i[k] \in DOMAIN u.calls
        <5> HIDE DEF i
        <5> QED
          BY <1>6
      <4>2. u.calls[i[k]] \in Nat
        <5> HIDE DEF i
        <5> QED
          BY <1>5, <4>1, CallMapFacts
      <4> HIDE DEF Quiet
      <4> QED
        BY <1>7, <4>2
    <3> QED
      BY <3>1
  <2>2. DOMAIN i = 1..Len(i) /\ Len(i) \in Nat
    <3> HIDE DEF i
    <3> QED
      BY <1>6
  <2> HIDE DEF i, Quiet
  <2> QED
    BY <2>1, <2>2
<1>10. q \in Seq(Quiet)
  <2> HIDE DEF stops, Quiet
  <2> QED
    BY <1>8, <1>9
<1>11. FinishMessage(t, reason) = Emit(u, q)
  BY <1>2, <1>3
<1> HIDE DEF q
<1>12. q \in Seq(EV) /\ \A k \in 1..Len(q) : q[k].data = <<>>
  <2>1. \A k \in 1..Len(q) : q[k] \in Quiet
    <3> HIDE DEF Quiet
    <3> QED
      BY <1>10
  <2>2. Quiet \subseteq EV
    OBVIOUS
  <2>3. q \in Seq(EV)
    <3> HIDE DEF Quiet
    <3> QED
      BY <1>10, <2>2
  <2> QED
    BY <2>1, <2>3
<1>13. Says("claude", kind, q) = <<>>
  BY <1>12, SaidNothing DEF Says
<1>14. Mute(kind, u, Emit(u, q))
  BY <1>4, <1>12, <1>13, MuteEmit
<1>15. Mute(kind, t, Emit(u, q))
  BY <1>1, <1>14, MuteThen
<1> QED
  BY <1>11, <1>15

-------------------------------------------------------------------------------
(* Every pair: a step says what its line brings.                           *)
(* OpenAI's texts are read between the tags and around them by one         *)
(* converter, that to Claude.                                              *)
Untagged(f, g, kind) == f = "openai" /\ g = "claude" /\ kind # "call"

ReadIn(kind, m, c) == IF kind = "text" THEN TextIn(m, c) ELSE ThoughtIn(m, c)

Brings(f, g, kind, m, e) ==
    IF Untagged(f, g, kind)
    THEN IF e.type = "chunk" /\ e.kind = "text" THEN ReadIn(kind, m, e.data) ELSE <<>>
    ELSE Given(f, g, kind, e)

LEMMA OpenAIToClaudeSays ==
  ASSUME NEW kind \in Kinds, NEW t \in States(Types), t.out = <<>>,
         NEW e, Formed("openai", e)
  PROVE  /\ Talk("claude", kind, OpenAIToClaude(t, e)) = Brings("openai", "claude", kind, t.mode, e)
         /\ OpenAIToClaude(t, e).mode
               = IF e.type = "chunk" /\ e.kind = "text" THEN ModeAfter(t.mode, e.data) ELSE t.mode
<1> DEFINE u == First(t, <<MessageStart>>)
           v == OpenAIToClaude(t, e)
           x == Brings("openai", "claude", kind, t.mode, e)
<1>1. /\ e \in EV /\ e.data \in Seq(Int) /\ e.i \in Nat /\ e.kind \in EventKinds
      /\ e.type \in {"chunk", "finish", "usage", "[DONE]", "error"}
      /\ e.type = "chunk" => e.kind \in {"thought", "text", "call"}
      /\ kind \in {"thought", "text", "call"}
  BY DEF Formed, EV, Events, LineTypes, OpenAITypes, Kinds
<1>2. Mute(kind, t, u)
  <2>1. <<MessageStart>> \in Seq(EV) /\ Says("claude", kind, <<MessageStart>>) = <<>>
    <3>1. "claude" \in Formats
      BY DEF Formats
    <3> QED
      BY <1>1, <3>1, SaysQuiet
  <2> QED
    BY <2>1, MuteFirst
<1>3. u \in States(Types) /\ u.mode = t.mode /\ t.mode \in 0..2
  BY <1>2, MuteStates DEF Mute, States
<1> HIDE DEF u
<1>4. x = IF e.type # "chunk" THEN <<>>
          ELSE IF kind = "call" THEN (IF e.kind = "call" THEN e.data ELSE <<>>)
          ELSE IF e.kind = "text" THEN ReadIn(kind, t.mode, e.data) ELSE <<>>
  <2>1. Heard("openai", "claude", kind) = {kind} \ {"thought"} /\ TextType("openai") = {"chunk"}
    BY DEF Heard, TextType
  <2> QED
    BY <1>1, <2>1 DEF Brings, Untagged, Given
<1>5. ASSUME Mute(kind, t, v) PROVE Talk("claude", kind, v) = <<>> /\ v.mode = t.mode
  <2>1. Tells(kind, t, v, <<>>) /\ v.mode = t.mode
    BY <1>5 DEF Mute
  <2> HIDE DEF v
  <2> QED
    BY <2>1, TellsFromNothing
<1>6. CASE e.type = "[DONE]"
  <2>1. v = Emit(t, <<MessageStop>>)
    BY <1>6 DEF OpenAIToClaude
  <2>2. <<MessageStop>> \in Seq(EV) /\ Says("claude", kind, <<MessageStop>>) = <<>>
    <3>1. MessageStop \in EV
      BY <1>1, MadeEvents
    <3>2. MessageStop.data = <<>>
      BY DEF E, MessageStop
    <3> QED
      BY <3>1, <3>2, SaidOne DEF Says
  <2>3. Mute(kind, t, v)
    BY <2>1, <2>2, MuteEmit
  <2> QED
    BY <1>4, <1>5, <1>6, <2>3
<1>7. CASE e.type = "finish"
  <2>1. v = FinishMessage(u, e.kind)
    BY <1>7 DEF OpenAIToClaude, u
  <2>2. Mute(kind, u, v)
    BY <1>1, <1>3, <2>1, FinishMute
  <2>3. Mute(kind, t, v)
    <3> HIDE DEF v
    <3> QED
      BY <1>2, <2>2, MuteThen
  <2> QED
    BY <1>4, <1>5, <1>7, <2>3
<1>8. CASE e.type = "chunk" /\ e.kind = "text" /\ e.data # <<>>
  <2> DEFINE c == e.data
             r == HandleStreamingThinkTags(u, c)
             y == IF kind = "thought" THEN ThoughtIn(t.mode, c) ELSE <<>>
             z == IF kind = "text" THEN TextIn(t.mode, c) ELSE <<>>
             w == r.s
  <2>1. v = EmitText(r.s, r.text)
    BY <1>8 DEF OpenAIToClaude, u
  <2>2. /\ Tells(kind, u, r.s, IF kind = "thought" THEN ThoughtIn(u.mode, c) ELSE <<>>)
        /\ r.text = TextIn(u.mode, c) /\ r.text \in Seq(Int)
        /\ r.s.mode = ModeAfter(u.mode, c) /\ r.s \in States(Types)
    BY <1>1, <1>3, TagsTell
  <2>3. /\ Tells(kind, u, w, y) /\ r.text = TextIn(t.mode, c) /\ r.text \in Seq(Int)
        /\ w.mode = ModeAfter(t.mode, c) /\ w \in States(Types)
    BY <1>3, <2>2
  <2> HIDE DEF r
  <2>4. Tells(kind, w, EmitText(w, r.text), IF kind = "text" THEN r.text ELSE <<>>)
    BY <2>3, EmitTextTells
  <2>5. Tells(kind, w, v, z)
    BY <2>1, <2>3, <2>4
  <2>6. EmitText(w, r.text).mode = w.mode
    BY <2>3 DEF EmitText, Emit, States
  <2>7. v.mode = ModeAfter(t.mode, c)
    BY <2>1, <2>3, <2>6
  <2>8. Tells(kind, t, u, <<>>)
    BY <1>2 DEF Mute
  <2> HIDE DEF w, v, y, z
  <2>9. Tells(kind, t, w, y)
    BY <2>3, <2>8, TellsThen
  <2>10. CASE kind = "text"
    <3>1. y = <<>> /\ z = TextIn(t.mode, c) /\ x = TextIn(t.mode, c)
      BY <1>4, <1>8, <2>10 DEF y, z, ReadIn
    <3>2. Tells(kind, t, v, z)
      BY <2>5, <2>9, <3>1, TellsThen
    <3>3. Talk("claude", kind, v) = z
      BY <3>2, TellsFromNothing
    <3> QED
      BY <1>8, <2>7, <3>1, <3>3 DEF v
  <2>11. CASE kind = "thought"
    <3>1. z = <<>> /\ y = ThoughtIn(t.mode, c) /\ x = ThoughtIn(t.mode, c)
      BY <1>4, <1>8, <2>11 DEF y, z, ReadIn
    <3>2. Tells(kind, t, v, y)
      BY <2>5, <2>9, <3>1, TellsNoMore
    <3>3. Talk("claude", kind, v) = y
      BY <3>2, TellsFromNothing
    <3> QED
      BY <1>8, <2>7, <3>1, <3>3 DEF v
  <2>12. CASE kind = "call"
    <3>1. z = <<>> /\ y = <<>> /\ x = <<>>
      BY <1>4, <1>8, <2>12 DEF y, z
    <3>2. Tells(kind, t, v, y)
      BY <2>5, <2>9, <3>1, TellsNoMore
    <3>3. Talk("claude", kind, v) = y
      BY <3>2, TellsFromNothing
    <3> QED
      BY <1>8, <2>7, <3>1, <3>3 DEF v
  <2> QED
    BY <1>1, <2>10, <2>11, <2>12
<1>9. CASE e.type = "chunk" /\ e.kind = "call"
  <2> DEFINE w == OpenCall(u, e.i)
             y == IF kind = "call" THEN e.data ELSE <<>>
  <2>1. v = CallDelta(w, e.i, e.data)
    BY <1>9 DEF OpenAIToClaude, u
  <2>2. Mute(kind, u, w) /\ e.i \in DOMAIN w.calls
    BY <1>1, <1>3, ClaudeText, OpenCallMute, OpenCallTyped
  <2> HIDE DEF w
  <2>3. Mute(kind, t, w) /\ w \in States(Types)
    BY <1>2, <2>2, MuteThen, MuteStates
  <2>4. Tells(kind, w, v, y) /\ v.mode = w.mode
    <3> DEFINE i == e.i
               d == e.data
    <3>1. i \in DOMAIN w.calls /\ d \in Seq(Int) /\ w \in States(Types)
      BY <1>1, <2>2, <2>3
    <3>2. v = CallDelta(w, i, d) /\ y = IF kind = "call" THEN d ELSE <<>>
      BY <2>1
    <3> HIDE DEF i, d, v, y
    <3>3. /\ Tells(kind, w, CallDelta(w, i, d), IF kind = "call" THEN d ELSE <<>>)
          /\ CallDelta(w, i, d).mode = w.mode
      BY <3>1, CallDeltaTells
    <3> QED
      BY <3>2, <3>3
  <2>5. Tells(kind, t, w, <<>>) /\ w.mode = t.mode
    BY <2>3 DEF Mute
  <2> HIDE DEF v, y
  <2>6. Tells(kind, t, v, y)
    BY <2>4, <2>5, TellsThen
  <2>7. Talk("claude", kind, v) = y
    BY <2>6, TellsFromNothing
  <2>8. x = y
    BY <1>4, <1>9 DEF y
  <2> QED
    BY <1>9, <2>4, <2>5, <2>7, <2>8 DEF v
<1>10. CASE e.type = "chunk" /\ e.kind # "call" /\ e.data = <<>>
  <2>1. v = u
    BY <1>10 DEF OpenAIToClaude, u
  <2>2. x = <<>> /\ ModeAfter(t.mode, e.data) = t.mode
    <3>1. /\ TextIn(t.mode, <<>>) = <<>> /\ ThoughtIn(t.mode, <<>>) = <<>>
          /\ ModeAfter(t.mode, <<>>) = t.mode
      BY <1>1, <1>3, ReadsTyped
    <3> QED
      BY <1>4, <1>10, <3>1 DEF ReadIn
  <2> QED
    BY <1>2, <1>5, <1>10, <2>1, <2>2
<1>11. CASE \/ e.type \in {"usage", "error"}
            \/ (e.type = "chunk" /\ e.kind = "thought" /\ e.data # <<>>)
  <2>1. v = t
    BY <1>11 DEF OpenAIToClaude
  <2>2. x = <<>>
    BY <1>1, <1>4, <1>11
  <2>3. Mute(kind, t, t)
    BY MuteSame
  <2> QED
    BY <1>5, <1>11, <2>1, <2>2, <2>3
<1> QED
  BY <1>1, <1>6, <1>7, <1>8, <1>9, <1>10, <1>11

(* Every converter, line by line.                                          *)
LEMMA TransformSays ==
  ASSUME NEW f \in Formats, NEW g \in Formats, <<f, g>> \notin Swapped, NEW kind \in Kinds,
         NEW t \in States(Types), t.out = <<>>, NEW e, Formed(f, e),
         f = "claude" /\ g = "openai" /\ e.type = "content_block_delta" /\ e.kind = "call"
             => t.current \in DOMAIN t.calls
  PROVE  /\ Talk(g, kind, TransformStreamChunk(f, g, t, e)) = Brings(f, g, kind, t.mode, e)
         /\ f = "openai" /\ g = "claude" =>
               TransformStreamChunk(f, g, t, e).mode
                  = IF e.type = "chunk" /\ e.kind = "text" THEN ModeAfter(t.mode, e.data) ELSE t.mode
<1>1. CASE f = g
  <2>1. TransformStreamChunk(f, g, t, e) = Emit(t, <<e>>)
    BY <1>1 DEF TransformStreamChunk
  <2>2. Brings(f, g, kind, t.mode, e) = Given(f, f, kind, e)
    BY <1>1 DEF Brings, Untagged
  <2>3. Talk(f, kind, Emit(t, <<e>>)) = Given(f, f, kind, e)
    BY AsIsSays
  <2> QED
    BY <1>1, <2>1, <2>2, <2>3
<1>2. CASE f # g
  <2>1. CASE f = "openai" /\ g = "claude"
    BY <2>1, OpenAIToClaudeSays DEF TransformStreamChunk
  <2>2. CASE f = "openai" /\ g = "codex"
    BY <2>2, OpenAIToCodexSays DEF TransformStreamChunk, Brings, Untagged
  <2>3. CASE f = "openai" /\ g = "gemini"
    BY <2>3, OpenAIToGeminiSays DEF TransformStreamChunk, Brings, Untagged
  <2>4. CASE f = "claude" /\ g = "openai"
    BY <2>4, ClaudeToOpenAISays DEF TransformStreamChunk, Brings, Untagged
  <2>5. CASE f = "claude" /\ g = "codex"
    BY <2>5, ClaudeToOthersSay DEF TransformStreamChunk, Brings, Untagged
  <2>6. CASE f = "claude" /\ g = "gemini"
    BY <2>6, ClaudeToOthersSay DEF TransformStreamChunk, Brings, Untagged
  <2>7. CASE f = "codex" /\ g = "claude"
    BY <2>7, CodexToClaudeSays DEF TransformStreamChunk, Brings, Untagged
  <2>8. CASE f = "codex" /\ g = "openai"
    BY <2>8, CodexToOpenAISays DEF TransformStreamChunk, Brings, Untagged
  <2>9. CASE f = "gemini" /\ g = "claude"
    BY <2>9, GeminiToClaudeSays DEF TransformStreamChunk, Brings, Untagged
  <2>10. CASE f = "gemini" /\ g = "openai"
    BY <2>10, GeminiToOpenAISays DEF TransformStreamChunk, Brings, Untagged
  <2> QED
    BY <1>2, <2>1, <2>2, <2>3, <2>4, <2>5, <2>6, <2>7, <2>8, <2>9, <2>10 DEF Formats, Swapped
<1> QED
  BY <1>1, <1>2

-------------------------------------------------------------------------------
(* Several lines in one chunk, and what is still to come.                  *)
(* A chunk of several lines says what they say.                            *)
LEMMA BatchSaid ==
  ASSUME Proper(rest), NEW n \in Batches, NEW T, NEW K
  PROVE  Said(<<Batch(n)>>, T, K) = Said(SubSeq(rest, 1, n), T, K)
<1> DEFINE p == SubSeq(rest, 1, n)
<1>1. /\ n \in 1..Len(rest) /\ rest \in Seq(EV) /\ Len(rest) \in Nat
      /\ n = 1 \/ \A j \in 1..n : rest[j].type = "chunk" /\ rest[j].kind = "text"
  BY DEF Batches, Proper, EV
<1>2. p \in Seq(EV) /\ Len(p) = n /\ \A j \in 1..n : p[j] = rest[j]
  BY <1>1
<1>3. CASE n = 1
  <2>1. p = <<rest[1]>>
    <3>1. rest[1] \in EV
      BY <1>1
    <3>2. <<rest[1]>> \in Seq(EV) /\ Len(<<rest[1]>>) = 1 /\ <<rest[1]>>[1] = rest[1]
      BY <3>1
    <3> DEFINE q == <<rest[1]>>
    <3> HIDE DEF p, q
    <3>3. p = q
      <4>1. q \in Seq(EV) /\ Len(q) = 1 /\ q[1] = rest[1]
        BY <3>2 DEF q
      <4>2. p \in Seq(EV) /\ Len(p) = 1 /\ p[1] = rest[1]
        BY <1>2, <1>3
      <4> QED
        BY <4>1, <4>2
    <3> QED
      BY <3>3 DEF q
  <2>2. Batch(n) = rest[1]
    BY <1>3 DEF Batch
  <2> QED
    BY <2>1, <2>2
<1>4. CASE n # 1
  <2> DEFINE ss == [j \in 1..n |-> rest[j].data]
             d == FlattenSeq(ss)
             c == Chunk(0, "text", d)
  <2>1. \A j \in 1..n : rest[j] \in EV /\ rest[j].data \in Seq(Int)
    <3>1. \A j \in 1..n : rest[j] \in Events(Types)
      BY <1>1 DEF EV
    <3> QED
      BY <3>1 DEF Events, EV
  <2>2. ss \in Seq(Seq(Int))
    BY <1>1, <2>1
  <2>3. Batch(n) = c
    BY <1>4 DEF Batch
  <2>4. d \in Seq(Int)
    <3> HIDE DEF ss
    <3> QED
      BY <2>2, FlattenTyped
  <2>5. c \in EV /\ c.type = "chunk" /\ c.kind = "text" /\ c.data = d
    <3>1. "text" \in EventKinds /\ 0 \in Nat
      BY DEF EventKinds
    <3> HIDE DEF d
    <3>2. Chunk(0, "text", d) \in EV
      BY <2>4, <3>1, MadeEvents
    <3> QED
      BY <3>2 DEF Chunk, E
  <2> DEFINE on == "chunk" \in T /\ "text" \in K
  <2>6. Said(<<c>>, T, K) = IF on THEN d ELSE <<>>
    <3> HIDE DEF c, d
    <3>1. Said(<<c>>, T, K) = IF c.type \in T /\ c.kind \in K THEN c.data ELSE <<>>
      BY <2>5, SaidOne
    <3> QED
      BY <2>5, <3>1
  <2>7. \A j \in 1..n : p[j].type = "chunk" /\ p[j].kind = "text" /\ p[j].data = rest[j].data
    BY <1>1, <1>2, <1>4
  <2> HIDE DEF p
  <2>8. Said(p, T, K) = IF on THEN d ELSE <<>>
    <3>1. CASE on
      <4> DEFINE b == [k \in 1..Len(p) |-> IF p[k].type \in T /\ p[k].kind \in K
                                           THEN p[k].data ELSE <<>>]
      <4>1. b = ss
        BY <1>2, <2>7, <3>1
      <4>2. Said(p, T, K) = FlattenSeq(b)
        BY DEF Said
      <4> QED
        BY <3>1, <4>1, <4>2
    <3>2. CASE ~on
      <4>1. \A k \in 1..Len(p) : p[k].type \in T /\ p[k].kind \in K => p[k].data = <<>>
        BY <1>2, <2>7, <3>2
      <4> HIDE DEF d
      <4>2. Said(p, T, K) = <<>>
        BY <1>2, <4>1, SaidNothing
      <4> QED
        BY <3>2, <4>2
    <3> QED
      BY <3>1, <3>2
  <2> QED
    BY <2>3, <2>6, <2>8 DEF p
<1> QED
  BY <1>3, <1>4

LEMMA RestSplit ==
  ASSUME NEW T, NEW r \in Seq(T), NEW n \in 1..Len(r)
  PROVE  /\ SubSeq(r, 1, n) \in Seq(T) /\ SubSeq(r, n + 1, Len(r)) \in Seq(T)
         /\ r = SubSeq(r, 1, n) \o SubSeq(r, n + 1, Len(r))
<1> DEFINE p == SubSeq(r, 1, n)
           q == SubSeq(r, n + 1, Len(r))
<1>1. Len(r) \in Nat
  OBVIOUS
<1>2. p \in Seq(T) /\ Len(p) = n /\ \A k \in 1..n : p[k] = r[k]
  BY <1>1
<1>3. q \in Seq(T) /\ Len(q) = Len(r) - n /\ \A k \in 1..Len(r) - n : q[k] = r[n + k]
  BY <1>1
<1> HIDE DEF p, q
<1>4. Len(r) = Len(p) + Len(q)
  BY <1>1, <1>2, <1>3
<1>5. \A k \in 1..Len(p) : r[k] = p[k]
  BY <1>2
<1>6. \A k \in 1..Len(q) : r[Len(p) + k] = q[k]
  BY <1>2, <1>3
<1>7. r = p \o q
  BY <1>2, <1>3, <1>4, <1>5, <1>6, ConcatIs
<1> QED
  BY <1>2, <1>3, <1>7 DEF p, q

LEMMA SaidStep ==
  ASSUME Proper(rest), NEW n \in Batches, NEW T, NEW K,
         NEW q, q = SubSeq(rest, n + 1, Len(rest)), NEW e, e = Batch(n)
  PROVE  /\ Joins(Said(rest, T, K), Said(<<e>>, T, K), Said(q, T, K))
         /\ Said(<<e>>, T, K) \in Seq(Int) /\ Said(q, T, K) \in Seq(Int)
         /\ Said(rest, T, K) \in Seq(Int)
<1> DEFINE p == SubSeq(rest, 1, n)
           x == Said(rest, T, K)
           y == Said(p, T, K)
           z == Said(q, T, K)
           w == Said(<<e>>, T, K)
<1>1. n \in 1..Len(rest) /\ rest \in Seq(EV)
  BY DEF Batches, Proper, EV
<1>2. p \in Seq(EV) /\ q \in Seq(EV) /\ rest = p \o q
  BY <1>1, RestSplit
<1>3. w = y
  BY BatchSaid
<1> HIDE DEF p, w
<1>4. x = y \o z
  <2>1. Joins(Said(rest, T, K), Said(p, T, K), Said(q, T, K))
    BY <1>2, SaidJoins
  <2> QED
    BY <2>1 DEF Joins
<1>5. y \in Seq(Int) /\ z \in Seq(Int) /\ x \in Seq(Int)
  BY <1>1, <1>2, SaidTyped
<1> HIDE DEF x, y, z
<1>6. Joins(x, w, z) /\ w \in Seq(Int) /\ z \in Seq(Int) /\ x \in Seq(Int)
  BY ONLY <1>3, <1>4, <1>5 DEF Joins
<1> QED
  BY ONLY <1>6 DEF x, w, z

(* What is still to come of a kind, for a converter in a mode.             *)
Tokens(r) == Said(r, {"chunk"}, {"text"})

ToCome(f, g, kind, m, r) ==
    IF Untagged(f, g, kind) THEN ReadIn(kind, m, Tokens(r))
    ELSE Said(r, TextType(f), Heard(f, g, kind))

After1(f, g, m, e) ==
    IF f = "openai" /\ g = "claude" /\ e.type = "chunk" /\ e.kind = "text"
    THEN ModeAfter(m, e.data) ELSE m

LEMMA ToComeStep ==
  ASSUME Proper(rest), NEW n \in Batches, NEW f, NEW g, NEW kind \in Kinds, NEW m \in 0..2,
         NEW q, q = SubSeq(rest, n + 1, Len(rest))
  PROVE  /\ Joins(ToCome(f, g, kind, m, rest), Brings(f, g, kind, m, Batch(n)),
                  ToCome(f, g, kind, After1(f, g, m, Batch(n)), q))
         /\ Brings(f, g, kind, m, Batch(n)) \in Seq(Int)
         /\ ToCome(f, g, kind, After1(f, g, m, Batch(n)), q) \in Seq(Int)
<1> DEFINE e == Batch(n)
           k == After1(f, g, m, e)
<1>1. e \in EV /\ e.data \in Seq(Int)
  BY BatchFacts DEF EV, Events
<1> HIDE DEF e, k
<1>2. ASSUME NEW T, NEW K
      PROVE  /\ Said(rest, T, K) = Said(<<e>>, T, K) \o Said(q, T, K)
             /\ Said(<<e>>, T, K) \in Seq(Int) /\ Said(q, T, K) \in Seq(Int)
             /\ Said(<<e>>, T, K) = IF e.type \in T /\ e.kind \in K THEN e.data ELSE <<>>
  <2>1. e = Batch(n)
    BY DEF e
  <2>3. /\ Joins(Said(rest, T, K), Said(<<e>>, T, K), Said(q, T, K))
        /\ Said(<<e>>, T, K) \in Seq(Int) /\ Said(q, T, K) \in Seq(Int)
    BY <2>1, SaidStep
  <2>2. Said(<<e>>, T, K) = IF e.type \in T /\ e.kind \in K THEN e.data ELSE <<>>
    BY <1>1, SaidOne
  <2> QED
    BY ONLY <2>2, <2>3 DEF Joins
<1>3. CASE Untagged(f, g, kind)
  <2> DEFINE c == Tokens(<<e>>)
             d == Tokens(q)
             b == Brings(f, g, kind, m, e)
  <2>1. /\ Tokens(rest) = c \o d /\ c \in Seq(Int) /\ d \in Seq(Int)
        /\ c = IF e.type = "chunk" /\ e.kind = "text" THEN e.data ELSE <<>>
    <3>1. /\ Said(rest, {"chunk"}, {"text"}) = Said(<<e>>, {"chunk"}, {"text"}) \o Said(q, {"chunk"}, {"text"})
          /\ Said(<<e>>, {"chunk"}, {"text"}) \in Seq(Int) /\ Said(q, {"chunk"}, {"text"}) \in Seq(Int)
          /\ Said(<<e>>, {"chunk"}, {"text"})
               = IF e.type \in {"chunk"} /\ e.kind \in {"text"} THEN e.data ELSE <<>>
      BY <1>2
    <3> QED
      BY <3>1 DEF Tokens
  <2> HIDE DEF c, d
  <2>2. k = ModeAfter(m, c) /\ k \in 0..2 /\ b = ReadIn(kind, m, c)
    <3>1. /\ TextIn(m, <<>>) = <<>> /\ ThoughtIn(m, <<>>) = <<>> /\ ModeAfter(m, <<>>) = m
          /\ ModeAfter(m, c) \in 0..2
      BY <2>1, ReadsTyped
    <3>2. k = IF e.type = "chunk" /\ e.kind = "text" THEN ModeAfter(m, e.data) ELSE m
      BY <1>3 DEF After1, Untagged, k
    <3> QED
      BY <1>3, <2>1, <3>1, <3>2 DEF Brings, ReadIn
  <2>3. /\ TextIn(m, c \o d) = TextIn(m, c) \o TextIn(k, d)
        /\ ThoughtIn(m, c \o d) = ThoughtIn(m, c) \o ThoughtIn(k, d)
    <3>1. c \in Seq(Int) /\ d \in Seq(Int) /\ m \in 0..2 /\ k = ModeAfter(m, c)
      BY <2>1, <2>2
    <3> QED
      BY ONLY <3>1, ReadsOn, ZenonT(60)
  <2>4. /\ TextIn(m, c) \in Seq(Int) /\ TextIn(k, d) \in Seq(Int)
        /\ ThoughtIn(m, c) \in Seq(Int) /\ ThoughtIn(k, d) \in Seq(Int)
    BY <2>1, <2>2, ReadsTyped
  <2>5. ReadIn(kind, m, c \o d) = ReadIn(kind, m, c) \o ReadIn(kind, k, d)
    BY <2>3 DEF ReadIn
  <2>6. ToCome(f, g, kind, m, rest) = ReadIn(kind, m, c \o d)
    BY <1>3, <2>1 DEF ToCome
  <2>7. ToCome(f, g, kind, k, q) = ReadIn(kind, k, d)
    BY <1>3 DEF ToCome, d
  <2>8. ReadIn(kind, m, c) \in Seq(Int) /\ ReadIn(kind, k, d) \in Seq(Int)
    BY <2>4 DEF ReadIn
  <2> QED
    BY <2>2, <2>5, <2>6, <2>7, <2>8 DEF e, k, Joins
<1>4. CASE ~Untagged(f, g, kind)
  <2> DEFINE T == TextType(f)
             K == Heard(f, g, kind)
  <2>1. /\ Said(rest, T, K) = Said(<<e>>, T, K) \o Said(q, T, K)
        /\ Said(<<e>>, T, K) \in Seq(Int) /\ Said(q, T, K) \in Seq(Int)
        /\ Said(<<e>>, T, K) = IF e.type \in T /\ e.kind \in K THEN e.data ELSE <<>>
    BY <1>2
  <2>2. Brings(f, g, kind, m, e) = Said(<<e>>, T, K)
    BY <1>4, <2>1 DEF Brings, Given
  <2>3. ToCome(f, g, kind, m, rest) = Said(rest, T, K) /\ ToCome(f, g, kind, k, q) = Said(q, T, K)
    BY <1>4 DEF ToCome
  <2> QED
    BY <2>1, <2>2, <2>3 DEF e, k, Joins
<1> QED
  BY <1>3, <1>4

-------------------------------------------------------------------------------
(* The upstream's lines say what the parts of its answer do.               *)
(* The well-formed lines of a format, and the calls that are started.      *)
FormedLines(f) == {x \in EV : Formed(f, x)}
CallStart(x) == x.type = "content_block_start" /\ x.kind = "call"
CallTold(x) == x.type = "content_block_delta" /\ x.kind = "call"
CallsStarted(q) ==
    \A k \in 1..Len(q) : CallTold(q[k]) => k > 1 /\ CallStart(q[k - 1])
Orderly == {q \in Seq(EV) : CallsStarted(q)}

LEMMA OrderlyConcat ==
  ASSUME NEW p \in Orderly, NEW q \in Orderly
  PROVE  p \o q \in Orderly
<1>1. /\ p \in Seq(EV) /\ q \in Seq(EV) /\ CallsStarted(p) /\ CallsStarted(q)
      /\ Len(p) \in Nat /\ Len(q) \in Nat
  BY DEF Orderly
<1> DEFINE r == p \o q
<1>2. /\ Len(r) = Len(p) + Len(q) /\ r \in Seq(EV)
      /\ \A i \in 1..Len(p) : r[i] = p[i]
      /\ \A i \in 1..Len(q) : r[Len(p) + i] = q[i]
  BY <1>1, ConcatPlaces
<1> HIDE DEF r
<1>3. ASSUME NEW k \in 1..Len(r), CallTold(r[k]) PROVE k > 1 /\ CallStart(r[k - 1])
  <2>1. CASE k <= Len(p)
    <3>1. k \in 1..Len(p) /\ r[k] = p[k]
      BY <1>1, <1>2, <2>1
    <3>2. k > 1 /\ CallStart(p[k - 1])
      BY <1>1, <1>3, <3>1 DEF CallsStarted
    <3>3. k - 1 \in 1..Len(p)
      BY <3>1, <3>2
    <3> QED
      BY <1>2, <3>2, <3>3
  <2>2. CASE k > Len(p)
    <3> DEFINE i == k - Len(p)
    <3>1. i \in 1..Len(q) /\ k = Len(p) + i
      BY <1>1, <1>2, <2>2
    <3> HIDE DEF i
    <3>2. r[k] = q[i]
      BY <1>2, <3>1
    <3>3. i > 1 /\ CallStart(q[i - 1])
      BY <1>1, <1>3, <3>1, <3>2 DEF CallsStarted
    <3>4. i - 1 \in 1..Len(q) /\ k - 1 = Len(p) + (i - 1)
      BY <1>1, <3>1, <3>3
    <3>5. r[Len(p) + (i - 1)] = q[i - 1]
      BY <1>2, <3>4
    <3> QED
      BY <1>1, <3>1, <3>3, <3>4, <3>5
  <2> QED
    BY <1>1, <1>2, <2>1, <2>2
<1> QED
  BY <1>2, <1>3 DEF Orderly, CallsStarted, r

LEMMA OrderlyQuiet ==
  ASSUME NEW q \in Seq(EV), \A k \in 1..Len(q) : ~CallTold(q[k])
  PROVE  q \in Orderly
BY DEF Orderly, CallsStarted

(* The lines before the parts and after them.                              *)
Opening(f) == CASE f = "claude" -> <<MessageStart>>
                [] f = "openai" -> <<Chunk(0, "text", <<>>)>>
                [] f = "codex"  -> <<Created>>
                [] f = "gemini" -> <<>>
Ending(f, a) ==
    CASE f = "claude" -> <<MessageDelta(Reason(a)), MessageStop>>
      [] f = "openai" -> <<Finish(Reason(a)), E("usage", 0, "none", <<>>), Done>>
      [] f = "codex"  -> <<ResponseDone>>
      [] f = "gemini" -> <<Finished(IF cut THEN "length" ELSE "end")>>
PartsLines(f, a) == FlattenSeq([k \in DOMAIN a |-> PartLines(f, a, k)])

LEMMA LinesAre ==
  ASSUME NEW f \in Formats, NEW a
  PROVE  Lines(f, a) = (Opening(f) \o PartsLines(f, a)) \o Ending(f, a)
BY DEF Lines, Opening, Ending, PartsLines

LEMMA MadeFormed ==
  ASSUME NEW data \in Seq(Int), NEW kind \in Kinds, NEW r \in EventKinds, NEW i \in Nat
  PROVE  /\ MessageStart \in FormedLines("claude") /\ Start(i, kind) \in FormedLines("claude")
         /\ Delta(i, kind, data) \in FormedLines("claude")
         /\ Stop(i) \in FormedLines("claude") /\ MessageDelta(r) \in FormedLines("claude")
         /\ MessageStop \in FormedLines("claude")
         /\ Chunk(i, kind, data) \in FormedLines("openai") /\ Finish(r) \in FormedLines("openai")
         /\ Done \in FormedLines("openai")
         /\ E("usage", 0, "none", <<>>) \in FormedLines("openai")
         /\ Candidate(kind, data) \in FormedLines("gemini") /\ Finished(r) \in FormedLines("gemini")
         /\ Created \in FormedLines("codex") /\ ItemDelta(data) \in FormedLines("codex")
         /\ ItemAdded(data) \in FormedLines("codex") /\ ResponseDone \in FormedLines("codex")
<1>1. kind \in EventKinds
  BY DEF Kinds, EventKinds
<1>2. /\ MessageStart \in EV /\ Start(i, kind) \in EV /\ Delta(i, kind, data) \in EV
      /\ Stop(i) \in EV /\ MessageDelta(r) \in EV /\ MessageStop \in EV
  BY <1>1, MadeEvents
<1>3. /\ Chunk(i, kind, data) \in EV /\ Finish(r) \in EV /\ Done \in EV
      /\ E("usage", 0, "none", <<>>) \in EV
      /\ Candidate(kind, data) \in EV /\ Finished(r) \in EV
  BY <1>1, MadeEvents
<1>4. Created \in EV /\ ItemDelta(data) \in EV /\ ItemAdded(data) \in EV /\ ResponseDone \in EV
  BY <1>1, MadeEvents
<1>5. /\ MessageStart.type = "message_start" /\ Start(i, kind).type = "content_block_start"
      /\ Delta(i, kind, data).type = "content_block_delta" /\ Delta(i, kind, data).kind = kind
      /\ Stop(i).type = "content_block_stop" /\ MessageDelta(r).type = "message_delta"
      /\ MessageStop.type = "message_stop"
  BY DEF MessageStart, Start, Delta, Stop, MessageDelta, MessageStop, E
<1>6. /\ Chunk(i, kind, data).type = "chunk" /\ Chunk(i, kind, data).kind = kind
      /\ Finish(r).type = "finish" /\ Done.type = "[DONE]"
      /\ E("usage", 0, "none", <<>>).type = "usage"
      /\ Candidate(kind, data).type = "candidate" /\ Candidate(kind, data).kind = kind
      /\ Finished(r).type = "finished"
  BY DEF Chunk, Finish, Done, Candidate, Finished, E
<1>7. /\ Created.type = "response.created" /\ ItemDelta(data).type = "response.output_item.delta"
      /\ ItemDelta(data).kind = "text" /\ ItemAdded(data).kind = "call"
      /\ ItemAdded(data).type = "response.output_item.added"
      /\ ResponseDone.type = "response.done"
  BY DEF Created, ItemDelta, ItemAdded, ResponseDone, E
<1> USE DEF FormedLines, Formed, LineTypes, ClaudeTypes, OpenAITypes, GeminiTypes, CodexTypes
<1>9. /\ MessageStart \in FormedLines("claude") /\ Start(i, kind) \in FormedLines("claude")
      /\ Delta(i, kind, data) \in FormedLines("claude")
      /\ Stop(i) \in FormedLines("claude") /\ MessageDelta(r) \in FormedLines("claude")
      /\ MessageStop \in FormedLines("claude")
  BY ONLY <1>2, <1>5, kind \in Kinds
<1>10. /\ Chunk(i, kind, data) \in FormedLines("openai") /\ Finish(r) \in FormedLines("openai")
       /\ Done \in FormedLines("openai")
       /\ E("usage", 0, "none", <<>>) \in FormedLines("openai")
  BY ONLY <1>3, <1>6, kind \in Kinds
<1>11. Candidate(kind, data) \in FormedLines("gemini") /\ Finished(r) \in FormedLines("gemini")
  BY ONLY <1>3, <1>6, kind \in Kinds
<1>12. /\ Created \in FormedLines("codex") /\ ItemDelta(data) \in FormedLines("codex")
       /\ ItemAdded(data) \in FormedLines("codex") /\ ResponseDone \in FormedLines("codex")
  BY ONLY <1>4, <1>7
<1> QED
  BY ONLY <1>9, <1>10, <1>11, <1>12

LEMMA FlattenSingles ==
  ASSUME NEW T, NEW q \in Seq(T)
  PROVE  FlattenSeq([k \in 1..Len(q) |-> <<q[k]>>]) = q
<1> DEFINE G == [x \in T |-> <<x>>]
           S == {p \in Seq(T) : Spread(G, p) = p}
<1>1. Makes(G, T, T)
  <2>1. \A x \in T : <<x>> \in Seq(T)
    OBVIOUS
  <2> QED
    BY <2>1 DEF Makes
<1>2. \A x \in T : G[x] = <<x>>
  OBVIOUS
<1> HIDE DEF G
<1>3. <<>> \in S
  BY <1>1, SpreadEmpty
<1>4. ASSUME NEW p \in Seq(T), NEW x \in T, p \in S PROVE Append(p, x) \in S
  <2>3. Spread(G, p) = p
    BY <1>4
  <2>4. Spread(G, Append(p, x)) = Spread(G, p) \o G[x]
    BY ONLY <1>1, p \in Seq(T), x \in T, SpreadMore
  <2>1. Spread(G, Append(p, x)) = p \o <<x>>
    BY <1>2, <2>3, <2>4
  <2>2. p \o <<x>> = Append(p, x) /\ Append(p, x) \in Seq(T)
    OBVIOUS
  <2> QED
    BY <2>1, <2>2
<1>5. Seq(T) \subseteq S
  <2> HIDE DEF S
  <2> QED
    BY <1>3, <1>4, SequenceInduction
<1>6. Spread(G, q) = q
  BY <1>5
<1>7. \A k \in 1..Len(q) : G[q[k]] = <<q[k]>>
  BY <1>2
<1>8. [k \in 1..Len(q) |-> G[q[k]]] = [k \in 1..Len(q) |-> <<q[k]>>]
  BY <1>7
<1> QED
  BY <1>6, <1>8 DEF Spread

(* Of several lines only one says something.                               *)
LEMMA SaidAmong ==
  ASSUME NEW T, NEW K, NEW q \in Seq(EV), NEW m \in 1..Len(q), NEW y, y = q[m],
         \A j \in 1..Len(q) : j # m => q[j].data = <<>>
  PROVE  Said(q, T, K) = IF y.type \in T /\ y.kind \in K THEN y.data ELSE <<>>
<1> DEFINE a == [j \in 1..m - 1 |-> q[j]]
           c == [j \in 1..Len(q) - m |-> q[m + j]]
           x == <<y>>
           d == Said(x, T, K)
<1>1. Len(q) \in Nat /\ m - 1 \in Nat /\ Len(q) - m \in Nat /\ y \in EV
  OBVIOUS
<1>2. a \in Seq(EV) /\ Len(a) = m - 1 /\ \A j \in 1..Len(a) : a[j] = q[j]
  BY <1>1
<1>3. c \in Seq(EV) /\ Len(c) = Len(q) - m /\ \A j \in 1..Len(c) : c[j] = q[m + j]
  BY <1>1
<1>4. x \in Seq(EV) /\ Len(x) = 1 /\ x[1] = y
  BY <1>1
<1>5. Said(a, T, K) = <<>>
  <2>1. \A j \in 1..Len(a) : a[j].type \in T /\ a[j].kind \in K => a[j].data = <<>>
    BY <1>1, <1>2
  <2> HIDE DEF a
  <2> QED
    BY <1>2, <2>1, SaidNothing
<1>6. Said(c, T, K) = <<>>
  <2>1. \A j \in 1..Len(c) : c[j].type \in T /\ c[j].kind \in K => c[j].data = <<>>
    BY <1>1, <1>3
  <2> HIDE DEF c
  <2> QED
    BY <1>3, <2>1, SaidNothing
<1>7. d \in Seq(Int) /\ d = IF y.type \in T /\ y.kind \in K THEN y.data ELSE <<>>
  <2>1. d = IF y.type \in T /\ y.kind \in K THEN y.data ELSE <<>>
    BY ONLY <1>1, SaidOne
  <2> HIDE DEF x
  <2>2. d \in Seq(Int)
    BY ONLY <1>4, SaidTyped
  <2> QED
    BY ONLY <2>1, <2>2
<1> HIDE DEF a, c, x
<1> DEFINE r == a \o x
<1>8. /\ r \in Seq(EV) /\ Len(r) = m
      /\ \A j \in 1..Len(a) : r[j] = a[j]
      /\ r[m] = y
  <2>1. /\ Len(r) = Len(a) + Len(x) /\ r \in Seq(EV)
        /\ \A j \in 1..Len(a) : r[j] = a[j]
        /\ \A j \in 1..Len(x) : r[Len(a) + j] = x[j]
    <3>1. a \in Seq(EV) /\ x \in Seq(EV)
      BY <1>2, <1>4
    <3>2. r \in Seq(EV)
      BY ONLY <3>1
    <3> QED
      BY ONLY <3>1, <3>2, ConcatPlaces
  <2> HIDE DEF r
  <2>2. Len(r) = m /\ 1 \in 1..Len(x) /\ Len(a) + 1 = m
    BY <1>1, <1>2, <1>4, <2>1
  <2> QED
    BY <1>4, <2>1, <2>2
<1>9. Said(r, T, K) = Said(a, T, K) \o d
  BY <1>2, <1>4, SaidConcat, SMTT(60)
<1> HIDE DEF r
<1>10. q = r \o c
  <2>1. Len(q) = Len(r) + Len(c)
    BY <1>1, <1>3, <1>8
  <2>2. \A j \in 1..Len(r) : q[j] = r[j]
    <3>1. ASSUME NEW j \in 1..Len(r) PROVE q[j] = r[j]
      <4>1. j = m \/ j \in 1..Len(a)
        BY <1>1, <1>2, <1>8
      <4> QED
        BY <1>2, <1>8, <4>1
    <3> QED
      BY <3>1
  <2>3. \A j \in 1..Len(c) : q[Len(r) + j] = c[j]
    BY <1>3, <1>8
  <2> QED
    BY <1>3, <1>8, <2>1, <2>2, <2>3, ConcatIs
<1>11. Said(r \o c, T, K) = Said(r, T, K) \o Said(c, T, K)
  BY <1>3, <1>8, SaidConcat
<1> HIDE DEF d
<1>12. (<<>> \o d) \o <<>> = d
  BY ONLY <1>7
<1> QED
  BY <1>5, <1>6, <1>7, <1>9, <1>10, <1>11, <1>12

LEMMA SaidTexts ==
  ASSUME NEW K, NEW q \in Seq(Int)
  PROVE  /\ Texts(q) \in Seq(FormedLines("openai")) /\ Texts(q) \in Seq(EV)
         /\ \A j \in 1..Len(Texts(q)) : Texts(q)[j].type = "chunk"
         /\ Said(Texts(q), {"chunk"}, K) = IF "text" \in K THEN q ELSE <<>>
<1> DEFINE t == Texts(q)
<1>1. t = [j \in 1..Len(q) |-> Chunk(0, "text", <<q[j]>>)] /\ Len(q) \in Nat
  BY DEF Texts
<1>2. ASSUME NEW j \in 1..Len(q)
      PROVE  /\ Chunk(0, "text", <<q[j]>>) \in FormedLines("openai")
             /\ Chunk(0, "text", <<q[j]>>) \in EV
  <2>1. <<q[j]>> \in Seq(Int) /\ 0 \in Nat /\ "text" \in Kinds /\ "text" \in EventKinds
    BY DEF Kinds, EventKinds
  <2> QED
    BY <2>1, MadeFormed DEF FormedLines
<1>3. t \in Seq(FormedLines("openai")) /\ Len(t) = Len(q) /\ t \in Seq(EV)
  BY <1>1, <1>2
<1>4. \A j \in 1..Len(t) : t[j].type = "chunk" /\ t[j].kind = "text" /\ t[j].data = <<q[j]>>
  BY <1>1, <1>3 DEF Chunk, E
<1> HIDE DEF t
<1>5. Said(t, {"chunk"}, K) = IF "text" \in K THEN q ELSE <<>>
  <2>1. CASE "text" \in K
    <3> DEFINE b == [k \in 1..Len(t) |-> IF t[k].type \in {"chunk"} /\ t[k].kind \in K
                                         THEN t[k].data ELSE <<>>]
    <3>1. b = [k \in 1..Len(q) |-> <<q[k]>>]
      BY <1>3, <1>4, <2>1
    <3>2. FlattenSeq([k \in 1..Len(q) |-> <<q[k]>>]) = q
      BY FlattenSingles
    <3>3. Said(t, {"chunk"}, K) = FlattenSeq(b)
      BY DEF Said
    <3> HIDE DEF b
    <3> QED
      BY <2>1, <3>1, <3>2, <3>3
  <2>2. CASE "text" \notin K
    <3>1. \A k \in 1..Len(t) : t[k].type \in {"chunk"} /\ t[k].kind \in K => t[k].data = <<>>
      BY <1>4, <2>2
    <3> QED
      BY <1>3, <2>2, <3>1, SaidNothing
  <2> QED
    BY <2>1, <2>2
<1> QED
  BY <1>3, <1>4, <1>5 DEF t

PartRecords == [kind : Kinds, data : Seq(Int)]

LEMMA PartIs ==
  ASSUME NEW f, NEW n \in Nat, NEW a \in [1..n -> Kinds], NEW k \in 1..n
  PROVE  /\ PartsOf(f, a)[k] \in PartRecords /\ Tagged(a, k) \in Seq(Int)
         /\ PartsOf(f, a)[k].kind = IF f = "openai" /\ a[k] = "thought" THEN "text" ELSE a[k]
         /\ PartsOf(f, a)[k].data
               = IF f = "openai" /\ a[k] = "thought" THEN Tagged(a, k) ELSE <<k>>
         /\ PartsOf(f, a) \in Seq(PartRecords) /\ Len(PartsOf(f, a)) = n
<1>1. ASSUME NEW j \in 1..n PROVE Tagged(a, j) \in Seq(Int) /\ <<j>> \in Seq(Int)
  BY DEF Tagged, Open, Close
<1> DEFINE kd(j) == IF f = "openai" /\ a[j] = "thought" THEN "text" ELSE a[j]
           dt(j) == IF f = "openai" /\ a[j] = "thought" THEN Tagged(a, j) ELSE <<j>>
<1>2. ASSUME NEW j \in 1..n PROVE kd(j) \in Kinds /\ dt(j) \in Seq(Int)
  BY <1>1 DEF Kinds
<1>3. PartsOf(f, a) = [j \in 1..n |-> PartOf(kd(j), dt(j))]
  BY DEF PartsOf
<1>4. \A j \in 1..n : PartsOf(f, a)[j] = [kind |-> kd(j), data |-> dt(j)]
  BY <1>3 DEF PartOf
<1>5. ASSUME NEW j \in 1..n PROVE PartsOf(f, a)[j] \in PartRecords
  <2> DEFINE u == kd(j)
             v == dt(j)
  <2>1. u \in Kinds /\ v \in Seq(Int)
    BY <1>2
  <2>2. PartsOf(f, a)[j] = [kind |-> u, data |-> v]
    BY <1>4
  <2> HIDE DEF u, v
  <2> QED
    BY <2>1, <2>2 DEF PartRecords
<1>6. PartsOf(f, a) \in [1..n -> PartRecords]
  <2> HIDE DEF kd, dt
  <2> QED
    BY <1>3, <1>5
<1> QED
  BY <1>1, <1>4, <1>5, <1>6

LEMMA PartLinesSay ==
  ASSUME NEW f \in Formats, NEW n \in Nat, NEW a \in [1..n -> Kinds], NEW k \in 1..n,
         f = "codex" => a[k] # "thought", NEW q, q = PartLines(f, a, k),
         NEW p, p = PartsOf(f, a)[k], NEW K
  PROVE  /\ q \in Seq(FormedLines(f)) /\ q \in Orderly
         /\ Said(q, TextType(f), K) = IF p.kind \in K THEN p.data ELSE <<>>
<1>1. /\ a[k] \in Kinds /\ k \in Nat /\ k - 1 \in Nat
      /\ "text" \in Kinds /\ "call" \in Kinds /\ "none" \in EventKinds
      /\ <<k>> \in Seq(Int) /\ <<>> \in Seq(Int) /\ 0 \in Nat
  BY DEF Kinds, EventKinds
<1>2. /\ p.kind = IF f = "openai" /\ a[k] = "thought" THEN "text" ELSE a[k]
      /\ p.data = IF f = "openai" /\ a[k] = "thought" THEN Tagged(a, k) ELSE <<k>>
      /\ Tagged(a, k) \in Seq(Int)
  BY PartIs, ZenonT(60)
<1>3. \A F : FormedLines(F) \subseteq EV
  BY DEF FormedLines
<1>4. CASE f = "claude"
  <2> DEFINE x == Start(k - 1, a[k])
             y == Delta(k - 1, a[k], <<k>>)
             z == Stop(k - 1)
  <2>1. q = <<x, y, z>>
    BY <1>4 DEF PartLines
  <2>2. x \in FormedLines("claude") /\ y \in FormedLines("claude") /\ z \in FormedLines("claude")
    BY <1>1, MadeFormed
  <2>3. /\ x.data = <<>> /\ z.data = <<>> /\ x.type = "content_block_start" /\ x.kind = a[k]
        /\ y.type = "content_block_delta" /\ y.kind = a[k] /\ y.data = <<k>>
        /\ z.type = "content_block_stop"
    BY DEF Start, Delta, Stop, E
  <2> HIDE DEF x, y, z
  <2>4. /\ q \in Seq(FormedLines("claude")) /\ q \in Seq(EV) /\ Len(q) = 3
        /\ q[1] = x /\ q[2] = y /\ q[3] = z
    BY <1>3, <2>1, <2>2
  <2>5. q \in Orderly
    <3>1. \A j \in 1..Len(q) : CallTold(q[j]) => j = 2 /\ a[k] = "call"
      BY <2>3, <2>4 DEF CallTold
    <3>2. a[k] = "call" => CallStart(q[1])
      BY <2>3, <2>4 DEF CallStart
    <3>3. ASSUME NEW j \in 1..Len(q), CallTold(q[j]) PROVE j > 1 /\ CallStart(q[j - 1])
      <4>1. j = 2 /\ a[k] = "call" /\ j - 1 = 1
        BY <3>1, <3>3
      <4> QED
        BY <3>2, <4>1
    <3> QED
      BY <2>4, <3>3 DEF Orderly, CallsStarted
  <2>6. 2 \in 1..Len(q) /\ \A j \in 1..Len(q) : j # 2 => q[j].data = <<>>
    BY <2>3, <2>4
  <2>7. Said(q, TextType(f), K) = IF y.type \in TextType(f) /\ y.kind \in K THEN y.data ELSE <<>>
    BY <2>4, <2>6, SaidAmong
  <2>8. "content_block_delta" \in TextType(f)
    BY <1>4 DEF TextType
  <2> QED
    BY <1>2, <1>4, <2>3, <2>4, <2>5, <2>7, <2>8
<1>5. ASSUME NEW x \in FormedLines(f), q = <<x>>, x.type \in TextType(f), ~CallTold(x),
             x.kind = a[k], x.data = <<k>>, f # "openai"
      PROVE  /\ q \in Seq(FormedLines(f)) /\ q \in Orderly
             /\ Said(q, TextType(f), K) = IF p.kind \in K THEN p.data ELSE <<>>
  <2>1. x \in EV /\ q \in Seq(FormedLines(f)) /\ q \in Seq(EV) /\ Len(q) = 1 /\ q[1] = x
    BY <1>3, <1>5
  <2>2. q \in Orderly
    <3>1. \A j \in 1..Len(q) : ~CallTold(q[j])
      <4>1. \A j \in 1..Len(q) : q[j] = x
        BY ONLY <2>1
      <4> QED
        BY <1>5, <4>1
    <3> QED
      BY <2>1, <3>1, OrderlyQuiet
  <2>3. Said(<<x>>, TextType(f), K)
            = IF x.type \in TextType(f) /\ x.kind \in K THEN x.data ELSE <<>>
    BY <2>1, SaidOne
  <2> QED
    BY <1>2, <1>5, <2>1, <2>2, <2>3
<1>6. CASE f = "gemini"
  <2> DEFINE x == Candidate(a[k], <<k>>)
  <2>1. q = <<x>>
    BY <1>6 DEF PartLines
  <2>2. x \in FormedLines("gemini")
    BY <1>1, <1>2, MadeFormed, "none" \in EventKinds
  <2>3. x.type = "candidate" /\ x.kind = a[k] /\ x.data = <<k>>
    BY DEF Candidate, E
  <2> HIDE DEF x
  <2>4. x.type \in TextType(f) /\ ~CallTold(x)
    BY <1>6, <2>3 DEF TextType, CallTold
  <2> QED
    BY <1>5, <1>6, <2>1, <2>2, <2>3, <2>4
<1>7. CASE f = "codex"
  <2> DEFINE x == IF a[k] = "text" THEN ItemDelta(<<k>>) ELSE ItemAdded(<<k>>)
  <2>1. q = <<x>>
    BY <1>7 DEF PartLines
  <2>2. x \in FormedLines("codex")
    BY <1>1, MadeFormed
  <2>3. /\ x.type \in {"response.output_item.delta", "response.output_item.added"}
        /\ x.kind = a[k] /\ x.data = <<k>>
    BY <1>1, <1>7 DEF ItemDelta, ItemAdded, E, Kinds
  <2> HIDE DEF x
  <2>4. x.type \in TextType(f) /\ ~CallTold(x)
    BY <1>7, <2>3 DEF TextType, CallTold
  <2> QED
    BY <1>5, <1>7, <2>1, <2>2, <2>3, <2>4
<1>8. CASE f = "openai"
  <2>1. TextType(f) = {"chunk"}
    BY <1>8 DEF TextType
  <2>2. CASE a[k] # "call"
    <3> DEFINE d == p.data
    <3>1. q = Texts(d) /\ d \in Seq(Int) /\ p.kind = "text"
      BY <1>1, <1>2, <1>8, <2>2 DEF PartLines, Kinds
    <3> HIDE DEF d
    <3>2. /\ q \in Seq(FormedLines("openai")) /\ q \in Seq(EV)
          /\ \A j \in 1..Len(q) : q[j].type = "chunk"
          /\ Said(q, {"chunk"}, K) = IF "text" \in K THEN d ELSE <<>>
      BY <3>1, SaidTexts
    <3>3. q \in Orderly
      BY <3>2, OrderlyQuiet DEF CallTold
    <3> QED
      BY <1>8, <2>1, <3>1, <3>2, <3>3 DEF d
  <2>3. CASE a[k] = "call"
    <3> DEFINE C == {j \in 1..k - 1 : a[j] = "call"}
               c == Cardinality(C)
    <3>1. c \in Nat
      <4>1. IsFiniteSet(1..k - 1)
        BY FS_Interval
      <4>2. C \in SUBSET (1..k - 1)
        OBVIOUS
      <4> HIDE DEF C
      <4>3. IsFiniteSet(C)
        BY <4>1, <4>2, FS_Subset
      <4> QED
        BY <4>3, FS_CardinalityType
    <3>2. CallNo(a, k) = c
      BY DEF CallNo
    <3> HIDE DEF c
    <3> DEFINE x == Chunk(c, "call", <<>>)
               y == Chunk(c, "call", <<k>>)
    <3>3. q = <<x, y>>
      BY <1>8, <2>3, <3>2 DEF PartLines
    <3>4. x \in FormedLines("openai") /\ y \in FormedLines("openai")
      BY <1>1, <3>1, MadeFormed
    <3>5. /\ x.type = "chunk" /\ y.type = "chunk" /\ x.data = <<>>
          /\ y.kind = "call" /\ y.data = <<k>>
      BY DEF Chunk, E
    <3> HIDE DEF x, y
    <3>6. /\ q \in Seq(FormedLines("openai")) /\ q \in Seq(EV) /\ Len(q) = 2
          /\ q[1] = x /\ q[2] = y
      BY <1>3, <3>3, <3>4
    <3>7. q \in Orderly
      <4>1. ~CallTold(x) /\ ~CallTold(y)
        BY ONLY <3>5 DEF CallTold
      <4>2. \A j \in 1..Len(q) : ~CallTold(q[j])
        BY ONLY <3>6, <4>1
      <4> QED
        BY ONLY <3>6, <4>2, OrderlyQuiet
    <3>8. 2 \in 1..Len(q) /\ \A j \in 1..Len(q) : j # 2 => q[j].data = <<>>
      BY <3>5, <3>6
    <3>9. Said(q, {"chunk"}, K) = IF y.type \in {"chunk"} /\ y.kind \in K THEN y.data ELSE <<>>
      BY <3>6, <3>8, SaidAmong
    <3> QED
      BY <1>2, <1>8, <2>1, <2>3, <3>5, <3>6, <3>7, <3>9
  <2> QED
    BY <2>2, <2>3
<1> QED
  BY <1>4, <1>6, <1>7, <1>8 DEF Formats

-------------------------------------------------------------------------------
(* What the parts of a message say, and the lines of the whole answer.     *)
(* What the parts of some kinds say.                                       *)
Told(parts, K) == TextOf(Kept(parts, K))
Keeps(K) == [x \in PartRecords |-> IF x.kind \in K THEN <<x>> ELSE <<>>]
Datas == [x \in PartRecords |-> x.data]
Tellings(K) == [x \in PartRecords |-> IF x.kind \in K THEN x.data ELSE <<>>]

LEMMA TellingsMake ==
  ASSUME NEW K
  PROVE  /\ Makes(Keeps(K), PartRecords, PartRecords) /\ Makes(Datas, PartRecords, Int)
         /\ Makes(Tellings(K), PartRecords, Int)
         /\ \A x \in PartRecords : /\ Keeps(K)[x] = IF x.kind \in K THEN <<x>> ELSE <<>>
                                   /\ Datas[x] = x.data
                                   /\ Tellings(K)[x] = IF x.kind \in K THEN x.data ELSE <<>>
<1>1. \A x \in PartRecords : x.data \in Seq(Int) /\ <<x>> \in Seq(PartRecords)
  BY DEF PartRecords
<1>2. <<>> \in Seq(PartRecords) /\ <<>> \in Seq(Int)
  OBVIOUS
<1> QED
  BY <1>1, <1>2 DEF Makes, Keeps, Datas, Tellings

LEMMA TellingsAt ==
  ASSUME NEW K, NEW x \in PartRecords
  PROVE  /\ Keeps(K)[x] = IF x.kind \in K THEN <<x>> ELSE <<>>
         /\ Tellings(K)[x] = IF x.kind \in K THEN x.data ELSE <<>>
BY DEF Keeps, Tellings

LEMMA KeptIs ==
  ASSUME NEW K, NEW p \in Seq(PartRecords)
  PROVE  /\ Kept(p, K) = Spread(Keeps(K), p) /\ Kept(p, K) \in Seq(PartRecords)
         /\ TextOf(p) = Spread(Datas, p) /\ TextOf(p) \in Seq(Int)
<1>1. \A k \in 1..Len(p) : p[k] \in PartRecords
  OBVIOUS
<1>2. Kept(p, K) = Spread(Keeps(K), p)
  <2>1. [k \in 1..Len(p) |-> IF p[k].kind \in K THEN <<p[k]>> ELSE <<>>]
           = [k \in 1..Len(p) |-> Keeps(K)[p[k]]]
    BY <1>1, TellingsMake
  <2> QED
    BY <2>1 DEF Kept, Spread
<1>3. TextOf(p) = Spread(Datas, p)
  <2>1. DOMAIN p = 1..Len(p)
    OBVIOUS
  <2>2. [k \in 1..Len(p) |-> p[k].data] = [k \in 1..Len(p) |-> Datas[p[k]]]
    BY <1>1, TellingsMake, ZenonT(60)
  <2> QED
    BY <2>1, <2>2 DEF TextOf, Spread
<1>4. Spread(Keeps(K), p) \in Seq(PartRecords)
  <2>1. Makes(Keeps(K), PartRecords, PartRecords)
    BY TellingsMake
  <2> QED
    BY <2>1, SpreadTyped
<1>5. Spread(Datas, p) \in Seq(Int)
  <2>1. Makes(Datas, PartRecords, Int)
    BY TellingsMake
  <2> QED
    BY <2>1, SpreadTyped
<1> QED
  BY <1>2, <1>3, <1>4, <1>5

LEMMA ToldIs ==
  ASSUME NEW K, NEW p \in Seq(PartRecords)
  PROVE  Told(p, K) = Spread(Tellings(K), p) /\ Told(p, K) \in Seq(Int)
<1> DEFINE ss == [k \in 1..Len(p) |-> Keeps(K)[p[k]]]
<1>1. \A k \in 1..Len(p) : p[k] \in PartRecords
  OBVIOUS
<1>2. /\ Makes(Keeps(K), PartRecords, PartRecords) /\ Makes(Datas, PartRecords, Int)
      /\ Makes(Tellings(K), PartRecords, Int)
  BY TellingsMake
<1>3. ss \in Seq(Seq(PartRecords)) /\ Len(ss) = Len(p)
      /\ \A k \in 1..Len(p) : ss[k] = Keeps(K)[p[k]]
  <2>1. \A k \in 1..Len(p) : Keeps(K)[p[k]] \in Seq(PartRecords)
    BY <1>1, <1>2 DEF Makes
  <2> QED
    BY <2>1
<1>4. Kept(p, K) = FlattenSeq(ss)
  BY KeptIs DEF Spread
<1> HIDE DEF ss
<1>5. FlattenSeq(ss) \in Seq(PartRecords)
  BY <1>3, FlattenTyped
<1>6. Told(p, K) = Spread(Datas, FlattenSeq(ss))
  BY <1>4, <1>5, KeptIs DEF Told
<1>7. Spread(Datas, FlattenSeq(ss)) = FlattenSeq([k \in 1..Len(ss) |-> Spread(Datas, ss[k])])
  BY <1>2, <1>3, SpreadFlat
<1>8. ASSUME NEW k \in 1..Len(p) PROVE Spread(Datas, ss[k]) = Tellings(K)[p[k]]
  <2>1. Spread(Datas, <<p[k]>>) = Datas[p[k]]
    BY <1>1, <1>2, SpreadOne
  <2>2. Spread(Datas, <<>>) = <<>>
    BY <1>2, SpreadEmpty
  <2> QED
    <3> DEFINE x == p[k]
    <3>1. x \in PartRecords
      BY <1>1
    <3>2. /\ Keeps(K)[x] = IF x.kind \in K THEN <<x>> ELSE <<>>
          /\ Datas[x] = x.data
          /\ Tellings(K)[x] = IF x.kind \in K THEN x.data ELSE <<>>
      BY ONLY <3>1, TellingsMake
    <3>3. ss[k] = Keeps(K)[x]
      BY ONLY <1>3, k \in 1..Len(p)
    <3>4. Spread(Datas, <<x>>) = Datas[x]
      BY ONLY <2>1
    <3> HIDE DEF x
    <3>5. Spread(Datas, ss[k]) = Tellings(K)[x]
      BY ONLY <2>2, <3>2, <3>3, <3>4
    <3> QED
      BY ONLY <3>5 DEF x
<1>9. [k \in 1..Len(ss) |-> Spread(Datas, ss[k])] = [k \in 1..Len(p) |-> Tellings(K)[p[k]]]
  BY <1>3, <1>8
<1>10. Told(p, K) = Spread(Tellings(K), p)
  BY <1>6, <1>7, <1>9 DEF Spread
<1> QED
  BY <1>2, <1>10, SpreadTyped

LEMMA ToldConcat ==
  ASSUME NEW K, NEW p \in Seq(PartRecords), NEW q \in Seq(PartRecords)
  PROVE  Told(p \o q, K) = Told(p, K) \o Told(q, K) /\ p \o q \in Seq(PartRecords)
<1>1. Makes(Tellings(K), PartRecords, Int)
  BY TellingsMake
<1>2. Spread(Tellings(K), p \o q) = Spread(Tellings(K), p) \o Spread(Tellings(K), q)
  BY ONLY <1>1, p \in Seq(PartRecords), q \in Seq(PartRecords), SpreadConcat
<1> DEFINE r == p \o q
<1>3. r \in Seq(PartRecords)
  BY ONLY p \in Seq(PartRecords), q \in Seq(PartRecords)
<1>4. Told(r, K) = Spread(Tellings(K), r)
  <2> HIDE DEF r
  <2> QED
    BY <1>3, ToldIs
<1>5. Told(p, K) = Spread(Tellings(K), p) /\ Told(q, K) = Spread(Tellings(K), q)
  BY ToldIs
<1> QED
  BY <1>2, <1>3, <1>4, <1>5

LEMMA ToldOne ==
  ASSUME NEW K, NEW x \in PartRecords
  PROVE  Told(<<x>>, K) = IF x.kind \in K THEN x.data ELSE <<>>
<1> DEFINE p == <<x>>
<1>1. p \in Seq(PartRecords)
  OBVIOUS
<1>2. Makes(Tellings(K), PartRecords, Int)
  BY TellingsMake
<1>3. Spread(Tellings(K), p) = Tellings(K)[x]
  BY <1>2, SpreadOne
<1> HIDE DEF p
<1>4. Told(p, K) = Spread(Tellings(K), p)
  BY <1>1, ToldIs
<1>5. Told(p, K) = IF x.kind \in K THEN x.data ELSE <<>>
  BY <1>3, <1>4, TellingsAt
<1> QED
  BY <1>5 DEF p

LEMMA ToldEmpty == ASSUME NEW K PROVE Told(<<>>, K) = <<>>
<1>1. <<>> \in Seq(PartRecords) /\ Makes(Tellings(K), PartRecords, Int)
  BY TellingsMake
<1> QED
  BY <1>1, ToldIs, SpreadEmpty

(* Of what was kept, the kinds in common are told.                         *)
LEMMA ToldKept ==
  ASSUME NEW K, NEW L, NEW p \in Seq(PartRecords)
  PROVE  Told(Kept(p, L), K) = Told(p, K \cap L)
<1> DEFINE ss == [k \in 1..Len(p) |-> Keeps(L)[p[k]]]
<1>1. \A k \in 1..Len(p) : p[k] \in PartRecords
  OBVIOUS
<1>2. /\ Makes(Keeps(L), PartRecords, PartRecords) /\ Makes(Tellings(K), PartRecords, Int)
  BY TellingsMake
<1>3. ss \in Seq(Seq(PartRecords)) /\ Len(ss) = Len(p)
      /\ \A k \in 1..Len(p) : ss[k] = Keeps(L)[p[k]]
  <2>1. \A k \in 1..Len(p) : Keeps(L)[p[k]] \in Seq(PartRecords)
    BY <1>1, <1>2 DEF Makes
  <2> QED
    BY <2>1
<1>4. Kept(p, L) = FlattenSeq(ss)
  BY KeptIs DEF Spread
<1> HIDE DEF ss
<1>5. FlattenSeq(ss) \in Seq(PartRecords)
  BY <1>3, FlattenTyped
<1>6. Told(Kept(p, L), K) = Spread(Tellings(K), FlattenSeq(ss))
  BY <1>4, <1>5, ToldIs
<1>7. Spread(Tellings(K), FlattenSeq(ss))
         = FlattenSeq([k \in 1..Len(ss) |-> Spread(Tellings(K), ss[k])])
  BY <1>2, <1>3, SpreadFlat
<1>8. ASSUME NEW k \in 1..Len(p) PROVE Spread(Tellings(K), ss[k]) = Tellings(K \cap L)[p[k]]
  <2>1. Spread(Tellings(K), <<p[k]>>) = Tellings(K)[p[k]]
    BY <1>1, <1>2, SpreadOne
  <2>2. Spread(Tellings(K), <<>>) = <<>>
    BY <1>2, SpreadEmpty
  <2>3. ss[k] = IF p[k].kind \in L THEN <<p[k]>> ELSE <<>>
    BY <1>1, <1>3, TellingsAt
  <2>4. /\ Tellings(K)[p[k]] = IF p[k].kind \in K THEN p[k].data ELSE <<>>
        /\ Tellings(K \cap L)[p[k]] = IF p[k].kind \in K \cap L THEN p[k].data ELSE <<>>
    <3> DEFINE x == p[k]
               M == K \cap L
    <3>1. x \in PartRecords
      BY <1>1
    <3> HIDE DEF x, M
    <3>2. Tellings(K)[x] = IF x.kind \in K THEN x.data ELSE <<>>
      BY ONLY <3>1, TellingsAt
    <3>3. Tellings(M)[x] = IF x.kind \in M THEN x.data ELSE <<>>
      BY ONLY <3>1, TellingsAt
    <3> QED
      BY ONLY <3>2, <3>3 DEF x, M
  <2> QED
    BY <2>1, <2>2, <2>3, <2>4
<1>9. [k \in 1..Len(ss) |-> Spread(Tellings(K), ss[k])]
         = [k \in 1..Len(p) |-> Tellings(K \cap L)[p[k]]]
  BY <1>3, <1>8
<1> QED
  BY <1>6, <1>7, <1>9, ToldIs DEF Spread

(* What comes before the parts and after them says nothing.                *)
LEMMA EndsQuiet ==
  ASSUME NEW f \in Formats, NEW a, cut \in BOOLEAN, NEW K
  PROVE  /\ Opening(f) \in Seq(FormedLines(f)) /\ Opening(f) \in Orderly
         /\ Ending(f, a) \in Seq(FormedLines(f)) /\ Ending(f, a) \in Orderly
         /\ Said(Opening(f), TextType(f), K) = <<>>
         /\ Said(Ending(f, a), TextType(f), K) = <<>>
<1>1. /\ Reason(a) \in EventKinds /\ (IF cut THEN "length" ELSE "end") \in EventKinds
      /\ <<>> \in Seq(Int) /\ 0 \in Nat /\ "text" \in Kinds
  BY DEF Reason, EventKinds, Kinds
<1>2. FormedLines(f) \subseteq EV
  BY DEF FormedLines
<1>3. ASSUME NEW q \in Seq(FormedLines(f)), \A j \in 1..Len(q) : q[j].data = <<>>,
             \A j \in 1..Len(q) : q[j].type # "content_block_delta"
      PROVE  q \in Orderly /\ Said(q, TextType(f), K) = <<>>
  <2>1. q \in Seq(EV)
    BY <1>2
  <2>2. q \in Orderly
    BY <1>3, <2>1, OrderlyQuiet DEF CallTold
  <2>3. \A j \in 1..Len(q) : q[j].type \in TextType(f) /\ q[j].kind \in K => q[j].data = <<>>
    BY <1>3
  <2>4. Said(q, TextType(f), K) = <<>>
    BY <2>1, <2>3, SaidNothing
  <2> QED
    BY <2>2, <2>4
<1>4. ASSUME NEW q,
             \/ q = <<>>
             \/ \E x \in FormedLines(f) : /\ q = <<x>> /\ x.data = <<>>
                                          /\ x.type # "content_block_delta"
             \/ \E x, y \in FormedLines(f) :
                   /\ q = <<x, y>> /\ x.data = <<>> /\ y.data = <<>>
                   /\ x.type # "content_block_delta" /\ y.type # "content_block_delta"
             \/ \E x, y, z \in FormedLines(f) :
                   /\ q = <<x, y, z>> /\ x.data = <<>> /\ y.data = <<>> /\ z.data = <<>>
                   /\ x.type # "content_block_delta" /\ y.type # "content_block_delta"
                   /\ z.type # "content_block_delta"
      PROVE  /\ q \in Seq(FormedLines(f)) /\ q \in Orderly
             /\ Said(q, TextType(f), K) = <<>>
  <2>1. /\ q \in Seq(FormedLines(f)) /\ \A j \in 1..Len(q) : q[j].data = <<>>
        /\ \A j \in 1..Len(q) : q[j].type # "content_block_delta"
    <3>1. CASE q = <<>>
      BY <3>1
    <3>2. CASE \E x \in FormedLines(f) : /\ q = <<x>> /\ x.data = <<>>
                                         /\ x.type # "content_block_delta"
      BY <3>2
    <3>3. CASE \E x, y \in FormedLines(f) :
                   /\ q = <<x, y>> /\ x.data = <<>> /\ y.data = <<>>
                   /\ x.type # "content_block_delta" /\ y.type # "content_block_delta"
      BY <3>3
    <3>4. CASE \E x, y, z \in FormedLines(f) :
                   /\ q = <<x, y, z>> /\ x.data = <<>> /\ y.data = <<>> /\ z.data = <<>>
                   /\ x.type # "content_block_delta" /\ y.type # "content_block_delta"
                   /\ z.type # "content_block_delta"
      BY <3>4
    <3> QED
      BY <1>4, <3>1, <3>2, <3>3, <3>4
  <2> QED
    BY <1>3, <2>1
<1>5. CASE f = "claude"
  <2> DEFINE x == MessageStart
             y == MessageDelta(Reason(a))
             z == MessageStop
  <2>1. /\ x \in FormedLines("claude") /\ x.data = <<>> /\ x.type = "message_start"
        /\ y \in FormedLines("claude") /\ y.data = <<>> /\ y.type = "message_delta"
        /\ z \in FormedLines("claude") /\ z.data = <<>> /\ z.type = "message_stop"
    BY <1>1, MadeFormed DEF MessageStart, MessageDelta, MessageStop, E
  <2>2. Opening(f) = <<x>> /\ Ending(f, a) = <<y, z>>
    BY <1>5 DEF Opening, Ending
  <2> HIDE DEF x, y, z
  <2> QED
    BY <1>4, <1>5, <2>1, <2>2
<1>6. CASE f = "openai"
  <2> DEFINE x == Chunk(0, "text", <<>>)
             y == Finish(Reason(a))
             z == E("usage", 0, "none", <<>>)
             w == Done
  <2>1. /\ x \in FormedLines("openai") /\ x.data = <<>> /\ x.type = "chunk"
        /\ y \in FormedLines("openai") /\ y.data = <<>> /\ y.type = "finish"
        /\ z \in FormedLines("openai") /\ z.data = <<>> /\ z.type = "usage"
        /\ w \in FormedLines("openai") /\ w.data = <<>> /\ w.type = "[DONE]"
    BY <1>1, MadeFormed DEF Chunk, Finish, Done, E
  <2>2. Opening(f) = <<x>> /\ Ending(f, a) = <<y, z, w>>
    BY <1>6 DEF Opening, Ending
  <2> HIDE DEF x, y, z, w
  <2> QED
    BY <1>4, <1>6, <2>1, <2>2
<1>7. CASE f = "codex"
  <2> DEFINE x == Created
             y == ResponseDone
  <2>1. /\ x \in FormedLines("codex") /\ x.data = <<>> /\ x.type = "response.created"
        /\ y \in FormedLines("codex") /\ y.data = <<>> /\ y.type = "response.done"
    BY <1>1, MadeFormed DEF Created, ResponseDone, E
  <2>2. Opening(f) = <<x>> /\ Ending(f, a) = <<y>>
    BY <1>7 DEF Opening, Ending
  <2> HIDE DEF x, y
  <2> QED
    BY <1>4, <1>7, <2>1, <2>2
<1>8. CASE f = "gemini"
  <2> DEFINE y == Finished(IF cut THEN "length" ELSE "end")
  <2>1. y \in FormedLines("gemini") /\ y.data = <<>> /\ y.type = "finished"
    BY <1>1, MadeFormed DEF Finished, E
  <2>2. Opening(f) = <<>> /\ Ending(f, a) = <<y>>
    BY <1>8 DEF Opening, Ending
  <2> HIDE DEF y
  <2> QED
    BY <1>4, <1>8, <2>1, <2>2
<1> QED
  BY <1>5, <1>6, <1>7, <1>8 DEF Formats

LEMMA PartsSay ==
  ASSUME NEW f \in Formats, NEW n \in Nat, NEW a \in [1..n -> Kinds], Possible(f, a), NEW K
  PROVE  /\ PartsLines(f, a) \in Seq(FormedLines(f)) /\ PartsLines(f, a) \in Orderly
         /\ Said(PartsLines(f, a), TextType(f), K) = Told(PartsOf(f, a), K)
<1> DEFINE ss == [k \in 1..n |-> PartLines(f, a, k)]
           P == PartsOf(f, a)
<1>1. PartsLines(f, a) = FlattenSeq(ss)
  BY DEF PartsLines
<1>2. ASSUME NEW k \in 1..n
      PROVE  /\ PartLines(f, a, k) \in Seq(FormedLines(f)) /\ PartLines(f, a, k) \in Orderly
             /\ Said(PartLines(f, a, k), TextType(f), K) = IF P[k].kind \in K THEN P[k].data ELSE <<>>
  <2>1. f = "codex" => a[k] # "thought"
    BY DEF Possible
  <2> HIDE DEF P
  <2> DEFINE q == PartLines(f, a, k)
             p == P[k]
  <2>2. p = PartsOf(f, a)[k]
    BY DEF P
  <2>3. q = PartLines(f, a, k)
    OBVIOUS
  <2> HIDE DEF q, p
  <2>4. /\ q \in Seq(FormedLines(f)) /\ q \in Orderly
        /\ Said(q, TextType(f), K) = IF p.kind \in K THEN p.data ELSE <<>>
    BY <2>1, <2>2, <2>3, PartLinesSay
  <2> QED
    BY <2>4 DEF q, p
<1>3. FormedLines(f) \subseteq EV
  BY DEF FormedLines
<1>4. /\ ss \in Seq(Seq(FormedLines(f))) /\ ss \in Seq(Orderly) /\ ss \in Seq(Seq(EV))
      /\ Len(ss) = n /\ \A k \in 1..n : ss[k] = PartLines(f, a, k)
  <2>1. Orderly \subseteq Seq(EV)
    BY DEF Orderly
  <2>2. \A k \in 1..n : PartLines(f, a, k) \in Seq(FormedLines(f))
    BY <1>2
  <2>3. \A k \in 1..n : PartLines(f, a, k) \in Orderly
    BY <1>2
  <2>4. \A k \in 1..n : PartLines(f, a, k) \in Seq(EV)
    BY <2>1, <2>3
  <2>5. ss \in [1..n -> Seq(FormedLines(f))] /\ ss \in [1..n -> Orderly] /\ ss \in [1..n -> Seq(EV)]
    BY <2>2, <2>3, <2>4
  <2>6. \A k \in 1..n : ss[k] = PartLines(f, a, k)
    OBVIOUS
  <2> HIDE DEF ss
  <2> QED
    BY <2>5, <2>6
<1>5. P \in Seq(PartRecords) /\ Len(P) = n
  <2>1. CASE n = 0
    <3>1. DOMAIN a = {}
      BY <2>1
    <3>2. P = <<>>
      BY <2>1, <3>1 DEF PartsOf
    <3> QED
      BY <2>1, <3>2
  <2>2. CASE n # 0
    <3>1. 1 \in 1..n
      BY <2>2
    <3> QED
      BY <3>1, PartIs
  <2> QED
    BY <2>1, <2>2
<1> HIDE DEF ss, P
<1>6. FlattenSeq(ss) \in Seq(FormedLines(f))
  BY <1>4, FlattenTyped
<1>7. FlattenSeq(ss) \in Orderly
  <2>1. <<>> \in Orderly
    BY DEF Orderly, CallsStarted
  <2>2. \A p, q \in Orderly : p \o q \in Orderly
    BY OrderlyConcat
  <2> QED
    BY <1>4, <2>1, <2>2, FlattenClosed
<1>8. Said(FlattenSeq(ss), TextType(f), K)
         = FlattenSeq([k \in 1..Len(ss) |-> Said(ss[k], TextType(f), K)])
  BY <1>4, SaidFlat
<1>9. ASSUME NEW k \in 1..n PROVE Said(ss[k], TextType(f), K) = Tellings(K)[P[k]]
  <2>1. P[k] \in PartRecords
    BY <1>5
  <2>2. Tellings(K)[P[k]] = IF P[k].kind \in K THEN P[k].data ELSE <<>>
    BY <2>1, TellingsAt, ZenonT(60)
  <2>3. Said(PartLines(f, a, k), TextType(f), K) = IF P[k].kind \in K THEN P[k].data ELSE <<>>
    BY <1>2
  <2>4. ss[k] = PartLines(f, a, k)
    BY <1>4
  <2> QED
    BY ONLY <2>2, <2>3, <2>4
<1>10. [k \in 1..Len(ss) |-> Said(ss[k], TextType(f), K)]
          = [k \in 1..Len(P) |-> Tellings(K)[P[k]]]
  BY <1>4, <1>5, <1>9
<1>11. Told(P, K) = Spread(Tellings(K), P)
  BY <1>5, ToldIs
<1> QED
  BY <1>1, <1>6, <1>7, <1>8, <1>10, <1>11 DEF Spread, P

LEMMA LinesSay ==
  ASSUME NEW f \in Formats, NEW a \in Answers, Possible(f, a), cut \in BOOLEAN, NEW K
  PROVE  /\ Lines(f, a) \in Seq(FormedLines(f)) /\ Lines(f, a) \in Orderly
         /\ Said(Lines(f, a), TextType(f), K) = Told(PartsOf(f, a), K)
         /\ PartsOf(f, a) \in Seq(PartRecords)
<1>1. PICK n \in Nat : a \in [1..n -> Kinds]
  BY BoundAssumption DEF Answers
<1> DEFINE x == Opening(f)
           p == PartsLines(f, a)
           z == Ending(f, a)
           T == TextType(f)
<1>2. /\ p \in Seq(FormedLines(f)) /\ p \in Orderly
      /\ Said(p, T, K) = Told(PartsOf(f, a), K)
  BY <1>1, PartsSay
<1>3. /\ x \in Seq(FormedLines(f)) /\ z \in Seq(FormedLines(f)) /\ x \in Orderly /\ z \in Orderly
      /\ Said(x, T, K) = <<>> /\ Said(z, T, K) = <<>>
  BY EndsQuiet
<1>4. Lines(f, a) = (x \o p) \o z
  BY LinesAre
<1> HIDE DEF x, p, z, T
<1>5. (x \o p) \o z \in Seq(FormedLines(f))
  BY ONLY <1>2, <1>3
<1>6. x \o p \in Orderly
  BY <1>2, <1>3, OrderlyConcat
<1>7. (x \o p) \o z \in Orderly
  BY <1>3, <1>6, OrderlyConcat
<1> DEFINE y == x \o p
<1>8. y \in Seq(EV) /\ x \in Seq(EV) /\ p \in Seq(EV) /\ z \in Seq(EV)
  BY <1>2, <1>3, <1>6 DEF Orderly
<1>9. Said(y, T, K) = Said(x, T, K) \o Said(p, T, K)
  BY <1>8, SaidConcat
<1> HIDE DEF y
<1>10. Said(y \o z, T, K) = Said(y, T, K) \o Said(z, T, K)
  BY <1>8, SaidConcat
<1> DEFINE d == Told(PartsOf(f, a), K)
<1>11. PartsOf(f, a) \in Seq(PartRecords)
  <2>1. CASE n = 0
    <3>1. DOMAIN a = {}
      BY <1>1, <2>1
    <3>2. PartsOf(f, a) = <<>>
      BY <1>1, <2>1, <3>1 DEF PartsOf
    <3> QED
      BY <3>2
  <2>2. CASE n # 0
    <3>1. 1 \in 1..n
      BY <2>2
    <3> QED
      BY <1>1, <3>1, PartIs
  <2> QED
    BY <2>1, <2>2
<1>12. d \in Seq(Int)
  BY <1>11, ToldIs
<1> HIDE DEF d
<1>13. (<<>> \o d) \o <<>> = d
  BY ONLY <1>12
<1>14. Said(y \o z, T, K) = d
  BY <1>2, <1>3, <1>9, <1>10, <1>13 DEF d
<1> QED
  BY <1>4, <1>5, <1>7, <1>11, <1>14 DEF y, d, T

-------------------------------------------------------------------------------
(* Nothing is lost on the way: the invariant of what was told.             *)
(* What is told in all: what the whole answer's lines have to say.         *)
InAll(kind) == ToCome(from, to, kind, 0, Lines(from, answer))

(* The call whose arguments come next has been started.                    *)
CallKnown == \A k \in 1..Len(rest) : CallTold(rest[k]) =>
    IF k = 1 THEN s.current \in DOMAIN s.calls ELSE CallStart(rest[k - 1])

Shapes ==
    /\ rest \in Seq(FormedLines(from))
    /\ from = "claude" /\ to = "openai" => CallKnown
    /\ out \in Seq(EV) /\ Possible(from, answer)
    /\ ~stream /\ outcome = Success
          => body = TransformResponse(from, to, WholeMessage(from, answer))

InStep == upstream \in {"connecting", "sending"} /\ outcome \in {Pending, Success}

(* What was told and what is still to come is all there is; once something *)
(* was lost, what was told is the beginning of it.                         *)
Telling(kind) ==
    IF InStep THEN ReadOf(kind) \o ToCome(from, to, kind, s.mode, rest) = InAll(kind)
    ELSE \E w \in Seq(Int) : ReadOf(kind) \o w = InAll(kind)

TellInv == Shapes /\ \A kind \in Kinds : Telling(kind)

LEMMA ToComeTyped ==
  ASSUME NEW f, NEW g, NEW kind, NEW m \in 0..2, NEW r \in Seq(EV)
  PROVE  ToCome(f, g, kind, m, r) \in Seq(Int)
<1>1. Tokens(r) \in Seq(Int) /\ Said(r, TextType(f), Heard(f, g, kind)) \in Seq(Int)
  BY SaidTyped DEF Tokens
<1>2. ReadIn(kind, m, Tokens(r)) \in Seq(Int)
  BY <1>1, ReadsTyped DEF ReadIn
<1> QED
  BY <1>1, <1>2 DEF ToCome

LEMMA TellsAtFirst == CInv /\ Init => TellInv
<1>1. SUFFICES ASSUME CInv, Init PROVE TellInv
  OBVIOUS
<1>2. /\ pair \in Pairs /\ answer \in Answers /\ Possible(from, answer) /\ cut \in BOOLEAN
      /\ rest = Lines(from, answer) /\ out = <<>> /\ s = NewTransformState
      /\ outcome = Pending /\ upstream = "connecting"
  BY <1>1 DEF Init, CInv, CTypes, from
<1>3. from \in Formats /\ to \in Formats
  BY <1>2, PairFormats
<1>4. rest \in Seq(FormedLines(from)) /\ rest \in Orderly
  BY <1>2, <1>3, LinesSay
<1>5. CallKnown
  BY <1>4 DEF Orderly, CallsStarted, CallKnown
<1>6. Pending # Success
  BY DEF Pending, Success
<1>7. Shapes
  BY <1>2, <1>4, <1>5, <1>6 DEF Shapes
<1>8. ASSUME NEW kind \in Kinds PROVE Telling(kind)
  <2>1. ReadOf(kind) = <<>>
    BY <1>2, SaidEmpty DEF ReadOf
  <2>2. s.mode = 0
    BY <1>2 DEF NewTransformState
  <2> DEFINE c == ToCome(from, to, kind, 0, rest)
  <2>3. c \in Seq(Int)
    <3>1. rest \in Seq(EV) /\ 0 \in 0..2
      BY <1>4 DEF Orderly
    <3> QED
      BY <3>1, ToComeTyped
  <2>4. c = InAll(kind) /\ ToCome(from, to, kind, s.mode, rest) = c
    BY <1>2, <2>2 DEF InAll
  <2> HIDE DEF c
  <2>5. <<>> \o c = c
    BY ONLY <2>3
  <2> QED
    BY <1>2, <2>1, <2>4, <2>5 DEF Telling, InStep
<1> QED
  BY <1>7, <1>8 DEF TellInv

LEMMA BatchFormed ==
  ASSUME Proper(rest), NEW f, rest \in Seq(FormedLines(f)), NEW n \in Batches
  PROVE  /\ Formed(f, Batch(n))
         /\ CallTold(Batch(n)) \/ CallStart(Batch(n)) => n = 1 /\ Batch(n) = rest[1]
<1>1. n \in 1..Len(rest) /\ 1 \in 1..Len(rest) /\ Formed(f, rest[1])
  <2>1. Len(rest) \in Nat
    OBVIOUS
  <2>2. n \in 1..Len(rest)
    BY BatchFacts
  <2>3. 1 \in 1..Len(rest)
    BY <2>1, <2>2
  <2> QED
    BY <2>2, <2>3 DEF FormedLines
<1>2. CASE n = 1 /\ Batch(n) = rest[1]
  BY <1>1, <1>2
<1>3. CASE n > 1 /\ Batch(n).type = "chunk" /\ \A j \in 1..n : rest[j].type = "chunk"
  <2>1. Batch(n) \in EV
    BY BatchFacts DEF EV
  <2>2. Batch(n).kind = "text"
    BY <1>3 DEF Batch, Chunk, E
  <2>3. "chunk" \in LineTypes(f) \cup {"error"}
    <3>1. 1 \in 1..n
      BY <1>1, <1>3
    <3>2. rest[1].type = "chunk"
      BY <1>3, <3>1
    <3> QED
      BY <1>1, <3>2 DEF Formed
  <2>4. Formed(f, Batch(n))
    BY <1>3, <2>1, <2>2, <2>3 DEF Formed, Kinds
  <2> QED
    BY <1>3, <2>4 DEF CallTold, CallStart
<1> QED
  BY <1>2, <1>3, BatchFacts

LEMMA NothingAdded ==
  ASSUME NEW T, NEW p \in Seq(T), NEW q \in Seq(T), p = p \o q
  PROVE  q = <<>>
<1> DEFINE r == p \o q
<1>1. Len(r) = Len(p) + Len(q)
  OBVIOUS
<1> HIDE DEF r
<1>2. p = r
  BY DEF r
<1>3. Len(p) \in Nat /\ Len(q) \in Nat
  OBVIOUS
<1>4. Len(q) = 0
  BY <1>1, <1>2, <1>3
<1> QED
  BY <1>4

LEMMA TakenOn ==
  ASSUME NEW g, NEW kind, NEW p \in Seq(EV), NEW t \in States(Types), NEW r, r = p \o t.out
  PROVE  /\ r \in Seq(EV) /\ Talk(g, kind, t) \in Seq(Int) /\ Says(g, kind, p) \in Seq(Int)
         /\ Says(g, kind, r) = Says(g, kind, p) \o Talk(g, kind, t)
<1> DEFINE q == t.out
<1>1. q \in Seq(EV)
  BY DEF States, EV
<1>2. Talk(g, kind, t) = Says(g, kind, q)
  BY DEF Talk
<1> HIDE DEF q
<1>3. r = p \o q
  BY DEF q
<1>4. p \o q \in Seq(EV)
  BY ONLY <1>1, p \in Seq(EV)
<1>5. Says(g, kind, r) = Says(g, kind, p) \o Says(g, kind, q)
  BY ONLY <1>1, <1>3, p \in Seq(EV), SaidConcat DEF Says
<1>6. Says(g, kind, p) \in Seq(Int) /\ Says(g, kind, q) \in Seq(Int)
  BY <1>1, SaysTyped
<1> QED
  BY <1>2, <1>3, <1>4, <1>5, <1>6

LEMMA ErrorSaysNothing ==
  ASSUME NEW f \in Formats, NEW g, NEW kind, NEW m, NEW e, e.type = "error"
  PROVE  Brings(f, g, kind, m, e) = <<>>
<1>1. "error" \notin TextType(f)
  BY DEF TextType, Formats
<1> QED
  BY <1>1 DEF Brings, Given

(* Reading a line tells what it brings, and leaves the rest to come.       *)
LEMMA ReadLineTells ==
  ASSUME CInv, TellInv, pair \notin Swapped, ReadLine
  PROVE  TellInv'
<1>1. CTypes /\ Erring /\ Shapes /\ \A kind \in Kinds : Telling(kind)
  BY DEF CInv, TellInv
<1>2. PICK n \in Batches, t \in States(Types) :
            /\ t = TransformStreamChunk(from, to, s, Batch(n))
            /\ rest' = SubSeq(rest, n + 1, Len(rest))
            /\ s' = [t EXCEPT !.out = <<>>]
            /\ \/ out' = out \o t.out /\ outcome' = outcome
               \/ out' = out /\ client # "here" /\ outcome' = ClientDisconnected
  BY <1>1, ReadFacts
<1>3. /\ stream /\ upstream # "connecting" /\ outcome = Pending /\ rest # <<>>
      /\ UNCHANGED <<pair, answer, cut, stream, upstream, body, client>>
  BY DEF ReadLine
<1>4. from' = from /\ to' = to /\ from = pair[1] /\ to = pair[2] /\ <<from, to>> \notin Swapped
  <2>1. from' = from /\ to' = to /\ from = pair[1] /\ to = pair[2]
    BY <1>3 DEF from, to
  <2>2. pair = <<pair[1], pair[2]>>
    BY <1>1, PairsAssumption DEF CTypes
  <2> QED
    BY <2>1, <2>2
<1>5. from \in Formats /\ to \in Formats /\ s \in States(Types) /\ s.out = <<>>
      /\ Proper(rest) /\ Len(rest) \in Nat /\ s.mode \in 0..2
  BY <1>1, PairFormats DEF CTypes, Proper, States
<1> DEFINE e == Batch(n)
           q == SubSeq(rest, n + 1, Len(rest))
<1>6. /\ n \in 1..Len(rest) /\ q \in Seq(EV) /\ Len(q) = Len(rest) - n
      /\ \A j \in 1..Len(rest) - n : q[j] = rest[n + j]
  BY <1>5, BatchFacts DEF EV
<1>7. Formed(from, e) /\ (CallTold(e) \/ CallStart(e) => n = 1 /\ e = rest[1])
  <2>1. rest \in Seq(FormedLines(from))
    BY <1>1 DEF Shapes
  <2> QED
    BY <1>5, <2>1, BatchFormed
<1>8. e.type = "error" \/ upstream = "sending"
  <2>1. CASE upstream = "failed"
    <3>1. PICK b \in BOOLEAN : rest = <<ErrorEvent(b)>>
      BY <1>1, <1>3, <2>1 DEF Erring
    <3>2. Len(rest) = 1 /\ rest[1].type = "error"
      BY <3>1, ErrorEventTyped
    <3>3. n = 1
      BY <1>6, <3>2
    <3> QED
      BY <3>2, <3>3 DEF Batch
  <2> QED
    BY <1>1, <1>3, <2>1 DEF CTypes, Erring
<1> HIDE DEF e, q
<1>9. rest' = q /\ t = TransformStreamChunk(from, to, s, e)
  BY <1>2 DEF e, q
<1>10. ClientDisconnected \notin {Pending, Success}
  BY DEF Pending, Success, ClientDisconnected, Final
<1>11. from = "claude" /\ to = "openai" => CallKnown
  BY <1>1 DEF Shapes
<1>12. from = "claude" /\ to = "openai" /\ e.type = "content_block_delta" /\ e.kind = "call"
           => s.current \in DOMAIN s.calls
  <2>1. SUFFICES ASSUME from = "claude" /\ to = "openai", CallTold(e)
                 PROVE  s.current \in DOMAIN s.calls
    BY DEF CallTold
  <2>2. e = rest[1] /\ 1 \in 1..Len(rest)
    BY <1>5, <1>6, <1>7, <2>1
  <2> QED
    BY <1>11, <2>1, <2>2 DEF CallKnown
<1>13. ASSUME NEW kind \in Kinds
       PROVE  Talk(to, kind, t) = Brings(from, to, kind, s.mode, e)
  BY <1>4, <1>5, <1>7, <1>9, <1>12, TransformSays
<1>14. s'.mode = t.mode /\ s'.mode \in 0..2 /\ s'.current = t.current /\ s'.calls = t.calls
  BY <1>2 DEF States
<1>15. out \in Seq(EV) /\ out' \in Seq(EV)
  <2>1. out \in Seq(EV)
    BY <1>1 DEF Shapes
  <2> DEFINE r == out \o t.out
  <2>2. r \in Seq(EV)
    <3>1. "text" \in Kinds
      BY DEF Kinds
    <3> QED
      BY <2>1, TakenOn
  <2> QED
    BY <1>2, <2>1, <2>2
<1>16. rest' \in Seq(FormedLines(from))
  <2>1. rest \in Seq(FormedLines(from))
    BY <1>1 DEF Shapes
  <2>2. \A j \in 1..Len(q) : q[j] \in FormedLines(from)
    <3>1. ASSUME NEW j \in 1..Len(q) PROVE q[j] \in FormedLines(from)
      <4>1. j \in 1..Len(rest) - n /\ n + j \in 1..Len(rest)
        BY <1>5, <1>6
      <4> QED
        BY <1>6, <2>1, <4>1
    <3> QED
      BY <3>1
  <2> QED
    BY <1>6, <1>9, <2>2
<1>17. from = "claude" /\ to = "openai" => CallKnown'
  <2>1. SUFFICES ASSUME from = "claude" /\ to = "openai",
                        NEW j \in 1..Len(q), CallTold(q[j])
                 PROVE  IF j = 1 THEN s'.current \in DOMAIN s'.calls ELSE CallStart(q[j - 1])
    <3>1. CallKnown' <=> \A j \in 1..Len(q) : CallTold(q[j]) =>
                            IF j = 1 THEN s'.current \in DOMAIN s'.calls ELSE CallStart(q[j - 1])
      BY <1>9 DEF CallKnown
    <3> QED
      BY <3>1
  <2>2. j \in 1..Len(rest) - n /\ n + j \in 1..Len(rest) /\ q[j] = rest[n + j] /\ n + j # 1
    BY <1>5, <1>6
  <2>3. CallStart(rest[n + j - 1])
    <3> DEFINE i == n + j
    <3>1. i \in 1..Len(rest) /\ i # 1 /\ CallTold(rest[i])
      BY <2>1, <2>2
    <3> HIDE DEF i
    <3>2. CallStart(rest[i - 1])
      BY <1>11, <2>1, <3>1 DEF CallKnown
    <3>3. i - 1 = n + j - 1
      BY <1>6 DEF i
    <3> QED
      BY <3>2, <3>3 DEF CallStart
  <2>4. CASE j # 1
    <3>1. j - 1 \in 1..Len(rest) - n /\ n + (j - 1) = n + j - 1
      BY <1>5, <1>6, <2>2, <2>4
    <3>2. q[j - 1] = rest[n + j - 1]
      BY <1>6, <3>1
    <3> QED
      BY <2>3, <2>4, <3>2
  <2>5. CASE j = 1
    <3>1. n + j - 1 = n
      BY <1>6, <2>5
    <3>2. CallStart(rest[n])
      BY <2>3, <3>1
    <3>3. n = 1
      <4>1. SUFFICES ASSUME n # 1 PROVE FALSE
        OBVIOUS
      <4>2. n \in 1..n
        BY <1>6
      <4>3. rest[n].type = "chunk"
        BY <1>5, <4>1, <4>2, BatchFacts
      <4> QED
        BY <3>2, <4>3 DEF CallStart
    <3>4. e = rest[1] /\ CallStart(e)
      BY <3>2, <3>3 DEF e, Batch
    <3>5. e.type = "content_block_start" /\ e.kind = "call" /\ e.i \in Nat
      BY <1>7, <3>4 DEF CallStart, Formed, EV, Events
    <3>6. t = [s EXCEPT !.current = e.i, !.calls = With(s.calls, e.i, e.i)]
      BY <1>9, <2>1, <3>5 DEF TransformStreamChunk, ClaudeToOpenAI
    <3>7. t.current = e.i /\ t.calls = With(s.calls, e.i, e.i)
      BY <1>5, <3>6 DEF States
    <3>8. e.i \in DOMAIN With(s.calls, e.i, e.i)
      BY DEF With
    <3> QED
      BY <1>14, <2>5, <3>7, <3>8
  <2> QED
    BY <2>4, <2>5
<1>18. Shapes'
  <2>1. Possible(from, answer)' /\ Possible(from, answer)
    BY <1>1, <1>3, <1>4 DEF Shapes, Possible, OnceThought, InOrder
  <2>2. stream'
    BY <1>3
  <2> QED
    BY <1>4, <1>15, <1>16, <1>17, <2>1, <2>2 DEF Shapes
<1>19. ASSUME NEW kind \in Kinds PROVE Telling(kind)'
  <2> DEFINE R == ReadOf(kind)
             B == Brings(from, to, kind, s.mode, e)
             k == After1(from, to, s.mode, e)
             C == ToCome(from, to, kind, k, q)
             A == InAll(kind)
             X == ReadOf(kind)'
             D == ToCome(from, to, kind, s.mode, rest)
  <2>1. B \in Seq(Int) /\ C \in Seq(Int) /\ D = B \o C
    <3> DEFINE m == s.mode
               b == Batch(n)
    <3>1. /\ Proper(rest) /\ n \in Batches /\ kind \in Kinds /\ m \in 0..2
          /\ q = SubSeq(rest, n + 1, Len(rest)) /\ k = After1(from, to, m, Batch(n))
      BY <1>5, <1>19 DEF e, q
    <3> HIDE DEF k, m
    <3>2. /\ Joins(ToCome(from, to, kind, m, rest), Brings(from, to, kind, m, Batch(n)),
                   ToCome(from, to, kind, After1(from, to, m, Batch(n)), q))
          /\ Brings(from, to, kind, m, Batch(n)) \in Seq(Int)
          /\ ToCome(from, to, kind, After1(from, to, m, Batch(n)), q) \in Seq(Int)
      BY ONLY <3>1, ToComeStep
    <3> QED
      BY <3>1, <3>2 DEF e, m, Joins
  <2>2. R \in Seq(Int) /\ X = (IF out' = out THEN R ELSE R \o B) /\ (out' # out => out' = out \o t.out)
    <3>1. R = Says(to, kind, out) /\ X = Says(to, kind, out')
      BY <1>4 DEF ReadOf, Says
    <3>2. R \in Seq(Int)
      BY <1>15, <3>1, SaysTyped
    <3>3. CASE out' = out
      BY <3>1, <3>2, <3>3
    <3>4. CASE out' # out
      <4>1. out' = out \o t.out
        BY <1>2, <3>4
      <4> DEFINE o == out'
      <4>2. o = out \o t.out
        BY <4>1
      <4> HIDE DEF o
      <4>3. Says(to, kind, o) = Says(to, kind, out) \o Talk(to, kind, t)
        <5>1. out \in Seq(EV)
          BY <1>15
        <5> HIDE DEF to
        <5> QED
          BY ONLY <4>2, <5>1, t \in States(Types), TakenOn
      <4>4. Says(to, kind, o) = R \o B
        BY <1>13, <3>1, <4>3
      <4> QED
        BY <3>1, <3>2, <3>4, <4>1, <4>4 DEF o
    <3> QED
      BY <3>3, <3>4
  <2>3. ToCome(from, to, kind, s'.mode, q) = C
    <3>1. CASE from = "openai" /\ to = "claude"
      <4>1. t.mode = IF e.type = "chunk" /\ e.kind = "text" THEN ModeAfter(s.mode, e.data) ELSE s.mode
        BY <1>4, <1>5, <1>7, <1>9, <1>12, <1>19, <3>1, TransformSays
      <4>2. s'.mode = k
        BY <1>14, <3>1, <4>1 DEF After1
      <4> QED
        BY <4>2
    <3>2. CASE ~(from = "openai" /\ to = "claude")
      BY <3>2 DEF ToCome, Untagged
    <3> QED
      BY <3>1, <3>2
  <2>4. ToCome(from, to, kind, s.mode, rest)' = C
    BY <1>4, <1>9, <2>3
  <2>5. InAll(kind)' = A
    <3>1. Lines(from, answer)' = Lines(from, answer)
      BY <1>3, <1>4 DEF Lines, PartLines, Tagged, Reason
    <3> QED
      BY <1>4, <3>1 DEF InAll
  <2>6. Telling(kind)' <=> IF InStep' THEN X \o C = A
                           ELSE \E w \in Seq(Int) : X \o w = A
    BY <2>4, <2>5 DEF Telling
  <2>7. InStep' <=> upstream \in {"connecting", "sending"} /\ outcome' \in {Pending, Success}
    BY <1>3 DEF InStep, Pending, Success
  <2>8. IF InStep THEN R \o D = A ELSE \E w \in Seq(Int) : R \o w = A
    BY <1>1, <1>19 DEF Telling
  <2>9. InStep <=> upstream \in {"connecting", "sending"}
    BY <1>3 DEF InStep
  <2>10. upstream \notin {"connecting", "sending"} => B = <<>>
    BY <1>3, <1>5, <1>8, ErrorSaysNothing
  <2> HIDE DEF R, B, C, A, X, D
  <2>11. B = <<>> => R \o B = R
    BY <2>2
  <2>12. (R \o B) \o C = R \o D
    BY <2>1, <2>2, Regrouped
  <2>13. D \in Seq(Int)
    BY ONLY <2>1
  <2>14. CASE InStep'
    <3>1. outcome' # ClientDisconnected
      BY <1>10, <2>7, <2>14
    <3>2. X = R \o B
      <4>1. out' = out \o t.out
        BY <1>2, <3>1
      <4>2. CASE out' = out
        <5>1. Talk(to, kind, t) = <<>>
          <6>1. t.out = <<>>
            <7> DEFINE o == t.out
            <7>1. out \in Seq(EV) /\ o \in Seq(EV) /\ out = out \o o
              BY <1>15, <4>1, <4>2 DEF States, EV
            <7> HIDE DEF o
            <7>2. o = <<>>
              BY ONLY <7>1, NothingAdded
            <7> QED
              BY <7>2 DEF o
          <6> QED
            BY <6>1, TalkSilent
        <5>2. B = <<>>
          BY <1>13, <1>19, <5>1 DEF B
        <5> QED
          BY <2>2, <2>11, <4>2, <5>2
      <4> QED
        BY <2>2, <4>2
    <3> QED
      BY <2>6, <2>7, <2>8, <2>9, <2>12, <2>14, <3>2
  <2>15. CASE ~InStep'
    <3>1. CASE InStep /\ X = R
      BY <2>6, <2>8, <2>13, <2>15, <3>1
    <3>2. CASE InStep /\ X = R \o B
      BY <2>1, <2>6, <2>8, <2>12, <2>15, <3>2
    <3>3. CASE ~InStep
      <4>1. X = R
        BY <2>2, <2>9, <2>10, <2>11, <3>3
      <4> QED
        BY <2>6, <2>8, <2>15, <3>3, <4>1
    <3> QED
      BY <2>2, <3>1, <3>2, <3>3
  <2> QED
    BY <2>14, <2>15
<1> QED
  BY <1>18, <1>19 DEF TellInv

(* The other steps write nothing, and only lose what was still to come.    *)
LEMMA OthersTell ==
  ASSUME CInv, TellInv,
         \/ RequestFails \/ ConnectFails \/ Refuses \/ Responds \/ RelayWhole
         \/ StreamEnds \/ Cancelled \/ UpstreamErrs \/ UpstreamBreaks
         \/ ClientLeaves \/ ClientNoticed \/ UNCHANGED vars
  PROVE  TellInv'
<1>1. UNCHANGED <<pair, answer, cut, stream, s, out>>
  BY ZenonT(60) DEF RequestFails, ConnectFails, Refuses, Responds, RelayWhole, StreamEnds, Cancelled,
         UpstreamErrs, UpstreamBreaks, ClientLeaves, ClientNoticed, vars
<1>2. CTypes /\ Erring /\ Shapes /\ \A kind \in Kinds : Telling(kind)
  BY DEF CInv, TellInv
<1>3. from' = from /\ to' = to
  BY <1>1 DEF from, to
<1>4. from \in Formats /\ to \in Formats /\ s.mode \in 0..2 /\ rest \in Seq(EV) /\ out \in Seq(EV)
  BY <1>2, PairFormats DEF CTypes, States, Proper, EV, Shapes
<1>5. /\ Pending # Success
      /\ \A c : /\ Retryable(c) \notin {Pending, Success}
                /\ Final(c) \notin {Pending, Success}
  BY DEF Pending, Success, Final, Retryable
<1>6. \/ /\ rest' = rest
         /\ \/ UNCHANGED <<upstream, outcome>>
            \/ upstream = "connecting" /\ upstream' = "sending" /\ outcome' = outcome
            \/ upstream' = upstream /\ outcome = Pending
      \/ /\ \/ rest' = <<>>
            \/ \E b \in BOOLEAN : rest' = <<ErrorEvent(b)>>
         /\ upstream' \notin {"connecting", "sending"}
         /\ outcome' = outcome
  <2>1. CASE UpstreamErrs
    BY <2>1 DEF UpstreamErrs
  <2>2. CASE UpstreamBreaks
    BY <2>2 DEF UpstreamBreaks
  <2>3. CASE Responds \/ ClientLeaves \/ ClientNoticed \/ UNCHANGED vars
    BY <2>3 DEF Responds, ClientLeaves, ClientNoticed, vars
  <2>4. CASE RequestFails \/ ConnectFails \/ Refuses \/ RelayWhole \/ StreamEnds \/ Cancelled
    <3>1. rest' = rest /\ upstream' = upstream /\ outcome = Pending
      BY <2>4 DEF RequestFails, ConnectFails, Refuses, RelayWhole, StreamEnds, Cancelled
    <3> QED
      BY <3>1
  <2> QED
    BY <2>1, <2>2, <2>3, <2>4
<1>7. Shapes'
  <2>1. rest' \in Seq(FormedLines(from))
    <3>1. CASE rest' = rest
      BY <1>2, <3>1 DEF Shapes
    <3>2. CASE rest' = <<>>
      BY <3>2
    <3>3. CASE \E b \in BOOLEAN : rest' = <<ErrorEvent(b)>>
      <4>1. PICK b \in BOOLEAN : rest' = <<ErrorEvent(b)>>
        BY <3>3
      <4> DEFINE x == ErrorEvent(b)
      <4>2. x \in EV /\ x.type = "error"
        <5>1. x \in Events({"error"}) /\ x.type = "error"
          BY ErrorEventTyped
        <5> QED
          BY <5>1 DEF EV, Events, Types
      <4> HIDE DEF x
      <4>3. x \in FormedLines(from)
        BY <4>2 DEF FormedLines, Formed
      <4>4. rest' = <<x>>
        BY <4>1 DEF x
      <4> QED
        BY <4>3, <4>4
    <3> QED
      BY <1>6, <3>1, <3>2, <3>3
  <2>2. CallKnown => CallKnown'
    <3>1. CASE rest' = rest
      BY <1>1, <3>1 DEF CallKnown
    <3>2. CASE rest' = <<>>
      BY <3>2 DEF CallKnown
    <3>3. CASE \E b \in BOOLEAN : rest' = <<ErrorEvent(b)>>
      <4>1. PICK b \in BOOLEAN : rest' = <<ErrorEvent(b)>>
        BY <3>3
      <4>2. Len(rest') = 1 /\ rest'[1].type = "error"
        BY <4>1, ErrorEventTyped
      <4>3. \A k \in 1..Len(rest') : ~CallTold(rest'[k])
        BY <4>2 DEF CallTold
      <4> QED
        BY <4>3 DEF CallKnown
    <3> QED
      BY <1>6, <3>1, <3>2, <3>3
  <2>3. Possible(from, answer)'
    BY <1>1, <1>2, <1>3 DEF Shapes, Possible, OnceThought, InOrder
  <2>4. ~stream' /\ outcome' = Success
           => body' = TransformResponse(from, to, WholeMessage(from, answer))'
    <3>1. TransformResponse(from, to, WholeMessage(from, answer))'
             = TransformResponse(from, to, WholeMessage(from, answer))
      <4>1. WholeMessage(from, answer)' = WholeMessage(from, answer)
        BY <1>1, <1>3, ZenonT(60) DEF WholeMessage, PartsOf, Tagged, Reason
      <4> QED
        BY <1>3, <4>1
    <3>2. SUFFICES ASSUME ~stream, outcome' = Success
                   PROVE  body' = TransformResponse(from, to, WholeMessage(from, answer))
      BY <1>1, <3>1
    <3>3. CASE RelayWhole
      BY <1>5, <3>2, <3>3 DEF RelayWhole, Return
    <3>4. CASE ~RelayWhole
      <4>1. body' = body
        BY <3>4, ZenonT(60)
           DEF RequestFails, ConnectFails, Refuses, Responds, StreamEnds, Cancelled,
               UpstreamErrs, UpstreamBreaks, ClientLeaves, ClientNoticed, vars
      <4>2. outcome = Success
        <5>1. ~StreamEnds
          BY <3>2 DEF StreamEnds
        <5>2. ~(RequestFails \/ ConnectFails \/ Refuses \/ Cancelled)
          BY <1>5, <3>2, ZenonT(60)
             DEF RequestFails, ConnectFails, Refuses, Cancelled, Return, ClientDisconnected
        <5> QED
          BY <3>2, <3>4, <5>1, <5>2 DEF Responds, UpstreamErrs, UpstreamBreaks, ClientLeaves,
               ClientNoticed, vars
      <4> QED
        BY <1>2, <3>2, <4>1, <4>2 DEF Shapes
    <3> QED
      BY <3>3, <3>4
  <2> QED
    BY <1>1, <1>2, <1>3, <1>4, <2>1, <2>2, <2>3, <2>4 DEF Shapes
<1>8. ASSUME NEW kind \in Kinds PROVE Telling(kind)'
  <2> DEFINE R == ReadOf(kind)
             A == InAll(kind)
             D == ToCome(from, to, kind, s.mode, rest)
  <2>1. ReadOf(kind)' = R
    BY <1>1, <1>3 DEF ReadOf
  <2>2. InAll(kind)' = A
    <3>1. Lines(from, answer)' = Lines(from, answer)
      BY <1>1, <1>3 DEF Lines, PartLines, Tagged, Reason
    <3> QED
      BY <1>3, <3>1 DEF InAll
  <2>3. D \in Seq(Int)
    BY <1>4, ToComeTyped
  <2>4. rest' = rest => ToCome(from, to, kind, s.mode, rest)' = D
    BY <1>1, <1>3
  <2>5. IF InStep THEN R \o D = A ELSE \E w \in Seq(Int) : R \o w = A
    BY <1>2, <1>8 DEF Telling
  <2> HIDE DEF R, A, D
  <2>6. \E w \in Seq(Int) : R \o w = A
    BY <2>3, <2>5
  <2>7. InStep' => InStep /\ rest' = rest
    BY <1>6 DEF InStep, Pending, Success
  <2>8. CASE InStep'
    <3>1. R \o D = A /\ ToCome(from, to, kind, s.mode, rest)' = D
      BY <2>4, <2>5, <2>7, <2>8
    <3> QED
      BY <2>1, <2>2, <2>8, <3>1 DEF Telling
  <2>9. CASE ~InStep'
    BY <2>1, <2>2, <2>6, <2>9 DEF Telling
  <2> QED
    BY <2>8, <2>9
<1> QED
  BY <1>7, <1>8 DEF TellInv

LEMMA TellsNext == CInv /\ pair \notin Swapped /\ TellInv /\ [Next]_vars => TellInv'
<1>1. SUFFICES ASSUME CInv, pair \notin Swapped, TellInv, [Next]_vars PROVE TellInv'
  OBVIOUS
<1>2. CASE ReadLine
  BY <1>1, <1>2, ReadLineTells
<1>3. CASE \/ RequestFails \/ ConnectFails \/ Refuses \/ Responds \/ RelayWhole
           \/ StreamEnds \/ Cancelled \/ UpstreamErrs \/ UpstreamBreaks
           \/ ClientLeaves \/ ClientNoticed \/ UNCHANGED vars
  BY <1>1, <1>3, OthersTell
<1> QED
  BY <1>1, <1>2, <1>3 DEF Next, Returned

LEMMA PairStays == [Next]_vars => pair' = pair
BY ZenonT(60) DEF Next, RequestFails, ConnectFails, Refuses, Responds, RelayWhole, ReadLine, StreamEnds,
       Cancelled, UpstreamErrs, UpstreamBreaks, ClientLeaves, ClientNoticed, Returned, vars

(* Between the upstream and the client nothing is lost, added or told      *)
(* twice: what was told and what the lines not yet read have to say is all *)
(* that the answer says, whatever the formats, the answer and the chunks   *)
(* it comes in.                                                            *)
THEOREM TellInvariant == Spec => [](pair \notin Swapped => TellInv)
<1>1. Init => (pair \notin Swapped => TellInv)
  BY CInit, TellsAtFirst
<1>2. CInv /\ (pair \notin Swapped => TellInv) /\ [Next]_vars => (pair \notin Swapped => TellInv)'
  <2>1. SUFFICES ASSUME CInv, pair \notin Swapped => TellInv, [Next]_vars, pair' \notin Swapped
                 PROVE TellInv'
    BY DEF Swapped
  <2>2. pair \notin Swapped
    BY <2>1, PairStays
  <2> QED
    BY <2>1, <2>2, TellsNext
<1> QED
  BY <1>1, <1>2, AdapterInvariant, PTL DEF Spec

-------------------------------------------------------------------------------
(* The answer read in the pieces it comes in, and as a whole.              *)
(* All that a client is told, from the parts of the answer.                *)
LEMMA InAllIs ==
  ASSUME NEW f \in Formats, NEW g, NEW a \in Answers, Possible(f, a), cut \in BOOLEAN, NEW kind,
         NEW p, p = PartsOf(f, a)
  PROVE  /\ p \in Seq(PartRecords)
         /\ ToCome(f, g, kind, 0, Lines(f, a))
               = IF Untagged(f, g, kind) THEN ReadIn(kind, 0, Told(p, {"text"}))
                 ELSE Told(p, Heard(f, g, kind))
<1>1. p \in Seq(PartRecords)
  BY LinesSay
<1>2. ASSUME NEW K PROVE Said(Lines(f, a), TextType(f), K) = Told(p, K)
  BY LinesSay
<1>3. CASE Untagged(f, g, kind)
  <2>1. TextType(f) = {"chunk"}
    BY <1>3 DEF Untagged, TextType
  <2>2. Tokens(Lines(f, a)) = Told(p, {"text"})
    BY <1>2, <2>1 DEF Tokens
  <2> QED
    BY <1>1, <1>3, <2>2 DEF ToCome
<1>4. CASE ~Untagged(f, g, kind)
  BY <1>1, <1>2, <1>4 DEF ToCome
<1> QED
  BY <1>3, <1>4

LEMMA ToldNothing ==
  ASSUME NEW K, NEW p \in Seq(PartRecords), \A k \in 1..Len(p) : p[k].kind \notin K
  PROVE  Told(p, K) = <<>>
<1>1. Makes(Tellings(K), PartRecords, Int)
  BY TellingsMake
<1>2. \A k \in 1..Len(p) : Tellings(K)[p[k]] = <<>>
  <2>1. ASSUME NEW k \in 1..Len(p) PROVE Tellings(K)[p[k]] = <<>>
    <3>1. p[k] \in PartRecords
      OBVIOUS
    <3> QED
      BY <3>1, TellingsAt, ZenonT(60)
  <2> QED
    BY <2>1
<1>3. Spread(Tellings(K), p) = <<>>
  BY <1>1, <1>2, SpreadNothing
<1> QED
  BY <1>3, ToldIs

(* OpenAI's message says the texts shown and the calls.                    *)
LEMMA JoinedTold ==
  ASSUME NEW p \in Seq(PartRecords), NEW S
  PROVE  /\ Joined(p, S) \in Seq(PartRecords)
         /\ Told(Joined(p, S), {"text"}) = Told(p, S)
         /\ Told(Joined(p, S), {"thought"}) = <<>>
         /\ Told(Joined(p, S), {"call"}) = Told(p, {"call"})
<1> DEFINE d == Told(p, S)
           x == PartOf("text", d)
           u == IF d = <<>> THEN <<>> ELSE <<x>>
           v == Kept(p, {"call"})
<1>1. d \in Seq(Int)
  BY ToldIs
<1>2. Joined(p, S) = u \o v
  BY DEF Joined, Told
<1>3. x \in PartRecords /\ x.kind = "text" /\ x.data = d
  <2> HIDE DEF d
  <2> QED
    BY <1>1 DEF PartOf, PartRecords, Kinds
<1>4. v \in Seq(PartRecords)
  BY KeptIs
<1>5. u \in Seq(PartRecords)
  <2> HIDE DEF x, d
  <2> QED
    BY <1>3
<1>6. ASSUME NEW K
      PROVE  /\ Told(u, K) = IF "text" \in K THEN d ELSE <<>>
             /\ Told(v, K) = Told(p, K \cap {"call"})
  <2>1. Told(<<x>>, K) = IF x.kind \in K THEN x.data ELSE <<>>
    <3> HIDE DEF x
    <3> QED
      BY <1>3, ToldOne
  <2>2. Told(<<>>, K) = <<>>
    BY ToldEmpty
  <2>3. Told(v, K) = Told(p, K \cap {"call"})
    BY ToldKept
  <2> HIDE DEF x, d
  <2> QED
    BY <1>3, <2>1, <2>2, <2>3
<1> HIDE DEF u, v, d
<1>7. ASSUME NEW K PROVE u \o v \in Seq(PartRecords) /\ Told(u \o v, K) = Told(u, K) \o Told(v, K)
  BY <1>4, <1>5, ToldConcat
<1> DEFINE c == Told(p, {"call"})
<1>8. c \in Seq(Int) /\ Told(p, {}) = <<>>
  BY ToldIs, ToldNothing
<1>9. /\ {"text"} \cap {"call"} = {} /\ {"thought"} \cap {"call"} = {}
      /\ {"call"} \cap {"call"} = {"call"}
  OBVIOUS
<1>10. Told(u, {"text"}) = d /\ Told(v, {"text"}) = <<>>
  <2>1. Told(u, {"text"}) = IF "text" \in {"text"} THEN d ELSE <<>>
    BY <1>6
  <2>2. Told(v, {"text"}) = Told(p, {"text"} \cap {"call"})
    BY <1>6
  <2> QED
    BY <1>8, <1>9, <2>1, <2>2
<1>11. Told(u, {"thought"}) = <<>> /\ Told(v, {"thought"}) = <<>>
  <2>1. Told(u, {"thought"}) = IF "text" \in {"thought"} THEN d ELSE <<>>
    BY <1>6
  <2>2. Told(v, {"thought"}) = Told(p, {"thought"} \cap {"call"})
    BY <1>6
  <2> QED
    BY <1>8, <1>9, <2>1, <2>2
<1>12. Told(u, {"call"}) = <<>> /\ Told(v, {"call"}) = c
  <2>1. Told(u, {"call"}) = IF "text" \in {"call"} THEN d ELSE <<>>
    BY <1>6
  <2>2. Told(v, {"call"}) = Told(p, {"call"} \cap {"call"})
    BY <1>6
  <2> QED
    BY <1>9, <2>1, <2>2
<1> HIDE DEF c
<1>13. d \o <<>> = d /\ <<>> \o c = c /\ <<>> \o <<>> = <<>>
  BY ONLY <1>1, <1>8
<1>14. Told(u \o v, {"text"}) = d /\ Told(u \o v, {"thought"}) = <<>> /\ Told(u \o v, {"call"}) = c
  BY <1>7, <1>10, <1>11, <1>12, <1>13
<1> QED
  BY <1>2, <1>7, <1>14 DEF c, d

(* A whole text's thought and the text around it, and the same text read   *)
(* as it comes.                                                            *)
ReadAlike(c) ==
    /\ ExtractThinkTags(c) \in Seq(PartRecords)
    /\ Told(ExtractThinkTags(c), {"text"}) = TextIn(0, c)
    /\ Told(ExtractThinkTags(c), {"thought"}) = ThoughtIn(0, c)

LEMMA UntaggedAlike ==
  ASSUME NEW c \in Seq(Int), ~Contains(c, Open)
  PROVE  ReadAlike(c) /\ TextIn(0, c) = c
<1> DEFINE x == PartOf("text", c)
<1>1. ExtractThinkTags(c) = <<x>>
  BY DEF ExtractThinkTags
<1>2. x \in PartRecords /\ x.kind = "text" /\ x.data = c
  BY DEF PartOf, PartRecords, Kinds
<1> HIDE DEF x
<1>3. <<x>> \in Seq(PartRecords)
  BY <1>2
<1>4. ASSUME NEW K PROVE Told(<<x>>, K) = IF x.kind \in K THEN x.data ELSE <<>>
  BY <1>2, ToldOne
<1>5. Told(<<x>>, {"text"}) = c /\ Told(<<x>>, {"thought"}) = <<>>
  <2>1. Told(<<x>>, {"text"}) = IF x.kind \in {"text"} THEN x.data ELSE <<>>
    BY <1>4
  <2>2. Told(<<x>>, {"thought"}) = IF x.kind \in {"thought"} THEN x.data ELSE <<>>
    BY <1>4
  <2> QED
    BY <1>2, <2>1, <2>2
<1>6. TextIn(0, c) = c /\ ThoughtIn(0, c) = <<>>
  BY DEF TextIn, ThoughtIn, Outside
<1> QED
  BY <1>1, <1>3, <1>5, <1>6 DEF ReadAlike

(* What a thought and the text left, if any, say.                          *)
ThoughtThen(d, w) ==
    <<PartOf("thought", d)>> \o (IF w = <<>> THEN <<>> ELSE <<PartOf("text", w)>>)

LEMMA ThoughtAndText ==
  ASSUME NEW d \in Seq(Int), NEW w \in Seq(Int), NEW p, p = ThoughtThen(d, w)
  PROVE  p \in Seq(PartRecords) /\ Told(p, {"text"}) = w /\ Told(p, {"thought"}) = d
<1> DEFINE x == PartOf("thought", d)
           y == PartOf("text", w)
           u == <<x>>
           v == IF w = <<>> THEN <<>> ELSE <<y>>
<1>1. /\ x \in PartRecords /\ x.kind = "thought" /\ x.data = d
      /\ y \in PartRecords /\ y.kind = "text" /\ y.data = w
  BY DEF PartOf, PartRecords, Kinds
<1>2. p = u \o v
  BY DEF ThoughtThen
<1>3. u \in Seq(PartRecords) /\ v \in Seq(PartRecords)
  <2> HIDE DEF x, y
  <2> QED
    BY <1>1
<1>4. /\ Told(u, {"text"}) = <<>> /\ Told(u, {"thought"}) = d
  <2> HIDE DEF x, y
  <2>1. Told(<<x>>, {"text"}) = IF x.kind \in {"text"} THEN x.data ELSE <<>>
    BY <1>1, ToldOne
  <2>2. Told(<<x>>, {"thought"}) = IF x.kind \in {"thought"} THEN x.data ELSE <<>>
    BY <1>1, ToldOne
  <2> QED
    BY <1>1, <2>1, <2>2
<1>5. /\ Told(v, {"text"}) = w /\ Told(v, {"thought"}) = <<>>
  <2> HIDE DEF x, y
  <2>1. Told(<<y>>, {"text"}) = IF y.kind \in {"text"} THEN y.data ELSE <<>>
    BY <1>1, ToldOne
  <2>2. Told(<<y>>, {"thought"}) = IF y.kind \in {"thought"} THEN y.data ELSE <<>>
    BY <1>1, ToldOne
  <2>3. Told(<<>>, {"text"}) = <<>> /\ Told(<<>>, {"thought"}) = <<>>
    BY ToldEmpty
  <2> QED
    BY <1>1, <2>1, <2>2, <2>3
<1> HIDE DEF u, v
<1>6. Told(u \o v, {"text"}) = Told(u, {"text"}) \o Told(v, {"text"})
      /\ Told(u \o v, {"thought"}) = Told(u, {"thought"}) \o Told(v, {"thought"})
      /\ u \o v \in Seq(PartRecords)
  BY <1>3, ToldConcat
<1>7. <<>> \o w = w /\ d \o <<>> = d
  OBVIOUS
<1> QED
  BY <1>2, <1>4, <1>5, <1>6, <1>7

LEMMA ConcatAt ==
  ASSUME NEW T, NEW p \in Seq(T), NEW q \in Seq(T), NEW r, r = p \o q
  PROVE  /\ r \in Seq(T) /\ Len(r) = Len(p) + Len(q)
         /\ \A i \in 1..Len(p) : r[i] = p[i]
         /\ \A i \in 1..Len(q) : r[Len(p) + i] = q[i]
OBVIOUS

LEMMA ThoughtAlike ==
  ASSUME NEW x \in Int, x # Open, x # Close, NEW w \in Seq(Int), NEW c,
         c = <<Open, x, Close>> \o w
  PROVE  ReadAlike(c) /\ c \in Seq(Int) /\ TextIn(0, c) = w
<1> DEFINE b == <<Close>> \o w
           q == <<x>> \o b
           one == <<x>>
           two == <<Open, x>>
<1>1. Open \in Int /\ Close \in Int
  BY TagsAre
<1> DEFINE oo == <<Open>>
           cc == <<Close>>
           h == <<Open, x, Close>>
<1>2. /\ one \in Seq(Int) /\ two \in Seq(Int) /\ cc \in Seq(Int) /\ oo \in Seq(Int)
      /\ h \in Seq(Int) /\ Len(one) = 1 /\ Len(two) = 2 /\ Len(cc) = 1 /\ Len(oo) = 1
      /\ Len(h) = 3 /\ one[1] = x /\ two[1] = Open /\ two[2] = x /\ cc[1] = Close
      /\ oo[1] = Open /\ h[1] = Open /\ h[2] = x /\ h[3] = Close
  BY <1>1
<1>3. /\ c = h \o w /\ b = cc \o w /\ q = one \o b
  OBVIOUS
<1> HIDE DEF oo, cc, h, one, two, b, q
<1>31. /\ c \in Seq(Int) /\ Len(c) = 3 + Len(w) /\ c[1] = Open /\ c[2] = x /\ c[3] = Close
       /\ \A j \in 1..Len(w) : c[3 + j] = w[j]
  <2>1. /\ Len(c) = Len(h) + Len(w) /\ \A k \in 1..Len(h) : c[k] = h[k]
        /\ \A k \in 1..Len(w) : c[Len(h) + k] = w[k]
    <3>1. h \in Seq(Int) /\ w \in Seq(Int) /\ c = h \o w
      BY <1>2, <1>3
    <3> QED
      BY ONLY <3>1, ConcatAt
  <2>2. c \in Seq(Int)
    BY ONLY <1>2, <1>3, w \in Seq(Int)
  <2> QED
    BY <1>2, <2>1, <2>2
<1>32. /\ b \in Seq(Int) /\ Len(b) = 1 + Len(w) /\ b[1] = Close
       /\ \A j \in 1..Len(w) : b[1 + j] = w[j]
  <2>1. /\ Len(b) = Len(cc) + Len(w) /\ \A k \in 1..Len(cc) : b[k] = cc[k]
        /\ \A k \in 1..Len(w) : b[Len(cc) + k] = w[k]
    <3>1. cc \in Seq(Int) /\ w \in Seq(Int) /\ b = cc \o w
      BY <1>2, <1>3
    <3> QED
      BY ONLY <3>1, ConcatAt
  <2>2. b \in Seq(Int)
    BY ONLY <1>2, <1>3, w \in Seq(Int)
  <2> QED
    BY <1>2, <2>1, <2>2
<1>33. /\ q \in Seq(Int) /\ Len(q) = 2 + Len(w) /\ q[1] = x /\ q[2] = Close
       /\ \A j \in 1..Len(w) : q[2 + j] = w[j]
  <2>1. /\ Len(q) = Len(one) + Len(b) /\ \A k \in 1..Len(one) : q[k] = one[k]
        /\ \A k \in 1..Len(b) : q[Len(one) + k] = b[k]
    <3>1. one \in Seq(Int) /\ b \in Seq(Int) /\ q = one \o b
      BY <1>2, <1>3, <1>32
    <3> QED
      BY ONLY <3>1, ConcatAt
  <2>2. q \in Seq(Int)
    BY ONLY <1>2, <1>3, <1>32
  <2>3. Len(w) \in Nat
    OBVIOUS
  <2>4. \A k \in 1..1 + Len(w) : q[1 + k] = b[k]
    BY <1>2, <1>32, <2>1
  <2>5. q[2] = Close
    <3>1. 1 \in 1..1 + Len(w) /\ 1 + 1 = 2
      BY <2>3
    <3> QED
      BY <1>32, <2>4, <3>1
  <2>6. ASSUME NEW j \in 1..Len(w) PROVE q[2 + j] = w[j]
    <3>1. 1 + j \in 1..1 + Len(w) /\ 1 + (1 + j) = 2 + j
      BY <2>3
    <3> QED
      BY <1>32, <2>4, <3>1
  <2> QED
    BY <1>2, <1>32, <2>1, <2>2, <2>3, <2>5, <2>6
<1>4. c = oo \o q /\ c = two \o b
  <2>1. Len(w) \in Nat
    OBVIOUS
  <2>2. \A k \in 1..Len(q) : c[Len(oo) + k] = q[k]
    <3>1. ASSUME NEW k \in 1..Len(q) PROVE c[1 + k] = q[k]
      <4>1. CASE k > 2
        <5> DEFINE i == k - 2
        <5>1. i \in 1..Len(w) /\ 3 + i = 1 + k /\ 2 + i = k
          BY <1>33, <2>1, <4>1
        <5> HIDE DEF i
        <5>2. c[3 + i] = w[i] /\ q[2 + i] = w[i]
          BY <1>31, <1>33, <5>1
        <5> QED
          BY <5>1, <5>2
      <4>2. CASE k = 1
        <5>1. c[1 + 1] = q[1]
          BY ONLY <1>31, <1>33
        <5> QED
          BY ONLY <4>2, <5>1
      <4>3. CASE k = 2
        <5>1. c[1 + 2] = q[2]
          BY ONLY <1>31, <1>33
        <5> QED
          BY ONLY <4>3, <5>1
      <4>4. k > 2 \/ k = 1 \/ k = 2
        BY ONLY <1>33, <2>1, k \in 1..Len(q)
      <4> QED
        BY <4>1, <4>2, <4>3, <4>4
    <3> QED
      BY <1>2, <3>1
  <2>3. Len(c) = Len(oo) + Len(q) /\ \A k \in 1..Len(oo) : c[k] = oo[k]
    BY <1>2, <1>31, <1>33, <2>1
  <2>4. c = oo \o q
    <3>1. oo \in Seq(Int) /\ q \in Seq(Int) /\ c \in Seq(Int)
      BY ONLY <1>2, <1>31, <1>33
    <3> QED
      BY ONLY <2>2, <2>3, <3>1, ConcatIs
  <2>5. \A k \in 1..Len(b) : c[Len(two) + k] = b[k]
    <3>1. ASSUME NEW k \in 1..Len(b) PROVE c[2 + k] = b[k]
      <4>1. CASE k > 1
        <5> DEFINE i == k - 1
        <5>1. i \in 1..Len(w) /\ 3 + i = 2 + k /\ 1 + i = k
          BY <1>32, <2>1, <4>1
        <5> HIDE DEF i
        <5>2. c[3 + i] = w[i] /\ b[1 + i] = w[i]
          BY <1>31, <1>32, <5>1
        <5> QED
          BY <5>1, <5>2
      <4>2. CASE k = 1
        <5>1. c[2 + 1] = b[1]
          BY ONLY <1>31, <1>32
        <5> QED
          BY ONLY <4>2, <5>1
      <4>3. k > 1 \/ k = 1
        BY ONLY <1>32, <2>1, k \in 1..Len(b)
      <4> QED
        BY <4>1, <4>2, <4>3
    <3> QED
      BY <1>2, <3>1
  <2>6. Len(c) = Len(two) + Len(b) /\ \A k \in 1..Len(two) : c[k] = two[k]
    BY <1>2, <1>31, <1>32, <2>1
  <2>7. c = two \o b
    <3>1. two \in Seq(Int) /\ b \in Seq(Int) /\ c \in Seq(Int)
      BY ONLY <1>2, <1>31, <1>32
    <3> QED
      BY ONLY <2>5, <2>6, <3>1, ConcatIs
  <2> QED
    BY <2>4, <2>7
<1>5. Split(c, Open, <<>>, q)
  <2>1. <<>> \in Seq(Int) /\ ~Contains(<<>>, Open)
    BY EmptyHasNoTag
  <2> DEFINE r == <<Open>> \o q
  <2>2. r \in Seq(Int) /\ c = r
    BY <1>31, <1>4 DEF oo
  <2> HIDE DEF r
  <2>3. c = <<>> \o r
    BY ONLY <2>2
  <2> QED
    BY <1>33, <2>1, <2>3 DEF Split, r
<1>6. Split(c, Close, two, w)
  <2>1. ~Contains(two, Close)
    BY DEF Contains, Open, Close, two
  <2> QED
    BY <1>2, <1>3, <1>4, <2>1 DEF Split, cc
<1>7. Split(q, Close, one, w)
  <2>1. ~Contains(one, Close)
    BY DEF Contains, one
  <2> QED
    BY <1>2, <1>3, <2>1 DEF Split, cc
<1>8. Contains(c, Open) /\ Before(c, Open) = <<>> /\ After(c, Open) = q
  BY <1>1, <1>5, SplitPlaces
<1>9. Contains(c, Close) /\ After(c, Close) = w
  BY <1>1, <1>6, SplitPlaces
<1>10. Contains(q, Close) /\ Before(q, Close) = one /\ After(q, Close) = w
  BY <1>1, <1>7, SplitPlaces
<1>11. <<>> \o w = w
  OBVIOUS
<1>12. TextIn(0, c) = w /\ ThoughtIn(0, c) = one
  <2>1. ~Outside(0, c)
    BY <1>8 DEF Outside
  <2>2. Leaves(q) = w /\ Thinks(q) = one
    BY <1>10 DEF Leaves, Thinks
  <2>3. TextIn(0, c) = Before(c, Open) \o Leaves(After(c, Open))
    BY <2>1 DEF TextIn
  <2>4. ThoughtIn(0, c) = Thinks(After(c, Open))
    BY <2>1 DEF ThoughtIn
  <2> QED
    BY <1>8, <1>11, <2>2, <2>3, <2>4
<1>13. ExtractThinkTags(c)
          = ThoughtThen(one, w)
  BY <1>8, <1>9, <1>10, <1>11 DEF ExtractThinkTags, ThoughtThen
<1>14. ReadAlike(c)
  <2> DEFINE p == ExtractThinkTags(c)
  <2>1. p = ThoughtThen(one, w)
    BY <1>13
  <2>2. one \in Seq(Int) /\ w \in Seq(Int)
    BY <1>2
  <2> HIDE DEF p
  <2>3. p \in Seq(PartRecords) /\ Told(p, {"text"}) = w /\ Told(p, {"thought"}) = one
    BY ONLY <2>1, <2>2, ThoughtAndText
  <2> QED
    BY <2>3, <1>12 DEF ReadAlike, p
<1> QED
  BY <1>31, <1>12, <1>14

LEMMA CutAlike ==
  ASSUME NEW x \in Int, x # Open, x # Close, NEW c, c = <<Open, x>>
  PROVE  ReadAlike(c) /\ c \in Seq(Int) /\ TextIn(0, c) = <<>>
<1> DEFINE one == <<x>>
           none == <<>>
<1>1. Open \in Int /\ Close \in Int
  BY TagsAre
<1>2. one \in Seq(Int) /\ none \in Seq(Int) /\ c \in Seq(Int) /\ c = none \o (<<Open>> \o one)
  BY <1>1
<1>3. Split(c, Open, none, one)
  <2>1. ~Contains(<<>>, Open)
    BY EmptyHasNoTag
  <2> QED
    BY <1>2, <2>1 DEF Split
<1>4. ~Contains(c, Close) /\ ~Contains(one, Close)
  BY DEF Contains, Open, Close
<1>5. Contains(c, Open) /\ Before(c, Open) = none /\ After(c, Open) = one
  <2> HIDE DEF one, none
  <2> QED
    BY <1>1, <1>3, SplitPlaces
<1>6. none \o none = none
  OBVIOUS
<1> HIDE DEF one
<1>7. TextIn(0, c) = <<>> /\ ThoughtIn(0, c) = one
  BY <1>4, <1>5, <1>6 DEF TextIn, ThoughtIn, Outside, Leaves, Thinks
<1>8. ExtractThinkTags(c) = ThoughtThen(one, none)
  BY <1>4, <1>5, <1>6 DEF ExtractThinkTags, ThoughtThen
<1>81. none = <<>>
  OBVIOUS
<1> HIDE DEF none
<1>9. ReadAlike(c)
  <2> DEFINE p == ExtractThinkTags(c)
  <2>1. p = ThoughtThen(one, none)
    BY <1>8
  <2>2. one \in Seq(Int) /\ none \in Seq(Int)
    BY <1>2
  <2> HIDE DEF p
  <2>3. p \in Seq(PartRecords) /\ Told(p, {"text"}) = none /\ Told(p, {"thought"}) = one
    BY ONLY <2>1, <2>2, ThoughtAndText
  <2> QED
    BY <2>3, <1>7, <1>81 DEF ReadAlike, p
<1> QED
  BY <1>2, <1>7, <1>9

LEMMA FlattenFirst ==
  ASSUME NEW T, NEW e \in Seq(T), NEW tt \in Seq(Seq(T)), NEW ss \in Seq(Seq(T)),
         Len(ss) = 1 + Len(tt), ss[1] = e, \A k \in 1..Len(tt) : ss[1 + k] = tt[k]
  PROVE  Joins(FlattenSeq(ss), e, FlattenSeq(tt))
<1> DEFINE u == <<e>>
           C == Seq(T)
<1>1. u \in Seq(C) /\ Len(u) = 1 /\ u[1] = e
  OBVIOUS
<1>2. FlattenSeq(u) = e
  BY FlattenOne
<1> HIDE DEF u
<1>3. ss = u \o tt
  <2>1. tt \in Seq(C) /\ ss \in Seq(C) /\ Len(ss) = Len(u) + Len(tt)
    BY <1>1
  <2>2. \A k \in 1..Len(u) : ss[k] = u[k]
    BY <1>1
  <2>3. \A k \in 1..Len(tt) : ss[Len(u) + k] = tt[k]
    BY <1>1
  <2> HIDE DEF C
  <2> QED
    BY ONLY <1>1, <2>1, <2>2, <2>3, ConcatIs
<1>4. FlattenSeq(u \o tt) = FlattenSeq(u) \o FlattenSeq(tt)
  <2>1. u \in Seq(Seq(T)) /\ tt \in Seq(Seq(T))
    BY <1>1
  <2> QED
    BY ONLY <2>1, FlattenConcat
<1> QED
  BY <1>2, <1>3, <1>4 DEF Joins

(* A text of parts' numbers holds no tag.                                  *)
LEMMA NumbersHoldNoTag ==
  ASSUME NEW w \in Seq(Nat)
  PROVE  ~Contains(w, Open) /\ w \in Seq(Int)
BY DEF Contains, Open

(* An OpenAI answer's thought comes first.                                 *)
LEMMA ThoughtFirst ==
  ASSUME NEW n \in Nat, NEW a \in [1..n -> Kinds], Possible("openai", a),
         NEW k \in 1..n, a[k] = "thought"
  PROVE  k = 1
<1>1. OnceThought(a) /\ InOrder(a)
  BY DEF Possible
<1>2. SUFFICES ASSUME k # 1 PROVE FALSE
  OBVIOUS
<1>3. 1 \in 1..n /\ 1 < k /\ DOMAIN a = 1..n
  BY <1>2
<1>4. Rank(a[1]) <= Rank(a[k])
  BY <1>1, <1>3 DEF InOrder
<1>5. a[1] = "thought"
  <2>1. a[1] \in Kinds
    BY <1>3
  <2> QED
    BY <1>4, <2>1 DEF Rank, Kinds
<1> DEFINE S == {j \in DOMAIN a : a[j] = "thought"}
           one == {1}
           two == one \cup {k}
<1>6. IsFiniteSet(S)
  <2>1. IsFiniteSet(1..n)
    <3>1. 1 \in Int /\ n \in Int
      OBVIOUS
    <3> QED
      BY ONLY <3>1, FS_Interval
  <2>2. S \subseteq 1..n
    BY <1>3
  <2> HIDE DEF S
  <2> QED
    BY <2>1, <2>2, FS_Subset
<1>7. two \subseteq S
  BY <1>3, <1>5
<1>8. IsFiniteSet(one) /\ Cardinality(one) = 1
  BY FS_Singleton
<1>9. IsFiniteSet(two) /\ Cardinality(two) = 2
  <2>1. k \notin one
    BY <1>2
  <2> HIDE DEF one
  <2> QED
    BY <1>8, <2>1, FS_AddElement
<1> HIDE DEF S, one, two
<1>10. Cardinality(two) <= Cardinality(S) /\ Cardinality(S) \in Nat
  BY <1>6, <1>7, FS_Subset, FS_CardinalityType
<1>11. Cardinality(S) <= 1
  BY <1>1 DEF OnceThought, S
<1> QED
  BY <1>9, <1>10, <1>11

(* The texts alone: what a Claude client of an OpenAI answer is to read.   *)
Spoken(a) == [k \in DOMAIN a |-> IF a[k] = "text" THEN <<k>> ELSE <<>>]

LEMMA SpokenIs ==
  ASSUME NEW n \in Nat, NEW a \in [1..n -> Kinds]
  PROVE  /\ Spoken(a) \in Seq(Seq(Nat)) /\ Spoken(a) \in Seq(Seq(Int)) /\ Len(Spoken(a)) = n
         /\ \A k \in 1..n : Spoken(a)[k] = IF a[k] = "text" THEN <<k>> ELSE <<>>
         /\ TextOf([k \in DOMAIN a |-> IF a[k] = "text" THEN PartsOf("openai", a)[k]
                                       ELSE PartOf("text", <<>>)]) = FlattenSeq(Spoken(a))
<1> DEFINE x == [k \in 1..n |-> IF a[k] = "text" THEN PartsOf("openai", a)[k]
                                ELSE PartOf("text", <<>>)]
<1>1. DOMAIN a = 1..n /\ DOMAIN x = 1..n
  OBVIOUS
<1>2. ASSUME NEW k \in 1..n
      PROVE  /\ x[k].data = IF a[k] = "text" THEN <<k>> ELSE <<>>
             /\ (IF a[k] = "text" THEN <<k>> ELSE <<>>) \in Seq(Nat)
             /\ (IF a[k] = "text" THEN <<k>> ELSE <<>>) \in Seq(Int)
  <2>1. CASE a[k] = "text"
    <3>1. PartsOf("openai", a)[k].data = <<k>>
      BY <2>1, PartIs
    <3> QED
      BY <2>1, <3>1
  <2>2. CASE a[k] # "text"
    BY <2>2 DEF PartOf
  <2> QED
    BY <2>1, <2>2
<1>3. [k \in DOMAIN x |-> x[k].data] = Spoken(a)
  <2> HIDE DEF x
  <2> QED
    BY <1>1, <1>2 DEF Spoken
<1>4. TextOf(x) = FlattenSeq(Spoken(a))
  <2> HIDE DEF x
  <2> QED
    BY <1>3 DEF TextOf
<1> QED
  BY <1>1, <1>2, <1>4 DEF Spoken

(* The texts of an OpenAI answer, thoughts in their tags.                  *)
Tokened(a) ==
    [k \in DOMAIN a |-> IF a[k] = "thought" THEN Tagged(a, k) ELSE Spoken(a)[k]]

LEMMA TokenedIs ==
  ASSUME NEW n \in Nat, NEW a \in [1..n -> Kinds]
  PROVE  /\ Tokened(a) \in Seq(Seq(Int)) /\ Len(Tokened(a)) = n
         /\ \A k \in 1..n : /\ Tokened(a)[k] = IF a[k] = "thought" THEN Tagged(a, k)
                                               ELSE Spoken(a)[k]
                            /\ Tagged(a, k) \in Seq(Int)
         /\ Told(PartsOf("openai", a), {"text"}) = FlattenSeq(Tokened(a))
<1> DEFINE p == PartsOf("openai", a)
           K == {"text"}
<1>1. \A k \in 1..n : Tagged(a, k) \in Seq(Int)
  BY PartIs
<1>2. /\ \A k \in 1..n : Spoken(a)[k] = IF a[k] = "text" THEN <<k>> ELSE <<>>
      /\ \A k \in 1..n : Spoken(a)[k] \in Seq(Int)
  <2>1. \A k \in 1..n : Spoken(a)[k] = IF a[k] = "text" THEN <<k>> ELSE <<>>
    BY SpokenIs
  <2>2. Spoken(a) \in Seq(Seq(Int)) /\ Len(Spoken(a)) = n
    BY SpokenIs
  <2>3. \A k \in 1..n : Spoken(a)[k] \in Seq(Int)
    BY ONLY <2>2, n \in Nat
  <2> QED
    BY <2>1, <2>3
<1>3. /\ Tokened(a) \in Seq(Seq(Int)) /\ Len(Tokened(a)) = n
      /\ \A k \in 1..n : Tokened(a)[k] = IF a[k] = "thought" THEN Tagged(a, k)
                                         ELSE Spoken(a)[k]
  BY <1>1, <1>2 DEF Tokened
<1>4. p \in Seq(PartRecords)
  <2>1. CASE n = 0
    <3>1. DOMAIN a = {}
      BY <2>1
    <3>2. p = <<>>
      BY <2>1, <3>1 DEF PartsOf
    <3>3. <<>> \in Seq(PartRecords)
      OBVIOUS
    <3> HIDE DEF p
    <3> QED
      BY <3>2, <3>3
  <2>2. CASE n # 0
    <3>1. 1 \in 1..n
      BY <2>2
    <3> QED
      BY <3>1, PartIs
  <2> QED
    BY <2>1, <2>2
<1>5. Len(p) = n
  BY DEF PartsOf
<1>6. ASSUME NEW k \in 1..n PROVE Tellings(K)[p[k]] = Tokened(a)[k]
  <2> DEFINE x == p[k]
  <2>1. /\ x \in PartRecords
        /\ x.kind = IF a[k] = "thought" THEN "text" ELSE a[k]
        /\ x.data = IF a[k] = "thought" THEN Tagged(a, k) ELSE <<k>>
    BY PartIs
  <2>2. a[k] \in Kinds
    OBVIOUS
  <2> HIDE DEF x
  <2>3. Tellings(K)[x] = IF x.kind \in K THEN x.data ELSE <<>>
    BY <2>1, TellingsAt
  <2>4. Tellings(K)[x] = Tokened(a)[k]
    BY <1>2, <1>3, <2>1, <2>2, <2>3 DEF Kinds
  <2> QED
    BY <2>4 DEF x
<1>7. Told(p, K) = Spread(Tellings(K), p)
  BY <1>4, ToldIs
<1>8. [k \in 1..Len(p) |-> Tellings(K)[p[k]]] = Tokened(a)
  BY <1>5, <1>6 DEF Tokened
<1>9. Told(p, K) = FlattenSeq(Tokened(a))
  BY <1>7, <1>8 DEF Spread
<1> QED
  BY <1>1, <1>3, <1>9

(* The texts of an OpenAI answer: those spoken, after those of its thought *)
(* with the tags around it.                                                *)
LEMMA TextsOfAnswer ==
  ASSUME NEW n \in Nat, NEW a \in [1..n -> Kinds], Possible("openai", a),
         NEW w, w = Told(PartsOf("openai", a), {"text"}), NEW m, m = FlattenSeq(Spoken(a))
  PROVE  /\ m \in Seq(Nat) /\ m \in Seq(Int)
         /\ \/ w = m
            \/ 1 \in 1..n /\ Joins(w, Tagged(a, 1), m) /\ (n = 1 => m = <<>>)
<1>1. w = FlattenSeq(Tokened(a)) /\ Tokened(a) \in Seq(Seq(Int)) /\ Len(Tokened(a)) = n
  BY TokenedIs
<1>2. ASSUME NEW k \in 1..n
      PROVE Tokened(a)[k] = IF a[k] = "thought" THEN Tagged(a, k) ELSE Spoken(a)[k]
  BY TokenedIs
<1>3. ASSUME NEW k \in 1..n PROVE Spoken(a)[k] = IF a[k] = "text" THEN <<k>> ELSE <<>>
  BY SpokenIs
<1>4. /\ Spoken(a) \in Seq(Seq(Nat)) /\ Spoken(a) \in Seq(Seq(Int)) /\ Len(Spoken(a)) = n
  BY SpokenIs
<1>5. m \in Seq(Nat) /\ m \in Seq(Int)
  BY <1>4, FlattenTyped
<1>6. CASE \A k \in 1..n : a[k] # "thought"
  <2>1. Tokened(a) = Spoken(a)
    BY <1>6 DEF Tokened, Spoken
  <2> QED
    BY <1>1, <1>5, <2>1
<1>7. CASE \E k \in 1..n : a[k] = "thought"
  <2>1. PICK k \in 1..n : a[k] = "thought"
    BY <1>7
  <2>2. k = 1
    BY <2>1, ThoughtFirst
  <2>3. 1 \in 1..n /\ a[1] = "thought" /\ n - 1 \in Nat
    BY <2>1, <2>2
  <2>4. ASSUME NEW j \in 1..n, j # 1 PROVE a[j] # "thought"
    BY <2>4, ThoughtFirst
  <2> DEFINE tt == [j \in 1..n - 1 |-> Spoken(a)[1 + j]]
             x == FlattenSeq(tt)
             e == Tagged(a, 1)
  <2>5. tt \in Seq(Seq(Nat)) /\ tt \in Seq(Seq(Int)) /\ Len(tt) = n - 1
        /\ \A j \in 1..Len(tt) : tt[j] = Spoken(a)[1 + j]
    <3>1. \A j \in 1..n - 1 : Spoken(a)[1 + j] \in Seq(Nat) /\ Spoken(a)[1 + j] \in Seq(Int)
      BY <1>4
    <3>2. Len(tt) = n - 1 /\ \A j \in 1..n - 1 : tt[j] = Spoken(a)[1 + j]
      BY <2>3
    <3>3. tt \in [1..n - 1 -> Seq(Nat)] /\ tt \in [1..n - 1 -> Seq(Int)]
      BY <3>1
    <3> QED
      BY <2>3, <3>2, <3>3
  <2> HIDE DEF tt
  <2>6. x \in Seq(Nat) /\ x \in Seq(Int)
    BY <2>5, FlattenTyped
  <2>7. FlattenSeq(Spoken(a)) = <<>> \o x
    <3> DEFINE none == <<>>
    <3>1. Spoken(a)[1] = none /\ none \in Seq(Int)
      <4>1. Spoken(a)[1] = IF a[1] = "text" THEN <<1>> ELSE <<>>
        BY <1>3, <2>3
      <4> QED
        BY <2>3, <4>1
    <3>2. Len(Spoken(a)) = 1 + Len(tt)
      BY <1>4, <2>5
    <3>3. \A j \in 1..Len(tt) : Spoken(a)[1 + j] = tt[j]
      BY <2>5
    <3>4. tt \in Seq(Seq(Int)) /\ Spoken(a) \in Seq(Seq(Int))
      BY <1>4, <2>5
    <3> HIDE DEF none
    <3>5. Joins(FlattenSeq(Spoken(a)), none, FlattenSeq(tt))
      BY ONLY <3>1, <3>2, <3>3, <3>4, FlattenFirst
    <3> QED
      BY <3>5 DEF Joins, none
  <2>8. m = x
    BY <2>6, <2>7, Unaltered
  <2>9. e \in Seq(Int) /\ Tokened(a)[1] = e
    BY <1>2, <2>3, TokenedIs
  <2> HIDE DEF e
  <2>10. \A j \in 1..Len(tt) : Tokened(a)[1 + j] = tt[j]
    <3>1. ASSUME NEW j \in 1..Len(tt) PROVE Tokened(a)[1 + j] = tt[j]
      <4>1. 1 + j \in 1..n /\ 1 + j # 1
        BY <2>3, <2>5
      <4>2. Tokened(a)[1 + j] = Spoken(a)[1 + j]
        BY <1>2, <2>4, <4>1
      <4> QED
        BY <2>5, <4>2
    <3> QED
      BY <3>1
  <2>11. Joins(FlattenSeq(Tokened(a)), e, FlattenSeq(tt))
    <3>1. Len(Tokened(a)) = 1 + Len(tt)
      BY <1>1, <2>3, <2>5
    <3>2. tt \in Seq(Seq(Int)) /\ Tokened(a) \in Seq(Seq(Int))
      BY <1>1, <2>5
    <3> QED
      BY ONLY <2>9, <2>10, <3>1, <3>2, FlattenFirst
  <2>12. n = 1 => x = <<>>
    <3>1. SUFFICES ASSUME n = 1 PROVE x = <<>>
      OBVIOUS
    <3>2. tt = <<>>
      <4>1. Len(tt) = 0
        BY <2>5, <3>1
      <4> QED
        BY ONLY <2>5, <4>1
    <3> QED
      BY <2>5, <3>2, FlattenTyped
  <2>13. Joins(w, e, x)
    BY <1>1, <2>11
  <2> HIDE DEF x
  <2> QED
    BY <1>5, <2>3, <2>8, <2>12, <2>13 DEF e
<1> QED
  BY <1>6, <1>7

(* Read as it comes or as a whole, an OpenAI answer's text is the same, and *)
(* it is the texts'.                                                       *)
LEMMA OpenAITextRead ==
  ASSUME NEW n \in Nat, NEW a \in [1..n -> Kinds], Possible("openai", a), cut \in BOOLEAN,
         NEW w, w = Told(PartsOf("openai", a), {"text"})
  PROVE  ReadAlike(w) /\ TextIn(0, w) = FlattenSeq(Spoken(a)) /\ w \in Seq(Int)
<1> DEFINE m == FlattenSeq(Spoken(a))
           e == Tagged(a, 1)
<1>1. /\ m \in Seq(Nat) /\ m \in Seq(Int)
      /\ \/ w = m
         \/ 1 \in 1..n /\ Joins(w, e, m) /\ (n = 1 => m = <<>>)
  BY TextsOfAnswer
<1>2. CASE w = m
  <2>1. ~Contains(w, Open) /\ w \in Seq(Int)
    BY <1>1, <1>2, NumbersHoldNoTag
  <2> HIDE DEF m
  <2>2. ReadAlike(w) /\ TextIn(0, w) = w
    BY <2>1, UntaggedAlike
  <2> QED
    BY <1>2, <2>1, <2>2 DEF m
<1>3. CASE 1 \in 1..n /\ Joins(w, e, m) /\ (n = 1 => m = <<>>)
  <2>1. 1 \in Int /\ 1 # Open /\ 1 # Close
    BY DEF Open, Close
  <2>2. Len(a) = n
    OBVIOUS
  <2>3. CASE cut /\ n = 1
    <3>1. e = <<Open, 1>>
      BY <2>2, <2>3 DEF Tagged
    <3>2. m = <<>> /\ w = e \o <<>>
      BY <1>3, <2>3 DEF Joins
    <3>3. e \in Seq(Int)
      BY <1>3, TokenedIs
    <3>4. w = <<Open, 1>>
      BY <3>1, <3>2, <3>3, Unaltered
    <3> HIDE DEF m, e
    <3> QED
      BY <2>1, <3>2, <3>4, CutAlike DEF m
  <2>4. CASE ~(cut /\ n = 1)
    <3>1. e = <<Open, 1, Close>>
      BY <2>2, <2>4 DEF Tagged
    <3> HIDE DEF m
    <3>2. w = <<Open, 1, Close>> \o m
      BY <1>3, <3>1 DEF Joins
    <3>3. ReadAlike(w) /\ w \in Seq(Int) /\ TextIn(0, w) = m
      BY ONLY <1>1, <2>1, <3>2, ThoughtAlike
    <3> QED
      BY <3>3 DEF m
  <2> QED
    BY <2>3, <2>4
<1> QED
  BY <1>1, <1>2, <1>3

-------------------------------------------------------------------------------
(* What a whole response says.                                             *)
(* OpenAI and Codex answers have no thoughts of their own.                 *)
LEMMA NoThoughts ==
  ASSUME NEW f \in {"openai", "codex"}, NEW a \in Answers, Possible(f, a),
         NEW p, p = PartsOf(f, a), p \in Seq(PartRecords)
  PROVE  Told(p, {"thought"}) = <<>>
<1>1. PICK n \in Nat : a \in [1..n -> Kinds]
  BY BoundAssumption DEF Answers
<1>2. Len(p) = n
  BY <1>1 DEF PartsOf
<1>3. ASSUME NEW k \in 1..Len(p) PROVE p[k].kind \notin {"thought"}
  <2>1. k \in 1..n /\ k \in DOMAIN a
    BY <1>1, <1>2
  <2>2. p[k].kind = IF f = "openai" /\ a[k] = "thought" THEN "text" ELSE a[k]
    BY <1>1, <2>1, PartIs
  <2>3. f = "codex" => a[k] # "thought"
    BY <2>1 DEF Possible
  <2> QED
    BY <2>2, <2>3
<1> QED
  BY <1>3, ToldNothing

LEMMA ExtractedNoCalls ==
  ASSUME NEW c, ExtractThinkTags(c) \in Seq(PartRecords)
  PROVE  Told(ExtractThinkTags(c), {"call"}) = <<>>
<1> DEFINE x == PartOf("text", c)
           closed == Contains(c, Close)
           inside == After(c, Open)
           d == PartOf("thought", IF closed THEN Before(inside, Close) ELSE inside)
           left == Before(c, Open) \o (IF closed THEN After(c, Close) ELSE <<>>)
           y == PartOf("text", left)
           e == ExtractThinkTags(c)
<1>1. x.kind = "text" /\ y.kind = "text" /\ d.kind = "thought"
  BY DEF PartOf
<1>2. e = IF ~Contains(c, Open) THEN <<x>>
          ELSE <<d>> \o (IF left = <<>> THEN <<>> ELSE <<y>>)
  BY DEF ExtractThinkTags
<1>3. e \in Seq(PartRecords)
  OBVIOUS
<1> HIDE DEF x, y, d, left, e
<1>4. ASSUME NEW k \in 1..Len(e) PROVE e[k].kind \notin {"call"}
  <2>1. CASE e = <<x>>
    BY <1>1, <2>1
  <2>2. CASE e = <<d>> \o <<>>
    BY <1>1, <2>2
  <2>3. CASE e = <<d>> \o <<y>>
    BY <1>1, <2>3
  <2> QED
    BY <1>2, <2>1, <2>2, <2>3
<1>5. Told(e, {"call"}) = <<>>
  BY <1>3, <1>4, ToldNothing
<1> QED
  BY <1>5 DEF e

(* What a client is to be told of some parts.                              *)
Due(f, g, kind, p) ==
    IF Untagged(f, g, kind) THEN ReadIn(kind, 0, Told(p, {"text"}))
    ELSE Told(p, Heard(f, g, kind))

SaysAll(f, g, w, p) ==
    /\ w \in Seq(PartRecords)
    /\ Told(w, {"text"}) = Due(f, g, "text", p)
    /\ Told(w, {"thought"}) = Due(f, g, "thought", p)
    /\ f = g \/ <<f, g>> \in {<<"openai", "claude">>, <<"claude", "openai">>}
          => Told(w, {"call"}) = Due(f, g, "call", p)

(* Tags read out of a whole message, and the calls after them.             *)
LEMMA UntaggedSays ==
  ASSUME NEW p \in Seq(PartRecords), NEW c, c = Told(p, {"text"}), ReadAlike(c),
         NEW w, w = OpenAIMessageToClaude(Message(Joined(p, {"text"}), "end")).parts
  PROVE  SaysAll("openai", "claude", w, p)
<1> DEFINE j == Joined(p, {"text"})
           t == Kept(j, {"text"})
           v == Kept(j, {"call"})
           x == IF t = <<>> THEN <<>> ELSE ExtractThinkTags(TextOf(t))
           y == PartOf("text", <<>>)
           h == Told(p, {"call"})
<1>1. /\ j \in Seq(PartRecords) /\ Told(j, {"text"}) = c /\ Told(j, {"call"}) = h
  BY JoinedTold
<1>2. h \in Seq(Int) /\ c \in Seq(Int)
  BY ToldIs
<1>3. w = IF x \o v = <<>> THEN <<y>> ELSE x \o v
  BY DEF OpenAIMessageToClaude, Message
<1>4. TextOf(t) = c
  BY <1>1 DEF Told
<1>5. /\ x \in Seq(PartRecords) /\ Told(x, {"text"}) = TextIn(0, c)
      /\ Told(x, {"thought"}) = ThoughtIn(0, c) /\ Told(x, {"call"}) = <<>>
  <2>1. CASE t = <<>>
    <3>1. c = <<>>
      <4>1. TextOf(<<>>) = <<>>
        <5> DEFINE q == <<>>
        <5>1. q \in Seq(PartRecords)
          OBVIOUS
        <5> HIDE DEF q
        <5>2. TextOf(q) = Spread(Datas, q)
          BY ONLY <5>1, KeptIs
        <5>3. Makes(Datas, PartRecords, Int)
          BY TellingsMake
        <5>4. Spread(Datas, <<>>) = <<>>
          BY ONLY <5>3, SpreadEmpty
        <5> QED
          BY <5>2, <5>4 DEF q
      <4> QED
        BY <1>4, <2>1, <4>1
    <3>2. x = <<>> /\ x \in Seq(PartRecords)
      BY <2>1
    <3>3. TextIn(0, c) = <<>> /\ ThoughtIn(0, c) = <<>>
      BY <3>1, EmptyHasNoTag DEF TextIn, ThoughtIn, Outside
    <3> HIDE DEF x
    <3>4. Told(<<>>, {"text"}) = <<>> /\ Told(<<>>, {"thought"}) = <<>> /\ Told(<<>>, {"call"}) = <<>>
      BY ToldEmpty
    <3> QED
      BY <3>2, <3>3, <3>4
  <2>2. CASE t # <<>>
    <3>1. x = ExtractThinkTags(c)
      BY <1>4, <2>2
    <3> HIDE DEF x
    <3> QED
      BY <3>1, ExtractedNoCalls DEF ReadAlike
  <2> QED
    BY <2>1, <2>2
<1>6. v \in Seq(PartRecords)
  BY <1>1, KeptIs
<1>7. /\ Told(v, {"text"}) = <<>> /\ Told(v, {"thought"}) = <<>> /\ Told(v, {"call"}) = h
  <2>1. Told(j, {}) = <<>>
    BY <1>1, ToldNothing
  <2>2. ASSUME NEW K PROVE Told(v, K) = Told(j, K \cap {"call"})
    BY <1>1, ToldKept
  <2>3. /\ {"text"} \cap {"call"} = {} /\ {"thought"} \cap {"call"} = {}
        /\ {"call"} \cap {"call"} = {"call"}
    OBVIOUS
  <2>4. /\ Told(v, {"text"}) = Told(j, {"text"} \cap {"call"})
        /\ Told(v, {"thought"}) = Told(j, {"thought"} \cap {"call"})
        /\ Told(v, {"call"}) = Told(j, {"call"} \cap {"call"})
    BY <2>2
  <2> QED
    BY <1>1, <2>1, <2>3, <2>4
<1> HIDE DEF j, t, v, x
<1>8. x \o v \in Seq(PartRecords)
  BY <1>5, <1>6
<1>9. ASSUME NEW K PROVE Told(x \o v, K) = Told(x, K) \o Told(v, K)
  BY <1>5, <1>6, ToldConcat
<1>10. TextIn(0, c) \in Seq(Int) /\ ThoughtIn(0, c) \in Seq(Int)
  BY <1>2, ReadsTyped
<1>11. /\ Told(x \o v, {"text"}) = TextIn(0, c) /\ Told(x \o v, {"thought"}) = ThoughtIn(0, c)
       /\ Told(x \o v, {"call"}) = h
  <2>1. /\ Told(x \o v, {"text"}) = Told(x, {"text"}) \o Told(v, {"text"})
        /\ Told(x \o v, {"thought"}) = Told(x, {"thought"}) \o Told(v, {"thought"})
        /\ Told(x \o v, {"call"}) = Told(x, {"call"}) \o Told(v, {"call"})
    BY <1>9
  <2> DEFINE d == TextIn(0, c)
             e == ThoughtIn(0, c)
  <2> HIDE DEF d, e, h
  <2>2. d \o <<>> = d /\ e \o <<>> = e /\ <<>> \o h = h
    <3>1. d \in Seq(Int) /\ e \in Seq(Int) /\ h \in Seq(Int)
      BY <1>2, <1>10 DEF d, e
    <3> QED
      BY ONLY <3>1
  <2> QED
    BY <1>5, <1>7, <2>1, <2>2 DEF d, e
<1> DEFINE r == x \o v
<1>12. /\ w \in Seq(PartRecords) /\ Told(w, {"text"}) = Told(r, {"text"})
       /\ Told(w, {"thought"}) = Told(r, {"thought"}) /\ Told(w, {"call"}) = Told(r, {"call"})
  <2>1. y \in PartRecords /\ y.data = <<>>
    BY DEF PartOf, PartRecords, Kinds
  <2> HIDE DEF y
  <2>2. ASSUME NEW K PROVE Told(<<y>>, K) = Told(<<>>, K)
    <3>1. Told(<<y>>, K) = IF y.kind \in K THEN y.data ELSE <<>>
      BY <2>1, ToldOne
    <3> QED
      BY <2>1, <3>1, ToldEmpty
  <2>3. CASE r = <<>>
    <3>1. w = <<y>> /\ <<y>> \in Seq(PartRecords)
      BY <1>3, <2>1, <2>3
    <3>2. /\ Told(<<y>>, {"text"}) = Told(<<>>, {"text"})
          /\ Told(<<y>>, {"thought"}) = Told(<<>>, {"thought"})
          /\ Told(<<y>>, {"call"}) = Told(<<>>, {"call"})
      BY <2>2
    <3> HIDE DEF r
    <3> QED
      BY <2>3, <3>1, <3>2
  <2>4. CASE r # <<>>
    BY <1>3, <1>8, <2>4
  <2> QED
    BY <2>3, <2>4
<1>13. /\ Due("openai", "claude", "text", p) = TextIn(0, c)
       /\ Due("openai", "claude", "thought", p) = ThoughtIn(0, c)
       /\ Due("openai", "claude", "call", p) = h
  <2>1. Heard("openai", "claude", "call") = {"call"}
    BY DEF Heard
  <2> QED
    BY <2>1 DEF Due, Untagged, ReadIn
<1> QED
  BY <1>11, <1>12, <1>13 DEF SaysAll

LEMMA AsItIs ==
  ASSUME NEW f, NEW p \in Seq(PartRecords), f # "openai" \/ Told(p, {"thought"}) = <<>>
  PROVE  /\ f # "openai" => SaysAll(f, f, p, p)
         /\ f = "openai" => SaysAll(f, f, Joined(p, {"text"}), p)
<1>1. ASSUME NEW kind PROVE Due(f, f, kind, p) = Told(p, {kind})
  BY DEF Due, Untagged, Heard
<1>2. /\ Due(f, f, "text", p) = Told(p, {"text"}) /\ Due(f, f, "call", p) = Told(p, {"call"})
      /\ Due(f, f, "thought", p) = Told(p, {"thought"})
  BY <1>1
<1>3. SaysAll(f, f, p, p)
  BY <1>2 DEF SaysAll
<1>4. CASE f = "openai"
  <2>1. /\ Joined(p, {"text"}) \in Seq(PartRecords)
        /\ Told(Joined(p, {"text"}), {"text"}) = Told(p, {"text"})
        /\ Told(Joined(p, {"text"}), {"thought"}) = <<>>
        /\ Told(Joined(p, {"text"}), {"call"}) = Told(p, {"call"})
    BY JoinedTold
  <2> QED
    BY <1>2, <1>4, <2>1 DEF SaysAll
<1> QED
  BY <1>3, <1>4

LEMMA JoinedSays ==
  ASSUME NEW p \in Seq(PartRecords), NEW f, NEW g, NEW S,
         f # g, <<f, g>> # <<"openai", "claude">>,
         Heard(f, g, "text") = S, Heard(f, g, "thought") = {},
         <<f, g>> = <<"claude", "openai">> => Heard(f, g, "call") = {"call"}
  PROVE  SaysAll(f, g, Joined(p, S), p)
<1>1. ASSUME NEW kind PROVE Due(f, g, kind, p) = Told(p, Heard(f, g, kind))
  BY DEF Due, Untagged
<1>2. /\ Due(f, g, "text", p) = Told(p, S) /\ Due(f, g, "thought", p) = Told(p, {})
      /\ <<f, g>> = <<"claude", "openai">> => Due(f, g, "call", p) = Told(p, {"call"})
  BY <1>1
<1>3. Told(p, {}) = <<>>
  BY ToldNothing
<1>4. /\ Joined(p, S) \in Seq(PartRecords)
      /\ Told(Joined(p, S), {"text"}) = Told(p, S)
      /\ Told(Joined(p, S), {"thought"}) = <<>>
      /\ Told(Joined(p, S), {"call"}) = Told(p, {"call"})
  BY JoinedTold
<1> QED
  BY <1>2, <1>3, <1>4 DEF SaysAll

LEMMA KeptSays ==
  ASSUME NEW p \in Seq(PartRecords), NEW g \in {"codex", "gemini"}
  PROVE  SaysAll("claude", g, Kept(p, {"text", "call"}), p)
<1> DEFINE w == Kept(p, {"text", "call"})
<1>1. /\ Heard("claude", g, "text") = {"text"} /\ Heard("claude", g, "thought") = {}
  BY DEF Heard
<1>2. Due("claude", g, "text", p) = Told(p, {"text"}) /\ Due("claude", g, "thought", p) = Told(p, {})
  BY <1>1 DEF Due, Untagged
<1>3. w \in Seq(PartRecords)
  BY KeptIs
<1>4. ASSUME NEW K PROVE Told(w, K) = Told(p, K \cap {"text", "call"})
  BY ToldKept
<1>5. /\ {"text"} \cap {"text", "call"} = {"text"} /\ {"thought"} \cap {"text", "call"} = {}
  OBVIOUS
<1> HIDE DEF w
<1>6. /\ Told(w, {"text"}) = Told(p, {"text"} \cap {"text", "call"})
      /\ Told(w, {"thought"}) = Told(p, {"thought"} \cap {"text", "call"})
  BY <1>4
<1>7. SaysAll("claude", g, w, p)
  BY <1>2, <1>3, <1>5, <1>6 DEF SaysAll
<1> QED
  BY <1>7 DEF w

LEMMA PartsSays ==
  ASSUME NEW p \in Seq(PartRecords), NEW f \in {"codex", "gemini"},
         f = "codex" => Told(p, {"thought"}) = <<>>
  PROVE  SaysAll(f, "claude", p, p)
<1>1. /\ Heard(f, "claude", "text") = {"text"}
      /\ Heard(f, "claude", "thought") = IF f = "codex" THEN {} ELSE {"thought"}
  BY DEF Heard
<1>2. Due(f, "claude", "text", p) = Told(p, {"text"})
      /\ Due(f, "claude", "thought", p) = IF f = "codex" THEN Told(p, {}) ELSE Told(p, {"thought"})
  BY <1>1 DEF Due, Untagged
<1>3. Told(p, {}) = <<>>
  BY ToldNothing
<1> QED
  BY <1>2, <1>3 DEF SaysAll

(* A whole response says what a stream is to say, whatever the pair.       *)
LEMMA WholeSays ==
  ASSUME NEW f \in Formats, NEW g \in Formats, <<f, g>> \notin Swapped,
         NEW a \in Answers, Possible(f, a), cut \in BOOLEAN,
         NEW w, w = TransformResponse(f, g, WholeMessage(f, a)).parts
  PROVE  SaysAll(f, g, w, PartsOf(f, a))
<1> DEFINE p == PartsOf(f, a)
           j == Joined(p, {"text"})
           m == WholeMessage(f, a)
<1>1. p \in Seq(PartRecords)
  BY LinesSay
<1>2. f \in {"openai", "codex"} => Told(p, {"thought"}) = <<>>
  BY <1>1, NoThoughts
<1>3. m.parts = IF f = "openai" THEN j ELSE p
  BY DEF WholeMessage, Message
<1>4. f = "openai" => ReadAlike(Told(p, {"text"}))
  <2>1. PICK n \in Nat : a \in [1..n -> Kinds]
    BY BoundAssumption DEF Answers
  <2> QED
    BY <2>1, OpenAITextRead
<1>5. w = TransformResponse(f, g, m).parts
  OBVIOUS
<1> HIDE DEF p, m
<1>6. CASE f = g
  <2>1. w = m.parts
    BY <1>5, <1>6 DEF TransformResponse, Formats
  <2> HIDE DEF j
  <2>2. /\ f # "openai" => SaysAll(f, f, p, p)
        /\ f = "openai" => SaysAll(f, f, Joined(p, {"text"}), p)
    BY <1>1, <1>2, AsItIs
  <2> QED
    BY <1>3, <1>6, <2>1, <2>2 DEF j, p
<1>7. CASE f = "openai" /\ g = "claude"
  <2>1. w = OpenAIMessageToClaude(m).parts
    BY <1>5, <1>7 DEF TransformResponse
  <2>2. w = OpenAIMessageToClaude(Message(j, "end")).parts
    BY <1>3, <1>7, <2>1 DEF OpenAIMessageToClaude, Message
  <2>3. SaysAll("openai", "claude", w, p)
    BY <1>1, <1>4, <1>7, <2>2, UntaggedSays
  <2> QED
    BY <1>7, <2>3 DEF p
<1>8. CASE f = "openai" /\ g \in {"codex", "gemini"}
  <2>1. w = j
    BY <1>3, <1>5, <1>8 DEF TransformResponse, OpenAIMessageToCodex, OpenAIMessageToGemini, Message
  <2>2. Heard(f, g, "text") = {"text"} /\ Heard(f, g, "thought") = {}
    BY <1>8 DEF Heard
  <2>3. f # g /\ <<f, g>> # <<"openai", "claude">> /\ <<f, g>> # <<"claude", "openai">>
    BY <1>8
  <2>4. SaysAll(f, g, Joined(p, {"text"}), p)
    BY <1>1, <2>2, <2>3, JoinedSays
  <2> QED
    BY <2>1, <2>4 DEF p
<1>9. CASE <<f, g>> \in {<<"claude", "openai">>, <<"codex", "openai">>}
  <2>1. w = j
    BY <1>3, <1>5, <1>9 DEF TransformResponse, ClaudeMessageToOpenAI, CodexMessageToOpenAI, Message
  <2>2. /\ Heard(f, g, "text") = {"text"} /\ Heard(f, g, "thought") = {}
        /\ <<f, g>> = <<"claude", "openai">> => Heard(f, g, "call") = {"call"}
    BY <1>9 DEF Heard
  <2>3. f # g /\ <<f, g>> # <<"openai", "claude">>
    BY <1>9
  <2>4. SaysAll(f, g, Joined(p, {"text"}), p)
    BY <1>1, <2>2, <2>3, JoinedSays
  <2> QED
    BY <2>1, <2>4 DEF p
<1>10. CASE f = "gemini" /\ g = "openai"
  <2>1. w = Joined(p, {"text", "thought"})
    BY <1>3, <1>5, <1>10 DEF TransformResponse, GeminiMessageToOpenAI, Message
  <2>2. Heard(f, g, "text") = {"text", "thought"} /\ Heard(f, g, "thought") = {}
    BY <1>10 DEF Heard
  <2>3. f # g /\ <<f, g>> # <<"openai", "claude">> /\ <<f, g>> # <<"claude", "openai">>
    BY <1>10
  <2>4. SaysAll(f, g, Joined(p, {"text", "thought"}), p)
    BY <1>1, <2>2, <2>3, JoinedSays
  <2> QED
    BY <2>1, <2>4 DEF p
<1>11. CASE f = "claude" /\ g \in {"codex", "gemini"}
  <2>1. w = Kept(p, {"text", "call"})
    BY <1>3, <1>5, <1>11 DEF TransformResponse, ClaudeMessageToCodex, ClaudeMessageToGemini, Message
  <2>2. SaysAll("claude", g, Kept(p, {"text", "call"}), p)
    BY <1>1, <1>11, KeptSays
  <2> QED
    BY <1>11, <2>1, <2>2 DEF p
<1>12. CASE f \in {"codex", "gemini"} /\ g = "claude"
  <2>1. w = p
    BY <1>3, <1>5, <1>12 DEF TransformResponse, CodexMessageToClaude, GeminiMessageToClaude, Message
  <2>2. SaysAll(f, "claude", p, p)
    BY <1>1, <1>2, <1>12, PartsSays
  <2> QED
    BY <1>12, <2>1, <2>2 DEF p
<1> QED
  BY <1>6, <1>7, <1>8, <1>9, <1>10, <1>11, <1>12 DEF Formats, Swapped

-------------------------------------------------------------------------------
(* The two translations agree, and the text is kept.                       *)
(* What is to be told is due, and the texts due are those shown.           *)
LEMMA InAllDue ==
  ASSUME CInv, TellInv, NEW kind
  PROVE  InAll(kind) = Due(from, to, kind, PartsOf(from, answer))
<1>1. /\ from \in Formats /\ answer \in Answers /\ Possible(from, answer) /\ cut \in BOOLEAN
  BY PairFormats DEF CInv, CTypes, TellInv, Shapes
<1>2. ToCome(from, to, kind, 0, Lines(from, answer))
         = IF Untagged(from, to, kind) THEN ReadIn(kind, 0, Told(PartsOf(from, answer), {"text"}))
           ELSE Told(PartsOf(from, answer), Heard(from, to, kind))
  BY <1>1, InAllIs
<1> QED
  BY <1>2 DEF InAll, Due

LEMMA ShownIsDue ==
  ASSUME CInv, TellInv
  PROVE  ShownText = Due(from, to, "text", PartsOf(from, answer))
<1>1. /\ from \in Formats /\ to \in Formats /\ answer \in Answers /\ Possible(from, answer)
      /\ cut \in BOOLEAN
  BY PairFormats DEF CInv, CTypes, TellInv, Shapes
<1>2. PICK n \in Nat : answer \in [1..n -> Kinds]
  BY <1>1, BoundAssumption DEF Answers
<1>3. CASE from = "openai" /\ to = "claude"
  <2>1. TextOf([k \in DOMAIN answer |-> IF answer[k] = "text" THEN PartsOf("openai", answer)[k]
                                        ELSE PartOf("text", <<>>)]) = FlattenSeq(Spoken(answer))
    BY <1>2, SpokenIs
  <2>2. ShownText = FlattenSeq(Spoken(answer))
    BY <1>3, <2>1 DEF ShownText
  <2>3. TextIn(0, Told(PartsOf("openai", answer), {"text"})) = FlattenSeq(Spoken(answer))
    BY <1>1, <1>2, <1>3, OpenAITextRead
  <2>4. Due("openai", "claude", "text", PartsOf("openai", answer))
           = TextIn(0, Told(PartsOf("openai", answer), {"text"}))
    BY DEF Due, Untagged, ReadIn
  <2> QED
    BY <1>3, <2>2, <2>3, <2>4
<1>4. CASE ~(from = "openai" /\ to = "claude")
  <2>1. ShownText = Told(PartsOf(from, answer), ShownKinds)
    BY <1>4 DEF ShownText, Told
  <2>2. Heard(from, to, "text") = ShownKinds
    BY <1>1, <1>4 DEF Heard, ShownKinds, Formats
  <2>3. Due(from, to, "text", PartsOf(from, answer))
           = Told(PartsOf(from, answer), Heard(from, to, "text"))
    BY <1>4 DEF Due, Untagged
  <2> QED
    BY <2>1, <2>2, <2>3
<1> QED
  BY <1>3, <1>4

LEMMA BeginsIt ==
  ASSUME NEW r \in Seq(Int), NEW w \in Seq(Int), NEW c, c = r \o w
  PROVE  IsPrefix(r, c)
BY DEF IsPrefix

(* What is read of the answer is its beginning, and all of it at the end.  *)
LEMMA ReadsItAll ==
  ASSUME CInv, TellInv, NEW kind \in Kinds
  PROVE  IsPrefix(ReadOf(kind), InAll(kind)) /\ (Complete => ReadOf(kind) = InAll(kind))
<1> DEFINE r == ReadOf(kind)
           c == InAll(kind)
           x == ToCome(from, to, kind, s.mode, rest)
<1>1. out \in Seq(EV) /\ rest \in Seq(EV) /\ s.mode \in 0..2
  BY DEF CInv, CTypes, TellInv, Shapes, FormedLines, Proper, States, EV
<1>2. r \in Seq(Int)
  BY <1>1, SaidTyped DEF ReadOf
<1>3. x \in Seq(Int)
  BY <1>1, ToComeTyped
<1>4. IF InStep THEN r \o x = c ELSE \E w \in Seq(Int) : r \o w = c
  BY DEF TellInv, Telling
<1>5. Complete => x = <<>> /\ InStep
  <2>1. SUFFICES ASSUME Complete PROVE x = <<>> /\ InStep
    OBVIOUS
  <2>2. rest = <<>> /\ InStep
    BY <2>1 DEF Complete, InStep
  <2>3. Said(<<>>, TextType(from), Heard(from, to, kind)) = <<>> /\ Tokens(<<>>) = <<>>
    BY SaidEmpty DEF Tokens
  <2>4. ReadIn(kind, s.mode, <<>>) = <<>>
    <3>1. <<>> \in Seq(Int)
      OBVIOUS
    <3> QED
      BY <1>1, <3>1, ReadsTyped DEF ReadIn
  <2>5. x = <<>>
    BY <2>2, <2>3, <2>4 DEF ToCome
  <2> QED
    BY <2>2, <2>5
<1> HIDE DEF r, c, x
<1>6. IsPrefix(r, c)
  <2>1. PICK w \in Seq(Int) : c = r \o w
    BY <1>3, <1>4
  <2> QED
    BY ONLY <1>2, <2>1, BeginsIt
<1>7. Complete => r = c
  <2>1. r \o <<>> = r
    BY ONLY <1>2
  <2> QED
    BY <1>4, <1>5, <2>1
<1> QED
  BY <1>6, <1>7 DEF r, c

LEMMA KeptThen == CInv /\ TellInv /\ pair \notin Swapped => TextKept
<1>1. SUFFICES ASSUME CInv, TellInv, pair \notin Swapped PROVE TextKept
  OBVIOUS
<1>2. "text" \in Kinds
  BY DEF Kinds
<1>3. IsPrefix(ReadOf("text"), InAll("text")) /\ (Complete => ReadOf("text") = InAll("text"))
  BY <1>1, <1>2, ReadsItAll
<1>4. InAll("text") = ShownText
  <2>1. InAll("text") = Due(from, to, "text", PartsOf(from, answer))
    BY <1>1, InAllDue
  <2> QED
    BY <1>1, <2>1, ShownIsDue
<1>5. ~stream /\ outcome = Success => TextOf(Kept(body.parts, {"text"})) = ShownText
  <2>1. SUFFICES ASSUME ~stream, outcome = Success
                 PROVE TextOf(Kept(body.parts, {"text"})) = ShownText
    OBVIOUS
  <2> DEFINE w == TransformResponse(from, to, WholeMessage(from, answer)).parts
  <2>2. body.parts = w
    BY <1>1, <2>1 DEF TellInv, Shapes
  <2>3. /\ from \in Formats /\ to \in Formats /\ answer \in Answers /\ Possible(from, answer)
        /\ cut \in BOOLEAN
    BY <1>1, PairFormats DEF CInv, CTypes, TellInv, Shapes
  <2>4. <<from, to>> \notin Swapped
    BY <1>1, PairsAssumption DEF CInv, CTypes, from, to
  <2> HIDE DEF w
  <2>5. SaysAll(from, to, w, PartsOf(from, answer))
    BY <2>3, <2>4, WholeSays DEF w
  <2> QED
    BY <1>1, <2>2, <2>5, ShownIsDue DEF SaysAll, Told
<1> QED
  BY <1>3, <1>4, <1>5 DEF TextKept

LEMMA WholeThen == CInv /\ (pair \notin Swapped => TellInv) => SameAsWhole
<1>1. SUFFICES ASSUME CInv, TellInv, pair \notin Swapped, Complete PROVE SameAsWhole
  BY DEF SameAsWhole, Swapped
<1> DEFINE w == TransformResponse(from, to, WholeMessage(from, answer)).parts
           p == PartsOf(from, answer)
<1>2. ASSUME NEW kind \in Kinds PROVE ReadOf(kind) = Due(from, to, kind, p)
  <2>1. ReadOf(kind) = InAll(kind)
    BY <1>1, ReadsItAll
  <2>2. InAll(kind) = Due(from, to, kind, p)
    BY <1>1, InAllDue
  <2> QED
    BY <2>1, <2>2
<1>3. /\ from \in Formats /\ to \in Formats /\ answer \in Answers /\ Possible(from, answer)
      /\ cut \in BOOLEAN
  BY <1>1, PairFormats DEF CInv, CTypes, TellInv, Shapes
<1>4. <<from, to>> \notin Swapped /\ pair = <<from, to>>
  BY <1>1, PairsAssumption DEF CInv, CTypes, from, to
<1>5. SaysAll(from, to, w, p)
  <2> HIDE DEF p
  <2> QED
    BY <1>3, <1>4, WholeSays DEF p
<1>6. "text" \in Kinds /\ "thought" \in Kinds /\ "call" \in Kinds
  BY DEF Kinds
<1>7. /\ ReadOf("text") = Due(from, to, "text", p)
      /\ ReadOf("thought") = Due(from, to, "thought", p)
      /\ ReadOf("call") = Due(from, to, "call", p)
  BY <1>2, <1>6
<1>8. CarriesCalls => from = to \/ <<from, to>> \in {<<"openai", "claude">>, <<"claude", "openai">>}
  BY <1>4 DEF CarriesCalls
<1> HIDE DEF w, p
<1>9. /\ ReadOf("text") = TextOf(Kept(w, {"text"}))
      /\ ReadOf("thought") = TextOf(Kept(w, {"thought"}))
      /\ CarriesCalls => ReadOf("call") = TextOf(Kept(w, {"call"}))
  BY <1>5, <1>7, <1>8 DEF SaysAll, Told
<1> QED
  BY <1>9 DEF SameAsWhole, w

(* Whatever the two formats, what a client has read is the beginning of    *)
(* the upstream's text; a stream that ended in full, and a whole response, *)
(* hold all of it. Only the converters between Codex and Gemini are left   *)
(* out: each reads the other's format.                                     *)
THEOREM TextIsKept ==
  ASSUME Pairs \cap Swapped = {}
  PROVE  Spec => []TextKept
<1>1. Spec => []CInv
  BY AdapterInvariant
<1>2. Spec => [](pair \notin Swapped => TellInv)
  BY TellInvariant
<1>3. CInv /\ (pair \notin Swapped => TellInv) => TextKept
  BY KeptThen DEF CInv, CTypes
<1> QED
  BY <1>1, <1>2, <1>3, PTL

(* A stream that ended in full tells its client the same text, the same    *)
(* thoughts and, where streams carry calls, the same calls as the whole    *)
(* response of the same answer.                                            *)
THEOREM StreamSaysTheWhole == Spec => []SameAsWhole
<1>1. Spec => []CInv
  BY AdapterInvariant
<1>2. Spec => [](pair \notin Swapped => TellInv)
  BY TellInvariant
<1>3. CInv /\ (pair \notin Swapped => TellInv) => SameAsWhole
  BY WholeThen
<1> QED
  BY <1>1, <1>2, <1>3, PTL
===============================================================================
