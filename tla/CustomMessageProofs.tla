-------------------------- MODULE CustomMessageProofs --------------------------
(***************************************************************************)
(* Theorems about the messages a custom provider's clients read, which     *)
(* rest on the order of the upstream's lines: why a message ended agrees   *)
(* with its calls, and a Claude message's blocks are opened and closed.    *)
(***************************************************************************)
EXTENDS CustomAdapterProofs

-------------------------------------------------------------------------------
(* The order of an upstream's lines.                                       *)
(* Where in an answer a line may come: a message is begun once and ended   *)
(* once, and in OpenAI's format the calls come after the text.             *)
Stage(x) ==
    IF x.type \in {"message_start", "response.created"} THEN 0
    ELSE IF x.type \in {"message_delta", "finish", "finished", "response.done"} THEN 3
    ELSE IF x.type \in {"message_stop", "usage", "[DONE]", "error"} THEN 4
    ELSE IF x.type = "chunk" /\ x.kind = "call" THEN 2 ELSE 1

Staged(q) ==
    \A j, k \in 1..Len(q) : j < k =>
        \/ Stage(q[j]) < Stage(q[k])
        \/ Stage(q[j]) = Stage(q[k]) /\ Stage(q[j]) \notin {0, 3}

LEMMA StageIs == ASSUME NEW x PROVE Stage(x) \in 0..4
BY DEF Stage

LEMMA StagedConcat ==
  ASSUME NEW p \in Seq(EV), NEW q \in Seq(EV), NEW b \in 1..2, Staged(p), Staged(q),
         \A k \in 1..Len(p) : Stage(p[k]) <= b, \A k \in 1..Len(q) : Stage(q[k]) >= b,
         NEW r, r = p \o q
  PROVE  r \in Seq(EV) /\ Staged(r)
<1>1. /\ Len(r) = Len(p) + Len(q) /\ r \in Seq(EV) /\ Len(p) \in Nat /\ Len(q) \in Nat
      /\ \A i \in 1..Len(p) : r[i] = p[i]
      /\ \A i \in 1..Len(q) : r[Len(p) + i] = q[i]
  BY ConcatPlaces
<1>2. ASSUME NEW k \in 1..Len(r), k > Len(p)
      PROVE  k - Len(p) \in 1..Len(q) /\ r[k] = q[k - Len(p)]
  <2> DEFINE i == k - Len(p)
  <2>1. i \in 1..Len(q) /\ k = Len(p) + i
    BY <1>1, <1>2
  <2> HIDE DEF i
  <2>2. r[k] = q[i]
    BY <1>1, <2>1
  <2> QED
    BY <2>1, <2>2 DEF i
<1>3. ASSUME NEW j \in 1..Len(r), NEW k \in 1..Len(r), j < k
      PROVE  \/ Stage(r[j]) < Stage(r[k])
             \/ Stage(r[j]) = Stage(r[k]) /\ Stage(r[j]) \notin {0, 3}
  <2>1. CASE k <= Len(p)
    <3>1. j \in 1..Len(p) /\ k \in 1..Len(p)
      BY <1>1, <1>3, <2>1
    <3> QED
      BY <1>1, <1>3, <3>1 DEF Staged
  <2>2. CASE j > Len(p)
    <3>1. k > Len(p)
      BY <1>1, <1>3, <2>2
    <3> DEFINE i == j - Len(p)
               m == k - Len(p)
    <3>2. i \in 1..Len(q) /\ r[j] = q[i] /\ m \in 1..Len(q) /\ r[k] = q[m]
      BY <1>2, <2>2, <3>1
    <3>3. i < m
      BY <1>1, <1>3
    <3> HIDE DEF i, m
    <3>4. \/ Stage(q[i]) < Stage(q[m])
          \/ Stage(q[i]) = Stage(q[m]) /\ Stage(q[i]) \notin {0, 3}
      BY ONLY Staged(q), <3>2, <3>3 DEF Staged
    <3> QED
      BY <3>2, <3>4
  <2>3. CASE j <= Len(p) /\ k > Len(p)
    <3>1. j \in 1..Len(p) /\ r[j] = p[j]
      BY <1>1, <2>3
    <3>2. Stage(r[j]) <= b /\ Stage(r[k]) >= b
      BY <1>2, <2>3, <3>1
    <3> DEFINE x == Stage(r[j])
               y == Stage(r[k])
    <3>3. x \in 0..4 /\ y \in 0..4
      BY StageIs
    <3>4. x <= b /\ y >= b
      BY <3>2
    <3> HIDE DEF x, y
    <3>5. x < y \/ (x = y /\ x \notin {0, 3})
      BY <3>3, <3>4
    <3> QED
      BY <3>5 DEF x, y
  <2> QED
    BY <1>1, <2>1, <2>2, <2>3
<1> QED
  BY <1>1, <1>3 DEF Staged

StageOf(n) == {x \in EV : Stage(x) = n}

LEMMA OneStage ==
  ASSUME NEW n \in 1..2, NEW q \in Seq(StageOf(n))
  PROVE  q \in Seq(EV) /\ Staged(q) /\ \A k \in 1..Len(q) : Stage(q[k]) = n
<1>1. \A k \in 1..Len(q) : q[k] \in StageOf(n)
  OBVIOUS
<1>2. StageOf(n) \subseteq EV
  BY DEF StageOf
<1> QED
  BY <1>1, <1>2 DEF StageOf, Staged

LEMMA CallsLast ==
  ASSUME NEW n \in Nat, NEW a \in [1..n -> Kinds], InOrder(a)
  PROVE  \E m \in 0..n : \A k \in 1..n : a[k] = "call" <=> k > m
<1> DEFINE S == {j \in Nat : j <= n => \E m \in 0..j : \A k \in 1..j : a[k] = "call" <=> k > m}
<1>1. 0 \in S
  OBVIOUS
<1>2. ASSUME NEW j \in Nat, j \in S PROVE j + 1 \in S
  <2>1. SUFFICES ASSUME j + 1 <= n
                 PROVE  \E m \in 0..j + 1 : \A k \in 1..j + 1 : a[k] = "call" <=> k > m
    OBVIOUS
  <2>2. PICK m \in 0..j : \A k \in 1..j : a[k] = "call" <=> k > m
    BY <1>2, <2>1
  <2>3. j + 1 \in 1..n /\ \A k \in 1..j + 1 : k \in 1..j \/ k = j + 1
    BY <2>1
  <2>4. CASE a[j + 1] = "call"
    <3>1. \A k \in 1..j + 1 : a[k] = "call" <=> k > m
      BY <2>2, <2>3, <2>4
    <3>2. m \in 0..j + 1
      OBVIOUS
    <3> QED
      BY <3>1, <3>2
  <2>5. CASE a[j + 1] # "call"
    <3>1. ASSUME NEW k \in 1..j, a[k] = "call" PROVE FALSE
      <4>1. k \in DOMAIN a /\ j + 1 \in DOMAIN a /\ k < j + 1
        BY <2>1, <2>3
      <4>2. Rank(a[k]) <= Rank(a[j + 1])
        BY <4>1 DEF InOrder
      <4>3. a[j + 1] \in {"text", "thought"}
        BY <2>3, <2>5 DEF Kinds
      <4> QED
        BY <3>1, <4>2, <4>3 DEF Rank
    <3>2. \A k \in 1..j + 1 : a[k] # "call" /\ ~(k > j + 1)
      BY <2>3, <2>5, <3>1
    <3>3. j + 1 \in 0..j + 1
      OBVIOUS
    <3> QED
      BY <3>2, <3>3
  <2> QED
    BY <2>4, <2>5
<1>3. Nat \subseteq S
  <2> HIDE DEF S
  <2> QED
    BY <1>1, <1>2, SetInduction
<1>4. n \in S
  BY <1>3
<1> QED
  BY <1>4

LEMMA PartStage ==
  ASSUME NEW n \in Nat, NEW a \in [1..n -> Kinds], NEW k \in 1..n, NEW q,
         q = PartLines("openai", a, k)
  PROVE  q \in Seq(StageOf(IF a[k] = "call" THEN 2 ELSE 1))
<1>1. "openai" \in Formats
  BY DEF Formats
<1>2. PartTypes("openai") = {"chunk"} /\ "chunk" \in Types
  BY DEF PartTypes, Types, OpenAITypes
<1>3. q \in Seq(Events({"chunk"}))
  BY <1>1, <1>2, PartLinesTyped
<1>4. \A x \in Events({"chunk"}) : x \in EV /\ x.type = "chunk"
  BY <1>2 DEF Events, EV
<1>5. Len(q) \in Nat /\ \A j \in 1..Len(q) : q[j] \in Events({"chunk"})
  BY <1>3
<1>6. ASSUME NEW j \in 1..Len(q) PROVE q[j].kind = "call" <=> a[k] = "call"
  <2>1. CASE a[k] = "call"
    <3>1. q = <<Chunk(CallNo(a, k), "call", <<>>), Chunk(CallNo(a, k), "call", <<k>>)>>
      BY <2>1 DEF PartLines
    <3> DEFINE x == Chunk(CallNo(a, k), "call", <<>>)
               y == Chunk(CallNo(a, k), "call", <<k>>)
    <3>2. x.kind = "call" /\ y.kind = "call" /\ q = <<x, y>>
      BY <3>1 DEF Chunk, E
    <3> HIDE DEF x, y
    <3>3. Len(q) = 2 /\ q[1] = x /\ q[2] = y
      BY <3>2
    <3>5. Len(q) = 2
      BY <3>3
    <3>4. j = 1 \/ j = 2
      BY ONLY <3>5, j \in 1..Len(q)
    <3> QED
      BY <2>1, <3>2, <3>3, <3>4
  <2>2. CASE a[k] # "call"
    <3>1. a[k] \in {"text", "thought"}
      BY <2>2 DEF Kinds
    <3>2. q = Texts(<<k>>) \/ q = Texts(Tagged(a, k))
      BY <3>1 DEF PartLines
    <3>3. PICK c \in Seq(Int) : q = Texts(c)
      <4>1. <<k>> \in Seq(Int) /\ Tagged(a, k) \in Seq(Int)
        BY DEF Tagged, Open, Close
      <4> QED
        BY <3>2, <4>1
    <3>4. q = [i \in 1..Len(c) |-> Chunk(0, "text", <<c[i]>>)]
      BY <3>3 DEF Texts
    <3>5. Len(q) = Len(c)
      BY <3>4
    <3>6. q[j] = Chunk(0, "text", <<c[j]>>)
      BY <3>4, <3>5
    <3> QED
      BY <2>2, <3>6 DEF Chunk, E
  <2> QED
    BY <2>1, <2>2
<1>7. \A j \in 1..Len(q) : q[j] \in StageOf(IF a[k] = "call" THEN 2 ELSE 1)
  BY <1>4, <1>5, <1>6 DEF StageOf, Stage
<1> QED
  BY <1>3, <1>7

LEMMA OpenAIPartsStaged ==
  ASSUME NEW n \in Nat, NEW a \in [1..n -> Kinds], InOrder(a), NEW p, p = PartsLines("openai", a)
  PROVE  \E u \in Seq(StageOf(1)), v \in Seq(StageOf(2)) : p = u \o v
<1> DEFINE ss == [k \in 1..n |-> PartLines("openai", a, k)]
<1>1. PICK m \in 0..n : \A k \in 1..n : a[k] = "call" <=> k > m
  BY CallsLast
<1>2. p = FlattenSeq(ss)
  <2>1. DOMAIN a = 1..n
    OBVIOUS
  <2> QED
    BY <2>1 DEF PartsLines
<1>3. ASSUME NEW k \in 1..n
      PROVE  /\ k <= m => ss[k] \in Seq(StageOf(1))
             /\ k > m => ss[k] \in Seq(StageOf(2))
  <2>1. ss[k] \in Seq(StageOf(IF a[k] = "call" THEN 2 ELSE 1))
    BY PartStage
  <2>2. a[k] = "call" <=> k > m
    BY <1>1
  <2>3. ~(k <= m /\ k > m)
    BY <1>1
  <2> HIDE DEF ss
  <2> QED
    BY <2>1, <2>2, <2>3
<1>4. DOMAIN ss = 1..n
  OBVIOUS
<1>5. StageOf(1) \subseteq EV /\ StageOf(2) \subseteq EV
  BY DEF StageOf
<1> HIDE DEF ss
<1>6. ss \in Seq(Seq(EV)) /\ Len(ss) = n
  <2>1. \A k \in 1..n : ss[k] \in Seq(EV)
    <3>1. ASSUME NEW k \in 1..n PROVE ss[k] \in Seq(EV)
      <4>1. ss[k] \in Seq(StageOf(1)) \/ ss[k] \in Seq(StageOf(2))
        BY <1>1, <1>3
      <4> QED
        BY <1>5, <4>1
    <3> QED
      BY <3>1
  <2>2. ss = [k \in 1..n |-> ss[k]]
    BY DEF ss
  <2>3. ss \in [1..n -> Seq(EV)]
    BY <2>1, <2>2
  <2> QED
    BY <2>3
<1>7. CASE m = 0
  <2>1. \A k \in 1..n : ss[k] \in Seq(StageOf(2))
    BY <1>3, <1>7
  <2>2. ss \in Seq(Seq(StageOf(2)))
    BY <1>6, <2>1
  <2>3. p \in Seq(StageOf(2))
    BY <1>2, <2>2, FlattenTyped
  <2>4. p = <<>> \o p /\ <<>> \in Seq(StageOf(1))
    BY <2>3
  <2> QED
    BY <2>3, <2>4
<1>8. CASE m # 0
  <2> DEFINE x == SubSeq(ss, 1, m)
             y == SubSeq(ss, m + 1, Len(ss))
  <2>1. m \in 1..Len(ss)
    BY <1>6, <1>8
  <2>2. x \in Seq(Seq(EV)) /\ y \in Seq(Seq(EV)) /\ ss = x \o y
    BY <1>6, <2>1, RestSplit
  <2>3. Len(x) = m /\ \A k \in 1..m : x[k] = ss[k]
    BY <1>6, <2>1
  <2>4. Len(y) = n - m /\ \A k \in 1..n - m : y[k] = ss[m + k]
    BY <1>6, <2>1
  <2> HIDE DEF x, y
  <2>5. x \in Seq(Seq(StageOf(1)))
    <3>1. \A k \in 1..m : x[k] \in Seq(StageOf(1))
      BY <1>1, <1>3, <2>3
    <3> QED
      BY <2>2, <2>3, <3>1
  <2>6. y \in Seq(Seq(StageOf(2)))
    <3>1. ASSUME NEW k \in 1..n - m PROVE y[k] \in Seq(StageOf(2))
      <4>1. m + k \in 1..n /\ m + k > m
        BY <1>1
      <4>2. ss[m + k] \in Seq(StageOf(2))
        BY <1>3, <4>1
      <4> QED
        BY <2>4, <4>2
    <3> QED
      BY <2>2, <2>4, <3>1
  <2> DEFINE u == FlattenSeq(x)
             v == FlattenSeq(y)
  <2>7. u \in Seq(StageOf(1)) /\ v \in Seq(StageOf(2))
    BY <2>5, <2>6, FlattenTyped
  <2>8. p = u \o v
    BY <1>2, <2>2, FlattenConcat
  <2> HIDE DEF u, v
  <2> QED
    BY <2>7, <2>8
<1> QED
  BY <1>7, <1>8

LEMMA PartsStaged ==
  ASSUME NEW f \in Formats, NEW n \in Nat, NEW a \in [1..n -> Kinds], Possible(f, a),
         NEW p, p = PartsLines(f, a)
  PROVE  p \in Seq(EV) /\ Staged(p) /\ \A k \in 1..Len(p) : Stage(p[k]) \in 1..2
<1>1. CASE f = "openai"
  <2>1. InOrder(a)
    BY <1>1 DEF Possible
  <2>2. PICK u \in Seq(StageOf(1)), v \in Seq(StageOf(2)) : p = u \o v
    BY <1>1, <2>1, OpenAIPartsStaged
  <2>3. u \in Seq(EV) /\ Staged(u) /\ \A k \in 1..Len(u) : Stage(u[k]) = 1
    BY OneStage
  <2>4. v \in Seq(EV) /\ Staged(v) /\ \A k \in 1..Len(v) : Stage(v[k]) = 2
    BY OneStage
  <2>5. /\ \A k \in 1..Len(u) : Stage(u[k]) <= 1
        /\ \A k \in 1..Len(v) : Stage(v[k]) >= 1
        /\ 1 \in 1..2
    BY <2>3, <2>4
  <2>6. p \in Seq(EV) /\ Staged(p)
    BY <2>2, <2>3, <2>4, <2>5, StagedConcat
  <2>7. ASSUME NEW k \in 1..Len(p) PROVE Stage(p[k]) \in 1..2
    <3>1. /\ Len(p) = Len(u) + Len(v) /\ Len(u) \in Nat /\ Len(v) \in Nat
          /\ \A i \in 1..Len(u) : p[i] = u[i]
          /\ \A i \in 1..Len(v) : p[Len(u) + i] = v[i]
      BY <2>2, ConcatPlaces
    <3>2. CASE k <= Len(u)
      <4>1. k \in 1..Len(u)
        BY <3>1, <3>2
      <4> QED
        BY <2>3, <3>1, <4>1
    <3>3. CASE k > Len(u)
      <4>1. PICK i \in 1..Len(v) : k = Len(u) + i
        <5>1. k - Len(u) \in 1..Len(v) /\ k = Len(u) + (k - Len(u))
          BY <3>1, <3>3
        <5> QED
          BY <5>1
      <4> QED
        BY <2>4, <3>1, <4>1
    <3> QED
      BY <3>1, <3>2, <3>3
  <2> QED
    BY <2>6, <2>7
<1>2. CASE f # "openai"
  <2>1. p \in Seq(Events(PartTypes(f)))
    BY PartsTyped DEF PartsLines
  <2>2. Events(PartTypes(f)) \subseteq StageOf(1)
    <3>1. PartTypes(f) \subseteq Types \ {"message_start", "response.created", "message_delta",
             "finish", "finished", "response.done", "message_stop", "usage", "[DONE]", "error", "chunk"}
      BY <1>2 DEF PartTypes, Formats, Types, ClaudeTypes, OpenAITypes, GeminiTypes, CodexTypes
    <3>2. ASSUME NEW x \in Events(PartTypes(f)) PROVE x \in EV /\ Stage(x) = 1
      BY <3>1 DEF Events, EV, Stage
    <3> QED
      BY <3>2 DEF StageOf
  <2>3. p \in Seq(StageOf(1))
    BY <2>1, <2>2
  <2> QED
    BY <2>3, OneStage
<1> QED
  BY <1>1, <1>2

(* An end, as the answer's is told: a reason the format has a word for.    *)
Reasoned(a) ==
    {x \in EV : /\ x.type \in {"message_delta", "finish"} => x.kind = Reason(a)
                /\ x.type = "finished" => x.kind # "calls"}

Stops(q) ==
    \A k \in 1..Len(q) : q[k].type = "message_stop" => k > 1 /\ q[k - 1].type = "message_delta"

LEMMA OpeningStaged ==
  ASSUME NEW f \in Formats, NEW x, x = Opening(f), NEW a
  PROVE  /\ x \in Seq(EV) /\ Staged(x) /\ \A k \in 1..Len(x) : Stage(x[k]) <= 1
         /\ x \in Seq(Reasoned(a))
         /\ f = "codex" => Len(x) = 1 /\ x[1] = Created
<1> DEFINE y == Chunk(0, "text", <<>>)
<1>1. MessageStart \in EV /\ Created \in EV /\ y \in EV
  <2>1. "text" \in EventKinds /\ <<>> \in Seq(Int) /\ 0 \in Nat /\ "end" \in EventKinds
    BY DEF EventKinds
  <2> QED
    BY <2>1, MadeEvents
<1>2. /\ Stage(MessageStart) = 0 /\ Stage(Created) = 0 /\ Stage(y) = 1
      /\ \A z \in {MessageStart, Created, y} : z.type \notin {"message_delta", "finish", "finished"}
  BY DEF Stage, MessageStart, Created, Chunk, E
<1> HIDE DEF y
<1>3. ASSUME NEW z \in {MessageStart, Created, y}, x = <<z>>
      PROVE  /\ x \in Seq(EV) /\ Staged(x) /\ \A k \in 1..Len(x) : Stage(x[k]) <= 1
             /\ x \in Seq(Reasoned(a)) /\ Len(x) = 1 /\ x[1] = z
  <2>1. Len(x) = 1 /\ x[1] = z
    BY <1>3
  <2>2. z \in EV /\ z \in Reasoned(a)
    BY <1>1, <1>2 DEF Reasoned
  <2>3. \A k \in 1..Len(x) : k = 1
    BY <2>1
  <2>4. x \in Seq(EV) /\ x \in Seq(Reasoned(a))
    BY <1>3, <2>2
  <2>5. Stage(z) <= 1
    BY <1>2
  <2> QED
    BY <2>1, <2>3, <2>4, <2>5 DEF Staged
<1>4. CASE f = "gemini"
  <2>1. x = <<>>
    BY <1>4 DEF Opening
  <2>2. x \in Seq(EV) /\ x \in Seq(Reasoned(a)) /\ Len(x) = 0
    BY <2>1
  <2> QED
    BY <1>4, <2>2 DEF Staged
<1>5. CASE f = "claude"
  <2>1. x = <<MessageStart>>
    BY <1>5 DEF Opening
  <2> QED
    BY <1>3, <1>5, <2>1
<1>6. CASE f = "openai"
  <2>1. x = <<y>>
    BY <1>6 DEF Opening, y
  <2> QED
    BY <1>3, <1>6, <2>1
<1>7. CASE f = "codex"
  <2>1. x = <<Created>>
    BY <1>7 DEF Opening
  <2> QED
    BY <1>3, <1>7, <2>1
<1> QED
  BY <1>4, <1>5, <1>6, <1>7 DEF Formats

LEMMA EndingStaged ==
  ASSUME NEW f \in Formats, NEW a, cut \in BOOLEAN, NEW z, z = Ending(f, a)
  PROVE  /\ z \in Seq(EV) /\ Staged(z) /\ \A k \in 1..Len(z) : Stage(z[k]) >= 3
         /\ z \in Seq(Reasoned(a))
         /\ Stops(z)
<1> DEFINE u == E("usage", 0, "none", <<>>)
           r == Finished(IF cut THEN "length" ELSE "end")
           d == MessageDelta(Reason(a))
           h == Finish(Reason(a))
<1>1. /\ u \in EV /\ r \in EV /\ d \in EV /\ h \in EV
      /\ MessageStop \in EV /\ Done \in EV /\ ResponseDone \in EV
  <2>1. /\ "text" \in EventKinds /\ <<>> \in Seq(Int) /\ 0 \in Nat /\ Reason(a) \in EventKinds
        /\ (IF cut THEN "length" ELSE "end") \in EventKinds
    BY DEF EventKinds, Reason
  <2>2. r \in EV
    BY <2>1, MadeEvents
  <2> HIDE DEF r
  <2>3. u \in EV /\ d \in EV /\ h \in EV /\ MessageStop \in EV /\ Done \in EV /\ ResponseDone \in EV
    BY <2>1, MadeEvents
  <2> QED
    BY <2>2, <2>3
<1>2. /\ Stage(d) = 3 /\ Stage(h) = 3 /\ Stage(r) = 3 /\ Stage(ResponseDone) = 3
      /\ Stage(u) = 4 /\ Stage(MessageStop) = 4 /\ Stage(Done) = 4
  BY DEF Stage, MessageDelta, Finish, Finished, ResponseDone, MessageStop, Done, E
<1>3. /\ d \in Reasoned(a) /\ h \in Reasoned(a) /\ r \in Reasoned(a) /\ ResponseDone \in Reasoned(a)
      /\ u \in Reasoned(a) /\ MessageStop \in Reasoned(a) /\ Done \in Reasoned(a)
  <2>1. /\ d.type = "message_delta" /\ d.kind = Reason(a) /\ h.type = "finish" /\ h.kind = Reason(a)
        /\ r.type = "finished" /\ r.kind # "calls" /\ ResponseDone.type = "response.done"
        /\ u.type = "usage" /\ MessageStop.type = "message_stop" /\ Done.type = "[DONE]"
    BY DEF MessageDelta, Finish, Finished, ResponseDone, MessageStop, Done, E
  <2> HIDE DEF u, r, d, h
  <2> QED
    BY <1>1, <2>1 DEF Reasoned
<1>4. /\ d.type = "message_delta" /\ h.type # "message_stop" /\ r.type # "message_stop"
      /\ u.type # "message_stop" /\ Done.type # "message_stop" /\ ResponseDone.type # "message_stop"
  BY DEF MessageDelta, Finish, Finished, ResponseDone, Done, E
<1> HIDE DEF u, r, d, h
<1>5. CASE f = "claude"
  <2>1. z = <<d, MessageStop>>
    BY <1>5 DEF Ending, d
  <2>2. Len(z) = 2 /\ z[1] = d /\ z[2] = MessageStop /\ z \in Seq(EV) /\ z \in Seq(Reasoned(a))
    BY <1>1, <1>3, <2>1
  <2>3. \A k \in 1..Len(z) : k = 1 \/ k = 2
    BY <2>2
  <2>4. Staged(z) /\ \A k \in 1..Len(z) : Stage(z[k]) >= 3
    BY <1>2, <2>2, <2>3 DEF Staged
  <2>5. Stops(z)
    <3>1. SUFFICES ASSUME NEW k \in 1..Len(z), z[k].type = "message_stop"
                   PROVE k > 1 /\ z[k - 1].type = "message_delta"
      BY DEF Stops
    <3>2. k = 2
      BY <1>4, <2>2, <2>3, <3>1
    <3>3. k - 1 = 1
      BY <3>2
    <3> QED
      BY <1>4, <2>2, <3>2, <3>3
  <2> QED
    BY <2>2, <2>4, <2>5
<1>6. CASE f = "openai"
  <2>1. z = <<h, u, Done>>
    BY <1>6 DEF Ending, h, u
  <2>2. /\ Len(z) = 3 /\ z[1] = h /\ z[2] = u /\ z[3] = Done
        /\ z \in Seq(EV) /\ z \in Seq(Reasoned(a))
    BY <1>1, <1>3, <2>1
  <2>3. \A k \in 1..Len(z) : k = 1 \/ k = 2 \/ k = 3
    BY <2>2
  <2>4. Staged(z) /\ \A k \in 1..Len(z) : Stage(z[k]) >= 3
    BY <1>2, <2>2, <2>3 DEF Staged
  <2>5. Stops(z)
    BY <1>4, <2>2, <2>3 DEF Stops
  <2> QED
    BY <2>2, <2>4, <2>5
<1>7. CASE f \in {"codex", "gemini"}
  <2>1. PICK y \in {ResponseDone, r} : z = <<y>>
    BY <1>7 DEF Ending, r
  <2>2. Len(z) = 1 /\ z[1] = y
    BY <2>1
  <2>3. z \in Seq(EV) /\ z \in Seq(Reasoned(a))
    BY <1>1, <1>3, <2>1
  <2>4. \A k \in 1..Len(z) : k = 1
    BY <2>2
  <2>5. Stage(y) = 3 /\ y.type # "message_stop"
    BY <1>2, <1>4
  <2> QED
    BY <2>2, <2>3, <2>4, <2>5 DEF Staged, Stops
<1> QED
  BY <1>5, <1>6, <1>7 DEF Formats

LEMMA LinesInOrder ==
  ASSUME NEW f \in Formats, NEW a \in Answers, Possible(f, a), cut \in BOOLEAN,
         NEW r, r = Lines(f, a)
  PROVE  /\ r \in Seq(EV) /\ Staged(r) /\ r \in Seq(Reasoned(a))
         /\ Stops(r)
         /\ f = "codex" => r[1].type = "response.created"
<1>1. PICK n \in Nat : a \in [1..n -> Kinds]
  BY BoundAssumption DEF Answers
<1> DEFINE x == Opening(f)
           p == PartsLines(f, a)
           z == Ending(f, a)
           y == x \o p
<1>2. p \in Seq(EV) /\ Staged(p) /\ \A k \in 1..Len(p) : Stage(p[k]) \in 1..2
  BY <1>1, PartsStaged
<1>3. /\ x \in Seq(EV) /\ Staged(x) /\ \A k \in 1..Len(x) : Stage(x[k]) <= 1
      /\ x \in Seq(Reasoned(a)) /\ (f = "codex" => Len(x) = 1 /\ x[1] = Created)
  BY OpeningStaged
<1>4. /\ z \in Seq(EV) /\ Staged(z) /\ \A k \in 1..Len(z) : Stage(z[k]) >= 3
      /\ z \in Seq(Reasoned(a)) /\ Stops(z)
  BY EndingStaged
<1>5. r = y \o z
  BY LinesAre
<1>6. y = x \o p
  OBVIOUS
<1> HIDE DEF x, p, z, y
<1>7. \A k \in 1..Len(p) : Stage(p[k]) >= 1 /\ Stage(p[k]) <= 2
  BY <1>2
<1>8. y \in Seq(EV) /\ Staged(y)
  <2>1. 1 \in 1..2 /\ \A k \in 1..Len(p) : Stage(p[k]) >= 1
    BY <1>7
  <2> QED
    BY <1>2, <1>3, <1>6, <2>1, StagedConcat
<1>9. /\ Len(y) = Len(x) + Len(p) /\ Len(x) \in Nat /\ Len(p) \in Nat
      /\ \A i \in 1..Len(x) : y[i] = x[i]
      /\ \A i \in 1..Len(p) : y[Len(x) + i] = p[i]
  BY <1>2, <1>3, <1>6, ConcatPlaces
<1>10. \A k \in 1..Len(y) : Stage(y[k]) <= 2
  <2>1. SUFFICES ASSUME NEW k \in 1..Len(y) PROVE Stage(y[k]) <= 2
    OBVIOUS
  <2>2. CASE k <= Len(x)
    <3>1. k \in 1..Len(x) /\ Stage(y[k]) = Stage(x[k])
      BY <1>9, <2>2
    <3>2. Stage(x[k]) <= 1 /\ Stage(x[k]) \in 0..4
      BY <1>3, <3>1, StageIs
    <3> QED
      BY <3>1, <3>2
  <2>3. CASE k > Len(x)
    <3>1. PICK i \in 1..Len(p) : k = Len(x) + i
      <4>1. k - Len(x) \in 1..Len(p) /\ k = Len(x) + (k - Len(x))
        BY <1>9, <2>3
      <4> QED
        BY <4>1
    <3> QED
      BY <1>7, <1>9, <3>1
  <2> QED
    BY <1>9, <2>2, <2>3
<1>11. r \in Seq(EV) /\ Staged(r)
  <2>1. 2 \in 1..2 /\ \A k \in 1..Len(z) : Stage(z[k]) >= 2
    <3>1. \A k \in 1..Len(z) : Stage(z[k]) \in 0..4 /\ Stage(z[k]) >= 3
      BY <1>4, StageIs
    <3> QED
      BY <3>1
  <2> QED
    BY <1>4, <1>5, <1>8, <1>10, <2>1, StagedConcat
<1>12. r \in Seq(Reasoned(a))
  <2>1. p \in Seq(Reasoned(a))
    <3>1. ASSUME NEW k \in 1..Len(p) PROVE p[k] \in Reasoned(a)
      <4>1. p[k] \in EV /\ Stage(p[k]) # 3
        BY <1>2
      <4>2. p[k].type \notin {"message_delta", "finish", "finished"}
        BY <4>1 DEF Stage
      <4> QED
        BY <4>1, <4>2 DEF Reasoned
    <3> QED
      BY <1>2, <3>1
  <2>2. y \in Seq(Reasoned(a))
    BY ONLY <1>3, <1>6, <2>1
  <2> QED
    BY ONLY <1>4, <1>5, <2>2
<1>13. /\ Len(r) = Len(y) + Len(z) /\ Len(y) \in Nat /\ Len(z) \in Nat
       /\ \A i \in 1..Len(y) : r[i] = y[i]
       /\ \A i \in 1..Len(z) : r[Len(y) + i] = z[i]
  BY <1>4, <1>5, <1>8, ConcatPlaces
<1>14. Stops(r)
  <2>1. SUFFICES ASSUME NEW k \in 1..Len(r), r[k].type = "message_stop"
                 PROVE  k > 1 /\ r[k - 1].type = "message_delta"
    BY DEF Stops
  <2>2. k > Len(y)
    <3>1. SUFFICES ASSUME k <= Len(y) PROVE FALSE
      BY <1>13
    <3>2. k \in 1..Len(y) /\ r[k] = y[k]
      BY <1>13, <3>1
    <3>3. Stage(r[k]) <= 2
      BY <1>10, <3>2
    <3> QED
      BY <2>1, <3>3 DEF Stage
  <2> DEFINE i == k - Len(y)
  <2>3. i \in 1..Len(z) /\ k = Len(y) + i
    BY <1>13, <2>2
  <2> HIDE DEF i
  <2>4. r[k] = z[i]
    BY <1>13, <2>3
  <2>5. i > 1 /\ z[i - 1].type = "message_delta"
    BY <1>4, <2>1, <2>3, <2>4 DEF Stops
  <2>6. i - 1 \in 1..Len(z) /\ k - 1 = Len(y) + (i - 1)
    BY <1>13, <2>3, <2>5
  <2>7. r[Len(y) + (i - 1)] = z[i - 1]
    BY <1>13, <2>6
  <2>8. r[k - 1] = z[i - 1]
    BY <2>6, <2>7
  <2>9. k > 1
    BY <1>13, <2>3, <2>5
  <2> QED
    BY <2>5, <2>8, <2>9
<1>15. f = "codex" => r[1].type = "response.created"
  <2>1. SUFFICES ASSUME f = "codex" PROVE r[1].type = "response.created"
    OBVIOUS
  <2>4. Len(x) = 1 /\ x[1] = Created
    BY <1>3, <2>1
  <2>5. Len(y) = 1 + Len(p) /\ Len(p) \in Nat
    BY <1>9, <2>4
  <2>2. 1 \in 1..Len(x) /\ 1 \in 1..Len(y)
    BY <2>4, <2>5
  <2>3. r[1] = Created
    BY <1>9, <1>13, <2>2, <2>4
  <2> QED
    BY <2>3 DEF Created, E
<1> QED
  BY <1>11, <1>12, <1>14, <1>15

(* What is left of an answer's lines after a read.                         *)
LEMMA StagedAfter ==
  ASSUME Proper(rest), NEW n \in Batches, Staged(rest),
         NEW q, q = SubSeq(rest, n + 1, Len(rest)), NEW e, e = Batch(n)
  PROVE  /\ Staged(q)
         /\ \A k \in 1..Len(q) : \/ Stage(e) < Stage(q[k])
                                 \/ Stage(e) = Stage(q[k]) /\ Stage(e) \notin {0, 3}
<1>1. /\ n \in 1..Len(rest) /\ Len(rest) \in Nat
      /\ q \in Seq(EV) /\ Len(q) = Len(rest) - n
      /\ \A j \in 1..Len(rest) - n : q[j] = rest[n + j]
  BY BatchFacts DEF Proper, EV
<1>2. Stage(e) = Stage(rest[1])
  <2>1. CASE n = 1
    BY <2>1 DEF Batch
  <2>2. CASE n # 1
    <3>1. rest[1].type = "chunk" /\ rest[1].kind = "text"
      <4>1. 1 \in 1..n
        BY <1>1
      <4> QED
        BY <2>2, <4>1 DEF Batches
    <3>2. e.type = "chunk" /\ e.kind = "text"
      BY <2>2 DEF Batch, Chunk, E
    <3> QED
      BY <3>1, <3>2 DEF Stage
  <2> QED
    BY <2>1, <2>2
<1>3. ASSUME NEW k \in 1..Len(q)
      PROVE  n + k \in 1..Len(rest) /\ 1 < n + k /\ 1 \in 1..Len(rest) /\ q[k] = rest[n + k]
  BY <1>1
<1>4. Staged(q)
  <2>1. SUFFICES ASSUME NEW j \in 1..Len(q), NEW k \in 1..Len(q), j < k
                 PROVE  \/ Stage(q[j]) < Stage(q[k])
                        \/ Stage(q[j]) = Stage(q[k]) /\ Stage(q[j]) \notin {0, 3}
    BY DEF Staged
  <2>2. n + j < n + k
    BY <1>1, <2>1
  <2>3. /\ n + j \in 1..Len(rest) /\ q[j] = rest[n + j]
        /\ n + k \in 1..Len(rest) /\ q[k] = rest[n + k]
    BY <1>3
  <2> QED
    BY <2>2, <2>3 DEF Staged
<1>5. ASSUME NEW k \in 1..Len(q)
      PROVE  \/ Stage(e) < Stage(q[k])
             \/ Stage(e) = Stage(q[k]) /\ Stage(e) \notin {0, 3}
  <2>1. n + k \in 1..Len(rest) /\ 1 < n + k /\ 1 \in 1..Len(rest) /\ q[k] = rest[n + k]
    BY <1>3
  <2>2. \/ Stage(rest[1]) < Stage(rest[n + k])
        \/ Stage(rest[1]) = Stage(rest[n + k]) /\ Stage(rest[1]) \notin {0, 3}
    BY <2>1 DEF Staged
  <2> QED
    BY <1>2, <2>1, <2>2
<1> QED
  BY <1>4, <1>5

-------------------------------------------------------------------------------
(* The calls of an answer, and of the response made of it.                 *)
Speakers == {"claude", "openai"}

(* One element of which something is made.                                 *)
LEMMA SpreadSomething ==
  ASSUME NEW T, NEW U, NEW G, Makes(G, T, U), NEW p \in Seq(T), NEW k \in 1..Len(p),
         G[p[k]] # <<>>
  PROVE  Spread(G, p) # <<>>
<1> DEFINE x == SubSeq(p, 1, k)
           y == SubSeq(p, k + 1, Len(p))
           w == SubSeq(p, 1, k - 1)
<1>1. x \in Seq(T) /\ y \in Seq(T) /\ p = x \o y
  BY RestSplit
<1>2. w \in Seq(T) /\ x = Append(w, p[k])
  <2>1. k \in Nat /\ k - 1 \in Nat /\ Len(p) \in Nat /\ k <= Len(p) /\ p[k] \in T
    OBVIOUS
  <2>2. w \in Seq(T) /\ Len(w) = k - 1 /\ \A j \in 1..k - 1 : w[j] = p[j]
    BY <2>1
  <2>3. Len(x) = k /\ \A j \in 1..k : x[j] = p[j]
    BY <2>1
  <2> HIDE DEF w, x
  <2>4. Append(w, p[k]) \in Seq(T) /\ Len(Append(w, p[k])) = k
    BY <2>1, <2>2
  <2>5. ASSUME NEW j \in 1..k PROVE Append(w, p[k])[j] = x[j]
    <3>1. j \in 1..k - 1 \/ j = k
      BY <2>1
    <3>2. CASE j \in 1..k - 1
      BY <2>2, <2>3, <3>2
    <3>3. CASE j = k
      BY <2>2, <2>3, <3>3
    <3> QED
      BY <3>1, <3>2, <3>3
  <2> QED
    BY <1>1, <2>2, <2>3, <2>4, <2>5, SameSequence
<1>3. Spread(G, p) = Spread(G, x) \o Spread(G, y)
  <2> HIDE DEF x, y
  <2> QED
    BY <1>1, SpreadConcat
<1>4. Spread(G, x) = Spread(G, w) \o G[p[k]]
  <2>1. p[k] \in T
    OBVIOUS
  <2> HIDE DEF x, w
  <2>2. Spread(G, Append(w, p[k])) = Spread(G, w) \o G[p[k]]
    BY ONLY <1>2, <2>1, Makes(G, T, U), SpreadMore, SMTT(60)
  <2> QED
    BY <1>2, <2>2
<1> DEFINE a == Spread(G, w)
           b == G[p[k]]
           c == Spread(G, y)
<1>5. a \in Seq(U) /\ b \in Seq(U) /\ c \in Seq(U)
  <2>1. p[k] \in T
    OBVIOUS
  <2> HIDE DEF w, y
  <2>2. b \in Seq(U)
    BY <2>1 DEF Makes
  <2> QED
    BY <1>1, <1>2, <2>2, SpreadTyped
<1>6. b # <<>>
  OBVIOUS
<1> HIDE DEF a, b, c
<1>7. (a \o b) \o c # <<>>
  <2>1. Len((a \o b) \o c) = Len(a) + Len(b) + Len(c) /\ Len(a) \in Nat /\ Len(c) \in Nat
    BY ONLY <1>5
  <2>2. Len(b) \in Nat /\ Len(b) # 0
    BY ONLY <1>5, <1>6
  <2> QED
    BY <2>1, <2>2
<1> QED
  BY <1>3, <1>4, <1>7 DEF a, b, c

HasCall(p) == \E k \in 1..Len(p) : p[k].kind = "call"

LEMMA CallsIs ==
  ASSUME NEW p \in Seq(PartRecords)
  PROVE  Calls(p) <=> HasCall(p)
<1> DEFINE G == Keeps({"call"})
<1>1. /\ Kept(p, {"call"}) = Spread(G, p)
      /\ Makes(G, PartRecords, PartRecords)
      /\ \A x \in PartRecords : G[x] = IF x.kind \in {"call"} THEN <<x>> ELSE <<>>
  BY KeptIs, TellingsMake
<1>2. \A k \in 1..Len(p) : p[k] \in PartRecords
  OBVIOUS
<1> HIDE DEF G
<1>3. ASSUME NEW k \in 1..Len(p), p[k].kind = "call" PROVE Spread(G, p) # <<>>
  <2>1. G[p[k]] = <<p[k]>>
    BY <1>1, <1>2, <1>3
  <2>2. G[p[k]] # <<>>
    BY <2>1
  <2> QED
    BY <1>1, <2>2, SpreadSomething
<1>4. ASSUME ~HasCall(p) PROVE Spread(G, p) = <<>>
  <2>1. \A k \in 1..Len(p) : G[p[k]] = <<>>
    BY <1>1, <1>2, <1>4 DEF HasCall
  <2> QED
    BY <1>1, <2>1, SpreadNothing
<1> QED
  BY <1>1, <1>3, <1>4 DEF Calls, HasCall

LEMMA ToldCalls ==
  ASSUME NEW p \in Seq(PartRecords), \A k \in 1..Len(p) : p[k].kind = "call" => p[k].data # <<>>
  PROVE  Told(p, {"call"}) # <<>> <=> HasCall(p)
<1> DEFINE G == Tellings({"call"})
<1>1. /\ Told(p, {"call"}) = Spread(G, p)
      /\ Makes(G, PartRecords, Int)
      /\ \A x \in PartRecords : G[x] = IF x.kind \in {"call"} THEN x.data ELSE <<>>
  <2>1. Told(p, {"call"}) = Spread(G, p)
    BY ToldIs
  <2>2. Makes(G, PartRecords, Int)
    BY TellingsMake
  <2>3. \A x \in PartRecords : G[x] = IF x.kind \in {"call"} THEN x.data ELSE <<>>
    BY TellingsAt
  <2> QED
    BY <2>1, <2>2, <2>3
<1>2. \A k \in 1..Len(p) : p[k] \in PartRecords
  OBVIOUS
<1> HIDE DEF G
<1>3. ASSUME NEW k \in 1..Len(p), p[k].kind = "call" PROVE Spread(G, p) # <<>>
  <2>1. G[p[k]] = p[k].data
    BY <1>1, <1>2, <1>3
  <2>2. G[p[k]] # <<>>
    BY <1>3, <2>1
  <2> QED
    BY <1>1, <2>2, SpreadSomething
<1>4. ASSUME ~HasCall(p) PROVE Spread(G, p) = <<>>
  <2>1. \A k \in 1..Len(p) : G[p[k]] = <<>>
    BY <1>1, <1>2, <1>4 DEF HasCall
  <2> QED
    BY <1>1, <2>1, SpreadNothing
<1> QED
  BY <1>1, <1>3, <1>4 DEF HasCall

LEMMA HasCallConcat ==
  ASSUME NEW T, NEW p \in Seq(T), NEW q \in Seq(T), NEW r, r = p \o q
  PROVE  HasCall(r) <=> HasCall(p) \/ HasCall(q)
<1>1. /\ Len(r) = Len(p) + Len(q) /\ Len(p) \in Nat /\ Len(q) \in Nat
      /\ \A i \in 1..Len(p) : r[i] = p[i]
      /\ \A i \in 1..Len(q) : r[Len(p) + i] = q[i]
  BY ConcatPlaces
<1>2. ASSUME HasCall(p) PROVE HasCall(r)
  <2>1. PICK k \in 1..Len(p) : p[k].kind = "call"
    BY <1>2 DEF HasCall
  <2>2. k \in 1..Len(r) /\ r[k] = p[k]
    BY <1>1
  <2> QED
    BY <2>1, <2>2 DEF HasCall
<1>3. ASSUME HasCall(q) PROVE HasCall(r)
  <2>1. PICK k \in 1..Len(q) : q[k].kind = "call"
    BY <1>3 DEF HasCall
  <2> DEFINE i == Len(p) + k
  <2>2. i \in 1..Len(r) /\ r[i] = q[k]
    BY <1>1
  <2> HIDE DEF i
  <2> QED
    BY <2>1, <2>2 DEF HasCall
<1>4. ASSUME HasCall(r) PROVE HasCall(p) \/ HasCall(q)
  <2>1. PICK k \in 1..Len(r) : r[k].kind = "call"
    BY <1>4 DEF HasCall
  <2>2. CASE k <= Len(p)
    <3>1. k \in 1..Len(p) /\ r[k] = p[k]
      BY <1>1, <2>2
    <3> QED
      BY <2>1, <3>1 DEF HasCall
  <2>3. CASE k > Len(p)
    <3>1. PICK i \in 1..Len(q) : k = Len(p) + i
      <4>1. k - Len(p) \in 1..Len(q) /\ k = Len(p) + (k - Len(p))
        BY <1>1, <2>3
      <4> QED
        BY <4>1
    <3>2. r[k] = q[i]
      BY <1>1, <3>1
    <3> QED
      BY <2>1, <3>2 DEF HasCall
  <2> QED
    BY <1>1, <2>2, <2>3
<1> QED
  BY <1>2, <1>3, <1>4

(* What is kept of the calls.                                              *)
LEMMA KeptCalls ==
  ASSUME NEW p \in Seq(PartRecords), NEW K, "call" \in K, NEW q, q = Kept(p, K)
  PROVE  q \in Seq(PartRecords) /\ (HasCall(q) <=> HasCall(p))
<1> DEFINE ss == [k \in 1..Len(p) |-> IF p[k].kind \in K THEN <<p[k]>> ELSE <<>>]
<1>1. \A k \in 1..Len(p) : p[k] \in PartRecords
  OBVIOUS
<1>2. q \in Seq(PartRecords)
  BY KeptIs
<1>3. ss \in Seq(Seq(PartRecords)) /\ Len(ss) = Len(p)
      /\ \A k \in 1..Len(p) : ss[k] = IF p[k].kind \in K THEN <<p[k]>> ELSE <<>>
  <2>1. \A k \in 1..Len(p) : (IF p[k].kind \in K THEN <<p[k]>> ELSE <<>>) \in Seq(PartRecords)
    BY <1>1
  <2> QED
    BY <2>1
<1>4. q = FlattenSeq(ss)
  BY DEF Kept
<1> HIDE DEF ss
<1>5. \A x : x \in ToSet(q) <=> \E k \in 1..Len(p) : x \in ToSet(ss[k])
  BY <1>3, <1>4, FlattenHolds
<1>6. \A k \in 1..Len(p) : ToSet(ss[k]) = IF p[k].kind \in K THEN {p[k]} ELSE {}
  <2>1. SUFFICES ASSUME NEW k \in 1..Len(p)
                 PROVE ToSet(ss[k]) = IF p[k].kind \in K THEN {p[k]} ELSE {}
    OBVIOUS
  <2> DEFINE x == p[k]
  <2>2. ToSet(<<x>>) = {x} /\ ToSet(<<>>) = {}
    BY SmallSets
  <2>3. ss[k] = IF x.kind \in K THEN <<x>> ELSE <<>>
    BY <1>3
  <2> HIDE DEF x
  <2>4. ToSet(ss[k]) = IF x.kind \in K THEN {x} ELSE {}
    BY ONLY <2>2, <2>3
  <2> QED
    BY <2>4 DEF x
<1>7. HasCall(q) <=> \E x \in ToSet(q) : x.kind = "call"
  <2>1. DOMAIN q = 1..Len(q)
    BY <1>2
  <2> QED
    BY <2>1 DEF HasCall, ToSet
<1>8. (\E x \in ToSet(q) : x.kind = "call") <=> \E k \in 1..Len(p) : p[k].kind = "call"
  <2>1. ASSUME NEW x \in ToSet(q), x.kind = "call" PROVE \E k \in 1..Len(p) : p[k].kind = "call"
    <3>1. PICK k \in 1..Len(p) : x \in ToSet(ss[k])
      BY <1>5, <2>1
    <3>2. x \in IF p[k].kind \in K THEN {p[k]} ELSE {}
      BY <1>6, <3>1
    <3>3. x = p[k]
      BY <3>2
    <3> QED
      BY <2>1, <3>3
  <2>2. ASSUME NEW k \in 1..Len(p), p[k].kind = "call" PROVE \E x \in ToSet(q) : x.kind = "call"
    <3>1. p[k] \in ToSet(ss[k])
      BY <1>6, <2>2
    <3>2. p[k] \in ToSet(q)
      BY <1>5, <3>1
    <3> QED
      BY <2>2, <3>2
  <2> QED
    BY <2>1, <2>2
<1> QED
  BY <1>2, <1>7, <1>8 DEF HasCall

LEMMA NoCallsExtracted == ASSUME NEW c, NEW e, e = ExtractThinkTags(c)
                          PROVE ~HasCall(e) /\ \E T : e \in Seq(T)
<1> DEFINE x == PartOf("text", c)
           closed == Contains(c, Close)
           inside == After(c, Open)
           d == PartOf("thought", IF closed THEN Before(inside, Close) ELSE inside)
           left == Before(c, Open) \o (IF closed THEN After(c, Close) ELSE <<>>)
           y == PartOf("text", left)
<1>1. x.kind = "text" /\ y.kind = "text" /\ d.kind = "thought"
  BY DEF PartOf
<1>2. e = IF ~Contains(c, Open) THEN <<x>>
          ELSE <<d>> \o (IF left = <<>> THEN <<>> ELSE <<y>>)
  BY DEF ExtractThinkTags
<1> HIDE DEF x, y, d, left
<1> DEFINE T == {x, y, d}
<1>3. e = <<x>> \/ e = <<d>> \o <<>> \/ e = <<d>> \o <<y>>
  BY <1>2
<1>4. <<x>> \in Seq(T) /\ <<d>> \o <<>> \in Seq(T) /\ <<d>> \o <<y>> \in Seq(T)
  OBVIOUS
<1>5. e \in Seq(T)
  BY <1>3, <1>4
<1>6. \A k \in 1..Len(e) : e[k] \in T
  BY ONLY <1>5
<1>7. \A z \in T : z.kind # "call"
  BY <1>1
<1> HIDE DEF T
<1> QED
  BY <1>5, <1>6, <1>7 DEF HasCall

LEMMA JoinedCalls ==
  ASSUME NEW p \in Seq(PartRecords), NEW S, NEW j, j = Joined(p, S)
  PROVE  j \in Seq(PartRecords) /\ (HasCall(j) <=> HasCall(p))
<1> DEFINE d == Told(p, S)
           x == PartOf("text", d)
           u == IF d = <<>> THEN <<>> ELSE <<x>>
           v == Kept(p, {"call"})
<1>1. j \in Seq(PartRecords)
  BY JoinedTold
<1>2. j = u \o v
  BY DEF Joined, Told
<1>3. x \in PartRecords /\ x.kind = "text"
  <2>1. d \in Seq(Int)
    BY ToldIs
  <2> HIDE DEF d
  <2> QED
    BY <2>1 DEF PartOf, PartRecords, Kinds
<1>4. v \in Seq(PartRecords) /\ (HasCall(v) <=> HasCall(p))
  <2>1. "call" \in {"call"}
    OBVIOUS
  <2> QED
    BY <2>1, KeptCalls
<1>5. u \in Seq(PartRecords) /\ ~HasCall(u)
  <2> HIDE DEF x, d
  <2>1. CASE u = <<>>
    <3>1. Len(u) = 0 /\ u \in Seq(PartRecords)
      BY <2>1
    <3> QED
      BY <3>1 DEF HasCall
  <2>2. CASE u = <<x>>
    <3>1. Len(u) = 1 /\ u[1] = x /\ u \in Seq(PartRecords)
      BY <1>3, <2>2
    <3>2. \A k \in 1..Len(u) : k = 1
      BY <3>1
    <3> QED
      BY <1>3, <3>1, <3>2 DEF HasCall
  <2> QED
    BY <2>1, <2>2
<1> HIDE DEF u, v
<1>6. HasCall(j) <=> HasCall(u) \/ HasCall(v)
  BY ONLY <1>2, <1>4, <1>5, HasCallConcat
<1> QED
  BY <1>1, <1>4, <1>5, <1>6

(* Does the upstream answer with a call?                                   *)
Called(a) == \E k \in DOMAIN a : a[k] = "call"

LEMMA PartsCalled ==
  ASSUME NEW f \in Formats, NEW a \in Answers, NEW p, p = PartsOf(f, a)
  PROVE  /\ p \in Seq(PartRecords) /\ (HasCall(p) <=> Called(a))
         /\ \A k \in 1..Len(p) : p[k].kind = "call" => p[k].data # <<>>
<1>1. PICK n \in Nat : a \in [1..n -> Kinds]
  BY BoundAssumption DEF Answers
<1>2. DOMAIN a = 1..n
  BY <1>1
<1>3. p \in Seq(PartRecords) /\ Len(p) = n
  <2>1. CASE n = 0
    <3>1. p = <<>>
      BY <1>1, <1>2, <2>1 DEF PartsOf
    <3> QED
      BY <2>1, <3>1
  <2>2. CASE n # 0
    <3>1. 1 \in 1..n
      BY <2>2
    <3> QED
      BY <1>1, <3>1, PartIs
  <2> QED
    BY <2>1, <2>2
<1>4. ASSUME NEW k \in 1..n
      PROVE  /\ p[k].kind = "call" <=> a[k] = "call"
             /\ p[k].kind = "call" => p[k].data # <<>>
  <2>1. /\ p[k].kind = IF f = "openai" /\ a[k] = "thought" THEN "text" ELSE a[k]
        /\ p[k].data = IF f = "openai" /\ a[k] = "thought" THEN Tagged(a, k) ELSE <<k>>
    BY <1>1, PartIs
  <2>2. <<k>> # <<>>
    OBVIOUS
  <2> QED
    BY <2>1, <2>2
<1> QED
  BY <1>2, <1>3, <1>4 DEF HasCall, Called

LEMMA WholeCalled ==
  ASSUME NEW f \in Formats, NEW a \in Answers, NEW m, m = WholeMessage(f, a)
  PROVE  /\ m.parts \in Seq(PartRecords) /\ (HasCall(m.parts) <=> Called(a))
         /\ m.reason = IF f \in {"gemini", "codex"} /\ ~cut THEN "end" ELSE Reason(a)
<1> DEFINE p == PartsOf(f, a)
           q == Joined(p, {"text"})
<1>1. p \in Seq(PartRecords) /\ (HasCall(p) <=> Called(a))
  BY PartsCalled
<1>2. m = Message(IF f = "openai" THEN q ELSE p,
                  IF f \in {"gemini", "codex"} /\ ~cut THEN "end" ELSE Reason(a))
  BY DEF WholeMessage
<1> HIDE DEF p
<1>3. q \in Seq(PartRecords) /\ (HasCall(q) <=> HasCall(p))
  BY <1>1, JoinedCalls
<1> HIDE DEF q
<1> QED
  BY <1>1, <1>2, <1>3 DEF Message

(* The reason a whole response gives fits the calls in it.                 *)
LEMMA BodyReason ==
  ASSUME NEW f \in Formats, NEW g \in Speakers, NEW a \in Answers, Possible(f, a),
         cut \in BOOLEAN, NEW b, b = TransformResponse(f, g, WholeMessage(f, a))
  PROVE  /\ b.reason = "calls" => Calls(b.parts)
         /\ Calls(b.parts) /\ ~cut => b.reason = "calls"
<1> DEFINE m == WholeMessage(f, a)
           j == Joined(m.parts, {"text"})
           h == Joined(m.parts, {"text", "thought"})
<1>0. b.parts \in Seq(PartRecords)
  <2>1. g \in Formats /\ <<f, g>> \notin Swapped
    BY DEF Speakers, Formats, Swapped
  <2> DEFINE w == b.parts
  <2>2. w = TransformResponse(f, g, WholeMessage(f, a)).parts
    OBVIOUS
  <2> HIDE DEF w
  <2>3. SaysAll(f, g, w, PartsOf(f, a))
    BY <2>1, <2>2, WholeSays
  <2> QED
    BY <2>3 DEF SaysAll, w
<1>1. /\ m.parts \in Seq(PartRecords) /\ (HasCall(m.parts) <=> Called(a))
      /\ m.reason = IF f \in {"gemini", "codex"} /\ ~cut THEN "end" ELSE Reason(a)
  BY WholeCalled
<1>2. Reason(a) = IF cut THEN "length" ELSE IF Called(a) THEN "calls" ELSE "end"
  BY DEF Reason, Called
<1>3. b = TransformResponse(f, g, m)
  OBVIOUS
<1> HIDE DEF m
<1>4. /\ j \in Seq(PartRecords) /\ (HasCall(j) <=> Called(a))
      /\ h \in Seq(PartRecords) /\ (HasCall(h) <=> Called(a))
  <2>1. j \in Seq(PartRecords) /\ (HasCall(j) <=> HasCall(m.parts))
    BY <1>1, JoinedCalls
  <2>2. h \in Seq(PartRecords) /\ (HasCall(h) <=> HasCall(m.parts))
    BY <1>1, JoinedCalls
  <2> QED
    BY <1>1, <2>1, <2>2
<1> HIDE DEF j, h
<1>5. Calls(m.parts) <=> Called(a)
  BY <1>1, CallsIs
<1>6. CASE f = g
  <2>1. b = m
    BY <1>3, <1>6 DEF TransformResponse
  <2>2. m.reason = Reason(a)
    BY <1>1, <1>6 DEF Speakers
  <2> QED
    BY <1>2, <1>5, <2>1, <2>2
<1>7. CASE f = "claude" /\ g = "openai"
  <2>1. b = Message(j, m.reason)
    BY <1>3, <1>7 DEF TransformResponse, ClaudeMessageToOpenAI, j
  <2>2. b.parts = j /\ b.reason = Reason(a)
    BY <1>1, <1>7, <2>1 DEF Message
  <2> QED
    BY <1>2, <1>4, <2>2, CallsIs
<1>8. CASE f = "openai" /\ g = "claude"
  <2> DEFINE t == Kept(m.parts, {"text"})
             v == Kept(m.parts, {"call"})
             x == IF t = <<>> THEN <<>> ELSE ExtractThinkTags(TextOf(t))
             y == PartOf("text", <<>>)
  <2>1. b = Message(IF x \o v = <<>> THEN <<y>> ELSE x \o v, m.reason)
    BY <1>3, <1>8 DEF TransformResponse, OpenAIMessageToClaude
  <2>3. v \in Seq(PartRecords) /\ (HasCall(v) <=> Called(a))
    <3>1. "call" \in {"call"}
      OBVIOUS
    <3> QED
      BY <1>1, <3>1, KeptCalls
  <2>4. PICK T : x \in Seq(T) /\ ~HasCall(x)
    <3> DEFINE c == TextOf(t)
               z == <<>>
    <3>1. \E T : ExtractThinkTags(c) \in Seq(T) /\ ~HasCall(ExtractThinkTags(c))
      BY NoCallsExtracted
    <3>2. z \in Seq({}) /\ Len(z) = 0
      OBVIOUS
    <3> HIDE DEF c, t, z
    <3>3. ~HasCall(z)
      BY <3>2 DEF HasCall
    <3>4. x = z \/ x = ExtractThinkTags(c)
      BY DEF z, c
    <3> HIDE DEF x
    <3> QED
      BY <3>1, <3>2, <3>3, <3>4
  <2>5. y.kind = "text"
    BY DEF PartOf
  <2> HIDE DEF x, v, y
  <2> DEFINE r == x \o v
             w == IF r = <<>> THEN <<y>> ELSE r
             U == T \cup PartRecords
  <2>2. b.parts = w /\ b.reason = Reason(a)
    <3>1. b = Message(w, m.reason) /\ m.reason = Reason(a)
      BY <1>1, <1>8, <2>1
    <3> HIDE DEF w
    <3> QED
      BY <3>1 DEF Message
  <2>6. x \in Seq(U) /\ v \in Seq(U)
    BY <2>3, <2>4
  <2>7. HasCall(r) <=> Called(a)
    <3> HIDE DEF U
    <3>1. r = x \o v
      OBVIOUS
    <3> HIDE DEF r
    <3>2. HasCall(r) <=> HasCall(x) \/ HasCall(v)
      BY ONLY <2>6, <3>1, HasCallConcat
    <3> QED
      BY <2>3, <2>4, <3>2
  <2>8. HasCall(w) <=> Called(a)
    <3> HIDE DEF r
    <3>1. CASE r = <<>>
      <4> DEFINE z == <<y>>
      <4>1. w = z /\ Len(z) = 1 /\ z[1] = y
        BY <3>1
      <4> HIDE DEF z, w
      <4>2. Len(r) = 0
        BY <3>1
      <4>3. ~HasCall(r)
        BY <4>2 DEF HasCall
      <4>4. \A k \in 1..Len(z) : k = 1
        BY <4>1
      <4>5. ~HasCall(w)
        BY <2>5, <4>1, <4>4 DEF HasCall
      <4> QED
        BY <2>7, <4>3, <4>5
    <3>2. CASE r # <<>>
      BY <2>7, <3>2
    <3> QED
      BY <3>1, <3>2
  <2> HIDE DEF w
  <2>9. Calls(b.parts) <=> Called(a)
    BY <1>0, <2>2, <2>8, CallsIs
  <2> QED
    BY <1>2, <2>2, <2>9
<1>9. CASE f \in {"codex", "gemini"} /\ g = "claude"
  <2>1. b.parts = m.parts
    BY <1>3, <1>9 DEF TransformResponse, CodexMessageToClaude, GeminiMessageToClaude, Message
  <2>2. b.reason = IF f = "gemini" /\ m.reason = "length" THEN "length" ELSE CallsOr("end", m.parts)
    BY <1>3, <1>9 DEF TransformResponse, CodexMessageToClaude, GeminiMessageToClaude, Message
  <2> QED
    BY <1>1, <1>2, <1>5, <1>9, <2>1, <2>2 DEF CallsOr
<1>10. CASE f \in {"codex", "gemini"} /\ g = "openai"
  <2>1. b.parts = IF f = "codex" THEN j ELSE h
    BY <1>3, <1>10 DEF TransformResponse, CodexMessageToOpenAI, GeminiMessageToOpenAI, Message, j, h
  <2>2. b.reason = IF f = "gemini" /\ m.reason = "length" THEN "length" ELSE CallsOr("end", m.parts)
    BY <1>3, <1>10 DEF TransformResponse, CodexMessageToOpenAI, GeminiMessageToOpenAI, Message
  <2>3. Calls(b.parts) <=> Called(a)
    BY <1>4, <2>1, CallsIs
  <2> QED
    BY <1>1, <1>2, <1>5, <1>10, <2>2, <2>3 DEF CallsOr
<1> QED
  BY <1>6, <1>7, <1>8, <1>9, <1>10 DEF Formats, Speakers

(* Between the two formats that tell of calls every call is told, and of   *)
(* the others none.                                                        *)
LEMMA InAllCalled ==
  ASSUME CInv, TellInv, to \in Speakers
  PROVE  /\ from \in Speakers => (InAll("call") # <<>> <=> Called(answer))
         /\ from \notin Speakers => InAll("call") = <<>>
<1> DEFINE p == PartsOf(from, answer)
           K == Heard(from, to, "call")
<1>1. from \in Formats /\ to \in Formats /\ answer \in Answers
  BY PairFormats DEF CInv, CTypes
<1>2. /\ p \in Seq(PartRecords) /\ (HasCall(p) <=> Called(answer))
      /\ \A k \in 1..Len(p) : p[k].kind = "call" => p[k].data # <<>>
  BY <1>1, PartsCalled
<1>3. InAll("call") = Told(p, K)
  <2>1. InAll("call") = Due(from, to, "call", p)
    BY InAllDue
  <2>2. ~Untagged(from, to, "call")
    BY DEF Untagged
  <2> QED
    BY <2>1, <2>2 DEF Due
<1>4. K = IF from \in Speakers THEN {"call"} ELSE {}
  <2> HIDE DEF from, to
  <2>1. CASE from = to
    BY <2>1 DEF Heard
  <2>2. CASE from # to /\ from \in Speakers
    <3>1. <<from, to>> \in {<<"openai", "claude">>, <<"claude", "openai">>}
      BY <2>2 DEF Speakers
    <3> QED
      BY <2>2, <3>1 DEF Heard
  <2>3. CASE from = "gemini"
    BY <2>3 DEF Heard, Speakers
  <2>4. CASE from = "codex"
    BY <2>4 DEF Heard, Speakers
  <2> QED
    BY <1>1, <2>1, <2>2, <2>3, <2>4 DEF Formats, Speakers
<1> HIDE DEF p, K
<1>5. CASE from \in Speakers
  <2>1. K = {"call"}
    BY <1>4, <1>5
  <2>2. Told(p, {"call"}) # <<>> <=> HasCall(p)
    BY <1>2, ToldCalls
  <2> QED
    BY <1>2, <1>3, <1>5, <2>1, <2>2
<1>6. CASE from \notin Speakers
  <2>1. \A k \in 1..Len(p) : p[k].kind \notin K
    BY <1>4, <1>6
  <2>2. Told(p, K) = <<>>
    BY ONLY <1>2, <2>1, ToldNothing
  <2> QED
    BY <1>3, <1>6, <2>2
<1> QED
  BY <1>5, <1>6

-------------------------------------------------------------------------------
(* What a step tells of the end of a message.                              *)
(* The reasons told for the end of a Claude or an OpenAI message.          *)
WhyEnded(x) == x.type \in {"message_delta", "finish"}
Whys(o) == {o[k].kind : k \in {k \in 1..Len(o) : WhyEnded(o[k])}}

LEMMA WhysConcat ==
  ASSUME NEW p \in Seq(EV), NEW q \in Seq(EV), NEW r, r = p \o q
  PROVE  Whys(r) = Whys(p) \cup Whys(q)
<1>1. /\ Len(r) = Len(p) + Len(q) /\ Len(p) \in Nat /\ Len(q) \in Nat
      /\ \A i \in 1..Len(p) : r[i] = p[i]
      /\ \A i \in 1..Len(q) : r[Len(p) + i] = q[i]
  BY ConcatAt
<1>2. Whys(p) \cup Whys(q) \subseteq Whys(r)
  <2>1. ASSUME NEW k \in 1..Len(p), WhyEnded(p[k]) PROVE p[k].kind \in Whys(r)
    <3>1. k \in 1..Len(r) /\ r[k] = p[k]
      BY <1>1
    <3> QED
      BY <2>1, <3>1 DEF Whys
  <2>2. ASSUME NEW k \in 1..Len(q), WhyEnded(q[k]) PROVE q[k].kind \in Whys(r)
    <3>1. Len(p) + k \in 1..Len(r) /\ r[Len(p) + k] = q[k]
      BY <1>1
    <3> QED
      BY <2>2, <3>1 DEF Whys
  <2> QED
    BY <2>1, <2>2 DEF Whys
<1>3. Whys(r) \subseteq Whys(p) \cup Whys(q)
  <2>1. ASSUME NEW k \in 1..Len(r), WhyEnded(r[k]) PROVE r[k].kind \in Whys(p) \cup Whys(q)
    <3>1. CASE k <= Len(p)
      <4>1. k \in 1..Len(p) /\ r[k] = p[k]
        BY <1>1, <3>1
      <4> QED
        BY <2>1, <4>1 DEF Whys
    <3>2. CASE ~ (k <= Len(p))
      <4>1. PICK i \in 1..Len(q) : k = Len(p) + i
        <5>1. k - Len(p) \in 1..Len(q) /\ k = Len(p) + (k - Len(p))
          BY <1>1, <3>2
        <5> QED
          BY <5>1
      <4>2. r[k] = q[i]
        BY <1>1, <4>1
      <4> QED
        BY <2>1, <4>2 DEF Whys
    <3> QED
      BY <3>1, <3>2
  <2> QED
    BY <2>1 DEF Whys
<1> QED
  BY <1>2, <1>3

LEMMA WhysFew ==
  ASSUME NEW x, NEW y, NEW z
  PROVE  /\ Whys(<<x>>) = IF WhyEnded(x) THEN {x.kind} ELSE {}
         /\ ~WhyEnded(x) /\ ~WhyEnded(y) => Whys(<<x, y>>) = {}
         /\ WhyEnded(x) /\ ~WhyEnded(y) => Whys(<<x, y>>) = {x.kind}
         /\ ~WhyEnded(x) /\ WhyEnded(y) /\ ~WhyEnded(z) => Whys(<<x, y, z>>) = {y.kind}
<1> DEFINE a == <<x>>
           b == <<x, y>>
           c == <<x, y, z>>
<1>1. /\ Len(a) = 1 /\ a[1] = x /\ Len(b) = 2 /\ b[1] = x /\ b[2] = y
      /\ Len(c) = 3 /\ c[1] = x /\ c[2] = y /\ c[3] = z
  OBVIOUS
<1> HIDE DEF a, b, c
<1>2. 1..1 = {1} /\ 1..2 = {1, 2} /\ 1..3 = {1, 2, 3}
  OBVIOUS
<1>4. Whys(a) = IF WhyEnded(x) THEN {x.kind} ELSE {}
  BY <1>1, <1>2 DEF Whys
<1>5. ~WhyEnded(x) /\ ~WhyEnded(y) => Whys(b) = {}
  BY <1>1, <1>2 DEF Whys
<1>6. WhyEnded(x) /\ ~WhyEnded(y) => Whys(b) = {x.kind}
  BY <1>1, <1>2 DEF Whys
<1>7. ~WhyEnded(x) /\ WhyEnded(y) /\ ~WhyEnded(z) => Whys(c) = {y.kind}
  BY <1>1, <1>2 DEF Whys
<1> QED
  BY <1>4, <1>5, <1>6, <1>7 DEF a, b, c

LEMMA WhysNone == Whys(<<>>) = {} /\ <<>> \in Seq(EV)
<1> DEFINE d == <<>>
<1>1. Len(d) = 0 /\ d \in Seq(EV)
  OBVIOUS
<1> HIDE DEF d
<1>2. 1..0 = {}
  OBVIOUS
<1> QED
  BY <1>1, <1>2 DEF Whys, d

(* What the events the converters write say of a reason.                   *)
LEMMA WhysPlain ==
  /\ Whys(<<MessageStart>>) = {} /\ Whys(<<MessageStop>>) = {} /\ Whys(<<Done>>) = {}
<1>1. ~WhyEnded(MessageStart) /\ ~WhyEnded(MessageStop) /\ ~WhyEnded(Done)
  BY DEF WhyEnded, MessageStart, MessageStop, Done, E
<1> QED
  BY ONLY <1>1, WhysFew

LEMMA WhysMade ==
  ASSUME NEW i, NEW kind, NEW data
  PROVE  Whys(<<Chunk(i, kind, data)>>) = {} /\ Whys(<<Delta(i, kind, data)>>) = {}
<1>1. ~WhyEnded(Chunk(i, kind, data)) /\ ~WhyEnded(Delta(i, kind, data))
  BY DEF WhyEnded, Chunk, Delta, E
<1> QED
  BY ONLY <1>1, WhysFew

LEMMA WhysBegun == ASSUME NEW i, NEW kind PROVE Whys(<<MessageStart, Start(i, kind)>>) = {}
<1>1. ~WhyEnded(MessageStart) /\ ~WhyEnded(Start(i, kind))
  BY DEF WhyEnded, MessageStart, Start, E
<1> QED
  BY ONLY <1>1, WhysFew

LEMMA WhysEnd ==
  ASSUME NEW i, NEW kind
  PROVE  /\ Whys(<<Stop(i), MessageDelta(kind), MessageStop>>) = {kind}
         /\ Whys(<<Finish(kind), Done>>) = {kind} /\ Whys(<<MessageDelta(kind)>>) = {kind}
<1>1. /\ ~WhyEnded(MessageStop) /\ ~WhyEnded(Done) /\ ~WhyEnded(Stop(i))
      /\ WhyEnded(MessageDelta(kind)) /\ MessageDelta(kind).kind = kind
      /\ WhyEnded(Finish(kind)) /\ Finish(kind).kind = kind
  BY DEF WhyEnded, MessageStop, Done, Stop, MessageDelta, Finish, E
<1> QED
  BY ONLY <1>1, WhysFew

LEMMA EmitWhys ==
  ASSUME NEW t \in States(Types), t.out = <<>>, NEW q \in Seq(EV)
  PROVE  Whys(Emit(t, q).out) = Whys(q)
<1>1. Emit(t, q).out = t.out \o q
  BY OutOfEmit DEF EV
<1>2. Emit(t, q).out = q
  BY <1>1
<1> QED
  BY <1>2

LEMMA FirstWhys ==
  ASSUME NEW t \in States(Types), t.out = <<>>, NEW p \in Seq(EV), Whys(p) = {}
  PROVE  /\ Whys(First(t, p).out) = {}
         /\ \A q \in Seq(EV) : Whys(Emit(First(t, p), q).out) = Whys(q)
<1>1. Whys(<<>>) = {} /\ <<>> \in Seq(EV)
  BY WhysNone
<1> DEFINE u == First(t, p)
<1>2. u \in States(Types) /\ u.out \in {<<>>, p}
  BY FirstTyped, OutOfFirst DEF EV
<1> HIDE DEF u
<1>3. Whys(u.out) = {} /\ u.out \in Seq(EV)
  BY <1>1, <1>2
<1>4. ASSUME NEW q \in Seq(EV) PROVE Whys(Emit(u, q).out) = Whys(q)
  <2>1. Emit(u, q).out = u.out \o q
    BY <1>2, OutOfEmit DEF EV
  <2> DEFINE r == Emit(u, q).out
  <2>2. Whys(r) = Whys(u.out) \cup Whys(q)
    BY <1>3, <2>1, WhysConcat
  <2> QED
    BY <1>3, <2>2
<1> QED
  BY <1>3, <1>4 DEF u

LEMMA WhysQuiet ==
  ASSUME NEW T, T \subseteq Types \ {"message_delta", "finish"}, NEW q \in Seq(Events(T))
  PROVE  q \in Seq(EV) /\ Whys(q) = {}
<1>1. \A x \in Events(T) : x \in EV /\ ~WhyEnded(x)
  BY DEF Events, EV, WhyEnded
<1>2. q \in Seq(EV)
  BY <1>1
<1>3. \A k \in 1..Len(q) : ~WhyEnded(q[k])
  BY <1>1
<1> QED
  BY <1>2, <1>3 DEF Whys

LEMMA StopsQuiet ==
  ASSUME NEW t \in States(Types)
  PROVE  CallStops(t) \in Seq(Events({"content_block_stop"}))
<1> DEFINE i == SetToSeq(DOMAIN t.calls)
           X == Events({"content_block_stop"})
<1>1. CallStops(t) = [k \in DOMAIN i |-> Stop(t.calls[i[k]])]
  BY DEF CallStops
<1>2. t.calls \in CallMaps
  BY DEF States
<1>3. i \in Seq(DOMAIN t.calls)
  BY <1>2, CallMapFacts, Listed
<1>4. ASSUME NEW n \in Nat PROVE Stop(n) \in X
  <2>1. <<>> \in Seq(Int) /\ "none" \in EventKinds
    BY DEF EventKinds
  <2> QED
    BY <2>1, EventTyped DEF Stop
<1> HIDE DEF i, X
<1>5. ASSUME NEW k \in DOMAIN i PROVE Stop(t.calls[i[k]]) \in X
  <2>1. i[k] \in DOMAIN t.calls
    BY <1>3
  <2>2. t.calls[i[k]] \in Nat
    BY <1>2, <2>1, CallMapFacts
  <2> QED
    BY <1>4, <2>2
<1>6. DOMAIN i = 1..Len(i) /\ Len(i) \in Nat
  BY <1>3
<1> QED
  BY <1>1, <1>5, <1>6 DEF X

(* The reason in OpenAI's finish is the one that a Claude client is told.  *)
LEMMA OpenAIToClaudeWhys ==
  ASSUME NEW t \in States(Types), t.out = <<>>, NEW e, Formed("openai", e)
  PROVE  Whys(OpenAIToClaude(t, e).out) = IF e.type = "finish" THEN {e.kind} ELSE {}
<1>1. e \in Events(Types) /\ e.kind \in EventKinds /\ e.type \in OpenAITypes \cup {"error"}
  BY DEF Formed, EV, Events, LineTypes
<1>2. CASE e.type # "finish"
  <2> DEFINE T == ClaudeBlocks \cup {"message_stop"}
  <2>1. T \subseteq Types \ {"message_delta", "finish"}
    BY DEF ClaudeBlocks, ClaudeOpen, ClaudeTypes, Types
  <2>2. t \in States(T)
    BY StateTyped
  <2>3. ClaudeBlocks \subseteq T /\ "message_stop" \in T
    OBVIOUS
  <2> HIDE DEF T
  <2>4. OpenAIToClaude(t, e) \in States(T)
    BY <1>1, <1>2, <2>2, <2>3, OpenAIToClaudeTyped
  <2>5. OpenAIToClaude(t, e).out \in Seq(Events(T))
    BY <2>4 DEF States
  <2> QED
    BY <1>2, <2>1, <2>5, WhysQuiet
<1>3. CASE e.type = "finish"
  <2> DEFINE T == ClaudeBlocks
             v == First(t, <<MessageStart>>)
             u == CloseText(CloseThinking(v))
             c == CallStops(u)
             m == <<MessageDelta(e.kind)>>
  <2>1. T \subseteq Types \ {"message_delta", "finish"}
    BY DEF ClaudeBlocks, ClaudeOpen, ClaudeTypes, Types
  <2>2. t \in States(T)
    BY StateTyped
  <2>3. v \in States(T)
    <3>1. "message_start" \in T /\ "none" \in EventKinds
      BY DEF ClaudeBlocks, ClaudeOpen, ClaudeTypes, EventKinds
    <3>2. <<MessageStart>> \in Seq(Events(T))
      BY <3>1, PlainTyped DEF MessageStart
    <3> QED
      BY <2>2, <3>2, FirstTyped
  <2> HIDE DEF v
  <2>4. u \in States(T)
    <3>1. ClaudeBlocks \subseteq T
      OBVIOUS
    <3> QED
      BY <2>3, <3>1, CloseTyped
  <2>5. OpenAIToClaude(t, e) = Emit(u, Append(c, MessageDelta(e.kind)))
    BY <1>3 DEF OpenAIToClaude, FinishMessage, v
  <2> HIDE DEF u
  <2>6. u \in States(Types)
    <3>1. Seq(Events(T)) \subseteq Seq(Events(Types))
      <4>1. Events(T) \subseteq Events(Types)
        BY <2>1 DEF Events
      <4> QED
        BY <4>1
    <3> QED
      BY <2>4, <3>1 DEF States
  <2>7. u.out \in Seq(EV) /\ Whys(u.out) = {}
    <3>1. u.out \in Seq(Events(T))
      BY <2>4 DEF States
    <3> QED
      BY <2>1, <3>1, WhysQuiet
  <2>8. c \in Seq(EV) /\ Whys(c) = {}
    <3>1. {"content_block_stop"} \subseteq Types \ {"message_delta", "finish"}
      BY DEF ClaudeTypes, Types
    <3>2. c \in Seq(Events({"content_block_stop"}))
      BY <2>6, StopsQuiet
    <3> QED
      BY <3>1, <3>2, WhysQuiet
  <2> HIDE DEF c
  <2>9. m \in Seq(EV) /\ Whys(m) = {e.kind}
    <3>1. <<>> \in Seq(Int) /\ 0 \in Nat
      OBVIOUS
    <3>2. MessageDelta(e.kind) \in EV
      BY <1>1, <3>1, MadeEvents
    <3>3. Whys(m) = {e.kind}
      BY WhysEnd
    <3> QED
      BY <3>2, <3>3
  <2> DEFINE q == Append(c, MessageDelta(e.kind))
  <2>10. q = c \o m
    <3>1. MessageDelta(e.kind) \in EV
      <4>1. <<>> \in Seq(Int) /\ 0 \in Nat
        OBVIOUS
      <4> QED
        BY <1>1, <4>1, MadeEvents
    <3> QED
      BY <2>8, <3>1
  <2> HIDE DEF q, m
  <2>11. q \in Seq(EV) /\ Whys(q) = {e.kind}
    <3>1. Whys(q) = Whys(c) \cup Whys(m)
      BY <2>8, <2>9, <2>10, WhysConcat
    <3> QED
      BY <2>8, <2>9, <2>10, <3>1
  <2>12. Emit(u, q).out = u.out \o q
    BY <2>6, <2>11, OutOfEmit DEF EV
  <2> DEFINE r == Emit(u, q).out
  <2>13. Whys(r) = Whys(u.out) \cup Whys(q)
    BY <2>7, <2>11, <2>12, WhysConcat
  <2> QED
    BY <1>3, <2>5, <2>7, <2>11, <2>13 DEF q
<1> QED
  BY <1>2, <1>3

LEMMA SilentWhys ==
  ASSUME NEW t \in States(Types), t.out = <<>>, NEW m
  PROVE  Whys(t.out) = {} /\ Whys([t EXCEPT !.reason = m].out) = {}
<1>1. [t EXCEPT !.reason = m].out = t.out
  BY DEF States
<1> QED
  BY <1>1, WhysNone

LEMMA ClaudeToOpenAIWhys ==
  ASSUME NEW t \in States(Types), t.out = <<>>, NEW e, Formed("claude", e)
  PROVE  /\ Whys(ClaudeToOpenAI(t, e).out) = IF e.type = "message_stop" THEN {t.reason} ELSE {}
         /\ ClaudeToOpenAI(t, e).reason = IF e.type = "message_delta" THEN e.kind ELSE t.reason
<1>1. /\ e \in EV /\ e.i \in Nat /\ e.kind \in EventKinds /\ e.data \in Seq(Int)
      /\ e.type \in ClaudeTypes \cup {"error"}
      /\ t.reason \in EventKinds /\ t.current \in Nat /\ <<>> \in Seq(Int) /\ 0 \in Nat
      /\ "text" \in EventKinds /\ "call" \in EventKinds
  BY DEF Formed, EV, Events, LineTypes, States, EventKinds
<1>2. ASSUME NEW q \in Seq(EV)
      PROVE  Whys(Emit(t, q).out) = Whys(q) /\ Emit(t, q).reason = t.reason
  <2>1. Whys(Emit(t, q).out) = Whys(q)
    BY EmitWhys
  <2>2. Emit(t, q).reason = t.reason
    BY DEF Emit, States
  <2> QED
    BY <2>1, <2>2
<1>3. CASE e.type = "message_start"
  <2>1. Chunk(0, "text", <<>>) \in EV
    BY <1>1, MadeEvents
  <2>2. <<Chunk(0, "text", <<>>)>> \in Seq(EV)
    BY <2>1
  <2>4. Whys(<<Chunk(0, "text", <<>>)>>) = {}
    BY WhysMade
  <2>3. ClaudeToOpenAI(t, e) = Emit(t, <<Chunk(0, "text", <<>>)>>)
    BY <1>3 DEF ClaudeToOpenAI
  <2> QED
    BY <1>2, <1>3, <2>2, <2>3, <2>4
<1>4. CASE e.type = "content_block_start"
  <2> DEFINE m == IF e.kind = "call" THEN With(t.calls, e.i, e.i) ELSE t.calls
  <2>1. ClaudeToOpenAI(t, e) = [t EXCEPT !.current = e.i, !.calls = m]
    BY <1>4 DEF ClaudeToOpenAI
  <2> HIDE DEF m
  <2>2. [t EXCEPT !.current = e.i, !.calls = m].out = t.out
        /\ [t EXCEPT !.current = e.i, !.calls = m].reason = t.reason
    BY DEF States
  <2> QED
    BY <1>4, <2>1, <2>2, SilentWhys
<1>5. CASE e.type = "content_block_delta" /\ e.kind = "text"
  <2>1. Chunk(0, "text", e.data) \in EV
    BY <1>1, MadeEvents
  <2>2. <<Chunk(0, "text", e.data)>> \in Seq(EV)
    BY <2>1
  <2>4. Whys(<<Chunk(0, "text", e.data)>>) = {}
    BY WhysMade
  <2>3. ClaudeToOpenAI(t, e) = Emit(t, <<Chunk(0, "text", e.data)>>)
    BY <1>5 DEF ClaudeToOpenAI
  <2> QED
    BY <1>2, <1>5, <2>2, <2>3, <2>4
<1>6. CASE e.type = "content_block_delta" /\ e.kind = "call" /\ t.current \in DOMAIN t.calls
  <2>1. Chunk(t.current, "call", e.data) \in EV
    BY <1>1, MadeEvents
  <2>2. <<Chunk(t.current, "call", e.data)>> \in Seq(EV)
    BY <2>1
  <2>4. Whys(<<Chunk(t.current, "call", e.data)>>) = {}
    BY WhysMade
  <2>3. ClaudeToOpenAI(t, e) = Emit(t, <<Chunk(t.current, "call", e.data)>>)
    BY <1>6 DEF ClaudeToOpenAI
  <2> QED
    BY <1>2, <1>6, <2>2, <2>3, <2>4
<1>7. CASE e.type = "message_delta"
  <2>1. ClaudeToOpenAI(t, e) = [t EXCEPT !.reason = e.kind]
    BY <1>7 DEF ClaudeToOpenAI
  <2>2. [t EXCEPT !.reason = e.kind].reason = e.kind
    BY DEF States
  <2> QED
    BY <1>7, <2>1, <2>2, SilentWhys
<1>8. CASE e.type = "message_stop"
  <2>1. Finish(t.reason) \in EV /\ Done \in EV
    BY <1>1, MadeEvents
  <2>2. <<Finish(t.reason), Done>> \in Seq(EV)
    BY <2>1
  <2>3. Whys(<<Finish(t.reason), Done>>) = {t.reason}
    BY WhysEnd
  <2>4. ClaudeToOpenAI(t, e) = Emit(t, <<Finish(t.reason), Done>>)
    BY <1>8 DEF ClaudeToOpenAI
  <2> QED
    BY <1>2, <1>8, <2>2, <2>3, <2>4
<1>9. CASE /\ e.type \notin {"message_start", "content_block_start", "message_delta", "message_stop"}
           /\ ~ (e.type = "content_block_delta" /\ e.kind = "text")
           /\ ~ (e.type = "content_block_delta" /\ e.kind = "call" /\ t.current \in DOMAIN t.calls)
  <2>1. e.type # "[DONE]"
    BY <1>1 DEF ClaudeTypes
  <2>2. ClaudeToOpenAI(t, e) = t
    BY <1>9, <2>1 DEF ClaudeToOpenAI
  <2> QED
    BY <1>9, <2>2, SilentWhys
<1> QED
  BY <1>3, <1>4, <1>5, <1>6, <1>7, <1>8, <1>9

LEMMA CodexWhys ==
  ASSUME NEW t \in States(Types), t.out = <<>>, NEW e, Formed("codex", e)
  PROVE  /\ Whys(CodexToClaude(t, e).out) \subseteq {"end"}
         /\ Whys(CodexToOpenAI(t, e).out) \subseteq {"end"}
<1>1. /\ e.data \in Seq(Int) /\ <<>> \in Seq(Int) /\ 0 \in Nat
      /\ "text" \in EventKinds /\ "end" \in EventKinds
  BY DEF Formed, EV, Events, EventKinds
<1>2. ASSUME NEW q \in Seq(EV) PROVE Whys(Emit(t, q).out) = Whys(q)
  BY EmitWhys
<1>3. /\ MessageStart \in EV /\ Start(0, "text") \in EV /\ Delta(0, "text", e.data) \in EV
      /\ Chunk(0, "text", e.data) \in EV
  BY <1>1, MadeEvents
<1>4. /\ Stop(0) \in EV /\ MessageDelta("end") \in EV /\ MessageStop \in EV
      /\ Finish("end") \in EV /\ Done \in EV /\ Chunk(0, "text", <<>>) \in EV
  BY <1>1, MadeEvents
<1> DEFINE a == <<MessageStart, Start(0, "text")>>
           b == <<Delta(0, "text", e.data)>>
           c == <<Stop(0), MessageDelta("end"), MessageStop>>
           d == <<Chunk(0, "text", <<>>)>>
           h == <<Chunk(0, "text", e.data)>>
           i == <<Finish("end"), Done>>
<1>5. /\ a \in Seq(EV) /\ b \in Seq(EV) /\ c \in Seq(EV) /\ d \in Seq(EV) /\ h \in Seq(EV)
      /\ i \in Seq(EV)
  BY <1>3, <1>4
<1>6. Whys(a) = {} /\ Whys(b) = {} /\ Whys(d) = {} /\ Whys(h) = {}
  BY WhysMade, WhysBegun
<1>7. Whys(c) = {"end"} /\ Whys(i) = {"end"}
  BY WhysEnd
<1>8. CodexToClaude(t, e) \in {Emit(t, a), Emit(t, b), Emit(t, c), t}
  BY DEF CodexToClaude
<1>9. CodexToOpenAI(t, e) \in {Emit(t, d), Emit(t, h), Emit(t, i), t}
  BY DEF CodexToOpenAI
<1> HIDE DEF a, b, c, d, h, i
<1>10. Whys(t.out) = {}
  BY SilentWhys
<1> QED
  BY <1>2, <1>5, <1>6, <1>7, <1>8, <1>9, <1>10

LEMMA GeminiWhys ==
  ASSUME NEW t \in States(Types), t.out = <<>>, NEW e, Formed("gemini", e)
  PROVE  /\ Whys(GeminiToClaude(t, e).out) \subseteq {x \in {e.kind} : e.type = "finished"}
         /\ Whys(GeminiToOpenAI(t, e).out) \subseteq {x \in {e.kind} : e.type = "finished"}
<1>1. /\ e.data \in Seq(Int) /\ <<>> \in Seq(Int) /\ 0 \in Nat
      /\ "text" \in EventKinds /\ e.kind \in EventKinds
  BY DEF Formed, EV, Events, EventKinds
<1>3. /\ MessageStart \in EV /\ Start(0, "text") \in EV /\ Delta(0, e.kind, e.data) \in EV
      /\ Chunk(0, "text", e.data) \in EV /\ Chunk(0, "text", <<>>) \in EV
  BY <1>1, MadeEvents
<1>4. /\ Stop(0) \in EV /\ MessageDelta(e.kind) \in EV /\ MessageStop \in EV
      /\ Finish(e.kind) \in EV /\ Done \in EV
  BY <1>1, MadeEvents
<1> DEFINE a == <<MessageStart, Start(0, "text")>>
           b == <<Delta(0, e.kind, e.data)>>
           c == <<Stop(0), MessageDelta(e.kind), MessageStop>>
           d == <<Chunk(0, "text", <<>>)>>
           h == <<Chunk(0, "text", e.data)>>
           i == <<Finish(e.kind), Done>>
<1>5. /\ a \in Seq(EV) /\ b \in Seq(EV) /\ c \in Seq(EV) /\ d \in Seq(EV) /\ h \in Seq(EV)
      /\ i \in Seq(EV)
  BY <1>3, <1>4
<1>6. Whys(a) = {} /\ Whys(b) = {} /\ Whys(d) = {} /\ Whys(h) = {}
  BY WhysMade, WhysBegun
<1>7. Whys(c) = {e.kind} /\ Whys(i) = {e.kind}
  BY WhysEnd
<1>8. \/ GeminiToClaude(t, e) \in {Emit(First(t, a), b), First(t, a), t}
      \/ e.type = "finished" /\ GeminiToClaude(t, e) = Emit(First(t, a), c)
  BY DEF GeminiToClaude
<1>9. \/ GeminiToOpenAI(t, e) \in {Emit(First(t, d), h), First(t, d), t}
      \/ e.type = "finished" /\ GeminiToOpenAI(t, e) = Emit(First(t, d), i)
  BY DEF GeminiToOpenAI
<1> HIDE DEF a, b, c, d, h, i
<1>10. Whys(t.out) = {}
  BY SilentWhys
<1>11. ASSUME NEW q \in Seq(EV)
       PROVE  /\ Whys(Emit(First(t, a), q).out) = Whys(q) /\ Whys(First(t, a).out) = {}
              /\ Whys(Emit(First(t, d), q).out) = Whys(q) /\ Whys(First(t, d).out) = {}
  <2>1. Whys(Emit(First(t, a), q).out) = Whys(q) /\ Whys(First(t, a).out) = {}
    BY <1>5, <1>6, <1>11, FirstWhys, ZenonT(60)
  <2>2. Whys(Emit(First(t, d), q).out) = Whys(q) /\ Whys(First(t, d).out) = {}
    BY <1>5, <1>6, <1>11, FirstWhys, ZenonT(60)
  <2> QED
    BY <2>1, <2>2
<1>12. /\ Whys(Emit(First(t, a), b).out) = {} /\ Whys(Emit(First(t, a), c).out) = {e.kind}
       /\ Whys(First(t, a).out) = {}
       /\ Whys(Emit(First(t, d), h).out) = {} /\ Whys(Emit(First(t, d), i).out) = {e.kind}
       /\ Whys(First(t, d).out) = {}
  BY <1>5, <1>6, <1>7, <1>11
<1> QED
  BY <1>8, <1>9, <1>10, <1>12

-------------------------------------------------------------------------------
(* Why a message ended agrees with its calls.                              *)
(* The reasons a line may have a Claude or an OpenAI client be told.       *)
Gives(f, g, t, e) ==
    IF f = g THEN {x \in {e.kind} : WhyEnded(e)}
    ELSE CASE f = "openai" -> {x \in {e.kind} : e.type = "finish"}
           [] f = "claude" -> {x \in {t.reason} : e.type = "message_stop"}
           [] f = "codex"  -> {"end"}
           [] f = "gemini" -> {x \in {e.kind} : e.type = "finished"}

LEMMA TransformWhys ==
  ASSUME NEW f \in Formats, NEW g \in Speakers, NEW t \in States(Types), t.out = <<>>,
         NEW e, Formed(f, e), NEW u, u = TransformStreamChunk(f, g, t, e)
  PROVE  /\ Whys(u.out) \subseteq Gives(f, g, t, e)
         /\ f = "claude" /\ g = "openai" =>
               u.reason = IF e.type = "message_delta" THEN e.kind ELSE t.reason
<1>1. CASE f = g
  <2>1. u = Emit(t, <<e>>)
    BY <1>1 DEF TransformStreamChunk
  <2>2. e \in EV
    BY DEF Formed
  <2>3. <<e>> \in Seq(EV)
    BY <2>2
  <2>4. Whys(u.out) = Whys(<<e>>)
    BY <2>1, <2>3, EmitWhys
  <2>5. Whys(<<e>>) = IF WhyEnded(e) THEN {e.kind} ELSE {}
    BY WhysFew
  <2> QED
    BY <1>1, <2>4, <2>5 DEF Gives
<1>2. CASE f = "openai" /\ g = "claude"
  <2>1. u = OpenAIToClaude(t, e)
    BY <1>2 DEF TransformStreamChunk
  <2>2. Whys(u.out) = IF e.type = "finish" THEN {e.kind} ELSE {}
    <3>1. Formed("openai", e)
      BY <1>2
    <3> QED
      BY ONLY <2>1, <3>1, t \in States(Types), t.out = <<>>, OpenAIToClaudeWhys
  <2>3. Gives(f, g, t, e) = {x \in {e.kind} : e.type = "finish"}
    BY ONLY <1>2 DEF Gives
  <2>4. Whys(u.out) \subseteq Gives(f, g, t, e)
    BY ONLY <2>2, <2>3
  <2> QED
    BY ONLY <1>2, <2>4
<1>3. CASE f = "claude" /\ g = "openai"
  <2>1. u = ClaudeToOpenAI(t, e)
    BY <1>3 DEF TransformStreamChunk
  <2>2. /\ Whys(u.out) = IF e.type = "message_stop" THEN {t.reason} ELSE {}
        /\ u.reason = IF e.type = "message_delta" THEN e.kind ELSE t.reason
    <3>1. Formed("claude", e)
      BY <1>3
    <3> QED
      BY ONLY <2>1, <3>1, t \in States(Types), t.out = <<>>, ClaudeToOpenAIWhys
  <2>3. Gives(f, g, t, e) = {x \in {t.reason} : e.type = "message_stop"}
    BY ONLY <1>3 DEF Gives
  <2>4. Whys(u.out) \subseteq Gives(f, g, t, e)
    BY ONLY <2>2, <2>3
  <2> QED
    BY ONLY <2>2, <2>4
<1>4. CASE f = "codex"
  <2>1. u \in {CodexToClaude(t, e), CodexToOpenAI(t, e)}
    BY <1>4 DEF TransformStreamChunk, Speakers
  <2>2. f # g
    BY <1>4 DEF Speakers
  <2> QED
    BY <1>4, <2>1, <2>2, CodexWhys DEF Gives
<1>5. CASE f = "gemini"
  <2>1. u \in {GeminiToClaude(t, e), GeminiToOpenAI(t, e)}
    BY <1>5 DEF TransformStreamChunk, Speakers
  <2>2. f # g
    BY <1>5 DEF Speakers
  <2> QED
    BY <1>5, <2>1, <2>2, GeminiWhys DEF Gives
<1> QED
  BY <1>1, <1>2, <1>3, <1>4, <1>5 DEF Formats, Speakers

(* A Claude upstream's reason is known before its message's end is read.   *)
ReasonKnown ==
    \A k \in 1..Len(rest) : rest[k].type = "message_stop" =>
        IF k = 1 THEN s.reason = Reason(answer) ELSE rest[k - 1].type = "message_delta"

(* What is told of the end is why the answer ended, and is told after all  *)
(* of its calls.                                                           *)
Reasons ==
    /\ Staged(rest) /\ rest \in Seq(Reasoned(answer))
    /\ from \in Speakers =>
          /\ Whys(out) \subseteq {Reason(answer)}
          /\ Whys(out) # {} => ReadOf("call") = InAll("call")
    /\ from \notin Speakers => "calls" \notin Whys(out)
    /\ from = "claude" /\ to = "openai" => ReasonKnown

ReasonsInv == to \in Speakers => Reasons

LEMMA ReasonsAtFirst == CInv /\ Init => ReasonsInv
<1>1. SUFFICES ASSUME CInv, Init PROVE Reasons
  BY DEF ReasonsInv
<1>2. from \in Formats /\ answer \in Answers /\ cut \in BOOLEAN /\ Possible(from, answer)
      /\ rest = Lines(from, answer) /\ out = <<>>
  BY <1>1, PairFormats DEF CInv, CTypes, Init, from
<1>3. Staged(rest) /\ rest \in Seq(Reasoned(answer)) /\ Stops(rest)
  BY <1>2, LinesInOrder
<1>4. Whys(out) = {}
  BY <1>2, WhysNone
<1>5. ReasonKnown
  <2>1. Len(rest) \in Nat
    BY <1>3
  <2> QED
    BY <1>3, <2>1 DEF ReasonKnown, Stops
<1> QED
  BY <1>3, <1>4, <1>5 DEF Reasons

(* A line that tells why the answer ended has nothing of it after it.      *)
LEMMA NothingAfterWhy ==
  ASSUME NEW f \in Speakers, NEW g \in Speakers, NEW t, NEW e, Gives(f, g, t, e) # {},
         NEW q \in Seq(FormedLines(f)),
         \A k \in 1..Len(q) : \/ Stage(e) < Stage(q[k])
                              \/ Stage(e) = Stage(q[k]) /\ Stage(e) \notin {0, 3},
         NEW m
  PROVE  /\ e.type \in {"message_delta", "message_stop", "finish"}
         /\ ToCome(f, g, "call", m, q) = <<>>
<1>1. e.type \in {"message_delta", "message_stop", "finish"}
  <2>1. CASE f = g
    BY <2>1 DEF Gives, WhyEnded
  <2>2. CASE f = "openai" /\ f # g
    BY <2>2 DEF Gives
  <2>3. CASE f = "claude" /\ f # g
    BY <2>3 DEF Gives
  <2> QED
    BY <2>1, <2>2, <2>3 DEF Speakers
<1>2. Stage(e) >= 3
  BY <1>1 DEF Stage
<1>3. ASSUME NEW k \in 1..Len(q) PROVE q[k].type \notin TextType(f)
  <2>1. Stage(e) \in 0..4 /\ Stage(q[k]) \in 0..4
    BY StageIs
  <2>2. Stage(q[k]) = 4
    BY <1>2, <2>1
  <2>3. q[k].type \in {"message_stop", "usage", "[DONE]", "error"}
    BY <2>2 DEF Stage
  <2> QED
    BY <2>3 DEF TextType, Speakers
<1>4. q \in Seq(EV)
  BY DEF FormedLines
<1>5. Said(q, TextType(f), Heard(f, g, "call")) = <<>>
  BY <1>3, <1>4, SaidNothing
<1>6. ~Untagged(f, g, "call")
  BY DEF Untagged
<1> QED
  BY <1>1, <1>5, <1>6 DEF ToCome

(* What is told is told to the end once nothing is left to be.             *)
LEMMA ToldToTheEnd ==
  ASSUME NEW r \in Seq(Int), NEW x \in Seq(Int), NEW w \in Seq(Int), NEW c,
         NEW z, z = r \o x, z \o w = c
  PROVE  /\ r = c => z = c
         /\ w = <<>> => z = c
<1>1. (r \o x) \o w = r \o (x \o w)
  BY ONLY Regrouped
<1>2. ASSUME r = c PROVE z = c
  <2> DEFINE y == x \o w
  <2>1. y \in Seq(Int)
    OBVIOUS
  <2>2. r = r \o y
    BY <1>1, <1>2
  <2> HIDE DEF y
  <2>3. y = <<>>
    BY ONLY <2>1, <2>2, NothingAdded
  <2>4. x = <<>>
    BY <2>3 DEF y
  <2> QED
    BY <1>2, <2>4
<1>3. ASSUME w = <<>> PROVE z = c
  <2>1. z \in Seq(Int)
    OBVIOUS
  <2> QED
    BY <1>3, <2>1
<1> QED
  BY <1>2, <1>3

LEMMA ReadLineReasons ==
  ASSUME CInv, TellInv, TellInv', to \in Speakers, Reasons, ReadLine
  PROVE  Reasons'
<1>1. CTypes /\ Erring /\ Shapes
  BY DEF CInv, TellInv
<1>2. PICK n \in Batches, t \in States(Types) :
            /\ t = TransformStreamChunk(from, to, s, Batch(n))
            /\ rest' = SubSeq(rest, n + 1, Len(rest))
            /\ s' = [t EXCEPT !.out = <<>>]
            /\ \/ out' = out \o t.out /\ outcome' = outcome
               \/ out' = out /\ client # "here" /\ outcome' = ClientDisconnected
  BY <1>1, ReadFacts
<1>3. /\ stream /\ upstream # "connecting" /\ outcome = Pending /\ rest # <<>>
      /\ UNCHANGED <<pair, answer, cut, stream, upstream, body, client>>
  BY DEF ReadLine
<1>4. from' = from /\ to' = to /\ Reason(answer)' = Reason(answer)
  BY <1>3 DEF from, to, Reason
<1>5. from \in Formats /\ to \in Formats /\ s \in States(Types) /\ s.out = <<>>
      /\ Proper(rest) /\ Len(rest) \in Nat /\ s.mode \in 0..2
  BY <1>1, PairFormats DEF CTypes, Proper, States
<1> DEFINE e == Batch(n)
           q == SubSeq(rest, n + 1, Len(rest))
<1>6. /\ n \in 1..Len(rest) /\ q \in Seq(EV) /\ Len(q) = Len(rest) - n
      /\ \A j \in 1..Len(rest) - n : q[j] = rest[n + j]
      /\ \/ n = 1 /\ e = rest[1]
         \/ n > 1 /\ e.type = "chunk" /\ \A j \in 1..n : rest[j].type = "chunk"
  BY <1>5, BatchFacts DEF EV
<1>7. rest \in Seq(FormedLines(from)) /\ Formed(from, e)
  <2>1. rest \in Seq(FormedLines(from))
    BY <1>1 DEF Shapes
  <2> QED
    BY <1>5, <2>1, BatchFormed
<1>8. /\ Staged(rest) /\ rest \in Seq(Reasoned(answer))
      /\ from \in Speakers =>
            /\ Whys(out) \subseteq {Reason(answer)}
            /\ Whys(out) # {} => ReadOf("call") = InAll("call")
      /\ from \notin Speakers => "calls" \notin Whys(out)
      /\ from = "claude" /\ to = "openai" => ReasonKnown
  BY DEF Reasons
<1>9. /\ Staged(q)
      /\ \A k \in 1..Len(q) : \/ Stage(e) < Stage(q[k])
                              \/ Stage(e) = Stage(q[k]) /\ Stage(e) \notin {0, 3}
  BY <1>5, <1>8, StagedAfter
<1>10. e.type = "error" \/ upstream = "sending"
  <2>1. CASE upstream = "failed"
    <3>1. PICK b \in BOOLEAN : rest = <<ErrorEvent(b)>>
      BY <1>1, <1>3, <2>1 DEF Erring
    <3>2. Len(rest) = 1 /\ rest[1].type = "error"
      BY <3>1, ErrorEventTyped
    <3>3. n = 1
      BY <1>6, <3>2
    <3> QED
      BY <1>6, <3>2, <3>3
  <2> QED
    BY <1>1, <1>3, <2>1 DEF CTypes, Erring
<1> HIDE DEF e, q
<1>11. rest' = q /\ t = TransformStreamChunk(from, to, s, e)
  BY <1>2 DEF e, q
<1>12. /\ e.type \in {"message_delta", "finish"} => e.kind = Reason(answer)
       /\ e.type = "finished" => e.kind # "calls"
  <2>1. CASE n = 1 /\ e = rest[1]
    <3>1. 1 \in 1..Len(rest)
      BY <1>6, <2>1
    <3>2. e \in Reasoned(answer)
      BY <1>8, <2>1, <3>1
    <3> QED
      BY <3>2 DEF Reasoned
  <2>2. CASE e.type = "chunk"
    BY <2>2
  <2> QED
    BY <1>6, <2>1, <2>2
<1>13. /\ Whys(t.out) \subseteq Gives(from, to, s, e)
       /\ from = "claude" /\ to = "openai" =>
             t.reason = IF e.type = "message_delta" THEN e.kind ELSE s.reason
  <2> HIDE DEF from, to
  <2> QED
    BY <1>5, <1>7, <1>11, TransformWhys
<1>14. from = "claude" /\ to = "openai" /\ e.type = "message_stop" => s.reason = Reason(answer)
  <2>1. SUFFICES ASSUME from = "claude", to = "openai", e.type = "message_stop"
                 PROVE  s.reason = Reason(answer)
    OBVIOUS
  <2>2. n = 1 /\ e = rest[1] /\ 1 \in 1..Len(rest)
    BY <1>6, <2>1
  <2> QED
    BY <1>8, <2>1, <2>2 DEF ReasonKnown
<1>15. from \in Speakers => Whys(t.out) \subseteq {Reason(answer)}
  <2> HIDE DEF from, to
  <2>1. CASE from = to
    BY <1>12, <1>13, <2>1 DEF Gives, WhyEnded
  <2>2. CASE from = "openai" /\ to # from
    BY <1>12, <1>13, <2>2 DEF Gives
  <2>3. CASE from = "claude" /\ to # from
    BY <1>13, <1>14, <2>3 DEF Gives, Speakers
  <2> QED
    BY <2>1, <2>2, <2>3 DEF Speakers
<1>16. from \notin Speakers => "calls" \notin Whys(t.out)
  <2> HIDE DEF from, to
  <2>1. CASE from = "codex"
    BY <1>13, <2>1 DEF Gives, Speakers
  <2>2. CASE from = "gemini"
    BY <1>12, <1>13, <2>2 DEF Gives, Speakers
  <2> QED
    BY <1>5, <2>1, <2>2 DEF Formats, Speakers
<1>17. out \in Seq(EV) /\ t.out \in Seq(EV)
  BY <1>1 DEF Shapes, States, EV
<1>18. Staged(rest') /\ rest' \in Seq(Reasoned(answer))
  <2>1. \A j \in 1..Len(q) : q[j] \in Reasoned(answer)
    <3>1. ASSUME NEW j \in 1..Len(q) PROVE q[j] \in Reasoned(answer)
      <4>1. j \in 1..Len(rest) - n /\ n + j \in 1..Len(rest)
        BY <1>5, <1>6
      <4> QED
        BY <1>6, <1>8, <4>1
    <3> QED
      BY <3>1
  <2> QED
    BY <1>6, <1>9, <1>11, <2>1
<1>19. rest' \in Seq(Reasoned(answer))'
  <2>1. Reasoned(answer)' = Reasoned(answer)
    BY <1>4 DEF Reasoned, EV, Events
  <2> QED
    BY <1>18, <2>1
<1>20. from = "claude" /\ to = "openai" => ReasonKnown'
  <2>1. SUFFICES ASSUME from = "claude", to = "openai",
                        NEW j \in 1..Len(q), q[j].type = "message_stop"
                 PROVE  IF j = 1 THEN s'.reason = Reason(answer) ELSE q[j - 1].type = "message_delta"
    <3>1. ReasonKnown' <=> \A k \in 1..Len(q) : q[k].type = "message_stop" =>
              IF k = 1 THEN s'.reason = Reason(answer) ELSE q[k - 1].type = "message_delta"
      BY <1>4, <1>11 DEF ReasonKnown
    <3> QED
      BY <3>1
  <2>2. j \in 1..Len(rest) - n /\ n + j \in 1..Len(rest) /\ q[j] = rest[n + j] /\ n + j # 1
    BY <1>5, <1>6
  <2>3. rest[n + j - 1].type = "message_delta"
    <3> DEFINE i == n + j
    <3>1. i \in 1..Len(rest) /\ i # 1 /\ rest[i].type = "message_stop"
      BY <2>1, <2>2
    <3> HIDE DEF i
    <3>2. rest[i - 1].type = "message_delta"
      BY <1>8, <2>1, <3>1 DEF ReasonKnown
    <3>3. i - 1 = n + j - 1
      BY <1>6 DEF i
    <3> QED
      BY <3>2, <3>3
  <2>4. CASE j # 1
    <3>1. j - 1 \in 1..Len(rest) - n /\ n + (j - 1) = n + j - 1
      BY <1>5, <1>6, <2>2, <2>4
    <3> QED
      BY <1>6, <2>3, <2>4, <3>1
  <2>5. CASE j = 1
    <3>1. rest[n].type = "message_delta"
      <4>1. n + 1 - 1 = n
        BY <1>6
      <4> QED
        BY <2>3, <2>5, <4>1
    <3>2. n = 1 /\ e = rest[1]
      <4>1. n \in 1..n
        BY <1>6
      <4> QED
        BY <1>6, <3>1, <4>1
    <3>3. t.reason = Reason(answer)
      BY <1>12, <1>13, <2>1, <3>1, <3>2
    <3>4. s'.reason = t.reason
      BY <1>2 DEF States
    <3> QED
      BY <2>5, <3>3, <3>4
  <2> QED
    BY <2>4, <2>5
<1>21. CASE out' = out
  <2>1. Whys(out)' = Whys(out)
    BY <1>21
  <2>2. ReadOf("call")' = ReadOf("call")
    BY <1>4, <1>21 DEF ReadOf
  <2>3. InAll("call")' = InAll("call")
    <3>1. Lines(from, answer)' = Lines(from, answer)
      BY <1>3, <1>4 DEF Lines, PartLines, Tagged
    <3> QED
      BY <1>4, <3>1 DEF InAll
  <2> HIDE DEF from, to
  <2> QED
    BY <1>4, <1>8, <1>18, <1>19, <1>20, <2>1, <2>2, <2>3 DEF Reasons
<1>22. CASE out' = out \o t.out /\ outcome' = outcome
  <2> DEFINE o == out'
             W == Whys(out) \cup Whys(t.out)
             R == ReadOf("call")
             x == Says(to, "call", t.out)
             z == Says(to, "call", o)
             c == InAll("call")
             y == ToCome(from, to, "call", s'.mode, q)
  <2>1. Whys(o) = W
    <3>1. o = out \o t.out
      BY <1>22
    <3> HIDE DEF o
    <3> QED
      BY <1>17, <3>1, WhysConcat
  <2>2. InAll("call")' = c
    <3>1. Lines(from, answer)' = Lines(from, answer)
      BY <1>3, <1>4 DEF Lines, PartLines, Tagged
    <3> QED
      BY <1>4, <3>1 DEF InAll
  <2>3. ReadOf("call")' = z
    BY <1>4 DEF ReadOf, Says
  <2>4. z = R \o x /\ R \in Seq(Int) /\ x \in Seq(Int)
    <3>1. o = out \o t.out
      BY <1>22
    <3>2. R = Says(to, "call", out)
      BY DEF ReadOf, Says
    <3> HIDE DEF o
    <3>3. /\ Says(to, "call", o) = Says(to, "call", out) \o Talk(to, "call", t)
          /\ Talk(to, "call", t) \in Seq(Int) /\ Says(to, "call", out) \in Seq(Int)
      <4> HIDE DEF to
      <4> QED
        BY <1>17, <3>1, TakenOn
    <3> QED
      BY <3>2, <3>3 DEF Talk
  <2>5. Telling("call")'
    <3>1. "call" \in Kinds
      BY DEF Kinds
    <3>2. \A kind \in Kinds : Telling(kind)'
      BY DEF TellInv
    <3> QED
      BY <3>1, <3>2
  <2>6. y \in Seq(Int)
    <3>1. s'.mode \in 0..2
      <4>1. s'.mode = t.mode /\ t.mode \in 0..2
        BY <1>2 DEF States
      <4> QED
        BY <4>1
    <3> QED
      BY <1>6, <3>1, ToComeTyped
  <2>7. IF InStep' THEN z \o y = c ELSE \E w \in Seq(Int) : z \o w = c
    <3>1. IF InStep' THEN ReadOf("call")' \o ToCome(from, to, "call", s.mode, rest)' = InAll("call")'
          ELSE \E w \in Seq(Int) : ReadOf("call")' \o w = InAll("call")'
      BY <2>5 DEF Telling
    <3>2. ToCome(from, to, "call", s.mode, rest)' = y
      BY <1>4, <1>11
    <3> HIDE DEF y, z, c
    <3> QED
      BY <2>2, <2>3, <3>1, <3>2
  <2>8. from \in Speakers /\ Whys(t.out) # {} => InStep' /\ y = <<>>
    <3>1. SUFFICES ASSUME from \in Speakers, Whys(t.out) # {} PROVE InStep' /\ y = <<>>
      OBVIOUS
    <3>2. q \in Seq(FormedLines(from))
      <4>1. rest' \in Seq(FormedLines(from))'
        BY DEF TellInv, Shapes
      <4>2. FormedLines(from)' = FormedLines(from)
        BY <1>4 DEF FormedLines
      <4> QED
        BY <1>11, <4>1, <4>2
    <3>3. Gives(from, to, s, e) # {}
      BY <1>13, <3>1
    <3>4. e.type \in {"message_delta", "message_stop", "finish"} /\ y = <<>>
      <4> HIDE DEF from, to
      <4> QED
        BY <1>9, <3>1, <3>2, <3>3, NothingAfterWhy
    <3>5. upstream = "sending"
      BY <1>10, <3>4
    <3>6. InStep'
      BY <1>3, <1>22, <3>5 DEF InStep
    <3> QED
      BY <3>4, <3>6
  <2>9. from \in Speakers /\ W # {} => z = c
    <3> HIDE DEF x, y, z, c, R, from, to
    <3>1. SUFFICES ASSUME from \in Speakers, W # {} PROVE z = c
      OBVIOUS
    <3>2. CASE Whys(t.out) # {}
      <4>1. z \o y = c /\ y = <<>>
        BY <2>7, <2>8, <3>1, <3>2
      <4> QED
        BY ONLY <2>4, <2>6, <4>1, ToldToTheEnd
    <3>3. CASE Whys(t.out) = {}
      <4>1. R = c
        BY <1>8, <3>1, <3>3 DEF R, c
      <4>2. PICK w \in Seq(Int) : z \o w = c
        BY <2>6, <2>7
      <4> QED
        BY ONLY <2>4, <4>1, <4>2, ToldToTheEnd
    <3> QED
      BY <3>2, <3>3
  <2>10. Whys(out)' = W
    BY <2>1
  <2>11. from \in Speakers => W \subseteq {Reason(answer)}
    BY <1>8, <1>15
  <2>12. from \notin Speakers => "calls" \notin W
    BY <1>8, <1>16
  <2> HIDE DEF o, W, R, x, z, c, y, from, to
  <2> QED
    BY <1>4, <1>18, <1>19, <1>20, <2>2, <2>3, <2>9, <2>10, <2>11, <2>12 DEF Reasons
<1> QED
  BY <1>2, <1>21, <1>22

LEMMA OthersReason ==
  ASSUME CInv, TellInv, to \in Speakers, Reasons,
         \/ RequestFails \/ ConnectFails \/ Refuses \/ Responds \/ RelayWhole
         \/ StreamEnds \/ Cancelled \/ UpstreamErrs \/ UpstreamBreaks
         \/ ClientLeaves \/ ClientNoticed \/ UNCHANGED vars
  PROVE  Reasons'
<1>1. UNCHANGED <<pair, answer, cut, s, out>>
  BY ZenonT(60) DEF RequestFails, ConnectFails, Refuses, Responds, RelayWhole, StreamEnds, Cancelled,
         UpstreamErrs, UpstreamBreaks, ClientLeaves, ClientNoticed, vars
<1>2. rest' = rest \/ rest' = <<>> \/ \E b \in BOOLEAN : rest' = <<ErrorEvent(b)>>
  BY ZenonT(60) DEF RequestFails, ConnectFails, Refuses, Responds, RelayWhole, StreamEnds, Cancelled,
         UpstreamErrs, UpstreamBreaks, ClientLeaves, ClientNoticed, vars
<1>3. from' = from /\ to' = to /\ Reason(answer)' = Reason(answer)
  BY <1>1 DEF from, to, Reason
<1>4. /\ Whys(out)' = Whys(out) /\ ReadOf("call")' = ReadOf("call")
      /\ InAll("call")' = InAll("call") /\ Reasoned(answer)' = Reasoned(answer)
  <2>1. Lines(from, answer)' = Lines(from, answer)
    BY <1>1, <1>3 DEF Lines, PartLines, Tagged
  <2>2. InAll("call")' = InAll("call")
    BY <1>3, <2>1 DEF InAll
  <2>3. ReadOf("call")' = ReadOf("call") /\ Whys(out)' = Whys(out)
    BY <1>1, <1>3 DEF ReadOf
  <2>4. Reasoned(answer)' = Reasoned(answer)
    BY <1>3 DEF Reasoned
  <2> QED
    BY <2>2, <2>3, <2>4
<1>5. Staged(rest)' /\ rest' \in Seq(Reasoned(answer)) /\ (ReasonKnown => ReasonKnown')
  <2>1. CASE rest' = rest
    <3>1. Staged(rest)' <=> Staged(rest)
      BY <2>1
    <3>2. ReasonKnown' <=> ReasonKnown
      BY <1>1, <1>3, <2>1 DEF ReasonKnown
    <3> QED
      BY <2>1, <3>1, <3>2 DEF Reasons
  <2>2. CASE rest' = <<>>
    <3>1. Len(rest') = 0
      BY <2>2
    <3>2. Staged(rest)' /\ ReasonKnown'
      BY <3>1 DEF Staged, ReasonKnown
    <3> QED
      BY <2>2, <3>2
  <2>3. CASE \E b \in BOOLEAN : rest' = <<ErrorEvent(b)>>
    <3>1. PICK b \in BOOLEAN : rest' = <<ErrorEvent(b)>>
      BY <2>3
    <3> DEFINE x == ErrorEvent(b)
    <3>2. x \in EV /\ x.type = "error"
      <4>1. x \in Events({"error"}) /\ x.type = "error"
        BY ErrorEventTyped
      <4> QED
        BY <4>1 DEF EV, Events, Types
    <3> HIDE DEF x
    <3>3. x \in Reasoned(answer)
      BY <3>2 DEF Reasoned
    <3>4. rest' = <<x>>
      BY <3>1 DEF x
    <3>5. rest' \in Seq(Reasoned(answer)) /\ Len(rest') = 1 /\ rest'[1] = x
      BY <3>3, <3>4
    <3>6. Staged(rest)'
      BY <3>5 DEF Staged
    <3>7. ReasonKnown'
      BY <3>2, <3>5 DEF ReasonKnown
    <3> QED
      BY <3>5, <3>6, <3>7
  <2> QED
    BY <1>2, <2>1, <2>2, <2>3
<1> HIDE DEF from, to
<1> QED
  BY <1>3, <1>4, <1>5 DEF Reasons

LEMMA NotSwapped == ASSUME pair \in Pairs, to \in Speakers PROVE pair \notin Swapped
BY DEF Swapped, Speakers, to

LEMMA ReasonsNext ==
  CInv /\ (pair \notin Swapped => TellInv) /\ ReasonsInv /\ [Next]_vars => ReasonsInv'
<1>1. SUFFICES ASSUME CInv, pair \notin Swapped => TellInv, ReasonsInv, [Next]_vars, to' \in Speakers
               PROVE  Reasons'
  BY DEF ReasonsInv
<1>2. pair' = pair /\ to' = to
  BY <1>1, PairStays DEF to
<1>3. to \in Speakers
  BY <1>1, <1>2
<1>4. pair \notin Swapped
  BY <1>1, <1>3, NotSwapped DEF CInv, CTypes
<1>5. TellInv /\ TellInv' /\ Reasons
  BY <1>1, <1>3, <1>4, TellsNext DEF ReasonsInv
<1>6. CASE ReadLine
  BY <1>1, <1>3, <1>5, <1>6, ReadLineReasons
<1>7. CASE \/ RequestFails \/ ConnectFails \/ Refuses \/ Responds \/ RelayWhole
           \/ StreamEnds \/ Cancelled \/ UpstreamErrs \/ UpstreamBreaks
           \/ ClientLeaves \/ ClientNoticed \/ UNCHANGED vars
  BY <1>1, <1>3, <1>5, <1>7, OthersReason
<1> QED
  BY <1>1, <1>6, <1>7 DEF Next, Returned

LEMMA ReasonsThen == CInv /\ (pair \notin Swapped => TellInv) /\ ReasonsInv => ReasonMatchesCalls
<1>1. SUFFICES ASSUME CInv, pair \notin Swapped => TellInv, ReasonsInv, to \in Speakers
               PROVE  ReasonMatchesCalls
  BY DEF ReasonMatchesCalls, Speakers
<1>2. TellInv /\ Reasons
  BY <1>1, NotSwapped DEF CInv, CTypes, ReasonsInv
<1>3. /\ from \in Formats /\ to \in Formats /\ answer \in Answers /\ Possible(from, answer)
      /\ cut \in BOOLEAN
  BY <1>1, <1>2, PairFormats DEF CInv, CTypes, TellInv, Shapes
<1> DEFINE R == ReadOf("call")
           Agrees(reason, calls) == /\ reason = "calls" => calls
                                    /\ calls /\ ~cut => reason = "calls"
<1>4. ASSUME NEW e \in ToSet(out), e.type \in {"message_delta", "finish"}
      PROVE  Agrees(e.kind, R # <<>>)
  <2>1. e.kind \in Whys(out)
    <3>1. PICK k \in 1..Len(out) : e = out[k]
      BY <1>2 DEF ToSet, TellInv, Shapes
    <3> QED
      BY <1>4, <3>1 DEF Whys, WhyEnded
  <2>2. CASE from \in Speakers
    <3>1. e.kind = Reason(answer) /\ R = InAll("call")
      BY <1>2, <2>1, <2>2 DEF Reasons
    <3>2. R # <<>> <=> Called(answer)
      BY <1>1, <1>2, <2>2, <3>1, InAllCalled
    <3>3. Reason(answer) = IF cut THEN "length" ELSE IF Called(answer) THEN "calls" ELSE "end"
      BY DEF Reason, Called
    <3> HIDE DEF R, from, to
    <3> QED
      BY <3>1, <3>2, <3>3
  <2>3. CASE from \notin Speakers
    <3>1. e.kind # "calls"
      BY <1>2, <2>1, <2>3 DEF Reasons
    <3>2. InAll("call") = <<>>
      BY <1>1, <1>2, <2>3, InAllCalled
    <3>3. IsPrefix(R, InAll("call"))
      <4>1. "call" \in Kinds
        BY DEF Kinds
      <4> QED
        BY <1>1, <1>2, <4>1, ReadsItAll
    <3>4. R \in Seq(Int)
      BY <1>2, SaidTyped DEF ReadOf, TellInv, Shapes
    <3> HIDE DEF R, from, to
    <3>5. Len(R) <= 0
      <4> DEFINE z == <<>>
      <4>1. Len(z) = 0 /\ IsPrefix(R, z)
        BY <3>2, <3>3
      <4> HIDE DEF z
      <4> QED
        BY <4>1 DEF IsPrefix
    <3>6. R = <<>>
      BY <3>4, <3>5
    <3> QED
      BY <3>1, <3>6
  <2> QED
    BY <2>2, <2>3
<1>5. outcome = Success /\ ~stream => Agrees(body.reason, Calls(body.parts))
  <2>1. SUFFICES ASSUME outcome = Success, ~stream PROVE Agrees(body.reason, Calls(body.parts))
    OBVIOUS
  <2>2. body = TransformResponse(from, to, WholeMessage(from, answer))
    BY <1>2, <2>1 DEF TellInv, Shapes
  <2> HIDE DEF from, to
  <2> QED
    BY <1>1, <1>3, <2>2, BodyReason
<1> QED
  BY <1>1, <1>4, <1>5 DEF ReasonMatchesCalls

(* Why a Claude or an OpenAI message ended agrees with its calls, whatever *)
(* the upstream's format, its answer and the chunks it comes in: finish is *)
(* converted once its calls are, and the reason of a Codex or Gemini       *)
(* stream, which carries no calls, never asks to run any.                  *)
THEOREM ReasonsMatchCalls == Spec => []ReasonMatchesCalls
<1>1. CInv /\ Init => ReasonsInv
  BY ReasonsAtFirst
<1> QED
  BY <1>1, AdapterInvariant, TellInvariant, CInit, ReasonsNext, ReasonsThen, PTL DEF Spec

-------------------------------------------------------------------------------
(* A message's blocks.                                                     *)
(* An event that fits those before it in a Claude message: blocks are      *)
(* started once, hear of what they are for while they are open, are        *)
(* stopped once, and all of them before the message's delta. With lax a    *)
(* block may hear of other kinds.                                          *)
StartAt(o, j, i) == o[j].type = "content_block_start" /\ o[j].i = i
StopAt(o, j, i) == o[j].type = "content_block_stop" /\ o[j].i = i

FitsAt(lax, o, k) ==
    /\ o[k].type = "content_block_start" => \A j \in 1..k - 1 : ~StartAt(o, j, o[k].i)
    /\ o[k].type \in {"content_block_delta", "content_block_stop"} =>
          /\ \E j \in 1..k - 1 : StartAt(o, j, o[k].i)
          /\ \A j \in 1..k - 1 : ~StopAt(o, j, o[k].i)
    /\ o[k].type = "content_block_delta" =>
          \A j \in 1..k - 1 : StartAt(o, j, o[k].i) =>
              o[k].kind \in {o[j].kind, "signature"} \/ lax
    /\ o[k].type = "message_delta" =>
          \A j \in 1..k - 1 : o[j].type = "content_block_start" =>
              \E m \in j..k - 1 : o[m] = Stop(o[j].i)

Fits(lax, o) == o \in Seq(EV) /\ \A k \in 1..Len(o) : FitsAt(lax, o, k)

(* A message that fits, with the blocks started and those stopped.         *)
Reads(lax, o, S, P) ==
    /\ Fits(lax, o)
    /\ \A k \in 1..Len(o) : o[k].type = "content_block_start" => <<o[k].i, o[k].kind>> \in S
    /\ \A x \in S : \E k \in 1..Len(o) : StartAt(o, k, x[1]) /\ o[k].kind = x[2]
    /\ \A k \in 1..Len(o) : o[k].type = "content_block_stop" => o[k].i \in P
    /\ \A i \in P : \E k \in 1..Len(o) : o[k] = Stop(i)

LEMMA FitsBefore ==
  ASSUME NEW lax, NEW o, NEW r, NEW n \in Nat, \A j \in 1..n : r[j] = o[j], NEW k \in 1..n
  PROVE  FitsAt(lax, r, k) <=> FitsAt(lax, o, k)
<1>1. /\ r[k] = o[k] /\ \A j \in 1..k - 1 : r[j] = o[j] /\ j \in 1..n
      /\ \A j \in 1..k - 1 : j..k - 1 \subseteq 1..n
  OBVIOUS
<1>2. \A j \in 1..k - 1 : \A i : /\ StartAt(r, j, i) <=> StartAt(o, j, i)
                                 /\ StopAt(r, j, i) <=> StopAt(o, j, i)
  BY <1>1 DEF StartAt, StopAt
<1>3. \A j \in 1..k - 1 : (\E m \in j..k - 1 : r[m] = Stop(r[j].i))
                            <=> (\E m \in j..k - 1 : o[m] = Stop(o[j].i))
  BY <1>1
<1> QED
  BY <1>1, <1>2, <1>3 DEF FitsAt

(* What fits, still fits when it is cut.                                   *)
LEMMA FitsCut ==
  ASSUME NEW lax, NEW o \in Seq(EV), NEW q \in Seq(EV), NEW r, r = o \o q, Fits(lax, r)
  PROVE  Fits(lax, o)
<1>1. Len(r) = Len(o) + Len(q) /\ Len(o) \in Nat /\ Len(q) \in Nat
      /\ \A j \in 1..Len(o) : r[j] = o[j]
  OBVIOUS
<1>2. ASSUME NEW k \in 1..Len(o) PROVE FitsAt(lax, o, k)
  <2>1. k \in 1..Len(r)
    BY <1>1
  <2>2. FitsAt(lax, r, k)
    BY <2>1 DEF Fits
  <2> QED
    BY <1>1, <2>2, FitsBefore
<1> QED
  BY <1>2 DEF Fits

(* One more event: it must fit what was started and what was stopped.      *)
Suits(lax, S, P, e) ==
    /\ e.type = "content_block_start" => \A x \in S : x[1] # e.i
    /\ e.type \in {"content_block_delta", "content_block_stop"} =>
          (\E x \in S : x[1] = e.i) /\ e.i \notin P
    /\ e.type = "content_block_delta" =>
          \A x \in S : x[1] = e.i => e.kind \in {x[2], "signature"} \/ lax
    /\ e.type = "content_block_stop" => e = Stop(e.i)
    /\ e.type = "message_delta" => \A x \in S : x[1] \in P

StartsWith(S, e) == IF e.type = "content_block_start" THEN S \cup {<<e.i, e.kind>>} ELSE S
StopsWith(P, e) == IF e.type = "content_block_stop" THEN P \cup {e.i} ELSE P

LEMMA ReadsMore ==
  ASSUME NEW lax, NEW o, NEW S, NEW P, Reads(lax, o, S, P), NEW e \in EV, Suits(lax, S, P, e),
         NEW r, r = Append(o, e)
  PROVE  Reads(lax, r, StartsWith(S, e), StopsWith(P, e))
<1> DEFINE n == Len(o)
<1>1. o \in Seq(EV) /\ n \in Nat
  BY DEF Reads, Fits
<1>2. r \in Seq(EV) /\ Len(r) = n + 1 /\ r[n + 1] = e /\ \A j \in 1..n : r[j] = o[j]
  BY <1>1
<1> HIDE DEF n
<1>3. /\ \A j \in 1..n : o[j].type = "content_block_start" => <<o[j].i, o[j].kind>> \in S
      /\ \A x \in S : \E j \in 1..n : StartAt(o, j, x[1]) /\ o[j].kind = x[2]
      /\ \A j \in 1..n : o[j].type = "content_block_stop" => o[j].i \in P
      /\ \A i \in P : \E j \in 1..n : o[j] = Stop(i)
      /\ \A j \in 1..n : FitsAt(lax, o, j)
  BY DEF Reads, Fits, n
<1>4. ASSUME NEW k \in 1..n PROVE FitsAt(lax, r, k)
  BY <1>1, <1>2, <1>3, FitsBefore
<1>5. \A x \in S : \E j \in 1..n : StartAt(r, j, x[1]) /\ r[j].kind = x[2]
  <2>1. SUFFICES ASSUME NEW x \in S
                 PROVE  \E j \in 1..n : StartAt(r, j, x[1]) /\ r[j].kind = x[2]
    OBVIOUS
  <2>2. PICK j \in 1..n : StartAt(o, j, x[1]) /\ o[j].kind = x[2]
    BY <1>3, <2>1
  <2>3. r[j] = o[j]
    BY <1>2
  <2>4. StartAt(r, j, x[1]) /\ r[j].kind = x[2]
    BY <2>2, <2>3 DEF StartAt
  <2> QED
    BY <2>4
<1>6. \A i : Stop(i).type = "content_block_stop" /\ Stop(i).i = i
  BY DEF Stop, E
<1>7. FitsAt(lax, r, n + 1)
  <2>0. (n + 1) - 1 = n
    BY <1>1
  <2>1. e.type = "content_block_start" => \A j \in 1..n : ~StartAt(r, j, e.i)
    <3>1. ASSUME e.type = "content_block_start", NEW j \in 1..n, StartAt(r, j, e.i) PROVE FALSE
      <4>1. <<o[j].i, o[j].kind>> \in S /\ o[j].i = e.i
        BY <1>2, <1>3, <3>1 DEF StartAt
      <4>2. <<o[j].i, o[j].kind>>[1] # e.i
        BY <3>1, <4>1 DEF Suits
      <4> QED
        BY <4>1, <4>2
    <3> QED
      BY <3>1
  <2>2. e.type \in {"content_block_delta", "content_block_stop"} =>
           (\E j \in 1..n : StartAt(r, j, e.i)) /\ \A j \in 1..n : ~StopAt(r, j, e.i)
    <3>1. SUFFICES ASSUME e.type \in {"content_block_delta", "content_block_stop"}
                   PROVE (\E j \in 1..n : StartAt(r, j, e.i)) /\ \A j \in 1..n : ~StopAt(r, j, e.i)
      OBVIOUS
    <3>2. PICK x \in S : x[1] = e.i
      BY <3>1 DEF Suits
    <3>3. \E j \in 1..n : StartAt(r, j, e.i)
      BY <1>5, <3>2
    <3>4. e.i \notin P
      BY <3>1 DEF Suits
    <3>5. \A j \in 1..n : ~StopAt(r, j, e.i)
      BY <1>2, <1>3, <3>4 DEF StopAt
    <3> QED
      BY <3>3, <3>5
  <2>3. e.type = "content_block_delta" =>
           \A j \in 1..n : StartAt(r, j, e.i) => e.kind \in {r[j].kind, "signature"} \/ lax
    <3>1. SUFFICES ASSUME e.type = "content_block_delta", NEW j \in 1..n, StartAt(r, j, e.i)
                   PROVE e.kind \in {r[j].kind, "signature"} \/ lax
      OBVIOUS
    <3> DEFINE x == <<o[j].i, o[j].kind>>
    <3>2. x \in S /\ x[1] = e.i /\ x[2] = r[j].kind
      BY <1>2, <1>3, <3>1 DEF StartAt
    <3> HIDE DEF x
    <3> QED
      BY <3>1, <3>2 DEF Suits
  <2>4. e.type = "message_delta" =>
           \A j \in 1..n : r[j].type = "content_block_start" =>
               \E m \in j..n : r[m] = Stop(r[j].i)
    <3>1. SUFFICES ASSUME e.type = "message_delta", NEW j \in 1..n,
                          r[j].type = "content_block_start"
                   PROVE \E m \in j..n : r[m] = Stop(r[j].i)
      OBVIOUS
    <3> DEFINE x == <<o[j].i, o[j].kind>>
    <3>2. x \in S /\ x[1] = o[j].i /\ o[j].type = "content_block_start"
      BY <1>2, <1>3, <3>1
    <3> HIDE DEF x
    <3>3. o[j].i \in P
      BY <3>1, <3>2 DEF Suits
    <3>4. PICK m \in 1..n : o[m] = Stop(o[j].i)
      BY <1>3, <3>3
    <3>5. FitsAt(lax, o, m) /\ o[m].type = "content_block_stop" /\ o[m].i = o[j].i
      BY <1>3, <1>6, <3>4
    <3>6. PICK k \in 1..m - 1 : StartAt(o, k, o[m].i)
      BY <3>5 DEF FitsAt
    <3>7. k \in 1..n /\ m \in Nat /\ k < m /\ j \in Nat
      BY <1>1, <3>4, <3>6
    <3>8. j <= k
      <4>1. SUFFICES ASSUME k < j PROVE FALSE
        BY <3>7
      <4>2. FitsAt(lax, o, j) /\ k \in 1..j - 1
        BY <1>3, <3>7, <4>1
      <4>3. ~StartAt(o, k, o[j].i)
        BY <3>2, <4>2 DEF FitsAt
      <4> QED
        BY <3>5, <3>6, <4>3
    <3>9. m \in j..n
      BY <1>1, <3>4, <3>7, <3>8
    <3>10. r[m] = o[m] /\ r[j] = o[j]
      BY <1>2, <3>4
    <3>11. r[m] = Stop(r[j].i)
      BY <3>4, <3>10
    <3> QED
      BY <3>9, <3>11
  <2> QED
    BY <1>2, <2>0, <2>1, <2>2, <2>3, <2>4 DEF FitsAt
<1>8. \A k \in 1..Len(r) : k \in 1..n \/ k = n + 1
  BY <1>1, <1>2
<1>9. Fits(lax, r)
  BY <1>2, <1>4, <1>7, <1>8 DEF Fits
<1>10. \A k \in 1..Len(r) : r[k].type = "content_block_start"
                               => <<r[k].i, r[k].kind>> \in StartsWith(S, e)
  BY <1>2, <1>3, <1>8 DEF StartsWith
<1>11. \A x \in StartsWith(S, e) : \E k \in 1..Len(r) : StartAt(r, k, x[1]) /\ r[k].kind = x[2]
  <2>1. SUFFICES ASSUME NEW x \in StartsWith(S, e)
                 PROVE \E k \in 1..Len(r) : StartAt(r, k, x[1]) /\ r[k].kind = x[2]
    OBVIOUS
  <2>2. CASE x \in S
    <3>1. PICK j \in 1..n : StartAt(r, j, x[1]) /\ r[j].kind = x[2]
      BY <1>5, <2>2
    <3>2. j \in 1..Len(r)
      BY <1>1, <1>2
    <3> QED
      BY <3>1, <3>2
  <2>3. CASE x \notin S
    <3>1. e.type = "content_block_start" /\ x = <<e.i, e.kind>>
      BY <2>1, <2>3 DEF StartsWith
    <3>2. n + 1 \in 1..Len(r)
      BY <1>1, <1>2
    <3>3. StartAt(r, n + 1, x[1]) /\ r[n + 1].kind = x[2]
      BY <1>2, <3>1 DEF StartAt
    <3> QED
      BY <3>2, <3>3
  <2> QED
    BY <2>2, <2>3
<1>12. \A k \in 1..Len(r) : r[k].type = "content_block_stop" => r[k].i \in StopsWith(P, e)
  BY <1>2, <1>3, <1>8 DEF StopsWith
<1>13. \A i \in StopsWith(P, e) : \E k \in 1..Len(r) : r[k] = Stop(i)
  <2>1. SUFFICES ASSUME NEW i \in StopsWith(P, e) PROVE \E k \in 1..Len(r) : r[k] = Stop(i)
    OBVIOUS
  <2>2. CASE i \in P
    <3>1. PICK j \in 1..n : o[j] = Stop(i)
      BY <1>3, <2>2
    <3>2. j \in 1..Len(r) /\ r[j] = Stop(i)
      BY <1>1, <1>2, <3>1
    <3> QED
      BY <3>2
  <2>3. CASE i \notin P
    <3>1. e.type = "content_block_stop" /\ i = e.i
      BY <2>1, <2>3 DEF StopsWith
    <3>2. e = Stop(i)
      BY <3>1 DEF Suits
    <3>3. n + 1 \in 1..Len(r)
      BY <1>1, <1>2
    <3> QED
      BY <1>2, <3>2, <3>3
  <2> QED
    BY <2>2, <2>3
<1> QED
  BY <1>9, <1>10, <1>11, <1>12, <1>13 DEF Reads

-------------------------------------------------------------------------------
(* The account openai_to_claude keeps of the blocks it has written.        *)
(* What a converter has written before and in this step fits.              *)
Carry(lax, b, t, S, P) == Reads(lax, b \o t.out, S, P)

LEMMA GroupedOf ==
  ASSUME NEW T, NEW p \in Seq(T), NEW q \in Seq(T), NEW r \in Seq(T), NEW x, x = q \o r,
         NEW y, y = p \o q, NEW w, w = p \o x
  PROVE  w = y \o r
<1>1. p \o (q \o r) = (p \o q) \o r
  OBVIOUS
<1> QED
  BY <1>1

LEMMA AppendedOne ==
  ASSUME NEW T, NEW o \in Seq(T), NEW e \in T, NEW z, z = <<e>>, NEW r, r = o \o z
  PROVE  r = Append(o, e)
OBVIOUS

LEMMA CarryEmit ==
  ASSUME NEW lax, NEW b \in Seq(EV), NEW t \in States(Types), NEW S, NEW P,
         Carry(lax, b, t, S, P), NEW e \in EV, Suits(lax, S, P, e), NEW u, u = Emit(t, <<e>>)
  PROVE  /\ u \in States(Types) /\ Carry(lax, b, u, StartsWith(S, e), StopsWith(P, e))
<1>1. u \in States(Types) /\ u.out = t.out \o <<e>>
  <2>1. <<e>> \in Seq(Events(Types))
    BY DEF EV
  <2> QED
    BY <2>1, EmitTyped, OutOfEmit
<1>2. t.out \in Seq(EV)
  BY DEF States, EV
<1> DEFINE p == t.out
           o == b \o p
           r == b \o u.out
<1>3. r = Append(o, e)
  <2> DEFINE z == <<e>>
             x == p \o z
  <2>1. p \in Seq(EV) /\ z \in Seq(EV) /\ o \in Seq(EV) /\ x = u.out
    BY <1>1, <1>2
  <2>2. z = <<e>> /\ x = p \o z /\ o = b \o p /\ r = b \o x
    BY <2>1
  <2> HIDE DEF p, o, r, z, x
  <2>3. r = o \o z
    BY ONLY <2>1, <2>2, b \in Seq(EV), GroupedOf
  <2> QED
    BY ONLY <2>1, <2>2, <2>3, e \in EV, AppendedOne
<1>4. Reads(lax, o, S, P)
  BY DEF Carry
<1> HIDE DEF o, r
<1>5. Reads(lax, r, StartsWith(S, e), StopsWith(P, e))
  BY <1>3, <1>4, ReadsMore
<1> QED
  BY <1>1, <1>5 DEF Carry, r

LEMMA CarryPlain ==
  ASSUME NEW lax, NEW b \in Seq(EV), NEW t \in States(Types), NEW S, NEW P,
         Carry(lax, b, t, S, P), NEW e \in EV,
         e.type \notin {"content_block_start", "content_block_delta", "content_block_stop",
                        "message_delta"},
         NEW u, u = Emit(t, <<e>>)
  PROVE  u \in States(Types) /\ Carry(lax, b, u, S, P)
<1>1. Suits(lax, S, P, e) /\ StartsWith(S, e) = S /\ StopsWith(P, e) = P
  BY DEF Suits, StartsWith, StopsWith
<1> QED
  BY <1>1, CarryEmit

LEMMA CarryStart ==
  ASSUME NEW lax, NEW b \in Seq(EV), NEW t \in States(Types), NEW S, NEW P,
         Carry(lax, b, t, S, P), NEW i \in Nat, NEW kind \in EventKinds, \A x \in S : x[1] # i,
         NEW u, u = Emit(t, <<Start(i, kind)>>)
  PROVE  u \in States(Types) /\ Carry(lax, b, u, S \cup {<<i, kind>>}, P)
<1> DEFINE e == Start(i, kind)
<1>1. e \in EV
  <2>1. <<>> \in Seq(Int)
    OBVIOUS
  <2> QED
    BY <2>1, MadeEvents
<1>2. e.type = "content_block_start" /\ e.i = i /\ e.kind = kind
  BY DEF Start, E
<1> HIDE DEF e
<1>3. Suits(lax, S, P, e) /\ StartsWith(S, e) = S \cup {<<i, kind>>} /\ StopsWith(P, e) = P
  BY <1>2 DEF Suits, StartsWith, StopsWith
<1>4. u = Emit(t, <<e>>)
  BY DEF e
<1>5. u \in States(Types) /\ Carry(lax, b, u, StartsWith(S, e), StopsWith(P, e))
  BY <1>1, <1>3, <1>4, CarryEmit
<1> QED
  BY <1>3, <1>5

LEMMA CarryDelta ==
  ASSUME NEW lax, NEW b \in Seq(EV), NEW t \in States(Types), NEW S, NEW P,
         Carry(lax, b, t, S, P), NEW i \in Nat, NEW kind \in EventKinds, NEW data \in Seq(Int),
         \E x \in S : x[1] = i, i \notin P,
         \A x \in S : x[1] = i => kind \in {x[2], "signature"} \/ lax,
         NEW u, u = Emit(t, <<Delta(i, kind, data)>>)
  PROVE  u \in States(Types) /\ Carry(lax, b, u, S, P)
<1> DEFINE e == Delta(i, kind, data)
<1>1. e \in EV
  BY MadeEvents
<1>2. e.type = "content_block_delta" /\ e.i = i /\ e.kind = kind
  BY DEF Delta, E
<1> HIDE DEF e
<1>3. Suits(lax, S, P, e) /\ StartsWith(S, e) = S /\ StopsWith(P, e) = P
  BY <1>2 DEF Suits, StartsWith, StopsWith
<1>4. u = Emit(t, <<e>>)
  BY DEF e
<1>5. u \in States(Types) /\ Carry(lax, b, u, StartsWith(S, e), StopsWith(P, e))
  BY <1>1, <1>3, <1>4, CarryEmit
<1> QED
  BY <1>3, <1>5

LEMMA CarryStop ==
  ASSUME NEW lax, NEW b \in Seq(EV), NEW t \in States(Types), NEW S, NEW P,
         Carry(lax, b, t, S, P), NEW i \in Nat, \E x \in S : x[1] = i, i \notin P,
         NEW u, u = Emit(t, <<Stop(i)>>)
  PROVE  u \in States(Types) /\ Carry(lax, b, u, S, P \cup {i})
<1> DEFINE e == Stop(i)
<1>1. e \in EV
  <2>1. <<>> \in Seq(Int) /\ "none" \in EventKinds
    BY DEF EventKinds
  <2> QED
    BY <2>1, MadeEvents
<1>2. e.type = "content_block_stop" /\ e.i = i /\ e = Stop(e.i)
  BY DEF Stop, E
<1> HIDE DEF e
<1>3. Suits(lax, S, P, e) /\ StartsWith(S, e) = S /\ StopsWith(P, e) = P \cup {i}
  BY <1>2 DEF Suits, StartsWith, StopsWith
<1>4. u = Emit(t, <<e>>)
  BY DEF e
<1>5. u \in States(Types) /\ Carry(lax, b, u, StartsWith(S, e), StopsWith(P, e))
  BY <1>1, <1>3, <1>4, CarryEmit
<1> QED
  BY <1>3, <1>5

(* The message's delta, once all of its blocks are stopped.                *)
LEMMA CarryEnd ==
  ASSUME NEW lax, NEW b \in Seq(EV), NEW t \in States(Types), NEW S, NEW P,
         Carry(lax, b, t, S, P), NEW kind \in EventKinds, \A x \in S : x[1] \in P,
         NEW u, u = Emit(t, <<MessageDelta(kind)>>)
  PROVE  u \in States(Types) /\ Carry(lax, b, u, S, P)
<1> DEFINE e == MessageDelta(kind)
<1>1. e \in EV
  <2>1. <<>> \in Seq(Int) /\ 0 \in Nat
    OBVIOUS
  <2> QED
    BY <2>1, MadeEvents
<1>2. e.type = "message_delta"
  BY DEF MessageDelta, E
<1> HIDE DEF e
<1>3. Suits(lax, S, P, e) /\ StartsWith(S, e) = S /\ StopsWith(P, e) = P
  BY <1>2 DEF Suits, StartsWith, StopsWith
<1>4. u = Emit(t, <<e>>)
  BY DEF e
<1>5. u \in States(Types) /\ Carry(lax, b, u, StartsWith(S, e), StopsWith(P, e))
  BY <1>1, <1>3, <1>4, CarryEmit
<1> QED
  BY <1>3, <1>5

(* What OpenAI's converter has begun and ended, as its state says: a       *)
(* thought, a text, and the calls, whose indices follow theirs.            *)
Begun(t) ==
    {x \in {<<0, "thought">>} : t.thinking} \cup {x \in {<<TextBlockIndex(t), "text">>} : t.content}
        \cup {<<t.calls[i], "call">> : i \in DOMAIN t.calls}
Over(t) ==
    {x \in {0} : t.thinkingStopped} \cup {x \in {TextBlockIndex(t)} : t.contentStopped}

Base(t) == Cardinality({b \in {"thinking", "content"} : t[b]})

Blocks(t) ==
    /\ t.thinkingStopped => t.thinking
    /\ t.contentStopped => t.content
    /\ t.mode = 0 <=> ~t.thinking
    /\ \A i \in DOMAIN t.calls : t.calls[i] >= Base(t) /\ t.calls[i] < NextBlockIndex(t)
    /\ \A i, j \in DOMAIN t.calls : t.calls[i] = t.calls[j] => i = j

(* Texts and thoughts may still come.                                      *)
Speaking(t) == ~t.thinkingStopped /\ ~t.contentStopped /\ DOMAIN t.calls = {}

(* The converter's account of the message it has written.                  *)
Account(b, t) == Carry(FALSE, b, t, Begun(t), Over(t)) /\ Blocks(t)

(* Two states that differ in nothing the blocks depend on.                 *)
Alike(t, u) ==
    /\ u.thinking = t.thinking /\ u.thinkingStopped = t.thinkingStopped
    /\ u.content = t.content /\ u.contentStopped = t.contentStopped
    /\ u.mode = t.mode /\ u.calls = t.calls

LEMMA BaseIs ==
  ASSUME NEW t \in States(Types)
  PROVE  /\ Base(t) = IF t.thinking THEN (IF t.content THEN 2 ELSE 1)
                      ELSE (IF t.content THEN 1 ELSE 0)
         /\ IsFiniteSet(DOMAIN t.calls) /\ Cardinality(DOMAIN t.calls) \in Nat
         /\ NextBlockIndex(t) = Base(t) + Cardinality(DOMAIN t.calls)
         /\ TextBlockIndex(t) = IF t.thinking THEN 1 ELSE 0
         /\ \A i \in DOMAIN t.calls : i \in Nat /\ t.calls[i] \in Nat
<1>1. t.calls \in CallMaps /\ t.thinking \in BOOLEAN /\ t.content \in BOOLEAN
  BY DEF States
<1>2. t["thinking"] = t.thinking /\ t["content"] = t.content
  OBVIOUS
<1> DEFINE D == {b \in {"thinking", "content"} : t[b]}
<1>3. D = IF t.thinking THEN (IF t.content THEN {"thinking", "content"} ELSE {"thinking"})
          ELSE (IF t.content THEN {"content"} ELSE {})
  BY <1>1, <1>2
<1>4. /\ Cardinality({}) = 0 /\ Cardinality({"thinking"}) = 1 /\ Cardinality({"content"}) = 1
      /\ Cardinality({"thinking", "content"}) = 2
  <2>1. Cardinality({}) = 0
    BY FS_EmptySet
  <2>2. \A x : Cardinality({x}) = 1
    BY FS_Singleton
  <2>3. Cardinality({"thinking", "content"}) = 2
    <3>1. {"thinking", "content"} = {"thinking"} \cup {"content"} /\ "content" \notin {"thinking"}
      OBVIOUS
    <3>2. IsFiniteSet({"thinking"}) /\ Cardinality({"thinking"}) = 1
      BY FS_Singleton
    <3>3. Cardinality({"thinking"} \cup {"content"}) = 1 + 1
      BY <3>1, <3>2, FS_AddElement
    <3> QED
      BY <3>1, <3>3
  <2> QED
    BY <2>1, <2>2, <2>3
<1>5. Base(t) = Cardinality(D)
  BY DEF Base
<1> HIDE DEF D
<1>6. Base(t) = IF t.thinking THEN (IF t.content THEN 2 ELSE 1)
                ELSE (IF t.content THEN 1 ELSE 0)
  BY <1>1, <1>3, <1>4, <1>5
<1>7. NextBlockIndex(t) = Base(t) + Cardinality(DOMAIN t.calls)
  BY DEF NextBlockIndex, Base
<1>8. TextBlockIndex(t) = IF t.thinking THEN 1 ELSE 0
  BY DEF TextBlockIndex
<1> QED
  BY <1>1, <1>6, <1>7, <1>8, CallMapFacts

LEMMA AlikeBlocks ==
  ASSUME NEW t \in States(Types), NEW u \in States(Types), Alike(t, u)
  PROVE  /\ Begun(u) = Begun(t) /\ Over(u) = Over(t) /\ TextBlockIndex(u) = TextBlockIndex(t)
         /\ Blocks(t) => Blocks(u)
         /\ Speaking(u) <=> Speaking(t)
<1>1. TextBlockIndex(u) = TextBlockIndex(t)
  BY DEF Alike, TextBlockIndex
<1>2. Base(u) = Base(t) /\ NextBlockIndex(u) = NextBlockIndex(t)
  <2>1. Base(u) = Base(t)
    BY BaseIs DEF Alike
  <2>2. NextBlockIndex(u) = Base(u) + Cardinality(DOMAIN u.calls)
    BY BaseIs
  <2>3. NextBlockIndex(t) = Base(t) + Cardinality(DOMAIN t.calls)
    BY BaseIs
  <2> QED
    BY <2>1, <2>2, <2>3 DEF Alike
<1>3. Begun(u) = Begun(t) /\ Over(u) = Over(t)
  BY <1>1 DEF Begun, Over, Alike
<1>4. Blocks(t) => Blocks(u)
  BY <1>2 DEF Blocks, Alike
<1>5. Speaking(u) <=> Speaking(t)
  BY DEF Speaking, Alike
<1> QED
  BY <1>1, <1>3, <1>4, <1>5

LEMMA EmitAlike ==
  ASSUME NEW t \in States(Types), NEW q \in Seq(EV)
  PROVE  Alike(t, Emit(t, q)) /\ Emit(t, q) \in States(Types)
<1>1. Emit(t, q) \in States(Types) /\ Emit(t, q) = [t EXCEPT !.out = t.out \o q]
  BY EmitTyped DEF EV
<1> QED
  BY <1>1 DEF Alike, States

(* What the converter writes besides blocks leaves the account as it is.   *)
LEMMA AccountFirst ==
  ASSUME NEW b \in Seq(EV), NEW t \in States(Types), Account(b, t),
         NEW u, u = First(t, <<MessageStart>>)
  PROVE  u \in States(Types) /\ Account(b, u) /\ Alike(t, u)
<1>1. CASE t.id
  BY <1>1 DEF First, Alike
<1>2. CASE ~t.id
  <2> DEFINE v == Emit(t, <<MessageStart>>)
  <2>1. MessageStart \in EV /\ <<MessageStart>> \in Seq(EV)
    <3>1. <<>> \in Seq(Int) /\ "none" \in EventKinds /\ 0 \in Nat
      BY DEF EventKinds
    <3>2. MessageStart \in EV
      BY <3>1, MadeEvents
    <3> QED
      BY <3>2
  <2>2. MessageStart.type = "message_start"
    BY DEF MessageStart, E
  <2>3. Alike(t, v) /\ v \in States(Types)
    BY <2>1, EmitAlike
  <2>4. Carry(FALSE, b, v, Begun(t), Over(t))
    BY <2>1, <2>2, CarryPlain DEF Account
  <2>5. u = [v EXCEPT !.id = TRUE]
    BY <1>2 DEF First
  <2> HIDE DEF v
  <2>6. u \in States(Types) /\ u.out = v.out /\ Alike(t, u)
    BY <2>3, <2>5 DEF Alike, States
  <2>7. Carry(FALSE, b, u, Begun(t), Over(t))
    BY <2>4, <2>6 DEF Carry
  <2> QED
    BY <2>6, <2>7, AlikeBlocks DEF Account
<1> QED
  BY <1>1, <1>2

LEMMA EmitTwice ==
  ASSUME NEW t \in States(Types), NEW p \in Seq(EV), NEW q \in Seq(EV), NEW r, Joins(r, p, q)
  PROVE  Emit(t, r) = Emit(Emit(t, p), q)
<1> DEFINE o == t.out
           x == o \o p
           y == o \o r
           v == [t EXCEPT !.out = x]
<1>1. o \in Seq(EV)
  BY DEF States, EV
<1>2. Emit(t, p) = v
  BY DEF Emit
<1>3. Emit(t, r) = [t EXCEPT !.out = y]
  BY DEF Emit
<1>4. Emit(v, q) = [v EXCEPT !.out = v.out \o q]
  BY DEF Emit
<1>5. x \o q = y
  <2> HIDE DEF o
  <2>1. (o \o p) \o q = o \o (p \o q)
    BY ONLY <1>1, p \in Seq(EV), q \in Seq(EV)
  <2>2. r = p \o q
    BY ONLY Joins(r, p, q) DEF Joins
  <2> QED
    BY ONLY <2>1, <2>2
<1> HIDE DEF o, x, y
<1>6. v.out = x /\ \A z : [v EXCEPT !.out = z] = [t EXCEPT !.out = z]
  BY DEF States
<1> HIDE DEF v
<1> QED
  BY ONLY <1>2, <1>3, <1>4, <1>5, <1>6

(* While texts may come, only a thought and a text are begun, and neither  *)
(* is over.                                                                *)
LEMMA SpeakingIs ==
  ASSUME NEW t \in States(Types), Speaking(t)
  PROVE  /\ Over(t) = {}
         /\ Begun(t) = {x \in {<<0, "thought">>} : t.thinking}
                          \cup {x \in {<<TextBlockIndex(t), "text">>} : t.content}
         /\ t.thinking \in BOOLEAN /\ t.content \in BOOLEAN /\ t.mode \in 0..2
         /\ TextBlockIndex(t) = IF t.thinking THEN 1 ELSE 0
<1>1. t.thinkingStopped = FALSE /\ t.contentStopped = FALSE /\ DOMAIN t.calls = {}
  BY DEF Speaking, States
<1>2. {<<t.calls[i], "call">> : i \in DOMAIN t.calls} = {}
  BY <1>1
<1> QED
  BY <1>1, <1>2, BaseIs DEF Over, Begun, States

LEMMA AccountText ==
  ASSUME NEW b \in Seq(EV), NEW t \in States(Types), Account(b, t), Speaking(t),
         NEW text \in Seq(Int), NEW u, u = EmitText(t, text)
  PROVE  u \in States(Types) /\ Account(b, u) /\ Speaking(u)
<1>1. CASE text = <<>>
  BY <1>1 DEF EmitText
<1>2. CASE text # <<>>
  <2> DEFINE i == TextBlockIndex(t)
             v == IF t.content THEN t ELSE Emit(t, <<Start(i, "text")>>)
             w == Emit(v, <<Delta(i, "text", text)>>)
             S == Begun(t) \cup {<<i, "text">>}
  <2>1. i \in Nat /\ "text" \in EventKinds /\ <<>> \in Seq(Int)
    BY TextIndex DEF EventKinds
  <2>2. Start(i, "text") \in EV /\ Delta(i, "text", text) \in EV
    BY <2>1, MadeEvents
  <2>3. Carry(FALSE, b, t, Begun(t), Over(t)) /\ Blocks(t)
    BY DEF Account
  <2>4. /\ Over(t) = {}
        /\ Begun(t) = {x \in {<<0, "thought">>} : t.thinking}
                         \cup {x \in {<<i, "text">>} : t.content}
        /\ t.thinking \in BOOLEAN /\ t.content \in BOOLEAN
        /\ i = IF t.thinking THEN 1 ELSE 0
    BY SpeakingIs
  <2>5. v \in States(Types) /\ Alike(t, v) /\ Carry(FALSE, b, v, S, Over(t))
    <3>1. CASE t.content
      <4>1. v = t /\ S = Begun(t)
        BY <2>4, <3>1
      <4> QED
        BY <2>3, <4>1 DEF Alike
    <3>2. CASE ~t.content
      <4> DEFINE z == Emit(t, <<Start(i, "text")>>)
      <4>1. v = z
        BY <3>2
      <4>2. Alike(t, z) /\ z \in States(Types)
        <5>1. <<Start(i, "text")>> \in Seq(EV)
          BY <2>2
        <5> QED
          BY <5>1, EmitAlike
      <4>3. \A x \in Begun(t) : x[1] # i
        BY <2>4, <3>2
      <4> HIDE DEF i
      <4>4. Carry(FALSE, b, z, Begun(t) \cup {<<i, "text">>}, Over(t))
        BY <2>1, <2>3, <4>3, CarryStart
      <4> QED
        BY <4>1, <4>2, <4>4
    <3> QED
      BY <3>1, <3>2
  <2>6. \A x \in S : x[1] = i => x[2] = "text"
    BY <2>4
  <2>7. <<i, "text">> \in S /\ <<i, "text">>[1] = i
    OBVIOUS
  <2> HIDE DEF i, v, S
  <2>8. w \in States(Types) /\ Carry(FALSE, b, w, S, Over(t))
    <3>1. \E x \in S : x[1] = i
      BY <2>7
    <3>2. \A x \in S : x[1] = i => "text" \in {x[2], "signature"} \/ FALSE
      BY <2>6
    <3>3. i \notin Over(t)
      BY <2>4
    <3> QED
      BY <2>1, <2>5, <3>1, <3>2, <3>3, CarryDelta
  <2>9. Alike(v, w)
    <3>1. <<Delta(i, "text", text)>> \in Seq(EV)
      BY <2>2
    <3> QED
      BY <2>5, <3>1, EmitAlike
  <2>10. u = [w EXCEPT !.content = TRUE]
    <3> DEFINE d == Delta(i, "text", text)
               a == Start(i, "text")
               start == IF t.content THEN <<>> ELSE <<a>>
               y == Emit(t, Append(start, d))
    <3>1. u = [y EXCEPT !.content = TRUE]
      BY <1>2 DEF EmitText, i
    <3>2. d \in EV /\ a \in EV
      BY <2>2
    <3> HIDE DEF d, a
    <3>3. y = Emit(v, <<d>>)
      <4>1. CASE t.content
        <5>1. Append(start, d) = <<d>> /\ v = t
          BY <4>1, <3>2 DEF v
        <5> QED
          BY <5>1
      <4>2. CASE ~t.content
        <5>1. start = <<a>>
          BY <4>2
        <5>2. v = Emit(t, <<a>>)
          BY <4>2 DEF v, a
        <5>3. Append(<<a>>, d) = <<a, d>> /\ <<a>> \o <<d>> = <<a, d>>
          BY <3>2, OneAndTwo
        <5>4. Append(start, d) = <<a, d>>
          BY <5>1, <5>3
        <5>5. Emit(t, <<a, d>>) = Emit(Emit(t, <<a>>), <<d>>)
          <6> DEFINE p == <<a>>
                     q == <<d>>
                     r == <<a, d>>
          <6>1. p \in Seq(EV) /\ q \in Seq(EV) /\ Joins(r, p, q)
            BY <3>2, <5>3 DEF Joins
          <6> HIDE DEF p, q, r
          <6>2. Emit(t, r) = Emit(Emit(t, p), q)
            BY <6>1, EmitTwice
          <6> QED
            BY <6>2 DEF p, q, r
        <5> QED
          BY <5>2, <5>4, <5>5
      <4> QED
        BY <4>1, <4>2
    <3> QED
      BY <3>1, <3>3 DEF d
  <2> HIDE DEF w
  <2>11. /\ u \in States(Types) /\ u.out = w.out /\ u.content = TRUE
         /\ u.thinking = t.thinking /\ u.thinkingStopped = t.thinkingStopped
         /\ u.contentStopped = t.contentStopped /\ u.mode = t.mode /\ u.calls = t.calls
    BY <2>5, <2>8, <2>9, <2>10 DEF States, Alike
  <2>12. Speaking(u)
    BY <2>11 DEF Speaking
  <2>13. TextBlockIndex(u) = i
    BY <2>11 DEF TextBlockIndex, i
  <2>14. Begun(u) = S
    <3>1. Begun(u) = {x \in {<<0, "thought">>} : t.thinking} \cup {<<i, "text">>}
      BY <2>11, <2>12, <2>13, SpeakingIs
    <3> QED
      BY <2>4, <3>1 DEF S
  <2>15. Over(u) = Over(t)
    BY <2>4, <2>11, <2>12, SpeakingIs
  <2>16. Blocks(u)
    BY <2>3, <2>11, <2>12 DEF Blocks, Speaking
  <2>17. Carry(FALSE, b, u, S, Over(t))
    BY <2>8, <2>11 DEF Carry
  <2> QED
    BY <2>11, <2>12, <2>14, <2>15, <2>16, <2>17 DEF Account
<1> QED
  BY <1>1, <1>2

LEMMA AccountThoughts ==
  ASSUME NEW b \in Seq(EV), NEW t \in States(Types), Account(b, t), Speaking(t), t.thinking,
         NEW th \in Seq(Int), NEW u, u = EmitThoughts(t, th)
  PROVE  u \in States(Types) /\ Account(b, u) /\ Speaking(u) /\ u.thinking
<1>1. CASE th = <<>>
  BY <1>1 DEF EmitThoughts
<1>2. CASE th # <<>>
  <2>1. u = Emit(t, <<Delta(0, "thought", th)>>)
    BY <1>2 DEF EmitThoughts
  <2>2. "thought" \in EventKinds /\ 0 \in Nat
    BY DEF EventKinds
  <2>3. <<Delta(0, "thought", th)>> \in Seq(EV)
    <3>1. Delta(0, "thought", th) \in EV
      BY <2>2, MadeEvents
    <3> QED
      BY <3>1
  <2>4. Alike(t, u) /\ u \in States(Types)
    BY <2>1, <2>3, EmitAlike
  <2>5. Carry(FALSE, b, t, Begun(t), Over(t)) /\ Blocks(t)
    BY DEF Account
  <2>6. /\ Over(t) = {}
        /\ Begun(t) = {<<0, "thought">>} \cup {x \in {<<1, "text">>} : t.content}
    BY SpeakingIs
  <2>7. Carry(FALSE, b, u, Begun(t), Over(t))
    <3> DEFINE S == Begun(t)
               P == Over(t)
    <3>1. \E x \in S : x[1] = 0
      <4>1. <<0, "thought">> \in S /\ <<0, "thought">>[1] = 0
        BY <2>6
      <4> QED
        BY <4>1
    <3>2. \A x \in S : x[1] = 0 => "thought" \in {x[2], "signature"} \/ FALSE
      BY <2>6
    <3>3. 0 \notin P
      BY <2>6
    <3>4. Carry(FALSE, b, t, S, P)
      BY <2>5
    <3> HIDE DEF S, P
    <3>5. Carry(FALSE, b, u, S, P)
      BY <2>1, <2>2, <3>1, <3>2, <3>3, <3>4, CarryDelta
    <3> QED
      BY <3>5 DEF S, P
  <2>8. Begun(u) = Begun(t) /\ Over(u) = Over(t) /\ Blocks(u) /\ Speaking(u)
    BY <2>4, <2>5, AlikeBlocks
  <2> QED
    BY <2>4, <2>7, <2>8 DEF Account, Alike
<1> QED
  BY <1>1, <1>2

(* The thought's block is begun before any other.                          *)
LEMMA AccountThinking ==
  ASSUME NEW b \in Seq(EV), NEW t \in States(Types), Account(b, t), Speaking(t),
         t.mode = 0, ~t.content, NEW u, u = [OpenThinking(t) EXCEPT !.mode = 1]
  PROVE  u \in States(Types) /\ Account(b, u) /\ Speaking(u) /\ u.thinking
<1>1. Carry(FALSE, b, t, Begun(t), Over(t)) /\ Blocks(t) /\ ~t.thinking
  BY DEF Account, Blocks
<1> DEFINE v == Emit(t, <<Start(0, "thought")>>)
<1>2. u = [[v EXCEPT !.thinking = TRUE] EXCEPT !.mode = 1]
  BY <1>1 DEF OpenThinking
<1>3. Over(t) = {} /\ Begun(t) = {}
  BY <1>1, SpeakingIs
<1>4. "thought" \in EventKinds /\ 0 \in Nat
  BY DEF EventKinds
<1>5. v \in States(Types) /\ Carry(FALSE, b, v, {<<0, "thought">>}, {})
  <2>1. Carry(FALSE, b, t, {}, {})
    BY <1>1, <1>3
  <2> DEFINE S == {}
  <2>3. \A x \in S : x[1] # 0
    OBVIOUS
  <2>4. Carry(FALSE, b, t, S, S)
    BY <2>1
  <2>5. v = Emit(t, <<Start(0, "thought")>>)
    OBVIOUS
  <2> HIDE DEF S, v
  <2>6. v \in States(Types) /\ Carry(FALSE, b, v, S \cup {<<0, "thought">>}, S)
    BY <1>4, <2>3, <2>4, <2>5, CarryStart
  <2>7. S \cup {<<0, "thought">>} = {<<0, "thought">>}
    BY DEF S
  <2> QED
    BY <2>6, <2>7 DEF S
<1>6. Alike(t, v)
  <2>1. Start(0, "thought") \in EV
    <3>1. <<>> \in Seq(Int)
      OBVIOUS
    <3> QED
      BY <1>4, <3>1, MadeEvents
  <2>2. <<Start(0, "thought")>> \in Seq(EV)
    BY <2>1
  <2> QED
    BY <2>2, EmitAlike
<1> HIDE DEF v
<1> DEFINE w == [v EXCEPT !.thinking = TRUE]
<1>20. /\ w \in States(Types) /\ w.out = v.out /\ w.thinking = TRUE
       /\ w.thinkingStopped = v.thinkingStopped /\ w.content = v.content
       /\ w.contentStopped = v.contentStopped /\ w.calls = v.calls
  BY <1>5 DEF States
<1>21. u = [w EXCEPT !.mode = 1]
  BY <1>2
<1> HIDE DEF w
<1>7. /\ u \in States(Types) /\ u.out = v.out /\ u.thinking = TRUE /\ u.mode = 1
      /\ u.thinkingStopped = t.thinkingStopped /\ u.content = t.content
      /\ u.contentStopped = t.contentStopped /\ u.calls = t.calls
  <2>1. u \in States(Types)
    <3>1. 1 \in 0..2 /\ w \in States(Types)
      BY <1>20
    <3>2. [w EXCEPT !.mode = 1] \in States(Types)
      BY ONLY <3>1, ModeSet
    <3> QED
      BY ONLY <3>2, <1>21
  <2>2. /\ u.out = w.out /\ u.mode = 1 /\ u.thinking = w.thinking /\ u.calls = w.calls
        /\ u.thinkingStopped = w.thinkingStopped /\ u.content = w.content
        /\ u.contentStopped = w.contentStopped
    BY <1>20, <1>21 DEF States
  <2> QED
    BY <1>6, <1>20, <2>1, <2>2 DEF Alike
<1>8. Speaking(u)
  BY <1>7 DEF Speaking
<1>9. Over(u) = {} /\ Begun(u) = {<<0, "thought">>}
  BY <1>7, <1>8, SpeakingIs
<1>10. Blocks(u)
  BY <1>1, <1>7, <1>8 DEF Blocks, Speaking
<1>11. Carry(FALSE, b, u, {<<0, "thought">>}, {})
  BY <1>5, <1>7 DEF Carry
<1> QED
  BY <1>7, <1>8, <1>9, <1>10, <1>11 DEF Account

LEMMA AccountMode ==
  ASSUME NEW b \in Seq(EV), NEW t \in States(Types), Account(b, t), Speaking(t), t.thinking,
         NEW u, u = [t EXCEPT !.mode = 2]
  PROVE  u \in States(Types) /\ Account(b, u) /\ Speaking(u)
<1>1. u \in States(Types)
  <2>1. 2 \in 0..2
    OBVIOUS
  <2>2. [t EXCEPT !.mode = 2] \in States(Types)
    BY <2>1, ModeSet
  <2> QED
    BY <2>2
<1>2. /\ u.out = t.out /\ u.mode = 2 /\ u.thinking = t.thinking /\ u.calls = t.calls
      /\ u.thinkingStopped = t.thinkingStopped /\ u.content = t.content
      /\ u.contentStopped = t.contentStopped
  BY DEF States
<1>3. Speaking(u)
  BY <1>2 DEF Speaking
<1>4. Over(u) = Over(t) /\ Begun(u) = Begun(t)
  <2>1. TextBlockIndex(u) = TextBlockIndex(t)
    BY <1>2 DEF TextBlockIndex
  <2> QED
    BY <1>2, <2>1 DEF Over, Begun
<1>5. Blocks(u)
  BY <1>2, <1>3 DEF Account, Blocks, Speaking
<1>6. Carry(FALSE, b, u, Begun(t), Over(t))
  BY <1>2 DEF Account, Carry
<1> QED
  BY <1>1, <1>3, <1>4, <1>5, <1>6 DEF Account

LEMMA AccountInside ==
  ASSUME NEW b \in Seq(EV), NEW t \in States(Types), Account(b, t), Speaking(t), t.thinking,
         NEW c \in Seq(Int), NEW r, r = Inside(t, c)
  PROVE  r.s \in States(Types) /\ Account(b, r.s) /\ Speaking(r.s) /\ r.text \in Seq(Int)
<1>1. CASE Contains(c, Close)
  <2> DEFINE th == Before(c, Close)
             v == EmitThoughts(t, th)
  <2>1. th \in Seq(Int) /\ After(c, Close) \in Seq(Int)
    BY AroundTyped
  <2>2. r.s = [v EXCEPT !.mode = 2] /\ r.text = After(c, Close)
    BY <1>1 DEF Inside
  <2> HIDE DEF th
  <2>3. v \in States(Types) /\ Account(b, v) /\ Speaking(v) /\ v.thinking
    BY <2>1, AccountThoughts
  <2> HIDE DEF v
  <2> QED
    BY <2>1, <2>2, <2>3, AccountMode
<1>2. CASE ~Contains(c, Close)
  <2>1. r.s = EmitThoughts(t, c) /\ r.text = <<>>
    BY <1>2 DEF Inside
  <2>2. r.s \in States(Types) /\ Account(b, r.s) /\ Speaking(r.s)
    BY <2>1, AccountThoughts
  <2> QED
    BY <2>1, <2>2
<1> QED
  BY <1>1, <1>2

LEMMA AccountTags ==
  ASSUME NEW b \in Seq(EV), NEW t \in States(Types), Account(b, t), Speaking(t),
         NEW c \in Seq(Int), Contains(c, Open) => ~t.content,
         NEW r, r = HandleStreamingThinkTags(t, c)
  PROVE  r.s \in States(Types) /\ Account(b, r.s) /\ Speaking(r.s) /\ r.text \in Seq(Int)
<1>0. t.mode \in 0..2 /\ (t.mode = 0 <=> ~t.thinking)
  BY DEF Account, Blocks, States
<1>1. CASE t.mode = 2 \/ (t.mode = 0 /\ ~Contains(c, Open))
  <2>1. r.s = t /\ r.text = c
    BY <1>1 DEF HandleStreamingThinkTags
  <2> QED
    BY <2>1
<1>2. CASE t.mode = 1
  <2>1. r = Inside(t, c)
    BY <1>2 DEF HandleStreamingThinkTags
  <2> QED
    BY <1>0, <1>2, <2>1, AccountInside
<1>3. CASE t.mode = 0 /\ Contains(c, Open)
  <2> DEFINE v == [OpenThinking(t) EXCEPT !.mode = 1]
             c1 == After(c, Open)
             c0 == Before(c, Open)
             q == Inside(v, c1)
  <2>1. c0 \in Seq(Int) /\ c1 \in Seq(Int)
    BY AroundTyped
  <2>2. r = [q EXCEPT !.text = c0 \o q.text]
    BY <1>3 DEF HandleStreamingThinkTags
  <2>3. v \in States(Types) /\ Account(b, v) /\ Speaking(v) /\ v.thinking
    BY <1>3, AccountThinking
  <2> HIDE DEF v, c0, c1
  <2>4. q.s \in States(Types) /\ Account(b, q.s) /\ Speaking(q.s) /\ q.text \in Seq(Int)
    BY <2>1, <2>3, AccountInside
  <2>5. q = [s |-> q.s, text |-> q.text]
    BY DEF Inside
  <2> HIDE DEF q
  <2>6. r.s = q.s /\ r.text = c0 \o q.text
    BY <2>2, <2>5
  <2>7. c0 \o q.text \in Seq(Int)
    BY <2>1, <2>4
  <2> QED
    BY <2>4, <2>6, <2>7
<1> QED
  BY <1>0, <1>1, <1>2, <1>3

(* A chunk of text, with or without tags in it.                            *)
LEMMA AccountTextChunk ==
  ASSUME NEW b \in Seq(EV), NEW t \in States(Types), Account(b, t), Speaking(t),
         NEW c \in Seq(Int), Contains(c, Open) => ~t.content,
         NEW r, r = HandleStreamingThinkTags(t, c), NEW u, u = EmitText(r.s, r.text)
  PROVE  u \in States(Types) /\ Account(b, u) /\ Speaking(u)
<1>1. r.s \in States(Types) /\ Account(b, r.s) /\ Speaking(r.s) /\ r.text \in Seq(Int)
  BY AccountTags
<1> QED
  BY <1>1, AccountText

LEMMA EmitPair ==
  ASSUME NEW t \in States(Types), NEW x \in EV, NEW y \in EV
  PROVE  Emit(t, <<x, y>>) = Emit(Emit(t, <<x>>), <<y>>)
<1> DEFINE p == <<x>>
           q == <<y>>
           r == <<x, y>>
<1>1. p \in Seq(EV) /\ q \in Seq(EV) /\ r = p \o q
  BY OneAndTwo
<1>2. Joins(r, p, q)
  BY <1>1 DEF Joins
<1> HIDE DEF p, q, r
<1>3. Emit(t, r) = Emit(Emit(t, p), q)
  BY <1>1, <1>2, EmitTwice
<1> QED
  BY <1>3 DEF p, q, r

(* What is the same of the blocks when some of them are stopped.           *)
Stays(t, u) ==
    /\ u.thinking = t.thinking /\ u.content = t.content /\ u.mode = t.mode
    /\ u.calls = t.calls

LEMMA StaysBlocks ==
  ASSUME NEW t \in States(Types), NEW u \in States(Types), Stays(t, u)
  PROVE  /\ Begun(u) = Begun(t) /\ TextBlockIndex(u) = TextBlockIndex(t)
         /\ Base(u) = Base(t) /\ NextBlockIndex(u) = NextBlockIndex(t)
<1>1. TextBlockIndex(u) = TextBlockIndex(t)
  BY DEF Stays, TextBlockIndex
<1>2. Begun(u) = Begun(t)
  BY <1>1 DEF Stays, Begun
<1>3. Base(u) = Base(t)
  BY BaseIs DEF Stays
<1>4. NextBlockIndex(u) = Base(u) + Cardinality(DOMAIN u.calls)
  BY BaseIs
<1>5. NextBlockIndex(t) = Base(t) + Cardinality(DOMAIN t.calls)
  BY BaseIs
<1> QED
  BY <1>1, <1>2, <1>3, <1>4, <1>5 DEF Stays

LEMMA AccountCloseThinking ==
  ASSUME NEW b \in Seq(EV), NEW t \in States(Types), Account(b, t), NEW u, u = CloseThinking(t)
  PROVE  /\ u \in States(Types) /\ Account(b, u) /\ Stays(t, u)
         /\ u.thinking => u.thinkingStopped
<1>1. CASE ~t.thinking \/ t.thinkingStopped
  <2>1. u = t
    BY <1>1 DEF CloseThinking
  <2> QED
    BY <1>1, <2>1 DEF Stays
<1>2. CASE ~(~t.thinking \/ t.thinkingStopped)
  <2> DEFINE d == Delta(0, "signature", <<>>)
             z == Stop(0)
             v == Emit(t, <<d>>)
             w == Emit(v, <<z>>)
             S == Begun(t)
             P == Over(t)
  <2>1. "signature" \in EventKinds /\ 0 \in Nat /\ <<>> \in Seq(Int) /\ "none" \in EventKinds
    BY DEF EventKinds
  <2>2. d \in EV /\ z \in EV
    BY <2>1, MadeEvents
  <2>3. u = [Emit(t, <<d, z>>) EXCEPT !.thinkingStopped = TRUE]
    BY <1>2 DEF CloseThinking
  <2>4. Emit(t, <<d, z>>) = w
    <3> HIDE DEF d, z
    <3> QED
      BY <2>2, EmitPair
  <2>5. Carry(FALSE, b, t, S, P) /\ Blocks(t)
    BY DEF Account
  <2>6. 0 \notin P
    BY <1>2, <2>5, BaseIs DEF Over, Blocks
  <2>7. \E x \in S : x[1] = 0
    <3>1. <<0, "thought">> \in S /\ <<0, "thought">>[1] = 0
      BY <1>2 DEF Begun
    <3> QED
      BY <3>1
  <2>8. v \in States(Types) /\ Carry(FALSE, b, v, S, P)
    <3> HIDE DEF S, P
    <3>1. \A x \in S : x[1] = 0 => "signature" \in {x[2], "signature"} \/ FALSE
      OBVIOUS
    <3> QED
      BY <2>1, <2>5, <2>6, <2>7, <3>1, CarryDelta
  <2>9. w \in States(Types) /\ Carry(FALSE, b, w, S, P \cup {0})
    <3> HIDE DEF S, P, v
    <3> QED
      BY <2>1, <2>6, <2>7, <2>8, CarryStop
  <2>10. Alike(t, v) /\ Alike(v, w)
    <3>1. <<d>> \in Seq(EV) /\ <<z>> \in Seq(EV)
      BY <2>2
    <3> HIDE DEF d, z
    <3>2. Alike(t, v)
      BY <3>1, EmitAlike
    <3> HIDE DEF v
    <3> QED
      BY <2>8, <3>1, <3>2, EmitAlike
  <2> HIDE DEF v, w
  <2>11. u = [w EXCEPT !.thinkingStopped = TRUE]
    BY <2>3, <2>4
  <2>12. /\ u \in States(Types) /\ u.out = w.out /\ u.thinkingStopped = TRUE
         /\ Stays(t, u) /\ u.contentStopped = t.contentStopped /\ t.thinking
    BY <1>2, <2>9, <2>10, <2>11 DEF States, Alike, Stays
  <2>13. Over(u) = P \cup {0}
    <3>1. TextBlockIndex(u) = TextBlockIndex(t)
      BY <2>12, StaysBlocks
    <3> QED
      BY <1>2, <2>12, <3>1 DEF Over
  <2>14. Blocks(u)
    <3>1. Base(u) = Base(t) /\ NextBlockIndex(u) = NextBlockIndex(t)
      BY <2>12, StaysBlocks
    <3> QED
      BY <2>5, <2>12, <3>1 DEF Blocks, Stays
  <2>15. Carry(FALSE, b, u, S, P \cup {0}) /\ Begun(u) = S
    BY <2>9, <2>12, StaysBlocks DEF Carry
  <2> QED
    BY <2>12, <2>13, <2>14, <2>15 DEF Account
<1> QED
  BY <1>1, <1>2

LEMMA AccountCloseText ==
  ASSUME NEW b \in Seq(EV), NEW t \in States(Types), Account(b, t), NEW u, u = CloseText(t)
  PROVE  /\ u \in States(Types) /\ Account(b, u) /\ Stays(t, u)
         /\ u.content => u.contentStopped
         /\ u.thinkingStopped = t.thinkingStopped
<1>1. CASE ~t.content \/ t.contentStopped
  <2>1. u = t
    BY <1>1 DEF CloseText
  <2> QED
    BY <1>1, <2>1 DEF Stays
<1>2. CASE ~(~t.content \/ t.contentStopped)
  <2> DEFINE i == TextBlockIndex(t)
             w == Emit(t, <<Stop(i)>>)
             S == Begun(t)
             P == Over(t)
  <2>1. i \in Nat
    BY TextIndex
  <2>2. u = [w EXCEPT !.contentStopped = TRUE]
    BY <1>2 DEF CloseText
  <2>3. Carry(FALSE, b, t, S, P) /\ Blocks(t)
    BY DEF Account
  <2>4. i \notin P
    <3>1. i = IF t.thinking THEN 1 ELSE 0
      BY DEF TextBlockIndex
    <3> QED
      BY <1>2, <2>3, <3>1 DEF Over, Blocks
  <2>5. \E x \in S : x[1] = i
    <3>1. <<i, "text">> \in S /\ <<i, "text">>[1] = i
      BY <1>2 DEF Begun
    <3> QED
      BY <3>1
  <2>6. w \in States(Types) /\ Carry(FALSE, b, w, S, P \cup {i})
    <3> HIDE DEF S, P, i
    <3> QED
      BY <2>1, <2>3, <2>4, <2>5, CarryStop
  <2>7. Alike(t, w)
    <3>1. Stop(i) \in EV
      <4>1. <<>> \in Seq(Int) /\ "none" \in EventKinds
        BY DEF EventKinds
      <4> QED
        BY <2>1, <4>1, MadeEvents
    <3>2. <<Stop(i)>> \in Seq(EV)
      BY <3>1
    <3> QED
      BY <3>2, EmitAlike
  <2> HIDE DEF w
  <2>8. /\ u \in States(Types) /\ u.out = w.out /\ u.contentStopped = TRUE
        /\ Stays(t, u) /\ u.thinkingStopped = t.thinkingStopped /\ t.content
    BY <1>2, <2>2, <2>6, <2>7 DEF States, Alike, Stays
  <2>9. Over(u) = P \cup {i}
    <3>1. TextBlockIndex(u) = TextBlockIndex(t)
      BY <2>8, StaysBlocks
    <3> QED
      BY <1>2, <2>8, <3>1 DEF Over
  <2>10. Blocks(u)
    <3>1. Base(u) = Base(t) /\ NextBlockIndex(u) = NextBlockIndex(t)
      BY <2>8, StaysBlocks
    <3> QED
      BY <2>3, <2>8, <3>1 DEF Blocks, Stays
  <2>11. Carry(FALSE, b, u, S, P \cup {i}) /\ Begun(u) = S
    BY <2>6, <2>8, StaysBlocks DEF Carry
  <2> QED
    BY <2>8, <2>9, <2>10, <2>11 DEF Account
<1> QED
  BY <1>1, <1>2

LEMMA AccountClose ==
  ASSUME NEW b \in Seq(EV), NEW t \in States(Types), Account(b, t),
         NEW u, u = CloseText(CloseThinking(t))
  PROVE  /\ u \in States(Types) /\ Account(b, u) /\ Stays(t, u)
         /\ u.thinking => u.thinkingStopped
         /\ u.content => u.contentStopped
<1> DEFINE v == CloseThinking(t)
<1>1. /\ v \in States(Types) /\ Account(b, v) /\ Stays(t, v)
      /\ v.thinking => v.thinkingStopped
  BY AccountCloseThinking
<1> HIDE DEF v
<1>2. u = CloseText(v)
  BY DEF v
<1>3. /\ u \in States(Types) /\ Account(b, u) /\ Stays(v, u)
      /\ u.content => u.contentStopped
      /\ u.thinkingStopped = v.thinkingStopped
  BY <1>1, <1>2, AccountCloseText
<1> QED
  BY <1>1, <1>3 DEF Stays

(* A call's block is neither the thought's nor the text's.                 *)
LEMMA CallApart ==
  ASSUME NEW t \in States(Types), Blocks(t), NEW i \in DOMAIN t.calls, NEW n, n = t.calls[i]
  PROVE  /\ n \in Nat /\ n \notin Over(t) /\ <<n, "call">> \in Begun(t)
         /\ \A x \in Begun(t) : x[1] = n => x[2] = "call"
<1>1. /\ Base(t) = IF t.thinking THEN (IF t.content THEN 2 ELSE 1)
                   ELSE (IF t.content THEN 1 ELSE 0)
      /\ TextBlockIndex(t) = IF t.thinking THEN 1 ELSE 0
      /\ n \in Nat
  BY BaseIs
<1>2. n >= Base(t) /\ (t.thinkingStopped => t.thinking) /\ (t.contentStopped => t.content)
  BY DEF Blocks
<1>3. t.thinking => n # 0
  BY <1>1, <1>2
<1>4. t.content => n # TextBlockIndex(t)
  BY <1>1, <1>2
<1>5. n \notin Over(t)
  BY <1>2, <1>3, <1>4 DEF Over
<1>6. <<n, "call">> \in Begun(t)
  BY DEF Begun
<1>7. ASSUME NEW x \in Begun(t), x[1] = n PROVE x[2] = "call"
  BY <1>3, <1>4, <1>7 DEF Begun
<1> QED
  BY <1>1, <1>5, <1>6, <1>7

LEMMA AccountCallDelta ==
  ASSUME NEW b \in Seq(EV), NEW t \in States(Types), Account(b, t), NEW i \in DOMAIN t.calls,
         NEW args \in Seq(Int), NEW u, u = CallDelta(t, i, args)
  PROVE  u \in States(Types) /\ Account(b, u)
<1>1. CASE args = <<>>
  BY <1>1 DEF CallDelta
<1>2. CASE args # <<>>
  <2> DEFINE n == t.calls[i]
             S == Begun(t)
             P == Over(t)
  <2>1. u = Emit(t, <<Delta(n, "call", args)>>)
    BY <1>2 DEF CallDelta
  <2>2. Carry(FALSE, b, t, S, P) /\ Blocks(t)
    BY DEF Account
  <2>3. n \in Nat /\ n \notin P /\ <<n, "call">> \in S /\ \A x \in S : x[1] = n => x[2] = "call"
    BY <2>2, CallApart
  <2>4. "call" \in EventKinds
    BY DEF EventKinds
  <2> HIDE DEF n, S, P
  <2>5. u \in States(Types) /\ Carry(FALSE, b, u, S, P)
    <3>1. \E x \in S : x[1] = n
      <4>1. <<n, "call">>[1] = n
        OBVIOUS
      <4> QED
        BY <2>3, <4>1
    <3>2. \A x \in S : x[1] = n => "call" \in {x[2], "signature"} \/ FALSE
      BY <2>3
    <3> QED
      BY <2>1, <2>2, <2>3, <2>4, <3>1, <3>2, CarryDelta
  <2>6. Alike(t, u)
    <3>1. Delta(n, "call", args) \in EV
      BY <2>3, <2>4, MadeEvents
    <3>2. <<Delta(n, "call", args)>> \in Seq(EV)
      BY <3>1
    <3> QED
      BY <2>1, <3>2, EmitAlike
  <2>7. Begun(u) = S /\ Over(u) = P /\ Blocks(u)
    BY <2>2, <2>5, <2>6, AlikeBlocks DEF S, P
  <2> QED
    BY <2>5, <2>7 DEF Account
<1> QED
  BY <1>1, <1>2

(* A call that is new takes the next index, which is nobody's.             *)
LEMMA AccountOpenCall ==
  ASSUME NEW b \in Seq(EV), NEW t \in States(Types), Account(b, t), NEW i \in Nat,
         NEW u, u = OpenCall(t, i)
  PROVE  u \in States(Types) /\ Account(b, u) /\ i \in DOMAIN u.calls
<1>1. CASE i \in DOMAIN t.calls
  BY <1>1 DEF OpenCall
<1>2. CASE i \notin DOMAIN t.calls
  <2> DEFINE v == CloseText(CloseThinking(t))
             n == NextBlockIndex(v)
             w == Emit(v, <<Start(n, "call")>>)
             S == Begun(v)
             P == Over(v)
  <2>1. u = [w EXCEPT !.calls = With(w.calls, i, n)]
    BY <1>2 DEF OpenCall
  <2>2. v \in States(Types) /\ Account(b, v) /\ Stays(t, v)
    BY AccountClose
  <2> HIDE DEF v
  <2>3. Carry(FALSE, b, v, S, P) /\ Blocks(v)
    BY <2>2 DEF Account
  <2>4. i \notin DOMAIN v.calls
    BY <1>2, <2>2 DEF Stays
  <2>5. /\ Base(v) = IF v.thinking THEN (IF v.content THEN 2 ELSE 1)
                     ELSE (IF v.content THEN 1 ELSE 0)
        /\ IsFiniteSet(DOMAIN v.calls) /\ Cardinality(DOMAIN v.calls) \in Nat
        /\ n = Base(v) + Cardinality(DOMAIN v.calls)
        /\ TextBlockIndex(v) = IF v.thinking THEN 1 ELSE 0
        /\ \A j \in DOMAIN v.calls : v.calls[j] \in Nat
    BY <2>2, BaseIs
  <2>6. n \in Nat /\ Base(v) \in Nat /\ n >= Base(v)
    BY <2>5
  <2>7. \A j \in DOMAIN v.calls : v.calls[j] >= Base(v) /\ v.calls[j] < n
    BY <2>3 DEF Blocks
  <2>8. \A x \in S : x[1] # n
    <3>1. ASSUME NEW x \in S, x[1] = n PROVE FALSE
      <4>1. CASE v.thinking /\ x = <<0, "thought">>
        BY <2>5, <2>6, <3>1, <4>1
      <4>2. CASE v.content /\ x = <<TextBlockIndex(v), "text">>
        BY <2>5, <2>6, <3>1, <4>2
      <4>3. CASE \E j \in DOMAIN v.calls : x = <<v.calls[j], "call">>
        BY <2>5, <2>6, <2>7, <3>1, <4>3
      <4> QED
        BY <3>1, <4>1, <4>2, <4>3 DEF Begun
    <3> QED
      BY <3>1
  <2>9. "call" \in EventKinds
    BY DEF EventKinds
  <2>10. w \in States(Types) /\ Carry(FALSE, b, w, S \cup {<<n, "call">>}, P)
    <3> HIDE DEF n, S, P
    <3> QED
      BY <2>2, <2>3, <2>6, <2>8, <2>9, CarryStart
  <2>11. Alike(v, w)
    <3>1. Start(n, "call") \in EV
      <4>1. <<>> \in Seq(Int)
        OBVIOUS
      <4> QED
        BY <2>6, <2>9, <4>1, MadeEvents
    <3>2. <<Start(n, "call")>> \in Seq(EV)
      BY <3>1
    <3> HIDE DEF n
    <3> QED
      BY <2>2, <3>2, EmitAlike
  <2> HIDE DEF w
  <2> DEFINE m == With(w.calls, i, n)
  <2>12. /\ m \in CallMaps /\ i \in DOMAIN m /\ DOMAIN m = DOMAIN v.calls \cup {i} /\ m[i] = n
         /\ \A j \in DOMAIN v.calls : m[j] = v.calls[j]
    <3>1. w.calls \in CallMaps /\ w.calls = v.calls
      BY <2>10, <2>11 DEF States, Alike
    <3>2. m \in CallMaps /\ i \in DOMAIN m
      BY <2>6, <3>1, WithTyped
    <3>3. /\ DOMAIN m = DOMAIN v.calls \cup {i} /\ m[i] = n
          /\ \A j \in DOMAIN v.calls : m[j] = v.calls[j]
      BY <2>4, <3>1 DEF With, m
    <3> QED
      BY <3>2, <3>3
  <2> HIDE DEF m
  <2>13. /\ u \in States(Types) /\ u.out = w.out /\ u.calls = m
         /\ u.thinking = v.thinking /\ u.thinkingStopped = v.thinkingStopped
         /\ u.content = v.content /\ u.contentStopped = v.contentStopped /\ u.mode = v.mode
    BY <2>1, <2>10, <2>11, <2>12 DEF States, Alike, m
  <2>14. TextBlockIndex(u) = TextBlockIndex(v) /\ Base(u) = Base(v)
    <3>1. Base(u) = Base(v)
      BY <2>2, <2>13, BaseIs
    <3> QED
      BY <2>13, <3>1 DEF TextBlockIndex
  <2>15. NextBlockIndex(u) = n + 1
    <3>1. Cardinality(DOMAIN v.calls \cup {i}) = Cardinality(DOMAIN v.calls) + 1
      BY <2>4, <2>5, FS_AddElement
    <3>2. NextBlockIndex(u) = Base(u) + Cardinality(DOMAIN u.calls)
      BY <2>13, BaseIs
    <3> QED
      BY <2>5, <2>12, <2>13, <2>14, <3>1, <3>2
  <2>16. Begun(u) = S \cup {<<n, "call">>}
    <3>1. {<<m[j], "call">> : j \in DOMAIN m} = {<<v.calls[j], "call">> : j \in DOMAIN v.calls}
                                                   \cup {<<n, "call">>}
      BY <2>4, <2>12
    <3> QED
      BY <2>13, <2>14, <3>1 DEF Begun
  <2>17. Over(u) = P
    BY <2>13, <2>14 DEF Over
  <2>18. Blocks(u)
    <3>1. \A j \in DOMAIN m : m[j] >= Base(u) /\ m[j] < NextBlockIndex(u)
      <4>1. m[i] >= Base(u) /\ m[i] < NextBlockIndex(u)
        BY <2>6, <2>12, <2>14, <2>15
      <4>2. \A j \in DOMAIN v.calls : m[j] >= Base(u) /\ m[j] < NextBlockIndex(u)
        BY <2>5, <2>6, <2>7, <2>12, <2>14, <2>15
      <4> QED
        BY <2>12, <4>1, <4>2
    <3>2. \A j, k \in DOMAIN m : m[j] = m[k] => j = k
      <4>1. \A j, k \in DOMAIN v.calls : v.calls[j] = v.calls[k] => j = k
        BY <2>3 DEF Blocks
      <4>2. \A j \in DOMAIN v.calls : m[j] # n
        BY <2>5, <2>6, <2>7, <2>12
      <4> QED
        BY <2>12, <4>1, <4>2
    <3> QED
      BY <2>3, <2>13, <3>1, <3>2 DEF Blocks
  <2>19. Carry(FALSE, b, u, S \cup {<<n, "call">>}, P)
    BY <2>10, <2>13 DEF Carry
  <2> QED
    BY <2>12, <2>13, <2>16, <2>17, <2>18, <2>19 DEF Account
<1> QED
  BY <1>1, <1>2

(* The calls' blocks are stopped one by one, in any order.                 *)
LEMMA CallsStopped ==
  ASSUME NEW b \in Seq(EV), NEW t \in States(Types), Account(b, t),
         NEW u, u = Emit(t, CallStops(t))
  PROVE  /\ CallStops(t) \in Seq(EV)
         /\ u \in States(Types)
         /\ \E P : /\ Carry(FALSE, b, u, Begun(t), P) /\ Over(t) \subseteq P
                   /\ \A i \in DOMAIN t.calls : t.calls[i] \in P
<1> DEFINE D == DOMAIN t.calls
           q == SetToSeq(D)
           c == CallStops(t)
           S == Begun(t)
           x(j) == t.calls[q[j]]
           p(n) == [j \in 1..n |-> Stop(x(j))]
           P(n) == Over(t) \cup {x(j) : j \in 1..n}
           Good(n) == /\ p(n) \in Seq(EV) /\ Emit(t, p(n)) \in States(Types)
                      /\ Carry(FALSE, b, Emit(t, p(n)), S, P(n))
           G == {n \in Nat : n <= Len(q) => Good(n)}
<1>1. IsFiniteSet(D) /\ \A i \in D : t.calls[i] \in Nat
  BY BaseIs
<1>2. /\ q \in Seq(D) /\ Len(q) \in Nat
      /\ \A i \in D : \E j \in 1..Len(q) : q[j] = i
      /\ \A i, j \in 1..Len(q) : q[i] = q[j] => i = j
  <2>1. q \in Seq(D)
    BY <1>1, Listed
  <2>2. Len(q) \in Nat
    BY <2>1
  <2> QED
    BY <1>1, <2>1, <2>2, ListedOnce
<1>3. Carry(FALSE, b, t, S, Over(t)) /\ Blocks(t)
  BY DEF Account
<1>4. ASSUME NEW j \in 1..Len(q)
      PROVE  x(j) \in Nat /\ x(j) \notin Over(t) /\ (\E y \in S : y[1] = x(j)) /\ Stop(x(j)) \in EV
  <2>1. q[j] \in D
    BY <1>2
  <2> HIDE DEF q
  <2>2. x(j) \in Nat /\ x(j) \notin Over(t) /\ <<x(j), "call">> \in S
    BY <1>3, <2>1, CallApart
  <2>3. <<x(j), "call">>[1] = x(j)
    OBVIOUS
  <2>4. <<>> \in Seq(Int) /\ "none" \in EventKinds
    BY DEF EventKinds
  <2>5. Stop(x(j)) \in EV
    BY <2>2, <2>4, MadeEvents
  <2> QED
    BY <2>2, <2>3, <2>5
<1>5. \A i, j \in 1..Len(q) : x(i) = x(j) => i = j
  <2>1. \A i, j \in D : t.calls[i] = t.calls[j] => i = j
    BY <1>3 DEF Blocks
  <2>2. \A j \in 1..Len(q) : q[j] \in D
    BY <1>2
  <2> HIDE DEF q, D
  <2> QED
    BY <1>2, <2>1, <2>2
<1> HIDE DEF q, D, S, Good
<1>6. Good(0)
  <2>1. p(0) = <<>>
    OBVIOUS
  <2>2. P(0) = Over(t)
    OBVIOUS
  <2>3. t.out \in Seq(EV) /\ t.out \o <<>> = t.out
    BY DEF States, EV
  <2>4. Emit(t, <<>>) = [t EXCEPT !.out = t.out \o <<>>]
    BY DEF Emit
  <2>5. Emit(t, <<>>) = t
    BY <2>3, <2>4 DEF States
  <2>6. p(0) \in Seq(EV)
    BY <2>1
  <2> HIDE DEF p, P
  <2>7. Emit(t, p(0)) = t
    BY <2>1, <2>5
  <2>8. Carry(FALSE, b, Emit(t, p(0)), S, P(0))
    BY <1>3, <2>2, <2>7
  <2> QED
    BY <2>6, <2>7, <2>8 DEF Good
<1>7. ASSUME NEW n \in Nat, n \in G PROVE n + 1 \in G
  <2>1. SUFFICES ASSUME n + 1 <= Len(q) PROVE Good(n + 1)
    OBVIOUS
  <2>2. Good(n)
    <3>1. n <= Len(q)
      BY <1>2, <2>1
    <3> QED
      BY <1>7, <3>1
  <2>3. n + 1 \in 1..Len(q) /\ \A j \in 1..n : j \in 1..Len(q) /\ j # n + 1
    BY <1>2, <2>1
  <2> DEFINE v == Emit(t, p(n))
             w == x(n + 1)
             e == Stop(w)
             z == p(n + 1)
             f == p(n)
  <2>4. v \in States(Types) /\ Carry(FALSE, b, v, S, P(n)) /\ f \in Seq(EV)
    BY <2>2 DEF Good
  <2>5. w \in Nat /\ w \notin Over(t) /\ (\E y \in S : y[1] = w) /\ e \in EV
    BY <1>4, <2>3
  <2>6. w \notin P(n)
    BY <1>5, <2>3, <2>5
  <2>7. z \in Seq(EV) /\ Joins(z, f, <<e>>)
    <3>1. Len(f) = n /\ Len(z) = n + 1 /\ \A j \in 1..n : z[j] = f[j]
      OBVIOUS
    <3>2. z[n + 1] = e
      BY <2>3
    <3>3. z \in Seq(EV)
      <4>1. \A j \in 1..n + 1 : Stop(x(j)) \in EV
        BY <1>4, <2>1, <1>2
      <4> QED
        BY <4>1
    <3>4. <<e>> \in Seq(EV) /\ Len(<<e>>) = 1 /\ <<e>>[1] = e
      BY <2>5
    <3> DEFINE d == <<e>>
    <3> HIDE DEF z, f, e
    <3>5. Len(z) = Len(f) + Len(d) /\ \A j \in 1..Len(f) : z[j] = f[j]
      BY <3>1, <3>4
    <3>6. \A j \in 1..Len(d) : z[Len(f) + j] = d[j]
      BY <3>1, <3>2, <3>4
    <3> HIDE DEF d
    <3>7. z = f \o d
      BY <2>4, <3>3, <3>4, <3>5, <3>6, ConcatIs DEF d
    <3> QED
      BY <3>3, <3>7 DEF Joins, d
  <2>8. Emit(t, z) = Emit(v, <<e>>)
    <3> DEFINE d == <<e>>
    <3>1. d \in Seq(EV) /\ Joins(z, f, d)
      BY <2>5, <2>7
    <3> HIDE DEF d, z, f
    <3>2. Emit(t, z) = Emit(Emit(t, f), d)
      BY <2>4, <2>7, <3>1, EmitTwice
    <3> QED
      BY <3>2 DEF d, f
  <2>9. P(n + 1) = P(n) \cup {w}
    <3>1. 1..n + 1 = 1..n \cup {n + 1}
      OBVIOUS
    <3> QED
      BY <3>1
  <2> DEFINE R == P(n)
             o == Emit(t, z)
  <2> HIDE DEF v, w, z, f, R
  <2>10. o \in States(Types) /\ Carry(FALSE, b, o, S, R \cup {w})
    <3>1. Carry(FALSE, b, v, S, R) /\ w \notin R
      BY <2>4, <2>6 DEF R
    <3> HIDE DEF o
    <3>2. o = Emit(v, <<Stop(w)>>)
      BY <2>8 DEF o
    <3> QED
      BY <2>4, <2>5, <3>1, <3>2, CarryStop
  <2> QED
    BY <2>7, <2>9, <2>10 DEF R, z, Good
<1>8. Nat \subseteq G
  <2>1. 0 \in G
    BY <1>6
  <2> HIDE DEF G
  <2> QED
    BY <1>7, <2>1, SetInduction
<1> DEFINE m == Len(q)
<1>9. Good(m)
  <2>1. m \in Nat /\ m <= Len(q)
    BY <1>2
  <2>2. m \in G
    BY <1>8, <2>1
  <2> QED
    BY <2>1, <2>2
<1>10. c = p(m)
  <2>1. DOMAIN q = 1..m
    BY <1>2
  <2> QED
    BY <2>1 DEF CallStops, q, D
<1>11. \A i \in D : t.calls[i] \in P(m)
  BY <1>2
<1> QED
  <2>1. \A i \in DOMAIN t.calls : t.calls[i] \in P(m)
    BY <1>11 DEF D
  <2>2. Over(t) \subseteq P(m)
    OBVIOUS
  <2>3. p(m) \in Seq(EV) /\ Emit(t, p(m)) \in States(Types)
        /\ Carry(FALSE, b, Emit(t, p(m)), S, P(m))
    BY <1>9 DEF Good
  <2> HIDE DEF p, P, m
  <2> QED
    BY <1>10, <2>1, <2>2, <2>3 DEF S

(* All blocks are stopped before the message's delta.                      *)
LEMMA FinishFits ==
  ASSUME NEW b \in Seq(EV), NEW t \in States(Types), Account(b, t), NEW reason \in EventKinds,
         NEW u, u = FinishMessage(t, reason)
  PROVE  u \in States(Types) /\ Fits(FALSE, b \o u.out)
<1> DEFINE v == CloseText(CloseThinking(t))
           c == CallStops(v)
           w == Emit(v, c)
           e == MessageDelta(reason)
<1>1. /\ v \in States(Types) /\ Account(b, v)
      /\ v.thinking => v.thinkingStopped
      /\ v.content => v.contentStopped
  BY AccountClose
<1>2. u = Emit(v, Append(c, e))
  BY DEF FinishMessage
<1> HIDE DEF v
<1>3. c \in Seq(EV) /\ w \in States(Types)
  BY <1>1, CallsStopped
<1>4. PICK P : /\ Carry(FALSE, b, w, Begun(v), P) /\ Over(v) \subseteq P
               /\ \A i \in DOMAIN v.calls : v.calls[i] \in P
  BY <1>1, CallsStopped
<1>5. e \in EV
  <2>1. <<>> \in Seq(Int) /\ 0 \in Nat
    OBVIOUS
  <2> QED
    BY <2>1, MadeEvents
<1>6. u = Emit(w, <<e>>)
  <2> DEFINE r == Append(c, e)
             d == <<e>>
  <2>1. d \in Seq(EV) /\ Joins(r, c, d)
    <3> HIDE DEF c, e
    <3>1. Append(c, e) = c \o <<e>>
      BY <1>3, <1>5
    <3> QED
      BY <1>5, <3>1 DEF Joins
  <2> HIDE DEF r, d, c, e
  <2>2. Emit(v, r) = Emit(Emit(v, c), d)
    BY <1>1, <1>3, <2>1, EmitTwice
  <2> QED
    BY <1>2, <2>2 DEF r, d
<1>7. \A x \in Begun(v) : x[1] \in P
  BY <1>1, <1>4 DEF Begun, Over
<1> DEFINE S == Begun(v)
<1> HIDE DEF w, S
<1>8. u \in States(Types) /\ Carry(FALSE, b, u, S, P)
  <2>1. \A x \in S : x[1] \in P
    BY <1>7 DEF S
  <2>2. Carry(FALSE, b, w, S, P)
    BY <1>4 DEF S
  <2> QED
    BY <1>3, <1>6, <2>1, <2>2, CarryEnd
<1> QED
  BY <1>8 DEF Carry, Reads

(* What is no block, no delta and no message's delta fits anywhere.        *)
BlockTypes == {"content_block_start", "content_block_delta", "content_block_stop",
               "message_delta"}

LEMMA FitsPlain ==
  ASSUME NEW lax, NEW o, Fits(lax, o), NEW e \in EV, e.type \notin BlockTypes,
         NEW r, r = Append(o, e)
  PROVE  Fits(lax, r)
<1> DEFINE n == Len(o)
<1>1. o \in Seq(EV) /\ n \in Nat
  BY DEF Fits
<1>2. r \in Seq(EV) /\ Len(r) = n + 1 /\ r[n + 1] = e /\ \A j \in 1..n : r[j] = o[j]
  BY <1>1
<1>3. \A j \in 1..n : FitsAt(lax, o, j)
  BY DEF Fits
<1> HIDE DEF n
<1>4. ASSUME NEW k \in 1..n PROVE FitsAt(lax, r, k)
  BY <1>1, <1>2, <1>3, FitsBefore
<1>5. FitsAt(lax, r, n + 1)
  BY <1>2 DEF FitsAt, BlockTypes
<1>6. \A k \in 1..Len(r) : k \in 1..n \/ k = n + 1
  BY <1>1, <1>2
<1> QED
  BY <1>2, <1>4, <1>5, <1>6 DEF Fits

LEMMA FitsSilent ==
  ASSUME NEW lax, NEW b, Fits(lax, b), NEW r, r = b \o <<>>
  PROVE  Fits(lax, r)
<1>1. b \in Seq(EV)
  BY DEF Fits
<1>2. r = b
  BY <1>1
<1> QED
  BY <1>2

LEMMA FitsOne ==
  ASSUME NEW lax, NEW b, Fits(lax, b), NEW e \in EV, e.type \notin BlockTypes,
         NEW r, r = b \o <<e>>
  PROVE  Fits(lax, r)
<1>1. b \in Seq(EV)
  BY DEF Fits
<1>2. r = Append(b, e)
  BY <1>1
<1> QED
  BY <1>2, FitsPlain

LEMMA PlainEvents ==
  /\ MessageStart \in EV /\ MessageStart.type \notin BlockTypes
  /\ MessageStop \in EV /\ MessageStop.type \notin BlockTypes
<1>1. <<>> \in Seq(Int) /\ "none" \in EventKinds /\ 0 \in Nat
  BY DEF EventKinds
<1>2. MessageStart \in EV /\ MessageStop \in EV
  BY <1>1, MadeEvents
<1> QED
  BY <1>2 DEF MessageStart, MessageStop, E, BlockTypes

(* OpenAI's lines of text: a chunk, with something in it.                  *)
HasText(e) == e.type = "chunk" /\ e.kind = "text" /\ e.data # <<>>
OfCall(e) == e.type = "chunk" /\ e.kind = "call"

LEMMA OpenAIToClaudeFits ==
  ASSUME NEW b \in Seq(EV), NEW t \in States(Types), Account(b, t), NEW e, Formed("openai", e),
         HasText(e) => Speaking(t) /\ (Contains(e.data, Open) => ~t.content),
         NEW u, u = OpenAIToClaude(t, e)
  PROVE  /\ u \in States(Types) /\ Fits(FALSE, b \o u.out)
         /\ e.type # "finish" => Account(b, u)
         /\ e.type # "finish" /\ ~OfCall(e) /\ Speaking(t) => Speaking(u)
<1>1. /\ e.kind \in EventKinds /\ e.type \in OpenAITypes \cup {"error"}
      /\ e.i \in Nat /\ e.data \in Seq(Int)
  BY DEF Formed, EV, Events, LineTypes
<1> DEFINE v == First(t, <<MessageStart>>)
           Kept1 == Account(b, u) /\ (Speaking(t) => Speaking(u))
<1>2. v \in States(Types) /\ Account(b, v) /\ Alike(t, v)
  BY AccountFirst
<1>3. (Speaking(t) <=> Speaking(v)) /\ v.content = t.content
  BY <1>2, AlikeBlocks DEF Alike
<1>4. Account(b, u) => Fits(FALSE, b \o u.out)
  BY DEF Account, Carry, Reads
<1> HIDE DEF v
<1>5. CASE e.type = "[DONE]"
  <2>1. u = Emit(t, <<MessageStop>>)
    BY <1>5 DEF OpenAIToClaude
  <2>2. Carry(FALSE, b, t, Begun(t), Over(t)) /\ Blocks(t)
    BY DEF Account
  <2>3. u \in States(Types) /\ Carry(FALSE, b, u, Begun(t), Over(t))
    BY <2>1, <2>2, PlainEvents, CarryPlain DEF BlockTypes
  <2>4. Alike(t, u)
    <3>1. <<MessageStop>> \in Seq(EV)
      BY PlainEvents
    <3> QED
      BY <2>1, <3>1, EmitAlike
  <2>5. Begun(u) = Begun(t) /\ Over(u) = Over(t) /\ Blocks(u) /\ (Speaking(u) <=> Speaking(t))
    BY <2>2, <2>3, <2>4, AlikeBlocks
  <2>6. Account(b, u)
    BY <2>3, <2>5 DEF Account
  <2> QED
    BY <1>4, <2>3, <2>5, <2>6
<1>6. CASE e.type = "finish"
  <2>1. u = FinishMessage(v, e.kind)
    BY <1>6 DEF OpenAIToClaude, v
  <2> QED
    BY <1>1, <1>2, <1>6, <2>1, FinishFits
<1>7. CASE HasText(e)
  <2> DEFINE r == HandleStreamingThinkTags(v, e.data)
  <2>1. u = EmitText(r.s, r.text)
    BY <1>7 DEF OpenAIToClaude, v, HasText
  <2>2. Speaking(v) /\ (Contains(e.data, Open) => ~v.content)
    BY <1>3, <1>7
  <2> HIDE DEF r
  <2>3. r = HandleStreamingThinkTags(v, e.data)
    BY DEF r
  <2>4. u \in States(Types) /\ Account(b, u) /\ Speaking(u)
    BY <1>1, <1>2, <2>1, <2>2, <2>3, AccountTextChunk
  <2> QED
    BY <1>4, <2>4
<1>8. CASE OfCall(e)
  <2> DEFINE w == OpenCall(v, e.i)
  <2>1. u = CallDelta(w, e.i, e.data)
    BY <1>8 DEF OpenAIToClaude, v, OfCall
  <2>2. w \in States(Types) /\ Account(b, w) /\ e.i \in DOMAIN w.calls
    BY <1>1, <1>2, AccountOpenCall
  <2> HIDE DEF w
  <2>3. u \in States(Types) /\ Account(b, u)
    BY <1>1, <2>1, <2>2, AccountCallDelta
  <2> QED
    BY <1>4, <1>8, <2>3
<1>9. CASE e.type \notin {"[DONE]", "finish"} /\ ~HasText(e) /\ ~OfCall(e)
  <2>1. u \in {t, v}
    BY <1>9 DEF OpenAIToClaude, v, HasText, OfCall
  <2> QED
    BY <1>2, <1>3, <1>4, <2>1
<1> QED
  BY <1>5, <1>6, <1>7, <1>8, <1>9

(* After the message's end nothing is written but its stop.                *)
LEMMA OpenAIEndFits ==
  ASSUME NEW b, Fits(FALSE, b), NEW t \in States(Types), t.out = <<>>,
         NEW e, Formed("openai", e), Stage(e) = 4, NEW u, u = OpenAIToClaude(t, e)
  PROVE  u \in States(Types) /\ Fits(FALSE, b \o u.out)
<1>1. e.type \in {"usage", "[DONE]", "error"}
  BY DEF Formed, LineTypes, OpenAITypes, Stage
<1>2. CASE e.type = "[DONE]"
  <2>1. u = Emit(t, <<MessageStop>>)
    BY <1>2 DEF OpenAIToClaude
  <2>2. u.out = <<MessageStop>>
    BY <2>1, PlainEvents, EmitFromNothing DEF EV
  <2>3. <<MessageStop>> \in Seq(EV)
    BY PlainEvents
  <2>4. u \in States(Types)
    BY <2>1, <2>3, EmitAlike
  <2> QED
    BY <2>2, <2>4, PlainEvents, FitsOne
<1>3. CASE e.type \in {"usage", "error"}
  <2>1. u = t
    BY <1>3 DEF OpenAIToClaude
  <2> QED
    BY <2>1, FitsSilent
<1> QED
  BY <1>1, <1>2, <1>3

(* What a step wrote is taken from the converter.                          *)
LEMMA AccountTaken ==
  ASSUME NEW b \in Seq(EV), NEW t \in States(Types), Account(b, t),
         NEW u, u = [t EXCEPT !.out = <<>>], NEW o, o = b \o t.out
  PROVE  Account(o, u) /\ u \in States(Types) /\ Alike(t, u)
<1>1. t.out \in Seq(EV) /\ <<>> \in Seq(EV)
  BY DEF States, EV
<1>2. u \in States(Types) /\ u.out = <<>>
  BY <1>1 DEF States, EV
<1>3. Alike(t, u)
  BY DEF Alike, States
<1>4. o \in Seq(EV)
  BY <1>1
<1>5. o \o u.out = o
  BY <1>2, <1>4
<1>6. Carry(FALSE, b, t, Begun(t), Over(t)) /\ Blocks(t)
  BY DEF Account
<1>7. Begun(u) = Begun(t) /\ Over(u) = Over(t) /\ Blocks(u)
  BY <1>2, <1>3, <1>6, AlikeBlocks
<1>8. Carry(FALSE, o, u, Begun(u), Over(u))
  BY <1>5, <1>6, <1>7 DEF Carry
<1> QED
  BY <1>2, <1>3, <1>7, <1>8 DEF Account

(* Nothing is left to read but what comes after a message's end.           *)
Ended(r) == \A k \in 1..Len(r) : Stage(r[k]) = 4

LEMMA EndedAfter ==
  ASSUME NEW e, Stage(e) >= 3, NEW q,
         \A k \in 1..Len(q) : \/ Stage(e) < Stage(q[k])
                              \/ Stage(e) = Stage(q[k]) /\ Stage(e) \notin {0, 3}
  PROVE  Ended(q)
<1>1. ASSUME NEW k \in 1..Len(q) PROVE Stage(q[k]) = 4
  <2>1. Stage(e) \in 0..4 /\ Stage(q[k]) \in 0..4
    BY StageIs
  <2> DEFINE x == Stage(e)
             y == Stage(q[k])
  <2>2. x < y \/ (x = y /\ x \notin {0, 3})
    OBVIOUS
  <2>3. x \in 0..4 /\ y \in 0..4 /\ x >= 3
    BY <2>1
  <2> HIDE DEF x, y
  <2>4. y = 4
    BY <2>2, <2>3
  <2> QED
    BY <2>4 DEF y
<1> QED
  BY <1>1 DEF Ended

(* What may still come: text and thoughts only while they may, and the     *)
(* opening tag only first and before all text.                             *)
Later(t, r) ==
    /\ Tokens(r) = <<>> \/ Speaking(t)
    /\ \A k \in 1..Len(Tokens(r)) : Tokens(r)[k] = Open => k = 1 /\ ~t.content

(* The texts of a line, and those after it.                                *)
LEMMA LaterTexts ==
  ASSUME NEW t, NEW r, Later(t, r), NEW c \in Seq(Int), NEW q, Tokens(q) \in Seq(Int),
         Joins(Tokens(r), c, Tokens(q))
  PROVE  /\ c # <<>> => Speaking(t) /\ (Contains(c, Open) => ~t.content)
         /\ Tokens(q) # <<>> => Speaking(t)
         /\ \A k \in 1..Len(Tokens(q)) : Tokens(q)[k] = Open => c = <<>> /\ k = 1 /\ ~t.content
<1> DEFINE x == Tokens(r)
           d == Tokens(q)
<1>1. x = c \o d /\ d \in Seq(Int)
  BY DEF Joins
<1>2. x = <<>> \/ Speaking(t)
  BY DEF Later
<1>3. \A k \in 1..Len(x) : x[k] = Open => k = 1 /\ ~t.content
  BY DEF Later
<1> HIDE DEF x, d
<1>4. /\ x \in Seq(Int) /\ Len(x) = Len(c) + Len(d) /\ Len(c) \in Nat /\ Len(d) \in Nat
      /\ \A k \in 1..Len(c) : x[k] = c[k]
      /\ \A k \in 1..Len(d) : x[Len(c) + k] = d[k]
  BY <1>1, ConcatAt
<1>5. (c = <<>> <=> Len(c) = 0) /\ (d = <<>> <=> Len(d) = 0) /\ (x = <<>> <=> Len(x) = 0)
  BY <1>1, <1>4
<1>6. (c # <<>> => Speaking(t)) /\ (d # <<>> => Speaking(t))
  BY <1>2, <1>4, <1>5
<1>7. ASSUME Contains(c, Open) PROVE ~t.content
  <2>1. PICK k \in 1..Len(c) : c[k] = Open
    BY <1>7 DEF Contains
  <2>2. k \in 1..Len(x) /\ x[k] = Open
    BY <1>4, <2>1
  <2> QED
    BY <1>3, <2>2
<1>8. ASSUME NEW k \in 1..Len(d), d[k] = Open PROVE c = <<>> /\ k = 1 /\ ~t.content
  <2> DEFINE i == Len(c) + k
  <2>1. i \in 1..Len(x) /\ x[i] = Open
    BY <1>4, <1>8
  <2> HIDE DEF i
  <2>2. i = 1 /\ ~t.content
    BY <1>3, <2>1
  <2>3. Len(c) = 0 /\ k = 1
    BY <1>4, <2>2 DEF i
  <2> QED
    BY <1>5, <2>2, <2>3
<1> QED
  BY <1>6, <1>7, <1>8 DEF d

(* A line without text leaves whether there was text as it was.            *)
LEMMA QuietContent ==
  ASSUME NEW t \in States(Types), NEW e, Formed("openai", e), ~HasText(e), ~OfCall(e),
         e.type # "finish", NEW u, u = OpenAIToClaude(t, e)
  PROVE  u.content = t.content
<1> DEFINE v == First(t, <<MessageStart>>)
           w == Emit(t, <<MessageStop>>)
<1>1. u \in {t, v, w}
  BY DEF OpenAIToClaude, HasText, OfCall
<1>2. v.content = t.content /\ w.content = t.content
  BY DEF First, Emit, States
<1> HIDE DEF v, w
<1> QED
  BY <1>1, <1>2

LEMMA OpenAIStep ==
  ASSUME NEW b \in Seq(EV), Fits(FALSE, b), NEW t \in States(Types), t.out = <<>>,
         NEW e, Formed("openai", e), NEW r, NEW q \in Seq(EV),
         Joins(Tokens(r), Tokens(<<e>>), Tokens(q)),
         \/ Account(b, t) /\ Later(t, r)
         \/ Stage(e) = 4,
         \A k \in 1..Len(q) : \/ Stage(e) < Stage(q[k])
                              \/ Stage(e) = Stage(q[k]) /\ Stage(e) \notin {0, 3},
         NEW u, u = OpenAIToClaude(t, e), NEW w, w = [u EXCEPT !.out = <<>>],
         NEW o, o = b \o u.out
  PROVE  Fits(FALSE, o) /\ ((Account(o, w) /\ Later(w, q)) \/ Ended(q))
<1>1. CASE Stage(e) = 4
  <2>1. Ended(q)
    <3>1. Stage(e) >= 3
      BY <1>1
    <3> QED
      BY <3>1, EndedAfter
  <2>2. Fits(FALSE, o)
    BY <1>1, OpenAIEndFits
  <2> QED
    BY <2>1, <2>2
<1>2. CASE Account(b, t) /\ Later(t, r)
  <2> DEFINE c == Tokens(<<e>>)
             d == Tokens(q)
  <2>1. e \in EV /\ e.data \in Seq(Int)
    BY DEF Formed, EV, Events
  <2>2. c = IF e.type = "chunk" /\ e.kind = "text" THEN e.data ELSE <<>>
    BY <2>1, SaidOne DEF Tokens
  <2>3. c \in Seq(Int) /\ d \in Seq(Int)
    <3>1. <<e>> \in Seq(EV)
      BY <2>1
    <3> QED
      BY <3>1, SaidTyped DEF Tokens
  <2>4. (HasText(e) <=> c # <<>>) /\ (HasText(e) => c = e.data)
    BY <2>2 DEF HasText
  <2> HIDE DEF c, d
  <2>5. /\ c # <<>> => Speaking(t) /\ (Contains(c, Open) => ~t.content)
        /\ d # <<>> => Speaking(t)
        /\ \A k \in 1..Len(d) : d[k] = Open => c = <<>> /\ k = 1 /\ ~t.content
    <3>1. Later(t, r) /\ Joins(Tokens(r), c, Tokens(q)) /\ Tokens(q) \in Seq(Int)
      BY <1>2, <2>3 DEF c, d
    <3> QED
      BY <2>3, <3>1, LaterTexts DEF d
  <2>6. HasText(e) => Speaking(t) /\ (Contains(e.data, Open) => ~t.content)
    BY <2>4, <2>5
  <2>7. /\ u \in States(Types) /\ Fits(FALSE, o)
        /\ e.type # "finish" => Account(b, u)
        /\ e.type # "finish" /\ ~OfCall(e) /\ Speaking(t) => Speaking(u)
    BY <1>2, <2>6, OpenAIToClaudeFits
  <2>8. CASE e.type = "finish"
    <3>1. Stage(e) >= 3
      BY <2>8 DEF Stage
    <3>2. Ended(q)
      BY <3>1, EndedAfter
    <3> QED
      BY <2>7, <3>2
  <2>9. CASE e.type # "finish"
    <3>1. Account(o, w) /\ w \in States(Types) /\ Alike(u, w)
      BY <2>7, <2>9, AccountTaken
    <3>2. (Speaking(w) <=> Speaking(u)) /\ w.content = u.content
      BY <2>7, <3>1, AlikeBlocks DEF Alike
    <3>3. CASE OfCall(e)
      <4>1. Stage(e) = 2
        BY <3>3 DEF OfCall, Stage
      <4>2. ASSUME NEW k \in 1..Len(q) PROVE ~(q[k].type \in {"chunk"} /\ q[k].kind \in {"text"})
        <5>1. Stage(q[k]) # 1
          <6>1. Stage(e) < Stage(q[k]) \/ Stage(e) = Stage(q[k])
            OBVIOUS
          <6>2. Stage(q[k]) \in 0..4
            BY StageIs
          <6> QED
            BY <4>1, <6>1, <6>2
        <5>2. SUFFICES ASSUME q[k].type = "chunk", q[k].kind = "text" PROVE FALSE
          OBVIOUS
        <5>3. Stage(q[k]) = 1
          BY <5>2 DEF Stage
        <5> QED
          BY <5>1, <5>3
      <4>3. d = <<>>
        BY <4>2, SaidNothing DEF Tokens, d
      <4>4. Later(w, q)
        BY <4>3 DEF Later, d
      <4> QED
        BY <2>7, <3>1, <4>4
    <3>4. CASE ~OfCall(e)
      <4>1. d = <<>> \/ Speaking(w)
        BY <2>5, <2>7, <2>9, <3>2, <3>4
      <4>2. ASSUME NEW k \in 1..Len(d), d[k] = Open PROVE k = 1 /\ ~w.content
        <5>1. c = <<>> /\ k = 1 /\ ~t.content
          BY <2>5, <4>2
        <5>2. ~HasText(e)
          BY <2>4, <5>1
        <5>3. u.content = t.content
          BY <2>9, <3>4, <5>2, QuietContent
        <5> QED
          BY <3>2, <5>1, <5>3
      <4>3. Later(w, q)
        BY <4>1, <4>2 DEF Later, d
      <4> QED
        BY <2>7, <3>1, <4>3
    <3> QED
      BY <3>3, <3>4
  <2> QED
    BY <2>8, <2>9
<1> QED
  BY <1>1, <1>2

(* Nothing is written: an empty message reads as one without blocks.       *)
LEMMA ReadsNothing == ASSUME NEW lax PROVE Reads(lax, <<>>, {}, {}) /\ Fits(lax, <<>>)
<1> DEFINE z == <<>>
<1>1. z \in Seq(EV) /\ Len(z) = 0
  OBVIOUS
<1> HIDE DEF z
<1>2. 1..Len(z) = {}
  BY <1>1
<1>3. Fits(lax, z) /\ Reads(lax, z, {}, {})
  BY <1>1, <1>2 DEF Fits, Reads
<1> QED
  BY <1>3 DEF z

LEMMA NewIs ==
  ASSUME NEW t, t = NewTransformState
  PROVE  /\ t \in States(Types) /\ t.out = <<>> /\ ~t.id /\ Speaking(t) /\ ~t.content
         /\ Begun(t) = {} /\ Over(t) = {} /\ Blocks(t)
<1> DEFINE m == <<>>
<1>1. DOMAIN m = {}
  OBVIOUS
<1>2. t \in States(Types)
  BY NewTyped
<1>3. /\ t.thinking = FALSE /\ t.thinkingStopped = FALSE /\ t.content = FALSE
      /\ t.contentStopped = FALSE /\ t.mode = 0 /\ t.calls = m /\ t.id = FALSE /\ t.out = <<>>
  BY DEF NewTransformState
<1> HIDE DEF m
<1>4. DOMAIN t.calls = {}
  BY <1>1, <1>3
<1>5. Speaking(t)
  BY <1>3, <1>4 DEF Speaking
<1>6. Begun(t) = {} /\ Over(t) = {}
  <2>1. {<<t.calls[i], "call">> : i \in DOMAIN t.calls} = {}
    BY <1>4
  <2>2. {x \in {<<0, "thought">>} : t.thinking} = {}
    BY <1>3
  <2>3. {x \in {<<TextBlockIndex(t), "text">>} : t.content} = {}
    BY <1>3
  <2>4. Begun(t) = {}
    BY <2>1, <2>2, <2>3 DEF Begun
  <2>5. Over(t) = {}
    BY <1>3 DEF Over
  <2> QED
    BY <2>4, <2>5
<1>7. Blocks(t)
  BY <1>3, <1>4 DEF Blocks
<1> QED
  BY <1>2, <1>3, <1>5, <1>6, <1>7

LEMMA AccountNew ==
  ASSUME NEW t, t = NewTransformState
  PROVE  Account(<<>>, t)
<1> DEFINE z == <<>>
<1>1. /\ t.out = z /\ Begun(t) = {} /\ Over(t) = {} /\ Blocks(t)
  BY NewIs
<1>2. z \o z = z
  OBVIOUS
<1>3. Reads(FALSE, z, {}, {})
  BY ReadsNothing
<1> HIDE DEF z
<1>4. Carry(FALSE, z, t, Begun(t), Over(t))
  BY <1>1, <1>2, <1>3 DEF Carry
<1> QED
  BY <1>1, <1>4 DEF Account, z

(* The opening tag of a thought is the first text of an OpenAI answer.     *)
LEMMA TagFirst ==
  ASSUME NEW n \in Nat, NEW a \in [1..n -> Kinds], Possible("openai", a),
         NEW w, w = Told(PartsOf("openai", a), {"text"})
  PROVE  \A k \in 1..Len(w) : w[k] = Open => k = 1
<1> DEFINE m == FlattenSeq(Spoken(a))
           e == Tagged(a, 1)
<1>1. /\ m \in Seq(Nat) /\ m \in Seq(Int)
      /\ \/ w = m
         \/ 1 \in 1..n /\ Joins(w, e, m) /\ (n = 1 => m = <<>>)
  BY TextsOfAnswer
<1> HIDE DEF m
<1>2. Open \notin Nat /\ Open # Close /\ Open \in Int /\ Close \in Int
  BY DEF Open, Close
<1>3. \A k \in 1..Len(m) : m[k] # Open
  BY <1>1, <1>2
<1>4. CASE w = m
  BY <1>3, <1>4
<1>5. CASE Joins(w, e, m)
  <2>1. e = <<Open, 1>> \/ e = <<Open, 1, Close>>
    BY DEF Tagged
  <2>2. 1 # Open /\ 1 \in Int
    BY <1>2
  <2>3. e \in Seq(Int) /\ \A k \in 1..Len(e) : e[k] = Open => k = 1
    <3>1. CASE e = <<Open, 1>>
      <4> DEFINE x == <<Open, 1>>
      <4>1. x \in Seq(Int) /\ Len(x) = 2 /\ x[1] = Open /\ x[2] = 1
        BY <1>2
      <4>2. e = x
        BY <3>1
      <4> HIDE DEF x, e
      <4>3. 1..2 = {1, 2}
        OBVIOUS
      <4> QED
        BY <2>2, <4>1, <4>2, <4>3
    <3>2. CASE e = <<Open, 1, Close>>
      <4> DEFINE x == <<Open, 1, Close>>
      <4>1. x \in Seq(Int) /\ Len(x) = 3 /\ x[1] = Open /\ x[2] = 1 /\ x[3] = Close
        BY <1>2
      <4>2. e = x
        BY <3>2
      <4> HIDE DEF x, e
      <4>3. 1..3 = {1, 2, 3}
        OBVIOUS
      <4> QED
        BY <1>2, <2>2, <4>1, <4>2, <4>3
    <3> QED
      BY <2>1, <3>1, <3>2
  <2> HIDE DEF e
  <2>4. w = e \o m
    BY <1>5 DEF Joins
  <2>5. /\ Len(w) = Len(e) + Len(m) /\ Len(e) \in Nat /\ Len(m) \in Nat
        /\ \A k \in 1..Len(e) : w[k] = e[k]
        /\ \A k \in 1..Len(m) : w[Len(e) + k] = m[k]
    BY <1>1, <2>3, <2>4, ConcatAt
  <2>6. ASSUME NEW k \in 1..Len(w), w[k] = Open PROVE k = 1
    <3>1. CASE k <= Len(e)
      <4>1. k \in 1..Len(e)
        BY <2>5, <3>1
      <4> QED
        BY <2>3, <2>5, <2>6, <4>1
    <3>2. CASE k > Len(e)
      <4> DEFINE i == k - Len(e)
      <4>1. i \in 1..Len(m) /\ k = Len(e) + i
        BY <2>5, <3>2
      <4> HIDE DEF i
      <4>2. m[i] = Open
        BY <2>5, <2>6, <4>1
      <4> QED
        BY <1>3, <4>1, <4>2
    <3> QED
      BY <2>5, <3>1, <3>2
  <2> QED
    BY <2>6
<1> QED
  BY <1>1, <1>4, <1>5

LEMMA OpenAILater ==
  ASSUME NEW a \in Answers, Possible("openai", a), cut \in BOOLEAN,
         NEW r, r = Lines("openai", a), NEW t, t = NewTransformState
  PROVE  Later(t, r)
<1>1. PICK n \in Nat : a \in [1..n -> Kinds]
  BY BoundAssumption DEF Answers
<1> DEFINE w == Told(PartsOf("openai", a), {"text"})
<1>2. "openai" \in Formats /\ TextType("openai") = {"chunk"}
  BY DEF Formats, TextType
<1>3. Said(r, TextType("openai"), {"text"}) = w
  BY <1>2, LinesSay
<1>4. Tokens(r) = w
  BY <1>2, <1>3 DEF Tokens
<1>5. \A k \in 1..Len(w) : w[k] = Open => k = 1
  BY <1>1, TagFirst
<1>6. Speaking(t) /\ ~t.content
  BY NewIs
<1> HIDE DEF w
<1> QED
  BY <1>4, <1>5, <1>6 DEF Later

-------------------------------------------------------------------------------
(* Answers that are passed on, and converters that write one block.        *)
LEMMA AppendedTwo ==
  ASSUME NEW T, NEW o \in Seq(T), NEW x \in T, NEW y \in T,
         NEW r, r = o \o <<x, y>>, NEW p, p = Append(o, x)
  PROVE  r = Append(p, y)
OBVIOUS

LEMMA AppendedThree ==
  ASSUME NEW T, NEW o \in Seq(T), NEW x \in T, NEW y \in T, NEW z \in T,
         NEW r, r = o \o <<x, y, z>>, NEW p, p = Append(o, x), NEW q, q = Append(p, y)
  PROVE  r = Append(q, z)
OBVIOUS

(* A part of a Claude answer: one block, from its start to its stop.       *)
LEMMA BlockReads ==
  ASSUME NEW o, NEW S, NEW P, Reads(FALSE, o, S, P), NEW i \in Nat, NEW kind \in Kinds,
         NEW d \in Seq(Int), \A x \in S : x[1] # i, i \notin P,
         NEW r, r = o \o <<Start(i, kind), Delta(i, kind, d), Stop(i)>>
  PROVE  Reads(FALSE, r, S \cup {<<i, kind>>}, P \cup {i})
<1> DEFINE x == Start(i, kind)
           y == Delta(i, kind, d)
           z == Stop(i)
           p == Append(o, x)
           q == Append(p, y)
           Q == S \cup {<<i, kind>>}
<1>1. x \in EV /\ y \in EV /\ z \in EV
  <2>1. kind \in EventKinds
    BY DEF Kinds, EventKinds
  <2> QED
    BY <2>1, MadeEvents
<1>2. /\ x.type = "content_block_start" /\ x.i = i /\ x.kind = kind
      /\ y.type = "content_block_delta" /\ y.i = i /\ y.kind = kind
      /\ z.type = "content_block_stop" /\ z.i = i /\ z = Stop(z.i)
  BY DEF Start, Delta, Stop, E
<1>3. o \in Seq(EV)
  BY DEF Reads, Fits
<1>4. r = Append(q, z)
  <2>1. r = o \o <<x, y, z>>
    OBVIOUS
  <2> HIDE DEF x, y, z, p, q
  <2> QED
    BY ONLY <1>1, <1>3, <2>1, AppendedThree DEF p, q
<1> HIDE DEF x, y, z
<1>5. Suits(FALSE, S, P, x) /\ StartsWith(S, x) = Q /\ StopsWith(P, x) = P
  BY <1>2 DEF Suits, StartsWith, StopsWith
<1>6. Reads(FALSE, p, Q, P)
  <2> HIDE DEF Q
  <2>1. Reads(FALSE, p, StartsWith(S, x), StopsWith(P, x))
    BY <1>1, <1>5, ReadsMore
  <2> QED
    BY <1>5, <2>1
<1>7. \A v \in Q : v[1] = i => v[2] = kind
  OBVIOUS
<1>8. \E v \in Q : v[1] = i
  <2>1. <<i, kind>> \in Q /\ <<i, kind>>[1] = i
    OBVIOUS
  <2> QED
    BY <2>1
<1> HIDE DEF Q, p
<1>9. Suits(FALSE, Q, P, y) /\ StartsWith(Q, y) = Q /\ StopsWith(P, y) = P
  BY <1>2, <1>7, <1>8 DEF Suits, StartsWith, StopsWith
<1>10. Reads(FALSE, q, Q, P)
  <2>1. Reads(FALSE, q, StartsWith(Q, y), StopsWith(P, y))
    BY <1>1, <1>6, <1>9, ReadsMore
  <2> QED
    BY <1>9, <2>1
<1> HIDE DEF q
<1>11. Suits(FALSE, Q, P, z) /\ StartsWith(Q, z) = Q /\ StopsWith(P, z) = P \cup {i}
  BY <1>2, <1>8 DEF Suits, StartsWith, StopsWith
<1>12. Reads(FALSE, r, Q, P \cup {i})
  <2>1. Reads(FALSE, r, StartsWith(Q, z), StopsWith(P, z))
    BY <1>1, <1>4, <1>10, <1>11, ReadsMore
  <2> QED
    BY <1>11, <2>1
<1> QED
  BY <1>12 DEF Q

LEMMA ClaudePartsRead ==
  ASSUME NEW n \in Nat, NEW a \in [1..n -> Kinds],
         NEW r, r = <<MessageStart>> \o PartsLines("claude", a)
  PROVE  Reads(FALSE, r, {<<j - 1, a[j]>> : j \in 1..n}, {j - 1 : j \in 1..n})
<1> DEFINE L(j) == PartLines("claude", a, j)
           ss(k) == [j \in 1..k |-> L(j)]
           b == <<MessageStart>>
           o(k) == b \o FlattenSeq(ss(k))
           Q(k) == {<<j - 1, a[j]>> : j \in 1..k}
           P(k) == {j - 1 : j \in 1..k}
           G(k) == k <= n => Reads(FALSE, o(k), Q(k), P(k))
           S == {k \in Nat : G(k)}
<1>1. MessageStart \in EV /\ MessageStart.type = "message_start"
  BY PlainEvents DEF MessageStart, E
<1>2. b \in Seq(EV)
  BY <1>1
<1>3. ASSUME NEW j \in 1..n
      PROVE  /\ L(j) = <<Start(j - 1, a[j]), Delta(j - 1, a[j], <<j>>), Stop(j - 1)>>
             /\ L(j) \in Seq(EV) /\ j - 1 \in Nat /\ <<j>> \in Seq(Int) /\ a[j] \in Kinds
  <2>1. j - 1 \in Nat /\ <<j>> \in Seq(Int) /\ a[j] \in Kinds
    OBVIOUS
  <2>2. a[j] \in EventKinds
    BY <2>1 DEF Kinds, EventKinds
  <2> DEFINE x == Start(j - 1, a[j])
             y == Delta(j - 1, a[j], <<j>>)
             z == Stop(j - 1)
  <2>3. x \in EV /\ y \in EV /\ z \in EV
    BY <2>1, <2>2, MadeEvents
  <2>4. L(j) = <<x, y, z>>
    BY DEF PartLines
  <2> HIDE DEF x, y, z, L
  <2>5. L(j) \in Seq(EV)
    BY <2>3, <2>4
  <2> QED
    BY <2>1, <2>4, <2>5 DEF x, y, z
<1>4. 0 \in S
  <2> DEFINE z == <<>>
  <2>1. ss(0) = z /\ z \in Seq(Seq(EV))
    OBVIOUS
  <2>2. FlattenSeq(z) = z
    BY <2>1, FlattenTyped
  <2>3. o(0) = Append(z, MessageStart)
    <3>1. b \o z = Append(z, MessageStart)
      OBVIOUS
    <3> QED
      BY <2>1, <2>2, <3>1
  <2>4. Q(0) = {} /\ P(0) = {}
    OBVIOUS
  <2> HIDE DEF Q, P, o
  <2>5. Reads(FALSE, z, {}, {})
    BY ReadsNothing
  <2> HIDE DEF z
  <2>6. /\ Suits(FALSE, {}, {}, MessageStart) /\ StartsWith({}, MessageStart) = {}
        /\ StopsWith({}, MessageStart) = {}
    BY <1>1 DEF Suits, StartsWith, StopsWith
  <2>7. Reads(FALSE, o(0), StartsWith({}, MessageStart), StopsWith({}, MessageStart))
    BY <1>1, <2>3, <2>5, <2>6, ReadsMore
  <2> QED
    BY <2>4, <2>6, <2>7
<1>5. ASSUME NEW k \in Nat, k \in S PROVE k + 1 \in S
  <2>0. k <= n => Reads(FALSE, o(k), Q(k), P(k))
    <3> HIDE DEF o, Q, P
    <3> QED
      BY <1>5
  <2>1. SUFFICES ASSUME k + 1 <= n PROVE Reads(FALSE, o(k + 1), Q(k + 1), P(k + 1))
    <3> HIDE DEF o, Q, P
    <3>1. k + 1 \in Nat
      OBVIOUS
    <3> QED
      BY <3>1
  <2>2. Reads(FALSE, o(k), Q(k), P(k))
    <3>1. k <= n
      BY <2>1
    <3> QED
      BY <2>0, <3>1
  <2>3. k + 1 \in 1..n /\ k \in 0..n /\ \A j \in 1..k + 1 : j \in 1..n
    BY <2>1
  <2>4. Q(k + 1) = Q(k) \cup {<<k, a[k + 1]>>} /\ P(k + 1) = P(k) \cup {k}
    <3>1. 1..k + 1 = 1..k \cup {k + 1} /\ (k + 1) - 1 = k
      OBVIOUS
    <3> QED
      BY <3>1
  <2>5. (\A x \in Q(k) : x[1] # k) /\ k \notin P(k)
    OBVIOUS
  <2>6. /\ ss(k) \in Seq(Seq(EV)) /\ ss(k + 1) \in Seq(Seq(EV))
        /\ Len(ss(k + 1)) = Len(ss(k)) + 1 /\ Len(ss(k + 1)) = k + 1
        /\ (\A i \in 1..Len(ss(k)) : ss(k + 1)[i] = ss(k)[i])
        /\ ss(k + 1)[k + 1] = L(k + 1)
    <3>1. \A j \in 1..k + 1 : L(j) \in Seq(EV)
      BY <1>3, <2>3
    <3> HIDE DEF L
    <3> QED
      BY <3>1
  <2> DEFINE c == FlattenSeq(ss(k))
             d == FlattenSeq(ss(k + 1))
             m == L(k + 1)
  <2>7. c \in Seq(EV) /\ m \in Seq(EV)
    <3>1. m \in Seq(EV)
      BY <1>3, <2>3
    <3> HIDE DEF L, ss
    <3>2. c \in Seq(EV)
      BY <2>6, FlattenTyped
    <3> QED
      BY <3>1, <3>2
  <2>8. d = c \o m
    <3> HIDE DEF ss, L
    <3> QED
      BY <2>6, FlattenLast
  <2>9. m = <<Start(k, a[k + 1]), Delta(k, a[k + 1], <<k + 1>>), Stop(k)>>
    <3>1. (k + 1) - 1 = k
      OBVIOUS
    <3> HIDE DEF L
    <3> QED
      BY <1>3, <2>3, <3>1
  <2>10. k \in Nat /\ a[k + 1] \in Kinds /\ <<k + 1>> \in Seq(Int)
    BY <2>3
  <2> DEFINE u == o(k)
             v == o(k + 1)
  <2>11. u = b \o c /\ v = b \o d
    OBVIOUS
  <2> HIDE DEF u, v, o, c, d, m, b, Q, P
  <2>12. v = u \o m
    BY ONLY <1>2, <2>7, <2>8, <2>11, GroupedOf, SMTT(60)
  <2>13. Reads(FALSE, u, Q(k), P(k))
    BY <2>2 DEF u
  <2>14. Reads(FALSE, v, Q(k) \cup {<<k, a[k + 1]>>}, P(k) \cup {k})
    BY <2>5, <2>9, <2>10, <2>12, <2>13, BlockReads
  <2> QED
    BY <2>4, <2>14 DEF v
<1>6. Reads(FALSE, o(n), Q(n), P(n))
  <2>1. n \in S
    <3> HIDE DEF S
    <3>1. Nat \subseteq S
      BY <1>4, <1>5, SetInduction
    <3> QED
      BY <3>1
  <2>2. G(n)
    <3> HIDE DEF G
    <3> QED
      BY <2>1
  <2>3. n <= n
    OBVIOUS
  <2> HIDE DEF o, Q, P
  <2> QED
    BY <2>2, <2>3
<1>7. r = o(n)
  <2>1. DOMAIN a = 1..n
    OBVIOUS
  <2> QED
    BY <2>1 DEF PartsLines
<1> HIDE DEF o
<1> QED
  BY <1>6, <1>7

(* A Claude upstream's own message fits.                                   *)
LEMMA ClaudeLinesFit ==
  ASSUME NEW a \in Answers, Possible("claude", a), cut \in BOOLEAN, NEW r, r = Lines("claude", a)
  PROVE  Fits(FALSE, r)
<1>1. PICK n \in Nat : a \in [1..n -> Kinds]
  BY BoundAssumption DEF Answers
<1> DEFINE b == <<MessageStart>>
           p == PartsLines("claude", a)
           x == MessageDelta(Reason(a))
           y == MessageStop
           z == <<x, y>>
           o == b \o p
           q == Append(o, x)
           S == {<<j - 1, a[j]>> : j \in 1..n}
           P == {j - 1 : j \in 1..n}
<1>2. "claude" \in Formats
  BY DEF Formats
<1>3. r = o \o z
  <2>1. Opening("claude") = b /\ Ending("claude", a) = z
    BY DEF Opening, Ending
  <2> HIDE DEF b, p, z
  <2> QED
    BY <1>2, <2>1, LinesAre DEF p
<1>4. Reads(FALSE, o, S, P)
  <2> HIDE DEF S, P, o
  <2> QED
    BY <1>1, ClaudePartsRead DEF S, P, o
<1>5. x \in EV /\ x.type = "message_delta" /\ y \in EV /\ y.type \notin BlockTypes
  <2>1. Reason(a) \in EventKinds
    BY DEF Reason, EventKinds
  <2>2. <<>> \in Seq(Int) /\ 0 \in Nat
    OBVIOUS
  <2>3. x \in EV
    BY <2>1, <2>2, MadeEvents
  <2> QED
    BY <2>3, PlainEvents DEF MessageDelta, E
<1>6. \A v \in S : v[1] \in P
  OBVIOUS
<1>7. o \in Seq(EV)
  BY <1>4 DEF Reads, Fits
<1> HIDE DEF S, P, o, x, y
<1>8. r = Append(q, y)
  <2> HIDE DEF q
  <2> QED
    BY ONLY <1>3, <1>5, <1>7, AppendedTwo DEF q, z
<1>9. Suits(FALSE, S, P, x)
  BY <1>5, <1>6 DEF Suits
<1>10. Reads(FALSE, q, StartsWith(S, x), StopsWith(P, x))
  BY <1>4, <1>5, <1>9, ReadsMore
<1>11. Fits(FALSE, q)
  BY <1>10 DEF Reads
<1> HIDE DEF q
<1> QED
  BY <1>5, <1>8, <1>11, FitsPlain

(* Codex's and Gemini's converters write one block, of text.               *)
Opened == {<<0, "text">>}

LEMMA OneOpened ==
  ASSUME NEW lax, NEW b \in Seq(EV), NEW t \in States(Types), Carry(lax, b, t, {}, {}),
         NEW u, u = Emit(t, <<MessageStart, Start(0, "text")>>)
  PROVE  u \in States(Types) /\ Carry(lax, b, u, Opened, {})
<1> DEFINE x == MessageStart
           y == Start(0, "text")
           v == Emit(t, <<x>>)
<1>1. <<>> \in Seq(Int) /\ "text" \in EventKinds /\ 0 \in Nat
  BY DEF EventKinds
<1>2. x \in EV /\ x.type \notin BlockTypes /\ y \in EV
  BY <1>1, PlainEvents, MadeEvents
<1>3. u = Emit(v, <<y>>)
  <2> HIDE DEF x, y
  <2> QED
    BY <1>2, EmitPair DEF x, y
<1> HIDE DEF x, v
<1>4. v \in States(Types) /\ Carry(lax, b, v, {}, {})
  BY <1>2, CarryPlain DEF v, BlockTypes
<1>5. u \in States(Types) /\ Carry(lax, b, u, {} \cup {<<0, "text">>}, {})
  BY <1>1, <1>3, <1>4, CarryStart
<1>6. {} \cup {<<0, "text">>} = Opened
  BY DEF Opened
<1> QED
  BY <1>5, <1>6

LEMMA OneTold ==
  ASSUME NEW lax, NEW b \in Seq(EV), NEW t \in States(Types), Carry(lax, b, t, Opened, {}),
         NEW kind \in EventKinds, lax \/ kind = "text", NEW data \in Seq(Int),
         NEW u, u = Emit(t, <<Delta(0, kind, data)>>)
  PROVE  u \in States(Types) /\ Carry(lax, b, u, Opened, {})
<1>1. \E x \in Opened : x[1] = 0
  <2>1. <<0, "text">> \in Opened /\ <<0, "text">>[1] = 0
    BY DEF Opened
  <2> QED
    BY <2>1
<1>2. \A x \in Opened : x[1] = 0 => kind \in {x[2], "signature"} \/ lax
  BY DEF Opened
<1> DEFINE P == {}
           i == 0
<1>3. i \in Nat /\ i \notin P
  OBVIOUS
<1>4. \E x \in Opened : x[1] = i
  BY <1>1
<1>5. \A x \in Opened : x[1] = i => kind \in {x[2], "signature"} \/ lax
  BY <1>2
<1>6. Carry(lax, b, t, Opened, P) /\ u = Emit(t, <<Delta(i, kind, data)>>)
  OBVIOUS
<1> HIDE DEF P, i
<1>7. u \in States(Types) /\ Carry(lax, b, u, Opened, P)
  BY <1>3, <1>4, <1>5, <1>6, CarryDelta
<1> QED
  BY <1>7 DEF P

LEMMA OneClosed ==
  ASSUME NEW lax, NEW b \in Seq(EV), NEW t \in States(Types), Carry(lax, b, t, Opened, {}),
         NEW kind \in EventKinds, NEW u, u = Emit(t, <<Stop(0), MessageDelta(kind), MessageStop>>)
  PROVE  u \in States(Types) /\ Carry(lax, b, u, Opened, {0})
<1> DEFINE x == Stop(0)
           y == MessageDelta(kind)
           z == MessageStop
           p == <<x, y>>
           q == <<z>>
           r == <<x, y, z>>
           v == Emit(t, <<x>>)
           w == Emit(t, p)
<1>1. <<>> \in Seq(Int) /\ 0 \in Nat
  OBVIOUS
<1>2. x \in EV /\ y \in EV /\ z \in EV /\ z.type \notin BlockTypes
  BY <1>1, PlainEvents, MadeEvents
<1>3. \E a \in Opened : a[1] = 0
  <2>1. <<0, "text">> \in Opened /\ <<0, "text">>[1] = 0
    BY DEF Opened
  <2> QED
    BY <2>1
<1>4. \A a \in Opened : a[1] \in {0}
  BY DEF Opened
<1>5. u = Emit(t, r)
  OBVIOUS
<1>6. v = Emit(t, <<Stop(0)>>)
  OBVIOUS
<1> HIDE DEF z, v
<1>7. v \in States(Types) /\ Carry(lax, b, v, Opened, {} \cup {0})
  <2>1. 0 \notin {}
    OBVIOUS
  <2> QED
    BY <1>1, <1>3, <1>6, <2>1, CarryStop
<1>8. Carry(lax, b, v, Opened, {0})
  <2>1. {} \cup {0} = {0}
    OBVIOUS
  <2> QED
    BY <1>7, <2>1
<1>9. w = Emit(v, <<MessageDelta(kind)>>)
  <2>1. w = Emit(Emit(t, <<x>>), <<y>>)
    <3> HIDE DEF x, y
    <3> QED
      BY <1>2, EmitPair
  <2> QED
    BY <2>1 DEF v
<1> HIDE DEF w
<1>10. w \in States(Types) /\ Carry(lax, b, w, Opened, {0})
  BY <1>4, <1>7, <1>8, <1>9, CarryEnd
<1>11. u = Emit(w, <<z>>)
  <2> HIDE DEF x, y
  <2>1. p \in Seq(EV) /\ q \in Seq(EV)
    BY <1>2
  <2>2. r = p \o q
    BY <1>2
  <2>3. Joins(r, p, q)
    BY <2>2 DEF Joins
  <2> HIDE DEF p, q, r
  <2>4. Emit(t, r) = Emit(Emit(t, p), q)
    BY <2>1, <2>3, EmitTwice
  <2> QED
    BY <1>5, <2>4 DEF q, w
<1> QED
  BY <1>2, <1>10, <1>11, CarryPlain DEF BlockTypes

LEMMA CarryOf ==
  ASSUME NEW lax, NEW b, NEW t, t.out = <<>>, NEW S, NEW P, Reads(lax, b, S, P)
  PROVE  Carry(lax, b, t, S, P) /\ b \in Seq(EV)
<1>1. b \in Seq(EV)
  BY DEF Reads, Fits
<1>2. b \o <<>> = b
  BY <1>1
<1> QED
  BY <1>1, <1>2 DEF Carry

(* The line that opens the message.                                        *)
Begins(b, e) == b = <<>> /\ e.type = "response.created"

(* Nothing that opens a message is left to read.                           *)
HasBegun(r) == \A k \in 1..Len(r) : Stage(r[k]) # 0

(* A Codex upstream's line: response.created opens the block, response.done *)
(* closes it.                                                              *)
LEMMA CodexStep ==
  ASSUME NEW b, Fits(FALSE, b), NEW t \in States(Types), t.out = <<>>, NEW e, Formed("codex", e),
         \/ Stage(e) = 4
         \/ Begins(b, e)
         \/ Reads(FALSE, b, Opened, {}) /\ Stage(e) # 0,
         NEW q, \A k \in 1..Len(q) : \/ Stage(e) < Stage(q[k])
                                     \/ Stage(e) = Stage(q[k]) /\ Stage(e) \notin {0, 3},
         NEW u, u = CodexToClaude(t, e), NEW o, o = b \o u.out
  PROVE  /\ Fits(FALSE, o)
         /\ \/ Ended(q)
            \/ Reads(FALSE, o, Opened, {}) /\ HasBegun(q)
<1>1. /\ e.data \in Seq(Int)
      /\ e.type \in {"response.created", "response.output_item.delta",
                     "response.output_item.added", "response.done", "error"}
  BY DEF Formed, EV, Events, LineTypes, CodexTypes
<1>2. Stage(e) \in 0..4 /\ \A k \in 1..Len(q) : Stage(q[k]) \in 0..4
  BY StageIs
<1>3. "text" \in EventKinds /\ "end" \in EventKinds
  BY DEF EventKinds
<1>4. CASE Stage(e) = 4
  <2>1. e.type = "error"
    BY <1>1, <1>4 DEF Stage
  <2>2. u = t
    BY <2>1 DEF CodexToClaude
  <2>3. Ended(q)
    <3>1. Stage(e) >= 3
      BY <1>4
    <3> QED
      BY <3>1, EndedAfter
  <2>4. Fits(FALSE, o)
    BY <2>2, FitsSilent
  <2> QED
    BY <2>3, <2>4
<1>5. CASE Begins(b, e)
  <2>0. b = <<>> /\ e.type = "response.created"
    BY <1>5 DEF Begins
  <2>1. Reads(FALSE, b, {}, {})
    BY <2>0, ReadsNothing
  <2>2. Carry(FALSE, b, t, {}, {}) /\ b \in Seq(EV)
    BY <2>1, CarryOf
  <2>3. u = Emit(t, <<MessageStart, Start(0, "text")>>)
    BY <2>0 DEF CodexToClaude
  <2>4. Carry(FALSE, b, u, Opened, {})
    BY <2>2, <2>3, OneOpened
  <2>5. Reads(FALSE, o, Opened, {})
    BY <2>4 DEF Carry
  <2>6. Stage(e) = 0
    BY <2>0 DEF Stage
  <2>7. HasBegun(q)
    BY <1>2, <2>6 DEF HasBegun
  <2> QED
    BY <2>5, <2>7 DEF Reads
<1>6. CASE Reads(FALSE, b, Opened, {}) /\ Stage(e) # 0 /\ Stage(e) # 4
  <2>1. Carry(FALSE, b, t, Opened, {}) /\ b \in Seq(EV)
    BY <1>6, CarryOf
  <2>2. e.type # "response.created"
    BY <1>6 DEF Stage
  <2>3. HasBegun(q)
    <3>1. ASSUME NEW k \in 1..Len(q), Stage(q[k]) = 0 PROVE FALSE
      <4> DEFINE x == Stage(e)
                 y == Stage(q[k])
      <4>1. x \in 0..4 /\ x # 0 /\ y = 0 /\ (x < y \/ x = y)
        BY <1>2, <1>6, <3>1
      <4> HIDE DEF x, y
      <4> QED
        BY <4>1
    <3> QED
      BY <3>1 DEF HasBegun
  <2>4. CASE e.type = "response.done"
    <3>1. u = Emit(t, <<Stop(0), MessageDelta("end"), MessageStop>>)
      BY <2>4 DEF CodexToClaude
    <3>2. Carry(FALSE, b, u, Opened, {0})
      BY <1>3, <2>1, <3>1, OneClosed
    <3>3. Fits(FALSE, o)
      BY <3>2 DEF Carry, Reads
    <3>4. Ended(q)
      <4>1. Stage(e) >= 3
        BY <2>4 DEF Stage
      <4> QED
        BY <4>1, EndedAfter
    <3> QED
      BY <3>3, <3>4
  <2>5. CASE e.type = "response.output_item.delta"
    <3>1. u = Emit(t, <<Delta(0, "text", e.data)>>)
      BY <2>5 DEF CodexToClaude
    <3>2. Carry(FALSE, b, u, Opened, {})
      BY <1>1, <1>3, <2>1, <3>1, OneTold
    <3>3. Reads(FALSE, o, Opened, {})
      BY <3>2 DEF Carry
    <3> QED
      BY <2>3, <3>3 DEF Reads
  <2>6. CASE e.type = "response.output_item.added" \/ e.type = "error"
    <3>1. u = t
      BY <2>6 DEF CodexToClaude
    <3>2. Reads(FALSE, o, Opened, {})
      BY <2>1, <3>1 DEF Carry
    <3> QED
      BY <2>3, <3>2 DEF Reads
  <2> QED
    BY <1>1, <2>2, <2>4, <2>5, <2>6
<1> QED
  BY <1>4, <1>5, <1>6

(* Gemini's converter opens its block with the first chunk it sees.        *)
Shown(t) == {x \in Opened : t.id}

LEMMA FirstOpened ==
  ASSUME NEW b, NEW t \in States(Types), t.out = <<>>, Reads(TRUE, b, Shown(t), {}),
         NEW v, v = First(t, <<MessageStart, Start(0, "text")>>)
  PROVE  v \in States(Types) /\ v.id /\ Carry(TRUE, b, v, Opened, {}) /\ b \in Seq(EV)
<1>1. Carry(TRUE, b, t, Shown(t), {}) /\ b \in Seq(EV)
  BY CarryOf
<1>2. t.id \in BOOLEAN
  BY DEF States
<1>3. CASE t.id
  <2>1. v = t
    BY <1>3 DEF First
  <2>2. Shown(t) = Opened
    BY <1>3 DEF Shown
  <2> QED
    BY <1>1, <1>3, <2>1, <2>2
<1>4. CASE ~t.id
  <2> DEFINE u == Emit(t, <<MessageStart, Start(0, "text")>>)
  <2>1. v = [u EXCEPT !.id = TRUE]
    BY <1>4 DEF First
  <2>2. Shown(t) = {}
    BY <1>4 DEF Shown
  <2> HIDE DEF u
  <2>3. u \in States(Types) /\ Carry(TRUE, b, u, Opened, {})
    BY <1>1, <2>2, OneOpened DEF u
  <2>4. v \in States(Types) /\ v.id /\ v.out = u.out
    BY <2>1, <2>3 DEF States
  <2>5. Carry(TRUE, b, v, Opened, {})
    BY <2>3, <2>4 DEF Carry
  <2> QED
    BY <1>1, <2>4, <2>5
<1> QED
  BY <1>2, <1>3, <1>4

LEMMA GeminiStep ==
  ASSUME NEW b, Fits(TRUE, b), NEW t \in States(Types), t.out = <<>>, NEW e, Formed("gemini", e),
         \/ t.id /\ Stage(e) = 4
         \/ Reads(TRUE, b, Shown(t), {}),
         NEW q, \A k \in 1..Len(q) : \/ Stage(e) < Stage(q[k])
                                     \/ Stage(e) = Stage(q[k]) /\ Stage(e) \notin {0, 3},
         NEW u, u = GeminiToClaude(t, e), NEW w, w = [u EXCEPT !.out = <<>>],
         NEW o, o = b \o u.out
  PROVE  /\ Fits(TRUE, o)
         /\ \/ Reads(TRUE, o, Shown(w), {})
            \/ w.id /\ Ended(q)
<1> DEFINE v == First(t, <<MessageStart, Start(0, "text")>>)
<1>1. /\ e.data \in Seq(Int) /\ e.kind \in EventKinds /\ e.type \in {"candidate", "finished", "error"}
  BY DEF Formed, EV, Events, LineTypes, GeminiTypes
<1>2. ASSUME NEW x \in States(Types), NEW y PROVE Emit(x, y).id = x.id
  BY DEF Emit, States
<1>3. ASSUME u \in States(Types), u.id
      PROVE  w.id /\ Shown(w) = Opened
  <2>1. w.id = u.id
    BY <1>3 DEF States
  <2> QED
    BY <1>3, <2>1 DEF Shown
<1>4. CASE t.id /\ Stage(e) = 4
  <2>1. e.type = "error"
    BY <1>1, <1>4 DEF Stage
  <2>2. u = t
    BY <1>4, <2>1 DEF GeminiToClaude, First
  <2>3. Ended(q)
    <3>1. Stage(e) >= 3
      BY <1>4
    <3> QED
      BY <3>1, EndedAfter
  <2>4. Fits(TRUE, o)
    BY <2>2, FitsSilent
  <2> QED
    BY <1>3, <1>4, <2>2, <2>3, <2>4
<1>5. CASE Reads(TRUE, b, Shown(t), {})
  <2>1. v \in States(Types) /\ v.id /\ Carry(TRUE, b, v, Opened, {}) /\ b \in Seq(EV)
    BY <1>5, FirstOpened
  <2>2. \/ e.type = "candidate" /\ u = Emit(v, <<Delta(0, e.kind, e.data)>>)
        \/ e.type = "finished" /\ u = Emit(v, <<Stop(0), MessageDelta(e.kind), MessageStop>>)
        \/ u = v
    BY <1>1 DEF GeminiToClaude
  <2> HIDE DEF v
  <2>3. CASE e.type = "candidate" /\ u = Emit(v, <<Delta(0, e.kind, e.data)>>)
    <3>1. u \in States(Types) /\ Carry(TRUE, b, u, Opened, {})
      BY <1>1, <2>1, <2>3, OneTold
    <3>2. u.id
      BY <1>2, <2>1, <2>3
    <3>3. Reads(TRUE, o, Opened, {})
      BY <3>1 DEF Carry
    <3> QED
      BY <1>3, <3>1, <3>2, <3>3 DEF Reads
  <2>4. CASE e.type = "finished" /\ u = Emit(v, <<Stop(0), MessageDelta(e.kind), MessageStop>>)
    <3>1. u \in States(Types) /\ Carry(TRUE, b, u, Opened, {0})
      BY <1>1, <2>1, <2>4, OneClosed
    <3>2. u.id
      BY <1>2, <2>1, <2>4
    <3>3. Fits(TRUE, o)
      BY <3>1 DEF Carry, Reads
    <3>4. Ended(q)
      <4>1. Stage(e) >= 3
        BY <2>4 DEF Stage
      <4> QED
        BY <4>1, EndedAfter
    <3> QED
      BY <1>3, <3>1, <3>2, <3>3, <3>4
  <2>5. CASE u = v
    <3>1. Reads(TRUE, o, Opened, {})
      BY <2>1, <2>5 DEF Carry
    <3> QED
      BY <1>3, <2>1, <2>5, <3>1 DEF Reads
  <2> QED
    BY <2>2, <2>3, <2>4, <2>5
<1> QED
  BY <1>4, <1>5

(* A Claude upstream's lines are passed on as they are, one by one.        *)
LEMMA ClaudeStep ==
  ASSUME NEW b \in Seq(EV), NEW r, NEW e \in EV, NEW q \in Seq(EV), Joins(r, <<e>>, q),
         NEW x, x = b \o r, Fits(FALSE, x), NEW t \in States(Types), t.out = <<>>,
         NEW u, u = Emit(t, <<e>>), NEW o, o = b \o u.out, NEW y, y = o \o q
  PROVE  Fits(FALSE, o) /\ Fits(FALSE, y)
<1> DEFINE z == <<e>>
<1>1. z \in Seq(EV) /\ r = z \o q
  BY DEF Joins
<1>2. u.out = z
  <2>1. u.out = t.out \o z
    <3> HIDE DEF z
    <3> QED
      BY <1>1, OutOfEmit DEF EV, z
  <2>2. <<>> \o z = z
    BY <1>1
  <2> QED
    BY <2>1, <2>2
<1> HIDE DEF z
<1>3. o = b \o z
  BY <1>2
<1>4. x = y
  BY ONLY <1>1, <1>3, b \in Seq(EV), q \in Seq(EV), x = b \o r, y = o \o q, GroupedOf, SMTT(60)
<1>5. o \in Seq(EV)
  BY ONLY <1>1, <1>3, b \in Seq(EV)
<1> QED
  BY <1>4, <1>5, FitsCut

-------------------------------------------------------------------------------
(* Every upstream's blocks.                                                *)
(* A Gemini upstream's thoughts are written to the block of its text.      *)
Fitting(f, o) == IF f = "gemini" THEN Fits(TRUE, o) ELSE Fits(FALSE, o)

(* What was written to a Claude client, the converter's state, and what is *)
(* still to be read, of an upstream that may go on.                        *)
Going(f, o, t, r) ==
    /\ f = "claude" => Fits(FALSE, o \o r)
    /\ f = "openai" => (Account(o, t) /\ Later(t, r)) \/ Ended(r)
    /\ f = "codex" =>
          \/ Ended(r)
          \/ o = <<>> /\ r # <<>> /\ r[1].type = "response.created"
          \/ Reads(FALSE, o, Opened, {}) /\ HasBegun(r)
    /\ f = "gemini" => Reads(TRUE, o, Shown(t), {}) \/ (t.id /\ Ended(r))

LEMMA HeadOf ==
  ASSUME NEW T, NEW x \in T, NEW q \in Seq(T), NEW r, r = <<x>> \o q
  PROVE  Len(r) \in Nat \ {0} /\ r[1] = x
<1> DEFINE z == <<x>>
<1>1. z \in Seq(T) /\ Len(z) = 1 /\ z[1] = x /\ r = z \o q
  OBVIOUS
<1> HIDE DEF z
<1>2. Len(r) = Len(z) + Len(q) /\ Len(q) \in Nat /\ \A i \in 1..Len(z) : r[i] = z[i]
  BY <1>1, ConcatAt
<1> QED
  BY <1>1, <1>2

(* What is still to be read, when e was taken off it.                      *)
TakesOff(f, r, e, q) ==
    /\ Joins(Tokens(r), Tokens(<<e>>), Tokens(q))
    /\ f # "openai" => Joins(r, <<e>>, q)
    /\ Ended(r) => Stage(e) = 4
    /\ \A k \in 1..Len(q) : \/ Stage(e) < Stage(q[k])
                            \/ Stage(e) = Stage(q[k]) /\ Stage(e) \notin {0, 3}

LEMMA GoingOn ==
  ASSUME NEW f \in Formats, NEW b \in Seq(EV), Fitting(f, b), NEW t \in States(Types), t.out = <<>>,
         NEW e, Formed(f, e), NEW r \in Seq(EV), NEW q \in Seq(EV), Going(f, b, t, r),
         TakesOff(f, r, e, q),
         NEW u, u = TransformStreamChunk(f, "claude", t, e), NEW w, w = [u EXCEPT !.out = <<>>],
         NEW o, o = b \o u.out
  PROVE  Fitting(f, o) /\ Going(f, o, w, q)
<1>0. /\ Joins(Tokens(r), Tokens(<<e>>), Tokens(q)) /\ (f # "openai" => Joins(r, <<e>>, q))
      /\ Ended(r) => Stage(e) = 4
      /\ \A k \in 1..Len(q) : \/ Stage(e) < Stage(q[k])
                              \/ Stage(e) = Stage(q[k]) /\ Stage(e) \notin {0, 3}
  BY DEF TakesOff
<1>1. e \in EV
  BY DEF Formed
<1>2. f # "openai" => Len(r) \in Nat \ {0} /\ r[1] = e
  <2>1. SUFFICES ASSUME f # "openai" PROVE Len(r) \in Nat \ {0} /\ r[1] = e
    OBVIOUS
  <2>2. r = <<e>> \o q
    BY <1>0, <2>1 DEF Joins
  <2> QED
    BY <1>1, <2>2, HeadOf
<1>3. CASE f = "claude"
  <2> DEFINE x == b \o r
             y == o \o q
  <2>1. Fits(FALSE, x) /\ Joins(r, <<e>>, q) /\ u = Emit(t, <<e>>)
    BY <1>0, <1>3 DEF Going, TransformStreamChunk
  <2> HIDE DEF x
  <2>2. x = b \o r /\ y = o \o q
    BY DEF x
  <2> HIDE DEF y
  <2>3. Fits(FALSE, o) /\ Fits(FALSE, y)
    BY <1>1, <2>1, <2>2, ClaudeStep, ZenonT(60)
  <2> QED
    BY <1>3, <2>2, <2>3 DEF Fitting, Going
<1>4. CASE f = "openai"
  <2>1. Fits(FALSE, b) /\ u = OpenAIToClaude(t, e) /\ Formed("openai", e)
    BY <1>4 DEF Fitting, TransformStreamChunk
  <2>2. (Account(b, t) /\ Later(t, r)) \/ Stage(e) = 4
    BY <1>0, <1>4 DEF Going
  <2>3. Fits(FALSE, o) /\ ((Account(o, w) /\ Later(w, q)) \/ Ended(q))
    BY <1>0, <2>1, <2>2, OpenAIStep
  <2> QED
    BY <1>4, <2>3 DEF Fitting, Going
<1>5. CASE f = "codex"
  <2>1. Fits(FALSE, b) /\ u = CodexToClaude(t, e) /\ Formed("codex", e)
    BY <1>5 DEF Fitting, TransformStreamChunk
  <2>2. \/ Stage(e) = 4
        \/ Begins(b, e)
        \/ Reads(FALSE, b, Opened, {}) /\ Stage(e) # 0
    <3>1. 1 \in 1..Len(r) /\ r[1] = e
      BY <1>2, <1>5
    <3> QED
      BY <1>0, <1>5, <3>1 DEF Going, Begins, HasBegun
  <2>3. /\ Fits(FALSE, o)
        /\ \/ Ended(q)
           \/ Reads(FALSE, o, Opened, {}) /\ HasBegun(q)
    BY <1>0, <2>1, <2>2, CodexStep
  <2> QED
    BY <1>5, <2>3 DEF Fitting, Going
<1>6. CASE f = "gemini"
  <2>1. Fits(TRUE, b) /\ u = GeminiToClaude(t, e) /\ Formed("gemini", e)
    BY <1>6 DEF Fitting, TransformStreamChunk
  <2>2. (t.id /\ Stage(e) = 4) \/ Reads(TRUE, b, Shown(t), {})
    BY <1>0, <1>6 DEF Going
  <2>3. Fits(TRUE, o) /\ (Reads(TRUE, o, Shown(w), {}) \/ (w.id /\ Ended(q)))
    BY <1>0, <2>1, <2>2, GeminiStep
  <2> QED
    BY <1>6, <2>3 DEF Fitting, Going
<1> QED
  BY <1>3, <1>4, <1>5, <1>6 DEF Formats

(* Before anything is read.                                                *)
LEMMA GoingAtFirst ==
  ASSUME NEW f \in Formats, NEW a \in Answers, Possible(f, a), cut \in BOOLEAN,
         NEW r, r = Lines(f, a), r \in Seq(EV), NEW t, t = NewTransformState
  PROVE  Fitting(f, <<>>) /\ Going(f, <<>>, t, r)
<1> DEFINE z == <<>>
<1>1. Fits(TRUE, z) /\ Fits(FALSE, z) /\ Reads(TRUE, z, {}, {})
  BY ReadsNothing
<1>2. f = "claude" => Fits(FALSE, z \o r)
  <2>1. z \o r = r
    OBVIOUS
  <2>2. f = "claude" => Fits(FALSE, r)
    BY ClaudeLinesFit
  <2> QED
    BY <2>1, <2>2
<1>3. f = "openai" => Account(z, t) /\ Later(t, r)
  <2>1. Account(z, t)
    BY AccountNew
  <2>2. f = "openai" => Later(t, r)
    BY OpenAILater
  <2> QED
    BY <2>1, <2>2
<1>4. f = "codex" => r # z /\ r[1].type = "response.created"
  <2>1. SUFFICES ASSUME f = "codex" PROVE r # z /\ r[1].type = "response.created"
    OBVIOUS
  <2>2. r[1].type = "response.created"
    BY <2>1, LinesInOrder
  <2>3. r # z
    <3> DEFINE x == Opening(f) \o PartsLines(f, a)
               y == Ending(f, a)
    <3>1. r = x \o y
      <4>1. Lines(f, a) = x \o y
        BY ONLY f \in Formats, LinesAre
      <4> QED
        BY ONLY <4>1, r = Lines(f, a)
    <3>2. PICK n \in Nat : a \in [1..n -> Kinds]
      BY BoundAssumption DEF Answers
    <3>3. Opening(f) \in Seq(EV) /\ PartsLines(f, a) \in Seq(EV) /\ y \in Seq(EV)
      <4>1. Opening(f) \in Seq(EV)
        BY ONLY f \in Formats, OpeningStaged
      <4>2. PartsLines(f, a) \in Seq(EV)
        BY ONLY f \in Formats, Possible(f, a), <3>2, PartsStaged
      <4>3. Ending(f, a) \in Seq(EV)
        BY ONLY f \in Formats, cut \in BOOLEAN, EndingStaged
      <4> QED
        BY <4>1, <4>2, <4>3
    <3>4. x \in Seq(EV)
      BY ONLY <3>3
    <3>5. y = <<ResponseDone>>
      BY <2>1 DEF Ending
    <3>6. Len(y) = 1
      BY <3>5
    <3> HIDE DEF x, y
    <3>7. Len(r) = Len(x) + Len(y) /\ Len(x) \in Nat
      BY <3>1, <3>3, <3>4, ConcatPlaces
    <3>8. Len(r) # 0
      BY <3>6, <3>7
    <3>9. Len(z) = 0
      OBVIOUS
    <3> QED
      BY <3>8, <3>9
  <2> QED
    BY <2>2, <2>3
<1>5. f = "gemini" => Reads(TRUE, z, Shown(t), {})
  <2>1. Shown(t) = {}
    BY NewIs DEF Shown
  <2> QED
    BY <1>1, <2>1
<1> HIDE DEF z
<1>6. Fitting(f, z) /\ Going(f, z, t, r)
  BY <1>1, <1>2, <1>3, <1>4, <1>5 DEF Fitting, Going, z
<1> QED
  BY <1>6 DEF z

(* What an upstream that fails, or that stops early, has left to be read.  *)
LEMMA GoingShort ==
  ASSUME NEW f \in Formats, NEW o \in Seq(EV), NEW t, NEW r \in Seq(EV), Fitting(f, o),
         Going(f, o, t, r), NEW q, q = <<>> \/ \E b \in BOOLEAN : q = <<ErrorEvent(b)>>
  PROVE  Going(f, o, t, q)
<1>1. Ended(q) /\ (Fits(FALSE, o) => Fits(FALSE, o \o q))
  <2>1. CASE q = <<>>
    <3>1. Ended(q)
      <4>1. Len(q) = 0
        BY <2>1
      <4> QED
        BY <4>1 DEF Ended
    <3>2. o \o q = o
      BY <2>1
    <3> QED
      BY <3>1, <3>2
  <2>2. CASE \E b \in BOOLEAN : q = <<ErrorEvent(b)>>
    <3>1. PICK b \in BOOLEAN : q = <<ErrorEvent(b)>>
      BY <2>2
    <3> DEFINE x == ErrorEvent(b)
    <3>2. x \in EV /\ x.type = "error"
      <4>1. x \in Events({"error"}) /\ x.type = "error"
        BY ErrorEventTyped
      <4> QED
        BY <4>1 DEF EV, Events, Types
    <3> HIDE DEF x
    <3>3. q = <<x>> /\ x.type \notin BlockTypes /\ Stage(x) = 4
      BY <3>1, <3>2 DEF x, BlockTypes, Stage
    <3>4. Len(q) = 1 /\ q[1] = x
      BY <3>3
    <3>5. Ended(q)
      BY <3>3, <3>4 DEF Ended
    <3>6. Fits(FALSE, o) => Fits(FALSE, o \o q)
      BY <3>2, <3>3, FitsOne
    <3> QED
      BY <3>5, <3>6
  <2> QED
    BY <2>1, <2>2
<1> QED
  BY <1>1 DEF Going, Fitting

(* What was written to a Claude client fits, and goes on fitting.          *)
BlocksInv ==
    to = "claude" =>
        /\ out \in Seq(EV) /\ Fitting(from, out)
        /\ outcome = Pending => Going(from, out, s, rest)

LEMMA BlocksAtFirst == CInv /\ Init => BlocksInv
<1>1. SUFFICES ASSUME CInv, Init
               PROVE  out \in Seq(EV) /\ Fitting(from, out) /\ Going(from, out, s, rest)
  BY DEF BlocksInv
<1>2. /\ from \in Formats /\ answer \in Answers /\ cut \in BOOLEAN /\ Possible(from, answer)
      /\ rest = Lines(from, answer) /\ out = <<>> /\ s = NewTransformState
  BY <1>1, PairFormats DEF CInv, CTypes, Init, from
<1>3. rest \in Seq(EV)
  BY <1>2, LinesInOrder
<1> HIDE DEF from
<1>4. Fitting(from, <<>>) /\ Going(from, <<>>, s, rest)
  BY <1>2, <1>3, GoingAtFirst
<1> QED
  BY <1>2, <1>4

(* What a batch takes off the lines, and what is left of them.             *)
LEMMA BatchTakes ==
  ASSUME Proper(rest), NEW f \in Formats, rest \in Seq(FormedLines(f)), NEW n \in Batches,
         NEW e, e = Batch(n), NEW q, q = SubSeq(rest, n + 1, Len(rest))
  PROVE  /\ q \in Seq(EV) /\ Joins(Tokens(rest), Tokens(<<e>>), Tokens(q))
         /\ f # "openai" => Joins(rest, <<e>>, q)
         /\ Ended(rest) => Stage(e) = 4
<1>1. /\ n \in 1..Len(rest) /\ q \in Seq(EV) /\ Len(rest) \in Nat /\ rest \in Seq(EV)
      /\ \/ n = 1 /\ e = rest[1]
         \/ n > 1 /\ e.type = "chunk" /\ \A j \in 1..n : rest[j].type = "chunk"
  BY BatchFacts DEF EV, Proper
<1>2. 1 \in 1..Len(rest)
  BY <1>1
<1>3. Joins(Tokens(rest), Tokens(<<e>>), Tokens(q))
  <2> DEFINE T == {"chunk"}
             K == {"text"}
  <2> HIDE DEF T, K
  <2>1. Joins(Said(rest, T, K), Said(<<e>>, T, K), Said(q, T, K))
    BY ONLY Proper(rest), n \in Batches, q = SubSeq(rest, n + 1, Len(rest)), e = Batch(n), SaidStep
  <2> QED
    BY ONLY <2>1 DEF Tokens, T, K
<1>4. n > 1 => rest[1].type = "chunk"
  <2>1. n > 1 => 1 \in 1..n
    BY <1>1
  <2> QED
    BY <1>1, <2>1
<1>5. ASSUME f # "openai" PROVE Joins(rest, <<e>>, q)
  <2>1. n = 1 /\ e = rest[1]
    <3>1. Formed(f, rest[1])
      BY <1>2 DEF FormedLines
    <3>2. "chunk" \notin LineTypes(f) \cup {"error"}
      BY <1>5 DEF LineTypes, Formats, ClaudeTypes, GeminiTypes, CodexTypes
    <3>3. rest[1].type # "chunk"
      BY <3>1, <3>2 DEF Formed
    <3> QED
      BY <1>1, <1>4, <3>3
  <2> DEFINE p == SubSeq(rest, 1, 1)
  <2>2. rest = p \o q
    BY <1>1, <2>1, RestSplit
  <2>3. p = <<rest[1]>>
    <3>1. p \in Seq(EV) /\ Len(p) = 1 /\ p[1] = rest[1]
      BY <1>1, <1>2
    <3> HIDE DEF p
    <3> QED
      BY <3>1
  <2> HIDE DEF p
  <2> QED
    BY <2>1, <2>2, <2>3 DEF Joins
<1>6. ASSUME Ended(rest) PROVE Stage(e) = 4
  <2>1. Stage(rest[1]) = 4
    BY <1>2, <1>6 DEF Ended
  <2>2. rest[1].type # "chunk"
    BY <2>1 DEF Stage
  <2> QED
    BY <1>1, <1>4, <2>1, <2>2
<1> QED
  BY <1>1, <1>3, <1>5, <1>6

LEMMA ReadLineBlocks ==
  ASSUME CInv, TellInv, Staged(rest), to = "claude", BlocksInv, ReadLine
  PROVE  BlocksInv'
<1>1. CTypes /\ Shapes
  BY DEF CInv, TellInv
<1>2. PICK n \in Batches, t \in States(Types) :
            /\ t = TransformStreamChunk(from, to, s, Batch(n))
            /\ rest' = SubSeq(rest, n + 1, Len(rest))
            /\ s' = [t EXCEPT !.out = <<>>]
            /\ \/ out' = out \o t.out /\ outcome' = outcome
               \/ out' = out /\ client # "here" /\ outcome' = ClientDisconnected
  BY <1>1, ReadFacts
<1>3. outcome = Pending /\ pair' = pair
  BY DEF ReadLine
<1>4. from' = from /\ to' = to
  BY <1>3 DEF from, to
<1>5. from \in Formats /\ s \in States(Types) /\ s.out = <<>> /\ Proper(rest) /\ rest \in Seq(EV)
  BY <1>1, PairFormats DEF CTypes, Proper, States, EV
<1> DEFINE e == Batch(n)
           q == SubSeq(rest, n + 1, Len(rest))
<1>6. rest \in Seq(FormedLines(from)) /\ Formed(from, e)
  <2>1. rest \in Seq(FormedLines(from))
    BY <1>1 DEF Shapes
  <2> QED
    BY <1>5, <2>1, BatchFormed
<1>7. /\ q \in Seq(EV) /\ Joins(Tokens(rest), Tokens(<<e>>), Tokens(q))
      /\ from # "openai" => Joins(rest, <<e>>, q)
      /\ Ended(rest) => Stage(e) = 4
  BY <1>5, <1>6, BatchTakes
<1>8. \A k \in 1..Len(q) : \/ Stage(e) < Stage(q[k])
                           \/ Stage(e) = Stage(q[k]) /\ Stage(e) \notin {0, 3}
  BY <1>5, StagedAfter
<1>13. TakesOff(from, rest, e, q)
  BY <1>7, <1>8 DEF TakesOff
<1> HIDE DEF e, q
<1>9. rest' = q /\ t = TransformStreamChunk(from, "claude", s, e)
  BY <1>2 DEF e, q
<1>10. out \in Seq(EV) /\ Fitting(from, out) /\ Going(from, out, s, rest)
  BY <1>3 DEF BlocksInv
<1> HIDE DEF from
<1>11. CASE out' = out \o t.out
  <2> DEFINE o == out'
             w == s'
  <2>1. o = out \o t.out /\ w = [t EXCEPT !.out = <<>>]
    BY <1>2, <1>11
  <2> HIDE DEF o, w
  <2>2. Fitting(from, o) /\ Going(from, o, w, q)
    BY <1>5, <1>6, <1>7, <1>9, <1>10, <1>13, <2>1, GoingOn
  <2>3. o \in Seq(EV)
    <3>1. t.out \in Seq(EV)
      BY DEF States, EV
    <3> QED
      BY ONLY <1>10, <2>1, <3>1
  <2> QED
    BY <1>4, <1>9, <2>2, <2>3 DEF BlocksInv, o, w
<1>12. CASE out' = out /\ outcome' = ClientDisconnected
  <2>1. ClientDisconnected # Pending
    BY DEF Pending, ClientDisconnected, Final
  <2> QED
    BY <1>4, <1>10, <1>12, <2>1 DEF BlocksInv
<1> QED
  BY <1>2, <1>11, <1>12

LEMMA OthersBlocks ==
  ASSUME CInv, to = "claude", BlocksInv,
         \/ RequestFails \/ ConnectFails \/ Refuses \/ Responds \/ RelayWhole
         \/ StreamEnds \/ Cancelled \/ UpstreamErrs \/ UpstreamBreaks
         \/ ClientLeaves \/ ClientNoticed \/ UNCHANGED vars
  PROVE  BlocksInv'
<1>1. UNCHANGED <<pair, s, out>>
  BY ZenonT(60) DEF RequestFails, ConnectFails, Refuses, Responds, RelayWhole, StreamEnds, Cancelled,
         UpstreamErrs, UpstreamBreaks, ClientLeaves, ClientNoticed, vars
<1>2. \/ rest' = rest
      \/ rest' = <<>> \/ \E b \in BOOLEAN : rest' = <<ErrorEvent(b)>>
  BY ZenonT(60) DEF RequestFails, ConnectFails, Refuses, Responds, RelayWhole, StreamEnds, Cancelled,
         UpstreamErrs, UpstreamBreaks, ClientLeaves, ClientNoticed, vars
<1>3. outcome' = Pending => outcome = Pending
  BY ZenonT(60) DEF RequestFails, ConnectFails, Refuses, Responds, RelayWhole, StreamEnds, Cancelled,
         UpstreamErrs, UpstreamBreaks, ClientLeaves, ClientNoticed, vars, Return
<1>4. from' = from /\ to' = to /\ from \in Formats /\ rest \in Seq(EV)
  BY <1>1, PairFormats DEF from, to, CInv, CTypes, Proper, EV
<1>5. /\ out \in Seq(EV) /\ Fitting(from, out)
      /\ outcome = Pending => Going(from, out, s, rest)
  BY DEF BlocksInv
<1> DEFINE q == rest'
<1>6. q = rest \/ (q = <<>> \/ \E b \in BOOLEAN : q = <<ErrorEvent(b)>>)
  BY <1>2
<1> HIDE DEF q, from
<1>7. outcome = Pending => Going(from, out, s, q)
  BY <1>4, <1>5, <1>6, GoingShort
<1> QED
  BY <1>1, <1>3, <1>4, <1>5, <1>7 DEF BlocksInv, q

LEMMA BlocksNext ==
  CInv /\ (pair \notin Swapped => TellInv) /\ ReasonsInv /\ BlocksInv /\ [Next]_vars => BlocksInv'
<1>1. SUFFICES ASSUME CInv, pair \notin Swapped => TellInv, ReasonsInv, BlocksInv, [Next]_vars,
                      to' = "claude"
               PROVE  BlocksInv'
  BY DEF BlocksInv
<1>2. to = "claude"
  BY <1>1, PairStays DEF to
<1>3. TellInv /\ Staged(rest)
  <2>1. to \in Speakers
    BY <1>2 DEF Speakers
  <2>2. pair \notin Swapped
    BY <1>1, <2>1, NotSwapped DEF CInv, CTypes
  <2> QED
    BY <1>1, <2>1, <2>2 DEF ReasonsInv, Reasons
<1>4. CASE ReadLine
  BY <1>1, <1>2, <1>3, <1>4, ReadLineBlocks
<1>5. CASE \/ RequestFails \/ ConnectFails \/ Refuses \/ Responds \/ RelayWhole
           \/ StreamEnds \/ Cancelled \/ UpstreamErrs \/ UpstreamBreaks
           \/ ClientLeaves \/ ClientNoticed \/ UNCHANGED vars
  BY <1>1, <1>2, <1>5, OthersBlocks
<1> QED
  BY <1>1, <1>4, <1>5 DEF Next, Returned

(* What OpenBlocksOnly says of one event.                                  *)
HeardAt(f, o, k) ==
    LET e == o[k]
        opened == {j \in 1 .. k - 1 : o[j].type = "content_block_start" /\ o[j].i = e.i}
        closed == {j \in 1 .. k - 1 : o[j].type = "content_block_stop" /\ o[j].i = e.i}
    IN  CASE e.type = "content_block_start" -> opened = {}
          [] e.type = "content_block_delta" ->
                /\ opened # {} /\ closed = {}
                /\ \A j \in opened : e.kind \in {o[j].kind, "signature"} \/ f = "gemini"
          [] e.type = "content_block_stop" -> opened # {} /\ closed = {}
          [] e.type = "message_delta" ->
                \A j \in 1 .. k - 1 : o[j].type = "content_block_start" =>
                    \E m \in j .. k - 1 : o[m] = Stop(o[j].i)
          [] OTHER -> TRUE

LEMMA FitsHeard ==
  ASSUME NEW f \in Formats, NEW o, Fitting(f, o), NEW k \in DOMAIN o
  PROVE  HeardAt(f, o, k)
<1> DEFINE lax == f = "gemini"
<1>1. Fits(lax, o)
  <2>1. CASE f = "gemini"
    <3>1. Fits(TRUE, o) /\ lax = TRUE
      BY <2>1 DEF Fitting
    <3> HIDE DEF lax
    <3> QED
      BY ONLY <3>1
  <2>2. CASE f # "gemini"
    <3>1. Fits(FALSE, o) /\ lax = FALSE
      BY <2>2 DEF Fitting
    <3> HIDE DEF lax
    <3> QED
      BY ONLY <3>1
  <2> QED
    BY <2>1, <2>2
<1>2. FitsAt(lax, o, k)
  <2>1. o \in Seq(EV) /\ \A n \in 1..Len(o) : FitsAt(lax, o, n)
    BY <1>1 DEF Fits
  <2>2. k \in 1..Len(o)
    BY <2>1
  <2> QED
    BY <2>1, <2>2
<1> DEFINE e == o[k]
           opened == {j \in 1 .. k - 1 : o[j].type = "content_block_start" /\ o[j].i = e.i}
           closed == {j \in 1 .. k - 1 : o[j].type = "content_block_stop" /\ o[j].i = e.i}
<1>3. e.type = "content_block_start" => opened = {}
  BY ONLY <1>2 DEF FitsAt, StartAt
<1>4. e.type \in {"content_block_delta", "content_block_stop"} => opened # {} /\ closed = {}
  BY ONLY <1>2 DEF FitsAt, StartAt, StopAt
<1>5. e.type = "content_block_delta" =>
          \A j \in opened : e.kind \in {o[j].kind, "signature"} \/ f = "gemini"
  BY ONLY <1>2 DEF FitsAt, StartAt
<1>6. e.type = "message_delta" =>
          \A j \in 1 .. k - 1 : o[j].type = "content_block_start" =>
              \E m \in j .. k - 1 : o[m] = Stop(o[j].i)
  BY ONLY <1>2 DEF FitsAt
<1> QED
  BY ONLY <1>3, <1>4, <1>5, <1>6 DEF HeardAt

LEMMA BlocksThen == CInv /\ BlocksInv => OpenBlocksOnly
<1>1. SUFFICES ASSUME CInv, BlocksInv, to = "claude"
               PROVE  OpenBlocksOnly
  BY DEF OpenBlocksOnly
<1>2. from \in Formats /\ Fitting(from, out)
  BY <1>1, PairFormats DEF CInv, CTypes, BlocksInv
<1> HIDE DEF from
<1>3. \A k \in DOMAIN out : HeardAt(from, out, k)
  BY <1>2, FitsHeard
<1> QED
  BY <1>3 DEF OpenBlocksOnly, HeardAt

(* What a Claude client hears of a block, it hears while the block is open *)
(* and, Gemini's thoughts apart, of the kind it was opened for, and every  *)
(* block is closed before the message says why it ended: whatever the      *)
(* upstream's format, its answer and the chunks it comes in, the indexes that*)
(* openai_to_claude counts from the blocks it has opened (a thought's, a   *)
(* text's, then a call's each) are not used twice, and the one block of    *)
(* codex_to_claude and of gemini_to_claude is closed once.                 *)
THEOREM OpenBlocksHold == Spec => []OpenBlocksOnly
<1>1. CInv /\ Init => ReasonsInv /\ BlocksInv
  BY ReasonsAtFirst, BlocksAtFirst
<1> QED
  BY <1>1, AdapterInvariant, TellInvariant, CInit, ReasonsNext, BlocksNext, BlocksThen, PTL DEF Spec
===============================================================================
