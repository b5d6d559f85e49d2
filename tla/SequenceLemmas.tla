---------------------------- MODULE SequenceLemmas ----------------------------
(***************************************************************************)
(* Lemmas about the sequences the stream modules are built from. Induction *)
(* is over a set of numbers, not over a predicate: it is derived from the  *)
(* well-foundedness of the order of the naturals.                          *)
(***************************************************************************)
EXTENDS Integers, FiniteSets, SequencesExt, FiniteSetTheorems, SequenceTheorems,
        WellFoundedInduction, TLAPS

(* A set of numbers that has 0, and with each number the next, has all.    *)
LEMMA SetInduction ==
  ASSUME NEW S, 0 \in S, \A n \in Nat : n \in S => n + 1 \in S
  PROVE  Nat \subseteq S
<1> DEFINE R == OpToRel(<, Nat)
           T == Nat \ S
<1>1. IsWellFoundedOn(R, Nat)
  BY NatLessThanWellFounded
<1>2. \A x, y \in Nat : x < y => <<x, y>> \in R
  BY DEF OpToRel
<1> HIDE DEF R
<1>3. SUFFICES ASSUME T # {} PROVE FALSE
  OBVIOUS
<1>4. PICK x \in T : \A y \in T : ~ (<<y, x>> \in R)
  BY <1>1, <1>3, WFMin
<1>5. x # 0
  OBVIOUS
<1>6. x - 1 \in Nat /\ x - 1 < x
  BY <1>5
<1>7. x - 1 \notin T
  BY <1>6, <1>2, <1>4
<1> QED
  BY <1>6, <1>7

(* A set of sequences that has the empty one, and with each sequence over  *)
(* T those with one more element, has all sequences over T.                *)
LEMMA SequenceInduction ==
  ASSUME NEW T, NEW S, <<>> \in S,
         \A q \in Seq(T), e \in T : q \in S => Append(q, e) \in S
  PROVE  Seq(T) \subseteq S
<1> DEFINE N == {n \in Nat : \A q \in Seq(T) : Len(q) = n => q \in S}
<1>1. 0 \in N
  OBVIOUS
<1>2. ASSUME NEW n \in Nat, n \in N PROVE n + 1 \in N
  <2>1. SUFFICES ASSUME NEW q \in Seq(T), Len(q) = n + 1 PROVE q \in S
    OBVIOUS
  <2> DEFINE p == SubSeq(q, 1, n)
  <2>2. p \in Seq(T) /\ Len(p) = n /\ q[n + 1] \in T
    BY <2>1
  <2>3. q = Append(p, q[n + 1])
    BY <2>1
  <2>4. p \in S
    BY <2>2, <1>2
  <2> HIDE DEF p
  <2>5. Append(p, q[n + 1]) \in S
    BY <2>2, <2>4
  <2> QED
    BY <2>3, <2>5
<1>3. Nat \subseteq N
  <2> HIDE DEF N
  <2> QED
    BY <1>1, <1>2, SetInduction
<1> QED
  BY <1>3

(* Sequences of one and of two elements.                                   *)
LEMMA OneAndTwo ==
  ASSUME NEW S, NEW a \in S, NEW b \in S
  PROVE  /\ <<a>> \in Seq(S) /\ Len(<<a>>) = 1 /\ <<a>>[1] = a
         /\ <<a, b>> \in Seq(S) /\ Len(<<a, b>>) = 2
         /\ <<a, b>>[1] = a /\ <<a, b>>[2] = b
         /\ <<a>> \o <<b>> = <<a, b>> /\ Append(<<a>>, b) = <<a, b>>
         /\ Append(<<>>, b) = <<b>>
<1>1. <<a>> \in Seq(S) /\ Len(<<a>>) = 1 /\ <<a>>[1] = a /\ <<b>> \in Seq(S) /\ <<b>>[1] = b
      /\ Len(<<b>>) = 1
  OBVIOUS
<1>2. <<a, b>> \in Seq(S) /\ Len(<<a, b>>) = 2 /\ <<a, b>>[1] = a /\ <<a, b>>[2] = b
  OBVIOUS
<1>3. <<a>> \o <<b>> \in Seq(S) /\ Len(<<a>> \o <<b>>) = 2
      /\ (<<a>> \o <<b>>)[1] = a /\ (<<a>> \o <<b>>)[2] = b
  BY <1>1, ConcatProperties
<1>4. <<a>> \o <<b>> = <<a, b>>
  <2> DEFINE p == <<a>> \o <<b>>
             q == <<a, b>>
  <2>1. p \in Seq(S) /\ q \in Seq(S) /\ Len(p) = 2 /\ Len(q) = 2
        /\ p[1] = q[1] /\ p[2] = q[2]
    BY <1>2, <1>3
  <2> HIDE DEF p, q
  <2>2. \A i \in 1..Len(p) : p[i] = q[i]
    BY <2>1
  <2>3. p = q
    BY <2>1, <2>2, SeqEqual
  <2> QED
    BY <2>3 DEF p, q
<1>5. Append(<<a>>, b) \in Seq(S) /\ Len(Append(<<a>>, b)) = 2
      /\ Append(<<a>>, b)[1] = a /\ Append(<<a>>, b)[2] = b
  BY <1>1, AppendProperties
<1>6. Append(<<a>>, b) = <<a, b>>
  <2> DEFINE p == Append(<<a>>, b)
             q == <<a, b>>
  <2>1. p \in Seq(S) /\ q \in Seq(S) /\ Len(p) = 2 /\ Len(q) = 2
        /\ p[1] = q[1] /\ p[2] = q[2]
    BY <1>2, <1>5
  <2> HIDE DEF p, q
  <2>2. \A i \in 1..Len(p) : p[i] = q[i]
    BY <2>1
  <2>3. p = q
    BY <2>1, <2>2, SeqEqual
  <2> QED
    BY <2>3 DEF p, q
<1>7. Append(<<>>, b) = <<b>>
  OBVIOUS
<1> QED
  BY <1>1, <1>2, <1>4, <1>6, <1>7

(* The elements of a finite set in some order.                             *)
LEMMA Listed ==
  ASSUME NEW D, IsFiniteSet(D)
  PROVE  SetToSeq(D) \in [1..Cardinality(D) -> D] /\ SetToSeq(D) \in Seq(D)
<1>1. Cardinality(D) \in Nat /\ ExistsBijection(1..Cardinality(D), D)
  BY FS_CardinalityType
<1>2. PICK f \in [1..Cardinality(D) -> D] : IsInjective(f)
  BY <1>1 DEF ExistsBijection, Bijection, Injection
<1>3. SetToSeq(D) \in [1..Cardinality(D) -> D]
  <2> DEFINE g == CHOOSE f0 \in [1..Cardinality(D) -> D] : IsInjective(f0)
  <2>1. SetToSeq(D) = g
    BY DEF SetToSeq
  <2>2. g \in [1..Cardinality(D) -> D]
    BY <1>2
  <2> QED
    BY <2>1, <2>2
<1> QED
  BY <1>1, <1>3

(* A flattened sequence of sequences, one sequence after the other.        *)
LEMMA FlattenSteps ==
  ASSUME NEW ss, Len(ss) \in Nat \ {0}
  PROVE  \E f : /\ FlattenSeq(ss) = f[Len(ss)]
                /\ \A i \in 1..Len(ss) : f[i] = IF i = 1 THEN ss[i] ELSE f[i - 1] \o ss[i]
<1> DEFINE D(f, n) == [i \in 1..n |-> IF i = 1 THEN ss[i] ELSE f[i - 1] \o ss[i]]
           P(n) == \E f : f = D(f, n)
           S == {n \in Nat : P(n)}
<1>1. 0 \in S
  <2> DEFINE g == [i \in 1..0 |-> ss]
  <2>1. g = D(g, 0)
    OBVIOUS
  <2> QED
    BY <2>1
<1>2. ASSUME NEW n \in Nat, n \in S PROVE n + 1 \in S
  <2>1. PICK f : f = D(f, n)
    BY <1>2
  <2> DEFINE g == [i \in 1..n + 1 |-> IF i <= n THEN f[i]
                      ELSE IF i = 1 THEN ss[i] ELSE f[n] \o ss[i]]
  <2>2. ASSUME NEW i \in 1..n
        PROVE  f[i] = IF i = 1 THEN ss[i] ELSE f[i - 1] \o ss[i]
    BY <2>1, <1>2
  <2>3. ASSUME NEW i \in 1..n + 1
        PROVE  g[i] = IF i = 1 THEN ss[i] ELSE g[i - 1] \o ss[i]
    <3>1. CASE i <= n
      <4>1. g[i] = f[i] /\ f[i] = IF i = 1 THEN ss[i] ELSE f[i - 1] \o ss[i]
        BY <2>2, <3>1
      <4>2. i # 1 => i - 1 \in 1..n /\ g[i - 1] = f[i - 1]
        BY <3>1
      <4> QED
        BY <4>1, <4>2
    <3>2. CASE i = n + 1
      <4>1. i # 1 => i - 1 = n /\ n \in 1..n + 1 /\ g[n] = f[n]
        BY <3>2
      <4> QED
        BY <3>2, <4>1
    <3> QED
      BY <3>1, <3>2
  <2>4. g = D(g, n + 1)
    BY <2>3
  <2> HIDE DEF g
  <2>5. P(n + 1)
    BY <2>4
  <2> HIDE DEF P
  <2> QED
    BY <2>5
<1>3. Nat \subseteq S
  <2> HIDE DEF S
  <2> QED
    BY <1>1, <1>2, SetInduction
<1>4. \E f : f = D(f, Len(ss))
  BY <1>3, ZenonT(60)
<1> DEFINE flat == CHOOSE f : f = D(f, Len(ss))
<1>5. flat = D(flat, Len(ss))
  BY <1>4, ZenonT(60)
<1>6. FlattenSeq(ss) = flat[Len(ss)]
  BY DEF FlattenSeq
<1> HIDE DEF flat
<1>7. \A i \in 1..Len(ss) : flat[i] = IF i = 1 THEN ss[i] ELSE flat[i - 1] \o ss[i]
  BY <1>5
<1> QED
  BY <1>6, <1>7

(* Sequences of a set that has the empty one and is closed under putting   *)
(* one after the other flatten to one of that set.                         *)
LEMMA FlattenClosed ==
  ASSUME NEW C, <<>> \in C, \A p, q \in C : p \o q \in C, NEW ss \in Seq(C)
  PROVE  FlattenSeq(ss) \in C
<1>1. CASE Len(ss) = 0
  <2>1. ss = <<>>
    BY <1>1
  <2>2. FlattenSeq(ss) = ss
    BY <1>1 DEF FlattenSeq
  <2> QED
    BY <2>1, <2>2
<1>2. CASE Len(ss) # 0
  <2>1. Len(ss) \in Nat \ {0} /\ \A i \in 1..Len(ss) : ss[i] \in C
    BY <1>2
  <2>2. PICK f : /\ FlattenSeq(ss) = f[Len(ss)]
                 /\ \A i \in 1..Len(ss) : f[i] = IF i = 1 THEN ss[i] ELSE f[i - 1] \o ss[i]
    BY <2>1, FlattenSteps
  <2> DEFINE S == {n \in Nat : n + 1 <= Len(ss) => f[n + 1] \in C}
  <2>3. 0 \in S
    BY <2>1, <2>2
  <2>4. ASSUME NEW n \in Nat, n \in S PROVE n + 1 \in S
    <3>1. SUFFICES ASSUME n + 2 <= Len(ss) PROVE f[n + 2] \in C
      OBVIOUS
    <3>2. f[n + 1] \in C /\ n + 2 \in 1..Len(ss) /\ n + 2 # 1 /\ (n + 2) - 1 = n + 1
      BY <3>1, <2>4, <2>1
    <3>3. f[n + 2] = f[n + 1] \o ss[n + 2] /\ ss[n + 2] \in C
      BY <3>2, <2>1, <2>2
    <3> QED
      BY <3>2, <3>3
  <2>5. Nat \subseteq S
    <3> HIDE DEF S
    <3> QED
      BY <2>3, <2>4, SetInduction
  <2>6. Len(ss) - 1 \in Nat /\ (Len(ss) - 1) + 1 = Len(ss)
    BY <2>1
  <2>7. f[Len(ss)] \in C
    <3> DEFINE m == Len(ss) - 1
    <3>1. m \in S
      BY <2>5, <2>6
    <3>2. m \in Nat /\ m + 1 = Len(ss) /\ m + 1 <= Len(ss)
      BY <2>1
    <3> HIDE DEF m
    <3>3. f[m + 1] \in C
      BY <3>1, <3>2
    <3> QED
      BY <3>2, <3>3
  <2> QED
    BY <1>2, <2>2, <2>7
<1> QED
  BY <1>1, <1>2

LEMMA FlattenTyped ==
  ASSUME NEW T, NEW ss \in Seq(Seq(T))
  PROVE  FlattenSeq(ss) \in Seq(T) /\ (ss = <<>> => FlattenSeq(ss) = <<>>)
<1> DEFINE C == Seq(T)
<1>1. <<>> \in C /\ \A p, q \in C : p \o q \in C
  OBVIOUS
<1>2. ss \in Seq(C)
  OBVIOUS
<1> HIDE DEF C
<1>3. FlattenSeq(ss) \in C
  BY <1>1, <1>2, FlattenClosed
<1>4. ss = <<>> => FlattenSeq(ss) = <<>>
  BY DEF FlattenSeq
<1> QED
  BY <1>3, <1>4 DEF C

LEMMA FlattenLast ==
  ASSUME NEW T, NEW ss \in Seq(Seq(T)), NEW tt \in Seq(Seq(T)),
         Len(tt) = Len(ss) + 1, \A i \in 1..Len(ss) : tt[i] = ss[i]
  PROVE  FlattenSeq(tt) = FlattenSeq(ss) \o tt[Len(tt)]
<1>1. Len(tt) \in Nat \ {0} /\ Len(ss) \in Nat /\ tt[Len(tt)] \in Seq(T)
  OBVIOUS
<1>2. PICK g : /\ FlattenSeq(tt) = g[Len(tt)]
               /\ \A i \in 1..Len(tt) : g[i] = IF i = 1 THEN tt[i] ELSE g[i - 1] \o tt[i]
  BY <1>1, FlattenSteps
<1>3. CASE Len(ss) = 0
  <2>1. FlattenSeq(tt) = tt[Len(tt)]
    BY <1>1, <1>2, <1>3
  <2>2. ss = <<>>
    BY <1>3
  <2>3. FlattenSeq(ss) = <<>>
    BY <2>2, FlattenTyped
  <2>4. <<>> \o tt[Len(tt)] = tt[Len(tt)]
    BY <1>1, ConcatEmptySeq
  <2> QED
    BY <2>1, <2>3, <2>4
<1>4. CASE Len(ss) # 0
  <2>1. PICK f : /\ FlattenSeq(ss) = f[Len(ss)]
                 /\ \A i \in 1..Len(ss) : f[i] = IF i = 1 THEN ss[i] ELSE f[i - 1] \o ss[i]
    BY <1>1, <1>4, FlattenSteps
  <2> DEFINE S == {n \in Nat : n + 1 <= Len(ss) => f[n + 1] = g[n + 1]}
  <2>2. 0 \in S
    BY <1>1, <1>2, <2>1
  <2>3. ASSUME NEW n \in Nat, n \in S PROVE n + 1 \in S
    <3>0. (n + 1) + 1 = n + 2 /\ n + 1 \in Nat
      OBVIOUS
    <3>1. SUFFICES ASSUME n + 2 <= Len(ss) PROVE f[n + 2] = g[n + 2]
      BY <3>0
    <3>2. f[n + 1] = g[n + 1] /\ n + 2 \in 1..Len(ss) /\ n + 2 \in 1..Len(tt)
          /\ n + 2 # 1 /\ (n + 2) - 1 = n + 1
      BY <3>1, <2>3, <1>1
    <3>3. f[n + 2] = f[n + 1] \o ss[n + 2] /\ g[n + 2] = g[n + 1] \o tt[n + 2]
          /\ tt[n + 2] = ss[n + 2]
      BY <3>2, <1>2, <2>1
    <3> QED
      BY <3>2, <3>3
  <2>4. Nat \subseteq S
    <3> HIDE DEF S
    <3> QED
      BY <2>2, <2>3, SetInduction
  <2>5. Len(ss) - 1 \in Nat /\ (Len(ss) - 1) + 1 = Len(ss)
    BY <1>1, <1>4
  <2>6. f[Len(ss)] = g[Len(ss)]
    <3> DEFINE m == Len(ss) - 1
    <3>1. m \in S
      BY <2>4, <2>5
    <3>2. m \in Nat /\ m + 1 = Len(ss) /\ m + 1 <= Len(ss)
      BY <1>1, <1>4
    <3> HIDE DEF m
    <3>3. f[m + 1] = g[m + 1]
      BY <3>1, <3>2
    <3> QED
      BY <3>2, <3>3
  <2>7. Len(tt) \in 1..Len(tt) /\ Len(tt) # 1 /\ Len(tt) - 1 = Len(ss)
    BY <1>1, <1>4
  <2>8. g[Len(tt)] = g[Len(ss)] \o tt[Len(tt)]
    BY <1>2, <2>7
  <2> QED
    BY <1>2, <2>1, <2>6, <2>8
<1> QED
  BY <1>3, <1>4

(* Every element of a set is listed once.                                  *)
LEMMA ListedOnce ==
  ASSUME NEW D, IsFiniteSet(D), NEW q, q = SetToSeq(D)
  PROVE  /\ Len(q) = Cardinality(D) /\ ToSet(q) = D
         /\ \A x \in D : \E i \in 1..Len(q) : q[i] = x
         /\ \A i, j \in 1..Len(q) : q[i] = q[j] => i = j
<1> DEFINE n == Cardinality(D)
           F == {f \in [1..n -> D] : IsInjective(f)}
<1>1. n \in Nat /\ ExistsBijection(1..n, D)
  BY FS_CardinalityType
<1>2. \E f \in [1..n -> D] : IsInjective(f)
  BY <1>1 DEF ExistsBijection, Bijection, Injection
<1>3. q \in [1..n -> D] /\ IsInjective(q)
  <2> DEFINE g == CHOOSE f \in [1..n -> D] : IsInjective(f)
  <2>1. q = g
    BY DEF SetToSeq
  <2>2. g \in [1..n -> D] /\ IsInjective(g)
    BY <1>2
  <2> QED
    BY <2>1, <2>2
<1>4. q \in Seq(D) /\ Len(q) = n /\ DOMAIN q = 1..n
  BY <1>1, <1>3
<1>5. IsFiniteSet(1..n) /\ Cardinality(1..n) = n
  <2>1. 1 \in Int /\ n \in Int
    BY <1>1
  <2>2. IsFiniteSet(1..n) /\ Cardinality(1..n) = IF 1 > n THEN 0 ELSE n - 1 + 1
    BY <2>1, FS_Interval
  <2> QED
    BY <1>1, <2>2
<1>6. q \in Surjection(1..n, D)
  <2>1. q \in Injection(1..n, D)
    BY <1>3 DEF Injection
  <2> HIDE DEF n
  <2> QED
    BY <1>5, <2>1, FS_Injection DEF n
<1>7. \A x \in D : \E i \in 1..n : q[i] = x
  BY <1>6 DEF Surjection
<1>8. ToSet(q) = D
  BY <1>3, <1>4, <1>7 DEF ToSet
<1> QED
  BY <1>3, <1>4, <1>7, <1>8 DEF IsInjective

(* The elements of sequences that are put one after the other.             *)
LEMMA ConcatPlaces ==
  ASSUME NEW T, NEW p \in Seq(T), NEW q \in Seq(T)
  PROVE  /\ Len(p \o q) = Len(p) + Len(q)
         /\ \A i \in 1..Len(p) : (p \o q)[i] = p[i]
         /\ \A i \in 1..Len(q) : (p \o q)[Len(p) + i] = q[i]
OBVIOUS

LEMMA ConcatSet ==
  ASSUME NEW T, NEW p \in Seq(T), NEW q \in Seq(T)
  PROVE  p \o q \in Seq(T) /\ ToSet(p \o q) = ToSet(p) \cup ToSet(q)
<1>1. /\ p \o q \in Seq(T) /\ Len(p \o q) = Len(p) + Len(q) /\ Len(p) \in Nat /\ Len(q) \in Nat
      /\ \A i \in 1..Len(p) : (p \o q)[i] = p[i]
      /\ \A i \in 1..Len(q) : (p \o q)[i + Len(p)] = q[i]
  OBVIOUS
<1>2. DOMAIN p = 1..Len(p) /\ DOMAIN q = 1..Len(q) /\ DOMAIN (p \o q) = 1..Len(p) + Len(q)
  BY <1>1
<1>3. \A i \in 1..Len(p) + Len(q) : i \in 1..Len(p) \/ i - Len(p) \in 1..Len(q)
  BY <1>1
<1>4. /\ \A i \in 1..Len(p) : i \in 1..Len(p) + Len(q)
      /\ \A i \in 1..Len(q) : i + Len(p) \in 1..Len(p) + Len(q)
  BY <1>1
<1>5. \A i \in 1..Len(p) + Len(q) : (p \o q)[i] \in ToSet(p) \cup ToSet(q)
  <2>1. ASSUME NEW i \in 1..Len(p) + Len(q), i - Len(p) \in 1..Len(q)
        PROVE  (p \o q)[i] = q[i - Len(p)]
    <3>1. (i - Len(p)) + Len(p) = i
      BY <1>1
    <3> QED
      BY <1>1, <2>1, <3>1
  <2> QED
    BY <1>1, <1>2, <1>3, <2>1 DEF ToSet
<1>6. ToSet(p) \subseteq ToSet(p \o q)
  BY <1>1, <1>2, <1>4 DEF ToSet
<1>7. ToSet(q) \subseteq ToSet(p \o q)
  BY <1>1, <1>2, <1>4 DEF ToSet
<1>8. ToSet(p \o q) \subseteq ToSet(p) \cup ToSet(q)
  BY <1>2, <1>5 DEF ToSet
<1> QED
  BY <1>1, <1>6, <1>7, <1>8

LEMMA FlattenHolds ==
  ASSUME NEW T, NEW ss \in Seq(Seq(T)), NEW x
  PROVE  x \in ToSet(FlattenSeq(ss)) <=> \E i \in 1..Len(ss) : x \in ToSet(ss[i])
<1>1. CASE Len(ss) = 0
  <2>1. ss = <<>>
    BY <1>1
  <2>2. FlattenSeq(ss) = <<>>
    BY <2>1, FlattenTyped
  <2> QED
    BY <1>1, <2>2 DEF ToSet
<1>2. CASE Len(ss) # 0
  <2>1. Len(ss) \in Nat \ {0} /\ \A i \in 1..Len(ss) : ss[i] \in Seq(T)
    BY <1>2
  <2>2. PICK f : /\ FlattenSeq(ss) = f[Len(ss)]
                 /\ \A i \in 1..Len(ss) : f[i] = IF i = 1 THEN ss[i] ELSE f[i - 1] \o ss[i]
    BY <2>1, FlattenSteps
  <2> DEFINE Right(n) == /\ f[n] \in Seq(T)
                         /\ x \in ToSet(f[n]) <=> \E i \in 1..n : x \in ToSet(ss[i])
             S == {n \in Nat : n + 1 <= Len(ss) => Right(n + 1)}
  <2>3. 0 \in S
    <3>1. f[1] = ss[1] /\ ss[1] \in Seq(T)
      BY <2>1, <2>2
    <3>2. \A i \in 1..1 : i = 1
      OBVIOUS
    <3>3. Right(1)
      BY <3>1, <3>2
    <3> HIDE DEF Right
    <3>4. 0 + 1 = 1
      OBVIOUS
    <3> QED
      BY <3>3, <3>4
  <2>4. ASSUME NEW n \in Nat, n \in S PROVE n + 1 \in S
    <3>1. ASSUME n + 2 <= Len(ss) PROVE Right(n + 2)
      <4>1. n + 1 <= Len(ss)
        BY <2>1, <3>1
      <4>2. Right(n + 1)
        <5> HIDE DEF Right
        <5> QED
          BY <2>4, <4>1
      <4>3. n + 2 \in 1..Len(ss) /\ n + 2 # 1 /\ (n + 2) - 1 = n + 1
        BY <2>1, <3>1
      <4>4. f[n + 2] = f[n + 1] \o ss[n + 2] /\ ss[n + 2] \in Seq(T)
        BY <2>1, <2>2, <4>3
      <4>5. f[n + 2] \in Seq(T) /\ ToSet(f[n + 2]) = ToSet(f[n + 1]) \cup ToSet(ss[n + 2])
        BY <4>2, <4>4, ConcatSet
      <4>6. \A i : i \in 1..n + 2 <=> i \in 1..n + 1 \/ i = n + 2
        OBVIOUS
      <4> QED
        BY <4>2, <4>5, <4>6
    <3>2. (n + 1) + 1 = n + 2 /\ n + 1 \in Nat
      OBVIOUS
    <3> HIDE DEF Right
    <3> QED
      BY <3>1, <3>2
  <2>5. Nat \subseteq S
    <3> HIDE DEF S
    <3> QED
      BY <2>3, <2>4, SetInduction, ZenonT(60)
  <2>6. Right(Len(ss))
    <3>1. PICK m \in Nat : m + 1 = Len(ss)
      <4>1. Len(ss) - 1 \in Nat /\ (Len(ss) - 1) + 1 = Len(ss)
        BY <2>1
      <4> QED
        BY <4>1, ZenonT(60)
    <3>2. m \in S /\ m + 1 <= Len(ss)
      <4> HIDE DEF S
      <4> QED
        BY <2>1, <2>5, <3>1
    <3> HIDE DEF Right
    <3>3. Right(m + 1)
      BY <3>2
    <3> QED
      BY <3>1, <3>3
  <2> QED
    BY <2>2, <2>6
<1> QED
  BY <1>1, <1>2

LEMMA SmallSets ==
  ASSUME NEW a, NEW b
  PROVE  ToSet(<<>>) = {} /\ ToSet(<<a>>) = {a} /\ ToSet(<<a, b>>) = {a, b}
<1> DEFINE s == <<a>>
           t == <<a, b>>
<1>1. /\ DOMAIN s = 1..1 /\ s[1] = a
      /\ DOMAIN t = 1..2 /\ t[1] = a /\ t[2] = b
  OBVIOUS
<1>2. ToSet(<<>>) = {}
  BY DEF ToSet
<1> HIDE DEF s, t
<1>3. (\A i \in 1..1 : i = 1) /\ (\A i \in 1..2 : i = 1 \/ i = 2) /\ 1 \in 1..1 /\ 1 \in 1..2 /\ 2 \in 1..2
  OBVIOUS
<1>4. ToSet(s) = {a}
  BY <1>1, <1>3 DEF ToSet
<1>5. ToSet(t) = {a, b}
  BY <1>1, <1>3 DEF ToSet
<1> QED
  BY <1>2, <1>4, <1>5 DEF s, t
LEMMA ConcatFacts ==
  ASSUME NEW T, NEW p \in Seq(T), NEW q \in Seq(T), NEW r \in Seq(T)
  PROVE  /\ p \o q \in Seq(T) /\ p \o (q \o r) = (p \o q) \o r
         /\ p \o <<>> = p /\ <<>> \o p = p
         /\ p \o q = <<>> <=> p = <<>> /\ q = <<>>
<1>1. p \o q \in Seq(T) /\ p \o <<>> = p /\ <<>> \o p = p
  OBVIOUS
<1>2. p \o (q \o r) = (p \o q) \o r
  OBVIOUS
<1>3. p \o q = <<>> <=> p = <<>> /\ q = <<>>
  <2>1. Len(p \o q) = Len(p) + Len(q) /\ Len(p) \in Nat /\ Len(q) \in Nat
    OBVIOUS
  <2>2. p = <<>> <=> Len(p) = 0
    OBVIOUS
  <2>3. q = <<>> <=> Len(q) = 0
    OBVIOUS
  <2>4. p \o q = <<>> <=> Len(p \o q) = 0
    BY <1>1
  <2> QED
    BY <2>1, <2>2, <2>3, <2>4
<1> QED
  BY <1>1, <1>2, <1>3

LEMMA ConcatIs ==
  ASSUME NEW T, NEW a \in Seq(T), NEW b \in Seq(T), NEW c \in Seq(T),
         Len(c) = Len(a) + Len(b),
         \A k \in 1..Len(a) : c[k] = a[k],
         \A k \in 1..Len(b) : c[Len(a) + k] = b[k]
  PROVE  c = a \o b
<1> DEFINE d == a \o b
           m == Len(a)
           n == Len(b)
<1>1. m \in Nat /\ n \in Nat /\ d \in Seq(T)
  OBVIOUS
<1>2. /\ Len(d) = m + n
      /\ \A k \in 1..m : d[k] = a[k]
      /\ \A k \in 1..n : d[m + k] = b[k]
  BY ConcatPlaces
<1> HIDE DEF d
<1>3. Len(c) = m + n /\ (\A k \in 1..m : c[k] = a[k]) /\ (\A k \in 1..n : c[m + k] = b[k])
  OBVIOUS
<1> HIDE DEF m, n
<1>4. \A k \in 1..m + n : c[k] = d[k]
  <2>1. SUFFICES ASSUME NEW k \in 1..m + n PROVE c[k] = d[k]
    OBVIOUS
  <2>2. CASE k <= m
    <3>1. k \in 1..m
      BY <1>1, <2>2
    <3> QED
      BY <1>2, <1>3, <3>1
  <2>3. CASE k > m
    <3>1. k - m \in 1..n /\ m + (k - m) = k
      BY <1>1, <2>3
    <3> DEFINE l == k - m
    <3>2. l \in 1..n /\ m + l = k
      BY <3>1
    <3> HIDE DEF l
    <3>3. c[m + l] = b[l] /\ d[m + l] = b[l]
      BY <1>2, <1>3, <3>2
    <3> QED
      BY <3>2, <3>3
  <2> QED
    BY <1>1, <2>2, <2>3
<1>5. c = d
  BY <1>1, <1>2, <1>3, <1>4
<1> QED
  BY <1>5 DEF d

(* The sequences of two sequences, one after the other.                    *)
LEMMA FlattenConcat ==
  ASSUME NEW T, NEW p \in Seq(Seq(T)), NEW q \in Seq(Seq(T))
  PROVE  FlattenSeq(p \o q) = FlattenSeq(p) \o FlattenSeq(q)
<1> DEFINE C == Seq(T)
           S == {r \in Seq(C) : FlattenSeq(p \o r) = FlattenSeq(p) \o FlattenSeq(r)}
<1>1. p \in Seq(C) /\ q \in Seq(C)
  OBVIOUS
<1>2. \A r \in Seq(C) : FlattenSeq(r) \in C
  BY FlattenTyped
<1>3. FlattenSeq(<<>>) = <<>>
  <2>1. <<>> \in Seq(Seq(T))
    OBVIOUS
  <2> QED
    BY <2>1, FlattenTyped
<1>4. ASSUME NEW a \in C, NEW b \in C, NEW c \in C PROVE a \o (b \o c) = (a \o b) \o c
  BY ONLY a \in Seq(T), b \in Seq(T), c \in Seq(T), ConcatFacts, SMTT(60)
<1>5. \A a \in C : a \o <<>> = a
  OBVIOUS
<1>6. ASSUME NEW r \in Seq(C), NEW e \in C
      PROVE  FlattenSeq(Append(r, e)) = FlattenSeq(r) \o e
  <2> DEFINE t == Append(r, e)
  <2> HIDE DEF C
  <2>1. t \in Seq(C) /\ Len(t) = Len(r) + 1 /\ t[Len(t)] = e
        /\ \A i \in 1..Len(r) : t[i] = r[i]
    OBVIOUS
  <2> HIDE DEF t
  <2>2. r \in Seq(Seq(T)) /\ t \in Seq(Seq(T))
    BY <2>1 DEF C
  <2>3. FlattenSeq(t) = FlattenSeq(r) \o t[Len(t)]
    BY <2>1, <2>2, FlattenLast
  <2> QED
    BY <2>1, <2>3 DEF t
<1> HIDE DEF C
<1>7. <<>> \in S
  <2>1. p \o <<>> = p /\ <<>> \in Seq(C)
    BY <1>1
  <2> QED
    BY <1>1, <1>2, <1>3, <1>5, <2>1
<1>8. ASSUME NEW r \in Seq(C), NEW e \in C, r \in S PROVE Append(r, e) \in S
  <2>1. p \o Append(r, e) = Append(p \o r, e) /\ p \o r \in Seq(C) /\ Append(r, e) \in Seq(C)
    BY <1>1
  <2>2. FlattenSeq(Append(p \o r, e)) = FlattenSeq(p \o r) \o e
    BY <1>6, <2>1
  <2>3. FlattenSeq(Append(r, e)) = FlattenSeq(r) \o e
    BY <1>6
  <2>4. FlattenSeq(p) \o (FlattenSeq(r) \o e) = (FlattenSeq(p) \o FlattenSeq(r)) \o e
    BY <1>1, <1>2, <1>4, ZenonT(60)
  <2>5. FlattenSeq(p \o r) = FlattenSeq(p) \o FlattenSeq(r)
    BY <1>8
  <2> QED
    BY <2>1, <2>2, <2>3, <2>4, <2>5
<1>9. Seq(C) \subseteq S
  <2> HIDE DEF S
  <2> QED
    BY <1>7, <1>8, SequenceInduction
<1> QED
  BY <1>1, <1>9

LEMMA FlattenOne ==
  ASSUME NEW T, NEW e \in Seq(T)
  PROVE  FlattenSeq(<<e>>) = e
<1> DEFINE C == Seq(T)
           t == <<e>>
           r == <<>>
<1>1. e \in C
  OBVIOUS
<1>2. r \in Seq(C) /\ FlattenSeq(r) = <<>>
  <2>1. r \in Seq(Seq(T))
    OBVIOUS
  <2> QED
    BY <2>1, FlattenTyped
<1>3. <<>> \o e = e
  OBVIOUS
<1>4. Len(r) = 0
  OBVIOUS
<1> HIDE DEF C
<1>5. t \in Seq(C) /\ Len(t) = 1 /\ t[1] = e
  BY <1>1
<1> HIDE DEF t, r
<1>6. r \in Seq(Seq(T)) /\ t \in Seq(Seq(T))
  BY <1>2, <1>5 DEF C
<1>7. Len(t) = Len(r) + 1 /\ \A i \in 1..Len(r) : t[i] = r[i]
  BY <1>4, <1>5
<1>8. FlattenSeq(t) = FlattenSeq(r) \o t[Len(t)]
  BY <1>6, <1>7, FlattenLast
<1> QED
  BY <1>2, <1>3, <1>5, <1>8 DEF t

(* What a function makes of each element of a sequence, one after another. *)
Spread(G, q) == FlattenSeq([k \in 1..Len(q) |-> G[q[k]]])

(* A function whose type stays folded.                                     *)
Makes(G, T, U) == G \in [T -> Seq(U)]

LEMMA SpreadFacts ==
  ASSUME NEW T, NEW U, NEW G, Makes(G, T, U)
  PROVE  /\ Spread(G, <<>>) = <<>>
         /\ \A p \in Seq(T) : Spread(G, p) \in Seq(U)
         /\ \A p, q \in Seq(T) : Spread(G, p \o q) = Spread(G, p) \o Spread(G, q)
         /\ \A x \in T : Spread(G, <<x>>) = G[x]
<1>0. G \in [T -> Seq(U)]
  BY DEF Makes
<1> DEFINE C == Seq(U)
           M(r) == [k \in 1..Len(r) |-> G[r[k]]]
<1>1. ASSUME NEW r \in Seq(T) PROVE M(r) \in Seq(C)
  <2> HIDE DEF C
  <2>0. G \in [T -> C]
    BY <1>0 DEF C
  <2>1. \A k \in 1..Len(r) : G[r[k]] \in C
    BY <2>0
  <2> QED
    BY <2>1
<1>2. \A r \in Seq(T) : Spread(G, r) = FlattenSeq(M(r))
  BY DEF Spread
<1>3. ASSUME NEW p \in Seq(T) PROVE Spread(G, p) \in Seq(U)
  <2>1. M(p) \in Seq(Seq(U))
    BY <1>1
  <2> QED
    BY <1>2, <2>1, FlattenTyped
<1>4. Spread(G, <<>>) = <<>>
  <2>1. M(<<>>) = <<>> /\ <<>> \in Seq(Seq(U)) /\ <<>> \in Seq(T)
    OBVIOUS
  <2>2. FlattenSeq(<<>>) = <<>>
    BY <2>1, FlattenTyped
  <2> QED
    BY <1>2, <2>1, <2>2
<1>5. ASSUME NEW p \in Seq(T), NEW q \in Seq(T) PROVE M(p \o q) = M(p) \o M(q)
  <2> HIDE DEF C
  <2>1. M(p) \in Seq(C) /\ M(q) \in Seq(C) /\ p \o q \in Seq(T)
    BY <1>1
  <2>2. M(p \o q) \in Seq(C)
    BY <1>1, <2>1
  <2>3. /\ Len(M(p \o q)) = Len(p) + Len(q) /\ Len(M(p)) = Len(p) /\ Len(M(q)) = Len(q)
        /\ Len(p) \in Nat /\ Len(q) \in Nat
    OBVIOUS
  <2>4. \A k \in 1..Len(p) : M(p \o q)[k] = M(p)[k]
    OBVIOUS
  <2>5. \A k \in 1..Len(q) : M(p \o q)[Len(p) + k] = M(q)[k]
    OBVIOUS
  <2> DEFINE a == M(p)
             b == M(q)
             c == M(p \o q)
  <2>6. /\ a \in Seq(C) /\ b \in Seq(C) /\ c \in Seq(C) /\ Len(c) = Len(a) + Len(b)
        /\ \A k \in 1..Len(a) : c[k] = a[k]
        /\ \A k \in 1..Len(b) : c[Len(a) + k] = b[k]
    BY <2>1, <2>2, <2>3, <2>4, <2>5
  <2> HIDE DEF a, b, c
  <2>7. c = a \o b
    BY <2>6, ConcatIs
  <2> QED
    BY <2>7 DEF a, b, c
<1>6. ASSUME NEW p \in Seq(T), NEW q \in Seq(T)
      PROVE  Spread(G, p \o q) = Spread(G, p) \o Spread(G, q)
  <2>1. p \o q \in Seq(T)
    OBVIOUS
  <2>2. M(p) \in Seq(Seq(U)) /\ M(q) \in Seq(Seq(U))
    BY <1>1
  <2>3. FlattenSeq(M(p) \o M(q)) = FlattenSeq(M(p)) \o FlattenSeq(M(q))
    BY <2>2, FlattenConcat
  <2> HIDE DEF M
  <2> QED
    BY <1>2, <1>5, <2>1, <2>3
<1>7. ASSUME NEW x \in T PROVE Spread(G, <<x>>) = G[x]
  <2>1. G[x] \in Seq(U) /\ <<x>> \in Seq(T)
    BY <1>0
  <2>2. M(<<x>>) = <<G[x]>>
    <3> DEFINE r == <<x>>
    <3>1. r \in Seq(T) /\ Len(r) = 1 /\ r[1] = x
      OBVIOUS
    <3> HIDE DEF r
    <3>2. Len(M(r)) = 1 /\ M(r)[1] = G[x]
      BY <3>1
    <3>3. M(r) \in Seq(C)
      BY <1>1, <3>1
    <3> HIDE DEF M, C
    <3>4. M(r) = <<G[x]>>
      BY <3>2, <3>3
    <3> QED
      BY <3>4 DEF r
  <2> HIDE DEF M
  <2> QED
    BY <1>2, <2>1, <2>2, FlattenOne
<1> QED
  BY <1>3, <1>4, <1>6, <1>7

LEMMA SpreadTyped ==
  ASSUME NEW T, NEW U, NEW G, Makes(G, T, U), NEW p \in Seq(T)
  PROVE  Spread(G, p) \in Seq(U)
BY SpreadFacts

LEMMA SpreadEmpty == ASSUME NEW T, NEW U, NEW G, Makes(G, T, U) PROVE Spread(G, <<>>) = <<>>
BY SpreadFacts

LEMMA SpreadOne ==
  ASSUME NEW T, NEW U, NEW G, Makes(G, T, U), NEW x \in T
  PROVE  Spread(G, <<x>>) = G[x]
BY SpreadFacts

LEMMA SpreadConcat ==
  ASSUME NEW T, NEW U, NEW G, Makes(G, T, U), NEW p \in Seq(T), NEW q \in Seq(T)
  PROVE  Spread(G, p \o q) = Spread(G, p) \o Spread(G, q)
BY SpreadFacts

LEMMA SpreadMore ==
  ASSUME NEW T, NEW U, NEW G, Makes(G, T, U), NEW p \in Seq(T), NEW x \in T
  PROVE  Spread(G, Append(p, x)) = Spread(G, p) \o G[x]
<1> DEFINE e == <<x>>
<1>1. e \in Seq(T) /\ Append(p, x) = p \o e
  OBVIOUS
<1>2. Spread(G, e) = G[x]
  BY SpreadOne
<1> HIDE DEF e
<1>3. Spread(G, p \o e) = Spread(G, p) \o Spread(G, e)
  BY <1>1, SpreadConcat
<1> QED
  BY <1>1, <1>2, <1>3

(* Sequences of sequences, and the sequences their elements become.        *)
LEMMA SpreadFlat ==
  ASSUME NEW T, NEW U, NEW G, Makes(G, T, U), NEW ss \in Seq(Seq(T))
  PROVE  Spread(G, FlattenSeq(ss)) = FlattenSeq([k \in 1..Len(ss) |-> Spread(G, ss[k])])
<1> DEFINE C == Seq(T)
           D == Seq(U)
           H == [r \in C |-> Spread(G, r)]
           S == {r \in Seq(C) : Spread(G, FlattenSeq(r)) = Spread(H, r)}
<1>1. Makes(H, C, U)
  BY SpreadTyped DEF Makes
<1>2. FlattenSeq(<<>>) = <<>> /\ \A r \in Seq(C) : FlattenSeq(r) \in C
  <2>1. <<>> \in Seq(Seq(T))
    OBVIOUS
  <2> QED
    BY <2>1, FlattenTyped
<1>3. ASSUME NEW r \in Seq(C), NEW e \in C
      PROVE  FlattenSeq(r \o <<e>>) = FlattenSeq(r) \o e
  <2>1. <<e>> \in Seq(Seq(T)) /\ r \in Seq(Seq(T))
    OBVIOUS
  <2>2. FlattenSeq(<<e>>) = e
    BY FlattenOne
  <2>3. FlattenSeq(r \o <<e>>) = FlattenSeq(r) \o FlattenSeq(<<e>>)
    BY <2>1, FlattenConcat
  <2> QED
    BY <2>2, <2>3
<1>4. ASSUME NEW a \in C, NEW b \in C PROVE Spread(G, a \o b) = Spread(G, a) \o Spread(G, b)
  BY SpreadConcat
<1>5. Spread(G, <<>>) = <<>>
  BY SpreadEmpty
<1>6. \A e \in C : H[e] = Spread(G, e)
  OBVIOUS
<1> HIDE DEF C, H
<1>7. <<>> \in S
  <2>1. <<>> \in Seq(C)
    OBVIOUS
  <2>2. Spread(H, <<>>) = <<>>
    BY <1>1, SpreadEmpty
  <2> QED
    BY <1>2, <1>5, <2>1, <2>2
<1>8. ASSUME NEW r \in Seq(C), NEW e \in C, r \in S PROVE Append(r, e) \in S
  <2>1. Append(r, e) = r \o <<e>> /\ <<e>> \in Seq(C) /\ Append(r, e) \in Seq(C)
    OBVIOUS
  <2>2. Spread(H, Append(r, e)) = Spread(H, r) \o H[e]
    BY <1>1, SpreadMore
  <2>3. Spread(G, FlattenSeq(r) \o e) = Spread(G, FlattenSeq(r)) \o Spread(G, e)
    BY <1>2, <1>4
  <2> QED
    BY <1>3, <1>6, <1>8, <2>1, <2>2, <2>3
<1>9. Seq(C) \subseteq S
  <2> HIDE DEF S
  <2> QED
    BY <1>7, <1>8, SequenceInduction
<1>10. ss \in Seq(C)
  BY DEF C
<1>11. Spread(G, FlattenSeq(ss)) = Spread(H, ss)
  BY <1>9, <1>10
<1>12. Spread(H, ss) = FlattenSeq([k \in 1..Len(ss) |-> H[ss[k]]])
  BY DEF Spread
<1>13. [k \in 1..Len(ss) |-> H[ss[k]]] = [k \in 1..Len(ss) |-> Spread(G, ss[k])]
  <2>1. \A k \in 1..Len(ss) : ss[k] \in C
    BY <1>10
  <2> QED
    BY <1>6, <2>1
<1> QED
  BY <1>11, <1>12, <1>13

(* Elements of which nothing is made.                                      *)
LEMMA SpreadNothing ==
  ASSUME NEW T, NEW U, NEW G, Makes(G, T, U), NEW p \in Seq(T),
         \A k \in 1..Len(p) : G[p[k]] = <<>>
  PROVE  Spread(G, p) = <<>>
<1> DEFINE S == {r \in Seq(T) : (\A k \in 1..Len(r) : G[r[k]] = <<>>) => Spread(G, r) = <<>>}
<1>1. <<>> \in S
  BY SpreadEmpty
<1>2. ASSUME NEW r \in Seq(T), NEW e \in T, r \in S PROVE Append(r, e) \in S
  <2>0. Append(r, e) \in Seq(T)
    OBVIOUS
  <2>1. SUFFICES ASSUME \A k \in 1..Len(Append(r, e)) : G[Append(r, e)[k]] = <<>>
                 PROVE  Spread(G, Append(r, e)) = <<>>
    BY <2>0
  <2>2. Append(r, e) = r \o <<e>> /\ <<e>> \in Seq(T)
    OBVIOUS
  <2>3. /\ \A k \in 1..Len(r) : k \in 1..Len(Append(r, e)) /\ Append(r, e)[k] = r[k]
        /\ Len(r) + 1 \in 1..Len(Append(r, e)) /\ Append(r, e)[Len(r) + 1] = e
    OBVIOUS
  <2>4. (\A k \in 1..Len(r) : G[r[k]] = <<>>) /\ G[e] = <<>>
    BY <2>1, <2>3
  <2>5. Spread(G, r) = <<>>
    BY <1>2, <2>4
  <2>6. Spread(G, Append(r, e)) = Spread(G, r) \o G[e]
    BY SpreadMore
  <2>7. <<>> \o <<>> = <<>>
    OBVIOUS
  <2> QED
    BY <2>2, <2>4, <2>5, <2>6, <2>7
<1>3. Seq(T) \subseteq S
  <2> HIDE DEF S
  <2> QED
    BY <1>1, <1>2, SequenceInduction
<1> QED
  BY <1>3
===============================================================================
