------------------------ MODULE PacketFramingProofs ------------------------
(***************************************************************************)
(* Proofs about PacketFraming, for any packets, any number of them, any    *)
(* size of the receive buffer and any way the stream is cut.               *)
(***************************************************************************)
EXTENDS PacketFraming, Integers, SequenceTheorems, WellFoundedInduction,
        TLAPS

-----------------------------------------------------------------------------
(* Streams of packets, that is FlattenSeq. *)

\* A nonempty set of numbers has a least element.
LEMMA LeastElement ==
  ASSUME NEW S \in SUBSET Nat, S # {}
  PROVE  \E k \in S : \A j \in S : k <= j
<1>1. PICK k \in S : \A j \in S : <<j, k>> \notin OpToRel(<, Nat)
  BY WFMin, NatLessThanWellFounded, Zenon
<1>2. \A j \in S : ~ (j < k)
  BY <1>1, Zenon DEF OpToRel
<1>3. QED
  BY <1>2

\* A set of numbers that has n + 1 whenever it has every number up to n has
\* all of them.
LEMMA Grows ==
  ASSUME NEW N \in Nat, NEW Good \in SUBSET (1..N),
         \A n \in 1..N : (\A m \in 1..(n - 1) : m \in Good) => n \in Good
  PROVE  Good = 1..N
<1>1. SUFFICES ASSUME (1..N) \ Good # {}
               PROVE  FALSE
  OBVIOUS
<1>2. PICK n \in (1..N) \ Good : \A m \in (1..N) \ Good : n <= m
  <2>1. (1..N) \ Good \in SUBSET Nat
    OBVIOUS
  <2>2. QED
    BY <1>1, <2>1, LeastElement
<1>3. QED
  BY <1>2

\* Bytes may be joined in any order.
LEMMA Associative ==
  ASSUME NEW B, NEW a \in Seq(B), NEW b \in Seq(B), NEW c \in Seq(B)
  PROVE  (a \o b) \o c = a \o (b \o c)
OBVIOUS

\* What follows the same bytes is the same.
LEMMA Cancel ==
  ASSUME NEW B, NEW a \in Seq(B), NEW b \in Seq(B), NEW c \in Seq(B),
         a \o b = a \o c
  PROVE  b = c
<1>1. Len(b) = Len(c)
  <2>1. Len(a \o b) = Len(a) + Len(b) /\ Len(a \o c) = Len(a) + Len(c)
    OBVIOUS
  <2>2. Len(a) \in Nat /\ Len(b) \in Nat /\ Len(c) \in Nat
    OBVIOUS
  <2>3. QED
    BY <2>1, <2>2
<1>2. ASSUME NEW i \in 1..Len(b)
      PROVE  b[i] = c[i]
  <2>1. /\ (a \o b)[Len(a) + i] = b[i]
        /\ (a \o c)[Len(a) + i] = c[i]
    BY <1>1
  <2>2. QED
    BY <2>1
<1>3. QED
  BY <1>1, <1>2, SeqEqual

\* g has the streams of the first 1, 2, ..., n elements of s.
Streams(g, s, n) ==
  g = [i \in 1..n |-> IF i = 1 THEN s[i] ELSE g[i - 1] \o s[i]]

\* There is such a function: append the last element to the last stream.
LEMMA StreamsExist ==
  ASSUME NEW s, NEW N \in Nat
  PROVE  \E g : Streams(g, s, N)
<1> DEFINE Good == {n \in 1..N : \E g : Streams(g, s, n)}
<1>1. ASSUME NEW n \in 1..N, \A m \in 1..(n - 1) : m \in Good
      PROVE  n \in Good
  <2>1. PICK h : n # 1 => Streams(h, s, n - 1)
    <3>1. CASE n = 1
      BY <3>1
    <3>2. CASE n # 1
      <4>1. n - 1 \in 1..(n - 1)
        BY <3>2
      <4>2. QED
        BY <1>1, <4>1
    <3>3. QED
      BY <3>1, <3>2
  <2> DEFINE g == [i \in 1..n |->
                     IF i = n THEN IF n = 1 THEN s[n] ELSE h[n - 1] \o s[n]
                     ELSE h[i]]
  <2>2. ASSUME NEW i \in 1..n
        PROVE  g[i] = IF i = 1 THEN s[i] ELSE g[i - 1] \o s[i]
    <3>1. CASE n = 1
      BY <3>1
    <3>2. CASE n # 1
      <4>1. \A j \in 1..(n - 1) :
              h[j] = IF j = 1 THEN s[j] ELSE h[j - 1] \o s[j]
        BY <2>1, <3>2 DEF Streams
      <4>2. \A j \in 1..(n - 1) : g[j] = h[j]
        OBVIOUS
      <4>3. g[n] = h[n - 1] \o s[n]
        <5>1. n \in 1..n
          OBVIOUS
        <5>2. QED
          BY <3>2, <5>1
      <4>4. CASE i = n
        <5>1. n - 1 \in 1..(n - 1)
          BY <3>2
        <5>2. QED
          BY <3>2, <4>2, <4>3, <4>4, <5>1
      <4>5. CASE i # n
        <5>1. i \in 1..(n - 1) /\ (i # 1 => i - 1 \in 1..(n - 1))
          BY <4>5
        <5>2. QED
          BY <4>1, <4>2, <5>1
      <4>6. QED
        BY <4>4, <4>5
    <3>3. QED
      BY <3>1, <3>2
  <2>3. Streams(g, s, n)
    BY <2>2 DEF Streams
  <2>4. QED
    BY <2>3
<1>2. CASE N = 0
  <2>1. Streams([i \in 1..0 |-> 0], s, 0)
    BY DEF Streams
  <2>2. QED
    BY <1>2, <2>1
<1>3. CASE N # 0
  <2>1. Good = 1..N
    BY <1>1, Grows
  <2>2. QED
    BY <1>3, <2>1
<1>4. QED
  BY <1>2, <1>3

\* s and t begin with the same k elements.
Alike(s, t, k) == \A i \in 1..k : s[i] = t[i]

\* The streams of two sequences that begin alike begin alike.
LEMMA StreamsAgree ==
  ASSUME NEW s, NEW t, NEW n \in Nat, NEW k \in 0..n, NEW g, NEW h,
         Streams(g, s, n), Streams(h, t, k), Alike(s, t, k)
  PROVE  Alike(g, h, k)
<1> DEFINE Good == {i \in 1..k : g[i] = h[i]}
<1>1. ASSUME NEW i \in 1..k, \A j \in 1..(i - 1) : j \in Good
      PROVE  i \in Good
  <2>1. /\ g[i] = IF i = 1 THEN s[i] ELSE g[i - 1] \o s[i]
        /\ h[i] = IF i = 1 THEN t[i] ELSE h[i - 1] \o t[i]
    <3>1. i \in 1..k /\ i \in 1..n
      OBVIOUS
    <3>2. QED
      BY <3>1 DEF Streams
  <2>2. i # 1 => g[i - 1] = h[i - 1]
    <3>1. i # 1 => i - 1 \in 1..(i - 1)
      OBVIOUS
    <3>2. QED
      BY <1>1, <3>1
  <2>3. QED
    BY <2>1, <2>2 DEF Alike
<1>2. QED
  <2>1. k \in Nat /\ Good \in SUBSET (1..k)
    OBVIOUS
  <2>2. Good = 1..k
    BY <1>1, <2>1, Grows
  <2>3. QED
    BY <2>2 DEF Alike

\* The last of the streams is the stream of the sequence.
LEMMA FlattenIs ==
  ASSUME NEW S, NEW s \in Seq(S), s # <<>>, NEW g, Streams(g, s, Len(s))
  PROVE  FlattenSeq(s) = g[Len(s)]
<1> DEFINE f == CHOOSE f : f = [i \in 1..Len(s) |->
                       IF i = 1 THEN s[i] ELSE f[i - 1] \o s[i]]
<1>1. Len(s) \in Nat /\ Len(s) # 0
  OBVIOUS
<1>2. FlattenSeq(s) = f[Len(s)]
  BY <1>1 DEF FlattenSeq
<1>3. Streams(f, s, Len(s))
  BY <1>1, StreamsExist DEF Streams
<1>4. f[Len(s)] = g[Len(s)]
  <2> HIDE DEF f
  <2>1. Alike(s, s, Len(s)) /\ Len(s) \in 0..Len(s)
    BY <1>1 DEF Alike
  <2>2. Alike(f, g, Len(s))
    BY <1>1, <1>3, <2>1, StreamsAgree
  <2>3. QED
    BY <1>1, <2>2 DEF Alike
<1>5. QED
  BY <1>2, <1>4

\* What has been sent is a stream of bytes.
LEMMA FlattenType ==
  ASSUME NEW S, NEW s \in Seq(Seq(S))
  PROVE  FlattenSeq(s) \in Seq(S)
<1>1. CASE s = <<>>
  <2>1. FlattenSeq(s) = <<>>
    BY <1>1 DEF FlattenSeq
  <2>2. QED
    BY <2>1
<1>2. CASE s # <<>>
  <2>1. Len(s) \in Nat /\ Len(s) # 0 /\ \A i \in 1..Len(s) : s[i] \in Seq(S)
    BY <1>2
  <2>2. PICK g : Streams(g, s, Len(s))
    BY <2>1, StreamsExist
  <2> DEFINE Good == {i \in 1..Len(s) : g[i] \in Seq(S)}
  <2>3. ASSUME NEW i \in 1..Len(s), \A j \in 1..(i - 1) : j \in Good
        PROVE  i \in Good
    <3>1. g[i] = IF i = 1 THEN s[i] ELSE g[i - 1] \o s[i]
      BY <2>2 DEF Streams
    <3>2. CASE i = 1
      BY <2>1, <3>1, <3>2
    <3>3. CASE i # 1
      <4>1. i - 1 \in 1..(i - 1)
        BY <3>3
      <4>2. g[i - 1] \in Seq(S) /\ s[i] \in Seq(S)
        BY <2>1, <2>3, <4>1
      <4>3. QED
        BY <3>1, <3>3, <4>2, ConcatProperties
    <3>4. QED
      BY <3>2, <3>3
  <2>4. Good = 1..Len(s)
    BY <2>1, <2>3, Grows
  <2>5. g[Len(s)] \in Seq(S)
    BY <2>1, <2>4
  <2>6. QED
    BY <1>2, <2>2, <2>5, FlattenIs
<1>3. QED
  BY <1>1, <1>2

\* A packet more is the bytes of one packet more.
LEMMA FlattenAppend ==
  ASSUME NEW S, NEW s \in Seq(Seq(S)), NEW p \in Seq(S)
  PROVE  FlattenSeq(Append(s, p)) = FlattenSeq(s) \o p
<1> DEFINE t == Append(s, p)
<1>1. /\ t \in Seq(Seq(S)) /\ t # <<>> /\ Len(t) = Len(s) + 1
      /\ Len(s) \in Nat /\ Len(t) \in Nat /\ t[Len(t)] = p
      /\ Len(t) \in 1..Len(t)
      /\ \A i \in 1..Len(s) : t[i] = s[i]
  BY AppendProperties
<1> HIDE DEF t
<1>2. PICK g : Streams(g, t, Len(t))
  BY <1>1, StreamsExist
<1>3. FlattenSeq(t) = g[Len(t)]
  BY <1>1, <1>2, FlattenIs
<1>4. g[Len(t)] = IF Len(t) = 1 THEN p ELSE g[Len(t) - 1] \o p
  BY <1>1, <1>2 DEF Streams
<1>5. CASE s = <<>>
  <2>1. FlattenSeq(s) = <<>> /\ Len(t) = 1
    BY <1>1, <1>5 DEF FlattenSeq
  <2>2. <<>> \o p = p
    BY ConcatEmptySeq
  <2>3. QED
    BY <1>3, <1>4, <2>1, <2>2 DEF t
<1>6. CASE s # <<>>
  <2>1. Len(s) # 0
    BY <1>6
  <2>2. PICK h : Streams(h, s, Len(s))
    BY <1>1, StreamsExist
  <2>3. FlattenSeq(s) = h[Len(s)]
    BY <1>6, <2>2, FlattenIs
  <2>4. g[Len(s)] = h[Len(s)]
    <3>1. Len(s) \in 0..Len(t)
      BY <1>1
    <3>2. Alike(t, s, Len(s)) /\ Len(t) \in Nat
      BY <1>1 DEF Alike
    <3>3. Alike(g, h, Len(s))
      BY <1>2, <2>2, <3>1, <3>2, StreamsAgree
    <3>4. QED
      BY <1>1, <2>1, <3>3 DEF Alike
  <2>5. Len(t) # 1 /\ Len(t) - 1 = Len(s)
    BY <1>1, <2>1
  <2>6. QED
    BY <1>3, <1>4, <2>3, <2>4, <2>5 DEF t
<1>7. QED
  BY <1>5, <1>6

\* The first packet is the beginning of the bytes.
LEMMA FlattenHead ==
  ASSUME NEW S, NEW s \in Seq(Seq(S)), s # <<>>
  PROVE  FlattenSeq(s) = Head(s) \o FlattenSeq(Tail(s))
<1> DEFINE t == Tail(s)
<1>1. /\ t \in Seq(Seq(S)) /\ Len(t) = Len(s) - 1
      /\ Len(s) \in Nat /\ Len(t) \in Nat /\ Head(s) = s[1]
      /\ Head(s) \in Seq(S)
      /\ \A i \in 1..Len(t) : t[i] = s[i + 1]
      /\ \A i \in 1..Len(s) : s[i] \in Seq(S)
  BY HeadTailProperties
<1>2. Head(s) = s[1] /\ Len(s) # 0
  BY <1>1
<1> HIDE DEF t
<1>3. PICK g : Streams(g, s, Len(s))
  BY <1>1, StreamsExist
<1>4. FlattenSeq(s) = g[Len(s)]
  BY <1>3, FlattenIs
<1>5. g[1] = s[1] /\ \A i \in 2..Len(s) : g[i] = g[i - 1] \o s[i]
  <2>1. \A i \in 1..Len(s) : g[i] = IF i = 1 THEN s[i] ELSE g[i - 1] \o s[i]
    BY <1>3 DEF Streams
  <2>2. 1 \in 1..Len(s) /\ \A i \in 2..Len(s) : i \in 1..Len(s) /\ i # 1
    BY <1>1, <1>2
  <2>3. QED
    BY <2>1, <2>2
<1>6. CASE t = <<>>
  <2>1. Len(s) = 1 /\ FlattenSeq(t) = <<>>
    BY <1>1, <1>6 DEF FlattenSeq
  <2>2. Head(s) \o <<>> = Head(s)
    BY <1>1, ConcatEmptySeq
  <2>3. QED
    BY <1>1, <1>4, <1>5, <2>1, <2>2 DEF t
<1>7. CASE t # <<>>
  <2>1. PICK h : Streams(h, t, Len(t))
    BY <1>1, StreamsExist
  <2>2. FlattenSeq(t) = h[Len(t)]
    BY <1>1, <1>7, <2>1, FlattenIs
  <2>3. \A i \in 1..Len(t) : h[i] = IF i = 1 THEN t[i] ELSE h[i - 1] \o t[i]
    BY <2>1 DEF Streams
  <2> DEFINE Good == {i \in 1..Len(t) :
                        h[i] \in Seq(S) /\ g[i + 1] = s[1] \o h[i]}
  <2>4. ASSUME NEW i \in 1..Len(t), \A j \in 1..(i - 1) : j \in Good
        PROVE  i \in Good
    <3>1. /\ i + 1 \in 2..Len(s) /\ t[i] = s[i + 1] /\ t[i] \in Seq(S)
          /\ (i + 1) - 1 = i
      BY <1>1
    <3>2. g[i + 1] = g[i] \o t[i]
      BY <1>5, <3>1
    <3>3. CASE i = 1
      BY <1>5, <2>3, <3>1, <3>2, <3>3
    <3>4. CASE i # 1
      <4>1. i - 1 \in 1..(i - 1) /\ (i - 1) + 1 = i
        BY <3>4
      <4>2. h[i - 1] \in Seq(S) /\ g[i] = s[1] \o h[i - 1]
        BY <2>4, <4>1
      <4>3. h[i] = h[i - 1] \o t[i]
        BY <2>3, <3>4
      <4>4. (s[1] \o h[i - 1]) \o t[i] = s[1] \o (h[i - 1] \o t[i])
        <5>1. s[1] \in Seq(S)
          BY <1>1, <1>2
        <5>2. t[i] \in Seq(S) /\ h[i - 1] \in Seq(S)
          BY <3>1, <4>2
        <5>3. PICK a \in Seq(S), b \in Seq(S), c \in Seq(S) :
                a = s[1] /\ b = h[i - 1] /\ c = t[i]
          BY <5>1, <5>2
        <5>4. (a \o b) \o c = a \o (b \o c)
          OBVIOUS
        <5>5. QED
          BY <5>3, <5>4
      <4>5. h[i - 1] \o t[i] \in Seq(S)
        BY <3>1, <4>2, ConcatProperties
      <4>6. QED
        BY <3>2, <4>2, <4>3, <4>4, <4>5
    <3>5. QED
      BY <3>3, <3>4
  <2>5. Good = 1..Len(t)
    BY <1>1, <2>4, Grows
  <2>6. Len(t) \in 1..Len(t) /\ Len(t) + 1 = Len(s)
    BY <1>1, <1>7
  <2>7. g[Len(s)] = s[1] \o h[Len(t)]
    BY <2>5, <2>6
  <2>8. QED
    BY <1>1, <1>4, <2>2, <2>7 DEF t
<1>8. QED
  BY <1>6, <1>7

\* The part of a sequence from i to n.
LEMMA SubSeqIs ==
  ASSUME NEW S, NEW s \in Seq(S), NEW n \in 0..Len(s), NEW i \in 1..(n + 1)
  PROVE  /\ SubSeq(s, i, n) \in Seq(S)
         /\ Len(SubSeq(s, i, n)) = n - i + 1
         /\ \A j \in 1..(n - i + 1) : SubSeq(s, i, n)[j] = s[i + j - 1]
<1>1. \A j \in i..n : s[j] \in S
  OBVIOUS
<1>2. i \in Int /\ n \in Int /\ (IF i <= n THEN n - i + 1 ELSE 0) = n - i + 1
  OBVIOUS
<1>3. /\ SubSeq(s, i, n) \in Seq(S)
      /\ Len(SubSeq(s, i, n)) = IF i <= n THEN n - i + 1 ELSE 0
      /\ \A j \in 1..(n - i + 1) : SubSeq(s, i, n)[j] = s[i + j - 1]
  BY <1>1, <1>2, SubSeqProperties
<1>4. QED
  BY <1>2, <1>3

\* A later part of a sequence grows with the sequence.
LEMMA SubSeqAppend ==
  ASSUME NEW S, NEW s \in Seq(S), NEW x \in S, NEW i \in 1..(Len(s) + 1)
  PROVE  SubSeq(Append(s, x), i, Len(s) + 1)
           = Append(SubSeq(s, i, Len(s)), x)
<1>1. PICK n, t : n = Len(s) /\ t = Append(s, x)
  OBVIOUS
<1>2. PICK w : w = SubSeq(s, i, n)
  OBVIOUS
<1>3. PICK v : v = SubSeq(t, i, n + 1)
  OBVIOUS
<1>4. PICK a : a = Append(w, x)
  OBVIOUS
<1>5. /\ n \in Nat /\ t \in Seq(S) /\ Len(t) = n + 1 /\ t[n + 1] = x
      /\ \A j \in 1..n : t[j] = s[j]
  BY <1>1, AppendProperties
<1>6. /\ w \in Seq(S) /\ Len(w) = n - i + 1
      /\ \A j \in 1..(n - i + 1) : w[j] = s[i + j - 1]
  BY <1>1, <1>2, <1>5, SubSeqIs
<1>7. /\ v \in Seq(S) /\ Len(v) = n + 1 - i + 1
      /\ \A j \in 1..(n + 1 - i + 1) : v[j] = t[i + j - 1]
  <2>1. n + 1 \in 0..Len(t) /\ i \in 1..(n + 1 + 1)
    BY <1>1, <1>5
  <2>2. QED
    BY <1>3, <1>5, <2>1, SubSeqIs
<1>8. /\ a \in Seq(S) /\ Len(a) = Len(w) + 1 /\ a[Len(w) + 1] = x
      /\ \A j \in 1..Len(w) : a[j] = w[j]
  BY <1>4, <1>6, AppendProperties
<1>9. v = a
  <2>1. Len(v) = Len(a)
    BY <1>1, <1>5, <1>6, <1>7, <1>8
  <2>2. ASSUME NEW j \in 1..Len(v)
        PROVE  v[j] = a[j]
    <3>1. v[j] = t[i + j - 1]
      BY <1>7
    <3>2. CASE j = Len(w) + 1
      <4>1. i + j - 1 = n + 1
        BY <1>1, <1>5, <1>6, <3>2
      <4>2. QED
        BY <1>5, <1>8, <3>1, <3>2, <4>1
    <3>3. CASE j # Len(w) + 1
      <4>1. j \in 1..Len(w) /\ i + j - 1 \in 1..n
        BY <1>1, <1>5, <1>6, <1>7, <3>3
      <4>2. a[j] = s[i + j - 1]
        BY <1>6, <1>8, <4>1
      <4>3. QED
        BY <1>5, <3>1, <4>1, <4>2
    <3>4. QED
      BY <3>2, <3>3
  <2>3. QED
    BY <1>7, <1>8, <2>1, <2>2, SeqEqual
<1>10. QED
  BY <1>1, <1>2, <1>3, <1>4, <1>9

\* What is appended to the second of two sequences is appended to both.
LEMMA AppendJoins ==
  ASSUME NEW S, NEW a \in Seq(S), NEW b \in Seq(S), NEW x \in S
  PROVE  a \o Append(b, x) = Append(a \o b, x)
<1>1. PICK u : u = a \o Append(b, x)
  OBVIOUS
<1>2. PICK v : v = Append(a \o b, x)
  OBVIOUS
<1>3. u \in Seq(S) /\ v \in Seq(S) /\ Len(u) = Len(v)
  BY <1>1, <1>2
<1>4. \A i \in 1..Len(u) : u[i] = v[i]
  BY <1>1, <1>2
<1>5. QED
  BY <1>1, <1>2, <1>3, <1>4, SeqEqual

\* The first n elements and the next are the first n + 1.
LEMMA SubSeqNext ==
  ASSUME NEW S, NEW s \in Seq(S), NEW n \in 0..Len(s), n < Len(s)
  PROVE  Append(SubSeq(s, 1, n), s[n + 1]) = SubSeq(s, 1, n + 1)
<1>1. PICK f : f = SubSeq(s, 1, n)
  OBVIOUS
<1>2. PICK g : g = SubSeq(s, 1, n + 1)
  OBVIOUS
<1>3. f \in Seq(S) /\ Len(f) = n /\ \A j \in 1..n : f[j] = s[j]
  BY <1>1
<1>4. g \in Seq(S) /\ Len(g) = n + 1 /\ \A j \in 1..(n + 1) : g[j] = s[j]
  BY <1>2
<1>5. PICK a : a = Append(f, s[n + 1])
  OBVIOUS
<1>6. a \in Seq(S) /\ Len(a) = n + 1 /\ \A j \in 1..(n + 1) : a[j] = s[j]
  BY <1>3, <1>5
<1>7. a = g
  BY <1>4, <1>6, SeqEqual
<1>8. QED
  BY <1>1, <1>2, <1>5, <1>7

\* A sequence of bytes cut in two.
LEMMA SplitAt ==
  ASSUME NEW B, NEW s \in Seq(B), NEW n \in 1..Len(s), NEW f, NEW r,
         f = SubSeq(s, 1, n), r = SubSeq(s, n + 1, Len(s))
  PROVE  f \in Seq(B) /\ r \in Seq(B) /\ f \o r = s
<1>1. /\ f \in Seq(B) /\ Len(f) = n
      /\ \A i \in 1..n : f[i] = s[i]
  OBVIOUS
<1>2. /\ r \in Seq(B) /\ Len(r) = Len(s) - n
      /\ \A i \in 1..Len(r) : r[i] = s[n + i]
  OBVIOUS
<1>3. PICK x : x = f \o r
  OBVIOUS
<1>4. x \in Seq(B) /\ Len(x) = Len(s)
  <2>1. x \in Seq(B) /\ Len(x) = Len(f) + Len(r)
    BY <1>1, <1>2, <1>3, ConcatProperties
  <2>2. QED
    BY <1>1, <1>2, <2>1
<1>5. ASSUME NEW i \in 1..Len(s)
      PROVE  x[i] = s[i]
  <2>1. CASE i <= n
    BY <1>1, <1>2, <1>3, <2>1
  <2>2. CASE i > n
    <3>1. i - n \in 1..Len(r) /\ n + (i - n) = i
      BY <1>2, <2>2
    <3>2. x[i] = r[i - n]
      BY <1>1, <1>2, <1>3, <2>2
    <3>3. QED
      BY <1>2, <3>1, <3>2
  <2>3. QED
    BY <2>1, <2>2
<1>6. x = s
  BY <1>4, <1>5, SeqEqual
<1>7. QED
  BY <1>1, <1>2, <1>3, <1>6

-----------------------------------------------------------------------------
(* The packet a sequence of bytes begins with. *)

\* Bytes with a valid header and an end begin with a packet that ends at its
\* end only, GetEndOfPacket gives its size, and what is left over follows it.
LEMMA FirstIsWhole ==
  ASSUME NEW bytes \in Seq(Byte), IsValidHeader(bytes), Ends(bytes) # {}
  PROVE  /\ PacketSize(bytes) \in Ends(bytes)
         /\ \A m \in Ends(bytes) : PacketSize(bytes) <= m
         /\ First(bytes) \in Seq(Byte) /\ Rest(bytes) \in Seq(Byte)
         /\ bytes = First(bytes) \o Rest(bytes)
         /\ Len(First(bytes)) = PacketSize(bytes)
         /\ Len(First(bytes)) > PACKET_HEAD_SIZE
         /\ IsValidHeader(First(bytes))
         /\ Ends(First(bytes)) = {Len(First(bytes))}
<1>1. \E n \in Ends(bytes) : \A m \in Ends(bytes) : n <= m
  <2>1. Ends(bytes) \in SUBSET Nat
    BY DEF Ends
  <2>2. QED
    BY <2>1, LeastElement
<1>2. PICK n : n = PacketSize(bytes)
  OBVIOUS
<1>3. n \in Ends(bytes) /\ \A m \in Ends(bytes) : n <= m
  BY <1>1, <1>2 DEF PacketSize
<1>4. n \in 2..Len(bytes) /\ bytes[n - 1] = "e1" /\ bytes[n] = "e2"
  BY <1>3 DEF Ends
<1>5. n > 2
  BY <1>4 DEF IsValidHeader
<1>6. PICK f : f = First(bytes)
  OBVIOUS
<1>7. f = SubSeq(bytes, 1, n)
  BY <1>2, <1>6 DEF First
<1>8. /\ f \in Seq(Byte) /\ Len(f) = n
      /\ \A i \in 1..n : f[i] = bytes[i]
  BY <1>4, <1>7
<1>9. PICK r : r = Rest(bytes)
  OBVIOUS
<1>10. r = SubSeq(bytes, n + 1, Len(bytes))
  BY <1>2, <1>9 DEF Rest
<1>11. r \in Seq(Byte)
  BY <1>4, <1>10
<1>12. bytes = f \o r
  <2>1. n \in 1..Len(bytes)
    BY <1>4
  <2>2. QED
    BY <1>7, <1>10, <2>1, SplitAt
<1>13. IsValidHeader(f)
  BY <1>5, <1>8 DEF IsValidHeader
<1>14. Ends(f) = {n}
  <2>1. Ends(f) \subseteq Ends(bytes)
    BY <1>4, <1>8 DEF Ends
  <2>2. n \in Ends(f)
    BY <1>4, <1>8 DEF Ends
  <2>3. \A m \in Ends(f) : m \in Nat /\ m <= n
    BY <1>4, <1>8 DEF Ends
  <2>4. \A m \in Ends(f) : m = n
    BY <1>3, <1>4, <2>1, <2>3
  <2>5. QED
    BY <2>2, <2>4
<1>15. QED
  BY <1>2, <1>3, <1>5, <1>6, <1>8, <1>9, <1>11, <1>12, <1>13, <1>14
     DEF PACKET_HEAD_SIZE

\* The bytes read and more to come are a packet and what comes later.
Joined(bytes, more, p, later) == bytes \o more = p \o later

\* The bytes of a stream of legal packets that have come begin with a packet
\* that is not whole: then they have a valid header, if they are long enough to
\* have one, and no end.
LEMMA BeginsShort ==
  ASSUME NEW p \in Seq(Byte), Legal(p), NEW bytes \in Seq(Byte),
         NEW more \in Seq(Byte), NEW later \in Seq(Byte),
         Joined(bytes, more, p, later), Len(bytes) < Len(p)
  PROVE  /\ Len(bytes) < MAX_BUFF_SIZE
         /\ Ends(bytes) = {}
         /\ Len(bytes) >= PACKET_HEAD_SIZE => IsValidHeader(bytes)
<1>1. \A i \in 1..Len(bytes) : bytes[i] = p[i]
  <2>1. ASSUME NEW i \in 1..Len(bytes)
        PROVE  bytes[i] = p[i]
    <3>1. (bytes \o more)[i] = bytes[i] /\ (p \o later)[i] = p[i]
      OBVIOUS
    <3>2. QED
      BY <3>1 DEF Joined
  <2>2. QED
    BY <2>1
<1>2. Ends(bytes) \subseteq Ends(p)
  <2>1. ASSUME NEW n \in Ends(bytes)
        PROVE  n \in Ends(p)
    <3>1. n \in 2..Len(bytes) /\ bytes[n - 1] = "e1" /\ bytes[n] = "e2"
      BY DEF Ends
    <3>2. n \in 1..Len(bytes) /\ n - 1 \in 1..Len(bytes) /\ n \in 2..Len(p)
      BY <3>1
    <3>3. QED
      BY <1>1, <3>1, <3>2 DEF Ends
  <2>2. QED
    BY <2>1
<1>3. Len(p) \notin Ends(bytes)
  BY DEF Ends
<1>4. QED
  BY <1>1, <1>2, <1>3, BuffAssumption
     DEF Legal, IsValidHeader, PACKET_HEAD_SIZE

\* They begin with a whole packet: then it is found, and what is left over is
\* what comes after it.
LEMMA BeginsWhole ==
  ASSUME NEW p \in Seq(Byte), Legal(p), NEW bytes \in Seq(Byte),
         NEW more \in Seq(Byte), NEW later \in Seq(Byte),
         Joined(bytes, more, p, later), Len(bytes) >= Len(p)
  PROVE  /\ IsValidHeader(bytes) /\ Ends(bytes) # {}
         /\ First(bytes) = p /\ Rest(bytes) \o more = later
<1>1. \A i \in 1..Len(p) : bytes[i] = p[i]
  <2>1. ASSUME NEW i \in 1..Len(p)
        PROVE  bytes[i] = p[i]
    <3>1. (bytes \o more)[i] = bytes[i] /\ (p \o later)[i] = p[i]
      OBVIOUS
    <3>2. QED
      BY <3>1 DEF Joined
  <2>2. QED
    BY <2>1
<1>2. Len(p) \in Ends(p) /\ Ends(p) = {Len(p)}
  BY DEF Legal
<1>3. Len(p) \in 2..Len(p)
  BY <1>2 DEF Ends
<1>4. IsValidHeader(bytes)
  BY <1>1, <1>3 DEF Legal, IsValidHeader
<1>5. Len(p) \in Ends(bytes)
  <2>1. p[Len(p) - 1] = "e1" /\ p[Len(p)] = "e2"
    BY <1>2 DEF Ends
  <2>2. /\ Len(p) \in 1..Len(p) /\ Len(p) - 1 \in 1..Len(p)
        /\ Len(p) \in 2..Len(bytes)
    BY <1>3
  <2>3. QED
    BY <1>1, <2>1, <2>2 DEF Ends
<1>6. PICK n : n = PacketSize(bytes)
  OBVIOUS
<1>7. n \in Ends(bytes) /\ \A m \in Ends(bytes) : n <= m
  BY <1>4, <1>5, <1>6, FirstIsWhole
<1>8. n = Len(p)
  <2>1. n \in Nat /\ n <= Len(p)
    BY <1>5, <1>7 DEF Ends
  <2>2. n \in Ends(p)
    <3>1. n \in 2..Len(bytes) /\ bytes[n - 1] = "e1" /\ bytes[n] = "e2"
      BY <1>7 DEF Ends
    <3>2. n \in 1..Len(p) /\ n - 1 \in 1..Len(p) /\ n \in 2..Len(p)
      BY <2>1, <3>1
    <3>3. QED
      BY <1>1, <3>1, <3>2 DEF Ends
  <2>3. QED
    BY <1>2, <2>2
<1>9. PICK f : f = First(bytes)
  OBVIOUS
<1>10. PICK r : r = Rest(bytes)
  OBVIOUS
<1>11. /\ f \in Seq(Byte) /\ r \in Seq(Byte) /\ Len(f) = Len(p)
       /\ bytes = f \o r
  BY <1>4, <1>5, <1>6, <1>8, <1>9, <1>10, FirstIsWhole
<1>12. f = p
  <2>1. \A i \in 1..Len(p) : f[i] = p[i]
    BY <1>1, <1>11
  <2>2. QED
    BY <1>11, <2>1, SeqEqual
<1>13. p \o (r \o more) = p \o later
  <2>1. (p \o r) \o more = p \o (r \o more)
    BY <1>11, Associative
  <2>2. QED
    BY <1>11, <1>12, <2>1 DEF Joined
<1>14. r \o more = later
  <2>1. PICK x : x = r \o more
    OBVIOUS
  <2>2. x \in Seq(Byte)
    BY <1>11, <2>1
  <2>3. p \o x = p \o later
    BY <1>13, <2>1
  <2>4. x = later
    BY <2>2, <2>3, Cancel
  <2>5. QED
    BY <2>1, <2>4
<1>15. QED
  BY <1>4, <1>5, <1>9, <1>10, <1>12, <1>14

-----------------------------------------------------------------------------
(* The invariants. *)

\* A packet as IsValidHeader and GetEndOfPacket have it.
Whole(p) ==
  /\ Len(p) > PACKET_HEAD_SIZE
  /\ IsValidHeader(p)
  /\ Ends(p) = {Len(p)}

\* Bytes that Parse keeps: no end, and a valid header once they have one.
Begun(bytes) ==
  /\ Ends(bytes) = {}
  /\ Len(bytes) >= PACKET_HEAD_SIZE => IsValidHeader(bytes)

\* Outside the loop no bytes remain, and between two receives no packet waits.
Between ==
  /\ pc # "loop" => remain = <<>>
  /\ pc = "idle" => packetList = <<>>

AllWhole(packets) == \A i \in DOMAIN packets : Whole(packets[i])

IInv ==
  /\ TypeOK
  /\ Between
  /\ AllWhole(processed) /\ AllWhole(packetList)
  /\ Begun(buffer)

\* The bytes of the packets sent after the first n.
Unread(n) == FlattenSeq(SubSeq(sent, n + 1, Len(sent)))

\* The first n packets have been found, and the bytes since are in the session's
\* buffer, in the receive and on the wire.
Parsed(n) ==
  /\ processed \o packetList = SubSeq(sent, 1, n)
  /\ (buffer \o remain) \o wire = Unread(n)
  /\ n < Len(sent) => Len(buffer) < Len(sent[n + 1])

AllLegal == \A i \in DOMAIN sent : Legal(sent[i])

Understood == AllLegal => \E n \in 0..Len(sent) : Parsed(n)

\* What is read from deleted memory is bytes, whether they are its own or not.
LEMMA ReadFreedType ==
  ASSUME NEW bytes \in Seq(Byte), NEW read \in ReadFreed(bytes)
  PROVE  read \in Seq(Byte)
<1>1. Garbage(Len(bytes)) \in Seq(Byte)
  <2>1. Garbage(Len(bytes)) \in [1..Len(bytes) -> Byte] /\ Len(bytes) \in Nat
    BY DEF Garbage, Byte
  <2>2. QED
    BY <2>1, SeqDef
<1>2. QED
  BY <1>1 DEF ReadFreed

\* What the session has kept, with what has come now, is bytes.
LEMMA AppendedType ==
  ASSUME TypeOK
  PROVE  Appended \in Seq(Byte)
BY ConcatProperties DEF TypeOK, Appended

\* A list of whole packets with a whole packet more.
LEMMA OneMore ==
  ASSUME NEW packets \in Seq(Seq(Byte)), NEW p \in Seq(Byte),
         AllWhole(packets), Whole(p)
  PROVE  AllWhole(Append(packets, p))
BY AppendProperties DEF AllWhole

\* Two lists of whole packets, one after the other.
LEMMA BothLists ==
  ASSUME NEW s \in Seq(Seq(Byte)), NEW t \in Seq(Seq(Byte)),
         AllWhole(s), AllWhole(t)
  PROVE  AllWhole(s \o t)
<1>1. ASSUME NEW i \in 1..(Len(s) + Len(t))
      PROVE  Whole((s \o t)[i])
  <2>1. CASE i <= Len(s)
    <3>1. (s \o t)[i] = s[i] /\ i \in DOMAIN s
      BY <2>1
    <3>2. QED
      BY <3>1 DEF AllWhole
  <2>2. CASE i > Len(s)
    <3>1. (s \o t)[i] = t[i - Len(s)] /\ i - Len(s) \in DOMAIN t
      BY <2>2
    <3>2. QED
      BY <3>1 DEF AllWhole
  <2>3. QED
    BY <2>1, <2>2
<1>2. DOMAIN (s \o t) = 1..(Len(s) + Len(t))
  OBVIOUS
<1>3. QED
  BY <1>1, <1>2 DEF AllWhole

\* One iteration of the loop, and every other step, keeps the invariant.
LEMMA Inductive ==
  /\ Init => IInv
  /\ IInv /\ [Next]_vars => IInv'
<1>1. ASSUME Init
      PROVE  IInv
  <2>1. Ends(buffer) = {} /\ Len(buffer) = 0
    BY <1>1 DEF Init, Ends
  <2>2. Begun(buffer) /\ AllWhole(processed) /\ AllWhole(packetList)
    BY <1>1, <2>1 DEF Init, AllWhole, Begun, PACKET_HEAD_SIZE
  <2>3. TypeOK
    <3>1. /\ <<>> \in Seq(Packets) /\ <<>> \in Seq(Byte)
          /\ <<>> \in Seq(Seq(Byte))
      OBVIOUS
    <3>2. QED
      BY <1>1, <3>1 DEF Init, TypeOK
  <2>4. QED
    BY <1>1, <2>2, <2>3 DEF Init, IInv, Between
<1>2. ASSUME IInv, [Next]_vars
      PROVE  IInv'
  <2>1. /\ sent \in Seq(Packets) /\ wire \in Seq(Byte)
        /\ buffer \in Seq(Byte) /\ remain \in Seq(Byte)
        /\ packetList \in Seq(Seq(Byte)) /\ processed \in Seq(Seq(Byte))
        /\ temporary \in BOOLEAN
        /\ pc \in {"idle", "loop", "process"}
    BY <1>2 DEF IInv, TypeOK
  <2>2. Appended \in Seq(Byte)
    BY <1>2, AppendedType DEF IInv
  <2>3. Begun(<<>>)
    BY DEF Begun, Ends, PACKET_HEAD_SIZE
  <2>4. ASSUME NEW p \in Packets, Send(p)
        PROVE  IInv'
    <3>1. p \in Seq(Byte)
      BY PacketsAssumption
    <3>2. sent' \in Seq(Packets) /\ wire' \in Seq(Byte)
      BY <2>1, <2>4, <3>1, ConcatProperties, AppendProperties DEF Send
    <3>3. QED
      BY <1>2, <2>4, <3>2 DEF Send, IInv, TypeOK, Between
  <2>5. ASSUME NEW n \in 1..MAX_BUFF_SIZE, Receive(n)
        PROVE  IInv'
    <3>1. remain' \in Seq(Byte) /\ wire' \in Seq(Byte)
      BY <2>1, <2>5 DEF Receive
    <3>2. QED
      BY <1>2, <2>5, <3>1 DEF Receive, IInv, TypeOK, Between
  <2>6. CASE KeepAppended
    <3>1. buffer' \in Seq(Byte) /\ Begun(buffer')
      BY <2>2, <2>3, <2>6 DEF KeepAppended, Begun
    <3>2. /\ pc' = "process" /\ remain' = <<>> /\ temporary' = FALSE
          /\ sent' = sent /\ wire' = wire
          /\ packetList' = packetList /\ processed' = processed
      BY <2>6 DEF KeepAppended, Leave
    <3>3. TypeOK'
      <4>1. <<>> \in Seq(Byte) /\ FALSE \in BOOLEAN
        OBVIOUS
      <4>2. QED
        BY <2>1, <3>1, <3>2, <4>1, Zenon DEF TypeOK
    <3>4. QED
      BY <1>2, <3>1, <3>2, <3>3 DEF IInv, Between
  <2>7. CASE FinishAppended
    <3>1. /\ First(Appended) \in Seq(Byte) /\ Rest(Appended) \in Seq(Byte)
          /\ Whole(First(Appended))
      BY <2>2, <2>7, FirstIsWhole DEF FinishAppended, Whole
    <3>2. packetList' \in Seq(Seq(Byte)) /\ AllWhole(packetList')
      BY <1>2, <2>1, <2>7, <3>1, OneMore, AppendProperties
         DEF FinishAppended, IInv
    <3>3. QED
      BY <1>2, <2>3, <2>7, <3>1, <3>2
         DEF FinishAppended, IInv, TypeOK, Between
  <2>8. CASE KeepFresh
    <3>1. buffer' \in Seq(Byte) /\ Begun(buffer')
      <4>1. Len(remain) < PACKET_HEAD_SIZE => Begun(remain)
        BY <2>1 DEF Begun, Ends, PACKET_HEAD_SIZE
      <4>2. Len(remain) \in Nat /\ PACKET_HEAD_SIZE \in Nat
        BY <2>1 DEF PACKET_HEAD_SIZE
      <4>3. QED
        BY <2>1, <2>3, <2>8, <4>1, <4>2 DEF KeepFresh, Begun
    <3>2. QED
      BY <1>2, <2>8, <3>1 DEF KeepFresh, Leave, IInv, TypeOK, Between
  <2>9. CASE FinishFresh
    <3>1. /\ First(remain) \in Seq(Byte) /\ Rest(remain) \in Seq(Byte)
          /\ Whole(First(remain))
      BY <2>1, <2>9, FirstIsWhole DEF FinishFresh, Whole
    <3>2. packetList' \in Seq(Seq(Byte)) /\ AllWhole(packetList')
      BY <1>2, <2>1, <2>9, <3>1, OneMore, AppendProperties
         DEF FinishFresh, IInv
    <3>3. remain' \in Seq(Byte)
      BY <2>9, <3>1, ReadFreedType DEF FinishFresh
    <3>4. QED
      BY <1>2, <2>9, <3>2, <3>3 DEF FinishFresh, IInv, TypeOK, Between
  <2>10. CASE LoopDone
    BY <1>2, <2>10 DEF LoopDone, Leave, IInv, TypeOK, Between
  <2>11. CASE Process
    <3>1. processed' \in Seq(Seq(Byte)) /\ AllWhole(processed')
      BY <1>2, <2>1, <2>11, BothLists, ConcatProperties DEF Process, IInv
    <3>2. packetList' = <<>> /\ AllWhole(<<>>)
      BY <2>11 DEF Process, AllWhole
    <3>3. QED
      BY <1>2, <2>11, <3>1, <3>2 DEF Process, IInv, TypeOK, Between
  <2>12. CASE UNCHANGED vars
    BY <1>2, <2>12 DEF vars, IInv, TypeOK, Between
  <2>13. QED
    BY <1>2, <2>4, <2>5, <2>6, <2>7, <2>8, <2>9, <2>10, <2>11, <2>12
       DEF Next
<1>3. QED
  BY <1>1, <1>2

-----------------------------------------------------------------------------
(* What a client that sends legal packets is understood to say. *)

\* The packets sent from one on are packets.
LEMMA UnreadType ==
  ASSUME TypeOK, NEW n \in 0..Len(sent)
  PROVE  /\ SubSeq(sent, n + 1, Len(sent)) \in Seq(Seq(Byte))
         /\ Unread(n) \in Seq(Byte)
<1>1. sent \in Seq(Seq(Byte))
  BY PacketsAssumption DEF TypeOK
<1>2. SubSeq(sent, n + 1, Len(sent)) \in Seq(Seq(Byte))
  BY <1>1
<1>3. QED
  BY <1>2, FlattenType DEF Unread

\* The bytes that have not been read yet begin with the next packet.
LEMMA UnreadNext ==
  ASSUME TypeOK, NEW n \in 0..Len(sent)
  PROVE  /\ n = Len(sent) => Unread(n) = <<>>
         /\ n < Len(sent) => /\ sent[n + 1] \in Seq(Byte)
                             /\ Unread(n) = sent[n + 1] \o Unread(n + 1)
<1>1. sent \in Seq(Seq(Byte)) /\ Len(sent) \in Nat
  BY PacketsAssumption DEF TypeOK
<1>2. CASE n = Len(sent)
  <2>1. SubSeq(sent, n + 1, Len(sent)) = <<>>
    BY <1>1, <1>2
  <2>2. Unread(n) = <<>>
    BY <2>1 DEF Unread, FlattenSeq
  <2>3. ~(n < Len(sent))
    BY <1>2
  <2>4. QED
    BY <2>2, <2>3
<1>3. CASE n < Len(sent)
  <2>1. PICK t : t = SubSeq(sent, n + 1, Len(sent))
    OBVIOUS
  <2>2. t \in Seq(Seq(Byte)) /\ t # <<>>
    <3>1. t \in Seq(Seq(Byte))
      BY <2>1, UnreadType
    <3>2. Len(t) = Len(sent) - n
      BY <1>1, <1>3, <2>1
    <3>3. QED
      BY <1>1, <1>3, <3>1, <3>2
  <2>3. /\ n + 1 \in 1..Len(sent) /\ Len(sent) \in (n + 1)..Len(sent)
    BY <1>1, <1>3
  <2>4. /\ Head(t) = sent[n + 1]
        /\ Tail(t) = SubSeq(sent, (n + 1) + 1, Len(sent))
    BY <1>1, <2>1, <2>3, HeadTailOfSubSeq
  <2>5. FlattenSeq(t) = Head(t) \o FlattenSeq(Tail(t))
    BY <2>2, FlattenHead
  <2>6. sent[n + 1] \in Seq(Byte)
    BY <1>1, <2>3
  <2>7. Unread(n) = sent[n + 1] \o Unread(n + 1)
    BY <2>1, <2>4, <2>5, Zenon DEF Unread
  <2>8. n # Len(sent)
    BY <1>1, <1>3
  <2>9. QED
    BY <1>3, <2>6, <2>7, <2>8
<1>4. QED
  BY <1>2, <1>3

\* When the bytes at hand have a header and an end, their first packet is the
\* next that was sent, and what is left over comes after it.
LEMMA FindsNext ==
  ASSUME TypeOK, AllLegal, NEW n \in 0..Len(sent), NEW bytes \in Seq(Byte),
         bytes \o wire = Unread(n), IsValidHeader(bytes), Ends(bytes) # {}
  PROVE  /\ n < Len(sent)
         /\ First(bytes) = sent[n + 1]
         /\ Rest(bytes) \o wire = Unread(n + 1)
<1>1. wire \in Seq(Byte) /\ sent \in Seq(Packets)
  BY DEF TypeOK
<1>2. n < Len(sent)
  <2>1. SUFFICES ASSUME n = Len(sent)
                 PROVE  FALSE
    BY <1>1
  <2>2. bytes \o wire = <<>>
    BY <2>1, UnreadNext
  <2>3. bytes = <<>>
    BY <1>1, <2>2, ConcatEqualIffEmpty
  <2>4. Ends(bytes) = {}
    BY <2>3 DEF Ends
  <2>5. QED
    BY <2>4
<1>3. PICK p : p = sent[n + 1]
  OBVIOUS
<1>4. PICK later : later = Unread(n + 1)
  OBVIOUS
<1>5. /\ p \in Seq(Byte) /\ later \in Seq(Byte)
      /\ Joined(bytes, wire, p, later)
  <2>1. n + 1 \in 0..Len(sent)
    BY <1>1, <1>2
  <2>2. QED
    BY <1>2, <1>3, <1>4, <2>1, UnreadNext, UnreadType DEF Joined
<1>6. Legal(p)
  BY <1>1, <1>2, <1>3 DEF AllLegal
<1>7. Len(bytes) >= Len(p)
  <2>1. Len(bytes) \in Nat /\ Len(p) \in Nat
    BY <1>5
  <2>2. SUFFICES ASSUME Len(bytes) < Len(p)
                 PROVE  FALSE
    BY <2>1
  <2>3. Ends(bytes) = {}
    BY <1>1, <1>5, <1>6, <2>2, BeginsShort
  <2>4. QED
    BY <2>3
<1>8. QED
  BY <1>1, <1>2, <1>3, <1>4, <1>5, <1>6, <1>7, BeginsWhole

\* When they have not, they are the beginning of the next packet that was sent,
\* and the buffer is not full.
LEMMA AwaitsMore ==
  ASSUME TypeOK, AllLegal, NEW n \in 0..Len(sent), NEW bytes \in Seq(Byte),
         bytes \o wire = Unread(n), bytes # <<>>,
         Len(bytes) >= PACKET_HEAD_SIZE =>
           ~IsValidHeader(bytes) \/ Ends(bytes) = {}
  PROVE  /\ n < Len(sent)
         /\ Len(bytes) < Len(sent[n + 1])
         /\ Len(bytes) < MAX_BUFF_SIZE
         /\ Len(bytes) >= PACKET_HEAD_SIZE => IsValidHeader(bytes)
<1>1. wire \in Seq(Byte) /\ sent \in Seq(Packets)
  BY DEF TypeOK
<1>2. n < Len(sent)
  <2>1. SUFFICES ASSUME n = Len(sent)
                 PROVE  FALSE
    BY <1>1
  <2>2. bytes \o wire = <<>>
    BY <2>1, UnreadNext
  <2>3. QED
    BY <1>1, <2>2, ConcatEqualIffEmpty
<1>3. PICK p : p = sent[n + 1]
  OBVIOUS
<1>4. PICK later : later = Unread(n + 1)
  OBVIOUS
<1>5. /\ p \in Seq(Byte) /\ later \in Seq(Byte)
      /\ Joined(bytes, wire, p, later)
  <2>1. n + 1 \in 0..Len(sent)
    BY <1>1, <1>2
  <2>2. QED
    BY <1>2, <1>3, <1>4, <2>1, UnreadNext, UnreadType DEF Joined
<1>6. Legal(p)
  BY <1>1, <1>2, <1>3 DEF AllLegal
<1>7. Len(bytes) < Len(p)
  <2>1. Len(p) \in Ends(p)
    BY <1>6 DEF Legal
  <2>2. Len(bytes) \in Nat /\ Len(p) \in Nat /\ Len(p) >= PACKET_HEAD_SIZE
    BY <1>5, <2>1 DEF Ends, PACKET_HEAD_SIZE
  <2>3. SUFFICES ASSUME Len(bytes) >= Len(p)
                 PROVE  FALSE
    BY <2>2
  <2>4. IsValidHeader(bytes) /\ Ends(bytes) # {}
    BY <1>1, <1>5, <1>6, <2>3, BeginsWhole
  <2>5. Len(bytes) >= PACKET_HEAD_SIZE
    BY <2>2, <2>3 DEF PACKET_HEAD_SIZE
  <2>6. QED
    BY <2>4, <2>5
<1>8. QED
  BY <1>1, <1>2, <1>3, <1>5, <1>6, <1>7, BeginsShort

\* A packet more sent does not change what has been parsed.
LEMMA SendStep ==
  ASSUME TypeOK, NEW p \in Packets, Send(p), Understood
  PROVE  Understood'
<1>1. SUFFICES ASSUME AllLegal'
               PROVE  \E n \in 0..Len(sent') : Parsed(n)'
  BY DEF Understood
<1>2. /\ p \in Seq(Byte) /\ sent \in Seq(Packets) /\ sent \in Seq(Seq(Byte))
      /\ Len(sent) \in Nat /\ wire \in Seq(Byte)
      /\ buffer \in Seq(Byte) /\ remain \in Seq(Byte)
  BY PacketsAssumption DEF TypeOK
<1>3. /\ sent' = Append(sent, p) /\ wire' = wire \o p
      /\ buffer' = buffer /\ remain' = remain
      /\ packetList' = packetList /\ processed' = processed
  BY DEF Send
<1>4. /\ Len(sent') = Len(sent) + 1 /\ DOMAIN sent = 1..Len(sent)
      /\ DOMAIN sent' = 1..Len(sent') /\ sent'[Len(sent) + 1] = p
      /\ \A i \in 1..Len(sent) : sent'[i] = sent[i]
  BY <1>2, <1>3
<1>5. AllLegal /\ Legal(p)
  <2>1. \A i \in 1..(Len(sent) + 1) : Legal(sent'[i])
    BY <1>1, <1>4 DEF AllLegal
  <2>2. ASSUME NEW i \in 1..Len(sent)
        PROVE  Legal(sent[i])
    <3>1. i \in 1..(Len(sent) + 1) /\ sent'[i] = sent[i]
      BY <1>2, <1>4
    <3>2. QED
      BY <2>1, <3>1
  <2>3. Len(sent) + 1 \in 1..(Len(sent) + 1)
    BY <1>2
  <2>4. QED
    BY <1>4, <2>1, <2>2, <2>3 DEF AllLegal
<1>6. PICK n \in 0..Len(sent) : Parsed(n)
  BY <1>5 DEF Understood
<1>7. SubSeq(sent', 1, n) = SubSeq(sent, 1, n)
  BY <1>2, <1>3
<1>8. Unread(n)' = Unread(n) \o p
  <2>1. PICK t : t = SubSeq(sent, n + 1, Len(sent))
    OBVIOUS
  <2>2. t \in Seq(Seq(Byte))
    BY <2>1, UnreadType
  <2>3. SubSeq(sent', n + 1, Len(sent')) = Append(t, p)
    <3>1. n + 1 \in 1..(Len(sent) + 1)
      BY <1>2
    <3>2. QED
      BY <1>2, <1>3, <1>4, <2>1, <3>1, SubSeqAppend, Zenon
  <2>4. FlattenSeq(Append(t, p)) = FlattenSeq(t) \o p
    BY <1>2, <2>2, FlattenAppend
  <2>5. QED
    BY <2>1, <2>3, <2>4, Zenon DEF Unread
<1>9. (buffer \o remain) \o wire' = Unread(n)'
  <2>1. PICK a \in Seq(Byte) : a = buffer \o remain
    BY <1>2, ConcatProperties
  <2>2. PICK w \in Seq(Byte), q \in Seq(Byte) : w = wire /\ q = p
    BY <1>2
  <2>3. (a \o w) \o q = a \o (w \o q)
    OBVIOUS
  <2>4. QED
    BY <1>3, <1>6, <1>8, <2>1, <2>2, <2>3, Zenon DEF Parsed
<1>10. n < Len(sent') => Len(buffer) < Len(sent'[n + 1])
  <2>1. CASE n < Len(sent)
    BY <1>4, <1>6, <2>1 DEF Parsed
  <2>2. CASE n = Len(sent)
    <3>1. Unread(n) = <<>>
      BY <2>2, UnreadNext
    <3>2. PICK a \in Seq(Byte) : a = buffer \o remain
      BY <1>2, ConcatProperties
    <3>3. a = <<>>
      BY <1>2, <1>6, <3>1, <3>2, ConcatEqualIffEmpty DEF Parsed
    <3>4. buffer = <<>>
      <4>1. Len(buffer \o remain) = Len(buffer) + Len(remain)
        BY <1>2
      <4>2. Len(buffer \o remain) = 0
        BY <3>2, <3>3
      <4>3. QED
        BY <1>2, <4>1, <4>2
    <3>5. Len(p) \in 2..Len(p)
      BY <1>5 DEF Legal, Ends
    <3>6. QED
      BY <1>4, <2>2, <3>4, <3>5
  <2>3. QED
    BY <1>2, <2>1, <2>2
<1>11. Parsed(n)'
  BY <1>3, <1>6, <1>7, <1>9, <1>10, Zenon DEF Parsed
<1>12. n \in 0..Len(sent')
  BY <1>2, <1>4
<1>13. QED
  BY <1>11, <1>12

\* Bytes received are bytes at hand.
LEMMA ReceiveStep ==
  ASSUME TypeOK, Between, NEW k \in 1..MAX_BUFF_SIZE, Receive(k), Understood
  PROVE  Understood'
<1>1. /\ sent' = sent /\ buffer' = buffer
      /\ packetList' = packetList /\ processed' = processed
  BY DEF Receive
<1>2. remain = <<>> /\ buffer \in Seq(Byte) /\ wire \in Seq(Byte)
  BY DEF Between, Receive, TypeOK
<1>3. PICK r : r = remain'
  OBVIOUS
<1>4. PICK w : w = wire'
  OBVIOUS
<1>5. r \in Seq(Byte) /\ w \in Seq(Byte) /\ r \o w = wire
  <2>1. /\ r = SubSeq(wire, 1, k) /\ w = SubSeq(wire, k + 1, Len(wire))
        /\ k \in 1..Len(wire)
    BY <1>3, <1>4 DEF Receive
  <2>2. QED
    BY <1>2, <2>1, SplitAt
<1>6. (buffer \o r) \o w = (buffer \o remain) \o wire
  <2>1. PICK b \in Seq(Byte) : b = buffer
    BY <1>2
  <2>2. (b \o r) \o w = b \o (r \o w)
    <3>1. r \in Seq(Byte) /\ w \in Seq(Byte)
      BY <1>5
    <3>2. QED
      BY <3>1
  <2>3. b \o <<>> = b
    BY ConcatEmptySeq
  <2>4. QED
    BY <1>2, <1>5, <2>1, <2>2, <2>3, Zenon
<1>7. \A n : Parsed(n) => Parsed(n)'
  BY <1>1, <1>3, <1>4, <1>6, Zenon DEF Parsed, Unread
<1>8. QED
  BY <1>1, <1>7, Zenon DEF Understood, AllLegal

\* An iteration that does not complete a packet keeps the beginning of one.
LEMMA KeepStep ==
  ASSUME TypeOK, Understood, KeepAppended \/ KeepFresh
  PROVE  Understood'
<1>1. SUFFICES ASSUME AllLegal'
               PROVE  \E n \in 0..Len(sent') : Parsed(n)'
  BY DEF Understood
<1>2. /\ sent' = sent /\ wire' = wire /\ remain' = <<>>
      /\ packetList' = packetList /\ processed' = processed
  BY DEF KeepAppended, KeepFresh, Leave
<1>3. AllLegal
  BY <1>1, <1>2 DEF AllLegal
<1>4. PICK n \in 0..Len(sent) : Parsed(n)
  BY <1>3 DEF Understood
<1>5. PICK bytes : bytes = buffer \o remain
  OBVIOUS
<1>6. buffer \in Seq(Byte) /\ remain \in Seq(Byte) /\ bytes \in Seq(Byte)
  BY <1>5, ConcatProperties DEF TypeOK
<1>7. bytes \o wire = Unread(n)
  BY <1>4, <1>5 DEF Parsed
<1>8. bytes # <<>> /\ (buffer = <<>> => bytes = remain)
  BY <1>5, <1>6, ConcatEqualIffEmpty, ConcatEmptySeq
     DEF KeepAppended, KeepFresh
<1>9. Len(bytes) >= PACKET_HEAD_SIZE =>
        ~IsValidHeader(bytes) \/ Ends(bytes) = {}
  <2>1. CASE KeepAppended
    BY <1>5, <2>1 DEF KeepAppended, Appended
  <2>2. CASE KeepFresh
    BY <1>8, <2>2 DEF KeepFresh
  <2>3. QED
    BY <2>1, <2>2
<1>10. /\ n < Len(sent) /\ Len(bytes) < Len(sent[n + 1])
       /\ Len(bytes) < MAX_BUFF_SIZE
       /\ Len(bytes) >= PACKET_HEAD_SIZE => IsValidHeader(bytes)
  BY <1>3, <1>6, <1>7, <1>8, <1>9, AwaitsMore
<1>11. Len(bytes) \in Nat /\ Len(bytes) # MAX_BUFF_SIZE
  BY <1>6, <1>10, BuffAssumption
<1>12. buffer' = bytes
  <2>1. CASE KeepAppended
    <3>1. Len(bytes) >= PACKET_HEAD_SIZE
      <4>1. Len(buffer \o remain) = Len(buffer) + Len(remain)
        BY <1>6
      <4>2. Len(buffer) # 0 /\ Len(remain) # 0
        BY <1>6, <2>1 DEF KeepAppended
      <4>3. QED
        BY <1>5, <1>6, <4>1, <4>2 DEF PACKET_HEAD_SIZE
    <3>2. QED
      BY <1>5, <1>10, <1>11, <2>1, <3>1 DEF KeepAppended, Appended
  <2>2. CASE KeepFresh
    <3>1. bytes = remain
      BY <1>8, <2>2 DEF KeepFresh
    <3>2. PACKET_HEAD_SIZE \in Nat
      BY DEF PACKET_HEAD_SIZE
    <3>3. QED
      BY <1>10, <1>11, <2>2, <3>1, <3>2 DEF KeepFresh
  <2>3. QED
    BY <2>1, <2>2
<1>13. bytes \o <<>> = bytes
  BY <1>6, ConcatEmptySeq
<1>14. Parsed(n)'
  BY <1>2, <1>4, <1>7, <1>10, <1>12, <1>13, Zenon DEF Parsed, Unread
<1>15. QED
  BY <1>2, <1>14

\* An iteration that completes a packet, from the session's bytes or without
\* them, completes the next packet that was sent, unless the heap has changed
\* the bytes it reads after it has deleted them.
LEMMA FinishStep ==
  ASSUME FreedMemoryIntact, TypeOK, Understood, FinishAppended \/ FinishFresh
  PROVE  Understood'
<1>1. SUFFICES ASSUME AllLegal'
               PROVE  \E n \in 0..Len(sent') : Parsed(n)'
  BY DEF Understood
<1>2. PICK bytes : bytes = buffer \o remain
  OBVIOUS
<1>3. buffer \in Seq(Byte) /\ remain \in Seq(Byte) /\ bytes \in Seq(Byte)
  BY <1>2, ConcatProperties DEF TypeOK
<1>4. /\ sent' = sent /\ wire' = wire /\ buffer' = <<>>
      /\ IsValidHeader(bytes) /\ Ends(bytes) # {}
      /\ packetList' = Append(packetList, First(bytes))
      /\ remain' = Rest(bytes) /\ processed' = processed
  <2>1. CASE FinishAppended
    BY <1>2, <2>1 DEF FinishAppended, Appended
  <2>2. CASE FinishFresh
    <3>1. bytes = remain
      <4>1. buffer = <<>>
        BY <2>2 DEF FinishFresh
      <4>2. QED
        BY <1>2, <1>3, <4>1, ConcatEmptySeq
    <3>2. QED
      BY <2>2, <3>1 DEF FinishFresh, ReadFreed
  <2>3. QED
    BY <2>1, <2>2
<1>5. AllLegal
  BY <1>1, <1>4 DEF AllLegal
<1>6. PICK n \in 0..Len(sent) : Parsed(n)
  BY <1>5 DEF Understood
<1>7. bytes \o wire = Unread(n)
  BY <1>2, <1>6 DEF Parsed
<1>8. /\ n < Len(sent) /\ First(bytes) = sent[n + 1]
      /\ Rest(bytes) \o wire = Unread(n + 1)
  BY <1>3, <1>4, <1>5, <1>7, FindsNext
<1>9. PICK p, r : p = First(bytes) /\ r = Rest(bytes)
  OBVIOUS
<1>10. /\ p \in Seq(Byte) /\ r \in Seq(Byte)
       /\ sent \in Seq(Seq(Byte)) /\ Len(sent) \in Nat
       /\ processed \in Seq(Seq(Byte)) /\ packetList \in Seq(Seq(Byte))
  BY <1>3, <1>4, <1>9, FirstIsWhole, PacketsAssumption DEF TypeOK
<1>11. processed \o Append(packetList, p) = SubSeq(sent, 1, n + 1)
  <2>1. PICK a \in Seq(Seq(Byte)), b \in Seq(Seq(Byte)), c \in Seq(Seq(Byte)) :
          a = processed /\ b = packetList /\ c = sent
    BY <1>10
  <2>2. a \o b = SubSeq(c, 1, n)
    BY <1>6, <2>1 DEF Parsed
  <2>3. a \o Append(b, p) = Append(a \o b, p)
    <3>1. p \in Seq(Byte)
      BY <1>10
    <3>2. QED
      BY <3>1, AppendJoins
  <2>4. n \in 0..Len(c) /\ n < Len(c) /\ p = c[n + 1]
    BY <1>8, <1>9, <2>1
  <2>5. Append(SubSeq(c, 1, n), p) = SubSeq(c, 1, n + 1)
    BY <2>4, SubSeqNext
  <2>6. QED
    BY <2>1, <2>2, <2>3, <2>5, Zenon
<1>12. <<>> \o r = r
  BY <1>10, ConcatEmptySeq
<1>13. n + 1 < Len(sent) => 0 < Len(sent[n + 2])
  <2>1. ASSUME n + 1 < Len(sent)
        PROVE  0 < Len(sent[n + 2])
    <3>1. n + 2 \in 1..Len(sent)
      BY <1>10, <2>1
    <3>2. sent[n + 2] \in Seq(Byte) /\ Legal(sent[n + 2])
      BY <1>5, <1>10, <3>1 DEF AllLegal
    <3>3. Len(sent[n + 2]) \in Ends(sent[n + 2])
      BY <3>2 DEF Legal
    <3>4. QED
      BY <3>2, <3>3 DEF Ends
  <2>2. QED
    BY <2>1
<1>14. PICK m \in 0..Len(sent) : m = n + 1
  BY <1>8, <1>10
<1>15. Parsed(m)'
  <2>1. (processed \o packetList)' = SubSeq(sent, 1, m)'
    BY <1>4, <1>9, <1>11, <1>14, Zenon
  <2>2. ((buffer \o remain) \o wire)' = Unread(m)'
    BY <1>4, <1>8, <1>9, <1>12, <1>14, Zenon DEF Unread
  <2>3. (m < Len(sent) => Len(buffer) < Len(sent[m + 1]))'
    <3>1. m + 1 = n + 2 /\ Len(<<>>) = 0
      BY <1>14
    <3>2. QED
      BY <1>4, <1>13, <1>14, <3>1, Zenon
  <2>4. QED
    BY <2>1, <2>2, <2>3 DEF Parsed
<1>16. QED
  BY <1>4, <1>15

\* The other steps of a call move packets between the lists, at most.
LEMMA OtherStep ==
  ASSUME TypeOK, Between, Understood, LoopDone \/ Process \/ UNCHANGED vars
  PROVE  Understood'
<1>1. /\ sent' = sent /\ wire' = wire /\ buffer' = buffer /\ remain' = remain
  BY DEF LoopDone, Leave, Process, vars
<1>2. processed' \o packetList' = processed \o packetList
  <2>1. CASE Process
    <3>1. processed \o packetList \in Seq(Seq(Byte))
      BY ConcatProperties DEF TypeOK
    <3>2. PICK x \in Seq(Seq(Byte)) : x = processed \o packetList
      BY <3>1
    <3>3. x \o <<>> = x
      BY ConcatEmptySeq
    <3>4. QED
      BY <2>1, <3>2, <3>3, Zenon DEF Process
  <2>2. CASE ~Process
    BY <2>2 DEF LoopDone, Leave, vars
  <2>3. QED
    BY <2>1, <2>2
<1>3. \A n : Parsed(n) => Parsed(n)'
  BY <1>1, <1>2, Zenon DEF Parsed, Unread
<1>4. QED
  BY <1>1, <1>3, Zenon DEF Understood, AllLegal

-----------------------------------------------------------------------------
(* The theorems. *)

\* Every variable of the framing keeps its type: bytes stay bytes, also those
\* read after they have been deleted.
THEOREM TypeCorrect == Spec => []TypeOK
<1>1. IInv => TypeOK
  BY DEF IInv
<1>2. QED
  BY <1>1, Inductive, PTL DEF Spec

\* Whatever a client sends, however it is cut and whatever the heap does with
\* deleted memory, a packet that is processed has a valid header and ends at
\* its first END_OF_PACKET.
THEOREM ProcessesWellFormed == Spec => []WellFormed
<1>1. IInv => WellFormed
  BY Zenon DEF IInv, AllWhole, Whole, WellFormed
<1>2. QED
  BY <1>1, Inductive, PTL DEF Spec

\* Whatever a client sends, no packet whose end has arrived waits for more.
THEOREM NothingWaits == Spec => []KeepsNoWholePacket
<1>1. IInv => KeepsNoWholePacket
  <2>1. ASSUME IInv, NEW n \in 2..Len(buffer),
               buffer[n - 1] = "e1", buffer[n] = "e2"
        PROVE  FALSE
    <3>1. n \in Ends(buffer)
      BY <2>1 DEF Ends
    <3>2. QED
      BY <2>1, <3>1 DEF IInv, Begun
  <2>2. QED
    BY <2>1 DEF IInv, Begun, KeepsNoWholePacket
<1>2. QED
  BY <1>1, Inductive, PTL DEF Spec

\* A client that sends legal packets is understood, however many they are, how
\* long they are and how they are cut, if deleted memory keeps its bytes.
THEOREM UnderstandsLegal == FreedMemoryIntact => (Spec => []Framed)
<1> SUFFICES ASSUME FreedMemoryIntact
             PROVE  Spec => []Framed
  OBVIOUS
<1>1. Init => Understood
  <2>1. SUFFICES ASSUME Init
                 PROVE  Parsed(0) /\ Len(sent) = 0
    BY DEF Understood
  <2>2. SubSeq(<<>>, 1, 0) = <<>> /\ Len(<<>>) = 0 /\ <<>> \o <<>> = <<>>
    OBVIOUS
  <2>3. FlattenSeq(<<>>) = <<>>
    BY <2>2 DEF FlattenSeq
  <2>4. Unread(0) = <<>>
    <3>1. SubSeq(sent, 0 + 1, Len(sent)) = <<>>
      BY <2>1, <2>2 DEF Init
    <3>2. QED
      BY <2>3, <3>1 DEF Unread
  <2>5. QED
    BY <2>1, <2>2, <2>4 DEF Init, Parsed
<1>2. IInv /\ Understood /\ [Next]_vars => Understood'
  BY SendStep, ReceiveStep, KeepStep, FinishStep, OtherStep DEF IInv, Next
<1>3. IInv /\ Understood => Framed
  <2>1. SUFFICES ASSUME IInv, Understood, pc = "idle", AllLegal
                 PROVE  \E n \in 0..Len(sent) :
                          /\ processed = SubSeq(sent, 1, n)
                          /\ buffer \o wire =
                               FlattenSeq(SubSeq(sent, n + 1, Len(sent)))
                          /\ n < Len(sent) => Len(buffer) < Len(sent[n + 1])
    BY DEF Framed, AllLegal
  <2>2. PICK n \in 0..Len(sent) : Parsed(n)
    BY <2>1 DEF Understood
  <2>3. remain = <<>> /\ packetList = <<>>
    BY <2>1 DEF IInv, Between
  <2>4. processed \o <<>> = processed /\ buffer \o <<>> = buffer
    BY <2>1, ConcatEmptySeq DEF IInv, TypeOK
  <2>5. QED
    BY <2>2, <2>3, <2>4, Zenon DEF Parsed, Unread
<1>4. QED
  BY <1>1, <1>2, <1>3, Inductive, PTL DEF Spec
=============================================================================
