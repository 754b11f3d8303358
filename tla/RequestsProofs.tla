--------------------------- MODULE RequestsProofs ---------------------------
(***************************************************************************)
(* Proofs about Requests, for any number of clients and users, any width   *)
(* of the integers, any size of the window and any samples.                *)
(***************************************************************************)
EXTENDS Requests, FiniteSetTheorems, SequenceTheorems, WellFoundedInduction,
        TLAPS

-----------------------------------------------------------------------------
(* Sums of sequences, that is FoldSeq of +. *)

\* A nonempty set of numbers has a least element.
LEMMA LeastElement ==
  ASSUME NEW S \in SUBSET Nat, S # {}
  PROVE  \E k \in S : \A j \in S : k <= j
<1>1. PICK k \in S : \A j \in S : <<j, k>> \notin OpToRel(<, Nat)
  BY WFMin, NatLessThanWellFounded, Zenon
<1>2. \A j \in S : ~ (j < k)
  BY <1>1, Zenon DEF OpToRel
<1>3. QED
  BY <1>2

\* g gives the sum of s over every set of its first n indices, whichever of
\* them is added last.
Sums(g, s, n) ==
  /\ g \in [SUBSET (1..n) -> Int]
  /\ g[{}] = 0
  /\ \A T \in SUBSET (1..n) : \A i \in T : g[T] = s[i] + g[T \ {i}]

\* There is such a function: with one index more, add its element to the sums
\* over the sets that have it.
LEMMA SumsExist ==
  ASSUME NEW s \in Seq(Int)
  PROVE  \E g : Sums(g, s, Len(s))
<1> DEFINE Bad == {n \in 0..Len(s) : ~ \E g : Sums(g, s, n)}
<1>1. SUFFICES ASSUME Bad # {}
               PROVE  FALSE
  <2>1. Len(s) \in 0..Len(s)
    OBVIOUS
  <2>2. QED
    BY <2>1
<1>2. PICK n \in Bad : \A m \in Bad : n <= m
  <2>1. Bad \in SUBSET Nat
    OBVIOUS
  <2>2. QED
    BY <1>1, <2>1, LeastElement
<1>3. n \in 0..Len(s) /\ ~ \E g : Sums(g, s, n)
  BY <1>2
<1>4. n # 0
  <2>1. Sums([T \in SUBSET (1..0) |-> 0], s, 0)
    BY DEF Sums
  <2>2. QED
    BY <1>3, <2>1
<1>5. PICK h : Sums(h, s, n - 1)
  BY <1>2, <1>3, <1>4
<1> DEFINE g == [T \in SUBSET (1..n) |->
                   IF n \in T THEN s[n] + h[T \ {n}] ELSE h[T]]
<1>6. s[n] \in Int /\ \A i \in 1..n : s[i] \in Int
  BY <1>3, <1>4
<1>7. \A T \in SUBSET (1..n) :
        /\ T \ {n} \in SUBSET (1..(n - 1))
        /\ n \notin T => T \in SUBSET (1..(n - 1))
  BY <1>3
<1>8. g \in [SUBSET (1..n) -> Int] /\ g[{}] = 0
  BY <1>5, <1>6, <1>7 DEF Sums
<1>9. ASSUME NEW T \in SUBSET (1..n), NEW i \in T
      PROVE  g[T] = s[i] + g[T \ {i}]
  <2>1. CASE i = n
    BY <1>7, <2>1
  <2>2. CASE i # n /\ n \notin T
    BY <1>5, <1>7, <2>2 DEF Sums
  <2>3. CASE i # n /\ n \in T
    <3>1. /\ g[T] = s[n] + h[T \ {n}]
          /\ g[T \ {i}] = s[n] + h[(T \ {i}) \ {n}]
      BY <2>3
    <3>2. h[T \ {n}] = s[i] + h[(T \ {n}) \ {i}]
      BY <1>5, <1>7, <2>3 DEF Sums
    <3>3. (T \ {n}) \ {i} = (T \ {i}) \ {n}
      OBVIOUS
    <3>4. PICK x \in Int : x = h[(T \ {i}) \ {n}]
      BY <1>5, <1>7, <3>3 DEF Sums
    <3>5. g[T] = s[n] + (s[i] + x) /\ g[T \ {i}] = s[n] + x
      BY <3>1, <3>2, <3>3, <3>4
    <3>6. s[n] + (s[i] + x) = s[i] + (s[n] + x)
      BY <1>6, <3>4
    <3>7. QED
      BY <3>5, <3>6
  <2>4. QED
    BY <2>1, <2>2, <2>3
<1>10. Sums(g, s, n)
  BY <1>8, <1>9 DEF Sums
<1>11. QED
  BY <1>3, <1>10

\* FoldSeq takes the indices in some order.
LEMMA FoldIsSum ==
  ASSUME NEW s \in Seq(Int), NEW g, Sums(g, s, Len(s))
  PROVE  FoldSeq(+, 0, s) = g[1..Len(s)]
<1> DEFINE D == DOMAIN s
           Body(h) == [T \in SUBSET D |->
                         IF T = {} THEN 0
                         ELSE LET i == CHOOSE i \in T : TRUE IN
                                s[i] + h[T \ {i}]]
<1>1. FoldSeq(+, 0, s) = (CHOOSE h : h = Body(h))[D]
  BY DEF FoldSeq, FoldFunction, FoldFunctionOnSet, MapThenFoldSet
<1>2. D = 1..Len(s)
  OBVIOUS
<1>3. g = Body(g)
  <2>1. \A T \in SUBSET D : g[T] = Body(g)[T]
    BY <1>2 DEF Sums
  <2>2. QED
    BY <1>2, <2>1 DEF Sums
<1>4. ASSUME NEW h, h = Body(h)
      PROVE  h = g
  <2> DEFINE Sizes == {Cardinality(T) : T \in {T \in SUBSET D : h[T] # g[T]}}
  <2>1. \A T \in SUBSET D : IsFiniteSet(T) /\ Cardinality(T) \in Nat
    <3>1. IsFiniteSet(D)
      BY <1>2, FS_Interval
    <3>2. QED
      BY <3>1, FS_Subset, FS_CardinalityType
  <2>2. Sizes = {}
    <3>1. SUFFICES ASSUME Sizes # {}
                   PROVE  FALSE
      OBVIOUS
    <3>2. Sizes \in SUBSET Nat
      BY <2>1
    <3>3. PICK k \in Sizes : \A j \in Sizes : k <= j
      BY <3>1, <3>2, LeastElement
    <3>4. PICK T \in SUBSET D : h[T] # g[T] /\ k = Cardinality(T)
      BY <3>3
    <3>5. T # {}
      BY <1>3, <1>4, <3>4
    <3>6. PICK i : i = CHOOSE j \in T : TRUE
      OBVIOUS
    <3>7. i \in T
      BY <3>5, <3>6
    <3>8. h[T] = s[i] + h[T \ {i}] /\ g[T] = s[i] + g[T \ {i}]
      BY <1>3, <1>4, <3>5, <3>6
    <3>9. T \ {i} \in SUBSET D /\ ~(k <= Cardinality(T \ {i}))
      <4>1. Cardinality(T \ {i}) = Cardinality(T) - 1
        BY <2>1, <3>7, FS_RemoveElement
      <4>2. QED
        BY <2>1, <3>4, <4>1
    <3>10. h[T \ {i}] = g[T \ {i}]
      BY <3>3, <3>9
    <3>11. QED
      BY <3>4, <3>8, <3>10
  <2>3. \A T \in SUBSET D : h[T] = g[T]
    BY <2>2
  <2>4. QED
    BY <1>3, <1>4, <2>3
<1>5. (CHOOSE h : h = Body(h)) = g
  BY <1>3, <1>4
<1>6. QED
  BY <1>1, <1>2, <1>5

\* The sum of one sample, and of one sample more.
LEMMA SumAppend ==
  ASSUME NEW s \in Seq(Int), NEW x \in Int
  PROVE  /\ FoldSeq(+, 0, s) \in Int
         /\ FoldSeq(+, 0, Append(s, x)) = FoldSeq(+, 0, s) + x
         /\ FoldSeq(+, 0, <<x>>) = x
<1>1. ASSUME NEW t \in Seq(Int)
      PROVE  /\ FoldSeq(+, 0, t) \in Int
             /\ FoldSeq(+, 0, Append(t, x)) = FoldSeq(+, 0, t) + x
  <2> DEFINE n == Len(t)
             u == Append(t, x)
  <2>1. u \in Seq(Int) /\ Len(u) = n + 1 /\ u[n + 1] = x /\ n \in Nat
        /\ \A i \in 1..n : u[i] = t[i]
    BY AppendProperties
  <2>2. PICK g : Sums(g, u, n + 1)
    BY <2>1, SumsExist
  <2> DEFINE h == [T \in SUBSET (1..n) |-> g[T]]
  <2>3. SUBSET (1..n) \subseteq SUBSET (1..(n + 1))
    BY <2>1
  <2>4. Sums(h, t, n)
    <3>1. h \in [SUBSET (1..n) -> Int] /\ h[{}] = 0
      BY <2>2, <2>3 DEF Sums
    <3>2. ASSUME NEW T \in SUBSET (1..n), NEW i \in T
          PROVE  h[T] = t[i] + h[T \ {i}]
      <4>1. g[T] = u[i] + g[T \ {i}]
        BY <2>2, <2>3 DEF Sums
      <4>2. QED
        BY <2>1, <4>1
    <3>3. QED
      BY <3>1, <3>2 DEF Sums
  <2>5. FoldSeq(+, 0, t) = h[1..n]
    BY <2>4, FoldIsSum
  <2>6. h[1..n] = g[1..n] /\ g[1..n] \in Int
    <3>1. 1..n \in SUBSET (1..n)
      OBVIOUS
    <3>2. QED
      BY <2>2, <2>3, <3>1 DEF Sums
  <2>7. FoldSeq(+, 0, u) = g[1..(n + 1)]
    BY <2>1, <2>2, FoldIsSum
  <2>8. (1..(n + 1)) \ {n + 1} = 1..n /\ n + 1 \in 1..(n + 1)
    BY <2>1
  <2>9. g[1..(n + 1)] = u[n + 1] + g[(1..(n + 1)) \ {n + 1}]
    BY <2>2, <2>8 DEF Sums
  <2>10. g[1..(n + 1)] = g[1..n] + x
    <3>1. g[1..(n + 1)] = x + g[1..n]
      BY <2>1, <2>8, <2>9
    <3>2. x + g[1..n] = g[1..n] + x
      BY <2>6
    <3>3. QED
      BY <3>1, <3>2
  <2>11. QED
    BY <2>5, <2>6, <2>7, <2>10
<1>2. FoldSeq(+, 0, <<>>) = 0
  <2>1. <<>> \in Seq(Int) /\ Len(<<>>) = 0
    OBVIOUS
  <2>2. PICK g : Sums(g, <<>>, 0)
    BY <2>1, SumsExist
  <2>3. FoldSeq(+, 0, <<>>) = g[1..0]
    BY <2>1, <2>2, FoldIsSum
  <2>4. 1..0 = {}
    OBVIOUS
  <2>5. QED
    BY <2>2, <2>3, <2>4 DEF Sums
<1>3. <<x>> = Append(<<>>, x)
  OBVIOUS
<1>4. FoldSeq(+, 0, <<x>>) = x
  <2>1. <<>> \in Seq(Int) /\ 0 + x = x
    OBVIOUS
  <2>2. QED
    BY <1>1, <1>2, <1>3, <2>1
<1>5. QED
  BY <1>1, <1>4

-----------------------------------------------------------------------------
(* Arithmetic of int64_t. *)

\* Division with remainder has one outcome.
LEMMA SameRemainder ==
  ASSUME NEW k \in Nat \ {0}, NEW p \in Int, NEW q \in Int,
         NEW r \in 0..(k - 1), NEW t \in 0..(k - 1), k * p + r = k * q + t
  PROVE  p = q /\ r = t
<1>1. ~(p < q) /\ ~(q < p)
  <2>1. ASSUME NEW m \in Int, NEW n \in Int, m < n
        PROVE  k * m + k <= k * n
    BY <2>1
  <2>2. QED
    BY <2>1
<1>2. QED
  BY <1>1

\* % gives the remainder.
LEMMA Remainder ==
  ASSUME NEW n \in Int, NEW k \in Nat \ {0}
  PROVE  /\ n % k \in 0..(k - 1)
         /\ \E q \in Int : n = k * q + (n % k)
<1>1. n = k * (n \div k) + (n % k) /\ n \div k \in Int
  OBVIOUS
<1>2. \E q \in Int : n = k * q + (n % k)
  BY <1>1, Zenon
<1>3. n % k \in 0..(k - 1)
  OBVIOUS
<1>4. QED
  BY <1>2, <1>3

\* The remainder of the next number.
LEMMA NextRemainder ==
  ASSUME NEW k \in Nat \ {0}, NEW n \in Nat
  PROVE  /\ n % k = k - 1 => (n + 1) % k = 0
         /\ n % k # k - 1 => (n + 1) % k = (n % k) + 1
<1>1. PICK p \in Int : n = k * p + (n % k)
  <2>1. n \in Int
    OBVIOUS
  <2>2. QED
    BY <2>1, Remainder, Zenon
<1>2. PICK q \in Int : n + 1 = k * q + ((n + 1) % k)
  <2>1. n + 1 \in Int
    OBVIOUS
  <2>2. QED
    BY <2>1, Remainder, Zenon
<1>3. n % k \in 0..(k - 1) /\ (n + 1) % k \in 0..(k - 1)
  BY Remainder
<1>4. PICK t : t = (n + 1) % k
  OBVIOUS
<1>5. CASE n % k = k - 1
  <2>1. k * (p + 1) + 0 = k * q + t
    BY <1>1, <1>2, <1>4, <1>5
  <2>2. 0 \in 0..(k - 1) /\ t \in 0..(k - 1) /\ p + 1 \in Int
    BY <1>3, <1>4
  <2>3. t = 0
    BY <2>1, <2>2, SameRemainder
  <2>4. QED
    BY <1>4, <1>5, <2>3
<1>6. CASE n % k # k - 1
  <2>1. PICK r : r = (n % k) + 1
    OBVIOUS
  <2>2. k * p + r = k * q + t
    BY <1>1, <1>2, <1>3, <1>4, <2>1
  <2>3. r \in 0..(k - 1) /\ t \in 0..(k - 1)
    BY <1>3, <1>4, <1>6, <2>1
  <2>4. t = r
    BY <2>2, <2>3, SameRemainder
  <2>5. QED
    BY <1>4, <1>6, <2>1, <2>4
<1>7. QED
  BY <1>5, <1>6

\* A sum that overflows is off by a multiple of the number of int64_t values.
LEMMA Wrapped ==
  ASSUME NEW n \in Int
  PROVE  /\ Wrap(n) \in Int64
         /\ \E q \in Int : Wrap(n) = n + (2 * Half) * q
<1>1. 2 * Half \in Nat \ {0} /\ n + Half \in Int /\ Half \in Int
  BY RttAssumption
<1>2. PICK q \in Int : n + Half = (2 * Half) * q + ((n + Half) % (2 * Half))
  BY <1>1, Remainder
<1>3. (n + Half) % (2 * Half) \in 0..(2 * Half - 1)
  BY <1>1, Remainder
<1>4. Wrap(n) \in Int64
  BY <1>1, <1>3 DEF Wrap, Int64
<1>5. Wrap(n) = n + (2 * Half) * (-q)
  BY <1>1, <1>2, <1>3 DEF Wrap
<1>6. QED
  BY <1>4, <1>5

\* Two values of int64_t that differ by such a multiple are equal.
LEMMA Unwrapped ==
  ASSUME NEW m \in Int64, NEW n \in Int64, NEW q \in Int,
         m = n + (2 * Half) * q
  PROVE  m = n
<1>1. 2 * Half \in Nat \ {0} /\ Half \in Int /\ m \in Int /\ n \in Int
  BY RttAssumption DEF Int64
<1>2. m + Half \in 0..(2 * Half - 1) /\ n + Half \in 0..(2 * Half - 1)
  BY <1>1 DEF Int64
<1>3. (2 * Half) * 0 + (m + Half) = (2 * Half) * q + (n + Half)
  BY <1>1
<1>4. m + Half = n + Half
  BY <1>1, <1>2, <1>3, SameRemainder
<1>5. QED
  BY <1>1, <1>4

\* A quotient is never larger than what is divided.
LEMMA Divided ==
  ASSUME NEW m \in Int64, NEW n \in Nat \ {0}
  PROVE  Div(m, n) \in Int64
  BY RttAssumption DEF Div, Int64

-----------------------------------------------------------------------------
(* The window of the last samples. *)

\* The window of a sequence of samples: Window(u) is Recent(samples[u]).
Recent(s) == SubSeq(s, Len(s) - ((Len(s) - 1) % MAX_RTT_COUNT), Len(s))

\* The window holds at least one sample and at most MAX_RTT_COUNT.
LEMMA RecentLength ==
  ASSUME NEW s \in Seq(Int), s # <<>>
  PROVE  /\ Recent(s) \in Seq(Int)
         /\ (Len(s) - 1) % MAX_RTT_COUNT \in 0..(Len(s) - 1)
         /\ Len(Recent(s)) = ((Len(s) - 1) % MAX_RTT_COUNT) + 1
         /\ Len(Recent(s)) \in 1..MAX_RTT_COUNT
<1> DEFINE n == Len(s)
           r == (n - 1) % MAX_RTT_COUNT
<1>1. n \in Nat \ {0} /\ MAX_RTT_COUNT \in Nat \ {0}
  BY EmptySeq, CountAssumption
<1>2. r \in 0..(MAX_RTT_COUNT - 1)
  <2>1. n - 1 \in Int
    BY <1>1
  <2>2. QED
    BY <1>1, <2>1, Remainder, Zenon
<1>3. r <= n - 1
  <2>1. n - 1 \in Int
    BY <1>1
  <2>2. PICK q \in Int : n - 1 = MAX_RTT_COUNT * q + r
    BY <1>1, <2>1, Remainder, Zenon
  <2>3. ~(q < 0)
    BY <1>1, <1>2, <2>2
  <2>4. MAX_RTT_COUNT * q >= 0
    BY <1>1, <2>3
  <2>5. QED
    BY <1>1, <1>2, <2>2, <2>4
<1>4. QED
  BY <1>1, <1>2, <1>3, SubSeqProperties DEF Recent

\* What SubSeq returns.
LEMMA SubSeqIs ==
  ASSUME NEW S, NEW s \in Seq(S), NEW n \in 0..Len(s), NEW i \in 1..(n + 1)
  PROVE  /\ SubSeq(s, i, n) \in Seq(S)
         /\ Len(SubSeq(s, i, n)) = n - i + 1
         /\ \A j \in 1..(n - i + 1) : SubSeq(s, i, n)[j] = s[i + j - 1]
<1>1. \A j \in i..n : s[j] \in S
  OBVIOUS
<1>2. i \in Int /\ n \in Int /\ (IF i <= n THEN n - i + 1 ELSE 0) = n - i + 1
  OBVIOUS
<1>3. /\ SubSeq(s, i, n) \in Seq(S)
      /\ Len(SubSeq(s, i, n)) = IF i <= n THEN n - i + 1 ELSE 0
      /\ \A j \in 1..(n - i + 1) : SubSeq(s, i, n)[j] = s[i + j - 1]
  BY <1>1, <1>2, SubSeqProperties
<1>4. QED
  BY <1>2, <1>3

\* A later part of a sequence grows with the sequence.
LEMMA SubSeqAppend ==
  ASSUME NEW S, NEW s \in Seq(S), NEW x \in S, NEW i \in 1..(Len(s) + 1)
  PROVE  SubSeq(Append(s, x), i, Len(s) + 1)
           = Append(SubSeq(s, i, Len(s)), x)
<1>1. PICK n, t : n = Len(s) /\ t = Append(s, x)
  OBVIOUS
<1>2. PICK w : w = SubSeq(s, i, n)
  OBVIOUS
<1>3. PICK v : v = SubSeq(t, i, n + 1)
  OBVIOUS
<1>4. PICK a : a = Append(w, x)
  OBVIOUS
<1>5. /\ n \in Nat /\ t \in Seq(S) /\ Len(t) = n + 1 /\ t[n + 1] = x
      /\ \A j \in 1..n : t[j] = s[j]
  BY <1>1, AppendProperties
<1>6. /\ w \in Seq(S) /\ Len(w) = n - i + 1
      /\ \A j \in 1..(n - i + 1) : w[j] = s[i + j - 1]
  BY <1>1, <1>2, <1>5, SubSeqIs
<1>7. /\ v \in Seq(S) /\ Len(v) = n + 1 - i + 1
      /\ \A j \in 1..(n + 1 - i + 1) : v[j] = t[i + j - 1]
  <2>1. n + 1 \in 0..Len(t) /\ i \in 1..(n + 1 + 1)
    BY <1>1, <1>5
  <2>2. QED
    BY <1>3, <1>5, <2>1, SubSeqIs
<1>8. /\ a \in Seq(S) /\ Len(a) = Len(w) + 1 /\ a[Len(w) + 1] = x
      /\ \A j \in 1..Len(w) : a[j] = w[j]
  BY <1>4, <1>6, AppendProperties
<1>9. v = a
  <2>1. Len(v) = Len(a)
    BY <1>1, <1>5, <1>6, <1>7, <1>8
  <2>2. ASSUME NEW j \in 1..Len(v)
        PROVE  v[j] = a[j]
    <3>1. v[j] = t[i + j - 1]
      BY <1>7
    <3>2. CASE j = Len(w) + 1
      <4>1. i + j - 1 = n + 1
        BY <1>1, <1>5, <1>6, <3>2
      <4>2. QED
        BY <1>5, <1>8, <3>1, <3>2, <4>1
    <3>3. CASE j # Len(w) + 1
      <4>1. j \in 1..Len(w) /\ i + j - 1 \in 1..n
        BY <1>1, <1>5, <1>6, <1>7, <3>3
      <4>2. a[j] = s[i + j - 1]
        BY <1>6, <1>8, <4>1
      <4>3. QED
        BY <1>5, <3>1, <4>1, <4>2
    <3>4. QED
      BY <3>2, <3>3
  <2>3. QED
    BY <1>7, <1>8, <2>1, <2>2, SeqEqual
<1>10. QED
  BY <1>1, <1>2, <1>3, <1>4, <1>9

\* A further sample is added to the window, or starts one if it is full.
LEMMA RecentAppend ==
  ASSUME NEW s \in Seq(Int), NEW x \in Int
  PROVE  /\ s = <<>> \/ Len(Recent(s)) = MAX_RTT_COUNT =>
              Recent(Append(s, x)) = <<x>>
         /\ s # <<>> /\ Len(Recent(s)) # MAX_RTT_COUNT =>
              Recent(Append(s, x)) = Append(Recent(s), x)
<1>1. PICK n \in Nat : n = Len(s)
  OBVIOUS
<1>2. MAX_RTT_COUNT \in Nat \ {0}
  BY CountAssumption
<1>3. PICK r \in Int : r = n % MAX_RTT_COUNT
  BY <1>2
<1>4. ASSUME r \in 0..n
      PROVE  Recent(Append(s, x)) = Append(SubSeq(s, n + 1 - r, n), x)
  <2>1. PICK t : t = Append(s, x)
    OBVIOUS
  <2>2. Len(t) = n + 1 /\ Len(t) - 1 = n
    BY <1>1, <2>1, AppendProperties
  <2>3. Recent(t) = SubSeq(t, n + 1 - r, n + 1)
    <3>1. (Len(t) - 1) % MAX_RTT_COUNT = r
      BY <1>3, <2>2, Zenon
    <3>2. Recent(t) = SubSeq(t, Len(t) - r, Len(t))
      BY <3>1, Zenon DEF Recent
    <3>3. QED
      BY <2>2, <3>2
  <2>4. n + 1 - r \in 1..(n + 1)
    BY <1>4
  <2>5. QED
    BY <1>1, <2>1, <2>3, <2>4, SubSeqAppend
<1>5. ASSUME r = 0
      PROVE  Recent(Append(s, x)) = <<x>>
  <2>1. SubSeq(s, n + 1 - r, n) = <<>>
    BY <1>5, SubSeqEmpty
  <2>2. Append(<<>>, x) = <<x>> /\ r \in 0..n
    BY <1>5
  <2>3. QED
    BY <1>4, <2>1, <2>2, Zenon
<1>6. CASE s = <<>>
  <2>1. n = 0 /\ 0 % MAX_RTT_COUNT = 0
    BY <1>1, <1>2, <1>6
  <2>2. r = 0
    BY <1>3, <2>1
  <2>3. QED
    BY <1>5, <1>6, <2>2
<1>7. CASE s # <<>>
  <2>1. n - 1 \in Nat /\ (n - 1) + 1 = n
    BY <1>1, <1>7, EmptySeq
  <2>2. PICK m : m = (n - 1) % MAX_RTT_COUNT
    OBVIOUS
  <2>3. /\ m = MAX_RTT_COUNT - 1 => r = 0
        /\ m # MAX_RTT_COUNT - 1 => r = m + 1
    <3>1. /\ m = MAX_RTT_COUNT - 1 => ((n - 1) + 1) % MAX_RTT_COUNT = 0
          /\ m # MAX_RTT_COUNT - 1 => ((n - 1) + 1) % MAX_RTT_COUNT = m + 1
      BY <1>2, <2>1, <2>2, NextRemainder, Zenon
    <3>2. QED
      BY <1>3, <2>1, <3>1, Zenon
  <2>4. /\ m \in 0..(n - 1) /\ Len(Recent(s)) = m + 1
        /\ Len(Recent(s)) \in 1..MAX_RTT_COUNT
    BY <1>1, <1>7, <2>2, RecentLength, Zenon
  <2>5. Recent(s) = SubSeq(s, n - m, n)
    BY <1>1, <2>2, Zenon DEF Recent
  <2>6. CASE Len(Recent(s)) = MAX_RTT_COUNT
    <3>1. m = MAX_RTT_COUNT - 1
      BY <1>2, <2>4, <2>6
    <3>2. QED
      BY <1>5, <1>7, <2>3, <2>6, <3>1, Zenon
  <2>7. CASE Len(Recent(s)) # MAX_RTT_COUNT
    <3>1. m # MAX_RTT_COUNT - 1
      BY <1>2, <2>4, <2>7
    <3>2. r = m + 1
      BY <2>3, <3>1, Zenon
    <3>3. n + 1 - r = n - m /\ r \in 0..n
      BY <2>1, <2>4, <3>2
    <3>4. Recent(Append(s, x)) = Append(Recent(s), x)
      BY <1>4, <2>5, <3>3, Zenon
    <3>5. QED
      BY <1>7, <2>7, <3>4, Zenon
  <2>8. QED
    BY <2>6, <2>7
<1>8. QED
  BY <1>6, <1>7

-----------------------------------------------------------------------------
(* The inductive invariant. *)

\* A user is played by one client.
OnePlayer ==
  \A c, d \in Conn : player[c] = player[d] /\ player[c] # None => c = d

\* Who plays, at the places where that matters, and the size of a room that
\* is being walked.
Place(c) ==
  /\ pc[c] \in {"update", "answer"} => player[c] # None
  /\ pc[c] = "close" => player[c] = None
  /\ pc[c] \in {"walk", "store"} => loc[c].userNum # 0

\* The round trip times of an ObjUser are those of the window of its samples,
\* its sum up to a multiple of the number of int64_t values.
Measured(t, s) ==
  /\ s = <<>> => t = NewTimes
  /\ s # <<>> =>
       /\ t.count = Len(Recent(s))
       /\ t.avg = Div(t.total, t.count)
       /\ \E q \in Int : t.total = FoldSeq(+, 0, Recent(s)) + (2 * Half) * q

\* What a client was told last is the average of its player.
Answered(c) ==
  player[c] # None /\ pc[c] = "idle" /\ samples[player[c]] # <<>> =>
    loc[c].answer = times[player[c]].avg

IInv ==
  /\ TypeOK
  /\ NoCrash
  /\ OnePlayer
  /\ \A c \in Conn : Place(c) /\ Answered(c)
  /\ \A u \in User : Measured(times[u], samples[u])

-----------------------------------------------------------------------------
(* What a sample does. *)

\* ObjUser::UpdateRtt keeps the fields in their types.
LEMMA AddedType ==
  ASSUME NEW t \in Times, NEW x \in Int64
  PROVE  Added(t, x) \in Times
<1>1. MAX_RTT_COUNT \in Nat \ {0} /\ Int64 \subseteq Int /\ 0 \in Int64
  BY CountAssumption, RttAssumption DEF Int64
<1>2. PICK base : base = IF t.count >= MAX_RTT_COUNT THEN 0 ELSE t.total
  OBVIOUS
<1>3. PICK total : total = Wrap(base + x)
  OBVIOUS
<1>4. PICK count :
        count = (IF t.count >= MAX_RTT_COUNT THEN 0 ELSE t.count) + 1
  OBVIOUS
<1>5. total \in Int64
  <2>1. base + x \in Int
    BY <1>1, <1>2 DEF Times
  <2>2. QED
    BY <1>3, <2>1, Wrapped
<1>6. count \in 1..MAX_RTT_COUNT
  BY <1>1, <1>4 DEF Times
<1>7. Div(total, count) \in Int64
  BY <1>1, <1>5, <1>6, Divided
<1>8. Added(t, x)
        = [total |-> total, count |-> count, avg |-> Div(total, count)]
  BY <1>2, <1>3, <1>4 DEF Added
<1>9. QED
  BY <1>1, <1>5, <1>6, <1>7, <1>8 DEF Times

\* ObjUser::UpdateRtt keeps them those of the window.
LEMMA AddedMeasured ==
  ASSUME NEW t \in Times, NEW s \in Seq(Int64), Measured(t, s), NEW x \in Int64
  PROVE  Measured(Added(t, x), Append(s, x))
<1>1. /\ MAX_RTT_COUNT \in Nat \ {0} /\ x \in Int /\ t.total \in Int
      /\ t.count \in 0..MAX_RTT_COUNT /\ s \in Seq(Int)
  <2>1. Int64 \subseteq Int
    BY RttAssumption DEF Int64
  <2>2. QED
    BY <2>1, CountAssumption, SeqMonotonic DEF Times
<1>2. PICK base : base = IF t.count >= MAX_RTT_COUNT THEN 0 ELSE t.total
  OBVIOUS
<1>3. PICK count :
        count = (IF t.count >= MAX_RTT_COUNT THEN 0 ELSE t.count) + 1
  OBVIOUS
<1>4. PICK w, sum : w = Recent(Append(s, x)) /\ sum = FoldSeq(+, 0, w)
  OBVIOUS
<1>5. PICK k \in Int : k = 2 * Half
  BY RttAssumption
<1>6. count = Len(w) /\ sum \in Int /\ \E q \in Int : base + x = sum + k * q
  <2>1. CASE s = <<>> \/ t.count >= MAX_RTT_COUNT
    <3>1. /\ s = <<>> => t = NewTimes
          /\ s # <<>> => t.count = Len(Recent(s))
      BY Zenon DEF Measured
    <3>2. base = 0 /\ count = 1
      BY <1>1, <1>2, <1>3, <2>1, <3>1 DEF NewTimes
    <3>3. s # <<>> => Len(Recent(s)) = MAX_RTT_COUNT
      BY <1>1, <2>1, <3>1
    <3>4. w = <<x>>
      BY <1>1, <1>4, <3>3, RecentAppend
    <3>5. sum = x
      <4>1. <<>> \in Seq(Int)
        OBVIOUS
      <4>2. FoldSeq(+, 0, <<x>>) = x
        BY <1>1, <4>1, SumAppend
      <4>3. QED
        BY <1>4, <3>4, <4>2, Zenon
    <3>6. Len(<<x>>) = 1
      OBVIOUS
    <3>7. base + x = sum + k * 0
      BY <1>1, <3>2, <3>5
    <3>8. QED
      BY <1>1, <3>2, <3>4, <3>5, <3>6, <3>7
  <2>2. CASE s # <<>> /\ ~(t.count >= MAX_RTT_COUNT)
    <3>1. base = t.total /\ count = t.count + 1
      BY <1>2, <1>3, <2>2
    <3>2. PICK v : v = Recent(s)
      OBVIOUS
    <3>3. v \in Seq(Int) /\ Len(v) = t.count
      BY <1>1, <2>2, <3>2, RecentLength DEF Measured
    <3>4. Len(Recent(s)) # MAX_RTT_COUNT
      BY <1>1, <2>2, <3>2, <3>3
    <3>5. w = Append(v, x)
      BY <1>1, <1>4, <2>2, <3>2, <3>4, RecentAppend
    <3>6. PICK old : old = FoldSeq(+, 0, v)
      OBVIOUS
    <3>7. old \in Int /\ sum = old + x
      <4>1. /\ FoldSeq(+, 0, v) \in Int
            /\ FoldSeq(+, 0, Append(v, x)) = FoldSeq(+, 0, v) + x
        BY <1>1, <3>3, SumAppend
      <4>2. QED
        BY <1>4, <3>5, <3>6, <4>1, Zenon
    <3>8. PICK q \in Int : t.total = old + k * q
      BY <1>5, <2>2, <3>2, <3>6, Zenon DEF Measured
    <3>9. base + x = sum + k * q
      BY <1>1, <3>1, <3>7, <3>8
    <3>10. count = Len(w)
      BY <1>1, <3>1, <3>3, <3>5, AppendProperties
    <3>11. sum \in Int
      BY <1>1, <3>7
    <3>12. QED
      BY <3>9, <3>10, <3>11
  <2>3. QED
    BY <2>1, <2>2
<1>7. PICK total : total = Wrap(base + x)
  OBVIOUS
<1>8. \E q \in Int : total = sum + k * q
  <2>1. PICK p \in Int : base + x = sum + k * p
    BY <1>6
  <2>2. base + x \in Int
    BY <1>1, <1>2
  <2>3. PICK q \in Int : total = (base + x) + k * q
    BY <1>5, <1>7, <2>2, Wrapped, Zenon
  <2>4. p + q \in Int /\ total = sum + k * (p + q)
    BY <1>5, <1>6, <2>1, <2>3
  <2>5. QED
    BY <2>4, Zenon
<1>9. Added(t, x)
        = [total |-> total, count |-> count, avg |-> Div(total, count)]
  BY <1>2, <1>3, <1>7 DEF Added
<1>10. Append(s, x) # <<>>
  BY <1>1, AppendProperties
<1>11. PICK u : u = Added(t, x)
  OBVIOUS
<1>12. /\ u.count = Len(w) /\ u.avg = Div(u.total, u.count)
       /\ \E q \in Int : u.total = sum + k * q
  <2>1. u.total = total /\ u.count = count /\ u.avg = Div(total, count)
    BY <1>9, <1>11
  <2>2. QED
    BY <1>6, <1>8, <2>1, Zenon
<1>13. QED
  BY <1>4, <1>5, <1>10, <1>11, <1>12, Zenon DEF Measured

-----------------------------------------------------------------------------
(* The steps of the handlers. *)

\* The steps of the handlers of one client.
Handles(c) ==
  \/ Connect(c)
  \/ \E u \in User : Login(c, u)
  \/ ReqMove(c)
  \/ ReqObject(c)
  \/ \E rtt \in Rtts : ReqRoundTripTime(c, rtt)
  \/ UpdateRtt(c)
  \/ RoomSize(c)
  \/ Walk(c)
  \/ StoreAverage(c)
  \/ Answer(c)
  \/ Leave(c)
  \/ Disconnect(c)

\* What is in the types whatever the constants are.
LEMMA TypeFacts ==
  /\ NewTimes \in Times /\ NewLocals \in Locals /\ None \notin User
  /\ Cardinality(User) \in Nat /\ 0 \in Int64
<1>1. 0 \in Int64 /\ MAX_RTT_COUNT \in Nat
  BY RttAssumption, CountAssumption DEF Int64
<1>2. Cardinality(User) \in Nat
  BY UserAssumption, FS_CardinalityType
<1>3. QED
  BY <1>1, <1>2, NoneAssumption DEF NewTimes, Times, NewLocals, Locals

\* The handlers of one client keep all variables in their types.
LEMMA TypeStep ==
  ASSUME TypeOK, NEW c \in Conn, Place(c), Handles(c)
  PROVE  TypeOK'
<1>1. /\ loc \in [Conn -> Locals] /\ loc[c] \in Locals
      /\ player[c] \in User \cup {None}
  BY DEF TypeOK
<1>2. Players \subseteq User
  BY DEF TypeOK, Players
<1>3. CASE Connect(c)
  BY <1>3 DEF Connect, Presence!Connect, TypeOK, historyVars
<1>4. ASSUME NEW u \in User, Login(c, u)
      PROVE  TypeOK'
  <2>1. <<>> \in Seq(Int64)
    OBVIOUS
  <2>2. QED
    BY <1>4, <2>1, TypeFacts DEF Login, Presence!Enter, TypeOK
<1>5. CASE ReqMove(c)
  BY <1>5 DEF ReqMove, TypeOK, presenceVars
<1>6. CASE ReqObject(c)
  BY <1>6 DEF ReqObject, LookupFails, TypeOK, presenceVars
<1>7. ASSUME NEW rtt \in Rtts, ReqRoundTripTime(c, rtt)
      PROVE  TypeOK'
  <2>1. rtt \in Int64
    BY SampleAssumption
  <2>2. loc' \in [Conn -> Locals]
    BY <1>1, <1>7, <2>1 DEF ReqRoundTripTime, Locals
  <2>3. QED
    BY <1>7, <2>2
       DEF ReqRoundTripTime, LookupFails, Step, TypeOK, presenceVars
<1>8. CASE UpdateRtt(c)
  <2>1. player[c] \in User /\ loc[c].rtt \in Int64
    BY <1>1, <1>8 DEF UpdateRtt, Step, Place, Locals
  <2>2. /\ Added(times[player[c]], loc[c].rtt) \in Times
        /\ Append(samples[player[c]], loc[c].rtt) \in Seq(Int64)
    BY <2>1, AddedType, AppendProperties DEF TypeOK
  <2>3. QED
    BY <1>8, <2>1, <2>2 DEF UpdateRtt, Step, TypeOK, presenceVars
<1>9. CASE RoomSize(c)
  <2>1. Cardinality(Players) \in 0..Cardinality(User)
    BY <1>2, UserAssumption, FS_Subset, FS_CardinalityType
  <2>2. loc' \in [Conn -> Locals]
    BY <1>1, <1>2, <1>9, <2>1, TypeFacts DEF RoomSize, Locals
  <2>3. After(c) \in {"close", "answer"}
    BY DEF After
  <2>4. QED
    BY <1>9, <2>2, <2>3 DEF RoomSize, Step, TypeOK, presenceVars, historyVars
<1>10. CASE Walk(c)
  <2>1. loc' \in [Conn -> Locals]
    <3>1. CASE loc[c].it \notin Players
      BY <1>1, <1>10, <3>1 DEF Walk
    <3>2. CASE loc[c].it \in Players
      <4>1. loc[c].total + times[loc[c].it].avg \in Int
        BY <1>1, <1>2, <3>2, RttAssumption DEF TypeOK, Times, Locals, Int64
      <4>2. Wrap(loc[c].total + times[loc[c].it].avg) \in Int64
        BY <4>1, Wrapped
      <4>3. QED
        BY <1>1, <1>2, <1>10, <3>2, <4>2 DEF Walk, Locals
    <3>3. QED
      BY <3>1, <3>2
  <2>2. QED
    BY <1>10, <2>1 DEF Walk, TypeOK, presenceVars, historyVars
<1>11. CASE StoreAverage(c)
  <2>1. loc[c].userNum # 0 => Div(loc[c].total, loc[c].userNum) \in Int64
    BY <1>1, TypeFacts, Divided DEF Locals
  <2>2. After(c) \in {"close", "answer"}
    BY DEF After
  <2>3. QED
    BY <1>11, <2>1, <2>2
       DEF StoreAverage, Step, TypeOK, presenceVars, historyVars
<1>12. CASE Answer(c)
  <2>1. times[player[c]].avg \in Int64
    BY <1>1, <1>12 DEF Answer, Step, Place, TypeOK, Times
  <2>2. loc' \in [Conn -> Locals]
    BY <1>1, <1>12, <2>1, TypeFacts DEF Answer, Locals
  <2>3. QED
    BY <1>12, <2>2 DEF Answer, Step, TypeOK, presenceVars, historyVars
<1>13. CASE Leave(c)
  BY <1>13 DEF Leave, Presence!Leave, Step, TypeOK, historyVars
<1>14. CASE Disconnect(c)
  BY <1>14, TypeFacts
     DEF Disconnect, Presence!Disconnect, TypeOK, historyVars
<1>15. QED
  BY <1>3, <1>4, <1>5, <1>6, <1>7, <1>8, <1>9, <1>10, <1>11, <1>12, <1>13,
     <1>14 DEF Handles

\* Logins let nobody play a user that is played already.
LEMMA OnePlayerStep ==
  ASSUME TypeOK, OnePlayer, NEW c \in Conn, Handles(c)
  PROVE  OnePlayer'
<1>1. player \in [Conn -> User \cup {None}]
  BY DEF TypeOK
<1>2. ASSUME NEW u \in User, Login(c, u)
      PROVE  OnePlayer'
  BY <1>1, <1>2 DEF Login, Presence!Enter, OnePlayer
<1>3. CASE Leave(c)
  BY <1>1, <1>3 DEF Leave, Presence!Leave, OnePlayer
<1>4. CASE ~(Leave(c) \/ \E u \in User : Login(c, u))
  <2>1. player' = player
    BY <1>4
       DEF Handles, Connect, Presence!Connect, ReqMove, ReqObject,
           ReqRoundTripTime, UpdateRtt, RoomSize, Walk, StoreAverage, Answer,
           Disconnect, Presence!Disconnect, presenceVars
  <2>2. QED
    BY <2>1 DEF OnePlayer
<1>5. QED
  BY <1>2, <1>3, <1>4

\* A handler leaves the place and the locals of the others alone, and whom
\* they play, and what a player has measured that is not its own.
LEMMA OthersUntouched ==
  ASSUME TypeOK, NEW c \in Conn, Handles(c), NEW d \in Conn \ {c}
  PROVE  pc'[d] = pc[d] /\ loc'[d] = loc[d] /\ player'[d] = player[d]
<1>1. /\ pc \in [Conn -> {"idle", "update", "size", "walk", "store", "answer",
                          "close"}]
      /\ loc \in [Conn -> Locals] /\ player \in [Conn -> User \cup {None}]
  BY DEF TypeOK
<1>2. pc'[d] = pc[d]
  BY <1>1
     DEF Handles, Connect, Login, ReqMove, ReqObject, LookupFails,
         ReqRoundTripTime, UpdateRtt, RoomSize, Walk, StoreAverage, Answer,
         Leave, Disconnect, Step
<1>3. loc'[d] = loc[d]
  BY <1>1
     DEF Handles, Connect, Login, ReqMove, ReqObject, ReqRoundTripTime,
         UpdateRtt, RoomSize, Walk, StoreAverage, Answer, Leave, Disconnect
<1>4. player'[d] = player[d]
  BY <1>1
     DEF Handles, Connect, Presence!Connect, Login, Presence!Enter, ReqMove,
         ReqObject, ReqRoundTripTime, UpdateRtt, RoomSize, Walk, StoreAverage,
         Answer, Leave, Presence!Leave, Disconnect, Presence!Disconnect,
         presenceVars
<1>5. QED
  BY <1>2, <1>3, <1>4

\* A handler measures and answers for its own player, and walks a room that has
\* somebody in it.
LEMMA PlaceStep ==
  ASSUME TypeOK, NEW c \in Conn, Place(c), Handles(c)
  PROVE  Place(c)'
<1>1. /\ pc \in [Conn -> {"idle", "update", "size", "walk", "store", "answer",
                          "close"}]
      /\ loc \in [Conn -> Locals] /\ player \in [Conn -> User \cup {None}]
  BY DEF TypeOK
<1>2. CASE Connect(c)
  BY <1>2 DEF Connect, Presence!Connect, Place
<1>3. ASSUME NEW u \in User, Login(c, u)
      PROVE  Place(c)'
  BY <1>3 DEF Login, Place
<1>4. CASE ReqMove(c) \/ ReqObject(c)
  BY <1>4 DEF ReqMove, ReqObject, LookupFails, Place, presenceVars
<1>5. ASSUME NEW rtt \in Rtts, ReqRoundTripTime(c, rtt)
      PROVE  Place(c)'
  BY <1>1, <1>5 DEF ReqRoundTripTime, LookupFails, Step, Place, presenceVars
<1>6. CASE UpdateRtt(c)
  BY <1>1, <1>6 DEF UpdateRtt, Step, Place
<1>7. CASE RoomSize(c)
  <2>1. CASE Players = {}
    BY <1>1, <1>7, <2>1 DEF RoomSize, Step, After, Place, presenceVars
  <2>2. CASE Players # {}
    <3>1. IsFiniteSet(Players)
      <4>1. Players \in SUBSET User
        BY <1>1 DEF Players
      <4>2. QED
        BY <4>1, UserAssumption, FS_Subset
    <3>2. Cardinality(Players) # 0
      BY <2>2, <3>1, FS_EmptySet
    <3>3. pc'[c] = "walk" /\ loc'[c].userNum = Cardinality(Players)
      BY <1>1, <1>7, <2>2 DEF RoomSize, Step, Locals
    <3>4. QED
      BY <3>2, <3>3 DEF Place
  <2>3. QED
    BY <2>1, <2>2
<1>8. CASE Walk(c)
  <2>1. /\ pc[c] = "walk" /\ pc'[c] \in {"walk", "store"}
        /\ loc'[c].userNum = loc[c].userNum
    BY <1>1, <1>8 DEF Walk, Locals
  <2>2. QED
    BY <2>1 DEF Place
<1>9. CASE StoreAverage(c)
  BY <1>1, <1>9 DEF StoreAverage, Step, After, Place, presenceVars
<1>10. CASE Answer(c)
  BY <1>1, <1>10 DEF Answer, Step, Place
<1>11. CASE Leave(c)
  BY <1>1, <1>11 DEF Leave, Step, Place
<1>12. CASE Disconnect(c)
  BY <1>1, <1>12 DEF Disconnect, Place
<1>13. QED
  BY <1>2, <1>3, <1>4, <1>5, <1>6, <1>7, <1>8, <1>9, <1>10, <1>11, <1>12
     DEF Handles

\* Only a new login and a sample change what is measured.
LEMMA MeasuredStep ==
  ASSUME TypeOK, \A u \in User : Measured(times[u], samples[u]),
         NEW c \in Conn, Place(c), Handles(c), NEW v \in User
  PROVE  Measured(times'[v], samples'[v])
<1>1. /\ times \in [User -> Times] /\ samples \in [User -> Seq(Int64)]
      /\ player \in [Conn -> User \cup {None}] /\ loc[c].rtt \in Int64
  BY DEF TypeOK, Locals
<1>2. ASSUME NEW u \in User, Login(c, u)
      PROVE  Measured(times'[v], samples'[v])
  <2>1. /\ v = u => times'[v] = NewTimes /\ samples'[v] = <<>>
        /\ v # u => times'[v] = times[v] /\ samples'[v] = samples[v]
    BY <1>1, <1>2 DEF Login
  <2>2. Measured(NewTimes, <<>>)
    BY DEF Measured
  <2>3. QED
    BY <2>1, <2>2
<1>3. CASE UpdateRtt(c)
  <2>1. player[c] \in User
    BY <1>1, <1>3 DEF UpdateRtt, Step, Place
  <2>2. /\ v = player[c] =>
             /\ times'[v] = Added(times[v], loc[c].rtt)
             /\ samples'[v] = Append(samples[v], loc[c].rtt)
        /\ v # player[c] => times'[v] = times[v] /\ samples'[v] = samples[v]
    BY <1>1, <1>3, <2>1 DEF UpdateRtt
  <2>3. Measured(Added(times[v], loc[c].rtt), Append(samples[v], loc[c].rtt))
    BY <1>1, AddedMeasured
  <2>4. QED
    BY <2>2, <2>3
<1>4. CASE ~(UpdateRtt(c) \/ \E u \in User : Login(c, u))
  <2>1. times' = times /\ samples' = samples
    BY <1>4
       DEF Handles, Connect, ReqMove, ReqObject, ReqRoundTripTime, RoomSize,
           Walk, StoreAverage, Answer, Leave, Disconnect, historyVars
  <2>2. QED
    BY <2>1
<1>5. QED
  BY <1>2, <1>3, <1>4

\* Only its own samples change the average of a player, and then its client is
\* answered.
LEMMA AnsweredStep ==
  ASSUME TypeOK, OnePlayer, NEW c \in Conn, Place(c), Handles(c),
         NEW d \in Conn, Answered(d)
  PROVE  Answered(d)'
<1>1. /\ times \in [User -> Times] /\ samples \in [User -> Seq(Int64)]
      /\ pc \in [Conn -> {"idle", "update", "size", "walk", "store", "answer",
                          "close"}]
      /\ loc \in [Conn -> Locals] /\ player \in [Conn -> User \cup {None}]
      /\ None \notin User
  BY NoneAssumption DEF TypeOK
<1>2. CASE d # c
  <2>1. pc'[d] = pc[d] /\ loc'[d] = loc[d] /\ player'[d] = player[d]
    BY <1>2, OthersUntouched
  <2>2. ASSUME player[d] # None
        PROVE  /\ times'[player[d]] = times[player[d]]
               /\ samples'[player[d]] = samples[player[d]]
    <3>1. player[d] \in User /\ player[c] # player[d]
      BY <1>1, <1>2, <2>2 DEF OnePlayer
    <3>2. CASE UpdateRtt(c)
      BY <1>1, <3>1, <3>2 DEF UpdateRtt
    <3>3. ASSUME NEW u \in User, Login(c, u)
          PROVE  /\ times'[player[d]] = times[player[d]]
                 /\ samples'[player[d]] = samples[player[d]]
      BY <1>1, <3>1, <3>3 DEF Login, Presence!Enter
    <3>4. CASE ~(UpdateRtt(c) \/ \E u \in User : Login(c, u))
      BY <3>4
         DEF Handles, Connect, ReqMove, ReqObject, ReqRoundTripTime, RoomSize,
             Walk, StoreAverage, Answer, Leave, Disconnect, historyVars
    <3>5. QED
      BY <3>2, <3>3, <3>4
  <2>3. QED
    BY <2>1, <2>2 DEF Answered
<1>3. CASE d = c
  <2>1. ASSUME NEW u \in User, Login(c, u)
        PROVE  Answered(c)'
    BY <1>1, <2>1 DEF Login, Presence!Enter, Answered
  <2>2. CASE Answer(c)
    <3>1. /\ loc'[c].answer = times[player[c]].avg /\ times' = times
          /\ player' = player
      BY <1>1, <2>2 DEF Answer, Locals, presenceVars
    <3>2. QED
      BY <1>3, <3>1 DEF Answered
  <2>3. CASE Leave(c) \/ Disconnect(c)
    BY <1>1, <1>3, <2>3
       DEF Leave, Presence!Leave, Disconnect, Presence!Disconnect, Answered
  <2>4. CASE UpdateRtt(c) \/ RoomSize(c) \/ StoreAverage(c)
    <3>1. CASE pc'[c] # "idle"
      BY <1>3, <3>1 DEF Answered
    <3>2. CASE pc'[c] = "idle"
      BY <1>1, <1>3, <2>4, <3>2
         DEF UpdateRtt, RoomSize, StoreAverage, Step, After
    <3>3. QED
      BY <3>1, <3>2
  <2>5. CASE Walk(c)
    BY <1>1, <1>3, <2>5 DEF Walk, Answered
  <2>6. CASE Connect(c) \/ ReqMove(c) \/ ReqObject(c)
             \/ \E rtt \in Rtts : ReqRoundTripTime(c, rtt)
    <3>1. /\ times' = times /\ samples' = samples /\ player' = player
          /\ pc'[c] = "idle" => pc[c] = "idle" /\ loc'[c] = loc[c]
      BY <1>1, <2>6
         DEF Connect, Presence!Connect, ReqMove, ReqObject, LookupFails,
             ReqRoundTripTime, Step, presenceVars, historyVars
    <3>2. QED
      BY <1>3, <3>1 DEF Answered
  <2>7. QED
    BY <1>3, <2>1, <2>2, <2>3, <2>4, <2>5, <2>6 DEF Handles
<1>4. QED
  BY <1>2, <1>3

\* Null is dereferenced for a client that did not wait for its login only, and
\* the size of a room that is divided by is not zero.
LEMMA NoCrashStep ==
  ASSUME NoCrash, NEW c \in Conn, Place(c), Handles(c), status = "running"
  PROVE  NoCrash'
<1>1. CASE ReqMove(c) \/ ReqObject(c)
           \/ \E rtt \in Rtts : ReqRoundTripTime(c, rtt)
  BY <1>1 DEF ReqMove, ReqObject, ReqRoundTripTime, LookupFails, NoCrash
<1>2. CASE StoreAverage(c)
  BY <1>2 DEF StoreAverage, Step, Place, NoCrash, historyVars
<1>3. CASE ~(\/ ReqMove(c) \/ ReqObject(c) \/ StoreAverage(c)
             \/ \E rtt \in Rtts : ReqRoundTripTime(c, rtt))
  <2>1. status' \in {status, "undefined"}
    BY <1>3
       DEF Handles, Connect, Login, UpdateRtt, RoomSize, Walk, Answer, Leave,
           Disconnect
  <2>2. QED
    BY <2>1 DEF NoCrash
<1>4. QED
  BY <1>1, <1>2, <1>3

-----------------------------------------------------------------------------
(* The theorems. *)

\* The inductive invariant holds at the start and is kept by every step.
LEMMA Inductive ==
  /\ Init => IInv
  /\ IInv /\ [Next]_vars => IInv'
<1>1. ASSUME Init
      PROVE  IInv
  <2>1. TypeOK
    <3>1. <<>> \in Seq(Int64)
      OBVIOUS
    <3>2. QED
      BY <1>1, <3>1, TypeFacts DEF Init, Presence!Init, TypeOK
  <2>2. NoCrash /\ OnePlayer /\ \A c \in Conn : Place(c) /\ Answered(c)
    BY <1>1
       DEF Init, Presence!Init, NoCrash, OnePlayer, Place, Answered
  <2>3. ASSUME NEW u \in User
        PROVE  Measured(times[u], samples[u])
    <3>1. times[u] = NewTimes /\ samples[u] = <<>>
      BY <1>1 DEF Init
    <3>2. QED
      BY <3>1, Zenon DEF Measured
  <2>4. QED
    BY <2>1, <2>2, <2>3 DEF IInv
<1>2. ASSUME IInv, [Next]_vars
      PROVE  IInv'
  <2>1. ASSUME NEW c \in Conn, Handles(c), status = "running"
        PROVE  IInv'
    <3>1. TypeOK' /\ OnePlayer' /\ NoCrash'
      BY <1>2, <2>1, TypeStep, OnePlayerStep, NoCrashStep DEF IInv
    <3>2. \A d \in Conn : Place(d)'
      <4>1. Place(c)'
        BY <1>2, <2>1, PlaceStep DEF IInv
      <4>2. ASSUME NEW d \in Conn \ {c}
            PROVE  Place(d)'
        BY <1>2, <2>1, OthersUntouched DEF IInv, Place
      <4>3. QED
        BY <4>1, <4>2
    <3>3. \A d \in Conn : Answered(d)'
      BY <1>2, <2>1, AnsweredStep DEF IInv
    <3>4. \A u \in User : Measured(times'[u], samples'[u])
      BY <1>2, <2>1, MeasuredStep DEF IInv
    <3>5. QED
      BY <3>1, <3>2, <3>3, <3>4 DEF IInv
  <2>2. CASE UNCHANGED vars
    BY <1>2, <2>2
       DEF IInv, vars, presenceVars, historyVars, TypeOK, OnePlayer, NoCrash,
           Place, Answered
  <2>3. QED
    BY <1>2, <2>1, <2>2 DEF Next, Running, Handles
<1>3. QED
  BY <1>1, <1>2

\* Every variable stays in its type: the times in int64_t, the count of a
\* window within MAX_RTT_COUNT, the size of a room within the users.
THEOREM TypeCorrect == Spec => []TypeOK
<1>1. IInv => TypeOK
  BY DEF IInv
<1>2. QED
  BY <1>1, Inductive, PTL DEF Spec

\* As long as clients wait for their login no request dereferences null, and
\* no room is divided by while it is empty.
THEOREM NeverCrashes == Spec => []NoCrash
<1>1. IInv => NoCrash
  BY DEF IInv
<1>2. QED
  BY <1>1, Inductive, PTL DEF Spec

\* The average of a player is the mean of the samples since its window was last
\* restarted, whatever the samples, unless their sum is no int64_t, and it is
\* what its client has been answered.
THEOREM AveragesAreMeans == Spec => []WindowMean
<1>1. IInv => WindowMean
  <2>1. SUFFICES ASSUME IInv
                 PROVE  WindowMean
    OBVIOUS
  <2>2. ASSUME NEW u \in Players, samples[u] # <<>>,
               FoldSeq(+, 0, Window(u)) \in Int64
        PROVE  times[u].avg = Div(FoldSeq(+, 0, Window(u)), Len(Window(u)))
    <3>1. u \in User /\ times[u] \in Times
      BY <2>1 DEF IInv, TypeOK, Players
    <3>2. Window(u) = Recent(samples[u])
      BY Zenon DEF Window, Recent
    <3>3. PICK sum : sum = FoldSeq(+, 0, Window(u))
      OBVIOUS
    <3>4. /\ times[u].count = Len(Window(u))
          /\ times[u].avg = Div(times[u].total, times[u].count)
          /\ \E q \in Int : times[u].total = sum + (2 * Half) * q
      BY <2>1, <2>2, <3>1, <3>2, <3>3, Zenon DEF IInv, Measured
    <3>5. times[u].total \in Int64 /\ sum \in Int64
      BY <2>2, <3>1, <3>3, Zenon DEF Times
    <3>6. times[u].total = sum
      BY <3>4, <3>5, Unwrapped
    <3>7. QED
      BY <3>3, <3>4, <3>6, Zenon
  <2>3. \A c \in Conn : Answered(c)
    BY <2>1 DEF IInv
  <2>4. QED
    BY <2>2, <2>3, Zenon DEF WindowMean, Answered
<1>2. QED
  BY <1>1, Inductive, PTL DEF Spec
=============================================================================
