---------------------------- MODULE DataPathProofs ----------------------------
(***************************************************************************)
(* The way of the examples, for data sets, limits, batches and numbers of  *)
(* ranks of any size: what is held out is never trained on, the shards of  *)
(* two ranks have no example in common, and a rank goes round its shard    *)
(* evenly.  And for prompts, responses, packs and chunks of any length: a  *)
(* batch is packed whole and greedily, and every response has its share of *)
(* the gradient, once.                                                     *)
(***************************************************************************)
EXTENDS DataPath, NumberLemmas, FiniteSetTheorems, SequenceTheorems

-----------------------------------------------------------------------------
(***************************************************************************)
(* Sequences without repetition                                            *)
(***************************************************************************)
\* s is a sequence over X that has each of its elements once.
Once(s, X) == s \in Seq(X) /\ \A i, j \in 1..Len(s) : s[i] = s[j] => i = j

\* Every element of t is one of s.
Among(t, s) == \A i \in 1..Len(t) : \E j \in 1..Len(s) : t[i] = s[j]

LEMMA PartOfOnce ==
  ASSUME NEW X, NEW s, Once(s, X), NEW a \in Nat \ {0}, NEW b \in 0..Len(s)
  PROVE  /\ Once(SubSeq(s, a, b), X) /\ Among(SubSeq(s, a, b), s)
         /\ Len(SubSeq(s, a, b)) = IF a <= b THEN b - a + 1 ELSE 0
         /\ \A i \in 1..Len(SubSeq(s, a, b)) : SubSeq(s, a, b)[i] = s[a + i - 1] /\ a + i - 1 \in 1..Len(s)
<1> DEFINE t == SubSeq(s, a, b)
<1>1. s \in Seq(X) /\ Len(s) \in Nat
  BY DEF Once
<1>2. Len(t) = IF a <= b THEN b - a + 1 ELSE 0
  BY <1>1
<1>3. \A i \in 1..Len(t) : t[i] = s[a + i - 1] /\ a + i - 1 \in 1..Len(s)
  BY <1>1, <1>2
<1>4. t \in Seq(X)
  BY <1>1
<1> HIDE DEF t
<1>5. Len(t) \in Nat
  BY <1>4
<1>6. ASSUME NEW i \in 1..Len(t), NEW j \in 1..Len(t), t[i] = t[j]
      PROVE  i = j
  <2>1. a + i - 1 = a + j - 1
    BY <1>3, <1>6 DEF Once
  <2>2. QED
    BY <2>1
<1>7. Once(t, X)
  BY <1>4, <1>6 DEF Once
<1>8. Among(t, s)
  BY <1>3 DEF Among
<1>9. QED
  BY <1>2, <1>3, <1>7, <1>8 DEF t

\* kept are the elements of s that are not in dropped, as far as n.
Keep(kept, x, dropped) == IF x \in dropped THEN kept ELSE Append(kept, x)

KeptUpTo(kept, s, dropped, n) ==
  kept = [k \in 0..n |-> IF k = 0 THEN <<>> ELSE Keep(kept[k - 1], s[k], dropped)]

LEMMA KeptExists ==
  ASSUME NEW s, NEW dropped, NEW n \in Nat
  PROVE  \E kept : KeptUpTo(kept, s, dropped, n)
<1> DEFINE S == {k \in Nat : \E kept : KeptUpTo(kept, s, dropped, k)}
<1>1. 0 \in S
  <2>1. KeptUpTo([k \in 0..0 |-> <<>>], s, dropped, 0)
    BY DEF KeptUpTo
  <2>2. QED
    BY <2>1
<1>2. ASSUME NEW k \in Nat, k \in S
      PROVE  k + 1 \in S
  <2>1. PICK f : KeptUpTo(f, s, dropped, k)
    BY <1>2
  <2>2. KeptUpTo([j \in 0..k + 1 |-> IF j = k + 1 THEN Keep(f[k], s[k + 1], dropped) ELSE f[j]], s, dropped, k + 1)
    BY <2>1 DEF KeptUpTo
  <2>3. QED
    BY <2>2
<1> HIDE DEF S
<1>3. n \in S
  BY <1>1, <1>2, SetInduction
<1>4. QED
  BY <1>3 DEF S

\* The length filter drops examples and repeats none.
LEMMA FitsFacts ==
  ASSUME NEW X, NEW s, Once(s, X), NEW dropped
  PROVE  Once(Fits(s, dropped), X) /\ Among(Fits(s, dropped), s)
<1> DEFINE f == CHOOSE f : KeptUpTo(f, s, dropped, Len(s))
<1>1. s \in Seq(X) /\ Len(s) \in Nat
  BY DEF Once
<1>2. KeptUpTo(f, s, dropped, Len(s))
  BY <1>1, KeptExists
<1>3. Fits(s, dropped) = f[Len(s)]
  BY DEF Fits, KeptUpTo, Keep
<1> HIDE DEF f
<1> DEFINE Good(k) == /\ f[k] \in Seq(X)
                      /\ \A i, j \in 1..Len(f[k]) : f[k][i] = f[k][j] => i = j
                      /\ \A i \in 1..Len(f[k]) : \E j \in 1..k : f[k][i] = s[j]
           S == {k \in Nat : k <= Len(s) => Good(k)}
<1>4. 0 \in S
  <2>1. f[0] = <<>>
    BY <1>1, <1>2 DEF KeptUpTo
  <2>2. <<>> \in Seq(X) /\ 1..Len(<<>>) = {}
    OBVIOUS
  <2>3. QED
    BY <2>1, <2>2, Zenon
<1>5. ASSUME NEW k \in Nat, k \in S
      PROVE  k + 1 \in S
  <2>1. SUFFICES ASSUME k + 1 <= Len(s) PROVE Good(k + 1)
    OBVIOUS
  <2>2. Good(k) /\ k + 1 \in 1..Len(s) /\ (k + 1) - 1 = k
    BY <1>1, <1>5, <2>1
  <2>3. f[k + 1] = IF s[k + 1] \in dropped THEN f[k] ELSE Append(f[k], s[k + 1])
    <3>1. f[k + 1] = Keep(f[k], s[k + 1], dropped)
      BY <1>1, <1>2, <2>2 DEF KeptUpTo
    <3>2. QED
      BY <3>1 DEF Keep
  <2>4. CASE s[k + 1] \in dropped
    BY <2>2, <2>3, <2>4
  <2>5. CASE s[k + 1] \notin dropped
    <3> DEFINE g == f[k]
               x == s[k + 1]
    <3>1. f[k + 1] = Append(g, x) /\ g \in Seq(X) /\ x \in X /\ Len(g) \in Nat
      BY <1>1, <2>2, <2>3, <2>5
    <3>2. \A i \in 1..Len(g) : x # g[i]
      <4>1. ASSUME NEW i \in 1..Len(g), x = g[i] PROVE FALSE
        <5>1. PICK j \in 1..k : g[i] = s[j]
          BY <2>2
        <5>2. j \in 1..Len(s) /\ j # k + 1
          BY <2>2
        <5>3. QED
          BY <2>2, <4>1, <5>1, <5>2 DEF Once
      <4>2. QED
        BY <4>1
    <3>3. \A i, j \in 1..Len(g) : g[i] = g[j] => i = j
      BY <2>2
    <3>4. \A i \in 1..Len(g) : \E j \in 1..k + 1 : g[i] = s[j]
      BY <2>2
    <3>5. x = s[k + 1] /\ k + 1 \in 1..k + 1
      OBVIOUS
    <3> HIDE DEF g, x
    <3> DEFINE h == Append(g, x)
    <3>6. h \in Seq(X) /\ Len(h) = Len(g) + 1 /\ h[Len(g) + 1] = x /\ \A i \in 1..Len(g) : h[i] = g[i]
      BY <3>1
    <3> HIDE DEF h
    <3>7. \A i \in 1..Len(h) : i \in 1..Len(g) \/ i = Len(g) + 1
      BY <3>1, <3>6
    <3>8. \A i, j \in 1..Len(h) : h[i] = h[j] => i = j
      BY <3>2, <3>3, <3>6, <3>7
    <3>9. \A i \in 1..Len(h) : \E j \in 1..k + 1 : h[i] = s[j]
      BY <3>4, <3>5, <3>6, <3>7
    <3>10. QED
      BY <3>1, <3>6, <3>8, <3>9 DEF h
  <2>6. QED
    BY <2>4, <2>5
<1> HIDE DEF S
<1>6. Len(s) \in S
  BY <1>1, <1>4, <1>5, SetInduction
<1>7. Good(Len(s))
  BY <1>1, <1>6 DEF S
<1>8. QED
  BY <1>3, <1>7 DEF Once, Among

-----------------------------------------------------------------------------
(***************************************************************************)
(* Where the examples go                                                   *)
(***************************************************************************)
Row == Range(DataSet)

LEMMA RowsOnce == Once(DataSet, Row)
BY DataAssumption DEF Once, Row, IsInjective

LEMMA WorldType ==
  /\ Cardinality(World) \in Nat \ {0} /\ World = 0..Cardinality(World) - 1
  /\ \A r \in World : r \in Nat /\ r <= Cardinality(World) - 1
<1>1. World # {} /\ Cardinality(World) \in Nat /\ World = 0..Cardinality(World) - 1
  BY EvaluationAssumption, FS_CardinalityType
<1>2. QED
  BY <1>1

LEMMA LimitedOnce ==
  ASSUME NEW X, NEW s, Once(s, X), NEW limit \in Int
  PROVE  Once(Limited(s, limit), X) /\ Among(Limited(s, limit), s)
<1>1. Len(s) \in Nat /\ Among(s, s)
  BY DEF Once, Among
<1>2. CASE limit < 0 \/ limit >= Len(s)
  BY <1>1, <1>2 DEF Limited
<1>3. CASE ~ (limit < 0 \/ limit >= Len(s))
  <2>1. limit \in 0..Len(s)
    BY <1>1, <1>3
  <2>2. Limited(s, limit) = SubSeq(s, 1, limit)
    BY <1>3 DEF Limited
  <2>3. QED
    BY <2>1, <2>2, PartOfOnce
<1>4. QED
  BY <1>2, <1>3

LEMMA LoadedOnce == Once(Loaded, Row) /\ Len(Loaded) \in Nat
<1>1. Once(Loaded, Row)
  BY RowsOnce, LimitedOnce, DataAssumption DEF Loaded
<1>2. QED
  BY <1>1 DEF Once

LEMMA TestAmong == Range(TestExamples) \subseteq Range(TestSet)
<1> DEFINE L == Limited(TestSet, EvalLimit)
<1>1. Once(TestSet, Range(TestSet))
  BY DataAssumption DEF Once, IsInjective
<1>2. Once(L, Range(TestSet))
  BY <1>1, LimitedOnce, DataAssumption
<1>3. Once(TestExamples, Range(TestSet))
  BY <1>2, FitsFacts DEF TestExamples
<1>4. QED
  BY <1>3 DEF Once, Range

\* What is trained on is in the data set, once, and held out neither for
\* validation nor as a test.
LEMMA TrainOnce ==
  /\ Once(TrainExamples, Row) /\ Len(TrainExamples) \in Nat
  /\ ~ SplitRaises(Loaded, ValidationSize) =>
       \A i \in 1..Len(TrainExamples) :
         TrainExamples[i] \notin Range(ValidationExamples) \cup Range(TestExamples)
<1> DEFINE T == TrainPart(Loaded, ValidationSize)
           V == ValidationPart(Loaded, ValidationSize)
<1>1. Once(Loaded, Row) /\ Len(Loaded) \in Nat /\ ValidationSize \in Nat
  BY LoadedOnce, DataAssumption
<1>2. /\ Once(T, Row)
      /\ \A i \in 1..Len(T) : T[i] = Loaded[ValidationSize + 1 + i - 1] /\ ValidationSize + 1 + i - 1 \in 1..Len(Loaded)
  <2>1. ValidationSize + 1 \in Nat \ {0} /\ Len(Loaded) \in 0..Len(Loaded)
    BY <1>1
  <2>2. QED
    BY <1>1, <2>1, PartOfOnce DEF TrainPart
<1> HIDE DEF T
<1>3. Once(TrainExamples, Row) /\ Among(TrainExamples, T)
  BY <1>2, FitsFacts DEF TrainExamples, T
<1>4. ASSUME ~ SplitRaises(Loaded, ValidationSize), NEW i \in 1..Len(TrainExamples)
      PROVE  TrainExamples[i] \notin Range(ValidationExamples)
  <2>1. ValidationSize \in 0..Len(Loaded)
    BY <1>1, <1>4 DEF SplitRaises
  <2>2. /\ Once(V, Row)
        /\ Len(V) = ValidationSize
        /\ \A j \in 1..Len(V) : V[j] = Loaded[1 + j - 1] /\ 1 + j - 1 \in 1..Len(Loaded)
    <3>1. Len(V) = IF 1 <= ValidationSize THEN ValidationSize - 1 + 1 ELSE 0
      BY <1>1, <2>1, PartOfOnce DEF ValidationPart
    <3>2. QED
      BY <1>1, <2>1, <3>1, PartOfOnce DEF ValidationPart
  <2> HIDE DEF V
  <2>3. Once(ValidationExamples, Row) /\ Among(ValidationExamples, V)
    BY <2>2, FitsFacts DEF ValidationExamples, V
  <2>4. ASSUME NEW x \in Range(ValidationExamples), TrainExamples[i] = x
        PROVE  FALSE
    <3>1. PICK k \in 1..Len(ValidationExamples) : x = ValidationExamples[k]
      BY <2>3, <2>4 DEF Range, Once
    <3>2. PICK j \in 1..Len(V) : x = V[j]
      BY <2>3, <3>1 DEF Among
    <3>3. PICK l \in 1..Len(T) : x = T[l]
      BY <1>3, <2>4, <1>4 DEF Among
    <3>4. j = 1 + j - 1 /\ j \in 1..ValidationSize /\ l \in Nat \ {0}
      BY <2>1, <2>2
    <3>5. ValidationSize + 1 + l - 1 = 1 + j - 1
      <4>1. x = Loaded[1 + j - 1] /\ 1 + j - 1 \in 1..Len(Loaded)
        BY <2>2, <3>2
      <4>2. x = Loaded[ValidationSize + 1 + l - 1] /\ ValidationSize + 1 + l - 1 \in 1..Len(Loaded)
        BY <1>2, <3>3
      <4>3. QED
        BY <1>1, <4>1, <4>2 DEF Once
    <3>6. QED
      BY <1>1, <3>4, <3>5
  <2>5. QED
    BY <2>4
<1>5. ASSUME NEW i \in 1..Len(TrainExamples)
      PROVE  TrainExamples[i] \notin Range(TestExamples)
  <2>1. TrainExamples[i] \in Range(DataSet)
    BY <1>3, <1>5 DEF Once, Row
  <2>2. Range(TestExamples) \subseteq Range(TestSet)
    BY TestAmong
  <2>3. QED
    BY <2>1, <2>2, DataAssumption
<1>6. QED
  BY <1>3, <1>4, <1>5 DEF Once

-----------------------------------------------------------------------------
(***************************************************************************)
(* Shards                                                                  *)
(***************************************************************************)
Workers == Cardinality(World)

\* The shards have one length, are parts of the training examples, repeat
\* none, and no two have one in common.
LEMMA ShardFacts ==
  /\ MinShardLen \in Nat
  /\ \A r \in World :
       /\ Once(Shard(r), Row) /\ Len(Shard(r)) = MinShardLen
       /\ \A k \in 1..MinShardLen :
            /\ r + (k - 1) * Workers + 1 \in 1..Len(TrainExamples)
            /\ Shard(r)[k] = TrainExamples[r + (k - 1) * Workers + 1]
<1> DEFINE T == TrainExamples
           Ls == {Len(Strided(T, r, Workers)) : r \in World}
<1>1. Once(T, Row) /\ Len(T) \in Nat
  BY TrainOnce
<1>2. Workers \in Nat \ {0} /\ \A r \in World : r \in Nat /\ r <= Workers - 1
  BY WorldType DEF Workers
<1> HIDE DEF T
<1>3. ASSUME NEW r \in World
      PROVE  /\ Strided(T, r, Workers) \in Seq(Row) /\ Len(Strided(T, r, Workers)) \in Nat
             /\ \A k \in 1..Len(Strided(T, r, Workers)) :
                  /\ r + (k - 1) * Workers + 1 \in 1..Len(T)
                  /\ Strided(T, r, Workers)[k] = T[r + (k - 1) * Workers + 1]
  <2> DEFINE a == Len(T) - r + Workers - 1
             n == a \div Workers
             s == Strided(T, r, Workers)
  <2>1. a \in Nat
    BY <1>1, <1>2
  <2> HIDE DEF a
  <2>2. n \in Nat /\ a % Workers \in 0..Workers - 1 /\ a = n * Workers + (a % Workers)
    BY <1>2, <2>1, QuotientAndRest
  <2>3. s = [k \in 1..n |-> T[r + (k - 1) * Workers + 1]]
    BY DEF Strided, a
  <2> HIDE DEF n
  <2>4. Len(s) = n /\ \A k \in 1..n : s[k] = T[r + (k - 1) * Workers + 1]
    BY <2>2, <2>3
  <2>5. ASSUME NEW k \in 1..n
        PROVE  r + (k - 1) * Workers + 1 \in 1..Len(T)
    <3>1. (k - 1) * Workers \in Nat /\ k * Workers = (k - 1) * Workers + Workers /\ k * Workers <= n * Workers
      BY <1>2, <2>2
    <3>2. n * Workers <= a /\ n * Workers \in Nat
      BY <1>2, <2>1, <2>2
    <3>3. r \in Nat /\ k * Workers \in Nat
      BY <1>2, <3>1
    <3>4. QED
      BY <1>1, <1>2, <3>1, <3>2, <3>3 DEF a
  <2>6. s \in Seq(Row)
    <3>1. \A k \in 1..n : T[r + (k - 1) * Workers + 1] \in Row
      BY <1>1, <2>5 DEF Once
    <3> HIDE DEF s
    <3>2. QED
      BY <2>2, <2>3, <3>1
  <2>7. QED
    BY <2>2, <2>4, <2>5, <2>6
<1>4. Ls \in SUBSET Nat /\ Ls # {}
  BY <1>3, EvaluationAssumption
<1>5. MinShardLen \in Ls /\ \A y \in Ls : MinShardLen <= y
  <2>1. MinShardLen = Min(Ls)
    BY DEF MinShardLen, Workers, T
  <2>2. \E x \in Ls : \A y \in Ls : x <= y
    BY <1>4, LeastNumber
  <2> HIDE DEF Ls
  <2>3. QED
    BY <2>1, <2>2 DEF Min
<1>6. ASSUME NEW r \in World
      PROVE  /\ Once(Shard(r), Row) /\ Len(Shard(r)) = MinShardLen
             /\ \A k \in 1..MinShardLen :
                  /\ r + (k - 1) * Workers + 1 \in 1..Len(T)
                  /\ Shard(r)[k] = T[r + (k - 1) * Workers + 1]
  <2> DEFINE s == Strided(T, r, Workers)
             n == MinShardLen
  <2>1. n \in Nat /\ Len(s) \in Nat /\ n <= Len(s)
    BY <1>3, <1>4, <1>5
  <2>2. /\ \A k \in 1..Len(s) : r + (k - 1) * Workers + 1 \in 1..Len(T) /\ s[k] = T[r + (k - 1) * Workers + 1]
    BY <1>3
  <2>3. s \in Seq(Row)
    BY <1>3
  <2>4. Shard(r) = SubSeq(s, 1, n)
    BY DEF Shard, Workers, T
  <2> HIDE DEF s, n
  <2>5. ASSUME NEW i \in 1..Len(s), NEW j \in 1..Len(s), s[i] = s[j] PROVE i = j
    <3>1. r + (i - 1) * Workers + 1 = r + (j - 1) * Workers + 1
      BY <1>1, <2>2, <2>5 DEF Once
    <3>2. i - 1 \in Nat /\ j - 1 \in Nat /\ r \in 0..Workers - 1
      BY <1>2, <2>1
    <3>3. (i - 1) * Workers \in Nat /\ (j - 1) * Workers \in Nat
      BY <1>2, <3>2
    <3>4. (i - 1) * Workers + r = (j - 1) * Workers + r
      BY <1>2, <3>1, <3>2, <3>3
    <3>5. i - 1 = j - 1
      BY <1>2, <3>2, <3>4, OneQuotient
    <3>6. QED
      BY <3>5
  <2>6. Once(s, Row)
    BY <2>3, <2>5 DEF Once
  <2>7. n \in 0..Len(s)
    BY <2>1
  <2>8. /\ Once(Shard(r), Row)
        /\ Len(Shard(r)) = IF 1 <= n THEN n - 1 + 1 ELSE 0
        /\ \A i \in 1..Len(Shard(r)) : Shard(r)[i] = s[1 + i - 1]
    BY <2>4, <2>6, <2>7, PartOfOnce
  <2>9. Len(Shard(r)) = n
    BY <2>1, <2>8
  <2>10. \A k \in 1..n : 1 + k - 1 = k /\ k \in 1..Len(s)
    BY <2>1
  <2>11. QED
    BY <2>2, <2>8, <2>9, <2>10 DEF n
<1>7. QED
  BY <1>4, <1>5, <1>6 DEF T

LEMMA ShardsApart ==
  ASSUME NEW r \in World, NEW q \in World, r # q
  PROVE  Range(Shard(r)) \cap Range(Shard(q)) = {}
<1>1. SUFFICES ASSUME NEW x \in Range(Shard(r)), x \in Range(Shard(q)) PROVE FALSE
  OBVIOUS
<1>2. /\ MinShardLen \in Nat
      /\ Shard(r) \in Seq(Row) /\ Shard(q) \in Seq(Row)
      /\ Len(Shard(r)) = MinShardLen /\ Len(Shard(q)) = MinShardLen
  BY ShardFacts DEF Once
<1>3. PICK k \in 1..MinShardLen : x = Shard(r)[k]
  BY <1>1, <1>2 DEF Range
<1>4. PICK l \in 1..MinShardLen : x = Shard(q)[l]
  BY <1>1, <1>2 DEF Range
<1>5. /\ x = TrainExamples[r + (k - 1) * Workers + 1] /\ r + (k - 1) * Workers + 1 \in 1..Len(TrainExamples)
      /\ x = TrainExamples[q + (l - 1) * Workers + 1] /\ q + (l - 1) * Workers + 1 \in 1..Len(TrainExamples)
  BY <1>3, <1>4, ShardFacts
<1>6. r + (k - 1) * Workers + 1 = q + (l - 1) * Workers + 1
  BY <1>5, TrainOnce DEF Once
<1>7. /\ Workers \in Nat \ {0} /\ r \in 0..Workers - 1 /\ q \in 0..Workers - 1
      /\ k - 1 \in Nat /\ l - 1 \in Nat
  BY <1>2, WorldType DEF Workers
<1>8. (k - 1) * Workers \in Nat /\ (l - 1) * Workers \in Nat
  BY <1>7
<1>9. (k - 1) * Workers + r = (l - 1) * Workers + q
  BY <1>6, <1>7, <1>8
<1>10. QED
  BY <1>7, <1>9, OneQuotient

-----------------------------------------------------------------------------
(***************************************************************************)
(* Round and round a shard                                                 *)
(***************************************************************************)
\* After t examples from the beginning of s, round and round, the whole of s
\* has been seen q times and the first m of it once more.
EvenAt(seen, s, t) ==
  \E q \in Nat, m \in 0..Len(s) - 1 :
    /\ t = q * Len(s) + m
    /\ \A p \in 1..Len(s) : seen[s[p]] = q + (IF p <= m THEN 1 ELSE 0)

LEMMA OneMore ==
  ASSUME NEW X, NEW s, Once(s, X), Len(s) # 0, NEW t \in Nat, NEW seen, EvenAt(seen, s, t),
         NEW now, \A p \in 1..Len(s) : now[s[p]] = seen[s[p]] + (IF p = (t % Len(s)) + 1 THEN 1 ELSE 0)
  PROVE  EvenAt(now, s, t + 1)
<1> DEFINE L == Len(s)
<1>1. L \in Nat \ {0}
  BY DEF Once
<1>2. PICK q \in Nat, m \in 0..L - 1 :
        /\ t = q * L + m
        /\ \A p \in 1..L : seen[s[p]] = q + (IF p <= m THEN 1 ELSE 0)
  BY DEF EvenAt
<1>3. t % L = m
  BY <1>1, <1>2, RestIs
<1>4. \A p \in 1..L : now[s[p]] = q + (IF p <= m THEN 1 ELSE 0) + (IF p = m + 1 THEN 1 ELSE 0)
  BY <1>2, <1>3
<1>5. ASSUME NEW p \in 1..L
      PROVE  now[s[p]] = q + (IF p <= m + 1 THEN 1 ELSE 0)
  <2>1. now[s[p]] = q + (IF p <= m THEN 1 ELSE 0) + (IF p = m + 1 THEN 1 ELSE 0)
    BY <1>4
  <2>2. p \in Nat /\ m \in Nat /\ q \in Nat
    BY <1>1
  <2>3. QED
    BY <2>1, <2>2
<1> HIDE DEF L
<1>6. q * L \in Nat
  BY <1>1
<1>7. CASE m + 1 < L
  <2>1. m + 1 \in 0..L - 1 /\ t + 1 = q * L + (m + 1)
    BY <1>1, <1>2, <1>6, <1>7
  <2>2. QED
    BY <1>5, <2>1 DEF EvenAt, L
<1>8. CASE m + 1 = L
  <2>1. q + 1 \in Nat /\ 0 \in 0..L - 1 /\ (q + 1) * L = q * L + L
    BY <1>1
  <2>2. t + 1 = (q + 1) * L + 0
    BY <1>1, <1>2, <1>6, <1>8, <2>1
  <2>3. ASSUME NEW p \in 1..L
        PROVE  now[s[p]] = (q + 1) + (IF p <= 0 THEN 1 ELSE 0)
    <3>1. p <= m + 1 /\ ~ (p <= 0)
      BY <1>1, <1>8
    <3>2. now[s[p]] = q + 1
      BY <1>5, <3>1
    <3>3. QED
      BY <3>1, <3>2
  <2>4. QED
    BY <2>1, <2>2, <2>3 DEF EvenAt, L
<1>9. QED
  BY <1>1, <1>2, <1>7, <1>8

\* How often x is among the first j of b.
CountIn(b, x, j) == Cardinality({i \in 1..j : b[i] = x})

LEMMA CountStep ==
  ASSUME NEW b, NEW x, NEW j \in Nat
  PROVE  /\ CountIn(b, x, 0) = 0 /\ CountIn(b, x, j) \in Nat
         /\ CountIn(b, x, j + 1) = CountIn(b, x, j) + (IF b[j + 1] = x THEN 1 ELSE 0)
<1> DEFINE C(k) == {i \in 1..k : b[i] = x}
<1>1. C(0) = {} /\ C(j) \subseteq 1..j /\ j + 1 \notin C(j)
  OBVIOUS
<1>2. C(j + 1) = IF b[j + 1] = x THEN C(j) \cup {j + 1} ELSE C(j)
  <2>1. \A i \in 1..j + 1 : i \in 1..j \/ i = j + 1
    OBVIOUS
  <2>2. 1..j \subseteq 1..j + 1 /\ j + 1 \in 1..j + 1
    OBVIOUS
  <2>3. QED
    BY <2>1, <2>2
<1>3. IsFiniteSet(1..j)
  BY FS_Interval
<1>4. IsFiniteSet(C(j))
  BY <1>1, <1>3, FS_Subset
<1> HIDE DEF C
<1>5. Cardinality(C(j)) \in Nat /\ Cardinality(C(0)) = 0
  BY <1>1, <1>4, FS_CardinalityType, FS_EmptySet
<1>6. Cardinality(C(j) \cup {j + 1}) = Cardinality(C(j)) + 1
  BY <1>1, <1>4, FS_AddElement
<1>7. QED
  BY <1>2, <1>5, <1>6 DEF CountIn, C

LEMMA RestOnward ==
  ASSUME NEW L \in Nat \ {0}, NEW t \in Nat, NEW j \in Nat
  PROVE  ((t % L) + (j + 1) - 1) % L = (t + j) % L
<1>1. PICK q \in Nat, m \in 0..L - 1 : t = q * L + m /\ m = t % L
  BY QuotientAndRest
<1>2. m + j \in Nat /\ m + (j + 1) - 1 = m + j
  OBVIOUS
<1>3. PICK k \in Nat, c \in 0..L - 1 : m + j = k * L + c /\ c = (m + j) % L
  BY <1>2, QuotientAndRest
<1>4. q * L \in Nat /\ k * L \in Nat /\ (q + k) * L = q * L + k * L /\ q + k \in Nat
  OBVIOUS
<1>5. t + j = (q + k) * L + c
  <2>1. t = q * L + m /\ m + j = k * L + c
    BY <1>1, <1>3, Zenon
  <2>2. PICK u \in Nat, v \in Nat : u = q * L /\ v = k * L
    BY <1>4
  <2>3. t = u + m /\ m + j = v + c /\ (q + k) * L = u + v
    BY <1>4, <2>1, <2>2, Zenon
  <2>4. t + j = (u + v) + c
    BY <2>3
  <2>5. QED
    BY <2>3, <2>4, Zenon
<1>6. PICK i \in Nat : i = q + k
  BY <1>4
<1>7. (i * L + c) % L = c
  BY RestIs
<1>8. t + j = i * L + c
  BY <1>5, <1>6
<1>9. QED
  BY <1>1, <1>2, <1>3, <1>7, <1>8

CountGrows(b, j) ==
  \A x : /\ CountIn(b, x, j) \in Nat
        /\ CountIn(b, x, j + 1) = CountIn(b, x, j) + (IF b[j + 1] = x THEN 1 ELSE 0)

LEMMA CountsGrow ==
  ASSUME NEW b, NEW j \in Nat
  PROVE  CountGrows(b, j)
BY CountStep DEF CountGrows

\* A step goes on where the one before it stopped.
LEMMA BatchEven ==
  ASSUME NEW X, NEW s, Once(s, X), Len(s) # 0, NEW n \in Nat, NEW st \in Nat,
         NEW seen \in [X -> Nat], EvenAt(seen, s, st * n),
         NEW now \in [X -> Nat],
         \A x \in X : now[x] = seen[x] + CountIn(Batch(s, n, st + 1), x, n)
  PROVE  EvenAt(now, s, (st + 1) * n)
<1> DEFINE L == Len(s)
<1>1. L \in Nat \ {0} /\ s \in Seq(X) /\ \A p \in 1..L : s[p] \in X
  BY DEF Once
<1>2. st * n \in Nat /\ (st + 1) * n = st * n + n /\ (st + 1) - 1 = st
  OBVIOUS
<1>30. PICK b : b = Batch(s, n, st + 1)
  OBVIOUS
<1> DEFINE after(k) == [x \in X |-> seen[x] + CountIn(b, x, k)]
           S == {k \in Nat : k <= n => EvenAt(after(k), s, st * n + k)}
<1>3. b = [i \in 1..n |-> s[((((st * n) % L) + i - 1) % L) + 1]]
  BY <1>2, <1>30 DEF Batch
<1>4. 0 \in S
  <2>1. st * n + 0 = st * n
    BY <1>2
  <2>2. \A x \in X : seen[x] + CountIn(b, x, 0) = seen[x]
    BY CountStep
  <2>3. after(0) = seen
    BY <2>2
  <2>4. QED
    BY <2>1, <2>3
<1>5. ASSUME NEW j \in Nat, j \in S
      PROVE  j + 1 \in S
  <2>1. SUFFICES ASSUME j + 1 <= n PROVE EvenAt(after(j + 1), s, st * n + (j + 1))
    OBVIOUS
  <2>2. EvenAt(after(j), s, st * n + j) /\ j + 1 \in 1..n
    BY <1>5, <2>1
  <2>3. (((st * n) % L) + (j + 1) - 1) % L = (st * n + j) % L
    BY <1>1, <1>2, RestOnward
  <2>10. CountGrows(b, j)
    BY CountsGrow, Zenon
  <2>4. b[j + 1] = s[((st * n + j) % L) + 1]
    BY <1>3, <2>2, <2>3
  <2> DEFINE k == (st * n + j) % L
  <2>5. k \in 0..L - 1 /\ st * n + j \in Nat
    <3>1. st * n + j \in Nat
      BY <1>2
    <3>2. QED
      BY <1>1, <3>1, QuotientAndRest
  <2> HIDE DEF k
  <2>6. ASSUME NEW p \in 1..L
        PROVE  after(j + 1)[s[p]] = after(j)[s[p]] + (IF p = k + 1 THEN 1 ELSE 0)
    <3>1. k + 1 \in 1..L
      BY <1>1, <2>5
    <3>2. b[j + 1] = s[p] <=> p = k + 1
      BY <2>4, <3>1 DEF Once, k
    <3>3. s[p] \in X
      BY <1>1
    <3>4. /\ CountIn(b, s[p], j) \in Nat
          /\ CountIn(b, s[p], j + 1) = CountIn(b, s[p], j) + (IF b[j + 1] = s[p] THEN 1 ELSE 0)
      BY <2>10 DEF CountGrows
    <3>5. seen[s[p]] \in Nat
      BY <3>3
    <3>6. after(j + 1)[s[p]] = seen[s[p]] + CountIn(b, s[p], j + 1) /\ after(j)[s[p]] = seen[s[p]] + CountIn(b, s[p], j)
      BY <3>3
    <3> HIDE DEF after
    <3>7. QED
      BY <3>2, <3>4, <3>5, <3>6
  <2> HIDE DEF after
  <2>7. EvenAt(after(j + 1), s, (st * n + j) + 1)
    BY <1>1, <2>2, <2>5, <2>6, OneMore DEF k
  <2>8. (st * n + j) + 1 = st * n + (j + 1)
    BY <1>2
  <2>9. QED
    BY <2>7, <2>8
<1>6. now = after(n)
  BY <1>30
<1> HIDE DEF S, after
<1>7. n \in S
  BY <1>4, <1>5, SetInduction
<1>8. QED
  BY <1>2, <1>6, <1>7 DEF S

-----------------------------------------------------------------------------
(***************************************************************************)
(* The invariant                                                           *)
(***************************************************************************)
\* Nothing is trained on before the training, and then the shard evenly and
\* nothing else.
Visited ==
  /\ rank \in World /\ step \in Nat /\ visits \in [Row -> Nat]
  /\ stage \in {"eval", "train"} => ~ SplitRaises(Loaded, ValidationSize) /\ MinShardLen # 0
  /\ stage # "train" => step = 0 /\ \A x \in Row : visits[x] = 0
  /\ stage = "train" =>
       /\ EvenAt(visits, Shard(rank), step * GenerationBatchSize)
       /\ \A x \in Row \ Range(Shard(rank)) : visits[x] = 0

\* The shards depend on what the filter drops only.
LEMMA ShardsStay ==
  ASSUME tooLong' = tooLong
  PROVE  MinShardLen' = MinShardLen /\ \A r : Shard(r)' = Shard(r)
<1>1. TrainExamples' = TrainExamples
  BY DEF TrainExamples, Loaded
<1>2. MinShardLen' = MinShardLen
  BY <1>1 DEF MinShardLen
<1>3. QED
  BY <1>1, <1>2 DEF Shard

LEMMA InitVisited == Init => Visited
<1> SUFFICES ASSUME Init PROVE Visited
  OBVIOUS
<1>1. rank \in World /\ step = 0 /\ visits = [x \in Row |-> 0]
  BY DEF Init, Row
<1>2. stage = "raised" \/ (stage = "eval" /\ ~ SplitRaises(Loaded, ValidationSize) /\ MinShardLen # 0)
  BY DEF Init
<1>3. QED
  BY <1>1, <1>2 DEF Visited

LEMMA NextVisited == Visited /\ [Next]_vars => Visited'
<1> SUFFICES ASSUME Visited, [Next]_vars PROVE Visited'
  OBVIOUS
<1>1. ASSUME UNCHANGED dataVars
      PROVE  Visited'
  <2>1. tooLong' = tooLong /\ rank' = rank /\ stage' = stage /\ step' = step /\ visits' = visits
    BY <1>1 DEF dataVars
  <2>2. MinShardLen' = MinShardLen /\ Shard(rank') = Shard(rank) /\ Shard(rank)' = Shard(rank)
    BY <2>1, ShardsStay
  <2>3. QED
    BY <2>1, <2>2 DEF Visited, EvenAt, Loaded
<1>2. CASE EndEval
  <2>1. /\ stage = "eval" /\ stage' = "train"
        /\ tooLong' = tooLong /\ rank' = rank /\ step' = step /\ visits' = visits
    BY <1>2 DEF EndEval
  <2>2. MinShardLen' = MinShardLen /\ Shard(rank)' = Shard(rank)
    BY <2>1, ShardsStay
  <2>3. /\ rank \in World /\ step = 0 /\ visits \in [Row -> Nat] /\ \A x \in Row : visits[x] = 0
        /\ MinShardLen # 0 /\ ~ SplitRaises(Loaded, ValidationSize)
    BY <2>1 DEF Visited
  <2>4. /\ MinShardLen \in Nat /\ Len(Shard(rank)) = MinShardLen
        /\ \A p \in 1..MinShardLen : Shard(rank)[p] \in Row
    BY <2>3, ShardFacts DEF Once
  <2>5. 0 * GenerationBatchSize = 0 * Len(Shard(rank)) + 0 /\ 0 \in 0..Len(Shard(rank)) - 1
    BY <2>3, <2>4, DataAssumption
  <2>6. \A p \in 1..Len(Shard(rank)) : visits[Shard(rank)[p]] = 0 + (IF p <= 0 THEN 1 ELSE 0)
    BY <2>3, <2>4
  <2>7. EvenAt(visits, Shard(rank), 0 * GenerationBatchSize)
    BY <2>5, <2>6 DEF EvenAt
  <2>8. EvenAt(visits, Shard(rank), step * GenerationBatchSize)'
    BY <2>1, <2>2, <2>3, <2>7 DEF EvenAt
  <2>9. QED
    BY <2>1, <2>2, <2>3, <2>8 DEF Visited, Loaded
<1>3. CASE BeginStep
  <2> DEFINE s == Shard(rank)
             b == Batch(s, GenerationBatchSize, step + 1)
  <2>1. /\ stage = "train" /\ stage' = stage /\ step' = step + 1 /\ tooLong' = tooLong /\ rank' = rank
        /\ batch' = b
        /\ visits' = [x \in DOMAIN visits |-> visits[x] + Cardinality({i \in DOMAIN batch' : batch'[i] = x})]
    BY <1>3 DEF BeginStep
  <2>2. MinShardLen' = MinShardLen /\ Shard(rank)' = s
    BY <2>1, ShardsStay
  <2>3. /\ rank \in World /\ step \in Nat /\ visits \in [Row -> Nat] /\ MinShardLen # 0
        /\ EvenAt(visits, s, step * GenerationBatchSize)
        /\ \A x \in Row \ Range(s) : visits[x] = 0
        /\ ~ SplitRaises(Loaded, ValidationSize)
    BY <2>1 DEF Visited
  <2>4. Once(s, Row) /\ Len(s) = MinShardLen /\ MinShardLen \in Nat
    BY <2>3, ShardFacts
  <2>5. GenerationBatchSize \in Nat
    BY DataAssumption
  <2> HIDE DEF s
  <2>6. DOMAIN b = 1..GenerationBatchSize
    BY DEF Batch
  <2> HIDE DEF b
  <2>7. visits' = [x \in Row |-> visits[x] + CountIn(b, x, GenerationBatchSize)]
    BY <2>1, <2>3, <2>6 DEF CountIn
  <2>8. \A x : CountIn(b, x, GenerationBatchSize) \in Nat
    BY <2>5, CountStep
  <2>9. visits' \in [Row -> Nat]
    BY <2>3, <2>7, <2>8
  <2>10. EvenAt(visits', s, (step + 1) * GenerationBatchSize)
    <3>1. \A x \in Row : visits'[x] = visits[x] + CountIn(b, x, GenerationBatchSize)
      BY <2>7
    <3>2. QED
      BY <2>3, <2>4, <2>5, <2>9, <3>1, BatchEven DEF b
  <2>11. ASSUME NEW x \in Row \ Range(s)
         PROVE  visits'[x] = 0
    <3>1. ASSUME NEW i \in 1..GenerationBatchSize, b[i] = x PROVE FALSE
      <4>1. PICK e \in Nat : b[i] = s[(e % Len(s)) + 1]
        <5>1. (step + 1) - 1 = step /\ step * GenerationBatchSize \in Nat
          BY <2>3, <2>5
        <5>2. (step * GenerationBatchSize) % Len(s) \in Nat
          <6>1. PICK a \in Nat : a = step * GenerationBatchSize
            BY <5>1
          <6>2. Len(s) \in Nat \ {0}
            BY <2>3, <2>4
          <6>3. a % Len(s) \in 0..Len(s) - 1
            BY <6>2, QuotientAndRest
          <6>4. QED
            BY <6>1, <6>2, <6>3
        <5>3. ((step * GenerationBatchSize) % Len(s)) + i - 1 \in Nat
          BY <2>5, <5>2
        <5>4. QED
          BY <5>1, <5>3 DEF b, Batch
      <4>2. e % Len(s) \in 0..Len(s) - 1
        BY <2>3, <2>4, QuotientAndRest
      <4>3. (e % Len(s)) + 1 \in 1..Len(s)
        BY <2>4, <4>2
      <4>4. QED
        BY <2>4, <2>11, <3>1, <4>1, <4>3 DEF Once, Range
    <3>2. {i \in 1..GenerationBatchSize : b[i] = x} = {}
      BY <3>1
    <3>3. CountIn(b, x, GenerationBatchSize) = 0
      BY <3>2, FS_EmptySet DEF CountIn
    <3>4. QED
      BY <2>3, <2>7, <3>3
  <2>12. EvenAt(visits, Shard(rank), step * GenerationBatchSize)'
    <3>1. PICK q \in Nat, m \in 0..Len(s) - 1 :
            /\ (step + 1) * GenerationBatchSize = q * Len(s) + m
            /\ \A p \in 1..Len(s) : visits'[s[p]] = q + (IF p <= m THEN 1 ELSE 0)
      BY <2>10 DEF EvenAt
    <3>2. Shard(rank)' = s /\ step' * GenerationBatchSize = q * Len(s) + m
      BY <2>1, <2>2, <3>1
    <3>3. QED
      BY <3>1, <3>2 DEF EvenAt
  <2>13. QED
    BY <2>1, <2>2, <2>3, <2>9, <2>11, <2>12 DEF Visited, Loaded
<1>4. Evaluate => UNCHANGED dataVars
  BY DEF Evaluate
<1>5. Loss => UNCHANGED dataVars
  BY DEF Loss
<1>6. Stopped \/ UNCHANGED vars => UNCHANGED dataVars
  BY DEF Stopped, vars
<1>7. QED
  BY <1>1, <1>2, <1>3, <1>4, <1>5, <1>6 DEF Next

LEMMA AlwaysVisited == Spec => []Visited
BY InitVisited, NextVisited, PTL DEF Spec

-----------------------------------------------------------------------------
(***************************************************************************)
(* Sums                                                                    *)
(***************************************************************************)
SumIs(sum, f, n) == sum = [i \in 0..n |-> IF i = 0 THEN 0 ELSE sum[i - 1] + f[i]]

LEMMA SumExists ==
  ASSUME NEW f, NEW n \in Nat
  PROVE  \E sum : SumIs(sum, f, n)
<1> DEFINE S == {k \in Nat : \E sum : SumIs(sum, f, k)}
<1>1. 0 \in S
  <2>1. SumIs([i \in 0..0 |-> 0], f, 0)
    BY DEF SumIs
  <2>2. QED
    BY <2>1
<1>2. ASSUME NEW k \in Nat, k \in S
      PROVE  k + 1 \in S
  <2>1. PICK g : SumIs(g, f, k)
    BY <1>2
  <2>2. SumIs([i \in 0..k + 1 |-> IF i = k + 1 THEN g[k] + f[k + 1] ELSE g[i]], f, k + 1)
    BY <2>1 DEF SumIs
  <2>3. QED
    BY <2>2
<1> HIDE DEF S
<1>3. n \in S
  BY <1>1, <1>2, SetInduction
<1>4. QED
  BY <1>3 DEF S

LEMMA SumIsSum ==
  ASSUME NEW f, NEW n \in Nat, NEW sum, SumIs(sum, f, n), NEW k \in 0..n
  PROVE  sum[k] = SumTo(f, k)
<1> DEFINE g(m) == CHOOSE g : SumIs(g, f, m)
           S == {m \in Nat : m <= k => sum[m] = g(k)[m]}
<1>1. SumIs(g(k), f, k) /\ SumTo(f, k) = g(k)[k]
  <2>1. k \in Nat
    OBVIOUS
  <2>2. \E h : SumIs(h, f, k)
    BY <2>1, SumExists
  <2>3. SumIs(g(k), f, k)
    BY <2>2
  <2>4. SumTo(f, k) = g(k)[k]
    BY DEF SumTo, SumIs
  <2>5. QED
    BY <2>3, <2>4
<1> HIDE DEF g
<1>2. 0 \in S
  BY <1>1 DEF SumIs
<1>3. ASSUME NEW m \in Nat, m \in S
      PROVE  m + 1 \in S
  <2>1. SUFFICES ASSUME m + 1 <= k PROVE sum[m + 1] = g(k)[m + 1]
    OBVIOUS
  <2>2. sum[m] = g(k)[m] /\ m + 1 \in 0..k /\ m + 1 \in 0..n /\ m + 1 # 0 /\ (m + 1) - 1 = m
    BY <1>3, <2>1
  <2>3. sum[m + 1] = sum[m] + f[m + 1] /\ g(k)[m + 1] = g(k)[m] + f[m + 1]
    BY <1>1, <2>2 DEF SumIs
  <2>4. QED
    BY <2>2, <2>3
<1> HIDE DEF S
<1>4. k \in S
  BY <1>2, <1>3, SetInduction
<1>5. QED
  BY <1>1, <1>4 DEF S

LEMMA SumNext ==
  ASSUME NEW f, NEW n \in Nat
  PROVE  SumTo(f, 0) = 0 /\ SumTo(f, n + 1) = SumTo(f, n) + f[n + 1]
<1>1. PICK sum : SumIs(sum, f, n + 1)
  BY SumExists
<1>2. sum[0] = 0 /\ sum[n + 1] = sum[n] + f[n + 1]
  <2>1. n + 1 \in 0..n + 1 /\ n + 1 # 0 /\ (n + 1) - 1 = n /\ 0 \in 0..n + 1
    OBVIOUS
  <2>2. QED
    BY <1>1, <2>1 DEF SumIs
<1>3. sum[0] = SumTo(f, 0) /\ sum[n] = SumTo(f, n) /\ sum[n + 1] = SumTo(f, n + 1)
  BY <1>1, SumIsSum
<1>4. QED
  BY <1>2, <1>3

LEMMA SumType ==
  ASSUME NEW f, NEW n \in Nat, \A i \in 1..n : f[i] \in Nat, NEW k \in 0..n
  PROVE  SumTo(f, k) \in Nat
<1> DEFINE S == {m \in Nat : m <= n => SumTo(f, m) \in Nat}
<1>1. 0 \in S
  BY SumNext
<1>2. ASSUME NEW m \in Nat, m \in S
      PROVE  m + 1 \in S
  <2>1. SUFFICES ASSUME m + 1 <= n PROVE SumTo(f, m + 1) \in Nat
    OBVIOUS
  <2>2. SumTo(f, m) \in Nat /\ f[m + 1] \in Nat
    BY <1>2, <2>1
  <2>3. QED
    BY <2>2, SumNext
<1> HIDE DEF S
<1>3. k \in S
  BY <1>1, <1>2, SetInduction
<1>4. QED
  BY <1>3 DEF S

LEMMA SumAgrees ==
  ASSUME NEW f, NEW g, NEW n \in Nat, \A i \in 1..n : f[i] = g[i], NEW k \in 0..n
  PROVE  SumTo(f, k) = SumTo(g, k)
<1> DEFINE S == {m \in Nat : m <= n => SumTo(f, m) = SumTo(g, m)}
<1>1. 0 \in S
  BY SumNext
<1>2. ASSUME NEW m \in Nat, m \in S
      PROVE  m + 1 \in S
  <2>1. SUFFICES ASSUME m + 1 <= n PROVE SumTo(f, m + 1) = SumTo(g, m + 1)
    OBVIOUS
  <2>2. SumTo(f, m) = SumTo(g, m) /\ f[m + 1] = g[m + 1]
    BY <1>2, <2>1
  <2>3. QED
    BY <2>2, SumNext
<1> HIDE DEF S
<1>3. k \in S
  BY <1>1, <1>2, SetInduction
<1>4. QED
  BY <1>3 DEF S

LEMMA SumGrows ==
  ASSUME NEW f, NEW n \in Nat, \A i \in 1..n : f[i] \in Nat, NEW a \in 0..n, NEW b \in a..n
  PROVE  SumTo(f, a) <= SumTo(f, b)
<1> DEFINE S == {m \in Nat : a + m <= n => SumTo(f, a) <= SumTo(f, a + m)}
<1>0. \A k \in 0..n : SumTo(f, k) \in Nat
  BY SumType
<1>1. 0 \in S
  BY <1>0
<1>2. ASSUME NEW m \in Nat, m \in S
      PROVE  m + 1 \in S
  <2>1. SUFFICES ASSUME a + (m + 1) <= n PROVE SumTo(f, a) <= SumTo(f, a + (m + 1))
    OBVIOUS
  <2>2. SumTo(f, a) <= SumTo(f, a + m) /\ f[a + m + 1] \in Nat /\ a + (m + 1) = (a + m) + 1 /\ a + m \in 0..n
    BY <1>2, <2>1
  <2>3. SumTo(f, (a + m) + 1) = SumTo(f, a + m) + f[(a + m) + 1]
    BY <2>2, SumNext
  <2>4. QED
    BY <1>0, <2>2, <2>3
<1> HIDE DEF S
<1>3. b - a \in Nat /\ b - a \in S
  BY <1>1, <1>2, SetInduction
<1>4. a + (b - a) = b
  OBVIOUS
<1>5. QED
  BY <1>3, <1>4 DEF S

\* The sum of what a function grows by.
LEMMA SumOfDifferences ==
  ASSUME NEW m \in Nat, NEW g \in [1..m + 1 -> Nat], NEW f, \A k \in 1..m : f[k] = g[k + 1] - g[k], NEW k \in 0..m
  PROVE  SumTo(f, k) = g[k + 1] - g[1]
<1> DEFINE S == {j \in Nat : j <= m => SumTo(f, j) = g[j + 1] - g[1]}
<1>1. 0 \in S
  BY SumNext
<1>2. ASSUME NEW j \in Nat, j \in S
      PROVE  j + 1 \in S
  <2>1. SUFFICES ASSUME j + 1 <= m PROVE SumTo(f, j + 1) = g[(j + 1) + 1] - g[1]
    OBVIOUS
  <2>2. SumTo(f, j) = g[j + 1] - g[1] /\ f[j + 1] = g[(j + 1) + 1] - g[j + 1] /\ j + 1 \in 1..m + 1 /\ (j + 1) + 1 \in 1..m + 1 /\ 1 \in 1..m + 1
    BY <1>2, <2>1
  <2>3. SumTo(f, j + 1) = SumTo(f, j) + f[j + 1]
    BY SumNext
  <2>4. QED
    BY <2>2, <2>3
<1> HIDE DEF S
<1>3. Nat \subseteq S
  BY <1>1, <1>2, SetInduction
<1>4. k \in Nat /\ k <= m
  OBVIOUS
<1>5. QED
  BY <1>3, <1>4 DEF S

-----------------------------------------------------------------------------
(***************************************************************************)
(* Packs                                                                   *)
(***************************************************************************)
SeqType == [prompt : Nat \ {0}, response : Nat]

PackType == [input_ids : Seq(Nat \X Nat), position_ids : Seq(Nat), seqs : Seq(SeqType)]

LEMMA FunctionSeq ==
  ASSUME NEW S, NEW n \in Nat, NEW f \in [1..n -> S]
  PROVE  f \in Seq(S) /\ Len(f) = n
OBVIOUS

\* u is s and then t.
Joins(u, s, t, m, n, S) ==
  /\ u \in Seq(S) /\ Len(u) = m + n
  /\ \A i \in 1..m + n : u[i] = IF i <= m THEN s[i] ELSE t[i - m]

LEMMA Joined ==
  ASSUME NEW S, NEW s \in Seq(S), NEW t \in Seq(S)
  PROVE  Joins(s \o t, s, t, Len(s), Len(t), S)
BY ConcatProperties DEF Joins

LEMMA SeqLenType == \A s \in SeqType : SeqLen(s) \in Nat \ {0}
BY DEF SeqType, SeqLen

LEMMA TokensFacts ==
  ASSUME NEW seqs \in Seq(SeqType)
  PROVE  /\ TokensIn(seqs, 0) = 0
         /\ \A n \in 0..Len(seqs) : TokensIn(seqs, n) \in Nat
         /\ \A n \in 0..Len(seqs) : n < Len(seqs) => TokensIn(seqs, n + 1) = TokensIn(seqs, n) + SeqLen(seqs[n + 1])
         /\ \A a \in 0..Len(seqs) : \A b \in a..Len(seqs) : TokensIn(seqs, a) <= TokensIn(seqs, b)
<1> DEFINE f == [i \in DOMAIN seqs |-> SeqLen(seqs[i])]
           L == Len(seqs)
<1>1. L \in Nat /\ DOMAIN seqs = 1..L /\ \A i \in 1..L : seqs[i] \in SeqType
  OBVIOUS
<1>2. \A i \in 1..L : f[i] \in Nat /\ f[i] = SeqLen(seqs[i])
  BY <1>1, SeqLenType
<1>3. \A n : TokensIn(seqs, n) = SumTo(f, n)
  BY DEF TokensIn
<1> HIDE DEF f, L
<1>4. \A n \in 0..L : SumTo(f, n) \in Nat
  BY <1>1, <1>2, SumType
<1>5. \A n \in 0..L : n < L => SumTo(f, n + 1) = SumTo(f, n) + SeqLen(seqs[n + 1])
  <2>1. ASSUME NEW n \in 0..L, n < L PROVE SumTo(f, n + 1) = SumTo(f, n) + SeqLen(seqs[n + 1])
    <3>1. n \in Nat /\ n + 1 \in 1..L
      BY <1>1, <2>1
    <3>2. SumTo(f, n + 1) = SumTo(f, n) + f[n + 1]
      BY <3>1, SumNext
    <3>3. QED
      BY <1>2, <3>1, <3>2
  <2>2. QED
    BY <2>1
<1>6. \A a \in 0..L : \A b \in a..L : SumTo(f, a) <= SumTo(f, b)
  BY <1>1, <1>2, SumGrows
<1>7. SumTo(f, 0) = 0
  BY SumNext
<1>8. QED
  BY <1>3, <1>4, <1>5, <1>6, <1>7 DEF L

LEMMA OneMoreSeq ==
  ASSUME NEW seqs \in Seq(SeqType), NEW a \in 0..Len(seqs), NEW n \in a..Len(seqs), n < Len(seqs)
  PROVE  SubSeq(seqs, a + 1, n + 1) = Append(SubSeq(seqs, a + 1, n), seqs[n + 1])
<1> DEFINE s == SubSeq(seqs, a + 1, n)
           t == SubSeq(seqs, a + 1, n + 1)
           x == seqs[n + 1]
<1>1. Len(seqs) \in Nat /\ a \in Nat /\ n \in Nat /\ x \in SeqType
  OBVIOUS
<1>2. /\ s \in Seq(SeqType) /\ Len(s) = n - a
      /\ \A i \in 1..n - a : s[i] = seqs[a + i]
  BY <1>1
<1>3. /\ t \in Seq(SeqType) /\ Len(t) = n - a + 1
      /\ \A i \in 1..n - a + 1 : t[i] = seqs[a + i]
  BY <1>1
<1> HIDE DEF s, t, x
<1>4. /\ Append(s, x) \in Seq(SeqType) /\ Len(Append(s, x)) = n - a + 1
      /\ \A i \in 1..n - a + 1 : Append(s, x)[i] = IF i = n - a + 1 THEN x ELSE s[i]
  BY <1>1, <1>2
<1>5. \A i \in 1..Len(t) : t[i] = Append(s, x)[i]
  <2>1. SUFFICES ASSUME NEW i \in 1..n - a + 1 PROVE t[i] = Append(s, x)[i]
    BY <1>3
  <2>2. CASE i = n - a + 1
    <3>1. a + i = n + 1
      BY <1>1, <2>2
    <3>2. QED
      BY <1>3, <1>4, <2>2, <3>1 DEF x
  <2>3. CASE i # n - a + 1
    <3>1. i \in 1..n - a
      BY <1>1, <2>3
    <3>2. QED
      BY <1>2, <1>3, <1>4, <2>3, <3>1
  <2>4. QED
    BY <2>2, <2>3
<1>6. t = Append(s, x)
  BY <1>3, <1>4, <1>5, SeqEqual
<1>7. QED
  BY <1>6 DEF s, t, x

\* A pack that lays sequences end to end, before it is padded.
LaysAll(pack, seqs, a, b) ==
  /\ pack \in PackType /\ Lays(pack, seqs, a, b)
  /\ Len(pack.input_ids) = TokensIn(seqs, b) - TokensIn(seqs, a)
  /\ Len(pack.position_ids) = TokensIn(seqs, b) - TokensIn(seqs, a)

\* Where a token is.
LEMMA PlaceOf ==
  ASSUME NEW seqs \in Seq(SeqType), NEW a \in 0..Len(seqs), NEW b \in a..Len(seqs),
         NEW i \in a + 1..b, NEW j \in 1..SeqLen(seqs[i])
  PROVE  /\ TokensIn(seqs, i - 1) - TokensIn(seqs, a) \in Nat
         /\ TokensIn(seqs, i - 1) - TokensIn(seqs, a) + j \in 1..TokensIn(seqs, b) - TokensIn(seqs, a)
<1>1. /\ i \in 1..Len(seqs) /\ i - 1 \in 0..Len(seqs) /\ i - 1 \in a..Len(seqs) /\ b \in i..Len(seqs)
      /\ i - 1 < Len(seqs) /\ (i - 1) + 1 = i /\ i \in 0..Len(seqs) /\ b \in 0..Len(seqs)
  OBVIOUS
<1>2. SeqLen(seqs[i]) \in Nat \ {0}
  BY <1>1, SeqLenType
<1>3. TokensIn(seqs, i) = TokensIn(seqs, i - 1) + SeqLen(seqs[i])
  BY <1>1, TokensFacts
<1>4. TokensIn(seqs, a) <= TokensIn(seqs, i - 1) /\ TokensIn(seqs, i) <= TokensIn(seqs, b)
  BY <1>1, TokensFacts
<1>5. TokensIn(seqs, a) \in Nat /\ TokensIn(seqs, i - 1) \in Nat /\ TokensIn(seqs, i) \in Nat /\ TokensIn(seqs, b) \in Nat
  BY <1>1, TokensFacts
<1>6. QED
  BY <1>2, <1>3, <1>4, <1>5

LEMMA AddLays ==
  ASSUME NEW seqs \in Seq(SeqType), NEW a \in 0..Len(seqs), NEW n \in a..Len(seqs), n < Len(seqs),
         NEW pack, LaysAll(pack, seqs, a, n)
  PROVE  LaysAll(Add(pack, seqs[n + 1], n + 1), seqs, a, n + 1)
<1> DEFINE s == seqs[n + 1]
           l == SeqLen(s)
           ids == [k \in 1..l |-> <<n + 1, k>>]
           pos == [k \in 1..l |-> k - 1]
           p == Add(pack, s, n + 1)
           size == TokensIn(seqs, n) - TokensIn(seqs, a)
           Tok(i) == TokensIn(seqs, i)
<1>1. /\ pack \in PackType /\ Lays(pack, seqs, a, n) /\ Len(pack.input_ids) = size /\ Len(pack.position_ids) = size
  BY DEF LaysAll
<1>2. n \in Nat /\ n \in 0..Len(seqs) /\ n + 1 \in 0..Len(seqs) /\ s \in SeqType /\ l \in Nat \ {0} /\ a \in Nat
  <2>1. n \in Nat /\ n + 1 \in 1..Len(seqs) /\ n \in 0..Len(seqs) /\ s \in SeqType
    OBVIOUS
  <2>2. QED
    BY <2>1, SeqLenType
<1>3. Tok(n + 1) - Tok(a) = size + l /\ size \in Nat /\ Tok(a) \in Nat /\ Tok(n) \in Nat
  <2>1. Tok(a) <= Tok(n) /\ Tok(a) \in Nat /\ Tok(n) \in Nat /\ Tok(n + 1) = Tok(n) + l
    BY <1>2, TokensFacts
  <2>2. QED
    BY <1>2, <2>1
<1>4. /\ ids \in Seq(Nat \X Nat) /\ Len(ids) = l /\ \A k \in 1..l : ids[k] = <<n + 1, k>>
      /\ pos \in Seq(Nat) /\ Len(pos) = l /\ \A k \in 1..l : pos[k] = k - 1
  <2>1. \A k \in 1..l : ids[k] = <<n + 1, k>> /\ pos[k] = k - 1
    OBVIOUS
  <2>2. ids \in [1..l -> Nat \X Nat] /\ pos \in [1..l -> Nat]
    BY <1>2
  <2> HIDE DEF ids, pos, l
  <2>3. QED
    BY <1>2, <2>1, <2>2, FunctionSeq
<1>5. p = [input_ids |-> pack.input_ids \o ids, position_ids |-> pack.position_ids \o pos, seqs |-> Append(pack.seqs, s)]
  BY DEF Add
<1> HIDE DEF l, ids, pos, p, size
<1>6. pack.input_ids \in Seq(Nat \X Nat) /\ pack.position_ids \in Seq(Nat) /\ pack.seqs \in Seq(SeqType)
  BY <1>1 DEF PackType
<1>7. /\ p.input_ids \in Seq(Nat \X Nat) /\ Len(p.input_ids) = size + l
      /\ \A i \in 1..size + l : p.input_ids[i] = IF i <= size THEN pack.input_ids[i] ELSE ids[i - size]
  <2>1. p.input_ids = pack.input_ids \o ids
    BY <1>5
  <2>2. pack.input_ids \in Seq(Nat \X Nat) /\ ids \in Seq(Nat \X Nat) /\ Len(pack.input_ids) = size /\ Len(ids) = l
    BY <1>1, <1>4, <1>6
  <2>3. Joins(p.input_ids, pack.input_ids, ids, Len(pack.input_ids), Len(ids), Nat \X Nat)
    BY <2>1, <2>2, Joined, Zenon
  <2>4. Joins(p.input_ids, pack.input_ids, ids, size, l, Nat \X Nat)
    BY <2>2, <2>3, Zenon
  <2>5. QED
    BY <2>4 DEF Joins
<1>8. /\ p.position_ids \in Seq(Nat) /\ Len(p.position_ids) = size + l
      /\ \A i \in 1..size + l : p.position_ids[i] = IF i <= size THEN pack.position_ids[i] ELSE pos[i - size]
  <2>1. p.position_ids = pack.position_ids \o pos
    BY <1>5
  <2>2. pack.position_ids \in Seq(Nat) /\ pos \in Seq(Nat) /\ Len(pack.position_ids) = size /\ Len(pos) = l
    BY <1>1, <1>4, <1>6
  <2>3. Joins(p.position_ids, pack.position_ids, pos, Len(pack.position_ids), Len(pos), Nat)
    BY <2>1, <2>2, Joined, Zenon
  <2>4. Joins(p.position_ids, pack.position_ids, pos, size, l, Nat)
    BY <2>2, <2>3, Zenon
  <2>5. QED
    BY <2>4 DEF Joins
<1>9. p \in PackType
  <2>1. p.seqs \in Seq(SeqType)
    BY <1>2, <1>5, <1>6
  <2>2. QED
    BY <1>5, <1>7, <1>8, <2>1 DEF PackType
<1>10. p.seqs = SubSeq(seqs, a + 1, n + 1)
  <2>1. pack.seqs = SubSeq(seqs, a + 1, n)
    BY <1>1 DEF Lays
  <2>2. QED
    BY <1>5, <2>1, OneMoreSeq
<1>11. ASSUME NEW i \in a + 1..n + 1, NEW j \in 1..SeqLen(seqs[i])
       PROVE  /\ p.input_ids[Tok(i - 1) - Tok(a) + j] = <<i, j>>
              /\ p.position_ids[Tok(i - 1) - Tok(a) + j] = j - 1
  <2>1. CASE i = n + 1
    <3>1. i - 1 = n /\ j \in 1..l
      BY <1>2, <2>1 DEF l
    <3>2. Tok(i - 1) - Tok(a) + j = size + j
      BY <3>1 DEF size
    <3>3. size + j \in 1..size + l /\ ~ (size + j <= size) /\ (size + j) - size = j
      BY <1>2, <1>3, <3>1
    <3>4. QED
      BY <1>4, <1>7, <1>8, <2>1, <3>1, <3>2, <3>3
  <2>2. CASE i # n + 1
    <3>1. i \in a + 1..n
      BY <1>2, <2>2
    <3>2. Tok(i - 1) - Tok(a) + j \in 1..size
      BY <3>1, PlaceOf DEF size
    <3> DEFINE m == Tok(i - 1) - Tok(a) + j
    <3>3. pack.input_ids[m] = <<i, j>> /\ pack.position_ids[m] = j - 1
      BY <1>1, <3>1 DEF Lays
    <3>4. m \in 1..size + l /\ m <= size
      BY <1>2, <1>3, <3>2
    <3> HIDE DEF m
    <3>5. p.input_ids[m] = pack.input_ids[m] /\ p.position_ids[m] = pack.position_ids[m]
      BY <1>7, <1>8, <3>4
    <3>6. QED
      BY <3>3, <3>5 DEF m
  <2>3. QED
    BY <2>1, <2>2
<1>12. Lays(p, seqs, a, n + 1)
  BY <1>10, <1>11 DEF Lays
<1>13. QED
  BY <1>3, <1>7, <1>8, <1>9, <1>12 DEF LaysAll, p

LEMMA RoundedUp ==
  ASSUME NEW n \in Nat
  PROVE  /\ RoundUpToBucket(n) \in Nat /\ RoundUpToBucket(n) - n \in 0..BucketSize - 1
         /\ RoundUpToBucket(n) % BucketSize = 0
<1> DEFINE B == BucketSize
           a == n + B - 1
           q == a \div B
           r == a % B
<1>1. B \in Nat \ {0}
  BY PackingAssumption
<1>2. a \in Nat
  BY <1>1
<1> HIDE DEF a
<1>3. q \in Nat /\ r \in 0..B - 1 /\ a = q * B + r
  BY <1>1, <1>2, QuotientAndRest
<1>4. RoundUpToBucket(n) = q * B
  BY DEF RoundUpToBucket, a
<1> HIDE DEF q, r, B
<1>5. q * B \in Nat
  BY <1>1, <1>3
<1>6. q * B - n \in 0..B - 1
  BY <1>1, <1>3, <1>5 DEF a
<1>7. (q * B + 0) % B = 0
  BY <1>1, <1>3, RestIs
<1>8. (q * B) % B = 0
  BY <1>5, <1>7
<1>9. QED
  BY <1>4, <1>5, <1>6, <1>8 DEF B

LEMMA PaddingLays ==
  ASSUME NEW seqs \in Seq(SeqType), NEW a \in 0..Len(seqs), NEW b \in a..Len(seqs),
         NEW pack, LaysAll(pack, seqs, a, b)
  PROVE  /\ Padded(pack) \in PackType /\ Lays(Padded(pack), seqs, a, b)
         /\ PaddedTo(Padded(pack), TokensIn(seqs, b) - TokensIn(seqs, a))
<1> DEFINE size == TokensIn(seqs, b) - TokensIn(seqs, a)
           pad == RoundUpToBucket(Len(pack.input_ids)) - Len(pack.input_ids)
           ids == [k \in 1..pad |-> PadToken]
           pos == [k \in 1..pad |-> 0]
           p == Padded(pack)
<1>1. /\ pack \in PackType /\ Lays(pack, seqs, a, b) /\ Len(pack.input_ids) = size /\ Len(pack.position_ids) = size
  BY DEF LaysAll
<1>2. /\ pack.input_ids \in Seq(Nat \X Nat) /\ pack.position_ids \in Seq(Nat) /\ pack.seqs \in Seq(SeqType)
      /\ size \in Nat
  BY <1>1 DEF PackType
<1>3. pad \in 0..BucketSize - 1 /\ size + pad \in Nat /\ (size + pad) % BucketSize = 0 /\ BucketSize \in Nat
  <2>1. BucketSize \in Nat
    BY PackingAssumption
  <2>2. /\ RoundUpToBucket(size) \in Nat /\ RoundUpToBucket(size) - size \in 0..BucketSize - 1
        /\ RoundUpToBucket(size) % BucketSize = 0
    BY <1>2, RoundedUp
  <2>3. pad = RoundUpToBucket(size) - size
    BY <1>1
  <2>4. size + pad = RoundUpToBucket(size)
    BY <1>2, <2>2, <2>3
  <2>5. QED
    BY <2>1, <2>2, <2>3, <2>4
<1>4. p = [pack EXCEPT !.input_ids = pack.input_ids \o ids, !.position_ids = pack.position_ids \o pos]
  BY DEF Padded
<1>5. /\ ids \in Seq(Nat \X Nat) /\ Len(ids) = pad /\ \A k \in 1..pad : ids[k] = PadToken
      /\ pos \in Seq(Nat) /\ Len(pos) = pad
  <2>1. \A k \in 1..pad : ids[k] = PadToken
    OBVIOUS
  <2>2. ids \in [1..pad -> Nat \X Nat] /\ pos \in [1..pad -> Nat]
    BY DEF PadToken
  <2>3. pad \in Nat
    BY <1>3
  <2> HIDE DEF ids, pos, pad
  <2>4. QED
    BY <2>1, <2>2, <2>3, FunctionSeq
<1> HIDE DEF size, pad, ids, pos, p
<1>6. /\ p.input_ids = pack.input_ids \o ids /\ p.position_ids = pack.position_ids \o pos
      /\ p.seqs = pack.seqs /\ p = [input_ids |-> p.input_ids, position_ids |-> p.position_ids, seqs |-> p.seqs]
  BY <1>1, <1>4 DEF PackType
<1>7. /\ p.input_ids \in Seq(Nat \X Nat) /\ Len(p.input_ids) = size + pad
      /\ \A i \in 1..size + pad : p.input_ids[i] = IF i <= size THEN pack.input_ids[i] ELSE ids[i - size]
  <2>1. Joins(p.input_ids, pack.input_ids, ids, Len(pack.input_ids), Len(ids), Nat \X Nat)
    BY <1>2, <1>5, <1>6, Joined, Zenon
  <2>2. Joins(p.input_ids, pack.input_ids, ids, size, pad, Nat \X Nat)
    BY <1>1, <1>5, <2>1, Zenon
  <2>3. QED
    BY <2>2 DEF Joins
<1>8. /\ p.position_ids \in Seq(Nat) /\ Len(p.position_ids) = size + pad
      /\ \A i \in 1..size + pad : p.position_ids[i] = IF i <= size THEN pack.position_ids[i] ELSE pos[i - size]
  <2>1. Joins(p.position_ids, pack.position_ids, pos, Len(pack.position_ids), Len(pos), Nat)
    BY <1>2, <1>5, <1>6, Joined, Zenon
  <2>2. Joins(p.position_ids, pack.position_ids, pos, size, pad, Nat)
    BY <1>1, <1>5, <2>1, Zenon
  <2>3. QED
    BY <2>2 DEF Joins
<1>9. p \in PackType
  BY <1>2, <1>6, <1>7, <1>8 DEF PackType
<1>10. ASSUME NEW i \in a + 1..b, NEW j \in 1..SeqLen(seqs[i])
       PROVE  /\ p.input_ids[TokensIn(seqs, i - 1) - TokensIn(seqs, a) + j] = <<i, j>>
              /\ p.position_ids[TokensIn(seqs, i - 1) - TokensIn(seqs, a) + j] = j - 1
  <2> DEFINE m == TokensIn(seqs, i - 1) - TokensIn(seqs, a) + j
  <2>1. m \in 1..size
    BY PlaceOf DEF size
  <2>2. pack.input_ids[m] = <<i, j>> /\ pack.position_ids[m] = j - 1
    BY <1>1 DEF Lays
  <2> HIDE DEF m
  <2>3. m \in 1..size + pad /\ m <= size
    BY <1>2, <1>3, <2>1
  <2>4. p.input_ids[m] = pack.input_ids[m] /\ p.position_ids[m] = pack.position_ids[m]
    BY <1>7, <1>8, <2>3
  <2>5. QED
    BY <2>2, <2>4 DEF m
<1>11. Lays(p, seqs, a, b)
  BY <1>1, <1>6, <1>10 DEF Lays
<1>12. ASSUME NEW n \in size + 1..Len(p.input_ids)
       PROVE  p.input_ids[n] = PadToken
  <2>1. n \in 1..size + pad /\ ~ (n <= size) /\ n - size \in 1..pad
    BY <1>2, <1>3, <1>7
  <2>2. QED
    BY <1>5, <1>7, <2>1
<1>13. Len(p.input_ids) - size \in 0..BucketSize - 1
  BY <1>2, <1>3, <1>7
<1>14. PaddedTo(p, size)
  BY <1>3, <1>7, <1>8, <1>12, <1>13 DEF PaddedTo
<1>15. QED
  BY <1>9, <1>11, <1>14 DEF p, size

\* The packs hold the sequences as far as g of them, g being where each pack
\* begins; no pack but the last could have held one sequence more.
PackedAt(batches, seqs, g) ==
  /\ batches \in Seq(PackType) /\ g \in [1..Len(batches) + 1 -> 0..Len(seqs)] /\ g[1] = 0
  /\ \A k \in 1..Len(batches) :
       LET size == TokensIn(seqs, g[k + 1]) - TokensIn(seqs, g[k])
       IN /\ g[k] < g[k + 1] /\ Lays(batches[k], seqs, g[k], g[k + 1]) /\ PaddedTo(batches[k], size)
          /\ size <= MaxPackTokens \/ g[k + 1] = g[k] + 1
          /\ g[k + 1] < Len(seqs) => size + SeqLen(seqs[g[k + 1] + 1]) > MaxPackTokens

\* The loop of pack_sequences after n sequences.
PackingAt(st, seqs, g, n) ==
  /\ st = [batches |-> st.batches, current |-> st.current, total |-> st.total]
  /\ PackedAt(st.batches, seqs, g)
  /\ LET a == g[Len(st.batches) + 1]
     IN /\ a <= n /\ LaysAll(st.current, seqs, a, n)
        /\ st.total = TokensIn(seqs, n) - TokensIn(seqs, a)
        /\ st.total <= MaxPackTokens \/ n = a + 1

LEMMA EmptyCurrent ==
  ASSUME NEW seqs \in Seq(SeqType), NEW n \in 0..Len(seqs), NEW a \in 0..n, NEW pack, LaysAll(pack, seqs, a, n)
  PROVE  pack.seqs = <<>> <=> a = n
<1>1. pack.seqs = SubSeq(seqs, a + 1, n)
  BY DEF LaysAll, Lays
<1>2. Len(SubSeq(seqs, a + 1, n)) = n - a /\ SubSeq(seqs, a + 1, n) \in Seq(SeqType)
  OBVIOUS
<1>3. \A s \in Seq(SeqType) : s = <<>> <=> Len(s) = 0
  BY EmptySeq
<1>4. n - a = 0 <=> a = n
  OBVIOUS
<1>5. QED
  BY <1>1, <1>2, <1>3, <1>4

LEMMA FlushPacks ==
  ASSUME NEW seqs \in Seq(SeqType), NEW n \in 0..Len(seqs), NEW st, NEW g, PackingAt(st, seqs, g, n),
         n < Len(seqs) => st.total + SeqLen(seqs[n + 1]) > MaxPackTokens
  PROVE  \E h : /\ PackingAt(Flush(st), seqs, h, n) /\ PackedAt(Flush(st).batches, seqs, h)
                /\ h[Len(Flush(st).batches) + 1] = n
<1> DEFINE B == st.batches
           L == Len(B)
           a == g[L + 1]
           size == TokensIn(seqs, n) - TokensIn(seqs, a)
           p == Padded(st.current)
           C == Append(B, p)
           h == [k \in 1..L + 2 |-> IF k = L + 2 THEN n ELSE g[k]]
<1>1. /\ PackedAt(B, seqs, g) /\ B \in Seq(PackType) /\ L \in Nat
      /\ g \in [1..L + 1 -> 0..Len(seqs)] /\ g[1] = 0 /\ a \in 0..Len(seqs) /\ a <= n
      /\ LaysAll(st.current, seqs, a, n) /\ st.total = size
      /\ st = [batches |-> st.batches, current |-> st.current, total |-> st.total]
      /\ st.total <= MaxPackTokens \/ n = a + 1
  <2>1. PackedAt(B, seqs, g) /\ B \in Seq(PackType) /\ g \in [1..L + 1 -> 0..Len(seqs)] /\ g[1] = 0
    BY DEF PackingAt, PackedAt
  <2>2. L \in Nat /\ L + 1 \in 1..L + 1
    BY <2>1
  <2>3. a \in 0..Len(seqs)
    BY <2>1, <2>2
  <2>4. QED
    BY <2>1, <2>2, <2>3 DEF PackingAt
<1>2. CASE a = n
  <2>1. st.current.seqs = <<>>
    BY <1>1, <1>2, EmptyCurrent
  <2>2. Flush(st) = st
    BY <2>1 DEF Flush
  <2>3. QED
    BY <1>1, <1>2, <2>2
<1>3. CASE a # n
  <2> HIDE DEF a, size, p, B, L
  <2>1. a < n /\ n \in a..Len(seqs) /\ a \in 0..n /\ n \in 0..Len(seqs)
    BY <1>1, <1>3
  <2>2. st.current.seqs # <<>>
    BY <1>1, <1>3, <2>1, EmptyCurrent
  <2>3. Flush(st) = [batches |-> C, current |-> NoPack, total |-> 0]
    <3>1. Flush(st) = [st EXCEPT !.batches = C, !.current = NoPack, !.total = 0]
      BY <2>2 DEF Flush, B, p
    <3>2. QED
      BY <1>1, <3>1
  <2>4. p \in PackType /\ Lays(p, seqs, a, n) /\ PaddedTo(p, size)
    BY <1>1, <2>1, PaddingLays DEF p, size
  <2>5. /\ C \in Seq(PackType) /\ Len(C) = L + 1 /\ C[L + 1] = p
        /\ \A k \in 1..L : C[k] = B[k]
    BY <1>1, <2>4 DEF L
  <2>6. /\ h \in [1..L + 2 -> 0..Len(seqs)] /\ h[L + 2] = n /\ \A k \in 1..L + 1 : h[k] = g[k]
    BY <1>1, <2>1
  <2> HIDE DEF C, h
  <2>7. h[1] = 0 /\ h[L + 1] = a
    BY <1>1, <2>6 DEF a
  <2>8. ASSUME NEW k \in 1..Len(C)
        PROVE  LET z == TokensIn(seqs, h[k + 1]) - TokensIn(seqs, h[k])
               IN /\ h[k] < h[k + 1] /\ Lays(C[k], seqs, h[k], h[k + 1]) /\ PaddedTo(C[k], z)
                  /\ z <= MaxPackTokens \/ h[k + 1] = h[k] + 1
                  /\ h[k + 1] < Len(seqs) => z + SeqLen(seqs[h[k + 1] + 1]) > MaxPackTokens
    <3>1. CASE k = L + 1
      <4>1. h[k] = a /\ h[k + 1] = n /\ C[k] = p
        <5>1. k + 1 = L + 2
          BY <1>1, <3>1
        <5>2. QED
          BY <2>5, <2>6, <2>7, <3>1, <5>1
      <4>2. QED
        BY <1>1, <2>1, <2>4, <4>1 DEF size
    <3>2. CASE k # L + 1
      <4>1. k \in 1..L /\ k \in 1..L + 1 /\ k + 1 \in 1..L + 1
        BY <1>1, <2>5, <3>2
      <4>2. h[k] = g[k] /\ h[k + 1] = g[k + 1] /\ C[k] = B[k]
        BY <2>5, <2>6, <4>1
      <4>3. QED
        BY <1>1, <4>1, <4>2 DEF PackedAt, L
    <3>3. QED
      BY <3>1, <3>2
  <2>9. PackedAt(C, seqs, h)
    <3>1. Len(C) + 1 = L + 2
      BY <1>1, <2>5
    <3>2. QED
      BY <2>5, <2>6, <2>7, <2>8, <3>1 DEF PackedAt
  <2>10. h[Len(C) + 1] = n
    <3>1. Len(C) + 1 = L + 2
      BY <1>1, <2>5
    <3>2. QED
      BY <2>6, <3>1
  <2>11. LaysAll(NoPack, seqs, n, n) /\ 0 = TokensIn(seqs, n) - TokensIn(seqs, n)
    <3>1. TokensIn(seqs, n) \in Nat
      BY <2>1, TokensFacts
    <3>2. SubSeq(seqs, n + 1, n) = <<>>
      <4>1. SubSeq(seqs, n + 1, n) \in Seq(SeqType) /\ Len(SubSeq(seqs, n + 1, n)) = 0
        BY <2>1
      <4>2. QED
        BY <4>1, EmptySeq
    <3>3. <<>> \in Seq(Nat \X Nat) /\ <<>> \in Seq(Nat) /\ <<>> \in Seq(SeqType) /\ Len(<<>>) = 0
      OBVIOUS
    <3>4. n + 1..n = {}
      BY <2>1
    <3>5. NoPack \in PackType /\ NoPack.seqs = <<>> /\ Len(NoPack.input_ids) = 0 /\ Len(NoPack.position_ids) = 0
      BY <3>3 DEF NoPack, PackType
    <3>6. Lays(NoPack, seqs, n, n)
      BY <3>2, <3>4, <3>5 DEF Lays
    <3>7. QED
      BY <3>1, <3>5, <3>6 DEF LaysAll
  <2>12. 0 <= MaxPackTokens /\ n <= n
    BY <2>1, PackingAssumption
  <2>13. Flush(st).batches = C /\ Flush(st).current = NoPack /\ Flush(st).total = 0
    BY <2>3
  <2>14. PackingAt(Flush(st), seqs, h, n)
    BY <2>3, <2>9, <2>10, <2>11, <2>12, <2>13 DEF PackingAt
  <2>15. QED
    BY <2>9, <2>10, <2>13, <2>14
<1>4. QED
  BY <1>2, <1>3

LEMMA PackOnePacks ==
  ASSUME NEW seqs \in Seq(SeqType), NEW n \in 0..Len(seqs), n < Len(seqs), NEW st, NEW g, PackingAt(st, seqs, g, n)
  PROVE  \E h : PackingAt(PackOne(st, seqs[n + 1], n + 1), seqs, h, n + 1)
<1> DEFINE s == seqs[n + 1]
           room == IF st.total + SeqLen(s) > MaxPackTokens THEN Flush(st) ELSE st
<1>1. PICK h : /\ PackingAt(room, seqs, h, n)
               /\ room.total + SeqLen(s) <= MaxPackTokens \/ h[Len(room.batches) + 1] = n
  <2>1. CASE st.total + SeqLen(s) > MaxPackTokens
    <3>1. PICK h : PackingAt(Flush(st), seqs, h, n) /\ h[Len(Flush(st).batches) + 1] = n
      BY <2>1, FlushPacks
    <3>2. QED
      BY <2>1, <3>1
  <2>2. CASE ~ (st.total + SeqLen(s) > MaxPackTokens)
    <3>1. st.total \in Int /\ SeqLen(s) \in Int /\ MaxPackTokens \in Int
      <4>1. s \in SeqType /\ g[Len(st.batches) + 1] \in 0..Len(seqs)
        <5>1. /\ st.batches \in Seq(PackType) /\ g \in [1..Len(st.batches) + 1 -> 0..Len(seqs)]
          BY DEF PackingAt, PackedAt
        <5>2. Len(st.batches) + 1 \in 1..Len(st.batches) + 1
          BY <5>1
        <5>3. QED
          BY <5>1, <5>2
      <4>2. QED
        BY <4>1, SeqLenType, TokensFacts, PackingAssumption DEF PackingAt
    <3>2. QED
      BY <2>2, <3>1
  <2>3. QED
    BY <2>1, <2>2
<1> DEFINE B == room.batches
           a == h[Len(B) + 1]
           new == PackOne(st, s, n + 1)
           p == Add(room.current, s, n + 1)
<1>2. new = [room EXCEPT !.current = p, !.total = room.total + SeqLen(s)]
  BY DEF PackOne
<1> HIDE DEF room
<1>3. /\ room = [batches |-> room.batches, current |-> room.current, total |-> room.total]
      /\ PackedAt(B, seqs, h) /\ a <= n /\ LaysAll(room.current, seqs, a, n)
      /\ room.total = TokensIn(seqs, n) - TokensIn(seqs, a)
  BY <1>1 DEF PackingAt
<1>4. B \in Seq(PackType) /\ h \in [1..Len(B) + 1 -> 0..Len(seqs)] /\ a \in 0..Len(seqs)
  <2>1. B \in Seq(PackType) /\ h \in [1..Len(B) + 1 -> 0..Len(seqs)]
    BY <1>3 DEF PackedAt
  <2>2. Len(B) + 1 \in 1..Len(B) + 1
    BY <2>1
  <2>3. QED
    BY <2>1, <2>2
<1>5. /\ new = [batches |-> B, current |-> p, total |-> room.total + SeqLen(s)]
      /\ new.batches = B /\ new.current = p /\ new.total = room.total + SeqLen(s)
  BY <1>2, <1>3
<1> HIDE DEF new, p
<1>6. n \in a..Len(seqs) /\ n \in Nat /\ n \in 0..Len(seqs)
  BY <1>3, <1>4
<1>7. LaysAll(p, seqs, a, n + 1)
  BY <1>3, <1>4, <1>6, AddLays DEF p
<1>8. new.total = TokensIn(seqs, n + 1) - TokensIn(seqs, a)
  <2>1. TokensIn(seqs, n + 1) = TokensIn(seqs, n) + SeqLen(s) /\ TokensIn(seqs, n) \in Nat /\ TokensIn(seqs, a) \in Nat
    BY <1>4, <1>6, TokensFacts
  <2>2. s \in SeqType
    BY <1>6
  <2>3. SeqLen(s) \in Nat
    BY <2>2, SeqLenType
  <2> HIDE DEF s
  <2>4. QED
    BY <1>3, <1>5, <2>1, <2>3
<1>9. new.total <= MaxPackTokens \/ n + 1 = a + 1
  BY <1>1, <1>5
<1>10. a <= n + 1
  BY <1>3, <1>4
<1>11. PackingAt(new, seqs, h, n + 1)
  BY <1>3, <1>5, <1>7, <1>8, <1>9, <1>10 DEF PackingAt
<1>12. QED
  BY <1>11 DEF new

PackingIs(packed, seqs, n) ==
  packed = [i \in 0..n |-> IF i = 0 THEN [batches |-> <<>>, current |-> NoPack, total |-> 0]
                           ELSE PackOne(packed[i - 1], seqs[i], i)]

LEMMA PackingExists ==
  ASSUME NEW seqs, NEW n \in Nat
  PROVE  \E packed : PackingIs(packed, seqs, n)
<1> DEFINE S == {k \in Nat : \E packed : PackingIs(packed, seqs, k)}
<1>1. 0 \in S
  <2>1. PackingIs([i \in 0..0 |-> [batches |-> <<>>, current |-> NoPack, total |-> 0]], seqs, 0)
    BY DEF PackingIs
  <2>2. QED
    BY <2>1
<1>2. ASSUME NEW k \in Nat, k \in S
      PROVE  k + 1 \in S
  <2>1. PICK f : PackingIs(f, seqs, k)
    BY <1>2
  <2>2. PackingIs([i \in 0..k + 1 |-> IF i = k + 1 THEN PackOne(f[k], seqs[k + 1], k + 1) ELSE f[i]], seqs, k + 1)
    BY <2>1 DEF PackingIs
  <2>3. QED
    BY <2>2
<1> HIDE DEF S
<1>3. n \in S
  BY <1>1, <1>2, SetInduction
<1>4. QED
  BY <1>3 DEF S

LEMMA PackSequencesCut ==
  ASSUME NEW seqs \in Seq(SeqType)
  PROVE  \E g : /\ PackedAt(PackSequences(seqs), seqs, g)
                /\ g[Len(PackSequences(seqs)) + 1] = Len(seqs)
<1> DEFINE n == Len(seqs)
           f == CHOOSE f : PackingIs(f, seqs, n)
           S == {k \in Nat : k <= n => \E g : PackingAt(f[k], seqs, g, k)}
<1>1. n \in Nat
  OBVIOUS
<1>2. \E h : PackingIs(h, seqs, n)
  BY <1>1, PackingExists
<1>3. PackingIs(f, seqs, n)
  BY <1>2
<1>4. PackSequences(seqs) = Flush(f[n]).batches
  BY DEF PackSequences, PackingIs
<1> HIDE DEF f
<1>5. 0 \in S
  <2> DEFINE st == [batches |-> <<>>, current |-> NoPack, total |-> 0]
             g == [k \in 1..1 |-> 0]
  <2>1. f[0] = st
    BY <1>1, <1>3 DEF PackingIs
  <2>2. <<>> \in Seq(PackType) /\ Len(<<>>) = 0 /\ g \in [1..0 + 1 -> 0..n] /\ g[1] = 0 /\ g[0 + 1] = 0
    BY <1>1
  <2>3. 1..Len(<<>>) = {}
    OBVIOUS
  <2>4. PackedAt(<<>>, seqs, g)
    BY <2>2, <2>3 DEF PackedAt
  <2>5. LaysAll(NoPack, seqs, 0, 0)
    <3>1. SubSeq(seqs, 0 + 1, 0) = <<>>
      <4>1. SubSeq(seqs, 0 + 1, 0) \in Seq(SeqType) /\ Len(SubSeq(seqs, 0 + 1, 0)) = 0
        OBVIOUS
      <4>2. QED
        BY <4>1, EmptySeq
    <3>2. <<>> \in Seq(Nat \X Nat) /\ <<>> \in Seq(Nat) /\ <<>> \in Seq(SeqType) /\ Len(<<>>) = 0
      OBVIOUS
    <3>3. 0 + 1..0 = {}
      OBVIOUS
    <3>4. NoPack \in PackType /\ NoPack.seqs = <<>> /\ Len(NoPack.input_ids) = 0 /\ Len(NoPack.position_ids) = 0
      BY <3>2 DEF NoPack, PackType
    <3>5. Lays(NoPack, seqs, 0, 0)
      BY <3>1, <3>3, <3>4 DEF Lays
    <3>6. TokensIn(seqs, 0) = 0
      BY TokensFacts
    <3>7. QED
      BY <3>4, <3>5, <3>6 DEF LaysAll
  <2>6. st.batches = <<>> /\ st.current = NoPack /\ st.total = 0
    OBVIOUS
  <2>7. 0 = TokensIn(seqs, 0) - TokensIn(seqs, 0) /\ 0 <= MaxPackTokens
    BY TokensFacts, PackingAssumption
  <2> HIDE DEF g
  <2>8. PackingAt(st, seqs, g, 0)
    BY <2>2, <2>4, <2>5, <2>6, <2>7 DEF PackingAt
  <2>9. QED
    BY <2>1, <2>8
<1>6. ASSUME NEW k \in Nat, k \in S
      PROVE  k + 1 \in S
  <2>1. SUFFICES ASSUME k + 1 <= n PROVE \E g : PackingAt(f[k + 1], seqs, g, k + 1)
    OBVIOUS
  <2>2. k \in 0..n /\ k < n /\ k + 1 \in 0..n /\ k + 1 # 0 /\ (k + 1) - 1 = k
    BY <1>1, <2>1
  <2>3. PICK g : PackingAt(f[k], seqs, g, k)
    BY <1>6, <2>2
  <2>4. f[k + 1] = PackOne(f[k], seqs[k + 1], k + 1)
    BY <1>3, <2>2 DEF PackingIs
  <2>5. \E h : PackingAt(PackOne(f[k], seqs[k + 1], k + 1), seqs, h, k + 1)
    BY <2>2, <2>3, PackOnePacks
  <2>6. QED
    BY <2>4, <2>5
<1> HIDE DEF S
<1>7. Nat \subseteq S
  BY <1>5, <1>6, SetInduction
<1>8. PICK g : PackingAt(f[n], seqs, g, n)
  BY <1>1, <1>7 DEF S
<1>9. n \in 0..Len(seqs) /\ ~ (n < Len(seqs))
  BY <1>1
<1>10. \E h : PackedAt(Flush(f[n]).batches, seqs, h) /\ h[Len(Flush(f[n]).batches) + 1] = n
  BY <1>8, <1>9, FlushPacks
<1>11. QED
  BY <1>4, <1>10

LEMMA CutsAt ==
  ASSUME NEW seqs \in Seq(SeqType), NEW batches, NEW g, PackedAt(batches, seqs, g),
         NEW k \in 1..Len(batches) + 1
  PROVE  SeqsBefore(batches, k) = g[k]
<1> DEFINE L == Len(batches)
           f == [j \in DOMAIN batches |-> Len(batches[j].seqs)]
<1>1. /\ batches \in Seq(PackType) /\ g \in [1..L + 1 -> 0..Len(seqs)] /\ g[1] = 0 /\ L \in Nat
  BY DEF PackedAt
<1>2. DOMAIN batches = 1..L
  BY <1>1
<1>3. ASSUME NEW j \in 1..L
      PROVE  f[j] = g[j + 1] - g[j]
  <2>1. /\ batches[j].seqs = SubSeq(seqs, g[j] + 1, g[j + 1]) /\ g[j] < g[j + 1]
    BY <1>1 DEF PackedAt, Lays
  <2>2. j \in 1..L + 1 /\ j + 1 \in 1..L + 1
    BY <1>1
  <2>3. g[j] \in 0..Len(seqs) /\ g[j + 1] \in 0..Len(seqs)
    BY <1>1, <2>2
  <2>4. Len(batches[j].seqs) = g[j + 1] - g[j]
    BY <2>1, <2>3
  <2>5. QED
    BY <1>2, <2>4
<1>4. SeqsBefore(batches, k) = SumTo(f, k - 1)
  BY DEF SeqsBefore
<1> HIDE DEF f
<1>5. g \in [1..L + 1 -> Nat] /\ k - 1 \in 0..L /\ (k - 1) + 1 = k
  <2>1. \A i \in 0..Len(seqs) : i \in Nat
    OBVIOUS
  <2>2. g \in [1..L + 1 -> Nat]
    BY <1>1, <2>1
  <2>3. QED
    BY <1>1, <2>2
<1>6. SumTo(f, k - 1) = g[(k - 1) + 1] - g[1]
  BY <1>1, <1>3, <1>5, SumOfDifferences
<1>7. 1 \in 1..L + 1 /\ g[k] \in Nat
  BY <1>1, <1>5
<1>8. QED
  BY <1>1, <1>4, <1>5, <1>6, <1>7

LEMMA CutIsGreedy ==
  ASSUME NEW seqs \in Seq(SeqType), NEW batches, NEW g, PackedAt(batches, seqs, g), g[Len(batches) + 1] = Len(seqs)
  PROVE  GreedyPacks(batches, seqs)
<1> DEFINE L == Len(batches)
<1>1. /\ batches \in Seq(PackType) /\ g \in [1..L + 1 -> 0..Len(seqs)] /\ L \in Nat
  BY DEF PackedAt
<1>2. DOMAIN batches = 1..L /\ L + 1 \in 1..L + 1
  BY <1>1
<1>3. SeqsBefore(batches, L + 1) = Len(seqs)
  BY <1>2, CutsAt
<1>4. ASSUME NEW k \in 1..L
      PROVE  /\ SeqsBefore(batches, k) = g[k] /\ SeqsBefore(batches, k + 1) = g[k + 1]
             /\ k < L => g[k + 1] < Len(seqs)
  <2>1. k \in 1..L + 1 /\ k + 1 \in 1..L + 1
    BY <1>1
  <2>2. ASSUME k < L PROVE g[k + 1] < Len(seqs)
    <3>1. k + 1 \in 1..L /\ (k + 1) + 1 \in 1..L + 1
      BY <1>1, <2>2
    <3>2. g[k + 1] < g[(k + 1) + 1]
      BY <3>1 DEF PackedAt
    <3>3. g[k + 1] \in 0..Len(seqs) /\ g[(k + 1) + 1] \in 0..Len(seqs)
      BY <1>1, <2>1, <3>1
    <3>4. QED
      BY <3>2, <3>3
  <2>3. QED
    BY <2>1, <2>2, CutsAt
<1>5. ASSUME NEW k \in 1..L
      PROVE  LET a    == SeqsBefore(batches, k)
                 b    == SeqsBefore(batches, k + 1)
                 size == TokensIn(seqs, b) - TokensIn(seqs, a)
             IN /\ a < b /\ Lays(batches[k], seqs, a, b) /\ PaddedTo(batches[k], size)
                /\ size <= MaxPackTokens \/ b = a + 1
                /\ k < Len(batches) => size + SeqLen(seqs[b + 1]) > MaxPackTokens
  BY <1>4 DEF PackedAt
<1>6. QED
  BY <1>2, <1>3, <1>5 DEF GreedyPacks

\* Whatever the lengths of the sequences and the limit are.
LEMMA PackSequencesIsGreedy ==
  \A seqs \in Seq(SeqType) : GreedyPacks(PackSequences(seqs), seqs)
BY PackSequencesCut, CutIsGreedy

-----------------------------------------------------------------------------
(***************************************************************************)
(* Where the sequences of a batch are in its packs                         *)
(***************************************************************************)
Begin(P) == [k \in 1..Len(P) + 1 |-> SeqsBefore(P, k)]

Laid(P, S) == S \in Seq(SeqType) /\ PackedAt(P, S, Begin(P)) /\ Begin(P)[Len(P) + 1] = Len(S)

LEMMA PackSequencesLaid ==
  ASSUME NEW S \in Seq(SeqType)
  PROVE  Laid(PackSequences(S), S)
<1> DEFINE P == PackSequences(S)
<1>1. PICK g : PackedAt(P, S, g) /\ g[Len(P) + 1] = Len(S)
  BY PackSequencesCut
<1> HIDE DEF P
<1>2. g \in [1..Len(P) + 1 -> 0..Len(S)] /\ Len(P) \in Nat
  BY <1>1 DEF PackedAt
<1>3. \A k \in 1..Len(P) + 1 : SeqsBefore(P, k) = g[k]
  BY <1>1, CutsAt
<1>4. Begin(P) = g
  BY <1>2, <1>3 DEF Begin
<1>5. QED
  BY <1>1, <1>4 DEF Laid, P

LEMMA LaidFacts ==
  ASSUME NEW P, NEW S, Laid(P, S)
  PROVE  /\ S \in Seq(SeqType) /\ P \in Seq(PackType) /\ Len(P) \in Nat /\ Len(S) \in Nat
         /\ Begin(P) \in [1..Len(P) + 1 -> 0..Len(S)]
         /\ Begin(P)[1] = 0 /\ Begin(P)[Len(P) + 1] = Len(S)
         /\ \A k \in 1..Len(P) :
              /\ Begin(P)[k] \in 0..Len(S) /\ Begin(P)[k + 1] \in 0..Len(S) /\ Begin(P)[k] < Begin(P)[k + 1]
              /\ Lays(P[k], S, Begin(P)[k], Begin(P)[k + 1])
              /\ PaddedTo(P[k], TokensIn(S, Begin(P)[k + 1]) - TokensIn(S, Begin(P)[k]))
              /\ P[k] \in PackType
<1>1. S \in Seq(SeqType) /\ PackedAt(P, S, Begin(P)) /\ Begin(P)[Len(P) + 1] = Len(S)
  BY DEF Laid
<1>2. /\ P \in Seq(PackType) /\ Begin(P) \in [1..Len(P) + 1 -> 0..Len(S)] /\ Begin(P)[1] = 0
  BY <1>1 DEF PackedAt
<1>3. Len(P) \in Nat /\ Len(S) \in Nat
  BY <1>1, <1>2
<1>4. ASSUME NEW k \in 1..Len(P)
      PROVE  /\ Begin(P)[k] \in 0..Len(S) /\ Begin(P)[k + 1] \in 0..Len(S) /\ Begin(P)[k] < Begin(P)[k + 1]
             /\ Lays(P[k], S, Begin(P)[k], Begin(P)[k + 1])
             /\ PaddedTo(P[k], TokensIn(S, Begin(P)[k + 1]) - TokensIn(S, Begin(P)[k]))
             /\ P[k] \in PackType
  <2>1. k \in 1..Len(P) + 1 /\ k + 1 \in 1..Len(P) + 1
    BY <1>3
  <2>2. Begin(P)[k] \in 0..Len(S) /\ Begin(P)[k + 1] \in 0..Len(S) /\ P[k] \in PackType
    BY <1>2, <2>1
  <2>3. /\ Begin(P)[k] < Begin(P)[k + 1] /\ Lays(P[k], S, Begin(P)[k], Begin(P)[k + 1])
        /\ PaddedTo(P[k], TokensIn(S, Begin(P)[k + 1]) - TokensIn(S, Begin(P)[k]))
    BY <1>1 DEF PackedAt
  <2>4. QED
    BY <2>2, <2>3
<1>5. QED
  BY <1>1, <1>2, <1>3, <1>4

LEMMA BeginGrows ==
  ASSUME NEW P, NEW S, Laid(P, S), NEW k \in 1..Len(P), NEW q \in 1..Len(P) + 1, k < q
  PROVE  Begin(P)[k + 1] <= Begin(P)[q]
<1> DEFINE B == Begin(P)
           L == Len(P)
           T == {n \in Nat : k + 1 + n <= L + 1 => B[k + 1] <= B[k + 1 + n]}
<1>1. L \in Nat /\ B \in [1..L + 1 -> 0..Len(S)] /\ Len(S) \in Nat
  BY LaidFacts
<1>2. 0 \in T
  <2>1. k + 1 \in 1..L + 1 /\ k + 1 + 0 = k + 1
    BY <1>1
  <2>2. B[k + 1] \in 0..Len(S)
    BY <1>1, <2>1
  <2>3. QED
    BY <2>1, <2>2
<1>3. ASSUME NEW n \in Nat, n \in T PROVE n + 1 \in T
  <2>1. SUFFICES ASSUME k + 1 + (n + 1) <= L + 1 PROVE B[k + 1] <= B[k + 1 + (n + 1)]
    OBVIOUS
  <2>2. k + 1 + n \in 1..L /\ (k + 1 + n) + 1 = k + 1 + (n + 1) /\ k + 1 \in 1..L + 1
    BY <1>1, <2>1
  <2>3. B[k + 1] <= B[k + 1 + n]
    BY <1>1, <1>3, <2>2
  <2>4. B[k + 1 + n] < B[(k + 1 + n) + 1] /\ B[k + 1 + n] \in 0..Len(S) /\ B[(k + 1 + n) + 1] \in 0..Len(S)
    BY <2>2, LaidFacts
  <2>5. B[k + 1] \in 0..Len(S)
    BY <1>1, <2>2
  <2>6. QED
    BY <2>2, <2>3, <2>4, <2>5
<1> HIDE DEF T
<1>4. Nat \subseteq T
  BY <1>2, <1>3, SetInduction
<1>5. q - (k + 1) \in Nat /\ k + 1 + (q - (k + 1)) = q /\ q <= L + 1
  BY <1>1
<1>6. QED
  BY <1>4, <1>5 DEF T

\* The l-th sequence of pack k.
LEMMA SampleOf ==
  ASSUME NEW P, NEW S, Laid(P, S), NEW k \in 1..Len(P)
  PROVE  /\ Len(P[k].seqs) = Begin(P)[k + 1] - Begin(P)[k]
         /\ \A l \in 1..Len(P[k].seqs) :
              /\ Begin(P)[k] + l \in Begin(P)[k] + 1..Begin(P)[k + 1]
              /\ Begin(P)[k] + l \in 1..Len(S)
              /\ P[k].seqs[l] = S[Begin(P)[k] + l]
              /\ S[Begin(P)[k] + l] \in SeqType
<1> DEFINE a == Begin(P)[k]
           b == Begin(P)[k + 1]
<1>1. a \in 0..Len(S) /\ b \in 0..Len(S) /\ a < b /\ P[k].seqs = SubSeq(S, a + 1, b) /\ S \in Seq(SeqType)
  BY LaidFacts DEF Lays
<1> HIDE DEF a, b
<1>2. /\ Len(SubSeq(S, a + 1, b)) = b - a
      /\ \A l \in 1..b - a : SubSeq(S, a + 1, b)[l] = S[a + l]
  BY <1>1
<1>3. \A l \in 1..b - a : a + l \in a + 1..b /\ a + l \in 1..Len(S)
  BY <1>1
<1>4. \A i \in 1..Len(S) : S[i] \in SeqType
  BY <1>1
<1>5. QED
  BY <1>1, <1>2, <1>3, <1>4 DEF a, b

Offset(P, S, k, i) == TokensIn(S, i - 1) - TokensIn(S, Begin(P)[k])

\* Every token of a pack is of one of its sequences.
LEMMA PlaceCovered ==
  ASSUME NEW S \in Seq(SeqType), NEW a \in 0..Len(S), NEW b \in a..Len(S),
         NEW n \in 1..TokensIn(S, b) - TokensIn(S, a)
  PROVE  \E i \in a + 1..b : \E j \in 1..SeqLen(S[i]) : n = TokensIn(S, i - 1) - TokensIn(S, a) + j
<1> DEFINE T == {i \in Nat : i \in a + 1..b /\ n <= TokensIn(S, i) - TokensIn(S, a)}
<1>0. a \in Nat /\ b \in Nat /\ n \in Nat /\ Len(S) \in Nat /\ b \in 0..Len(S) /\ a <= b /\ b <= Len(S)
  <2>1. Len(S) \in Nat
    OBVIOUS
  <2>2. b \in 0..Len(S)
    BY <2>1
  <2>3. TokensIn(S, a) \in Nat /\ TokensIn(S, b) \in Nat
    BY <2>2, TokensFacts
  <2>4. QED
    BY <2>1, <2>2, <2>3
<1>1. b \in T
  <2>1. n <= TokensIn(S, b) - TokensIn(S, a)
    BY <1>0, TokensFacts
  <2>2. a # b
    <3>1. TokensIn(S, a) \in Nat
      BY TokensFacts
    <3>2. QED
      BY <1>0, <2>1, <3>1
  <2>3. QED
    BY <1>0, <2>1, <2>2
<1>2. PICK i \in T : \A m \in T : i <= m
  <2>1. T \in SUBSET Nat /\ T # {}
    BY <1>1
  <2> HIDE DEF T
  <2>2. QED
    BY <2>1, LeastNumber
<1>3. i \in a + 1..b /\ n <= TokensIn(S, i) - TokensIn(S, a) /\ i \in Nat
  OBVIOUS
<1>4. i - 1 \in 0..Len(S) /\ i - 1 < Len(S) /\ (i - 1) + 1 = i /\ i \in 1..Len(S) /\ i - 1 \in a..Len(S)
  BY <1>0, <1>3
<1>5. /\ TokensIn(S, i) = TokensIn(S, i - 1) + SeqLen(S[i]) /\ TokensIn(S, i - 1) \in Nat /\ TokensIn(S, a) \in Nat
      /\ SeqLen(S[i]) \in Nat
  <2>1. S[i] \in SeqType
    BY <1>4
  <2>2. QED
    BY <1>4, <2>1, TokensFacts, SeqLenType
<1>6. n > TokensIn(S, i - 1) - TokensIn(S, a)
  <2>1. CASE i - 1 = a
    BY <1>0, <1>5, <2>1
  <2>2. CASE i - 1 # a
    <3>1. i - 1 \in Nat /\ i - 1 \in a + 1..b
      BY <1>0, <1>3, <1>4, <2>2
    <3>2. i - 1 \notin T
      <4>1. ~ (i <= i - 1)
        BY <1>3
      <4> HIDE DEF T
      <4>2. QED
        BY <1>2, <4>1
    <3>3. ~ (n <= TokensIn(S, i - 1) - TokensIn(S, a))
      BY <3>1, <3>2
    <3>4. QED
      BY <1>0, <1>5, <3>3
  <2>3. QED
    BY <2>1, <2>2
<1> DEFINE j == n - (TokensIn(S, i - 1) - TokensIn(S, a))
<1>7. j \in 1..SeqLen(S[i]) /\ n = TokensIn(S, i - 1) - TokensIn(S, a) + j
  BY <1>0, <1>3, <1>5, <1>6
<1>8. QED
  BY <1>3, <1>7

-----------------------------------------------------------------------------
(***************************************************************************)
(* The positions of a sample that have a gradient                          *)
(***************************************************************************)
Span(P, S, k, i) == {<<k, Offset(P, S, k, i) + j - 1>> : j \in S[i].prompt..SeqLen(S[i])}

\* Those of the first d samples.
InSpans(P, S, d, p) ==
  \E k \in 1..Len(P) : \E i \in Begin(P)[k] + 1..Begin(P)[k + 1] : i <= d /\ p \in Span(P, S, k, i)

Places(P) == UNION {{<<k, n>> : n \in 0..Len(P[k].input_ids) - 1} : k \in 1..Len(P)}

Spans(P, S, d) == {p \in Places(P) : InSpans(P, S, d, p)}

\* What the token at a position says.
TokenAt(P, p) == P[p[1]].input_ids[p[2] + 1]

LEMMA SpanFacts ==
  ASSUME NEW P, NEW S, Laid(P, S), NEW k \in 1..Len(P), NEW i \in Begin(P)[k] + 1..Begin(P)[k + 1],
         NEW p \in Span(P, S, k, i)
  PROVE  /\ p \in Places(P) /\ p[1] = k /\ TokenAt(P, p) # PadToken
         /\ TokenAt(P, p)[1] = i /\ TokenAt(P, p)[2] >= S[i].prompt
<1> DEFINE a == Begin(P)[k]
           b == Begin(P)[k + 1]
           size == TokensIn(S, b) - TokensIn(S, a)
           ids == P[k].input_ids
<1>1. /\ S \in Seq(SeqType) /\ a \in 0..Len(S) /\ b \in 0..Len(S) /\ a < b /\ Lays(P[k], S, a, b)
      /\ PaddedTo(P[k], size) /\ P[k] \in PackType /\ i \in a + 1..b /\ b \in a..Len(S)
  BY LaidFacts
<1>2. PICK j \in S[i].prompt..SeqLen(S[i]) : p = <<k, Offset(P, S, k, i) + j - 1>>
  BY DEF Span
<1>3. i \in 1..Len(S) /\ S[i] \in SeqType
  BY <1>1
<1>4. S[i].prompt \in Nat \ {0} /\ SeqLen(S[i]) \in Nat
  BY <1>3, SeqLenType DEF SeqType
<1>5. j \in 1..SeqLen(S[i]) /\ j >= S[i].prompt /\ j \in Nat
  BY <1>4
<1> DEFINE m == TokensIn(S, i - 1) - TokensIn(S, a) + j
<1>6. TokensIn(S, i - 1) - TokensIn(S, a) \in Nat /\ m \in 1..size
  BY <1>1, <1>5, PlaceOf
<1>7. ids[m] = <<i, j>>
  BY <1>1, <1>5 DEF Lays
<1>8. ids \in Seq(Nat \X Nat) /\ Len(ids) - size \in 0..BucketSize - 1
  BY <1>1 DEF PackType, PaddedTo
<1> HIDE DEF m, a, b, size, ids
<1>9. size \in Int /\ BucketSize \in Int /\ Len(ids) \in Nat
  <2>1. size \in Int
    BY <1>1, TokensFacts DEF size
  <2>2. QED
    BY <1>8, <2>1, PackingAssumption
<1>10. m \in Nat /\ m - 1 \in 0..Len(ids) - 1 /\ (m - 1) + 1 = m
  BY <1>6, <1>8, <1>9
<1>11. p = <<k, m - 1>>
  <2>1. Offset(P, S, k, i) = TokensIn(S, i - 1) - TokensIn(S, a)
    BY DEF Offset, a
  <2>2. m = Offset(P, S, k, i) + j /\ Offset(P, S, k, i) \in Nat
    BY <1>6, <2>1 DEF m
  <2>3. Offset(P, S, k, i) + j - 1 = m - 1
    BY <1>5, <2>2
  <2>4. QED
    BY <1>2, <2>3
<1>12. p \in Places(P)
  BY <1>10, <1>11 DEF Places, ids
<1>13. TokenAt(P, p) = <<i, j>>
  BY <1>7, <1>10, <1>11 DEF TokenAt, ids
<1>14. <<i, j>> # PadToken
  BY <1>5 DEF PadToken
<1>15. QED
  BY <1>5, <1>11, <1>12, <1>13, <1>14

LEMMA NoSpans ==
  ASSUME NEW P, NEW S, Laid(P, S)
  PROVE  Spans(P, S, 0) = {}
<1>1. ASSUME NEW p, InSpans(P, S, 0, p) PROVE FALSE
  <2>1. PICK k \in 1..Len(P) : \E i \in Begin(P)[k] + 1..Begin(P)[k + 1] : i <= 0
    BY <1>1 DEF InSpans
  <2>2. PICK i \in Begin(P)[k] + 1..Begin(P)[k + 1] : i <= 0
    BY <2>1
  <2>3. Begin(P)[k] \in 0..Len(S)
    BY LaidFacts
  <2>4. QED
    BY <2>2, <2>3
<1>2. QED
  BY <1>1 DEF Spans

\* One sample more: its positions are not those of any before it.
LEMMA SpansNext ==
  ASSUME NEW P, NEW S, Laid(P, S), NEW k \in 1..Len(P), NEW d \in Nat, d + 1 \in Begin(P)[k] + 1..Begin(P)[k + 1]
  PROVE  /\ Spans(P, S, d + 1) = Spans(P, S, d) \cup Span(P, S, k, d + 1)
         /\ Spans(P, S, d) \cap Span(P, S, k, d + 1) = {}
<1> DEFINE B == Begin(P)
<1>0. \A q \in 1..Len(P) : B[q] \in Nat /\ B[q + 1] \in Nat
  BY LaidFacts
<1>1. ASSUME NEW q \in 1..Len(P), d + 1 \in B[q] + 1..B[q + 1] PROVE q = k
  <2>1. q \in Nat /\ k \in Nat /\ Len(P) \in Nat /\ q \in 1..Len(P) + 1 /\ k \in 1..Len(P) + 1
    BY LaidFacts
  <2>2. ASSUME q < k PROVE FALSE
    <3>1. B[q + 1] <= B[k]
      BY <2>1, <2>2, BeginGrows
    <3>2. QED
      BY <1>0, <1>1, <3>1
  <2>3. ASSUME k < q PROVE FALSE
    <3>1. B[k + 1] <= B[q]
      BY <2>1, <2>3, BeginGrows
    <3>2. QED
      BY <1>0, <1>1, <3>1
  <2>4. QED
    BY <2>1, <2>2, <2>3
<1>2. ASSUME NEW p, InSpans(P, S, d + 1, p), ~ InSpans(P, S, d, p) PROVE p \in Span(P, S, k, d + 1)
  <2>1. PICK q \in 1..Len(P) : \E i \in B[q] + 1..B[q + 1] : i <= d + 1 /\ p \in Span(P, S, q, i)
    BY <1>2 DEF InSpans
  <2>2. PICK i \in B[q] + 1..B[q + 1] : i <= d + 1 /\ p \in Span(P, S, q, i)
    BY <2>1
  <2>3. ~ (i <= d)
    BY <1>2, <2>2 DEF InSpans
  <2>4. i = d + 1
    BY <1>0, <2>2, <2>3
  <2>5. q = k
    BY <1>1, <2>4
  <2>6. QED
    BY <2>2, <2>4, <2>5
<1>3. ASSUME NEW p, InSpans(P, S, d, p) PROVE InSpans(P, S, d + 1, p)
  <2>1. PICK q \in 1..Len(P) : \E i \in B[q] + 1..B[q + 1] : i <= d /\ p \in Span(P, S, q, i)
    BY <1>3 DEF InSpans
  <2>2. PICK i \in B[q] + 1..B[q + 1] : i <= d /\ p \in Span(P, S, q, i)
    BY <2>1
  <2>3. i <= d + 1
    BY <1>0, <2>2
  <2>4. QED
    BY <2>2, <2>3 DEF InSpans
<1>4. ASSUME NEW p \in Span(P, S, k, d + 1) PROVE p \in Places(P) /\ InSpans(P, S, d + 1, p) /\ ~ InSpans(P, S, d, p)
  <2>1. p \in Places(P) /\ TokenAt(P, p)[1] = d + 1
    BY <1>4, SpanFacts
  <2>2. d + 1 <= d + 1
    OBVIOUS
  <2>3. InSpans(P, S, d + 1, p)
    BY <1>4, <2>2 DEF InSpans
  <2>4. ASSUME InSpans(P, S, d, p) PROVE FALSE
    <3>1. PICK q \in 1..Len(P) : \E i \in B[q] + 1..B[q + 1] : i <= d /\ p \in Span(P, S, q, i)
      BY <2>4 DEF InSpans
    <3>2. PICK i \in B[q] + 1..B[q + 1] : i <= d /\ p \in Span(P, S, q, i)
      BY <3>1
    <3>3. TokenAt(P, p)[1] = i
      BY <3>2, SpanFacts
    <3>4. QED
      BY <1>0, <2>1, <3>2, <3>3
  <2>5. QED
    BY <2>1, <2>3, <2>4
<1>5. QED
  BY <1>2, <1>3, <1>4 DEF Spans

\* The positions of all the samples are those of the tokens of a response and
\* of the last token of a prompt.
LEMMA AllSpans ==
  ASSUME NEW P, NEW S, Laid(P, S)
  PROVE  Spans(P, S, Len(S)) =
           {p \in Places(P) : TokenAt(P, p) # PadToken /\ TokenAt(P, p)[2] >= S[TokenAt(P, p)[1]].prompt}
<1>1. ASSUME NEW p, InSpans(P, S, Len(S), p)
      PROVE  TokenAt(P, p) # PadToken /\ TokenAt(P, p)[2] >= S[TokenAt(P, p)[1]].prompt
  <2>1. PICK k \in 1..Len(P) : \E i \in Begin(P)[k] + 1..Begin(P)[k + 1] : p \in Span(P, S, k, i)
    BY <1>1 DEF InSpans
  <2>2. PICK i \in Begin(P)[k] + 1..Begin(P)[k + 1] : p \in Span(P, S, k, i)
    BY <2>1
  <2>3. TokenAt(P, p) # PadToken /\ TokenAt(P, p)[1] = i /\ TokenAt(P, p)[2] >= S[i].prompt
    BY <2>2, SpanFacts
  <2>4. QED
    BY <2>3
<1>2. ASSUME NEW p \in Places(P), TokenAt(P, p) # PadToken, TokenAt(P, p)[2] >= S[TokenAt(P, p)[1]].prompt
      PROVE  InSpans(P, S, Len(S), p)
  <2>1. PICK k \in 1..Len(P) : \E n \in 0..Len(P[k].input_ids) - 1 : p = <<k, n>>
    BY DEF Places
  <2>2. PICK n \in 0..Len(P[k].input_ids) - 1 : p = <<k, n>>
    BY <2>1
  <2> DEFINE a == Begin(P)[k]
             b == Begin(P)[k + 1]
             size == TokensIn(S, b) - TokensIn(S, a)
             ids == P[k].input_ids
  <2>3. /\ S \in Seq(SeqType) /\ a \in 0..Len(S) /\ b \in 0..Len(S) /\ a < b /\ Lays(P[k], S, a, b)
        /\ PaddedTo(P[k], size) /\ P[k] \in PackType /\ b \in a..Len(S) /\ Len(S) \in Nat
    BY LaidFacts
  <2> HIDE DEF a, b
  <2>4. size \in Int /\ ids \in Seq(Nat \X Nat) /\ Len(ids) \in Nat
    BY <2>3, TokensFacts DEF PackType
  <2>5. TokenAt(P, p) = ids[n + 1] /\ n \in Nat /\ n + 1 \in 1..Len(ids)
    BY <2>2, <2>4 DEF TokenAt
  <2>6. n + 1 \in 1..size
    <3>1. ASSUME ~ (n + 1 <= size) PROVE FALSE
      <4>1. n + 1 \in size + 1..Len(ids)
        BY <2>4, <2>5, <3>1
      <4>2. ids[n + 1] = PadToken
        BY <2>3, <4>1 DEF PaddedTo
      <4>3. QED
        BY <1>2, <2>5, <4>2
    <3>2. QED
      BY <2>4, <2>5, <3>1
  <2>7. PICK i \in a + 1..b : \E j \in 1..SeqLen(S[i]) : n + 1 = TokensIn(S, i - 1) - TokensIn(S, a) + j
    BY <2>3, <2>6, PlaceCovered
  <2>8. PICK j \in 1..SeqLen(S[i]) : n + 1 = TokensIn(S, i - 1) - TokensIn(S, a) + j
    BY <2>7
  <2>9. ids[n + 1] = <<i, j>>
    BY <2>3, <2>8 DEF Lays
  <2>10. j >= S[i].prompt
    BY <1>2, <2>5, <2>9
  <2>11. i \in 1..Len(S) /\ i - 1 \in 0..Len(S) /\ i <= Len(S) /\ S[i] \in SeqType
    BY <2>3
  <2>12. S[i].prompt \in Nat /\ SeqLen(S[i]) \in Nat /\ TokensIn(S, i - 1) \in Nat /\ TokensIn(S, a) \in Nat
    BY <2>3, <2>11, SeqLenType, TokensFacts DEF SeqType
  <2>13. j \in S[i].prompt..SeqLen(S[i])
    BY <2>10, <2>12
  <2>14. n = Offset(P, S, k, i) + j - 1
    <3>1. Offset(P, S, k, i) = TokensIn(S, i - 1) - TokensIn(S, a)
      BY DEF Offset, a
    <3>2. n + 1 = Offset(P, S, k, i) + j /\ Offset(P, S, k, i) \in Int
      BY <2>8, <2>12, <3>1
    <3>3. PICK o \in Int : o = Offset(P, S, k, i)
      BY <3>2
    <3>4. n + 1 = o + j /\ n \in Nat /\ j \in Int
      BY <2>5, <3>2, <3>3
    <3>5. n = o + j - 1
      BY <3>4
    <3>6. QED
      BY <3>3, <3>5
  <2>15. p \in Span(P, S, k, i)
    BY <2>2, <2>13, <2>14 DEF Span
  <2>16. QED
    BY <2>11, <2>15 DEF InSpans, a, b
<1>3. QED
  BY <1>1, <1>2 DEF Spans

\* The tokens of the responses, added up pack by pack or over the batch.
LEMMA TotalOverPacks ==
  ASSUME NEW P, NEW S, Laid(P, S)
  PROVE  /\ SumTo([k \in DOMAIN P |-> ResponseTokens(P[k].seqs)], Len(P)) = ResponseTokens(S)
         /\ ResponseTokens(S) \in Nat
<1> DEFINE f == [i \in DOMAIN S |-> S[i].response]
           R(n) == SumTo(f, n)
           B == Begin(P)
           L == Len(P)
<1>1. /\ S \in Seq(SeqType) /\ P \in Seq(PackType) /\ L \in Nat /\ Len(S) \in Nat
      /\ B \in [1..L + 1 -> 0..Len(S)] /\ B[1] = 0 /\ B[L + 1] = Len(S)
  BY LaidFacts
<1>2. DOMAIN P = 1..L /\ \A i \in 1..Len(S) : f[i] = S[i].response /\ f[i] \in Nat
  <2>1. DOMAIN P = 1..L /\ DOMAIN S = 1..Len(S) /\ \A i \in 1..Len(S) : S[i] \in SeqType
    BY <1>1
  <2>2. QED
    BY <2>1 DEF SeqType
<1>3. R(0) = 0 /\ \A n \in 0..Len(S) : R(n) \in Nat
  BY <1>1, <1>2, SumNext, SumType
<1>4. ResponseTokens(S) = R(Len(S))
  BY DEF ResponseTokens
<1> HIDE DEF f, L, B
<1>5. ASSUME NEW k \in 1..L
      PROVE  ResponseTokens(P[k].seqs) = R(B[k + 1]) - R(B[k])
  <2> DEFINE a == B[k]
             s == P[k].seqs
             m == Len(s)
             h == [i \in DOMAIN s |-> s[i].response]
             g == [l \in 1..m + 1 |-> R(a + l - 1)]
  <2>1. a \in 0..Len(S) /\ B[k + 1] \in 0..Len(S) /\ a < B[k + 1] /\ m = B[k + 1] - a
    BY LaidFacts, SampleOf DEF B, L
  <2>2. \A l \in 1..m : a + l \in 1..Len(S) /\ s[l] = S[a + l]
    BY SampleOf DEF B, L
  <2>3. m \in Nat /\ a + m = B[k + 1]
    BY <2>1
  <2>4. DOMAIN s = 1..m
    <3>1. P[k] \in PackType
      BY LaidFacts DEF L
    <3>2. s \in Seq(SeqType)
      BY <3>1 DEF PackType
    <3>3. QED
      BY <3>2
  <2>5. ResponseTokens(s) = SumTo(h, m)
    BY DEF ResponseTokens
  <2>6. \A l \in 1..m : h[l] = f[a + l]
    BY <1>2, <2>2, <2>4
  <2> HIDE DEF a, s, m, h
  <2>7. g \in [1..m + 1 -> Nat]
    <3>1. \A l \in 1..m + 1 : a + l - 1 \in 0..Len(S)
      BY <2>1, <2>3
    <3>2. QED
      BY <1>3, <3>1
  <2>8. ASSUME NEW l \in 1..m PROVE h[l] = g[l + 1] - g[l]
    <3>1. l \in 1..m + 1 /\ l + 1 \in 1..m + 1 /\ a + (l + 1) - 1 = (a + l - 1) + 1 /\ a + l - 1 \in Nat /\ (a + l - 1) + 1 = a + l
      BY <2>1, <2>3
    <3>2. g[l] = R(a + l - 1) /\ g[l + 1] = R((a + l - 1) + 1)
      BY <3>1
    <3>3. R((a + l - 1) + 1) = R(a + l - 1) + f[(a + l - 1) + 1]
      BY <3>1, SumNext
    <3>4. g[l] \in Nat /\ f[a + l] \in Nat
      BY <1>2, <2>2, <2>7, <3>1
    <3> HIDE DEF R, g
    <3>5. QED
      BY <2>6, <3>1, <3>2, <3>3, <3>4
  <2>9. SumTo(h, m) = g[m + 1] - g[1]
    <3>1. m \in 0..m
      BY <2>3
    <3> HIDE DEF g
    <3>2. QED
      BY <2>3, <2>7, <2>8, <3>1, SumOfDifferences
  <2>10. g[m + 1] = R(B[k + 1]) /\ g[1] = R(a)
    <3>1. m + 1 \in 1..m + 1 /\ 1 \in 1..m + 1 /\ a + (m + 1) - 1 = B[k + 1] /\ a + 1 - 1 = a
      BY <2>1, <2>3
    <3>2. QED
      BY <3>1
  <2>11. QED
    BY <2>5, <2>9, <2>10 DEF a, s
<1> DEFINE t == [k \in DOMAIN P |-> ResponseTokens(P[k].seqs)]
           g == [k \in 1..L + 1 |-> R(B[k])]
<1>6. g \in [1..L + 1 -> Nat]
  BY <1>1, <1>3
<1>7. \A k \in 1..L : t[k] = g[k + 1] - g[k]
  <2>1. \A k \in 1..L : k \in 1..L + 1 /\ k + 1 \in 1..L + 1
    BY <1>1
  <2>2. QED
    BY <1>2, <1>5, <2>1
<1>8. g[L + 1] = R(Len(S)) /\ g[1] = 0
  <2>1. L + 1 \in 1..L + 1 /\ 1 \in 1..L + 1
    BY <1>1
  <2>2. QED
    BY <1>1, <1>3, <2>1
<1> HIDE DEF t, g, R
<1>9. SumTo(t, L) = g[L + 1] - g[1]
  <2>1. L \in 0..L
    BY <1>1
  <2>2. QED
    BY <1>1, <1>6, <1>7, <2>1, SumOfDifferences
<1>10. R(Len(S)) \in Nat
  BY <1>1, <1>3
<1>11. QED
  BY <1>4, <1>8, <1>9, <1>10 DEF t, L

-----------------------------------------------------------------------------
(***************************************************************************)
(* Chunks                                                                  *)
(***************************************************************************)
LEMMA GreaterOfTwo ==
  ASSUME NEW a \in Int, NEW b \in Int
  PROVE  Max({a, b}) \in {a, b} /\ a <= Max({a, b}) /\ b <= Max({a, b})
<1>1. \E x \in {a, b} : \A y \in {a, b} : y <= x
  OBVIOUS
<1>2. QED
  BY <1>1 DEF Max

LEMMA LesserOfTwo ==
  ASSUME NEW a \in Int, NEW b \in Int
  PROVE  Min({a, b}) \in {a, b} /\ Min({a, b}) <= a /\ Min({a, b}) <= b
<1>1. \E x \in {a, b} : \A y \in {a, b} : x <= y
  OBVIOUS
<1>2. QED
  BY <1>1 DEF Min

\* Every position of a slice is in one chunk.
LEMMA ChunksPartition ==
  ASSUME NEW n \in Nat \ {0}
  PROVE  \E K \in Nat :
           /\ DOMAIN ChunkRanges(n) = 1..K /\ Len(ChunkRanges(n)) = K
           /\ \A k \in 1..K : IsFiniteSet(ChunkRanges(n)[k])
           /\ \A x \in 0..n - 1 : \E m \in 1..K : \A k \in 1..K : x \in ChunkRanges(n)[k] <=> k = m
<1> DEFINE c == ChunkTokens(n)
           a == n + c - 1
           K == a \div c
           ch == ChunkRanges(n)
<1>1. c \in Nat \ {0}
  <2> DEFINE b == n + ChunksPerSample - 1
             z == b \div ChunksPerSample
  <2>1. ChunksPerSample \in Nat \ {0} /\ b \in Nat
    BY LossAssumption
  <2> HIDE DEF b
  <2>2. z \in Nat
    BY <2>1, QuotientAndRest
  <2>3. c = Max({1, z})
    BY DEF ChunkTokens, b
  <2> HIDE DEF z, c
  <2>4. c \in {1, z} /\ 1 <= c
    BY <2>2, <2>3, GreaterOfTwo
  <2>5. QED
    BY <2>2, <2>4
<1>2. ch = [k \in 1..K |-> (k - 1) * c..Min({n, k * c}) - 1]
  BY DEF ChunkRanges
<1> HIDE DEF c, ch
<1>3. a \in Nat
  BY <1>1
<1>4. K \in Nat /\ a % c \in 0..c - 1 /\ a = K * c + (a % c)
  <2> HIDE DEF a
  <2>1. QED
    BY <1>1, <1>3, QuotientAndRest
<1>5. K * c \in Nat
  BY <1>1, <1>4
<1>6. n <= K * c
  <2> HIDE DEF K
  <2>1. PICK y \in Nat, r \in 0..c - 1 : y = K * c /\ a = y + r
    BY <1>4, <1>5
  <2>2. QED
    BY <1>1, <2>1
<1> HIDE DEF K, a
<1>7. DOMAIN ch = 1..K /\ Len(ch) = K /\ \A k \in 1..K : ch[k] = (k - 1) * c..Min({n, k * c}) - 1
  BY <1>2, <1>4
<1>8. ASSUME NEW k \in 1..K
      PROVE  (k - 1) * c \in Nat /\ k * c = (k - 1) * c + c /\ Min({n, k * c}) \in Nat /\ Min({n, k * c}) <= k * c
             /\ Min({n, k * c}) \in {n, k * c}
  <2>1. (k - 1) * c \in Nat /\ k * c = (k - 1) * c + c /\ k * c \in Nat
    BY <1>1, <1>4
  <2>2. PICK y \in Nat : y = k * c
    BY <2>1
  <2>3. Min({n, y}) \in {n, y} /\ Min({n, y}) <= y
    BY LesserOfTwo
  <2>4. QED
    BY <2>1, <2>2, <2>3
<1>9. \A k \in 1..K : IsFiniteSet(ch[k])
  <2>1. SUFFICES ASSUME NEW k \in 1..K PROVE IsFiniteSet((k - 1) * c..Min({n, k * c}) - 1)
    BY <1>7
  <2>2. (k - 1) * c \in Int /\ Min({n, k * c}) - 1 \in Int
    BY <1>8
  <2>3. QED
    BY <2>2, FS_Interval
<1>10. ASSUME NEW x \in 0..n - 1
       PROVE  \E m \in 1..K : \A k \in 1..K : x \in ch[k] <=> k = m
  <2> DEFINE q == x \div c
             r == x % c
  <2>1. x \in Nat /\ x < n
    OBVIOUS
  <2>2. q \in Nat /\ r \in 0..c - 1 /\ x = q * c + r
    BY <1>1, <2>1, QuotientAndRest
  <2> HIDE DEF q, r
  <2>3. q * c \in Nat
    BY <1>1, <2>2
  <2>4. q < K
    <3>1. ASSUME K <= q PROVE FALSE
      <4>1. K * c <= q * c
        BY <1>1, <1>4, <2>2, <3>1
      <4>2. QED
        BY <1>5, <1>6, <2>1, <2>2, <2>3, <4>1
    <3>2. QED
      BY <1>4, <2>2, <3>1
  <2>5. q + 1 \in 1..K /\ (q + 1) - 1 = q
    BY <1>4, <2>2, <2>4
  <2>6. x \in ch[q + 1]
    <3>1. ch[q + 1] = q * c..Min({n, (q + 1) * c}) - 1 /\ Min({n, (q + 1) * c}) \in {n, (q + 1) * c}
          /\ (q + 1) * c = q * c + c
      BY <1>7, <1>8, <2>5
    <3>2. x < (q + 1) * c /\ x < n /\ q * c <= x
      BY <1>1, <2>1, <2>2, <2>3, <3>1
    <3>3. x <= Min({n, (q + 1) * c}) - 1
      BY <1>1, <2>1, <2>3, <3>1, <3>2
    <3>4. QED
      BY <2>1, <2>3, <3>1, <3>2, <3>3
  <2>7. ASSUME NEW k \in 1..K, x \in ch[k] PROVE k = q + 1
    <3>1. PICK y \in Nat : y = (k - 1) * c
      BY <1>8
    <3>2. k * c = y + c /\ Min({n, k * c}) <= y + c /\ Min({n, k * c}) \in Nat
      BY <1>8, <3>1
    <3>3. x \in y..Min({n, k * c}) - 1
      BY <1>7, <2>7, <3>1
    <3>4. x - y \in 0..c - 1 /\ x = y + (x - y)
      BY <1>1, <2>1, <3>1, <3>2, <3>3
    <3>5. (k - 1) * c + (x - y) = q * c + r
      BY <2>2, <3>1, <3>4
    <3>6. k - 1 \in Nat
      BY <1>4
    <3>7. k - 1 = q
      BY <1>1, <2>2, <3>4, <3>5, <3>6, OneQuotient
    <3>8. QED
      BY <1>4, <3>7
  <2>8. QED
    BY <2>5, <2>6, <2>7
<1>11. QED
  BY <1>4, <1>7, <1>9, <1>10 DEF ch

\* What the loop over the chunks has added at position x after m of them.
GotIs(got, chunks, x, m) ==
  got = [k \in 0..m |-> IF k = 0 THEN <<>>
                        ELSE IF x \in chunks[k] THEN Append(got[k - 1], Weight(chunks[k])) ELSE got[k - 1]]

LEMMA GotExists ==
  ASSUME NEW chunks, NEW x, NEW m \in Nat
  PROVE  \E got : GotIs(got, chunks, x, m)
<1> DEFINE S == {k \in Nat : \E got : GotIs(got, chunks, x, k)}
<1>1. 0 \in S
  <2>1. GotIs([k \in 0..0 |-> <<>>], chunks, x, 0)
    BY DEF GotIs
  <2>2. QED
    BY <2>1
<1>2. ASSUME NEW k \in Nat, k \in S
      PROVE  k + 1 \in S
  <2>1. PICK f : GotIs(f, chunks, x, k)
    BY <1>2
  <2> DEFINE last == IF x \in chunks[k + 1] THEN Append(f[k], Weight(chunks[k + 1])) ELSE f[k]
             h == [i \in 0..k + 1 |-> IF i = k + 1 THEN last ELSE f[i]]
  <2>2. h[k] = f[k] /\ h[k + 1] = last /\ \A i \in 0..k : h[i] = f[i]
    OBVIOUS
  <2>3. \A i \in 0..k : f[i] = IF i = 0 THEN <<>>
                               ELSE IF x \in chunks[i] THEN Append(f[i - 1], Weight(chunks[i])) ELSE f[i - 1]
    BY <2>1 DEF GotIs
  <2> HIDE DEF last
  <2>4. h = [i \in 0..k + 1 |-> h[i]]
    OBVIOUS
  <2> HIDE DEF h
  <2>5. ASSUME NEW i \in 0..k + 1
        PROVE  h[i] = IF i = 0 THEN <<>>
                      ELSE IF x \in chunks[i] THEN Append(h[i - 1], Weight(chunks[i])) ELSE h[i - 1]
    <3>1. CASE i = k + 1
      <4>1. i # 0 /\ i - 1 = k
        BY <3>1
      <4>2. QED
        BY <2>2, <3>1, <4>1 DEF last
    <3>2. CASE i # k + 1
      <4>1. i \in 0..k /\ (i # 0 => i - 1 \in 0..k)
        BY <3>2
      <4>2. QED
        BY <2>2, <2>3, <4>1
    <3>3. QED
      BY <3>1, <3>2
  <2>6. GotIs(h, chunks, x, k + 1)
    BY <2>4, <2>5, Zenon DEF GotIs
  <2>7. QED
    BY <2>6
<1> HIDE DEF S
<1>3. m \in S
  BY <1>1, <1>2, SetInduction
<1>4. QED
  BY <1>3 DEF S

LEMMA OneWeight ==
  ASSUME SeqTokens \in Nat \ {0}, NEW x \in 0..SeqTokens - 1
  PROVE  \E c \in Nat \ {0} :
           WeightsAt(x) = << <<c * Sample.response, c * SeqTokens * TotalResponseTokens>> >>
<1> DEFINE ch == ChunkRanges(SeqTokens)
           W(k) == Weight(ch[k])
<1>1. PICK K \in Nat :
        /\ DOMAIN ch = 1..K /\ Len(ch) = K /\ \A k \in 1..K : IsFiniteSet(ch[k])
        /\ \E m \in 1..K : \A k \in 1..K : x \in ch[k] <=> k = m
  BY ChunksPartition
<1>2. PICK m \in 1..K : \A k \in 1..K : x \in ch[k] <=> k = m
  BY <1>1
<1> DEFINE f == CHOOSE f : GotIs(f, ch, x, K)
<1>3. \E g : GotIs(g, ch, x, K)
  BY <1>1, GotExists
<1>4. GotIs(f, ch, x, K)
  BY <1>3
<1>5. WeightsAt(x) = f[K]
  BY <1>1 DEF WeightsAt, GotIs
<1> HIDE DEF f, ch
<1> DEFINE S == {k \in Nat : k <= K => f[k] = IF k < m THEN <<>> ELSE <<W(m)>>}
<1>6. 0 \in S
  BY <1>1, <1>2, <1>4 DEF GotIs
<1>7. ASSUME NEW k \in Nat, k \in S
      PROVE  k + 1 \in S
  <2>1. SUFFICES ASSUME k + 1 <= K PROVE f[k + 1] = IF k + 1 < m THEN <<>> ELSE <<W(m)>>
    OBVIOUS
  <2>2. k + 1 \in 1..K /\ k + 1 \in 0..K /\ k + 1 # 0 /\ (k + 1) - 1 = k
    BY <1>1, <2>1
  <2>3. f[k] = IF k < m THEN <<>> ELSE <<W(m)>>
    BY <1>7, <2>1
  <2>4. f[k + 1] = IF x \in ch[k + 1] THEN Append(f[k], W(k + 1)) ELSE f[k]
    BY <1>4, <2>2 DEF GotIs
  <2> HIDE DEF W
  <2>5. CASE k + 1 = m
    <3>1. x \in ch[k + 1] /\ k < m /\ ~ (k + 1 < m)
      BY <1>2, <2>2, <2>5
    <3>2. f[k + 1] = Append(<<>>, W(m))
      BY <2>3, <2>4, <2>5, <3>1
    <3>3. Append(<<>>, W(m)) = <<W(m)>>
      OBVIOUS
    <3>4. QED
      BY <3>1, <3>2, <3>3
  <2>6. CASE k + 1 # m
    <3>1. x \notin ch[k + 1] /\ (k < m <=> k + 1 < m)
      BY <1>2, <2>2, <2>6
    <3>2. QED
      BY <2>3, <2>4, <3>1
  <2>7. QED
    BY <2>5, <2>6
<1> HIDE DEF S
<1>8. Nat \subseteq S
  BY <1>6, <1>7, SetInduction
<1>9. f[K] = <<W(m)>>
  BY <1>1, <1>2, <1>8 DEF S
<1> DEFINE c == Cardinality(ch[m])
<1>10. c \in Nat \ {0}
  <2>1. IsFiniteSet(ch[m]) /\ x \in ch[m]
    BY <1>1, <1>2
  <2>2. c \in Nat
    BY <2>1, FS_CardinalityType
  <2>3. c # 0
    BY <2>1, FS_EmptySet
  <2>4. QED
    BY <2>2, <2>3
<1>11. W(m) = <<c * Sample.response, c * SeqTokens * TotalResponseTokens>>
  BY DEF Weight
<1>12. QED
  BY <1>5, <1>9, <1>10, <1>11

-----------------------------------------------------------------------------
(***************************************************************************)
(* The loops of the loss                                                   *)
(***************************************************************************)
\* g is a function on D.
On(g, D) == g = [p \in D |-> g[p]]

\* How many samples of the batch have had their gradient.
Reached == IF at[2] = 0 THEN Begin(packs)[at[1] + 1] ELSE Begin(packs)[at[1]] + at[2] - 1

\* The one gradient of position p, of sample i, is the sample's share of the
\* response tokens spread over its positions, in units of 1 / c.
Share(S, i, g) ==
  \E c \in Nat \ {0} :
    /\ ResponseTokens(S) \in Nat \ {0}
    /\ g = << <<c * S[i].response, c * (S[i].response + 1) * ResponseTokens(S)>> >>

Weighted(P, S, h, D) == \A p \in D : Share(S, TokenAt(P, p)[1], h[p])

\* The positions reached have their gradient in lm_head; in the backbone too,
\* but for the pack the loop is in when its gradients are set aside.
LossInv ==
  LET D == Spans(packs, sequences, Reached)
  IN /\ Laid(packs, sequences)
     /\ at \in (0..Len(packs)) \X Nat
     /\ at[2] > 0 =>
          /\ at[1] > 0 /\ at[2] <= Len(packs[at[1]].seqs) + 1
          /\ offset = TokensIn(sequences, Reached) - TokensIn(sequences, Begin(packs)[at[1]])
     /\ On(head, D) /\ Weighted(packs, sequences, head, D)
     /\ at[2] = 0 \/ mode # "two_stage" => accum = NoGradient /\ hidden = head
     /\ at[2] > 0 /\ mode = "two_stage" =>
          /\ accum = [p \in {q \in D : q[1] = at[1]} |-> head[p]]
          /\ hidden = [p \in {q \in D : q[1] # at[1]} |-> head[p]]
     /\ outcome = "done" => at = <<Len(packs), 0>>
     /\ outcome \in {"running", "done", "ZeroDivisionError", "RuntimeError"}
     /\ graph \in {"none", "kept", "freed"} /\ mode \in BackwardModes

\* f is g on D and w on E.
Both(f, g, w, D, E) ==
  On(f, D \cup E) /\ (\A p \in D : f[p] = g[p]) /\ (\A p \in E : f[p] = w[p])

LEMMA PlusApart ==
  ASSUME NEW D, NEW E, NEW g, NEW w, On(g, D), On(w, E), D \cap E = {}
  PROVE  Both(Plus(g, w), g, w, D, E) /\ Both(Over(g, w), g, w, D, E)
<1>1. DOMAIN g = D /\ DOMAIN w = E
  <2>1. DOMAIN [p \in D |-> g[p]] = D /\ DOMAIN [p \in E |-> w[p]] = E
    OBVIOUS
  <2>2. QED
    BY <2>1 DEF On
<1>2. Plus(g, w) = [p \in D \cup E |-> IF p \in D THEN g[p] ELSE w[p]]
  BY <1>1 DEF Plus
<1>3. Over(g, w) = [p \in D \cup E |-> IF p \in D THEN g[p] ELSE w[p]]
  BY <1>1 DEF Over
<1>4. On(Plus(g, w), D \cup E) /\ On(Over(g, w), D \cup E)
  BY <1>2, <1>3 DEF On
<1>5. \A p \in D : p \notin E
  OBVIOUS
<1>6. QED
  BY <1>2, <1>3, <1>4, <1>5 DEF Both

\* Inside the loop over the samples of a pack.
LEMMA InSampleFacts ==
  ASSUME LossInv, InSample
  PROVE  /\ at[1] \in 1..Len(packs) /\ at[2] \in 1..Len(packs[at[1]].seqs)
         /\ Reached \in Nat /\ Reached + 1 \in Begin(packs)[at[1]] + 1..Begin(packs)[at[1] + 1]
         /\ Reached + 1 = Begin(packs)[at[1]] + at[2] /\ Reached + 1 \in 1..Len(sequences)
         /\ Sample = sequences[Reached + 1] /\ Sample \in SeqType
         /\ offset = Offset(packs, sequences, at[1], Reached + 1)
<1>1. /\ Laid(packs, sequences) /\ at \in (0..Len(packs)) \X Nat /\ at[2] > 0 /\ at[2] <= Len(packs[at[1]].seqs)
      /\ at[1] > 0 /\ offset = TokensIn(sequences, Reached) - TokensIn(sequences, Begin(packs)[at[1]])
  BY DEF LossInv, InSample
<1>2. Len(packs) \in Nat
  BY <1>1, LaidFacts
<1>3. at[1] \in 1..Len(packs)
  BY <1>1, <1>2
<1>4. /\ Begin(packs)[at[1]] \in Nat /\ Len(packs[at[1]].seqs) = Begin(packs)[at[1] + 1] - Begin(packs)[at[1]]
      /\ Begin(packs)[at[1] + 1] \in Nat
  BY <1>1, <1>3, LaidFacts, SampleOf
<1>5. at[2] \in 1..Len(packs[at[1]].seqs)
  BY <1>1, <1>4
<1>6. Reached = Begin(packs)[at[1]] + at[2] - 1
  BY <1>1 DEF Reached
<1>7. Reached + 1 = Begin(packs)[at[1]] + at[2] /\ Reached \in Nat
  BY <1>4, <1>5, <1>6
<1>8. /\ Reached + 1 \in Begin(packs)[at[1]] + 1..Begin(packs)[at[1] + 1]
      /\ Reached + 1 \in 1..Len(sequences)
      /\ packs[at[1]].seqs[at[2]] = sequences[Reached + 1]
      /\ sequences[Reached + 1] \in SeqType
  BY <1>1, <1>3, <1>5, <1>7, SampleOf
<1>9. offset = Offset(packs, sequences, at[1], Reached + 1)
  <2>1. (Reached + 1) - 1 = Reached
    BY <1>7
  <2>2. QED
    BY <1>1, <2>1 DEF Offset
<1>10. QED
  BY <1>3, <1>5, <1>7, <1>8, <1>9 DEF Sample

\* The gradients of one sample.
LEMMA SampleGradients ==
  ASSUME LossInv, InSample, TotalResponseTokens > 0
  PROVE  LET E == Span(packs, sequences, at[1], Reached + 1)
         IN /\ On(SampleWeights, E)
            /\ \A p \in E : Share(sequences, Reached + 1, SampleWeights[p])
            /\ Weighted(packs, sequences, SampleWeights, E)
<1> DEFINE s == Sample
           i == Reached + 1
           E == Span(packs, sequences, at[1], i)
           F == {<<at[1], ResponseStart + x>> : x \in 0..SeqTokens - 1}
           r == s.response
           m == s.prompt
<1>1. /\ s = sequences[i] /\ s \in SeqType /\ offset = Offset(packs, sequences, at[1], i)
      /\ at[1] \in 1..Len(packs) /\ i \in Begin(packs)[at[1]] + 1..Begin(packs)[at[1] + 1] /\ Laid(packs, sequences)
  BY InSampleFacts DEF LossInv
<1>2. r \in Nat /\ m \in Nat \ {0} /\ SeqLen(s) = m + r
  BY <1>1 DEF SeqType, SeqLen
<1>3. offset \in Nat
  <2>1. /\ sequences \in Seq(SeqType) /\ Begin(packs)[at[1]] \in 0..Len(sequences)
        /\ Begin(packs)[at[1] + 1] \in Begin(packs)[at[1]]..Len(sequences)
    BY <1>1, LaidFacts
  <2>2. 1 \in 1..SeqLen(sequences[i])
    BY <1>1, <1>2
  <2>3. QED
    BY <1>1, <2>1, <2>2, PlaceOf DEF Offset
<1>4. ResponseStart = offset + m - 1 /\ SeqTokens = r + 1
  <2>1. ResponseStart = offset + m - 1
    BY DEF ResponseStart
  <2>2. SeqTokens = offset + SeqLen(s) - ResponseStart
    BY DEF SeqTokens
  <2>3. QED
    BY <1>2, <1>3, <2>1, <2>2
<1>5. SampleWeights = [p \in F |-> WeightsAt(p[2] - ResponseStart)]
  BY DEF SampleWeights
<1> HIDE DEF s, i, r, m
<1>6. E = F
  <2>1. E = {<<at[1], offset + j - 1>> : j \in m..m + r}
    BY <1>1, <1>2 DEF Span, m
  <2>2. F = {<<at[1], (offset + m - 1) + x>> : x \in 0..r}
    <3>1. SeqTokens - 1 = r
      BY <1>2, <1>4
    <3>2. QED
      BY <1>4, <3>1
  <2>3. ASSUME NEW j \in m..m + r PROVE <<at[1], offset + j - 1>> \in F
    <3>1. j - m \in 0..r /\ (offset + m - 1) + (j - m) = offset + j - 1
      BY <1>2, <1>3
    <3>2. QED
      BY <2>2, <3>1
  <2>4. ASSUME NEW x \in 0..r PROVE <<at[1], (offset + m - 1) + x>> \in E
    <3>1. m + x \in m..m + r /\ offset + (m + x) - 1 = (offset + m - 1) + x
      BY <1>2, <1>3
    <3>2. QED
      BY <2>1, <3>1
  <2> HIDE DEF E, F
  <2>5. QED
    BY <2>1, <2>2, <2>3, <2>4
<1>7. TotalResponseTokens = ResponseTokens(sequences) /\ ResponseTokens(sequences) \in Nat \ {0}
  <2>1. TotalResponseTokens = ResponseTokens(sequences) /\ ResponseTokens(sequences) \in Nat
    BY <1>1, TotalOverPacks DEF TotalResponseTokens
  <2>2. QED
    BY <2>1
<1>8. ASSUME NEW p \in F PROVE Share(sequences, i, SampleWeights[p])
  <2>1. PICK x \in 0..SeqTokens - 1 : p = <<at[1], ResponseStart + x>>
    OBVIOUS
  <2>2. p[2] - ResponseStart = x /\ SeqTokens \in Nat \ {0}
    <3>1. x \in Int /\ ResponseStart \in Int /\ SeqTokens \in Nat \ {0}
      BY <1>2, <1>3, <1>4
    <3>2. p[2] = ResponseStart + x
      BY <2>1
    <3>3. QED
      BY <3>1, <3>2
  <2>3. SampleWeights[p] = WeightsAt(x)
    BY <1>5, <2>2
  <2>4. PICK c \in Nat \ {0} : WeightsAt(x) = << <<c * Sample.response, c * SeqTokens * TotalResponseTokens>> >>
    BY <2>2, OneWeight
  <2>5. Sample.response = sequences[i].response /\ SeqTokens = sequences[i].response + 1
    BY <1>1, <1>4 DEF s, r
  <2>6. QED
    BY <1>7, <2>3, <2>4, <2>5 DEF Share
<1>9. \A p \in E : TokenAt(packs, p)[1] = i
  BY <1>1, SpanFacts
<1>10. Weighted(packs, sequences, SampleWeights, E)
  BY <1>6, <1>8, <1>9 DEF Weighted
<1>11. On(SampleWeights, E)
  BY <1>5, <1>6 DEF On
<1>12. QED
  BY <1>6, <1>8, <1>10, <1>11 DEF i

LEMMA LossFacts ==
  ASSUME LossInv
  PROVE  /\ Laid(packs, sequences) /\ Len(packs) \in Nat
         /\ at[1] \in 0..Len(packs) /\ at[2] \in Nat /\ at = <<at[1], at[2]>>
         /\ \A k \in 1..Len(packs) : /\ Begin(packs)[k] \in Nat /\ Begin(packs)[k + 1] \in Nat
                                     /\ Len(packs[k].seqs) = Begin(packs)[k + 1] - Begin(packs)[k]
BY LaidFacts, SampleOf DEF LossInv

\* A sample: what is reached is one more, and lm_head has its gradient.
LEMMA SampleReached ==
  ASSUME LossInv, InSample, TotalResponseTokens > 0, NextSample, packs' = packs, sequences' = sequences,
         head' = Plus(head, SampleWeights)
  PROVE  LET D == Spans(packs, sequences, Reached)
             E == Span(packs, sequences, at[1], Reached + 1)
         IN /\ Spans(packs', sequences', Reached') = D \cup E /\ D \cap E = {}
            /\ \A p \in D : head'[p] = head[p]
            /\ \A p \in E : head'[p] = SampleWeights[p] /\ p[1] = at[1]
            /\ On(head', D \cup E) /\ Weighted(packs', sequences', head', D \cup E)
            /\ at' = <<at[1], at[2] + 1>> /\ at' \in (0..Len(packs)) \X Nat
            /\ at[1] > 0 /\ at'[2] <= Len(packs'[at'[1]].seqs) + 1
            /\ offset' = TokensIn(sequences', Reached') - TokensIn(sequences', Begin(packs')[at'[1]])
<1> DEFINE i == Reached + 1
           D == Spans(packs, sequences, Reached)
           E == Span(packs, sequences, at[1], i)
<1>1. /\ at[1] \in 1..Len(packs) /\ at[2] \in 1..Len(packs[at[1]].seqs) /\ Reached \in Nat
      /\ i \in Begin(packs)[at[1]] + 1..Begin(packs)[at[1] + 1]
      /\ i = Begin(packs)[at[1]] + at[2] /\ i \in 1..Len(sequences)
      /\ Sample = sequences[i] /\ Sample \in SeqType
      /\ offset = Offset(packs, sequences, at[1], i)
  BY InSampleFacts
<1>2. Laid(packs, sequences) /\ Len(packs) \in Nat /\ Begin(packs)[at[1]] \in Nat
  BY <1>1, LossFacts
<1>3. at' = <<at[1], at[2] + 1>> /\ offset' = offset + SeqLen(Sample)
  BY DEF NextSample
<1>4. at'[1] = at[1] /\ at'[2] = at[2] + 1 /\ at'[2] # 0 /\ at' \in (0..Len(packs)) \X Nat
      /\ at[1] > 0 /\ at'[2] <= Len(packs'[at'[1]].seqs) + 1
  <2>1. at'[1] = at[1] /\ at'[2] = at[2] + 1
    BY <1>3
  <2>2. at[2] \in Nat /\ at[1] \in 0..Len(packs) /\ at[1] > 0 /\ at[2] + 1 # 0 /\ at[2] + 1 \in Nat
    BY <1>1, <1>2, LossFacts
  <2>3. at[2] + 1 <= Len(packs[at[1]].seqs) + 1
    <3>1. Len(packs[at[1]].seqs) \in Int
      BY <1>1, LossFacts
    <3>2. QED
      BY <1>1, <2>2, <3>1
  <2>4. QED
    BY <1>3, <2>1, <2>2, <2>3
<1>5. Reached' = i
  <2>1. Reached' = Begin(packs)[at[1]] + (at[2] + 1) - 1
    BY <1>4 DEF Reached
  <2>2. QED
    BY <1>1, <1>2, <2>1
<1>6. Spans(packs, sequences, i) = D \cup E /\ D \cap E = {}
  BY <1>1, <1>2, SpansNext
<1>7. On(head, D) /\ Weighted(packs, sequences, head, D)
  BY DEF LossInv
<1>8. On(SampleWeights, E) /\ Weighted(packs, sequences, SampleWeights, E)
  BY SampleGradients
<1>10. \A p \in E : p[1] = at[1]
  BY <1>1, <1>2, SpanFacts
<1> HIDE DEF D, E, i
<1>11. /\ \A p \in D : head'[p] = head[p]
       /\ \A p \in E : head'[p] = SampleWeights[p]
       /\ On(head', D \cup E)
  <2>1. Both(Plus(head, SampleWeights), head, SampleWeights, D, E)
    BY <1>6, <1>7, <1>8, PlusApart, Zenon
  <2>2. head' = Plus(head, SampleWeights)
    OBVIOUS
  <2>3. QED
    BY <2>1, <2>2 DEF Both
<1>12. Weighted(packs, sequences, head', D \cup E)
  BY <1>7, <1>8, <1>11 DEF Weighted
<1>13. offset' = TokensIn(sequences, i) - TokensIn(sequences, Begin(packs)[at[1]])
  <2>1. /\ sequences \in Seq(SeqType) /\ i - 1 \in 0..Len(sequences) /\ i - 1 < Len(sequences) /\ (i - 1) + 1 = i
        /\ Begin(packs)[at[1]] \in 0..Len(sequences)
    <3>1. sequences \in Seq(SeqType) /\ Begin(packs)[at[1]] \in 0..Len(sequences) /\ Len(sequences) \in Nat
      BY <1>1, <1>2, LaidFacts
    <3>2. i \in 1..Len(sequences)
      BY <1>1
    <3>3. QED
      BY <3>1, <3>2
  <2>2. TokensIn(sequences, i) = TokensIn(sequences, i - 1) + SeqLen(sequences[i])
    BY <2>1, TokensFacts
  <2>3. TokensIn(sequences, i - 1) \in Nat /\ TokensIn(sequences, Begin(packs)[at[1]]) \in Nat /\ SeqLen(sequences[i]) \in Nat
    BY <1>1, <2>1, TokensFacts, SeqLenType
  <2>4. offset' = TokensIn(sequences, i - 1) - TokensIn(sequences, Begin(packs)[at[1]]) + SeqLen(sequences[i])
    BY <1>1, <1>3 DEF Offset
  <2>5. QED
    BY <2>2, <2>3, <2>4
<1>14. QED
  BY <1>3, <1>4, <1>5, <1>6, <1>10, <1>11, <1>12, <1>13 DEF D, E, i

LEMMA SampleKeeps ==
  ASSUME LossInv, TwoStageSample \/ ChunkSample \/ WholeSample, sequences' = sequences
  PROVE  LossInv'
<1> DEFINE D == Spans(packs, sequences, Reached)
           E == Span(packs, sequences, at[1], Reached + 1)
<1>1. /\ InSample /\ TotalResponseTokens > 0 /\ NextSample /\ packs' = packs
      /\ head' = Plus(head, SampleWeights) /\ mode' = mode /\ outcome' = outcome /\ outcome = "running"
      /\ graph' \in {"none", "kept", "freed"}
  <2>1. graph \in {"none", "kept", "freed"}
    BY DEF LossInv
  <2>2. CASE TwoStageSample
    BY <2>1, <2>2 DEF TwoStageSample, InSample
  <2>3. CASE ChunkSample
    BY <2>3 DEF ChunkSample, InSample
  <2>4. CASE WholeSample
    BY <2>4 DEF WholeSample, InSample
  <2>5. QED
    BY <2>2, <2>3, <2>4
<1>2. /\ Spans(packs', sequences', Reached') = D \cup E /\ D \cap E = {}
      /\ \A p \in D : head'[p] = head[p]
      /\ \A p \in E : head'[p] = SampleWeights[p] /\ p[1] = at[1]
      /\ On(head', D \cup E) /\ Weighted(packs', sequences', head', D \cup E)
      /\ at' = <<at[1], at[2] + 1>> /\ at' \in (0..Len(packs)) \X Nat
      /\ at[1] > 0 /\ at'[2] <= Len(packs'[at'[1]].seqs) + 1
      /\ offset' = TokensIn(sequences', Reached') - TokensIn(sequences', Begin(packs')[at'[1]])
  BY <1>1, SampleReached
<1>3. On(SampleWeights, E)
  BY <1>1, SampleGradients
<1>4. at[2] \in Nat /\ at[2] > 0 /\ at'[1] = at[1] /\ at'[2] # 0 /\ at'[2] > 0
  BY <1>1, <1>2, LossFacts DEF InSample
<1> HIDE DEF D, E
<1>5. CASE TwoStageSample
  <2>1. mode = "two_stage" /\ accum' = Over(accum, SampleWeights) /\ hidden' = hidden
    BY <1>5 DEF TwoStageSample
  <2> DEFINE A == {q \in D : q[1] = at[1]}
  <2>2. accum = [p \in A |-> head[p]] /\ hidden = [p \in {q \in D : q[1] # at[1]} |-> head[p]]
    BY <1>4, <2>1 DEF LossInv, D
  <2>3. On(accum, A) /\ A \cap E = {} /\ \A p \in A : accum[p] = head[p]
    BY <1>2, <2>2 DEF On
  <2>4. /\ On(accum', A \cup E)
        /\ \A p \in A : accum'[p] = accum[p]
        /\ \A p \in E : accum'[p] = SampleWeights[p]
    <3> HIDE DEF A
    <3>1. Both(Over(accum, SampleWeights), accum, SampleWeights, A, E)
      BY <1>3, <2>3, PlusApart, Zenon
    <3>2. QED
      BY <2>1, <3>1 DEF Both
  <2>5. A \cup E = {q \in D \cup E : q[1] = at'[1]} /\ {q \in D : q[1] # at[1]} = {q \in D \cup E : q[1] # at'[1]}
    BY <1>2, <1>4
  <2>6. accum' = [p \in {q \in D \cup E : q[1] = at'[1]} |-> head'[p]]
    <3>1. \A p \in A \cup E : accum'[p] = head'[p]
      BY <1>2, <2>3, <2>4
    <3> HIDE DEF A
    <3>2. accum' = [p \in A \cup E |-> accum'[p]]
      BY <2>4 DEF On
    <3>3. [p \in A \cup E |-> accum'[p]] = [p \in A \cup E |-> head'[p]]
      BY <3>1
    <3>4. QED
      BY <2>5, <3>2, <3>3
  <2>7. hidden' = [p \in {q \in D \cup E : q[1] # at'[1]} |-> head'[p]]
    <3>1. hidden' = [p \in {q \in D : q[1] # at[1]} |-> head'[p]]
      BY <1>2, <2>1, <2>2
    <3>2. QED
      BY <2>5, <3>1
  <2>8. QED
    BY <1>1, <1>2, <1>4, <2>1, <2>6, <2>7 DEF LossInv
<1>6. CASE ChunkSample \/ WholeSample
  <2>1. mode # "two_stage" /\ accum' = accum /\ hidden' = Plus(hidden, SampleWeights)
    BY <1>6 DEF ChunkSample, WholeSample
  <2>2. accum = NoGradient /\ hidden = head
    BY <2>1 DEF LossInv
  <2>3. accum' = NoGradient /\ hidden' = head'
    BY <1>1, <2>1, <2>2
  <2>4. QED
    BY <1>1, <1>2, <1>4, <2>1, <2>3 DEF LossInv
<1>7. QED
  BY <1>5, <1>6

LEMMA ForwardKeeps ==
  ASSUME LossInv, Forward, sequences' = sequences
  PROVE  LossInv'
<1> DEFINE k == at[1] + 1
           D == Spans(packs, sequences, Reached)
<1>1. /\ outcome = "running" /\ at[2] = 0 /\ at[1] < Len(packs) /\ at' = <<k, 1>> /\ offset' = 0
      /\ graph' = "kept" /\ accum' = NoGradient
      /\ packs' = packs /\ mode' = mode /\ hidden' = hidden /\ head' = head /\ outcome' = outcome
  BY DEF Forward
<1>2. /\ Laid(packs, sequences) /\ Len(packs) \in Nat /\ k \in 1..Len(packs) /\ Begin(packs)[k] \in Nat
      /\ Begin(packs)[k + 1] \in Nat /\ Len(packs[k].seqs) = Begin(packs)[k + 1] - Begin(packs)[k]
  <2>1. Laid(packs, sequences) /\ Len(packs) \in Nat /\ at[1] \in 0..Len(packs)
    BY LossFacts
  <2>2. k \in 1..Len(packs)
    BY <1>1, <2>1
  <2>3. QED
    BY <2>1, <2>2, LossFacts
<1>3. Begin(packs)[k] < Begin(packs)[k + 1]
  BY <1>2, LaidFacts
<1>4. Reached = Begin(packs)[k]
  BY <1>1 DEF Reached
<1> HIDE DEF k
<1>5. at'[1] = k /\ at'[2] = 1 /\ at' \in (0..Len(packs)) \X Nat
  BY <1>1, <1>2
<1>6. Reached' = Begin(packs)[k]
  <2>1. Reached' = Begin(packs)[k] + 1 - 1
    BY <1>1, <1>5 DEF Reached
  <2>2. QED
    BY <1>2, <2>1
<1>7. offset' = TokensIn(sequences, Begin(packs)[k]) - TokensIn(sequences, Begin(packs)[k])
  <2>1. TokensIn(sequences, Begin(packs)[k]) \in Nat
    BY <1>2, LaidFacts, TokensFacts
  <2>2. QED
    BY <1>1, <2>1
<1>8. ASSUME NEW p \in D PROVE p[1] # k
  <2>1. InSpans(packs, sequences, Begin(packs)[k], p)
    BY <1>4, <1>8 DEF Spans
  <2>2. PICK q \in 1..Len(packs) : \E i \in Begin(packs)[q] + 1..Begin(packs)[q + 1] :
          i <= Begin(packs)[k] /\ p \in Span(packs, sequences, q, i)
    BY <2>1 DEF InSpans
  <2>3. PICK i \in Begin(packs)[q] + 1..Begin(packs)[q + 1] : i <= Begin(packs)[k] /\ p \in Span(packs, sequences, q, i)
    BY <2>2
  <2>4. p[1] = q
    BY <1>2, <2>3, SpanFacts
  <2>5. q # k
    <3>1. ASSUME q = k PROVE FALSE
      <4>1. i \in Begin(packs)[k] + 1..Begin(packs)[k + 1]
        BY <2>3, <3>1
      <4>2. QED
        BY <1>2, <2>3, <4>1
    <3>2. QED
      BY <3>1
  <2>6. QED
    BY <2>4, <2>5
<1>9. /\ On(head, D) /\ Weighted(packs, sequences, head, D) /\ hidden = head
      /\ mode \in BackwardModes
  BY <1>1 DEF LossInv
<1> HIDE DEF D
<1>10. /\ accum' = [p \in {q \in D : q[1] = at'[1]} |-> head'[p]]
       /\ hidden' = [p \in {q \in D : q[1] # at'[1]} |-> head'[p]]
  <2>1. {q \in D : q[1] = at'[1]} = {} /\ {q \in D : q[1] # at'[1]} = D
    BY <1>5, <1>8
  <2>2. [p \in {} |-> head'[p]] = NoGradient
    BY DEF NoGradient
  <2>3. hidden' = [p \in D |-> head'[p]]
    BY <1>1, <1>9 DEF On
  <2>4. QED
    BY <1>1, <2>1, <2>2, <2>3
<1>11. Spans(packs', sequences', Reached') = D
  BY <1>1, <1>4, <1>6 DEF D
<1>12. at'[1] > 0 /\ at'[2] <= Len(packs'[at'[1]].seqs) + 1 /\ at'[2] # 0
  BY <1>1, <1>2, <1>3, <1>5
<1>13. Laid(packs', sequences') /\ Weighted(packs', sequences', head', D) /\ On(head', D)
  BY <1>1, <1>2, <1>9
<1>14. offset' = TokensIn(sequences', Reached') - TokensIn(sequences', Begin(packs')[at'[1]])
  BY <1>1, <1>5, <1>6, <1>7
<1>15. accum' = NoGradient /\ hidden' = head'
  BY <1>1, <1>9
<1>16. at' \in (0..Len(packs')) \X Nat /\ outcome' # "done"
       /\ outcome' \in {"running", "done", "ZeroDivisionError", "RuntimeError"}
       /\ graph' \in {"none", "kept", "freed"} /\ mode' \in BackwardModes
  BY <1>1, <1>5, <1>9
<1>17. QED
  BY <1>10, <1>11, <1>12, <1>13, <1>14, <1>15, <1>16 DEF LossInv

LEMMA EndPackKeeps ==
  ASSUME LossInv, EndPack, sequences' = sequences
  PROVE  LossInv'
<1> DEFINE k == at[1]
           D == Spans(packs, sequences, Reached)
<1>1. /\ outcome = "running" /\ at[1] > 0 /\ at[2] = Len(packs[at[1]].seqs) + 1
      /\ hidden' = Plus(hidden, accum) /\ accum' = NoGradient /\ graph' = "none" /\ at' = <<k, 0>>
      /\ packs' = packs /\ mode' = mode /\ head' = head /\ outcome' = outcome
  BY DEF EndPack
<1>2. /\ Laid(packs, sequences) /\ Len(packs) \in Nat /\ k \in 1..Len(packs) /\ Begin(packs)[k] \in Nat
      /\ Begin(packs)[k + 1] \in Nat /\ Len(packs[k].seqs) = Begin(packs)[k + 1] - Begin(packs)[k]
      /\ Begin(packs)[k] < Begin(packs)[k + 1]
  <2>1. Laid(packs, sequences) /\ Len(packs) \in Nat /\ at[1] \in 0..Len(packs)
    BY LossFacts
  <2>2. k \in 1..Len(packs)
    BY <1>1, <2>1
  <2>3. QED
    BY <2>1, <2>2, LossFacts, LaidFacts
<1>3. at[2] > 0 /\ at[2] # 0 /\ at[2] \in Nat
  BY <1>1, <1>2
<1>4. Reached = Begin(packs)[k + 1]
  <2>1. Reached = Begin(packs)[k] + (Begin(packs)[k + 1] - Begin(packs)[k] + 1) - 1
    BY <1>1, <1>2, <1>3 DEF Reached
  <2>2. QED
    BY <1>2, <2>1
<1>5. at'[1] = k /\ at'[2] = 0 /\ at' \in (0..Len(packs')) \X Nat /\ ~ (at'[2] > 0)
  BY <1>1, <1>2
<1>6. Reached' = Begin(packs)[k + 1]
  BY <1>1, <1>5 DEF Reached
<1>7. Spans(packs', sequences', Reached') = D
  BY <1>1, <1>4, <1>6
<1>8. On(head, D) /\ Weighted(packs, sequences, head, D) /\ mode \in BackwardModes
  BY DEF LossInv
<1>9. Plus(hidden, accum) = head
  <2>1. CASE mode = "two_stage"
    <3> DEFINE A == {q \in D : q[1] = at[1]}
               H == {q \in D : q[1] # at[1]}
    <3>1. accum = [p \in A |-> head[p]] /\ hidden = [p \in H |-> head[p]]
      BY <1>3, <2>1 DEF LossInv
    <3>2. /\ On(accum, A) /\ On(hidden, H) /\ H \cap A = {} /\ H \cup A = D
          /\ (\A p \in A : accum[p] = head[p]) /\ (\A p \in H : hidden[p] = head[p])
      BY <3>1 DEF On
    <3> HIDE DEF A, H, D
    <3>3. Both(Plus(hidden, accum), hidden, accum, H, A)
      BY <3>2, PlusApart, Zenon
    <3> DEFINE f == Plus(hidden, accum)
    <3>4. On(f, D) /\ \A p \in D : f[p] = head[p]
      BY <3>2, <3>3 DEF Both
    <3> HIDE DEF f
    <3>5. [p \in D |-> f[p]] = [p \in D |-> head[p]]
      BY <3>4
    <3>6. f = head
      BY <1>8, <3>4, <3>5 DEF On, D
    <3>7. QED
      BY <3>6 DEF f
  <2>2. CASE mode # "two_stage"
    <3>1. accum = <<>> /\ hidden = head
      BY <2>2 DEF LossInv, NoGradient
    <3> DEFINE E == {}
    <3>2. On(accum, E) /\ On(head, D) /\ D \cap E = {} /\ D \cup E = D
      <4>1. [p \in E |-> accum[p]] = <<>>
        OBVIOUS
      <4>2. QED
        BY <1>8, <3>1, <4>1 DEF On
    <3> HIDE DEF E, D
    <3>3. Both(Plus(head, accum), head, accum, D, E)
      BY <3>2, PlusApart, Zenon
    <3> DEFINE f == Plus(head, accum)
    <3>4. On(f, D) /\ \A p \in D : f[p] = head[p]
      BY <3>2, <3>3 DEF Both
    <3> HIDE DEF f
    <3>5. [p \in D |-> f[p]] = [p \in D |-> head[p]]
      BY <3>4
    <3>6. f = head
      BY <3>2, <3>4, <3>5 DEF On
    <3>7. QED
      BY <3>1, <3>6 DEF f
  <2>3. QED
    BY <2>1, <2>2
<1>10. hidden' = head' /\ accum' = NoGradient
  BY <1>1, <1>9
<1>11. /\ Laid(packs', sequences') /\ Weighted(packs', sequences', head', D) /\ On(head', D)
       /\ outcome' # "done"
       /\ outcome' \in {"running", "done", "ZeroDivisionError", "RuntimeError"}
       /\ graph' \in {"none", "kept", "freed"} /\ mode' \in BackwardModes
  BY <1>1, <1>2, <1>8
<1>12. QED
  BY <1>5, <1>7, <1>10, <1>11 DEF LossInv

LEMMA LossKeeps ==
  ASSUME LossInv, LossStep, sequences' = sequences
  PROVE  LossInv'
<1>1. CASE Return
  <2>1. /\ at[2] = 0 /\ at[1] = Len(packs) /\ outcome' = "done"
        /\ packs' = packs /\ mode' = mode /\ at' = at /\ offset' = offset /\ graph' = graph /\ accum' = accum
        /\ hidden' = hidden /\ head' = head
    BY <1>1 DEF Return
  <2>2. Reached' = Reached /\ at = <<Len(packs), 0>>
    BY <2>1, LossFacts DEF Reached
  <2>3. QED
    BY <2>1, <2>2 DEF LossInv
<1>2. CASE LossRaises
  <2>1. /\ outcome' \in {"ZeroDivisionError", "RuntimeError"}
        /\ packs' = packs /\ mode' = mode /\ at' = at /\ offset' = offset /\ graph' = graph /\ accum' = accum
        /\ hidden' = hidden /\ head' = head
    BY <1>2 DEF LossRaises
  <2>2. Reached' = Reached /\ outcome' # "done"
    BY <2>1 DEF Reached
  <2>3. QED
    BY <2>1, <2>2 DEF LossInv
<1>3. QED
  BY <1>1, <1>2, ForwardKeeps, EndPackKeeps, SampleKeeps DEF LossStep

LEMMA LossStays ==
  ASSUME LossInv, UNCHANGED lossVars, sequences' = sequences
  PROVE  LossInv'
<1>1. /\ packs' = packs /\ mode' = mode /\ at' = at /\ offset' = offset /\ graph' = graph /\ accum' = accum
      /\ hidden' = hidden /\ head' = head /\ outcome' = outcome
  BY DEF lossVars
<1>2. Reached' = Reached
  BY <1>1 DEF Reached
<1>3. QED
  BY <1>1, <1>2 DEF LossInv

\* A step of the training begins with packs laid, nothing reached.
LEMMA LossBegins ==
  ASSUME sequences' \in Seq(SeqType), LossBegin(sequences'), mode \in BackwardModes
  PROVE  LossInv'
<1>1. /\ packs' = PackSequences(sequences') /\ at' = <<0, 0>> /\ graph' = "none"
      /\ accum' = NoGradient /\ hidden' = NoGradient /\ head' = NoGradient /\ outcome' = "running" /\ mode' = mode
  BY DEF LossBegin
<1>2. Laid(packs', sequences')
  BY <1>1, PackSequencesLaid
<1>3. Len(packs') \in Nat /\ Begin(packs')[1] = 0
  BY <1>2, LaidFacts
<1>4. at'[1] = 0 /\ at'[2] = 0 /\ at' \in (0..Len(packs')) \X Nat /\ ~ (at'[2] > 0)
  BY <1>1, <1>3
<1>5. Reached' = 0
  BY <1>3, <1>4 DEF Reached
<1>6. Spans(packs', sequences', Reached') = {}
  BY <1>2, <1>5, NoSpans
<1>7. On(head', {}) /\ Weighted(packs', sequences', head', {})
  BY <1>1 DEF On, Weighted, NoGradient
<1>8. QED
  BY <1>1, <1>2, <1>4, <1>6, <1>7 DEF LossInv

LEMMA InitLoss ==
  ASSUME Init
  PROVE  LossInv
<1>1. /\ packs = <<>> /\ sequences = <<>> /\ at = <<0, 0>> /\ graph = "none" /\ mode \in BackwardModes
      /\ accum = NoGradient /\ hidden = NoGradient /\ head = NoGradient /\ outcome = "done"
  BY DEF Init, LossInit
<1>2. Begin(<<>>) = [k \in 1..0 + 1 |-> 0]
  <2>1. \A k \in 1..0 + 1 : SeqsBefore(<<>>, k) = 0
    <3>1. \A k \in 1..0 + 1 : k - 1 = 0
      OBVIOUS
    <3>2. QED
      BY <3>1, SumNext DEF SeqsBefore
  <2>2. Len(<<>>) = 0
    OBVIOUS
  <2>3. QED
    BY <2>1, <2>2 DEF Begin
<1>3. Laid(packs, sequences)
  <2>1. <<>> \in Seq(PackType) /\ <<>> \in Seq(SeqType) /\ Len(<<>>) = 0 /\ 1..0 = {}
    OBVIOUS
  <2>2. Begin(<<>>) \in [1..0 + 1 -> 0..0] /\ Begin(<<>>)[1] = 0 /\ Begin(<<>>)[0 + 1] = 0
    BY <1>2
  <2>3. QED
    BY <1>1, <2>1, <2>2 DEF Laid, PackedAt
<1>4. Len(packs) = 0 /\ Begin(packs)[1] = 0
  BY <1>1, <1>2
<1>5. at[1] = 0 /\ at[2] = 0 /\ at \in (0..Len(packs)) \X Nat /\ ~ (at[2] > 0) /\ at = <<Len(packs), 0>>
  BY <1>1, <1>4
<1>6. Reached = 0
  BY <1>4, <1>5 DEF Reached
<1>7. Spans(packs, sequences, Reached) = {}
  BY <1>3, <1>6, NoSpans
<1>8. On(head, {}) /\ Weighted(packs, sequences, head, {})
  BY <1>1 DEF On, Weighted, NoGradient
<1>9. QED
  BY <1>1, <1>3, <1>5, <1>7, <1>8 DEF LossInv

-----------------------------------------------------------------------------
(***************************************************************************)
(* The invariant of the training                                           *)
(***************************************************************************)
\* The state of the loss, and the size of the batch.
Trained ==
  /\ LossInv /\ Visited
  /\ stage \in {"eval", "train", "raised"} /\ step \in 0..MaxSteps
  /\ Len(batch) \in {0, GenerationBatchSize}

\* The sequences of a step are prompts of examples and responses to them.
LEMMA StepSequences ==
  ASSUME Visited, BeginStep
  PROVE  sequences' \in Seq(SeqType) /\ Len(batch') = GenerationBatchSize
<1> DEFINE s == Shard(rank)
           b == Batch(s, GenerationBatchSize, step + 1)
           n == GenerationBatchSize
<1>1. stage = "train" /\ batch' = b
  BY DEF BeginStep
<1>2. rank \in World /\ step \in Nat /\ MinShardLen # 0
  BY <1>1 DEF Visited
<1>3. Once(s, Row) /\ Len(s) \in Nat \ {0} /\ n \in Nat \ {0}
  <2>1. Once(s, Row) /\ Len(s) = MinShardLen /\ MinShardLen \in Nat
    BY <1>2, ShardFacts
  <2>2. QED
    BY <1>2, <2>1, DataAssumption
<1> HIDE DEF s, n
<1>4. PICK a \in Nat : a = step * n
  BY <1>2, <1>3
<1>5. (step + 1) - 1 = step
  BY <1>2
<1>6. b = [i \in 1..n |-> s[(((a % Len(s)) + i - 1) % Len(s)) + 1]]
  BY <1>4, <1>5 DEF Batch, n
<1> HIDE DEF b
<1>7. ASSUME NEW i \in 1..n PROVE b[i] \in Row
  <2>1. a % Len(s) \in 0..Len(s) - 1
    BY <1>3, <1>4, QuotientAndRest
  <2>2. PICK e \in Nat : e = (a % Len(s)) + i - 1
    BY <1>3, <2>1
  <2>3. e % Len(s) \in 0..Len(s) - 1
    BY <1>3, QuotientAndRest
  <2>4. (e % Len(s)) + 1 \in 1..Len(s)
    BY <1>3, <2>3
  <2>5. b[i] = s[(e % Len(s)) + 1]
    BY <1>6, <2>2
  <2>6. QED
    BY <1>3, <2>4, <2>5 DEF Once
<1>8. DOMAIN b = 1..n /\ Len(b) = n
  BY <1>3, <1>6
<1>9. PICK responses \in [1..n -> 0..MaxResponse] :
        sequences' = [i \in 1..n |-> [prompt |-> PromptTokens(b[i]), response |-> responses[i]]]
  BY <1>1, <1>8 DEF BeginStep
<1>10. \A i \in 1..n : sequences'[i] \in SeqType
  <2>1. SUFFICES ASSUME NEW i \in 1..n PROVE sequences'[i] \in SeqType
    OBVIOUS
  <2>2. PromptTokens(b[i]) \in Nat \ {0}
    BY <1>7, DataAssumption DEF Row
  <2>3. responses[i] \in Nat
    BY <1>9, DataAssumption
  <2>4. QED
    BY <1>9, <2>2, <2>3 DEF SeqType
<1>11. sequences' \in Seq(SeqType)
  BY <1>3, <1>9, <1>10
<1>12. QED
  BY <1>1, <1>8, <1>11 DEF n

LEMMA InitTrained == Init => Trained
<1> SUFFICES ASSUME Init PROVE Trained
  OBVIOUS
<1>1. LossInv /\ Visited
  BY InitLoss, InitVisited
<1>2. stage \in {"eval", "raised"} /\ step = 0 /\ batch = <<>>
  BY DEF Init
<1>3. Len(batch) = 0 /\ step \in 0..MaxSteps
  BY <1>2, DataAssumption
<1>4. QED
  BY <1>1, <1>2, <1>3 DEF Trained

LEMMA NextTrained == Trained /\ [Next]_vars => Trained'
<1> SUFFICES ASSUME Trained, [Next]_vars PROVE Trained'
  OBVIOUS
<1>1. Visited' /\ Visited /\ LossInv
  BY NextVisited DEF Trained
<1>2. ASSUME UNCHANGED lossVars, sequences' = sequences, stage' \in {"eval", "train", "raised"},
             step' = step, batch' = batch
      PROVE  Trained'
  BY <1>1, <1>2, LossStays DEF Trained
<1>3. CASE Evaluate
  BY <1>2, <1>3 DEF Evaluate, dataVars, Trained
<1>4. CASE EndEval
  <2>1. stage' = "train"
    BY <1>4 DEF EndEval
  <2>2. QED
    BY <1>2, <1>4, <2>1 DEF EndEval
<1>5. CASE BeginStep
  <2>1. LossBegin(sequences') /\ step < MaxSteps /\ step' = step + 1 /\ stage' = stage
    BY <1>5 DEF BeginStep
  <2>2. sequences' \in Seq(SeqType) /\ Len(batch') = GenerationBatchSize /\ mode \in BackwardModes
    BY <1>1, <1>5, StepSequences DEF LossInv
  <2>3. LossInv'
    BY <2>1, <2>2, LossBegins
  <2>4. step' \in 0..MaxSteps
    BY <2>1, DataAssumption DEF Trained
  <2>5. QED
    BY <1>1, <2>1, <2>2, <2>3, <2>4 DEF Trained
<1>6. CASE Loss
  <2>1. LossStep /\ sequences' = sequences /\ stage' = stage /\ step' = step /\ batch' = batch
    BY <1>6 DEF Loss, dataVars
  <2>2. LossInv'
    BY <1>1, <2>1, LossKeeps
  <2>3. QED
    BY <1>1, <2>1, <2>2 DEF Trained
<1>7. CASE Stopped \/ UNCHANGED vars
  BY <1>2, <1>7 DEF Stopped, vars, dataVars, Trained
<1>8. QED
  BY <1>3, <1>4, <1>5, <1>6, <1>7 DEF Next

LEMMA AlwaysTrained == Spec => []Trained
BY InitTrained, NextTrained, PTL DEF Spec

-----------------------------------------------------------------------------
(***************************************************************************)
(* Theorems                                                                *)
(***************************************************************************)
\* Whatever is limited, split off, filtered or sharded: no example that is
\* evaluated is trained on, and two ranks train on as many, different ones.
THEOREM NothingHeldOutIsTrainedOn == Spec => []HeldOut
<1>1. Visited => HeldOut
  <2> SUFFICES ASSUME Visited PROVE HeldOut
    OBVIOUS
  <2>1. ASSUME NEW x \in DOMAIN visits, visits[x] > 0
        PROVE  x \in Range(Shard(rank)) /\ x \notin Range(ValidationExamples) \cup Range(TestExamples)
    <3>1. x \in Row /\ visits[x] # 0
      BY <2>1 DEF Visited
    <3>2. stage = "train" /\ x \in Range(Shard(rank)) /\ rank \in World /\ ~ SplitRaises(Loaded, ValidationSize)
      BY <3>1 DEF Visited
    <3>3. PICK k \in 1..MinShardLen : x = Shard(rank)[k]
      BY <3>2, ShardFacts DEF Range, Once
    <3>4. /\ rank + (k - 1) * Workers + 1 \in 1..Len(TrainExamples)
          /\ x = TrainExamples[rank + (k - 1) * Workers + 1]
      BY <3>2, <3>3, ShardFacts
    <3>5. QED
      BY <3>2, <3>4, TrainOnce
  <2>2. \A r, q \in World : Len(Shard(r)) = Len(Shard(q))
    BY ShardFacts
  <2>3. QED
    BY <2>1, <2>2, ShardsApart DEF HeldOut
<1>2. QED
  BY <1>1, AlwaysVisited, PTL

\* A rank goes round its shard: at any step, for any batch size, no example
\* of it has been trained on twice more than another.
THEOREM ShardGoneRoundEvenly == Spec => []EvenVisits
<1>1. Visited => EvenVisits
  <2> SUFFICES ASSUME Visited, stage = "train", NEW x \in Range(Shard(rank)), NEW y \in Range(Shard(rank))
               PROVE  visits[x] <= visits[y] + 1
    BY DEF EvenVisits
  <2>1. rank \in World /\ EvenAt(visits, Shard(rank), step * GenerationBatchSize)
    BY DEF Visited
  <2>2. Shard(rank) \in Seq(Row)
    BY <2>1, ShardFacts DEF Once
  <2>3. PICK i \in 1..Len(Shard(rank)), j \in 1..Len(Shard(rank)) : x = Shard(rank)[i] /\ y = Shard(rank)[j]
    BY <2>2 DEF Range
  <2>4. PICK q \in Nat, m \in 0..Len(Shard(rank)) - 1 :
          \A p \in 1..Len(Shard(rank)) : visits[Shard(rank)[p]] = q + (IF p <= m THEN 1 ELSE 0)
    BY <2>1 DEF EvenAt
  <2>5. visits[x] \in {q, q + 1} /\ visits[y] \in {q, q + 1}
    BY <2>3, <2>4
  <2>6. QED
    BY <2>5
<1>2. QED
  BY <1>1, AlwaysVisited, PTL

\* Whatever the lengths of the prompts and responses, the limit and the
\* bucket, the packs of every step are those of pack_sequences: they hold the
\* batch in order and nothing else, and end only where they must.
THEOREM BatchesPackedGreedily == Spec => []PacksAreGreedy
<1>1. Trained => PacksAreGreedy
  BY CutIsGreedy DEF Trained, LossInv, Laid, PacksAreGreedy
<1>2. QED
  BY <1>1, AlwaysTrained, PTL

\* Whatever the packs, the chunks and the way of going backward: when the loss
\* returns, a position has had one gradient if it predicts a token of a
\* response or comes after the last one, the same in both places and weighted
\* by the response tokens of the batch, and none otherwise.
THEOREM EveryResponseWeighted == Spec => []ResponsesWeighted
<1>1. Trained => ResponsesWeighted
  <2> SUFFICES ASSUME Trained, outcome = "done" PROVE ResponsesWeighted
    BY DEF ResponsesWeighted
  <2> DEFINE all == ResponseTokens(sequences)
             asked == UNION {{<<k, n>> : n \in {m \in 0..Len(packs[k].input_ids) - 1 :
                                                  LET t == packs[k].input_ids[m + 1]
                                                  IN t # PadToken /\ t[2] >= sequences[t[1]].prompt}} :
                             k \in DOMAIN packs}
             D == Spans(packs, sequences, Len(sequences))
  <2>1. LossInv /\ Laid(packs, sequences) /\ at = <<Len(packs), 0>>
    BY DEF Trained, LossInv
  <2>2. Reached = Len(sequences) /\ at[2] = 0
    BY <2>1, LaidFacts DEF Reached
  <2>3. On(head, D) /\ Weighted(packs, sequences, head, D) /\ hidden = head
    BY <2>1, <2>2 DEF LossInv
  <2>4. D = {p \in Places(packs) : TokenAt(packs, p) # PadToken
                                   /\ TokenAt(packs, p)[2] >= sequences[TokenAt(packs, p)[1]].prompt}
    BY <2>1, AllSpans
  <2>5. DOMAIN packs = 1..Len(packs)
    BY <2>1, LaidFacts
  <2>6. asked = D
    <3> DEFINE Asks(k, m) == LET t == packs[k].input_ids[m + 1]
                             IN t # PadToken /\ t[2] >= sequences[t[1]].prompt
    <3>1. asked = UNION {{<<k, n>> : n \in {m \in 0..Len(packs[k].input_ids) - 1 : Asks(k, m)}} : k \in 1..Len(packs)}
      BY <2>5
    <3>2. D = {p \in Places(packs) : Asks(p[1], p[2])}
      BY <2>4 DEF TokenAt
    <3> HIDE DEF Asks, D, asked
    <3>3. QED
      BY <3>1, <3>2 DEF Places
  <2>7. DOMAIN head = D
    <3>1. DOMAIN [p \in D |-> head[p]] = D
      OBVIOUS
    <3>2. QED
      BY <2>3, <3>1 DEF On
  <2>8. ASSUME NEW p \in D
        PROVE  LET s == sequences[packs[p[1]].input_ids[p[2] + 1][1]]
               IN /\ Len(head[p]) = 1 /\ head[p][1][2] > 0
                  /\ head[p][1][1] * (s.response + 1) * all = s.response * head[p][1][2]
    <3> DEFINE s == sequences[packs[p[1]].input_ids[p[2] + 1][1]]
    <3>1. Share(sequences, packs[p[1]].input_ids[p[2] + 1][1], head[p])
      BY <2>3 DEF Weighted, TokenAt
    <3>2. PICK c \in Nat \ {0} :
            /\ all \in Nat \ {0}
            /\ head[p] = << <<c * s.response, c * (s.response + 1) * all>> >>
      BY <3>1 DEF Share
    <3>3. s \in SeqType
      <4>1. InSpans(packs, sequences, Len(sequences), p)
        BY DEF Spans
      <4>2. PICK k \in 1..Len(packs) : \E i \in Begin(packs)[k] + 1..Begin(packs)[k + 1] :
              i <= Len(sequences) /\ p \in Span(packs, sequences, k, i)
        BY <4>1 DEF InSpans
      <4>3. PICK i \in Begin(packs)[k] + 1..Begin(packs)[k + 1] : p \in Span(packs, sequences, k, i)
        BY <4>2
      <4>4. TokenAt(packs, p)[1] = i
        BY <2>1, <4>3, SpanFacts
      <4>5. i \in 1..Len(sequences) /\ sequences \in Seq(SeqType)
        BY <2>1, <4>3, LaidFacts
      <4>6. QED
        BY <4>4, <4>5 DEF TokenAt
    <3> HIDE DEF s, all, D
    <3>4. s.response \in Nat
      BY <3>3 DEF SeqType
    <3>5. PICK r \in Nat : r = s.response
      BY <3>4
    <3>6. PICK t \in Nat \ {0} : t = all
      BY <3>2
    <3>7. (c * r) * (r + 1) * t = r * (c * (r + 1) * t) /\ c * (r + 1) * t > 0
      <4>1. PICK u \in Nat : u = (r + 1) * t /\ u > 0
        OBVIOUS
      <4>2. (c * r) * (r + 1) * t = (c * r) * u /\ c * (r + 1) * t = c * u
        BY <4>1
      <4>3. (c * r) * u = r * (c * u) /\ c * u > 0
        BY <4>1
      <4>4. QED
        BY <4>2, <4>3
    <3>8. Len(head[p]) = 1 /\ head[p][1][1] = c * r /\ head[p][1][2] = c * (r + 1) * t
      BY <3>2, <3>5, <3>6
    <3>9. QED
      BY <3>5, <3>6, <3>7, <3>8 DEF s
  <2> HIDE DEF all, D
  <2>9. QED
    BY <2>3, <2>6, <2>7, <2>8 DEF ResponsesWeighted, all
<1>2. QED
  BY <1>1, AlwaysTrained, PTL

\* The state of the training is well formed for every batch and any packs: the
\* loops stay inside the packs, and no gradient is outside of them.
THEOREM TrainingWellFormed == Spec => []TypeOK
<1>1. Trained => TypeOK
  <2> SUFFICES ASSUME Trained PROVE TypeOK
    OBVIOUS
  <2> DEFINE D == Spans(packs, sequences, Reached)
  <2>1. LossInv /\ Visited
    BY DEF Trained
  <2>2. /\ stage \in {"eval", "train", "raised"} /\ rank \in World /\ step \in 0..MaxSteps
        /\ Len(batch) \in {0, GenerationBatchSize}
    BY DEF Trained, Visited
  <2>3. /\ outcome \in {"running", "done", "ZeroDivisionError", "RuntimeError"}
        /\ graph \in {"none", "kept", "freed"} /\ mode \in BackwardModes
        /\ at[2] > 0 => at[2] <= Len(packs[at[1]].seqs) + 1
    BY <2>1 DEF LossInv
  <2>4. at[1] \in 0..Len(packs) /\ Laid(packs, sequences) /\ at[2] \in Nat
    BY <2>1, LossFacts
  <2>5. ASSUME NEW p \in D
        PROVE  p[1] \in DOMAIN packs /\ p[2] < Len(packs[p[1]].input_ids)
    <3>1. p \in Places(packs)
      BY DEF Spans
    <3>2. packs \in Seq(PackType) /\ DOMAIN packs = 1..Len(packs)
      BY <2>4, LaidFacts
    <3>3. PICK k \in 1..Len(packs) : \E n \in 0..Len(packs[k].input_ids) - 1 : p = <<k, n>>
      BY <3>1 DEF Places
    <3>4. PICK n \in 0..Len(packs[k].input_ids) - 1 : p = <<k, n>>
      BY <3>3
    <3>5. Len(packs[k].input_ids) \in Nat
      BY <3>2 DEF PackType
    <3>6. QED
      BY <3>2, <3>4, <3>5
  <2>6. DOMAIN head = D
    <3>1. DOMAIN [p \in D |-> head[p]] = D
      OBVIOUS
    <3>2. On(head, D)
      BY <2>1 DEF LossInv
    <3>3. QED
      BY <3>1, <3>2 DEF On
  <2>7. DOMAIN hidden \subseteq D
    <3>1. CASE at[2] = 0 \/ mode # "two_stage"
      BY <2>1, <2>6, <3>1 DEF LossInv
    <3>2. CASE ~ (at[2] = 0 \/ mode # "two_stage")
      <4>1. at[2] > 0 /\ mode = "two_stage"
        BY <2>4, <3>2
      <4>2. hidden = [p \in {q \in D : q[1] # at[1]} |-> head[p]]
        BY <2>1, <4>1 DEF LossInv
      <4> HIDE DEF D
      <4>3. QED
        BY <4>2
    <3>3. QED
      BY <3>1, <3>2
  <2> HIDE DEF D
  <2>8. QED
    BY <2>2, <2>3, <2>4, <2>5, <2>6, <2>7 DEF TypeOK
<1>2. QED
  BY <1>1, AlwaysTrained, PTL
=============================================================================
