------------------------------ MODULE Zero2Proofs ------------------------------
(***************************************************************************)
(* The optimizers, for every model and number of ranks.  First the         *)
(* geometry of the flat buffer: the parameters lie one after the other and *)
(* cover it but for the padding, and the shards partition it.  Then what   *)
(* the operations of the optimizers make of one model that the ranks hold  *)
(* together.                                                               *)
(***************************************************************************)
EXTENDS Zero2, NumberLemmas, FiniteSetTheorems, SequenceTheorems

-----------------------------------------------------------------------------
(***************************************************************************)
(* Sums                                                                    *)
(***************************************************************************)
\* f is the sums of the first elements of s, up to n of them.
SumsUpTo(f, s, n) == f = [k \in 0..n |-> IF k = 0 THEN 0 ELSE f[k - 1] + s[k]]

LEMMA SumsExist ==
  ASSUME NEW s, NEW n \in Nat
  PROVE  \E f : SumsUpTo(f, s, n)
<1> DEFINE S == {k \in Nat : \E f : SumsUpTo(f, s, k)}
<1>1. 0 \in S
  <2>1. SumsUpTo([k \in 0..0 |-> 0], s, 0)
    BY DEF SumsUpTo
  <2>2. QED
    BY <2>1
<1>2. ASSUME NEW k \in Nat, k \in S
      PROVE  k + 1 \in S
  <2>1. PICK f : SumsUpTo(f, s, k)
    BY <1>2
  <2>2. SumsUpTo([j \in 0..k + 1 |-> IF j = k + 1 THEN f[k] + s[k + 1] ELSE f[j]], s, k + 1)
    BY <2>1 DEF SumsUpTo
  <2>3. QED
    BY <2>2
<1> HIDE DEF S
<1>3. n \in S
  BY <1>1, <1>2, SetInduction
<1>4. QED
  BY <1>3 DEF S

\* The sums of two sequences that agree agree.
LEMMA SumsAgree ==
  ASSUME NEW s, NEW t, NEW n \in Nat, NEW m \in Nat, NEW f, NEW g,
         SumsUpTo(f, s, n), SumsUpTo(g, t, m),
         NEW k \in Nat, k <= n, k <= m, \A j \in 1..k : s[j] = t[j]
  PROVE  f[k] = g[k]
<1> DEFINE S == {j \in Nat : j <= k => f[j] = g[j]}
<1>1. 0 \in S
  BY DEF SumsUpTo
<1>2. ASSUME NEW j \in Nat, j \in S
      PROVE  j + 1 \in S
  <2>1. SUFFICES ASSUME j + 1 <= k PROVE f[j + 1] = g[j + 1]
    OBVIOUS
  <2>2. f[j] = g[j] /\ s[j + 1] = t[j + 1]
    BY <1>2, <2>1
  <2>3. f[j + 1] = f[j] + s[j + 1] /\ g[j + 1] = g[j] + t[j + 1]
    BY <2>1 DEF SumsUpTo
  <2>4. QED
    BY <2>2, <2>3
<1> HIDE DEF S
<1>3. k \in S
  BY <1>1, <1>2, SetInduction
<1>4. QED
  BY <1>3 DEF S

\* Total is the last of the sums, and the sums of natural numbers grow.
LEMMA PrefixSums ==
  ASSUME NEW s \in Seq(Nat)
  PROVE  \E f \in [0..Len(s) -> Nat] :
           /\ f[0] = 0
           /\ \A k \in 1..Len(s) : f[k] = f[k - 1] + s[k]
           /\ \A k \in 0..Len(s) : Total(SubSeq(s, 1, k)) = f[k]
           /\ Total(s) = f[Len(s)]
<1>1. Len(s) \in Nat
  OBVIOUS
<1>2. PICK f : SumsUpTo(f, s, Len(s))
  BY <1>1, SumsExist
<1>3. /\ f[0] = 0
      /\ \A k \in 1..Len(s) : f[k] = f[k - 1] + s[k]
  BY <1>1, <1>2 DEF SumsUpTo
<1>4. ASSUME NEW t \in Seq(Nat), Len(t) <= Len(s), \A j \in 1..Len(t) : t[j] = s[j]
      PROVE  Total(t) = f[Len(t)]
  <2> DEFINE g == CHOOSE g : SumsUpTo(g, t, Len(t))
  <2>1. Len(t) \in Nat
    OBVIOUS
  <2>2. SumsUpTo(g, t, Len(t))
    BY <2>1, SumsExist
  <2>3. Total(t) = g[Len(t)]
    BY DEF Total, SumsUpTo
  <2> HIDE DEF g
  <2>4. g[Len(t)] = f[Len(t)]
    BY <1>1, <1>2, <1>4, <2>1, <2>2, SumsAgree
  <2>5. QED
    BY <2>3, <2>4
<1>5. ASSUME NEW k \in 0..Len(s)
      PROVE  Total(SubSeq(s, 1, k)) = f[k]
  <2> DEFINE t == SubSeq(s, 1, k)
  <2>1. t \in Seq(Nat) /\ Len(t) = k
    BY <1>1
  <2>2. \A j \in 1..k : t[j] = s[j]
    BY <1>1
  <2> HIDE DEF t
  <2>3. Total(t) = f[Len(t)]
    BY <1>1, <1>4, <2>1, <2>2
  <2>4. QED
    BY <2>1, <2>3 DEF t
<1>6. Total(s) = f[Len(s)]
  BY <1>1, <1>4
<1>7. f \in [0..Len(s) -> Nat]
  <2> DEFINE S == {k \in Nat : k <= Len(s) => f[k] \in Nat}
  <2>1. 0 \in S
    BY <1>3
  <2>2. ASSUME NEW k \in Nat, k \in S
        PROVE  k + 1 \in S
    BY <1>1, <1>3, <2>2
  <2> HIDE DEF S
  <2>3. Nat \subseteq S
    BY <2>1, <2>2, SetInduction
  <2>4. \A k \in 0..Len(s) : f[k] \in Nat
    BY <1>1, <2>3 DEF S
  <2>5. QED
    BY <1>2, <2>4 DEF SumsUpTo
<1>8. QED
  BY <1>3, <1>5, <1>6, <1>7

-----------------------------------------------------------------------------
(***************************************************************************)
(* Parameters                                                              *)
(***************************************************************************)
\* A sum of sizes is at least each of them.
LEMMA TotalType ==
  ASSUME NEW s \in Seq(Nat)
  PROVE  /\ Total(s) \in Nat
         /\ \A i \in DOMAIN s : Total(SubSeq(s, 1, i - 1)) + s[i] <= Total(s)
<1>1. PICK f \in [0..Len(s) -> Nat] :
        /\ f[0] = 0
        /\ \A k \in 1..Len(s) : f[k] = f[k - 1] + s[k]
        /\ \A k \in 0..Len(s) : Total(SubSeq(s, 1, k)) = f[k]
        /\ Total(s) = f[Len(s)]
  BY PrefixSums
<1>2. Len(s) \in Nat /\ DOMAIN s = 1..Len(s) /\ \A k \in 0..Len(s) : f[k] \in Nat
  OBVIOUS
<1>3. Total(s) \in Nat
  BY <1>1, <1>2
<1>4. ASSUME NEW i \in 1..Len(s)
      PROVE  f[i] <= f[Len(s)]
  <2> DEFINE S == {k \in Nat : i + k <= Len(s) => f[i] <= f[i + k]}
  <2>0. i \in 0..Len(s) /\ i + 0 = i
    BY <1>2
  <2>1. 0 \in S
    BY <1>2, <2>0
  <2>2. ASSUME NEW k \in Nat, k \in S
        PROVE  k + 1 \in S
    <3>1. SUFFICES ASSUME i + (k + 1) <= Len(s) PROVE f[i] <= f[i + (k + 1)]
      OBVIOUS
    <3>2. i + (k + 1) \in 1..Len(s) /\ i + k \in 0..Len(s) /\ (i + (k + 1)) - 1 = i + k /\ i + k <= Len(s)
      BY <1>2, <3>1
    <3>3. f[i + (k + 1)] = f[i + k] + s[i + (k + 1)]
      BY <1>1, <3>2
    <3>4. f[i + k] \in Nat /\ s[i + (k + 1)] \in Nat /\ f[i] \in Nat
      BY <1>2, <2>0, <3>2
    <3>5. f[i] <= f[i + k]
      BY <2>2, <3>2
    <3>6. PICK a \in Nat, b \in Nat, c \in Nat, d \in Nat :
            a = f[i] /\ b = f[i + k] /\ c = s[i + (k + 1)] /\ d = f[i + (k + 1)]
      BY <1>2, <3>2, <3>4
    <3>7. d = b + c /\ a <= b
      BY <3>3, <3>5, <3>6, Zenon
    <3>8. a <= d
      BY <3>7
    <3>9. QED
      BY <3>6, <3>8, Zenon
  <2> HIDE DEF S
  <2>3. Nat \subseteq S
    BY <2>1, <2>2, SetInduction
  <2>4. Len(s) - i \in Nat /\ i + (Len(s) - i) = Len(s) /\ Len(s) <= Len(s)
    BY <1>2
  <2>5. Len(s) - i \in S
    BY <2>3, <2>4
  <2>6. i + (Len(s) - i) <= Len(s) => f[i] <= f[i + (Len(s) - i)]
    BY <2>5 DEF S
  <2>7. QED
    BY <2>4, <2>6
<1>5. ASSUME NEW i \in 1..Len(s)
      PROVE  Total(SubSeq(s, 1, i - 1)) + s[i] <= Total(s)
  <2>1. i - 1 \in 0..Len(s)
    BY <1>2
  <2>2. Total(SubSeq(s, 1, i - 1)) = f[i - 1] /\ f[i] = f[i - 1] + s[i]
    BY <1>1, <2>1
  <2>3. QED
    BY <1>1, <1>4, <2>2
<1>6. QED
  BY <1>2, <1>3, <1>5

\* A position below the sum of sizes lies in exactly one of the blocks of
\* these sizes laid one after the other.
LEMMA BlocksCover ==
  ASSUME NEW s \in Seq(Nat), NEW e \in Nat, e < Total(s)
  PROVE  \E i \in DOMAIN s : /\ Total(SubSeq(s, 1, i - 1)) <= e
                             /\ e < Total(SubSeq(s, 1, i - 1)) + s[i]
<1>1. PICK f \in [0..Len(s) -> Nat] :
        /\ f[0] = 0
        /\ \A k \in 1..Len(s) : f[k] = f[k - 1] + s[k]
        /\ \A k \in 0..Len(s) : Total(SubSeq(s, 1, k)) = f[k]
        /\ Total(s) = f[Len(s)]
  BY PrefixSums
<1>2. Len(s) \in Nat /\ DOMAIN s = 1..Len(s)
  OBVIOUS
<1> DEFINE Beyond == {k \in 0..Len(s) : e < f[k]}
<1>3. PICK i \in Beyond : \A j \in Beyond : i <= j
  <2>1. Len(s) \in Beyond
    BY <1>1, <1>2
  <2>2. Beyond \in SUBSET Nat
    BY <1>2
  <2> HIDE DEF Beyond
  <2>3. QED
    BY <2>1, <2>2, LeastNumber
<1>4. i \in 1..Len(s)
  BY <1>1, <1>2
<1>5. i - 1 \in 0..Len(s) /\ f[i - 1] <= e
  <2>1. i - 1 \in 0..Len(s)
    BY <1>2, <1>4
  <2>2. i - 1 \notin Beyond
    BY <1>3, <1>4
  <2>3. f[i - 1] \in Nat
    BY <2>1
  <2>4. ~ (e < f[i - 1])
    BY <2>1, <2>2
  <2>5. QED
    BY <2>1, <2>3, <2>4
<1>6. Total(SubSeq(s, 1, i - 1)) = f[i - 1] /\ f[i] = f[i - 1] + s[i]
  BY <1>1, <1>4, <1>5
<1>7. QED
  BY <1>2, <1>4, <1>5, <1>6

LEMMA BlocksDisjoint ==
  ASSUME NEW s \in Seq(Nat), NEW i \in DOMAIN s, NEW j \in DOMAIN s, i < j
  PROVE  Total(SubSeq(s, 1, i - 1)) + s[i] <= Total(SubSeq(s, 1, j - 1))
<1> DEFINE t == SubSeq(s, 1, j - 1)
<1>0. i \in 1..Len(s) /\ j \in 1..Len(s) /\ Len(s) \in Nat
  OBVIOUS
<1>1. t \in Seq(Nat) /\ DOMAIN t = 1..j - 1 /\ i \in DOMAIN t /\ t[i] = s[i]
  <2>1. t \in Seq(Nat) /\ Len(t) = j - 1
    BY <1>0
  <2>2. i \in 1..j - 1
    BY <1>0
  <2>3. t[i] = s[i]
    BY <1>0, <2>2
  <2> HIDE DEF t
  <2>4. DOMAIN t = 1..j - 1
    BY <2>1
  <2>5. QED
    BY <2>1, <2>2, <2>3, <2>4
<1>2. SubSeq(t, 1, i - 1) = SubSeq(s, 1, i - 1)
  BY <1>0
<1> HIDE DEF t
<1>3. Total(SubSeq(t, 1, i - 1)) + t[i] <= Total(t)
  BY <1>1, TotalType
<1>4. QED
  BY <1>1, <1>2, <1>3 DEF t

\* Every parameter has rows, and lies within the buffer.
LEMMA NumelType ==
  /\ Param = 1..Len(Parts) /\ Len(Parts) \in Nat \ {0}
  /\ Numel \in Seq(Nat) /\ DOMAIN Numel = Param
  /\ \A i \in Param : Parts[i] \in Seq(Nat) /\ Len(Parts[i]) \in Nat \ {0} /\ Numel[i] = Total(Parts[i])
  /\ \A i \in Param : Numel[i] \in Nat \ {0}
<1>1. Param = 1..Len(Parts) /\ Len(Parts) \in Nat \ {0}
  BY PartsAssumption DEF Param
<1>2. ASSUME NEW i \in Param
      PROVE  Parts[i] \in Seq(Nat \ {0}) /\ Len(Parts[i]) \in Nat \ {0}
  BY <1>1, PartsAssumption DEF Param
<1>3. ASSUME NEW i \in Param
      PROVE  Parts[i] \in Seq(Nat)
  BY <1>2
<1>4. ASSUME NEW i \in Param
      PROVE  Total(Parts[i]) \in Nat \ {0}
  <2>1. 1 \in DOMAIN Parts[i] /\ Parts[i][1] \in Nat \ {0}
    BY <1>2
  <2>2. SubSeq(Parts[i], 1, 1 - 1) \in Seq(Nat)
    BY <1>3
  <2>3. /\ Total(Parts[i]) \in Nat /\ Total(SubSeq(Parts[i], 1, 1 - 1)) \in Nat
        /\ Total(SubSeq(Parts[i], 1, 1 - 1)) + Parts[i][1] <= Total(Parts[i])
    BY <1>3, <2>1, <2>2, TotalType
  <2>4. QED
    BY <2>1, <2>3
<1>5. Numel = [i \in 1..Len(Parts) |-> Total(Parts[i])]
  BY <1>1 DEF Numel
<1>6. \A i \in 1..Len(Parts) : Total(Parts[i]) \in Nat
  BY <1>1, <1>4
<1>7. Numel \in Seq(Nat) /\ DOMAIN Numel = Param
  BY <1>1, <1>5, <1>6
<1>8. QED
  BY <1>1, <1>2, <1>3, <1>4, <1>5, <1>7

LEMMA OffsetType ==
  /\ TotalNumel \in Nat \ {0}
  /\ \A i \in Param : Offset(i) \in Nat /\ Offset(i) + Numel[i] <= TotalNumel
  /\ Real = 0..TotalNumel - 1
<1>1. /\ Numel \in Seq(Nat) /\ DOMAIN Numel = Param /\ 1 \in Param
      /\ \A i \in Param : i \in Nat /\ Numel[i] \in Nat \ {0}
  BY NumelType
<1>2. ASSUME NEW i \in Param
      PROVE  /\ Offset(i) \in Nat
             /\ Offset(i) + Numel[i] <= TotalNumel
  <2>1. SubSeq(Numel, 1, i - 1) \in Seq(Nat)
    BY <1>1
  <2>2. QED
    BY <1>1, <2>1, TotalType DEF Offset, TotalNumel
<1>3. TotalNumel \in Nat
  BY <1>1, TotalType DEF TotalNumel
<1>4. QED
  BY <1>1, <1>2, <1>3 DEF Real

\* The rows of a parameter.
RowsOf(i) == Offset(i)..Offset(i) + Numel[i] - 1

\* ParamOf finds the parameter a position belongs to.
LEMMA ParamOfIs ==
  /\ \A e \in Real : ParamOf(e) \in Param /\ e \in RowsOf(ParamOf(e))
  /\ \A i \in Param : \A e \in RowsOf(i) : e \in Real /\ ParamOf(e) = i
<1>1. /\ Numel \in Seq(Nat) /\ DOMAIN Numel = Param
      /\ \A i \in Param : i \in Nat /\ Numel[i] \in Nat /\ Offset(i) \in Nat
                          /\ Offset(i) + Numel[i] <= TotalNumel
      /\ TotalNumel \in Nat /\ Real = 0..TotalNumel - 1
  BY NumelType, OffsetType
<1>2. ASSUME NEW i \in Param, NEW j \in Param, NEW e \in Int,
             Offset(i) <= e, e < Offset(i) + Numel[i], Offset(j) <= e, e < Offset(j) + Numel[j]
      PROVE  i = j
  <2>1. i < j => Offset(i) + Numel[i] <= Offset(j)
    BY <1>1, BlocksDisjoint DEF Offset
  <2>2. j < i => Offset(j) + Numel[j] <= Offset(i)
    BY <1>1, BlocksDisjoint DEF Offset
  <2>3. i \in Int /\ j \in Int /\ Offset(i) \in Int /\ Offset(j) \in Int /\ Numel[i] \in Int /\ Numel[j] \in Int
    BY <1>1
  <2>4. ~ (i < j) /\ ~ (j < i)
    BY <1>2, <2>1, <2>2, <2>3
  <2>5. QED
    BY <2>3, <2>4
<1>3. ASSUME NEW e \in Real
      PROVE  \E i \in Param : Offset(i) <= e /\ e < Offset(i) + Numel[i]
  <2>1. e \in Nat /\ e < Total(Numel)
    BY <1>1 DEF TotalNumel
  <2>2. QED
    BY <1>1, <2>1, BlocksCover DEF Offset
<1>4. ASSUME NEW e \in Real
      PROVE  ParamOf(e) \in Param /\ e \in RowsOf(ParamOf(e))
  <2>1. ParamOf(e) \in Param /\ Offset(ParamOf(e)) <= e /\ e < Offset(ParamOf(e)) + Numel[ParamOf(e)]
    BY <1>3 DEF ParamOf
  <2>2. QED
    BY <1>1, <2>1 DEF RowsOf
<1>5. ASSUME NEW i \in Param, NEW e \in RowsOf(i)
      PROVE  e \in Real /\ ParamOf(e) = i
  <2>1. e \in Real /\ e \in Int /\ Offset(i) <= e /\ e < Offset(i) + Numel[i]
    BY <1>1 DEF RowsOf
  <2>2. ParamOf(e) \in Param /\ Offset(ParamOf(e)) <= e /\ e < Offset(ParamOf(e)) + Numel[ParamOf(e)]
    BY <2>1 DEF ParamOf
  <2>3. QED
    BY <1>2, <2>1, <2>2
<1>6. QED
  BY <1>4, <1>5

-----------------------------------------------------------------------------
(***************************************************************************)
(* Sequences laid one after the other                                      *)
(***************************************************************************)
FlattensUpTo(g, seqs, n) ==
  g = [i \in 1..n |-> IF i = 1 THEN seqs[i] ELSE g[i - 1] \o seqs[i]]

LEMMA FlattensExist ==
  ASSUME NEW seqs, NEW n \in Nat
  PROVE  \E g : FlattensUpTo(g, seqs, n)
<1> DEFINE S == {k \in Nat : \E g : FlattensUpTo(g, seqs, k)}
<1>1. 0 \in S
  <2>1. FlattensUpTo([i \in 1..0 |-> 0], seqs, 0)
    BY DEF FlattensUpTo
  <2>2. QED
    BY <2>1
<1>2. ASSUME NEW k \in Nat, k \in S
      PROVE  k + 1 \in S
  <2>1. PICK g : FlattensUpTo(g, seqs, k)
    BY <1>2
  <2> DEFINE h == [j \in 1..k + 1 |->
                     IF j = k + 1 THEN (IF k = 0 THEN seqs[1] ELSE g[k] \o seqs[k + 1]) ELSE g[j]]
  <2>2. FlattensUpTo(h, seqs, k + 1)
    <3>1. ASSUME NEW i \in 1..k + 1
          PROVE  h[i] = IF i = 1 THEN seqs[i] ELSE h[i - 1] \o seqs[i]
      <4>1. CASE i = k + 1 /\ k = 0
        BY <4>1
      <4>2. CASE i = k + 1 /\ k # 0
        <5>1. k \in 1..k + 1 /\ k # k + 1 /\ k + 1 \in 1..k + 1 /\ (k + 1) - 1 = k /\ k + 1 # 1
          BY <4>2
        <5>2. h[k] = g[k] /\ h[k + 1] = g[k] \o seqs[k + 1]
          BY <4>2, <5>1
        <5> HIDE DEF h
        <5>3. QED
          BY <4>2, <5>1, <5>2
      <4>3. CASE i # k + 1
        <5>1. i \in 1..k /\ h[i] = g[i] /\ (i # 1 => i - 1 \in 1..k + 1 /\ h[i - 1] = g[i - 1])
          BY <4>3
        <5>2. g[i] = IF i = 1 THEN seqs[i] ELSE g[i - 1] \o seqs[i]
          BY <2>1, <5>1 DEF FlattensUpTo
        <5>3. QED
          BY <5>1, <5>2
      <4>4. QED
        BY <4>1, <4>2, <4>3
    <3> HIDE DEF h
    <3>2. h = [i \in 1..k + 1 |-> h[i]]
      BY DEF h
    <3>3. QED
      BY <3>1, <3>2 DEF FlattensUpTo
  <2> HIDE DEF h
  <2>3. QED
    BY <2>2
<1> HIDE DEF S
<1>3. n \in S
  BY <1>1, <1>2, SetInduction
<1>4. QED
  BY <1>3 DEF S

\* Beginnings of beginnings.
LEMMA Beginnings ==
  ASSUME NEW s \in Seq(Nat), NEW n \in 1..Len(s), NEW i \in 1..n
  PROVE  /\ SubSeq(s, 1, n) \in Seq(Nat) /\ i \in DOMAIN SubSeq(s, 1, n)
         /\ SubSeq(s, 1, n)[i] = s[i]
         /\ SubSeq(SubSeq(s, 1, n), 1, i - 1) = SubSeq(s, 1, i - 1)
<1> DEFINE t == SubSeq(s, 1, n)
<1>1. t \in Seq(Nat) /\ Len(t) = n /\ DOMAIN t = 1..n /\ \A j \in 1..n : t[j] = s[j]
  OBVIOUS
<1> HIDE DEF t
<1>2. i - 1 \in 0..n /\ n \in Nat /\ Len(s) \in Nat /\ n <= Len(s)
  OBVIOUS
<1>3. SubSeq(t, 1, i - 1) = SubSeq(s, 1, i - 1)
  BY <1>1, <1>2
<1>4. QED
  BY <1>1, <1>3 DEF t

\* An element of the second of two sequences, in their concatenation.
LEMMA BehindPosition ==
  ASSUME NEW x \in Nat, NEW y \in Nat, NEW j \in 1..y
  PROVE  x + j \in 1..x + y /\ ~ (x + j <= x) /\ (x + j) - x = j
OBVIOUS

LEMMA BehindIndex ==
  ASSUME NEW X, NEW h \in Seq(X), NEW b \in Seq(X), NEW j \in 1..Len(b)
  PROVE  (h \o b)[Len(h) + j] = b[j]
<1>1. Len(h) \in Nat /\ Len(b) \in Nat
  OBVIOUS
<1>2. Len(h) + j \in 1..Len(h) + Len(b) /\ ~ (Len(h) + j <= Len(h)) /\ (Len(h) + j) - Len(h) = j
  BY <1>1, BehindPosition
<1>3. (h \o b)[Len(h) + j] = IF Len(h) + j <= Len(h) THEN h[Len(h) + j] ELSE b[(Len(h) + j) - Len(h)]
  BY <1>2, ConcatProperties, Zenon
<1>4. (h \o b)[Len(h) + j] = b[(Len(h) + j) - Len(h)]
  BY <1>2, <1>3, Zenon
<1>5. QED
  BY <1>2, <1>4, Zenon

\* h has the elements of the first n of the sequences at the sums f of their
\* sizes.
LaidOut(h, seqs, sizes, f, n) ==
  /\ Len(h) = f[n]
  /\ \A i \in 1..n : \A k \in 1..sizes[i] : h[f[i - 1] + k] = seqs[i][k]

LEMMA LaidOutNext ==
  ASSUME NEW X, NEW seqs, NEW sizes, NEW n \in Nat, NEW f \in [0..n + 1 -> Nat],
         \A i \in 1..n + 1 : sizes[i] \in Nat /\ f[i] = f[i - 1] + sizes[i] /\ f[i] <= f[n + 1],
         \A i \in 1..n : f[i] <= f[n],
         NEW h \in Seq(X), LaidOut(h, seqs, sizes, f, n),
         NEW b \in Seq(X), b = seqs[n + 1], Len(b) = sizes[n + 1]
  PROVE  LaidOut(h \o b, seqs, sizes, f, n + 1)
<1>1. /\ Len(h \o b) = Len(h) + Len(b)
      /\ \A j \in 1..Len(h) : (h \o b)[j] = h[j]
      /\ \A j \in 1..Len(b) : (h \o b)[Len(h) + j] = b[j]
  <2>1. Len(h \o b) = Len(h) + Len(b)
    OBVIOUS
  <2>2. \A j \in 1..Len(h) : (h \o b)[j] = h[j]
    OBVIOUS
  <2>3. ASSUME NEW j \in 1..Len(b)
        PROVE  (h \o b)[Len(h) + j] = b[j]
    BY ONLY BehindIndex, h \in Seq(X), b \in Seq(X), j \in 1..Len(b)
  <2>4. QED
    BY <2>1, <2>2, <2>3
<1> DEFINE c == h \o b
<1> HIDE DEF c
<1>2. /\ Len(c) = Len(h) + Len(b) /\ Len(h) = f[n] /\ f[n] \in Nat /\ f[n + 1] \in Nat
      /\ \A j \in 1..Len(h) : c[j] = h[j]
      /\ \A j \in 1..Len(b) : c[Len(h) + j] = b[j]
  BY <1>1 DEF c, LaidOut
<1>3. n + 1 \in 1..n + 1 /\ (n + 1) - 1 = n
  OBVIOUS
<1>4. f[n + 1] = f[n] + sizes[n + 1]
  BY <1>3
<1>5. ASSUME NEW i \in 1..n + 1, NEW k \in 1..sizes[i]
      PROVE  c[f[i - 1] + k] = seqs[i][k]
  <2>1. CASE i = n + 1
    BY <1>2, <1>3, <2>1
  <2>2. CASE i # n + 1
    <3>1. i \in 1..n /\ i - 1 \in 0..n + 1
      <4>1. i \in Nat /\ 1 <= i /\ i <= n + 1
        OBVIOUS
      <4>2. QED
        BY <2>2, <4>1
    <3>2. f[i - 1] \in Nat /\ sizes[i] \in Nat /\ f[i - 1] + sizes[i] <= f[n]
      BY <3>1
    <3>3. f[i - 1] + k \in 1..f[n]
      <4> DEFINE x == f[i - 1]
                 y == sizes[i]
                 z == f[n]
      <4>1. x \in Nat /\ y \in Nat /\ z \in Nat /\ x + y <= z /\ k \in 1..y
        BY <1>2, <3>2
      <4> HIDE DEF x, y, z
      <4>2. x + k \in 1..z
        BY <4>1
      <4>3. QED
        BY <4>2 DEF x, z
    <3>4. h[f[i - 1] + k] = seqs[i][k]
      BY <3>1 DEF LaidOut
    <3>5. QED
      BY <1>2, <3>3, <3>4
  <2>3. QED
    BY <2>1, <2>2
<1>6. QED
  BY <1>2, <1>4, <1>5 DEF LaidOut, c

\* FlattenSeq has the elements of the sequences at the sums of their lengths.
LEMMA Flattened ==
  ASSUME NEW X, NEW seqs \in Seq(Seq(X)), Len(seqs) > 0,
         NEW sizes \in Seq(Nat), Len(sizes) = Len(seqs), \A i \in DOMAIN seqs : sizes[i] = Len(seqs[i])
  PROVE  /\ FlattenSeq(seqs) \in Seq(X)
         /\ Len(FlattenSeq(seqs)) = Total(sizes)
         /\ \A i \in DOMAIN seqs : \A k \in 1..sizes[i] :
              FlattenSeq(seqs)[Total(SubSeq(sizes, 1, i - 1)) + k] = seqs[i][k]
<1>1. Len(seqs) \in Nat \ {0} /\ DOMAIN seqs = 1..Len(seqs)
  OBVIOUS
<1>2. PICK f \in [0..Len(sizes) -> Nat] :
        /\ f[0] = 0
        /\ \A k \in 1..Len(sizes) : f[k] = f[k - 1] + sizes[k]
        /\ \A k \in 0..Len(sizes) : Total(SubSeq(sizes, 1, k)) = f[k]
        /\ Total(sizes) = f[Len(sizes)]
  BY PrefixSums
<1> DEFINE g == CHOOSE g : FlattensUpTo(g, seqs, Len(seqs))
<1>3. FlattensUpTo(g, seqs, Len(seqs))
  BY <1>1, FlattensExist
<1>4. FlattenSeq(seqs) = g[Len(seqs)]
  BY <1>1 DEF FlattenSeq, FlattensUpTo
<1> HIDE DEF g
<1>5. \A i \in 1..Len(seqs) : /\ f[i - 1] \in Nat /\ f[i] \in Nat /\ sizes[i] \in Nat
                               /\ seqs[i] \in Seq(X) /\ sizes[i] = Len(seqs[i])
                               /\ f[i] = f[i - 1] + sizes[i]
  <2> TAKE i \in 1..Len(seqs)
  <2>1. i - 1 \in 0..Len(sizes) /\ i \in 0..Len(sizes) /\ i \in 1..Len(sizes) /\ i \in DOMAIN seqs
    BY <1>1
  <2>2. f[i - 1] \in Nat /\ f[i] \in Nat
    BY <2>1
  <2>3. seqs[i] \in Seq(X) /\ sizes[i] \in Nat
    BY <2>1
  <2>4. f[i] = f[i - 1] + sizes[i]
    BY <1>2, <2>1
  <2>5. QED
    BY <2>1, <2>2, <2>3, <2>4
<1>6. ASSUME NEW n \in 1..Len(seqs), NEW i \in 1..n
      PROVE  f[i] <= f[n]
  <2>1. /\ SubSeq(sizes, 1, n) \in Seq(Nat) /\ i \in DOMAIN SubSeq(sizes, 1, n)
        /\ SubSeq(sizes, 1, n)[i] = sizes[i]
        /\ SubSeq(SubSeq(sizes, 1, n), 1, i - 1) = SubSeq(sizes, 1, i - 1)
    BY Beginnings
  <2>2. Total(SubSeq(sizes, 1, i - 1)) + sizes[i] <= Total(SubSeq(sizes, 1, n))
    BY <2>1, TotalType
  <2>3. i - 1 \in 0..Len(sizes) /\ n \in 0..Len(sizes) /\ i \in 1..Len(sizes)
    BY <1>1
  <2>4. Total(SubSeq(sizes, 1, i - 1)) = f[i - 1] /\ Total(SubSeq(sizes, 1, n)) = f[n]
    BY <1>2, <2>3
  <2>5. QED
    BY <1>5, <2>2, <2>3, <2>4
<1> DEFINE S == {n \in Nat : n \in 1..Len(seqs) => g[n] \in Seq(X) /\ LaidOut(g[n], seqs, sizes, f, n)}
<1>7. 0 \in S
  OBVIOUS
<1>8. ASSUME NEW n \in Nat, n \in S
      PROVE  n + 1 \in S
  <2>1. SUFFICES ASSUME n + 1 \in 1..Len(seqs)
                 PROVE  g[n + 1] \in Seq(X) /\ LaidOut(g[n + 1], seqs, sizes, f, n + 1)
    OBVIOUS
  <2>2. CASE n = 0
    <3>1. g[1] = seqs[1]
      BY <1>1, <1>3 DEF FlattensUpTo
    <3>2. 1 \in 1..Len(seqs) /\ f[1] = sizes[1] /\ f[0] = 0 /\ 1 - 1 = 0
      BY <1>1, <1>2, <1>5
    <3>3. g[1] \in Seq(X) /\ Len(g[1]) = f[1]
      BY <1>5, <3>1, <3>2
    <3>4. \A i \in 1..1 : \A k \in 1..sizes[i] : g[1][f[i - 1] + k] = seqs[i][k]
      BY <1>5, <3>1, <3>2
    <3>5. QED
      BY <2>2, <3>3, <3>4 DEF LaidOut
  <2>3. CASE n # 0
    <3>1. n \in 1..Len(seqs) /\ g[n] \in Seq(X) /\ LaidOut(g[n], seqs, sizes, f, n)
      BY <1>8, <2>1, <2>3
    <3>2. g[n + 1] = g[n] \o seqs[n + 1]
      <4>1. n + 1 # 1 /\ (n + 1) - 1 = n
        BY <2>3
      <4>2. QED
        BY <1>3, <2>1, <4>1 DEF FlattensUpTo
    <3>3. /\ \A i \in 1..n : f[i] <= f[n]
          /\ \A i \in 1..n + 1 : sizes[i] \in Nat /\ f[i] = f[i - 1] + sizes[i] /\ f[i] <= f[n + 1]
      <4>1. \A i \in 1..n : f[i] <= f[n]
        BY <1>6, <3>1
      <4>2. \A i \in 1..n + 1 : f[i] <= f[n + 1]
        BY <1>6, <2>1
      <4>3. \A i \in 1..n + 1 : i \in 1..Len(seqs)
        BY <1>1, <2>1
      <4>4. QED
        BY <1>5, <4>1, <4>2, <4>3
    <3>4. seqs[n + 1] \in Seq(X) /\ Len(seqs[n + 1]) = sizes[n + 1]
      BY <1>5, <2>1
    <3> DEFINE e == [k \in 0..n + 1 |-> f[k]]
    <3>5. \A k \in 0..n + 1 : e[k] = f[k] /\ f[k] \in Nat
      <4>1. \A k \in 0..n + 1 : k \in 0..Len(sizes)
        BY <1>1, <2>1
      <4>2. QED
        BY <4>1
    <3>6. e \in [0..n + 1 -> Nat]
      BY <3>5
    <3> HIDE DEF e, S
    <3>7. LaidOut(g[n] \o seqs[n + 1], seqs, sizes, e, n + 1)
      <4>1. /\ \A i \in 1..n + 1 : e[i] = f[i] /\ e[i - 1] = f[i - 1]
            /\ e[n] = f[n] /\ e[n + 1] = f[n + 1] /\ \A i \in 1..n : e[i] = f[i] /\ e[i - 1] = f[i - 1]
        BY <3>5
      <4>2. LaidOut(g[n], seqs, sizes, e, n)
        BY <3>1, <4>1 DEF LaidOut
      <4>3. \A i \in 1..n + 1 : sizes[i] \in Nat /\ e[i] = e[i - 1] + sizes[i] /\ e[i] <= e[n + 1]
        BY <3>3, <4>1
      <4>4. \A i \in 1..n : e[i] <= e[n]
        BY <3>3, <4>1
      <4>5. QED
        BY <3>1, <3>4, <3>6, <4>2, <4>3, <4>4, LaidOutNext
    <3>8. LaidOut(g[n + 1], seqs, sizes, f, n + 1)
      <4>1. /\ \A i \in 1..n + 1 : e[i - 1] = f[i - 1]
            /\ e[n + 1] = f[n + 1]
        BY <3>5
      <4>2. QED
        BY <3>2, <3>7, <4>1 DEF LaidOut
    <3>9. g[n + 1] \in Seq(X)
      BY <3>1, <3>2, <3>4
    <3>10. QED
      BY <3>8, <3>9
  <2>4. QED
    BY <2>2, <2>3
<1> HIDE DEF S
<1>9. Nat \subseteq S
  BY <1>7, <1>8, SetInduction
<1>10. g[Len(seqs)] \in Seq(X) /\ LaidOut(g[Len(seqs)], seqs, sizes, f, Len(seqs))
  BY <1>1, <1>9 DEF S
<1>11. ASSUME NEW i \in 1..Len(seqs), NEW k \in 1..sizes[i]
       PROVE  FlattenSeq(seqs)[Total(SubSeq(sizes, 1, i - 1)) + k] = seqs[i][k]
  <2>1. i - 1 \in 0..Len(sizes)
    BY <1>1
  <2>2. Total(SubSeq(sizes, 1, i - 1)) = f[i - 1]
    BY <1>2, <2>1
  <2>3. QED
    BY <1>4, <1>10, <2>2 DEF LaidOut
<1>12. QED
  BY <1>1, <1>2, <1>4, <1>10, <1>11 DEF LaidOut

-----------------------------------------------------------------------------
(***************************************************************************)
(* Shards                                                                  *)
(***************************************************************************)
Padded == 0..PaddedNumel - 1

\* The shards have the same size, and the padding is at the end.
LEMMA ShardType ==
  /\ ShardSize \in Nat \ {0}
  /\ PaddedNumel \in Nat /\ TotalNumel <= PaddedNumel
  /\ Real \subseteq Padded
<1>1. TotalNumel \in Nat \ {0} /\ Real = 0..TotalNumel - 1
  BY OffsetType
<1>2. WorldSize \in Nat /\ WorldSize > 1
  BY WorldAssumption
<1> DEFINE a == TotalNumel + WorldSize - 1
           q == a \div WorldSize
           m == a % WorldSize
<1>3. a \in Nat /\ q \in Int /\ m \in 0..WorldSize - 1 /\ a = WorldSize * q + m
  BY <1>1, <1>2
<1>4. q > 0
  <2>1. a >= WorldSize
    BY <1>1, <1>2
  <2> HIDE DEF a, q, m
  <2>2. ASSUME q <= 0 PROVE FALSE
    <3>1. WorldSize * q <= 0
      BY <1>2, <1>3, <2>2
    <3>2. QED
      BY <1>2, <1>3, <2>1, <3>1
  <2>3. QED
    BY <1>3, <2>2
<1>5. ShardSize = q /\ PaddedNumel = WorldSize * q
  BY <1>2, <1>3 DEF ShardSize, PaddedNumel
<1>6. WorldSize * q = a - m /\ a - m >= TotalNumel
  BY <1>1, <1>2, <1>3
<1> HIDE DEF a, q, m
<1>7. PaddedNumel \in Nat /\ TotalNumel <= PaddedNumel
  BY <1>1, <1>3, <1>5, <1>6
<1>8. QED
  BY <1>1, <1>3, <1>4, <1>5, <1>7 DEF Padded

\* Position j of the shard of a rank, and where a position of the buffer is.
LEMMA ShardPlaces ==
  /\ \A r \in Rank : \A j \in 0..ShardSize - 1 :
       /\ r * ShardSize + j \in Padded
       /\ (r * ShardSize + j) \div ShardSize = r
       /\ (r * ShardSize + j) % ShardSize = j
  /\ \A e \in Padded :
       /\ e \div ShardSize \in Rank
       /\ e % ShardSize \in 0..ShardSize - 1
       /\ (e \div ShardSize) * ShardSize + (e % ShardSize) = e
<1>1. ShardSize \in Nat \ {0} /\ PaddedNumel = ShardSize * WorldSize /\ PaddedNumel \in Nat
  BY ShardType DEF PaddedNumel
<1>2. WorldSize \in Nat /\ Rank = 0..WorldSize - 1
  BY WorldAssumption DEF Rank
<1>3. ASSUME NEW r \in Rank, NEW j \in 0..ShardSize - 1
      PROVE  /\ r * ShardSize + j \in Padded
             /\ (r * ShardSize + j) \div ShardSize = r
             /\ (r * ShardSize + j) % ShardSize = j
  <2>1. r \in Int /\ 0 <= r /\ r + 1 <= WorldSize /\ j \in Int /\ 0 <= j /\ j < ShardSize
    BY <1>1, <1>2
  <2>2. (r + 1) * ShardSize <= WorldSize * ShardSize
    BY <1>1, <1>2, <2>1
  <2>3. (r + 1) * ShardSize = r * ShardSize + ShardSize /\ WorldSize * ShardSize = PaddedNumel
        /\ r * ShardSize \in Int /\ 0 <= r * ShardSize
    BY <1>1, <1>2, <2>1
  <2>4. r * ShardSize + j \in Padded
    BY <1>1, <2>1, <2>2, <2>3 DEF Padded
  <2>5. (r * ShardSize + j) \div ShardSize = r /\ (r * ShardSize + j) % ShardSize = j
    BY <1>1, <2>1
  <2>6. QED
    BY <2>4, <2>5
<1>4. ASSUME NEW e \in Padded
      PROVE  /\ e \div ShardSize \in Rank
             /\ e % ShardSize \in 0..ShardSize - 1
             /\ (e \div ShardSize) * ShardSize + (e % ShardSize) = e
  <2> DEFINE q == e \div ShardSize
             m == e % ShardSize
  <2>1. e \in Int /\ 0 <= e /\ e < WorldSize * ShardSize
    BY <1>1, <1>2 DEF Padded
  <2>2. q \in Int /\ m \in 0..ShardSize - 1 /\ e = ShardSize * q + m
    BY <1>1, <2>1
  <2> HIDE DEF q, m
  <2>3. ASSUME q < 0 PROVE FALSE
    <3>1. ShardSize * q <= ShardSize * (-1)
      BY <1>1, <2>2, <2>3
    <3>2. QED
      BY <1>1, <2>1, <2>2, <3>1
  <2>4. ASSUME q >= WorldSize PROVE FALSE
    <3>1. ShardSize * q >= ShardSize * WorldSize
      BY <1>1, <1>2, <2>2, <2>4
    <3>2. QED
      BY <1>1, <1>2, <2>1, <2>2, <3>1
  <2>5. q \in Rank
    BY <1>2, <2>2, <2>3, <2>4
  <2>6. q * ShardSize + m = e
    BY <1>1, <2>2
  <2>7. QED
    BY <2>2, <2>5, <2>6 DEF q, m
<1>5. QED
  BY <1>3, <1>4

-----------------------------------------------------------------------------
(***************************************************************************)
(* Checkpoints                                                             *)
(***************************************************************************)
\* Where a part of a parameter starts within it.
Within(i, p) == Total(SubSeq(Parts[i], 1, p - 1))

LEMMA PartPlaces ==
  ASSUME NEW i \in Param
  PROVE  /\ \A p \in DOMAIN Parts[i] :
              /\ <<i, p>> \in Name
              /\ Parts[i][p] \in Nat \ {0} /\ PartSize(<<i, p>>) = Parts[i][p]
              /\ Within(i, p) \in Nat /\ Within(i, p) + Parts[i][p] <= Numel[i]
              /\ PartOffset(<<i, p>>) = Offset(i) + Within(i, p)
         /\ \A k \in 1..Numel[i] :
              \E p \in DOMAIN Parts[i] : \E j \in 1..Parts[i][p] : k = Within(i, p) + j
<1>1. /\ Parts[i] \in Seq(Nat) /\ Len(Parts[i]) \in Nat \ {0} /\ Numel[i] = Total(Parts[i])
      /\ Numel[i] \in Nat
  BY NumelType
<1>2. Parts[i] \in Seq(Nat \ {0})
  BY PartsAssumption DEF Param
<1>3. ASSUME NEW p \in DOMAIN Parts[i]
      PROVE  /\ <<i, p>> \in Name
             /\ Parts[i][p] \in Nat \ {0} /\ PartSize(<<i, p>>) = Parts[i][p]
             /\ Within(i, p) \in Nat /\ Within(i, p) + Parts[i][p] <= Numel[i]
             /\ PartOffset(<<i, p>>) = Offset(i) + Within(i, p)
  <2>1. SubSeq(Parts[i], 1, p - 1) \in Seq(Nat)
    BY <1>1
  <2>2. Within(i, p) \in Nat /\ Within(i, p) + Parts[i][p] <= Numel[i]
    BY <1>1, <2>1, TotalType DEF Within
  <2>3. Parts[i][p] \in Nat \ {0}
    BY <1>2
  <2>4. <<i, p>> \in Name
    BY DEF Name
  <2>5. PartSize(<<i, p>>) = Parts[i][p] /\ PartOffset(<<i, p>>) = Offset(i) + Within(i, p)
    BY DEF PartSize, PartOffset, Within
  <2>6. QED
    BY <2>2, <2>3, <2>4, <2>5
<1>4. ASSUME NEW k \in 1..Numel[i]
      PROVE  \E p \in DOMAIN Parts[i] : \E j \in 1..Parts[i][p] : k = Within(i, p) + j
  <2>1. k - 1 \in Nat /\ k - 1 < Total(Parts[i])
    BY <1>1
  <2>2. PICK p \in DOMAIN Parts[i] : Within(i, p) <= k - 1 /\ k - 1 < Within(i, p) + Parts[i][p]
    BY <1>1, <2>1, BlocksCover DEF Within
  <2>3. Within(i, p) \in Nat /\ Parts[i][p] \in Nat /\ k \in Nat
    <3>1. k \in Nat
      BY <1>1
    <3>2. Within(i, p) \in Nat /\ Parts[i][p] \in Nat
      BY <1>3
    <3>3. QED
      BY <3>1, <3>2
  <2> DEFINE j == k - Within(i, p)
  <2>4. j \in 1..Parts[i][p] /\ k = Within(i, p) + j
    BY <2>2, <2>3
  <2>5. QED
    BY <2>4
<1>5. QED
  BY <1>3, <1>4

\* A fused parameter has the rows of its parts one after the other.
LEMMA Fused ==
  ASSUME NEW X, NEW checkpoint, \A n \in Name : checkpoint[n] \in Seq(X) /\ Len(checkpoint[n]) = PartSize(n),
         NEW i \in Param
  PROVE  /\ Fuse(checkpoint)[i] \in Seq(X) /\ Len(Fuse(checkpoint)[i]) = Numel[i]
         /\ \A p \in DOMAIN Parts[i] : \A j \in 1..Parts[i][p] :
              Fuse(checkpoint)[i][Within(i, p) + j] = checkpoint[<<i, p>>][j]
<1> DEFINE seqs == [p \in DOMAIN Parts[i] |-> checkpoint[<<i, p>>]]
<1>1. Parts[i] \in Seq(Nat) /\ Len(Parts[i]) \in Nat \ {0} /\ Numel[i] = Total(Parts[i])
  BY NumelType
<1>2. DOMAIN Parts[i] = 1..Len(Parts[i])
  BY <1>1
<1>3. \A p \in DOMAIN Parts[i] : checkpoint[<<i, p>>] \in Seq(X) /\ Len(checkpoint[<<i, p>>]) = Parts[i][p]
  BY PartPlaces
<1>4. seqs \in Seq(Seq(X)) /\ Len(seqs) = Len(Parts[i])
  BY <1>1, <1>2, <1>3
<1>5. \A p \in DOMAIN seqs : Parts[i][p] = Len(seqs[p]) /\ seqs[p] = checkpoint[<<i, p>>]
  BY <1>3
<1>6. DOMAIN seqs = DOMAIN Parts[i]
  OBVIOUS
<1>7. Fuse(checkpoint)[i] = FlattenSeq(seqs)
  BY DEF Fuse
<1> HIDE DEF seqs
<1>8. /\ FlattenSeq(seqs) \in Seq(X)
      /\ Len(FlattenSeq(seqs)) = Total(Parts[i])
      /\ \A p \in DOMAIN seqs : \A k \in 1..Parts[i][p] :
           FlattenSeq(seqs)[Total(SubSeq(Parts[i], 1, p - 1)) + k] = seqs[p][k]
  <2>1. Len(seqs) > 0 /\ Len(Parts[i]) = Len(seqs) /\ \A p \in DOMAIN seqs : Parts[i][p] = Len(seqs[p])
    <3>1. Len(Parts[i]) = Len(seqs)
      BY <1>4
    <3>2. Len(Parts[i]) > 0
      BY <1>1
    <3>3. \A p \in DOMAIN seqs : Parts[i][p] = Len(seqs[p])
      BY <1>5
    <3>4. QED
      BY <3>1, <3>2, <3>3
  <2> DEFINE sizes == Parts[i]
  <2>2. sizes \in Seq(Nat) /\ Len(sizes) = Len(seqs) /\ \A p \in DOMAIN seqs : sizes[p] = Len(seqs[p])
    BY <1>1, <2>1
  <2> HIDE DEF sizes
  <2>3. /\ FlattenSeq(seqs) \in Seq(X)
        /\ Len(FlattenSeq(seqs)) = Total(sizes)
        /\ \A p \in DOMAIN seqs : \A k \in 1..sizes[p] :
             FlattenSeq(seqs)[Total(SubSeq(sizes, 1, p - 1)) + k] = seqs[p][k]
    BY <1>4, <2>1, <2>2, Flattened
  <2>4. QED
    BY <2>3 DEF sizes
<1>9. QED
  BY <1>1, <1>5, <1>6, <1>7, <1>8 DEF Within

\* The buffer starts with every position as it was loaded, then zeros.
LEMMA InitialFlatIs ==
  /\ InitialFlat = [e \in Padded |-> InitialFlat[e]]
  /\ \A e \in Real : InitialFlat[e] = {<<e, -1, 0, 0, 0>>}
  /\ \A e \in Padded \ Real : InitialFlat[e] = {}
<1>1. /\ InitialFlat = [e \in Padded |-> InitialFlat[e]]
      /\ \A e \in Padded \ Real : InitialFlat[e] = {}
      /\ \A e \in Real : InitialFlat[e] = Fuse(Pretrained)[ParamOf(e)][e - Offset(ParamOf(e)) + 1]
  BY ShardType DEF InitialFlat, Padded
<1> DEFINE X == {{<<e, -1, 0, 0, 0>>} : e \in Int}
<1>2. ASSUME NEW n \in Name
      PROVE  Pretrained[n] \in Seq(X) /\ Len(Pretrained[n]) = PartSize(n)
  <2>1. PICK i \in Param : \E p \in DOMAIN Parts[i] : n = <<i, p>>
    BY DEF Name
  <2>2. PICK p \in DOMAIN Parts[i] : n = <<i, p>>
    BY <2>1
  <2>3. PartSize(n) \in Nat /\ PartOffset(n) \in Nat
    BY <2>2, PartPlaces, OffsetType
  <2>4. \A k \in 1..PartSize(n) : {<<PartOffset(n) + k - 1, -1, 0, 0, 0>>} \in X
    BY <2>3
  <2> HIDE DEF X
  <2>5. Pretrained[n] = [k \in 1..PartSize(n) |-> {<<PartOffset(n) + k - 1, -1, 0, 0, 0>>}]
    BY DEF Pretrained
  <2>6. QED
    BY <2>3, <2>4, <2>5
<1> HIDE DEF X
<1>3. ASSUME NEW e \in Real
      PROVE  InitialFlat[e] = {<<e, -1, 0, 0, 0>>}
  <2> DEFINE i == ParamOf(e)
  <2>1. i \in Param /\ e \in RowsOf(i)
    BY ParamOfIs
  <2>2. Offset(i) \in Nat /\ Numel[i] \in Nat /\ e \in Int /\ Offset(i) <= e /\ e <= Offset(i) + Numel[i] - 1
    BY <2>1, NumelType, OffsetType DEF RowsOf
  <2>3. InitialFlat[e] = Fuse(Pretrained)[i][e - Offset(i) + 1]
    BY <1>1
  <2> HIDE DEF i
  <2>4. e - Offset(i) + 1 \in 1..Numel[i]
    BY <2>2
  <2>5. PICK p \in DOMAIN Parts[i] : \E j \in 1..Parts[i][p] : e - Offset(i) + 1 = Within(i, p) + j
    BY <2>1, <2>4, PartPlaces
  <2>6. PICK j \in 1..Parts[i][p] : e - Offset(i) + 1 = Within(i, p) + j
    BY <2>5
  <2>7. <<i, p>> \in Name /\ PartSize(<<i, p>>) = Parts[i][p] /\ PartOffset(<<i, p>>) = Offset(i) + Within(i, p)
        /\ Within(i, p) \in Nat /\ Parts[i][p] \in Nat
    BY <2>1, PartPlaces
  <2>8. InitialFlat[e] = Pretrained[<<i, p>>][j]
    <3>1. Fuse(Pretrained)[i][Within(i, p) + j] = Pretrained[<<i, p>>][j]
      BY <1>2, <2>1, Fused
    <3>2. QED
      BY <2>3, <2>6, <3>1
  <2>9. Pretrained[<<i, p>>][j] = {<<PartOffset(<<i, p>>) + j - 1, -1, 0, 0, 0>>}
    BY <2>7 DEF Pretrained
  <2>10. PartOffset(<<i, p>>) + j - 1 = e
    BY <2>2, <2>6, <2>7
  <2>11. QED
    BY <2>8, <2>9, <2>10
<1>4. QED
  BY <1>1, <1>3

\* Parameters are sequences of values, each of its size, and this is what
\* the parts of a checkpoint have of them.
AreParams(X, params) == \A i \in Param : params[i] \in Seq(X) /\ Len(params[i]) = Numel[i]

IsPart(params, i, p, part) ==
  /\ Len(part) = Parts[i][p]
  /\ \A j \in 1..Parts[i][p] : part[j] = params[i][Within(i, p) + j]

\* A part of an unfused parameter.
LEMMA Unfused ==
  ASSUME NEW X, NEW params, AreParams(X, params)
  PROVE  \A i \in Param : \A p \in DOMAIN Parts[i] :
           Unfuse(params)[<<i, p>>] \in Seq(X) /\ IsPart(params, i, p, Unfuse(params)[<<i, p>>])
<1>1. ASSUME NEW i \in Param, NEW p \in DOMAIN Parts[i]
      PROVE  Unfuse(params)[<<i, p>>] \in Seq(X) /\ IsPart(params, i, p, Unfuse(params)[<<i, p>>])
  <2>1. /\ <<i, p>> \in Name /\ PartSize(<<i, p>>) = Parts[i][p] /\ Parts[i][p] \in Nat
        /\ Within(i, p) \in Nat /\ Within(i, p) + Parts[i][p] <= Numel[i]
        /\ PartOffset(<<i, p>>) = Offset(i) + Within(i, p) /\ Offset(i) \in Nat /\ Numel[i] \in Nat
    BY PartPlaces, NumelType, OffsetType
  <2>2. PartOffset(<<i, p>>) - Offset(i) = Within(i, p)
    BY <2>1
  <2>3. Unfuse(params)[<<i, p>>] = SubSeq(params[i], Within(i, p) + 1, Within(i, p) + Parts[i][p])
    BY <2>1, <2>2 DEF Unfuse
  <2> DEFINE w == Within(i, p)
             n == Parts[i][p]
             s == params[i]
             t == SubSeq(s, w + 1, w + n)
  <2>4. s \in Seq(X) /\ Len(s) = Numel[i] /\ w \in Nat /\ n \in Nat /\ w + n <= Len(s)
    BY <2>1 DEF AreParams
  <2> HIDE DEF w, n, s
  <2>5. t \in Seq(X) /\ Len(t) = n /\ \A j \in 1..n : t[j] = s[w + j]
    <3>1. t \in Seq(X)
      BY <2>4
    <3>2. Len(t) = n
      BY <2>4
    <3>3. ASSUME NEW j \in 1..n PROVE t[j] = s[w + j]
      <4>1. (w + 1) + j - 1 = w + j /\ j \in 1..(w + n) - (w + 1) + 1
        BY <2>4
      <4>2. QED
        BY <2>4, <4>1
    <3>4. QED
      BY <3>1, <3>2, <3>3
  <2>6. QED
    BY <2>3, <2>5 DEF w, n, s, IsPart
<1>2. QED
  BY <1>1

\* Fusing the parts of a checkpoint gives the parameters it was written from.
LEMMA FuseUnfuse ==
  ASSUME NEW X, NEW params, AreParams(X, params)
  PROVE  Fuse(Unfuse(params)) = [i \in Param |-> params[i]]
<1>1. \A i \in Param : \A p \in DOMAIN Parts[i] :
        Unfuse(params)[<<i, p>>] \in Seq(X) /\ IsPart(params, i, p, Unfuse(params)[<<i, p>>])
  BY Unfused
<1>2. \A n \in Name : Unfuse(params)[n] \in Seq(X) /\ Len(Unfuse(params)[n]) = PartSize(n)
  BY <1>1, PartPlaces DEF Name, IsPart
<1>3. ASSUME NEW i \in Param
      PROVE  Fuse(Unfuse(params))[i] = params[i]
  <2>0. params[i] \in Seq(X) /\ Len(params[i]) = Numel[i]
    BY DEF AreParams
  <2>1. /\ Fuse(Unfuse(params))[i] \in Seq(X) /\ Len(Fuse(Unfuse(params))[i]) = Numel[i]
        /\ \A p \in DOMAIN Parts[i] : \A j \in 1..Parts[i][p] :
             Fuse(Unfuse(params))[i][Within(i, p) + j] = Unfuse(params)[<<i, p>>][j]
    BY <1>2, Fused
  <2>2. \A k \in 1..Numel[i] : Fuse(Unfuse(params))[i][k] = params[i][k]
    <3> TAKE k \in 1..Numel[i]
    <3>1. PICK p \in DOMAIN Parts[i] : \E j \in 1..Parts[i][p] : k = Within(i, p) + j
      BY PartPlaces
    <3>2. PICK j \in 1..Parts[i][p] : k = Within(i, p) + j
      BY <3>1
    <3>3. /\ Fuse(Unfuse(params))[i][Within(i, p) + j] = Unfuse(params)[<<i, p>>][j]
          /\ Unfuse(params)[<<i, p>>][j] = params[i][Within(i, p) + j]
      BY <1>1, <2>1 DEF IsPart
    <3>4. QED
      BY <3>2, <3>3
  <2>3. QED
    BY <2>0, <2>1, <2>2
<1>4. QED
  BY <1>3 DEF Fuse

\* Reading the names of a checkpoint up to some place of an order.
NothingLoaded == [buffer |-> [i \in Param |-> {}], loaded |-> [i \in Param |-> <<>>]]

LoadsUpTo(f, checkpoint, order, n) ==
  f = [k \in 0..n |-> IF k = 0 THEN NothingLoaded ELSE LoadPart(checkpoint, f[k - 1], order[k])]

LEMMA LoadsExist ==
  ASSUME NEW checkpoint, NEW order, NEW n \in Nat
  PROVE  \E f : LoadsUpTo(f, checkpoint, order, n)
<1> DEFINE S == {k \in Nat : \E f : LoadsUpTo(f, checkpoint, order, k)}
<1>1. 0 \in S
  <2>1. LoadsUpTo([k \in 0..0 |-> NothingLoaded], checkpoint, order, 0)
    BY DEF LoadsUpTo
  <2>2. QED
    BY <2>1
<1>2. ASSUME NEW k \in Nat, k \in S
      PROVE  k + 1 \in S
  <2>1. PICK f : LoadsUpTo(f, checkpoint, order, k)
    BY <1>2
  <2>2. LoadsUpTo([j \in 0..k + 1 |-> IF j = k + 1 THEN LoadPart(checkpoint, f[k], order[k + 1]) ELSE f[j]],
                  checkpoint, order, k + 1)
    BY <2>1 DEF LoadsUpTo
  <2>3. QED
    BY <2>2
<1> HIDE DEF S
<1>3. n \in S
  BY <1>1, <1>2, SetInduction
<1>4. QED
  BY <1>3 DEF S

\* The parts of parameter i among the first k names of an order.
Seen(order, k, i) == {p \in DOMAIN Parts[i] : \E j \in 1..k : order[j] = <<i, p>>}

\* A group that has been seen whole is loaded and no longer buffered.
LoadedAt(st, checkpoint, order, k) ==
  /\ st = [buffer |-> [i \in Param |-> st.buffer[i]], loaded |-> [i \in Param |-> st.loaded[i]]]
  /\ \A i \in Param :
       IF Seen(order, k, i) = DOMAIN Parts[i]
       THEN st.buffer[i] = {} /\ st.loaded[i] = Fuse(checkpoint)[i]
       ELSE st.buffer[i] = Seen(order, k, i)

LEMMA LoadPartOn ==
  ASSUME NEW checkpoint, NEW order, NEW k \in Nat, NEW st, LoadedAt(st, checkpoint, order, k),
         NEW i \in Param, NEW p \in DOMAIN Parts[i], order[k + 1] = <<i, p>>,
         \A j \in 1..k : order[j] # order[k + 1]
  PROVE  LoadedAt(LoadPart(checkpoint, st, order[k + 1]), checkpoint, order, k + 1)
<1> DEFINE new == LoadPart(checkpoint, st, order[k + 1])
           arrived == st.buffer[i] \cup {p}
<1>1. p \notin Seen(order, k, i) /\ Seen(order, k, i) # DOMAIN Parts[i]
  BY DEF Seen
<1>2. arrived = Seen(order, k, i) \cup {p}
  BY <1>1 DEF LoadedAt
<1>3. Seen(order, k + 1, i) = arrived
  <2>1. \A j : j \in 1..k + 1 <=> j \in 1..k \/ j = k + 1
    OBVIOUS
  <2>2. \A q : order[k + 1] = <<i, q>> <=> q = p
    OBVIOUS
  <2>3. QED
    BY <1>2, <2>1, <2>2 DEF Seen
<1>4. ASSUME NEW q \in Param, q # i
      PROVE  Seen(order, k + 1, q) = Seen(order, k, q)
  <2>1. \A j : j \in 1..k + 1 <=> j \in 1..k \/ j = k + 1
    OBVIOUS
  <2>2. \A x : order[k + 1] # <<q, x>>
    BY <1>4
  <2>3. QED
    BY <2>1, <2>2 DEF Seen
<1>5. /\ st.buffer = [q \in Param |-> st.buffer[q]] /\ st.loaded = [q \in Param |-> st.loaded[q]]
      /\ st = [buffer |-> st.buffer, loaded |-> st.loaded]
  BY DEF LoadedAt
<1>6. order[k + 1][1] = i /\ order[k + 1][2] = p
  OBVIOUS
<1>7. CASE arrived = DOMAIN Parts[i]
  <2>1. new = [buffer |-> [st.buffer EXCEPT ![i] = {}], loaded |-> [st.loaded EXCEPT ![i] = Fuse(checkpoint)[i]]]
    BY <1>6, <1>7 DEF LoadPart, Fuse
  <2> DEFINE b == [st.buffer EXCEPT ![i] = {}]
             l == [st.loaded EXCEPT ![i] = Fuse(checkpoint)[i]]
  <2>2. b = [q \in Param |-> b[q]] /\ l = [q \in Param |-> l[q]]
    BY <1>5
  <2>3. b[i] = {} /\ l[i] = Fuse(checkpoint)[i]
    BY <1>5
  <2>4. \A q \in Param : q # i => b[q] = st.buffer[q] /\ l[q] = st.loaded[q]
    BY <1>5
  <2> HIDE DEF b, l
  <2>5. new = [buffer |-> b, loaded |-> l]
    BY <2>1 DEF b, l
  <2> HIDE DEF new
  <2>6. new.buffer = b /\ new.loaded = l
    BY <2>5
  <2>7. \A q \in Param :
          IF Seen(order, k + 1, q) = DOMAIN Parts[q]
          THEN new.buffer[q] = {} /\ new.loaded[q] = Fuse(checkpoint)[q]
          ELSE new.buffer[q] = Seen(order, k + 1, q)
    <3> TAKE q \in Param
    <3>1. CASE q = i
      BY <1>3, <1>7, <2>3, <2>6, <3>1
    <3>2. CASE q # i
      BY <1>4, <2>4, <2>6, <3>2 DEF LoadedAt
    <3>3. QED
      BY <3>1, <3>2
  <2>8. LoadedAt(new, checkpoint, order, k + 1)
    BY <2>2, <2>5, <2>6, <2>7 DEF LoadedAt
  <2>9. QED
    BY <2>8 DEF new
<1>8. CASE arrived # DOMAIN Parts[i]
  <2> DEFINE b == [st.buffer EXCEPT ![i] = arrived]
  <2>1. new = [buffer |-> b, loaded |-> st.loaded]
    BY <1>5, <1>6, <1>8 DEF LoadPart
  <2>2. b = [q \in Param |-> b[q]] /\ b[i] = arrived
    BY <1>5
  <2>3. \A q \in Param : q # i => b[q] = st.buffer[q]
    BY <1>5
  <2> HIDE DEF b, new
  <2>4. new.buffer = b /\ new.loaded = st.loaded
    BY <2>1
  <2>5. \A q \in Param :
          IF Seen(order, k + 1, q) = DOMAIN Parts[q]
          THEN new.buffer[q] = {} /\ new.loaded[q] = Fuse(checkpoint)[q]
          ELSE new.buffer[q] = Seen(order, k + 1, q)
    <3> TAKE q \in Param
    <3>1. CASE q = i
      BY <1>3, <1>8, <2>2, <2>4, <3>1
    <3>2. CASE q # i
      BY <1>4, <2>3, <2>4, <3>2 DEF LoadedAt
    <3>3. QED
      BY <3>1, <3>2
  <2>6. LoadedAt(new, checkpoint, order, k + 1)
    BY <1>5, <2>1, <2>2, <2>4, <2>5 DEF LoadedAt
  <2>7. QED
    BY <2>6 DEF new
<1>9. QED
  BY <1>7, <1>8

\* There are finitely many names, and an order of them has every name once.
LEMMA OrderOfNames ==
  ASSUME NEW order \in SetToSeqs(Name), IsFiniteSet(Name)
  PROVE  /\ order \in Seq(Name) /\ Len(order) = Cardinality(Name) /\ Len(order) \in Nat
         /\ \A j, k \in 1..Len(order) : j # k => order[j] # order[k]
         /\ \A n \in Name : \E j \in 1..Len(order) : order[j] = n
<1> DEFINE N == Cardinality(Name)
<1>1. N \in Nat
  BY FS_CardinalityType
<1>2. order \in [1..N -> Name] /\ \A j, k \in 1..N : j # k => order[j] # order[k]
  BY DEF SetToSeqs
<1>3. IsFiniteSet(1..N) /\ Cardinality(1..N) = N
  BY <1>1, FS_Interval
<1>4. order \in Injection(1..N, Name)
  BY <1>2 DEF Injection, IsInjective
<1>5. order \in Surjection(1..N, Name)
  BY <1>3, <1>4, FS_Injection
<1>6. \A n \in Name : \E j \in 1..N : order[j] = n
  BY <1>5 DEF Surjection
<1> HIDE DEF N
<1>7. order \in Seq(Name) /\ Len(order) = N
  BY <1>1, <1>2
<1>8. QED
  BY <1>1, <1>2, <1>6, <1>7 DEF N

\* There are finitely many names: their parts start at different places.
LEMMA NamesFinite == IsFiniteSet(Name)
<1> DEFINE start == [n \in Name |-> PartOffset(n)]
<1>1. ASSUME NEW i \in Param, NEW p \in DOMAIN Parts[i]
      PROVE  /\ PartOffset(<<i, p>>) \in Real /\ ParamOf(PartOffset(<<i, p>>)) = i
             /\ PartOffset(<<i, p>>) = Offset(i) + Within(i, p)
             /\ Within(i, p) \in Nat /\ Parts[i][p] \in Nat \ {0} /\ Offset(i) \in Nat
  <2>1. /\ Parts[i][p] \in Nat \ {0} /\ Within(i, p) \in Nat /\ Within(i, p) + Parts[i][p] <= Numel[i]
        /\ PartOffset(<<i, p>>) = Offset(i) + Within(i, p) /\ Offset(i) \in Nat /\ Numel[i] \in Nat
    BY PartPlaces, NumelType, OffsetType
  <2>2. PartOffset(<<i, p>>) \in RowsOf(i)
    BY <2>1 DEF RowsOf
  <2>3. QED
    BY <2>1, <2>2, ParamOfIs
<1>2. ASSUME NEW i \in Param, NEW p \in DOMAIN Parts[i], NEW q \in DOMAIN Parts[i], p < q
      PROVE  Within(i, p) # Within(i, q)
  <2>1. Within(i, p) + Parts[i][p] <= Within(i, q)
    BY <1>2, NumelType, BlocksDisjoint DEF Within
  <2>2. Within(i, p) \in Nat /\ Parts[i][p] \in Nat \ {0} /\ Within(i, q) \in Nat
    BY <1>1
  <2>3. QED
    BY <2>1, <2>2
<1>3. ASSUME NEW n \in Name, NEW m \in Name, PartOffset(n) = PartOffset(m)
      PROVE  n = m
  <2>1. PICK i \in Param : \E p \in DOMAIN Parts[i] : n = <<i, p>>
    BY DEF Name
  <2>2. PICK j \in Param : \E q \in DOMAIN Parts[j] : m = <<j, q>>
    BY DEF Name
  <2>3. PICK p \in DOMAIN Parts[i] : n = <<i, p>>
    BY <2>1
  <2>4. PICK q \in DOMAIN Parts[j] : m = <<j, q>>
    BY <2>2
  <2>5. i = j
    BY <1>1, <1>3, <2>3, <2>4
  <2>6. Within(i, p) = Within(i, q)
    <3>1. PartOffset(<<i, p>>) = Offset(i) + Within(i, p) /\ Within(i, p) \in Nat /\ Offset(i) \in Nat
      BY <1>1
    <3>2. q \in DOMAIN Parts[i]
      BY <2>5
    <3>3. PartOffset(<<i, q>>) = Offset(i) + Within(i, q) /\ Within(i, q) \in Nat
      BY <1>1, <3>2
    <3>4. PartOffset(<<i, p>>) = PartOffset(<<i, q>>)
      BY <1>3, <2>3, <2>4, <2>5
    <3>5. QED
      BY <3>1, <3>3, <3>4
  <2>7. p \in Int /\ q \in Int
    BY <2>5, NumelType
  <2>8. p = q
    BY <1>2, <2>5, <2>6, <2>7
  <2>9. QED
    BY <2>3, <2>4, <2>5, <2>8
<1>4. start \in Injection(Name, Real)
  <2>1. \A n \in Name : PartOffset(n) \in Real
    BY <1>1 DEF Name
  <2>2. start \in [Name -> Real] /\ \A n \in Name : start[n] = PartOffset(n)
    BY <2>1
  <2> HIDE DEF start
  <2>3. IsInjective(start)
    BY <1>3, <2>2 DEF IsInjective
  <2>4. QED
    BY <2>2, <2>3 DEF Injection
<1>5. IsFiniteSet(Real)
  <2>1. TotalNumel - 1 \in Int /\ 0 \in Int
    BY OffsetType
  <2>2. QED
    BY <2>1, OffsetType, FS_Interval
<1> HIDE DEF start
<1>6. QED
  BY <1>4, <1>5, FS_Injection

\* Whatever the order of its names, a checkpoint loads as it would be fused.
LEMMA Loaded ==
  ASSUME NEW checkpoint, NEW order \in SetToSeqs(Name), IsFiniteSet(Name)
  PROVE  LoadWeight(checkpoint, order) = [complete |-> TRUE, params |-> Fuse(checkpoint)]
<1>1. /\ order \in Seq(Name) /\ Len(order) \in Nat
      /\ \A j, k \in 1..Len(order) : j # k => order[j] # order[k]
      /\ \A n \in Name : \E j \in 1..Len(order) : order[j] = n
  BY OrderOfNames
<1> DEFINE f == CHOOSE f : LoadsUpTo(f, checkpoint, order, Len(order))
           end == f[Len(order)]
<1>2. LoadsUpTo(f, checkpoint, order, Len(order))
  BY <1>1, LoadsExist
<1>3. LoadWeight(checkpoint, order) = [complete |-> \A i \in Param : end.buffer[i] = {}, params |-> end.loaded]
  BY DEF LoadWeight, LoadsUpTo, NothingLoaded
<1> HIDE DEF f
<1> DEFINE S == {k \in Nat : k <= Len(order) => LoadedAt(f[k], checkpoint, order, k)}
<1>4. 0 \in S
  <2>1. f[0] = NothingLoaded
    BY <1>1, <1>2 DEF LoadsUpTo
  <2>2. \A i \in Param : Seen(order, 0, i) = {} /\ DOMAIN Parts[i] # {}
    <3> TAKE i \in Param
    <3>1. Len(Parts[i]) \in Nat \ {0} /\ Parts[i] \in Seq(Nat)
      BY NumelType
    <3>2. 1 \in DOMAIN Parts[i]
      BY <3>1
    <3>3. QED
      BY <3>2 DEF Seen
  <2>3. LoadedAt(NothingLoaded, checkpoint, order, 0)
    <3>1. /\ NothingLoaded.buffer = [i \in Param |-> {}] /\ NothingLoaded.loaded = [i \in Param |-> <<>>]
          /\ NothingLoaded = [buffer |-> [i \in Param |-> {}], loaded |-> [i \in Param |-> <<>>]]
      BY DEF NothingLoaded
    <3>2. \A i \in Param : NothingLoaded.buffer[i] = {} /\ NothingLoaded.loaded[i] = <<>>
      BY <3>1
    <3>3. /\ NothingLoaded.buffer = [i \in Param |-> NothingLoaded.buffer[i]]
          /\ NothingLoaded.loaded = [i \in Param |-> NothingLoaded.loaded[i]]
      BY <3>1
    <3>4. NothingLoaded = [buffer |-> [i \in Param |-> NothingLoaded.buffer[i]],
                           loaded |-> [i \in Param |-> NothingLoaded.loaded[i]]]
      BY <3>1, <3>3
    <3>5. QED
      BY <2>2, <3>2, <3>4 DEF LoadedAt
  <2>4. QED
    BY <2>1, <2>3
<1>5. ASSUME NEW k \in Nat, k \in S
      PROVE  k + 1 \in S
  <2>1. SUFFICES ASSUME k + 1 <= Len(order) PROVE LoadedAt(f[k + 1], checkpoint, order, k + 1)
    OBVIOUS
  <2>2. k + 1 \in 1..Len(order) /\ (k + 1) - 1 = k /\ k + 1 # 0 /\ k + 1 \in 0..Len(order)
    BY <1>1, <2>1
  <2>3. f[k + 1] = LoadPart(checkpoint, f[k], order[k + 1])
    BY <1>2, <2>2 DEF LoadsUpTo
  <2>4. LoadedAt(f[k], checkpoint, order, k)
    BY <1>1, <1>5, <2>1
  <2>5. order[k + 1] \in Name
    BY <1>1, <2>2
  <2>6. PICK i \in Param : \E p \in DOMAIN Parts[i] : order[k + 1] = <<i, p>>
    BY <2>5 DEF Name
  <2>7. PICK p \in DOMAIN Parts[i] : order[k + 1] = <<i, p>>
    BY <2>6
  <2>8. \A j \in 1..k : order[j] # order[k + 1]
    <3> TAKE j \in 1..k
    <3>1. j \in 1..Len(order) /\ j # k + 1
      BY <1>1, <2>1
    <3>2. QED
      BY <1>1, <2>2, <3>1
  <2>9. QED
    BY <2>3, <2>4, <2>7, <2>8, LoadPartOn
<1> HIDE DEF S
<1>6. Nat \subseteq S
  BY <1>4, <1>5, SetInduction
<1>7. LoadedAt(end, checkpoint, order, Len(order))
  BY <1>1, <1>6 DEF S
<1> HIDE DEF end
<1>8. \A i \in Param : Seen(order, Len(order), i) = DOMAIN Parts[i]
  <2> TAKE i \in Param
  <2>1. \A p \in DOMAIN Parts[i] : <<i, p>> \in Name
    BY PartPlaces
  <2>2. QED
    BY <1>1, <2>1 DEF Seen
<1>9. /\ end.loaded = [i \in Param |-> end.loaded[i]]
      /\ \A i \in Param : end.buffer[i] = {} /\ end.loaded[i] = Fuse(checkpoint)[i]
  BY <1>7, <1>8 DEF LoadedAt
<1>10. end.loaded = Fuse(checkpoint)
  <2>1. Fuse(checkpoint) = [i \in Param |-> Fuse(checkpoint)[i]]
    BY DEF Fuse
  <2>2. QED
    BY <1>9, <2>1
<1>11. QED
  BY <1>3, <1>9, <1>10

\* Values by position, as parameters.
AsParams(v) == [i \in Param |-> [k \in 1..Numel[i] |-> v[Offset(i) + k - 1]]]

LEMMA AsParamsType ==
  ASSUME NEW X, NEW v, \A e \in Real : v[e] \in X
  PROVE  /\ AsParams(v) = [i \in Param |-> AsParams(v)[i]] /\ AreParams(X, AsParams(v))
         /\ \A i \in Param : \A k \in 1..Numel[i] :
              Offset(i) + k - 1 \in Real /\ AsParams(v)[i][k] = v[Offset(i) + k - 1]
<1>1. AsParams(v) = [i \in Param |-> AsParams(v)[i]]
  BY DEF AsParams
<1>2. ASSUME NEW i \in Param
      PROVE  AsParams(v)[i] = [k \in 1..Numel[i] |-> v[Offset(i) + k - 1]]
  BY DEF AsParams
<1>3. ASSUME NEW i \in Param, NEW k \in 1..Numel[i]
      PROVE  Offset(i) + k - 1 \in Real
  <2>1. Numel[i] \in Nat /\ Offset(i) \in Nat
    BY NumelType, OffsetType
  <2>2. Offset(i) + k - 1 \in RowsOf(i)
    BY <2>1 DEF RowsOf
  <2>3. QED
    BY <2>2, ParamOfIs
<1>4. ASSUME NEW i \in Param
      PROVE  AsParams(v)[i] \in Seq(X) /\ Len(AsParams(v)[i]) = Numel[i]
  <2>1. Numel[i] \in Nat
    BY NumelType
  <2>2. \A k \in 1..Numel[i] : v[Offset(i) + k - 1] \in X
    BY <1>3
  <2>3. PICK n, s : n = Numel[i] /\ s = [k \in 1..n |-> v[Offset(i) + k - 1]]
    OBVIOUS
  <2>4. s \in [1..n -> X] /\ n \in Nat
    BY <2>1, <2>2, <2>3
  <2>5. s \in Seq(X) /\ Len(s) = n
    BY <2>4
  <2>6. QED
    BY <1>2, <2>3, <2>5
<1>5. AreParams(X, AsParams(v))
  BY <1>4 DEF AreParams
<1>6. \A i \in Param : \A k \in 1..Numel[i] : AsParams(v)[i][k] = v[Offset(i) + k - 1]
  BY <1>2
<1>7. QED
  BY <1>1, <1>3, <1>5, <1>6

\* A checkpoint of them has under every name the rows of that part, and
\* loading it, in any order of the names, gives them back.
LEMMA Checkpointed ==
  ASSUME NEW v
  PROVE  /\ \A n \in Name : Unfuse(AsParams(v))[n] = [k \in 1..PartSize(n) |-> v[PartOffset(n) + k - 1]]
         /\ \A n \in Name : \A k \in 1..PartSize(n) : PartOffset(n) + k - 1 \in Real
         /\ \A order \in SetToSeqs(Name) :
              LoadWeight(Unfuse(AsParams(v)), order) = [complete |-> TRUE, params |-> AsParams(v)]
<1> DEFINE X == {v[e] : e \in Real}
           params == AsParams(v)
<1>1. \A e \in Real : v[e] \in X
  OBVIOUS
<1> HIDE DEF X, params
<1>2. /\ params = [i \in Param |-> params[i]] /\ AreParams(X, params)
      /\ \A i \in Param : \A k \in 1..Numel[i] :
           Offset(i) + k - 1 \in Real /\ params[i][k] = v[Offset(i) + k - 1]
  BY <1>1, AsParamsType DEF params
<1>3. \A i \in Param : \A p \in DOMAIN Parts[i] :
        Unfuse(params)[<<i, p>>] \in Seq(X) /\ IsPart(params, i, p, Unfuse(params)[<<i, p>>])
  BY <1>2, Unfused
<1>4. ASSUME NEW i \in Param, NEW p \in DOMAIN Parts[i], NEW n, n = <<i, p>>
      PROVE  /\ Unfuse(params)[n] = [k \in 1..PartSize(n) |-> v[PartOffset(n) + k - 1]]
             /\ \A k \in 1..PartSize(n) : PartOffset(n) + k - 1 \in Real
  <2>1. /\ PartSize(n) = Parts[i][p] /\ PartSize(n) \in Nat /\ Numel[i] \in Nat /\ Offset(i) \in Nat
        /\ Within(i, p) \in Nat /\ Within(i, p) + PartSize(n) <= Numel[i]
        /\ PartOffset(n) = Offset(i) + Within(i, p)
    BY <1>4, PartPlaces, NumelType, OffsetType
  <2>2. PICK part \in Seq(X) : part = Unfuse(params)[n]
    BY <1>3, <1>4
  <2>3. IsPart(params, i, p, part)
    BY <1>3, <1>4, <2>2
  <2>4. Len(part) = PartSize(n)
    BY <2>1, <2>3 DEF IsPart
  <2>5. ASSUME NEW k \in 1..PartSize(n)
        PROVE  part[k] = v[PartOffset(n) + k - 1] /\ PartOffset(n) + k - 1 \in Real
    <3>1. part[k] = params[i][Within(i, p) + k]
      BY <2>1, <2>3 DEF IsPart
    <3>2. Within(i, p) + k \in 1..Numel[i]
      BY <2>1
    <3>3. Offset(i) + (Within(i, p) + k) - 1 = PartOffset(n) + k - 1
      BY <2>1
    <3>4. /\ params[i][Within(i, p) + k] = v[Offset(i) + (Within(i, p) + k) - 1]
          /\ Offset(i) + (Within(i, p) + k) - 1 \in Real
      BY <1>2, <3>2
    <3>5. QED
      BY <3>1, <3>3, <3>4
  <2>6. part = [k \in 1..PartSize(n) |-> part[k]]
    BY <2>4
  <2>7. part = [k \in 1..PartSize(n) |-> v[PartOffset(n) + k - 1]]
    BY <2>5, <2>6
  <2>8. QED
    BY <2>2, <2>5, <2>7
<1>5. \A n \in Name : /\ Unfuse(params)[n] = [k \in 1..PartSize(n) |-> v[PartOffset(n) + k - 1]]
                     /\ \A k \in 1..PartSize(n) : PartOffset(n) + k - 1 \in Real
  BY <1>4 DEF Name
<1>6. Fuse(Unfuse(params)) = params
  BY <1>2, FuseUnfuse
<1>7. \A order \in SetToSeqs(Name) :
        LoadWeight(Unfuse(params), order) = [complete |-> TRUE, params |-> params]
  <2>1. ASSUME NEW checkpoint, NEW order \in SetToSeqs(Name)
        PROVE  LoadWeight(checkpoint, order) = [complete |-> TRUE, params |-> Fuse(checkpoint)]
    BY NamesFinite, Loaded
  <2>2. QED
    BY <1>6, <2>1
<1>8. QED
  BY <1>5, <1>7 DEF params

-----------------------------------------------------------------------------
(***************************************************************************)
(* One model.  M is a model as an optimizer has it between two updates:    *)
(* the values f of all positions, the moments a, the count n of updates    *)
(* and the step l of the last one.                                         *)
(***************************************************************************)
Fresh(e, s) == {<<e, q, s, 0, 0>> : q \in Rank}

\* The terms are of the past, and show how long it is: the steps of the
\* updates are those of the gradients in the moments.
GoodModel(M) ==
  /\ M.n \in Nat /\ M.l \in Nat
  /\ IsFiniteSet({t[3] : t \in M.a[0]}) /\ Cardinality({t[3] : t \in M.a[0]}) = M.n
  /\ M.f = [e \in Padded |-> M.f[e]] /\ M.a = [e \in Padded |-> M.a[e]]
  /\ \A e \in Padded \ Real : M.a[e] = {}
  /\ \A e \in Real :
       /\ \A t \in M.f[e] : t[3] \in 0..M.l /\ t[4] \in 0..M.n
       /\ (\E t \in M.f[e] : t[3] = M.l) /\ (\E t \in M.f[e] : t[4] = M.n)
       /\ \A t \in M.a[e] : t[3] \in 0..M.l

\* The model after the update of step s.
Updated(M, s) ==
  [f |-> [e \in Padded |-> IF e \in Real THEN Moved(M.f[e], M.a[e] \cup Fresh(e, s), M.n + 1, M.l) ELSE M.f[e]],
   a |-> [e \in Padded |-> IF e \in Real THEN M.a[e] \cup Fresh(e, s) ELSE M.a[e]],
   n |-> M.n + 1, l |-> s]

\* Values by position, as the gradients of the parameters and with padding.
HasGrads(o, v) == o.grad = [i \in Param |-> [e \in RowsOf(i) |-> v[e]]]

ZeroPad(v) == [e \in Padded |-> IF e \in Real THEN v[e] ELSE {}]

OwnGrads(r, s, bad) == [e \in Real |-> {<<e, r, s, bad, 0>>}]

SumGrads(s, bad) == [e \in Real |-> {<<e, q, s, bad[q], 0>> : q \in Rank}]

AllGrads(s) == [e \in Real |-> Fresh(e, s)]

-----------------------------------------------------------------------------
(***************************************************************************)
(* The optimizer o of rank r, of a kind: "zero2", which is sharded, or     *)
(* "ddp".                                                                  *)
(***************************************************************************)
IsOptimizer(o) ==
  o = [flat |-> o.flat, grad |-> o.grad, m |-> o.m, out |-> o.out,
       snapshot |-> o.snapshot, count |-> o.count, lr |-> o.lr]

Mine(kind, M, r) == IF kind = "zero2" THEN MyShard(r, M.a) ELSE [e \in Real |-> M.a[e]]

\* It has the model, up to the learning rate of the next update.
Holds(kind, M, r, o) ==
  /\ IsOptimizer(o)
  /\ o.flat = M.f /\ o.m = Mine(kind, M, r) /\ o.snapshot = None /\ o.count = M.n

Rests(kind, M, r, o) == Holds(kind, M, r, o) /\ o.lr = M.l

\* It has packed its gradients of step s over the parameters.
Packed(M, r, s, o) ==
  /\ IsOptimizer(o)
  /\ o.flat = ZeroPad(OwnGrads(r, s, 0)) /\ o.snapshot = MyShard(r, M.f)
  /\ o.m = MyShard(r, M.a) /\ o.count = M.n /\ o.lr = M.l

\* It has its shard of the gradients of step s.
Ready(M, r, s, o) ==
  /\ IsOptimizer(o)
  /\ o.out = MyShard(r, ZeroPad(AllGrads(s))) /\ o.snapshot = MyShard(r, M.f)
  /\ o.m = MyShard(r, M.a) /\ o.count = M.n /\ o.lr = M.l

\* It has updated its shard.
Stepped(M, r, s, o) ==
  /\ IsOptimizer(o)
  /\ o.snapshot = MyShard(r, Updated(M, s).f) /\ o.m = MyShard(r, Updated(M, s).a) /\ o.count = M.n + 1

-----------------------------------------------------------------------------
(***************************************************************************)
(* Operations                                                              *)
(***************************************************************************)
\* A parameter that has a gradient is told from one that has none.
LEMMA GradAtIs ==
  ASSUME NEW o, NEW v, HasGrads(o, v), NEW e \in Real
  PROVE  GradAt(o, e) = v[e]
<1> DEFINE i == ParamOf(e)
<1>1. i \in Param /\ e \in RowsOf(i)
  BY ParamOfIs
<1>2. o.grad[i] = [x \in RowsOf(i) |-> v[x]]
  BY <1>1 DEF HasGrads
<1>3. o.grad[i] # None
  <2>1. DOMAIN None = {} /\ DOMAIN o.grad[i] = RowsOf(i)
    BY <1>2 DEF None
  <2>2. QED
    BY <1>1, <2>1
<1>4. o.grad[i][e] = v[e]
  BY <1>1, <1>2
<1>5. QED
  BY <1>3, <1>4 DEF GradAt

LEMMA GradOpsKeep ==
  ASSUME NEW kind, NEW M, NEW r, NEW o, Holds(kind, M, r, o)
  PROVE  /\ Holds(kind, M, r, ZeroGrad(o)) /\ ZeroGrad(o).lr = o.lr
         /\ Holds(kind, M, r, ReleaseGradBuffer(o)) /\ ReleaseGradBuffer(o).lr = o.lr
<1>1. Holds(kind, M, r, ZeroGrad(o)) /\ ZeroGrad(o).lr = o.lr
  BY DEF Holds, IsOptimizer, ZeroGrad
<1>2. Holds(kind, M, r, ReleaseGradBuffer(o)) /\ ReleaseGradBuffer(o).lr = o.lr
  BY DEF Holds, IsOptimizer, ReleaseGradBuffer
<1>3. QED
  BY <1>1, <1>2

LEMMA BackwardKeeps ==
  ASSUME NEW kind, NEW M, NEW r, NEW o, Holds(kind, M, r, o), NEW s, NEW finite
  PROVE  Holds(kind, M, r, Backward(o, r, s, finite)) /\ Backward(o, r, s, finite).lr = o.lr
<1> DEFINE g == [i \in Param |->
                   [e \in Offset(i)..Offset(i) + Numel[i] - 1 |-> {<<e, r, s, IF finite THEN 0 ELSE -1, 0>>}]]
<1>1. Backward(o, r, s, finite) = [o EXCEPT !.grad = g]
  BY DEF Backward
<1> HIDE DEF g
<1>2. QED
  BY <1>1 DEF Holds, IsOptimizer

\* The learning rate of the next update.
WithRate(o, s) == [o EXCEPT !.lr = s]

LEMMA RateSet ==
  ASSUME NEW kind, NEW M, NEW r, NEW o, Holds(kind, M, r, o), NEW s
  PROVE  Holds(kind, M, r, WithRate(o, s)) /\ WithRate(o, s).lr = s
BY DEF Holds, IsOptimizer, WithRate

LEMMA BackwardGrads ==
  ASSUME NEW r \in Rank, NEW o, IsOptimizer(o), NEW s, NEW finite \in BOOLEAN
  PROVE  HasGrads(Backward(o, r, s, finite), OwnGrads(r, s, IF finite THEN 0 ELSE -1))
<1> DEFINE bad == IF finite THEN 0 ELSE -1
           g == [i \in Param |-> [e \in RowsOf(i) |-> {<<e, r, s, bad, 0>>}]]
<1>1. Backward(o, r, s, finite).grad = g
  BY DEF IsOptimizer, Backward, RowsOf
<1>2. \A i \in Param : \A e \in RowsOf(i) : OwnGrads(r, s, bad)[e] = {<<e, r, s, bad, 0>>}
  BY ParamOfIs DEF OwnGrads
<1>3. g = [i \in Param |-> [e \in RowsOf(i) |-> OwnGrads(r, s, bad)[e]]]
  BY <1>2
<1>4. QED
  BY <1>1, <1>3 DEF HasGrads

LEMMA PackGradsIs ==
  ASSUME NEW M, NEW r \in Rank, NEW s, NEW o, Rests("zero2", M, r, o), HasGrads(o, OwnGrads(r, s, 0))
  PROVE  Packed(M, r, s, PackGrads(PrepareGradBuffer(o), r))
<1> DEFINE p == PrepareGradBuffer(o)
<1>1. /\ IsOptimizer(p) /\ p.flat = M.f /\ p.m = MyShard(r, M.a) /\ p.count = M.n /\ p.lr = M.l
      /\ p.grad = o.grad
  BY DEF Rests, Holds, IsOptimizer, PrepareGradBuffer, Mine
<1> HIDE DEF p
<1>2. HasGrads(p, OwnGrads(r, s, 0))
  BY <1>1 DEF HasGrads
<1>3. [e \in 0..PaddedNumel - 1 |-> IF e \in Real THEN GradAt(p, e) ELSE {}] = ZeroPad(OwnGrads(r, s, 0))
  BY <1>2, GradAtIs DEF ZeroPad, Padded
<1>4. PackGrads(p, r) = [p EXCEPT !.snapshot = MyShard(r, p.flat), !.flat = ZeroPad(OwnGrads(r, s, 0)), !.grad = NoGrads]
  BY <1>3 DEF PackGrads
<1>5. Packed(M, r, s, PackGrads(p, r))
  BY <1>1, <1>4 DEF Packed, IsOptimizer
<1>6. QED
  BY <1>5 DEF p

LEMMA ReduceScatterIs ==
  ASSUME NEW M, NEW s, NEW opts, \A q \in Rank : Packed(M, q, s, opts[q]), NEW r \in Rank
  PROVE  Ready(M, r, s, ReduceScatter(opts)[r])
<1> DEFINE sum == [e \in 0..PaddedNumel - 1 |-> UNION {opts[q].flat[e] : q \in Rank}]
<1>1. sum = ZeroPad(AllGrads(s))
  <2>1. ASSUME NEW e \in Padded
        PROVE  UNION {opts[q].flat[e] : q \in Rank} = ZeroPad(AllGrads(s))[e]
    <3>1. CASE e \in Real
      <4>1. \A q \in Rank : opts[q].flat[e] = {<<e, q, s, 0, 0>>}
        BY <3>1 DEF Packed, ZeroPad, OwnGrads
      <4>2. UNION {opts[q].flat[e] : q \in Rank} = Fresh(e, s)
        BY <4>1 DEF Fresh
      <4>3. QED
        BY <3>1, <4>2 DEF ZeroPad, AllGrads
    <3>2. CASE e \notin Real
      <4>1. \A q \in Rank : opts[q].flat[e] = {}
        BY <3>2 DEF Packed, ZeroPad
      <4>2. QED
        BY <3>2, <4>1 DEF ZeroPad
    <3>3. QED
      BY <3>1, <3>2
  <2>2. QED
    BY <2>1 DEF Padded, ZeroPad
<1> HIDE DEF sum
<1>2. ReduceScatter(opts)[r] = [opts[r] EXCEPT !.out = MyShard(r, sum)]
  BY DEF ReduceScatter, sum
<1>3. QED
  BY <1>1, <1>2 DEF Packed, Ready, IsOptimizer

\* The position j of the shard of a rank, in values over the whole buffer.
LEMMA ShardAt ==
  ASSUME NEW r \in Rank, NEW v, NEW j \in 0..ShardSize - 1
  PROVE  MyShard(r, v)[j] = v[r * ShardSize + j]
BY DEF MyShard

LEMMA StepShardIs ==
  ASSUME NEW M, GoodModel(M), NEW r \in Rank, NEW s, NEW o, Ready(M, r, s, o)
  PROVE  Stepped(M, r, s, StepShard(o))
<1> DEFINE J == 0..ShardSize - 1
           N == Updated(M, s)
           m == [j \in DOMAIN o.m |-> o.m[j] \cup o.out[j]]
           moved == [j \in DOMAIN m |-> Moved(o.snapshot[j], m[j], o.count + 1, o.lr)]
<1>1. IsOptimizer(o) /\ o.out = MyShard(r, ZeroPad(AllGrads(s))) /\ o.snapshot = MyShard(r, M.f)
      /\ o.m = MyShard(r, M.a) /\ o.count = M.n /\ o.lr = M.l
  BY DEF Ready
<1>2. DOMAIN o.m = J /\ DOMAIN m = J
  BY <1>1 DEF MyShard
<1>3. ASSUME NEW j \in J
      PROVE  m[j] = N.a[r * ShardSize + j] /\ moved[j] = N.f[r * ShardSize + j]
  <2> DEFINE e == r * ShardSize + j
  <2>1. e \in Padded
    BY ShardPlaces
  <2>2. o.m[j] = M.a[e] /\ o.out[j] = ZeroPad(AllGrads(s))[e] /\ o.snapshot[j] = M.f[e]
    BY <1>1, ShardAt
  <2>3. m[j] = M.a[e] \cup ZeroPad(AllGrads(s))[e]
    BY <1>2, <2>2
  <2>4. moved[j] = Moved(M.f[e], m[j], M.n + 1, M.l)
    BY <1>1, <1>2, <2>2
  <2> HIDE DEF e, m, moved
  <2>5. CASE e \in Real
    <3>1. m[j] = M.a[e] \cup Fresh(e, s)
      BY <2>1, <2>3, <2>5 DEF ZeroPad, AllGrads
    <3>2. N.a[e] = M.a[e] \cup Fresh(e, s) /\ N.f[e] = Moved(M.f[e], M.a[e] \cup Fresh(e, s), M.n + 1, M.l)
      BY <2>1, <2>5 DEF Updated
    <3>3. QED
      BY <2>4, <3>1, <3>2 DEF e
  <2>6. CASE e \notin Real
    <3>1. m[j] = {}
      BY <2>1, <2>3, <2>6 DEF ZeroPad, GoodModel
    <3>2. N.a[e] = {} /\ N.f[e] = M.f[e]
      BY <2>1, <2>6 DEF Updated, GoodModel
    <3>3. Moved(M.f[e], {}, M.n + 1, M.l) = M.f[e]
      BY DEF Moved
    <3>4. QED
      BY <2>4, <3>1, <3>2, <3>3 DEF e
  <2>7. QED
    BY <2>5, <2>6
<1>4. m = MyShard(r, N.a) /\ moved = MyShard(r, N.f)
  <2>1. m = [j \in J |-> m[j]] /\ moved = [j \in J |-> moved[j]]
    BY <1>2
  <2> HIDE DEF m, moved, N
  <2>2. QED
    BY <1>3, <2>1 DEF MyShard
<1>5. StepShard(o) = [o EXCEPT !.count = o.count + 1, !.m = m, !.snapshot = moved]
  BY <1>1 DEF StepShard, IsOptimizer
<1> HIDE DEF m, moved, N
<1>6. QED
  BY <1>1, <1>4, <1>5 DEF Stepped, IsOptimizer, N

LEMMA AllGatherIs ==
  ASSUME NEW M, NEW s, NEW opts, \A q \in Rank : Stepped(M, q, s, opts[q]), NEW r \in Rank
  PROVE  Holds("zero2", Updated(M, s), r, AllGather(opts)[r])
<1> DEFINE N == Updated(M, s)
           flat == [e \in 0..PaddedNumel - 1 |-> opts[e \div ShardSize].snapshot[e % ShardSize]]
<1>1. \A q \in Rank : opts[q].snapshot = MyShard(q, N.f)
  BY DEF Stepped
<1>2. N.f = [e \in Padded |-> N.f[e]]
  BY DEF Updated
<1> HIDE DEF N
<1>3. ASSUME NEW e \in Padded
      PROVE  opts[e \div ShardSize].snapshot[e % ShardSize] = N.f[e]
  <2> DEFINE q == e \div ShardSize
             j == e % ShardSize
  <2>1. q \in Rank /\ j \in 0..ShardSize - 1 /\ q * ShardSize + j = e
    BY ShardPlaces
  <2> HIDE DEF q, j
  <2>2. opts[q].snapshot[j] = N.f[e]
    BY <1>1, <2>1, ShardAt
  <2>3. QED
    BY <2>2 DEF q, j
<1>4. flat = N.f
  BY <1>2, <1>3 DEF Padded
<1> HIDE DEF flat
<1>5. AllGather(opts)[r] = [opts[r] EXCEPT !.flat = flat, !.snapshot = None]
  BY DEF AllGather, flat
<1>6. IsOptimizer(opts[r]) /\ opts[r].m = MyShard(r, N.a) /\ opts[r].count = N.n
  BY DEF Stepped, N, Updated
<1>7. QED
  BY <1>4, <1>5, <1>6 DEF Holds, IsOptimizer, Mine, N

\* Torch's all-reduce and AdamW do the same in one piece.
LEMMA AllReduceIs ==
  ASSUME NEW M, NEW s, NEW opts, NEW bad,
         \A q \in Rank : Rests("ddp", M, q, opts[q]) /\ HasGrads(opts[q], OwnGrads(q, s, bad[q])),
         NEW r \in Rank
  PROVE  /\ Rests("ddp", M, r, AllReduceGrads(opts)[r])
         /\ HasGrads(AllReduceGrads(opts)[r], SumGrads(s, bad))
<1> DEFINE g == [i \in Param |->
                   IF opts[r].grad[i] = None THEN None
                   ELSE [e \in DOMAIN opts[r].grad[i] |-> UNION {opts[q].grad[i][e] : q \in Rank}]]
<1>1. AllReduceGrads(opts)[r] = [opts[r] EXCEPT !.grad = g]
  BY DEF AllReduceGrads
<1>2. ASSUME NEW i \in Param
      PROVE  g[i] = [e \in RowsOf(i) |-> SumGrads(s, bad)[e]]
  <2>1. ASSUME NEW q \in Rank
        PROVE  opts[q].grad[i] = [e \in RowsOf(i) |-> {<<e, q, s, bad[q], 0>>}]
    <3>1. opts[q].grad[i] = [e \in RowsOf(i) |-> OwnGrads(q, s, bad[q])[e]]
      BY DEF HasGrads
    <3>2. \A e \in RowsOf(i) : OwnGrads(q, s, bad[q])[e] = {<<e, q, s, bad[q], 0>>}
      BY ParamOfIs DEF OwnGrads
    <3>3. QED
      BY <3>1, <3>2
  <2>2. Offset(i) \in RowsOf(i)
    BY NumelType, OffsetType DEF RowsOf
  <2>3. DOMAIN opts[r].grad[i] = RowsOf(i) /\ opts[r].grad[i] # None
    <3>1. DOMAIN None = {}
      BY DEF None
    <3>2. QED
      BY <2>1, <2>2, <3>1
  <2>4. ASSUME NEW e \in RowsOf(i)
        PROVE  UNION {opts[q].grad[i][e] : q \in Rank} = SumGrads(s, bad)[e]
    <3>1. \A q \in Rank : opts[q].grad[i][e] = {<<e, q, s, bad[q], 0>>}
      BY <2>1
    <3>2. SumGrads(s, bad)[e] = {<<e, q, s, bad[q], 0>> : q \in Rank}
      BY ParamOfIs DEF SumGrads
    <3>3. QED
      BY <3>1, <3>2
  <2>5. g[i] = [e \in DOMAIN opts[r].grad[i] |-> UNION {opts[q].grad[i][e] : q \in Rank}]
    BY <2>3
  <2> HIDE DEF g
  <2>6. QED
    BY <2>3, <2>4, <2>5
<1>3. g = [i \in Param |-> [e \in RowsOf(i) |-> SumGrads(s, bad)[e]]]
  <2>1. g = [i \in Param |-> g[i]]
    OBVIOUS
  <2> HIDE DEF g
  <2>2. QED
    BY <1>2, <2>1
<1> HIDE DEF g
<1>4. Rests("ddp", M, r, opts[r])
  OBVIOUS
<1>5. QED
  BY <1>1, <1>3, <1>4 DEF Rests, Holds, IsOptimizer, HasGrads

LEMMA AdamWStepIs ==
  ASSUME NEW M, GoodModel(M), NEW r \in Rank, NEW s, NEW o,
         Rests("ddp", M, r, o), HasGrads(o, AllGrads(s))
  PROVE  Rests("ddp", Updated(M, s), r, WithRate(AdamWStep(o), s))
<1> DEFINE N == Updated(M, s)
           m == [e \in DOMAIN o.m |-> o.m[e] \cup GradAt(o, e)]
           moved == [e \in DOMAIN o.flat |->
                       IF e \in Real THEN Moved(o.flat[e], m[e], o.count + 1, o.lr) ELSE o.flat[e]]
<1>1. IsOptimizer(o) /\ o.flat = M.f /\ o.m = [e \in Real |-> M.a[e]] /\ o.snapshot = None
      /\ o.count = M.n /\ o.lr = M.l
  BY DEF Rests, Holds, Mine
<1>2. ASSUME NEW e \in Real
      PROVE  m[e] = M.a[e] \cup Fresh(e, s)
  <2>1. GradAt(o, e) = Fresh(e, s)
    BY GradAtIs DEF AllGrads
  <2>2. QED
    BY <1>1, <2>1
<1>3. m = [e \in Real |-> m[e]]
  BY <1>1
<1> HIDE DEF m
<1>4. \A e \in Real : e \in Padded
  BY ShardType
<1>5. m = [e \in Real |-> N.a[e]]
  BY <1>2, <1>3, <1>4 DEF Updated
<1>6. moved = N.f
  <2>1. moved = [e \in Padded |-> IF e \in Real THEN Moved(M.f[e], m[e], M.n + 1, M.l) ELSE M.f[e]]
    BY <1>1 DEF GoodModel
  <2> HIDE DEF moved
  <2>2. QED
    BY <1>2, <2>1 DEF Updated
<1>7. AdamWStep(o) = [o EXCEPT !.count = o.count + 1, !.m = m, !.flat = moved]
  BY <1>1 DEF AdamWStep, IsOptimizer, m
<1>8. N.n = M.n + 1 /\ N.l = s
  BY DEF Updated
<1> HIDE DEF moved, N
<1>9. Holds("ddp", N, r, AdamWStep(o))
  BY <1>1, <1>5, <1>6, <1>7, <1>8 DEF Holds, Mine, IsOptimizer
<1>10. Holds("ddp", N, r, WithRate(AdamWStep(o), s)) /\ WithRate(AdamWStep(o), s).lr = s
  BY <1>9, RateSet
<1>11. QED
  BY <1>8, <1>10 DEF Rests, N

\* The check for gradients that are not finite sees them.
LEMMA BadIsSeen ==
  ASSUME NEW o, ~ HasBadGradients(o)
  PROVE  /\ \A r \in Rank : \A s, bad : HasGrads(o, OwnGrads(r, s, bad)) => bad # -1
         /\ \A s, bad : HasGrads(o, SumGrads(s, bad)) => \A q \in Rank : bad[q] # -1
<1>1. 0 \in Real
  BY OffsetType
<1>2. \A t \in GradAt(o, 0) : t[4] # -1
  BY <1>1 DEF HasBadGradients
<1>3. ASSUME NEW r \in Rank, NEW s, NEW bad, HasGrads(o, OwnGrads(r, s, bad))
      PROVE  bad # -1
  <2>1. GradAt(o, 0) = {<<0, r, s, bad, 0>>}
    BY <1>1, <1>3, GradAtIs DEF OwnGrads
  <2>2. <<0, r, s, bad, 0>> \in GradAt(o, 0)
    BY <2>1
  <2>3. QED
    BY <1>2, <2>2
<1>4. ASSUME NEW s, NEW bad, HasGrads(o, SumGrads(s, bad)), NEW q \in Rank
      PROVE  bad[q] # -1
  <2>1. GradAt(o, 0) = {<<0, p, s, bad[p], 0>> : p \in Rank}
    BY <1>1, <1>4, GradAtIs DEF SumGrads
  <2>2. <<0, q, s, bad[q], 0>> \in GradAt(o, 0)
    BY <2>1
  <2>3. QED
    BY <1>2, <2>2
<1>5. QED
  BY <1>3, <1>4

LEMMA FiniteSum ==
  ASSUME NEW s, NEW bad, \A q \in Rank : bad[q] = 0
  PROVE  SumGrads(s, bad) = AllGrads(s)
BY DEF SumGrads, AllGrads, Fresh

-----------------------------------------------------------------------------
(***************************************************************************)
(* Models                                                                  *)
(***************************************************************************)
FirstModel == [f |-> InitialFlat, a |-> [e \in Padded |-> {}], n |-> 0, l |-> 0]

LEMMA FirstModelGood ==
  /\ GoodModel(FirstModel)
  /\ \A kind : \A r \in Rank : Rests(kind, FirstModel, r, NewOptimizer(kind = "zero2"))
<1>1. GoodModel(FirstModel)
  <2>1. \A e \in Real : InitialFlat[e] = {<<e, -1, 0, 0, 0>>} /\ e \in Padded
    BY InitialFlatIs, ShardType
  <2>2. InitialFlat = [e \in Padded |-> InitialFlat[e]]
    BY InitialFlatIs
  <2>3. /\ FirstModel.n = 0 /\ FirstModel.l = 0 /\ FirstModel.f = InitialFlat
        /\ FirstModel.a = [e \in Padded |-> {}]
    BY DEF FirstModel
  <2>4. \A e \in Padded : FirstModel.a[e] = {}
    BY <2>3
  <2> HIDE DEF FirstModel
  <2>5. ASSUME NEW e \in Real
        PROVE  /\ \A t \in FirstModel.f[e] : t[3] \in 0..0 /\ t[4] \in 0..0
               /\ (\E t \in FirstModel.f[e] : t[3] = 0) /\ (\E t \in FirstModel.f[e] : t[4] = 0)
    <3> DEFINE u == <<e, -1, 0, 0, 0>>
    <3>1. FirstModel.f[e] = {u}
      BY <2>1, <2>3
    <3>2. u[3] = 0 /\ u[4] = 0
      OBVIOUS
    <3> HIDE DEF u
    <3>3. QED
      BY <3>1, <3>2
  <2>6. \A e \in Real : FirstModel.a[e] = {}
    BY <2>1, <2>4
  <2>7. FirstModel.f = [e \in Padded |-> FirstModel.f[e]] /\ FirstModel.a = [e \in Padded |-> FirstModel.a[e]]
    BY <2>2, <2>3
  <2>8. FirstModel.n \in Nat /\ FirstModel.l \in Nat
    BY <2>3
  <2>9. /\ \A e \in Padded \ Real : FirstModel.a[e] = {}
        /\ \A e \in Real : \A t \in FirstModel.a[e] : t[3] \in 0..FirstModel.l
    BY <2>4, <2>6
  <2>10. \A e \in Real :
           /\ \A t \in FirstModel.f[e] : t[3] \in 0..FirstModel.l /\ t[4] \in 0..FirstModel.n
           /\ (\E t \in FirstModel.f[e] : t[3] = FirstModel.l) /\ (\E t \in FirstModel.f[e] : t[4] = FirstModel.n)
    BY <2>3, <2>5
  <2>11. IsFiniteSet({t[3] : t \in FirstModel.a[0]}) /\ Cardinality({t[3] : t \in FirstModel.a[0]}) = FirstModel.n
    <3>1. FirstModel.a[0] = {}
      BY <2>6, OffsetType
    <3>2. {t[3] : t \in FirstModel.a[0]} = {}
      BY <3>1
    <3>3. QED
      BY <2>3, <3>2, FS_EmptySet
  <2>12. QED
    BY <2>7, <2>8, <2>9, <2>10, <2>11 DEF GoodModel
<1>2. ASSUME NEW kind, NEW r \in Rank
      PROVE  Rests(kind, FirstModel, r, NewOptimizer(kind = "zero2"))
  <2> DEFINE z == kind = "zero2"
             m == [j \in IF z THEN 0..ShardSize - 1 ELSE Real |-> {}]
             out == IF z THEN [j \in 0..ShardSize - 1 |-> {}] ELSE None
             o == NewOptimizer(z)
  <2>1. m = Mine(kind, FirstModel, r)
    <3>1. CASE z
      <4>1. \A j \in 0..ShardSize - 1 : r * ShardSize + j \in Padded
        BY ShardPlaces
      <4>2. QED
        BY <3>1, <4>1 DEF Mine, FirstModel, MyShard
    <3>2. CASE ~ z
      BY <3>2, ShardType DEF Mine, FirstModel
    <3>3. QED
      BY <3>1, <3>2
  <2>2. o = [flat |-> InitialFlat, grad |-> NoGrads, m |-> m, out |-> out, snapshot |-> None, count |-> 0, lr |-> 0]
    BY DEF NewOptimizer
  <2>3. FirstModel.f = InitialFlat /\ FirstModel.n = 0 /\ FirstModel.l = 0
    BY DEF FirstModel
  <2> HIDE DEF m, out, o
  <2>4. Rests(kind, FirstModel, r, o)
    BY <2>1, <2>2, <2>3 DEF Rests, Holds, IsOptimizer
  <2>5. QED
    BY <2>4 DEF o
<1>3. QED
  BY <1>1, <1>2

LEMMA UpdatedGood ==
  ASSUME NEW M, GoodModel(M), NEW s \in Nat, M.l < s
  PROVE  GoodModel(Updated(M, s))
<1> DEFINE N == Updated(M, s)
<1>1. N.n = M.n + 1 /\ N.l = s /\ M.n \in Nat /\ M.l \in Nat
  BY DEF Updated, GoodModel
<1>2. N.f = [e \in Padded |-> N.f[e]] /\ N.a = [e \in Padded |-> N.a[e]]
  BY DEF Updated
<1>3. \A e \in Padded \ Real : N.a[e] = {}
  BY DEF Updated, GoodModel
<1>4. ASSUME NEW e \in Real
      PROVE  /\ N.a[e] = M.a[e] \cup Fresh(e, s)
             /\ N.f[e] = M.f[e] \cup {<<t[1], t[2], t[3], M.n + 1, M.l>> : t \in N.a[e]}
             /\ \A t \in M.f[e] : t[3] \in 0..M.l /\ t[4] \in 0..M.n
             /\ \A t \in M.a[e] : t[3] \in 0..M.l
  <2>1. e \in Padded
    BY ShardType
  <2>2. N.a[e] = M.a[e] \cup Fresh(e, s)
    BY <2>1 DEF Updated
  <2>3. N.f[e] = M.f[e] \cup {<<t[1], t[2], t[3], M.n + 1, M.l>> : t \in N.a[e]}
    BY <2>1, <2>2 DEF Updated, Moved
  <2>4. QED
    BY <2>2, <2>3 DEF GoodModel
<1> HIDE DEF N
<1>5. ASSUME NEW e \in Real
      PROVE  \A t \in N.a[e] : t[3] \in 0..N.l
  <2>1. \A t \in Fresh(e, s) : t[3] = s
    BY DEF Fresh
  <2>2. QED
    BY <1>1, <1>4, <2>1
<1>6. ASSUME NEW e \in Real, NEW t \in N.f[e]
      PROVE  t[3] \in 0..N.l /\ t[4] \in 0..N.n
  <2>1. CASE t \in M.f[e]
    BY <1>1, <1>4, <2>1
  <2>2. CASE t \notin M.f[e]
    <3>1. PICK u \in N.a[e] : t = <<u[1], u[2], u[3], M.n + 1, M.l>>
      BY <1>4, <2>2
    <3>2. t[3] = u[3] /\ t[4] = M.n + 1
      BY <3>1
    <3>3. QED
      BY <1>1, <1>5, <3>2
  <2>3. QED
    BY <2>1, <2>2
<1>7. ASSUME NEW e \in Real
      PROVE  (\E t \in N.f[e] : t[3] = N.l) /\ (\E t \in N.f[e] : t[4] = N.n)
  <2> DEFINE u == <<e, 0, s, 0, 0>>
             t == <<u[1], u[2], u[3], M.n + 1, M.l>>
  <2>1. 0 \in Rank
    BY WorldAssumption DEF Rank
  <2>2. u \in N.a[e]
    BY <1>4, <2>1 DEF Fresh
  <2>3. t \in N.f[e] /\ t[3] = s /\ t[4] = M.n + 1
    BY <1>4, <2>2
  <2>4. QED
    BY <1>1, <2>3
<1>8. N.n \in Nat /\ N.l \in Nat
  BY <1>1
<1>9. IsFiniteSet({t[3] : t \in N.a[0]}) /\ Cardinality({t[3] : t \in N.a[0]}) = N.n
  <2> DEFINE U == {t[3] : t \in M.a[0]}
  <2>1. 0 \in Real /\ 0 \in Rank
    BY OffsetType, WorldAssumption DEF Rank
  <2>2. {t[3] : t \in N.a[0]} = U \cup {s}
    <3>1. {t[3] : t \in Fresh(0, s)} = {s}
      <4> DEFINE u == <<0, 0, s, 0, 0>>
      <4>1. u \in Fresh(0, s) /\ u[3] = s
        BY <2>1 DEF Fresh
      <4>2. \A t \in Fresh(0, s) : t[3] = s
        BY DEF Fresh
      <4> HIDE DEF u
      <4>3. QED
        BY <4>1, <4>2
    <3>2. N.a[0] = M.a[0] \cup Fresh(0, s)
      BY <1>4, <2>1
    <3>3. QED
      BY <3>1, <3>2
  <2>3. IsFiniteSet(U) /\ Cardinality(U) = M.n
    BY DEF GoodModel
  <2>4. s \notin U
    <3>1. \A t \in M.a[0] : t[3] \in 0..M.l
      BY <1>4, <2>1
    <3>2. QED
      BY <1>1, <3>1
  <2> HIDE DEF U
  <2>5. IsFiniteSet(U \cup {s}) /\ Cardinality(U \cup {s}) = M.n + 1
    BY <2>3, <2>4, FS_AddElement
  <2>6. QED
    BY <1>1, <2>2, <2>5
<1>10. GoodModel(N)
  BY <1>2, <1>3, <1>5, <1>6, <1>7, <1>8, <1>9 DEF GoodModel
<1>11. QED
  BY <1>10 DEF N
=============================================================================
