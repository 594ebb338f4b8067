--------------------------- MODULE RadixTreeProofs ---------------------------
(***************************************************************************)
(* Lemmas about the operators of RadixTree, for keys over any set of       *)
(* blocks: the order of prefixes, what a walk finds, and what each         *)
(* operation on the tree preserves.  RadixCacheProofs puts them together.  *)
(***************************************************************************)
EXTENDS RadixCache, FiniteSetTheorems, WellFoundedInduction, TLAPS

-----------------------------------------------------------------------------
(***************************************************************************)
(* Prefixes                                                                *)
(***************************************************************************)

\* Prefixes are partially ordered, those of one sequence linearly.
LEMMA PrefixOrder ==
  /\ \A p \in Seq(Block) : IsPrefix(p, p) /\ IsPrefix(Root, p)
  /\ \A p \in Seq(Block) : IsPrefix(p, Root) => p = Root
  /\ \A p, q, r \in Seq(Block) : IsPrefix(p, q) /\ IsPrefix(q, r) => IsPrefix(p, r)
  /\ \A p, q \in Seq(Block) : IsPrefix(p, q) /\ IsPrefix(q, p) => p = q
  /\ \A p, q, r \in Seq(Block) :
       IsPrefix(p, r) /\ IsPrefix(q, r) => IsPrefix(p, q) \/ IsPrefix(q, p)
BY DEF IsPrefix, Root

\* A prefix is no longer than what it is a prefix of, and shorter if it differs.
LEMMA PrefixLen ==
  ASSUME NEW p \in Seq(Block), NEW q \in Seq(Block), IsPrefix(p, q)
  PROVE  Len(p) <= Len(q) /\ (Len(p) = Len(q) => p = q)
BY DEF IsPrefix

\* Prefixes and IsPrefix are two views of one relation.
LEMMA PrefixesAre ==
  \A p, s : s \in Seq(Block) =>
    (p \in Prefixes(s) <=> p \in Seq(Block) /\ IsPrefix(p, s))
BY DEF IsPrefix, Prefixes

\* The keys are sequences, and closed under prefixes.
LEMMA KeyClosed ==
  /\ Key \subseteq Seq(Block)
  /\ Root \in Seq(Block)
  /\ \A k \in Key : Prefixes(k) \subseteq Key
BY BoundsAssumption DEF Key, SeqOf, Prefixes, Root

\* The prefixes of a sequence are finitely many.
LEMMA PrefixesFinite ==
  ASSUME NEW s \in Seq(Block)
  PROVE  IsFiniteSet(Prefixes(s))
<1> DEFINE f == [l \in 0..Len(s) |-> SubSeq(s, 1, l)]
<1>1. IsFiniteSet(0..Len(s))
  BY FS_Interval
<1>2. f \in Surjection(0..Len(s), Prefixes(s))
  BY DEF Surjection, Prefixes
<1>3. QED
  BY <1>1, <1>2, FS_Surjection

\* A nonempty finite set of numbers has a greatest element.
LEMMA FiniteMax ==
  ASSUME NEW S \in SUBSET Nat, IsFiniteSet(S), S # {}
  PROVE  \E x \in S : \A y \in S : y <= x
<1> DEFINE Above(x) == {y \in S : y > x}
           T == {Above(x) : x \in S}
<1>1. T \subseteq FiniteSubsetsOf(S)
  BY FS_FiniteSubsetsOfFinite
<1>2. T # {}
  OBVIOUS
<1>3. PICK U \in T : \A V \in T : <<V, U>> \notin StrictSubsetOrdering(S)
  <2> HIDE DEF T
  <2> QED
    BY <1>1, <1>2, FS_StrictSubsetOrderingWellFounded, WFMin
<1>4. PICK x \in S : U = Above(x)
  BY <1>3
<1>5. ASSUME NEW y \in S, y > x
      PROVE  FALSE
  <2>1. ASSUME NEW z \in Above(y) PROVE z \in Above(x)
    BY <1>5
  <2>2. y \in Above(x) /\ y \notin Above(y)
    BY <1>5
  <2>3. <<Above(y), U>> \in StrictSubsetOrdering(S)
    BY <2>1, <2>2, <1>4 DEF StrictSubsetOrdering
  <2>4. QED
    BY <2>3, <1>3
<1>6. QED
  BY <1>5

-----------------------------------------------------------------------------
(***************************************************************************)
(* What the operations preserve                                            *)
(***************************************************************************)

\* t is a tree record, and its fields have their types.
FieldsOK(t) ==
  /\ t = [nodes |-> t.nodes, ref |-> t.ref, stamp |-> t.stamp, page |-> t.page,
          evictable |-> t.evictable, evictableLeaf |-> t.evictableLeaf,
          protected |-> t.protected]
  /\ t.ref \in [t.nodes -> Nat]
  /\ t.stamp \in [t.nodes -> Nat]
  /\ t.page \in [Cached(t) -> Page]
  /\ t.evictable \in Int /\ t.evictableLeaf \in Int /\ t.protected \in Int

\* Wherever the keys of two nodes agree, a node above both says so.
Branching(t) ==
  \A m, n \in t.nodes : \A p \in Cached(t) :
    IsPrefix(p, m) /\ IsPrefix(p, n) =>
      \E k \in t.nodes : IsPrefix(p, k) /\ IsPrefix(k, m) /\ IsPrefix(k, n)

NodesOK(t) ==
  /\ t.nodes \subseteq Key \ {Root}
  /\ IsFiniteSet(t.nodes)
  /\ Cached(t) = (UNION {Prefixes(n) : n \in t.nodes}) \ {Root}
  /\ Branching(t)

TreeOK(t) == FieldsOK(t) /\ NodesOK(t)

\* The clients of h that hold node n or one below it.
Below(h, n) == {c \in DOMAIN h : IsPrefix(n, h[c])}

\* The handles of h are nodes, and the reference counts of t count them.
Holding(t, h) ==
  /\ DOMAIN h \subseteq Client
  /\ h \in [DOMAIN h -> t.nodes \cup {Root}]
  /\ \A n \in t.nodes : t.ref[n] = Cardinality(Below(h, n))

\* A cached key is a prefix of a node and a key itself.
LEMMA CachedKey ==
  ASSUME NEW t, NodesOK(t)
  PROVE  /\ Cached(t) \subseteq Key \ {Root}
         /\ t.nodes \subseteq Cached(t)
         /\ \A p \in Cached(t) : \E n \in t.nodes : IsPrefix(p, n)
         /\ \A p \in Key \ {Root} : \A q \in Cached(t) : IsPrefix(p, q) => p \in Cached(t)
         /\ IsFiniteSet(Cached(t))
<1>1. \A p : p \in Cached(t) <=> p # Root /\ \E n \in t.nodes : p \in Prefixes(n)
  BY DEF NodesOK
<1>2. t.nodes \subseteq Seq(Block)
  BY KeyClosed DEF NodesOK
<1>3. Cached(t) \subseteq Key \ {Root}
  BY <1>1, KeyClosed DEF NodesOK
<1>4. t.nodes \subseteq Cached(t)
  BY <1>1, <1>2, PrefixesAre, PrefixOrder DEF NodesOK
<1>5. \A p \in Cached(t) : \E n \in t.nodes : IsPrefix(p, n)
  BY <1>1, <1>2, PrefixesAre
<1>6. \A p \in Key \ {Root} : \A q \in Cached(t) : IsPrefix(p, q) => p \in Cached(t)
  BY <1>1, <1>2, <1>3, KeyClosed, PrefixesAre, PrefixOrder
<1>7. IsFiniteSet(Cached(t))
  <2> DEFINE S == {Prefixes(n) : n \in t.nodes}
             f == [n \in t.nodes |-> Prefixes(n)]
  <2>1. f \in Surjection(t.nodes, S)
    BY DEF Surjection
  <2>2. IsFiniteSet(S)
    BY <2>1, FS_Surjection DEF NodesOK
  <2>3. \A T \in S : IsFiniteSet(T)
    BY <1>2, PrefixesFinite
  <2>4. IsFiniteSet(UNION S)
    <3> HIDE DEF S
    <3> QED
      BY <2>2, <2>3, FS_UNION
  <2>5. Cached(t) \in SUBSET UNION S
    BY DEF NodesOK
  <2>6. QED
    BY <2>4, <2>5, FS_Subset
<1>8. QED
  BY <1>3, <1>4, <1>5, <1>6, <1>7

\* The ranks of finitely many stamps are numbers.
LEMMA RankedType ==
  ASSUME NEW S, IsFiniteSet(S), NEW f, DOMAIN f = S
  PROVE  Ranked(f) \in [S -> Nat]
<1>1. SUFFICES ASSUME NEW n \in S
               PROVE  Cardinality({f[m] : m \in {k \in S : f[k] < f[n]}}) \in Nat
  BY DEF Ranked
<1> DEFINE D == {k \in S : f[k] < f[n]}
           g == [m \in D |-> f[m]]
<1>2. IsFiniteSet(D)
  BY FS_Subset
<1>3. g \in Surjection(D, {f[m] : m \in D})
  BY DEF Surjection
<1>4. QED
  BY <1>2, <1>3, FS_Surjection, FS_CardinalityType

\* A walk finds the longest cached prefix of ids.
LEMMA MatchFacts ==
  ASSUME NEW t, NodesOK(t), NEW ids \in Key
  PROVE  /\ Matched(t, ids) \in Key
         /\ Matched(t, ids) \in Cached(t) \cup {Root}
         /\ IsPrefix(Matched(t, ids), ids)
         /\ \A q \in Cached(t) : IsPrefix(q, ids) => IsPrefix(q, Matched(t, ids))
<1> ids \in Seq(Block)
  BY KeyClosed
<1> DEFINE S == {k \in 0..Len(ids) : SubSeq(ids, 1, k) \in Cached(t) \cup {Root}}
<1>1. 0 \in S
  BY DEF Root
<1>2. IsFiniteSet(S)
  <2>1. IsFiniteSet(0..Len(ids)) /\ S \in SUBSET (0..Len(ids))
    BY FS_Interval
  <2> HIDE DEF S
  <2>2. QED
    BY <2>1, FS_Subset
<1>3. PICK k \in S : \A j \in S : j <= k
  <2>1. S \in SUBSET Nat
    OBVIOUS
  <2> HIDE DEF S
  <2> QED
    BY <1>1, <1>2, <2>1, FiniteMax
<1>4. /\ MatchLen(t, ids) \in 0..Len(ids)
      /\ SubSeq(ids, 1, MatchLen(t, ids)) \in Cached(t) \cup {Root}
      /\ \A j \in 0..Len(ids) : SubSeq(ids, 1, j) \in Cached(t) => j <= MatchLen(t, ids)
  <2> DEFINE P(i) == /\ SubSeq(ids, 1, i) \in Cached(t) \cup {Root}
                     /\ \A j \in 0..Len(ids) : SubSeq(ids, 1, j) \in Cached(t) => j <= i
  <2>1. k \in 0..Len(ids) /\ P(k)
    BY <1>3
  <2>2. MatchLen(t, ids) = CHOOSE i \in 0..Len(ids) : P(i)
    BY DEF MatchLen
  <2> HIDE DEF P
  <2>3. MatchLen(t, ids) \in 0..Len(ids) /\ P(MatchLen(t, ids))
    BY <2>1, <2>2
  <2>4. QED
    BY <2>3 DEF P
<1>5. Matched(t, ids) \in Prefixes(ids)
  BY <1>4 DEF Matched, Prefixes
<1>6. Matched(t, ids) \in Key /\ IsPrefix(Matched(t, ids), ids)
  BY <1>5, KeyClosed, PrefixesAre
<1>7. ASSUME NEW q \in Cached(t), IsPrefix(q, ids)
      PROVE  IsPrefix(q, Matched(t, ids))
  <2>1. q \in Seq(Block)
    BY CachedKey, KeyClosed
  <2>2. PICK j \in 0..Len(ids) : q = SubSeq(ids, 1, j)
    BY <2>1, <1>7, PrefixesAre DEF Prefixes
  <2>3. j <= MatchLen(t, ids)
    BY <2>2, <1>4
  <2>4. QED
    BY <2>2, <2>3, <1>4 DEF Matched, IsPrefix
<1>8. QED
  BY <1>4, <1>6, <1>7 DEF Matched

\* Every node below a cached key is below the key's owner.
LEMMA OwnerFacts ==
  ASSUME NEW t, NodesOK(t), NEW p \in Cached(t)
  PROVE  /\ Owner(t, p) \in t.nodes
         /\ IsPrefix(p, Owner(t, p))
         /\ \A n \in t.nodes : IsPrefix(p, n) => IsPrefix(Owner(t, p), n)
<1> DEFINE N == {n \in t.nodes : IsPrefix(p, n)}
           lens == {Len(n) : n \in N}
           P(n) == IsPrefix(p, n) /\ \A m \in t.nodes : IsPrefix(p, m) => Len(n) <= Len(m)
<1>1. N # {}
  BY CachedKey
<1>2. t.nodes \subseteq Seq(Block) /\ p \in Seq(Block)
  BY CachedKey, KeyClosed DEF NodesOK
<1>3. PICK o \in t.nodes : P(o)
  <2>1. lens \subseteq Nat
    BY <1>2
  <2>2. \E x \in lens : \A y \in lens : ~ (y < x)
    <3>1. IsWellFoundedOn(OpToRel(<, Nat), Nat)
      BY NatLessThanWellFounded
    <3>2. \E x \in lens : \A y \in lens : <<y, x>> \notin OpToRel(<, Nat)
      <4>1. lens # {}
        BY <1>1
      <4> HIDE DEF lens
      <4>2. QED
        BY <3>1, <4>1, <2>1, WFMin
    <3>3. QED
      BY <3>2, <2>1 DEF OpToRel
  <2>3. PICK o \in N : \A n \in N : ~ (Len(n) < Len(o))
    BY <2>2
  <2>4. \A n \in N : Len(o) <= Len(n)
    BY <2>3, <1>2
  <2>5. QED
    BY <2>4
<1>4. Owner(t, p) \in t.nodes /\ P(Owner(t, p))
  <2>1. Owner(t, p) = CHOOSE n \in t.nodes : P(n)
    BY DEF Owner
  <2> HIDE DEF P
  <2>2. QED
    BY <2>1, <1>3
<1>5. ASSUME NEW n \in t.nodes, IsPrefix(p, n)
      PROVE  IsPrefix(Owner(t, p), n)
  <2>1. PICK k \in t.nodes : IsPrefix(p, k) /\ IsPrefix(k, Owner(t, p)) /\ IsPrefix(k, n)
    BY <1>4, <1>5 DEF NodesOK, Branching
  <2>2. Len(k) = Len(Owner(t, p))
    BY <2>1, <1>4, <1>2, PrefixLen
  <2>3. QED
    BY <2>1, <2>2, <1>4, <1>2, PrefixLen
<1>6. QED
  BY <1>4, <1>5

\* What nodes store is cached, and counted by a number.
LEMMA SizeType ==
  ASSUME NEW t, NodesOK(t), NEW S \in SUBSET t.nodes
  PROVE  /\ UNION {Own(t, n) : n \in S} \in SUBSET Cached(t)
         /\ IsFiniteSet(UNION {Own(t, n) : n \in S})
         /\ Size(t, S) \in Nat
<1>1. ASSUME NEW n \in S, NEW p \in Own(t, n)
      PROVE  p \in Cached(t)
  BY DEF Own, NodesOK
<1>2. UNION {Own(t, n) : n \in S} \in SUBSET Cached(t)
  BY <1>1
<1>3. IsFiniteSet(Cached(t))
  BY CachedKey
<1>4. IsFiniteSet(UNION {Own(t, n) : n \in S})
  BY <1>2, <1>3, FS_Subset
<1>5. QED
  BY <1>2, <1>4, FS_CardinalityType DEF Size

\* Stamping nodes changes their stamps only.
LEMMA TouchKeeps ==
  ASSUME NEW t, TreeOK(t), NEW S
  PROVE  /\ TreeOK(Touch(t, S))
         /\ Touch(t, S).nodes = t.nodes
         /\ Touch(t, S).ref = t.ref
         /\ Touch(t, S).page = t.page
<1> DEFINE u == Touch(t, S)
           f == [n \in t.nodes |-> IF n \in S THEN Now(t) ELSE t.stamp[n]]
<1>1. Ranked(f) \in [t.nodes -> Nat]
  BY RankedType DEF TreeOK, NodesOK
<1>2. u = [t EXCEPT !.stamp = Ranked(f)]
  BY DEF Touch
<1> HIDE DEF u, f
<1>3. /\ u.nodes = t.nodes /\ u.ref = t.ref /\ u.page = t.page /\ u.stamp = Ranked(f)
      /\ u.evictable = t.evictable /\ u.evictableLeaf = t.evictableLeaf
      /\ u.protected = t.protected
      /\ u = [nodes |-> u.nodes, ref |-> u.ref, stamp |-> u.stamp, page |-> u.page,
              evictable |-> u.evictable, evictableLeaf |-> u.evictableLeaf,
              protected |-> u.protected]
  BY <1>2 DEF TreeOK, FieldsOK
<1>4. TreeOK(u)
  BY <1>1, <1>3 DEF TreeOK, FieldsOK, NodesOK, Branching, Cached
<1>5. QED
  BY <1>3, <1>4 DEF u

\* split_at makes a node of a cached key without changing what is cached,
\* and the new node has as many holders as its lower half.
LEMMA SplitKeeps ==
  ASSUME NEW t, TreeOK(t), NEW p \in Cached(t) \cup {Root}
  PROVE  /\ TreeOK(SplitAt(t, p))
         /\ SplitAt(t, p).nodes = t.nodes \cup ({p} \ {Root})
         /\ SplitAt(t, p).page = t.page
         /\ \A h : Holding(t, h) => Holding(SplitAt(t, p), h)
<1>1. CASE p \in t.nodes \cup {Root}
  BY <1>1 DEF SplitAt, TreeOK, NodesOK
<1>2. CASE p \notin t.nodes \cup {Root}
  <2> DEFINE o == Owner(t, p)
             u == SplitAt(t, p)
             N == t.nodes \cup {p}
             upper(f) == [n \in N |-> IF n = p THEN f[o] ELSE f[n]]
  <2>1. p \in Cached(t)
    BY <1>2
  <2>2. /\ o \in t.nodes /\ IsPrefix(p, o)
        /\ \A n \in t.nodes : IsPrefix(p, n) => IsPrefix(o, n)
    BY <2>1, OwnerFacts DEF TreeOK
  <2>3. u = [t EXCEPT !.nodes = N, !.ref = upper(t.ref), !.stamp = upper(t.stamp)]
    BY <1>2 DEF SplitAt
  <2> HIDE DEF u, o
  <2>4. /\ u.nodes = N /\ u.ref = upper(t.ref) /\ u.page = t.page
        /\ u.stamp = upper(t.stamp)
        /\ u.evictable = t.evictable /\ u.evictableLeaf = t.evictableLeaf
        /\ u.protected = t.protected
        /\ u = [nodes |-> u.nodes, ref |-> u.ref, stamp |-> u.stamp, page |-> u.page,
                evictable |-> u.evictable, evictableLeaf |-> u.evictableLeaf,
                protected |-> u.protected]
    BY <2>3 DEF TreeOK, FieldsOK
  <2>5. FieldsOK(u)
    <3>1. upper(t.ref) \in [N -> Nat] /\ upper(t.stamp) \in [N -> Nat]
      BY <2>2 DEF TreeOK, FieldsOK
    <3>2. QED
      BY <2>4, <3>1 DEF TreeOK, FieldsOK, Cached
  <2>6. NodesOK(u)
    <3>1. p \in Key \ {Root} /\ p \in Seq(Block)
      BY <2>1, CachedKey, KeyClosed DEF TreeOK
    <3>2. IsFiniteSet(N)
      BY FS_AddElement DEF TreeOK, NodesOK
    <3>3. N \subseteq Seq(Block) /\ Cached(t) \subseteq Seq(Block)
      BY <3>1, CachedKey, KeyClosed DEF TreeOK, NodesOK
    <3>4. (UNION {Prefixes(n) : n \in N}) \ {Root} = (UNION {Prefixes(n) : n \in t.nodes}) \ {Root}
      <4>1. Prefixes(p) \subseteq Prefixes(o)
        BY <2>2, <3>1, <3>3, PrefixesAre, PrefixOrder
      <4>2. QED
        BY <4>1, <2>2
    <3>5. ASSUME NEW m \in t.nodes, NEW q \in Cached(t), IsPrefix(q, p), IsPrefix(q, m)
          PROVE  \E k \in N : IsPrefix(q, k) /\ IsPrefix(k, p) /\ IsPrefix(k, m)
      <4>1. IsPrefix(q, o)
        BY <2>2, <3>1, <3>3, <3>5, PrefixOrder
      <4>2. PICK k \in t.nodes : IsPrefix(q, k) /\ IsPrefix(k, o) /\ IsPrefix(k, m)
        BY <4>1, <3>5, <2>2 DEF TreeOK, NodesOK, Branching
      <4>3. IsPrefix(k, p) \/ IsPrefix(p, k)
        BY <4>2, <2>2, <3>3, <3>1, PrefixOrder
      <4>4. CASE IsPrefix(k, p)
        BY <4>2, <4>4
      <4>5. CASE IsPrefix(p, k)
        BY <4>2, <4>5, <3>1, <3>3, <3>5, PrefixOrder
      <4>6. QED
        BY <4>3, <4>4, <4>5
    <3>6. ASSUME NEW m \in N, NEW n \in N, NEW q \in Cached(t), IsPrefix(q, m), IsPrefix(q, n)
          PROVE  \E k \in N : IsPrefix(q, k) /\ IsPrefix(k, m) /\ IsPrefix(k, n)
      <4>1. CASE m \in t.nodes /\ n \in t.nodes
        BY <4>1, <3>6 DEF TreeOK, NodesOK, Branching
      <4>2. CASE m = p /\ n \in t.nodes
        BY <4>2, <3>5, <3>6
      <4>3. CASE n = p /\ m \in t.nodes
        BY <4>3, <3>5, <3>6
      <4>4. CASE m = p /\ n = p
        BY <4>4, <3>1, <3>6, PrefixOrder
      <4>5. QED
        BY <4>1, <4>2, <4>3, <4>4
    <3>7. QED
      BY <2>4, <3>1, <3>2, <3>4, <3>6 DEF TreeOK, NodesOK, Branching, Cached
  <2>7. ASSUME NEW h, Holding(t, h)
        PROVE  Holding(u, h)
    <3>1. t.nodes \cup {p} \subseteq Seq(Block)
      BY <2>1, CachedKey, KeyClosed DEF TreeOK, NodesOK
    <3>2. \A c \in DOMAIN h : h[c] \in t.nodes \cup {Root}
      BY <2>7 DEF Holding
    <3>3. Below(h, p) = Below(h, o)
      BY <2>2, <3>1, <3>2, <1>2, PrefixOrder, KeyClosed DEF Below
    <3>4. \A n \in N : u.ref[n] = Cardinality(Below(h, n))
      BY <2>2, <2>4, <2>7, <3>3 DEF Holding
    <3>5. QED
      BY <2>4, <2>7, <3>4 DEF Holding
  <2>8. QED
    BY <2>4, <2>5, <2>6, <2>7, <1>2 DEF TreeOK, u
<1>3. QED
  BY <1>1, <1>2

\* A walk caches nothing new, makes a node of the match, and disturbs no count.
LEMMA WalkKeeps ==
  ASSUME NEW t, TreeOK(t), NEW ids \in Key
  PROVE  /\ TreeOK(Walk(t, ids))
         /\ Walk(t, ids).page = t.page
         /\ Walk(t, ids).nodes = t.nodes \cup ({Matched(t, ids)} \ {Root})
         /\ Matched(Walk(t, ids), ids) = Matched(t, ids)
         /\ \A h : Holding(t, h) => Holding(Walk(t, ids), h)
<1> DEFINE p == Matched(t, ids)
           u == SplitAt(t, p)
           w == Walk(t, ids)
<1>1. p \in Cached(t) \cup {Root}
  BY MatchFacts DEF TreeOK
<1>2. /\ TreeOK(u) /\ u.nodes = t.nodes \cup ({p} \ {Root}) /\ u.page = t.page
      /\ \A h : Holding(t, h) => Holding(u, h)
  BY <1>1, SplitKeeps
<1>3. w = Touch(u, Path(t, p))
  BY DEF Walk
<1>4. TreeOK(w) /\ w.nodes = u.nodes /\ w.ref = u.ref /\ w.page = u.page
  BY <1>2, <1>3, TouchKeeps
<1>5. Matched(w, ids) = p
  BY <1>2, <1>4 DEF Matched, MatchLen, Cached
<1>6. \A h : Holding(u, h) => Holding(w, h)
  BY <1>4 DEF Holding
<1>7. QED
  BY <1>2, <1>4, <1>5, <1>6

\* lock_handle(handle): the new holder is counted on the whole path.
LEMMA LockKeeps ==
  ASSUME NEW t, TreeOK(t), NEW g \in t.nodes \cup {Root}, NEW h, Holding(t, h),
         NEW c \in Client, c \notin DOMAIN h,
         NEW k \in [DOMAIN h \cup {c} -> t.nodes \cup {Root}],
         k[c] = g, \A x \in DOMAIN h : k[x] = h[x]
  PROVE  /\ TreeOK(LockHandle(t, g))
         /\ LockHandle(t, g).nodes = t.nodes
         /\ LockHandle(t, g).page = t.page
         /\ Holding(LockHandle(t, g), k)
<1> DEFINE u == LockHandle(t, g)
           r == [n \in t.nodes |-> IF n \in Path(t, g) THEN t.ref[n] + 1 ELSE t.ref[n]]
           moved == {n \in Path(t, g) : t.ref[n] = 0}
<1>1. /\ Size(t, moved) \in Nat
      /\ Size(t, {n \in moved : IsLeaf(t, n)}) \in Nat
  <2>1. moved \in SUBSET t.nodes /\ {n \in moved : IsLeaf(t, n)} \in SUBSET t.nodes
    BY DEF Path
  <2>2. QED
    BY <2>1, SizeType DEF TreeOK
<1>2. u = [t EXCEPT !.ref = r, !.evictable = @ - Size(t, moved),
                    !.protected = @ + Size(t, moved),
                    !.evictableLeaf = @ - Size(t, {n \in moved : IsLeaf(t, n)})]
  BY DEF LockHandle
<1>3. r \in [t.nodes -> Nat]
  BY DEF TreeOK, FieldsOK
<1>4. /\ FieldsOK(u) /\ u.nodes = t.nodes /\ u.ref = r /\ u.page = t.page
  <2> DEFINE leaf == {n \in moved : IsLeaf(t, n)}
  <2> HIDE DEF u, moved, leaf, r
  <2>1. /\ u.nodes = t.nodes /\ u.ref = r /\ u.page = t.page /\ u.stamp = t.stamp
        /\ u.evictable = t.evictable - Size(t, moved)
        /\ u.protected = t.protected + Size(t, moved)
        /\ u.evictableLeaf = t.evictableLeaf - Size(t, leaf)
        /\ u = [nodes |-> u.nodes, ref |-> u.ref, stamp |-> u.stamp, page |-> u.page,
                evictable |-> u.evictable, evictableLeaf |-> u.evictableLeaf,
                protected |-> u.protected]
    BY <1>2 DEF TreeOK, FieldsOK, leaf
  <2>2. QED
    BY <1>1, <1>3, <2>1 DEF TreeOK, FieldsOK, Cached, leaf
<1> HIDE DEF u, moved
<1>5. NodesOK(u)
  BY <1>4 DEF TreeOK, NodesOK, Branching, Cached
<1>6. ASSUME NEW n \in t.nodes
      PROVE  r[n] = Cardinality(Below(k, n))
  <2>1. IsFiniteSet(Below(h, n)) /\ c \notin Below(h, n)
    <3>1. Below(h, n) \in SUBSET Client
      BY DEF Holding, Below
    <3>2. QED
      BY <3>1, ClientAssumption, FS_Subset DEF Below
  <2>2. CASE IsPrefix(n, g)
    <3>1. Below(k, n) = Below(h, n) \cup {c}
      BY <2>2 DEF Below
    <3>2. Cardinality(Below(k, n)) = Cardinality(Below(h, n)) + 1
      BY <2>1, <3>1, FS_AddElement
    <3>3. QED
      BY <2>2, <3>2 DEF Holding, Path
  <2>3. CASE ~ IsPrefix(n, g)
    <3>1. Below(k, n) = Below(h, n)
      BY <2>3 DEF Below
    <3>2. QED
      BY <2>3, <3>1 DEF Holding, Path
  <2>4. QED
    BY <2>2, <2>3
<1>7. Holding(u, k)
  <2>1. DOMAIN k \subseteq Client
    BY DEF Holding
  <2>2. k \in [DOMAIN k -> t.nodes \cup {Root}]
    BY DEF Holding
  <2> HIDE DEF r
  <2>3. QED
    BY <2>1, <2>2, <1>4, <1>6 DEF Holding
<1>8. QED
  BY <1>4, <1>5, <1>7 DEF TreeOK, u

\* lock_handle(handle, unlock=True): no count goes below zero.
LEMMA UnlockKeeps ==
  ASSUME NEW t, TreeOK(t), NEW h, Holding(t, h), NEW c \in DOMAIN h
  PROVE  /\ TreeOK(UnlockHandle(t, h[c]))
         /\ UnlockHandle(t, h[c]).nodes = t.nodes
         /\ UnlockHandle(t, h[c]).page = t.page
         /\ Holding(UnlockHandle(t, h[c]), [x \in DOMAIN h \ {c} |-> h[x]])
<1> DEFINE g == h[c]
           u == UnlockHandle(t, g)
           k == [x \in DOMAIN h \ {c} |-> h[x]]
           r == [n \in t.nodes |-> IF n \in Path(t, g) THEN t.ref[n] - 1 ELSE t.ref[n]]
           moved == {n \in Path(t, g) : t.ref[n] = 1}
<1>1. /\ Size(t, moved) \in Nat
      /\ Size(t, {n \in moved : IsLeaf(t, n)}) \in Nat
  <2>1. moved \in SUBSET t.nodes /\ {n \in moved : IsLeaf(t, n)} \in SUBSET t.nodes
    BY DEF Path
  <2>2. QED
    BY <2>1, SizeType DEF TreeOK
<1>2. u = [t EXCEPT !.ref = r, !.evictable = @ + Size(t, moved),
                    !.protected = @ - Size(t, moved),
                    !.evictableLeaf = @ + Size(t, {n \in moved : IsLeaf(t, n)})]
  BY DEF UnlockHandle
<1>3. ASSUME NEW n \in t.nodes
      PROVE  r[n] \in Nat /\ r[n] = Cardinality(Below(k, n))
  <2>1. IsFiniteSet(Below(h, n))
    <3>1. Below(h, n) \in SUBSET Client
      BY DEF Holding, Below
    <3>2. QED
      BY <3>1, ClientAssumption, FS_Subset
  <2>2. CASE IsPrefix(n, g)
    <3>1. Below(k, n) = Below(h, n) \ {c} /\ c \in Below(h, n)
      BY <2>2 DEF Below
    <3>2. IsFiniteSet(Below(k, n)) /\ Cardinality(Below(k, n)) = Cardinality(Below(h, n)) - 1
      BY <2>1, <3>1, FS_RemoveElement
    <3>3. Cardinality(Below(k, n)) \in Nat
      BY <3>2, FS_CardinalityType
    <3>4. r[n] = t.ref[n] - 1 /\ t.ref[n] = Cardinality(Below(h, n))
      BY <2>2 DEF Holding, Path
    <3>5. QED
      BY <3>2, <3>3, <3>4
  <2>3. CASE ~ IsPrefix(n, g)
    <3>1. Below(k, n) = Below(h, n)
      BY <2>3 DEF Below
    <3>2. QED
      BY <2>3, <3>1 DEF Holding, Path, TreeOK, FieldsOK
  <2>4. QED
    BY <2>2, <2>3
<1>4. r \in [t.nodes -> Nat]
  BY <1>3
<1>5. /\ FieldsOK(u) /\ u.nodes = t.nodes /\ u.ref = r /\ u.page = t.page
  <2> DEFINE leaf == {n \in moved : IsLeaf(t, n)}
  <2> HIDE DEF u, moved, leaf, r
  <2>1. /\ u.nodes = t.nodes /\ u.ref = r /\ u.page = t.page /\ u.stamp = t.stamp
        /\ u.evictable = t.evictable + Size(t, moved)
        /\ u.protected = t.protected - Size(t, moved)
        /\ u.evictableLeaf = t.evictableLeaf + Size(t, leaf)
        /\ u = [nodes |-> u.nodes, ref |-> u.ref, stamp |-> u.stamp, page |-> u.page,
                evictable |-> u.evictable, evictableLeaf |-> u.evictableLeaf,
                protected |-> u.protected]
    BY <1>2 DEF TreeOK, FieldsOK, leaf
  <2>2. QED
    BY <1>1, <1>4, <2>1 DEF TreeOK, FieldsOK, Cached, leaf
<1> HIDE DEF u, moved
<1>6. NodesOK(u)
  BY <1>5 DEF TreeOK, NodesOK, Branching, Cached
<1>7. Holding(u, k)
  <2>1. DOMAIN k \subseteq Client
    BY DEF Holding
  <2>2. k \in [DOMAIN k -> t.nodes \cup {Root}]
    BY DEF Holding
  <2> HIDE DEF k, r
  <2>3. QED
    BY <2>1, <2>2, <1>3, <1>5 DEF Holding
<1>8. QED
  BY <1>5, <1>6, <1>7 DEF TreeOK, u

\* insert_prefix caches every prefix of ids, keeps the pages already there,
\* makes a node of ids, and disturbs no count.
LEMMA InsertKeeps ==
  ASSUME NEW t, TreeOK(t), NEW ids \in Key, NEW pages \in [1..Len(ids) -> Page]
  PROVE  /\ TreeOK(InsertPrefix(t, ids, pages))
         /\ t.nodes \subseteq InsertPrefix(t, ids, pages).nodes
         /\ ids \in InsertPrefix(t, ids, pages).nodes \cup {Root}
         /\ InsertPrefix(t, ids, pages).page =
              [q \in Cached(t) \cup (Prefixes(ids) \ {Root}) |->
                 IF q \in Cached(t) THEN t.page[q] ELSE pages[Len(q)]]
         /\ \A h : Holding(t, h) => Holding(InsertPrefix(t, ids, pages), h)
<1> DEFINE w == Walk(t, ids)
           p == Matched(t, ids)
           new == Prefixes(ids) \ {Root}
           u == InsertPrefix(t, ids, pages)
<1>1. /\ TreeOK(w) /\ w.page = t.page
      /\ w.nodes = t.nodes \cup ({p} \ {Root})
      /\ Matched(w, ids) = p
      /\ \A h : Holding(t, h) => Holding(w, h)
  BY WalkKeeps
<1>2. /\ p \in Key /\ p \in Cached(t) \cup {Root} /\ IsPrefix(p, ids)
      /\ \A q \in Cached(t) : IsPrefix(q, ids) => IsPrefix(q, p)
  BY MatchFacts DEF TreeOK
<1>3. ids \in Seq(Block) /\ Cached(t) \subseteq Seq(Block) \ {Root} /\ t.nodes \subseteq Cached(t)
  BY KeyClosed, CachedKey DEF TreeOK
<1>4. new \subseteq Key \ {Root} /\ \A q \in new : IsPrefix(q, ids) /\ Len(q) \in 1..Len(ids)
  <2>1. \A q \in Prefixes(ids) : q \in Key /\ IsPrefix(q, ids) /\ q \in Seq(Block)
    BY <1>3, KeyClosed, PrefixesAre
  <2>2. \A q \in Prefixes(ids) : Len(q) \in 0..Len(ids) /\ (q # Root => Len(q) # 0)
    BY <1>3, <2>1, PrefixLen DEF Root
  <2>3. QED
    BY <2>1, <2>2
<1>5. CASE p = ids
  <2>1. u = w
    BY <1>5 DEF InsertPrefix
  <2>2. ASSUME NEW q \in new PROVE q \in Cached(t)
    <3>1. q \in Key \ {Root} /\ IsPrefix(q, p) /\ q \in Seq(Block)
      BY <1>4, <1>5, KeyClosed
    <3>2. p \in Cached(t)
      BY <1>2, <3>1, PrefixOrder
    <3>3. QED
      BY <3>1, <3>2, CachedKey DEF TreeOK
  <2>3. t.page = [q \in Cached(t) \cup new |-> IF q \in Cached(t) THEN t.page[q] ELSE pages[Len(q)]]
    BY <2>2 DEF TreeOK, FieldsOK
  <2>4. ids \in u.nodes \cup {Root}
    BY <1>1, <1>5, <2>1
  <2> HIDE DEF u, w, new, p
  <2>5. QED
    BY <1>1, <2>1, <2>3, <2>4 DEF u, new, p, w
<1>6. CASE p # ids
  <2> DEFINE N == w.nodes \cup {ids}
             r == [n \in N |-> IF n = ids THEN 0 ELSE w.ref[n]]
             f == [n \in N |-> IF n = ids THEN Now(w) ELSE w.stamp[n]]
             g == [q \in Cached(t) \cup new |-> IF q \in Cached(t) THEN t.page[q] ELSE pages[Len(q)]]
             added == Len(ids) - Len(p)
             left == IF p # Root /\ IsLeaf(w, p) /\ w.ref[p] = 0 THEN Size(w, {p}) ELSE 0
  <2>1. /\ u = NewLeaf(w, ids, pages)
        /\ u.nodes = N /\ u.ref = r /\ u.stamp = Ranked(f) /\ u.page = g
        /\ u.evictable = w.evictable + added
        /\ u.evictableLeaf = w.evictableLeaf - left + added
        /\ u.protected = w.protected
        /\ u = [nodes |-> u.nodes, ref |-> u.ref, stamp |-> u.stamp, page |-> u.page,
                evictable |-> u.evictable, evictableLeaf |-> u.evictableLeaf,
                protected |-> u.protected]
    BY <1>1, <1>6 DEF InsertPrefix, NewLeaf, Cached
  <2>2. ids \notin Cached(t) /\ ids # Root
    <3>1. IsPrefix(ids, p) => ids = p
      BY <1>2, <1>3, KeyClosed, PrefixOrder
    <3>2. ids # Root
      BY <1>2, <1>6, KeyClosed, PrefixOrder
    <3>3. QED
      BY <1>2, <1>3, <1>6, <3>1, <3>2, PrefixOrder
  <2>3. IsFiniteSet(w.nodes) /\ IsFiniteSet(N)
    BY <1>1, FS_AddElement DEF TreeOK, NodesOK
  <2>4. FieldsOK(u)
    <3>1. r \in [N -> Nat]
      BY <1>1 DEF TreeOK, FieldsOK
    <3>2. Ranked(f) \in [N -> Nat]
      BY <2>3, RankedType
    <3>3. g \in [Cached(t) \cup new -> Page]
      BY <1>4 DEF TreeOK, FieldsOK
    <3>4. added \in Int
      BY <1>2, <1>3, KeyClosed
    <3>5. left \in Int
      <4>1. CASE p # Root
        <5>1. {p} \in SUBSET w.nodes
          BY <1>1, <4>1
        <5>2. Size(w, {p}) \in Nat
          BY <1>1, <5>1, SizeType DEF TreeOK
        <5>3. QED
          BY <5>2
      <4>2. CASE p = Root
        BY <4>2
      <4>3. QED
        BY <4>1, <4>2
    <3> HIDE DEF u, w, r, f, g, added, left, N
    <3>6. u.evictable \in Int /\ u.evictableLeaf \in Int /\ u.protected \in Int
      BY <1>1, <2>1, <3>4, <3>5 DEF TreeOK, FieldsOK
    <3>7. Cached(u) = Cached(t) \cup new
      BY <2>1, <3>3 DEF Cached
    <3>8. QED
      BY <2>1, <3>1, <3>2, <3>3, <3>6, <3>7 DEF FieldsOK
  <2>5. NodesOK(u)
    <3> HIDE DEF u, w, r, f, left, added
    <3>1. N \subseteq Key \ {Root}
      BY <1>1, <2>2 DEF TreeOK, NodesOK
    <3>2. Cached(u) = Cached(t) \cup new /\ Cached(w) = Cached(t)
      BY <1>1, <2>1 DEF Cached
    <3>3. Cached(u) = (UNION {Prefixes(n) : n \in N}) \ {Root}
      <4>1. Cached(w) = (UNION {Prefixes(n) : n \in w.nodes}) \ {Root}
        BY <1>1 DEF TreeOK, NodesOK
      <4>2. UNION {Prefixes(n) : n \in N} = (UNION {Prefixes(n) : n \in w.nodes}) \cup Prefixes(ids)
        OBVIOUS
      <4>3. QED
        BY <3>2, <4>1, <4>2
    <3>4. N \subseteq Seq(Block) /\ Cached(u) \subseteq Seq(Block)
      BY <1>4, <3>1, <3>2, <1>3, KeyClosed
    <3>5. ASSUME NEW m \in w.nodes, NEW q \in Cached(u), IsPrefix(q, ids), IsPrefix(q, m)
          PROVE  \E k \in N : IsPrefix(q, k) /\ IsPrefix(k, ids) /\ IsPrefix(k, m)
      <4>1. q \in Cached(t) /\ q # Root
        <5>1. m \in Cached(w) /\ q \in Key \ {Root}
          BY <1>1, <1>4, <3>2, CachedKey DEF TreeOK
        <5>2. QED
          BY <1>1, <3>2, <3>5, <5>1, CachedKey DEF TreeOK
      <4>2. IsPrefix(q, p) /\ p # Root /\ p \in w.nodes
        BY <1>1, <1>2, <1>3, <3>5, <4>1, PrefixOrder
      <4>3. PICK k \in w.nodes : IsPrefix(q, k) /\ IsPrefix(k, p) /\ IsPrefix(k, m)
        BY <1>1, <3>2, <3>5, <4>1, <4>2 DEF TreeOK, NodesOK, Branching
      <4>4. IsPrefix(k, ids)
        BY <1>2, <3>4, <4>2, <4>3, PrefixOrder
      <4>5. QED
        BY <4>3, <4>4
    <3>6. ASSUME NEW m \in N, NEW n \in N, NEW q \in Cached(u), IsPrefix(q, m), IsPrefix(q, n)
          PROVE  \E k \in N : IsPrefix(q, k) /\ IsPrefix(k, m) /\ IsPrefix(k, n)
      <4>1. CASE m \in w.nodes /\ n \in w.nodes
        <5>1. q \in Cached(w)
          <6>1. m \in Cached(w) /\ q \in Key \ {Root}
            BY <1>1, <1>4, <3>2, <4>1, CachedKey DEF TreeOK
          <6>2. QED
            BY <1>1, <3>6, <6>1, CachedKey DEF TreeOK
        <5>2. QED
          BY <1>1, <3>6, <4>1, <5>1 DEF TreeOK, NodesOK, Branching
      <4>2. CASE m = ids /\ n \in w.nodes
        BY <4>2, <3>5, <3>6
      <4>3. CASE n = ids /\ m \in w.nodes
        BY <4>3, <3>5, <3>6
      <4>4. CASE m = ids /\ n = ids
        BY <4>4, <3>4, <3>6, PrefixOrder
      <4>5. QED
        BY <4>1, <4>2, <4>3, <4>4
    <3>7. u.nodes = N
      BY <2>1
    <3> HIDE DEF N
    <3>8. QED
      BY <2>3, <3>1, <3>3, <3>6, <3>7 DEF NodesOK, Branching
  <2>6. ASSUME NEW h, Holding(t, h)
        PROVE  Holding(u, h)
    <3> HIDE DEF u, w, f, g, left, added
    <3>1. Holding(w, h)
      BY <1>1, <2>6
    <3>2. Below(h, ids) = {}
      <4>1. \A c \in DOMAIN h : h[c] \in t.nodes \cup {Root}
        BY <2>6 DEF Holding
      <4>2. \A n \in t.nodes \cup {Root} : ~ IsPrefix(ids, n)
        BY <1>3, <2>2, CachedKey, PrefixOrder DEF TreeOK
      <4>3. QED
        BY <4>1, <4>2 DEF Below
    <3>3. Cardinality(Below(h, ids)) = 0
      BY <3>2, FS_EmptySet
    <3>4. \A n \in N : r[n] = Cardinality(Below(h, n))
      BY <3>1, <3>3 DEF Holding
    <3>5. h \in [DOMAIN h -> N \cup {Root}] /\ DOMAIN h \subseteq Client
      BY <3>1 DEF Holding
    <3>6. u.nodes = N /\ u.ref = r
      BY <2>1
    <3> HIDE DEF N, r
    <3>7. QED
      BY <3>4, <3>5, <3>6 DEF Holding
  <2>7. u.page = g /\ t.nodes \subseteq u.nodes /\ ids \in u.nodes
    BY <1>1, <2>1
  <2>8. QED
    BY <2>4, <2>5, <2>6, <2>7 DEF TreeOK
<1>7. QED
  BY <1>5, <1>6

\* A cached key is stored by its owner and by no other node.
LEMMA OwnIs ==
  ASSUME NEW t, NodesOK(t), NEW p \in Cached(t)
  PROVE  /\ p \in Own(t, Owner(t, p))
         /\ \A n \in t.nodes : p \in Own(t, n) => n = Owner(t, p)
<1> DEFINE o == Owner(t, p)
<1>1. /\ o \in t.nodes /\ IsPrefix(p, o)
      /\ \A n \in t.nodes : IsPrefix(p, n) => IsPrefix(o, n)
  BY OwnerFacts
<1>2. t.nodes \subseteq Seq(Block) /\ p \in Seq(Block) /\ p # Root
  BY CachedKey, KeyClosed DEF NodesOK
<1> HIDE DEF o
<1>3. p \in Own(t, o)
  <2>1. p \in Prefixes(o)
    BY <1>1, <1>2, PrefixesAre
  <2>2. ASSUME NEW m \in t.nodes, IsPrefix(m, o), m # o
        PROVE  Len(m) < Len(p)
    <3>1. ~ IsPrefix(p, m)
      BY <1>1, <1>2, <2>2, PrefixOrder
    <3>2. IsPrefix(m, p) /\ m # p
      BY <1>1, <1>2, <2>2, <3>1, PrefixOrder
    <3>3. QED
      BY <1>2, <3>2, PrefixLen
  <2>3. QED
    BY <1>2, <2>1, <2>2 DEF Own, Path
<1>4. ASSUME NEW n \in t.nodes, p \in Own(t, n)
      PROVE  n = o
  <2>1. IsPrefix(p, n)
    BY <1>2, <1>4, PrefixesAre DEF Own
  <2>2. IsPrefix(o, n)
    BY <1>1, <2>1
  <2>3. Len(p) <= Len(o)
    BY <1>1, <1>2, PrefixLen
  <2>4. o # n => Len(o) < Len(p)
    BY <1>1, <1>4, <2>2 DEF Own, Path
  <2>5. QED
    BY <1>1, <1>2, <2>3, <2>4
<1>5. QED
  BY <1>3, <1>4 DEF o

\* The stamp a subtree is evicted by is its newest.
LEMMA SubtreeStampIs ==
  ASSUME NEW t, TreeOK(t), NEW n \in t.nodes
  PROVE  /\ SubtreeStamp(t, n) \in Nat
         /\ \E m \in t.nodes : IsPrefix(n, m) /\ t.stamp[m] = SubtreeStamp(t, n)
         /\ \A m \in t.nodes : IsPrefix(n, m) => t.stamp[m] <= SubtreeStamp(t, n)
<1> DEFINE D == {k \in t.nodes : IsPrefix(n, k)}
           S == {t.stamp[m] : m \in D}
           P(s) == \A m \in t.nodes : IsPrefix(n, m) => t.stamp[m] <= s
<1>1. S \in SUBSET Nat /\ IsFiniteSet(S)
  <2>1. IsFiniteSet(D)
    BY FS_Subset DEF TreeOK, NodesOK
  <2>2. [m \in D |-> t.stamp[m]] \in Surjection(D, S)
    BY DEF Surjection
  <2>3. IsFiniteSet(S)
    BY <2>1, <2>2, FS_Surjection
  <2>4. QED
    BY <2>3 DEF TreeOK, FieldsOK
<1>2. S # {}
  <2>1. IsPrefix(n, n)
    BY KeyClosed, PrefixOrder DEF TreeOK, NodesOK
  <2>2. QED
    BY <2>1
<1>3. \E x \in S : \A y \in S : y <= x
  <2> HIDE DEF S
  <2> QED
    BY <1>1, <1>2, FiniteMax
<1>4. \E s \in S : P(s)
  BY <1>3
<1>5. SubtreeStamp(t, n) \in S /\ P(SubtreeStamp(t, n))
  <2>1. SubtreeStamp(t, n) = CHOOSE s \in S : P(s)
    BY DEF SubtreeStamp
  <2> HIDE DEF S, P
  <2>2. QED
    BY <1>4, <2>1
<1>6. QED
  BY <1>1, <1>5

\* No handle is below an evictable node, so what is below it is evictable.
LEMMA EvictableBelow ==
  ASSUME NEW t, TreeOK(t), NEW h, Holding(t, h),
         NEW n \in Evictable(t), NEW m \in t.nodes, IsPrefix(n, m)
  PROVE  m \in Evictable(t)
<1>1. n \in t.nodes /\ t.ref[n] = 0
  BY DEF Evictable
<1>2. n \in Seq(Block) /\ m \in Seq(Block) /\ Root \in Seq(Block)
      /\ t.nodes \subseteq Seq(Block)
  BY <1>1, KeyClosed DEF TreeOK, NodesOK
<1>3. Below(h, m) \subseteq Below(h, n)
  BY <1>2, PrefixOrder DEF Below, Holding
<1>4. IsFiniteSet(Below(h, n))
  <2>1. Below(h, n) \in SUBSET Client
    BY DEF Holding, Below
  <2>2. QED
    BY <2>1, ClientAssumption, FS_Subset
<1>5. Below(h, n) = {}
  BY <1>1, <1>4, FS_EmptySet DEF Holding
<1>6. Cardinality(Below(h, m)) = 0
  BY <1>3, <1>5, FS_EmptySet
<1>7. QED
  BY <1>6 DEF Holding, Evictable

\* The victims of an eviction are unreferenced, and nothing below one stays.
LEMMA VictimsAre ==
  ASSUME NEW t, TreeOK(t), NEW h, Holding(t, h), NEW size \in Nat
  PROVE  /\ Victims(t, size) \subseteq Evictable(t)
         /\ \A n \in Victims(t, size) : \A m \in t.nodes :
              IsPrefix(n, m) => m \in Victims(t, size)
<1>1. Victims(t, size) \subseteq Evictable(t)
  BY DEF Victims
<1>2. ASSUME NEW n \in Victims(t, size), NEW m \in t.nodes, IsPrefix(n, m)
      PROVE  m \in Victims(t, size)
  <2>1. n \in t.nodes /\ t.ref[n] = 0
    BY <1>1 DEF Evictable
  <2>2. n \in Seq(Block) /\ m \in Seq(Block) /\ Root \in Seq(Block)
        /\ t.nodes \subseteq Seq(Block)
    BY <2>1, KeyClosed DEF TreeOK, NodesOK
  <2>3. m \in Evictable(t)
    BY <1>1, <1>2, EvictableBelow
  <2>4. SubtreeStamp(t, m) <= SubtreeStamp(t, n)
        /\ SubtreeStamp(t, m) \in Nat /\ SubtreeStamp(t, n) \in Nat
    <3>1. PICK k \in t.nodes : IsPrefix(m, k) /\ t.stamp[k] = SubtreeStamp(t, m)
      BY SubtreeStampIs
    <3>2. IsPrefix(n, k)
      BY <1>2, <2>2, <3>1, PrefixOrder
    <3>3. QED
      BY <2>1, <3>1, <3>2, SubtreeStampIs
  <2>5. Len(n) <= Len(m) /\ Len(n) \in Nat /\ Len(m) \in Nat
    BY <1>2, <2>2, PrefixLen
  <2>6. ASSUME NEW k \in Evictable(t), PoppedBefore(t, k, m)
        PROVE  PoppedBefore(t, k, n)
    <3>1. k \in t.nodes /\ Len(k) \in Nat
      BY <2>2 DEF Evictable
    <3>2. SubtreeStamp(t, k) \in Nat
      BY <3>1, SubtreeStampIs
    <3>3. QED
      BY <2>4, <2>5, <2>6, <3>1, <3>2 DEF PoppedBefore
  <2> DEFINE A == {k \in Evictable(t) : PoppedBefore(t, k, m)}
             B == {k \in Evictable(t) : PoppedBefore(t, k, n)}
  <2>7. A \in SUBSET B /\ B \in SUBSET t.nodes
    BY <2>6 DEF Evictable
  <2>8. Size(t, A) <= Size(t, B) /\ Size(t, A) \in Nat /\ Size(t, B) \in Nat
    <3> HIDE DEF A, B
    <3>1. IsFiniteSet(UNION {Own(t, k) : k \in B})
      BY <2>7, SizeType DEF TreeOK
    <3>2. (UNION {Own(t, k) : k \in A}) \in SUBSET (UNION {Own(t, k) : k \in B})
      BY <2>7
    <3>3. Cardinality(UNION {Own(t, k) : k \in A}) <= Cardinality(UNION {Own(t, k) : k \in B})
      BY <3>1, <3>2, FS_Subset
    <3>4. A \in SUBSET t.nodes
      BY <2>7
    <3>5. QED
      BY <2>7, <3>3, <3>4, SizeType DEF Size, TreeOK
  <2>9. Size(t, B) < size /\ t.evictableLeaf # 0
    BY DEF Victims
  <2>10. Size(t, A) < size
    BY <2>8, <2>9
  <2>11. QED
    BY <2>3, <2>9, <2>10 DEF Victims
<1>3. QED
  BY <1>1, <1>2

\* evict drops whole suffixes of what is cached and nothing below a handle.
LEMMA EvictKeeps ==
  ASSUME NEW t, TreeOK(t), NEW h, Holding(t, h), NEW size \in Nat
  PROVE  LET u    == Evict(t, size)
             lost == Cached(t) \ Cached(u)
         IN /\ TreeOK(u) /\ Holding(u, h)
            /\ Cached(u) \subseteq Cached(t)
            /\ u.page = [p \in Cached(t) \ lost |-> t.page[p]]
            /\ \A p \in lost : \A q \in Cached(t) : IsPrefix(p, q) => q \in lost
            /\ \A p \in lost : \A c \in DOMAIN h : ~ IsPrefix(p, h[c])
<1> DEFINE gone == Victims(t, size)
           u == Evict(t, size)
           N == t.nodes \ gone
           lost == UNION {Own(t, n) : n \in gone}
           leaves == {n \in N : t.ref[n] = 0 /\ ~ IsLeaf(t, n)
                                /\ \A m \in t.nodes : IsStrictPrefix(n, m) => m \in gone}
           lonely == {n \in gone : ~ IsLeaf(t, n)}
           f == [n \in N |-> t.stamp[n]]
           r == [n \in N |-> t.ref[n]]
           g == [p \in Cached(t) \ lost |-> t.page[p]]
<1>1. /\ gone \subseteq t.nodes
      /\ \A n \in gone : t.ref[n] = 0
      /\ \A n \in gone : \A m \in t.nodes : IsPrefix(n, m) => m \in gone
  BY VictimsAre DEF Evictable
<1>2. /\ u.nodes = N /\ u.ref = r /\ u.stamp = Ranked(f) /\ u.page = g
      /\ u.evictable = t.evictable - Size(t, gone)
      /\ u.evictableLeaf = t.evictableLeaf - Size(t, gone) + Size(t, lonely \cup leaves)
      /\ u.protected = t.protected
      /\ u = [nodes |-> u.nodes, ref |-> u.ref, stamp |-> u.stamp, page |-> u.page,
              evictable |-> u.evictable, evictableLeaf |-> u.evictableLeaf,
              protected |-> u.protected]
  BY DEF Evict, Drop
<1>3. /\ t.nodes \subseteq Seq(Block) /\ Cached(t) \subseteq Seq(Block) \ {Root}
      /\ Root \in Seq(Block) /\ N \subseteq t.nodes
  BY KeyClosed, CachedKey DEF TreeOK, NodesOK
<1>4. Size(t, gone) \in Nat /\ Size(t, lonely \cup leaves) \in Nat
  <2>1. gone \in SUBSET t.nodes /\ (lonely \cup leaves) \in SUBSET t.nodes
    BY <1>1
  <2>2. QED
    BY <2>1, SizeType DEF TreeOK
<1> HIDE DEF u, gone, lonely, leaves
<1>5. lost \subseteq Cached(t)
  <2>1. gone \in SUBSET t.nodes
    BY <1>1
  <2>2. lost \in SUBSET Cached(t)
    BY <2>1, SizeType DEF TreeOK
  <2>3. QED
    BY <2>2
<1>6. \A p \in Cached(t) : p \in lost <=> Owner(t, p) \in gone
  BY <1>1, OwnIs DEF TreeOK
<1>7. \A p \in Cached(t) : /\ Owner(t, p) \in t.nodes /\ IsPrefix(p, Owner(t, p))
                           /\ \A n \in t.nodes : IsPrefix(p, n) => IsPrefix(Owner(t, p), n)
  BY OwnerFacts DEF TreeOK
<1> HIDE DEF lost
<1>8. ASSUME NEW p \in lost, NEW q \in Cached(t), IsPrefix(p, q)
      PROVE  q \in lost
  <2>1. IsPrefix(p, Owner(t, q))
    BY <1>3, <1>5, <1>7, <1>8, PrefixOrder
  <2>2. IsPrefix(Owner(t, p), Owner(t, q)) /\ Owner(t, p) \in gone
    BY <1>5, <1>6, <1>7, <2>1
  <2>3. QED
    BY <1>1, <1>6, <1>7, <2>2
<1>9. ASSUME NEW p \in lost, NEW c \in DOMAIN h, IsPrefix(p, h[c])
      PROVE  FALSE
  <2> DEFINE o == Owner(t, p)
  <2>1. h[c] \in t.nodes
    BY <1>3, <1>5, <1>9, PrefixOrder DEF Holding
  <2>2. o \in t.nodes /\ IsPrefix(o, h[c]) /\ t.ref[o] = 0
    BY <1>1, <1>5, <1>6, <1>7, <1>9, <2>1
  <2>3. c \in Below(h, o)
    BY <2>2 DEF Below
  <2>4. IsFiniteSet(Below(h, o))
    <3>1. Below(h, o) \in SUBSET Client
      BY DEF Holding, Below
    <3>2. QED
      BY <3>1, ClientAssumption, FS_Subset
  <2>5. Cardinality(Below(h, o)) = 0
    BY <2>2 DEF Holding
  <2>6. QED
    BY <2>3, <2>4, <2>5, FS_EmptySet
<1>10. Cached(u) = Cached(t) \ lost /\ lost = Cached(t) \ Cached(u)
  BY <1>2, <1>5 DEF Cached
<1>11. IsFiniteSet(N)
  BY FS_Subset DEF TreeOK, NodesOK
<1>12. FieldsOK(u)
  <2>1. r \in [N -> Nat]
    BY DEF TreeOK, FieldsOK
  <2>2. Ranked(f) \in [N -> Nat]
    BY <1>11, RankedType
  <2>3. g \in [Cached(t) \ lost -> Page]
    BY DEF TreeOK, FieldsOK
  <2>4. u.evictable \in Int /\ u.evictableLeaf \in Int /\ u.protected \in Int
    BY <1>2, <1>4 DEF TreeOK, FieldsOK
  <2> HIDE DEF r, f, g, N
  <2>5. QED
    BY <1>2, <1>10, <2>1, <2>2, <2>3, <2>4 DEF FieldsOK
<1>13. NodesOK(u)
  <2> HIDE DEF r, f, g
  <2>1. ASSUME NEW p \in Cached(u)
        PROVE  p \in (UNION {Prefixes(n) : n \in N}) \ {Root}
    <3>1. Owner(t, p) \in N /\ IsPrefix(p, Owner(t, p))
      BY <1>6, <1>7, <1>10
    <3>2. p \in Prefixes(Owner(t, p))
      BY <1>3, <1>10, <3>1, PrefixesAre
    <3>3. QED
      BY <1>3, <1>10, <3>1, <3>2
  <2>2. ASSUME NEW n \in N, NEW p \in Prefixes(n), p # Root
        PROVE  p \in Cached(u)
    <3>1. p \in Cached(t)
      BY <2>2 DEF TreeOK, NodesOK
    <3>2. IsPrefix(Owner(t, p), n)
      BY <1>3, <1>7, <2>2, <3>1, PrefixesAre
    <3>3. QED
      BY <1>1, <1>6, <1>7, <1>10, <3>1, <3>2
  <2>3. Cached(u) = (UNION {Prefixes(n) : n \in N}) \ {Root}
    BY <2>1, <2>2
  <2>4. ASSUME NEW m \in N, NEW n \in N, NEW p \in Cached(u), IsPrefix(p, m), IsPrefix(p, n)
        PROVE  \E k \in N : IsPrefix(p, k) /\ IsPrefix(k, m) /\ IsPrefix(k, n)
    <3>1. PICK k \in t.nodes : IsPrefix(p, k) /\ IsPrefix(k, m) /\ IsPrefix(k, n)
      BY <1>10, <2>4 DEF TreeOK, NodesOK, Branching
    <3>2. k \in N
      BY <1>1, <3>1
    <3>3. QED
      BY <3>1, <3>2
  <2>5. N \subseteq Key \ {Root}
    BY DEF TreeOK, NodesOK
  <2>6. u.nodes = N
    BY <1>2
  <2> HIDE DEF N
  <2>7. QED
    BY <1>11, <2>3, <2>4, <2>5, <2>6 DEF NodesOK, Branching
<1>14. Holding(u, h)
  <2> HIDE DEF f, g
  <2>1. ASSUME NEW c \in DOMAIN h
        PROVE  h[c] \in N \cup {Root}
    <3>1. h[c] \in t.nodes \cup {Root}
      BY DEF Holding
    <3>2. CASE h[c] \in gone
      <4>1. IsPrefix(h[c], h[c]) /\ h[c] \in Cached(t) /\ Owner(t, h[c]) = h[c]
        <5>1. h[c] \in t.nodes /\ h[c] \in Cached(t)
          BY <1>1, <3>2, CachedKey DEF TreeOK
        <5>2. QED
          BY <1>3, <1>7, <5>1, PrefixOrder
      <4>2. h[c] \in lost
        BY <1>6, <3>2, <4>1
      <4>3. QED
        BY <1>9, <4>1, <4>2
    <3>3. QED
      BY <3>1, <3>2
  <2>2. \A n \in N : r[n] = Cardinality(Below(h, n))
    BY DEF Holding
  <2>3. h \in [DOMAIN h -> N \cup {Root}] /\ DOMAIN h \subseteq Client
    BY <2>1 DEF Holding
  <2>4. u.nodes = N /\ u.ref = r
    BY <1>2
  <2> HIDE DEF N, r
  <2>5. QED
    BY <2>2, <2>3, <2>4 DEF Holding
<1>15. QED
  <2>1. u.page = [p \in Cached(t) \ lost |-> t.page[p]] /\ Cached(u) \subseteq Cached(t)
    BY <1>2, <1>10
  <2>2. TreeOK(u) /\ Holding(u, h)
    BY <1>12, <1>13, <1>14 DEF TreeOK
  <2> HIDE DEF N, r, f, g
  <2>3. QED
    BY <1>8, <1>9, <1>10, <2>1, <2>2 DEF u

-----------------------------------------------------------------------------
(***************************************************************************)
(* Sizes                                                                   *)
(***************************************************************************)

\* The total length of some nodes is the number of cached keys they own.
LEMMA SizeIs ==
  ASSUME NEW t, NodesOK(t), NEW S \in SUBSET t.nodes
  PROVE  /\ UNION {Own(t, n) : n \in S} = {p \in Cached(t) : Owner(t, p) \in S}
         /\ Size(t, S) = Cardinality({p \in Cached(t) : Owner(t, p) \in S})
<1>1. UNION {Own(t, n) : n \in S} \in SUBSET Cached(t)
  BY SizeType
<1>2. \A p \in Cached(t) : p \in UNION {Own(t, n) : n \in S} <=> Owner(t, p) \in S
  BY OwnIs
<1>3. UNION {Own(t, n) : n \in S} = {p \in Cached(t) : Owner(t, p) \in S}
  BY <1>1, <1>2
<1>4. QED
  BY <1>3 DEF Size

\* Sizes grow with the set, and every node has some.
LEMMA SizeLaws ==
  ASSUME NEW t, NodesOK(t), NEW A \in SUBSET t.nodes, NEW B \in SUBSET t.nodes
  PROVE  /\ Size(t, A) \in Nat /\ Size(t, B) \in Nat
         /\ A \subseteq B => Size(t, A) <= Size(t, B) /\ Size(t, B \ A) = Size(t, B) - Size(t, A)
         /\ Size(t, A) = 0 <=> A = {}
<1> DEFINE In(S) == {p \in Cached(t) : Owner(t, p) \in S}
<1>1. ASSUME NEW S \in SUBSET t.nodes
      PROVE  Size(t, S) = Cardinality(In(S)) /\ IsFiniteSet(In(S)) /\ Size(t, S) \in Nat
  <2>1. Size(t, S) = Cardinality(In(S)) /\ IsFiniteSet(UNION {Own(t, n) : n \in S})
        /\ UNION {Own(t, n) : n \in S} = In(S) /\ Size(t, S) \in Nat
    BY SizeIs, SizeType
  <2>2. QED
    BY <2>1
<1>2. Size(t, A) \in Nat /\ Size(t, B) \in Nat
  BY <1>1
<1>3. ASSUME A \subseteq B
      PROVE  Size(t, A) <= Size(t, B) /\ Size(t, B \ A) = Size(t, B) - Size(t, A)
  <2>1. In(B \ A) = In(B) \ In(A) /\ In(B) \cap In(A) = In(A) /\ In(A) \in SUBSET In(B)
    BY <1>3
  <2>2. Size(t, B \ A) = Cardinality(In(B \ A))
        /\ Size(t, A) = Cardinality(In(A)) /\ Size(t, B) = Cardinality(In(B)) /\ IsFiniteSet(In(B))
    BY <1>1
  <2>3. Cardinality(In(B) \ In(A)) = Cardinality(In(B)) - Cardinality(In(B) \cap In(A))
        /\ Cardinality(In(A)) <= Cardinality(In(B))
    <3> HIDE DEF In
    <3>1. QED
      BY <2>1, <2>2, FS_Difference, FS_Subset
  <2>4. Cardinality(In(B \ A)) = Cardinality(In(B)) - Cardinality(In(A))
    BY <2>1, <2>3
  <2> HIDE DEF In
  <2>5. QED
    BY <2>2, <2>3, <2>4
<1>4. Size(t, A) = 0 <=> A = {}
  <2>1. A = {} => In(A) = {}
    OBVIOUS
  <2>2. ASSUME NEW n \in A PROVE n \in In(A)
    <3>1. n \in Cached(t) /\ n \in Seq(Block) /\ t.nodes \subseteq Seq(Block)
      BY CachedKey, KeyClosed DEF NodesOK
    <3>2. IsPrefix(n, Owner(t, n)) /\ IsPrefix(Owner(t, n), n) /\ Owner(t, n) \in t.nodes
      BY <3>1, OwnerFacts, PrefixOrder
    <3>3. QED
      BY <3>1, <3>2, PrefixOrder
  <2>3. Size(t, A) = Cardinality(In(A)) /\ IsFiniteSet(In(A))
    BY <1>1
  <2> HIDE DEF In
  <2>4. QED
    BY <2>1, <2>2, <2>3, FS_EmptySet
<1>5. QED
  BY <1>2, <1>3, <1>4

\* The same for three sets of which one is made of the other two.
LEMMA SizeSum ==
  ASSUME NEW t, TreeOK(t), NEW A \in SUBSET t.nodes, NEW B \in SUBSET t.nodes,
         NEW C, C = A \cup B, A \cap B = {}
  PROVE  /\ Size(t, C) = Size(t, A) + Size(t, B)
         /\ Size(t, A) \in Nat /\ Size(t, B) \in Nat /\ Size(t, C) \in Nat
<1> DEFINE In(S) == {p \in Cached(t) : Owner(t, p) \in S}
<1>1. C \in SUBSET t.nodes /\ NodesOK(t)
  BY DEF TreeOK
<1>2. Size(t, A) \in Nat /\ Size(t, B) \in Nat /\ Size(t, C) \in Nat
  BY <1>1, SizeType
<1>3. Size(t, A) = Cardinality(In(A)) /\ Size(t, B) = Cardinality(In(B)) /\ Size(t, C) = Cardinality(In(C))
  BY <1>1, SizeIs
<1>4. IsFiniteSet(In(A)) /\ IsFiniteSet(In(B))
  <2>1. IsFiniteSet(Cached(t)) /\ In(A) \in SUBSET Cached(t) /\ In(B) \in SUBSET Cached(t)
    BY <1>1, CachedKey
  <2> HIDE DEF In
  <2>2. QED
    BY <2>1, FS_Subset
<1>5. In(C) = In(A) \cup In(B) /\ In(A) \cap In(B) = {}
  OBVIOUS
<1> HIDE DEF In
<1>6. Cardinality(In(A) \cup In(B)) = Cardinality(In(A)) + Cardinality(In(B)) - Cardinality(In(A) \cap In(B))
  BY <1>4, FS_Union
<1>7. Cardinality(In(A) \cap In(B)) = 0
  BY <1>5, FS_EmptySet
<1>8. Cardinality(In(C)) = Cardinality(In(A) \cup In(B))
  BY <1>5
<1>9. QED
  BY <1>2, <1>3, <1>6, <1>7, <1>8

\* What a node owns, and whether it is a leaf, depends on the nodes only.
LEMMA SameNodes ==
  ASSUME NEW t, NEW u, u.nodes = t.nodes
  PROVE  /\ \A S : Size(u, S) = Size(t, S)
         /\ \A n : IsLeaf(u, n) <=> IsLeaf(t, n)
<1>1. \A n : Own(u, n) = Own(t, n)
  BY DEF Own, Path
<1>2. QED
  BY <1>1 DEF Size, IsLeaf

(***************************************************************************)
(* The counters count the nodes of each kind, the one for leaves at least. *)
(***************************************************************************)
Counted(t) ==
  /\ t.evictable = Size(t, Evictable(t))
  /\ t.protected = Size(t, t.nodes \ Evictable(t))

LeavesCounted(t) == t.evictableLeaf >= Size(t, EvictableLeaves(t))

\* The cached keys that lie under no handle.
Free(t, h) == {p \in Cached(t) : \A c \in DOMAIN h : ~ IsPrefix(p, h[c])}

\* A cached key is evictable if it lies under no handle: a split, which
\* changes who owns a key, does not change whether it is evictable.
LEMMA FreeIs ==
  ASSUME NEW t, TreeOK(t), NEW h, Holding(t, h)
  PROVE  /\ Size(t, Evictable(t)) = Cardinality(Free(t, h))
         /\ Size(t, t.nodes \ Evictable(t)) = Cardinality(Cached(t) \ Free(t, h))
<1>1. ASSUME NEW p \in Cached(t)
      PROVE  Owner(t, p) \in t.nodes /\ (Owner(t, p) \in Evictable(t) <=> p \in Free(t, h))
  <2> DEFINE o == Owner(t, p)
  <2>1. /\ o \in t.nodes /\ IsPrefix(p, o)
        /\ \A n \in t.nodes : IsPrefix(p, n) => IsPrefix(o, n)
    BY OwnerFacts DEF TreeOK
  <2>2. t.nodes \subseteq Seq(Block) /\ p \in Seq(Block) /\ p # Root /\ Root \in Seq(Block)
    BY CachedKey, KeyClosed DEF TreeOK, NodesOK
  <2> HIDE DEF o
  <2>3. \A c \in DOMAIN h : IsPrefix(p, h[c]) <=> c \in Below(h, o)
    <3>1. \A c \in DOMAIN h : h[c] \in t.nodes \cup {Root}
      BY DEF Holding
    <3>2. QED
      BY <2>1, <2>2, <3>1, PrefixOrder DEF Below
  <2>4. p \in Free(t, h) <=> Below(h, o) = {}
    <3>1. Below(h, o) \subseteq DOMAIN h
      BY DEF Below
    <3>2. QED
      BY <2>3, <3>1 DEF Free
  <2>5. IsFiniteSet(Below(h, o))
    <3>1. Below(h, o) \in SUBSET Client
      BY DEF Holding, Below
    <3>2. QED
      BY <3>1, ClientAssumption, FS_Subset
  <2>6. t.ref[o] = 0 <=> Below(h, o) = {}
    BY <2>1, <2>5, FS_EmptySet DEF Holding
  <2>7. QED
    BY <2>1, <2>4, <2>6 DEF Evictable, o
<1>2. {p \in Cached(t) : Owner(t, p) \in Evictable(t)} = Free(t, h)
  <2>1. Free(t, h) \subseteq Cached(t)
    BY DEF Free
  <2>2. QED
    BY <1>1, <2>1
<1>3. {p \in Cached(t) : Owner(t, p) \in t.nodes \ Evictable(t)} = Cached(t) \ Free(t, h)
  BY <1>1
<1>4. Evictable(t) \in SUBSET t.nodes /\ t.nodes \ Evictable(t) \in SUBSET t.nodes
  BY DEF Evictable
<1>5. QED
  BY <1>2, <1>3, <1>4, SizeIs DEF TreeOK

\* The same without the nodes: how many keys lie under a handle and under none.
LEMMA CountedIs ==
  ASSUME NEW t, TreeOK(t), NEW h, Holding(t, h)
  PROVE  Counted(t) <=> /\ t.evictable = Cardinality(Free(t, h))
                        /\ t.protected = Cardinality(Cached(t) \ Free(t, h))
BY FreeIs DEF Counted

\* Adding nodes takes keys from those that were there and leaves no more leaves.
LEMMA MoreNodes ==
  ASSUME NEW t, NEW u, t.nodes \subseteq u.nodes
  PROVE  /\ \A n : Own(u, n) \subseteq Own(t, n)
         /\ \A n : IsLeaf(u, n) => IsLeaf(t, n)
<1>1. \A n : Path(t, n) \subseteq Path(u, n)
  BY DEF Path
<1>2. QED
  BY <1>1 DEF Own, IsLeaf

\* The stamps do not count.
LEMMA TouchCounts ==
  ASSUME NEW t, TreeOK(t), NEW S
  PROVE  /\ Counted(t) => Counted(Touch(t, S))
         /\ LeavesCounted(t) => LeavesCounted(Touch(t, S))
<1> DEFINE u == Touch(t, S)
<1>1. /\ u.nodes = t.nodes /\ u.ref = t.ref /\ u.evictable = t.evictable
      /\ u.evictableLeaf = t.evictableLeaf /\ u.protected = t.protected
  BY DEF Touch, TreeOK, FieldsOK
<1> HIDE DEF u
<1>2. (\A X : Size(u, X) = Size(t, X)) /\ \A n : IsLeaf(u, n) <=> IsLeaf(t, n)
  BY <1>1, SameNodes
<1>3. Evictable(u) = Evictable(t) /\ EvictableLeaves(u) = EvictableLeaves(t)
  BY <1>1, <1>2 DEF Evictable, EvictableLeaves
<1>4. QED
  BY <1>1, <1>2, <1>3 DEF Counted, LeavesCounted, u

\* A split moves keys between nodes of one reference count; the upper half
\* is no leaf, so evictable_leaf_size may come to promise too much, never
\* too little.
LEMMA SplitCounts ==
  ASSUME NEW t, TreeOK(t), NEW h, Holding(t, h), NEW p \in Cached(t) \cup {Root}
  PROVE  /\ Counted(t) => Counted(SplitAt(t, p))
         /\ LeavesCounted(t) => LeavesCounted(SplitAt(t, p))
<1> DEFINE u == SplitAt(t, p)
<1>1. CASE p \in t.nodes \cup {Root}
  BY <1>1 DEF SplitAt
<1>2. CASE p \notin t.nodes \cup {Root}
  <2>1. /\ TreeOK(u) /\ Holding(u, h) /\ u.nodes = t.nodes \cup {p} /\ u.page = t.page
    BY <1>2, SplitKeeps
  <2>2. /\ u.evictable = t.evictable /\ u.evictableLeaf = t.evictableLeaf
        /\ u.protected = t.protected
        /\ \A n \in t.nodes : u.ref[n] = t.ref[n]
    BY <1>2 DEF SplitAt, TreeOK, FieldsOK
  <2>3. ~ IsLeaf(u, p)
    <3>1. Owner(t, p) \in t.nodes /\ IsPrefix(p, Owner(t, p))
      BY <1>2, OwnerFacts DEF TreeOK
    <3>2. QED
      BY <1>2, <2>1, <3>1 DEF IsLeaf, IsStrictPrefix
  <2> HIDE DEF u
  <2>4. Counted(t) => Counted(u)
    <3>1. Cached(u) = Cached(t) /\ Free(u, h) = Free(t, h)
      BY <2>1 DEF Cached, Free
    <3>2. /\ Counted(u) <=> /\ u.evictable = Cardinality(Free(u, h))
                            /\ u.protected = Cardinality(Cached(u) \ Free(u, h))
          /\ Counted(t) <=> /\ t.evictable = Cardinality(Free(t, h))
                            /\ t.protected = Cardinality(Cached(t) \ Free(t, h))
      BY <2>1, CountedIs
    <3>3. QED
      BY <2>2, <3>1, <3>2
  <2>5. LeavesCounted(t) => LeavesCounted(u)
    <3> DEFINE E == EvictableLeaves(u)
               F == EvictableLeaves(t)
    <3>1. (\A n : Own(u, n) \subseteq Own(t, n)) /\ \A n : IsLeaf(u, n) => IsLeaf(t, n)
      BY <2>1, MoreNodes
    <3>2. E \subseteq F
      BY <2>1, <2>2, <2>3, <3>1 DEF EvictableLeaves, Evictable
    <3>3. E \in SUBSET u.nodes /\ F \in SUBSET t.nodes
      BY DEF EvictableLeaves, Evictable
    <3> HIDE DEF E, F
    <3>4. (UNION {Own(u, n) : n \in E}) \in SUBSET (UNION {Own(t, n) : n \in F})
      BY <3>1, <3>2
    <3>5. IsFiniteSet(UNION {Own(t, n) : n \in F})
      BY <3>3, SizeType DEF TreeOK
    <3>6. Cardinality(UNION {Own(u, n) : n \in E}) <= Cardinality(UNION {Own(t, n) : n \in F})
      BY <3>4, <3>5, FS_Subset
    <3>7. Size(u, E) <= Size(t, F) /\ Size(u, E) \in Nat /\ Size(t, F) \in Nat
      <4>1. Size(u, E) <= Size(t, F)
        BY <3>6 DEF Size
      <4>2. NodesOK(u) /\ NodesOK(t)
        BY <2>1 DEF TreeOK
      <4>3. Size(u, E) \in Nat
        BY <3>3, <4>2, SizeType
      <4>4. Size(t, F) \in Nat
        BY <3>3, <4>2, SizeType
      <4>5. QED
        BY <4>1, <4>3, <4>4
    <3>8. t.evictableLeaf \in Int
      BY DEF TreeOK, FieldsOK
    <3>9. QED
      BY <2>2, <3>7, <3>8 DEF LeavesCounted, E, F
  <2>6. QED
    BY <2>4, <2>5 DEF u
<1>3. QED
  BY <1>1, <1>2

\* A walk splits at most one node and stamps.
LEMMA WalkCounts ==
  ASSUME NEW t, TreeOK(t), NEW h, Holding(t, h), NEW ids \in Key
  PROVE  /\ Counted(t) => Counted(Walk(t, ids))
         /\ LeavesCounted(t) => LeavesCounted(Walk(t, ids))
<1> DEFINE p == Matched(t, ids)
           u == SplitAt(t, p)
<1>1. p \in Cached(t) \cup {Root}
  BY MatchFacts DEF TreeOK
<1> HIDE DEF p
<1>2. /\ Counted(t) => Counted(u)
      /\ LeavesCounted(t) => LeavesCounted(u)
      /\ TreeOK(u)
  BY <1>1, SplitCounts, SplitKeeps
<1> HIDE DEF u
<1>3. /\ Counted(u) => Counted(Touch(u, Path(t, p)))
      /\ LeavesCounted(u) => LeavesCounted(Touch(u, Path(t, p)))
  BY <1>2, TouchCounts
<1>4. Walk(t, ids) = Touch(u, Path(t, p))
  BY DEF Walk, p, u
<1>5. QED
  BY <1>2, <1>3, <1>4

\* lock_handle moves the sizes of the nodes whose count leaves zero.
LEMMA LockCounts ==
  ASSUME NEW t, TreeOK(t), NEW g
  PROVE  /\ Counted(t) => Counted(LockHandle(t, g))
         /\ LeavesCounted(t) => LeavesCounted(LockHandle(t, g))
<1> DEFINE u == LockHandle(t, g)
           moved == {n \in Path(t, g) : t.ref[n] = 0}
           leaves == {n \in moved : IsLeaf(t, n)}
<1>1. /\ u.nodes = t.nodes
      /\ \A n \in t.nodes : u.ref[n] = IF n \in Path(t, g) THEN t.ref[n] + 1 ELSE t.ref[n]
      /\ u.evictable = t.evictable - Size(t, moved)
      /\ u.protected = t.protected + Size(t, moved)
      /\ u.evictableLeaf = t.evictableLeaf - Size(t, leaves)
  BY DEF LockHandle, TreeOK, FieldsOK
<1> HIDE DEF u
<1>2. (\A X : Size(u, X) = Size(t, X)) /\ \A n : IsLeaf(u, n) <=> IsLeaf(t, n)
  BY <1>1, SameNodes
<1>3. \A n \in t.nodes : t.ref[n] \in Nat
  BY DEF TreeOK, FieldsOK
<1>4. /\ moved \subseteq Evictable(t) /\ Evictable(t) \subseteq t.nodes
      /\ Evictable(u) = Evictable(t) \ moved
      /\ leaves \subseteq EvictableLeaves(t) /\ EvictableLeaves(t) \subseteq t.nodes
      /\ EvictableLeaves(u) = EvictableLeaves(t) \ leaves
  BY <1>1, <1>2, <1>3 DEF Evictable, EvictableLeaves, Path
<1>5. t.nodes \ Evictable(u) = (t.nodes \ Evictable(t)) \cup moved
      /\ (t.nodes \ Evictable(t)) \cap moved = {}
  BY <1>4
<1>6. t.evictable \in Int /\ t.protected \in Int /\ t.evictableLeaf \in Int
  BY DEF TreeOK, FieldsOK
<1> HIDE DEF moved, leaves
<1>7. /\ Size(t, Evictable(t)) = Size(t, Evictable(u)) + Size(t, moved)
      /\ Size(t, Evictable(u)) \in Nat /\ Size(t, moved) \in Nat
  <2>1. /\ Evictable(u) \in SUBSET t.nodes /\ moved \in SUBSET t.nodes
        /\ Evictable(t) = Evictable(u) \cup moved /\ Evictable(u) \cap moved = {}
    BY <1>4
  <2>2. QED
    BY <2>1, SizeSum
<1>8. /\ Size(t, EvictableLeaves(t)) = Size(t, EvictableLeaves(u)) + Size(t, leaves)
      /\ Size(t, EvictableLeaves(u)) \in Nat /\ Size(t, leaves) \in Nat
  <2>1. /\ EvictableLeaves(u) \in SUBSET t.nodes /\ leaves \in SUBSET t.nodes
        /\ EvictableLeaves(t) = EvictableLeaves(u) \cup leaves /\ EvictableLeaves(u) \cap leaves = {}
    BY <1>4
  <2>2. QED
    BY <2>1, SizeSum
<1>9. Size(t, t.nodes \ Evictable(u)) = Size(t, t.nodes \ Evictable(t)) + Size(t, moved)
      /\ Size(t, t.nodes \ Evictable(t)) \in Nat
  <2>1. t.nodes \ Evictable(t) \in SUBSET t.nodes /\ moved \in SUBSET t.nodes
    BY <1>4
  <2>2. QED
    BY <1>5, <2>1, SizeSum
<1>10. Counted(t) => Counted(u)
  BY <1>1, <1>2, <1>6, <1>7, <1>9 DEF Counted
<1>11. LeavesCounted(t) => LeavesCounted(u)
  BY <1>1, <1>2, <1>6, <1>8 DEF LeavesCounted
<1>12. QED
  BY <1>10, <1>11 DEF u

\* unlock_handle moves the sizes of the nodes whose count comes to zero.
LEMMA UnlockCounts ==
  ASSUME NEW t, TreeOK(t), NEW h, Holding(t, h), NEW c \in DOMAIN h
  PROVE  /\ Counted(t) => Counted(UnlockHandle(t, h[c]))
         /\ LeavesCounted(t) => LeavesCounted(UnlockHandle(t, h[c]))
<1> DEFINE g == h[c]
           u == UnlockHandle(t, g)
           moved == {n \in Path(t, g) : t.ref[n] = 1}
           leaves == {n \in moved : IsLeaf(t, n)}
<1>1. /\ u.nodes = t.nodes
      /\ \A n \in t.nodes : u.ref[n] = IF n \in Path(t, g) THEN t.ref[n] - 1 ELSE t.ref[n]
      /\ u.evictable = t.evictable + Size(t, moved)
      /\ u.protected = t.protected - Size(t, moved)
      /\ u.evictableLeaf = t.evictableLeaf + Size(t, leaves)
  BY DEF UnlockHandle, TreeOK, FieldsOK
<1>2. ASSUME NEW n \in Path(t, g)
      PROVE  t.ref[n] # 0
  <2>1. n \in t.nodes /\ c \in Below(h, n)
    BY DEF Path, Below
  <2>2. IsFiniteSet(Below(h, n))
    <3>1. Below(h, n) \in SUBSET Client
      BY DEF Holding, Below
    <3>2. QED
      BY <3>1, ClientAssumption, FS_Subset
  <2>3. QED
    BY <2>1, <2>2, FS_EmptySet DEF Holding
<1> HIDE DEF u, g
<1>3. (\A X : Size(u, X) = Size(t, X)) /\ \A n : IsLeaf(u, n) <=> IsLeaf(t, n)
  BY <1>1, SameNodes
<1>4. \A n \in t.nodes : t.ref[n] \in Nat
  BY DEF TreeOK, FieldsOK
<1>5. /\ moved \cap Evictable(t) = {} /\ Evictable(t) \subseteq t.nodes /\ moved \subseteq t.nodes
      /\ Evictable(u) = Evictable(t) \cup moved
      /\ leaves \cap EvictableLeaves(t) = {} /\ EvictableLeaves(t) \subseteq t.nodes
      /\ leaves \subseteq t.nodes
      /\ EvictableLeaves(u) = EvictableLeaves(t) \cup leaves
  <2>1. moved \subseteq t.nodes /\ Evictable(t) \subseteq t.nodes /\ moved \cap Evictable(t) = {}
    BY DEF Evictable, Path
  <2>2. \A n \in t.nodes : u.ref[n] = 0 <=> t.ref[n] = 0 \/ n \in moved
    BY <1>1, <1>2, <1>4
  <2>3. Evictable(u) = Evictable(t) \cup moved
    BY <1>1, <2>1, <2>2 DEF Evictable
  <2>4. QED
    BY <1>3, <2>1, <2>3 DEF EvictableLeaves
<1>6. t.nodes \ Evictable(u) = (t.nodes \ Evictable(t)) \ moved
      /\ moved \subseteq t.nodes \ Evictable(t)
  BY <1>5
<1>7. t.evictable \in Int /\ t.protected \in Int /\ t.evictableLeaf \in Int
  BY DEF TreeOK, FieldsOK
<1> HIDE DEF moved, leaves
<1>8. /\ Size(t, Evictable(u)) = Size(t, Evictable(t)) + Size(t, moved)
      /\ Size(t, Evictable(t)) \in Nat /\ Size(t, moved) \in Nat
  <2>1. /\ Evictable(t) \in SUBSET t.nodes /\ moved \in SUBSET t.nodes
        /\ Evictable(u) = Evictable(t) \cup moved /\ Evictable(t) \cap moved = {}
    BY <1>5
  <2>2. QED
    BY <2>1, SizeSum
<1>9. /\ Size(t, EvictableLeaves(u)) = Size(t, EvictableLeaves(t)) + Size(t, leaves)
      /\ Size(t, EvictableLeaves(t)) \in Nat /\ Size(t, leaves) \in Nat
  <2>1. /\ EvictableLeaves(t) \in SUBSET t.nodes /\ leaves \in SUBSET t.nodes
        /\ EvictableLeaves(u) = EvictableLeaves(t) \cup leaves /\ EvictableLeaves(t) \cap leaves = {}
    BY <1>5
  <2>2. QED
    BY <2>1, SizeSum
<1>10. Size(t, t.nodes \ Evictable(t)) = Size(t, t.nodes \ Evictable(u)) + Size(t, moved)
       /\ Size(t, t.nodes \ Evictable(u)) \in Nat
  <2>1. /\ t.nodes \ Evictable(u) \in SUBSET t.nodes /\ moved \in SUBSET t.nodes
        /\ t.nodes \ Evictable(t) = (t.nodes \ Evictable(u)) \cup moved
        /\ (t.nodes \ Evictable(u)) \cap moved = {}
    BY <1>5, <1>6
  <2>2. QED
    BY <2>1, SizeSum
<1>11. Counted(t) => Counted(u)
  BY <1>1, <1>3, <1>7, <1>8, <1>10 DEF Counted
<1>12. LeavesCounted(t) => LeavesCounted(u)
  BY <1>1, <1>3, <1>7, <1>9 DEF LeavesCounted
<1>13. QED
  BY <1>11, <1>12 DEF u, g

\* As many prefixes of a sequence are longer than a prefix of it as the
\* sequence is longer.
LEMMA PrefixesBeyond ==
  ASSUME NEW s \in Seq(Block), NEW p \in Seq(Block), IsPrefix(p, s)
  PROVE  LET B == {q \in Prefixes(s) : Len(q) > Len(p)}
         IN IsFiniteSet(B) /\ Cardinality(B) = Len(s) - Len(p)
<1> DEFINE B == {q \in Prefixes(s) : Len(q) > Len(p)}
           I == (Len(p) + 1)..Len(s)
           f == [l \in I |-> SubSeq(s, 1, l)]
<1>1. Len(p) \in Nat /\ Len(s) \in Nat /\ Len(p) <= Len(s)
  BY PrefixLen
<1>2. \A l \in I : SubSeq(s, 1, l) \in B /\ Len(SubSeq(s, 1, l)) = l
  BY <1>1 DEF Prefixes
<1>3. \A q \in B : \E l \in I : q = SubSeq(s, 1, l)
  BY <1>1 DEF Prefixes
<1>4. f \in Bijection(I, B)
  <2>1. f \in Injection(I, B)
    BY <1>2 DEF Injection, IsInjective
  <2>2. f \in Surjection(I, B)
    BY <1>2, <1>3 DEF Surjection
  <2>3. QED
    BY <2>1, <2>2 DEF Bijection
<1>5. IsFiniteSet(I) /\ Cardinality(I) = Len(s) - Len(p)
  <2>1. PICK a \in Nat, b \in Nat : a = Len(p) /\ b = Len(s) /\ a <= b
    BY <1>1
  <2>2. IsFiniteSet((a + 1)..b) /\ Cardinality((a + 1)..b) = b - a
    <3>1. PICK x \in Int : x = a + 1
      OBVIOUS
    <3>2. b \in Int /\ (x > b => b - a = 0) /\ b - x + 1 = b - a
      BY <2>1, <3>1
    <3>3. IsFiniteSet(x..b) /\ Cardinality(x..b) = IF x > b THEN 0 ELSE b - x + 1
      BY <3>2, FS_Interval
    <3>4. Cardinality(x..b) = b - a
      BY <3>2, <3>3
    <3>5. QED
      BY <3>1, <3>3, <3>4
  <2>3. QED
    BY <2>1, <2>2
<1> HIDE DEF I, B, f
<1>6. ExistsBijection(I, B)
  BY <1>4 DEF ExistsBijection
<1>7. IsFiniteSet(B) /\ Cardinality(B) = Cardinality(I)
  BY <1>5, <1>6, FS_Bijection
<1>8. QED
  BY <1>5, <1>7 DEF B

\* What insert_prefix makes when part of ids is missing: the walked tree with
\* one more node, which owns the keys that were missing.
LEMMA NewLeafIs ==
  ASSUME NEW t, TreeOK(t), NEW ids \in Key, NEW pages \in [1..Len(ids) -> Page],
         Matched(t, ids) # ids
  PROVE  LET w == Walk(t, ids)
             p == Matched(t, ids)
             u == InsertPrefix(t, ids, pages)
             new == {q \in Prefixes(ids) : Len(q) > Len(p)}
         IN /\ u.nodes = w.nodes \cup {ids} /\ ids \notin w.nodes
            /\ u.ref[ids] = 0 /\ \A n \in w.nodes : u.ref[n] = w.ref[n]
            /\ u.evictable = w.evictable + Cardinality(new)
            /\ u.protected = w.protected
            /\ u.evictableLeaf = w.evictableLeaf + Cardinality(new)
                 - (IF p \in EvictableLeaves(w) THEN Size(w, {p}) ELSE 0)
            /\ IsFiniteSet(new) /\ new \cap Cached(t) = {}
            /\ Cached(u) = Cached(t) \cup new
            /\ Own(u, ids) \subseteq new
            /\ ~ IsLeaf(u, p)
<1> DEFINE w == Walk(t, ids)
           p == Matched(t, ids)
           u == InsertPrefix(t, ids, pages)
           new == {q \in Prefixes(ids) : Len(q) > Len(p)}
<1>1. /\ TreeOK(w) /\ w.page = t.page
      /\ w.nodes = t.nodes \cup ({p} \ {Root})
      /\ Matched(w, ids) = p
  BY WalkKeeps
<1>2. /\ p \in Key /\ p \in Cached(t) \cup {Root} /\ IsPrefix(p, ids)
      /\ \A q \in Cached(t) : IsPrefix(q, ids) => IsPrefix(q, p)
  BY MatchFacts DEF TreeOK
<1>3. /\ ids \in Seq(Block) /\ p \in Seq(Block) /\ Root \in Seq(Block)
      /\ Cached(t) \subseteq Seq(Block) \ {Root} /\ t.nodes \subseteq Cached(t)
  BY <1>2, KeyClosed, CachedKey DEF TreeOK
<1>4. \A q \in Prefixes(ids) : q \in Key /\ q \in Seq(Block) /\ IsPrefix(q, ids)
  BY <1>3, KeyClosed, PrefixesAre
<1>5. IsFiniteSet(new) /\ Cardinality(new) = Len(ids) - Len(p)
  BY <1>2, <1>3, PrefixesBeyond
<1>6. ASSUME NEW q \in Prefixes(ids)
      PROVE  q \in Cached(t) \cup {Root} <=> Len(q) <= Len(p)
  <2>1. q \in Cached(t) \cup {Root} => IsPrefix(q, p)
    BY <1>2, <1>3, <1>4, PrefixOrder
  <2>2. IsPrefix(q, p) \/ IsPrefix(p, q)
    BY <1>2, <1>3, <1>4, PrefixOrder
  <2>3. IsPrefix(q, p) <=> Len(q) <= Len(p)
    BY <1>3, <1>4, <2>2, PrefixLen, PrefixOrder
  <2>4. IsPrefix(q, p) => q \in Cached(t) \cup {Root}
    <3>1. CASE p = Root
      BY <1>4, <3>1, PrefixOrder
    <3>2. CASE p # Root
      BY <1>2, <1>4, <3>2, CachedKey DEF TreeOK
    <3>3. QED
      BY <3>1, <3>2
  <2>5. QED
    BY <2>1, <2>3, <2>4
<1>7. new \cap Cached(t) = {} /\ Prefixes(ids) \ {Root} \subseteq Cached(t) \cup new
      /\ new \subseteq Prefixes(ids) \ {Root}
  <2>1. \A q \in Prefixes(ids) : Len(q) \in Nat
    BY <1>4
  <2>2. Len(p) \in Nat
    BY <1>3
  <2>3. QED
    BY <1>6, <2>1, <2>2
<1>8. ids \notin Cached(t) /\ ids # Root /\ ids \in Prefixes(ids)
  <2>1. ids \in Prefixes(ids)
    BY <1>3, PrefixOrder, PrefixesAre
  <2>2. Len(ids) <= Len(p) => ids = p
    BY <1>2, <1>3, PrefixLen
  <2>3. QED
    BY <1>6, <2>1, <2>2
<1>9. ids \notin w.nodes
  BY <1>1, <1>3, <1>8
<1> DEFINE N == w.nodes \cup {ids}
           r == [n \in N |-> IF n = ids THEN 0 ELSE w.ref[n]]
           g == [q \in Cached(t) \cup (Prefixes(ids) \ {Root}) |->
                   IF q \in Cached(t) THEN t.page[q] ELSE pages[Len(q)]]
           left == IF p # Root /\ IsLeaf(w, p) /\ w.ref[p] = 0 THEN Size(w, {p}) ELSE 0
<1>10. /\ u.nodes = N /\ u.ref = r /\ u.page = g
       /\ u.evictable = w.evictable + (Len(ids) - Len(p))
       /\ u.evictableLeaf = w.evictableLeaf - left + (Len(ids) - Len(p))
       /\ u.protected = w.protected
  BY <1>1 DEF InsertPrefix, NewLeaf, Cached
<1>11. left = IF p \in EvictableLeaves(w) THEN Size(w, {p}) ELSE 0
  <2>1. p \in w.nodes <=> p # Root
    BY <1>1 DEF TreeOK, NodesOK
  <2>2. QED
    BY <2>1 DEF EvictableLeaves, Evictable
<1>12. left \in Nat
  <2>1. CASE p \in EvictableLeaves(w)
    <3>1. {p} \in SUBSET w.nodes
      BY <2>1 DEF EvictableLeaves, Evictable
    <3>2. QED
      BY <1>1, <1>11, <2>1, <3>1, SizeType DEF TreeOK
  <2>2. QED
    BY <1>11, <2>1
<1>13. Cached(u) = Cached(t) \cup new
  BY <1>7, <1>10 DEF Cached
<1>14. Own(u, ids) \subseteq new
  <2>1. ASSUME NEW q \in Own(u, ids)
        PROVE  Len(q) > Len(p)
    <3>1. q \in Prefixes(ids) /\ q # Root /\ \A m \in Path(u, ids) \ {ids} : Len(m) < Len(q)
      BY DEF Own
    <3>2. CASE p = Root
      <4>1. Len(p) = 0 /\ Len(q) \in Nat /\ Len(q) # 0
        BY <1>4, <3>1, <3>2 DEF Root
      <4>2. QED
        BY <4>1
    <3>3. CASE p # Root
      <4>1. p \in Path(u, ids) \ {ids}
        BY <1>1, <1>2, <1>10, <3>3 DEF Path
      <4>2. QED
        BY <1>3, <1>4, <3>1, <4>1
    <3>4. QED
      BY <3>2, <3>3
  <2>2. QED
    BY <2>1 DEF Own
<1>15. ~ IsLeaf(u, p)
  BY <1>2, <1>10 DEF IsLeaf, IsStrictPrefix
<1>16. u.ref[ids] = 0 /\ \A n \in w.nodes : u.ref[n] = w.ref[n]
  BY <1>9, <1>10
<1>17. w.evictableLeaf \in Int /\ Len(ids) - Len(p) \in Int
  BY <1>1, <1>3 DEF TreeOK, FieldsOK
<1> HIDE DEF w, p, u, new, r, g, left
<1>18. u.evictableLeaf = w.evictableLeaf + Cardinality(new) - left
  BY <1>5, <1>10, <1>12, <1>17
<1>19. u.evictableLeaf = w.evictableLeaf + Cardinality(new)
         - (IF p \in EvictableLeaves(w) THEN Size(w, {p}) ELSE 0)
  BY <1>11, <1>18
<1>20. u.nodes = w.nodes \cup {ids} /\ u.evictable = w.evictable + Cardinality(new)
  BY <1>5, <1>10
<1>21. QED
  BY <1>5, <1>7, <1>9, <1>10, <1>13, <1>14, <1>15, <1>16, <1>19, <1>20 DEF w, p, u, new

\* A new leaf is evictable, and its parent stops being a leaf: what it was
\* worth in evictable_leaf_size, if anything, goes.
LEMMA InsertCounts ==
  ASSUME NEW t, TreeOK(t), NEW h, Holding(t, h), NEW ids \in Key, NEW pages \in [1..Len(ids) -> Page]
  PROVE  /\ Counted(t) => Counted(InsertPrefix(t, ids, pages))
         /\ LeavesCounted(t) => LeavesCounted(InsertPrefix(t, ids, pages))
<1> DEFINE w == Walk(t, ids)
           p == Matched(t, ids)
           u == InsertPrefix(t, ids, pages)
           new == {q \in Prefixes(ids) : Len(q) > Len(p)}
<1>1. /\ TreeOK(w) /\ Holding(w, h) /\ w.page = t.page
      /\ Counted(t) => Counted(w)
      /\ LeavesCounted(t) => LeavesCounted(w)
  BY WalkKeeps, WalkCounts
<1>2. CASE p = ids
  BY <1>1, <1>2 DEF InsertPrefix
<1>3. CASE p # ids
  <2>1. /\ u.nodes = w.nodes \cup {ids} /\ ids \notin w.nodes
        /\ u.ref[ids] = 0 /\ \A n \in w.nodes : u.ref[n] = w.ref[n]
        /\ u.evictable = w.evictable + Cardinality(new)
        /\ u.protected = w.protected
        /\ u.evictableLeaf = w.evictableLeaf + Cardinality(new)
             - (IF p \in EvictableLeaves(w) THEN Size(w, {p}) ELSE 0)
        /\ IsFiniteSet(new) /\ new \cap Cached(t) = {}
        /\ Cached(u) = Cached(t) \cup new
        /\ Own(u, ids) \subseteq new
        /\ ~ IsLeaf(u, p)
    BY <1>3, NewLeafIs
  <2>2. TreeOK(u) /\ Holding(u, h)
    BY InsertKeeps
  <2>3. Cardinality(new) \in Nat
    BY <2>1, FS_CardinalityType
  <2>4. \A q \in new : \A c \in DOMAIN h : ~ IsPrefix(q, h[c])
    <3>1. \A c \in DOMAIN h : h[c] \in t.nodes \cup {Root}
      BY DEF Holding
    <3>2. \A q \in new : q \in Key /\ q \in Seq(Block) /\ q # Root
      <4>1. ids \in Seq(Block) /\ \A q \in Prefixes(ids) : q \in Key /\ q \in Seq(Block)
        BY KeyClosed, PrefixesAre
      <4>2. Len(p) \in Nat /\ Len(Root) = 0
        BY MatchFacts, KeyClosed DEF TreeOK, Root
      <4>3. QED
        BY <4>1, <4>2
    <3> HIDE DEF new
    <3>3. \A q \in new : \A n \in t.nodes : ~ IsPrefix(q, n)
      BY <2>1, <3>2, CachedKey DEF TreeOK
    <3>4. QED
      BY <3>1, <3>2, <3>3, PrefixOrder
  <2> HIDE DEF w, p, u, new
  <2>5. Counted(w) => Counted(u)
    <3>1. /\ Free(u, h) = Free(w, h) \cup new /\ Free(w, h) \cap new = {}
          /\ Cached(u) \ Free(u, h) = Cached(w) \ Free(w, h)
          /\ Free(w, h) \in SUBSET Cached(w)
      BY <1>1, <2>1, <2>4 DEF Free, Cached
    <3>2. IsFiniteSet(Free(w, h))
      BY <1>1, <3>1, CachedKey, FS_Subset DEF TreeOK
    <3>3. Cardinality(Free(w, h) \cap new) = 0
      BY <3>1, FS_EmptySet
    <3>4. Cardinality(Free(w, h) \cup new) = Cardinality(Free(w, h)) + Cardinality(new) - Cardinality(Free(w, h) \cap new)
      BY <2>1, <3>2, FS_Union
    <3>5. Cardinality(Free(u, h)) = Cardinality(Free(w, h)) + Cardinality(new)
      <4>1. Cardinality(Free(w, h)) \in Nat
        BY <3>2, FS_CardinalityType
      <4>2. Cardinality(Free(u, h)) = Cardinality(Free(w, h) \cup new)
        BY <3>1
      <4>3. QED
        BY <2>3, <3>3, <3>4, <4>1, <4>2
    <3>6. Cardinality(Cached(u) \ Free(u, h)) = Cardinality(Cached(w) \ Free(w, h))
      BY <3>1
    <3>7. /\ Counted(u) <=> /\ u.evictable = Cardinality(Free(u, h))
                            /\ u.protected = Cardinality(Cached(u) \ Free(u, h))
          /\ Counted(w) <=> /\ w.evictable = Cardinality(Free(w, h))
                            /\ w.protected = Cardinality(Cached(w) \ Free(w, h))
      BY <1>1, <2>2, CountedIs
    <3>8. QED
      BY <2>1, <3>5, <3>6, <3>7
  <2>6. LeavesCounted(w) => LeavesCounted(u)
    <3> DEFINE E == EvictableLeaves(u)
               F == EvictableLeaves(w)
               O == UNION {Own(w, n) : n \in F \ {p}}
               left == IF p \in F THEN Size(w, {p}) ELSE 0
    <3>1. (\A n : Own(u, n) \subseteq Own(w, n)) /\ \A n : IsLeaf(u, n) => IsLeaf(w, n)
      BY <2>1, MoreNodes
    <3>2. E \subseteq (F \ {p}) \cup {ids}
      BY <2>1, <3>1 DEF EvictableLeaves, Evictable
    <3>3. E \in SUBSET u.nodes /\ F \in SUBSET w.nodes /\ F \ {p} \in SUBSET w.nodes
      BY DEF EvictableLeaves, Evictable
    <3>4. NodesOK(w) /\ NodesOK(u)
      BY <1>1, <2>2 DEF TreeOK
    <3>5. Size(w, F) = Size(w, F \ {p}) + left /\ left \in Nat /\ Size(w, F \ {p}) \in Nat
      <4>1. CASE p \in F
        <5>1. {p} \in SUBSET w.nodes /\ F = (F \ {p}) \cup {p} /\ (F \ {p}) \cap {p} = {}
          BY <3>3, <4>1
        <5> HIDE DEF F
        <5>2. QED
          BY <1>1, <3>3, <4>1, <5>1, SizeSum
      <4>2. CASE p \notin F
        <5>1. F \ {p} = F
          BY <4>2
        <5> HIDE DEF F
        <5>2. Size(w, F \ {p}) \in Nat
          BY <3>3, <3>4, SizeType
        <5>3. left = 0 /\ Size(w, F \ {p}) = Size(w, F)
          BY <4>2, <5>1
        <5> HIDE DEF left
        <5>4. QED
          BY <5>2, <5>3
      <4>3. QED
        BY <4>1, <4>2
    <3> HIDE DEF E, F
    <3>6. (UNION {Own(u, n) : n \in E}) \in SUBSET (O \cup new)
      BY <2>1, <3>1, <3>2
    <3>7. IsFiniteSet(O) /\ Cardinality(O) = Size(w, F \ {p})
      BY <3>3, <3>4, SizeType DEF Size
    <3> HIDE DEF O, left
    <3>8. /\ IsFiniteSet(O \cup new)
          /\ Cardinality(O \cup new) = Cardinality(O) + Cardinality(new) - Cardinality(O \cap new)
          /\ Cardinality(O \cap new) \in Nat
      BY <2>1, <3>7, FS_Union, FS_Intersection, FS_CardinalityType
    <3>9. Size(u, E) <= Cardinality(O \cup new)
      BY <3>6, <3>8, FS_Subset DEF Size
    <3>10. Size(u, E) \in Nat
      BY <3>3, <3>4, SizeType
    <3>11. u.evictableLeaf = w.evictableLeaf + Cardinality(new) - left /\ w.evictableLeaf \in Int
      BY <1>1, <2>1 DEF left, F, TreeOK, FieldsOK
    <3>12. Cardinality(O \cup new) <= Size(w, F \ {p}) + Cardinality(new)
      BY <2>3, <3>5, <3>7, <3>8
    <3>13. Size(u, E) <= Size(w, F) - left + Cardinality(new)
      BY <2>3, <3>5, <3>8, <3>9, <3>10, <3>12, <3>7
    <3>14. Size(w, F) <= w.evictableLeaf => Size(u, E) <= u.evictableLeaf
      BY <2>3, <3>5, <3>10, <3>11, <3>13
    <3>15. QED
      BY <3>5, <3>10, <3>11, <3>14, <2>3 DEF LeavesCounted, E, F
  <2>7. QED
    BY <1>1, <2>5, <2>6 DEF u
<1>4. QED
  BY <1>2, <1>3

\* evict takes the sizes of the victims from the counters, and gives
\* evictable_leaf_size those of the parents that became leaves.
LEMMA EvictCounts ==
  ASSUME NEW t, TreeOK(t), NEW h, Holding(t, h), NEW size \in Nat
  PROVE  LET u    == Evict(t, size)
             gone == Victims(t, size)
         IN /\ Counted(t) => Counted(u)
            /\ LeavesCounted(t) => LeavesCounted(u)
            /\ Evictable(u) = Evictable(t) \ gone
            /\ Cardinality(Cached(u)) = Cardinality(Cached(t)) - Size(t, gone)
            /\ Cardinality(Cached(t)) \in Nat /\ Size(t, gone) \in Nat
<1> DEFINE gone == Victims(t, size)
           u == Evict(t, size)
           N == t.nodes \ gone
           lost == UNION {Own(t, n) : n \in gone}
           leaves == {n \in N : t.ref[n] = 0 /\ ~ IsLeaf(t, n)
                                /\ \A m \in t.nodes : IsStrictPrefix(n, m) => m \in gone}
           lonely == {n \in gone : ~ IsLeaf(t, n)}
           E == EvictableLeaves(u)
           F == EvictableLeaves(t)
<1>1. /\ gone \subseteq Evictable(t)
      /\ \A n \in gone : \A m \in t.nodes : IsPrefix(n, m) => m \in gone
  BY VictimsAre
<1>2. Evictable(t) \subseteq t.nodes /\ gone \subseteq t.nodes
  BY <1>1 DEF Evictable
<1>3. /\ u.nodes = N /\ (\A n \in N : u.ref[n] = t.ref[n])
      /\ Cached(u) = Cached(t) \ lost
      /\ u.evictable = t.evictable - Size(t, gone)
      /\ u.evictableLeaf = t.evictableLeaf - Size(t, gone) + Size(t, lonely \cup leaves)
      /\ u.protected = t.protected
  BY DEF Evict, Drop, Cached
<1>4. TreeOK(u) /\ Holding(u, h)
  BY EvictKeeps
<1> HIDE DEF gone, u
<1>5. Evictable(u) = Evictable(t) \ gone
  BY <1>3 DEF Evictable
<1>6. \A n \in N : Own(u, n) = Own(t, n)
  <2>1. \A n \in N : Path(u, n) = Path(t, n)
    BY <1>1, <1>3 DEF Path
  <2>2. QED
    BY <2>1 DEF Own
<1>7. \A S \in SUBSET N : Size(u, S) = Size(t, S)
  <2>1. ASSUME NEW S \in SUBSET N
        PROVE  UNION {Own(u, n) : n \in S} = UNION {Own(t, n) : n \in S}
    BY <1>6
  <2>2. QED
    BY <2>1 DEF Size
<1>8. E = (F \ gone) \cup leaves /\ (F \ gone) \cap leaves = {}
  <2>1. \A n \in N : IsLeaf(u, n) <=> \A m \in t.nodes : IsStrictPrefix(n, m) => m \in gone
    BY <1>3 DEF IsLeaf
  <2>2. \A n \in N : IsLeaf(t, n) => IsLeaf(u, n)
    BY <1>3 DEF IsLeaf
  <2>3. \A n : n \in E <=> n \in N /\ t.ref[n] = 0 /\ IsLeaf(u, n)
    BY <1>3 DEF EvictableLeaves, Evictable
  <2>4. \A n : n \in F <=> n \in t.nodes /\ t.ref[n] = 0 /\ IsLeaf(t, n)
    BY DEF EvictableLeaves, Evictable
  <2> HIDE DEF E, F
  <2>5. QED
    BY <2>1, <2>2, <2>3, <2>4
<1>9. gone = (F \cap gone) \cup lonely /\ (F \cap gone) \cap lonely = {}
      /\ F = (F \ gone) \cup (F \cap gone) /\ (F \ gone) \cap (F \cap gone) = {}
      /\ lonely \cap leaves = {}
  BY <1>1 DEF EvictableLeaves
<1>10. F \in SUBSET t.nodes /\ leaves \in SUBSET t.nodes /\ lonely \in SUBSET t.nodes
       /\ E \in SUBSET N
  BY <1>2, <1>3 DEF EvictableLeaves, Evictable
<1>11. Size(u, E) = Size(t, E)
  BY <1>7, <1>10
<1> HIDE DEF E, F, leaves, lonely
<1>12. Size(t, E) = Size(t, F \ gone) + Size(t, leaves)
       /\ Size(t, E) \in Nat /\ Size(t, F \ gone) \in Nat /\ Size(t, leaves) \in Nat
  <2>1. F \ gone \in SUBSET t.nodes
    BY <1>10
  <2>2. QED
    BY <1>8, <1>10, <2>1, SizeSum
<1>13. Size(t, gone) = Size(t, F \cap gone) + Size(t, lonely)
       /\ Size(t, gone) \in Nat /\ Size(t, F \cap gone) \in Nat /\ Size(t, lonely) \in Nat
  <2>1. F \cap gone \in SUBSET t.nodes
    BY <1>10
  <2>2. QED
    BY <1>9, <1>10, <2>1, SizeSum
<1>14. Size(t, F) = Size(t, F \ gone) + Size(t, F \cap gone) /\ Size(t, F) \in Nat
  <2>1. PICK A \in SUBSET t.nodes, B \in SUBSET t.nodes : A = F \ gone /\ B = F \cap gone
    BY <1>10
  <2>2. F = A \cup B /\ A \cap B = {}
    BY <1>9, <2>1
  <2>3. Size(t, F) = Size(t, A) + Size(t, B) /\ Size(t, F) \in Nat
    BY <2>2, SizeSum
  <2>4. QED
    BY <2>1, <2>3
<1>15. Size(t, lonely \cup leaves) = Size(t, lonely) + Size(t, leaves)
  BY <1>9, <1>10, SizeSum
<1>16. LeavesCounted(t) => LeavesCounted(u)
  <2>1. t.evictableLeaf \in Int
    BY DEF TreeOK, FieldsOK
  <2>2. Size(t, F) <= t.evictableLeaf => Size(u, E) <= u.evictableLeaf
    BY <1>3, <1>11, <1>12, <1>13, <1>14, <1>15, <2>1
  <2>3. u.evictableLeaf \in Int
    BY <1>4 DEF TreeOK, FieldsOK
  <2>4. QED
    BY <1>11, <1>12, <1>14, <2>1, <2>2, <2>3 DEF LeavesCounted, E, F
<1>17. Counted(t) => Counted(u)
  <2>1. gone \in SUBSET t.nodes /\ Evictable(u) \in SUBSET t.nodes /\ Evictable(u) \in SUBSET N
        /\ Evictable(t) = Evictable(u) \cup gone /\ Evictable(u) \cap gone = {}
        /\ N \ Evictable(u) = t.nodes \ Evictable(t) /\ N \ Evictable(u) \in SUBSET N
    BY <1>1, <1>2, <1>5
  <2>2. Size(t, Evictable(t)) = Size(t, Evictable(u)) + Size(t, gone)
        /\ Size(t, Evictable(u)) \in Nat /\ Size(t, Evictable(t)) \in Nat
    BY <2>1, SizeSum
  <2>3. Size(u, Evictable(u)) = Size(t, Evictable(u))
    BY <1>7, <2>1
  <2>4. Size(u, N \ Evictable(u)) = Size(t, t.nodes \ Evictable(t))
    BY <1>7, <2>1
  <2>5. QED
    BY <1>3, <1>13, <2>2, <2>3, <2>4 DEF Counted
<1>18. /\ Cardinality(Cached(u)) = Cardinality(Cached(t)) - Size(t, gone)
       /\ Cardinality(Cached(t)) \in Nat
  <2>1. gone \in SUBSET t.nodes
    BY <1>2
  <2>2. lost \in SUBSET Cached(t) /\ Size(t, gone) = Cardinality(lost)
    BY <2>1, SizeType DEF TreeOK, Size
  <2>3. IsFiniteSet(Cached(t))
    BY CachedKey DEF TreeOK
  <2> HIDE DEF lost
  <2>4. Cached(t) \cap lost = lost
    BY <2>2
  <2>5. Cardinality(Cached(t) \ lost) = Cardinality(Cached(t)) - Cardinality(Cached(t) \cap lost)
    BY <2>3, FS_Difference
  <2>6. QED
    BY <1>3, <2>2, <2>3, <2>4, <2>5, FS_CardinalityType
<1>19. QED
  BY <1>5, <1>13, <1>16, <1>17, <1>18 DEF gone, u

\* Where something is evictable, a leaf is.
LEMMA LeafBelow ==
  ASSUME NEW t, TreeOK(t), NEW h, Holding(t, h), Evictable(t) # {}
  PROVE  EvictableLeaves(t) # {}
<1> DEFINE lens == {Len(n) : n \in Evictable(t)}
<1>1. Evictable(t) \in SUBSET t.nodes /\ t.nodes \subseteq Seq(Block)
  BY KeyClosed DEF Evictable, TreeOK, NodesOK
<1>2. lens \in SUBSET Nat /\ lens # {} /\ IsFiniteSet(lens)
  <2>1. [n \in Evictable(t) |-> Len(n)] \in Surjection(Evictable(t), lens)
    BY DEF Surjection
  <2>2. IsFiniteSet(Evictable(t))
    BY <1>1, FS_Subset DEF TreeOK, NodesOK
  <2>3. IsFiniteSet(lens)
    BY <2>1, <2>2, FS_Surjection
  <2>4. lens \subseteq Nat
    BY <1>1
  <2>5. lens # {}
    OBVIOUS
  <2> HIDE DEF lens
  <2>6. QED
    BY <2>3, <2>4, <2>5
<1>3. PICK k \in lens : \A l \in lens : l <= k
  <2> HIDE DEF lens
  <2>1. QED
    BY <1>2, FiniteMax
<1>4. PICK n \in Evictable(t) : k = Len(n)
  BY <1>3
<1>5. ASSUME NEW m \in t.nodes, IsStrictPrefix(n, m)
      PROVE  FALSE
  <2>1. IsPrefix(n, m) /\ n # m
    BY <1>5 DEF IsStrictPrefix
  <2>2. m \in Evictable(t)
    BY <2>1, EvictableBelow
  <2>3. Len(m) <= Len(n)
    BY <1>3, <1>4, <2>2
  <2>4. QED
    BY <1>1, <2>1, <2>3, PrefixLen
<1>6. n \in EvictableLeaves(t)
  BY <1>5 DEF EvictableLeaves, IsLeaf
<1>7. QED
  BY <1>6

\* A nonempty finite set of numbers has a least element: its distance from the
\* greatest is the greatest.
LEMMA FiniteMin ==
  ASSUME NEW S \in SUBSET Nat, IsFiniteSet(S), S # {}
  PROVE  \E x \in S : \A y \in S : x <= y
<1>1. PICK k \in S : \A y \in S : y <= k
  BY FiniteMax
<1> DEFINE D == {k - y : y \in S}
<1>2. D \subseteq Nat
  <2>1. \A y \in S : k - y \in Nat
    BY <1>1
  <2>2. QED
    BY <2>1
<1>3. D # {}
  OBVIOUS
<1>4. IsFiniteSet(D)
  <2>1. [y \in S |-> k - y] \in Surjection(S, D)
    BY DEF Surjection
  <2>2. QED
    BY <2>1, FS_Surjection
<1>5. PICK d \in D : \A e \in D : e <= d
  <2> HIDE DEF D
  <2>1. QED
    BY <1>2, <1>3, <1>4, FiniteMax
<1>6. PICK x \in S : d = k - x
  BY <1>5
<1>7. \A y \in S : k - y <= k - x
  BY <1>5, <1>6
<1>8. QED
  BY <1>7

\* Among some nodes one is popped before, or no later than, all the others.
LEMMA FirstPopped ==
  ASSUME NEW t, TreeOK(t), NEW R \in SUBSET t.nodes, R # {}
  PROVE  \E n \in R : \A m \in R : ~ PoppedBefore(t, m, n)
<1> DEFINE S == {SubtreeStamp(t, m) : m \in R}
<1>1. S \subseteq Nat /\ S # {} /\ IsFiniteSet(S)
  <2>1. [m \in R |-> SubtreeStamp(t, m)] \in Surjection(R, S)
    BY DEF Surjection
  <2>2. IsFiniteSet(R)
    BY FS_Subset DEF TreeOK, NodesOK
  <2>3. IsFiniteSet(S)
    BY <2>1, <2>2, FS_Surjection
  <2>4. S \subseteq Nat
    BY SubtreeStampIs
  <2>5. S # {}
    OBVIOUS
  <2> HIDE DEF S
  <2>6. QED
    BY <2>3, <2>4, <2>5
<1>2. PICK s \in S : \A r \in S : s <= r
  <2> HIDE DEF S
  <2>1. QED
    BY <1>1, FiniteMin
<1> DEFINE T == {m \in R : SubtreeStamp(t, m) = s}
           lens == {Len(m) : m \in T}
<1>3. T # {} /\ T \in SUBSET t.nodes /\ t.nodes \subseteq Seq(Block)
  BY <1>2, KeyClosed DEF TreeOK, NodesOK
<1>4. lens \in SUBSET Nat /\ lens # {} /\ IsFiniteSet(lens)
  <2>1. [n \in T |-> Len(n)] \in Surjection(T, lens)
    BY DEF Surjection
  <2>2. IsFiniteSet(T)
    BY <1>3, FS_Subset DEF TreeOK, NodesOK
  <2>3. IsFiniteSet(lens)
    BY <2>1, <2>2, FS_Surjection
  <2>4. lens \subseteq Nat
    BY <1>3
  <2>5. lens # {}
    BY <1>3
  <2> HIDE DEF lens
  <2>6. QED
    BY <2>3, <2>4, <2>5
<1>5. PICK k \in lens : \A l \in lens : l <= k
  <2> HIDE DEF lens
  <2>1. QED
    BY <1>4, FiniteMax
<1>6. PICK n \in T : k = Len(n)
  BY <1>5
<1>7. ASSUME NEW m \in R, PoppedBefore(t, m, n)
      PROVE  FALSE
  <2>1. SubtreeStamp(t, n) = s /\ s <= SubtreeStamp(t, m) /\ s \in Nat /\ SubtreeStamp(t, m) \in Nat
    BY <1>1, <1>2
  <2>2. SubtreeStamp(t, m) = s /\ Len(m) > Len(n)
    BY <1>7, <2>1 DEF PoppedBefore
  <2>3. Len(m) <= Len(n) /\ Len(m) \in Nat /\ Len(n) \in Nat
    BY <1>3, <1>5, <1>6, <2>2
  <2>4. QED
    BY <2>2, <2>3
<1>8. QED
  BY <1>7

\* evict frees what it was asked for unless everything evictable goes.
LEMMA VictimsEnough ==
  ASSUME NEW t, TreeOK(t), NEW h, Holding(t, h), LeavesCounted(t), NEW size \in Nat
  PROVE  Victims(t, size) = Evictable(t) \/ Size(t, Victims(t, size)) >= size
<1>1. Evictable(t) \in SUBSET t.nodes /\ EvictableLeaves(t) \in SUBSET t.nodes
      /\ NodesOK(t)
  BY DEF Evictable, EvictableLeaves, TreeOK
<1>2. CASE t.evictableLeaf = 0
  <2>1. Size(t, EvictableLeaves(t)) \in Nat /\ Size(t, EvictableLeaves(t)) <= 0
    BY <1>1, <1>2, SizeType DEF LeavesCounted
  <2>2. Size(t, EvictableLeaves(t)) = 0
    BY <2>1
  <2>3. EvictableLeaves(t) = {}
    BY <1>1, <2>2, SizeLaws
  <2>4. Evictable(t) = {}
    BY <2>3, LeafBelow
  <2>5. QED
    BY <2>4 DEF Victims
<1>3. CASE t.evictableLeaf # 0
  <2> DEFINE gone == Victims(t, size)
             R == Evictable(t) \ gone
  <2>1. SUFFICES ASSUME R # {}
                 PROVE  Size(t, gone) >= size
    BY DEF Victims
  <2>2. R \in SUBSET t.nodes /\ gone \in SUBSET t.nodes
    BY <1>1 DEF Victims
  <2> HIDE DEF gone
  <2>3. PICK n \in R : \A m \in R : ~ PoppedBefore(t, m, n)
    BY <2>1, <2>2, FirstPopped
  <2> DEFINE B == {m \in Evictable(t) : PoppedBefore(t, m, n)}
  <2>4. B \subseteq gone
    BY <2>3
  <2>5. B \in SUBSET t.nodes
    BY <1>1
  <2>6. ~ (Size(t, B) < size)
    BY <1>3, <2>3 DEF gone, Victims
  <2> HIDE DEF B
  <2>7. Size(t, B) <= Size(t, gone) /\ Size(t, B) \in Nat /\ Size(t, gone) \in Nat
    BY <1>1, <2>2, <2>4, <2>5, SizeLaws
  <2>8. QED
    BY <2>6, <2>7 DEF gone
<1>4. QED
  BY <1>2, <1>3
=============================================================================
