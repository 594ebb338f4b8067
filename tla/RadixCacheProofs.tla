--------------------------- MODULE RadixCacheProofs ---------------------------
(***************************************************************************)
(* What the runs of MCRadixCache check on two blocks and two clients, for  *)
(* every set of blocks, pages and (finitely many) clients.                 *)
(***************************************************************************)
EXTENDS RadixTreeProofs

(***************************************************************************)
(* The inductive invariant.  TypeOK alone is not inductive: a handle stays *)
(* a node through an eviction only because its references are counted      *)
(* right, and a split copies the right count only because every node below *)
(* the new one is below its lower half, that is, because keys part at      *)
(* nodes.                                                                  *)
(***************************************************************************)
IInv == TreeOK(tree) /\ Holding(tree, held)

\* The empty tree without handles satisfies the invariant.
LEMMA InitIInv == Init => IInv
<1> SUFFICES ASSUME Init PROVE IInv
  OBVIOUS
<1>1. /\ tree.nodes = {} /\ tree.ref = <<>> /\ tree.stamp = <<>> /\ tree.page = <<>>
      /\ tree.evictable = 0 /\ tree.evictableLeaf = 0 /\ tree.protected = 0
      /\ tree = [nodes |-> tree.nodes, ref |-> tree.ref, stamp |-> tree.stamp,
                 page |-> tree.page, evictable |-> tree.evictable,
                 evictableLeaf |-> tree.evictableLeaf, protected |-> tree.protected]
  BY DEF Init, EmptyTree
<1>2. \A S : <<>> \in [{} -> S]
  OBVIOUS
<1>3. FieldsOK(tree)
  BY <1>1, <1>2 DEF FieldsOK, Cached
<1>4. NodesOK(tree)
  BY <1>1, FS_EmptySet DEF NodesOK, Branching, Cached
<1>5. Holding(tree, held)
  BY <1>1, <1>2 DEF Init, Holding
<1>6. QED
  BY <1>3, <1>4, <1>5 DEF IInv, TreeOK

\* The instance has the prefix operators of its own copy of SequencesExt.
LEMMA SamePrefixes ==
  \A p, s : /\ Abstract!IsPrefix(p, s) <=> IsPrefix(p, s)
            /\ Abstract!Prefixes(s) = Prefixes(s)
BY DEF Abstract!IsPrefix, IsPrefix, Abstract!Prefixes, Prefixes

\* Its evictable prefixes are the cached keys under no handle.
LEMMA SameEvictable ==
  /\ Abstract!Evictable = Free(tree, held)
  /\ \A S : Abstract!Cardinality(S) = Cardinality(S)
<1>1. Abstract!Evictable = Free(tree, held)
  BY SamePrefixes DEF Abstract!Evictable, Abstract!Stored, Abstract!Holder, Free, Cached
<1>2. \A S : Abstract!Cardinality(S) = Cardinality(S)
  BY DEF Abstract!Cardinality, Cardinality
<1>3. QED
  BY <1>1, <1>2

\* What one step does to the pages: those of a locked prefix stay.
PagesKept ==
  \A c \in Holder : \A p \in Cached(tree) :
    IsPrefix(p, held[c]) => p \in Cached(tree') /\ tree'.page[p] = tree.page[p]

\* One step of the cache keeps the invariant and the pages of every handle,
\* and is a step of the abstract cache or changes nothing there.
Good == IInv' /\ PagesKept /\ (Abstract!Next \/ UNCHANGED Abstract!vars)

\* match_req of a request that is skipped: the walk changes no page.
LEMMA MatchGood ==
  ASSUME IInv, NEW ids \in Key, Match(ids)
  PROVE  Good
<1>1. IInv' /\ tree'.page = tree.page /\ held' = held
  BY WalkKeeps DEF Match, IInv
<1>2. QED
  BY <1>1 DEF Good, PagesKept, Cached, Abstract!vars

\* match_req and lock of a request that is admitted.
LEMMA LockGood ==
  ASSUME IInv, NEW c \in Client, NEW ids \in Key, Lock(c, ids)
  PROVE  Good
<1> DEFINE w == Walk(tree, ids)
           g == Matched(tree, ids)
<1>1. /\ TreeOK(w) /\ w.page = tree.page /\ g \in w.nodes \cup {Root}
      /\ Holding(w, held)
  BY WalkKeeps DEF IInv
<1>2. /\ c \notin DOMAIN held /\ tree' = LockHandle(w, g)
      /\ held' = [x \in DOMAIN held \cup {c} |-> IF x = c THEN g ELSE held[x]]
  BY DEF Lock, Holder
<1> HIDE DEF w, g
<1>3. TreeOK(tree') /\ tree'.page = tree.page /\ Holding(tree', held')
  <2>1. /\ held' \in [DOMAIN held \cup {c} -> w.nodes \cup {Root}]
        /\ held'[c] = g /\ \A x \in DOMAIN held : held'[x] = held[x]
    BY <1>1, <1>2 DEF Holding
  <2>2. QED
    BY <1>1, <1>2, <2>1, LockKeeps
<1>4. Abstract!Lock(c, ids)
  <2>1. /\ g \in Key /\ g \in Cached(tree) \cup {Root} /\ IsPrefix(g, ids)
        /\ \A q \in Cached(tree) : IsPrefix(q, ids) => IsPrefix(q, g)
    BY MatchFacts DEF IInv, TreeOK, g
  <2>2. /\ ids \in Seq(Block) /\ g \in Seq(Block) /\ Cached(tree) \subseteq Seq(Block)
    BY <2>1, KeyClosed, CachedKey DEF IInv, TreeOK
  <2>3. g \in Prefixes(ids)
    BY <2>1, <2>2, PrefixesAre
  <2>4. \A p \in Prefixes(ids) \cap Cached(tree) : Len(p) <= Len(g)
    BY <2>1, <2>2, PrefixesAre, PrefixLen
  <2>5. QED
    BY <1>2, <1>3, <2>1, <2>3, <2>4, SamePrefixes
       DEF Abstract!Lock, Abstract!Holder, Abstract!Stored, Cached, Root
<1>5. QED
  BY <1>3, <1>4 DEF Good, PagesKept, Cached, IInv, Abstract!Next

\* unlock of a request whose prefill batch is aborted.
LEMMA UnlockGood ==
  ASSUME IInv, NEW c \in Client, Unlock(c)
  PROVE  Good
<1>1. /\ c \in DOMAIN held /\ tree' = UnlockHandle(tree, held[c])
      /\ held' = [x \in DOMAIN held \ {c} |-> held[x]]
  BY DEF Unlock, Holder
<1>2. TreeOK(tree') /\ tree'.page = tree.page /\ Holding(tree', held')
  BY <1>1, UnlockKeeps DEF IInv
<1>3. Abstract!Unlock(c)
  BY <1>1, <1>2 DEF Abstract!Unlock, Abstract!Holder
<1>4. QED
  BY <1>2, <1>3 DEF Good, PagesKept, Cached, IInv, Abstract!Next

\* cache_req of a request that goes on: its handle moves to the inserted key.
LEMMA CacheUnfinishedGood ==
  ASSUME IInv, NEW c \in Client, NEW ids \in Key, NEW pages \in [1..Len(ids) -> Page],
         CacheUnfinished(c, ids, pages)
  PROVE  Good
<1> DEFINE i == InsertPrefix(tree, ids, pages)
           u == UnlockHandle(i, held[c])
           k == [x \in DOMAIN held \ {c} |-> held[x]]
<1>0. TreeOK(tree) /\ Holding(tree, held)
  BY DEF IInv
<1>1. /\ TreeOK(i) /\ ids \in i.nodes \cup {Root} /\ Holding(i, held)
      /\ i.page = [q \in Cached(tree) \cup (Prefixes(ids) \ {Root}) |->
                     IF q \in Cached(tree) THEN tree.page[q] ELSE pages[Len(q)]]
  BY <1>0, InsertKeeps
<1>2. /\ c \in DOMAIN held /\ tree' = LockHandle(u, ids) /\ IsPrefix(held[c], ids)
      /\ held' = [held EXCEPT ![c] = ids]
  BY DEF CacheUnfinished, Holder
<1> HIDE DEF i
<1>3. TreeOK(u) /\ u.nodes = i.nodes /\ u.page = i.page /\ Holding(u, k)
  <2>1. TreeOK(i) /\ Holding(i, held) /\ c \in DOMAIN held
    BY <1>1, <1>2
  <2>2. QED
    BY <2>1, UnlockKeeps
<1>4. /\ held' \in [DOMAIN k \cup {c} -> u.nodes \cup {Root}]
      /\ held'[c] = ids /\ \A x \in DOMAIN k : held'[x] = k[x]
  <2>1. held \in [DOMAIN held -> i.nodes \cup {Root}]
    BY <1>1 DEF Holding
  <2>2. DOMAIN k \cup {c} = DOMAIN held
    BY <1>2
  <2>3. held' \in [DOMAIN held -> i.nodes \cup {Root}]
    BY <1>1, <1>2, <2>1
  <2>4. QED
    BY <1>2, <1>3, <2>1, <2>2, <2>3
<1> HIDE DEF u, k
<1>5. c \notin DOMAIN k /\ ids \in u.nodes \cup {Root}
  BY <1>1, <1>3 DEF k
<1>6. TreeOK(tree') /\ tree'.page = i.page /\ Holding(tree', held')
  <2>1. PICK g \in u.nodes \cup {Root} : g = ids
    BY <1>5
  <2>2. held'[c] = g
    BY <1>4, <2>1
  <2>3. Holding(LockHandle(u, g), held')
    BY <1>3, <1>4, <1>5, <2>2, LockKeeps
  <2>4. TreeOK(LockHandle(u, g))
    BY <1>3, <1>4, <1>5, <2>2, LockKeeps
  <2>5. LockHandle(u, g).page = u.page
    BY <1>3, <1>4, <1>5, <2>2, LockKeeps
  <2>6. QED
    BY <1>2, <1>3, <2>1, <2>3, <2>4, <2>5
<1>7. Abstract!Insert(c, ids, pages)
  BY <1>1, <1>2, <1>6, SamePrefixes
     DEF Abstract!Insert, Abstract!Holder, Abstract!Stored, Cached, Root
<1>8. PagesKept
  BY <1>1, <1>6 DEF PagesKept, Cached
<1>9. QED
  BY <1>6, <1>7, <1>8 DEF Good, IInv, Abstract!Next

\* cache_req of a request that has finished: its handle is given up.
LEMMA CacheFinishedGood ==
  ASSUME IInv, NEW c \in Client, NEW ids \in Key, NEW pages \in [1..Len(ids) -> Page],
         CacheFinished(c, ids, pages)
  PROVE  Good
<1> DEFINE i == InsertPrefix(tree, ids, pages)
<1>0. TreeOK(tree) /\ Holding(tree, held)
  BY DEF IInv
<1>1. /\ TreeOK(i) /\ Holding(i, held)
      /\ i.page = [q \in Cached(tree) \cup (Prefixes(ids) \ {Root}) |->
                     IF q \in Cached(tree) THEN tree.page[q] ELSE pages[Len(q)]]
  BY <1>0, InsertKeeps
<1>2. /\ c \in DOMAIN held /\ tree' = UnlockHandle(i, held[c]) /\ IsPrefix(held[c], ids)
      /\ held' = [x \in DOMAIN held \ {c} |-> held[x]]
  BY DEF CacheFinished, Holder
<1> HIDE DEF i
<1>3. TreeOK(tree') /\ tree'.page = i.page /\ Holding(tree', held')
  <2> DEFINE u == UnlockHandle(i, held[c])
             k == [x \in DOMAIN held \ {c} |-> held[x]]
  <2>1. TreeOK(i) /\ Holding(i, held) /\ c \in DOMAIN held
    BY <1>1, <1>2
  <2>2. TreeOK(u) /\ u.page = i.page /\ Holding(u, k)
    BY <2>1, UnlockKeeps
  <2>3. tree' = u /\ held' = k
    BY <1>2
  <2> HIDE DEF u, k
  <2>4. QED
    BY <2>2, <2>3
<1>4. Abstract!Insert(c, ids, pages)
  BY <1>1, <1>2, <1>3, SamePrefixes
     DEF Abstract!Insert, Abstract!Holder, Abstract!Stored, Cached, Root
<1>5. PagesKept
  BY <1>1, <1>3 DEF PagesKept, Cached
<1>6. QED
  BY <1>3, <1>4, <1>5 DEF Good, IInv, Abstract!Next

\* evict: only keys no handle is on or below are lost.
LEMMA EvictGood ==
  ASSUME IInv, NEW size \in 1..NumPages, EvictPages(size)
  PROVE  Good
<1> DEFINE lost == Cached(tree) \ Cached(tree')
<1>1. tree' = Evict(tree, size) /\ held' = held
  BY DEF EvictPages
<1>2. size \in Nat
  BY BoundsAssumption
<1>3. /\ TreeOK(tree') /\ Holding(tree', held)
      /\ Cached(tree') \subseteq Cached(tree)
      /\ tree'.page = [p \in Cached(tree) \ lost |-> tree.page[p]]
      /\ \A p \in lost : \A q \in Cached(tree) : IsPrefix(p, q) => q \in lost
      /\ \A p \in lost : \A c \in DOMAIN held : ~ IsPrefix(p, held[c])
  BY <1>1, <1>2, EvictKeeps DEF IInv
<1>4. PagesKept
  BY <1>3 DEF PagesKept, Holder
<1>5. Abstract!Next
  <2> DEFINE n == Cardinality(lost)
  <2>1. lost \in SUBSET Free(tree, held) /\ lost \in SUBSET Cached(tree)
    BY <1>3 DEF Free
  <2>2. IsFiniteSet(Cached(tree)) /\ IsFiniteSet(Free(tree, held))
    <3>1. Free(tree, held) \in SUBSET Cached(tree)
      BY DEF Free
    <3>2. IsFiniteSet(Cached(tree))
      BY CachedKey DEF IInv, TreeOK
    <3>3. QED
      BY <3>1, <3>2, FS_Subset
  <2> HIDE DEF lost
  <2>3. /\ n \in Nat /\ Cardinality(Free(tree, held)) \in Nat
        /\ n <= Cardinality(Free(tree, held))
        /\ n <= Cardinality(Cached(tree)) /\ Cardinality(Cached(tree)) \in Nat
        /\ (n = 0 => lost = {})
    BY <2>1, <2>2, FS_Subset, FS_CardinalityType, FS_EmptySet
  <2>4. lost \in Abstract!Evictions(n)
    BY <1>3, <2>1, <2>3, SameEvictable, SamePrefixes
       DEF Abstract!Evictions, Abstract!Stored, Cached
  <2>5. Abstract!Evict(n)
    BY <1>1, <1>3, <2>3, <2>4, SameEvictable
       DEF Abstract!Evict, Abstract!EvictRaises, Abstract!Stored, Cached
  <2>6. n \in 0..Abstract!Cardinality(Abstract!Stored)
    BY <2>3, SameEvictable DEF Abstract!Stored, Cached
  <2>7. QED
    BY <2>5, <2>6 DEF Abstract!Next
<1>6. QED
  BY <1>1, <1>3, <1>4, <1>5 DEF Good, IInv

\* Every step is good.
LEMMA NextGood == IInv /\ Next => Good
<1> SUFFICES ASSUME IInv, Next PROVE Good
  OBVIOUS
<1>1. ASSUME NEW ids \in Key, Match(ids) PROVE Good
  BY <1>1, MatchGood
<1>2. ASSUME NEW c \in Client, NEW ids \in Key, Lock(c, ids) PROVE Good
  BY <1>2, LockGood
<1>3. ASSUME NEW c \in Client, Unlock(c) PROVE Good
  BY <1>3, UnlockGood
<1>4. ASSUME NEW c \in Client, NEW ids \in Key, NEW pages \in [1..Len(ids) -> Page],
             CacheUnfinished(c, ids, pages)
      PROVE  Good
  BY <1>4, CacheUnfinishedGood
<1>5. ASSUME NEW c \in Client, NEW ids \in Key, NEW pages \in [1..Len(ids) -> Page],
             CacheFinished(c, ids, pages)
      PROVE  Good
  BY <1>5, CacheFinishedGood
<1>6. ASSUME NEW size \in 1..NumPages, EvictPages(size) PROVE Good
  BY <1>6, EvictGood
<1>7. QED
  BY <1>1, <1>2, <1>3, <1>4, <1>5, <1>6 DEF Next

\* The invariant is inductive.
LEMMA IInvStep == IInv /\ [Next]_vars => IInv'
<1>1. IInv /\ Next => IInv'
  BY NextGood DEF Good
<1>2. IInv /\ UNCHANGED vars => IInv'
  BY DEF vars, IInv
<1>3. QED
  BY <1>1, <1>2

\* The invariant holds in every reachable state.
THEOREM Invariance == Spec => []IInv
<1>1. Init /\ [][Next]_vars => []IInv
  BY InitIInv, IInvStep, PTL
<1>2. QED
  BY <1>1 DEF Spec

-----------------------------------------------------------------------------
(***************************************************************************)
(* The properties                                                          *)
(***************************************************************************)

\* Every field keeps its type and the cached keys are those the nodes store,
\* after any sequence of matches, locks, insertions and evictions.
THEOREM TypeCorrect == Spec => []TypeOK
<1>1. IInv => TypeOK
  BY DEF IInv, TreeOK, FieldsOK, NodesOK, Holding, TypeOK, Holder
<1>2. QED
  BY <1>1, Invariance, PTL

\* ref_count is the number of handles at or below the node: lock_handle and
\* split_at keep it so whatever the order of the calls.
THEOREM RefsAreExact == Spec => []RefsExact
<1>1. IInv => RefsExact
  BY DEF IInv, Holding, RefsExact, HoldersBelow, Below, Holder
<1>2. QED
  BY <1>1, Invariance, PTL

\* The longest common prefix of two keys is their longest common prefix.
LEMMA CommonPrefix ==
  ASSUME NEW m \in Seq(Block), NEW n \in Seq(Block)
  PROVE  LET l == LongestCommonPrefix({m, n})
         IN /\ l \in Seq(Block) /\ IsPrefix(l, m) /\ IsPrefix(l, n)
            /\ \A p \in Seq(Block) : IsPrefix(p, m) /\ IsPrefix(p, n) => Len(p) <= Len(l)
<1> DEFINE C == CommonPrefixes({m, n})
           P(p) == \A o \in C : Len(o) <= Len(p)
           lens == {Len(p) : p \in C}
<1>1. \A p : p \in C <=> p \in Seq(Block) /\ IsPrefix(p, m) /\ IsPrefix(p, n)
  BY PrefixesAre DEF CommonPrefixes
<1>2. Root \in C
  BY <1>1, KeyClosed, PrefixOrder
<1> HIDE DEF C
<1>3. PICK k \in lens : \A l \in lens : l <= k
  <2>1. lens \in SUBSET Nat
    BY <1>1
  <2>2. IsFiniteSet(lens)
    <3>1. \A l \in lens : l <= Len(m)
      BY <1>1, PrefixLen
    <3>2. lens \in SUBSET (0..Len(m))
      BY <2>1, <3>1
    <3>3. IsFiniteSet(0..Len(m))
      BY FS_Interval
    <3> HIDE DEF lens
    <3>4. QED
      BY <3>2, <3>3, FS_Subset
  <2>3. lens # {}
    BY <1>2
  <2> HIDE DEF lens
  <2>4. QED
    BY <2>1, <2>2, <2>3, FiniteMax
<1>4. \E p \in C : P(p)
  BY <1>3
<1>5. LongestCommonPrefix({m, n}) \in C /\ P(LongestCommonPrefix({m, n}))
  <2>1. LongestCommonPrefix({m, n}) = CHOOSE p \in C : P(p)
    BY DEF LongestCommonPrefix, C
  <2> HIDE DEF P
  <2>2. QED
    BY <1>4, <2>1
<1>6. QED
  BY <1>1, <1>5

\* Two keys part only where a node ends, so the child a walk follows is the
\* only one that can match.
THEOREM KeysPartAtNodes == Spec => []BranchesAtNodes
<1>1. IInv => BranchesAtNodes
  <2>1. SUFFICES ASSUME IInv, NEW m \in tree.nodes, NEW n \in tree.nodes
                 PROVE  LongestCommonPrefix({m, n}) \in tree.nodes \cup {Root}
    BY DEF BranchesAtNodes
  <2> DEFINE l == LongestCommonPrefix({m, n})
  <2>2. tree.nodes \subseteq Seq(Block)
    BY <2>1, KeyClosed DEF IInv, TreeOK, NodesOK
  <2>3. /\ l \in Seq(Block) /\ IsPrefix(l, m) /\ IsPrefix(l, n)
        /\ \A p \in Seq(Block) : IsPrefix(p, m) /\ IsPrefix(p, n) => Len(p) <= Len(l)
    BY <2>2, CommonPrefix
  <2> HIDE DEF l
  <2>4. CASE l # Root
    <3>1. l \in Cached(tree)
      BY <2>1, <2>2, <2>3, <2>4, PrefixesAre DEF IInv, TreeOK, NodesOK
    <3>2. PICK k \in tree.nodes : IsPrefix(l, k) /\ IsPrefix(k, m) /\ IsPrefix(k, n)
      BY <2>1, <2>3, <3>1 DEF IInv, TreeOK, NodesOK, Branching
    <3>3. Len(k) <= Len(l) /\ Len(l) <= Len(k)
      BY <2>2, <2>3, <3>2, PrefixLen
    <3>4. k = l
      BY <2>2, <2>3, <3>2, <3>3, PrefixLen
    <3>5. QED
      BY <3>4 DEF l
  <2>5. QED
    BY <2>4 DEF l
<1>2. QED
  BY <1>1, Invariance, PTL

\* What one step may do to the indices of a handle that stays held.
IndicesStay ==
  \A c \in Holder \cap DOMAIN held' :
    IsPrefix(held[c], held'[c]) =>
      MatchedIndices(tree', held[c]) = MatchedIndices(tree, held[c])

\* If the pages of every locked prefix stay, so do the indices of its handle.
LEMMA KeptIndicesStay ==
  ASSUME IInv, PagesKept
  PROVE  IndicesStay
<1> SUFFICES ASSUME NEW c \in Holder
             PROVE  MatchedIndices(tree', held[c]) = MatchedIndices(tree, held[c])
  BY DEF IndicesStay
<1> DEFINE h == held[c]
<1>1. h \in tree.nodes \cup {Root} /\ h \in Seq(Block)
  BY KeyClosed DEF IInv, TreeOK, NodesOK, Holding, Holder
<1>2. ASSUME NEW i \in 1..Len(h)
      PROVE  tree'.page[SubSeq(h, 1, i)] = tree.page[SubSeq(h, 1, i)]
  <2> DEFINE p == SubSeq(h, 1, i)
  <2>1. p \in Prefixes(h) /\ p # Root
    BY <1>1 DEF Prefixes, Root
  <2>2. h \in tree.nodes
    BY <1>1 DEF Root
  <2>3. p \in Cached(tree) /\ IsPrefix(p, h)
    BY <1>1, <2>1, <2>2, PrefixesAre DEF IInv, TreeOK, NodesOK
  <2>4. QED
    BY <2>3 DEF PagesKept
<1>3. QED
  BY <1>2 DEF MatchedIndices

\* The indices read from a handle are the same as long as it is held, so a
\* request may copy them into its row and attend to them.
THEOREM HeldIndicesAreStable == Spec => HeldIndicesStable
<1>1. IInv /\ [Next]_vars => [IndicesStay]_vars
  BY NextGood, KeptIndicesStay DEF Good
<1>2. HeldIndicesStable <=> [][IndicesStay]_vars
  BY DEF HeldIndicesStable, IndicesStay
<1>3. QED
  BY <1>1, <1>2, Invariance, PTL DEF Spec

-----------------------------------------------------------------------------
(***************************************************************************)
(* The counters.  Their invariant is not inductive without the first one:  *)
(* a split keeps evictable_size only because the two halves have the same  *)
(* handles below them, and what evict frees is counted once only because   *)
(* each cached key is owned by one node.                                   *)
(***************************************************************************)
SizeInv == IInv /\ Counted(tree) /\ LeavesCounted(tree)

\* Nothing is cached and every counter is zero.
LEMMA InitSizeInv == Init => SizeInv
<1> SUFFICES ASSUME Init PROVE SizeInv
  OBVIOUS
<1>1. /\ tree.nodes = {} /\ tree.evictable = 0 /\ tree.evictableLeaf = 0 /\ tree.protected = 0
  BY DEF Init, EmptyTree
<1>2. Evictable(tree) = {} /\ EvictableLeaves(tree) = {} /\ tree.nodes \ Evictable(tree) = {}
  BY <1>1 DEF Evictable, EvictableLeaves
<1>3. Size(tree, {}) = 0
  BY FS_EmptySet DEF Size
<1>4. QED
  BY <1>1, <1>2, <1>3, InitIInv DEF SizeInv, Counted, LeavesCounted

\* A request that goes on: insert, unlock the old handle, lock the new one.
LEMMA CacheCounts ==
  ASSUME SizeInv, NEW c \in DOMAIN held, NEW ids \in Key, NEW pages \in [1..Len(ids) -> Page]
  PROVE  LET u == UnlockHandle(InsertPrefix(tree, ids, pages), held[c])
         IN Counted(u) /\ LeavesCounted(u) /\ TreeOK(u)
<1> DEFINE i == InsertPrefix(tree, ids, pages)
<1>1. TreeOK(i) /\ Holding(i, held) /\ Counted(i) /\ LeavesCounted(i)
  BY InsertKeeps, InsertCounts DEF SizeInv, IInv
<1> HIDE DEF i
<1>2. QED
  BY <1>1, UnlockKeeps, UnlockCounts DEF i

\* Every step of the cache keeps the counters right.
LEMMA SizeInvStep == SizeInv /\ [Next]_vars => SizeInv'
<1> SUFFICES ASSUME SizeInv, [Next]_vars PROVE SizeInv'
  OBVIOUS
<1>1. IInv' /\ TreeOK(tree) /\ Holding(tree, held)
  BY IInvStep DEF SizeInv, IInv
<1>2. SUFFICES (Counted(tree) /\ LeavesCounted(tree))'
  BY <1>1 DEF SizeInv
<1>3. SUFFICES Counted(tree') /\ LeavesCounted(tree')
  BY DEF Counted, LeavesCounted, Size, Own, Path, Evictable, EvictableLeaves, IsLeaf
<1>4. Counted(tree) /\ LeavesCounted(tree)
  BY DEF SizeInv
<1>5. ASSUME NEW ids \in Key, Match(ids)
      PROVE  Counted(tree') /\ LeavesCounted(tree')
  BY <1>1, <1>4, <1>5, WalkCounts DEF Match
<1>6. ASSUME NEW c \in Client, NEW ids \in Key, Lock(c, ids)
      PROVE  Counted(tree') /\ LeavesCounted(tree')
  <2>1. TreeOK(Walk(tree, ids)) /\ Counted(Walk(tree, ids)) /\ LeavesCounted(Walk(tree, ids))
    BY <1>1, <1>4, WalkKeeps, WalkCounts
  <2>2. QED
    BY <1>6, <2>1, LockCounts DEF Lock
<1>7. ASSUME NEW c \in Client, Unlock(c)
      PROVE  Counted(tree') /\ LeavesCounted(tree')
  BY <1>1, <1>4, <1>7, UnlockCounts DEF Unlock, Holder
<1>8. ASSUME NEW c \in Client, NEW ids \in Key, NEW pages \in [1..Len(ids) -> Page],
             CacheUnfinished(c, ids, pages)
      PROVE  Counted(tree') /\ LeavesCounted(tree')
  <2> DEFINE u == UnlockHandle(InsertPrefix(tree, ids, pages), held[c])
  <2>1. c \in DOMAIN held /\ tree' = LockHandle(u, ids)
    BY <1>8 DEF CacheUnfinished, Holder
  <2>2. Counted(u) /\ LeavesCounted(u) /\ TreeOK(u)
    BY <2>1, CacheCounts
  <2> HIDE DEF u
  <2>3. QED
    BY <2>1, <2>2, LockCounts
<1>9. ASSUME NEW c \in Client, NEW ids \in Key, NEW pages \in [1..Len(ids) -> Page],
             CacheFinished(c, ids, pages)
      PROVE  Counted(tree') /\ LeavesCounted(tree')
  BY <1>9, CacheCounts DEF CacheFinished, Holder
<1>10. ASSUME NEW size \in 1..NumPages, EvictPages(size)
       PROVE  Counted(tree') /\ LeavesCounted(tree')
  <2>1. size \in Nat
    BY BoundsAssumption
  <2>2. QED
    BY <1>1, <1>4, <1>10, <2>1, EvictCounts DEF EvictPages
<1>11. CASE UNCHANGED vars
  BY <1>4, <1>11 DEF vars
<1>12. QED
  BY <1>5, <1>6, <1>7, <1>8, <1>9, <1>10, <1>11 DEF Next

\* The counters are right in every reachable state.
THEOREM SizeInvariance == Spec => []SizeInv
<1>1. Init /\ [][Next]_vars => []SizeInv
  BY InitSizeInv, SizeInvStep, PTL
<1>2. QED
  BY <1>1 DEF Spec

\* evictable_size and protected_size are the sizes of the nodes with and
\* without references, and together count each cached page once, through
\* every lock, split, insertion and eviction.
THEOREM SizesAreExact == Spec => []SizesExact
<1>1. SizeInv => SizesExact
  <2> SUFFICES ASSUME SizeInv PROVE SizesExact
    OBVIOUS
  <2> DEFINE F == Free(tree, held)
             C == Cached(tree)
  <2>1. TreeOK(tree) /\ Holding(tree, held) /\ Counted(tree)
    BY DEF SizeInv, IInv
  <2>2. tree.evictable = Cardinality(F) /\ tree.protected = Cardinality(C \ F)
    BY <2>1, CountedIs
  <2>3. IsFiniteSet(C) /\ F \in SUBSET C
    BY <2>1, CachedKey DEF TreeOK, Free
  <2> HIDE DEF F, C
  <2>4. /\ Cardinality(C \ F) = Cardinality(C) - Cardinality(C \cap F)
        /\ Cardinality(C) \in Nat /\ Cardinality(F) \in Nat
    BY <2>3, FS_Difference, FS_Subset, FS_CardinalityType
  <2>5. Cardinality(C \cap F) = Cardinality(F)
    <3>1. C \cap F = F
      BY <2>3
    <3>2. QED
      BY <3>1
  <2>6. Cardinality(F) + Cardinality(C \ F) = Cardinality(C)
    BY <2>4, <2>5
  <2>7. tree.evictable + tree.protected = Cardinality(C)
    BY <2>2, <2>6
  <2>8. QED
    BY <2>1, <2>7 DEF Counted, SizesExact, C
<1>2. QED
  BY <1>1, SizeInvariance, PTL

\* evictable_leaf_size, which admission control adds to the free pages, never
\* falls below what the unreferenced leaves hold.
THEOREM LeafSizeIsNeverUnder == Spec => []LeafSizeNeverUnder
<1>1. SizeInv => LeafSizeNeverUnder
  BY DEF SizeInv, LeavesCounted, LeafSizeNeverUnder
<1>2. QED
  BY <1>1, SizeInvariance, PTL

\* What evict leaves, by the size it is asked for.
LEMMA EvictAnswers ==
  ASSUME SizeInv, NEW size \in Nat
  PROVE  LET u    == Evict(tree, size)
             gone == Cached(tree) \ Cached(u)
         IN /\ gone \in SUBSET Free(tree, held)
            /\ \A p \in gone : \A q \in Cached(tree) : IsPrefix(p, q) => q \in gone
            /\ IsFiniteSet(Free(tree, held))
            /\ Cardinality(gone) = Cardinality(Cached(tree)) - Cardinality(Cached(u))
            /\ \/ Cardinality(gone) >= size
               \/ Evictable(u) = {} /\ gone = Free(tree, held)
            /\ size = 0 => gone = {}
<1> DEFINE u == Evict(tree, size)
           gone == Cached(tree) \ Cached(u)
           victims == Victims(tree, size)
           C == Cached(tree)
           D == Cached(u)
<1>1. TreeOK(tree) /\ Holding(tree, held) /\ LeavesCounted(tree)
  BY DEF SizeInv, IInv
<1>2. /\ TreeOK(u) /\ Holding(u, held) /\ D \subseteq C
      /\ \A p \in gone : \A q \in C : IsPrefix(p, q) => q \in gone
      /\ \A p \in gone : \A c \in DOMAIN held : ~ IsPrefix(p, held[c])
  BY <1>1, EvictKeeps
<1>3. gone \in SUBSET Free(tree, held) /\ gone \in SUBSET C
  BY <1>2 DEF Free
<1>4. IsFiniteSet(C) /\ IsFiniteSet(D) /\ IsFiniteSet(Free(tree, held)) /\ IsFiniteSet(gone)
  <2>1. Free(tree, held) \in SUBSET C /\ D \in SUBSET C
    BY <1>2 DEF Free
  <2>2. IsFiniteSet(C)
    BY <1>1, CachedKey DEF TreeOK
  <2> HIDE DEF C, D, gone
  <2>3. QED
    BY <1>3, <2>1, <2>2, FS_Subset
<1>5. /\ Evictable(u) = Evictable(tree) \ victims
      /\ Cardinality(D) = Cardinality(C) - Size(tree, victims)
      /\ Cardinality(C) \in Nat /\ Size(tree, victims) \in Nat
  BY <1>1, EvictCounts
<1>6. victims = Evictable(tree) \/ Size(tree, victims) >= size
  BY <1>1, VictimsEnough
<1>7. Cardinality(gone) = Size(tree, victims)
  <2>1. C \cap D = D /\ gone = C \ D
    BY <1>2
  <2> HIDE DEF C, D, u, victims, gone
  <2>2. Cardinality(C \ D) = Cardinality(C) - Cardinality(C \cap D)
    BY <1>4, FS_Difference
  <2>3. Cardinality(gone) = Cardinality(C) - Cardinality(D)
    BY <2>1, <2>2, Zenon
  <2>4. QED
    BY <1>5, <2>3
<1>8. ASSUME victims = Evictable(tree)
      PROVE  Evictable(u) = {} /\ gone = Free(tree, held)
  <2>1. Evictable(u) = {}
    BY <1>5, <1>8
  <2>2. Cardinality(Free(u, held)) = 0
    <3>1. Size(u, {}) = 0
      BY <1>2, SizeLaws DEF TreeOK
    <3>2. QED
      BY <1>2, <2>1, <3>1, FreeIs
  <2>3. Free(u, held) = {}
    <3>1. Free(u, held) \in SUBSET D
      BY DEF Free
    <3> HIDE DEF D, u
    <3>2. QED
      BY <1>4, <2>2, <3>1, FS_Subset, FS_EmptySet
  <2>4. \A p \in Free(tree, held) : p \in C /\ p \notin D
    BY <2>3 DEF Free
  <2>5. QED
    BY <1>3, <2>1, <2>4
<1>9. ASSUME size = 0 PROVE gone = {}
  <2>1. victims = {}
    <3>1. \A n : Size(tree, {m \in Evictable(tree) : PoppedBefore(tree, m, n)}) \in Nat
      <4>1. \A n : {m \in Evictable(tree) : PoppedBefore(tree, m, n)} \in SUBSET tree.nodes
        BY DEF Evictable
      <4>2. QED
        BY <1>1, <4>1, SizeType DEF TreeOK
    <3>2. QED
      BY <1>9, <3>1 DEF Victims
  <2>2. Size(tree, {}) = 0
    BY <1>1, SizeLaws DEF TreeOK
  <2> HIDE DEF victims, gone
  <2>3. QED
    BY <1>4, <1>7, <2>1, <2>2, FS_EmptySet
<1> HIDE DEF victims
<1>10. QED
  BY <1>2, <1>3, <1>4, <1>5, <1>6, <1>7, <1>8, <1>9

\* evict does what base.py allows for the size it is asked for, as long as
\* that is evictable: it frees as much or more and raises only where nothing is
\* evictable, whatever its drifting counter of leaves says.  It returns early
\* only when that counter is zero, and then nothing is evictable because the
\* counter is never under.  Asked for more, it takes all there is or raises.
THEOREM EvictDoesAsAsked == Spec => [](EvictsAsAsked /\ EvictsAllBeyond)
<1>1. SizeInv => EvictsAsAsked /\ EvictsAllBeyond
  <2> SUFFICES ASSUME SizeInv, NEW size \in 0..NumPages
               PROVE  IF Abstract!EvictRaises(size)
                      THEN EvictRaises(tree, size) \/ Freed(size) = Abstract!Evictable
                      ELSE /\ ~ EvictRaises(tree, size)
                           /\ Freed(size) \in Abstract!Evictions(size)
    BY DEF EvictsAsAsked, EvictsAllBeyond
  <2> DEFINE gone == Freed(size)
             F == Free(tree, held)
  <2>1. size \in Nat
    BY BoundsAssumption
  <2>2. /\ gone \in SUBSET F /\ IsFiniteSet(F)
        /\ \A p \in gone : \A q \in Cached(tree) : IsPrefix(p, q) => q \in gone
        /\ Cardinality(gone) >= size \/ gone = F
        /\ size = 0 => gone = {}
    BY <2>1, EvictAnswers DEF Freed
  <2>3. Abstract!EvictRaises(size) <=> size > Cardinality(F)
    BY SameEvictable DEF Abstract!EvictRaises
  <2>4. EvictRaises(tree, size) => Cardinality(F) = 0 /\ size > 0
    <3>1. ASSUME EvictRaises(tree, size) PROVE Evictable(tree) = {}
      BY <3>1, LeafBelow DEF EvictRaises, SizeInv, IInv
    <3>2. Size(tree, {}) = 0
      BY SizeLaws DEF SizeInv, IInv, TreeOK
    <3>3. Cardinality(F) = Size(tree, Evictable(tree))
      BY FreeIs DEF SizeInv, IInv
    <3>4. QED
      BY <3>1, <3>2, <3>3 DEF EvictRaises
  <2> HIDE DEF gone, F
  <2>5. IsFiniteSet(gone) /\ Cardinality(gone) \in Nat /\ Cardinality(F) \in Nat
        /\ Cardinality(gone) <= Cardinality(F)
    BY <2>2, FS_Subset, FS_CardinalityType
  <2>6. CASE size > Cardinality(F)
    <3>1. gone = F
      BY <2>1, <2>2, <2>5, <2>6
    <3>2. QED
      BY <2>3, <2>6, <3>1, SameEvictable DEF gone, F
  <2>7. CASE ~ (size > Cardinality(F))
    <3>1. Cardinality(gone) >= size
      BY <2>1, <2>2, <2>5, <2>7
    <3>2. gone \in Abstract!Evictions(size)
      BY <2>2, <3>1, SameEvictable, SamePrefixes
         DEF Abstract!Evictions, Abstract!Stored, Cached, F
    <3>3. ~ EvictRaises(tree, size)
      BY <2>1, <2>4, <2>5, <2>7
    <3>4. QED
      BY <2>3, <2>7, <3>2, <3>3 DEF gone
  <2>8. QED
    BY <2>6, <2>7
<1>2. QED
  BY <1>1, SizeInvariance, PTL

\* The radix tree implements the prefix cache: every operation, splits and
\* evictions included, is one of its steps or changes nothing that its users
\* can see, and every evict answers the size it was called with.
THEOREM Refinement == Spec => ImplementsPrefixCache
<1>1. Init => Abstract!Init
  BY DEF Init, EmptyTree, Abstract!Init
<1>2. IInv /\ [Next]_vars => [Abstract!Next]_(Abstract!vars)
  <2>1. IInv /\ Next => Abstract!Next \/ UNCHANGED Abstract!vars
    BY NextGood DEF Good
  <2>2. UNCHANGED vars => UNCHANGED Abstract!vars
    BY DEF vars, Abstract!vars
  <2>3. QED
    BY <2>1, <2>2
<1>3. Spec => Abstract!Spec
  BY <1>1, <1>2, Invariance, PTL DEF Spec, Abstract!Spec
<1>4. QED
  BY <1>3, EvictDoesAsAsked, PTL DEF ImplementsPrefixCache
=============================================================================
