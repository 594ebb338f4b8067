---------------------------- MODULE MCRadixCache ----------------------------
(***************************************************************************)
(* RadixCache for TLC: blocks, pages and clients are interchangeable.      *)
(***************************************************************************)
EXTENDS RadixCache

Symmetry == Permutations(Block) \cup Permutations(Page) \cup Permutations(Client)

(***************************************************************************)
(* The loop of evict as it is written, to compare with Victims: pop the    *)
(* unreferenced leaf with the oldest timestamp until size is freed.        *)
(***************************************************************************)
PopOldest(t) ==
  Drop(t, {CHOOSE n \in EvictableLeaves(t) :
             \A m \in EvictableLeaves(t) : t.stamp[n] <= t.stamp[m]})

EvictLoop(t, size) ==
  LET after[k \in 0..Cardinality(t.nodes)] ==
        IF k = 0 THEN t
        ELSE LET u == after[k - 1]
             IN IF \/ Cardinality(Cached(t)) - Cardinality(Cached(u)) >= size
                   \/ EvictableLeaves(u) = {}
                THEN u ELSE PopOldest(u)
  IN IF t.evictableLeaf = 0 THEN t ELSE after[Cardinality(t.nodes)]

\* The least recently used leaves go first, one whole leaf at a time, and a
\* parent only after its last child: the victims are those of the heap loop.
EvictsLeastRecent ==
  \A size \in 1..NumPages : Evict(tree, size) = EvictLoop(tree, size)
=============================================================================
