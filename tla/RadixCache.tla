------------------------------ MODULE RadixCache ------------------------------
(***************************************************************************)
(* RadixPrefixCache (liteopd/inference/kvcache/radix_cache.py) under the   *)
(* calls CacheManager and PrefillAdder make of it: a client is a request   *)
(* that holds one locked handle from its admission until it is cached as   *)
(* finished or its batch is aborted.  Indices are opaque to the cache; the *)
(* pool has NumPages pages and never holds more.                           *)
(***************************************************************************)
EXTENDS RadixTree

CONSTANTS
  Block,     \* contents of one page of token ids
  Page,      \* page indices
  Client,    \* requests that may hold a handle
  MaxLen,    \* blocks of the longest key
  NumPages,  \* pages of the pool
  MaxLeafSize \* bound on the evictable_leaf_size counter, which may drift up

ASSUME ClientAssumption == IsFiniteSet(Client)
ASSUME BoundsAssumption == MaxLen \in Nat /\ NumPages \in Nat /\ MaxLeafSize \in Nat

VARIABLES
  tree,   \* the radix tree and its counters
  held    \* the handle each admitted client has locked

vars == <<tree, held>>

Key == SeqOf(Block, MaxLen)

Holder == DOMAIN held

Init == tree = EmptyTree /\ held = <<>>

Bounded == tree'.evictableLeaf <= MaxLeafSize

\* match_req of a request that is then skipped for lack of room.
Match(ids) ==
  /\ tree' = Walk(tree, ids)
  /\ Bounded
  /\ UNCHANGED held

\* match_req and lock of a request that is admitted.
Lock(c, ids) ==
  /\ c \notin Holder
  /\ tree' = LockHandle(Walk(tree, ids), Matched(tree, ids))
  /\ Bounded
  /\ held' = [x \in Holder \cup {c} |-> IF x = c THEN Matched(tree, ids) ELSE held[x]]

\* unlock of a request whose prefill batch is aborted.
Unlock(c) ==
  /\ c \in Holder
  /\ tree' = UnlockHandle(tree, held[c])
  /\ Bounded
  /\ held' = [x \in Holder \ {c} |-> held[x]]

\* cache_req(finished=False): insert, unlock the old handle, lock the new.
CacheUnfinished(c, ids, pages) ==
  /\ c \in Holder
  /\ IsPrefix(held[c], ids)
  /\ Cardinality(Cached(tree) \cup Prefixes(ids)) <= NumPages + 1
  /\ tree' = LockHandle(UnlockHandle(InsertPrefix(tree, ids, pages), held[c]), ids)
  /\ Bounded
  /\ held' = [held EXCEPT ![c] = ids]

\* cache_req(finished=True): insert and unlock.
CacheFinished(c, ids, pages) ==
  /\ c \in Holder
  /\ IsPrefix(held[c], ids)
  /\ Cardinality(Cached(tree) \cup Prefixes(ids)) <= NumPages + 1
  /\ tree' = UnlockHandle(InsertPrefix(tree, ids, pages), held[c])
  /\ Bounded
  /\ held' = [x \in Holder \ {c} |-> held[x]]

EvictPages(size) ==
  /\ ~ EvictRaises(tree, size)
  /\ tree' = Evict(tree, size)
  /\ Bounded
  /\ UNCHANGED held

Next ==
  \/ \E ids \in Key : Match(ids)
  \/ \E c \in Client, ids \in Key : Lock(c, ids)
  \/ \E c \in Client : Unlock(c)
  \/ \E c \in Client, ids \in Key :
       \E pages \in [1..Len(ids) -> Page] : CacheUnfinished(c, ids, pages)
  \/ \E c \in Client, ids \in Key :
       \E pages \in [1..Len(ids) -> Page] : CacheFinished(c, ids, pages)
  \/ \E size \in 1..NumPages : EvictPages(size)

Spec == Init /\ [][Next]_vars

-----------------------------------------------------------------------------
(***************************************************************************)
(* Properties                                                              *)
(***************************************************************************)

\* Every field has its type, and the blocks that have a page are exactly
\* those some node stores.
TypeOK ==
  /\ tree.nodes \subseteq Key \ {Root}
  /\ tree.ref \in [tree.nodes -> Nat]
  /\ tree.stamp \in [tree.nodes -> Nat]
  /\ Cached(tree) = (UNION {Prefixes(n) : n \in tree.nodes}) \ {Root}
  /\ tree.page \in [Cached(tree) -> Page]
  /\ tree.evictable \in Int /\ tree.evictableLeaf \in Int /\ tree.protected \in Int
  /\ Holder \subseteq Client
  /\ held \in [Holder -> tree.nodes \cup {Root}]

\* The handles that keep a node from being evicted.
HoldersBelow(n) == {c \in Holder : IsPrefix(n, held[c])}

\* lock_handle and split_at keep ref_count equal to the number of handles
\* at or below the node, through every split, insert and eviction.
RefsExact == \A n \in tree.nodes : tree.ref[n] = Cardinality(HoldersBelow(n))

\* Two keys part only where a node ends, so that children of one node have
\* different first blocks and children.get finds the only candidate.
BranchesAtNodes ==
  \A m, n \in tree.nodes : LongestCommonPrefix({m, n}) \in tree.nodes \cup {Root}

\* evictable_size and protected_size are what the ref_counts say, so
\* check_integrity's total_size counts each cached page once.
SizesExact ==
  /\ tree.evictable = Size(tree, Evictable(tree))
  /\ tree.protected = Size(tree, tree.nodes \ Evictable(tree))
  /\ tree.evictable + tree.protected = Cardinality(Cached(tree))

\* evictable_leaf_size, which admission control adds to the free pages,
\* never promises less than the unreferenced leaves hold.
LeafSizeNeverUnder == tree.evictableLeaf >= Size(tree, EvictableLeaves(tree))

\* The indices under a locked handle are safe to use: whatever happens to
\* the cache, they are the same as long as the handle is held.
HeldIndicesStable ==
  [][\A c \in Holder \cap DOMAIN held' :
       IsPrefix(held[c], held'[c]) =>
         MatchedIndices(tree', held[c]) = MatchedIndices(tree, held[c])]_vars

-----------------------------------------------------------------------------
Abstract == INSTANCE PrefixCache WITH store <- tree.page

\* What a call of evict for size pages frees.
Freed(size) == Cached(tree) \ Cached(Evict(tree, size))

\* Asked for up to evictable_size, evict does as base.py promises: it frees as
\* much or more, whole suffixes, nothing under a handle, and does not raise; its
\* early return and its counter of leaves never hide what could be evicted.
EvictsAsAsked ==
  \A size \in 0..NumPages :
    ~ Abstract!EvictRaises(size) =>
      ~ EvictRaises(tree, size) /\ Freed(size) \in Abstract!Evictions(size)

\* Asked for more, where base.py has it raise RuntimeError, evict frees all
\* that is evictable and returns, unless nothing is and torch.cat raises.
EvictsAllBeyond ==
  \A size \in 0..NumPages :
    Abstract!EvictRaises(size) =>
      EvictRaises(tree, size) \/ Freed(size) = Abstract!Evictable

\* As a map from prefixes to pages the radix tree takes the steps of the
\* cache of base.py, and evict answers the size it is asked for as above, which
\* is as base.py has it up to evictable_size and not beyond.
ImplementsPrefixCache == Abstract!Spec /\ [](EvictsAsAsked /\ EvictsAllBeyond)
=============================================================================
