------------------------------ MODULE RadixTree ------------------------------
(***************************************************************************)
(* The radix tree behind the prefix cache: liteopd/inference/kvcache/      *)
(* radix_cache.py, as pure operators on a tree record.                     *)
(*                                                                         *)
(* Every key, split position and node length in that file is a multiple of *)
(* the page size, and a child is looked up by the first page_size ids of   *)
(* its key.  The unit here is therefore the page block (page_size token    *)
(* ids), a key is a sequence of blocks, and every size counts pages.  A    *)
(* node is named by the key that leads to it from the root.  Splitting a   *)
(* node keeps the lower half's object and creates the upper half, so a     *)
(* name keeps denoting the same object, which is what a handle points to.  *)
(*                                                                         *)
(*   nodes      the nodes but the root, whose name is <<>>                 *)
(*   ref        ref_count of each node (the root is always protected)      *)
(*   stamp      the rank of each node's timestamp                          *)
(*   page       the page that holds each block, by the key that ends in it *)
(*   evictable, evictableLeaf, protected    the three counters             *)
(***************************************************************************)
EXTENDS Integers, SequencesExt

Root == <<>>

EmptyTree ==
  [nodes |-> {}, ref |-> <<>>, stamp |-> <<>>, page |-> <<>>,
   evictable |-> 0, evictableLeaf |-> 0, protected |-> 0]

Cached(t) == DOMAIN t.page

\* Nodes on the way from n up to the root, n included, the root not.
Path(t, n) == {m \in t.nodes : IsPrefix(m, n)}

IsLeaf(t, n) == \A m \in t.nodes : ~ IsStrictPrefix(n, m)

\* The blocks a node stores itself: those below its parent.
Own(t, n) ==
  {p \in Prefixes(n) : \A m \in Path(t, n) \ {n} : Len(m) < Len(p)} \ {Root}

\* Total node.length of a set of nodes.
Size(t, S) == Cardinality(UNION {Own(t, n) : n \in S})

Evictable(t) == {n \in t.nodes : t.ref[n] = 0}

EvictableLeaves(t) == {n \in Evictable(t) : IsLeaf(t, n)}

(***************************************************************************)
(* Timestamps.  time.monotonic_ns() only grows and is only compared, so    *)
(* the ranks of the timestamps in use are kept.  All nodes with one stamp  *)
(* lie on one path, and at most one of them is a leaf.                     *)
(***************************************************************************)
Ranked(stamp) ==
  [n \in DOMAIN stamp |-> Cardinality({stamp[m] : m \in {k \in DOMAIN stamp : stamp[k] < stamp[n]}})]

Now(t) == Cardinality(t.nodes)

Touch(t, S) ==
  [t EXCEPT !.stamp = Ranked([n \in t.nodes |-> IF n \in S THEN Now(t) ELSE t.stamp[n]])]

(***************************************************************************)
(* _tree_walk: the longest cached prefix of ids.  When it ends inside a    *)
(* node, split_at makes it a node of its own with that node's ref_count    *)
(* and timestamp; no counter moves.  Only nodes matched in full are        *)
(* stamped.                                                                *)
(***************************************************************************)
MatchLen(t, ids) ==
  CHOOSE k \in 0..Len(ids) :
    /\ SubSeq(ids, 1, k) \in Cached(t) \cup {Root}
    /\ \A j \in 0..Len(ids) : SubSeq(ids, 1, j) \in Cached(t) => j <= k

Matched(t, ids) == SubSeq(ids, 1, MatchLen(t, ids))

\* The node that stores the block at the end of a cached key p.
Owner(t, p) ==
  CHOOSE n \in t.nodes :
    IsPrefix(p, n) /\ \A m \in t.nodes : IsPrefix(p, m) => Len(n) <= Len(m)

\* Slips a split may have: the upper half unreferenced, or no split at all.
SplitUnreferenced(t, p) ==
  IF p \in t.nodes \cup {Root} THEN t
  ELSE [t EXCEPT !.nodes = @ \cup {p},
                 !.ref = [n \in t.nodes \cup {p} |-> IF n = p THEN 0 ELSE @[n]],
                 !.stamp = [n \in t.nodes \cup {p} |-> IF n = p THEN @[Owner(t, p)] ELSE @[n]]]

SplitNever(t, p) == t

SplitAt(t, p) ==
  IF p \in t.nodes \cup {Root} THEN t
  ELSE LET lower == Owner(t, p)
           upper(f) == [n \in t.nodes \cup {p} |-> IF n = p THEN f[lower] ELSE f[n]]
       IN [t EXCEPT !.nodes = @ \cup {p}, !.ref = upper(t.ref), !.stamp = upper(t.stamp)]

Walk(t, ids) ==
  LET p == Matched(t, ids) IN Touch(SplitAt(t, p), Path(t, p))

(***************************************************************************)
(* lock_handle: every node on the path gains or loses one reference, and   *)
(* its size changes pool when the count leaves or reaches zero.            *)
(***************************************************************************)
\* A slip: the size moves on every lock, not only on the first.
LockMovesAlways(t, h) ==
  LET path == Path(t, h)
  IN [t EXCEPT
        !.ref = [n \in t.nodes |-> IF n \in path THEN t.ref[n] + 1 ELSE t.ref[n]],
        !.evictable = @ - Size(t, path),
        !.protected = @ + Size(t, path)]

LockHandle(t, h) ==
  LET path  == Path(t, h)
      moved == {n \in path : t.ref[n] = 0}
  IN [t EXCEPT
        !.ref = [n \in t.nodes |-> IF n \in path THEN t.ref[n] + 1 ELSE t.ref[n]],
        !.evictable = @ - Size(t, moved),
        !.protected = @ + Size(t, moved),
        !.evictableLeaf = @ - Size(t, {n \in moved : IsLeaf(t, n)})]

UnlockHandle(t, h) ==
  LET path  == Path(t, h)
      moved == {n \in path : t.ref[n] = 1}
  IN [t EXCEPT
        !.ref = [n \in t.nodes |-> IF n \in path THEN t.ref[n] - 1 ELSE t.ref[n]],
        !.evictable = @ + Size(t, moved),
        !.protected = @ - Size(t, moved),
        !.evictableLeaf = @ + Size(t, {n \in moved : IsLeaf(t, n)})]

(***************************************************************************)
(* insert_prefix: walk, then hang the rest of ids below the match as one   *)
(* new unreferenced leaf.  A prefix already cached keeps its own pages.    *)
(***************************************************************************)
\* A slip: the parent's size leaves evictable_leaf_size though it is locked.
NewLeafUnderLocked(t, ids, pages) ==
  LET p     == Matched(t, ids)
      added == Len(ids) - Len(p)
      nodes == t.nodes \cup {ids}
  IN [nodes |-> nodes,
      ref   |-> [n \in nodes |-> IF n = ids THEN 0 ELSE t.ref[n]],
      stamp |-> Ranked([n \in nodes |-> IF n = ids THEN Now(t) ELSE t.stamp[n]]),
      page  |-> [q \in Cached(t) \cup (Prefixes(ids) \ {Root}) |->
                   IF q \in Cached(t) THEN t.page[q] ELSE pages[Len(q)]],
      evictable     |-> t.evictable + added,
      evictableLeaf |-> t.evictableLeaf + added
                          - (IF p # Root /\ IsLeaf(t, p) THEN Size(t, {p}) ELSE 0),
      protected     |-> t.protected]

\* A slip: the new pages replace those already cached for the prefix.
NewLeafOverwrites(t, ids, pages) ==
  LET nodes == t.nodes \cup {ids}
  IN [t EXCEPT
        !.nodes = nodes,
        !.ref   = [n \in nodes |-> IF n = ids THEN 0 ELSE @[n]],
        !.stamp = Ranked([n \in nodes |-> IF n = ids THEN Now(t) ELSE @[n]]),
        !.page  = [q \in DOMAIN @ \cup (Prefixes(ids) \ {Root}) |->
                     IF q \in Prefixes(ids) THEN pages[Len(q)] ELSE @[q]],
        !.evictable = @ + Len(ids) - Len(Matched(t, ids)),
        !.evictableLeaf = @ + Len(ids) - Len(Matched(t, ids))]

NewLeaf(t, ids, pages) ==
  LET p     == Matched(t, ids)
      added == Len(ids) - Len(p)
      gone  == IF p # Root /\ IsLeaf(t, p) /\ t.ref[p] = 0 THEN Size(t, {p}) ELSE 0
      nodes == t.nodes \cup {ids}
  IN [nodes |-> nodes,
      ref   |-> [n \in nodes |-> IF n = ids THEN 0 ELSE t.ref[n]],
      stamp |-> Ranked([n \in nodes |-> IF n = ids THEN Now(t) ELSE t.stamp[n]]),
      page  |-> [q \in Cached(t) \cup (Prefixes(ids) \ {Root}) |->
                   IF q \in Cached(t) THEN t.page[q] ELSE pages[Len(q)]],
      evictable     |-> t.evictable + added,
      evictableLeaf |-> t.evictableLeaf - gone + added,
      protected     |-> t.protected]

InsertPrefix(t, ids, pages) ==
  LET w == Walk(t, ids)
  IN IF Matched(t, ids) = ids THEN w ELSE NewLeaf(w, ids, pages)

(***************************************************************************)
(* evict: a heap of unreferenced leaves ordered by timestamp; a parent     *)
(* enters the heap when its last child has left, and the loop stops when   *)
(* enough has been freed or the heap is empty.  A node is then popped when *)
(* the newest stamp of its subtree comes up, after its descendants; it is  *)
(* popped at all when those popped before it free less than size.          *)
(***************************************************************************)
SubtreeStamp(t, n) ==
  CHOOSE s \in {t.stamp[m] : m \in {k \in t.nodes : IsPrefix(n, k)}} :
    \A m \in t.nodes : IsPrefix(n, m) => t.stamp[m] <= s

PoppedBefore(t, m, n) ==
  \/ SubtreeStamp(t, m) < SubtreeStamp(t, n)
  \/ SubtreeStamp(t, m) = SubtreeStamp(t, n) /\ Len(m) > Len(n)

\* Slips in the eviction loop: a parent is popped before its children, one
\* leaf too many goes, or the loop stops before a leaf that exceeds size.
VictimsByOwnStamp(t, size) ==
  IF t.evictableLeaf = 0 THEN {}
  ELSE {n \in Evictable(t) : Size(t, {m \in Evictable(t) : t.stamp[m] < t.stamp[n]}) < size}

VictimsOneMore(t, size) ==
  IF t.evictableLeaf = 0 THEN {}
  ELSE {n \in Evictable(t) : Size(t, {m \in Evictable(t) : PoppedBefore(t, m, n)}) <= size}

VictimsAtMost(t, size) ==
  IF t.evictableLeaf = 0 THEN {}
  ELSE {n \in Evictable(t) :
          Size(t, {n} \cup {m \in Evictable(t) : PoppedBefore(t, m, n)}) <= size}

Victims(t, size) ==
  IF t.evictableLeaf = 0 THEN {}
  ELSE {n \in Evictable(t) : Size(t, {m \in Evictable(t) : PoppedBefore(t, m, n)}) < size}

Drop(t, gone) ==
  LET nodes  == t.nodes \ gone
      lost   == UNION {Own(t, n) : n \in gone}
      leaves == {n \in nodes : t.ref[n] = 0 /\ ~ IsLeaf(t, n)
                                /\ \A m \in t.nodes : IsStrictPrefix(n, m) => m \in gone}
      lonely == {n \in gone : ~ IsLeaf(t, n)}
  IN [nodes |-> nodes,
      ref   |-> [n \in nodes |-> t.ref[n]],
      stamp |-> Ranked([n \in nodes |-> t.stamp[n]]),
      page  |-> [p \in Cached(t) \ lost |-> t.page[p]],
      evictable     |-> t.evictable - Size(t, gone),
      evictableLeaf |-> t.evictableLeaf - Size(t, gone) + Size(t, lonely \cup leaves),
      protected     |-> t.protected]

Evict(t, size) == Drop(t, Victims(t, size))

\* torch.cat([]) raises: the counter promises a leaf and there is none.
EvictRaises(t, size) ==
  size > 0 /\ t.evictableLeaf # 0 /\ EvictableLeaves(t) = {}

\* get_matched_indices of a handle.
MatchedIndices(t, h) == [i \in 1..Len(h) |-> t.page[SubSeq(h, 1, i)]]

=============================================================================
