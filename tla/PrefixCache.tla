----------------------------- MODULE PrefixCache -----------------------------
(***************************************************************************)
(* What liteopd/inference/kvcache/base.py promises of a prefix cache: a    *)
(* map from prefixes to the pages that hold their last block, closed under *)
(* prefixes, and the handles its users hold locked.  match_prefix "will    *)
(* not modify the cache"; what is under a locked handle "cannot be         *)
(* evicted", so its indices may be used until it is unlocked.              *)
(***************************************************************************)
EXTENDS Integers, SequencesExt

CONSTANTS
  Key,     \* sequences of page blocks
  Page,
  Client

VARIABLES store, held

vars == <<store, held>>

Init == store = <<>> /\ held = <<>>

Stored == DOMAIN store

Holder == DOMAIN held

\* match_prefix and lock_handle: the longest stored prefix of ids is pinned.
Lock(c, ids) ==
  /\ c \notin Holder
  /\ \E h \in Prefixes(ids) :
       /\ h \in Stored \cup {<<>>}
       /\ \A p \in Prefixes(ids) \cap Stored : Len(p) <= Len(h)
       /\ held' = [x \in Holder \cup {c} |-> IF x = c THEN h ELSE held[x]]
  /\ UNCHANGED store

Unlock(c) ==
  /\ c \in Holder
  /\ held' = [x \in Holder \ {c} |-> held[x]]
  /\ UNCHANGED store

\* insert_prefix for the holder of a prefix of ids, which then gives its
\* handle up or holds ids.  What is stored is not overwritten.
Insert(c, ids, pages) ==
  /\ c \in Holder
  /\ IsPrefix(held[c], ids)
  /\ store' = [p \in Stored \cup (Prefixes(ids) \ {<<>>}) |->
                 IF p \in Stored THEN store[p] ELSE pages[Len(p)]]
  /\ \/ held' = [held EXCEPT ![c] = ids]
     \/ held' = [x \in Holder \ {c} |-> held[x]]

\* What evictable_size counts: the prefixes no locked handle keeps.
Evictable == {p \in Stored : \A c \in Holder : ~ IsPrefix(p, held[c])}

\* evict "Raises RuntimeError: If the requested size is larger than the
\* evictable size"; a call that raises is no step.
EvictRaises(size) == size > Cardinality(Evictable)

\* What evict may take: whole suffixes, as much as is asked for or more, and
\* for 0 nothing.
Evictions(size) ==
  {gone \in SUBSET Evictable :
     /\ Cardinality(gone) >= size
     /\ size = 0 => gone = {}
     /\ \A p \in gone : \A q \in Stored : IsPrefix(p, q) => q \in gone}

Evict(size) ==
  /\ ~ EvictRaises(size)
  /\ \E gone \in Evictions(size) : store' = [p \in Stored \ gone |-> store[p]]
  /\ UNCHANGED held

Next ==
  \/ \E c \in Client, ids \in Key : Lock(c, ids)
  \/ \E c \in Client : Unlock(c)
  \/ \E c \in Client, ids \in Key :
       \E pages \in [1..Len(ids) -> Page] : Insert(c, ids, pages)
  \/ \E size \in 0..Cardinality(Stored) : Evict(size)

Spec == Init /\ [][Next]_vars
=============================================================================
