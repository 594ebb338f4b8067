----------------------------- MODULE CacheManager -----------------------------
(***************************************************************************)
(* liteopd/inference/scheduler/cache.py as operators on a pool record:     *)
(*                                                                         *)
(*   free   free_slots, first to be handed out first                       *)
(*   tree   the radix tree of the prefix cache                             *)
(*   row    page_table, one row of page numbers per table slot             *)
(*   tokens token_pool, one row of token ids per table slot (table.py)     *)
(*                                                                         *)
(* The code keeps one index per token; a page's tokens are consecutive and *)
(* page aligned, so a row here has one entry per page.  Rows are never     *)
(* cleared: an entry keeps its page until it is overwritten.               *)
(*                                                                         *)
(* A request is a record with the fields of Req (core.py):                 *)
(*   uid, ids, slot, cached, device, maxDevice, maxOut, handle, chunked    *)
(***************************************************************************)
EXTENDS RadixTree

CONSTANTS
  PageSize,   \* tokens per page
  NumPages    \* pages of the KV pool

ASSUME PoolAssumption == PageSize \in Nat \ {0} /\ NumPages \in Nat \ {0}

PageIds == 1..NumPages

CeilDiv(x, y) == (x + y - 1) \div y

\* The page blocks of a token sequence; align_down drops the partial page.
Blocks(ids) ==
  [i \in 1..(Len(ids) \div PageSize) |-> SubSeq(ids, (i - 1) * PageSize + 1, i * PageSize)]

TotalCapacity == NumPages * PageSize

AvailableSize(pool) == (pool.tree.evictableLeaf + Len(pool.free)) * PageSize

\* match_req leaves the last token out, so that one token is left to run.
MatchKey(ids) == Blocks(SubSeq(ids, 1, Len(ids) - 1))

\* The pages that hold tokens cached_len .. device_len - 1 and are new.
NewPages(req) == CeilDiv(req.cached, PageSize) + 1 .. CeilDiv(req.device, PageSize)

PagesNeeded(reqs) ==
  FoldLeft(LAMBDA n, req : n + Cardinality(NewPages(req)), 0, reqs)

\* evict's result in the order its loop pops the nodes.
EvictionOrder(t, size) ==
  LET before(m, n) == PoppedBefore(t, m, n)
      pages(n) == LET own == SetToSortSeq(Own(t, n), LAMBDA p, q : Len(p) < Len(q))
                  IN [i \in DOMAIN own |-> t.page[own[i]]]
      order == SetToSortSeq(Victims(t, size), before)
  IN FlattenSeq([i \in DOMAIN order |-> pages(order[i])])

\* _allocate, first half: evict what the free list lacks.
\* A slip: the evicted pages are handed to nobody.
MakeRoomForNobody(pool, needed) ==
  LET lacking == needed - Len(pool.free)
  IN IF lacking <= 0 THEN pool ELSE [pool EXCEPT !.tree = Evict(@, lacking)]

MakeRoom(pool, needed) ==
  LET lacking == needed - Len(pool.free)
  IN IF lacking <= 0 THEN pool
     ELSE [pool EXCEPT !.free = @ \o EvictionOrder(pool.tree, lacking),
                       !.tree = Evict(@, lacking)]

AllocateRaises(pool, reqs) ==
  EvictRaises(pool.tree, PagesNeeded(reqs) - Len(pool.free))

AllocateFails(pool, reqs) ==
  Len(MakeRoom(pool, PagesNeeded(reqs)).free) < PagesNeeded(reqs)

\* _write_page_table: pages from the head of the list, request by request.
WriteRow(pool, req) ==
  LET new   == NewPages(req)
      first == CeilDiv(req.cached, PageSize)
  IN [pool EXCEPT
        !.row[req.slot] = [i \in DOMAIN @ |-> IF i \in new THEN pool.free[i - first] ELSE @[i]],
        !.free = SubSeq(@, Cardinality(new) + 1, Len(@))]

AllocatePaged(pool, reqs) ==
  FoldLeft(WriteRow, MakeRoom(pool, PagesNeeded(reqs)), reqs)

LockPrefix(pool, h)   == [pool EXCEPT !.tree = LockHandle(@, h)]
UnlockPrefix(pool, h) == [pool EXCEPT !.tree = UnlockHandle(@, h)]

(***************************************************************************)
(* cache_req.  The pages [old_handle, cached) are freed because the cache  *)
(* already had those blocks, the pages from the new handle on when the     *)
(* request has finished.  The row of the request is left as it is.  Inside *)
(* lazy_free_region the frees are collected and appended at its end; no    *)
(* page is allocated in between, so appending them at once is the same.    *)
(***************************************************************************)
\* A slip: the last token is cached though its key and value are not computed.
InsertKeyWithLast(req) == Blocks(SubSeq(req.ids, 1, req.device))

InsertKey(req) == Blocks(SubSeq(req.ids, 1, req.cached))

\* Slips: the pages the cache already had are not freed, or the old handle of
\* a finished request is not unlocked.
CacheReqFreesTailOnly(pool, req, finished) ==
  LET key  == InsertKey(req)
      row  == pool.row[req.slot]
      tail == IF finished THEN SubSeq(row, Len(key) + 1, CeilDiv(req.cached, PageSize)) ELSE <<>>
      tree == UnlockHandle(InsertPrefix(pool.tree, key, row), req.handle)
  IN [pool EXCEPT !.free = @ \o tail, !.tree = IF finished THEN tree ELSE LockHandle(tree, key)]

CacheReqKeepsLock(pool, req, finished) ==
  LET key     == InsertKey(req)
      row     == pool.row[req.slot]
      already == Len(Matched(pool.tree, key))
      tail    == IF finished THEN SubSeq(row, Len(key) + 1, CeilDiv(req.cached, PageSize)) ELSE <<>>
      tree    == InsertPrefix(pool.tree, key, row)
  IN [pool EXCEPT
        !.free = @ \o SubSeq(row, Len(req.handle) + 1, already) \o tail,
        !.tree = IF finished THEN tree ELSE LockHandle(UnlockHandle(tree, req.handle), key)]

CacheReq(pool, req, finished) ==
  LET key     == InsertKey(req)
      row     == pool.row[req.slot]
      already == Len(Matched(pool.tree, key))
      tail    == IF finished THEN SubSeq(row, Len(key) + 1, CeilDiv(req.cached, PageSize)) ELSE <<>>
      tree    == UnlockHandle(InsertPrefix(pool.tree, key, row), req.handle)
  IN [pool EXCEPT
        !.free = @ \o SubSeq(row, Len(req.handle) + 1, already) \o tail,
        !.tree = IF finished THEN tree ELSE LockHandle(tree, key)]
=============================================================================
