---------------------------- MODULE PrefillManager ----------------------------
(***************************************************************************)
(* liteopd/inference/scheduler/prefill.py, utils.py and table.py: the      *)
(* queue of pending requests and the admission of one prefill batch.       *)
(*                                                                         *)
(* A pending request is a record                                           *)
(*   uid, ids     as in the code                                           *)
(*   limit        sampling_params.max_tokens of a re-queued request        *)
(*   fresh        still carries the caller's SamplingParams object         *)
(*   decoded      decoded_len                                              *)
(*   chunk        <<chunked_req>>, or <<>> when it is None                 *)
(* The caller's objects are the variable params of Scheduler: a fresh      *)
(* entry reads max_tokens through it each time, as the code does.          *)
(***************************************************************************)
EXTENDS CacheManager

CONSTANTS
  Uid,            \* 0 .. number of prompts - 1
  ParamsOf,       \* which SamplingParams object the caller gave each uid
  PrefillBudget,  \* max_extend_tokens
  Reserve         \* admission_reserve_tokens

ASSUME QueueAssumption ==
  /\ IsFiniteSet(Uid) /\ Uid = 0..Cardinality(Uid) - 1
  /\ PrefillBudget \in Nat \ {0} /\ Reserve \in Nat

MaxOutputLen(params, e) == IF e.fresh THEN params[ParamsOf[e.uid]] ELSE e.limit

\* PendingReq.priority_key: shortest total target length first.
PriorityKey(params, e) ==
  <<Len(e.ids) + MaxOutputLen(params, e), Len(e.ids), e.uid>>

LexLess(x, y) ==
  \E i \in 1..3 : x[i] < y[i] /\ \A j \in 1..i-1 : x[j] = y[j]

\* list.sort is stable.
SortPending(params, pending) ==
  LET before(i, j) ==
        LET x == PriorityKey(params, pending[i])
            y == PriorityKey(params, pending[j])
        IN LexLess(x, y) \/ (x = y /\ i < j)
      rank(i) == Cardinality({j \in DOMAIN pending : before(j, i)}) + 1
  IN [k \in DOMAIN pending |-> pending[CHOOSE i \in DOMAIN pending : rank(i) = k]]

Min2(x, y) == IF x <= y THEN x ELSE y
Max2(x, y) == IF x >= y THEN x ELSE y

\* _kv_tokens_needed.
KvNeeded(params, e, cached) ==
  (Len(e.ids) - cached) + Max2(e.decoded, Min2(MaxOutputLen(params, e), Reserve))

(***************************************************************************)
(* One round of schedule_next_batch folds try_add_one over the queue.  The *)
(* round is a record: the pool and the free table slots it consumes, the   *)
(* token budget left, the tokens committed, the requests admitted, the     *)
(* entries kept for the next round, whether the scan has stopped, and      *)
(* whether a request was found larger than the total capacity.             *)
(***************************************************************************)
NewRound(pool, slots) ==
  [pool |-> pool, slots |-> slots, budget |-> PrefillBudget, committed |-> 0,
   admitted |-> <<>>, kept |-> <<>>, stopped |-> FALSE, tooLarge |-> FALSE]

Headroom(round) == AvailableSize(round.pool) - round.committed

\* token_pool[slot, from:to] = ids[from:to].
CopyTokens(pool, slot, ids, from, to) ==
  [pool EXCEPT !.tokens[slot] =
     [c \in DOMAIN @ |-> IF from <= c /\ c < to THEN ids[c + 1] ELSE @[c]]]

\* _build_req, and the bookkeeping of schedule_next_batch for its result.
Admit(params, round, e, handle, slot, cached) ==
  LET chunk   == Min2(round.budget, Len(e.ids) - cached)
      chunked == chunk < Len(e.ids) - cached
      maxOut  == MaxOutputLen(params, e)
      req == [uid |-> e.uid, ids |-> SubSeq(e.ids, 1, cached + chunk), slot |-> slot,
              cached |-> cached, device |-> cached + chunk,
              maxDevice |-> cached + chunk + maxOut, maxOut |-> maxOut,
              handle |-> handle, chunked |-> chunked]
  IN [round EXCEPT
        !.pool = CopyTokens(@, slot, e.ids, cached, cached + chunk),
        !.budget = @ - chunk,
        !.committed = @ + KvNeeded(params, e, cached),
        !.admitted = Append(@, req),
        !.kept = IF chunked THEN Append(@, [e EXCEPT !.chunk = <<req>>]) ELSE @]

\* A new request that fits: lock the match, take a slot, copy the match
\* into the row of the slot, and its tokens into the token pool.
AdmitNew(params, round, e, handle) ==
  LET slot   == Last(round.slots)
      cached == Len(handle) * PageSize
      pool == [round.pool EXCEPT
                 !.row[slot] = [i \in DOMAIN @ |->
                                  IF i <= Len(handle) THEN round.pool.tree.page[SubSeq(handle, 1, i)]
                                  ELSE @[i]]]
  IN Admit(params, [round EXCEPT !.pool = CopyTokens(pool, slot, e.ids, 0, cached),
                                 !.slots = Front(@)],
           e, handle, slot, cached)

Skip(round, e) == [round EXCEPT !.kept = Append(@, e)]

\* A slip: the headroom is not looked at again after the lock.
TryNewOnce(params, round, e) ==
  LET handle  == Matched(round.pool.tree, MatchKey(e.ids))
      needed  == KvNeeded(params, e, Len(handle) * PageSize)
      matched == [round EXCEPT !.pool.tree = Walk(@, MatchKey(e.ids))]
  IN IF needed > TotalCapacity THEN [matched EXCEPT !.tooLarge = TRUE]
     ELSE IF needed > Headroom(matched) THEN Skip(matched, e)
     ELSE AdmitNew(params, [matched EXCEPT !.pool = LockPrefix(@, handle)], e, handle)

TryNew(params, round, e) ==
  LET handle  == Matched(round.pool.tree, MatchKey(e.ids))
      needed  == KvNeeded(params, e, Len(handle) * PageSize)
      matched == [round EXCEPT !.pool.tree = Walk(@, MatchKey(e.ids))]
      locked  == [matched EXCEPT !.pool = LockPrefix(@, handle)]
  IN IF needed > TotalCapacity THEN [matched EXCEPT !.tooLarge = TRUE]
     ELSE IF needed > Headroom(matched) THEN Skip(matched, e)
     \* locking takes nodes out of the evictable pool: check again
     ELSE IF needed > Headroom(locked)
     THEN Skip([matched EXCEPT !.pool = UnlockPrefix(locked.pool, handle)], e)
     ELSE AdmitNew(params, locked, e, handle)

TryAddOne(params, round, e) ==
  CASE round.stopped \/ round.tooLarge -> round
    [] ~ round.stopped /\ ~ round.tooLarge ->
         IF round.budget <= 0 THEN [round EXCEPT !.stopped = TRUE]
         ELSE IF e.chunk # <<>>
         THEN LET c == e.chunk[1]
              IN Admit(params, round, [e EXCEPT !.chunk = <<>>], c.handle, c.slot, c.cached)
         ELSE IF round.slots = <<>> THEN [round EXCEPT !.stopped = TRUE]
         ELSE TryNew(params, round, e)

PrefillRound(params, pool, slots, pending) ==
  LET after[k \in 0..Len(pending)] ==
        IF k = 0 THEN NewRound(pool, slots) ELSE TryAddOne(params, after[k - 1], pending[k])
  IN after[Len(pending)]

\* The queue after the round: what the scan kept, then what it did not
\* reach.  A chunked request is both admitted and kept.
\* A slip: the entry the scan stopped at is taken for scanned.
PendingPastStop(params, round, pending) ==
  LET scanned == Len(round.admitted) + Len(round.kept) + 1
  IN IF round.admitted = <<>> THEN pending
     ELSE SortPending(params, round.kept \o SubSeq(pending, scanned + 1, Len(pending)))

PendingAfter(params, round, pending) ==
  LET scanned == Len(round.admitted) + Len(round.kept)
  IN IF round.admitted = <<>> THEN pending
     ELSE SortPending(params, round.kept \o SubSeq(pending, scanned + 1, Len(pending)))
=============================================================================
