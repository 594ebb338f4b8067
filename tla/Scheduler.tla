------------------------------ MODULE Scheduler ------------------------------
(***************************************************************************)
(* The loop that turns prompts into completions: Scheduler.normal_loop     *)
(* (liteopd/inference/scheduler/scheduler.py, decode.py) driven by         *)
(* _EmbeddedScheduler.generate (liteopd/runtime/rollout.py).  One thread   *)
(* runs it, so an iteration is the sequence of steps                       *)
(*                                                                         *)
(*   receive -> schedule -> prepare -> forward -> process -> receive ...   *)
(*                                                                         *)
(* where a prepare that finds no room preempts and schedules again.  The   *)
(* model, the sampler and the end-of-sequence decision are external: any   *)
(* token of Token may be sampled for any request at any step.              *)
(***************************************************************************)
EXTENDS GraphReplay

CONSTANTS
  Prompts,         \* the batches of prompts: functions from Uid to token ids
  Limits,          \* the values max_tokens may have
  Token, Eos,      \* what the sampler may return; Eos ends a sequence
  MaxRetries,      \* _MAX_PREEMPTION_RETRIES
  Abortable        \* uids for which an AbortBackendMsg may arrive

ASSUME SequenceAssumption ==
  /\ MaxSeqLen \in 1..TotalCapacity   \* engine.py: min(config.max_seq_len, num_tokens)
  /\ \A p \in Prompts : p \in [Uid -> Seq(Nat) \ {<<>>}]
  /\ Limits \subseteq Nat
  /\ Token \subseteq Nat /\ Eos \in Token
  /\ MaxRetries \in Nat

VARIABLES
  prompt,     \* the prompt of each uid
  limit,      \* max_tokens of each SamplingParams object, as the caller set it
  pc,         \* the next step of the loop, or how generate ended
  inbox,      \* pending_requests: uids not yet turned into messages
  params,     \* max_tokens of the caller's SamplingParams objects
  pending,    \* prefill_manager.pending_list
  running,    \* decode_manager.running_reqs
  slots,      \* table_manager._free_slots
  pool,       \* cache_manager (see CacheManager)
  batch,      \* the batch being prepared or run
  depth,      \* the recursion depth of _prepare_batch
  sampled,    \* next_tokens of the batch
  output,     \* status_map[uid].output_ids
  \* history, read by no step
  emitted,    \* every token sampled for a uid, in order
  kv,         \* the contents of the KV cache (see BatchLayout)
  capture     \* the buffers the CUDA graphs read (see GraphReplay)

input == <<prompt, limit>>
queues == <<inbox, params, pending, running, slots>>
history == <<emitted, kv, capture>>
vars == <<input, pc, queues, pool, batch, depth, sampled, output, history>>

NoBatch == [phase |-> "none", reqs |-> <<>>]

EmptyPool ==
  [free |-> [i \in PageIds |-> i], tree |-> EmptyTree,
   row |-> [s \in Slots |-> [i \in 1..RowLength |-> 1]],
   tokens |-> [s \in Slots |-> [c \in Columns |-> 0]]]

\* Nothing computed yet but what the capture of the graphs wrote.
EmptyKV ==
  [p \in 1..DummyPage |->
     [o \in 0..PageSize - 1 |->
        [pos |-> 0, seen |-> IF GraphSizes # {} /\ <<p, o>> = FirstCell THEN <<0>> ELSE <<-1>>]]]

Init ==
  /\ prompt \in Prompts
  /\ limit \in [{ParamsOf[u] : u \in Uid} -> Limits]
  /\ pc = "receive"
  /\ inbox = [i \in 1..Cardinality(Uid) |-> i - 1]
  /\ params = limit
  /\ pending = <<>>
  /\ running = {}
  /\ slots = [s \in Slots |-> s]
  /\ pool = EmptyPool
  /\ batch = NoBatch
  /\ depth = 0
  /\ sampled = <<>>
  /\ output = [u \in Uid |-> <<>>]
  /\ emitted = [u \in Uid |-> <<>>]
  /\ kv = EmptyKV
  /\ capture = NewCapture

-----------------------------------------------------------------------------
(***************************************************************************)
(* Requests                                                                *)
(***************************************************************************)
\* _req_to_pending.
\* Slips: the last token sampled is left out, or the limit starts again.
ToPendingCachedOnly(req) ==
  [uid |-> req.uid, ids |-> SubSeq(req.ids, 1, req.cached), limit |-> RemainLen(req),
   fresh |-> FALSE, decoded |-> DecodedLen(req), chunk |-> <<>>]

ToPendingFullLimit(req) ==
  [uid |-> req.uid, ids |-> SubSeq(req.ids, 1, req.device), limit |-> req.maxOut,
   fresh |-> FALSE, decoded |-> DecodedLen(req), chunk |-> <<>>]

ToPending(req) ==
  [uid |-> req.uid, ids |-> SubSeq(req.ids, 1, req.device), limit |-> RemainLen(req),
   fresh |-> FALSE, decoded |-> DecodedLen(req), chunk |-> <<>>]

FreshPending(u) ==
  [uid |-> u, ids |-> prompt[u], limit |-> 0, fresh |-> TRUE, decoded |-> 0, chunk |-> <<>>]

\* table_manager.free; the slip forgets it.
KeepSlot(free, req) == free

FreeSlot(free, req) == Append(free, req.slot)

Idle == pending = <<>> /\ running = {}

-----------------------------------------------------------------------------
(***************************************************************************)
(* receive: offline_receive_msg and _process_one_msg                       *)
(***************************************************************************)
\* Prompts are taken while those already taken fall short of the budget.
TakeCount ==
  LET tokens(n) == FoldLeft(LAMBDA s, u : s + Len(prompt[u]), 0, SubSeq(inbox, 1, n))
  IN IF inbox = <<>> THEN 0
     ELSE Min({k \in 1..Len(inbox) : k = Len(inbox) \/ tokens(k) >= PrefillBudget})

\* UserMsg: drop what cannot generate, clip max_tokens in the object the
\* message refers to, and queue.
Accept(q, u) ==
  LET room == MaxSeqLen - Len(prompt[u])
      p == [q.params EXCEPT ![ParamsOf[u]] = Min2(@, room)]
  IN IF room <= 0 THEN q
     ELSE [params |-> p, pending |-> SortPending(p, Append(q.pending, FreshPending(u)))]

Accepted ==
  LET after[k \in 0..TakeCount] ==
        IF k = 0 THEN [params |-> params, pending |-> pending] ELSE Accept(after[k - 1], inbox[k])
  IN after[TakeCount]

Receive ==
  /\ pc = "receive"
  /\ ~ (Idle /\ inbox = <<>>)
  /\ params' = Accepted.params
  /\ pending' = Accepted.pending
  /\ inbox' = SubSeq(inbox, TakeCount + 1, Len(inbox))
  /\ pc' = "schedule"
  /\ UNCHANGED <<input, running, slots, pool, batch, depth, sampled, output, history>>

\* Nothing pending, running or to come: _RequestAllFinished.
Finish ==
  /\ pc = "receive"
  /\ Idle /\ inbox = <<>>
  /\ pc' = "done"
  /\ UNCHANGED <<input, queues, pool, batch, depth, sampled, output, history>>

\* AbortBackendMsg: the first pending entry of the uid goes, with what its
\* chunked request holds; else the running request goes.
Abort(u) ==
  /\ pc = "receive"
  /\ LET waiting == {i \in DOMAIN pending : pending[i].uid = u}
         entry   == IF waiting = {} THEN <<>> ELSE <<pending[Min(waiting)]>>
         chunk   == IF entry = <<>> THEN <<>> ELSE entry[1].chunk
         active  == {r \in running : r.uid = u}
     IN /\ waiting # {} \/ active # {}
        /\ pending' = IF waiting = {} THEN pending ELSE RemoveAt(pending, Min(waiting))
        /\ IF chunk # <<>>
           THEN /\ slots' = FreeSlot(slots, chunk[1])
                /\ pool' = CacheReq(pool, chunk[1], TRUE)
                /\ UNCHANGED running
           ELSE \/ \E r \in active :
                     /\ running' = running \ {r}
                     /\ slots' = FreeSlot(slots, r)
                     /\ pool' = CacheReq(pool, r, TRUE)
                \/ active = {} /\ UNCHANGED <<input, running, slots, pool>>
  /\ UNCHANGED <<input, pc, inbox, params, batch, depth, sampled, output, history>>

-----------------------------------------------------------------------------
(***************************************************************************)
(* schedule: a prefill batch if one can be admitted, else a decode batch.  *)
(* running_reqs is a set: its order in the batch is arbitrary.             *)
(***************************************************************************)
Round == PrefillRound(params, pool, slots, pending)

SchedulePrefill ==
  /\ pc = "schedule"
  /\ ~ Round.tooLarge /\ Round.admitted # <<>>
  /\ batch' = [phase |-> "prefill", reqs |-> Round.admitted]
  /\ pool' = Round.pool
  /\ slots' = Round.slots
  /\ pending' = PendingAfter(params, Round, pending)
  /\ pc' = "prepare"
  /\ UNCHANGED <<input, inbox, params, running, depth, sampled, output, history>>

ScheduleDecode ==
  /\ pc = "schedule"
  /\ ~ Round.tooLarge /\ Round.admitted = <<>>
  /\ running # {}
  /\ \E order \in SetToSeqs(running) : batch' = [phase |-> "decode", reqs |-> order]
  /\ pool' = Round.pool
  /\ pc' = "prepare"
  /\ UNCHANGED <<input, queues, depth, sampled, output, history>>

ScheduleNothing ==
  /\ pc = "schedule"
  /\ ~ Round.tooLarge /\ Round.admitted = <<>>
  /\ running = {}
  /\ pool' = Round.pool
  /\ depth' = 0
  /\ pc' = "receive"
  /\ UNCHANGED <<input, queues, batch, sampled, output, history>>

\* try_add_one raises: the request needs more than the total capacity.
RejectTooLarge ==
  /\ pc = "schedule"
  /\ Round.tooLarge
  /\ pool' = Round.pool
  /\ slots' = Round.slots
  /\ pc' = "too_large"
  /\ UNCHANGED <<input, inbox, params, pending, running, batch, depth, sampled, output, history>>

-----------------------------------------------------------------------------
(***************************************************************************)
(* prepare: _prepare_batch                                                 *)
(***************************************************************************)
Prepare ==
  /\ pc = "prepare" /\ depth <= MaxRetries
  /\ ~ AllocateRaises(pool, batch.reqs)
  /\ ~ AllocateFails(pool, batch.reqs)
  /\ pool' = AllocatePaged(pool, batch.reqs)
  /\ depth' = 0
  /\ pc' = "forward"
  /\ UNCHANGED <<input, queues, batch, sampled, output, history>>

\* _abort_prefill_batch, for one request: a chunk goes back with its slot
\* and handle, anything else gives both up.
\* A slip: every request is taken for a chunk and keeps its slot.
AbortKeepsSlot(s, req) ==
  [s EXCEPT !.back = Append(@, ToPending(req)), !.pool = UnlockPrefix(@, req.handle)]

AbortPrefill(s, req) ==
  IF req.chunked
  THEN [s EXCEPT !.back = Append(@, [ToPending(req) EXCEPT !.chunk = <<req>>])]
  ELSE [s EXCEPT !.back = Append(@, ToPending(req)),
                 !.slots = FreeSlot(@, req),
                 !.pool = UnlockPrefix(@, req.handle)]

\* The state when allocation has failed: evicted pages stay free.
Aborted ==
  LET room == [pool |-> MakeRoom(pool, PagesNeeded(batch.reqs)), slots |-> slots, back |-> <<>>]
      after[k \in 0..Len(batch.reqs)] ==
        IF k = 0 THEN room ELSE AbortPrefill(after[k - 1], batch.reqs[k])
  IN IF batch.phase = "prefill" THEN after[Len(batch.reqs)] ELSE room

\* prepend_pending does nothing with an empty list.
\* A slip: the batch that failed is not put back.
RequeuedNot(back) == pending

Requeued(back) ==
  IF back = <<>> THEN pending ELSE SortPending(params, back \o pending)

NoRoom ==
  /\ pc = "prepare" /\ depth <= MaxRetries
  /\ ~ AllocateRaises(pool, batch.reqs)
  /\ AllocateFails(pool, batch.reqs)

\* _preempt_longest, then schedule again one level deeper.
Preempt ==
  /\ NoRoom
  /\ \E victim \in running :
       /\ \A r \in running : r.device <= victim.device
       /\ running' = running \ {victim}
       /\ slots' = FreeSlot(Aborted.slots, victim)
       /\ pool' = CacheReq(Aborted.pool, victim, TRUE)
       /\ pending' = SortPending(params, Append(Requeued(Aborted.back), ToPending(victim)))
       /\ output' = [output EXCEPT ![victim.uid] = <<>>]
  /\ batch' = NoBatch
  /\ depth' = depth + 1
  /\ pc' = "schedule"
  /\ UNCHANGED <<input, inbox, params, sampled, emitted, kv, capture>>

CannotPreempt ==
  /\ NoRoom
  /\ running = {}
  /\ slots' = Aborted.slots
  /\ pool' = Aborted.pool
  /\ pending' = Requeued(Aborted.back)
  /\ batch' = NoBatch
  /\ depth' = 0
  /\ pc' = "receive"
  /\ UNCHANGED <<input, inbox, params, running, sampled, output, history>>

\* The depth limit: the batch is dropped as it is.
GiveUp ==
  /\ pc = "prepare" /\ depth > MaxRetries
  /\ batch' = NoBatch
  /\ depth' = 0
  /\ pc' = "receive"
  /\ UNCHANGED <<input, queues, pool, sampled, output, history>>

\* torch.cat([]) in evict.
EvictError ==
  /\ pc = "prepare" /\ depth <= MaxRetries
  /\ AllocateRaises(pool, batch.reqs)
  /\ pc' = "evict_error"
  /\ UNCHANGED <<input, queues, pool, batch, depth, sampled, output, history>>

-----------------------------------------------------------------------------
(***************************************************************************)
(* forward: _forward and Engine.forward_batch.  The sampler returns one    *)
(* token per request, which is also put where the next decode reads it; a  *)
(* chunk's token is never looked at.                                       *)
(***************************************************************************)
Forward ==
  /\ pc = "forward"
  /\ IF CanUseGraph(batch)
     THEN LET n == Len(PaddedReqs(batch))
          IN /\ capture' = PrepareForReplay(capture, pool, PaddedReqs(batch))
             /\ kv' = ForwardKV(kv, Replay(capture', n))
     ELSE UNCHANGED capture /\ kv' = ForwardKV(kv, View(pool, PaddedReqs(batch)))
  /\ LET after == [i \in DOMAIN batch.reqs |-> CompleteOne(batch.reqs[i])]
         old   == ToSet(batch.reqs)
     IN /\ batch' = [batch EXCEPT !.reqs = after]
        /\ running' = {r \in (running \ old) \cup ToSet(after) : CanDecode(r)}
        /\ pending' = [i \in DOMAIN pending |->
                         IF pending[i].chunk # <<>> /\ pending[i].chunk[1] \in old
                         THEN [pending[i] EXCEPT !.chunk = <<CompleteOne(@[1])>>]
                         ELSE pending[i]]
  /\ \E tokens \in [{i \in DOMAIN batch.reqs : ~ batch.reqs[i].chunked} -> Token] :
       sampled' = [i \in DOMAIN batch.reqs |-> IF i \in DOMAIN tokens THEN tokens[i] ELSE Eos]
  /\ pool' = WriteTokens(pool, batch.reqs, sampled')
  /\ pc' = "process"
  /\ UNCHANGED <<input, inbox, params, slots, depth, output, emitted>>

(***************************************************************************)
(* process: _process_last_data and offline_send_result                     *)
(***************************************************************************)
\* Slips: generation goes on past the limit, or past the end of sequence.
FinishedAtEos(req, token) == token = Eos

FinishedAtLimit(req, token) == ~ CanDecode(req)

Finished(req, token) == ~ CanDecode(req) \/ token = Eos

\* offline_send_result; the slip leaves out the last token at the limit too.
ReplyUnfinished(ids, token, finished) == IF finished THEN ids ELSE Append(ids, token)

Reply(ids, token, finished) ==
  IF finished /\ token = Eos THEN ids ELSE Append(ids, token)

ProcessOne(s, i) ==
  LET old   == batch.reqs[i]
      token == sampled[i]
      req   == [old EXCEPT !.ids = Append(@, token)]
      done  == Finished(req, token)
      pool1 == CacheReq(s.pool, req, done)
      out   == [s.output EXCEPT ![req.uid] = Reply(@, token, done)]
      said  == [s.emitted EXCEPT ![req.uid] = Append(@, token)]
  IN IF old.chunked THEN s
     ELSE IF done
     THEN [running |-> s.running \ {old}, slots |-> FreeSlot(s.slots, req),
           pool |-> pool1, output |-> out, emitted |-> said]
     ELSE IF batch.phase = "prefill"
     THEN [running |-> (s.running \ {old}) \cup {[req EXCEPT !.handle = InsertKey(req)]},
           slots |-> s.slots, pool |-> pool1, output |-> out, emitted |-> said]
     ELSE [running |-> (s.running \ {old}) \cup {req},
           slots |-> s.slots, pool |-> s.pool, output |-> out, emitted |-> said]

Processed ==
  LET after[k \in 0..Len(batch.reqs)] ==
        IF k = 0 THEN [running |-> running, slots |-> slots, pool |-> pool,
                       output |-> output, emitted |-> emitted]
        ELSE ProcessOne(after[k - 1], k)
  IN after[Len(batch.reqs)]

Process ==
  /\ pc = "process"
  /\ running' = Processed.running
  /\ slots' = Processed.slots
  /\ pool' = Processed.pool
  /\ output' = Processed.output
  /\ emitted' = Processed.emitted
  /\ batch' = NoBatch
  /\ sampled' = <<>>
  /\ pc' = "receive"
  /\ UNCHANGED <<input, inbox, params, pending, depth, kv, capture>>

-----------------------------------------------------------------------------
Stopped == pc \in {"done", "too_large", "evict_error"}

Phases == {"receive", "schedule", "prepare", "forward", "process",
           "done", "too_large", "evict_error"}

\* generate has returned or raised.
Ended == Stopped /\ UNCHANGED vars

Next ==
  \/ Receive \/ Finish \/ \E u \in Abortable : Abort(u)
  \/ SchedulePrefill \/ ScheduleDecode \/ ScheduleNothing \/ RejectTooLarge
  \/ Prepare \/ Preempt \/ CannotPreempt \/ GiveUp \/ EvictError
  \/ Forward \/ Process \/ Ended

Spec == Init /\ [][Next]_vars

\* generate runs the loop until it returns or raises and its thread is never
\* stopped.  Every step but Abort and Ended moves pc, so this is weak fairness
\* of those steps.  That one is enabled until the loop has stopped is checked
\* as the absence of deadlock.
Turn == ~ Stopped /\ pc' \in Phases

FairSpec == Spec /\ WF_pc(Turn)

-----------------------------------------------------------------------------
(***************************************************************************)
(* Properties                                                              *)
(***************************************************************************)

\* Requests that hold a table slot and a handle: decoding, in the batch, or
\* between two chunks of their prompt.
Chunks == {pending[i].chunk[1] : i \in {j \in DOMAIN pending : pending[j].chunk # <<>>}}

Live == running \cup ToSet(batch.reqs) \cup Chunks

\* The positions of its row a live request owns: those the prefix cache does
\* not hold for it, as far as pages have been allocated.
OwnedBy(req) ==
  Len(req.handle) + 1 .. CeilDiv(IF pc = "forward" /\ req \in ToSet(batch.reqs)
                                 THEN req.device ELSE req.cached, PageSize)

Owned == {o \in Live \X (1..RowLength) : o[2] \in OwnedBy(o[1])}

\* The state is well formed.
TypeOK ==
  /\ pc \in Phases
  /\ ToSet(inbox) \subseteq Uid
  /\ params \in [DOMAIN limit -> Nat]
  /\ \A i \in DOMAIN pending : pending[i].uid \in Uid /\ pending[i].ids \in Seq(Nat)
  /\ \A r \in Live : /\ r.uid \in Uid /\ r.slot \in Slots
                     /\ 0 <= r.cached /\ r.cached < r.device /\ r.device <= r.maxDevice
  /\ ToSet(slots) \subseteq Slots
  /\ ToSet(pool.free) \subseteq PageIds
  /\ pool.row \in [Slots -> [1..RowLength -> PageIds]]
  /\ depth \in 0..MaxRetries + 1
  /\ output \in [Uid -> Seq(Token)] /\ emitted \in [Uid -> Seq(Token)]

\* Every page is in exactly one place, once: the free list, the prefix cache
\* or the owned part of one live request's row.  So no page is leaked, freed
\* twice or given to two owners by any order of admission, allocation,
\* eviction, preemption, abort and completion.
PagesPartitioned ==
  \A p \in PageIds :
    Cardinality({i \in DOMAIN pool.free : pool.free[i] = p})
      + Cardinality({k \in Cached(pool.tree) : pool.tree.page[k] = p})
      + Cardinality({o \in Owned : pool.row[o[1].slot][o[2]] = p}) = 1

\* Every table slot is free once or belongs to one live request, so no two
\* requests share a row of the page table.
SlotsPartitioned ==
  \A s \in Slots :
    Cardinality({i \in DOMAIN slots : slots[i] = s})
      + Cardinality({r \in Live : r.slot = s}) = 1

\* No step of the loop loses or doubles what a request holds.  These do: a
\* chunk whose batch finds no room is queued a second time, a prefill batch
\* is dropped at the depth limit, and a round that cuts a prompt passes over
\* the entry after it, which may hold a chunk.
Orderly ==
  /\ NoRoom => \A i \in DOMAIN batch.reqs : ~ batch.reqs[i].chunked
  /\ pc = "prepare" /\ depth > MaxRetries => batch.phase = "decode"
  /\ pc = "schedule" /\ Round.admitted # <<>> /\ Last(Round.admitted).chunked =>
       LET passed == Len(Round.admitted) + Len(Round.kept)
       IN passed \in DOMAIN pending => pending[passed].chunk = <<>>

\* Nothing at all is passed over.
NonePassedOver ==
  pc = "schedule" /\ Round.admitted # <<>> /\ Last(Round.admitted).chunked =>
    Len(Round.admitted) + Len(Round.kept) \notin DOMAIN pending

\* Every prompt has a SamplingParams object of its own, for a token at least.
OwnLimits == (\A u, v \in Uid : ParamsOf[u] = ParamsOf[v] => u = v) /\ 0 \notin Limits

\* The prefix cache counts exactly the handles of the live requests: the
\* paths through lock, abort, preemption and completion are balanced.
HandlesBalanced ==
  \A n \in pool.tree.nodes :
    pool.tree.ref[n] = Cardinality({r \in Live : IsPrefix(n, r.handle)})

\* What admission has counted on is still there: the tokens of a prefill
\* batch fit in the pages that are free and those evict could take, although
\* every lock of the round has withdrawn pages from the second kind
\* (prefill.py:112, "Re-check after lock").
AdmittedFits ==
  pc = "prepare" /\ batch.phase = "prefill" =>
    SumFunction([i \in DOMAIN batch.reqs |-> ExtendLen(batch.reqs[i])])
      <= (Len(pool.free) + Size(pool.tree, Evictable(pool.tree))) * PageSize

\* What a request holds, it holds once: the three above together.
OwnedOnce == PagesPartitioned /\ SlotsPartitioned /\ HandlesBalanced

\* A batch runs on its own keys and values: before it runs, the row of the
\* hidden states each request's logits are taken from is that of its last
\* token, and after, every cell a request attends to holds the key and value
\* of its own prefix, at its own position (cache.py: "[0, req.cached_len)
\* This part is valid for attention kernel read/write").
AttendsOwnPrefix ==
  /\ pc = "forward" =>
       \A i \in DOMAIN batch.reqs :
         LogitsRow(batch, i) = SumFunction([j \in 1..i |-> ExtendLen(batch.reqs[j])])
  /\ pc = "process" =>
       \A r \in ToSet(batch.reqs) : \A pos \in 0..r.cached - 1 :
         LET cell == CellAt(pool, r.slot, pos)
         IN kv[cell[1]][cell[2]] = [pos |-> pos, seen |-> SubSeq(r.ids, 1, pos + 1)]

TokenLimit(u) == Min2(limit[ParamsOf[u]], MaxSeqLen - Len(prompt[u]))

Complete(u) ==
  \/ Len(emitted[u]) >= TokenLimit(u)
  \/ emitted[u] # <<>> /\ Last(emitted[u]) = Eos

\* No prompt gets lost or is worked on twice: at the end of an iteration it
\* is waiting, running or complete, and only one of these.
EachPromptOnce ==
  pc = "receive" =>
    \A u \in Uid \ Abortable :
      LET places == Cardinality({i \in DOMAIN inbox : inbox[i] = u})
                      + Cardinality({i \in DOMAIN pending : pending[i].uid = u})
                      + Cardinality({r \in running : r.uid = u})
      IN places = IF Complete(u) /\ u \notin ToSet(inbox) THEN 0 ELSE 1

\* A request goes on where it stopped (scheduler.py: "Preserve input +
\* already-generated tokens so re-prefill resumes without re-decoding"): its
\* text is the prompt and every token sampled so far, and what it may still
\* generate is what is left of its limit, through preemptions and aborts.
ResumesWhereItStopped ==
  LET text(u) == prompt[u] \o emitted[u]
      left(u) == TokenLimit(u) - Len(emitted[u])
  IN /\ \A r \in running : /\ r.ids = text(r.uid)
                           /\ pc # "process" => RemainLen(r) = left(r.uid)
     /\ \A i \in DOMAIN pending :
          LET e == pending[i]
          IN e.ids = text(e.uid) /\ MaxOutputLen(params, e) = left(e.uid)

\* What generate returns for a prompt is what was sampled for it, without
\* the end of sequence.
OutputIsWhatWasSampled ==
  pc = "done" =>
    \A u \in Uid :
      output[u] = IF emitted[u] # <<>> /\ Last(emitted[u]) = Eos
                  THEN Front(emitted[u]) ELSE emitted[u]

\* README.md: "Student generates N responses": when generate returns, every
\* prompt has its completion.
AllComplete == pc = "done" => \A u \in Uid \ Abortable : Complete(u)

\* generate returns or raises: the loop does not run without end.
Terminates == <>Stopped

-----------------------------------------------------------------------------
\* The loop implements the promise of a rollout.
Outcome ==
  CASE pc = "done" -> "returned"
    [] pc \in {"too_large", "evict_error"} -> "raised"
    [] ~ Stopped -> "running"

Promise == INSTANCE Rollout WITH
  bound <- [u \in Uid |-> TokenLimit(u)], said <- emitted, state <- Outcome

ImplementsRollout == Promise!Spec
=============================================================================
