# Lite-OPD in TLA+

A verification project for Lite-OPD, the on-policy-distillation trainer with an
embedded inference engine (`src/liteopd`). The modules model the program's own
control logic; TLC checks them on small instances and TLAPS proves theorems about
them for every value of their constants.

File names below are relative to `src/src/liteopd` unless they start with `src/`.

## 1. Inventory of the system

A launcher starts torchrun, which starts one process per rank. Within a process one
thread runs everything: the training loop calls the rollout client, which runs the
inference engine's scheduler loop until every prompt has its response. Ranks meet
only in collectives.

| component | state | operations | what makes it correct |
|---|---|---|---|
| radix prefix cache `inference/kvcache/radix_cache.py` | tree of nodes with key, value, `ref_count`, `timestamp`; `evictable_size`, `evictable_leaf_size`, `protected_size` | match, lock/unlock, insert, evict | what is locked is never evicted or changed; reference counts are exact; children of a node differ in their first page; counters agree with the tree; least recently used leaves go first |
| cache manager `inference/scheduler/cache.py` | `free_slots`, `page_table`, the prefix cache | match, lock, allocate (with eviction), cache_req, lazy free | every page is free, cached or owned by one request, and only one of these |
| prefill manager `inference/scheduler/prefill.py`, `utils.py`, `table.py` | `pending_list`, table slots | admission of a prefill batch, chunking, re-queueing, abort | a slot has one owner; a prompt stays in the queue until admitted; admission does not promise what allocation cannot give |
| scheduler `inference/scheduler/scheduler.py`, `decode.py` | `running_reqs`, `finished_reqs`, current batch, `token_pool` | receive, schedule, prepare (preempt, abort, retry), forward, process | no request is lost or run twice; preemption resumes where it stopped; the loop comes to an end |
| batch layout `inference/attention/*.py`, `engine/graph.py` | capture buffers | metadata, padding, capture, replay | every token attends to the keys and values of its own prefix and nothing else, whatever the batch is padded with |
| rollout client `runtime/rollout.py` | `pending_requests`, `status_map`, `counter` | generate, prepare, release, refresh, flush | the responses are what was sampled; between sessions nothing of the old one survives |
| KV storage `inference/kvcache/{mha_pool,vmm_pool}.py` | cells; mapped or not | store, map, unmap | only mapped memory is used; no key or value of older weights is matched |
| weight sharing, fused projections `runtime/weight_sync.py`, `train/fused_model.py`, `inference/models/weight.py` | storage behind each tensor | fuse, share, unfuse, load | student, engine, captured graphs and checkpoints are one model |
| training loop `train/run_opd_training.py` | step, gradients, runtime, checkpoints | rollout, loss, update, refresh, evaluate, checkpoint, clean up | ranks reach the same collectives; a bad gradient on one rank skips the step on all |
| ZeRO-2 `train/zero2.py` | flat parameters, shards, moments, snapshot | reduce_scatter_grads, step | equals one unsharded AdamW; nobody reads the buffer while it holds gradients |
| packing, losses `train/packing.py`, `losses/kl.py` | gradients by position | packing, three backward modes | every response position has its weight once |
| data `data/loading.py`, `eval/scoring.py` | examples, shards, counts | split, filter, shard, batch, score, reduce | held-out examples are not trained on; visits are even; each example counts once |
| launcher `train/launcher.py` | child process, `cleanup_started` | start, wait, signal, clean up | no child outlives the launcher |

The rest (models, kernels, tensor-parallel communication, serialisation of
messages, configuration, scripts, benchmarks) is tensor computation, I/O or parsing.
`PROJECT.json` lists every component with its status.

How they interact: `generate` fills `pending_requests` and repeats `normal_loop`;
the scheduler calls the prefill manager, which matches and locks in the prefix
cache and takes table slots; `_prepare_batch` calls the cache manager for pages and
the attention backend for index tensors; the engine reads page-table rows, directly
or from the buffers of a captured graph; results go back by `send_result` to
`status_map`. The engine's weights are the student's memory, which the optimizer
rewrites between two rollouts and, for a moment, fills with gradients.

Two things make this hard. Inside a rank nothing is concurrent, but pages, slots, handles,
tensors and addresses are shared by convention only: no type or lock keeps their users
apart, and the failures come from long sequences of legal calls, a failed allocation in
the middle of a batch, counters kept incrementally, rows and buffers that still hold what
was there before. Between the ranks there are no messages but collectives: a rank that takes
another turn, or none at all, leaves the others waiting for ever. The hazards are in
`PROJECT.json`, each at its line, with the properties that would catch it.

## 2. Modules

| module | models | notes |
|---|---|---|
| `RadixTree` | `radix_cache.py` as operators on a tree record | used by both component models |
| `PrefixCache` | the contract of `kvcache/base.py`, its sizes and its RuntimeError included | abstract specification |
| `RadixCache` | the prefix cache under the calls its users make | refines `PrefixCache`, except where evict is asked for too much (section 5) |
| `CacheManager` | `cache.py` as operators on a pool record | extends `RadixTree` |
| `PrefillManager` | `prefill.py`, `utils.py`, `table.py` | extends `CacheManager` |
| `BatchLayout` | the index tensors of `scheduler.py`, `fi.py`, `fa.py`, `trtllm.py`; what a forward reads and writes | extends `PrefillManager` |
| `GraphReplay` | capture buffers, copy and replay (`graph.py`, capture data of the backends) | extends `BatchLayout` |
| `Scheduler` | `normal_loop` and `generate` | extends `GraphReplay`, refines `Rollout` |
| `Rollout` | what a caller of `generate_request_batch` may rely on | abstract specification |
| `Weights` | `fused_model.py`, `weight_sync.py`, `models/weight.py`: views of one model | |
| `Zero2` | `zero2.py`, and AdamW behind DDP | extends `Weights` |
| `DataParallel` | one model trained on the gradients of all ranks | abstract specification |
| `Session` | `prepare`, `release`, `refresh_from_model`, the VMM pool | a call of generate is one operator |
| `TrainData` | loading, splits, shards, batches | |
| `Training` | the training loop of every rank | extends `Zero2`, `Session`, `TrainData` |
| `Launcher` | `launcher.py` | |
| `TrainJob` | launcher, agent and ranks together | refines `DataParallel` |
| `Packing`, `StepLoss` | `packing.py`; the loops over packs, samples and chunks | |
| `Evaluation` | `scoring.py`: shards, request batches, reduction | extends `TrainData` |
| `DataPath` | the way of the examples through a job | extends `StepLoss`, `Evaluation` |
| `MC*` | instances for TLC | `MCRadixCache` also has evict's heap loop as written, to compare with |
| `*Proofs`, `NumberLemmas` | lemmas and theorems | section 6 |

### How state corresponds

*Radix tree.* Every key, split position and length in `radix_cache.py` is a multiple
of the page size, so the unit is the page block and sizes count pages. A node is
named by the key from the root to it. This identification is sound because
`split_at` keeps the object of the lower half, whose full key does not change: a
handle's node keeps its name for life. Timestamps come from a monotonic clock and
are only compared, so their ranks are kept. `_tree_walk` stamps all nodes on its
path with one value, so equal stamps lie on one path and the heap never has to
order two of them. *Eviction* is stated without the loop: a node is popped at the newest
stamp of its subtree, and is popped at all if those before it free too little.
`EvictsLeastRecent` compares this with the loop as written, in every reachable tree.

*Pool.* `free_slots` is a sequence (its order decides which page is reused), the page
table has one entry per page in place of one per token, and rows are never cleared,
as in the code. `token_pool` is `pool.tokens`.

*Requests* carry the fields of `Req` (`cached_len`, `device_len`, `max_device_len`,
`output_len`, handle, slot). `ChunkedReq` is the flag `chunked`. A pending request
that still carries the caller's `SamplingParams` object reads `max_tokens` through
it (`fresh`), because `_process_one_msg` clips it in place and the queue's priority
reads it each time.

*Steps of the loop.* One action per phase of an iteration: `Receive` (or `Finish`,
the `_RequestAllFinished` exception, or `Abort`), `SchedulePrefill` / `ScheduleDecode`
/ `ScheduleNothing` / `RejectTooLarge`, `Prepare` / `Preempt` / `CannotPreempt` /
`GiveUp` / `EvictError`, `Forward`, `Process`. `Preempt` contains everything
`_prepare_batch` does before it recurses: eviction that was not enough,
`_abort_prefill_batch`, `_preempt_longest` with `_free_req_resources`, and the reset
of the output in `_on_preempt`. The recursion is the variable `depth`. Between
phases nothing else runs, so the grain of the actions loses no behaviour; it lets
properties look at the state inside an iteration.

*A forward pass* works on a view: the input ids, positions, output cells and the cells each
query sees, computed as the code computes them from the flat tensors and prefix sums. `kv` gives for each cell the
position and the tokens its value depends on. When a graph of a size exists, the view is read from
`capture` instead, the static buffers into which the batch has been copied; a backend copies a
rectangle of the page table (`fa`, `trtllm`) or ragged cells (`fi`, `Ragged`).

*Weights and numbers.* A tensor is a view: which storage, from which row. A value is the set of
what it was computed from (position, rank, step, update, learning rate), so two values are
equal when they come from the same gradients in the same updates; this tells apart a missed,
doubled, misplaced or unreduced gradient and abstracts from floating point.

*A rank* runs from one collective to the next in one step, arrives there and waits; a collective
completes for all ranks at once. Segments of different ranks interleave freely, any segment may
raise, and a segment that writes a checkpoint is two steps. A signal handler runs between two bytecodes, hence
in a segment and never within a collective.

*External:* the model and the sampler return any token for any request. `running_reqs` is
a Python set, so a decode batch has any order. `_preempt_longest` takes any request of the largest
`device_len`. `AbortBackendMsg` has no sender in this repository; its handler is
modelled and the message may come before any iteration. torchrun's agent starts the ranks,
succeeds with all of them, and when one fails or it is terminated sends SIGTERM and then SIGKILL.
AdamW adds the moments to the parameters.

*History variables* no step reads: `emitted`, all tokens sampled for a prompt, and `visits`, how often
a rank has trained on an example.

## 3. Runs

| run | instance | checks |
|---|---|---|
| `radix_cache` | 2 block contents, keys up to 3 blocks, 2 holders, 2 page indices | reference counts, tree shape, counters, victims and amount of eviction, stability of held indices, refinement of `PrefixCache` |
| `scheduler` | 3 prompts sharing prefixes for 2 table slots, 5 pages of one token, limits 2 and 3 | ownership of pages, slots, handles; no prompt lost; resume; refinement of `Rollout` |
| `scheduler_chunks` | prompts longer than the budget of 2, one shared `SamplingParams`, aborts, graphs of 1 and 4 with ragged indices | ownership, own prefix, output |
| `scheduler_pressure` | 3 unrelated prompts, 2 pages of three tokens, retry limit 0, a graph of 2 with a page table | pages, headroom of what is admitted, resume, own prefix, termination |
| `scheduler_abort` | 2 pages of four tokens, a prompt that fills the budget of 3 and two short ones that arrive while it runs, or three short ones together | ownership, no prompt lost, resume |
| `train_job` | 2 ranks, both strategies, up to 3 steps, evaluation and checkpoint at step 2, 2 failures, 2 signals | collectives, readers, checkpoints, cached keys, launcher, end, refinement of `DataParallel` |
| `data_path` | 7 examples, 2 ranks, batches of 3 for 3 steps, packs of 7 tokens, 3 backward modes | split, visits, packs, weights, counts |
| `repeated_prompts`, `chunk_drops_prompt`, `output_lost`, `admission_livelock`, `sample_mode` | see section 5 | one counterexample each |

### Bounds, and why they are enough

- Keys of three blocks over two contents give a node with two children, a split of
  an inner node and of a leaf, and a parent that becomes a leaf by eviction. Two
  holders can hold nested, equal and diverging handles. `MaxLeafSize` bounds
  `evictable_leaf_size`, which drifts up without limit when
  unreferenced leaves are split (section 5).
- Three requests are the fewest for which one runs, one is preempted and one waits.
  Five pages are too few for two long responses, and two slots are one too few; so a full
  table, preemption of either and eviction all happen in `scheduler`. An admitted prefill
  batch that cannot be allocated needs page rounding (admission counts tokens, allocation
  takes pages): `scheduler_abort` has short prompts that need a page of four tokens each.
  `Token = {1, 9}` with `Eos = 9` gives every response every length up to its limit.
- `Reserve = 1` (admission_reserve_tokens) makes admission optimistic, the case that
  leads to preemption; a large reserve only admits less.
- `MaxRetries` is 5 in the code. Reaching it takes six preemptions within one
  iteration, hence more requests than TLC can handle; `scheduler_pressure` sets it to
  0 so that the limit is reached. That run does not check `SlotsPartitioned`,
  `HandlesBalanced` or `EachPromptOnce`, which a prefill batch given up breaks (section 5).
- `PageSize` is 1, 3 and 4, so partial pages at the end of a prompt and pages shared
  across `cached_len` occur.
- A graph of four for three requests always pads; graphs of one and four make a small batch follow a
  large one in the same buffers.
- No counter of `Scheduler` is unbounded: lengths are bounded by the limits, and
  `depth` by `MaxRetries`.
- `train_job` trains an embedding tied to the head and a fused projection of parts of 2, 1 and 1
  rows: 5 rows over two shards of 3, so the projection lies in both and the second is partly
  padding. Three examples for two ranks are unequal shards; three steps show an update, one after a skipped step,
  and the one after an evaluation and a checkpoint. `MaxFailures = 2` counts exceptions and
  non-finite gradients, so both ranks may fail or one after a skip; `MaxSignals = 2` is one more than the launcher handles.
- `data_path`: no size divides another. Of 7 examples 6 are loaded and 1 is for validation, of which
  the second rank therefore has none; without the too long ones the ranks have shards of 2, or of 1 and 0,
  which raises; batches of 3 wrap around a shard of 2. Prompts of 1 or 2 tokens with responses
  of 0 to 2 make packs of one to three sequences, and a batch whose responses are all empty. No sequence of the run
  exceeds a pack and no batch is shorter than a shard; `BatchesPackedGreedily` and `ShardGoneRoundEvenly` (section 6) hold for these sizes too.

`Ended` and `Stopped` let a finished system stutter; deadlock is
checked in every run, so nothing is ever stuck in the middle.

### Fairness

- `Scheduler!FairSpec`: weak fairness of `Turn`, a step that moves `pc`. `generate` is a
  `while True` in one thread which nobody suspends (`rollout.py:338`), so while some step
  of the loop is enabled one is eventually taken. Aborts are not fair. Nothing is
  assumed of the sampler: `Terminates` holds because every token brings a response
  closer to its limit.
- `TrainJob!Fairness`: weak fairness of every rank's own steps, of a collective in which all
  ranks wait, of the agent and of the launcher's own steps: processes the operating
  system schedules, and a collective library that returns when all have called it. An empty
  shard is certain to raise. Signals, exceptions, non-finite gradients and the
  timeout of `wait` are not fair: they may happen and need not.

## 4. What the checks show

- *Pages.* `PagesPartitioned`: at every step each page is free, cached, or in the owned
  part of one live request's row, exactly once. Owned is what lies behind the
  request's handle, up to `cached_len` (up to `device_len` once pages are allocated).
  This is `check_integrity` made precise: the code's check counts only when idle, and the
  embedded scheduler never calls it.
- *Slots and handles.* `SlotsPartitioned`, `HandlesBalanced`: the many paths by which a
  request stops (end, limit, preemption, aborted prefill batch, abort message,
  between two chunks) each give back a slot and a lock once. `OwnedOnce` is the three together.
- *Requests.* `EachPromptOnce` relates the queue, the running set and what has been
  sampled; `ResumesWhereItStopped` relates a request's ids and remaining limit to the
  history, through any number of preemptions.
- *Keys and values.* `AttendsOwnPrefix` follows each cell of the KV pool through the tensors the
  code builds: what a token attends to was computed for its own prefix at its own positions, and
  the logits that give a request its next token are those of its last one. That includes batches that mix cache hits with
  none, padding with the dummy request, and graphs replayed over what larger batches left
  in the buffers. For equal prompts in one batch it fails (section 5).
- *Rollout.* `ImplementsRollout`: responses grow token by token, never past their
  limit or an end of sequence, and the call returns only when all have ended. It speaks of
  what was sampled; that the returned output equals it is `OutputIsWhatWasSampled`, which
  holds where nothing is preempted (`scheduler_chunks`) and fails where something is.
- *Termination.* `Terminates` holds in `scheduler_pressure`, where every request that
  waits either fits or waits for a running one.
- *Prefix cache.* `RefsExact`, `BranchesAtNodes`, `SizesExact`, `LeafSizeNeverUnder`,
  `EvictsLeastRecent`, `HeldIndicesStable`. `ImplementsPrefixCache` has two parts. As a map from
  prefixes to pages the tree takes the steps of `PrefixCache`. A step does not show the size evict was called with, so
  the result is also compared for each size in every reachable tree. Up to `evictable_size` it is one `base.py`
  allows, and nothing is raised (`EvictsAsAsked`): evict frees enough, and does not return early while something can be
  evicted. Beyond, everything evictable goes, or `torch.cat` raises because nothing was (`EvictsAllBeyond`); that evict
  returns at all there is not what `base.py` says (section 5).
- *Admission.* `AdmittedFits`: the tokens of an admitted prefill batch fit in what is free or evictable once the
  batch has locked the prefixes it matched. Without the second look at the headroom, after the lock, it fails.
- *Ranks.* `SameCollective`: skip, evaluation, checkpoint and the end of the loop send no two
  ranks to different collectives. `JobEnds`: whatever fails, the ranks end, because the agent kills those that
  wait for one that is gone; the exception is an agent that the launcher itself had to kill, whose ranks
  nobody ends.
- *One model.* `ImplementsDataParallel`: each update applies every rank's gradients of one step
  once, at every position, with the moments of all steps before and the learning rate set by the
  last update, for ZeRO-2 and for DDP. `ReadsTheModel`: the engine, its captured graphs, the loss and the
  checkpoint read that model; none sees gradients in the flat buffer or storage that is no longer updated.
  `CheckpointsAreTheModel`: what is written after step s is the model with the updates up to s
  and, loaded in any order of names, gives back the fused parameters; a partial directory exists only
  while rank 0 writes or after it has died.
- *Fresh cache.* `NoStaleKV`: at a rollout and at an evaluation everything the prefix cache could match was
  computed with the present weights, in mapped memory.
- *Launcher.* `LeavesNoAgent`: the launcher returns while the agent runs only after a signal
  before the handle was assigned, or a second one during clean-up.
- *Data.* `HeldOut`, `EvenVisits`, `PacksAreGreedy`, `ResponsesWeighted`, `EachExampleCountedOnce`:
  see the comments in `DataPath` and `Evaluation`. `ResponsesWeighted` holds for all three backward modes that
  get as far as returning, whatever packs and chunks are: hidden states and `lm_head` get the same weight for the same
  positions, once.

Each property has a mutant in `PROJECT.json`: a definition of the model replaced by a
plausible slip of the code, written next to the definition, which the property's run refutes.

## 5. Where the code and its documentation disagree

Each of these has a run whose property is refuted.

1. *Equal prompts in one batch* (`repeated_prompts`, `cache.py:82`). The second
   request's pages are freed as duplicates while its page-table row still points at
   them. On-policy distillation samples the same prompt repeatedly, so equal prompts
   in a batch are normal.
2. *A chunked prompt drops the next one* (`chunk_drops_prompt`, `prefill.py:223`).
   A chunked request is counted as admitted and as kept.
3. *Preemption loses output* (`output_lost`, `rollout.py:315`). `_on_preempt` clears the
   output although generation resumes behind it.
4. *Admission can wait for ever* (`admission_livelock`, `prefill.py:71`). Headroom
   counts unreferenced leaves, while evict also frees inner nodes.
5. *Backward mode `sample` raises* (`sample_mode`, `run_opd_training.py:340`). The samples of a pack share one
   forward pass and the first backward frees its graph.

Seen while modelling, without a run of their own:

- *evict returns less than it is asked for* (`radix_cache.py:166-168`). `base.py:121-122` promises "RuntimeError: If the
  requested size is larger than the evictable size". The code leaves its loop when the leaves run out and returns what it has:
  with one page cached, a call for two returns that one; with no leaf counted it returns an empty tensor (line 158).
  `CacheManager._allocate` counts on that and looks afterwards (`cache.py:116-119`), and
  `kvcache/FOLDER_MAP.md:8` calls evict "best-effort (stops when no more evictable leaves remain)".
  `PrefixCache` has the contract of `base.py`, `EvictRaises` included, and `EvictsAllBeyond` is what the code does where it departs from it.
- *evict raises when it should return nothing* (`radix_cache.py:182`). `evictable_leaf_size` drifts above the leaves' size when an
  unreferenced leaf is split (`radix_cache.py:69` moves no counter). `SizesExact` therefore says nothing of
  it, `LeafSizeNeverUnder` says it is never too small. When it is positive and nothing is evictable, `evict` passes its guard and
  `torch.cat` of an empty list raises out of `generate`; `EvictError` is that outcome, reached in the run `scheduler`, also for
  a decode batch, for which a request would otherwise be preempted. So where too much is asked for, the code does what one document says or
  the other, depending on that counter.
- At the retry limit an admitted prefill batch is dropped (`scheduler.py:295`) with its
  slots, locks and queue entries; with the limit at 0 TLC finds it in eleven states.
- A chunk whose batch cannot be allocated is queued twice, the second time cut to the
  chunk (`scheduler.py:285`: a chunk has only the ids up to its end, although `_req_to_pending` says "Preserve
  input + already-generated tokens"). With prompts of one, one and three tokens, a budget of three and two
  pages of four TLC finds `ResumesWhereItStopped` violated by it in four states.
- Admission counts tokens and allocation takes whole pages. Prompts that fit by tokens and not
  by pages are admitted, aborted and admitted again for ever when nothing runs that could be
  preempted (four prompts of one token, two pages of four: TLC finds `Terminates` violated).
- `kv_needed` counts `decoded_len` or the reserve on top of an input that already
  contains the decoded tokens (`prefill.py:45`), so a preempted request can be refused
  as larger than the pool (`RejectTooLarge`).
- `max_preemptions_per_req` (`scheduler/config.py:13`, `src/configs/README.md:49`) is read nowhere.
- One `SamplingParams` object serves all prompts of a list call (`rollout.py:329`) and is clipped in
  place (`scheduler.py:229`), so one long prompt shortens every response;
  `ResumesWhereItStopped` fails with `OneParams` for this reason.
- When trtllm overrides the page size (`engine.py:276`), only the engine's copy of the configuration changes;
  the cache manager keeps the caller's (`scheduler.py:79`).
- With pages of 64 the captured page table can be one column short (`fa.py:114`).
- All responses of a batch empty: the loss divides by zero on that rank (`run_opd_training.py:298`) and the job ends.
- `max_prompt_length`: prompts that exceed it are "truncated" by `src/configs/README.md:29` and dropped by the code
  (`run_opd_training.py:564`), as in the model.
- Nothing checks that the test set differs from the training set (see `DataAssumption` in section 6).
- A single-process evaluation omits a split without examples, a distributed one reports it with 0.0.
- Mid-loop evaluations generate while the gradient shard buffer is held, which
  `src/docs/architecture.md` ("Memory Lifecycle") says is released.

## 6. Theorems

| module | theorem | statement |
|---|---|---|
| `RadixCacheProofs` | `Invariance` | `Spec => []IInv` |
| | `TypeCorrect` | `Spec => []TypeOK` |
| | `RefsAreExact` | `Spec => []RefsExact` |
| | `KeysPartAtNodes` | `Spec => []BranchesAtNodes` |
| | `HeldIndicesAreStable` | `Spec => HeldIndicesStable` |
| | `SizesAreExact` | `Spec => []SizesExact` |
| | `LeafSizeIsNeverUnder` | `Spec => []LeafSizeNeverUnder` |
| | `EvictDoesAsAsked` | `Spec => [](EvictsAsAsked /\ EvictsAllBeyond)` |
| | `Refinement` | `Spec => ImplementsPrefixCache` |
| `TrainJobProofs` | `RanksMeet` | `Spec => []SameCollective` |
| | `AgentIsStopped` | `Spec => []LeavesNoAgent` |
| | `KVIsFresh` | `Spec => []NoStaleKV` |
| `Zero2Proofs` | `FuseUnfuse` | `Fuse(Unfuse(params)) = params` |
| `OneModelProofs` | `JobTypeOK` | `Spec => []TypeOK` |
| | `ReadersAgree` | `Spec => []ReadsTheModel` |
| | `JobRefines` | `Spec => ImplementsDataParallel` |
| | `CheckpointsWhole` | `Spec => []CheckpointsAreTheModel` |
| `SchedulerProofs` | `EachSlotOneOwner` | `Spec /\ []Orderly => [](pc = "too_large" \/ SlotsPartitioned)` |
| | `ResumesAlways` | `Spec /\ []Orderly => []ResumesWhereItStopped` |
| | `OnceAlways` | `Spec /\ []Orderly /\ []NonePassedOver => []EachPromptOnce` |
| | `OutputAlways` | `Spec /\ []Orderly /\ []Unpreempted => []OutputIsWhatWasSampled` |
| | `PromiseKept` | `Spec /\ []Orderly /\ []NonePassedOver => ImplementsRollout` |
| | `CompleteAtEnd` | `Spec /\ []Orderly /\ []NonePassedOver => []AllComplete` |
| `DataPathProofs` | `NothingHeldOutIsTrainedOn` | `Spec => []HeldOut` |
| | `ShardGoneRoundEvenly` | `Spec => []EvenVisits` |
| | `BatchesPackedGreedily` | `Spec => []PacksAreGreedy` |
| | `EveryResponseWeighted` | `Spec => []ResponsesWeighted` |
| | `TrainingWellFormed` | `Spec => []TypeOK` |

`NumberLemmas` has what all of them need of numbers. Nothing is proved by an induction rule with an operator
parameter; where an induction over numbers is needed (sums of sizes, a maximum over ranks) its
set of good numbers is named and `SetInduction` applied, which follows from `LeastNumber` and that from the
well-foundedness of `<`.

### The prefix cache

*Assumptions:* `ClientAssumption` (finitely many clients) and `BoundsAssumption` (the bounds
are natural numbers). `Block` and `Page` may be any sets, even infinite.

*The inductive invariant.* None of the properties is inductive alone. `IInv` is
`TreeOK(tree) /\ Holding(tree, held)`:

- `FieldsOK`: every field of the tree record is a function or number of its type.
- `NodesOK`: nodes are non-empty keys, finitely many of them (sizes are cardinalities), and
  the prefixes that have a page are exactly those some node stores.
- `Branching`, a part of `NodesOK`: where the keys of two nodes agree there is a node above both.
  Without it `Owner`, the node a split starts from, need not be unique.
- `Holding`: every handle is a node or the root, and `ref_count` is the number of
  handles at or below a node. This makes eviction safe. A node without references has no
  handle at or below it, so all its descendants are unreferenced too, and what `evict` takes
  is closed downwards.

*Argument.* Each operation of the tree has a lemma (`TouchKeeps`, `SplitKeeps`,
`WalkKeeps`, `LockKeeps`, `UnlockKeeps`, `InsertKeeps`, `EvictKeeps`) about how it changes
references and pages and that it keeps `TreeOK`; an action composes them. `MatchFacts` and
`OwnerFacts` justify the two CHOOSE of the walk, `FiniteMax` and `SubtreeStampIs` the one
of eviction. A victim's descendants are victims (`VictimsAre`) because they are popped no
later and their sizes count towards the same sum. `KeptIndicesStay` gives stability.
For the refinement each action maps to one of `PrefixCache` or to a stutter: `Match` only
splits and stamps, which the map from prefixes to pages does not show. An eviction maps to one of the size of what it took;
that this fits the size it was asked for is `EvictDoesAsAsked`, which needs the counters.

*The counters.* `SizeInv` adds `Counted` and `LeavesCounted`, the three counters as sizes of sets of nodes. A size is a number of cached
keys, because each is owned by one node (`SizeIs`, `OwnIs`), so sizes of disjoint sets add up (`SizeSum`). That is enough for
locking and unlocking, which leave the nodes alone. Splits and insertions move keys between owners; there `FreeIs` helps: a key is
evictable if no handle lies on or below it, which does not mention nodes, so a split cannot disturb it. For leaves only an inequality is
kept: the upper half of a split takes its size from a leaf and the counter does not notice (`SplitCounts`). For `EvictAnswers`, from which `EvictDoesAsAsked` follows,
`VictimsEnough` takes the evictable node that is popped first among those that stay (`FirstPopped`); all popped before it
are victims and hold at least the size asked for. If evict returns at once because the counter is zero, then no leaf is evictable and so
nothing is (`LeafBelow`).

### The scheduler's table slots

*Assumptions:* `QueueAssumption` (uids are counted from 0, a positive prefill budget), `GraphAssumption` (at least one table slot),
`SequenceAssumption` (prompts are not empty, limits and tokens are numbers). Prompts, slots, pages, budgets, retries and
the requests that may be aborted are arbitrary, and so is what the page pool does: the proof uses nothing of it.

*The hypothesis.* `SlotsPartitioned` is not true of every run of the code. `Orderly`, a predicate of the states, excludes three steps
that break it, each of them described in section 5: a chunk whose batch finds no room and is queued twice; a round that passes over the
entry behind the one it cuts while that entry holds a chunk; and a prefill batch dropped at the depth limit. A fourth, the
exception of `RejectTooLarge`, leaves a round half done and ends the run; it is in the conclusion. Everything else stays in: preemption, aborted
prefill batches, chunks over many rounds, abort messages. `Orderly` holds in all reachable states of the runs `scheduler`, `scheduler_chunks` and
`scheduler_abort`, and is violated in `scheduler_pressure`. So the theorem says that these four are all there is: a slot can
be lost or given twice in no other way.

*The inductive invariant.* `SlotInv` has four parts. `RequestsOK`: the records are well formed, a request has as many ids as it says
(one fewer while its result is processed). `BatchOK`: between iterations there is no batch; a decode batch is the running
set, a prefill batch is disjoint from it, and the chunked requests of a batch are also in the queue. `ChunksOK`: no two
queue entries hold the same chunk. `SlotsOK`: `Held(slots, Live)`, no slot is free twice, no free slot has an owner, no slot has two, and none is missing.
TLC finds the invariant in all states the orderly steps of the scheduler's instances reach.

*Argument.* One lemma for each action (`ReceiveKeeps` to `ProcessKeeps`). The loops of the code are functions of the number of
turns, and each has an invariant of its own, proved by `SetInduction`: `RoundOK` for the scan of the queue (what was admitted, the
entries that were kept and those not reached, `Left`, hold with the running requests all slots), `AbortedIs` for taking a
prefill batch apart from its front, `ProcessedOK` for the results. `SortedIs` says that the sorted queue has the entries of the queue: `PriorityKey` with the position
behind it orders them strictly (`KeyOrder`), so ranks are a bijection (`RanksPermute`). `HeldOnce` gets `SlotsPartitioned` from `Held`.

### The text of the requests

*Hypotheses.* `Orderly` as above, and `OwnLimits`: every prompt has a `SamplingParams` object of its own, for one token at least.
`generate_request_batch` gives each its own (`rollout.py:175`); `generate_messages` gives one to all, and then `ResumesWhereItStopped` is false
(section 5). `NonePassedOver` is the second clause of `Orderly` for any entry, with a chunk or not: otherwise the prompt is lost,
which is finding 2. `Unpreempted` (a batch without room meets no running request) is for the output only, because preemption loses it, finding 3.
`OwnLimits`, `Orderly` and `NonePassedOver` hold in all reachable states of `scheduler` and `scheduler_abort`, where there are preemptions;
in `scheduler_chunks`, which has long prompts, abort messages and no preemption, all but `OwnLimits` do.

*The inductive invariant.* None of the five properties is inductive: each speaks of some of the places a prompt can be in, at some of the steps.
`TextInv` collects the *work* of all places as triples of uid, text and number of tokens that may follow: of an entry of the queue (`EntryWork`), of a request that is
running or in a prefill batch (`ReadyWork`), and of one whose token has been sampled and not yet been processed (`DueWork`, where one more may follow, since
`device_len` is ahead of the ids). It says that every piece of work continues what was said (`Continues`: its text is the prompt and what was said, its number what is left
of the limit, at least one, and no end of sequence has been said), that no uid has two pieces, and that what is still in the inbox has said nothing
and its limit is as the caller set it. A chunk of a long prompt is not work, the queue entry that holds it is. `AllPresent`, kept where nothing is passed
over, says the converse: a uid that is not aborted is in the inbox, has work, or has said all.

*Argument.* What a step does to the work is stated once for each kind of step: it moves work from place to place (`MovedText`), it drops work (abort), or it
processes a batch. Rounds (`RoundText`), the entries put back at a preemption (`PutBack`), messages (`AcceptedText`) and processed requests
(`Speaking`) have loop invariants again. `TokenText` is one token: the request's text and what was said grow by it, what may follow shrinks, and a request that
is done leaves no work. `Trimmed` relates output and text. `EachPromptOnce` at the end of an iteration follows from `AtMostOne`
for each of the three places; `ImplementsRollout` because processing is the only step in which something is said (`PromiseGrows`), and because the loop ends only when
there is no work, which `AllPresent` turns into all prompts being complete (`FinishedAll`). `PromiseKept` needs `Abortable = {}`: module `Rollout` knows no abort.

### The training job

*Assumptions:* the named ones of the modules (at least two ranks, positive sizes, the two
strategies). Ranks, parameters, steps, failures and signals are unbounded.

*Ranks meet.* `SameCollective` looks at waiting ranks only and is not inductive. `Lockstep` looks
at all live ones: `Target(r)` is the collective, step and phase a rank is headed for from where it is, and
`Together` says that all live ranks have the same target and, once the number of steps has been reduced, the
same number. A step of one rank either ends it or keeps its target (`BeforeLocal`, `LoopLocal`,
`MoveLocal`, `EndLocal`: that skipping, saving and evaluating are decided from what is equal on all ranks), and then
`LocalKeeps` applies. A collective moves all ranks from one place to places with one target
(`CollectiveKeeps`); for the gradient check that is because `AnyBadGradients` does not depend on the
rank.

*Fresh cache.* `KVInv` adds to the ranks' places the shapes of the session and optimizer records and
`FreshKV`: the prefix cache of a live rank is empty except between a generate and the release that follows it, and
there it holds the present count of updates, in mapped memory. `RunFresh` goes through the rank's steps,
`CollectiveFresh` through the collectives.

*One model.* `ReadsTheModel` and the refinement speak of `Model`, which puts the model together from what the
owners of its positions have. Neither is inductive: between `reduce_scatter_grads` and the all-gather no rank holds the
model, and each has done another part of the way. `OneModel` says that there is a model `M` (its values,
moments, number of updates and last step), a stage and a step that explain every live rank:

- *rest*: the parameters of every rank are `M`, the moments of its shard (all of them under DDP) are those of `M`, there is no
  snapshot, and the gradients are its own or, under DDP between reduction and check, the same sum on all ranks, in which a bad
  one shows everywhere;
- *pack* (ZeRO-2): no gradient of the step is bad, and each rank either still has the parameters or has packed its gradients over
  them and has its shard of `M` in the snapshot;
- *gather*: the flat buffer is of no use; the rank has its shard of `M` and the reduced gradients of the shard, or has stepped,
  and then its shard of the updated model;
- *late*: every rank holds the updated model, and its learning rate may still be that of the step before;
- *split* (DDP): each rank has the sum and `M`, or has stepped and has the updated model.

`OneRankOn` and `RankOn` go through the steps of one rank, `CollectiveOn` through the collectives
(`UpdateBegins`, `GradientsSummed`, `GradientsScattered`, `ShardsGathered`, `UpdateEnds`); each also says how the model shown
moves (`Evolves`: not at all, or by one update with a later step), which gives the refinement
(`EvolvesRefines`). `ModelIsShown` proves that `Model` and `Moments` as the specification computes them, by looking into half-updated
owners, are the ones of the invariant. For the readers, `ViewsBuilt` says that the views of a built rank are those of `BuildRuntime`;
`ReadersRead` follows them to the buffer. The operators of the optimizer are treated in `Zero2Proofs`, from the
geometry of the buffer (`ParamOfIs`: a position belongs to one parameter; `ShardPlaces`: and to one shard) up to
`UpdatedGood`. The invariant holds on the instance of the run `train_job` (147 999 states).

*Checkpoints.* `CheckpointsAreTheModel` relates what is on disk to the updates up to its step that are now in the model, which
goes on changing. `OnDisk` adds that only rank 0 saves, that a partial directory is of the step at which rank 0 is saving or ended, and
that a whole one is of a step whose update has begun. `PastKept` and `PresentKept` say that `AsOf` of a past step is not disturbed by
a later update, and of the present one is the whole model; for that the model of the invariant counts its updates
(`GoodModel`: as many as there are steps in the moments, finitely many). `SavedIsModel` is the save: the writer's parameters
are the model's. For the readers of the files, `Loaded` follows `load_weight` through any order that has every name once, by the set of
names that have arrived, and `FuseUnfuse` says that what it concatenates are the parameters.

*Types.* `TypeOK` bounds the step by `MaxSteps`, which needs that a rank in the loop is not past its `steps` and that these are
at most `MaxSteps`; `Counted` says so by place, and that the shares and batches computed with `Min`, `Max` and division are natural numbers.

*The agent.* `Supervised`: whoever cleans up while the agent is alive was sent there by a signal, and
nobody cleans up twice; so it takes a second signal to leave the clean-up early.

### The data path

*Assumptions:* `DataAssumption`: the rows of a data set are told apart and those of the two sets differ (an example is a row, not its text), and
the sizes are numbers. Nothing in the code sees to it that the two data sets differ, so of `HeldOut` the part about the test set rests on this
assumption, and the part about the validation examples on the slices. A prompt has at least one token, which the chat template sees to (with none, the slice of a sample would begin in the sample before it);
`EvaluationAssumption`: finitely many ranks, counted from 0; `PackingAssumption` and `LossAssumption`: positive sizes, the three modes.
Every limit, size, filter and length is arbitrary.

`Once` says that a sequence repeats nothing; `PartOfOnce` and `FitsFacts` carry it through slices and the length filter, `TrainOnce` through
the whole of `main` (the two slices of the split have no position in common, and without `SplitRaises` both are within the data).
`ShardFacts` and `ShardsApart` are the arithmetic of `examples[rank::world_size]` cut to the shortest: two positions
`r + i * n` and `q + j * n` with `r, q < n` agree only if the ranks do (`OneQuotient`). `HeldOut` and `EvenVisits` are then consequences of
`Visited`: after `step` batches the shard has been seen whole `q` times and its first `m` examples once more, where
`step * batch = q * length + m`, and nothing else has been seen. `EvenVisits` alone is not inductive: it forgets where the next batch begins.

*Packs.* `GreedyPacks`, the promise of `pack_sequences`, is stated with the sums `TokensIn` and `SeqsBefore`, not by looking at how the packs came about.
The loop over the sequences has the invariant that the packs written so far and the one being filled hold the sequences seen so far
(`PackedAt`: there are cuts in the batch such that each pack lays what is between two of them, fits or is alone, and had no room for the next), and that the
running total is the tokens of the open pack. `CutsAt` says that the cuts are the `SeqsBefore` of the result.

*The loss.* `ResponsesWeighted` speaks of the end only. `LossInv` says of every moment that the positions with a gradient in `lm_head` are `Spans`: those of the first
`Reached` samples of the batch, where `Reached` is read off the pack and the sample the loops are at; that each has one gradient, which is `Share`; that the offset is the number of
tokens of the pack's samples before this one; and that the backbone has the same gradients, less those of the present pack that the mode `two_stage` has set aside. A sample adds its
`Span`, which meets none before it (`SpansNext`), so `Plus` and `Over` put together functions on disjoint sets (`PlusApart`). Within the span every position is in
one chunk (`ChunksPartition`), hence has one weight (`OneWeight`), whose chunk length cancels. `TotalOverPacks` says that the response tokens
counted by pack are those of the batch, and `AllSpans` that the spans of all samples are the positions
`ResponsesWeighted` describes by their tokens, padding excluded. `Trained` adds where the sequences of a step come from (`StepSequences`).

### Model-checked only

`EvictsLeastRecent`, which compares with a
loop; of `Scheduler` its `TypeOK` and what is about pages, handles and keys (`PagesPartitioned`, `HandlesBalanced`, `OwnedOnce`, `AttendsOwnPrefix`, `AdmittedFits`), which need the page pool and the tree together; `EachExampleCountedOnce`, about folds over the splits of all ranks; and liveness (`Terminates`, `JobEnds`), which TLAPS cannot prove.

## 7. Not modelled

- `overlap_loop` and `run_forever`: the embedded scheduler only calls `normal_loop`.
- The use of `Scheduler` over several sessions: it is one call of `generate` from a flushed cache, and
  `Session` is the life between calls. After an exception in `generate` nothing calls it again: it ends the rank.
- The server mode of the engine (messages, its own weights, tensor parallelism).
- CUDA streams, the sampler's distribution, sliding windows, the model.
- The divergence as a number, the learning-rate schedule, logs, timings, `summary.json`.
- Optimizer state in checkpoints: `ZeRO2Optimizer.state_dict` and `load_state_dict` have no caller.
- Configuration parsing, answer extraction, scripts and benchmarks.

## 8. Plan

Done: prefix cache, page pool, admission, loop; batch layout and graph replay; weights, optimizer, training
job and launcher; data path. What is left, in this order:

1. Proofs about the page pool on top of `SlotInv` and the invariant of the radix cache: handles, then pages.
2. Evaluation: that the shards of a split count each of its examples once (`EachExampleCountedOnce`).
