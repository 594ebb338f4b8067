----------------------------- MODULE BatchLayout -----------------------------
(***************************************************************************)
(* The layout of a batch on the device: the index tensors the scheduler    *)
(* and the attention backends build on the host (scheduler.py, graph.py,   *)
(* attention/fi.py, fa.py, trtllm.py) and what the model reads and writes  *)
(* through them.  A batch is padded to the size of a captured graph with   *)
(* copies of a dummy request whose row points at a page of its own; the    *)
(* new tokens of its requests stand one after the other in flat tensors,   *)
(* and every kernel finds a request's part by prefix sums.                 *)
(*                                                                         *)
(* kv is the contents of the cells of the KV cache: the position a key was *)
(* rotated by, and the tokens its value depends on, its own last.          *)
(***************************************************************************)
EXTENDS PrefillManager

CONSTANTS
  MaxRunning,   \* table slots (max_running_req)
  MaxSeqLen,    \* engine.max_seq_len
  GraphSizes    \* graph_bs_list; {} when CUDA graphs are disabled

ASSUME GraphAssumption == GraphSizes \subseteq Nat \ {0} /\ MaxRunning \in Nat \ {0}

Slots == 1..MaxRunning

Columns == 0..MaxSeqLen - 1

(***************************************************************************)
(* Requests                                                                *)
(***************************************************************************)
RemainLen(req) == req.maxDevice - req.device

DecodedLen(req) == req.maxOut - RemainLen(req)

ExtendLen(req) == req.device - req.cached

CanDecode(req) == ~ req.chunked /\ RemainLen(req) > 0

\* Req.complete_one, called by forward_batch for every request of a batch.
CompleteOne(req) == [req EXCEPT !.cached = req.device, !.device = @ + 1]

(***************************************************************************)
(* The dummy request, and padding to the size of a graph                   *)
(***************************************************************************)
DummySlot == MaxRunning + 1
DummyPage == NumPages + 1

DummyReq == [slot |-> DummySlot, cached |-> 0, device |-> 1]

CanUseGraph(batch) ==
  batch.phase = "decode" /\ GraphSizes # {} /\ Len(batch.reqs) <= Max(GraphSizes)

PaddedReqs(batch) ==
  LET size == Len(batch.reqs)
      padded == IF CanUseGraph(batch) THEN Min({g \in GraphSizes : g >= size}) ELSE size
  IN batch.reqs \o [i \in 1..padded - size |-> DummyReq]

(***************************************************************************)
(* The flat tensors, and the two tables they are looked up in              *)
(***************************************************************************)
Positions(reqs) ==
  FlattenSeq([i \in DOMAIN reqs |-> [j \in 1..ExtendLen(reqs[i]) |-> reqs[i].cached + j - 1]])

InputRows(reqs) ==
  FlattenSeq([i \in DOMAIN reqs |-> [j \in 1..ExtendLen(reqs[i]) |-> reqs[i].slot]])

CellAt(pool, slot, pos) ==
  <<IF slot = DummySlot THEN DummyPage ELSE pool.row[slot][pos \div PageSize + 1],
    pos % PageSize>>

TokenAt(pool, slot, pos) == IF slot = DummySlot THEN 0 ELSE pool.tokens[slot][pos]

InputIds(pool, reqs) ==
  [f \in DOMAIN Positions(reqs) |-> TokenAt(pool, InputRows(reqs)[f], Positions(reqs)[f])]

OutLoc(pool, reqs) ==
  [f \in DOMAIN Positions(reqs) |-> CellAt(pool, InputRows(reqs)[f], Positions(reqs)[f])]

(***************************************************************************)
(* prepare_metadata                                                        *)
(***************************************************************************)
PrefixSums(lens) == FoldLeft(LAMBDA sums, n : Append(sums, Last(sums) + n), <<0>>, lens)

CuSeqlensK(reqs) == PrefixSums([i \in DOMAIN reqs |-> reqs[i].device])

\* A slip: a hit of the prefix cache is not told from none.
CuSeqlensQNoHit(reqs) ==
  IF \A i \in DOMAIN reqs : ExtendLen(reqs[i]) = 1 THEN [i \in 1..Len(reqs) + 1 |-> i - 1]
  ELSE CuSeqlensK(reqs)

CuSeqlensQ(reqs) ==
  IF \A i \in DOMAIN reqs : ExtendLen(reqs[i]) = 1 THEN [i \in 1..Len(reqs) + 1 |-> i - 1]
  ELSE IF \A i \in DOMAIN reqs : reqs[i].cached = 0 THEN CuSeqlensK(reqs)
  ELSE PrefixSums([i \in DOMAIN reqs |-> ExtendLen(reqs[i])])

KvIndices(pool, reqs) ==
  FlattenSeq([i \in DOMAIN reqs |->
                [j \in 1..reqs[i].device |-> CellAt(pool, reqs[i].slot, j - 1)]])

(***************************************************************************)
(* The forward pass.  Causal attention over ragged sequences: query q of   *)
(* the n_q of a request sees the first n_k - n_q + q of its n_k cells.     *)
(***************************************************************************)
Attended(pool, reqs, f) ==
  LET cuQ == CuSeqlensQ(reqs)
      cuK == CuSeqlensK(reqs)
      i   == CHOOSE i \in DOMAIN reqs : cuQ[i] < f /\ f <= cuQ[i + 1]
  IN SubSeq(KvIndices(pool, reqs), cuK[i] + 1, cuK[i + 1] - (cuQ[i + 1] - f))

\* What a batch reads, and where it writes.
View(pool, reqs) ==
  [ids |-> InputIds(pool, reqs),
   pos |-> Positions(reqs),
   loc |-> OutLoc(pool, reqs),
   sees |-> [f \in DOMAIN Positions(reqs) |-> Attended(pool, reqs, f)]]

ForwardKV(kv, view) ==
  LET at(cell)    == CHOOSE f \in DOMAIN view.loc : view.loc[f] = cell
      token(cell) == IF cell \in ToSet(view.loc) THEN view.ids[at(cell)]
                     ELSE Last(kv[cell[1]][cell[2]].seen)
      computed(f) == [pos |-> view.pos[f],
                      seen |-> [k \in DOMAIN view.sees[f] |-> token(view.sees[f][k])]]
  IN [p \in DOMAIN kv |->
        [o \in DOMAIN kv[p] |->
           IF <<p, o>> \in ToSet(view.loc) THEN computed(at(<<p, o>>)) ELSE kv[p][o]]]

\* The row of the hidden states that gives a request its logits: LMHead.forward.
LogitsRow(batch, i) ==
  IF batch.phase = "prefill" THEN CuSeqlensQ(PaddedReqs(batch))[i + 1] ELSE i

\* _make_write_tuple: where the token sampled for a request goes; column -1
\* is the last one.
WriteColumn(req) == IF CanDecode(req) THEN req.device ELSE MaxSeqLen - 1

WriteTokens(pool, reqs, sampled) ==
  FoldLeft(LAMBDA p, i : [p EXCEPT !.tokens[reqs[i].slot][WriteColumn(reqs[i])] = sampled[i]],
           pool, [i \in DOMAIN reqs |-> i])
=============================================================================
