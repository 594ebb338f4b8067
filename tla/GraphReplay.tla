----------------------------- MODULE GraphReplay -----------------------------
(***************************************************************************)
(* CUDA graphs (liteopd/inference/engine/graph.py and the capture data of  *)
(* attention/fa.py, trtllm.py and fi.py).  A graph is captured per size    *)
(* and reads buffers that stay where they are; before a replay the batch   *)
(* is copied into the first rows of them and the rest keeps what earlier,  *)
(* larger batches left.  The paged backends copy the lengths and a         *)
(* rectangle of the page table as wide as the longest request needs;       *)
(* flashinfer's plan (external) copies the prefix sums and one ragged      *)
(* array of cells.                                                         *)
(***************************************************************************)
EXTENDS BatchLayout

CONSTANT Ragged   \* the decode backend is flashinfer

ASSUME RaggedAssumption == Ragged \in BOOLEAN

MaxGraphSize == IF GraphSizes = {} THEN 0 ELSE Max(GraphSizes)

RowLength == CeilDiv(MaxSeqLen, PageSize)

\* Zeros are page 1, offset 0.
FirstCell == <<1, 0>>

(***************************************************************************)
(* GraphCaptureBuffer.init and BaseCaptureData.create.  The warm-up runs   *)
(* of the capture write through out_loc, so into the first cell.           *)
(***************************************************************************)
NewCapture ==
  [ids |-> [i \in 1..MaxGraphSize |-> 0],
   pos |-> [i \in 1..MaxGraphSize |-> 0],
   loc |-> [i \in 1..MaxGraphSize |-> FirstCell],
   lens |-> [i \in 1..MaxGraphSize |-> 1],
   table |-> [i \in 1..MaxGraphSize |-> [c \in 1..RowLength |-> 1]],
   cuK |-> [i \in 1..MaxGraphSize + 1 |-> i - 1],
   indices |-> [k \in 1..MaxGraphSize * MaxSeqLen |-> FirstCell]]

\* The first elements of a buffer are overwritten.
Fill(buffer, new) == [k \in DOMAIN buffer |-> IF k \in DOMAIN new THEN new[k] ELSE buffer[k]]

\* copy_from and prepare_for_replay.
PageOf(pool, slot, column) == CellAt(pool, slot, (column - 1) * PageSize)[1]

TableWidth(reqs) == CeilDiv(Max({reqs[i].device : i \in DOMAIN reqs}), PageSize)

CopyRows(capture, pool, reqs) ==
  LET copied == [capture EXCEPT !.ids = Fill(@, InputIds(pool, reqs)),
                                !.pos = Fill(@, Positions(reqs)),
                                !.loc = Fill(@, OutLoc(pool, reqs))]
      rows   == [i \in DOMAIN reqs |-> [c \in 1..TableWidth(reqs) |-> PageOf(pool, reqs[i].slot, c)]]
  IN IF Ragged
     THEN [copied EXCEPT !.cuK = Fill(@, CuSeqlensK(reqs)), !.indices = Fill(@, KvIndices(pool, reqs))]
     ELSE [copied EXCEPT !.lens = Fill(@, [i \in DOMAIN reqs |-> reqs[i].device]),
                         !.table = [i \in DOMAIN @ |-> IF i \in DOMAIN rows THEN Fill(@[i], rows[i]) ELSE @[i]]]

\* A slip: the padding is not copied.
PrepareLiveRows(capture, pool, reqs) ==
  CopyRows(capture, pool, SelectSeq(reqs, LAMBDA req : req.slot # DummySlot))

PrepareForReplay(capture, pool, reqs) == CopyRows(capture, pool, reqs)

\* What the kernels of the graph of size n read.
CellsRead(capture, i) ==
  IF Ragged THEN SubSeq(capture.indices, capture.cuK[i] + 1, capture.cuK[i + 1])
  ELSE [j \in 1..capture.lens[i] |->
          <<capture.table[i][(j - 1) \div PageSize + 1], (j - 1) % PageSize>>]

Replay(capture, n) ==
  [ids |-> SubSeq(capture.ids, 1, n),
   pos |-> SubSeq(capture.pos, 1, n),
   loc |-> SubSeq(capture.loc, 1, n),
   sees |-> [i \in 1..n |-> CellsRead(capture, i)]]
=============================================================================
