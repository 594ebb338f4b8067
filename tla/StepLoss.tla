------------------------------ MODULE StepLoss ------------------------------
(***************************************************************************)
(* The loss of one step on one rank: batch_rollout_and_loss_with_client of *)
(* liteopd/train/run_opd_training.py from the packing on, and the chunk    *)
(* loops of liteopd/losses/kl.py.                                          *)
(*                                                                         *)
(* The numbers are left out; what is kept is which positions of which pack *)
(* get a gradient and with which weight, for the hidden states (through    *)
(* the backbone) and for the lm_head, and whether autograd still has the   *)
(* graph that a backward pass asks for.  A weight is <<numerator,          *)
(* denominator>>.                                                          *)
(***************************************************************************)
EXTENDS Packing, FiniteSets, FiniteSetsExt, Functions

CONSTANTS
  BackwardModes,   \* the kl_backward_mode values tried
  ChunksPerSample  \* the divisor of chunk_tokens, 8 in the code

ASSUME LossAssumption ==
  /\ BackwardModes \subseteq {"two_stage", "chunk", "sample"}
  /\ ChunksPerSample \in Nat \ {0}

VARIABLES
  packs,     \* packed_batches
  mode,      \* kl_backward_mode
  at,        \* the pack and the sample the loops are at, <<0, 0>> outside
  offset,    \* offset of the sample in the pack
  graph,     \* the graph of the student's forward: none, kept or freed
  accum,     \* packed_grad_accum: weight by position
  hidden,    \* what the backbone got: <<pack, position>> to weights, in order
  head,      \* what lm_head got
  outcome    \* running, done, or why it raised

lossVars == <<packs, mode, at, offset, graph, accum, hidden, head, outcome>>

NoGradient == <<>>   \* the empty function, too

ResponseTokens(seqs) == SumTo([i \in DOMAIN seqs |-> seqs[i].response], Len(seqs))

\* A slip: the tokens of this pack only.
PackResponseTokens == ResponseTokens(packs[at[1]].seqs)

TotalResponseTokens == SumTo([k \in DOMAIN packs |-> ResponseTokens(packs[k].seqs)], Len(packs))

-----------------------------------------------------------------------------
(***************************************************************************)
(* The slice of a sample and its chunks.  Positions count from 0.          *)
(***************************************************************************)
Sample == packs[at[1]].seqs[at[2]]

ResponseStart == offset + Sample.prompt - 1

SeqTokens == offset + SeqLen(Sample) - ResponseStart

ChunkTokens(n) == Max({1, (n + ChunksPerSample - 1) \div ChunksPerSample})

\* chunk_ranges as the sets of positions in the slice.
ChunkRanges(n) ==
  LET c == ChunkTokens(n)
  IN [k \in 1..(n + c - 1) \div c |-> (k - 1) * c..Min({n, k * c}) - 1]

\* The mean over a chunk, scaled by the chunk's share of the sample and the
\* sample's share of the batch, seen from one position of the slice.
Weight(chunk) ==
  LET count == Cardinality(chunk)
  IN <<count * Sample.response, count * SeqTokens * TotalResponseTokens>>

\* What the loop over the chunks adds at one position of the slice.
WeightsAt(i) ==
  LET chunks == ChunkRanges(SeqTokens)
      got[k \in 0..Len(chunks)] ==
        IF k = 0 THEN <<>>
        ELSE IF i \in chunks[k] THEN Append(got[k - 1], Weight(chunks[k])) ELSE got[k - 1]
  IN got[Len(chunks)]

SampleWeights ==
  [p \in {<<at[1], ResponseStart + i>> : i \in 0..SeqTokens - 1} |-> WeightsAt(p[2] - ResponseStart)]

\* Adding to a gradient; assigning over what is there.
Plus(g, w) ==
  [p \in DOMAIN g \cup DOMAIN w |->
     IF p \in DOMAIN g /\ p \in DOMAIN w THEN g[p] \o w[p] ELSE IF p \in DOMAIN g THEN g[p] ELSE w[p]]

Over(g, w) == [p \in DOMAIN g \cup DOMAIN w |-> IF p \in DOMAIN w THEN w[p] ELSE g[p]]

-----------------------------------------------------------------------------
LossInit ==
  /\ packs = <<>>
  /\ mode \in BackwardModes
  /\ at = <<0, 0>> /\ offset = 0 /\ graph = "none"
  /\ accum = NoGradient /\ hidden = NoGradient /\ head = NoGradient
  /\ outcome = "done"

\* The call: the gradients are those zero_grad has cleared.
LossBegin(seqs) ==
  /\ packs' = PackSequences(seqs)
  /\ at' = <<0, 0>> /\ offset' = 0 /\ graph' = "none"
  /\ accum' = NoGradient /\ hidden' = NoGradient /\ head' = NoGradient
  /\ outcome' = "running"
  /\ UNCHANGED mode

\* The forward passes of a pack.
Forward ==
  /\ outcome = "running" /\ at[2] = 0 /\ at[1] < Len(packs)
  /\ at' = <<at[1] + 1, 1>> /\ offset' = 0 /\ graph' = "kept"
  /\ accum' = NoGradient
  /\ UNCHANGED <<packs, mode, hidden, head, outcome>>

IsLastPacked == at[1] = Len(packs)

IsLastSample == at[2] = Len(packs[at[1]].seqs)

InSample == outcome = "running" /\ at[2] > 0 /\ at[2] <= Len(packs[at[1]].seqs)

\* A slip: the offset moves on by whole buckets, as if each sample were padded.
NextSampleBucket == at' = <<at[1], at[2] + 1>> /\ offset' = offset + RoundUpToBucket(SeqLen(Sample))

\* What the end of the loop over samples does.
NextSample == at' = <<at[1], at[2] + 1>> /\ offset' = offset + SeqLen(Sample)

\* Stage 1: lm_head gets its gradient, the hidden states' are set aside.
TwoStageSample ==
  /\ InSample /\ mode = "two_stage" /\ TotalResponseTokens > 0
  /\ head' = Plus(head, SampleWeights)
  /\ accum' = Over(accum, SampleWeights)
  /\ NextSample
  /\ UNCHANGED <<packs, mode, graph, hidden, outcome>>

\* backward of every chunk: only the last of the call lets go of the graph.
ChunkSample ==
  /\ InSample /\ mode = "chunk" /\ TotalResponseTokens > 0 /\ graph = "kept"
  /\ head' = Plus(head, SampleWeights) /\ hidden' = Plus(hidden, SampleWeights)
  /\ graph' = IF IsLastPacked /\ IsLastSample THEN "freed" ELSE "kept"
  /\ NextSample
  /\ UNCHANGED <<packs, mode, accum, outcome>>

\* chunked_kl_from_hidden and one backward, which frees what it went through:
\* the part of the graph all samples of the pack share.
WholeSample ==
  /\ InSample /\ mode = "sample" /\ TotalResponseTokens > 0 /\ graph = "kept"
  /\ head' = Plus(head, SampleWeights) /\ hidden' = Plus(hidden, SampleWeights)
  /\ graph' = "freed"
  /\ NextSample
  /\ UNCHANGED <<packs, mode, accum, outcome>>

\* Stage 2, and the end of a pack.
EndPack ==
  /\ outcome = "running" /\ at[1] > 0 /\ at[2] = Len(packs[at[1]].seqs) + 1
  /\ hidden' = Plus(hidden, accum)
  /\ accum' = NoGradient /\ graph' = "none" /\ offset' = 0
  /\ at' = <<at[1], 0>>
  /\ UNCHANGED <<packs, mode, head, outcome>>

Return ==
  /\ outcome = "running" /\ at[2] = 0 /\ at[1] = Len(packs)
  /\ outcome' = "done"
  /\ UNCHANGED <<packs, mode, at, offset, graph, accum, hidden, head>>

\* A division by the number of response tokens; a backward without a graph.
LossRaises ==
  /\ InSample
  /\ \/ TotalResponseTokens = 0 /\ outcome' = "ZeroDivisionError"
     \/ TotalResponseTokens > 0 /\ mode # "two_stage" /\ graph = "freed" /\ outcome' = "RuntimeError"
  /\ UNCHANGED <<packs, mode, at, offset, graph, accum, hidden, head>>

LossStep ==
  Forward \/ TwoStageSample \/ ChunkSample \/ WholeSample \/ EndPack \/ Return \/ LossRaises
=============================================================================
