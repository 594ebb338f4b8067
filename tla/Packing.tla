------------------------------- MODULE Packing -------------------------------
(***************************************************************************)
(* pack_sequences of liteopd/train/packing.py: the sequences of a batch,   *)
(* prompt and response, are laid one after the other in packs of at most   *)
(* max_pack_tokens, each padded to a multiple of a bucket.  A sequence is  *)
(* a record of its two lengths, a token the place <<sequence, index>> it   *)
(* has in the batch.                                                       *)
(***************************************************************************)
EXTENDS Integers, Sequences

CONSTANTS
  MaxPackTokens,   \* max_pack_tokens
  BucketSize       \* _PAD_BUCKET_SIZE

ASSUME PackingAssumption == {MaxPackTokens, BucketSize} \subseteq Nat \ {0}

PadToken == <<0, 0>>

RoundUpToBucket(n) == ((n + BucketSize - 1) \div BucketSize) * BucketSize

SeqLen(s) == s.prompt + s.response

\* A PackedBatch; its three lists of lengths are one list of sequences.
NoPack == [input_ids |-> <<>>, position_ids |-> <<>>, seqs |-> <<>>]

Add(pack, s, i) ==
  [input_ids    |-> pack.input_ids \o [k \in 1..SeqLen(s) |-> <<i, k>>],
   position_ids |-> pack.position_ids \o [k \in 1..SeqLen(s) |-> k - 1],
   seqs         |-> Append(pack.seqs, s)]

Padded(pack) ==
  LET pad == RoundUpToBucket(Len(pack.input_ids)) - Len(pack.input_ids)
  IN [pack EXCEPT !.input_ids = @ \o [k \in 1..pad |-> PadToken],
                  !.position_ids = @ \o [k \in 1..pad |-> 0]]

\* A slip: the running total is not reset with the pack.
FlushKeepsTotal(st) ==
  IF st.current.seqs = <<>> THEN st
  ELSE [st EXCEPT !.batches = Append(@, Padded(st.current)), !.current = NoPack]

Flush(st) ==
  IF st.current.seqs = <<>> THEN st
  ELSE [st EXCEPT !.batches = Append(@, Padded(st.current)), !.current = NoPack, !.total = 0]

PackOne(st, s, i) ==
  LET room == IF st.total + SeqLen(s) > MaxPackTokens THEN Flush(st) ELSE st
  IN [room EXCEPT !.current = Add(@, s, i), !.total = @ + SeqLen(s)]

PackSequences(seqs) ==
  LET packed[i \in 0..Len(seqs)] ==
        IF i = 0 THEN [batches |-> <<>>, current |-> NoPack, total |-> 0]
        ELSE PackOne(packed[i - 1], seqs[i], i)
  IN Flush(packed[Len(seqs)]).batches

-----------------------------------------------------------------------------
(***************************************************************************)
(* What it promises.                                                       *)
(***************************************************************************)
\* f[1] + ... + f[n].
SumTo(f, n) ==
  LET sum[i \in 0..n] == IF i = 0 THEN 0 ELSE sum[i - 1] + f[i]
  IN sum[n]

\* The tokens of the first n sequences, and the sequences in the packs before
\* pack k.
TokensIn(seqs, n) == SumTo([i \in DOMAIN seqs |-> SeqLen(seqs[i])], n)

SeqsBefore(batches, k) == SumTo([j \in DOMAIN batches |-> Len(batches[j].seqs)], k - 1)

\* A pack lays the sequences after the a-th, up to the b-th, end to end.
Lays(pack, seqs, a, b) ==
  /\ pack.seqs = SubSeq(seqs, a + 1, b)
  /\ \A i \in a + 1..b : \A j \in 1..SeqLen(seqs[i]) :
       LET n == TokensIn(seqs, i - 1) - TokensIn(seqs, a) + j
       IN pack.input_ids[n] = <<i, j>> /\ pack.position_ids[n] = j - 1

\* Nothing else is in it, but for the least padding.
PaddedTo(pack, size) ==
  /\ Len(pack.input_ids) = Len(pack.position_ids)
  /\ Len(pack.input_ids) - size \in 0..BucketSize - 1
  /\ Len(pack.input_ids) % BucketSize = 0
  /\ \A n \in size + 1..Len(pack.input_ids) : pack.input_ids[n] = PadToken

GreedyPacks(batches, seqs) ==
  /\ SeqsBefore(batches, Len(batches) + 1) = Len(seqs)
  /\ \A k \in DOMAIN batches :
       LET a    == SeqsBefore(batches, k)
           b    == SeqsBefore(batches, k + 1)
           size == TokensIn(seqs, b) - TokensIn(seqs, a)
       IN /\ a < b /\ Lays(batches[k], seqs, a, b) /\ PaddedTo(batches[k], size)
          /\ size <= MaxPackTokens \/ b = a + 1
          /\ k < Len(batches) => size + SeqLen(seqs[b + 1]) > MaxPackTokens
=============================================================================
