------------------------------ MODULE TrainData ------------------------------
(***************************************************************************)
(* Which example goes where: loading, splitting, sharding and batching in  *)
(* main of liteopd/train/run_opd_training.py, data/loading.py and the      *)
(* batch sizes of train/config.py.  A data set is a sequence of examples.  *)
(***************************************************************************)
EXTENDS Integers, Sequences, FiniteSetsExt, SequencesExt

\* limit_examples, and the effective limit of load_examples_from_path.
Limited(examples, limit) ==
  IF limit < 0 \/ limit >= Len(examples) THEN examples ELSE SubSeq(examples, 1, limit)

\* split_validation_examples raises when nothing would be left to train on.
SplitRaises(examples, size) == size # 0 /\ size >= Len(examples)

\* A slip: the validation examples are trained on as well.
TrainPartAll(examples, size) == examples

TrainPart(examples, size) == SubSeq(examples, size + 1, Len(examples))

ValidationPart(examples, size) == SubSeq(examples, 1, size)

\* _filter_by_prompt_length.
Fits(examples, tooLong) ==
  LET kept[k \in 0..Len(examples)] ==
        IF k = 0 THEN <<>>
        ELSE IF examples[k] \in tooLong THEN kept[k - 1] ELSE Append(kept[k - 1], examples[k])
  IN kept[Len(examples)]

\* examples[rank::world_size].
Strided(examples, rank, world) ==
  [k \in 1..(Len(examples) - rank + world - 1) \div world |-> examples[rank + (k - 1) * world + 1]]

\* local_batches.
LocalBatches(len, batchSize) == Max({(len + batchSize - 1) \div batchSize, 1})

\* The batch of a step; a slip: the window is not wrapped to the shard.
BatchFromStart(shard, batchSize, step) ==
  [i \in 1..batchSize |-> shard[((i - 1) % Len(shard)) + 1]]

Batch(shard, batchSize, step) ==
  LET start == ((step - 1) * batchSize) % Len(shard)
  IN [i \in 1..batchSize |-> shard[((start + i - 1) % Len(shard)) + 1]]
=============================================================================
