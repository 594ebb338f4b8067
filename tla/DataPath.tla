------------------------------ MODULE DataPath ------------------------------
(***************************************************************************)
(* The way of the examples through a job: main loads, limits, splits and   *)
(* filters them, evaluates the held-out ones over all ranks, shards the    *)
(* rest and takes a batch per step, of which the loss is computed.  The    *)
(* ranks take their steps independently of one another as far as data is   *)
(* concerned: the steps of one rank are followed, any of them.             *)
(***************************************************************************)
EXTENDS StepLoss, Evaluation

CONSTANTS
  DataSet, TestSet,    \* the rows of the two datasets after the shuffle: a row
                       \* is an example by itself, whatever its text
  TrainLimit, EvalLimit, ValidationSize,
  TooLong,             \* the sets of examples tried as longer than max_prompt_length
  PromptTokens(_),     \* the length of an example's prompt
  GenerationBatchSize, MaxSteps,
  MaxResponse          \* bound: tokens of a response

ASSUME DataAssumption ==
  /\ {GenerationBatchSize, MaxSteps} \subseteq Nat \ {0}
  /\ {ValidationSize, MaxResponse} \subseteq Nat /\ {TrainLimit, EvalLimit} \subseteq Int
  /\ DataSet \in Seq(Range(DataSet)) /\ TestSet \in Seq(Range(TestSet))
  /\ \A x \in Range(DataSet) : PromptTokens(x) \in Nat \ {0}
  /\ IsInjective(DataSet) /\ IsInjective(TestSet) /\ Range(DataSet) \cap Range(TestSet) = {}

VARIABLES
  tooLong,   \* the examples the filter drops
  rank,      \* the rank whose steps are followed
  stage,     \* eval, train or raised
  step,      \* steps begun
  batch,     \* the batch of the step
  sequences, \* its prompts and responses
  visits     \* how often the rank has trained on each example

dataVars == <<tooLong, rank, stage, step, batch, sequences, visits>>
vars == <<lossVars, evalVars, dataVars>>

Loaded == Limited(DataSet, TrainLimit)

TrainExamples == Fits(TrainPart(Loaded, ValidationSize), tooLong)

ValidationExamples == Fits(ValidationPart(Loaded, ValidationSize), tooLong)

TestExamples == Fits(Limited(TestSet, EvalLimit), tooLong)

\* The shard of a rank, cut to the shortest.
MinShardLen == Min({Len(Strided(TrainExamples, r, Cardinality(World))) : r \in World})

Shard(r) == SubSeq(Strided(TrainExamples, r, Cardinality(World)), 1, MinShardLen)

Named == <<[name |-> "test", examples |-> TestExamples],
           [name |-> "validation", examples |-> ValidationExamples]>>

Answers == [Range(TestExamples) \cup Range(ValidationExamples) -> [correct : BOOLEAN, tokens : 0..1]]

\* main as far as the evaluation: an empty split, test set or shard raises.
Init ==
  /\ tooLong \in TooLong
  /\ rank \in World
  /\ stage = IF SplitRaises(Loaded, ValidationSize) \/ TestSet = <<>> \/ MinShardLen = 0
             THEN "raised" ELSE "eval"
  /\ step = 0 /\ batch = <<>> /\ sequences = <<>>
  /\ visits = [x \in Range(DataSet) |-> 0]
  /\ EvalInit(Named, Answers)
  /\ LossInit

Evaluate ==
  /\ stage = "eval"
  /\ EvalStep
  /\ UNCHANGED <<lossVars, dataVars>>

\* distributed_eval returns and its locals go.
EndEval ==
  /\ stage = "eval" /\ metrics # NoMetrics
  /\ stage' = "train"
  /\ named' = <<>> /\ answers' = <<>> /\ scored' = [r \in World |-> 0]
  /\ local' = [r \in World |-> NoMetrics] /\ tokens' = [r \in World |-> 0] /\ metrics' = NoMetrics
  /\ UNCHANGED <<lossVars, tooLong, rank, step, batch, sequences, visits>>

\* A step: the batch, responses of any length, and into the loss.
BeginStep ==
  /\ stage = "train" /\ outcome = "done" /\ step < MaxSteps
  /\ step' = step + 1
  /\ batch' = Batch(Shard(rank), GenerationBatchSize, step + 1)
  /\ visits' = [x \in DOMAIN visits |-> visits[x] + Cardinality({i \in DOMAIN batch' : batch'[i] = x})]
  /\ \E responses \in [DOMAIN batch' -> 0..MaxResponse] :
       sequences' = [i \in DOMAIN batch' |-> [prompt |-> PromptTokens(batch'[i]), response |-> responses[i]]]
  /\ LossBegin(sequences')
  /\ UNCHANGED <<evalVars, tooLong, rank, stage>>

Loss ==
  /\ stage = "train"
  /\ LossStep
  /\ UNCHANGED <<evalVars, dataVars>>

\* The end of the loop, or an exception.
Stopped ==
  /\ stage = "raised" \/ outcome \notin {"running", "done"} \/ (outcome = "done" /\ step = MaxSteps)
  /\ UNCHANGED vars

Next == Evaluate \/ EndEval \/ BeginStep \/ Loss \/ Stopped

Spec == Init /\ [][Next]_vars

-----------------------------------------------------------------------------
(***************************************************************************)
(* Properties                                                              *)
(***************************************************************************)
\* The state is well formed.
TypeOK ==
  /\ stage \in {"eval", "train", "raised"} /\ rank \in World /\ step \in 0..MaxSteps
  /\ outcome \in {"running", "done", "ZeroDivisionError", "RuntimeError"}
  /\ graph \in {"none", "kept", "freed"} /\ mode \in BackwardModes
  /\ at[1] \in 0..Len(packs) /\ (at[2] > 0 => at[2] <= Len(packs[at[1]].seqs) + 1)
  /\ Len(batch) \in {0, GenerationBatchSize}
  /\ \A p \in DOMAIN hidden \cup DOMAIN head : p[1] \in DOMAIN packs /\ p[2] < Len(packs[p[1]].input_ids)

\* No example that is evaluated is trained on; no two ranks train on the same
\* example, and none has more of them than another.
HeldOut ==
  /\ \A x \in DOMAIN visits : visits[x] > 0 =>
       x \in Range(Shard(rank)) /\ x \notin Range(ValidationExamples) \cup Range(TestExamples)
  /\ \A r, q \in World :
       Len(Shard(r)) = Len(Shard(q)) /\ (r # q => Range(Shard(r)) \cap Range(Shard(q)) = {})

\* However the batch size and the shard divide one another, at any step no
\* example of the shard has been trained on twice more than another.
EvenVisits ==
  stage = "train" =>
    \A x, y \in Range(Shard(rank)) : visits[x] <= visits[y] + 1

\* The packs hold the sequences of the batch in order and no other token, with
\* the least padding; a pack exceeds the limit only for a single sequence, and
\* ends only where the next one would not have fitted.
PacksAreGreedy == GreedyPacks(packs, sequences)

\* When the loss returns, every position that predicts a token of a response,
\* and the one after its last token, has had one gradient, the same in
\* the backbone and in lm_head, and no other position any.  The weight of a
\* position is its sample's share of all the response tokens of the batch,
\* spread over the sample's positions, whatever the packs and the chunks are.
ResponsesWeighted ==
  outcome = "done" /\ step > 0 =>
    LET all == ResponseTokens(sequences)
        trained == UNION {{<<k, n>> : n \in {m \in 0..Len(packs[k].input_ids) - 1 :
                                               LET t == packs[k].input_ids[m + 1]
                                               IN t # PadToken /\ t[2] >= sequences[t[1]].prompt}} :
                          k \in DOMAIN packs}
    IN /\ hidden = head
       /\ DOMAIN head = trained
       /\ \A p \in trained :
            LET s == sequences[packs[p[1]].input_ids[p[2] + 1][1]]
            IN /\ Len(head[p]) = 1 /\ head[p][1][2] > 0
               /\ head[p][1][1] * (s.response + 1) * all = s.response * head[p][1][2]

\* configs/README.md, "KL backward mode: `sample`, `chunk`, `two_stage`": in
\* each of them the backward passes find the graph they need.
BackwardHasItsGraph == outcome # "RuntimeError"
=============================================================================
