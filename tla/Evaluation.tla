----------------------------- MODULE Evaluation -----------------------------
(***************************************************************************)
(* liteopd/eval/scoring.py: distributed_eval shards every named split over *)
(* the ranks, each rank generates and scores its shards in request         *)
(* batches, and one all_reduce adds three counts per split.  A response is *)
(* abstracted to whether it is scored correct and how many tokens it has.  *)
(***************************************************************************)
EXTENDS TrainData, Functions, Folds

CONSTANTS
  World,              \* the ranks, 0..n-1
  RequestBatchSize    \* OPD_EVAL_REQUEST_BATCH_SIZE, 0 when it is not set

ASSUME EvaluationAssumption ==
  /\ IsFiniteSet(World) /\ World # {} /\ World = 0..Cardinality(World) - 1
  /\ RequestBatchSize \in Nat

VARIABLES
  named,      \* named_examples: a sequence of [name, examples]
  answers,    \* example to [correct, tokens]: what generate returns for it
  scored,     \* rank to how many of its flat examples it has scored
  local,      \* rank to metrics: name to [correct, total]
  tokens,     \* rank to total_response_tokens
  metrics     \* what every rank has after the all_reduce: name to counts

evalVars == <<named, answers, scored, local, tokens, metrics>>

NoMetrics == [n \in {} |-> 0]

\* The splits of a rank that are not empty.
Sharded(r) ==
  SelectSeq([i \in DOMAIN named |->
               [named[i] EXCEPT !.examples = Strided(@, r, Cardinality(World))]],
            LAMBDA split : split.examples # <<>>)

\* flat_examples of a rank, as pairs of name and example.
FlatExamples(r) ==
  FlattenSeq([i \in DOMAIN Sharded(r) |->
                [k \in DOMAIN Sharded(r)[i].examples |->
                   <<Sharded(r)[i].name, Sharded(r)[i].examples[k]>>]])

\* The metrics a rank starts from: totals, nothing correct.
ZeroMetrics(r) ==
  [n \in {Sharded(r)[i].name : i \in DOMAIN Sharded(r)} |->
     [correct |-> 0,
      total |-> Len(Sharded(r)[CHOOSE i \in DOMAIN Sharded(r) : Sharded(r)[i].name = n].examples)]]

\* One request batch of rank r: generate, then score.
RequestBatch(r) ==
  LET flat == FlatExamples(r)
      size == IF RequestBatchSize = 0 THEN Len(flat) ELSE RequestBatchSize
  IN SubSeq(flat, scored[r] + 1, Min({scored[r] + size, Len(flat)}))

EvalInit(splits, responses) ==
  /\ named = splits
  /\ answers \in responses
  /\ scored = [r \in World |-> 0]
  /\ local = [r \in World |-> ZeroMetrics(r)]
  /\ tokens = [r \in World |-> 0]
  /\ metrics = NoMetrics

CorrectIn(batch, name) == Cardinality({i \in DOMAIN batch : batch[i][1] = name /\ answers[batch[i][2]].correct})

ScoreBatch(r) ==
  LET batch == RequestBatch(r)
  IN /\ scored[r] < Len(FlatExamples(r))
     /\ scored' = [scored EXCEPT ![r] = @ + Len(batch)]
     /\ local' = [local EXCEPT ![r] = [n \in DOMAIN @ |-> [@[n] EXCEPT !.correct = @ + CorrectIn(batch, n)]]]
     /\ tokens' = [tokens EXCEPT ![r] = @ + FoldLeft(LAMBDA k, x : k + answers[x[2]].tokens, 0, batch)]
     /\ UNCHANGED <<named, answers, metrics>>

-----------------------------------------------------------------------------
(***************************************************************************)
(* The three numbers a rank puts in the tensor for a split.  A rank knows  *)
(* the mean length of all its responses only, and rounds (half to even)    *)
(* that mean times the size of its part of the split.                      *)
(***************************************************************************)
Rounded(n, d) ==
  LET floor == n \div d  rest == 2 * (n % d)
  IN IF rest > d \/ (rest = d /\ floor % 2 = 1) THEN floor + 1 ELSE floor

\* A slip: a split is reduced only by the ranks that have examples of it, so
\* that the counts of a rank without move up by one split.
CountsOfOwnSplits(r, name) ==
  LET all == [i \in DOMAIN named |-> named[i].name]
      own == SelectSeq(all, LAMBDA n : n \in DOMAIN local[r])
      i   == CHOOSE k \in DOMAIN all : all[k] = name
  IN IF i > Len(own) THEN [correct |-> 0, total |-> 0, tokens |-> 0]
     ELSE [correct |-> local[r][own[i]].correct, total |-> local[r][own[i]].total, tokens |-> 0]

Counts(r, name) ==
  IF name \notin DOMAIN local[r] THEN [correct |-> 0, total |-> 0, tokens |-> 0]
  ELSE [correct |-> local[r][name].correct,
        total   |-> local[r][name].total,
        tokens  |-> Rounded(tokens[r] * local[r][name].total, Max({1, Len(FlatExamples(r))}))]

Reduced(name) ==
  LET sum(f(_)) == FoldLeft(LAMBDA k, r : k + f(Counts(r, name)), 0, SetToSeq(World))
  IN [correct |-> sum(LAMBDA c : c.correct), total |-> sum(LAMBDA c : c.total), tokens |-> sum(LAMBDA c : c.tokens)]

\* dist.all_reduce, once every rank has scored what it has.
AllReduceCounts ==
  /\ \A r \in World : scored[r] = Len(FlatExamples(r))
  /\ metrics = NoMetrics
  /\ metrics' = [n \in {named[i].name : i \in DOMAIN named} |-> Reduced(n)]
  /\ UNCHANGED <<named, answers, scored, local, tokens>>

EvalStep == (\E r \in World : ScoreBatch(r)) \/ AllReduceCounts

-----------------------------------------------------------------------------
(***************************************************************************)
(* Properties                                                              *)
(***************************************************************************)
\* Every example of every split is scored by exactly one rank: the reduced
\* counts are those one process would have got, also when a rank has nothing
\* of a split or nothing at all, and the tokens are off by rounding only.
EachExampleCountedOnce ==
  metrics # NoMetrics =>
    /\ \A i \in DOMAIN named :
         LET split == named[i]
             right == {k \in DOMAIN split.examples : answers[split.examples[k]].correct}
         IN metrics[split.name].correct = Cardinality(right) /\ metrics[split.name].total = Len(split.examples)
    /\ LET all == FlattenSeq([i \in DOMAIN named |-> named[i].examples])
           sum == FoldLeft(LAMBDA k, x : k + answers[x].tokens, 0, all)
           got == FoldLeft(LAMBDA k, s : k + metrics[s.name].tokens, 0, named)
       IN 2 * (IF got > sum THEN got - sum ELSE sum - got) <= Cardinality(World) * Len(named)
=============================================================================
