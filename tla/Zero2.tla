-------------------------------- MODULE Zero2 --------------------------------
(***************************************************************************)
(* The optimizers of the training loop: ZeRO2Optimizer                     *)
(* (liteopd/train/zero2.py), which keeps every parameter whole on every    *)
(* rank and shards the moments and the averaged gradient, and the AdamW of *)
(* torch behind DistributedDataParallel, where nothing is sharded.         *)
(*                                                                         *)
(* Numbers are abstracted to where they come from.  A value is a set of    *)
(* terms <<position, rank, step, update, lr>>:                             *)
(*   - a parameter starts as the term <<e, -1, 0, 0, 0>> of its position,  *)
(*     zero (the padding) as {};                                           *)
(*   - the gradient of rank r in step s at position e is <<e, r, s, 0, 0>>,*)
(*     with update -1 when it is not finite;                               *)
(*   - a sum or an average is the union of its operands;                   *)
(*   - AdamW's n-th update adds to a parameter the terms of the moments,   *)
(*     stamped with n and with the step whose learning rate was in force.  *)
(* Two values are equal when they were computed from the same gradients,   *)
(* at the same places and in the same updates.                             *)
(***************************************************************************)
EXTENDS Weights

CONSTANT WorldSize   \* the ranks of the job

ASSUME WorldAssumption == WorldSize \in Nat /\ WorldSize > 1

Rank == 0..WorldSize - 1

None == <<>>

-----------------------------------------------------------------------------
(***************************************************************************)
(* Geometry of the flat buffer                                             *)
(***************************************************************************)
TotalNumel == Total(Numel)

ShardSize == (TotalNumel + WorldSize - 1) \div WorldSize

PaddedNumel == ShardSize * WorldSize

Real == 0..TotalNumel - 1

ParamOf(e) == CHOOSE i \in Param : Offset(i) <= e /\ e < Offset(i) + Numel[i]

\* The slice of rank r.
MyShard(r, flat) == [j \in 0..ShardSize - 1 |-> flat[r * ShardSize + j]]

-----------------------------------------------------------------------------
(***************************************************************************)
(* The optimizer of one rank: its view of the flat buffer, the gradients   *)
(* of the parameters (None, or a value per position), the moments, the     *)
(* reduced gradient shard (None when released), the parameter snapshot     *)
(* (None outside reduce_scatter_grads .. step) and the step count and      *)
(* learning rate.                                                          *)
(***************************************************************************)
\* The parameters one after the other, then zeros.
InitialFlat ==
  LET params == Fuse(Pretrained)
  IN [e \in 0..PaddedNumel - 1 |->
        IF e \in Real THEN params[ParamOf(e)][e - Offset(ParamOf(e)) + 1] ELSE {}]

NoGrads == [i \in Param |-> None]

\* ZeRO2Optimizer.__init__; torch's moments cover every parameter.
NewOptimizer(sharded) ==
  [flat |-> InitialFlat, grad |-> NoGrads,
   m |-> [j \in IF sharded THEN 0..ShardSize - 1 ELSE Real |-> {}],
   out |-> IF sharded THEN [j \in 0..ShardSize - 1 |-> {}] ELSE None,
   snapshot |-> None, count |-> 0, lr |-> 0]

ZeroGrad(o) == [o EXCEPT !.grad = NoGrads]

ReleaseGradBuffer(o) == [o EXCEPT !.out = None]

PrepareGradBuffer(o) ==
  IF o.out = None THEN [o EXCEPT !.out = [j \in 0..ShardSize - 1 |-> {}]] ELSE o

GradAt(o, e) == IF o.grad[ParamOf(e)] = None THEN {} ELSE o.grad[ParamOf(e)][e]

\* backward: every parameter gets a gradient, finite or not.  It adds to what
\* is there, which is nothing: zero_grad comes before it in every step.
Backward(o, r, step, finite) ==
  [o EXCEPT !.grad =
     [i \in Param |->
        [e \in Offset(i)..Offset(i) + Numel[i] - 1 |-> {<<e, r, step, IF finite THEN 0 ELSE -1, 0>>}]]]

HasBadGradients(o) == \E e \in Real : \E t \in GradAt(o, e) : t[4] = -1

-----------------------------------------------------------------------------
(***************************************************************************)
(* reduce_scatter_grads: the rank's own part, which saves its shard and    *)
(* packs the gradients over the parameters, then the collective.           *)
(***************************************************************************)
\* A slip: the snapshot is taken after the gradients have been packed.
PackGradsThenSnapshot(o, r) ==
  LET flat == [e \in 0..PaddedNumel - 1 |-> IF e \in Real THEN GradAt(o, e) ELSE {}]
  IN [o EXCEPT !.flat = flat, !.snapshot = MyShard(r, flat), !.grad = NoGrads]

PackGrads(o, r) ==
  [o EXCEPT !.snapshot = MyShard(r, o.flat),
            !.flat = [e \in 0..PaddedNumel - 1 |-> IF e \in Real THEN GradAt(o, e) ELSE {}],
            !.grad = NoGrads]

ReduceScatter(opts) ==
  [r \in Rank |->
     [opts[r] EXCEPT !.out =
        MyShard(r, [e \in 0..PaddedNumel - 1 |-> UNION {opts[q].flat[e] : q \in Rank}])]]

\* AdamW: the moments absorb the gradient, the parameter moves by them.
Moved(param, moment, n, lr) == param \cup {<<t[1], t[2], t[3], n, lr>> : t \in moment}

\* step up to the all-gather.
StepShard(o) ==
  LET m == [j \in DOMAIN o.m |-> o.m[j] \cup o.out[j]]
  IN [o EXCEPT !.count = @ + 1, !.m = m,
               !.snapshot = [j \in DOMAIN m |-> Moved(@[j], m[j], o.count + 1, o.lr)]]

\* The all-gather of step.
AllGather(opts) ==
  [r \in Rank |->
     [opts[r] EXCEPT !.flat = [e \in 0..PaddedNumel - 1 |-> opts[e \div ShardSize].snapshot[e % ShardSize]],
                     !.snapshot = None]]

-----------------------------------------------------------------------------
(***************************************************************************)
(* What the views of Weights show of the memory of an optimizer: the       *)
(* storage a parameter was loaded into is the one torch's AdamW updates,   *)
(* and stays as it was once the parameter has moved into the flat buffer.  *)
(***************************************************************************)
Row(o, sharded, view, k) ==
  CASE view.storage = "flat" -> o.flat[view.at + k]
    [] view.storage = "own"  -> (IF sharded THEN InitialFlat ELSE o.flat)[view.at + k]
    [] OTHER -> {}

\* The student's parameters.
Params(o, sharded, student) ==
  [i \in Param |-> [k \in 1..Numel[i] |-> Row(o, sharded, student[i], k - 1)]]

-----------------------------------------------------------------------------
(***************************************************************************)
(* The unsharded optimizer: all_reduce_param_grads and torch's AdamW.      *)
(***************************************************************************)
AllReduceGrads(opts) ==
  [r \in Rank |->
     [opts[r] EXCEPT !.grad =
        [i \in Param |->
           IF @[i] = None THEN None
           ELSE [e \in DOMAIN @[i] |-> UNION {opts[q].grad[i][e] : q \in Rank}]]]]

AdamWStep(o) ==
  LET m == [e \in DOMAIN o.m |-> o.m[e] \cup GradAt(o, e)]
  IN [o EXCEPT !.count = @ + 1, !.m = m,
               !.flat = [e \in DOMAIN @ |-> IF e \in Real THEN Moved(@[e], m[e], o.count + 1, o.lr) ELSE @[e]]]
=============================================================================
