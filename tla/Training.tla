------------------------------ MODULE Training ------------------------------
(***************************************************************************)
(* The training loop of every rank: main, batch_rollout_and_loss_with_     *)
(* client and save_checkpoint of liteopd/train/run_opd_training.py, with   *)
(* its optimizer (Zero2), its rollout runtime (Session) and its share of   *)
(* the data (TrainData).                                                   *)
(*                                                                         *)
(* A rank runs a segment of code from one collective to the next as one    *)
(* step, arrives at the collective and waits there; a collective completes *)
(* for all ranks at once when all of them wait in it.  A rank that has     *)
(* raised or was killed never arrives, so the others wait until somebody   *)
(* ends them.                                                              *)
(***************************************************************************)
EXTENDS Zero2, Session, TrainData

CONSTANTS
  Strategies,     \* the distributed_strategy values tried: "zero2", "ddp"
  NumTrain,       \* training examples after loading, splitting and filtering
  BatchSize,      \* generation_batch_size
  NumEpochs, MaxSteps, SaveEvery, EvalEvery, SkipEval,
  MaxFailures     \* bound: exceptions and non-finite gradients in one run

ASSUME LoopAssumption ==
  /\ NumTrain \in Nat
  /\ {BatchSize, NumEpochs, MaxSteps, SaveEvery, EvalEvery, MaxFailures + 1} \subseteq Nat \ {0}
  /\ SkipEval \in BOOLEAN
  /\ Strategies \subseteq {"zero2", "ddp"}

VARIABLES
  strategy,   \* cfg.distributed_strategy
  pc,         \* the segment a rank is about to run, or the collective it waits in
  step,       \* the loop's step, 0 before the loop
  phase,      \* before the loop, in it, or after it
  examples,   \* how many training examples the rank has
  steps,      \* local_batches, then total_steps
  opt,        \* the optimizer with the parameters (Zero2), from the start as it will be built
  weights,    \* the views of the student, the engine and its graphs (Weights)
  session,    \* the rollout runtime (Session)
  disk,       \* output_dir/checkpoints/step_*
  code,       \* the exit code of the rank
  failures    \* how often something went wrong, for the bound

control == <<pc, step, phase>>
share == <<examples, steps>>
trainingVars == <<strategy, control, share, opt, weights, session, disk, code, failures>>

Collectives ==
  {"init", "ddp_init", "shard_min", "batches_max", "eval_reduce", "rollout_barrier", "grad_reduce",
   "bad_check", "reduce_scatter", "all_gather", "refresh_barrier", "train_barrier", "final_barrier"}

Segments ==
  {"start", "load", "build", "batches", "eval", "eval_end", "rollout", "loss", "skip", "apply",
   "optimize", "refresh", "end_step", "saving", "finish"}

Gone == {"cleanup", "exited"}

Alive(r) == pc[r] \notin Gone

NoCheckpoint == [state |-> "none", of |-> None]

TrainingInit ==
  /\ strategy \in Strategies
  /\ pc = [r \in Rank |-> "start"]
  /\ step = [r \in Rank |-> 0]
  /\ phase = [r \in Rank |-> "before"]
  /\ examples = [r \in Rank |-> 0]
  /\ steps = [r \in Rank |-> 0]
  /\ opt = [r \in Rank |-> NewOptimizer(strategy = "zero2")]
  /\ weights = [r \in Rank |-> None]
  /\ session = [r \in Rank |-> NewSession]
  /\ disk = [s \in 1..MaxSteps |-> NoCheckpoint]
  /\ code = [r \in Rank |-> 0]
  /\ failures = 0

\* Rank r goes from one place of its program to another.
Go(r, from, to) == pc[r] = from /\ pc' = [pc EXCEPT ![r] = to]

Stay == UNCHANGED <<step, phase>>

Rest == UNCHANGED <<strategy, weights, code, failures>>

-----------------------------------------------------------------------------
(***************************************************************************)
(* Startup: init_distributed; data and student, which DDP broadcasts when  *)
(* it wraps it; optimizer, teacher and runtime; then the ranks agree on    *)
(* the length of their shards and on the steps.                            *)
(***************************************************************************)
Start(r) ==
  /\ Go(r, "start", "init")
  /\ Stay /\ Rest /\ UNCHANGED <<share, opt, session, disk>>

LoadStudent(r) ==
  /\ Go(r, "load", IF strategy = "ddp" THEN "ddp_init" ELSE "build")
  /\ Stay /\ Rest /\ UNCHANGED <<share, opt, session, disk>>

BuildAndShard(r) ==
  /\ Go(r, "build", "shard_min")
  /\ opt' = [opt EXCEPT ![r] = ReleaseGradBuffer(@)]
  /\ weights' = [weights EXCEPT ![r] = BuildRuntime(strategy = "zero2")]
  /\ examples' = [examples EXCEPT ![r] = Len(Strided([i \in 1..NumTrain |-> i], r, WorldSize))]
  /\ Stay /\ UNCHANGED <<strategy, code, failures, steps, session, disk>>

\* An empty shard raises (see Fail).
Batches(r) ==
  /\ Go(r, "batches", "batches_max")
  /\ examples[r] > 0
  /\ steps' = [steps EXCEPT ![r] = LocalBatches(examples[r], BatchSize)]
  /\ Stay /\ Rest /\ UNCHANGED <<examples, opt, session, disk>>

\* A slip: max_steps is forgotten.
StepsOfEpochs(batches) == batches * NumEpochs

TotalSteps(batches) == Min({MaxSteps, batches * NumEpochs})

-----------------------------------------------------------------------------
(***************************************************************************)
(* Where a rank goes when it is done with step s of n, with an evaluation  *)
(* and with what may be a checkpoint, each in a phase.                     *)
(***************************************************************************)
EvalDue(s) == ~ SkipEval /\ s % EvalEvery = 0

Onward(s, n) ==
  IF s < n THEN [pc |-> "rollout", step |-> s + 1, phase |-> "loop"]
  ELSE [pc |-> IF SkipEval THEN "finish" ELSE "eval", step |-> s, phase |-> "after"]

AfterEval(s, when, n) ==
  IF when = "after" THEN [pc |-> "finish", step |-> s, phase |-> "after"] ELSE Onward(s, n)

AfterSave(s, when, n) ==
  IF when = "after" THEN [pc |-> "final_barrier", step |-> s, phase |-> "after"]
  ELSE IF EvalDue(s) THEN [pc |-> "eval", step |-> s, phase |-> "loop"]
  ELSE Onward(s, n)

MoveOn(r, to) ==
  /\ pc' = [pc EXCEPT ![r] = to.pc]
  /\ step' = [step EXCEPT ![r] = to.step]
  /\ phase' = [phase EXCEPT ![r] = to.phase]

(***************************************************************************)
(* Evaluation up to the all_reduce of distributed_eval.  Only the one      *)
(* before the loop does without zero_grad and refresh_weights.             *)
(***************************************************************************)
Eval(r) ==
  /\ Go(r, "eval", "eval_reduce")
  /\ LET fresh == IF phase[r] = "before" THEN session[r] ELSE RefreshFromModel(session[r])
     IN session' = [session EXCEPT ![r] = Generate(Prepare(fresh), opt[r].count)]
  /\ opt' = [opt EXCEPT ![r] = IF phase[r] = "before" THEN @ ELSE ZeroGrad(@)]
  /\ Stay /\ Rest /\ UNCHANGED <<share, disk>>

EvalEnd(r) ==
  /\ pc[r] = "eval_end"
  /\ session' = [session EXCEPT ![r] = Release(@)]
  /\ MoveOn(r, AfterEval(step[r], phase[r], steps[r]))
  /\ Rest /\ UNCHANGED <<share, opt, disk>>

-----------------------------------------------------------------------------
(***************************************************************************)
(* One step of the loop                                                    *)
(***************************************************************************)
Rollout(r) ==
  /\ Go(r, "rollout", "rollout_barrier")
  /\ opt' = [opt EXCEPT ![r] = IF strategy = "zero2" THEN ReleaseGradBuffer(ZeroGrad(@)) ELSE ZeroGrad(@)]
  /\ session' = [session EXCEPT ![r] = Generate(Prepare(@), opt[r].count)]
  /\ Stay /\ Rest /\ UNCHANGED <<share, disk>>

\* release, forward of teacher and student, loss and backward.
Loss(r) ==
  /\ Go(r, "loss", IF strategy = "zero2" THEN "bad_check" ELSE "grad_reduce")
  /\ session' = [session EXCEPT ![r] = Release(@)]
  /\ \E finite \in BOOLEAN :
       /\ ~ finite => failures < MaxFailures
       /\ opt' = [opt EXCEPT ![r] = Backward(@, r, step[r], finite)]
       /\ failures' = IF finite THEN failures ELSE failures + 1
  /\ Stay /\ UNCHANGED <<strategy, weights, code, share, disk>>

\* What any_rank_has_bad_gradients returns on rank r.
\* A slip: every rank looks at its own gradients only.
OwnBadGradients(r) == HasBadGradients(opt[r])

AnyBadGradients(r) == \E q \in Rank : HasBadGradients(opt[q])

Skip(r) ==
  /\ Go(r, "skip", "train_barrier")
  /\ opt' = [opt EXCEPT ![r] = ZeroGrad(@)]
  /\ Stay /\ Rest /\ UNCHANGED <<share, session, disk>>

\* prepare_grad_buffer and reduce_scatter_grads.
ApplySharded(r) ==
  /\ strategy = "zero2"
  /\ Go(r, "apply", "reduce_scatter")
  /\ opt' = [opt EXCEPT ![r] = PackGrads(PrepareGradBuffer(@), r)]
  /\ Stay /\ Rest /\ UNCHANGED <<share, session, disk>>

Optimize(r) ==
  /\ Go(r, "optimize", "all_gather")
  /\ opt' = [opt EXCEPT ![r] = StepShard(@)]
  /\ Stay /\ Rest /\ UNCHANGED <<share, session, disk>>

\* The learning rate of the next update, and refresh_weights.
Refresh(r) ==
  /\ Go(r, "refresh", "refresh_barrier")
  /\ opt' = [opt EXCEPT ![r].lr = step[r]]
  /\ session' = [session EXCEPT ![r] = RefreshFromModel(@)]
  /\ Stay /\ Rest /\ UNCHANGED <<share, disk>>

\* The same three with torch's optimizer, which needs no collective.
ApplyWhole(r) ==
  /\ strategy = "ddp"
  /\ Go(r, "apply", "refresh_barrier")
  /\ opt' = [opt EXCEPT ![r] = [AdamWStep(@) EXCEPT !.lr = step[r]]]
  /\ session' = [session EXCEPT ![r] = RefreshFromModel(@)]
  /\ Stay /\ Rest /\ UNCHANGED <<share, disk>>

\* save_checkpoint on rank 0: the directory exists from the first file on.
SaveDue(r) == r = 0 /\ (phase[r] = "after" \/ step[r] % SaveEvery = 0)

SaveBegin(r) ==
  /\ pc[r] \in {"end_step", "finish"} /\ SaveDue(r)
  /\ disk' = [disk EXCEPT ![step[r]] = [state |-> "partial", of |-> None]]
  /\ pc' = [pc EXCEPT ![r] = "saving"]
  /\ Stay /\ Rest /\ UNCHANGED <<share, opt, session>>

SaveEnd(r) ==
  /\ pc[r] = "saving"
  /\ disk' = [disk EXCEPT ![step[r]] = [state |-> "whole",
                                       of |-> Unfuse(Params(opt[r], strategy = "zero2", weights[r].student))]]
  /\ MoveOn(r, AfterSave(step[r], phase[r], steps[r]))
  /\ Rest /\ UNCHANGED <<share, opt, session>>

NoSave(r) ==
  /\ pc[r] \in {"end_step", "finish"} /\ ~ SaveDue(r)
  /\ MoveOn(r, AfterSave(step[r], phase[r], steps[r]))
  /\ Rest /\ UNCHANGED <<share, opt, session, disk>>

-----------------------------------------------------------------------------
(***************************************************************************)
(* Collectives: a call returns on every rank when all are in it.           *)
(***************************************************************************)
Complete(c, to(_)) ==
  /\ \A r \in Rank : pc[r] = c
  /\ pc' = [r \in Rank |-> to(r)]

ShardMin ==
  /\ Complete("shard_min", LAMBDA r : "batches")
  /\ examples' = [r \in Rank |-> Min({examples[q] : q \in Rank})]
  /\ Stay /\ Rest /\ UNCHANGED <<steps, opt, session, disk>>

BatchesMax ==
  LET n  == TotalSteps(Max({steps[q] : q \in Rank}))
      to == IF SkipEval THEN Onward(0, n) ELSE [pc |-> "eval", step |-> 0, phase |-> "before"]
  IN /\ Complete("batches_max", LAMBDA r : to.pc)
     /\ step' = [r \in Rank |-> to.step]
     /\ phase' = [r \in Rank |-> to.phase]
     /\ steps' = [r \in Rank |-> n]
     /\ Rest /\ UNCHANGED <<examples, opt, session, disk>>

\* all_reduce_param_grads.
GradReduce ==
  /\ Complete("grad_reduce", LAMBDA r : "bad_check")
  /\ opt' = AllReduceGrads(opt)
  /\ Stay /\ Rest /\ UNCHANGED <<share, session, disk>>

BadCheck ==
  /\ Complete("bad_check", LAMBDA r : IF AnyBadGradients(r) THEN "skip" ELSE "apply")
  /\ Stay /\ Rest /\ UNCHANGED <<share, opt, session, disk>>

ReduceScatterAll ==
  /\ Complete("reduce_scatter", LAMBDA r : "optimize")
  /\ opt' = ReduceScatter(opt)
  /\ Stay /\ Rest /\ UNCHANGED <<share, session, disk>>

AllGatherAll ==
  /\ Complete("all_gather", LAMBDA r : "refresh")
  /\ opt' = AllGather(opt)
  /\ Stay /\ Rest /\ UNCHANGED <<share, session, disk>>

Barrier ==
  /\ \/ Complete("init", LAMBDA r : "load")
     \/ Complete("ddp_init", LAMBDA r : "build")
     \/ Complete("eval_reduce", LAMBDA r : "eval_end")
     \/ Complete("rollout_barrier", LAMBDA r : "loss")
     \/ Complete("refresh_barrier", LAMBDA r : "end_step")
     \/ Complete("train_barrier", LAMBDA r : "end_step")
     \/ Complete("final_barrier", LAMBDA r : "cleanup")
  /\ Stay /\ Rest /\ UNCHANGED <<share, opt, session, disk>>

Collective ==
  ShardMin \/ BatchesMax \/ GradReduce \/ BadCheck \/ ReduceScatterAll \/ AllGatherAll \/ Barrier

-----------------------------------------------------------------------------
(***************************************************************************)
(* The end of a rank                                                       *)
(***************************************************************************)
\* An exception in a segment unwinds to the finally clause; the bound does
\* not count the one of an empty shard, which every rank meets.
Fail(r) ==
  /\ pc[r] \in Segments \ {"start"}
  /\ IF pc[r] = "batches" /\ examples[r] = 0 THEN UNCHANGED failures
     ELSE failures < MaxFailures /\ failures' = failures + 1
  /\ pc' = [pc EXCEPT ![r] = "cleanup"]
  /\ code' = [code EXCEPT ![r] = 1]
  /\ Stay /\ UNCHANGED <<strategy, weights, share, opt, session, disk>>

\* _cleanup_runtime: whatever its two calls raise is swallowed.
Cleanup(r) ==
  /\ Go(r, "cleanup", "exited")
  /\ Stay /\ Rest /\ UNCHANGED <<share, opt, session, disk>>

\* The handler of _TrainingSignalGuard, which cleans up and raises: it runs
\* between two bytecodes, never within a collective.
Interrupted(r) ==
  /\ pc[r] \in Segments \ {"start"}
  /\ pc' = [pc EXCEPT ![r] = "exited"]
  /\ code' = [code EXCEPT ![r] = 143]
  /\ Stay /\ UNCHANGED <<strategy, weights, share, opt, session, disk, failures>>

Killed(r) ==
  /\ pc[r] # "exited"
  /\ pc' = [pc EXCEPT ![r] = "exited"]
  /\ code' = [code EXCEPT ![r] = 137]
  /\ Stay /\ UNCHANGED <<strategy, weights, share, opt, session, disk, failures>>

Run(r) ==
  \/ LoadStudent(r) \/ BuildAndShard(r) \/ Batches(r) \/ Eval(r) \/ EvalEnd(r) \/ Rollout(r) \/ Loss(r) \/ Skip(r)
  \/ ApplySharded(r) \/ Optimize(r) \/ Refresh(r) \/ ApplyWhole(r)
  \/ SaveBegin(r) \/ SaveEnd(r) \/ NoSave(r) \/ Cleanup(r)
=============================================================================
