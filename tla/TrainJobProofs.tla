---------------------------- MODULE TrainJobProofs ----------------------------
(***************************************************************************)
(* What the run of MCTrainJob checks with two ranks, for every number of   *)
(* ranks, every model and every length of the job.                         *)
(***************************************************************************)
EXTENDS TrainJob, TLAPS

-----------------------------------------------------------------------------
(***************************************************************************)
(* Where a rank is headed: the collective it meets next, with the step and *)
(* the phase it will be in there.                                          *)
(***************************************************************************)
AllPlaces == Collectives \cup Segments \cup Gone

\* Collectives before the ranks have agreed on the number of steps.
Early == {"init", "ddp_init", "shard_min", "batches_max"}

\* From the place a rank moves on to.
Bound(to) ==
  CASE to.pc = "rollout" -> <<"rollout_barrier", to.step, to.phase>>
    [] to.pc = "eval"    -> <<"eval_reduce", to.step, to.phase>>
    [] OTHER             -> <<"final_barrier", to.step, to.phase>>

\* From place p, at step s of n, in a phase.
Goal(mode, p, s, when, n) ==
  CASE p = "start"    -> <<"init", s, when>>
    [] p = "load"     -> <<IF mode = "ddp" THEN "ddp_init" ELSE "shard_min", s, when>>
    [] p = "build"    -> <<"shard_min", s, when>>
    [] p = "batches"  -> <<"batches_max", s, when>>
    [] p = "eval"     -> <<"eval_reduce", s, when>>
    [] p = "eval_end" -> Bound(AfterEval(s, when, n))
    [] p = "rollout"  -> <<"rollout_barrier", s, when>>
    [] p = "loss"     -> <<IF mode = "zero2" THEN "bad_check" ELSE "grad_reduce", s, when>>
    [] p = "skip"     -> <<"train_barrier", s, when>>
    [] p = "apply"    -> <<IF mode = "zero2" THEN "reduce_scatter" ELSE "refresh_barrier", s, when>>
    [] p = "optimize" -> <<"all_gather", s, when>>
    [] p = "refresh"  -> <<"refresh_barrier", s, when>>
    [] p \in {"end_step", "saving", "finish"} -> Bound(AfterSave(s, when, n))
    [] OTHER          -> <<p, s, when>>

Target(r) == Goal(strategy, pc[r], step[r], phase[r], steps[r])

\* Two ranks that have not ended head for the same collective, at the same
\* step, and have agreed on the same number of steps.
Together ==
  \A r, q \in Rank : Alive(r) /\ Alive(q) =>
    /\ Target(r) = Target(q)
    /\ Target(r)[1] \notin Early => steps[r] = steps[q]

Functions ==
  /\ strategy \in {"zero2", "ddp"}
  /\ pc \in [Rank -> AllPlaces]
  /\ step = [r \in Rank |-> step[r]]
  /\ phase = [r \in Rank |-> phase[r]]
  /\ steps = [r \in Rank |-> steps[r]]

Lockstep == Functions /\ Together

(***************************************************************************)
(* Steps of one rank                                                       *)
(***************************************************************************)
\* A step of r alone that ends r or leaves it headed where it was.
Local(r) ==
  /\ Functions'
  /\ strategy' = strategy
  /\ \A q \in Rank \ {r} : /\ pc'[q] = pc[q] /\ step'[q] = step[q]
                          /\ phase'[q] = phase[q] /\ steps'[q] = steps[q]
  /\ Alive(r)' => /\ Alive(r)
                  /\ Target(r)' = Target(r)
                  /\ Target(r)[1] \notin Early => steps'[r] = steps[r]

\* Such a step keeps the ranks together.
LEMMA LocalKeeps ==
  ASSUME Lockstep, NEW r \in Rank, Local(r)
  PROVE  Lockstep'
<1>1. ASSUME NEW q \in Rank, q # r
      PROVE  (Alive(q)' <=> Alive(q)) /\ Target(q)' = Target(q) /\ steps'[q] = steps[q]
  BY <1>1 DEF Local, Alive, Target
<1>2. ASSUME NEW q \in Rank, Alive(q)'
      PROVE  /\ Alive(q)
             /\ Target(q)' = Target(q)
             /\ Target(q)[1] \notin Early => steps'[q] = steps[q]
  BY <1>1, <1>2 DEF Local, Alive, Target
<1>3. ASSUME NEW p \in Rank, NEW q \in Rank, Alive(p)', Alive(q)'
      PROVE  /\ Target(p)' = Target(q)'
             /\ Target(p)'[1] \notin Early => steps'[p] = steps'[q]
  <2>1. /\ Target(p) = Target(q)
        /\ Target(p)[1] \notin Early => steps[p] = steps[q]
    BY <1>2, <1>3 DEF Lockstep, Together, Alive, Target
  <2>2. QED
    BY <2>1, <1>2, <1>3 DEF Alive, Target
<1>4. Together'
  BY <1>3 DEF Together, Alive, Target
<1>5. QED
  BY <1>4 DEF Lockstep, Local

\* A step that moves r within its segment, before the steps are agreed on.
LEMMA BeforeLocal ==
  ASSUME Lockstep, NEW r \in Rank,
         Start(r) \/ LoadStudent(r) \/ BuildAndShard(r) \/ Batches(r)
  PROVE  Local(r)
<1> USE DEF Lockstep, Functions, Local, Alive, Gone, Go, Stay, Rest, share, Early,
        AllPlaces, Collectives, Segments
<1>1. CASE Start(r)
  BY <1>1 DEF Start, Target, Goal
<1>2. CASE LoadStudent(r)
  BY <1>2 DEF LoadStudent, Target, Goal
<1>3. CASE BuildAndShard(r)
  BY <1>3 DEF BuildAndShard, Target, Goal
<1>4. CASE Batches(r)
  BY <1>4 DEF Batches, Target, Goal
<1>5. QED
  BY <1>1, <1>2, <1>3, <1>4

\* A step from one place of the loop to a collective.
LEMMA LoopLocal ==
  ASSUME Lockstep, NEW r \in Rank,
         Eval(r) \/ Rollout(r) \/ Loss(r) \/ Skip(r)
           \/ ApplySharded(r) \/ Optimize(r) \/ Refresh(r) \/ ApplyWhole(r)
  PROVE  Local(r)
<1> USE DEF Lockstep, Functions, Local, Alive, Gone, Go, Stay, Rest, share, Early,
        AllPlaces, Collectives, Segments
<1>1. CASE Eval(r)
  BY <1>1 DEF Eval, Target, Goal
<1>2. CASE Rollout(r)
  BY <1>2 DEF Rollout, Target, Goal
<1>3. CASE Loss(r)
  BY <1>3 DEF Loss, Target, Goal
<1>4. CASE Skip(r)
  BY <1>4 DEF Skip, Target, Goal
<1>5. CASE ApplySharded(r)
  BY <1>5 DEF ApplySharded, Target, Goal
<1>6. CASE Optimize(r)
  BY <1>6 DEF Optimize, Target, Goal
<1>7. CASE Refresh(r)
  BY <1>7 DEF Refresh, Target, Goal
<1>8. CASE ApplyWhole(r)
  BY <1>8 DEF ApplyWhole, Target, Goal
<1>9. QED
  BY <1>1, <1>2, <1>3, <1>4, <1>5, <1>6, <1>7, <1>8

\* Where the decisions of the loop lead, and that a rank is headed there.
LEMMA Onwards ==
  ASSUME NEW s, NEW when, NEW n, NEW mode,
         NEW to, to = Onward(s, n) \/ to = AfterEval(s, when, n) \/ to = AfterSave(s, when, n)
  PROVE  /\ to.pc \in {"rollout", "eval", "finish", "final_barrier"}
         /\ Goal(mode, to.pc, to.step, to.phase, n) = Bound(to)
<1>1. /\ Onward(s, n).pc \in {"rollout", "eval", "finish"}
      /\ Onward(s, n).pc = "finish" => Onward(s, n).phase = "after"
  BY DEF Onward
<1>2. /\ to.pc \in {"rollout", "eval", "finish", "final_barrier"}
      /\ to.pc = "finish" => to.phase = "after"
  BY <1>1 DEF AfterEval, AfterSave
<1>3. CASE to.pc = "finish"
  <2>1. AfterSave(to.step, to.phase, n) = [pc |-> "final_barrier", step |-> to.step, phase |-> "after"]
    BY <1>2, <1>3 DEF AfterSave
  <2>2. Bound(AfterSave(to.step, to.phase, n)) = <<"final_barrier", to.step, "after">>
    BY <2>1 DEF Bound
  <2>3. QED
    BY <1>2, <1>3, <2>2 DEF Goal, Bound
<1>4. CASE to.pc # "finish"
  BY <1>2, <1>4 DEF Goal, Bound
<1>5. QED
  BY <1>2, <1>3, <1>4

\* Evaluations and checkpoints: only where they lead matters.
LEMMA MoveLocal ==
  ASSUME Lockstep, NEW r \in Rank,
         EvalEnd(r) \/ SaveBegin(r) \/ SaveEnd(r) \/ NoSave(r)
  PROVE  Local(r)
<1> USE DEF Lockstep, Functions, Local, Alive, Gone, Stay, Rest, share, Early,
        AllPlaces, Collectives, Segments
<1>1. CASE EvalEnd(r)
  <2> DEFINE to == AfterEval(step[r], phase[r], steps[r])
  <2>1. /\ to.pc \in {"rollout", "eval", "finish", "final_barrier"}
        /\ Goal(strategy, to.pc, to.step, to.phase, steps[r]) = Bound(to)
    BY Onwards
  <2>2. Goal(strategy, pc[r], step[r], phase[r], steps[r]) = Bound(to)
    BY <1>1 DEF EvalEnd, Goal
  <2> HIDE DEF to
  <2>3. QED
    BY <1>1, <2>1, <2>2 DEF EvalEnd, MoveOn, Target, to
<1>2. CASE SaveBegin(r)
  <2>1. pc[r] \in {"end_step", "finish"} /\ pc' = [pc EXCEPT ![r] = "saving"]
    BY <1>2 DEF SaveBegin
  <2>2. Goal(strategy, pc[r], step[r], phase[r], steps[r])
          = Goal(strategy, "saving", step[r], phase[r], steps[r])
    BY <2>1 DEF Goal
  <2>3. QED
    BY <1>2, <2>1, <2>2 DEF SaveBegin, Target
<1>3. CASE SaveEnd(r) \/ NoSave(r)
  <2> DEFINE to == AfterSave(step[r], phase[r], steps[r])
  <2>1. /\ to.pc \in {"rollout", "eval", "finish", "final_barrier"}
        /\ Goal(strategy, to.pc, to.step, to.phase, steps[r]) = Bound(to)
    BY Onwards
  <2>2. Goal(strategy, pc[r], step[r], phase[r], steps[r]) = Bound(to)
    BY <1>3 DEF SaveEnd, NoSave, Goal
  <2> HIDE DEF to
  <2>3. QED
    BY <1>3, <2>1, <2>2 DEF SaveEnd, NoSave, MoveOn, Target, to
<1>4. QED
  BY <1>1, <1>2, <1>3

\* A rank that ends leaves the others where they are.
LEMMA EndLocal ==
  ASSUME Lockstep, NEW r \in Rank,
         Cleanup(r) \/ Fail(r) \/ Interrupted(r) \/ Killed(r)
  PROVE  Local(r)
BY DEF Lockstep, Functions, Local, Alive, Gone, Go, Stay, Rest, share,
       AllPlaces, Cleanup, Fail, Interrupted, Killed

-----------------------------------------------------------------------------
(***************************************************************************)
(* Collectives                                                             *)
(***************************************************************************)
\* Ranks that wait in one collective agree on the step and the phase, and,
\* once they have exchanged it, on the number of steps.
LEMMA Agreed ==
  ASSUME Lockstep, NEW c \in Collectives, \A r \in Rank : pc[r] = c,
         NEW p \in Rank, NEW q \in Rank
  PROVE  /\ step[p] = step[q] /\ phase[p] = phase[q]
         /\ c \notin Early => steps[p] = steps[q]
<1>1. \A s, when, n : Goal(strategy, c, s, when, n) = <<c, s, when>>
  BY DEF Goal, Collectives
<1>2. Target(p) = <<c, step[p], phase[p]>> /\ Target(q) = <<c, step[q], phase[q]>>
  BY <1>1 DEF Target
<1>3. Alive(p) /\ Alive(q)
  BY DEF Alive, Gone, Collectives
<1>4. /\ Target(p) = Target(q)
      /\ Target(p)[1] \notin Early => steps[p] = steps[q]
  BY <1>3 DEF Lockstep, Together
<1>5. QED
  BY <1>2, <1>4

\* Ranks that are in the same place with the same numbers are together.
LEMMA UniformTogether ==
  ASSUME Functions', NEW d,
         \A p \in Rank : pc'[p] = d,
         \A p, q \in Rank : step'[p] = step'[q] /\ phase'[p] = phase'[q],
         d \in {"load", "build", "batches"} \/ \A p, q \in Rank : steps'[p] = steps'[q]
  PROVE  Lockstep'
<1>1. CASE d \in {"load", "build", "batches"}
  <2>1. ASSUME NEW p \in Rank, NEW q \in Rank
        PROVE  /\ Goal(strategy', d, step'[p], phase'[p], steps'[p])
                    = Goal(strategy', d, step'[q], phase'[q], steps'[q])
               /\ Goal(strategy', d, step'[p], phase'[p], steps'[p])[1] \in Early
    BY <1>1, <2>1 DEF Goal, Early
  <2>2. QED
    BY <2>1 DEF Lockstep, Together, Target, Alive
<1>2. CASE \A p, q \in Rank : steps'[p] = steps'[q]
  BY <1>2 DEF Lockstep, Together, Target, Alive
<1>3. QED
  BY <1>1, <1>2

\* A collective keeps the ranks together: what it returns, it returns to
\* all of them.
LEMMA CollectiveKeeps ==
  ASSUME Lockstep, Collective
  PROVE  Lockstep'
<1> USE DEF Stay, Rest, share
<1>1. CASE ShardMin
  <2>1. \A p, q \in Rank : step[p] = step[q] /\ phase[p] = phase[q]
    BY <1>1, Agreed DEF ShardMin, Complete, Collectives
  <2>2. Functions'
    BY <1>1 DEF Lockstep, Functions, ShardMin, Complete, AllPlaces, Segments
  <2>3. QED
    BY <1>1, <2>1, <2>2, UniformTogether DEF ShardMin, Complete
<1>2. CASE BatchesMax
  <2> DEFINE n  == TotalSteps(Max({steps[q] : q \in Rank}))
             to == IF SkipEval THEN Onward(0, n) ELSE [pc |-> "eval", step |-> 0, phase |-> "before"]
  <2>1. /\ pc' = [r \in Rank |-> to.pc] /\ step' = [r \in Rank |-> to.step]
        /\ phase' = [r \in Rank |-> to.phase] /\ steps' = [r \in Rank |-> n]
        /\ strategy' = strategy
    BY <1>2 DEF BatchesMax, Complete
  <2>2. to.pc \in AllPlaces
    BY DEF Onward, AllPlaces, Segments
  <2> HIDE DEF n, to
  <2>3. Functions'
    BY <2>1, <2>2 DEF Lockstep, Functions
  <2>4. QED
    BY <2>1, <2>3, UniformTogether
<1>3. ASSUME NEW c \in Collectives \ Early, NEW d \in AllPlaces,
             \A r \in Rank : pc[r] = c, pc' = [r \in Rank |-> d],
             UNCHANGED <<strategy, step, phase, steps>>
      PROVE  Lockstep'
  <2>1. \A p, q \in Rank : step[p] = step[q] /\ phase[p] = phase[q] /\ steps[p] = steps[q]
    BY <1>3, Agreed
  <2>2. Functions'
    BY <1>3 DEF Lockstep, Functions
  <2>3. QED
    BY <1>3, <2>1, <2>2, UniformTogether
<1>4. CASE GradReduce
  BY <1>3, <1>4 DEF GradReduce, Complete, Collectives, Early, AllPlaces, Segments
<1>5. CASE BadCheck
  <2>1. PICK d \in {"skip", "apply"} : pc' = [r \in Rank |-> d]
    BY <1>5 DEF BadCheck, Complete, AnyBadGradients
  <2>2. QED
    BY <1>3, <1>5, <2>1 DEF BadCheck, Complete, Collectives, Early, AllPlaces, Segments
<1>6. CASE ReduceScatterAll
  BY <1>3, <1>6 DEF ReduceScatterAll, Complete, Collectives, Early, AllPlaces, Segments
<1>7. CASE AllGatherAll
  BY <1>3, <1>7 DEF AllGatherAll, Complete, Collectives, Early, AllPlaces, Segments
<1>8. ASSUME NEW c \in {"init", "ddp_init"}, NEW d \in {"load", "build"},
             \A r \in Rank : pc[r] = c, pc' = [r \in Rank |-> d],
             UNCHANGED <<strategy, step, phase, steps>>
      PROVE  Lockstep'
  <2>1. \A p, q \in Rank : step[p] = step[q] /\ phase[p] = phase[q]
    BY <1>8, Agreed DEF Collectives
  <2>2. Functions'
    BY <1>8 DEF Lockstep, Functions, AllPlaces, Segments
  <2>3. QED
    BY <1>8, <2>1, <2>2, UniformTogether
<1>9. CASE Barrier
  BY <1>3, <1>8, <1>9 DEF Barrier, Complete, Collectives, Early, AllPlaces, Segments, Gone
<1>10. QED
  BY <1>1, <1>2, <1>4, <1>5, <1>6, <1>7, <1>9 DEF Collective

-----------------------------------------------------------------------------
(***************************************************************************)
(* The whole job                                                           *)
(***************************************************************************)
LEMMA InitLockstep == Init => Lockstep
<1> SUFFICES ASSUME Init PROVE Lockstep
  OBVIOUS
<1>1. Functions
  BY LoopAssumption DEF Init, TrainingInit, Functions, AllPlaces, Segments
<1>2. \A r \in Rank : Target(r) = <<"init", 0, "before">> /\ steps[r] = 0
  BY DEF Init, TrainingInit, Target, Goal
<1>3. QED
  BY <1>1, <1>2 DEF Lockstep, Together

\* Steps of the launcher and the agent concern no rank.
LEMMA StutterLockstep ==
  ASSUME Lockstep, UNCHANGED trainingVars
  PROVE  Lockstep'
BY DEF Lockstep, Functions, Together, Alive, Target, trainingVars, control, share

LEMMA NextLockstep ==
  ASSUME Lockstep, [Next]_vars
  PROVE  Lockstep'
<1>1. ASSUME NEW r \in Rank, StartRank(r) \/ RankStep(r) \/ RankFails(r) \/ AgentKills(r)
      PROVE  Lockstep'
  <2>1. \/ Start(r) \/ LoadStudent(r) \/ BuildAndShard(r) \/ Batches(r)
        \/ Eval(r) \/ Rollout(r) \/ Loss(r) \/ Skip(r)
        \/ ApplySharded(r) \/ Optimize(r) \/ Refresh(r) \/ ApplyWhole(r)
        \/ EvalEnd(r) \/ SaveBegin(r) \/ SaveEnd(r) \/ NoSave(r)
        \/ Cleanup(r) \/ Fail(r) \/ Interrupted(r) \/ Killed(r)
    BY <1>1 DEF StartRank, RankStep, RankFails, AgentKills, Run
  <2>2. Local(r)
    BY <2>1, BeforeLocal, LoopLocal, MoveLocal, EndLocal
  <2>3. QED
    BY <2>2, LocalKeeps
<1>2. CASE CollectiveStep
  BY <1>2, CollectiveKeeps DEF CollectiveStep
<1>3. CASE AgentSucceeds \/ AgentStops \/ AgentFails \/ LauncherStep \/ Ended \/ UNCHANGED vars
  BY <1>3, StutterLockstep DEF AgentSucceeds, AgentStops, AgentFails, LauncherStep, Ended, vars
<1>4. QED
  BY <1>1, <1>2, <1>3 DEF Next

\* Ranks that are together and wait, wait in the same collective.
LEMMA LockstepCollective == Lockstep => SameCollective
<1> SUFFICES ASSUME Lockstep, NEW r \in Rank, NEW q \in Rank,
                    pc[r] \in Collectives, pc[q] \in Collectives
             PROVE  pc[r] = pc[q]
  BY DEF SameCollective
<1>1. \A s, when, n : \A c \in Collectives : Goal(strategy, c, s, when, n) = <<c, s, when>>
  BY DEF Goal, Collectives
<1>2. Target(r) = <<pc[r], step[r], phase[r]>> /\ Target(q) = <<pc[q], step[q], phase[q]>>
  BY <1>1 DEF Target
<1>3. Target(r) = Target(q)
  BY DEF Lockstep, Together, Alive, Gone, Collectives
<1>4. QED
  BY <1>2, <1>3

\* No decision of the loop sends two ranks to different collectives, for any
\* number of ranks and whatever fails on the way.
THEOREM RanksMeet == Spec => []SameCollective
<1>1. Init => Lockstep
  BY InitLockstep
<1>2. Lockstep /\ [Next]_vars => Lockstep'
  BY NextLockstep
<1>3. Lockstep => SameCollective
  BY LockstepCollective
<1>4. QED
  BY <1>1, <1>2, <1>3, PTL DEF Spec

-----------------------------------------------------------------------------
(***************************************************************************)
(* The launcher                                                            *)
(***************************************************************************)
\* Whoever cleans up with the agent alive was sent there by a signal.
Supervised ==
  /\ signals \in Nat
  /\ lpc = "spawn" => ~ handle
  /\ lpc \in {"clean", "term_wait"} /\ AgentAlive => signals > 0
  /\ cleaning => lpc \in {"term_wait", "done"}
  /\ LeavesNoAgent

\* The launcher leaves no agent to itself, but for a signal that interrupts
\* Popen or a second one that interrupts the cleanup.
THEOREM AgentIsStopped == Spec => []LeavesNoAgent
<1>1. Init => Supervised
  BY DEF Init, LauncherInit, Supervised, LeavesNoAgent, AgentAlive
<1>2. Supervised /\ [Next]_vars => Supervised'
  <2> SUFFICES ASSUME Supervised, [Next]_vars PROVE Supervised'
    OBVIOUS
  <2> USE DEF Supervised, LeavesNoAgent, AgentAlive, launcherVars
  <2>1. CASE LauncherStep
    BY <2>1 DEF LauncherStep, Launch, Popen, Assign, WaitReturns, Signal, Terminate,
        TermWaitReturns, TermTimeout
  <2>2. CASE AgentSucceeds \/ AgentStops \/ AgentFails
    BY <2>2 DEF AgentSucceeds, AgentStops, AgentFails
  <2>3. CASE UNCHANGED launcherVars
    BY <2>3
  <2>4. QED
    BY <2>1, <2>2, <2>3 DEF Next, StartRank, RankStep, RankFails, AgentKills, CollectiveStep, Ended, vars
<1>3. QED
  BY <1>1, <1>2, PTL DEF Spec, Supervised

-----------------------------------------------------------------------------
(***************************************************************************)
(* Keys, values and weights                                                *)
(***************************************************************************)
\* Between a generate and the release that follows it.
Generated == {"rollout_barrier", "eval_reduce", "loss", "eval_end"}

Shapes ==
  /\ opt = [r \in Rank |-> opt[r]]
  /\ session = [r \in Rank |-> session[r]]
  /\ \A r \in Rank : /\ "count" \in DOMAIN opt[r]
                     /\ {"mapped", "cached"} \subseteq DOMAIN session[r]

\* The prefix cache is empty but between a generate and its release, and
\* then the pool is mapped and no update has happened since.
FreshKV ==
  \A r \in Rank :
    /\ pc[r] \in Generated => session[r].mapped /\ session[r].cached = {opt[r].count}
    /\ pc[r] \notin Generated \cup Gone => session[r].cached = {}
    /\ session[r].cached # {} => session[r].mapped
    /\ ~ UseVMM => session[r].mapped

KVInv == Functions /\ Shapes /\ FreshKV

\* What the operations leave of the step count of an optimizer.
LEMMA CountKept ==
  ASSUME NEW o, "count" \in DOMAIN o, NEW r, NEW s, NEW finite
  PROVE  /\ ZeroGrad(o).count = o.count /\ "count" \in DOMAIN ZeroGrad(o)
         /\ ReleaseGradBuffer(o).count = o.count /\ "count" \in DOMAIN ReleaseGradBuffer(o)
         /\ ReleaseGradBuffer(ZeroGrad(o)).count = o.count
         /\ "count" \in DOMAIN ReleaseGradBuffer(ZeroGrad(o))
         /\ "count" \in DOMAIN Backward(o, r, s, finite)
         /\ "count" \in DOMAIN PackGrads(PrepareGradBuffer(o), r)
         /\ "count" \in DOMAIN StepShard(o)
         /\ "count" \in DOMAIN [o EXCEPT !.lr = s]
         /\ "count" \in DOMAIN [AdamWStep(o) EXCEPT !.lr = s]
<1>1. ZeroGrad(o).count = o.count /\ "count" \in DOMAIN ZeroGrad(o)
  BY DEF ZeroGrad
<1>2. ReleaseGradBuffer(o).count = o.count /\ "count" \in DOMAIN ReleaseGradBuffer(o)
  BY DEF ReleaseGradBuffer
<1>3. /\ ReleaseGradBuffer(ZeroGrad(o)).count = o.count
      /\ "count" \in DOMAIN ReleaseGradBuffer(ZeroGrad(o))
  BY <1>1 DEF ReleaseGradBuffer
<1>4. "count" \in DOMAIN Backward(o, r, s, finite)
  BY DEF Backward
<1>5. "count" \in DOMAIN PackGrads(PrepareGradBuffer(o), r)
  BY DEF PackGrads, PrepareGradBuffer
<1>6. "count" \in DOMAIN StepShard(o)
  BY DEF StepShard
<1>7. /\ "count" \in DOMAIN [o EXCEPT !.lr = s]
      /\ "count" \in DOMAIN [AdamWStep(o) EXCEPT !.lr = s]
  BY DEF AdamWStep
<1>8. QED
  BY <1>1, <1>2, <1>3, <1>4, <1>5, <1>6, <1>7

\* What the operations of the runtime do to the cache.
LEMMA SessionOps ==
  ASSUME NEW s, {"mapped", "cached"} \subseteq DOMAIN s, NEW version,
         ~ UseVMM => s.mapped
  PROVE  /\ s.cached = {} => /\ Generate(Prepare(s), version).mapped
                             /\ Generate(Prepare(s), version).cached = {version}
         /\ Generate(Prepare(RefreshFromModel(s)), version).mapped
         /\ Generate(Prepare(RefreshFromModel(s)), version).cached = {version}
         /\ RefreshFromModel(s).cached = {} /\ RefreshFromModel(s).mapped = s.mapped
         /\ Release(s).cached = {} /\ (~ UseVMM => Release(s).mapped)
         /\ {"mapped", "cached"} \subseteq DOMAIN Generate(Prepare(s), version)
         /\ {"mapped", "cached"} \subseteq DOMAIN Generate(Prepare(RefreshFromModel(s)), version)
         /\ {"mapped", "cached"} \subseteq DOMAIN RefreshFromModel(s)
         /\ {"mapped", "cached"} \subseteq DOMAIN Release(s)
BY DEF Generate, Prepare, RefreshFromModel, Release, FlushCache, UnmapPhysical

\* What the invariant says of one rank.
FreshAt(p, o, s) ==
  /\ "count" \in DOMAIN o /\ {"mapped", "cached"} \subseteq DOMAIN s
  /\ p \in Generated => s.mapped /\ s.cached = {o.count}
  /\ p \notin Generated \cup Gone => s.cached = {}
  /\ s.cached # {} => s.mapped
  /\ ~ UseVMM => s.mapped

LEMMA FreshEverywhere ==
  /\ KVInv <=> /\ Functions /\ opt = [r \in Rank |-> opt[r]] /\ session = [r \in Rank |-> session[r]]
               /\ \A r \in Rank : FreshAt(pc[r], opt[r], session[r])
  /\ KVInv' <=> /\ Functions' /\ opt' = [r \in Rank |-> opt'[r]] /\ session' = [r \in Rank |-> session'[r]]
                /\ \A r \in Rank : FreshAt(pc'[r], opt'[r], session'[r])
BY DEF KVInv, Shapes, FreshKV, FreshAt

\* A step of r alone need only keep it for r.
LEMMA OneRank ==
  ASSUME KVInv, Functions', NEW r \in Rank, NEW p, NEW o, NEW s,
         pc' = [pc EXCEPT ![r] = p], opt' = [opt EXCEPT ![r] = o],
         session' = [session EXCEPT ![r] = s], FreshAt(p, o, s)
  PROVE  KVInv'
<1>1. /\ Functions /\ opt = [q \in Rank |-> opt[q]] /\ session = [q \in Rank |-> session[q]]
      /\ \A q \in Rank : FreshAt(pc[q], opt[q], session[q])
  BY FreshEverywhere
<1>2. /\ opt' = [q \in Rank |-> opt'[q]] /\ session' = [q \in Rank |-> session'[q]]
      /\ pc'[r] = p /\ opt'[r] = o /\ session'[r] = s
      /\ \A q \in Rank \ {r} : pc'[q] = pc[q] /\ opt'[q] = opt[q] /\ session'[q] = session[q]
  BY <1>1 DEF Functions
<1>3. \A q \in Rank : FreshAt(pc'[q], opt'[q], session'[q])
  BY <1>1, <1>2
<1>4. QED
  BY <1>2, <1>3, FreshEverywhere

\* Steps that change what the rank has cached, or its optimizer.
LEMMA RunFresh ==
  ASSUME KVInv, Functions', NEW r \in Rank, Run(r)
  PROVE  KVInv'
<1> DEFINE o == opt[r]
           s == session[r]
<1>1. /\ FreshAt(pc[r], o, s)
      /\ opt = [opt EXCEPT ![r] = o] /\ session = [session EXCEPT ![r] = s]
  BY FreshEverywhere DEF KVInv, Shapes
<1> USE DEF Go, Stay, Rest, share, Generated, Gone
<1>2. CASE LoadStudent(r) \/ Batches(r) \/ Cleanup(r)
  <2>1. opt' = opt /\ session' = session
    BY <1>2 DEF LoadStudent, Batches, Cleanup
  <2>2. CASE LoadStudent(r) \/ Batches(r)
    <3>1. PICK p \in {"ddp_init", "build", "batches_max"} : pc' = [pc EXCEPT ![r] = p]
      BY <2>2 DEF LoadStudent, Batches
    <3>2. FreshAt(p, o, s)
      BY <1>1, <2>2, <3>1 DEF LoadStudent, Batches, FreshAt
    <3>3. QED
      BY <1>1, <2>1, <3>1, <3>2, OneRank
  <2>3. CASE Cleanup(r)
    <3>1. FreshAt("exited", o, s)
      BY <1>1 DEF FreshAt
    <3>2. QED
      <4>1. pc' = [pc EXCEPT ![r] = "exited"]
        BY <2>3 DEF Cleanup
      <4>2. QED
        BY <1>1, <2>1, <3>1, <4>1, OneRank
  <2>4. QED
    BY <1>2, <2>2, <2>3
<1>3. CASE BuildAndShard(r)
  <2>1. FreshAt("shard_min", ReleaseGradBuffer(o), s)
    BY <1>1, <1>3, CountKept DEF BuildAndShard, FreshAt
  <2>2. QED
    BY <1>1, <1>3, <2>1, OneRank DEF BuildAndShard
<1>4. CASE Eval(r)
  <2>1. PICK o1 \in {o, ZeroGrad(o)}, s1 \in {s, RefreshFromModel(s)} :
          /\ opt' = [opt EXCEPT ![r] = o1]
          /\ session' = [session EXCEPT ![r] = Generate(Prepare(s1), o.count)]
    BY <1>4 DEF Eval
  <2>2. "count" \in DOMAIN o /\ {"mapped", "cached"} \subseteq DOMAIN s
        /\ s.cached = {} /\ (~ UseVMM => s.mapped)
    BY <1>1, <1>4 DEF Eval, FreshAt
  <2>3. "count" \in DOMAIN o1 /\ o1.count = o.count
    BY <2>1, <2>2, CountKept
  <2> DEFINE g == Generate(Prepare(s1), o.count)
  <2>4. g.mapped /\ g.cached = {o.count} /\ {"mapped", "cached"} \subseteq DOMAIN g
    BY <2>1, <2>2, SessionOps
  <2> HIDE DEF g
  <2>5. FreshAt("eval_reduce", o1, g)
    BY <2>3, <2>4 DEF FreshAt
  <2>6. QED
    BY <1>4, <2>1, <2>5, OneRank DEF Eval, g
<1>5. CASE Rollout(r)
  <2>1. PICK o1 \in {ZeroGrad(o), ReleaseGradBuffer(ZeroGrad(o))} : opt' = [opt EXCEPT ![r] = o1]
    BY <1>5 DEF Rollout
  <2>2. "count" \in DOMAIN o /\ {"mapped", "cached"} \subseteq DOMAIN s
        /\ s.cached = {} /\ (~ UseVMM => s.mapped)
    BY <1>1, <1>5 DEF Rollout, FreshAt
  <2>3. "count" \in DOMAIN o1 /\ o1.count = o.count
    BY <2>1, <2>2, CountKept
  <2> DEFINE g == Generate(Prepare(s), o.count)
  <2>4. g.mapped /\ g.cached = {o.count} /\ {"mapped", "cached"} \subseteq DOMAIN g
    BY <2>2, SessionOps
  <2> HIDE DEF g
  <2>5. FreshAt("rollout_barrier", o1, g)
    BY <2>3, <2>4 DEF FreshAt
  <2>6. QED
    BY <1>5, <2>1, <2>5, OneRank DEF Rollout, g
<1>6. CASE EvalEnd(r)
  <2> DEFINE p == AfterEval(step[r], phase[r], steps[r]).pc
  <2>1. p \in {"rollout", "eval", "finish", "final_barrier"}
    BY Onwards
  <2>2. pc' = [pc EXCEPT ![r] = p]
    BY <1>6 DEF EvalEnd, MoveOn
  <2> HIDE DEF p
  <2>3. FreshAt(p, o, Release(s))
    BY <1>1, <2>1, SessionOps DEF FreshAt
  <2>4. QED
    BY <1>1, <1>6, <2>2, <2>3, OneRank DEF EvalEnd
<1>7. CASE Loss(r)
  <2>1. PICK p \in {"bad_check", "grad_reduce"}, finite \in BOOLEAN :
          /\ pc' = [pc EXCEPT ![r] = p]
          /\ opt' = [opt EXCEPT ![r] = Backward(@, r, step[r], finite)]
    BY <1>7 DEF Loss
  <2>2. FreshAt(p, Backward(o, r, step[r], finite), Release(s))
    BY <1>1, <2>1, CountKept, SessionOps DEF FreshAt
  <2>3. QED
    BY <1>7, <2>1, <2>2, OneRank DEF Loss
<1>8. CASE Skip(r)
  <2>1. FreshAt("train_barrier", ZeroGrad(o), s)
    BY <1>1, <1>8, CountKept DEF Skip, FreshAt
  <2>2. QED
    BY <1>1, <1>8, <2>1, OneRank DEF Skip
<1>9. CASE ApplySharded(r)
  <2>1. FreshAt("reduce_scatter", PackGrads(PrepareGradBuffer(o), r), s)
    BY <1>1, <1>9, CountKept DEF ApplySharded, FreshAt
  <2>2. QED
    BY <1>1, <1>9, <2>1, OneRank DEF ApplySharded
<1>10. CASE Optimize(r)
  <2>1. FreshAt("all_gather", StepShard(o), s)
    BY <1>1, <1>10, CountKept DEF Optimize, FreshAt
  <2>2. QED
    BY <1>1, <1>10, <2>1, OneRank DEF Optimize
<1>11. CASE Refresh(r)
  <2>1. FreshAt("refresh_barrier", [o EXCEPT !.lr = step[r]], RefreshFromModel(s))
    BY <1>1, <1>11, CountKept, SessionOps DEF Refresh, FreshAt
  <2>2. QED
    BY <1>11, <2>1, OneRank DEF Refresh
<1>12. CASE ApplyWhole(r)
  <2>1. FreshAt("refresh_barrier", [AdamWStep(o) EXCEPT !.lr = step[r]], RefreshFromModel(s))
    BY <1>1, <1>12, CountKept, SessionOps DEF ApplyWhole, FreshAt
  <2>2. QED
    BY <1>12, <2>1, OneRank DEF ApplyWhole
<1>13. CASE SaveBegin(r) \/ SaveEnd(r) \/ NoSave(r)
  <2> DEFINE p == IF SaveBegin(r) THEN "saving" ELSE AfterSave(step[r], phase[r], steps[r]).pc
  <2>1. p \in {"saving", "rollout", "eval", "finish", "final_barrier"}
    BY Onwards
  <2>2. pc' = [pc EXCEPT ![r] = p]
    BY <1>13 DEF SaveBegin, SaveEnd, NoSave, MoveOn
  <2>3. opt' = opt /\ session' = session /\ pc[r] \in {"end_step", "finish", "saving"}
    BY <1>13 DEF SaveBegin, SaveEnd, NoSave
  <2> HIDE DEF p
  <2>4. FreshAt(p, o, s)
    BY <1>1, <2>1, <2>3 DEF FreshAt
  <2>5. QED
    BY <1>1, <2>2, <2>3, <2>4, OneRank
<1>14. QED
  BY <1>2, <1>3, <1>4, <1>5, <1>6, <1>7, <1>8, <1>9, <1>10, <1>11, <1>12, <1>13 DEF Run

\* A collective changes no cache, and the optimizers only where no rank
\* has anything cached.
LEMMA CollectiveFresh ==
  ASSUME KVInv, Functions', Collective
  PROVE  KVInv'
<1>1. /\ opt = [r \in Rank |-> opt[r]] /\ session = [r \in Rank |-> session[r]]
      /\ \A r \in Rank : FreshAt(pc[r], opt[r], session[r])
  BY FreshEverywhere
<1>2. session' = session
  BY DEF Collective, ShardMin, BatchesMax, GradReduce, BadCheck, ReduceScatterAll, AllGatherAll,
         Barrier, Rest, share
<1>3. CASE Barrier
  <2>1. opt' = opt
    BY <1>3 DEF Barrier, share
  <2>2. ASSUME NEW r \in Rank
        PROVE  \/ pc[r] \in Generated /\ pc'[r] \in Generated
               \/ pc[r] \notin Generated \cup Gone /\ pc'[r] \notin Generated
    BY <1>3, <2>2 DEF Barrier, Complete, Generated, Gone
  <2>3. \A r \in Rank : FreshAt(pc'[r], opt'[r], session'[r])
    BY <1>1, <1>2, <2>1, <2>2 DEF FreshAt
  <2>4. QED
    BY <1>1, <1>2, <2>1, <2>3, FreshEverywhere
<1>4. CASE ShardMin \/ BatchesMax \/ GradReduce \/ BadCheck \/ ReduceScatterAll \/ AllGatherAll
  <2>1. /\ opt' = [r \in Rank |-> opt'[r]]
        /\ \A r \in Rank : "count" \in DOMAIN opt'[r]
    <3>1. \A r \in Rank : "count" \in DOMAIN opt[r]
      BY <1>1 DEF FreshAt
    <3>2. CASE ShardMin \/ BatchesMax \/ BadCheck
      BY <1>1, <3>1, <3>2 DEF ShardMin, BatchesMax, BadCheck, share
    <3>3. CASE GradReduce
      BY <3>1, <3>3 DEF GradReduce, AllReduceGrads
    <3>4. CASE ReduceScatterAll
      BY <3>1, <3>4 DEF ReduceScatterAll, ReduceScatter
    <3>5. CASE AllGatherAll
      BY <3>1, <3>5 DEF AllGatherAll, AllGather
    <3>6. QED
      BY <1>4, <3>2, <3>3, <3>4, <3>5
  <2>2. ASSUME NEW r \in Rank
        PROVE  pc[r] \notin Generated \cup Gone /\ pc'[r] \notin Generated
    <3>1. CASE BatchesMax
      <4>1. pc'[r] \in {"rollout", "finish", "eval"}
        BY <3>1 DEF BatchesMax, Complete, Onward
      <4>2. QED
        BY <3>1, <4>1 DEF BatchesMax, Complete, Generated, Gone
    <3>2. CASE ShardMin \/ GradReduce \/ BadCheck \/ ReduceScatterAll \/ AllGatherAll
      BY <3>2 DEF ShardMin, GradReduce, BadCheck, ReduceScatterAll, AllGatherAll,
                  Complete, Generated, Gone
    <3>3. QED
      BY <1>4, <3>1, <3>2
  <2>3. \A r \in Rank : FreshAt(pc'[r], opt'[r], session'[r])
    BY <1>1, <1>2, <2>1, <2>2 DEF FreshAt
  <2>4. QED
    BY <1>1, <1>2, <2>1, <2>3, FreshEverywhere
<1>5. QED
  BY <1>3, <1>4 DEF Collective

LEMMA NextFresh ==
  ASSUME Lockstep, KVInv, [Next]_vars
  PROVE  KVInv'
<1>1. Functions'
  BY NextLockstep DEF Lockstep
<1>2. ASSUME NEW r \in Rank, RankStep(r), Run(r)
      PROVE  KVInv'
  BY <1>1, <1>2, RunFresh
<1>3. ASSUME NEW r \in Rank, Start(r) \/ Fail(r) \/ Interrupted(r) \/ Killed(r)
      PROVE  KVInv'
  <2>1. opt' = opt /\ session' = session
    BY <1>3 DEF Start, Fail, Interrupted, Killed, Rest, share
  <2>2. PICK p \in {"init", "cleanup", "exited"} :
          pc' = [pc EXCEPT ![r] = p] /\ (p = "init" => pc[r] = "start")
    BY <1>3 DEF Start, Fail, Interrupted, Killed, Go
  <2>3. /\ FreshAt(pc[r], opt[r], session[r])
        /\ opt = [opt EXCEPT ![r] = opt[r]] /\ session = [session EXCEPT ![r] = session[r]]
    BY FreshEverywhere DEF KVInv, Shapes
  <2>4. FreshAt(p, opt[r], session[r])
    BY <2>2, <2>3 DEF FreshAt, Generated, Gone
  <2>5. QED
    BY <1>1, <2>1, <2>2, <2>3, <2>4, OneRank
<1>4. CASE CollectiveStep
  BY <1>1, <1>4, CollectiveFresh DEF CollectiveStep
<1>5. CASE UNCHANGED trainingVars
  BY <1>1, <1>5 DEF KVInv, Shapes, FreshKV, trainingVars, control
<1>6. QED
  BY <1>2, <1>3, <1>4, <1>5
  DEF Next, StartRank, RankStep, RankFails, AgentKills, AgentSucceeds, AgentStops, AgentFails,
      LauncherStep, Ended, vars

\* Whatever a rollout or an evaluation could match in the prefix cache was
\* computed with the weights of that rollout, and nothing stays cached in
\* memory given back, for every number of ranks and of updates.
THEOREM KVIsFresh == Spec => []NoStaleKV
<1>1. Init => Lockstep /\ KVInv
  <2> SUFFICES ASSUME Init PROVE Lockstep /\ KVInv
    OBVIOUS
  <2>1. Lockstep
    BY InitLockstep
  <2>2. Shapes
    BY DEF Init, TrainingInit, Shapes, NewOptimizer, NewSession
  <2>3. FreshKV
    BY DEF Init, TrainingInit, FreshKV, NewSession, Generated
  <2>4. QED
    BY <2>1, <2>2, <2>3 DEF KVInv, Lockstep
<1>2. Lockstep /\ KVInv /\ [Next]_vars => (Lockstep /\ KVInv)'
  BY NextLockstep, NextFresh
<1>3. KVInv => NoStaleKV
  BY DEF KVInv, FreshKV, NoStaleKV, Generated
<1>4. QED
  BY <1>1, <1>2, <1>3, PTL DEF Spec
=============================================================================
