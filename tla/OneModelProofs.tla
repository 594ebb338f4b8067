----------------------------- MODULE OneModelProofs -----------------------------
(***************************************************************************)
(* That the ranks together train one model, which everybody who reads the  *)
(* parameters reads, and that the job implements DataParallel: for every   *)
(* model, number of ranks and length of the job.                           *)
(***************************************************************************)
EXTENDS TrainJobProofs, Zero2Proofs

-----------------------------------------------------------------------------
(***************************************************************************)
(* Counters                                                                *)
(***************************************************************************)
\* Places before the ranks have agreed on the number of steps.
EarlyPlaces == {"start", "init", "load", "ddp_init", "build", "shard_min", "batches", "batches_max"}

Phases == {"before", "loop", "after"}

\* What the invariant says of one rank.
CountsAt(p, s, when, have, n, exit) ==
  /\ p \in AllPlaces /\ s \in 0..MaxSteps /\ when \in Phases
  /\ have \in Nat /\ n \in Nat /\ exit \in {0, 1, 137, 143}
  /\ p \in EarlyPlaces => s = 0
  /\ p \notin EarlyPlaces \cup Gone => n <= MaxSteps

LauncherPlaces ==
  /\ lpc \in {"spawn", "assign", "wait", "clean", "term_wait", "done"}
  /\ agent \in {"none", "running", "stopping", "succeeded", "failed", "killed"}

Arrays ==
  /\ pc = [r \in Rank |-> pc[r]] /\ step = [r \in Rank |-> step[r]]
  /\ phase = [r \in Rank |-> phase[r]] /\ examples = [r \in Rank |-> examples[r]]
  /\ steps = [r \in Rank |-> steps[r]] /\ code = [r \in Rank |-> code[r]]

Counted ==
  /\ LauncherPlaces
  /\ Arrays
  /\ \A r \in Rank : CountsAt(pc[r], step[r], phase[r], examples[r], steps[r], code[r])

LEMMA CountedType == Counted => TypeOK
BY DEF Counted, LauncherPlaces, Arrays, CountsAt, TypeOK, AllPlaces, Phases

LEMMA LoopConstants ==
  /\ NumTrain \in Nat /\ BatchSize \in Nat \ {0} /\ NumEpochs \in Nat \ {0}
  /\ MaxSteps \in Nat \ {0} /\ WorldSize \in Nat /\ WorldSize > 1
  /\ Rank = 0..WorldSize - 1 /\ 0 \in Rank
<1>1. WorldSize \in Nat /\ WorldSize > 1 /\ Rank = 0..WorldSize - 1
  BY WorldAssumption DEF Rank
<1>2. 0 \in Rank
  BY <1>1
<1>3. NumTrain \in Nat /\ {BatchSize, NumEpochs, MaxSteps} \subseteq Nat \ {0}
  BY LoopAssumption
<1>4. QED
  BY <1>1, <1>2, <1>3

\* The numbers of the ranks have a least and a greatest one.
LEMMA OverRanks ==
  ASSUME NEW f, \A r \in Rank : f[r] \in Nat
  PROVE  /\ Min({f[r] : r \in Rank}) \in Nat
         /\ Max({f[r] : r \in Rank}) \in Nat
<1> DEFINE S == {f[r] : r \in Rank}
<1>1. S \in SUBSET Nat /\ f[0] \in S
  BY LoopConstants
<1>2. \E b \in Nat : \A r \in Rank : f[r] <= b
  <2> DEFINE K == {k \in Nat : \E b \in Nat : \A r \in Rank : r < k => f[r] <= b}
  <2>1. 0 \in K
    BY LoopConstants
  <2>2. ASSUME NEW k \in Nat, k \in K
        PROVE  k + 1 \in K
    <3>1. PICK b \in Nat : \A r \in Rank : r < k => f[r] <= b
      BY <2>2
    <3>2. CASE k \in Rank
      <4> DEFINE c == IF f[k] <= b THEN b ELSE f[k]
      <4>1. c \in Nat /\ b <= c /\ f[k] <= c
        BY <3>2
      <4> HIDE DEF c
      <4>2. ASSUME NEW r \in Rank, r < k + 1
            PROVE  f[r] <= c
        <5>1. CASE r = k
          BY <4>1, <5>1
        <5>2. CASE r # k
          <6>1. r < k
            BY <4>2, <5>2, LoopConstants
          <6>2. f[r] <= b /\ f[r] \in Nat
            BY <3>1, <6>1
          <6>3. QED
            BY <4>1, <6>2
        <5>3. QED
          BY <5>1, <5>2
      <4>3. QED
        BY <4>1, <4>2
    <3>3. CASE k \notin Rank
      <4>1. \A r \in Rank : r < k + 1 => r < k
        BY <3>3, LoopConstants
      <4>2. QED
        BY <3>1, <4>1
    <3>4. QED
      BY <3>2, <3>3
  <2> HIDE DEF K
  <2>3. WorldSize \in K
    BY <2>1, <2>2, SetInduction, LoopConstants
  <2>4. \A r \in Rank : r < WorldSize
    BY LoopConstants
  <2>5. \E b \in Nat : \A r \in Rank : r < WorldSize => f[r] <= b
    BY <2>3 DEF K
  <2>6. QED
    BY <2>4, <2>5
<1> HIDE DEF S
<1>3. \E n \in S : \A m \in S : n <= m
  BY <1>1, LeastNumber
<1>4. \E n \in S : \A m \in S : m <= n
  <2>1. PICK b \in Nat : \A r \in Rank : f[r] <= b
    BY <1>2
  <2>2. \A n \in S : n <= b
    BY <2>1 DEF S
  <2>3. QED
    BY <1>1, <2>1, <2>2, GreatestNumber
<1>5. Min(S) \in S
  BY <1>3 DEF Min
<1>6. Max(S) \in S
  <2>1. \E n \in S : \A m \in S : n >= m
    BY <1>1, <1>4
  <2>2. QED
    BY <2>1 DEF Max
<1>7. QED
  BY <1>1, <1>5, <1>6 DEF S

LEMMA StepsBound ==
  ASSUME NEW b \in Nat
  PROVE  TotalSteps(b) \in Nat /\ TotalSteps(b) <= MaxSteps
<1>1. MaxSteps \in Nat /\ b * NumEpochs \in Nat
  BY LoopConstants
<1> DEFINE S == {MaxSteps, b * NumEpochs}
<1>2. \E x \in S : \A y \in S : x <= y
  BY <1>1
<1>3. Min(S) \in S /\ \A y \in S : Min(S) <= y
  BY <1>2 DEF Min
<1>4. QED
  BY <1>1, <1>3 DEF TotalSteps

LEMMA BatchesNat ==
  ASSUME NEW n \in Nat
  PROVE  LocalBatches(n, BatchSize) \in Nat
<1>1. (n + BatchSize - 1) \div BatchSize \in Int
  BY LoopConstants
<1> DEFINE k == (n + BatchSize - 1) \div BatchSize
           S == {k, 1}
<1>2. k \in Int
  BY <1>1
<1> HIDE DEF k
<1>3. \E x \in S : \A y \in S : x >= y
  BY <1>2
<1>4. Max(S) \in S /\ Max(S) >= 1
  BY <1>2, <1>3 DEF Max
<1>5. Max(S) \in Nat
  BY <1>2, <1>4
<1>6. QED
  BY <1>5 DEF LocalBatches, k

LEMMA ShareNat ==
  ASSUME NEW r \in Rank
  PROVE  Len(Strided([i \in 1..NumTrain |-> i], r, WorldSize)) \in Nat
<1> DEFINE a == NumTrain - r + WorldSize - 1
           s == [i \in 1..NumTrain |-> i]
           k == (Len(s) - r + WorldSize - 1) \div WorldSize
<1>1. Len(s) = NumTrain
  BY LoopConstants
<1>2. a \in Nat /\ k = a \div WorldSize
  BY <1>1, LoopConstants
<1>3. a \div WorldSize \in Nat
  <2> HIDE DEF a
  <2>1. QED
    BY <1>2, LoopConstants
<1> HIDE DEF s
<1>4. Strided(s, r, WorldSize) = [j \in 1..k |-> s[r + (j - 1) * WorldSize + 1]]
  BY DEF Strided
<1> HIDE DEF k
<1>5. Len(Strided(s, r, WorldSize)) = k
  BY <1>2, <1>3, <1>4
<1>6. QED
  BY <1>2, <1>3, <1>5 DEF s

(***************************************************************************)
(* Every step keeps the counters                                           *)
(***************************************************************************)
\* Where the loop leads.
LEMMA OnwardCounts ==
  ASSUME NEW p, NEW s, NEW when, NEW have, NEW n, NEW exit,
         CountsAt(p, s, when, have, n, exit), p \notin EarlyPlaces \cup Gone,
         NEW to, to = Onward(s, n) \/ to = AfterEval(s, when, n) \/ to = AfterSave(s, when, n)
  PROVE  CountsAt(to.pc, to.step, to.phase, have, n, exit)
<1>1. s \in 0..MaxSteps /\ n \in Nat /\ n <= MaxSteps /\ MaxSteps \in Nat /\ when \in Phases
  BY LoopConstants DEF CountsAt
<1>2. LET on == Onward(s, n)
      IN on.pc \in {"rollout", "finish", "eval"} /\ on.step \in 0..MaxSteps /\ on.phase \in Phases
  BY <1>1 DEF Onward, Phases
<1>3. to.pc \in {"rollout", "finish", "eval", "final_barrier"} /\ to.step \in 0..MaxSteps /\ to.phase \in Phases
  BY <1>1, <1>2 DEF AfterEval, AfterSave, Phases
<1>4. QED
  BY <1>1, <1>3 DEF CountsAt, AllPlaces, Collectives, Segments, EarlyPlaces, Gone

LEMMA SameAt ==
  ASSUME Arrays, NEW r \in Rank
  PROVE  /\ pc = [pc EXCEPT ![r] = pc[r]]
         /\ step = [step EXCEPT ![r] = step[r]] /\ phase = [phase EXCEPT ![r] = phase[r]]
         /\ examples = [examples EXCEPT ![r] = examples[r]] /\ steps = [steps EXCEPT ![r] = steps[r]]
         /\ code = [code EXCEPT ![r] = code[r]]
<1>1. pc = [pc EXCEPT ![r] = pc[r]]
  BY DEF Arrays
<1>2. step = [step EXCEPT ![r] = step[r]]
  BY DEF Arrays
<1>3. phase = [phase EXCEPT ![r] = phase[r]]
  BY DEF Arrays
<1>4. examples = [examples EXCEPT ![r] = examples[r]]
  BY DEF Arrays
<1>5. steps = [steps EXCEPT ![r] = steps[r]]
  BY DEF Arrays
<1>6. code = [code EXCEPT ![r] = code[r]]
  BY DEF Arrays
<1>7. QED
  BY <1>1, <1>2, <1>3, <1>4, <1>5, <1>6

LEMMA OneRankCounts ==
  ASSUME Counted, NEW r \in Rank, NEW p, NEW s, NEW when, NEW have, NEW n, NEW exit,
         UNCHANGED <<lpc, agent>>,
         pc' = [pc EXCEPT ![r] = p], step' = [step EXCEPT ![r] = s], phase' = [phase EXCEPT ![r] = when],
         examples' = [examples EXCEPT ![r] = have], steps' = [steps EXCEPT ![r] = n],
         code' = [code EXCEPT ![r] = exit],
         CountsAt(p, s, when, have, n, exit)
  PROVE  Counted'
<1>1. LauncherPlaces'
  BY DEF Counted, LauncherPlaces
<1>2. Arrays'
  BY DEF Counted, Arrays
<1>3. ASSUME NEW q \in Rank
      PROVE  CountsAt(pc'[q], step'[q], phase'[q], examples'[q], steps'[q], code'[q])
  BY DEF Counted, Arrays
<1>4. QED
  BY <1>1, <1>2, <1>3 DEF Counted

\* A step that moves one rank only.
LEMMA PlaceCounts ==
  ASSUME Counted, NEW r \in Rank, NEW p, UNCHANGED <<lpc, agent, step, phase, examples, steps>>,
         pc' = [pc EXCEPT ![r] = p], p \in AllPlaces,
         code' = [q \in Rank |-> code'[q]], \A q \in Rank : code'[q] \in {0, 1, 137, 143},
         p \in EarlyPlaces => pc[r] \in EarlyPlaces,
         p \in Gone \/ p \in EarlyPlaces \/ pc[r] \notin EarlyPlaces \cup Gone
  PROVE  Counted'
<1>1. LauncherPlaces' /\ Arrays'
  BY DEF Counted, LauncherPlaces, Arrays
<1>2. ASSUME NEW q \in Rank
      PROVE  CountsAt(pc'[q], step'[q], phase'[q], examples'[q], steps'[q], code'[q])
  <2>1. CountsAt(pc[q], step[q], phase[q], examples[q], steps[q], code[q])
    BY DEF Counted
  <2>2. pc'[q] = IF q = r THEN p ELSE pc[q]
    BY DEF Counted, Arrays
  <2>3. CountsAt(pc'[q], step[q], phase[q], examples[q], steps[q], code'[q])
    BY <2>1, <2>2 DEF CountsAt
  <2>4. QED
    BY <2>3
<1>3. QED
  BY <1>1, <1>2 DEF Counted

LEMMA RankCounts ==
  ASSUME Counted, NEW r \in Rank, Run(r) \/ Start(r) \/ Fail(r) \/ Interrupted(r) \/ Killed(r),
         UNCHANGED <<lpc, agent>>
  PROVE  Counted'
<1> USE DEF Go, Stay, Rest, share
<1>1. /\ CountsAt(pc[r], step[r], phase[r], examples[r], steps[r], code[r])
      /\ step = [step EXCEPT ![r] = step[r]] /\ phase = [phase EXCEPT ![r] = phase[r]]
      /\ examples = [examples EXCEPT ![r] = examples[r]] /\ steps = [steps EXCEPT ![r] = steps[r]]
      /\ code = [code EXCEPT ![r] = code[r]]
  BY SameAt DEF Counted
<1>2. CASE BuildAndShard(r)
  <2> DEFINE k == Len(Strided([i \in 1..NumTrain |-> i], r, WorldSize))
  <2>1. k \in Nat
    BY ShareNat
  <2>2. pc[r] = "build" /\ pc' = [pc EXCEPT ![r] = "shard_min"] /\ examples' = [examples EXCEPT ![r] = k]
        /\ UNCHANGED <<step, phase, steps, code>>
    BY <1>2 DEF BuildAndShard
  <2> HIDE DEF k
  <2>3. CountsAt("shard_min", step[r], phase[r], k, steps[r], code[r])
    BY <1>1, <2>1, <2>2 DEF CountsAt, AllPlaces, Collectives, EarlyPlaces
  <2>4. step' = [step EXCEPT ![r] = step[r]] /\ phase' = [phase EXCEPT ![r] = phase[r]] /\ steps' = [steps EXCEPT ![r] = steps[r]] /\ code' = [code EXCEPT ![r] = code[r]] 
    BY <1>1, <2>2
  <2>5. pc' = [pc EXCEPT ![r] = "shard_min"] /\ examples' = [examples EXCEPT ![r] = k]
    BY <2>2
  <2>6. QED
    BY <2>3, <2>4, <2>5, OneRankCounts
<1>3. CASE Batches(r)
  <2> DEFINE k == LocalBatches(examples[r], BatchSize)
  <2>1. k \in Nat
    BY <1>1, BatchesNat DEF CountsAt
  <2>2. pc[r] = "batches" /\ pc' = [pc EXCEPT ![r] = "batches_max"] /\ steps' = [steps EXCEPT ![r] = k]
        /\ UNCHANGED <<step, phase, examples, code>>
    BY <1>3 DEF Batches
  <2> HIDE DEF k
  <2>3. CountsAt("batches_max", step[r], phase[r], examples[r], k, code[r])
    BY <1>1, <2>1, <2>2 DEF CountsAt, AllPlaces, Collectives, EarlyPlaces
  <2>4. step' = [step EXCEPT ![r] = step[r]] /\ phase' = [phase EXCEPT ![r] = phase[r]] /\ examples' = [examples EXCEPT ![r] = examples[r]] /\ code' = [code EXCEPT ![r] = code[r]] 
    BY <1>1, <2>2
  <2>5. pc' = [pc EXCEPT ![r] = "batches_max"] /\ steps' = [steps EXCEPT ![r] = k]
    BY <2>2
  <2>6. QED
    BY <2>3, <2>4, <2>5, OneRankCounts
<1>4. ASSUME NEW to, to = AfterEval(step[r], phase[r], steps[r]) \/ to = AfterSave(step[r], phase[r], steps[r]),
             MoveOn(r, to), pc[r] \notin EarlyPlaces \cup Gone, UNCHANGED <<examples, steps, code>>
      PROVE  Counted'
  <2>1. CountsAt(to.pc, to.step, to.phase, examples[r], steps[r], code[r])
    BY <1>1, <1>4, OnwardCounts
  <2>2. /\ pc' = [pc EXCEPT ![r] = to.pc] /\ step' = [step EXCEPT ![r] = to.step]
        /\ phase' = [phase EXCEPT ![r] = to.phase]
    BY <1>4 DEF MoveOn
  <2>3. /\ examples' = [examples EXCEPT ![r] = examples[r]] /\ steps' = [steps EXCEPT ![r] = steps[r]]
        /\ code' = [code EXCEPT ![r] = code[r]]
    BY <1>1, <1>4
  <2>4. QED
    BY <2>1, <2>2, <2>3, OneRankCounts
<1>5. CASE EvalEnd(r)
  BY <1>4, <1>5 DEF EvalEnd, EarlyPlaces, Gone
<1>6. CASE SaveEnd(r) \/ NoSave(r)
  BY <1>4, <1>6 DEF SaveEnd, NoSave, EarlyPlaces, Gone
<1>7. CASE \/ LoadStudent(r) \/ Eval(r) \/ Rollout(r) \/ Loss(r) \/ Skip(r)
           \/ ApplySharded(r) \/ Optimize(r) \/ Refresh(r) \/ ApplyWhole(r)
           \/ SaveBegin(r) \/ Cleanup(r) \/ Start(r) \/ Fail(r) \/ Interrupted(r) \/ Killed(r)
  <2>1. UNCHANGED <<step, phase, examples, steps>>
    BY <1>7 DEF LoadStudent, Eval, Rollout, Loss, Skip, ApplySharded, Optimize, Refresh, ApplyWhole,
                SaveBegin, Cleanup, Start, Fail, Interrupted, Killed
  <2>2. PICK p \in AllPlaces :
          /\ pc' = [pc EXCEPT ![r] = p]
          /\ p \in EarlyPlaces => pc[r] \in EarlyPlaces
          /\ p \in Gone \/ p \in EarlyPlaces \/ pc[r] \notin EarlyPlaces \cup Gone
    <3> USE DEF AllPlaces, Collectives, Segments, Gone, EarlyPlaces
    <3>1. CASE LoadStudent(r) \/ Start(r)
      BY <3>1 DEF LoadStudent, Start
    <3>2. CASE Eval(r) \/ Rollout(r) \/ Skip(r) \/ ApplySharded(r) \/ Optimize(r) \/ Refresh(r) \/ ApplyWhole(r)
      BY <3>2 DEF Eval, Rollout, Skip, ApplySharded, Optimize, Refresh, ApplyWhole
    <3>3. CASE Loss(r)
      BY <3>3 DEF Loss
    <3>4. CASE SaveBegin(r) \/ Cleanup(r) \/ Fail(r) \/ Interrupted(r) \/ Killed(r)
      BY <3>4 DEF SaveBegin, Cleanup, Fail, Interrupted, Killed
    <3>5. QED
      BY <1>7, <3>1, <3>2, <3>3, <3>4
  <2>3. code' = code \/ \E exit \in {1, 137, 143} : code' = [code EXCEPT ![r] = exit]
    BY <1>7 DEF LoadStudent, Eval, Rollout, Loss, Skip, ApplySharded, Optimize, Refresh, ApplyWhole,
                SaveBegin, Cleanup, Start, Fail, Interrupted, Killed
  <2>4. code' = [q \in Rank |-> code'[q]] /\ \A q \in Rank : code'[q] \in {0, 1, 137, 143}
    <3>1. code = [q \in Rank |-> code[q]] /\ \A q \in Rank : code[q] \in {0, 1, 137, 143}
      BY DEF Counted, Arrays, CountsAt
    <3>2. QED
      BY <2>3, <3>1
  <2>5. QED
    BY <2>1, <2>2, <2>4, PlaceCounts
<1>8. QED
  BY <1>2, <1>3, <1>5, <1>6, <1>7 DEF Run

LEMMA CollectiveCounts ==
  ASSUME Counted, Collective, UNCHANGED <<lpc, agent>>
  PROVE  Counted'
<1> USE DEF Stay, Rest, share
<1>1. LauncherPlaces' /\ Arrays
  BY DEF Counted, LauncherPlaces
<1>2. \A r \in Rank : CountsAt(pc[r], step[r], phase[r], examples[r], steps[r], code[r])
  BY DEF Counted
<1>3. CASE ShardMin
  <2> DEFINE k == Min({examples[q] : q \in Rank})
  <2>1. k \in Nat
    BY <1>2, OverRanks DEF CountsAt
  <2>2. /\ pc' = [r \in Rank |-> "batches"] /\ examples' = [r \in Rank |-> k]
        /\ \A r \in Rank : pc[r] = "shard_min"
        /\ UNCHANGED <<step, phase, steps, code>>
    BY <1>3 DEF ShardMin, Complete
  <2> HIDE DEF k
  <2>3. Arrays'
    BY <1>1, <2>2 DEF Arrays
  <2>4. \A r \in Rank : CountsAt(pc'[r], step'[r], phase'[r], examples'[r], steps'[r], code'[r])
    BY <1>2, <2>1, <2>2 DEF CountsAt, AllPlaces, Segments, EarlyPlaces
  <2>5. QED
    BY <1>1, <2>3, <2>4 DEF Counted
<1>4. CASE BatchesMax
  <2> DEFINE n  == TotalSteps(Max({steps[q] : q \in Rank}))
             to == IF SkipEval THEN Onward(0, n) ELSE [pc |-> "eval", step |-> 0, phase |-> "before"]
  <2>1. n \in Nat /\ n <= MaxSteps
    <3>1. \A r \in Rank : steps[r] \in Nat
      BY <1>2 DEF CountsAt
    <3>2. Max({steps[q] : q \in Rank}) \in Nat
      BY <3>1, OverRanks
    <3>3. QED
      BY <3>2, StepsBound
  <2>2. /\ pc' = [r \in Rank |-> to.pc] /\ step' = [r \in Rank |-> to.step]
        /\ phase' = [r \in Rank |-> to.phase] /\ steps' = [r \in Rank |-> n]
        /\ UNCHANGED <<examples, code>>
    BY <1>4 DEF BatchesMax, Complete
  <2> HIDE DEF n
  <2>3. to.pc \in {"rollout", "finish", "eval"} /\ to.step \in 0..MaxSteps /\ to.phase \in Phases
    BY <2>1, LoopConstants DEF Onward, Phases
  <2> HIDE DEF to
  <2>4. Arrays'
    BY <1>1, <2>2 DEF Arrays
  <2>5. \A r \in Rank : CountsAt(pc'[r], step'[r], phase'[r], examples'[r], steps'[r], code'[r])
    BY <1>2, <2>1, <2>2, <2>3 DEF CountsAt, AllPlaces, Segments, EarlyPlaces
  <2>6. QED
    BY <1>1, <2>4, <2>5 DEF Counted
<1>5. ASSUME NEW f \in [Rank -> AllPlaces], pc' = f,
             \A r \in Rank : \/ pc[r] \in EarlyPlaces /\ f[r] \in EarlyPlaces
                             \/ pc[r] \notin EarlyPlaces \cup Gone /\ f[r] \notin EarlyPlaces,
             UNCHANGED <<step, phase, examples, steps, code>>
      PROVE  Counted'
  <2>1. Arrays'
    BY <1>1, <1>5 DEF Arrays
  <2>2. \A r \in Rank : CountsAt(pc'[r], step'[r], phase'[r], examples'[r], steps'[r], code'[r])
    BY <1>2, <1>5 DEF CountsAt
  <2>3. QED
    BY <1>1, <2>1, <2>2 DEF Counted
<1>6. CASE GradReduce \/ ReduceScatterAll \/ AllGatherAll
  <2>1. PICK p \in {"bad_check", "optimize", "refresh"} : pc' = [r \in Rank |-> p]
    BY <1>6 DEF GradReduce, ReduceScatterAll, AllGatherAll, Complete
  <2>2. \A r \in Rank : pc[r] \in {"grad_reduce", "reduce_scatter", "all_gather"}
    BY <1>6 DEF GradReduce, ReduceScatterAll, AllGatherAll, Complete
  <2>3. UNCHANGED <<step, phase, examples, steps, code>>
    BY <1>6 DEF GradReduce, ReduceScatterAll, AllGatherAll
  <2>4. QED
    BY <1>5, <2>1, <2>2, <2>3 DEF AllPlaces, Segments, Collectives, EarlyPlaces, Gone
<1>7. CASE BadCheck
  <2>1. PICK p \in {"skip", "apply"} : pc' = [r \in Rank |-> p]
    BY <1>7 DEF BadCheck, Complete, AnyBadGradients
  <2>2. QED
    BY <1>5, <1>7, <2>1 DEF BadCheck, Complete, AllPlaces, Segments, Collectives, EarlyPlaces, Gone
<1>8. CASE Barrier
  <2>1. PICK p \in {"load", "build", "eval_end", "loss", "end_step", "cleanup"},
             c \in {"init", "ddp_init", "eval_reduce", "rollout_barrier", "refresh_barrier", "train_barrier", "final_barrier"} :
          /\ pc' = [r \in Rank |-> p] /\ \A r \in Rank : pc[r] = c
          /\ p \in {"load", "build"} <=> c \in {"init", "ddp_init"}
    BY <1>8 DEF Barrier, Complete
  <2>2. UNCHANGED <<step, phase, examples, steps, code>>
    BY <1>8 DEF Barrier
  <2>3. QED
    BY <1>5, <2>1, <2>2 DEF AllPlaces, Segments, Gone, EarlyPlaces
<1>9. QED
  BY <1>3, <1>4, <1>6, <1>7, <1>8 DEF Collective

LEMMA InitCounted == Init => Counted
<1> SUFFICES ASSUME Init PROVE Counted
  OBVIOUS
<1>1. LauncherPlaces /\ Arrays
  BY DEF Init, TrainingInit, LauncherInit, LauncherPlaces, Arrays
<1>2. \A r \in Rank : CountsAt(pc[r], step[r], phase[r], examples[r], steps[r], code[r])
  BY LoopConstants DEF Init, TrainingInit, CountsAt, AllPlaces, Segments, Phases, EarlyPlaces
<1>3. QED
  BY <1>1, <1>2 DEF Counted

LEMMA NextCounted ==
  ASSUME Counted, [Next]_vars
  PROVE  Counted'
<1>1. ASSUME NEW r \in Rank, StartRank(r) \/ RankStep(r) \/ RankFails(r) \/ AgentKills(r)
      PROVE  Counted'
  BY <1>1, RankCounts DEF StartRank, RankStep, RankFails, AgentKills, launcherVars
<1>2. CASE CollectiveStep
  BY <1>2, CollectiveCounts DEF CollectiveStep, launcherVars
<1>3. CASE AgentSucceeds \/ AgentStops \/ AgentFails \/ LauncherStep \/ Ended \/ UNCHANGED vars
  <2>1. LauncherPlaces'
    BY <1>3 DEF Counted, LauncherPlaces, AgentSucceeds, AgentStops, AgentFails, LauncherStep, Launch, Ended, vars,
                launcherVars, Popen, Assign, WaitReturns, Signal, Terminate, TermWaitReturns, TermTimeout
  <2>2. UNCHANGED trainingVars
    BY <1>3 DEF AgentSucceeds, AgentStops, AgentFails, LauncherStep, Ended, vars
  <2>3. QED
    BY <2>1, <2>2 DEF Counted, Arrays, trainingVars, control, share
<1>4. QED
  BY <1>1, <1>2, <1>3 DEF Next

\* The state of the job is well formed: no counter leaves its range, for any
\* number of ranks, examples and steps.
THEOREM JobTypeOK == Spec => []TypeOK
<1>1. Counted /\ [Next]_vars => Counted'
  BY NextCounted
<1>2. QED
  BY <1>1, InitCounted, CountedType, PTL DEF Spec
-----------------------------------------------------------------------------
(***************************************************************************)
(* The stage all ranks are at: "rest", an update under ZeRO-2 ("pack" up   *)
(* to the reduce-scatter, "gather" up to the all-gather, "late" up to the  *)
(* barrier after it) or one under DDP ("split").                           *)
(***************************************************************************)
Stage(kind, p) ==
  IF kind = "zero2"
  THEN IF p \in {"apply", "reduce_scatter"} THEN "pack"
       ELSE IF p \in {"optimize", "all_gather"} THEN "gather"
       ELSE IF p \in {"refresh", "refresh_barrier"} THEN "late"
       ELSE "rest"
  ELSE IF p \in {"apply", "refresh_barrier"} THEN "split" ELSE "rest"

\* Places of a step before its update.
Undone ==
  {"rollout", "rollout_barrier", "loss", "grad_reduce", "bad_check", "apply", "reduce_scatter", "optimize", "all_gather"}

PlaceAt(kind, M, p, st) ==
  /\ kind = "zero2" => p # "grad_reduce"
  /\ kind # "zero2" => p \notin {"reduce_scatter", "optimize", "all_gather", "refresh"}
  /\ M.l <= st
  /\ p \in Undone => M.l < st

\* The gradients of step st of a rank at place p, outside an update.
GradsAt(kind, r, p, st, o) ==
  /\ p = "grad_reduce" \/ (kind = "zero2" /\ p = "bad_check") => \E bad \in {0, -1} : HasGrads(o, OwnGrads(r, st, bad))
  /\ kind # "zero2" /\ p = "bad_check" => \E bad \in [Rank -> {0, -1}] : HasGrads(o, SumGrads(st, bad))

OptAt(kind, M, stage, s, r, p, st, o) ==
  /\ stage = "rest" => Rests(kind, M, r, o) /\ GradsAt(kind, r, p, st, o)
  /\ stage = "pack" =>
       \/ p # "reduce_scatter" /\ Rests(kind, M, r, o) /\ (p = "apply" => HasGrads(o, OwnGrads(r, s, 0)))
       \/ p # "apply" /\ Packed(M, r, s, o)
  /\ stage = "gather" => (p # "all_gather" /\ Ready(M, r, s, o)) \/ (p # "optimize" /\ Stepped(M, r, s, o))
  /\ stage = "late" => Holds(kind, M, r, o) /\ (p = "refresh_barrier" => o.lr = M.l)
  /\ stage = "split" =>
       \/ p # "refresh_barrier" /\ Rests(kind, M, r, o) /\ (p = "apply" => HasGrads(o, AllGrads(s)))
       \/ p # "apply" /\ Rests(kind, Updated(M, s), r, o)

RankAt(kind, M, stage, s, r, p, st, o) ==
  /\ p \notin Gone => Stage(kind, p) = stage /\ PlaceAt(kind, M, p, st)
  /\ stage # "rest" => st = s
  /\ OptAt(kind, M, stage, s, r, p, st, o)

StageAt(kind, M, stage, s) ==
  /\ GoodModel(M)
  /\ s \in Nat
  /\ stage \in IF kind = "zero2" THEN {"rest", "pack", "gather", "late"} ELSE {"rest", "split"}
  /\ stage \in {"pack", "gather", "split"} => M.l < s
  /\ stage = "late" => M.l = s

OneModelAt(M, stage, s) ==
  /\ StageAt(strategy, M, stage, s)
  /\ opt = [r \in Rank |-> opt[r]]
  /\ \A r \in Rank : RankAt(strategy, M, stage, s, r, pc[r], step[r], opt[r])

OneModel == \E M, stage, s : OneModelAt(M, stage, s)

\* Once the runtime is built, everybody looks at the memory of the optimizer.
Unbuilt == {"start", "init", "load", "ddp_init", "build"}

ViewsBuilt ==
  /\ weights = [r \in Rank |-> weights[r]]
  /\ \A r \in Rank : pc[r] \notin Unbuilt \cup Gone => weights[r] = BuildRuntime(strategy = "zero2")
-----------------------------------------------------------------------------
(***************************************************************************)
(* Steps of one rank                                                       *)
(***************************************************************************)
\* Outside an update a rank may go on with the gradients it has or others.
LEMMA RestOn ==
  ASSUME NEW kind, NEW M, NEW stage, NEW s, NEW r, NEW p, NEW st, NEW o,
         RankAt(kind, M, stage, s, r, p, st, o), p \notin Gone, Stage(kind, p) = "rest",
         NEW p2, NEW st2, NEW o2, Stage(kind, p2) = "rest", PlaceAt(kind, M, p2, st2),
         Holds(kind, M, r, o2), o2.lr = o.lr, GradsAt(kind, r, p2, st2, o2)
  PROVE  RankAt(kind, M, stage, s, r, p2, st2, o2) /\ stage # "split"
BY DEF RankAt, OptAt, Rests

\* A rank that ends keeps what it has.
LEMMA EndOn ==
  ASSUME NEW kind, NEW M, NEW stage, NEW s, NEW r, NEW p, NEW st, NEW o,
         RankAt(kind, M, stage, s, r, p, st, o), NEW p2 \in Gone
  PROVE  RankAt(kind, M, stage, s, r, p2, st, o)
<1>1. p2 \notin {"reduce_scatter", "apply", "all_gather", "optimize", "refresh_barrier", "grad_reduce", "bad_check"}
  BY DEF Gone
<1>2. OptAt(kind, M, stage, s, r, p2, st, o)
  BY <1>1 DEF RankAt, OptAt, GradsAt
<1>3. QED
  BY <1>2 DEF RankAt

\* What the operations before an update do at a rank outside one.
LEMMA RestHolds ==
  ASSUME NEW kind, NEW M, NEW stage, NEW s, NEW r, NEW p, NEW st, NEW o,
         RankAt(kind, M, stage, s, r, p, st, o), p \notin Gone, Stage(kind, p) = "rest"
  PROVE  /\ Holds(kind, M, r, o) /\ o.lr = M.l
         /\ Holds(kind, M, r, ZeroGrad(o)) /\ ZeroGrad(o).lr = o.lr
         /\ Holds(kind, M, r, ReleaseGradBuffer(o)) /\ ReleaseGradBuffer(o).lr = o.lr
         /\ Holds(kind, M, r, ReleaseGradBuffer(ZeroGrad(o))) /\ ReleaseGradBuffer(ZeroGrad(o)).lr = o.lr
<1>1. Holds(kind, M, r, o) /\ o.lr = M.l
  BY DEF RankAt, OptAt, Rests
<1>2. Holds(kind, M, r, ZeroGrad(o)) /\ ZeroGrad(o).lr = o.lr
  BY <1>1, GradOpsKeep
<1>3. Holds(kind, M, r, ReleaseGradBuffer(o)) /\ ReleaseGradBuffer(o).lr = o.lr
  BY <1>1, GradOpsKeep
<1>4. Holds(kind, M, r, ReleaseGradBuffer(ZeroGrad(o))) /\ ReleaseGradBuffer(ZeroGrad(o)).lr = ZeroGrad(o).lr
  BY <1>2, GradOpsKeep
<1>5. QED
  BY <1>1, <1>2, <1>3, <1>4

\* Where the loop leads a rank outside an update.
LEMMA OnwardPlace ==
  ASSUME NEW kind, NEW M, M.l \in Nat, NEW p, NEW st \in Nat, PlaceAt(kind, M, p, st), NEW when, NEW n,
         NEW to, to = AfterEval(st, when, n) \/ to = AfterSave(st, when, n)
  PROVE  Stage(kind, to.pc) = "rest" /\ PlaceAt(kind, M, to.pc, to.step) /\ \A r, o : GradsAt(kind, r, to.pc, to.step, o)
<1>1. LET on == Onward(st, n)
      IN \/ on.pc \in {"finish", "eval"} /\ on.step = st
         \/ on.pc = "rollout" /\ on.step = st + 1
  BY DEF Onward
<1>2. \/ to.pc \in {"finish", "eval", "final_barrier"} /\ to.step = st
      \/ to.pc = "rollout" /\ to.step = st + 1
  BY <1>1 DEF AfterEval, AfterSave
<1>3. QED
  BY <1>2 DEF Stage, PlaceAt, GradsAt, Undone

\* The invariant, after a step of rank r alone that keeps it for r.
LEMMA OneRankOn ==
  ASSUME NEW M, NEW stage, NEW s, OneModelAt(M, stage, s), Arrays, NEW r \in Rank,
         NEW p, NEW st, NEW o, UNCHANGED strategy,
         pc' = [pc EXCEPT ![r] = p], step' = [step EXCEPT ![r] = st], opt' = [opt EXCEPT ![r] = o],
         RankAt(strategy, M, stage, s, r, p, st, o)
  PROVE  OneModelAt(M, stage, s)'
<1>1. /\ opt = [q \in Rank |-> opt[q]] /\ pc = [q \in Rank |-> pc[q]] /\ step = [q \in Rank |-> step[q]]
      /\ StageAt(strategy, M, stage, s)
      /\ \A q \in Rank : RankAt(strategy, M, stage, s, q, pc[q], step[q], opt[q])
  BY DEF OneModelAt, Arrays
<1>2. /\ opt' = [q \in Rank |-> opt'[q]] /\ pc'[r] = p /\ step'[r] = st /\ opt'[r] = o
      /\ \A q \in Rank \ {r} : pc'[q] = pc[q] /\ step'[q] = step[q] /\ opt'[q] = opt[q]
  BY <1>1
<1>3. \A q \in Rank : RankAt(strategy, M, stage, s, q, pc'[q], step'[q], opt'[q])
  BY <1>1, <1>2
<1>4. QED
  BY <1>1, <1>2, <1>3 DEF OneModelAt

(***************************************************************************)
(* The model that is shown: in an update under DDP it is rank 0's copy,    *)
(* which may be ahead of the others.                                       *)
(***************************************************************************)
Shown(M, stage, s) == IF stage = "split" /\ opt[0].count # M.n THEN Updated(M, s) ELSE M

\* It changes by the update of a step, while rank 0 is on the way to it.
Evolves(was, is) ==
  \/ is = was
  \/ pc[0] \in Undone /\ step[0] \in 1..MaxSteps /\ was.l < step[0] /\ is = Updated(was, step[0])

\* Steps of one rank change it only when rank 0 updates its own.
LEMMA OneRankShown ==
  ASSUME NEW M, NEW stage, NEW s, OneModelAt(M, stage, s), Counted, NEW r \in Rank, NEW o,
         opt' = [opt EXCEPT ![r] = o],
         o = opt[r] \/ stage # "split" \/ (pc[r] = "apply" /\ opt[r].count = M.n)
  PROVE  Evolves(Shown(M, stage, s), Shown(M, stage, s)')
<1>1. opt = [q \in Rank |-> opt[q]] /\ 0 \in Rank
  BY LoopConstants DEF OneModelAt
<1>2. CASE r # 0 \/ o = opt[r]
  <2>1. opt'[0] = opt[0]
    BY <1>1, <1>2
  <2>2. QED
    BY <2>1 DEF Shown, Evolves
<1>3. CASE stage # "split"
  BY <1>3 DEF Shown, Evolves
<1>4. CASE stage = "split" /\ r = 0 /\ pc[0] = "apply" /\ opt[0].count = M.n
  <2>1. step[0] = s /\ step[0] \in 0..MaxSteps
    BY <1>1, <1>4 DEF OneModelAt, RankAt, Counted, CountsAt
  <2>2. M.l < s /\ M.l \in Nat
    BY <1>4 DEF OneModelAt, StageAt, GoodModel
  <2>3. s \in 1..MaxSteps
    BY <2>1, <2>2
  <2>4. Shown(M, stage, s) = M
    BY <1>4 DEF Shown
  <2>5. Shown(M, stage, s)' \in {M, Updated(M, s)}
    BY DEF Shown
  <2>6. QED
    BY <1>4, <2>1, <2>2, <2>3, <2>4, <2>5 DEF Evolves, Undone
<1>5. QED
  BY <1>2, <1>3, <1>4

LEMMA RankOn ==
  ASSUME NEW M, NEW stage, NEW s, OneModelAt(M, stage, s), Counted, strategy \in {"zero2", "ddp"},
         NEW r \in Rank, Run(r) \/ Start(r) \/ Fail(r) \/ Interrupted(r) \/ Killed(r)
  PROVE  OneModelAt(M, stage, s)' /\ Evolves(Shown(M, stage, s), Shown(M, stage, s)')
<1> DEFINE Kept == OneModelAt(M, stage, s)' /\ Evolves(Shown(M, stage, s), Shown(M, stage, s)')
           kind == strategy
           o == opt[r]
<1>1. /\ opt = [opt EXCEPT ![r] = o] /\ Arrays /\ M.l \in Nat /\ GoodModel(M)
      /\ stage \in {"pack", "gather", "split"} => M.l < s
      /\ RankAt(kind, M, stage, s, r, pc[r], step[r], o)
      /\ step[r] \in Nat /\ pc[r] \in AllPlaces
  <2>1. opt = [q \in Rank |-> opt[q]] /\ StageAt(kind, M, stage, s) /\ RankAt(kind, M, stage, s, r, pc[r], step[r], o)
    BY DEF OneModelAt
  <2>2. opt = [opt EXCEPT ![r] = o]
    BY <2>1
  <2>3. GoodModel(M) /\ M.l \in Nat /\ (stage \in {"pack", "gather", "split"} => M.l < s)
    BY <2>1 DEF StageAt, GoodModel
  <2>4. Arrays /\ step[r] \in Nat /\ pc[r] \in AllPlaces
    BY LoopConstants DEF Counted, CountsAt
  <2>5. QED
    BY <2>1, <2>2, <2>3, <2>4
<1>2. ASSUME NEW p, NEW st, NEW o2, UNCHANGED strategy,
             pc' = [pc EXCEPT ![r] = p], step' = [step EXCEPT ![r] = st], opt' = [opt EXCEPT ![r] = o2],
             RankAt(kind, M, stage, s, r, p, st, o2),
             o2 = o \/ stage # "split" \/ (pc[r] = "apply" /\ o.count = M.n)
      PROVE  Kept
  BY <1>1, <1>2, OneRankOn, OneRankShown
<1>3. step = [step EXCEPT ![r] = step[r]]
  BY <1>1, SameAt
<1> SUFFICES Kept
  OBVIOUS
<1> HIDE DEF Kept
<1>4. ASSUME NEW p, NEW o2, UNCHANGED <<strategy, step>>, pc[r] \notin Gone,
             pc' = [pc EXCEPT ![r] = p], opt' = [opt EXCEPT ![r] = o2],
             Stage(kind, pc[r]) = "rest", Stage(kind, p) = "rest", p \in Undone => pc[r] \in Undone,
             kind = "zero2" => p # "grad_reduce",
             kind # "zero2" => p \notin {"reduce_scatter", "optimize", "all_gather", "refresh"},
             Holds(kind, M, r, o2), o2.lr = o.lr, GradsAt(kind, r, p, step[r], o2)
      PROVE  Kept
  <2>1. PlaceAt(kind, M, p, step[r])
    BY <1>1, <1>4 DEF RankAt, PlaceAt
  <2>2. RankAt(kind, M, stage, s, r, p, step[r], o2) /\ stage # "split"
    BY <1>1, <1>4, <2>1, RestOn
  <2>3. step' = [step EXCEPT ![r] = step[r]]
    BY <1>3, <1>4
  <2>4. QED
    BY <1>2, <1>4, <2>2, <2>3
<1>5. CASE Cleanup(r) \/ Fail(r) \/ Interrupted(r) \/ Killed(r)
  <2>1. PICK p \in Gone : pc' = [pc EXCEPT ![r] = p]
    BY <1>5 DEF Cleanup, Fail, Interrupted, Killed, Gone, Go
  <2>2. UNCHANGED <<strategy, step, opt>>
    BY <1>5 DEF Cleanup, Fail, Interrupted, Killed, Stay, Rest
  <2>3. RankAt(kind, M, stage, s, r, p, step[r], o)
    BY <1>1, EndOn
  <2>4. step' = [step EXCEPT ![r] = step[r]] /\ opt' = [opt EXCEPT ![r] = o]
    BY <1>1, <1>3, <2>2
  <2>5. QED
    BY <1>2, <2>1, <2>2, <2>3, <2>4
<1>6. CASE EvalEnd(r) \/ SaveEnd(r) \/ NoSave(r)
  <2>1. PICK to : /\ to = AfterEval(step[r], phase[r], steps[r]) \/ to = AfterSave(step[r], phase[r], steps[r])
                  /\ MoveOn(r, to)
    BY <1>6 DEF EvalEnd, SaveEnd, NoSave
  <2>2. pc[r] \in {"eval_end", "saving", "end_step", "finish"} /\ UNCHANGED <<strategy, opt>>
    BY <1>6 DEF EvalEnd, SaveEnd, NoSave, Rest
  <2>3. pc[r] \notin Gone /\ Stage(kind, pc[r]) = "rest"
    BY <2>2 DEF Gone, Stage
  <2>4. PlaceAt(kind, M, pc[r], step[r])
    BY <1>1, <2>3 DEF RankAt
  <2>5. Stage(kind, to.pc) = "rest" /\ PlaceAt(kind, M, to.pc, to.step) /\ GradsAt(kind, r, to.pc, to.step, o)
    BY <1>1, <2>1, <2>4, OnwardPlace
  <2>6. Holds(kind, M, r, o)
    BY <1>1, <2>3, RestHolds
  <2>7. RankAt(kind, M, stage, s, r, to.pc, to.step, o)
    BY <1>1, <2>3, <2>5, <2>6, RestOn
  <2>8. pc' = [pc EXCEPT ![r] = to.pc] /\ step' = [step EXCEPT ![r] = to.step] /\ opt' = [opt EXCEPT ![r] = o]
    BY <1>1, <2>1, <2>2 DEF MoveOn
  <2>9. QED
    BY <1>2, <2>2, <2>7, <2>8
<1>7. CASE Start(r) \/ LoadStudent(r) \/ Batches(r) \/ SaveBegin(r)
  <2>1. PICK p \in {"init", "ddp_init", "build", "batches_max", "saving"} : pc' = [pc EXCEPT ![r] = p]
    BY <1>7 DEF Start, LoadStudent, Batches, SaveBegin, Go
  <2>2. pc[r] \in {"start", "load", "batches", "end_step", "finish"} /\ UNCHANGED <<strategy, step, opt>>
    BY <1>7 DEF Start, LoadStudent, Batches, SaveBegin, Go, Stay, Rest
  <2>3. pc[r] \notin Gone /\ Stage(kind, pc[r]) = "rest" /\ Stage(kind, p) = "rest" /\ p \notin Undone
    BY <2>2 DEF Gone, Stage, Undone
  <2>4. Holds(kind, M, r, o) /\ GradsAt(kind, r, p, step[r], o)
    BY <1>1, <2>3, RestHolds DEF GradsAt, Undone
  <2>5. opt' = [opt EXCEPT ![r] = o]
    BY <1>1, <2>2
  <2>6. QED
    BY <1>4, <2>1, <2>2, <2>3, <2>4, <2>5
<1>8. CASE BuildAndShard(r) \/ Eval(r) \/ Rollout(r) \/ Skip(r)
  <2>1. PICK p \in {"shard_min", "eval_reduce", "rollout_barrier", "train_barrier"} :
          pc' = [pc EXCEPT ![r] = p] /\ (p = "rollout_barrier" => pc[r] = "rollout")
    BY <1>8 DEF BuildAndShard, Eval, Rollout, Skip, Go
  <2>2. pc[r] \in {"build", "eval", "rollout", "skip"} /\ UNCHANGED <<strategy, step>>
    BY <1>8 DEF BuildAndShard, Eval, Rollout, Skip, Go, Stay, Rest
  <2>3. pc[r] \notin Gone /\ Stage(kind, pc[r]) = "rest" /\ Stage(kind, p) = "rest" /\ (p \in Undone => pc[r] \in Undone)
    BY <2>1, <2>2 DEF Gone, Stage, Undone
  <2>4. PICK o2 \in {o, ZeroGrad(o), ReleaseGradBuffer(o), ReleaseGradBuffer(ZeroGrad(o))} :
          opt' = [opt EXCEPT ![r] = o2]
    BY <1>8 DEF BuildAndShard, Eval, Rollout, Skip
  <2>5. Holds(kind, M, r, o2) /\ o2.lr = o.lr
    BY <1>1, <2>3, RestHolds
  <2>6. GradsAt(kind, r, p, step[r], o2)
    BY DEF GradsAt
  <2>7. QED
    BY <1>4, <2>1, <2>2, <2>3, <2>4, <2>5, <2>6
<1>9. CASE Loss(r)
  <2>1. PICK finite \in BOOLEAN : opt' = [opt EXCEPT ![r] = Backward(o, r, step[r], finite)]
    BY <1>9 DEF Loss
  <2> DEFINE o2 == Backward(o, r, step[r], finite)
             p == IF kind = "zero2" THEN "bad_check" ELSE "grad_reduce"
             bad == IF finite THEN 0 ELSE -1
  <2>2. pc[r] = "loss" /\ pc' = [pc EXCEPT ![r] = p] /\ UNCHANGED <<strategy, step>>
    BY <1>9 DEF Loss, Go, Stay
  <2>3. /\ pc[r] \notin Gone /\ Stage(kind, pc[r]) = "rest" /\ Stage(kind, p) = "rest" /\ pc[r] \in Undone
        /\ p \in {"bad_check", "grad_reduce"} /\ (kind = "zero2" => p = "bad_check") /\ (kind # "zero2" => p = "grad_reduce")
    BY <2>2 DEF Gone, Stage, Undone
  <2>4. Holds(kind, M, r, o) /\ IsOptimizer(o)
    BY <1>1, <2>3, RestHolds DEF Holds
  <2>5. Holds(kind, M, r, o2) /\ o2.lr = o.lr
    BY <2>4, BackwardKeeps
  <2>6. HasGrads(o2, OwnGrads(r, step[r], bad))
    BY <2>4, BackwardGrads
  <2> HIDE DEF o2, p
  <2>7. GradsAt(kind, r, p, step[r], o2)
    BY <2>3, <2>6 DEF GradsAt
  <2>8. QED
    BY <1>4, <2>1, <2>2, <2>3, <2>5, <2>7 DEF o2
<1>10. CASE ApplySharded(r)
  <2> DEFINE o2 == PackGrads(PrepareGradBuffer(o), r)
  <2>1. /\ kind = "zero2" /\ pc[r] = "apply" /\ pc' = [pc EXCEPT ![r] = "reduce_scatter"]
        /\ opt' = [opt EXCEPT ![r] = o2] /\ UNCHANGED <<strategy, step>>
    BY <1>10 DEF ApplySharded, Go, Stay, Rest
  <2>2. stage = "pack" /\ step[r] = s
    BY <1>1, <2>1 DEF RankAt, Stage, Gone
  <2>3. Rests("zero2", M, r, o) /\ HasGrads(o, OwnGrads(r, s, 0))
    BY <1>1, <2>1, <2>2 DEF RankAt, OptAt
  <2>4. Packed(M, r, s, o2)
    BY <2>3, PackGradsIs
  <2> HIDE DEF o2
  <2>5. RankAt(kind, M, stage, s, r, "reduce_scatter", step[r], o2)
    BY <1>1, <2>1, <2>2, <2>4 DEF RankAt, OptAt, Stage, PlaceAt, Gone
  <2>6. step' = [step EXCEPT ![r] = step[r]]
    BY <1>3, <2>1
  <2>7. QED
    BY <1>2, <2>1, <2>2, <2>5, <2>6
<1>11. CASE Optimize(r)
  <2> DEFINE o2 == StepShard(o)
  <2>1. /\ pc[r] = "optimize" /\ pc' = [pc EXCEPT ![r] = "all_gather"]
        /\ opt' = [opt EXCEPT ![r] = o2] /\ UNCHANGED <<strategy, step>>
    BY <1>11 DEF Optimize, Go, Stay, Rest
  <2>2. kind = "zero2"
    BY <1>1, <2>1 DEF RankAt, PlaceAt, Gone
  <2>3. stage = "gather" /\ step[r] = s
    BY <1>1, <2>1, <2>2 DEF RankAt, Stage, Gone
  <2>4. Ready(M, r, s, o)
    BY <1>1, <2>1, <2>3 DEF RankAt, OptAt
  <2>5. Stepped(M, r, s, o2)
    BY <1>1, <2>4, StepShardIs
  <2> HIDE DEF o2
  <2>6. RankAt(kind, M, stage, s, r, "all_gather", step[r], o2)
    BY <1>1, <2>1, <2>2, <2>3, <2>5 DEF RankAt, OptAt, Stage, PlaceAt, Gone
  <2>7. step' = [step EXCEPT ![r] = step[r]]
    BY <1>3, <2>1
  <2>8. QED
    BY <1>2, <2>1, <2>3, <2>6, <2>7
<1>12. CASE Refresh(r)
  <2> DEFINE o2 == [o EXCEPT !.lr = step[r]]
  <2>1. /\ pc[r] = "refresh" /\ pc' = [pc EXCEPT ![r] = "refresh_barrier"]
        /\ opt' = [opt EXCEPT ![r] = o2] /\ UNCHANGED <<strategy, step>>
    BY <1>12 DEF Refresh, Go, Stay, Rest
  <2>2. kind = "zero2"
    BY <1>1, <2>1 DEF RankAt, PlaceAt, Gone
  <2>3. stage = "late" /\ step[r] = s
    BY <1>1, <2>1, <2>2 DEF RankAt, Stage, Gone
  <2>4. Holds(kind, M, r, o) /\ M.l = s
    BY <1>1, <2>3 DEF RankAt, OptAt, OneModelAt, StageAt
  <2>5. Holds(kind, M, r, o2) /\ o2.lr = step[r]
    BY <2>4, RateSet DEF WithRate
  <2> HIDE DEF o2
  <2>6. RankAt(kind, M, stage, s, r, "refresh_barrier", step[r], o2)
    BY <1>1, <2>1, <2>2, <2>3, <2>4, <2>5 DEF RankAt, OptAt, Stage, PlaceAt, Gone, Undone
  <2>7. step' = [step EXCEPT ![r] = step[r]]
    BY <1>3, <2>1
  <2>8. QED
    BY <1>2, <2>1, <2>3, <2>6, <2>7
<1>13. CASE ApplyWhole(r)
  <2> DEFINE o2 == [AdamWStep(o) EXCEPT !.lr = step[r]]
  <2>1. /\ kind = "ddp" /\ pc[r] = "apply" /\ pc' = [pc EXCEPT ![r] = "refresh_barrier"]
        /\ opt' = [opt EXCEPT ![r] = o2] /\ UNCHANGED <<strategy, step>>
    BY <1>13 DEF ApplyWhole, Go, Stay, Rest
  <2>2. stage = "split" /\ step[r] = s
    BY <1>1, <2>1 DEF RankAt, Stage, Gone
  <2>3. Rests("ddp", M, r, o) /\ HasGrads(o, AllGrads(s)) /\ o.count = M.n
    BY <1>1, <2>1, <2>2 DEF RankAt, OptAt, Rests, Holds
  <2>4. o2 = WithRate(AdamWStep(o), s)
    BY <2>2 DEF WithRate
  <2> HIDE DEF o2
  <2>5. Rests("ddp", Updated(M, s), r, o2)
    BY <1>1, <2>3, <2>4, AdamWStepIs
  <2>6. RankAt(kind, M, stage, s, r, "refresh_barrier", step[r], o2)
    BY <1>1, <2>1, <2>2, <2>5 DEF RankAt, OptAt, Stage, PlaceAt, Gone, Undone
  <2>7. step' = [step EXCEPT ![r] = step[r]]
    BY <1>3, <2>1
  <2>8. QED
    BY <1>2, <2>1, <2>3, <2>6, <2>7
<1>14. QED
  BY <1>5, <1>6, <1>7, <1>8, <1>9, <1>10, <1>11, <1>12, <1>13 DEF Run

(***************************************************************************)
(* Collectives                                                             *)
(***************************************************************************)
\* What the ranks that wait in a collective have in common.
LEMMA InOneStage ==
  ASSUME NEW M, NEW stage, NEW s, OneModelAt(M, stage, s), Counted, Lockstep,
         NEW c \in Collectives, \A r \in Rank : pc[r] = c
  PROVE  /\ stage = Stage(strategy, c) /\ StageAt(strategy, M, stage, s)
         /\ M.l \in Nat /\ M.l <= step[0]
         /\ \A r \in Rank : /\ RankAt(strategy, M, stage, s, r, c, step[r], opt[r])
                            /\ step[r] = step[0] /\ PlaceAt(strategy, M, c, step[r])
                            /\ stage # "rest" => step[r] = s
<1>1. c \notin Gone
  BY DEF Collectives, Gone
<1>2. \A r \in Rank : RankAt(strategy, M, stage, s, r, c, step[r], opt[r])
  BY DEF OneModelAt
<1>3. \A r \in Rank : /\ PlaceAt(strategy, M, c, step[r]) /\ stage = Stage(strategy, c)
                      /\ stage # "rest" => step[r] = s
  BY <1>1, <1>2 DEF RankAt
<1>4. \A r \in Rank : step[r] = step[0]
  BY Agreed, LoopConstants
<1>5. StageAt(strategy, M, stage, s) /\ M.l \in Nat
  BY DEF OneModelAt, StageAt, GoodModel
<1>6. M.l <= step[0] /\ stage = Stage(strategy, c)
  BY <1>3, LoopConstants DEF PlaceAt
<1>7. QED
  BY <1>2, <1>3, <1>4, <1>5, <1>6

\* A collective outside an update that leaves the optimizers alone.
LEMMA RestCollective ==
  ASSUME NEW M, NEW stage, NEW s, OneModelAt(M, stage, s), Counted, Lockstep,
         NEW c \in Collectives, \A r \in Rank : pc[r] = c, Stage(strategy, c) = "rest",
         NEW d, pc' = [r \in Rank |-> d], UNCHANGED <<strategy, opt>>,
         d \notin Gone => /\ Stage(strategy, d) = "rest" /\ d \notin {"grad_reduce", "bad_check"}
                          /\ \A r \in Rank : PlaceAt(strategy, M, d, step'[r])
  PROVE  OneModelAt(M, stage, s)' /\ Evolves(Shown(M, stage, s), Shown(M, stage, s)')
<1>1. stage = "rest" /\ StageAt(strategy, M, stage, s)
      /\ \A r \in Rank : RankAt(strategy, M, stage, s, r, c, step[r], opt[r])
  BY InOneStage
<1>2. ASSUME NEW r \in Rank
      PROVE  RankAt(strategy, M, stage, s, r, d, step'[r], opt[r])
  <2>1. d \notin {"grad_reduce", "bad_check"}
    BY DEF Gone
  <2>2. OptAt(strategy, M, stage, s, r, d, step'[r], opt[r])
    BY <1>1, <2>1 DEF RankAt, OptAt, GradsAt
  <2>3. QED
    BY <1>1, <2>2 DEF RankAt
<1>3. opt' = [r \in Rank |-> opt'[r]]
  BY DEF OneModelAt
<1>4. OneModelAt(M, stage, s)'
  BY <1>1, <1>2, <1>3 DEF OneModelAt
<1>5. Shown(M, stage, s)' = Shown(M, stage, s)
  BY DEF Shown
<1>6. QED
  BY <1>4, <1>5 DEF Evolves

LEMMA PlainCollectives ==
  ASSUME NEW M, NEW stage, NEW s, OneModelAt(M, stage, s), Counted, Lockstep,
         \/ ShardMin \/ BatchesMax
         \/ Barrier /\ pc[0] # "refresh_barrier"
         \/ BadCheck /\ pc'[0] = "skip"
  PROVE  OneModelAt(M, stage, s)' /\ Evolves(Shown(M, stage, s), Shown(M, stage, s)')
<1> USE DEF Stay, Rest, Complete
<1>1. CASE ShardMin
  <2>1. /\ \A r \in Rank : pc[r] = "shard_min"
        /\ pc' = [r \in Rank |-> "batches"] /\ UNCHANGED <<strategy, opt, step>>
    BY <1>1 DEF ShardMin
  <2>2. "shard_min" \in Collectives /\ Stage(strategy, "shard_min") = "rest" /\ Stage(strategy, "batches") = "rest"
    BY DEF Collectives, Stage
  <2>3. \A r \in Rank : PlaceAt(strategy, M, "batches", step'[r])
    BY <2>1, <2>2, InOneStage DEF PlaceAt, Undone
  <2>4. QED
    BY <2>1, <2>2, <2>3, RestCollective
<1>2. CASE BatchesMax
  <2> DEFINE n  == TotalSteps(Max({steps[q] : q \in Rank}))
             to == IF SkipEval THEN Onward(0, n) ELSE [pc |-> "eval", step |-> 0, phase |-> "before"]
  <2>1. /\ \A r \in Rank : pc[r] = "batches_max"
        /\ pc' = [r \in Rank |-> to.pc] /\ step' = [r \in Rank |-> to.step] /\ UNCHANGED <<strategy, opt>>
    BY <1>2 DEF BatchesMax
  <2>2. \/ to.pc \in {"finish", "eval"} /\ to.step = 0
        \/ to.pc = "rollout" /\ to.step = 1
    BY DEF Onward
  <2> HIDE DEF n, to
  <2>3. "batches_max" \in Collectives /\ Stage(strategy, "batches_max") = "rest" /\ Stage(strategy, to.pc) = "rest"
    BY <2>2 DEF Collectives, Stage
  <2>4. step[0] = 0
    BY <2>1, LoopConstants DEF Counted, CountsAt, EarlyPlaces
  <2>5. M.l = 0
    BY <2>1, <2>3, <2>4, InOneStage
  <2>6. \A r \in Rank : PlaceAt(strategy, M, to.pc, step'[r])
    BY <2>1, <2>2, <2>5 DEF PlaceAt, Undone
  <2>7. to.pc \notin {"grad_reduce", "bad_check"}
    BY <2>2
  <2>8. QED
    BY <2>1, <2>3, <2>6, <2>7, RestCollective
<1>3. CASE Barrier /\ pc[0] # "refresh_barrier"
  <2>1. PICK c \in {"init", "ddp_init", "eval_reduce", "rollout_barrier", "train_barrier", "final_barrier"},
             d \in {"load", "build", "eval_end", "loss", "end_step", "cleanup"} :
          /\ \A r \in Rank : pc[r] = c
          /\ pc' = [r \in Rank |-> d] /\ (d = "loss" => c = "rollout_barrier")
    BY <1>3, LoopConstants DEF Barrier
  <2>2. UNCHANGED <<strategy, opt, step>>
    BY <1>3 DEF Barrier
  <2>3. c \in Collectives /\ Stage(strategy, c) = "rest" /\ Stage(strategy, d) = "rest"
    BY DEF Collectives, Stage
  <2>4. \A r \in Rank : PlaceAt(strategy, M, c, step[r])
    BY <2>1, <2>3, InOneStage
  <2>5. \A r \in Rank : PlaceAt(strategy, M, d, step'[r])
    BY <2>1, <2>2, <2>4 DEF PlaceAt, Undone
  <2>6. QED
    BY <2>1, <2>2, <2>3, <2>5, RestCollective
<1>4. CASE BadCheck /\ pc'[0] = "skip"
  <2>1. /\ \A r \in Rank : pc[r] = "bad_check"
        /\ pc' = [r \in Rank |-> "skip"] /\ UNCHANGED <<strategy, opt, step>>
    BY <1>4, LoopConstants DEF BadCheck, AnyBadGradients
  <2>2. "bad_check" \in Collectives /\ Stage(strategy, "bad_check") = "rest" /\ Stage(strategy, "skip") = "rest"
    BY DEF Collectives, Stage
  <2>3. \A r \in Rank : PlaceAt(strategy, M, "skip", step'[r])
    BY <2>1, <2>2, InOneStage DEF PlaceAt, Undone
  <2>4. QED
    BY <2>1, <2>2, <2>3, RestCollective
<1>5. QED
  BY <1>1, <1>2, <1>3, <1>4

\* All ranks find their gradients finite, and start the update.
LEMMA UpdateBegins ==
  ASSUME NEW M, NEW stage, NEW s, OneModelAt(M, stage, s), Counted, Lockstep, strategy \in {"zero2", "ddp"},
         BadCheck, pc'[0] # "skip"
  PROVE  \E stage2, s2 : OneModelAt(M, stage2, s2)' /\ Evolves(Shown(M, stage, s), Shown(M, stage2, s2)')
<1>0. PICK st, stage2 : st = step[0] /\ stage2 = IF strategy = "zero2" THEN "pack" ELSE "split"
  OBVIOUS
<1>1. ~ AnyBadGradients(0) /\ \A r \in Rank : pc[r] = "bad_check"
  BY LoopConstants DEF BadCheck, Complete
<1>2. pc' = [r \in Rank |-> "apply"] /\ UNCHANGED <<strategy, opt, step>>
  <2>1. \A r \in Rank : AnyBadGradients(r) = AnyBadGradients(0)
    BY DEF AnyBadGradients
  <2>2. QED
    BY <1>1, <2>1 DEF BadCheck, Complete, Stay, Rest
<1>3. "bad_check" \in Collectives /\ Stage(strategy, "bad_check") = "rest" /\ Stage(strategy, "apply") = stage2
  BY <1>0 DEF Collectives, Stage
<1>4. /\ stage = "rest" /\ StageAt(strategy, M, stage, s) /\ M.l \in Nat
      /\ \A r \in Rank : /\ RankAt(strategy, M, stage, s, r, "bad_check", step[r], opt[r])
                         /\ step[r] = st /\ PlaceAt(strategy, M, "bad_check", step[r])
  BY <1>0, <1>1, <1>3, InOneStage
<1>5. M.l < st /\ st \in Nat
  BY <1>0, <1>4, LoopConstants DEF PlaceAt, Undone, Counted, CountsAt
<1>6. \A r \in Rank : ~ HasBadGradients(opt[r])
  BY <1>1 DEF AnyBadGradients
<1>7. \A r \in Rank : Rests(strategy, M, r, opt[r]) /\ GradsAt(strategy, r, "bad_check", st, opt[r])
  BY <1>4 DEF RankAt, OptAt
<1>8. ASSUME NEW r \in Rank
      PROVE  OptAt(strategy, M, stage2, st, r, "apply", step[r], opt[r])
  <2>1. CASE strategy = "zero2"
    <3>1. PICK bad \in {0, -1} : HasGrads(opt[r], OwnGrads(r, st, bad))
      BY <1>7, <2>1 DEF GradsAt
    <3>2. bad = 0
      BY <1>6, <3>1, BadIsSeen
    <3>3. QED
      BY <1>0, <1>7, <2>1, <3>1, <3>2 DEF OptAt
  <2>2. CASE strategy = "ddp"
    <3>1. PICK bad \in [Rank -> {0, -1}] : HasGrads(opt[r], SumGrads(st, bad))
      BY <1>7, <2>2 DEF GradsAt
    <3>2. \A q \in Rank : bad[q] # -1
      BY <1>6, <3>1, BadIsSeen
    <3>3. \A q \in Rank : bad[q] = 0
      BY <3>1, <3>2
    <3>4. HasGrads(opt[r], AllGrads(st))
      BY <3>1, <3>3, FiniteSum
    <3>5. QED
      BY <1>0, <1>7, <2>2, <3>4 DEF OptAt
  <2>3. QED
    BY <2>1, <2>2
<1>9. ASSUME NEW r \in Rank
      PROVE  RankAt(strategy, M, stage2, st, r, "apply", step[r], opt[r])
  BY <1>0, <1>3, <1>4, <1>5, <1>8 DEF RankAt, PlaceAt
<1>10. StageAt(strategy, M, stage2, st)
  BY <1>0, <1>4, <1>5 DEF StageAt
<1>11. OneModelAt(M, stage2, st)'
  <2>1. opt' = [r \in Rank |-> opt'[r]]
    BY <1>2 DEF OneModelAt
  <2>2. \A r \in Rank : RankAt(strategy', M, stage2, st, r, pc'[r], step'[r], opt'[r])
    BY <1>2, <1>9
  <2>3. StageAt(strategy', M, stage2, st)
    BY <1>2, <1>10
  <2>4. QED
    BY <2>1, <2>2, <2>3 DEF OneModelAt
<1>12. Shown(M, stage, s) = M /\ Shown(M, stage2, st)' = M
  BY <1>2, <1>4, <1>7, LoopConstants DEF Shown, Rests, Holds
<1>13. QED
  BY <1>11, <1>12 DEF Evolves

\* The gradients are averaged, under DDP.
LEMMA GradientsSummed ==
  ASSUME NEW M, NEW stage, NEW s, OneModelAt(M, stage, s), Counted, Lockstep, strategy \in {"zero2", "ddp"},
         GradReduce
  PROVE  OneModelAt(M, stage, s)' /\ Evolves(Shown(M, stage, s), Shown(M, stage, s)')
<1>1. /\ \A r \in Rank : pc[r] = "grad_reduce"
      /\ pc' = [r \in Rank |-> "bad_check"] /\ opt' = AllReduceGrads(opt) /\ UNCHANGED <<strategy, step>>
  BY DEF GradReduce, Complete, Stay, Rest
<1>2. "grad_reduce" \in Collectives /\ Stage(strategy, "grad_reduce") = "rest" /\ Stage(strategy, "bad_check") = "rest"
  BY DEF Collectives, Stage
<1>3. /\ stage = "rest" /\ StageAt(strategy, M, stage, s)
      /\ \A r \in Rank : /\ RankAt(strategy, M, stage, s, r, "grad_reduce", step[r], opt[r])
                         /\ step[r] = step[0] /\ PlaceAt(strategy, M, "grad_reduce", step[r])
  BY <1>1, <1>2, InOneStage
<1>4. strategy = "ddp"
  BY <1>3, LoopConstants DEF PlaceAt
<1>5. \A r \in Rank : /\ Rests("ddp", M, r, opt[r])
                      /\ \E b \in {0, -1} : HasGrads(opt[r], OwnGrads(r, step[0], b))
  BY <1>3, <1>4 DEF RankAt, OptAt, GradsAt
<1> DEFINE bad == [r \in Rank |-> CHOOSE b \in {0, -1} : HasGrads(opt[r], OwnGrads(r, step[0], b))]
<1>6. \A r \in Rank : bad[r] \in {0, -1} /\ HasGrads(opt[r], OwnGrads(r, step[0], bad[r]))
  BY <1>5
<1>7. bad \in [Rank -> {0, -1}]
  BY <1>6
<1> HIDE DEF bad
<1>8. \A r \in Rank : Rests("ddp", M, r, opt'[r]) /\ HasGrads(opt'[r], SumGrads(step[0], bad))
  BY <1>1, <1>5, <1>6, AllReduceIs
<1>9. ASSUME NEW r \in Rank
      PROVE  RankAt(strategy, M, stage, s, r, "bad_check", step[r], opt'[r])
  <2>1. PlaceAt(strategy, M, "bad_check", step[r])
    BY <1>3, <1>4 DEF PlaceAt, Undone
  <2>2. GradsAt(strategy, r, "bad_check", step[r], opt'[r])
    BY <1>3, <1>4, <1>7, <1>8 DEF GradsAt
  <2>3. QED
    BY <1>2, <1>3, <1>4, <1>8, <2>1, <2>2 DEF RankAt, OptAt
<1>10. opt' = [r \in Rank |-> opt'[r]]
  BY <1>1 DEF AllReduceGrads
<1>11. OneModelAt(M, stage, s)'
  BY <1>1, <1>3, <1>9, <1>10 DEF OneModelAt
<1>12. Shown(M, stage, s) = M /\ Shown(M, stage, s)' = M
  BY <1>3 DEF Shown
<1>13. QED
  BY <1>11, <1>12 DEF Evolves

\* The packed gradients are reduced, under ZeRO-2.
LEMMA GradientsScattered ==
  ASSUME NEW M, NEW stage, NEW s, OneModelAt(M, stage, s), Counted, Lockstep, strategy \in {"zero2", "ddp"},
         ReduceScatterAll
  PROVE  OneModelAt(M, "gather", s)' /\ Evolves(Shown(M, stage, s), Shown(M, "gather", s)')
<1>1. /\ \A r \in Rank : pc[r] = "reduce_scatter"
      /\ pc' = [r \in Rank |-> "optimize"] /\ opt' = ReduceScatter(opt) /\ UNCHANGED <<strategy, step>>
  BY DEF ReduceScatterAll, Complete, Stay, Rest
<1>2. "reduce_scatter" \in Collectives
  BY DEF Collectives
<1>3. /\ stage = Stage(strategy, "reduce_scatter") /\ StageAt(strategy, M, stage, s)
      /\ \A r \in Rank : /\ RankAt(strategy, M, stage, s, r, "reduce_scatter", step[r], opt[r])
                         /\ PlaceAt(strategy, M, "reduce_scatter", step[r])
                         /\ stage # "rest" => step[r] = s
  BY <1>1, <1>2, InOneStage
<1>4. strategy = "zero2" /\ stage = "pack"
  BY <1>3, LoopConstants DEF PlaceAt, Stage
<1>5. \A r \in Rank : Packed(M, r, s, opt[r])
  BY <1>3, <1>4 DEF RankAt, OptAt
<1>6. \A r \in Rank : Ready(M, r, s, opt'[r])
  BY <1>1, <1>5, ReduceScatterIs
<1>7. StageAt(strategy, M, "gather", s)
  BY <1>3, <1>4 DEF StageAt
<1>8. ASSUME NEW r \in Rank
      PROVE  RankAt(strategy, M, "gather", s, r, "optimize", step[r], opt'[r])
  BY <1>3, <1>4, <1>6 DEF RankAt, OptAt, Stage, PlaceAt, Undone
<1>9. opt' = [r \in Rank |-> opt'[r]]
  BY <1>1 DEF ReduceScatter
<1>10. OneModelAt(M, "gather", s)'
  BY <1>1, <1>7, <1>8, <1>9 DEF OneModelAt
<1>11. Shown(M, stage, s) = M /\ Shown(M, "gather", s)' = M
  BY <1>4 DEF Shown
<1>12. QED
  BY <1>10, <1>11 DEF Evolves

\* The updated shards are gathered: this is the update of the model.
LEMMA ShardsGathered ==
  ASSUME NEW M, NEW stage, NEW s, OneModelAt(M, stage, s), Counted, Lockstep, strategy \in {"zero2", "ddp"},
         AllGatherAll
  PROVE  /\ OneModelAt(Updated(M, s), "late", s)'
         /\ Evolves(Shown(M, stage, s), Shown(Updated(M, s), "late", s)')
<1>1. /\ \A r \in Rank : pc[r] = "all_gather"
      /\ pc' = [r \in Rank |-> "refresh"] /\ opt' = AllGather(opt) /\ UNCHANGED <<strategy, step>>
  BY DEF AllGatherAll, Complete, Stay, Rest
<1>2. "all_gather" \in Collectives
  BY DEF Collectives
<1>3. /\ stage = Stage(strategy, "all_gather") /\ StageAt(strategy, M, stage, s)
      /\ \A r \in Rank : /\ RankAt(strategy, M, stage, s, r, "all_gather", step[r], opt[r])
                         /\ PlaceAt(strategy, M, "all_gather", step[r])
                         /\ stage # "rest" => step[r] = s
  BY <1>1, <1>2, InOneStage
<1>4. strategy = "zero2" /\ stage = "gather"
  BY <1>3, LoopConstants DEF PlaceAt, Stage
<1>5. \A r \in Rank : Stepped(M, r, s, opt[r])
  BY <1>3, <1>4 DEF RankAt, OptAt
<1>6. GoodModel(M) /\ M.l < s /\ s \in Nat /\ M.l \in Nat
  BY <1>3, <1>4 DEF StageAt, GoodModel
<1> DEFINE N == Updated(M, s)
<1>7. \A r \in Rank : Holds("zero2", N, r, opt'[r])
  BY <1>1, <1>5, AllGatherIs
<1>8. GoodModel(N) /\ N.l = s
  BY <1>6, UpdatedGood DEF Updated
<1> HIDE DEF N
<1>9. StageAt(strategy, N, "late", s)
  BY <1>4, <1>6, <1>8 DEF StageAt
<1>10. ASSUME NEW r \in Rank
       PROVE  RankAt(strategy, N, "late", s, r, "refresh", step[r], opt'[r])
  BY <1>3, <1>4, <1>6, <1>7, <1>8 DEF RankAt, OptAt, Stage, PlaceAt, Undone
<1>11. opt' = [r \in Rank |-> opt'[r]]
  BY <1>1 DEF AllGather
<1>12. OneModelAt(N, "late", s)'
  BY <1>1, <1>9, <1>10, <1>11 DEF OneModelAt
<1>13. Shown(M, stage, s) = M /\ Shown(N, "late", s)' = N
  BY <1>4 DEF Shown
<1>14. step[0] = s /\ s \in 1..MaxSteps /\ pc[0] \in Undone
  <2>0. pc[0] \in Undone
    BY <1>1, LoopConstants DEF Undone
  <2>1. step[0] = s /\ step[0] \in 0..MaxSteps
    BY <1>3, <1>4, LoopConstants DEF Counted, CountsAt
  <2>2. QED
    BY <1>6, <2>0, <2>1
<1>15. QED
  BY <1>6, <1>12, <1>13, <1>14 DEF Evolves, N

\* The update is over, and under DDP all copies are equal again.
LEMMA UpdateEnds ==
  ASSUME NEW M, NEW stage, NEW s, OneModelAt(M, stage, s), Counted, Lockstep, strategy \in {"zero2", "ddp"},
         Barrier, pc[0] = "refresh_barrier"
  PROVE  \E M2 : OneModelAt(M2, "rest", s)' /\ Evolves(Shown(M, stage, s), Shown(M2, "rest", s)')
<1>1. /\ \A r \in Rank : pc[r] = "refresh_barrier"
      /\ pc' = [r \in Rank |-> "end_step"] /\ UNCHANGED <<strategy, opt, step>>
  BY LoopConstants DEF Barrier, Complete, Stay, Rest
<1>2. "refresh_barrier" \in Collectives /\ Stage(strategy, "end_step") = "rest"
  BY DEF Collectives, Stage
<1>3. /\ stage = Stage(strategy, "refresh_barrier") /\ StageAt(strategy, M, stage, s)
      /\ M.l \in Nat
      /\ \A r \in Rank : /\ RankAt(strategy, M, stage, s, r, "refresh_barrier", step[r], opt[r])
                         /\ PlaceAt(strategy, M, "refresh_barrier", step[r])
                         /\ stage # "rest" => step[r] = s
  BY <1>1, <1>2, InOneStage
<1>4. stage = IF strategy = "zero2" THEN "late" ELSE "split"
  BY <1>3 DEF Stage
<1>5. opt' = [r \in Rank |-> opt'[r]]
  BY <1>1 DEF OneModelAt
<1>6. \A r, st, o : GradsAt(strategy, r, "end_step", st, o)
  BY DEF GradsAt
<1>7. ASSUME NEW N, GoodModel(N), N.l <= s, \A r \in Rank : Rests(strategy, N, r, opt[r])
      PROVE  OneModelAt(N, "rest", s)' /\ Shown(N, "rest", s)' = N
  <2>1. StageAt(strategy, N, "rest", s)
    BY <1>3, <1>7 DEF StageAt
  <2>2. ASSUME NEW r \in Rank
        PROVE  RankAt(strategy, N, "rest", s, r, "end_step", step[r], opt[r])
    <3>1. PlaceAt(strategy, N, "end_step", step[r])
      BY <1>3, <1>4, <1>7 DEF PlaceAt, Undone
    <3>2. QED
      BY <1>2, <1>6, <1>7, <3>1 DEF RankAt, OptAt
  <2>3. QED
    BY <1>1, <1>5, <2>1, <2>2 DEF OneModelAt, Shown
<1>8. CASE strategy = "zero2"
  <2>1. GoodModel(M) /\ M.l <= s /\ \A r \in Rank : Rests(strategy, M, r, opt[r])
    BY <1>3, <1>4, <1>8 DEF StageAt, RankAt, OptAt, Rests
  <2>2. OneModelAt(M, "rest", s)' /\ Shown(M, "rest", s)' = M
    BY <1>7, <2>1
  <2>3. Shown(M, stage, s) = M
    BY <1>4, <1>8 DEF Shown
  <2>4. QED
    BY <2>2, <2>3 DEF Evolves
<1>9. CASE strategy = "ddp"
  <2> DEFINE N == Updated(M, s)
  <2>1. GoodModel(M) /\ M.l < s /\ s \in Nat
    BY <1>3, <1>4, <1>9 DEF StageAt
  <2>2. GoodModel(N) /\ N.l = s /\ N.n = M.n + 1 /\ M.n \in Nat
    <3>1. GoodModel(N)
      BY <2>1, UpdatedGood
    <3>2. N.l = s /\ N.n = M.n + 1
      BY DEF Updated
    <3>3. M.n \in Nat
      BY <2>1 DEF GoodModel
    <3>4. QED
      BY <3>1, <3>2, <3>3
  <2> HIDE DEF N
  <2>3. \A r \in Rank : Rests("ddp", N, r, opt[r])
    BY <1>3, <1>4, <1>9 DEF RankAt, OptAt, N
  <2>4. OneModelAt(N, "rest", s)' /\ Shown(N, "rest", s)' = N
    BY <1>7, <1>9, <2>1, <2>2, <2>3
  <2>5. opt[0].count # M.n
    BY <2>2, <2>3, LoopConstants DEF Rests, Holds
  <2>6. Shown(M, stage, s) = N
    BY <1>4, <1>9, <2>5 DEF Shown, N
  <2>7. QED
    BY <2>4, <2>6 DEF Evolves
<1>10. QED
  BY <1>8, <1>9

LEMMA CollectiveOn ==
  ASSUME NEW M, NEW stage, NEW s, OneModelAt(M, stage, s), Counted, Lockstep, strategy \in {"zero2", "ddp"},
         Collective
  PROVE  \E M2, stage2, s2 : OneModelAt(M2, stage2, s2)' /\ Evolves(Shown(M, stage, s), Shown(M2, stage2, s2)')
<1>1. CASE ShardMin \/ BatchesMax
  BY <1>1, PlainCollectives
<1>2. CASE GradReduce
  BY <1>2, GradientsSummed
<1>3. CASE BadCheck
  BY <1>3, PlainCollectives, UpdateBegins
<1>4. CASE ReduceScatterAll
  BY <1>4, GradientsScattered
<1>5. CASE AllGatherAll
  BY <1>5, ShardsGathered
<1>6. CASE Barrier
  BY <1>6, PlainCollectives, UpdateEnds
<1>7. QED
  BY <1>1, <1>2, <1>3, <1>4, <1>5, <1>6 DEF Collective

(***************************************************************************)
(* The job                                                                 *)
(***************************************************************************)
LEMMA FirstOneModel ==
  ASSUME Init
  PROVE  OneModelAt(FirstModel, "rest", 0) /\ Shown(FirstModel, "rest", 0) = FirstModel
<1>1. /\ strategy \in {"zero2", "ddp"} /\ pc = [r \in Rank |-> "start"] /\ step = [r \in Rank |-> 0]
      /\ opt = [r \in Rank |-> NewOptimizer(strategy = "zero2")]
  BY LoopAssumption DEF Init, TrainingInit
<1>2. GoodModel(FirstModel) /\ \A r \in Rank : Rests(strategy, FirstModel, r, opt[r])
  BY <1>1, FirstModelGood
<1>3. FirstModel.l = 0
  BY DEF FirstModel
<1>4. \A r \in Rank : RankAt(strategy, FirstModel, "rest", 0, r, pc[r], step[r], opt[r])
  BY <1>1, <1>2, <1>3 DEF RankAt, OptAt, GradsAt, Stage, PlaceAt, Undone, Gone
<1>5. StageAt(strategy, FirstModel, "rest", 0)
  BY <1>2 DEF StageAt
<1>6. opt = [r \in Rank |-> opt[r]]
  BY <1>1
<1>7. QED
  BY <1>4, <1>5, <1>6 DEF OneModelAt, Shown

LEMMA NextOneModel ==
  ASSUME NEW M, NEW stage, NEW s, OneModelAt(M, stage, s), Counted, Lockstep, [Next]_vars
  PROVE  \E M2, stage2, s2 : OneModelAt(M2, stage2, s2)' /\ Evolves(Shown(M, stage, s), Shown(M2, stage2, s2)')
<1>1. strategy \in {"zero2", "ddp"}
  BY DEF Lockstep, Functions
<1>2. ASSUME NEW r \in Rank, StartRank(r) \/ RankStep(r) \/ RankFails(r) \/ AgentKills(r)
      PROVE  OneModelAt(M, stage, s)' /\ Evolves(Shown(M, stage, s), Shown(M, stage, s)')
  <2>1. Run(r) \/ Start(r) \/ Fail(r) \/ Interrupted(r) \/ Killed(r)
    BY <1>2 DEF StartRank, RankStep, RankFails, AgentKills
  <2>2. QED
    BY <1>1, <2>1, RankOn
<1>3. CASE CollectiveStep
  BY <1>1, <1>3, CollectiveOn DEF CollectiveStep
<1>4. CASE AgentSucceeds \/ AgentStops \/ AgentFails \/ LauncherStep \/ Ended \/ UNCHANGED vars
  <2>1. UNCHANGED <<strategy, pc, step, opt>>
    BY <1>4 DEF AgentSucceeds, AgentStops, AgentFails, LauncherStep, Ended, vars, trainingVars, control
  <2>2. OneModelAt(M, stage, s)' /\ Shown(M, stage, s)' = Shown(M, stage, s)
    BY <2>1 DEF OneModelAt, Shown
  <2>3. QED
    BY <2>2 DEF Evolves
<1>5. QED
  BY <1>2, <1>3, <1>4 DEF Next

-----------------------------------------------------------------------------
(***************************************************************************)
(* What is shown                                                           *)
(***************************************************************************)
\* What Moments and Model make of an optimizer, at slot j of position e.
MomentsOf(o, j, st) == IF o.snapshot = None THEN o.m[j] ELSE {t \in o.m[j] : t[3] < st}

ValueOf(o, e, j, st) ==
  IF o.snapshot = None THEN o.flat[e]
  ELSE IF MomentsOf(o, j, st) = o.m[j] THEN o.snapshot[j]
  ELSE {t \in o.snapshot[j] : t[4] < o.count}

LEMMA ByOwner ==
  ASSUME NEW e
  PROVE  /\ Moments(e) = MomentsOf(opt[Owner(e)], Slot(e), step[Owner(e)])
         /\ Model(e) = ValueOf(opt[Owner(e)], e, Slot(e), step[Owner(e)])
BY DEF Moments, Model, MomentsOf, ValueOf

\* A shard is not None.
LEMMA ShardIsSome ==
  ASSUME NEW r \in Rank, NEW v, NEW j \in 0..ShardSize - 1
  PROVE  MyShard(r, v) # None
<1>1. DOMAIN MyShard(r, v) = 0..ShardSize - 1
  BY DEF MyShard
<1>2. DOMAIN None = {}
  BY DEF None
<1>3. QED
  BY <1>1, <1>2

\* The terms of a model are of the past.
LEMMA PastTerms ==
  ASSUME NEW M, GoodModel(M), NEW s \in Nat, M.l < s, NEW e \in Real
  PROVE  /\ M.l \in Nat /\ M.n \in Nat
         /\ \A t \in M.a[e] : t[3] < s
         /\ \A t \in M.f[e] : t[4] < M.n + 1
<1>1. M.l \in Nat /\ M.n \in Nat
  BY DEF GoodModel
<1>2. \A t \in M.a[e] : t[3] \in 0..M.l
  BY DEF GoodModel
<1>3. \A t \in M.f[e] : t[4] \in 0..M.n
  BY DEF GoodModel
<1>4. QED
  BY <1>1, <1>2, <1>3

\* Outside an update an optimizer shows the model it holds.
LEMMA HeldIsShown ==
  ASSUME NEW kind, NEW M, NEW r \in Rank, NEW o, Holds(kind, M, r, o), NEW st,
         NEW e \in Real, NEW j, IF kind = "zero2" THEN j \in 0..ShardSize - 1 /\ r * ShardSize + j = e ELSE j = e
  PROVE  MomentsOf(o, j, st) = M.a[e] /\ ValueOf(o, e, j, st) = M.f[e]
<1>1. o.snapshot = None /\ o.flat = M.f /\ o.m = Mine(kind, M, r)
  BY DEF Holds
<1>2. Mine(kind, M, r)[j] = M.a[e]
  <2>1. CASE kind = "zero2"
    BY <2>1, ShardAt DEF Mine
  <2>2. CASE kind # "zero2"
    BY <2>2 DEF Mine
  <2>3. QED
    BY <2>1, <2>2
<1>3. QED
  BY <1>1, <1>2 DEF MomentsOf, ValueOf

\* Within one, it shows the model from before it.
LEMMA SavedIsShown ==
  ASSUME NEW M, GoodModel(M), NEW r \in Rank, NEW s \in Nat, M.l < s, NEW o,
         Packed(M, r, s, o) \/ Ready(M, r, s, o), NEW e \in Real,
         NEW j \in 0..ShardSize - 1, r * ShardSize + j = e
  PROVE  MomentsOf(o, j, s) = M.a[e] /\ ValueOf(o, e, j, s) = M.f[e]
<1>1. o.snapshot = MyShard(r, M.f) /\ o.m = MyShard(r, M.a)
  BY DEF Packed, Ready
<1>2. o.snapshot # None /\ o.snapshot[j] = M.f[e] /\ o.m[j] = M.a[e]
  BY <1>1, ShardAt, ShardIsSome
<1>3. \A t \in M.a[e] : t[3] < s
  BY PastTerms
<1>4. MomentsOf(o, j, s) = M.a[e]
  BY <1>2, <1>3 DEF MomentsOf
<1>5. QED
  BY <1>2, <1>4 DEF ValueOf

LEMMA SteppedIsShown ==
  ASSUME NEW M, GoodModel(M), NEW r \in Rank, NEW s \in Nat, M.l < s, NEW o,
         Stepped(M, r, s, o), NEW e \in Real,
         NEW j \in 0..ShardSize - 1, r * ShardSize + j = e
  PROVE  MomentsOf(o, j, s) = M.a[e] /\ ValueOf(o, e, j, s) = M.f[e]
<1> DEFINE N == Updated(M, s)
<1>1. o.snapshot = MyShard(r, N.f) /\ o.m = MyShard(r, N.a) /\ o.count = M.n + 1
  BY DEF Stepped
<1>2. e \in Padded /\ M.n \in Nat /\ M.l \in Nat
  BY ShardType DEF GoodModel
<1>3. N.a[e] = M.a[e] \cup Fresh(e, s)
  BY <1>2 DEF Updated
<1>4. N.f[e] = M.f[e] \cup {<<t[1], t[2], t[3], M.n + 1, M.l>> : t \in N.a[e]}
  BY <1>2, <1>3 DEF Updated, Moved
<1>5. (\A t \in M.a[e] : t[3] < s) /\ \A t \in M.f[e] : t[4] < M.n + 1
  BY PastTerms
<1> HIDE DEF N
<1>6. o.snapshot # None /\ o.snapshot[j] = N.f[e] /\ o.m[j] = N.a[e]
  BY <1>1, ShardAt, ShardIsSome
<1>7. \A t \in Fresh(e, s) : t[3] = s
  BY DEF Fresh
<1>8. <<e, 0, s, 0, 0>> \in Fresh(e, s)
  BY LoopConstants DEF Fresh
<1>9. MomentsOf(o, j, s) = M.a[e]
  <2>1. {t \in N.a[e] : t[3] < s} = M.a[e]
    BY <1>3, <1>5, <1>7
  <2>2. QED
    BY <1>6, <2>1 DEF MomentsOf
<1>10. MomentsOf(o, j, s) # o.m[j]
  <2>1. <<e, 0, s, 0, 0>> \in N.a[e]
    BY <1>3, <1>8
  <2>2. <<e, 0, s, 0, 0>> \notin M.a[e]
    <3>1. <<e, 0, s, 0, 0>>[3] = s
      OBVIOUS
    <3>2. QED
      BY <1>5, <3>1
  <2>3. QED
    BY <1>6, <1>9, <2>1, <2>2
<1>11. {t \in N.f[e] : t[4] < M.n + 1} = M.f[e]
  <2>1. ASSUME NEW t \in N.f[e], t \notin M.f[e]
        PROVE  t[4] = M.n + 1
    <3>1. PICK u \in N.a[e] : t = <<u[1], u[2], u[3], M.n + 1, M.l>>
      BY <1>4, <2>1
    <3>2. QED
      BY <3>1
  <2>2. QED
    BY <1>2, <1>4, <1>5, <2>1
<1>12. ValueOf(o, e, j, s) = M.f[e]
  BY <1>1, <1>6, <1>10, <1>11 DEF ValueOf
<1>13. QED
  BY <1>9, <1>12

LEMMA ModelIsShown ==
  ASSUME NEW M, NEW stage, NEW s, OneModelAt(M, stage, s), strategy \in {"zero2", "ddp"}, NEW e \in Real
  PROVE  Moments(e) = Shown(M, stage, s).a[e] /\ Model(e) = Shown(M, stage, s).f[e]
<1> DEFINE q == Owner(e)
           j == Slot(e)
<1>1. /\ q \in Rank
      /\ IF strategy = "zero2" THEN j \in 0..ShardSize - 1 /\ q * ShardSize + j = e ELSE j = e
      /\ strategy = "ddp" => q = 0
  <2>1. e \in Padded
    BY ShardType
  <2>2. QED
    BY <2>1, ShardPlaces, LoopConstants DEF Owner, Slot
<1>2. Moments(e) = MomentsOf(opt[q], j, step[q]) /\ Model(e) = ValueOf(opt[q], e, j, step[q])
  BY ByOwner
<1> HIDE DEF q, j
<1>3. StageAt(strategy, M, stage, s) /\ OptAt(strategy, M, stage, s, q, pc[q], step[q], opt[q])
      /\ (stage # "rest" => step[q] = s)
  BY <1>1 DEF OneModelAt, RankAt
<1>4. /\ GoodModel(M) /\ s \in Nat
      /\ stage \in IF strategy = "zero2" THEN {"rest", "pack", "gather", "late"} ELSE {"rest", "split"}
      /\ stage \in {"pack", "gather", "split"} => M.l < s
  BY <1>3 DEF StageAt
<1>5. ASSUME NEW N, Holds(strategy, N, q, opt[q])
      PROVE  Moments(e) = N.a[e] /\ Model(e) = N.f[e]
  BY <1>1, <1>2, <1>5, HeldIsShown
<1>6. CASE stage \in {"rest", "late"}
  <2>1. Holds(strategy, M, q, opt[q])
    BY <1>3, <1>6 DEF OptAt, Rests
  <2>2. Shown(M, stage, s) = M
    BY <1>6 DEF Shown
  <2>3. QED
    BY <1>5, <2>1, <2>2
<1>7. CASE stage \in {"pack", "gather"}
  <2>1. strategy = "zero2" /\ M.l < s /\ step[q] = s
    BY <1>3, <1>4, <1>7
  <2>2. Shown(M, stage, s) = M
    BY <1>7 DEF Shown
  <2>3. \/ Holds(strategy, M, q, opt[q])
        \/ Packed(M, q, s, opt[q]) \/ Ready(M, q, s, opt[q]) \/ Stepped(M, q, s, opt[q])
    BY <1>3, <1>7 DEF OptAt, Rests
  <2>4. CASE Holds(strategy, M, q, opt[q])
    BY <1>5, <2>2, <2>4
  <2>5. CASE Packed(M, q, s, opt[q]) \/ Ready(M, q, s, opt[q])
    <3>1. MomentsOf(opt[q], j, s) = M.a[e] /\ ValueOf(opt[q], e, j, s) = M.f[e]
      BY <1>1, <1>4, <2>1, <2>5, SavedIsShown
    <3>2. QED
      BY <1>2, <2>1, <2>2, <3>1
  <2>6. CASE Stepped(M, q, s, opt[q])
    <3>1. MomentsOf(opt[q], j, s) = M.a[e] /\ ValueOf(opt[q], e, j, s) = M.f[e]
      BY <1>1, <1>4, <2>1, <2>6, SteppedIsShown
    <3>2. QED
      BY <1>2, <2>1, <2>2, <3>1
  <2>7. QED
    BY <2>3, <2>4, <2>5, <2>6
<1>8. CASE stage = "split"
  <2> DEFINE N == Updated(M, s)
  <2>1. strategy = "ddp" /\ q = 0
    BY <1>1, <1>4, <1>8
  <2>2. Rests("ddp", M, q, opt[q]) \/ Rests("ddp", N, q, opt[q])
    BY <1>3, <1>8, <2>1 DEF OptAt
  <2>3. N.n = M.n + 1 /\ M.n \in Nat
    BY <1>4 DEF Updated, GoodModel
  <2> HIDE DEF N
  <2>4. CASE Rests("ddp", M, q, opt[q])
    <3>1. Holds(strategy, M, q, opt[q]) /\ opt[0].count = M.n
      BY <2>1, <2>4 DEF Rests, Holds
    <3>2. Shown(M, stage, s) = M
      BY <3>1 DEF Shown
    <3>3. QED
      BY <1>5, <3>1, <3>2
  <2>5. CASE Rests("ddp", N, q, opt[q])
    <3>1. Holds(strategy, N, q, opt[q]) /\ opt[0].count = M.n + 1
      BY <2>1, <2>3, <2>5 DEF Rests, Holds
    <3>2. Shown(M, stage, s) = N
      BY <1>8, <2>3, <3>1 DEF Shown, N
    <3>3. QED
      BY <1>5, <3>1, <3>2
  <2>6. QED
    BY <2>2, <2>4, <2>5
<1>9. QED
  BY <1>4, <1>6, <1>7, <1>8

\* The last update and its step can be read off the parameters.
LEMMA LastOf ==
  ASSUME NEW M, GoodModel(M), NEW m, m = [e \in Real |-> M.f[e]], NEW k \in {3, 4},
         NEW top, top = IF k = 3 THEN M.l ELSE M.n
  PROVE  Max({t[k] : t \in UNION {m[e] : e \in Real}}) = top
<1> DEFINE S == {t[k] : t \in UNION {m[e] : e \in Real}}
<1>1. top \in Nat
  BY DEF GoodModel
<1>2. \A x \in S : x \in 0..top
  <2>1. ASSUME NEW e \in Real, NEW t \in m[e]
        PROVE  t[k] \in 0..top
    <3>1. t \in M.f[e]
      BY <2>1
    <3>2. t[3] \in 0..M.l /\ t[4] \in 0..M.n
      BY <3>1 DEF GoodModel
    <3>3. QED
      BY <3>2
  <2>2. QED
    BY <2>1
<1>3. top \in S
  <2>1. 0 \in Real
    BY OffsetType
  <2>2. (\E t \in M.f[0] : t[3] = M.l) /\ \E t \in M.f[0] : t[4] = M.n
    BY <2>1 DEF GoodModel
  <2>3. PICK t \in m[0] : t[k] = top
    BY <2>1, <2>2
  <2>4. t \in UNION {m[e] : e \in Real}
    BY <2>1, <2>3
  <2>5. QED
    BY <2>3, <2>4
<1> HIDE DEF S
<1>4. \A x \in S : (\A y \in S : x >= y) => x = top
  BY <1>1, <1>2, <1>3
<1>5. \E x \in S : \A y \in S : x >= y
  BY <1>1, <1>2, <1>3
<1>6. Max(S) = top
  BY <1>4, <1>5 DEF Max
<1>7. QED
  BY <1>6 DEF S

LEMMA LastIs ==
  ASSUME NEW M, GoodModel(M), NEW m, m = [e \in Real |-> M.f[e]]
  PROVE  /\ Max({t[3] : t \in UNION {m[e] : e \in Real}}) = M.l
         /\ Max({t[4] : t \in UNION {m[e] : e \in Real}}) = M.n
<1>1. ASSUME NEW k, k = 3
      PROVE  Max({t[k] : t \in UNION {m[e] : e \in Real}}) = M.l
  BY <1>1, LastOf
<1>2. ASSUME NEW k, k = 4
      PROVE  Max({t[k] : t \in UNION {m[e] : e \in Real}}) = M.n
  BY <1>2, LastOf
<1>3. QED
  BY <1>1, <1>2

\* The model that the ranks train together, in a state of the job.
IsModel(m) == GoodModel(m) /\ \A e \in Real : Moments(e) = m.a[e] /\ Model(e) = m.f[e]

ShownIsModel ==
  strategy \in {"zero2", "ddp"} => \A M, stage, s : OneModelAt(M, stage, s) => IsModel(Shown(M, stage, s))

LEMMA AlwaysShown == ShownIsModel
<1> SUFFICES ASSUME strategy \in {"zero2", "ddp"}, NEW M, NEW stage, NEW s, OneModelAt(M, stage, s)
             PROVE  IsModel(Shown(M, stage, s))
  BY DEF ShownIsModel
<1>1. \A e \in Real : Moments(e) = Shown(M, stage, s).a[e] /\ Model(e) = Shown(M, stage, s).f[e]
  BY ModelIsShown
<1>2. GoodModel(Shown(M, stage, s))
  <2>1. GoodModel(M) /\ s \in Nat /\ (stage = "split" => M.l < s)
    BY DEF OneModelAt, StageAt
  <2>2. CASE Shown(M, stage, s) = M
    BY <2>1, <2>2
  <2>3. CASE Shown(M, stage, s) # M
    <3>1. stage = "split" /\ Shown(M, stage, s) = Updated(M, s)
      BY <2>3 DEF Shown
    <3>2. QED
      BY <2>1, <3>1, UpdatedGood
  <2>4. QED
    BY <2>2, <2>3
<1>3. QED
  BY <1>1, <1>2 DEF IsModel

LEMMA AlwaysShownNext == ShownIsModel'
BY AlwaysShown, PTL

\* A model that evolves takes a step of DataParallel.
LEMMA EvolvesRefines ==
  ASSUME NEW m, NEW m2, IsModel(m), IsModel(m2)', Evolves(m, m2)
  PROVE  [Trained!Next]_(Trained!vars)
<1> DEFINE shown == [e \in Real |-> Model(e)]
           absorbed == [e \in Real |-> Moments(e)]
<1>1. /\ shown = [e \in Real |-> m.f[e]] /\ absorbed = [e \in Real |-> m.a[e]]
      /\ shown' = [e \in Real |-> m2.f[e]] /\ absorbed' = [e \in Real |-> m2.a[e]]
      /\ GoodModel(m)
  BY DEF IsModel
<1>2. CASE m2 = m
  <2>1. shown' = shown /\ absorbed' = absorbed
    BY <1>1, <1>2
  <2>2. QED
    BY <2>1 DEF Trained!vars
<1>3. ASSUME NEW s \in 1..MaxSteps, m.l < s, m2 = Updated(m, s)
      PROVE  Trained!Update(s)
  <2>1. /\ Trained!LastUpdate = Max({t[4] : t \in UNION {shown[e] : e \in Real}})
        /\ Trained!LastStep = Max({t[3] : t \in UNION {shown[e] : e \in Real}})
    BY DEF Trained!LastUpdate, Trained!LastStep, Trained!Max, Max
  <2> HIDE DEF shown, absorbed
  <2>2. Trained!LastUpdate = m.n
    BY <1>1, <2>1, LastIs
  <2>3. Trained!LastStep = m.l
    BY <1>1, <2>1, LastIs
  <2>4. \A e \in Real : e \in Padded
    BY ShardType
  <2>5. absorbed' = [e \in Real |-> absorbed[e] \cup {<<e, r, s, 0, 0>> : r \in Rank}]
    BY <1>1, <1>3, <2>4 DEF Updated, Fresh
  <2>6. shown' = [e \in Real |-> shown[e] \cup {<<t[1], t[2], t[3], m.n + 1, m.l>> : t \in absorbed'[e]}]
    BY <1>1, <1>3, <2>4 DEF Updated, Moved
  <2>7. s > m.l
    BY <1>1, <1>3, LoopConstants DEF GoodModel
  <2>8. QED
    BY <2>2, <2>3, <2>5, <2>6, <2>7 DEF Trained!Update, shown, absorbed
<1>4. QED
  BY <1>2, <1>3 DEF Evolves, Trained!Next

(***************************************************************************)
(* Who reads it                                                            *)
(***************************************************************************)
\* A rank that goes on within what it has built.
LEMMA ViewsKept ==
  ASSUME ViewsBuilt, UNCHANGED <<strategy, weights>>,
         \A r \in Rank : pc'[r] \in Unbuilt \cup Gone \/ pc[r] \notin Unbuilt \cup Gone
  PROVE  ViewsBuilt'
BY DEF ViewsBuilt

LEMMA ViewsOn ==
  ASSUME ViewsBuilt, Counted, [Next]_vars
  PROVE  ViewsBuilt'
<1>1. pc = [r \in Rank |-> pc[r]]
  BY DEF Counted, Arrays
<1>2. ASSUME NEW r \in Rank, BuildAndShard(r)
      PROVE  ViewsBuilt'
  <2>1. /\ pc' = [pc EXCEPT ![r] = "shard_min"] /\ strategy' = strategy
        /\ weights' = [weights EXCEPT ![r] = BuildRuntime(strategy = "zero2")]
    BY <1>2 DEF BuildAndShard, Go
  <2> DEFINE views == BuildRuntime(strategy = "zero2")
  <2> HIDE DEF views
  <2>2. /\ weights' = [q \in Rank |-> weights'[q]] /\ weights'[r] = views
        /\ \A q \in Rank \ {r} : weights'[q] = weights[q] /\ pc'[q] = pc[q]
    BY <1>1, <2>1 DEF ViewsBuilt, views
  <2>3. \A q \in Rank : pc'[q] \notin Unbuilt \cup Gone => weights'[q] = views
    BY <2>2 DEF ViewsBuilt, views
  <2>4. views = BuildRuntime(strategy = "zero2")'
    BY <2>1 DEF views, BuildRuntime
  <2>5. QED
    BY <2>2, <2>3, <2>4 DEF ViewsBuilt
<1>3. ASSUME NEW r \in Rank, ~ BuildAndShard(r), Run(r) \/ Start(r) \/ Fail(r) \/ Interrupted(r) \/ Killed(r)
      PROVE  ViewsBuilt'
  <2> USE DEF Unbuilt, Gone, Go, Stay, Rest
  <2>1. UNCHANGED <<strategy, weights>>
    BY <1>3 DEF Run, LoadStudent, Batches, Eval, EvalEnd, Rollout, Loss, Skip, ApplySharded, Optimize, Refresh,
                ApplyWhole, SaveBegin, SaveEnd, NoSave, Cleanup, Start, Fail, Interrupted, Killed
  <2>2. CASE EvalEnd(r) \/ SaveEnd(r) \/ NoSave(r)
    <3>1. PICK p : pc' = [pc EXCEPT ![r] = p]
      BY <2>2 DEF EvalEnd, SaveEnd, NoSave, MoveOn
    <3>2. pc[r] \notin Unbuilt \cup Gone
      BY <2>2 DEF EvalEnd, SaveEnd, NoSave
    <3>3. QED
      BY <1>1, <2>1, <3>1, <3>2, ViewsKept
  <2>3. CASE Batches(r) \/ Eval(r) \/ Rollout(r) \/ Loss(r) \/ Skip(r) \/ ApplySharded(r) \/ Optimize(r)
               \/ Refresh(r) \/ ApplyWhole(r) \/ SaveBegin(r)
    <3>1. PICK p : pc' = [pc EXCEPT ![r] = p]
      BY <2>3 DEF Batches, Eval, Rollout, Loss, Skip, ApplySharded, Optimize, Refresh, ApplyWhole, SaveBegin
    <3>2. pc[r] \notin Unbuilt \cup Gone
      BY <2>3 DEF Batches, Eval, Rollout, Loss, Skip, ApplySharded, Optimize, Refresh, ApplyWhole, SaveBegin
    <3>3. QED
      BY <1>1, <2>1, <3>1, <3>2, ViewsKept
  <2>4. CASE LoadStudent(r) \/ Start(r) \/ Cleanup(r) \/ Fail(r) \/ Interrupted(r) \/ Killed(r)
    <3>1. PICK p \in Unbuilt \cup Gone : pc' = [pc EXCEPT ![r] = p]
      BY <2>4 DEF LoadStudent, Start, Cleanup, Fail, Interrupted, Killed
    <3>2. QED
      BY <1>1, <2>1, <3>1, ViewsKept
  <2>5. QED
    BY <1>3, <2>2, <2>3, <2>4 DEF Run
<1>4. CASE CollectiveStep
  <2> USE DEF Unbuilt, Gone, Stay, Rest, Complete
  <2>1. UNCHANGED <<strategy, weights>>
    BY <1>4 DEF CollectiveStep, Collective, ShardMin, BatchesMax, GradReduce, BadCheck, ReduceScatterAll, AllGatherAll, Barrier
  <2>2. \A r \in Rank : pc'[r] \in Unbuilt \cup Gone \/ pc[r] \notin Unbuilt \cup Gone
    BY <1>4 DEF CollectiveStep, Collective, ShardMin, BatchesMax, GradReduce, BadCheck, ReduceScatterAll, AllGatherAll, Barrier
  <2>3. QED
    BY <2>1, <2>2, ViewsKept
<1>5. CASE AgentSucceeds \/ AgentStops \/ AgentFails \/ LauncherStep \/ Ended \/ UNCHANGED vars
  <2>1. UNCHANGED <<strategy, weights, pc>>
    BY <1>5 DEF AgentSucceeds, AgentStops, AgentFails, LauncherStep, Ended, vars, trainingVars, control
  <2>2. QED
    BY <2>1 DEF ViewsBuilt
<1>6. QED
  BY <1>2, <1>3, <1>4, <1>5 DEF Next, StartRank, RankStep, RankFails, AgentKills

\* All tensors of the student, the engine and its graphs show the parameters
\* where the optimizer has them.
LEMMA ViewsAre ==
  ASSUME NEW sharded \in BOOLEAN
  PROVE  LET views == BuildRuntime(sharded)
             Sees(view, i) == view = [storage |-> IF sharded THEN "flat" ELSE "own", at |-> Offset(i)]
         IN /\ \A i \in Param : Sees(views.student[i], i)
            /\ \A n \in EngineName : /\ ParamOfEngine(n) \in Param
                                     /\ Sees(views.engine[n], ParamOfEngine(n))
                                     /\ Sees(views.graph[n], ParamOfEngine(n))
<1> DEFINE student == IF sharded THEN FlatViews ELSE OwnViews
           engine == ShareWeights(NewEngine, student)
           View(i) == [storage |-> IF sharded THEN "flat" ELSE "own", at |-> Offset(i)]
<1>1. \A i \in Param : student[i] = View(i)
  BY DEF FlatViews, OwnViews
<1>2. 1 \in Param /\ Len(Parts) \in Param /\ Param \subseteq EngineName /\ 0 \notin Param
  BY PartsAssumption DEF Param, EngineName
<1>3. \A n \in EngineName : ParamOfEngine(n) \in Param
  BY <1>2 DEF EngineName, ParamOfEngine
<1> HIDE DEF student
<1>4. engine = [n \in EngineName |-> student[ParamOfEngine(n)]]
  BY DEF ShareWeights, NewEngine
<1> HIDE DEF engine
<1>5. \A n \in EngineName : ReadBy(engine)[n] = student[ParamOfEngine(n)]
  BY <1>2, <1>4 DEF ReadBy, ParamOfEngine
<1>6. BuildRuntime(sharded) = [student |-> student, engine |-> ReadBy(engine), graph |-> ReadBy(engine)]
  BY DEF BuildRuntime, student, engine
<1>7. \A i \in Param : BuildRuntime(sharded).student[i] = View(i)
  BY <1>1, <1>6
<1>8. \A n \in EngineName : /\ BuildRuntime(sharded).engine[n] = View(ParamOfEngine(n))
                            /\ BuildRuntime(sharded).graph[n] = View(ParamOfEngine(n))
  BY <1>1, <1>3, <1>5, <1>6
<1>9. QED
  BY <1>3, <1>7, <1>8

LEMMA ReadersRead ==
  ASSUME OneModel, ViewsBuilt, strategy \in {"zero2", "ddp"}
  PROVE  ReadsTheModel
<1> DEFINE sharded == strategy = "zero2"
<1>1. ASSUME NEW r \in Rank, pc[r] \in {"eval", "rollout", "loss", "saving"},
             NEW view, NEW i \in Param, view = [storage |-> IF sharded THEN "flat" ELSE "own", at |-> Offset(i)]
      PROVE  Shows(r, view, i)
  <2>1. PICK M, stage, s : OneModelAt(M, stage, s)
    BY DEF OneModel
  <2>2. pc[r] \notin Gone /\ Stage(strategy, pc[r]) = "rest"
    BY <1>1 DEF Gone, Stage
  <2>3. stage = "rest" /\ Rests(strategy, M, r, opt[r])
    BY <2>1, <2>2 DEF OneModelAt, RankAt, OptAt
  <2>4. opt[r].flat = M.f /\ Shown(M, stage, s) = M
    BY <2>3 DEF Rests, Holds, Shown
  <2>5. ASSUME NEW k \in 0..Numel[i] - 1
        PROVE  Row(opt[r], sharded, view, k) = Model(Offset(i) + k)
    <3> DEFINE e == Offset(i) + k
    <3>1. e \in Real
      <4>1. e \in RowsOf(i)
        BY NumelType, OffsetType DEF RowsOf
      <4>2. QED
        BY <4>1, ParamOfIs
    <3>2. Model(e) = M.f[e]
      BY <2>1, <2>4, <3>1, ModelIsShown
    <3>3. Row(opt[r], sharded, view, k) = opt[r].flat[e]
      <4>1. CASE sharded
        BY <1>1, <4>1 DEF Row
      <4>2. CASE ~ sharded
        BY <1>1, <4>2 DEF Row
      <4>3. QED
        BY <4>1, <4>2
    <3>4. QED
      BY <2>4, <3>2, <3>3
  <2>6. QED
    BY <2>5 DEF Shows
<1>2. ASSUME NEW r \in Rank, pc[r] \in {"eval", "rollout", "loss", "saving"}
      PROVE  weights[r] = BuildRuntime(sharded)
  BY <1>2 DEF ViewsBuilt, Unbuilt, Gone
<1> HIDE DEF Shows
<1>3. ASSUME NEW r \in Rank, pc[r] \in {"eval", "rollout"}, NEW n \in EngineName
      PROVE  /\ Shows(r, weights[r].engine[n], ParamOfEngine(n))
             /\ Shows(r, weights[r].graph[n], ParamOfEngine(n))
  BY <1>1, <1>2, <1>3, ViewsAre
<1>4. ASSUME NEW r \in Rank, pc[r] \in {"loss", "saving"}, NEW i \in Param
      PROVE  Shows(r, weights[r].student[i], i)
  BY <1>1, <1>2, <1>4, ViewsAre
<1>5. QED
  BY <1>3, <1>4 DEF ReadsTheModel

(***************************************************************************)
(* What is on disk                                                         *)
(***************************************************************************)
\* The updates of the steps up to s, and the model with none after them.
UpdatesOf(m, s) == Cardinality({t[3] : t \in {u \in m.a[0] : u[3] <= s}})

AsOfIn(m, s) == [e \in Real |-> {t \in m.f[e] : t[4] <= UpdatesOf(m, s)}]

AsOfIsIn == \A m : IsModel(m) => \A s : [e \in Real |-> AsOf(s, e)] = AsOfIn(m, s)

LEMMA AlwaysAsOf == AsOfIsIn
<1> SUFFICES ASSUME NEW m, IsModel(m), NEW s PROVE [e \in Real |-> AsOf(s, e)] = AsOfIn(m, s)
  BY DEF AsOfIsIn
<1>1. Moments(0) = m.a[0]
  BY OffsetType DEF IsModel
<1>2. UpdatesUpTo(s) = UpdatesOf(m, s)
  BY <1>1 DEF UpdatesUpTo, UpdatesOf
<1>3. \A e \in Real : AsOf(s, e) = {t \in m.f[e] : t[4] <= UpdatesOf(m, s)}
  BY <1>2 DEF AsOf, IsModel
<1>4. QED
  BY <1>3 DEF AsOfIn

LEMMA AlwaysAsOfNext == AsOfIsIn'
BY AlwaysAsOf, PTL

\* Updates of later steps leave it alone.
LEMMA PastKept ==
  ASSUME NEW m, GoodModel(m), NEW x \in Nat, m.l < x, NEW s \in Nat, s < x
  PROVE  AsOfIn(Updated(m, x), s) = AsOfIn(m, s)
<1> DEFINE N == Updated(m, x)
           T == {t[3] : t \in {u \in m.a[0] : u[3] <= s}}
<1>1. /\ N.a[0] = m.a[0] \cup Fresh(0, x)
      /\ \A e \in Real : N.f[e] = m.f[e] \cup {<<t[1], t[2], t[3], m.n + 1, m.l>> : t \in N.a[e]}
  <2>1. 0 \in Real /\ \A e \in Real : e \in Padded
    BY OffsetType, ShardType
  <2>2. QED
    BY <2>1 DEF Updated, Moved
<1> HIDE DEF N
<1>2. {u \in N.a[0] : u[3] <= s} = {u \in m.a[0] : u[3] <= s}
  <2>1. \A u \in Fresh(0, x) : ~ (u[3] <= s)
    BY DEF Fresh
  <2>2. QED
    BY <1>1, <2>1
<1>3. UpdatesOf(N, s) = Cardinality(T) /\ UpdatesOf(m, s) = Cardinality(T)
  BY <1>2 DEF UpdatesOf
<1>4. m.n \in Nat /\ Cardinality(T) \in Nat /\ Cardinality(T) <= m.n
  <2> DEFINE U == {t[3] : t \in m.a[0]}
  <2>1. m.n \in Nat /\ IsFiniteSet(U) /\ Cardinality(U) = m.n
    BY DEF GoodModel
  <2>2. T \in SUBSET U
    OBVIOUS
  <2> HIDE DEF U, T
  <2>3. IsFiniteSet(T) /\ Cardinality(T) <= Cardinality(U)
    BY <2>1, <2>2, FS_Subset
  <2>4. QED
    BY <2>1, <2>3, FS_CardinalityType
<1> HIDE DEF T
<1>5. ASSUME NEW e \in Real
      PROVE  {t \in N.f[e] : t[4] <= Cardinality(T)} = {t \in m.f[e] : t[4] <= Cardinality(T)}
  <2>1. ASSUME NEW t \in N.f[e], t \notin m.f[e]
        PROVE  ~ (t[4] <= Cardinality(T))
    <3>1. PICK u \in N.a[e] : t = <<u[1], u[2], u[3], m.n + 1, m.l>>
      BY <1>1, <2>1
    <3>2. t[4] = m.n + 1
      BY <3>1
    <3>3. QED
      BY <1>4, <3>2
  <2>2. QED
    BY <1>1, <2>1
<1>6. QED
  BY <1>3, <1>5 DEF AsOfIn, N

LEMMA PresentKept ==
  ASSUME NEW m, GoodModel(m), NEW s \in Nat, m.l <= s
  PROVE  AsOfIn(m, s) = [e \in Real |-> m.f[e]]
<1>1. \A u \in m.a[0] : u[3] <= s
  <2>1. 0 \in Real /\ m.l \in Nat
    BY OffsetType DEF GoodModel
  <2>2. \A u \in m.a[0] : u[3] \in 0..m.l
    BY <2>1 DEF GoodModel
  <2>3. QED
    BY <2>1, <2>2
<1>2. {u \in m.a[0] : u[3] <= s} = m.a[0]
  BY <1>1
<1>3. UpdatesOf(m, s) = m.n /\ m.n \in Nat
  BY <1>2 DEF UpdatesOf, GoodModel
<1>4. ASSUME NEW e \in Real
      PROVE  {t \in m.f[e] : t[4] <= m.n} = m.f[e]
  <2>1. \A t \in m.f[e] : t[4] \in 0..m.n
    BY DEF GoodModel
  <2>2. QED
    BY <1>3, <2>1
<1>5. QED
  BY <1>3, <1>4 DEF AsOfIn

\* A checkpoint of step s, when rank 0 is at place p of step st: its values
\* are v.
CheckpointAt(s, checkpoint, st, p, v) ==
  /\ checkpoint.state = "partial" => st = s /\ p \in {"saving"} \cup Gone
  /\ checkpoint.state = "whole" =>
       s <= st /\ (s = st => p \notin Undone) /\ checkpoint.of = Unfuse(AsParams(v))

OnDisk ==
  /\ disk = [s \in 1..MaxSteps |-> disk[s]]
  /\ \A r \in Rank : pc[r] = "saving" => r = 0
  /\ \A s \in 1..MaxSteps : CheckpointAt(s, disk[s], step[0], pc[0], [e \in Real |-> AsOf(s, e)])

LEMMA OnDiskSuffices == OnDisk => CheckpointsAreTheModel
<1> SUFFICES ASSUME OnDisk PROVE CheckpointsAreTheModel
  OBVIOUS
<1>1. ASSUME NEW s \in 1..MaxSteps, disk[s].state = "whole"
      PROVE  /\ \A n \in Name : disk[s].of[n] = [k \in 1..PartSize(n) |-> AsOf(s, PartOffset(n) + k - 1)]
             /\ \A order \in FileOrders :
                  LET got == LoadWeight(disk[s].of, order)
                  IN got.complete /\ got.params = [i \in Param |-> [k \in 1..Numel[i] |-> AsOf(s, Offset(i) + k - 1)]]
  <2> DEFINE v == [e \in Real |-> AsOf(s, e)]
  <2>1. disk[s].of = Unfuse(AsParams(v))
    BY <1>1 DEF OnDisk, CheckpointAt
  <2>2. \A e \in Real : v[e] = AsOf(s, e)
    OBVIOUS
  <2> HIDE DEF v
  <2>3. \A n \in Name : disk[s].of[n] = [k \in 1..PartSize(n) |-> AsOf(s, PartOffset(n) + k - 1)]
    BY <2>1, <2>2, Checkpointed
  <2>4. AsParams(v) = [i \in Param |-> [k \in 1..Numel[i] |-> AsOf(s, Offset(i) + k - 1)]]
    <3> DEFINE X == {v[e] : e \in Real}
    <3>1. \A e \in Real : v[e] \in X
      OBVIOUS
    <3> HIDE DEF X
    <3>2. \A i \in Param : \A k \in 1..Numel[i] : Offset(i) + k - 1 \in Real
      BY <3>1, AsParamsType
    <3>3. QED
      BY <2>2, <3>2 DEF AsParams
  <2>5. \A order \in FileOrders : LoadWeight(disk[s].of, order) = [complete |-> TRUE, params |-> AsParams(v)]
    BY <2>1, Checkpointed, FileOrdersAssumption
  <2>6. \A order \in FileOrders :
          /\ LoadWeight(disk[s].of, order).complete
          /\ LoadWeight(disk[s].of, order).params = AsParams(v)
    BY <2>5
  <2>7. QED
    BY <2>3, <2>4, <2>6
<1>2. \A s \in 1..MaxSteps : disk[s].state = "partial" => step[0] = s /\ pc[0] \in {"saving"} \cup Gone
  BY DEF OnDisk, CheckpointAt
<1>3. QED
  BY <1>1, <1>2 DEF CheckpointsAreTheModel

\* A step of a rank: it is done with its update before it goes to the next
\* step, and what it leaves half written it completes or ends with.
LEMMA RankMoves ==
  ASSUME Counted, NEW r \in Rank, Run(r) \/ Start(r) \/ Fail(r) \/ Interrupted(r) \/ Killed(r)
  PROVE  \E p, st : /\ pc' = [pc EXCEPT ![r] = p] /\ step' = [step EXCEPT ![r] = st]
                    /\ step[r] < st \/ (st = step[r] /\ (p \in Undone => pc[r] \in Undone))
                    /\ p = "saving" => SaveBegin(r)
                    /\ pc[r] \in {"saving"} \cup Gone => SaveEnd(r) \/ (st = step[r] /\ p \in Gone)
                    /\ disk' = disk \/ SaveBegin(r) \/ SaveEnd(r)
<1> USE DEF Go, Stay, Rest
<1>1. step = [step EXCEPT ![r] = step[r]] /\ step[r] \in Nat
  BY SameAt, LoopConstants DEF Counted, CountsAt
<1>2. CASE EvalEnd(r) \/ SaveEnd(r) \/ NoSave(r)
  <2>1. PICK to : /\ to = AfterEval(step[r], phase[r], steps[r]) \/ to = AfterSave(step[r], phase[r], steps[r])
                  /\ MoveOn(r, to)
    BY <1>2 DEF EvalEnd, SaveEnd, NoSave
  <2>2. \/ to.pc \in {"finish", "eval", "final_barrier"} /\ to.step = step[r]
        \/ to.pc = "rollout" /\ to.step = step[r] + 1
    <3>1. LET on == Onward(step[r], steps[r])
          IN \/ on.pc \in {"finish", "eval"} /\ on.step = step[r]
             \/ on.pc = "rollout" /\ on.step = step[r] + 1
      BY DEF Onward
    <3>2. QED
      BY <2>1, <3>1 DEF AfterEval, AfterSave
  <2>3. pc' = [pc EXCEPT ![r] = to.pc] /\ step' = [step EXCEPT ![r] = to.step]
    BY <2>1 DEF MoveOn
  <2>4. disk' = disk \/ SaveEnd(r)
    BY <1>2 DEF EvalEnd, NoSave
  <2>5. pc[r] \in {"saving"} \cup Gone => SaveEnd(r)
    BY <1>2 DEF EvalEnd, NoSave, Gone
  <2>6. step[r] < to.step \/ (to.step = step[r] /\ (to.pc \in Undone => pc[r] \in Undone))
    BY <1>1, <2>2 DEF Undone
  <2>7. to.pc # "saving"
    BY <2>2
  <2>8. QED
    BY <2>3, <2>4, <2>5, <2>6, <2>7
<1>3. ASSUME NEW p, pc' = [pc EXCEPT ![r] = p], step' = step, p \in Undone => pc[r] \in Undone,
             p = "saving" => SaveBegin(r), pc[r] \in {"saving"} \cup Gone => p \in Gone, disk' = disk \/ SaveBegin(r)
      PROVE  \E q, st : /\ pc' = [pc EXCEPT ![r] = q] /\ step' = [step EXCEPT ![r] = st]
                        /\ step[r] < st \/ (st = step[r] /\ (q \in Undone => pc[r] \in Undone))
                        /\ q = "saving" => SaveBegin(r)
                        /\ pc[r] \in {"saving"} \cup Gone => SaveEnd(r) \/ (st = step[r] /\ q \in Gone)
                        /\ disk' = disk \/ SaveBegin(r) \/ SaveEnd(r)
  BY <1>1, <1>3
<1>4. CASE Start(r) \/ LoadStudent(r) \/ BuildAndShard(r) \/ Batches(r) \/ Eval(r) \/ Skip(r)
  <2>1. PICK p \in {"init", "ddp_init", "build", "shard_min", "batches_max", "eval_reduce", "train_barrier"} :
          pc' = [pc EXCEPT ![r] = p]
    BY <1>4 DEF Start, LoadStudent, BuildAndShard, Batches, Eval, Skip
  <2>2. step' = step /\ disk' = disk /\ pc[r] \notin {"saving"} \cup Gone
    BY <1>4 DEF Start, LoadStudent, BuildAndShard, Batches, Eval, Skip, Gone
  <2>3. QED
    BY <1>3, <2>1, <2>2 DEF Undone
<1>5. CASE Rollout(r) \/ Loss(r) \/ ApplySharded(r) \/ Optimize(r)
  <2>1. PICK p \in {"rollout_barrier", "grad_reduce", "bad_check", "reduce_scatter", "all_gather"} :
          pc' = [pc EXCEPT ![r] = p]
    BY <1>5 DEF Rollout, Loss, ApplySharded, Optimize
  <2>2. step' = step /\ disk' = disk /\ pc[r] \in Undone /\ pc[r] \notin {"saving"} \cup Gone
    BY <1>5 DEF Rollout, Loss, ApplySharded, Optimize, Undone, Gone
  <2>3. QED
    BY <1>3, <2>1, <2>2
<1>6. CASE Refresh(r) \/ ApplyWhole(r)
  <2>1. pc' = [pc EXCEPT ![r] = "refresh_barrier"] /\ step' = step /\ disk' = disk /\ pc[r] \notin {"saving"} \cup Gone
    BY <1>6 DEF Refresh, ApplyWhole, Gone
  <2>2. QED
    BY <1>3, <2>1 DEF Undone
<1>7. CASE SaveBegin(r)
  <2>1. pc' = [pc EXCEPT ![r] = "saving"] /\ step' = step /\ pc[r] \notin {"saving"} \cup Gone
    BY <1>7 DEF SaveBegin, Gone
  <2>2. QED
    BY <1>3, <1>7, <2>1 DEF Undone
<1>8. CASE Cleanup(r) \/ Fail(r) \/ Interrupted(r) \/ Killed(r)
  <2>1. PICK p \in Gone : pc' = [pc EXCEPT ![r] = p]
    BY <1>8 DEF Cleanup, Fail, Interrupted, Killed, Gone
  <2>2. step' = step /\ disk' = disk
    BY <1>8 DEF Cleanup, Fail, Interrupted, Killed
  <2>3. p # "saving" /\ p \notin Undone
    BY DEF Gone, Undone
  <2>4. QED
    BY <1>3, <2>1, <2>2, <2>3
<1>9. QED
  BY <1>2, <1>4, <1>5, <1>6, <1>7, <1>8 DEF Run

LEMMA ZeroMovesTogether ==
  ASSUME Counted, CollectiveStep
  PROVE  /\ step[0] < step'[0] \/ (step'[0] = step[0] /\ (pc'[0] \in Undone => pc[0] \in Undone))
         /\ pc[0] \notin {"saving"} \cup Gone /\ (\A r \in Rank : pc'[r] # "saving") /\ disk' = disk
<1> USE DEF Complete, Stay, Rest
<1>1. /\ CountsAt(pc[0], step[0], phase[0], examples[0], steps[0], code[0])
      /\ step[0] \in Nat /\ 0 \in Rank
  BY LoopConstants DEF Counted, CountsAt
<1>2. CASE BatchesMax
  <2> DEFINE n  == TotalSteps(Max({steps[q] : q \in Rank}))
             to == IF SkipEval THEN Onward(0, n) ELSE [pc |-> "eval", step |-> 0, phase |-> "before"]
  <2>1. /\ \A r \in Rank : pc[r] = "batches_max"
        /\ pc' = [r \in Rank |-> to.pc] /\ step' = [r \in Rank |-> to.step] /\ UNCHANGED disk
    BY <1>2 DEF BatchesMax
  <2>2. \/ to.pc \in {"finish", "eval"} /\ to.step = 0
        \/ to.pc = "rollout" /\ to.step = 1
    BY DEF Onward
  <2> HIDE DEF n, to
  <2>3. step[0] = 0 /\ pc'[0] = to.pc /\ step'[0] = to.step /\ pc[0] = "batches_max"
    BY <1>1, <2>1 DEF CountsAt, EarlyPlaces
  <2>4. \A r \in Rank : pc'[r] = to.pc
    BY <2>1
  <2>5. QED
    BY <2>1, <2>2, <2>3, <2>4 DEF Undone, Gone
<1>3. CASE ~ BatchesMax
  <2>1. UNCHANGED <<step, disk>>
    BY <1>3 DEF CollectiveStep, Collective, ShardMin, GradReduce, BadCheck, ReduceScatterAll, AllGatherAll, Barrier
  <2>2. pc[0] \in Collectives
    BY <1>1, <1>3 DEF CollectiveStep, Collective, ShardMin, GradReduce, BadCheck, ReduceScatterAll, AllGatherAll,
                      Barrier, Collectives
  <2>3. pc'[0] \in Undone => pc[0] \in Undone
    BY <1>1, <1>3 DEF CollectiveStep, Collective, ShardMin, GradReduce, BadCheck, ReduceScatterAll, AllGatherAll,
                      Barrier, Undone
  <2>4. \A r \in Rank : pc'[r] # "saving"
    BY <1>3 DEF CollectiveStep, Collective, ShardMin, GradReduce, BadCheck, ReduceScatterAll, AllGatherAll, Barrier
  <2>5. QED
    BY <1>1, <2>1, <2>2, <2>3, <2>4 DEF Collectives, Gone
<1>4. QED
  BY <1>2, <1>3

\* The same of rank 0 in any step of the job.
ZeroMoves ==
  /\ step[0] < step'[0] \/ (step'[0] = step[0] /\ (pc'[0] \in Undone => pc[0] \in Undone))
  /\ \A r \in Rank : pc'[r] = "saving" => r = 0
  /\ \/ disk' = disk /\ (pc[0] \in {"saving"} \cup Gone => step'[0] = step[0] /\ pc'[0] \in {"saving"} \cup Gone)
     \/ SaveBegin(0) \/ SaveEnd(0)

LEMMA ZeroMovesOn ==
  ASSUME Counted, \A r \in Rank : pc[r] = "saving" => r = 0, [Next]_vars
  PROVE  ZeroMoves
<1>1. /\ pc = [r \in Rank |-> pc[r]] /\ step = [r \in Rank |-> step[r]] /\ 0 \in Rank
      /\ \A r \in Rank : step[r] \in Nat
  BY LoopConstants DEF Counted, Arrays, CountsAt
<1>2. ASSUME NEW r \in Rank, StartRank(r) \/ RankStep(r) \/ RankFails(r) \/ AgentKills(r)
      PROVE  ZeroMoves
  <2>1. Run(r) \/ Start(r) \/ Fail(r) \/ Interrupted(r) \/ Killed(r)
    BY <1>2 DEF StartRank, RankStep, RankFails, AgentKills
  <2>2. PICK p, st : /\ pc' = [pc EXCEPT ![r] = p] /\ step' = [step EXCEPT ![r] = st]
                     /\ step[r] < st \/ (st = step[r] /\ (p \in Undone => pc[r] \in Undone))
                     /\ p = "saving" => SaveBegin(r)
                     /\ pc[r] \in {"saving"} \cup Gone => SaveEnd(r) \/ (st = step[r] /\ p \in Gone)
                     /\ disk' = disk \/ SaveBegin(r) \/ SaveEnd(r)
    BY <2>1, RankMoves
  <2>3. SaveBegin(r) \/ SaveEnd(r) => r = 0
    BY DEF SaveBegin, SaveEnd, SaveDue
  <2>4. \A q \in Rank : pc'[q] = "saving" => q = 0
    BY <1>1, <2>2, <2>3
  <2>5. CASE r = 0
    <3>1. pc'[0] = p /\ step'[0] = st
      BY <1>1, <2>2, <2>5
    <3>2. QED
      BY <2>2, <2>4, <2>5, <3>1 DEF ZeroMoves
  <2>6. CASE r # 0
    <3>1. pc'[0] = pc[0] /\ step'[0] = step[0] /\ disk' = disk
      BY <1>1, <2>2, <2>3, <2>6
    <3>2. QED
      BY <2>4, <3>1 DEF ZeroMoves
  <2>7. QED
    BY <2>5, <2>6
<1>3. CASE CollectiveStep
  BY <1>3, ZeroMovesTogether DEF ZeroMoves
<1>4. CASE AgentSucceeds \/ AgentStops \/ AgentFails \/ LauncherStep \/ Ended \/ UNCHANGED vars
  <2>1. UNCHANGED <<pc, step, disk>>
    BY <1>4 DEF AgentSucceeds, AgentStops, AgentFails, LauncherStep, Ended, vars, trainingVars, control
  <2>2. QED
    BY <1>1, <2>1 DEF ZeroMoves
<1>5. QED
  BY <1>2, <1>3, <1>4 DEF Next

\* What rank 0 writes is the model.
LEMMA SavedIsModel ==
  ASSUME ReadsTheModel, pc[0] = "saving", NEW m, IsModel(m)
  PROVE  Params(opt[0], strategy = "zero2", weights[0].student) = AsParams([e \in Real |-> m.f[e]])
<1> DEFINE v == [e \in Real |-> m.f[e]]
           X == {v[e] : e \in Real}
           z == strategy = "zero2"
           written == Params(opt[0], z, weights[0].student)
<1>1. \A e \in Real : v[e] = m.f[e] /\ v[e] \in X
  OBVIOUS
<1> HIDE DEF v, X
<1>2. \A i \in Param : \A k \in 1..Numel[i] : Offset(i) + k - 1 \in Real
  BY <1>1, AsParamsType
<1>3. ASSUME NEW i \in Param, NEW k \in 1..Numel[i]
      PROVE  Row(opt[0], z, weights[0].student[i], k - 1) = v[Offset(i) + k - 1]
  <2>1. Shows(0, weights[0].student[i], i)
    BY LoopConstants DEF ReadsTheModel
  <2>2. Numel[i] \in Nat /\ Offset(i) \in Nat
    BY NumelType, OffsetType
  <2>3. k - 1 \in 0..Numel[i] - 1 /\ Offset(i) + (k - 1) = Offset(i) + k - 1
    BY <2>2
  <2>4. Row(opt[0], z, weights[0].student[i], k - 1) = Model(Offset(i) + (k - 1))
    BY <2>1, <2>3 DEF Shows
  <2>5. Model(Offset(i) + k - 1) = m.f[Offset(i) + k - 1]
    BY <1>2 DEF IsModel
  <2>6. QED
    BY <1>1, <1>2, <2>3, <2>4, <2>5
<1>4. written = AsParams(v)
  <2>1. written = [i \in Param |-> [k \in 1..Numel[i] |-> Row(opt[0], z, weights[0].student[i], k - 1)]]
    BY DEF Params
  <2> HIDE DEF written
  <2>2. QED
    BY <1>3, <2>1 DEF AsParams
<1>5. QED
  BY <1>4 DEF v

LEMMA OnDiskOn ==
  ASSUME OnDisk, Counted, [Next]_vars, ReadsTheModel,
         NEW m, NEW m2, IsModel(m), IsModel(m2)', Evolves(m, m2), pc[0] = "saving" => m.l <= step[0]
  PROVE  OnDisk'
<1> DEFINE v(s) == [e \in Real |-> AsOf(s, e)]
<1>1. \A s : v(s) = AsOfIn(m, s) /\ v(s)' = AsOfIn(m2, s)
  BY AlwaysAsOf, AlwaysAsOfNext DEF AsOfIsIn
<1> HIDE DEF v
<1>2. /\ disk = [s \in 1..MaxSteps |-> disk[s]] /\ \A r \in Rank : pc[r] = "saving" => r = 0
      /\ \A s \in 1..MaxSteps : CheckpointAt(s, disk[s], step[0], pc[0], v(s))
  BY DEF OnDisk, v
<1>3. ZeroMoves
  BY <1>2, ZeroMovesOn
<1>4. /\ pc = [r \in Rank |-> pc[r]] /\ step = [r \in Rank |-> step[r]] /\ 0 \in Rank /\ MaxSteps \in Nat
      /\ step[0] \in 0..MaxSteps /\ step'[0] \in 0..MaxSteps
  BY LoopConstants, NextCounted DEF Counted, Arrays, CountsAt
<1>5. ASSUME NEW s \in 1..MaxSteps, disk[s].state = "whole"
      PROVE  /\ s <= step'[0] /\ (s = step'[0] => pc'[0] \notin Undone)
             /\ disk[s].of = Unfuse(AsParams(v(s)'))
  <2>1. s <= step[0] /\ (s = step[0] => pc[0] \notin Undone) /\ disk[s].of = Unfuse(AsParams(v(s)))
    BY <1>2, <1>5 DEF CheckpointAt
  <2>2. s <= step'[0] /\ (s = step'[0] => pc'[0] \notin Undone)
    BY <1>3, <1>4, <2>1 DEF ZeroMoves
  <2>3. AsOfIn(m2, s) = AsOfIn(m, s)
    <3>1. CASE m2 = m
      BY <3>1
    <3>2. CASE pc[0] \in Undone /\ m.l < step[0] /\ m2 = Updated(m, step[0])
      <4>1. s < step[0] /\ s \in Nat /\ step[0] \in Nat
        BY <1>4, <2>1, <3>2
      <4>2. QED
        BY <3>2, <4>1, PastKept DEF IsModel
    <3>3. QED
      BY <3>1, <3>2 DEF Evolves
  <2>4. QED
    BY <1>1, <2>1, <2>2, <2>3
<1>6. \A s \in 1..MaxSteps : disk[s].state = "partial" => step[0] = s /\ pc[0] \in {"saving"} \cup Gone
  BY <1>2 DEF CheckpointAt
<1>7. CASE disk' = disk /\ (pc[0] \in {"saving"} \cup Gone => step'[0] = step[0] /\ pc'[0] \in {"saving"} \cup Gone)
  <2>1. \A s \in 1..MaxSteps : CheckpointAt(s, disk[s], step'[0], pc'[0], v(s)')
    BY <1>5, <1>6, <1>7 DEF CheckpointAt
  <2>2. QED
    BY <1>2, <1>3, <1>7, <2>1 DEF OnDisk, ZeroMoves, v
<1>8. CASE SaveBegin(0)
  <2>1. /\ pc[0] \in {"end_step", "finish"} /\ pc'[0] = "saving" /\ step'[0] = step[0]
        /\ disk' = [disk EXCEPT ![step[0]] = [state |-> "partial", of |-> None]]
    BY <1>4, <1>8 DEF SaveBegin, Stay
  <2>2. ASSUME NEW s \in 1..MaxSteps
        PROVE  CheckpointAt(s, disk'[s], step'[0], pc'[0], v(s)')
    <3>1. CASE s = step[0]
      BY <1>2, <2>1, <3>1 DEF CheckpointAt
    <3>2. CASE s # step[0]
      <4>1. disk'[s] = disk[s] /\ disk[s].state # "partial"
        BY <1>2, <1>6, <2>1, <3>2
      <4>2. QED
        BY <1>5, <4>1 DEF CheckpointAt
    <3>3. QED
      BY <3>1, <3>2
  <2>3. disk' = [s \in 1..MaxSteps |-> disk'[s]]
    BY <1>2, <2>1
  <2>4. QED
    BY <1>3, <2>2, <2>3 DEF OnDisk, ZeroMoves, v
<1>9. CASE SaveEnd(0)
  <2> DEFINE written == Unfuse(Params(opt[0], strategy = "zero2", weights[0].student))
  <2>1. /\ pc[0] = "saving"
        /\ disk' = [disk EXCEPT ![step[0]] = [state |-> "whole", of |-> written]]
    BY <1>9 DEF SaveEnd
  <2>2. written = Unfuse(AsParams([e \in Real |-> m.f[e]]))
    BY <2>1, SavedIsModel
  <2> HIDE DEF written
  <2>3. pc[0] \notin Undone /\ m2 = m
    BY <2>1 DEF Undone, Evolves
  <2>4. \A s \in 1..MaxSteps : s = step[0] => v(s)' = [e \in Real |-> m.f[e]]
    BY <1>1, <1>4, <2>1, <2>3, PresentKept DEF IsModel
  <2>5. ASSUME NEW s \in 1..MaxSteps
        PROVE  CheckpointAt(s, disk'[s], step'[0], pc'[0], v(s)')
    <3>1. CASE s = step[0]
      <4>1. disk'[s].state = "whole" /\ disk'[s].of = Unfuse(AsParams(v(s)'))
        BY <1>2, <2>1, <2>2, <2>4, <3>1
      <4>2. s <= step'[0] /\ (s = step'[0] => pc'[0] \notin Undone)
        BY <1>3, <1>4, <2>3, <3>1 DEF ZeroMoves
      <4>3. QED
        BY <4>1, <4>2 DEF CheckpointAt
    <3>2. CASE s # step[0]
      <4>1. disk'[s] = disk[s] /\ disk[s].state # "partial"
        BY <1>2, <1>6, <2>1, <3>2
      <4>2. QED
        BY <1>5, <4>1 DEF CheckpointAt
    <3>3. QED
      BY <3>1, <3>2
  <2>6. disk' = [s \in 1..MaxSteps |-> disk'[s]]
    BY <1>2, <2>1
  <2>7. QED
    BY <1>3, <2>5, <2>6 DEF OnDisk, ZeroMoves, v
<1>10. QED
  BY <1>3, <1>7, <1>8, <1>9 DEF ZeroMoves

-----------------------------------------------------------------------------
(***************************************************************************)
(* Theorems                                                                *)
(***************************************************************************)
TrainsOneModel == Counted /\ Lockstep /\ OneModel /\ ViewsBuilt

LEMMA TrainsOneModelAlways == Spec => []TrainsOneModel
<1>1. Init => TrainsOneModel
  <2> SUFFICES ASSUME Init PROVE TrainsOneModel
    OBVIOUS
  <2>1. OneModel
    BY FirstOneModel DEF OneModel
  <2>2. ViewsBuilt
    BY DEF Init, TrainingInit, ViewsBuilt, Unbuilt
  <2>3. QED
    BY <2>1, <2>2, InitCounted, InitLockstep DEF TrainsOneModel
<1>2. TrainsOneModel /\ [Next]_vars => TrainsOneModel'
  <2> SUFFICES ASSUME TrainsOneModel, [Next]_vars PROVE TrainsOneModel'
    OBVIOUS
  <2>1. PICK M, stage, s : OneModelAt(M, stage, s)
    BY DEF TrainsOneModel, OneModel
  <2>2. OneModel'
    BY <2>1, NextOneModel DEF TrainsOneModel, OneModel
  <2>3. QED
    BY <2>2, NextCounted, NextLockstep, ViewsOn DEF TrainsOneModel
<1>3. QED
  BY <1>1, <1>2, PTL DEF Spec

\* The model before and after a step.
LEMMA ModelSteps ==
  ASSUME TrainsOneModel, [Next]_vars
  PROVE  \E m, m2 : /\ IsModel(m) /\ IsModel(m2)' /\ Evolves(m, m2)
                    /\ pc[0] = "saving" => m.l <= step[0]
<1>1. strategy \in {"zero2", "ddp"} /\ strategy' \in {"zero2", "ddp"}
  BY NextLockstep DEF TrainsOneModel, Lockstep, Functions
<1>2. PICK M, stage, s : OneModelAt(M, stage, s)
  BY DEF TrainsOneModel, OneModel
<1>3. PICK M2, stage2, s2 : OneModelAt(M2, stage2, s2)' /\ Evolves(Shown(M, stage, s), Shown(M2, stage2, s2)')
  BY <1>2, NextOneModel DEF TrainsOneModel
<1>4. IsModel(Shown(M, stage, s))
  BY <1>1, <1>2, AlwaysShown DEF ShownIsModel
<1>5. PICK m2 : m2 = Shown(M2, stage2, s2)'
  OBVIOUS
<1>6. IsModel(m2)'
  BY <1>1, <1>3, <1>5, AlwaysShownNext DEF ShownIsModel
<1>7. PICK m : m = Shown(M, stage, s)
  OBVIOUS
<1>8. IsModel(m) /\ Evolves(m, m2)
  BY <1>3, <1>4, <1>5, <1>7
<1>9. ASSUME pc[0] = "saving"
      PROVE  m.l <= step[0]
  <2>1. RankAt(strategy, M, stage, s, 0, pc[0], step[0], opt[0])
    BY <1>2, LoopConstants DEF OneModelAt
  <2>2. stage = "rest" /\ M.l <= step[0]
    BY <1>9, <2>1 DEF RankAt, Stage, PlaceAt, Gone
  <2>3. m = M
    BY <1>7, <2>2 DEF Shown
  <2>4. QED
    BY <2>2, <2>3
<1>10. QED
  BY <1>6, <1>8, <1>9

\* Whoever reads the parameters, in a rollout, an evaluation, the loss or a
\* checkpoint, reads the one model that the ranks train, whatever the model,
\* the number of ranks and the strategy.
THEOREM ReadersAgree == Spec => []ReadsTheModel
<1>1. TrainsOneModel => ReadsTheModel
  BY ReadersRead DEF TrainsOneModel, Lockstep, Functions
<1>2. QED
  BY <1>1, TrainsOneModelAlways, PTL

\* The job implements DataParallel: what the ranks do with shards, packed
\* gradients and copies amounts to updates of one model, each with the
\* gradients of all ranks in one step.
THEOREM JobRefines == Spec => ImplementsDataParallel
<1>1. Init => Trained!Init
  <2> SUFFICES ASSUME Init PROVE Trained!Init
    OBVIOUS
  <2>1. strategy \in {"zero2", "ddp"} /\ OneModelAt(FirstModel, "rest", 0) /\ Shown(FirstModel, "rest", 0) = FirstModel
    BY FirstOneModel, InitLockstep DEF Lockstep, Functions
  <2>2. \A e \in Real : Moments(e) = FirstModel.a[e] /\ Model(e) = FirstModel.f[e]
    BY <2>1, ModelIsShown
  <2>3. \A e \in Real : FirstModel.a[e] = {} /\ FirstModel.f[e] = {<<e, -1, 0, 0, 0>>}
    BY InitialFlatIs, ShardType DEF FirstModel
  <2>4. QED
    BY <2>2, <2>3 DEF Trained!Init
<1>2. TrainsOneModel /\ [Next]_vars => [Trained!Next]_(Trained!vars)
  <2> SUFFICES ASSUME TrainsOneModel, [Next]_vars PROVE [Trained!Next]_(Trained!vars)
    OBVIOUS
  <2>1. PICK m, m2 : IsModel(m) /\ IsModel(m2)' /\ Evolves(m, m2)
    BY ModelSteps
  <2>2. QED
    BY <2>1, EvolvesRefines
<1>3. QED
  BY <1>1, <1>2, TrainsOneModelAlways, PTL DEF Spec, ImplementsDataParallel, Trained!Spec

\* A checkpoint directory is whole unless rank 0 is writing it or ended
\* while it did; a whole one has the model after the updates of the steps so
\* far under every name, also when later updates have moved the model on,
\* and whoever loads it gets the fused parameters back, in every order of the
\* names.
THEOREM CheckpointsWhole == Spec => []CheckpointsAreTheModel
<1>1. Init => OnDisk
  <2> SUFFICES ASSUME Init PROVE OnDisk
    OBVIOUS
  <2>1. disk = [s \in 1..MaxSteps |-> NoCheckpoint] /\ pc = [r \in Rank |-> "start"]
    BY DEF Init, TrainingInit
  <2>2. NoCheckpoint.state = "none"
    BY DEF NoCheckpoint
  <2>3. QED
    BY <2>1, <2>2 DEF OnDisk, CheckpointAt
<1>2. TrainsOneModel /\ OnDisk /\ [Next]_vars => OnDisk'
  <2> SUFFICES ASSUME TrainsOneModel, OnDisk, [Next]_vars PROVE OnDisk'
    OBVIOUS
  <2>1. PICK m, m2 : /\ IsModel(m) /\ IsModel(m2)' /\ Evolves(m, m2)
                     /\ pc[0] = "saving" => m.l <= step[0]
    BY ModelSteps
  <2>2. Counted /\ ReadsTheModel
    BY ReadersRead DEF TrainsOneModel, Lockstep, Functions
  <2>3. QED
    BY <2>1, <2>2, OnDiskOn
<1>3. QED
  BY <1>1, <1>2, TrainsOneModelAlways, OnDiskSuffices, PTL DEF Spec
=============================================================================
