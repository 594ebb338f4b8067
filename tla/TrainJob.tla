------------------------------ MODULE TrainJob ------------------------------
(***************************************************************************)
(* A training job: the launcher, torchrun's agent and the ranks.           *)
(***************************************************************************)
EXTENDS Training, Launcher, FiniteSets

CONSTANT FileOrders   \* orders in which the names of a checkpoint may be read

ASSUME FileOrdersAssumption == FileOrders \subseteq SetToSeqs(Name)

VARIABLE told   \* the ranks the agent has sent SIGTERM to

vars == <<trainingVars, launcherVars, told>>

Init ==
  /\ TrainingInit
  /\ LauncherInit
  /\ told = {}

-----------------------------------------------------------------------------
(***************************************************************************)
(* The agent.  It starts the ranks, ends well when all of them have, and   *)
(* when one fails or it is terminated itself it stops the others: SIGTERM, *)
(* then SIGKILL.  When it is killed the ranks stay as they are.            *)
(***************************************************************************)
StartRank(r) == agent = "running" /\ Start(r) /\ UNCHANGED <<launcherVars, told>>

AgentSucceeds ==
  /\ agent = "running"
  /\ \A r \in Rank : pc[r] = "exited" /\ code[r] = 0
  /\ agent' = "succeeded"
  /\ UNCHANGED <<trainingVars, lpc, handle, cleaning, signals, term, told>>

AgentStops ==
  /\ agent = "running"
  /\ term \/ \E r \in Rank : pc[r] = "exited" /\ code[r] # 0
  /\ agent' = "stopping"
  /\ told' = Rank
  /\ UNCHANGED <<trainingVars, lpc, handle, cleaning, signals, term>>

AgentKills(r) ==
  /\ agent = "stopping"
  /\ Killed(r)
  /\ UNCHANGED <<launcherVars, told>>

AgentFails ==
  /\ agent = "stopping"
  /\ \A r \in Rank : pc[r] = "exited"
  /\ agent' = "failed"
  /\ UNCHANGED <<trainingVars, lpc, handle, cleaning, signals, term, told>>

-----------------------------------------------------------------------------
RankStep(r) == (Run(r) \/ (r \in told /\ Interrupted(r))) /\ UNCHANGED <<launcherVars, told>>

RankFails(r) == Fail(r) /\ UNCHANGED <<launcherVars, told>>

\* A failure is not for certain, but an empty shard is.
EmptyShard(r) == pc[r] = "batches" /\ RankFails(r)

CollectiveStep == Collective /\ UNCHANGED <<launcherVars, told>>

LauncherStep == Launch /\ UNCHANGED <<trainingVars, told>>

\* The launcher has returned; what is left of the job goes on or waits.
Ended ==
  /\ lpc = "done"
  /\ UNCHANGED vars

Next ==
  \/ \E r \in Rank : StartRank(r) \/ RankStep(r) \/ RankFails(r) \/ AgentKills(r)
  \/ CollectiveStep
  \/ AgentSucceeds \/ AgentStops \/ AgentFails
  \/ LauncherStep
  \/ Ended

Spec == Init /\ [][Next]_vars

\* Processes that can run do; a collective whose ranks are all there returns;
\* the agent does what torchrun documents.  Signals, failures and timeouts
\* need not happen.
Fairness ==
  /\ \A r \in Rank : /\ WF_vars(StartRank(r))
                     /\ WF_vars(RankStep(r))
                     /\ WF_vars(EmptyShard(r))
                     /\ WF_vars(AgentKills(r))
  /\ WF_vars(CollectiveStep)
  /\ WF_vars(AgentSucceeds) /\ WF_vars(AgentStops) /\ WF_vars(AgentFails)
  /\ WF_vars((Popen \/ Assign \/ WaitReturns \/ Terminate \/ TermWaitReturns) /\ UNCHANGED <<trainingVars, told>>)

FairSpec == Spec /\ Fairness

-----------------------------------------------------------------------------
(***************************************************************************)
(* Properties                                                              *)
(***************************************************************************)
\* The state is well formed.
TypeOK ==
  /\ pc \in [Rank -> Collectives \cup Segments \cup Gone]
  /\ step \in [Rank -> 0..MaxSteps] /\ phase \in [Rank -> {"before", "loop", "after"}]
  /\ examples \in [Rank -> Nat] /\ steps \in [Rank -> Nat]
  /\ code \in [Rank -> {0, 1, 137, 143}]
  /\ lpc \in {"spawn", "assign", "wait", "clean", "term_wait", "done"}
  /\ agent \in {"none", "running", "stopping", "succeeded", "failed", "killed"}

\* Two ranks that wait in a collective wait in the same one: no decision of
\* the loop (skip a step, evaluate, save, stop) sends them different ways.
SameCollective ==
  \A r, q \in Rank : pc[r] \in Collectives /\ pc[q] \in Collectives => pc[r] = pc[q]

\* The model the job trains: rank 0's copy under DDP; under ZeRO-2 every
\* position as its owner has it, before the update the owner is working on.
Owner(e) == IF strategy = "zero2" THEN e \div ShardSize ELSE 0

Slot(e) == IF strategy = "zero2" THEN e % ShardSize ELSE e

Moments(e) ==
  LET o == opt[Owner(e)]
  IN IF o.snapshot = None THEN o.m[Slot(e)]
     ELSE {t \in o.m[Slot(e)] : t[3] < step[Owner(e)]}

Model(e) ==
  LET o == opt[Owner(e)]
  IN IF o.snapshot = None THEN o.flat[e]
     ELSE IF Moments(e) = o.m[Slot(e)] THEN o.snapshot[Slot(e)]
     ELSE {t \in o.snapshot[Slot(e)] : t[4] < o.count}

\* Whoever reads the parameters reads that model: the rollout engine and its
\* captured graphs in a rollout and an evaluation, the student in the loss
\* and in a checkpoint.  They never read gradients packed over it, the values
\* from before the optimizer took the parameters over, or a copy that has
\* missed an update another rank has seen.
Shows(r, view, i) ==
  \A k \in 0..Numel[i] - 1 : Row(opt[r], strategy = "zero2", view, k) = Model(Offset(i) + k)

ReadsTheModel ==
  \A r \in Rank :
    /\ pc[r] \in {"eval", "rollout"} =>
         \A n \in EngineName :
           /\ Shows(r, weights[r].engine[n], ParamOfEngine(n))
           /\ Shows(r, weights[r].graph[n], ParamOfEngine(n))
    /\ pc[r] \in {"loss", "saving"} => \A i \in Param : Shows(r, weights[r].student[i], i)

\* A checkpoint directory is whole but while rank 0 writes it or when rank 0
\* ended in the middle; a whole one has under every name the model's values
\* with the updates of the steps so far, and of none after; and an engine
\* that loads it gets the fused parameters back, in whatever order it meets
\* the names.
UpdatesUpTo(s) == Cardinality({t[3] : t \in {u \in Moments(0) : u[3] <= s}})

AsOf(s, e) == {t \in Model(e) : t[4] <= UpdatesUpTo(s)}

CheckpointsAreTheModel ==
  \A s \in 1..MaxSteps :
    /\ disk[s].state = "partial" => step[0] = s /\ pc[0] \in {"saving"} \cup Gone
    /\ disk[s].state = "whole" =>
         /\ \A n \in Name : disk[s].of[n] = [k \in 1..PartSize(n) |-> AsOf(s, PartOffset(n) + k - 1)]
         /\ \A order \in FileOrders :
              LET got == LoadWeight(disk[s].of, order)
              IN got.complete /\ got.params = [i \in Param |-> [k \in 1..Numel[i] |-> AsOf(s, Offset(i) + k - 1)]]

\* Keys and values are computed with the weights they are used with: after a
\* rollout or an evaluation everything the prefix cache could have matched
\* is of the present weights, and nothing stays cached in a pool whose
\* memory has been given back.
NoStaleKV ==
  \A r \in Rank :
    /\ pc[r] \in {"rollout_barrier", "eval_reduce"} =>
         session[r].mapped /\ session[r].cached = {opt[r].count}
    /\ session[r].cached # {} => session[r].mapped

\* The job ends: the launcher returns, and either every rank has ended or
\* the launcher had to kill the agent that would have ended them.
JobEnds ==
  <>(lpc = "done" /\ (agent = "killed" \/ \A r \in Rank : pc[r] \in {"start", "exited"}))

\* The ranks together train one model.
Trained == INSTANCE DataParallel WITH
  Rank <- Rank, Position <- Real, Step <- 1..MaxSteps,
  model <- [e \in Real |-> Model(e)], moments <- [e \in Real |-> Moments(e)]

ImplementsDataParallel == Trained!Spec
=============================================================================
