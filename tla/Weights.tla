------------------------------- MODULE Weights -------------------------------
(***************************************************************************)
(* One model in the hands of three readers: the student that is trained,   *)
(* whose projections are fused (liteopd/train/fused_model.py); the rollout *)
(* engine, which is built empty and then made to look at the student's     *)
(* memory (share_weights of liteopd/runtime/weight_sync.py and the         *)
(* constructor of liteopd/runtime/rollout.py); and the checkpoint on disk, *)
(* unfused again, which an engine of its own reads with load_weight        *)
(* (liteopd/inference/models/weight.py).                                   *)
(*                                                                         *)
(* A checkpoint maps names <<parameter, part>> to tensors, a tensor is the *)
(* sequence of its rows, and the values are those of Zero2.  A tensor of a *)
(* module is a view [storage, at]: the rows from "at" on of the optimizer's*)
(* buffer ("flat"), of the storages the parameters were loaded into, taken *)
(* end to end ("own"), of memory nobody wrote ("empty"), or none ("meta"). *)
(***************************************************************************)
EXTENDS Integers, Sequences, SequencesExt

CONSTANTS
  Parts,   \* for every parameter the rows of the projections it is fused from
  Tied     \* the output head is the embedding, parameter 1

ASSUME PartsAssumption ==
  /\ Parts \in Seq(Seq(Nat \ {0}))
  /\ Len(Parts) > 0
  /\ \A i \in DOMAIN Parts : Len(Parts[i]) > 0
  /\ Tied \in BOOLEAN

Param == DOMAIN Parts

Name == UNION {{<<i, p>> : p \in DOMAIN Parts[i]} : i \in Param}

Total(sizes) ==
  LET upto[k \in 0..Len(sizes)] == IF k = 0 THEN 0 ELSE upto[k - 1] + sizes[k]
  IN upto[Len(sizes)]

Numel == [i \in Param |-> Total(Parts[i])]

\* Where a parameter, and a part of one, start among all the rows.
Offset(i) == Total(SubSeq(Numel, 1, i - 1))

PartOffset(n) == Offset(n[1]) + Total(SubSeq(Parts[n[1]], 1, n[2] - 1))

PartSize(n) == Parts[n[1]][n[2]]

-----------------------------------------------------------------------------
(***************************************************************************)
(* Fusing, unfusing and loading                                            *)
(***************************************************************************)
Pretrained == [n \in Name |-> [k \in 1..PartSize(n) |-> {<<PartOffset(n) + k - 1, -1, 0, 0, 0>>}]]

\* fuse_model_projections: torch.cat in the order of the parts.
Fuse(checkpoint) ==
  [i \in Param |-> FlattenSeq([p \in DOMAIN Parts[i] |-> checkpoint[<<i, p>>]])]

\* unfuse_state_dict: the sizes are those the projections had when fused.
\* A slip: all parts have the same size.
UnfuseEvenly(params) ==
  [n \in Name |-> LET size == Numel[n[1]] \div Len(Parts[n[1]])
                  IN SubSeq(params[n[1]], (n[2] - 1) * size + 1, n[2] * size)]

Unfuse(params) ==
  [n \in Name |-> LET from == PartOffset(n) - Offset(n[1])
                  IN SubSeq(params[n[1]], from + 1, from + PartSize(n))]

\* load_weight, the names of the files in an order: a part is buffered until
\* its group is complete, which is then yielded in the order of the parts,
\* whatever the order they came in.  What is left over fails an assertion.
LoadPart(checkpoint, st, n) ==
  LET arrived == st.buffer[n[1]] \cup {n[2]}
  IN IF arrived = DOMAIN Parts[n[1]]
     THEN [buffer |-> [st.buffer EXCEPT ![n[1]] = {}],
           loaded |-> [st.loaded EXCEPT ![n[1]] =
                         FlattenSeq([p \in DOMAIN Parts[n[1]] |-> checkpoint[<<n[1], p>>]])]]
     ELSE [st EXCEPT !.buffer[n[1]] = arrived]

LoadWeight(checkpoint, order) ==
  LET after[k \in 0..Len(order)] ==
        IF k = 0 THEN [buffer |-> [i \in Param |-> {}], loaded |-> [i \in Param |-> <<>>]]
        ELSE LoadPart(checkpoint, after[k - 1], order[k])
      end == after[Len(order)]
  IN [complete |-> \A i \in Param : end.buffer[i] = {}, params |-> end.loaded]

-----------------------------------------------------------------------------
(***************************************************************************)
(* Sharing.  The engine's tensors are those of the parameters and, under   *)
(* 0, the output head; a tied head has none of its own but in name.        *)
(***************************************************************************)
EngineName == Param \cup {0}

\* The parameter behind a tensor of the engine: an untied head is the last one.
ParamOfEngine(n) == IF n # 0 THEN n ELSE IF Tied THEN 1 ELSE Len(Parts)

OwnViews == [i \in Param |-> [storage |-> "own", at |-> Offset(i)]]

FlatViews == [i \in Param |-> [storage |-> "flat", at |-> Offset(i)]]

\* create_model on the meta device, then _materialize_sglang_model, whose
\* state_dict does not have a tied head.
NewEngine == [n \in EngineName |-> [storage |-> IF n = 0 /\ Tied THEN "meta" ELSE "empty", at |-> 0]]

\* share_weights.
ShareWeights(engine, student) ==
  [n \in DOMAIN engine |-> student[ParamOfEngine(n)]]

\* What a forward of the engine reads, and what a captured graph goes on
\* reading: the addresses at the time, a tied head through the embedding.
ReadBy(engine) == [n \in DOMAIN engine |-> IF n = 0 /\ Tied THEN engine[1] ELSE engine[n]]

\* main up to the runtime: the optimizer of zero2 moves the parameters into
\* its buffer, the runtime's constructor builds the engine, shares the
\* weights and captures the graphs.
\* A slip: the runtime is created before the optimizer.
RuntimeBeforeOptimizer(sharded) ==
  LET engine == ShareWeights(NewEngine, OwnViews)
  IN [student |-> IF sharded THEN FlatViews ELSE OwnViews, engine |-> ReadBy(engine), graph |-> ReadBy(engine)]

BuildRuntime(sharded) ==
  LET student == IF sharded THEN FlatViews ELSE OwnViews
      engine  == ShareWeights(NewEngine, student)
  IN [student |-> student, engine |-> ReadBy(engine), graph |-> ReadBy(engine)]
=============================================================================
