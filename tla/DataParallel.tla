---------------------------- MODULE DataParallel ----------------------------
(***************************************************************************)
(* What the optimizer promises the training loop, with nothing of how the  *)
(* state is sharded: there is one model; an update applies the gradients   *)
(* that all the ranks computed in one step, each of them once, to every    *)
(* parameter, with the moments of all the steps before and the learning    *)
(* rate of the last update; a step may be left out by everybody, never by  *)
(* somebody.  Values are those of Zero2.                                   *)
(***************************************************************************)
EXTENDS Integers, FiniteSetsExt

CONSTANTS Rank, Position, Step

VARIABLES
  model,     \* the value of every parameter
  moments    \* what AdamW's moments have absorbed

vars == <<model, moments>>

Init ==
  /\ model = [e \in Position |-> {<<e, -1, 0, 0, 0>>}]
  /\ moments = [e \in Position |-> {}]

LastUpdate == Max({t[4] : t \in UNION {model[e] : e \in Position}})

LastStep == Max({t[3] : t \in UNION {model[e] : e \in Position}})

Update(step) ==
  /\ step > LastStep
  /\ moments' = [e \in Position |-> moments[e] \cup {<<e, r, step, 0, 0>> : r \in Rank}]
  /\ model' = [e \in Position |->
                 model[e] \cup {<<t[1], t[2], t[3], LastUpdate + 1, LastStep>> : t \in moments'[e]}]

Next == \E step \in Step : Update(step)

Spec == Init /\ [][Next]_vars
=============================================================================
