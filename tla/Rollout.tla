------------------------------- MODULE Rollout -------------------------------
(***************************************************************************)
(* What a caller of RolloutEngineClient.generate_request_batch             *)
(* (liteopd/runtime/rollout.py) may rely on, with nothing of how it is     *)
(* done: every prompt's response grows token by token, is never cut back   *)
(* or replaced, ends with the end of sequence or at the prompt's own       *)
(* bound, and the call returns only when all of them have ended.           *)
(***************************************************************************)
EXTENDS Integers, Sequences

CONSTANTS Uid, Token, Eos

VARIABLES
  bound,   \* the longest response of each prompt
  said,    \* the response of each prompt so far
  state    \* of the call: running, returned or raised

vars == <<bound, said, state>>

Init ==
  /\ bound \in [Uid -> Int]
  /\ said = [u \in Uid |-> <<>>]
  /\ state = "running"

Ended(u) ==
  \/ Len(said[u]) >= bound[u]
  \/ said[u] # <<>> /\ said[u][Len(said[u])] = Eos

\* One forward pass: any of the unfinished responses gain a token each.
Grow ==
  /\ state = "running"
  /\ \E S \in SUBSET {u \in Uid : ~ Ended(u)} :
       /\ S # {}
       /\ \E token \in [S -> Token] :
            said' = [u \in Uid |-> IF u \in S THEN Append(said[u], token[u]) ELSE said[u]]
  /\ UNCHANGED <<bound, state>>

Return ==
  /\ state = "running"
  /\ \A u \in Uid : Ended(u)
  /\ state' = "returned"
  /\ UNCHANGED <<bound, said>>

\* An exception of the scheduler ends the call.
Raise ==
  /\ state = "running"
  /\ state' = "raised"
  /\ UNCHANGED <<bound, said>>

Next == Grow \/ Return \/ Raise

Spec == Init /\ [][Next]_vars
=============================================================================
