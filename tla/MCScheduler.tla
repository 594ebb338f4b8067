----------------------------- MODULE MCScheduler -----------------------------
(***************************************************************************)
(* The prompts of the Scheduler runs.                                      *)
(***************************************************************************)
EXTENDS Scheduler

Uids3 == 0..2
Uids4 == 0..3

\* A SamplingParams object each, or one for the whole batch.
OwnParams == [u \in Uid |-> u]
OneParams == [u \in Uid |-> 0]

\* Batches of prompts that mostly share a prefix.
Overlapping == [Uid -> {<<1>>, <<1, 2>>, <<1, 1>>}]

\* Batches of prompts that start with different tokens.
Disjoint == {p \in [Uid -> {<<1, 1>>, <<2>>, <<3, 3, 3>>, <<4, 1>>}] : IsInjective(p)}

\* Prompts longer than the prefill budget.
Long == [Uid -> {<<1, 1, 2>>, <<1, 2>>, <<2, 1, 1>>}]

\* A prompt that fills the budget, and short ones that arrive while it runs;
\* or short ones only, which arrive together.
Staggered ==
  {[u \in Uid |-> IF u = 0 THEN <<7, 8, 9>> ELSE <<p[u]>>] : p \in [Uid -> {1, 2}]}
    \cup {[u \in Uid |-> <<u + 1>>]}

\* The same prompt, once per response asked for, and another one.
Repeated == {[u \in Uid |-> IF u = Max(Uid) THEN <<3>> ELSE <<1, 2>>]}

\* Prompts of three tokens with nothing in common.
Threes == {[u \in Uid |-> <<u, u, u>>]}
=============================================================================
