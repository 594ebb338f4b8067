------------------------------- MODULE Session -------------------------------
(***************************************************************************)
(* The rollout runtime of one rank over a training run (prepare, release,  *)
(* refresh_from_model and flush_cache of liteopd/runtime/rollout.py,       *)
(* map_physical and unmap_physical of inference/kvcache/vmm_pool.py).      *)
(* Scheduler models what happens within one call of generate; here a call  *)
(* leaves behind the keys and values it computed, of which only the        *)
(* version of the weights they were computed with matters.                 *)
(***************************************************************************)
EXTENDS Integers

CONSTANT UseVMM   \* generation_use_vmm: the pool has map_physical

\* The constructor of the VMM pool maps it.
NewSession == [mapped |-> TRUE, cached |-> {}]

\* map_physical and unmap_physical check is_mapped: what was mapped loses
\* its contents, and the dense pool has neither.
Prepare(s) == IF UseVMM THEN [s EXCEPT !.mapped = TRUE] ELSE s

UnmapPhysical(s) == IF UseVMM THEN [s EXCEPT !.mapped = FALSE] ELSE s

\* A slip: the prefix cache survives the flush.
FlushSlotsOnly(s) == s

FlushCache(s) == [s EXCEPT !.cached = {}]

RefreshFromModel(s) == FlushCache(s)

Release(s) == UnmapPhysical(FlushCache(s))

\* generate with the weights of a version: later prompts may match the
\* prefixes of all earlier ones.
Generate(s, version) == [s EXCEPT !.cached = @ \cup {version}]
=============================================================================
