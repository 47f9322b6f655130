-------------------------- MODULE MCComputedMetrics --------------------------
(***************************************************************************)
(* mem_total on Linux: the memory plugin sends used, free and the slab     *)
(* counters; get_metric reads used then free (buffered and cached behave   *)
(* as free does and are left out).  Four reads, ten seconds apart.         *)
(***************************************************************************)
EXTENDS ComputedMetrics

CONSTANTS m_used, m_free, m_slab

MCInputs == {m_used, m_free, m_slab}
MCNeeded == <<m_used, m_free>>

=============================================================================
