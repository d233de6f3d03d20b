----------------------------- MODULE MCModules -----------------------------
(***************************************************************************)
(* A kernel with a scheduler and a heap linked in, and room for few more   *)
(* modules.                                                                *)
(***************************************************************************)
EXTENDS Modules

LinkOrder == <<[name |-> "BumpHeapAlloc", type |-> "heap"],
               [name |-> "RoundRobinSched", type |-> "sched"]>>
=============================================================================
