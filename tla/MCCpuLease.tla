----------------------------- MODULE MCCpuLease -----------------------------
(* A scope with three quotas, the widest of them "no limit", and two cap
   targets; one lease generation, two invocations, two boots. *)
EXTENDS CpuLease

MCQuotas == {1, 2, 3}
MCTargets == {1, 2}
=============================================================================
