---------------------------- MODULE MCGuardDaemon ----------------------------
(* Two policies that keep the guard on and one that disables it. *)
EXTENDS GuardDaemon

MCPolicies == {[enabled |-> TRUE, name |-> "a"], [enabled |-> TRUE, name |-> "b"],
               [enabled |-> FALSE, name |-> "off"]}
=============================================================================
