----------------------------- MODULE MCOomBias ------------------------------
(* Three incarnations, the third reusing the pid of the first; all are big enough
   to be biased, so roots may be nested, and two may bear an exempt name when a
   sweep looks.  Others move the third to a value of
   its own, or out of the guard's reach. *)
EXTENDS OomBias

MCProcs == 1 .. 3
MCPidOf == [p \in MCProcs |-> IF p = 3 THEN 1 ELSE p]
MCExempt == {2, 3}
MCNatives == {0}
MCForeign == [p \in MCProcs |-> IF p = 3 THEN {100, 300} ELSE {}]
MCProtected == -500
=============================================================================
