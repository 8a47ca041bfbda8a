---------------------------- MODULE MCRelocation ----------------------------
(* Two sources; the first is relocated by the guard and, before, after or
   meanwhile, to another disk by an operator; the second, an empty one, by the
   guard only.  The entry of the link policy is the guard's move of the first. *)
EXTENDS Relocation, TLC

CONSTANTS a1, a2

MCFilesOf == [s \in Sources |-> IF s = "a" THEN {a1, a2} ELSE {}]
MCFiles == Permutations({a1, a2})
MCSourceOf == [r \in Runs |-> IF r = "guardB" THEN "b" ELSE "a"]
MCDestOf == [r \in Runs |-> IF r = "operator" THEN "mnt" ELSE "cold"]
MCStarts == [r \in Runs |-> 1]
MCEntry == [source |-> "a", target |-> "cold"]
=============================================================================
