------------------------------- MODULE UndoLog -------------------------------
(***************************************************************************)
(* What the reversible limiters promise, abstracted from quotas, scores    *)
(* and files: a change to a workload is made only while a durable record   *)
(* obliges somebody to undo it, and the record goes only when the change   *)
(* has gone.  The CPU lease and the managed OOM jobs implement it.         *)
(***************************************************************************)
CONSTANT Things     \* what may be changed: lease generations, members of a job

VARIABLES
    applied,        \* the things that are changed at this moment
    owed            \* the things a durable record promises to change back

vars == <<applied, owed>>

Init == applied = {} /\ owed = {}

(* The intent is durable first. *)
Owe == \E S \in SUBSET Things :
    /\ owed' = owed \cup S
    /\ UNCHANGED applied

(* Then the change; what inherits it is covered as well. *)
Apply == \E S \in SUBSET owed :
    /\ applied' = applied \cup S
    /\ UNCHANGED owed

(* It is undone by whoever owes it, by an operator, or with the thing. *)
Lift == \E S \in SUBSET applied :
    /\ applied' = applied \ S
    /\ UNCHANGED owed

Discharge == \E S \in SUBSET (owed \ applied) :
    /\ owed' = owed \ S
    /\ UNCHANGED applied

Next == Owe \/ Apply \/ Lift \/ Discharge

Spec == Init /\ [][Next]_vars
=============================================================================
