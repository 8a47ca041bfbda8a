----------------------------- MODULE MCDiskPass -----------------------------
(* A disk of five units: a policy as shipped, one whose thresholds are out of
   range and out of order, and one that no longer asks for freezes. *)
EXTENDS DiskPass

Shipped == [warn |-> 3, action |-> 4, critical |-> 5, proactive |-> 3, unfreeze |-> 2,
            freeze |-> TRUE, cycles |-> 2, move |-> TRUE]
MCRaw == {Shipped,
          [Shipped EXCEPT !.warn = 0, !.critical = 1, !.proactive = 7, !.unfreeze = 0, !.cycles = 0],
          [Shipped EXCEPT !.unfreeze = 9, !.freeze = FALSE, !.move = FALSE]}
=============================================================================
