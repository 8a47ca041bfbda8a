------------------------------ MODULE MCStash -------------------------------
(* Two files, which are interchangeable, and two generations. *)
EXTENDS Stash, TLC

MCFiles == Permutations(Files)
=============================================================================
