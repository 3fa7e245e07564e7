---------------------------- MODULE MCProcess ----------------------------
(* Process for TLC: the queues are alike. *)
EXTENDS Process, TLC

Symmetry == Permutations(Queues)
=============================================================================
