---------------------------- MODULE MCTicketKeys ----------------------------
(* The threads of TicketKeys are interchangeable.                           *)
EXTENDS TicketKeys, TLC

ThreadSymmetry == Permutations(Threads)
=============================================================================
