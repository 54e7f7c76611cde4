---------------------------- MODULE MCReassembly ----------------------------
(***************************************************************************)
(* A flight of three messages: one long enough for three buckets, a short  *)
(* one and an empty one (ServerHelloDone).  The list is full when all of   *)
(* them wait in it.                                                        *)
(***************************************************************************)
EXTENDS DtlsReassembly

Lengths == <<5, 1, 0>>
=============================================================================
