-------------------------- MODULE MCMessageExtras --------------------------
(***************************************************************************)
(* An instance of MessageExtras for TLC: the author's window and a         *)
(* reader's.                                                               *)
(***************************************************************************)
EXTENDS MessageExtras
=============================================================================
