---------------------------- MODULE MCSettings ----------------------------
(***************************************************************************)
(* One device to trust and two networks: enough for saves with and without *)
(* a new connection, each before and after a change of switch or trust.    *)
(***************************************************************************)
EXTENDS Settings
=============================================================================
