-------------------------- MODULE MCNetworkSwitch --------------------------
(***************************************************************************)
(* Two networks and a save that replaces the client of the start by one of *)
(* the same network (a new nickname, say) or of another, while the worker  *)
(* of the first is still busy or callbacks are queued; one connection is   *)
(* dropped.  NetworkSwitchProofs is about any number of saves.             *)
(***************************************************************************)
EXTENDS NetworkSwitch
=============================================================================
