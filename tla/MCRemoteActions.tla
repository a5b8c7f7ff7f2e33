-------------------------- MODULE MCRemoteActions --------------------------
(***************************************************************************)
(* One call, of an action that needs all three permissions, delivered any  *)
(* number of times before and after a restart of the target.  Calls meet   *)
(* only in seen(), which is to remember as many ids as there are requests; *)
(* RemoteActionsProofs is about any number of them.                        *)
(***************************************************************************)
EXTENDS RemoteActions

Requester == [r \in Requests |-> "x"]
Asked == [r \in Requests |-> "update"]
=============================================================================
