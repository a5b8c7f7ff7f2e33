------------------------- MODULE MCPeerDirectory -------------------------
(***************************************************************************)
(* Two peers and three timer threads: enough for one device to have a      *)
(* timer blocked on the lock, a second one registered after a repeated     *)
(* offline signal, and for the other device to move in between.            *)
(***************************************************************************)
EXTENDS PeerDirectory
=============================================================================
