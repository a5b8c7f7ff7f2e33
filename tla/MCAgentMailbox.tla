-------------------------- MODULE MCAgentMailbox --------------------------
(***************************************************************************)
(* Two messages of one trusted or untrusted peer: one to launch the        *)
(* command and one to arrive while it runs.  Two slots for the command, so *)
(* that a second launch is possible, and at most one user at the keyboard. *)
(***************************************************************************)
EXTENDS AgentMailbox

OnePeer == [m \in Messages |-> "bob"]
=============================================================================
