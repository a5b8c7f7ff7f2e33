--------------------------- MODULE MCTerminalChat ---------------------------
(***************************************************************************)
(* An instance of TerminalChat for TLC: two lines at a time, a transcript  *)
(* of two messages.                                                        *)
(***************************************************************************)
EXTENDS TerminalChat
=============================================================================
