---------------------------- MODULE MCMessageLog ----------------------------
(***************************************************************************)
(* An instance of MessageLog for TLC: the author's window and a reader's;  *)
(* a text or a file in windows that stay open, and a text in windows that  *)
(* do not, within the retention limits or beyond them.                     *)
(***************************************************************************)
EXTENDS MessageLog

Author0 == "author"
TwoWindows == {"author", "reader"}

Setup(f, p, r) == [file |-> f, prunes |-> p, restarts |-> r]
FourSetups == {Setup(FALSE, FALSE, FALSE), Setup(TRUE, FALSE, FALSE),
               Setup(FALSE, FALSE, TRUE), Setup(FALSE, TRUE, TRUE)}
=============================================================================
