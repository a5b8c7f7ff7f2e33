-------------------------- MODULE MCFileTransfer --------------------------
(***************************************************************************)
(* Two transfers of files of the same name to this device.  A file of two  *)
(* chunks can be reordered and half received; the other lengths are those  *)
(* of a file that grows, shrinks or becomes empty while it is read, and    *)
(* one too long for the receiver.                                          *)
(***************************************************************************)
EXTENDS FileTransfer

SameName == [t \in Transfers |-> "photo"]
TakenPaths == {<<"photo", 0>>}
ChangingLengths == {<<2, 2>>, <<1, 2>>, <<2, 1>>, <<1, 0>>, <<3, 3>>, <<4, 4>>, <<0, 0>>}
=============================================================================
