---------------------------- MODULE MCSftpClient ----------------------------
(* Instances of SftpClient: one OPEN and two other requests behind a window. *)
EXTENDS SftpClient, TLC

CONSTANTS open, stat, read, close, limits

OneOpener == {open}
TheClose == [u \in OneOpener |-> close]
=============================================================================
