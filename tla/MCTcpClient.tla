---------------------------- MODULE MCTcpClient ----------------------------
(* TcpClient in a process with four descriptors to spend. *)
EXTENDS TcpClient

CONSTANTS f1, f2, f3, f4
=============================================================================
