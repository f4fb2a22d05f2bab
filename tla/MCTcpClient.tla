---------------------------- MODULE MCTcpClient ----------------------------
(* TcpClient as it is, for what tcpclient.h says of an open client.         *)
EXTENDS TcpClient
=============================================================================
