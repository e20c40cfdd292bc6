--------------------------- MODULE MCTcpConnection ---------------------------
(* TcpConnection on small instances; the .cfg files give the constants.    *)
EXTENDS TcpConnection
=============================================================================
