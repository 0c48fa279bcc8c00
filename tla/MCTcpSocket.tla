----------------------------- MODULE MCTcpSocket -----------------------------
(***************************************************************************)
(* TcpSocket as a client and as a server, on a reliable network with more  *)
(* bytes than the ring holds, and on a network that loses, duplicates and  *)
(* reorders segments.                                                      *)
(***************************************************************************)
EXTENDS TcpSocket
=============================================================================
