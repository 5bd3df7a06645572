---------------------------- MODULE MCAcceptor ----------------------------
(***************************************************************************)
(* Small instances of Acceptor: two clients that race each other and Stop  *)
(* and connect again, so that their ids wrap around, and enough Starts to  *)
(* stop and start again.                                                   *)
(***************************************************************************)
EXTENDS Acceptor

CONSTANTS u1, k1, k2

MCUsers == {u1}
MCSessions == {k1, k2}
=============================================================================
