---------------------------- MODULE MCConnector ----------------------------
(***************************************************************************)
(* A small instance of Connector: one goroutine calls Start and Stop, the  *)
(* second Start launches a connect after the first or beside it.           *)
(***************************************************************************)
EXTENDS Connector

CONSTANT u1

MCUsers == {u1}
=============================================================================
