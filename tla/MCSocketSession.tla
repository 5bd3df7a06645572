-------------------------- MODULE MCSocketSession --------------------------
(***************************************************************************)
(* Small instances of SocketSession.  The number of calls differs per end: *)
(* a client that calls nothing is the peer of the sendclose example.       *)
(***************************************************************************)
EXTENDS SocketSession

CONSTANTS ClientCalls, ServerCalls

MCMaxCalls == [e \in Ends |-> IF e = "client" THEN ClientCalls ELSE ServerCalls]
=============================================================================
