------------------------------- MODULE MCRPC -------------------------------
(***************************************************************************)
(* Small instances of RPC: two synchronous calls and an asynchronous one,  *)
(* of which a synchronous and the asynchronous one wait for the same type  *)
(* of answer, or no two of them.                                           *)
(***************************************************************************)
EXTENDS RPC

CONSTANTS c1, c2, c3

MCCalls == {c1, c2, c3}
MCSync == {c1, c2}
MCTwoTypes == [c \in MCCalls |-> IF c = c2 THEN "own" ELSE "shared"]
MCOwnType == [c \in MCCalls |-> c]
=============================================================================
