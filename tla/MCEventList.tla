---------------------------- MODULE MCEventList ----------------------------
(***************************************************************************)
(* Two producers, two events and a nil.  Four calls of Add let a producer  *)
(* be late with a Signal that belongs to an event long taken.              *)
(***************************************************************************)
EXTENDS EventList, TLC

CONSTANTS e1, e2, p1, p2

MCEvents == {e1, e2}
MCProducers == {p1, p2}
=============================================================================
