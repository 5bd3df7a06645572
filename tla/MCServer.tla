------------------------------ MODULE MCServer ------------------------------
(***************************************************************************)
(* Small instances of Server: a timer, a session whose remote end sends    *)
(* two frames, and a queue they fill.                                      *)
(***************************************************************************)
EXTENDS Server

CONSTANTS l1, u1, s1

MCLoops == {l1}
MCStarters == {u1}
MCSessions == {s1}
=============================================================================
