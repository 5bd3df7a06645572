------------------------------ MODULE Formats ------------------------------
(***************************************************************************)
(* What happens to a message between two programs, and before: the schema  *)
(* it is generated from, the cache of its Go type, its encoding with       *)
(* sproto or goobjfmt, and its way through registration, send chain,       *)
(* websocket and receive chains.  These are separate pieces of sequential  *)
(* code; a behaviour is about one of them, its topic.                      *)
(***************************************************************************)
EXTENDS SprotoCodec, Schema, SprotoTypes, ObjFmt, MessagePath

VARIABLE topic

vars == <<topic, codecVars, files, typesVars, objVars, pathVars>>

Topics == {"sproto", "schema", "types", "objfmt", "path"}

\* The Go structs and the log level matter to their own topic only.
Init ==
    /\ topic \in Topics
    /\ CodecInit /\ SchemaInit /\ TypesInit /\ ObjInit /\ PathInit
    /\ topic # "types" => structs = [s \in StructNames |-> <<>>]
    /\ topic # "path" => debug = FALSE

Next ==
    \/ topic = "sproto" /\ CodecNext /\ UNCHANGED <<topic, files, typesVars, objVars, pathVars>>
    \/ topic = "schema" /\ SchemaNext /\ UNCHANGED <<topic, codecVars, typesVars, objVars, pathVars>>
    \/ topic = "types" /\ TypesNext /\ UNCHANGED <<topic, codecVars, files, objVars, pathVars>>
    \/ topic = "objfmt" /\ ObjNext /\ UNCHANGED <<topic, codecVars, files, typesVars, pathVars>>
    \/ topic = "path" /\ PathNext /\ UNCHANGED <<topic, codecVars, files, typesVars, objVars>>

Spec == Init /\ [][Next]_vars

=============================================================================
