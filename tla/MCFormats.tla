----------------------------- MODULE MCFormats -----------------------------
(***************************************************************************)
(* A small instance of Formats.  Of the messages of the users, a and c     *)
(* have one id, as if their names had the same hash, and b is in json.     *)
(***************************************************************************)
EXTENDS Formats

MCMessages == {"a", "b", "c"}
MCIDOf == [m \in MCMessages \cup System |->
            CASE m \in {"a", "c"} -> 1 [] m = "b" -> 2 [] m = "Accepted" -> 3 [] m = "Closed" -> 4]
MCCodecOf == [m \in MCMessages \cup System |-> IF m = "b" THEN "json" ELSE "binary"]
=============================================================================
