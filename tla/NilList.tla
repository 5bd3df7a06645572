------------------------------ MODULE NilList ------------------------------
(***************************************************************************)
(* The lists a session's sendList holds: events, and Go's nil for every    *)
(* Close.  Whoever reads such a list stops at its first nil.               *)
(***************************************************************************)
EXTENDS Naturals, Sequences

CONSTANTS
    Events,     \* the events a session may be asked to send
    Nil         \* Go's nil, put in the list by Close

ASSUME NilAssumption == Nil \notin Events

Items == Events \cup {Nil}

HasNil(s) == \E i \in 1..Len(s) : s[i] = Nil

FirstNil(s) == CHOOSE i \in 1..Len(s) :
                  s[i] = Nil /\ \A j \in 1..(i - 1) : s[j] # Nil

BeforeNil(s) == IF HasNil(s) THEN SubSeq(s, 1, FirstNil(s) - 1) ELSE s

=============================================================================
