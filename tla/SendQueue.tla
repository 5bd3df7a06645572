----------------------------- MODULE SendQueue -----------------------------
(***************************************************************************)
(* What a session expects of its send list: Add appends one event (or nil, *)
(* the request to close), Pick blocks while the list is empty and then     *)
(* takes all of it in one go.  The caller of Pick gets the events in front *)
(* of the first nil and is told whether there was one; what stands behind  *)
(* that nil is thrown away.                                                *)
(*                                                                         *)
(* EventList models socket/evtlist.go step by step and is shown to         *)
(* implement this specification; SocketSession uses it as one atomic step. *)
(***************************************************************************)
EXTENDS NilList

VARIABLES
    list,       \* eventList.list
    ret,        \* the batch the last Pick returned
    exit        \* the flag the last Pick returned

vars == <<list, ret, exit>>

-----------------------------------------------------------------------------

Init ==
    /\ list = <<>>
    /\ ret = <<>>
    /\ exit = FALSE

Add(x) ==
    /\ list' = Append(list, x)
    /\ UNCHANGED <<ret, exit>>

Pick ==
    /\ list # <<>>
    /\ ret' = BeforeNil(list)
    /\ exit' = HasNil(list)
    /\ list' = <<>>

Next == Pick \/ \E x \in Items : Add(x)

Spec == Init /\ [][Next]_vars

=============================================================================
