----------------------------- MODULE EventList -----------------------------
(***************************************************************************)
(* socket/evtlist.go, one action per step between two points where another *)
(* goroutine may run: taking the mutex, the guarded body, releasing it,    *)
(* signalling.  Producers are the goroutines that call Session.Send or     *)
(* Session.Close; the one consumer is the session's sendThread, which      *)
(* calls Pick in a loop until it is told to exit.                          *)
(*                                                                         *)
(* sync.Cond (external) is modelled by what its documentation promises:    *)
(* Wait enrols the caller before it releases the mutex, and a Signal wakes *)
(* a caller that is enrolled and is lost otherwise.                        *)
(***************************************************************************)
EXTENDS NilList

CONSTANTS
    Producers,      \* goroutines that call Add
    Consumer,       \* the sendThread
    NoOne,          \* the owner of a free mutex
    MaxAdds         \* bound on the number of calls of Add

ASSUME ThreadAssumption ==
    /\ Consumer \notin Producers
    /\ NoOne \notin Producers \cup {Consumer}
ASSUME MaxAddsAssumption == MaxAdds \in Nat

VARIABLES
    list,           \* eventList.list
    listGuard,      \* the owner of eventList.listGuard
    waiting,        \* the consumer is enrolled in eventList.listCond
    pc,             \* where each goroutine is
    arg,            \* ev, the argument of Add, per producer
    ret, exit,      \* the named results of the last Pick
    adds            \* calls of Add made so far

vars == <<list, listGuard, waiting, pc, arg, ret, exit, adds>>

SQ == INSTANCE SendQueue WITH list <- list, ret <- ret, exit <- exit

Threads == Producers \cup {Consumer}

ProducerPC == {"idle", "append", "unlock", "signal"}
ConsumerPC == {"idle", "check", "park", "parked", "unlock", "relock",
               "copy", "return", "stopped"}

-----------------------------------------------------------------------------

\* NewPacketList, called by newSession before any goroutine has the list.
Init ==
    /\ list = <<>>
    /\ listGuard = NoOne
    /\ waiting = FALSE
    /\ pc = [t \in Threads |-> "idle"]
    /\ arg = [p \in Producers |-> Nil]
    /\ ret = <<>>
    /\ exit = FALSE
    /\ adds = 0

Goto(t, l) == pc' = [pc EXCEPT ![t] = l]

Lock(t) == listGuard = NoOne /\ listGuard' = t

Unlock(t) == listGuard = t /\ listGuard' = NoOne

(***************************************************************************)
(* Add: lock, append, unlock, and only then signal.                        *)
(***************************************************************************)
AddLock(p, x) ==
    /\ pc[p] = "idle"
    /\ adds < MaxAdds
    /\ adds' = adds + 1
    /\ Lock(p)
    /\ arg' = [arg EXCEPT ![p] = x]
    /\ Goto(p, "append")
    /\ UNCHANGED <<list, waiting, ret, exit>>

AddAppend(p) ==
    /\ pc[p] = "append"
    /\ list' = Append(list, arg[p])
    /\ Goto(p, "unlock")
    /\ UNCHANGED <<listGuard, waiting, arg, ret, exit, adds>>

AddUnlock(p) ==
    /\ pc[p] = "unlock"
    /\ Unlock(p)
    /\ Goto(p, "signal")
    /\ UNCHANGED <<list, waiting, arg, ret, exit, adds>>

\* MUTANT: signal only when the list was empty before, a usual "optimisation".
AddSignalOnce(p) ==
    /\ pc[p] = "signal"
    /\ waiting' = (waiting /\ Len(list) # 1)
    /\ Goto(p, "idle")
    /\ UNCHANGED <<list, listGuard, arg, ret, exit, adds>>

\* MUTANT: the Signal is forgotten.
AddNoSignal(p) ==
    /\ pc[p] = "signal"
    /\ Goto(p, "idle")
    /\ UNCHANGED <<list, listGuard, waiting, arg, ret, exit, adds>>

AddSignal(p) ==
    /\ pc[p] = "signal"
    /\ waiting' = FALSE
    /\ Goto(p, "idle")
    /\ UNCHANGED <<list, listGuard, arg, ret, exit, adds>>

(***************************************************************************)
(* Pick: wait under the mutex for an event, let the mutex go, take it      *)
(* again and empty the list.                                               *)
(***************************************************************************)
PickLock ==
    /\ pc[Consumer] = "idle"
    /\ Lock(Consumer)
    /\ Goto(Consumer, "check")
    /\ UNCHANGED <<list, waiting, arg, ret, exit, adds>>

\* The test of the for loop; on an empty list Wait enrols the caller first.
PickCheck ==
    /\ pc[Consumer] = "check"
    /\ IF list = <<>>
       THEN waiting' = TRUE /\ Goto(Consumer, "park")
       ELSE waiting' = waiting /\ Goto(Consumer, "unlock")
    /\ UNCHANGED <<list, listGuard, arg, ret, exit, adds>>

PickPark ==
    /\ pc[Consumer] = "park"
    /\ Unlock(Consumer)
    /\ Goto(Consumer, "parked")
    /\ UNCHANGED <<list, waiting, arg, ret, exit, adds>>

\* MUTANT: "if" for "for" around Wait: a woken consumer does not look again.
PickWakeUnchecked ==
    /\ pc[Consumer] = "parked"
    /\ ~waiting
    /\ Lock(Consumer)
    /\ Goto(Consumer, "unlock")
    /\ UNCHANGED <<list, waiting, arg, ret, exit, adds>>

PickWake ==
    /\ pc[Consumer] = "parked"
    /\ ~waiting
    /\ Lock(Consumer)
    /\ Goto(Consumer, "check")
    /\ UNCHANGED <<list, waiting, arg, ret, exit, adds>>

PickUnlock ==
    /\ pc[Consumer] = "unlock"
    /\ Unlock(Consumer)
    /\ Goto(Consumer, "relock")
    /\ UNCHANGED <<list, waiting, arg, ret, exit, adds>>

PickRelock ==
    /\ pc[Consumer] = "relock"
    /\ Lock(Consumer)
    /\ Goto(Consumer, "copy")
    /\ UNCHANGED <<list, waiting, arg, ret, exit, adds>>

\* MUTANT: the nil is copied to the batch like any event.
PickCopyWithNil ==
    /\ pc[Consumer] = "copy"
    /\ ret' = list
    /\ exit' = HasNil(list)
    /\ list' = <<>>
    /\ Goto(Consumer, "return")
    /\ UNCHANGED <<listGuard, waiting, arg, adds>>

\* MUTANT: the Reset is forgotten, so the next Pick returns the batch again.
PickCopyNoReset ==
    /\ pc[Consumer] = "copy"
    /\ ret' = BeforeNil(list)
    /\ exit' = HasNil(list)
    /\ Goto(Consumer, "return")
    /\ UNCHANGED <<list, listGuard, waiting, arg, adds>>

\* The copy loop up to the first nil and the Reset.
PickCopy ==
    /\ pc[Consumer] = "copy"
    /\ ret' = BeforeNil(list)
    /\ exit' = HasNil(list)
    /\ list' = <<>>
    /\ Goto(Consumer, "return")
    /\ UNCHANGED <<listGuard, waiting, arg, adds>>

\* The last Unlock; sendThread calls Pick again unless it was told to exit.
PickReturn ==
    /\ pc[Consumer] = "return"
    /\ Unlock(Consumer)
    /\ Goto(Consumer, IF exit THEN "stopped" ELSE "idle")
    /\ UNCHANGED <<list, waiting, arg, ret, exit, adds>>

-----------------------------------------------------------------------------

Producer(p) ==
    \/ \E x \in Items : AddLock(p, x)
    \/ AddAppend(p)
    \/ AddUnlock(p)
    \/ AddSignal(p)

Consume ==
    \/ PickLock \/ PickCheck \/ PickPark \/ PickWake
    \/ PickUnlock \/ PickRelock \/ PickCopy \/ PickReturn

Next == Consume \/ \E p \in Producers : Producer(p)

Safe == Init /\ [][Next]_vars

(***************************************************************************)
(* A call of Add that has begun ends, and so does a Pick that finds work.  *)
(* Strong fairness where the mutex is taken: Go's sync.Mutex hands itself  *)
(* to a waiter that has been passed over for a millisecond.                *)
(***************************************************************************)
Fairness ==
    /\ \A p \in Producers : WF_vars(AddAppend(p) \/ AddUnlock(p) \/ AddSignal(p))
    /\ SF_vars(PickLock) /\ SF_vars(PickWake) /\ SF_vars(PickRelock)
    /\ WF_vars(PickCheck \/ PickPark \/ PickUnlock \/ PickCopy \/ PickReturn)

Spec == Safe /\ Fairness

-----------------------------------------------------------------------------

\* The types of the variables.  A batch holds events only: the nil of Close
\* never gets to the write chain, which would dereference it.
TypeOK ==
    /\ list \in Seq(Items)
    /\ listGuard \in Threads \cup {NoOne}
    /\ waiting \in BOOLEAN
    /\ pc \in [Threads -> ProducerPC \cup ConsumerPC]
    /\ \A p \in Producers : pc[p] \in ProducerPC
    /\ pc[Consumer] \in ConsumerPC
    /\ arg \in [Producers -> Items]
    /\ ret \in Seq(Events)
    /\ exit \in BOOLEAN
    /\ adds \in 0..MaxAdds

\* Add signals after it has let the mutex go (evtlist.go:18-20), which is
\* where a wakeup could be lost: when the consumer sleeps in Wait although
\* the list holds an event, the Add that will wake it is still on its way.
NoLostWakeup ==
    (pc[Consumer] \in {"park", "parked"} /\ waiting /\ list # <<>>)
        => \E p \in Producers : pc[p] \in {"unlock", "signal"}

\* Pick lets the mutex go between the wait loop and the copy loop
\* (evtlist.go:35-37) and does not test the list again: it still never hands
\* an empty list to the copy loop, so sendThread never gets an empty batch
\* without the order to exit.
NeverEmptyPick == pc[Consumer] = "copy" => list # <<>>

\* The mutex steps of Add and Pick implement the atomic Add and Pick of
\* SendQueue: nothing in front of the first nil is lost, repeated or moved.
RefinesSendQueue == SQ!Spec

\* Every event reaches the sendThread: a list that is not empty is emptied,
\* unless sendThread has been told to exit.
Drained == list # <<>> ~> (list = <<>> \/ pc[Consumer] = "stopped")

=============================================================================
