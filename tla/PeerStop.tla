------------------------------ MODULE PeerStop ------------------------------
(***************************************************************************)
(* How a peer is started and stopped: the flag running of peerprofile.go   *)
(* and the channel stopping of socket/base.go, by which the goroutine of a *)
(* peer tells the caller of Stop that it is over.  Connector and Acceptor  *)
(* extend this module; they add what Start launches and what Stop closes.  *)
(*                                                                         *)
(* stopping is read and written without a lock.  Every make(chan bool)     *)
(* yields a new channel, here a number; 0 is the nil channel.              *)
(***************************************************************************)
EXTENDS Naturals, FiniteSets

CONSTANTS
    Users,          \* goroutines that call Start and Stop
    MaxStarts,      \* bound on the calls of Start
    MaxStops        \* bound on the calls of startStopping

ASSUME PeerAssumption == MaxStarts \in Nat /\ MaxStops \in Nat

VARIABLES
    running,        \* PeerProfileImplement.running
    stopping,       \* socketPeer.stopping
    starts, stops,  \* calls made so far
    upc,            \* where each user is
    op,             \* the call it makes
    chan            \* the channel waitStopFinished receives from

peerVars == <<running, stopping, starts, stops, upc, op, chan>>

Channels == 0..MaxStops

PeerTypeOK ==
    /\ running \in BOOLEAN
    /\ stopping \in Channels
    /\ starts \in 0..MaxStarts
    /\ stops \in 0..MaxStops
    /\ upc \in [Users -> {"idle", "query", "arm", "close", "closing", "check", "load",
                      "recv", "clear", "go", "panic"}]
    /\ op \in [Users -> {"start", "stop"}]
    /\ chan \in [Users -> Channels]

PeerInit ==
    /\ running = FALSE
    /\ stopping = 0
    /\ starts = 0
    /\ stops = 0
    /\ upc = [u \in Users |-> "idle"]
    /\ op = [u \in Users |-> "stop"]
    /\ chan = [u \in Users |-> 0]

isStopping == stopping # 0

UserGoto(u, l) == upc' = [upc EXCEPT ![u] = l]

\* A panic in any goroutine ends the process.
Panic(u) == UserGoto(u, "panic")

Alive == \A u \in Users : upc[u] # "panic"

(***************************************************************************)
(* Stop and Start up to the point where they differ per peer.  A Stop of a *)
(* peer that is not running, or is being stopped, returns at once; the two *)
(* are tested one after the other.                                         *)
(***************************************************************************)
StopCall(u) ==
    /\ upc[u] = "idle"
    /\ stops < MaxStops
    /\ running
    /\ op' = [op EXCEPT ![u] = "stop"]
    /\ UserGoto(u, "query")
    /\ UNCHANGED <<running, stopping, starts, stops, chan>>

StopQuery(u) ==
    /\ upc[u] = "query"
    /\ UserGoto(u, IF isStopping THEN "idle" ELSE "arm")
    /\ UNCHANGED <<running, stopping, starts, stops, op, chan>>

startStopping(u) ==
    /\ upc[u] = "arm"
    /\ stops < MaxStops
    /\ stops' = stops + 1
    /\ stopping' = stops + 1
    /\ UserGoto(u, "close")
    /\ UNCHANGED <<running, starts, op, chan>>

StartCall(u) ==
    /\ upc[u] = "idle"
    /\ starts < MaxStarts
    /\ starts' = starts + 1
    /\ op' = [op EXCEPT ![u] = "start"]
    /\ UserGoto(u, "check")
    /\ UNCHANGED <<running, stopping, stops, chan>>

(***************************************************************************)
(* waitStopFinished: test the field, load it again, receive, clear it.     *)
(* Whether the compiler really loads the field twice is left open.         *)
(***************************************************************************)
Waited(u) == UserGoto(u, IF op[u] = "start" THEN "go" ELSE "idle")

waitStopFinished(u) ==
    \/ /\ upc[u] = "check"
       /\ ~isStopping
       /\ Waited(u)
       /\ UNCHANGED <<running, stopping, starts, stops, op, chan>>
    \/ /\ upc[u] = "check"
       /\ isStopping
       /\ chan' = [chan EXCEPT ![u] = stopping]
       /\ UserGoto(u, "load")
       /\ UNCHANGED <<running, stopping, starts, stops, op>>
    \/ /\ upc[u] = "load"
       /\ \E c \in {chan[u], stopping} : chan' = [chan EXCEPT ![u] = c]
       /\ UserGoto(u, "recv")
       /\ UNCHANGED <<running, stopping, starts, stops, op>>
    \/ /\ upc[u] = "clear"
       /\ stopping' = 0
       /\ Waited(u)
       /\ UNCHANGED <<running, starts, stops, op, chan>>

(***************************************************************************)
(* The end of a peer's goroutine.  The send of endStopping happens only if *)
(* somebody is receiving from that channel at that moment.                 *)
(***************************************************************************)
SetRunning(v) ==
    /\ running' = v
    /\ UNCHANGED <<stopping, starts, stops, upc, op, chan>>

Receivers == {u \in Users : upc[u] = "recv" /\ isStopping /\ chan[u] = stopping}

endStopping ==
    /\ \/ \E u \in Receivers : UserGoto(u, "clear") /\ UNCHANGED stopping
       \/ Receivers = {} /\ stopping' = 0 /\ UNCHANGED upc
    /\ UNCHANGED <<running, starts, stops, op, chan>>

=============================================================================
