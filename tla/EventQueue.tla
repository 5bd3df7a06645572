----------------------------- MODULE EventQueue -----------------------------
(***************************************************************************)
(* The event queue of queue.go, as svc.Run uses it: main starts the loop   *)
(* and waits for a result.  The channel holds QueueLen callbacks and Post  *)
(* blocks while it is full, whoever calls it.  StopLoop hands its argument *)
(* to the caller of Wait and blocks until there is one; it does not stop   *)
(* the loop.                                                               *)
(*                                                                         *)
(* A callback is user code: between "call" and "end" it may post to the    *)
(* queue it runs on or call StopLoop, and both may block it.  Timer and    *)
(* WebSocket say what else callbacks do.                                   *)
(***************************************************************************)
EXTENDS Naturals, Sequences, FiniteSets

CONSTANTS
    QueueLen,       \* capacity of evQueue.queue
    NoCallback      \* what an idle loop runs

ASSUME QueueAssumption == QueueLen \in Nat \ {0}

VARIABLES
    queue,          \* evQueue.queue
    loop,           \* the goroutine of StartLoop
    cur,            \* the callback it runs
    main            \* the goroutine of svc.Run

queueVars == <<queue, loop, cur, main>>

QueueInit ==
    /\ queue = <<>>
    /\ loop = "off"
    /\ cur = NoCallback
    /\ main = "start"

StartLoop ==
    /\ main = "start"
    /\ main' = "wait"
    /\ loop' = "idle"
    /\ UNCHANGED <<queue, cur>>

Full == Len(queue) = QueueLen

Post(callback) ==
    /\ ~Full
    /\ queue' = Append(queue, callback)

\* The loop receives the next callback and calls it.
LoopCall ==
    /\ loop = "idle"
    /\ queue # <<>>
    /\ cur' = Head(queue)
    /\ queue' = Tail(queue)
    /\ loop' = "call"
    /\ UNCHANGED main

\* The user's part of a callback has no more to do.
CallbackDone ==
    /\ loop = "call"
    /\ loop' = "end"
    /\ UNCHANGED <<queue, cur, main>>

CallbackStopsLoop ==
    /\ loop = "call"
    /\ loop' = "exit"
    /\ UNCHANGED <<queue, cur, main>>

\* exitSignal has no buffer: StopLoop and Wait return together.
StopLoop ==
    /\ loop = "exit"
    /\ main = "wait"
    /\ main' = "returned"
    /\ loop' = "end"
    /\ UNCHANGED <<queue, cur>>

LoopReturn ==
    /\ loop = "end"
    /\ loop' = "idle"
    /\ cur' = NoCallback

\* The loop waits for itself to make room, or for a Wait nobody calls again.
Stuck == (loop = "post" /\ Full) \/ (loop = "exit" /\ main = "returned")

=============================================================================
