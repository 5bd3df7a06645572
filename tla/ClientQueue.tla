---------------------------- MODULE ClientQueue ----------------------------
(***************************************************************************)
(* The message queue of NetworkPeerBase.cs, between the threads of the     *)
(* Unity client's sockets, which post, and the main thread, which takes    *)
(* one message per frame; with the emulation of a network delay.           *)
(* ClientSocket extends this module.                                       *)
(*                                                                         *)
(* A message is the number of its posting.  What NetworkPeer.ProcessStream *)
(* and the dispatcher do with one changes nothing here: every exception is *)
(* caught, and what a callback calls is a call of the main thread.         *)
(***************************************************************************)
EXTENDS Naturals, Sequences

VARIABLES
    msgQueue,       \* _msgQueue
    delayQueue,     \* _delayQueue
    delayed,        \* _emulateDelayMS > 0
    posted,         \* number of calls of PostStream so far
    processed,      \* number of calls of ProcessStream so far
    mixed           \* history: the delay was switched off with messages in it

queueVars == <<msgQueue, delayQueue, delayed, posted, processed, mixed>>

QueueTypeOK ==
    /\ msgQueue \in Seq(Nat)
    /\ delayQueue \in Seq(Nat)
    /\ delayed \in BOOLEAN
    /\ posted \in Nat
    /\ processed \in Nat
    /\ mixed \in BOOLEAN

QueueInit ==
    /\ msgQueue = <<>>
    /\ delayQueue = <<>>
    /\ delayed \in BOOLEAN
    /\ posted = 0
    /\ processed = 0
    /\ mixed = FALSE

\* One step: it holds _msgQueueGuard.
PostStream ==
    /\ posted' = posted + 1
    /\ msgQueue' = Append(msgQueue, posted')
    /\ UNCHANGED <<delayQueue, delayed, processed, mixed>>

\* MUTANT: a frame with an empty queue returns before it looks at the delay.
PollingQueueFirst(due) ==
    LET ripe == due /\ delayed /\ delayQueue # <<>>
        rest == IF ripe THEN Tail(delayQueue) ELSE delayQueue
    IN  /\ msgQueue # <<>>
        /\ msgQueue' = Tail(msgQueue)
        /\ delayQueue' = IF delayed THEN Append(rest, Head(msgQueue)) ELSE rest
        /\ processed' = processed + (IF ripe THEN 1 ELSE 0) + (IF delayed THEN 0 ELSE 1)
        /\ UNCHANGED <<delayed, posted, mixed>>

\* MUTANT: a message that finds none in the delay in front of it is not delayed.
PollingBypass(due) ==
    LET ripe == due /\ delayed /\ delayQueue # <<>>
        rest == IF ripe THEN Tail(delayQueue) ELSE delayQueue
        take == msgQueue # <<>>
        hold == delayed /\ ~ripe
    IN  /\ ripe \/ take
        /\ msgQueue' = IF take THEN Tail(msgQueue) ELSE msgQueue
        /\ delayQueue' = IF take /\ hold THEN Append(rest, Head(msgQueue)) ELSE rest
        /\ processed' = processed + (IF ripe THEN 1 ELSE 0) + (IF take /\ ~hold THEN 1 ELSE 0)
        /\ UNCHANGED <<delayed, posted, mixed>>

\* A frame: process the first delayed message if it is due, then take one
\* from the queue, to be delayed or processed at once.
Polling(due) ==
    LET ripe == due /\ delayed /\ delayQueue # <<>>
        rest == IF ripe THEN Tail(delayQueue) ELSE delayQueue
        take == msgQueue # <<>>
    IN  /\ ripe \/ take
        /\ msgQueue' = IF take THEN Tail(msgQueue) ELSE msgQueue
        /\ delayQueue' = IF take /\ delayed THEN Append(rest, Head(msgQueue)) ELSE rest
        /\ processed' = processed + (IF ripe THEN 1 ELSE 0) + (IF take /\ ~delayed THEN 1 ELSE 0)
        /\ UNCHANGED <<delayed, posted, mixed>>

EmulateDelayMS(b) ==
    /\ delayed' = b
    /\ mixed' = (mixed \/ (~b /\ delayQueue # <<>>))
    /\ UNCHANGED <<msgQueue, delayQueue, posted, processed>>

\* The main thread processes messages in the order in which the sockets
\* posted them, none twice and none left out, with or without the delay:
\* what waits is what comes next.  (When the delay is switched off, the
\* messages in it are overtaken.)
ProcessedInOrder ==
    ~mixed => delayQueue \o msgQueue = [i \in 1..(posted - processed) |-> processed + i]

\* Whatever is posted is processed.
PostedIsProcessed ==
    msgQueue # <<>> \/ delayQueue # <<>> ~> processed = posted \/ mixed

=============================================================================
