-------------------------------- MODULE RPC --------------------------------
(***************************************************************************)
(* Remote calls over one session (rpc/*.go) at the calling side, with its  *)
(* receive chains, the recvThread that walks them and the event queue of   *)
(* queue.go.                                                               *)
(*                                                                         *)
(* Call and CallSync add a chain, send a request that carries the chain's  *)
(* id as CallID, and are answered through the chain.  The chain lets pass  *)
(* every RemoteCallACK that boxes a message of the type it waits for; the  *)
(* CallID of the answer is not looked at.                                  *)
(*                                                                         *)
(* External: the remote end answers requests in any order, once each, with *)
(* the CallID of the request (UnboxHandler and BoxHandler there).          *)
(***************************************************************************)
EXTENDS HandlerChains

CONSTANTS
    Calls,          \* the remote calls that are made
    Sync,           \* those made with CallSync
    Ack,            \* the type of the answer each waits for
    QueueLen,       \* capacity of the channel of evQueue
    TimesOut,       \* a CallSync may time out before its answer is there
    Lossy           \* the remote end may leave a request unanswered

ASSUME RPCAssumption ==
    /\ Sync \subseteq Calls
    /\ DOMAIN Ack = Calls
    /\ QueueLen \in Nat \ {0}
    /\ {TimesOut, Lossy} \subseteq BOOLEAN
    /\ IsFiniteSet(Calls) /\ MaxChains = Cardinality(Calls)

VARIABLES
    cpc,            \* where each caller is
    chainOf,        \* the chain of each call, 0 before it is added
    rpcid,          \* the variable rpcID of each call: set after the add
    timer,          \* the timer of Call
    asked,          \* requests at the remote end
    answers,        \* answers on their way, in order
    answer,         \* the one the recvThread has read, as a set
    todo,           \* chains of its list that match and have not been called
    queue,          \* evQueue.queue: who is to get which answer
    job,            \* the callback the loop of the queue runs, as a sequence
    came,           \* history: the answers of its type that came to each call
    told            \* history: the answers handed to each call

callVars == <<cpc, chainOf, rpcid, timer>>
netVars == <<asked, answers>>
recvVars == <<answer, todo>>
queueVars == <<queue, job>>
history == <<came, told>>
vars == <<chainVars, callVars, netVars, recvVars, queueVars, history>>

Async == Calls \ Sync
Jobs == [to : Calls, of : Calls, step : {"tail", "remove"}]

Init ==
    /\ ChainsInit
    /\ cpc = [c \in Calls |-> "idle"]
    /\ chainOf = [c \in Calls |-> 0]
    /\ rpcid = [c \in Calls |-> 0]
    /\ timer = [c \in Calls |-> "off"]
    /\ asked = {}
    /\ answers = <<>>
    /\ answer = {}
    /\ todo = {}
    /\ queue = <<>>
    /\ job = <<>>
    /\ came = [c \in Calls |-> <<>>]
    /\ told = [c \in Calls |-> <<>>]

-----------------------------------------------------------------------------

(***************************************************************************)
(* The callers.                                                            *)
(***************************************************************************)
CallGoto(c, l) == cpc' = [cpc EXCEPT ![c] = l]

\* buildRecvHandler adds the chain ...
BuildAdd(c) ==
    /\ cpc[c] = "idle"
    /\ AddChainRecv
    /\ chainOf' = [chainOf EXCEPT ![c] = chainIDAcc']
    /\ CallGoto(c, "assign")
    /\ UNCHANGED <<rpcid, timer, netVars, recvVars, queueVars, history>>

\* ... and only then gives rpcID, which the chain's last handler reads, its
\* value.  Call starts its timer.
BuildAssign(c) ==
    /\ cpc[c] = "assign"
    /\ rpcid' = [rpcid EXCEPT ![c] = chainOf[c]]
    /\ timer' = [timer EXCEPT ![c] = IF c \in Async THEN "set" ELSE @]
    /\ CallGoto(c, "send")
    /\ UNCHANGED <<chainVars, chainOf, netVars, recvVars, queueVars, history>>

\* RawSend.  Call returns; CallSync waits.
CallSend(c) ==
    /\ cpc[c] = "send"
    /\ asked' = asked \cup {c}
    /\ CallGoto(c, IF c \in Sync THEN "wait" ELSE "done")
    /\ UNCHANGED <<chainVars, chainOf, rpcid, timer, answers, recvVars, queueVars, history>>

\* MUTANT: the select of CallSync has no case for the timeout.
SyncTimeoutNever(c) == cpc[c] = "none" /\ UNCHANGED vars

\* CallSync gives up.  Its chain stays.
SyncTimeout(c) ==
    /\ TimesOut
    /\ cpc[c] = "wait"
    /\ CallGoto(c, "timeout")
    /\ UNCHANGED <<chainVars, chainOf, rpcid, timer, netVars, recvVars, queueVars, history>>

\* MUTANT: the timer of Call removes nothing.
AsyncTimeoutKeeps(c) ==
    /\ timer[c] = "set"
    /\ timer' = [timer EXCEPT ![c] = "fired"]
    /\ UNCHANGED <<chainVars, cpc, chainOf, rpcid, netVars, recvVars, queueVars, history>>

AsyncTimeout(c) ==
    /\ timer[c] = "set"
    /\ timer' = [timer EXCEPT ![c] = "fired"]
    /\ RemoveChainRecv(rpcid[c])
    /\ UNCHANGED <<cpc, chainOf, rpcid, netVars, recvVars, queueVars, history>>

\* The remote end (external).
RemoteAnswers(c) ==
    /\ c \in asked
    /\ asked' = asked \ {c}
    /\ answers' = Append(answers, c)
    /\ UNCHANGED <<chainVars, callVars, recvVars, queueVars, history>>

(***************************************************************************)
(* The recvThread: read an answer, take the list of chains, and call each. *)
(* A chain that waits for another type does nothing; one that matches      *)
(* posts to the queue, which blocks while the queue is full.               *)
(***************************************************************************)
Matching(list, c) == {d \in Calls : chainOf[d] \in list /\ Ack[d] = Ack[c]}

\* The calls c comes to are those whose chain is in the map when it is read.
Comes(c) ==
    came' = [d \in Calls |-> IF d \in Matching(recvChainByID, c) THEN Append(came[d], c) ELSE came[d]]

\* MUTANT: the type of the answer is not compared.
RecvAnswerAny ==
    /\ todo = {}
    /\ answers # <<>>
    /\ ChainListRecv
    /\ answer' = {Head(answers)}
    /\ todo' = {d \in Calls : chainOf[d] \in recvChainList'}
    /\ answers' = Tail(answers)
    /\ Comes(Head(answers))
    /\ UNCHANGED <<callVars, asked, queueVars, told>>

RecvAnswer ==
    /\ todo = {}
    /\ answers # <<>>
    /\ ChainListRecv
    /\ answer' = {Head(answers)}
    /\ todo' = Matching(recvChainList', Head(answers))
    /\ answers' = Tail(answers)
    /\ Comes(Head(answers))
    /\ UNCHANGED <<callVars, asked, queueVars, told>>

Post(d) ==
    /\ d \in todo
    /\ Len(queue) < QueueLen
    /\ \E c \in answer :
          queue' = Append(queue, [to |-> d, of |-> c, step |-> "tail"])
    /\ todo' = todo \ {d}
    /\ UNCHANGED <<chainVars, callVars, netVars, answer, job, history>>

(***************************************************************************)
(* The loop of the queue runs the callbacks of QueuePostHandler one after  *)
(* the other: the tail handler, then the one that removes the chain.       *)
(***************************************************************************)
LoopTake ==
    /\ job = <<>>
    /\ queue # <<>>
    /\ job' = <<Head(queue)>>
    /\ queue' = Tail(queue)
    /\ UNCHANGED <<chainVars, callVars, netVars, recvVars, history>>

Tell(j) ==
    /\ told' = [told EXCEPT ![j.to] = Append(@, j.of)]
    /\ job' = <<[j EXCEPT !.step = "remove"]>>
    /\ UNCHANGED <<chainVars, chainOf, rpcid, timer, netVars, recvVars, queue, came>>

\* CallbackHandler: the callback of Call.
LoopCallback ==
    \E j \in {job[i] : i \in DOMAIN job} :
        /\ j.step = "tail"
        /\ j.to \in Async
        /\ Tell(j)
        /\ UNCHANGED cpc

\* RetChanHandler: the send on ret meets the receive of CallSync, or blocks.
LoopRetChan ==
    \E j \in {job[i] : i \in DOMAIN job} :
        /\ j.step = "tail"
        /\ j.to \in Sync
        /\ cpc[j.to] = "wait"
        /\ Tell(j)
        /\ CallGoto(j.to, "done")

\* MUTANT: the recvThread holds recvChainGuard while it walks the chains.
LoopRemoveWaits ==
    \E j \in {job[i] : i \in DOMAIN job} :
        /\ j.step = "remove"
        /\ todo = {}
        /\ RemoveChainRecv(rpcid[j.to])
        /\ job' = <<>>
        /\ UNCHANGED <<callVars, netVars, recvVars, queue, history>>

LoopRemove ==
    \E j \in {job[i] : i \in DOMAIN job} :
        /\ j.step = "remove"
        /\ RemoveChainRecv(rpcid[j.to])
        /\ job' = <<>>
        /\ UNCHANGED <<callVars, netVars, recvVars, queue, history>>

-----------------------------------------------------------------------------

Caller(c) == BuildAdd(c) \/ BuildAssign(c) \/ CallSend(c) \/ SyncTimeout(c)
Recv == RecvAnswer \/ \E d \in Calls : Post(d)
Loop == LoopTake \/ LoopCallback \/ LoopRetChan \/ LoopRemove

Next ==
    \/ \E c \in Calls : Caller(c) \/ AsyncTimeout(c) \/ RemoteAnswers(c)
    \/ Recv
    \/ Loop

(***************************************************************************)
(* Goroutines that can run go on and timers fire; the remote end answers   *)
(* unless it may lose a request.  A call need not be made.                 *)
(***************************************************************************)
Fairness ==
    /\ \A c \in Calls : /\ WF_vars(cpc[c] # "idle" /\ Caller(c))
                        /\ WF_vars(AsyncTimeout(c))
                        /\ Lossy \/ WF_vars(RemoteAnswers(c))
    /\ WF_vars(Recv)
    /\ WF_vars(Loop)

Spec == Init /\ [][Next]_vars /\ Fairness

-----------------------------------------------------------------------------

\* The types of the variables.
TypeOK ==
    /\ ChainsTypeOK
    /\ cpc \in [Calls -> {"idle", "assign", "send", "wait", "timeout", "done"}]
    /\ chainOf \in [Calls -> 0..MaxChains]
    /\ rpcid \in [Calls -> 0..MaxChains]
    /\ timer \in [Calls -> {"off", "set", "fired"}]
    /\ asked \subseteq Calls
    /\ answers \in Seq(Calls)
    /\ answer \subseteq Calls
    /\ todo \subseteq Calls
    /\ queue \in Seq(Jobs) /\ Len(queue) <= QueueLen
    /\ job \in Seq(Jobs) /\ Len(job) <= 1
    /\ came \in [Calls -> Seq(Calls)]
    /\ told \in [Calls -> Seq(Calls)]

\* What a call is told is what came for it: the answers of the type it waits
\* for that were read while its chain was in the manager, in that order, none
\* twice, and in the end all of them, though the recvThread walks a list that
\* may be out of date by then, posts to a queue that may be full, and timers and
\* earlier answers remove the chain meanwhile.  A CallSync is told one at most.
\* They answer calls of its type: its own request, if no other call waits for
\* that type, but else perhaps another one (reqhandler.go:17).
ToldWhatCame ==
    \A c \in Calls :
        /\ Len(told[c]) <= Len(came[c])
        /\ \A i \in DOMAIN told[c] : told[c][i] = came[c][i] /\ Ack[told[c][i]] = Ack[c]
        /\ \A i, j \in DOMAIN came[c] : came[c][i] = came[c][j] => i = j
        /\ todo = {} /\ queue = <<>> /\ job = <<>> => told[c] = came[c]
        /\ c \in Sync => Len(told[c]) <= 1

\* A CallSync that has sent its request returns.
CallSyncReturns == \A c \in Sync : cpc[c] = "wait" ~> cpc[c] \in {"done", "timeout"}

\* The chain of a Call is gone in the end, answered or not, also when the
\* timer and the answer race: chains do not pile up.
AsyncChainRemoved ==
    \A c \in Async : cpc[c] = "done" ~> [](chainOf[c] \notin recvChainByID)

\* The loop of the queue gets stuck in one way only: in the send of
\* RetChanHandler to a CallSync that receives no more, because it has timed out,
\* or has been given an answer of the same type before.
Jammed ==
    \E i \in DOMAIN job : /\ job[i].step = "tail" /\ job[i].to \in Sync
                         /\ cpc[job[i].to] \in {"timeout", "done"}

LoopRunsUnlessLate == queue # <<>> \/ job # <<>> ~> (queue = <<>> /\ job = <<>>) \/ Jammed

\* "投递事件, 通过队列到达消费者端" (queue.go:15): whatever is posted is run,
\* the loop does not get stuck.
PostedIsRun == queue # <<>> \/ job # <<>> ~> queue = <<>> /\ job = <<>>

=============================================================================
