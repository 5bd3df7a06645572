----------------------------- MODULE WebSocket -----------------------------
(***************************************************************************)
(* The websocket peers of websocket/*.go: an acceptor or a connector with  *)
(* an event queue, its sessions with their recvThreads, and the way of an  *)
(* event from a recvThread to the queue.                                   *)
(*                                                                         *)
(* Both peers make a session the same way: Add, set OnClose, run, and only *)
(* then post Accepted or Connected.  No code calls OnClose.                *)
(*                                                                         *)
(* External: the remote end, which sends frames and may break the          *)
(* connection, and ReadMessage of gorilla/websocket.  A frame is told      *)
(* apart by what ReadPacket makes of it:                                   *)
(*   text      the name of a message that is registered, and its data      *)
(*   fatal     a name nobody registered, a close frame, or an error        *)
(* One without a name or with data the codec cannot decode is read and     *)
(* dropped, as if it had not been sent.                                    *)
(***************************************************************************)
EXTENDS EventQueue, SessionManager

CONSTANTS
    MaxFrames       \* bound on the frames a remote end sends

ASSUME WebSocketAssumption == MaxFrames \in Nat

VARIABLES
    peer,           \* the peer of the program: an acceptor or a connector
    up,             \* how far its Start has got
    wpc,            \* where the goroutine is that makes each session
    recv,           \* where the recvThread of each session is
    hold,           \* the event it has in hand
    frames,         \* history: what the remote end has sent
    nread,          \* frames the recvThread has read
    handled         \* history: events the queue has run, per session

peerVars == <<peer, up>>
recvVars == <<recv, hold, nread>>
historyVars == <<frames, handled>>
wsVars == <<managerVars, peerVars, wpc, recvVars, historyVars>>

Frames == {"text", "fatal"}

\* An event, and the callback it is wrapped in when a chain posts it.
Event(s, what) == [kind |-> "event", of |-> s, what |-> what]

\* What an event says: its message, and for Recv and Closed the frame.
Facts == {"none", "ConnectFailed", "Connected", "Accepted", "Recv", "Closed"} \X Nat

ASSUME EventAssumption == NoCallback \notin [kind : {"event"}, of : Sessions, what : Facts]

Greeting == <<IF peer = "connector" THEN "Connected" ELSE "Accepted", 0>>

WebSocketInit ==
    /\ ManagerInit
    /\ peer \in {"acceptor", "connector"}
    /\ up = "off"
    /\ wpc = [s \in Sessions |-> "none"]
    /\ recv = [s \in Sessions |-> "off"]
    /\ hold = [s \in Sessions |-> <<"none", 0>>]
    /\ frames = [s \in Sessions |-> <<>>]
    /\ nread = [s \in Sessions |-> 0]
    /\ handled = [s \in Sessions |-> <<>>]

WsGoto(s, l) == wpc' = [wpc EXCEPT ![s] = l]
RecvGoto(s, l) == recv' = [recv EXCEPT ![s] = l]

-----------------------------------------------------------------------------

(***************************************************************************)
(* The acceptor.  Stop does nothing.  Start sets running before it looks   *)
(* at the address and leaves it set when the address is no good; when      *)
(* ListenAndServe fails running is cleared, but the path is registered in  *)
(* net/http, which panics in a further Start.  In both cases nobody can    *)
(* connect, and no other Start helps.                                      *)
(***************************************************************************)
AcceptorStart ==
    /\ peer = "acceptor"
    /\ up = "off"
    /\ \E listens \in BOOLEAN : up' = IF listens THEN "serving" ELSE "deaf"
    /\ UNCHANGED <<queueVars, managerVars, peer, wpc, recvVars, historyVars>>

\* net/http calls the handler, and Upgrade succeeds.
Upgrade(s) ==
    /\ up = "serving"
    /\ wpc[s] = "none"
    /\ WsGoto(s, "add")
    /\ UNCHANGED <<queueVars, managerVars, peerVars, recvVars, historyVars>>

(***************************************************************************)
(* The connector: running is set by the goroutine that Start launches.     *)
(* Stop does nothing, for nothing sets defaultSes.                         *)
(***************************************************************************)
ConnectorStart(s) ==
    /\ peer = "connector"
    /\ up = "off"
    /\ wpc[s] = "none"
    /\ WsGoto(s, "run")
    /\ UNCHANGED <<queueVars, managerVars, peerVars, recvVars, historyVars>>

connectRun(s) ==
    /\ wpc[s] = "run"
    /\ up' = "running"
    /\ WsGoto(s, "dial")
    /\ UNCHANGED <<queueVars, managerVars, peer, recvVars, historyVars>>

Dial(s) ==
    /\ wpc[s] = "dial"
    /\ \E l \in {"add", "fail"} : WsGoto(s, l)
    /\ UNCHANGED <<queueVars, managerVars, peerVars, recvVars, historyVars>>

\* ConnectFailed is posted and connect returns.
ConnectFails(s) ==
    /\ wpc[s] = "fail"
    /\ Post(Event(s, <<"ConnectFailed", 0>>))
    /\ up' = "off"
    /\ WsGoto(s, "failed")
    /\ UNCHANGED <<loop, cur, main, managerVars, peer, recvVars, historyVars>>

(***************************************************************************)
(* What both do with a connection.                                         *)
(***************************************************************************)
\* newSession, Add, and OnClose is set.
SessionAdd(s) ==
    /\ wpc[s] = "add"
    /\ Add(s)
    /\ WsGoto(s, "start")
    /\ UNCHANGED <<queueVars, peerVars, recvVars, historyVars>>

run(s) ==
    /\ wpc[s] = "start"
    /\ RecvGoto(s, "read")
    /\ WsGoto(s, "greet")
    /\ UNCHANGED <<queueVars, managerVars, peerVars, hold, nread, historyVars>>

\* PostSystemEvent.  The handler of net/http returns; connect goes on to wait
\* for closeSignal, which nobody sends.
Greet(s) ==
    /\ wpc[s] = "greet"
    /\ Post(Event(s, Greeting))
    /\ WsGoto(s, IF peer = "connector" THEN "wait" ELSE "over")
    /\ UNCHANGED <<loop, cur, main, managerVars, peerVars, recvVars, historyVars>>

(***************************************************************************)
(* recvThread.                                                             *)
(***************************************************************************)
\* The event that becomes of the n-th frame.
ReadPacket(frame, n) == <<IF frame = "text" THEN "Recv" ELSE "Closed", n>>

RecvRead(s) ==
    /\ recv[s] = "read"
    /\ nread[s] < Len(frames[s])
    /\ nread' = [nread EXCEPT ![s] = @ + 1]
    /\ hold' = [hold EXCEPT ![s] = ReadPacket(frames[s][nread'[s]], nread'[s])]
    /\ RecvGoto(s, "post")
    /\ UNCHANGED <<queueVars, managerVars, peerVars, wpc, historyVars>>

\* MUTANT: the thread reads on after it has posted Closed.
RecvPostNoBreak(s) ==
    /\ recv[s] = "post"
    /\ Post(Event(s, hold[s]))
    /\ RecvGoto(s, "read")
    /\ UNCHANGED <<loop, cur, main, managerVars, peerVars, wpc, hold, nread, historyVars>>

\* MUTANT: an error ends the thread, and nobody is told.
RecvPostSilent(s) ==
    /\ recv[s] = "post"
    /\ IF hold[s][1] = "Closed" THEN UNCHANGED queue ELSE Post(Event(s, hold[s]))
    /\ RecvGoto(s, IF hold[s][1] = "Closed" THEN "over" ELSE "read")
    /\ UNCHANGED <<loop, cur, main, managerVars, peerVars, wpc, hold, nread, historyVars>>

\* The chains are called on this goroutine and post to the queue.
RecvPost(s) ==
    /\ recv[s] = "post"
    /\ Post(Event(s, hold[s]))
    /\ RecvGoto(s, IF hold[s][1] = "Closed" THEN "over" ELSE "read")
    /\ UNCHANGED <<loop, cur, main, managerVars, peerVars, wpc, hold, nread, historyVars>>

\* The queue has run the callback of an event.  What a callback sends is the
\* subject of MessagePath; Close of the session writes a close frame and leaves
\* the connection open until the remote end answers with one.
EventEnd ==
    /\ cur # NoCallback
    /\ cur.kind = "event"
    /\ LoopReturn
    /\ handled' = [handled EXCEPT ![cur.of] = Append(@, cur.what)]
    /\ UNCHANGED <<queue, main, managerVars, peerVars, wpc, recvVars, frames>>

\* The remote end (external), which knows a connection as soon as it is made.
RemoteSends(s, frame) ==
    /\ wpc[s] \in {"add", "start", "greet", "wait", "over"}
    /\ Len(frames[s]) < MaxFrames
    /\ frames' = [frames EXCEPT ![s] = Append(@, frame)]
    /\ UNCHANGED <<queueVars, managerVars, peerVars, wpc, recvVars, handled>>

-----------------------------------------------------------------------------

IsGreeting(what) == what[1] \in {"Connected", "Accepted"}

\* The events the frames amount to: a Recv for each up to the first that ends
\* the session, and a Closed for that one.
Expected(s) ==
    LET read == {n \in DOMAIN frames[s] : \A m \in 1..(n - 1) : frames[s][m] # "fatal"}
    IN  [n \in read |-> ReadPacket(frames[s][n], n)]

HasClosed(events) == \E i \in DOMAIN events : events[i][1] = "Closed"

\* What a session's callbacks are told, though two goroutines post it and the
\* queue may be full: its messages in the order they were sent, then Closed,
\* once and last; and once, before, between or after these, that it was made
\* (acceptor.go:63 posts Accepted when the recvThread runs already).
EventsInOrder ==
    \A s \in Sessions :
        LET told == {i \in DOMAIN handled[s] : ~IsGreeting(handled[s][i])}
            number(i) == handled[s][i][2]
        IN  /\ \A i, j \in DOMAIN handled[s] \ told : i = j
            /\ \/ handled[s] = <<<<"ConnectFailed", 0>>>>
               \/ /\ \A i \in told : /\ number(i) \in DOMAIN Expected(s)
                                     /\ handled[s][i] = Expected(s)[number(i)]
                  /\ \A i, j \in told : i < j => number(i) < number(j)
                  /\ \A i \in told : \A n \in 1..number(i) : \E j \in told : number(j) = n

\* A session that is over is reported: Closed is run by the queue, unless the
\* loop of the queue is stuck.
ClosedIsTold ==
    \A s \in Sessions :
        (recv[s] # "off" /\ HasClosed(Expected(s))) ~> Stuck \/ HasClosed(handled[s])

=============================================================================
