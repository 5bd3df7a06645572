---------------------------- MODULE ClientSocket ----------------------------
(***************************************************************************)
(* The Unity client's side of a connection: ClientSocket.cs, and the calls *)
(* NetworkPeerBase.cs makes of it.  A peer makes a ClientSocket per        *)
(* Connect and forgets it in Stop; three threads work on each: the main    *)
(* thread, the callback HandleConnected and IOThreadRecv.                  *)
(*                                                                         *)
(* A packet is its number at the sender, its tag that number modulo        *)
(* TagModulus.  Host names are not resolved: nothing sets ResolveHost.     *)
(*                                                                         *)
(* External: System.Net.Sockets.Socket and the remote end.  Connected is a *)
(* flag of the socket: set when the connection is made (net is "early"),   *)
(* or, by other runtimes, in EndConnect, and cleared when an operation     *)
(* fails.                                                                  *)
(***************************************************************************)
EXTENDS ClientQueue

CONSTANTS
    MaxSockets,     \* bound on the calls of Connect
    MaxPackets,     \* bound on the packets of the remote end, per socket
    MaxSends,       \* bound on the calls of SendMessage, per socket
    TagModulus      \* number of tags (2^16: UInt16)

ASSUME ClientAssumption ==
    /\ {MaxSockets, MaxPackets, MaxSends} \subseteq Nat
    /\ TagModulus \in Nat \ {0, 1}

VARIABLES
    cur, made,      \* NetworkPeerBase._socket (0 for null), sockets so far
    pc,             \* where each thread of a ClientSocket is
    sock,           \* ClientSockets whose _socket is not null
    stage,          \* _stage
    running,        \* those whose _threadRunning is set
    guard,          \* the thread that holds _closeGuard
    net,            \* the Socket object
    remote,         \* the remote end: open, has closed, has reset
    stream,         \* packets sent to the client and not read
    sent,           \* packets the remote end has numbered
    recvTag,
    sendTag,
    got, out,       \* history: packets posted, packets sent
    said,           \* history: number of events posted, by kind
    missed          \* history: Close took them for not connected as they came up

ownVars == <<cur, made, pc, sock, stage, running, guard, net, remote, stream, sent,
             recvTag, sendTag, got, out, said, missed>>
vars == <<queueVars, ownVars>>

Sockets == 1..MaxSockets
Threads == {"main", "conn", "recv"}
Kinds == {"Connected", "Disconnected", "ConnectError", "SendError", "RecvError"}

Init ==
    /\ QueueInit
    /\ cur = 0
    /\ made = 0
    /\ pc = [t \in Threads |-> [s \in Sockets |-> "none"]]
    /\ sock = {}
    /\ stage = [s \in Sockets |-> "None"]
    /\ running = {}
    /\ guard = [s \in Sockets |-> "free"]
    /\ net = [s \in Sockets |-> "none"]
    /\ remote = [s \in Sockets |-> "open"]
    /\ stream = [s \in Sockets |-> <<>>]
    /\ sent = [s \in Sockets |-> 0]
    /\ recvTag = [s \in Sockets |-> 1]
    /\ sendTag = [s \in Sockets |-> 1]
    /\ got = [s \in Sockets |-> <<>>]
    /\ out = [s \in Sockets |-> <<>>]
    /\ said = [s \in Sockets |-> [k \in Kinds |-> 0]]
    /\ missed = {}

Goto(t, s, l) == pc' = [pc EXCEPT ![t][s] = l]

\* The callbacks NetworkPeerBase.Connect sets post an event.
Say(s, k) == PostStream /\ said' = [said EXCEPT ![s][k] = @ + 1]
SayNothing == UNCHANGED <<queueVars, said>>

packetVars == <<stream, sent, recvTag, sendTag, got, out>>

-----------------------------------------------------------------------------

(***************************************************************************)
(* Close, called by any thread t.  It holds _closeGuard; those who read    *)
(* _socket, _stage and _threadRunning do not.                              *)
(***************************************************************************)
\* What _socket.Connected returns.
Connected(s) == net[s] \in {"early", "connected"}

\* Where t goes on: Stop, the end of HandleConnected, the loop of IOThreadRecv.
After(t) == CASE t = "main" -> "clear" [] t = "conn" -> "done" [] t = "recv" -> "loop"

\* MUTANT: the socket is forgotten and not closed.
CloseEnterForgets(t, s) ==
    /\ pc[t][s] = "lock"
    /\ guard[s] = "free"
    /\ IF s \notin sock
       THEN Goto(t, s, After(t)) /\ UNCHANGED <<guard, stage>>
       ELSE /\ guard' = [guard EXCEPT ![s] = t]
            /\ stage' = [stage EXCEPT ![s] = "None"]
            /\ Goto(t, s, IF Connected(s) THEN "notify" ELSE "unlock")
    /\ SayNothing
    /\ UNCHANGED <<cur, made, sock, running, net, remote, packetVars, missed>>

\* A Socket that is not connected is not closed.
CloseEnter(t, s) ==
    /\ pc[t][s] = "lock"
    /\ guard[s] = "free"
    /\ IF s \notin sock
       THEN Goto(t, s, After(t)) /\ UNCHANGED <<guard, stage, net, missed>>
       ELSE /\ guard' = [guard EXCEPT ![s] = t]
            /\ stage' = [stage EXCEPT ![s] = "None"]
            /\ net' = [net EXCEPT ![s] = IF Connected(s) THEN "closed" ELSE @]
            /\ missed' = IF net[s] = "open" THEN missed \cup {s} ELSE missed
            /\ Goto(t, s, IF Connected(s) THEN "notify" ELSE "unlock")
    /\ SayNothing
    /\ UNCHANGED <<cur, made, sock, running, remote, packetVars>>

\* MUTANT: OnDisconnected is not called.
CloseNotifySilent(t, s) ==
    /\ pc[t][s] = "notify"
    /\ SayNothing
    /\ Goto(t, s, "unlock")
    /\ UNCHANGED <<cur, made, sock, stage, running, guard, net, remote, packetVars, missed>>

CloseNotify(t, s) ==
    /\ pc[t][s] = "notify"
    /\ Say(s, "Disconnected")
    /\ Goto(t, s, "unlock")
    /\ UNCHANGED <<cur, made, sock, stage, running, guard, net, remote, packetVars, missed>>

CloseLeave(t, s) ==
    /\ pc[t][s] = "unlock"
    /\ running' = running \ {s}
    /\ sock' = sock \ {s}
    /\ guard' = [guard EXCEPT ![s] = "free"]
    /\ Goto(t, s, After(t))
    /\ SayNothing
    /\ UNCHANGED <<cur, made, stage, net, remote, packetVars, missed>>

Close(t, s) == CloseEnter(t, s) \/ CloseNotify(t, s) \/ CloseLeave(t, s)

(***************************************************************************)
(* The main thread.  Connect makes a ClientSocket when there is none and   *)
(* runs until BeginConnect, before any other thread knows of it.           *)
(***************************************************************************)
MainIdle == \A s \in Sockets : pc["main"][s] = "none"

Make == /\ MainIdle
        /\ cur = 0
        /\ made < MaxSockets
        /\ made' = made + 1
        /\ cur' = made'

Connect ==
    /\ Make
    /\ sock' = sock \cup {made'}
    /\ stage' = [stage EXCEPT ![made'] = "BeginConnect"]
    /\ net' = [net EXCEPT ![made'] = "connecting"]
    /\ SayNothing
    /\ UNCHANGED <<pc, running, guard, remote, packetVars, missed>>

\* The address has no port, or BeginConnect throws: Error, and Close finds
\* nothing to notify.
ConnectBad ==
    /\ Make
    /\ Say(made', "ConnectError")
    /\ UNCHANGED <<pc, sock, stage, running, guard, net, remote, packetVars, missed>>

\* The address is not an IP address: the exception leaves Connect.
ConnectThrows ==
    /\ Make
    /\ SayNothing
    /\ UNCHANGED <<pc, sock, stage, running, guard, net, remote, packetVars, missed>>

Stop ==
    /\ MainIdle
    /\ cur # 0
    /\ Goto("main", cur, "lock")
    /\ SayNothing
    /\ UNCHANGED <<cur, made, sock, stage, running, guard, net, remote, packetVars, missed>>

StopClear(s) ==
    /\ pc["main"][s] = "clear"
    /\ cur' = 0
    /\ Goto("main", s, "none")
    /\ SayNothing
    /\ UNCHANGED <<made, sock, stage, running, guard, net, remote, packetVars, missed>>

\* SendPacket on a connected socket takes a tag ...
SendMessage ==
    /\ MainIdle
    /\ cur \in sock
    /\ sendTag[cur] <= MaxSends
    /\ Connected(cur)
    /\ sendTag' = [sendTag EXCEPT ![cur] = @ + 1]
    /\ Goto("main", cur, "send")
    /\ SayNothing
    /\ UNCHANGED <<cur, made, sock, stage, running, guard, net, remote,
                   stream, sent, recvTag, got, out, missed>>

\* ... and sends, unless IOThreadRecv has closed the socket meanwhile.
SendPacket(s) ==
    /\ pc["main"][s] = "send"
    /\ Goto("main", s, "none")
    /\ \/ /\ s \in sock /\ Connected(s) /\ remote[s] # "reset"
          /\ out' = [out EXCEPT ![s] = Append(@, sendTag[s] - 1)]
          /\ SayNothing /\ UNCHANGED net
       \/ /\ s \notin sock \/ ~Connected(s)
          /\ SayNothing /\ UNCHANGED <<out, net>>
       \/ /\ s \notin sock \/ ~Connected(s) \/ remote[s] = "reset"
          /\ Say(s, "SendError")
          /\ net' = [net EXCEPT ![s] = CASE s \in sock /\ @ = "connected" -> "failed"
                                         [] s \in sock /\ @ = "early" -> "open"
                                         [] OTHER -> @]
          /\ UNCHANGED out
    /\ UNCHANGED <<cur, made, sock, stage, running, guard, remote,
                   stream, sent, recvTag, sendTag, got, missed>>

(***************************************************************************)
(* HandleConnected, on a thread of the runtime.                            *)
(***************************************************************************)
ConnCheck(s) ==
    /\ pc["conn"][s] = "check"
    /\ Goto("conn", s, IF stage[s] = "BeginConnect" THEN "end" ELSE "done")
    /\ SayNothing
    /\ UNCHANGED <<cur, made, sock, stage, running, guard, net, remote, packetVars, missed>>

\* EndConnect; it throws, too, when _socket is null by now.
ConnEnd(s) ==
    /\ pc["conn"][s] = "end"
    /\ IF s \in sock /\ net[s] \in {"open", "early"}
       THEN /\ net' = [net EXCEPT ![s] = "connected"]
            /\ Goto("conn", s, "thread")
            /\ SayNothing
       ELSE /\ Say(s, "ConnectError")
            /\ Goto("conn", s, "lock")
            /\ UNCHANGED net
    /\ UNCHANGED <<cur, made, sock, stage, running, guard, remote, packetVars, missed>>

ConnThread(s) ==
    /\ pc["conn"][s] = "thread"
    /\ running' = running \cup {s}
    /\ pc' = [pc EXCEPT !["conn"][s] = "ready", !["recv"][s] = "loop"]
    /\ SayNothing
    /\ UNCHANGED <<cur, made, sock, stage, guard, net, remote, packetVars, missed>>

ConnReady(s) ==
    /\ pc["conn"][s] = "ready"
    /\ stage' = [stage EXCEPT ![s] = "Ready"]
    /\ Say(s, "Connected")
    /\ Goto("conn", s, "done")
    /\ UNCHANGED <<cur, made, sock, running, guard, net, remote, packetVars, missed>>

(***************************************************************************)
(* IOThreadRecv: loop, read a header, check its tag, read the body, post.  *)
(* A packet stays at the head of the stream until it is posted.            *)
(***************************************************************************)
RecvLoop(s) ==
    /\ pc["recv"][s] = "loop"
    /\ Goto("recv", s, CASE s \notin running \/ s \notin sock -> "done"
                         [] net[s] = "connected" -> "head"
                         [] OTHER -> "lock")
    /\ SayNothing
    /\ UNCHANGED <<cur, made, sock, stage, running, guard, net, remote, packetVars, missed>>

\* ReadPacket tests _socket and calls its Receive; when _socket is null it
\* returns, when it has become null after the test it catches the exception.
ReadPacket(s) ==
    /\ pc["recv"][s] \in {"head", "body"}
    /\ \/ /\ s \in sock
          /\ Goto("recv", s, IF pc["recv"][s] = "head" THEN "recvHead" ELSE "recvBody")
          /\ SayNothing
       \/ s \notin sock /\ Goto("recv", s, "loop") /\ SayNothing
       \/ s \notin sock /\ Goto("recv", s, "lock") /\ Say(s, "RecvError")
    /\ UNCHANGED <<cur, made, sock, stage, running, guard, net, remote, packetVars, missed>>

InReceive(s) == pc["recv"][s] \in {"recvHead", "recvBody"}

ReceiveThrows(s) ==
    /\ InReceive(s)
    /\ net[s] # "connected" \/ remote[s] = "reset"
    /\ Say(s, "RecvError")
    /\ net' = [net EXCEPT ![s] = IF @ = "connected" THEN "failed" ELSE @]
    /\ Goto("recv", s, "lock")
    /\ UNCHANGED <<cur, made, sock, stage, running, guard, remote, packetVars, missed>>

\* Receive returns 0: the remote end has closed, maybe within a packet, or
\* the socket was shut down here.
ReceiveZero(s) ==
    /\ InReceive(s)
    /\ \/ net[s] = "closed"
       \/ remote[s] = "fin" /\ (stream[s] = <<>> \/ pc["recv"][s] = "recvBody")
    /\ Goto("recv", s, "lock")
    /\ SayNothing
    /\ UNCHANGED <<cur, made, sock, stage, running, guard, net, remote, packetVars, missed>>

Arrived(s) == stream[s] # <<>> /\ net[s] = "connected" /\ remote[s] # "reset"

\* MUTANT: the tag is not checked.
HandleReadHeaderAny(s) ==
    /\ pc["recv"][s] = "recvHead"
    /\ Arrived(s)
    /\ \E l \in {"body", "post"} : Goto("recv", s, l)
    /\ SayNothing
    /\ UNCHANGED <<cur, made, sock, stage, running, guard, net, remote, packetVars, missed>>

\* A header is there.  A packet without a body is posted at once.
HandleReadHeader(s) ==
    /\ pc["recv"][s] = "recvHead"
    /\ Arrived(s)
    /\ IF Head(stream[s]) % TagModulus = recvTag[s] % TagModulus
       THEN \E l \in {"body", "post"} : Goto("recv", s, l) /\ SayNothing
       ELSE Goto("recv", s, "lock") /\ Say(s, "RecvError")
    /\ UNCHANGED <<cur, made, sock, stage, running, guard, net, remote, packetVars, missed>>

HandleReadBody(s) ==
    /\ pc["recv"][s] = "recvBody"
    /\ Arrived(s)
    /\ Goto("recv", s, "post")
    /\ SayNothing
    /\ UNCHANGED <<cur, made, sock, stage, running, guard, net, remote, packetVars, missed>>

DoRecvPacket(s) ==
    /\ pc["recv"][s] = "post"
    /\ PostStream
    /\ got' = [got EXCEPT ![s] = Append(@, Head(stream[s]))]
    /\ stream' = [stream EXCEPT ![s] = Tail(@)]
    /\ recvTag' = [recvTag EXCEPT ![s] = @ + 1]
    /\ Goto("recv", s, "loop")
    /\ UNCHANGED <<cur, made, sock, stage, running, guard, net, remote,
                   sent, sendTag, out, said, missed>>

(***************************************************************************)
(* The network and the remote end (external).  The end of the attempt to   *)
(* connect calls HandleConnected.  The remote end numbers its packets; one *)
(* that it fails to encode is not sent (sendThread in SocketSession), here *)
(* at most one per connection, fewer than there are tags.                  *)
(***************************************************************************)
Completes(s) ==
    /\ net[s] = "connecting"
    /\ \E r \in {"open", "early", "refused"} : net' = [net EXCEPT ![s] = r]
    /\ Goto("conn", s, "check")
    /\ SayNothing
    /\ UNCHANGED <<cur, made, sock, stage, running, guard, remote, packetVars, missed>>

RemoteSends(s) ==
    /\ net[s] \in {"open", "early", "connected"}
    /\ remote[s] = "open"
    /\ sent[s] < MaxPackets
    /\ sent' = [sent EXCEPT ![s] = @ + 1]
    /\ \/ stream' = [stream EXCEPT ![s] = Append(@, sent'[s])]
       \/ sent'[s] = 1 + Len(got[s]) + Len(stream[s]) /\ UNCHANGED stream
    /\ SayNothing
    /\ UNCHANGED <<cur, made, pc, sock, stage, running, guard, net, remote,
                   recvTag, sendTag, got, out, missed>>

RemoteEnds(s) ==
    /\ net[s] \in {"open", "early", "connected"}
    /\ remote[s] # "reset"
    /\ \E r \in {"fin", "reset"} \ {remote[s]} : remote' = [remote EXCEPT ![s] = r]
    /\ SayNothing
    /\ UNCHANGED <<cur, made, pc, sock, stage, running, guard, net, packetVars, missed>>

-----------------------------------------------------------------------------

Main(s) == Close("main", s) \/ StopClear(s) \/ SendPacket(s)

HandleConnected(s) ==
    \/ ConnCheck(s) \/ ConnEnd(s) \/ ConnThread(s) \/ ConnReady(s) \/ Close("conn", s)

IOThreadRecv(s) ==
    \/ RecvLoop(s) \/ ReadPacket(s) \/ ReceiveThrows(s) \/ ReceiveZero(s)
    \/ HandleReadHeader(s) \/ HandleReadBody(s) \/ DoRecvPacket(s) \/ Close("recv", s)

Update(due) == MainIdle /\ Polling(due) /\ UNCHANGED ownVars

Next ==
    \/ Connect \/ ConnectBad \/ ConnectThrows \/ Stop \/ SendMessage
    \/ \E s \in Sockets : \/ Main(s) \/ HandleConnected(s) \/ IOThreadRecv(s)
                          \/ Completes(s) \/ RemoteSends(s) \/ RemoteEnds(s)
    \/ \E due \in BOOLEAN : Update(due)
    \/ EmulateDelayMS(~delayed) /\ MainIdle /\ UNCHANGED ownVars

(***************************************************************************)
(* Threads that can run go on, Unity calls Update in every frame and time  *)
(* passes.  Nobody needs to call the peer, and the network owes nothing.   *)
(***************************************************************************)
Fairness ==
    /\ \A s \in Sockets : /\ WF_vars(Main(s))
                          /\ WF_vars(HandleConnected(s))
                          /\ WF_vars(IOThreadRecv(s))
    /\ WF_vars(Update(TRUE))

Spec == Init /\ [][Next]_vars /\ Fairness

-----------------------------------------------------------------------------

\* The types of the variables.
TypeOK ==
    /\ QueueTypeOK
    /\ cur \in 0..MaxSockets
    /\ made \in 0..MaxSockets
    /\ pc \in [Threads -> [Sockets ->
                 {"none", "lock", "notify", "unlock", "clear", "send", "check", "end", "thread",
                  "ready", "loop", "head", "body", "recvHead", "recvBody", "post", "done"}]]
    /\ sock \subseteq 1..made
    /\ stage \in [Sockets -> {"None", "BeginConnect", "Ready"}]
    /\ running \subseteq Sockets
    /\ guard \in [Sockets -> Threads \cup {"free"}]
    /\ net \in [Sockets -> {"none", "connecting", "open", "early", "refused", "connected",
                            "failed", "closed"}]
    /\ remote \in [Sockets -> {"open", "fin", "reset"}]
    /\ stream \in [Sockets -> Seq(1..MaxPackets)]
    /\ sent \in [Sockets -> 0..MaxPackets]
    /\ recvTag \in [Sockets -> 1..(MaxPackets + 1)]
    /\ sendTag \in [Sockets -> 1..(MaxSends + 1)]
    /\ got \in [Sockets -> Seq(1..MaxPackets)]
    /\ out \in [Sockets -> Seq(1..MaxSends)]
    /\ said \in [Sockets -> [Kinds -> Nat]]
    /\ missed \subseteq Sockets

\* Both ways, the packets of a connection are the first ones its sender
\* numbered, without a gap, though tags repeat, the remote end leaves out
\* what it cannot encode, and a SendError does not close the socket.
PacketsInOrder == \A s \in Sockets :
    /\ got[s] = [i \in 1..Len(got[s]) |-> i]
    /\ out[s] = [i \in 1..Len(out[s]) |-> i]

\* Close has read Connected before EndConnect set it and has let go of
\* _socket after: the connection stays open and nobody has it.
Leaked(s) == s \in missed /\ net[s] = "connected"

\* "通知外界socket已经关闭" (ClientSocket.cs:524): Disconnected is posted at
\* most once per socket, whichever of the three threads closes it, and the
\* logic that is told of a connection is told of its end, by Disconnected
\* or by an error, unless the connection is leaked.
EndIsAnnounced == \A s \in Sockets :
    /\ said[s]["Disconnected"] <= 1
    /\ said[s]["Connected"] > 0 /\ s \notin sock /\ ~Leaked(s)
          => \E k \in {"Disconnected", "SendError", "RecvError"} : said[s][k] > 0

\* When the peer is stopped or the remote end is gone, IOThreadRecv ends for
\* good, also when HandleConnected starts it after Stop; it can be left only
\* in the Receive of a connection that is leaked.
ThreadEnds == \A s \in Sockets :
    (s <= made /\ cur # s) \/ (remote[s] # "open" /\ pc["recv"][s] # "none")
        ~> [](pc["recv"][s] \in {"none", "done"} \/ Leaked(s))

=============================================================================
