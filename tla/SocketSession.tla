--------------------------- MODULE SocketSession ---------------------------
(***************************************************************************)
(* The two sessions at the ends of one connection (socket/session.go with  *)
(* the default read and write chains of socket/base.go).  Each end runs a  *)
(* recvThread, a sendThread and the goroutine of run that waits for both;  *)
(* the logic calls Send and Close from any goroutine at any time.          *)
(*                                                                         *)
(* Abstractions: eventList is the atomic queue EventList implements; a     *)
(* packet is a frame (serial, message, whether all of it was written); the *)
(* receive chain list is the history of the messages handed to it, since   *)
(* it calls every chain with a clone of the event and so never stops the   *)
(* recvThread (handlerchain.go:101-110).                                   *)
(*                                                                         *)
(* External: net.Conn.  wire[e] is what the end e has written and its peer *)
(* has not read, of bounded size.  The connection breaks when data reaches *)
(* an end that is closed (TCP answers with a reset) and, with MayBreak, at *)
(* any time; either way a tail of what is under way is lost.               *)
(***************************************************************************)
EXTENDS NilList, SequencesExt

CONSTANTS
    Unencodable,    \* messages for which the encoder of ChainSend fails
    Oversize,       \* messages larger than the receiver's MaxPacketSize
    SerModulus,     \* number of serials (2^16 in handler_privatepkt.go)
    MaxCalls,       \* bound on calls of Send and Close, per end
    MaxBad,         \* bound on unencodable messages in a send list
    WireCap,        \* frames the network holds in one direction
    ReadDeadline,   \* SetSocketDeadline with read # 0
    WriteDeadline,  \* SetSocketDeadline with write # 0
    MayBreak        \* the network may fail

Ends == {"client", "server"}

Remote(e) == IF e = "client" THEN "server" ELSE "client"

ASSUME SessionAssumption ==
    /\ Unencodable \subseteq Events
    /\ Oversize \subseteq Events
    /\ SerModulus \in Nat \ {0}
    /\ MaxCalls \in [Ends -> Nat]
    /\ MaxBad \in Nat
    /\ WireCap \in Nat \ {0}
    /\ {ReadDeadline, WriteDeadline, MayBreak} \subseteq BOOLEAN

VARIABLES
    enq,            \* history: everything Add put in the send list
    sendList,       \* socketSession.sendList
    spc,            \* where the sendThread is
    batch,          \* the rest of writeList
    willExit,
    late,           \* the write deadline set at session.go:145 is over
    sendser,        \* PrivatePacketWriter.sendser
    wrote,          \* history: messages whose frame was written
    failed,         \* history: some event of this sendThread did not get out
    rpc,            \* where the recvThread is
    recvser,        \* PrivatePacketReader.recvser
    got,            \* history: messages given to ChainListRecv
    needNotifyWrite,
    endSync,        \* the counter of the WaitGroup
    closed,         \* OnClose has been called
    conn,           \* the socket is open
    wire,           \* frames written by an end and not read by its peer
    broken          \* the connection has been reset

sendVars == <<spc, batch, willExit, late, sendser, wrote, failed>>
recvVars == <<rpc, recvser, got>>
vars == <<enq, sendList, sendVars, recvVars, needNotifyWrite, endSync,
          closed, conn, wire, broken>>

Frames == [ser : 0..(SerModulus - 1), msg : Events, whole : BOOLEAN]

-----------------------------------------------------------------------------

\* newSession and run, at both ends of an established connection.
Init ==
    /\ enq = [e \in Ends |-> <<>>]
    /\ sendList = [e \in Ends |-> <<>>]
    /\ spc = [e \in Ends |-> "arm"]
    /\ batch = [e \in Ends |-> <<>>]
    /\ willExit = [e \in Ends |-> FALSE]
    /\ late = [e \in Ends |-> FALSE]
    /\ sendser = [e \in Ends |-> 1 % SerModulus]
    /\ wrote = [e \in Ends |-> <<>>]
    /\ failed = [e \in Ends |-> FALSE]
    /\ rpc = [e \in Ends |-> "read"]
    /\ recvser = [e \in Ends |-> 1 % SerModulus]
    /\ got = [e \in Ends |-> <<>>]
    /\ needNotifyWrite = [e \in Ends |-> TRUE]
    /\ endSync = [e \in Ends |-> 2]
    /\ closed = [e \in Ends |-> FALSE]
    /\ conn = [e \in Ends |-> TRUE]
    /\ wire = [e \in Ends |-> <<>>]
    /\ broken = FALSE

(***************************************************************************)
(* The logic.  RawSend encodes and then adds the event whatever the result *)
(* of the encoder; Close adds nil.                                         *)
(***************************************************************************)
Add(e, x) ==
    /\ enq' = [enq EXCEPT ![e] = Append(@, x)]
    /\ sendList' = [sendList EXCEPT ![e] = Append(@, x)]

Bad(s) == {i \in 1..Len(s) : s[i] \in Unencodable}

Send(e, m) ==
    /\ Len(enq[e]) < MaxCalls[e]
    /\ m \in Unencodable => Cardinality(Bad(enq[e])) < MaxBad
    /\ Add(e, m)
    /\ UNCHANGED <<sendVars, recvVars, needNotifyWrite, endSync, closed, conn, wire, broken>>

Close(e) ==
    /\ Len(enq[e]) < MaxCalls[e]
    /\ Add(e, Nil)
    /\ UNCHANGED <<sendVars, recvVars, needNotifyWrite, endSync, closed, conn, wire, broken>>

(***************************************************************************)
(* sendThread.                                                             *)
(***************************************************************************)
SendArm(e) ==
    /\ spc[e] = "arm"
    /\ spc' = [spc EXCEPT ![e] = "pick"]
    /\ late' = [late EXCEPT ![e] = FALSE]
    /\ UNCHANGED <<enq, sendList, batch, willExit, sendser, wrote, failed,
                   recvVars, needNotifyWrite, endSync, closed, conn, wire, broken>>

\* The deadline passes, while Pick waits for an event or Write for room.
WriteDeadlinePasses(e) ==
    /\ WriteDeadline
    /\ spc[e] \in {"pick", "write"}
    /\ ~late[e]
    /\ late' = [late EXCEPT ![e] = TRUE]
    /\ UNCHANGED <<enq, sendList, spc, batch, willExit, sendser, wrote, failed,
                   recvVars, needNotifyWrite, endSync, closed, conn, wire, broken>>

\* MUTANT: the nil ends the loop at once, the events in front of it are dropped.
SendPickDrops(e) ==
    /\ spc[e] = "pick"
    /\ sendList[e] # <<>>
    /\ batch' = [batch EXCEPT ![e] = IF HasNil(sendList[e]) THEN <<>> ELSE sendList[e]]
    /\ willExit' = [willExit EXCEPT ![e] = HasNil(sendList[e])]
    /\ sendList' = [sendList EXCEPT ![e] = <<>>]
    /\ spc' = [spc EXCEPT ![e] = "write"]
    /\ UNCHANGED <<enq, late, sendser, wrote, failed,
                   recvVars, needNotifyWrite, endSync, closed, conn, wire, broken>>

\* MUTANT: the nil is copied into the batch with the rest.
SendPickWithNil(e) ==
    /\ spc[e] = "pick"
    /\ sendList[e] # <<>>
    /\ batch' = [batch EXCEPT ![e] = sendList[e]]
    /\ willExit' = [willExit EXCEPT ![e] = HasNil(sendList[e])]
    /\ sendList' = [sendList EXCEPT ![e] = <<>>]
    /\ spc' = [spc EXCEPT ![e] = "write"]
    /\ UNCHANGED <<enq, late, sendser, wrote, failed,
                   recvVars, needNotifyWrite, endSync, closed, conn, wire, broken>>

\* sendList.Pick()
SendPick(e) ==
    /\ spc[e] = "pick"
    /\ sendList[e] # <<>>
    /\ batch' = [batch EXCEPT ![e] = BeforeNil(sendList[e])]
    /\ willExit' = [willExit EXCEPT ![e] = HasNil(sendList[e])]
    /\ sendList' = [sendList EXCEPT ![e] = <<>>]
    /\ spc' = [spc EXCEPT ![e] = "write"]
    /\ UNCHANGED <<enq, late, sendser, wrote, failed,
                   recvVars, needNotifyWrite, endSync, closed, conn, wire, broken>>

\* What the write chain does to the next event of the batch: it takes a serial
\* (PrivatePacketWriter), even for an event that arrives with an error.
TakeNext(e) ==
    /\ spc[e] = "write"
    /\ batch[e] # <<>>
    /\ batch' = [batch EXCEPT ![e] = Tail(@)]
    /\ sendser' = [sendser EXCEPT ![e] = (@ + 1) % SerModulus]
    /\ UNCHANGED <<enq, sendList, spc, late, recvVars, needNotifyWrite, endSync,
                   closed, conn, broken>>

Frame(e, whole) == [ser |-> sendser[e], msg |-> Head(batch[e]), whole |-> whole]

\* The frame is written whole, if the network takes it before the deadline.
SendWrite(e) ==
    /\ TakeNext(e)
    /\ Head(batch[e]) \notin Unencodable
    /\ ~late[e]
    /\ ~broken
    /\ Len(wire[e]) < WireCap
    /\ wire' = [wire EXCEPT ![e] = Append(@, Frame(e, TRUE))]
    /\ wrote' = [wrote EXCEPT ![e] = Append(@, Head(batch[e]))]
    /\ UNCHANGED <<willExit, failed>>

\* The chain ends with an error: the event was never encoded, or the write
\* fails.  A write cut short by the deadline may leave a part of the frame.
\* The loop goes on with the rest of the batch.
SendFail(e) ==
    /\ TakeNext(e)
    /\ Head(batch[e]) \in Unencodable \/ broken \/ late[e]
    /\ willExit' = [willExit EXCEPT ![e] = TRUE]
    /\ failed' = [failed EXCEPT ![e] = TRUE]
    /\ \/ wire' = wire
       \/ /\ Head(batch[e]) \notin Unencodable
          /\ late[e] /\ ~broken /\ Len(wire[e]) = WireCap
          /\ wire' = [wire EXCEPT ![e] = Append(@, Frame(e, FALSE))]
    /\ UNCHANGED wrote

\* The batch is written: loop, or leave and clear needNotifyWrite.
SendLoop(e) ==
    /\ spc[e] = "write"
    /\ batch[e] = <<>>
    /\ spc' = [spc EXCEPT ![e] = IF willExit[e] THEN "shut" ELSE "arm"]
    /\ needNotifyWrite' = [needNotifyWrite EXCEPT ![e] = @ /\ ~willExit[e]]
    /\ UNCHANGED <<enq, sendList, batch, willExit, late, sendser, wrote, failed,
                   recvVars, endSync, closed, conn, wire, broken>>

\* MUTANT: the socket is left open.
SendShutForgets(e) ==
    /\ spc[e] = "shut"
    /\ spc' = [spc EXCEPT ![e] = "end"]
    /\ UNCHANGED <<enq, sendList, batch, willExit, late, sendser, wrote, failed,
                   recvVars, needNotifyWrite, endSync, closed, conn, wire, broken>>

SendShut(e) ==
    /\ spc[e] = "shut"
    /\ conn' = [conn EXCEPT ![e] = FALSE]
    /\ spc' = [spc EXCEPT ![e] = "end"]
    /\ UNCHANGED <<enq, sendList, batch, willExit, late, sendser, wrote, failed,
                   recvVars, needNotifyWrite, endSync, closed, wire, broken>>

SendEnd(e) ==
    /\ spc[e] = "end"
    /\ endSync' = [endSync EXCEPT ![e] = @ - 1]
    /\ spc' = [spc EXCEPT ![e] = "done"]
    /\ UNCHANGED <<enq, sendList, batch, willExit, late, sendser, wrote, failed,
                   recvVars, needNotifyWrite, closed, conn, wire, broken>>

(***************************************************************************)
(* recvThread.                                                             *)
(***************************************************************************)
Incoming(e) == wire[Remote(e)]

\* The next frame is there, all of it.
Arrived(e) == Incoming(e) # <<>> /\ Head(Incoming(e)).whole

\* The checks of PrivatePacketReader.
Acceptable(e, f) == f.ser = recvser[e] /\ f.msg \notin Oversize

\* MUTANT: the serial of the packet is not compared with recvser.
RecvReadAnySerial(e) ==
    /\ rpc[e] = "read"
    /\ conn[e]
    /\ Arrived(e)
    /\ got' = [got EXCEPT ![e] = Append(@, Head(Incoming(e)).msg)]
    /\ recvser' = [recvser EXCEPT ![e] = (@ + 1) % SerModulus]
    /\ wire' = [wire EXCEPT ![Remote(e)] = Tail(@)]
    /\ UNCHANGED <<enq, sendList, sendVars, rpc, needNotifyWrite, endSync,
                   closed, conn, broken>>

\* One turn of the loop: read a packet and call the receive chains.
RecvRead(e) ==
    /\ rpc[e] = "read"
    /\ conn[e]
    /\ Arrived(e)
    /\ Acceptable(e, Head(Incoming(e)))
    /\ got' = [got EXCEPT ![e] = Append(@, Head(Incoming(e)).msg)]
    /\ recvser' = [recvser EXCEPT ![e] = (@ + 1) % SerModulus]
    /\ wire' = [wire EXCEPT ![Remote(e)] = Tail(@)]
    /\ UNCHANGED <<enq, sendList, sendVars, rpc, needNotifyWrite, endSync,
                   closed, conn, broken>>

\* The read fails: the socket is closed at this end or reset; the stream ends,
\* between two frames or within one; the packet is not acceptable; or nothing
\* comes before the deadline.  The Closed event is posted.
RecvFail(e) ==
    /\ rpc[e] = "read"
    /\ \/ ~conn[e]
       \/ broken
       \/ ~Arrived(e) /\ (~conn[Remote(e)] \/ ReadDeadline)
       \/ Arrived(e) /\ ~Acceptable(e, Head(Incoming(e)))
    /\ rpc' = [rpc EXCEPT ![e] = "notify"]
    /\ UNCHANGED <<enq, sendList, sendVars, recvser, got, needNotifyWrite, endSync,
                   closed, conn, wire, broken>>

\* MUTANT: the test of needNotifyWrite is inverted.
RecvNotifyInverted(e) ==
    /\ rpc[e] = "notify"
    /\ IF needNotifyWrite[e] THEN UNCHANGED <<enq, sendList>> ELSE Add(e, Nil)
    /\ rpc' = [rpc EXCEPT ![e] = "end"]
    /\ UNCHANGED <<sendVars, recvser, got, needNotifyWrite, endSync,
                   closed, conn, wire, broken>>

\* needNotifyWrite is shared without a lock: a FALSE the sendThread has just
\* written may still be read as TRUE.
RecvNotify(e) ==
    /\ rpc[e] = "notify"
    /\ \E seen \in {needNotifyWrite[e], TRUE} :
          IF seen THEN Add(e, Nil) ELSE UNCHANGED <<enq, sendList>>
    /\ rpc' = [rpc EXCEPT ![e] = "end"]
    /\ UNCHANGED <<sendVars, recvser, got, needNotifyWrite, endSync,
                   closed, conn, wire, broken>>

RecvEnd(e) ==
    /\ rpc[e] = "end"
    /\ endSync' = [endSync EXCEPT ![e] = @ - 1]
    /\ rpc' = [rpc EXCEPT ![e] = "done"]
    /\ UNCHANGED <<enq, sendList, sendVars, recvser, got, needNotifyWrite,
                   closed, conn, wire, broken>>

\* MUTANT: run waits for one of the two threads only.
WaitOne(e) ==
    /\ endSync[e] <= 1
    /\ ~closed[e]
    /\ closed' = [closed EXCEPT ![e] = TRUE]
    /\ UNCHANGED <<enq, sendList, sendVars, recvVars, needNotifyWrite, endSync,
                   conn, wire, broken>>

\* The goroutine of run: wait for both threads, call OnClose.
WaitBoth(e) ==
    /\ endSync[e] = 0
    /\ ~closed[e]
    /\ closed' = [closed EXCEPT ![e] = TRUE]
    /\ UNCHANGED <<enq, sendList, sendVars, recvVars, needNotifyWrite, endSync,
                   conn, wire, broken>>

(***************************************************************************)
(* The network (external).                                                 *)
(***************************************************************************)
Lose ==
    /\ ~broken
    /\ broken' = TRUE
    /\ \E n \in [Ends -> 0..(WireCap + 1)] :
          /\ \A e \in Ends : n[e] <= Len(wire[e])
          /\ wire' = [e \in Ends |-> SubSeq(wire[e], 1, n[e])]
    /\ UNCHANGED <<enq, sendList, sendVars, recvVars, needNotifyWrite, endSync,
                   closed, conn>>

\* Data meets a closed socket.
NetReset == (\E e \in Ends : ~conn[e] /\ Incoming(e) # <<>>) /\ Lose

NetFail == MayBreak /\ Lose

-----------------------------------------------------------------------------

SendThread(e) ==
    \/ SendArm(e) \/ SendPick(e) \/ SendWrite(e) \/ SendFail(e)
    \/ SendLoop(e) \/ SendShut(e) \/ SendEnd(e)

RecvThread(e) == RecvRead(e) \/ RecvFail(e) \/ RecvNotify(e) \/ RecvEnd(e)

Logic(e) == Close(e) \/ \E m \in Events : Send(e, m)

Next ==
    \/ \E e \in Ends : \/ Logic(e) \/ SendThread(e) \/ RecvThread(e)
                       \/ WaitBoth(e) \/ WriteDeadlinePasses(e)
    \/ NetReset
    \/ NetFail

Safe == Init /\ [][Next]_vars

(***************************************************************************)
(* Go schedules every goroutine that can run; the kernel answers data sent *)
(* to a closed socket.  The logic, deadlines and failures are not fair.    *)
(***************************************************************************)
Fairness ==
    /\ \A e \in Ends : /\ WF_vars(SendThread(e))
                       /\ WF_vars(RecvThread(e))
                       /\ WF_vars(WaitBoth(e))
    /\ WF_vars(NetReset)

Spec == Safe /\ Fairness

-----------------------------------------------------------------------------

\* The types of the variables; the WaitGroup counter stays within 0..2, as
\* Done panics below zero.
TypeOK ==
    /\ enq \in [Ends -> Seq(Items)]
    /\ sendList \in [Ends -> Seq(Items)]
    /\ spc \in [Ends -> {"arm", "pick", "write", "shut", "end", "done"}]
    /\ batch \in [Ends -> Seq(Events)]
    /\ willExit \in [Ends -> BOOLEAN]
    /\ late \in [Ends -> BOOLEAN]
    /\ sendser \in [Ends -> 0..(SerModulus - 1)]
    /\ wrote \in [Ends -> Seq(Events)]
    /\ failed \in [Ends -> BOOLEAN]
    /\ rpc \in [Ends -> {"read", "notify", "end", "done"}]
    /\ recvser \in [Ends -> 0..(SerModulus - 1)]
    /\ got \in [Ends -> Seq(Events)]
    /\ needNotifyWrite \in [Ends -> BOOLEAN]
    /\ endSync \in [Ends -> 0..2]
    /\ closed \in [Ends -> BOOLEAN]
    /\ conn \in [Ends -> BOOLEAN]
    /\ wire \in [Ends -> Seq(Frames)]
    /\ broken \in BOOLEAN

\* What an end hands to its receive chains is always a prefix of what the
\* logic of the other end sent before it closed: never a message out of
\* order, twice, after a gap or from behind a Close, whatever the encoder,
\* the network or a deadline does to the batch.  The sendThread goes on with
\* a batch after an event has failed (session.go:151-159), so only the
\* serials of handler_privatepkt.go keep the rest of it out.
DeliveredInOrder ==
    \A e \in Ends : IsPrefix(got[Remote(e)], BeforeNil(enq[e]))

\* Close lets go of the socket only after what was sent before it: when the
\* sendThread is about to close the socket and no event has failed, the
\* frames written are exactly the events in front of the first nil.
FlushBeforeClose ==
    \A e \in Ends : (spc[e] \in {"shut", "end", "done"} /\ ~failed[e])
                       => HasNil(enq[e]) /\ wrote[e] = BeforeNil(enq[e])

\* OnClose removes the session from its manager (session.go:191-195); by
\* then both threads are over and the socket is closed, so nothing is read,
\* written or posted by a session its manager does not know.
TeardownComplete ==
    \A e \in Ends : closed[e] => /\ spc[e] = "done"
                                 /\ rpc[e] = "done"
                                 /\ ~conn[e]

\* Both sendThreads wait in Write for a peer that has stopped reading.
BothBlocked ==
    \A e \in Ends : rpc[e] # "read" /\ spc[e] = "write" /\ batch[e] # <<>>
                                    /\ Len(wire[e]) >= WireCap

\* A Close at either end, from the logic or from a recvThread that failed on
\* the network, on a serial or on a packet that is too large, ends in OnClose
\* at both ends; the one way out is that both ends had such a failure while
\* the network was full both ways, for Close does not reach a sendThread
\* that is blocked.
CloseEndsBoth ==
    (\E e \in Ends : HasNil(enq[e])) ~> (\A e \in Ends : closed[e]) \/ BothBlocked

\* "发送消息后保证消息送达后再断开连接" (README of cellnet): when an end that
\* sends and then closes has written everything without an error, the other
\* end, unless it closes too, has received it all when its read fails.
SendCloseDelivers ==
    \A e \in Ends :
        /\ spc[e] \in {"end", "done"} /\ ~failed[e]
        /\ rpc[Remote(e)] = "notify" /\ ~HasNil(enq[Remote(e)])
        => got[Remote(e)] = BeforeNil(enq[e])

=============================================================================
