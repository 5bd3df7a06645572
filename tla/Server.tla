------------------------------- MODULE Server -------------------------------
(***************************************************************************)
(* A server program as the examples and svc put it together: a websocket   *)
(* peer and timers on one event queue, whose loop runs all of their       *)
(* callbacks.  They meet in the queue only: its limit, its order, and a    *)
(* callback that keeps the loop.                                           *)
(***************************************************************************)
EXTENDS Timer, WebSocket

vars == <<queueVars, timerVars, wsVars>>

Init == QueueInit /\ TimerInit /\ WebSocketInit

Main == (StartLoop \/ StopLoop) /\ UNCHANGED <<timerVars, wsVars>>

TickCallback(l) == TickStops(l) \/ TickNextLoop(l) \/ NextLoop(l) \/ TickEnd(l)

LoopStep ==
    \/ (LoopCall \/ CallbackDone) /\ UNCHANGED <<timerVars, wsVars>>
    \/ (\E l \in Loops : TickCallback(l)) /\ UNCHANGED wsVars
    \/ EventEnd /\ UNCHANGED timerVars

StartRest(u, l) == (StartSet(u, l) \/ StartPost(u, l)) /\ UNCHANGED wsVars

TimerUser(u, l) == (StartTest(u, l) \/ UserStop(l)) /\ UNCHANGED wsVars

TimerFires(l) == AfterPost(l) /\ UNCHANGED wsVars

PeerStart ==
    /\ \/ AcceptorStart
       \/ \E s \in Sessions : Upgrade(s) \/ ConnectorStart(s)
    /\ UNCHANGED timerVars

MakeSession(s) ==
    /\ \/ connectRun(s) \/ Dial(s) \/ ConnectFails(s)
       \/ SessionAdd(s) \/ run(s) \/ Greet(s)
    /\ UNCHANGED timerVars

recvThread(s) == (RecvRead(s) \/ RecvPost(s)) /\ UNCHANGED timerVars

Remote == (\E s \in Sessions, frame \in Frames : RemoteSends(s, frame)) /\ UNCHANGED timerVars

Quits == CallbackStopsLoop /\ UNCHANGED <<timerVars, wsVars>>

Next ==
    \/ Main \/ LoopStep \/ Quits \/ PeerStart \/ Remote
    \/ \E l \in Loops : TimerFires(l) \/ \E u \in Starters : StartRest(u, l) \/ TimerUser(u, l)
    \/ \E s \in Sessions : MakeSession(s) \/ recvThread(s)

(***************************************************************************)
(* Goroutines that can run go on, and a timer that is set runs out.  A     *)
(* goroutine that waits to post gets its turn: a Go channel serves blocked *)
(* senders in order.  Nobody needs to start a peer or a timer, to send a   *)
(* frame, or to call StopLoop.                                             *)
(***************************************************************************)
Fairness ==
    /\ WF_vars(Main) /\ WF_vars(LoopStep)
    /\ \A l \in Loops : /\ SF_vars(TimerFires(l))
                        /\ \A u \in Starters : WF_vars(StartRest(u, l))
    /\ \A s \in Sessions : SF_vars(MakeSession(s)) /\ SF_vars(recvThread(s))

Spec == Init /\ [][Next]_vars /\ Fairness

=============================================================================
