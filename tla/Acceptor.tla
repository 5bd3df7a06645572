------------------------------ MODULE Acceptor ------------------------------
(***************************************************************************)
(* socket/acceptor.go with the SessionManager of sesmgr.go: the goroutine  *)
(* Start launches accepts connections and gives each to a goroutine of its *)
(* own (onAccepted), which puts a session in the manager and runs it; Stop *)
(* closes the listener and every session of the manager, then waits.       *)
(*                                                                         *)
(* Each of the Clients has one connection at a time, and SessionManager    *)
(* knows its session by its name.                                          *)
(***************************************************************************)
EXTENDS PeerStop, SessionManager

Clients == Sessions

VARIABLES
    pc,             \* the goroutines of accept
    at,             \* the listener each of them is blocked on, or was last
    hand,           \* the connection its Accept has returned, as a set
    lsn,            \* socketAcceptor.listener: its number, 0 for nil
    open,           \* the listeners that are open
    conn,           \* the connection of each client: how far it has got
    life,           \* its session
    OnClose,        \* sessions whose OnClose is set
    failed          \* history: Accept has failed on a listener that was open

ownVars == <<pc, at, hand, lsn, open, conn, life, OnClose, managerVars, failed>>
vars == <<peerVars, ownVars>>

Goroutines == 1..MaxStarts
Listeners == 1..MaxStarts

Init ==
    /\ PeerInit
    /\ pc = [g \in Goroutines |-> "none"]
    /\ at = [g \in Goroutines |-> 0]
    /\ hand = [g \in Goroutines |-> {}]
    /\ lsn = 0
    /\ open = {}
    /\ conn = [k \in Clients |-> "none"]
    /\ life = [k \in Clients |-> "none"]
    /\ OnClose = {}
    /\ ManagerInit
    /\ failed = FALSE

Goto(g, l) == pc' = [pc EXCEPT ![g] = l]
ConnGoto(k, l) == conn' = [conn EXCEPT ![k] = l]

-----------------------------------------------------------------------------

(***************************************************************************)
(* Start and Stop.                                                         *)
(***************************************************************************)
User(u) ==
    /\ \/ StopCall(u)
       \/ StopQuery(u)
       \/ startStopping(u)
       \/ StartCall(u)
       \/ waitStopFinished(u)
    /\ UNCHANGED ownVars

\* The end of Start.  net.Listen fails while another listener has the
\* address; the field gets its result, nil then, either way.
StartListen(u) ==
    /\ upc[u] = "go"
    /\ UserGoto(u, "idle")
    /\ \/ running /\ UNCHANGED <<lsn, open, pc>>
       \/ ~running /\ open # {} /\ lsn' = 0 /\ UNCHANGED <<open, pc>>
       \/ /\ ~running /\ open = {}
          /\ \E g \in Goroutines :
                /\ pc[g] = "none"
                /\ \A h \in 1..(g - 1) : pc[h] # "none"
                /\ lsn' = g /\ open' = {g} /\ Goto(g, "run")
    /\ UNCHANGED <<running, stopping, starts, stops, op, chan,
                   at, hand, conn, life, OnClose, managerVars, failed>>

\* MUTANT: Stop closes the sessions and forgets the listener.
StopKeepsListening(u) ==
    /\ upc[u] = "close"
    /\ UserGoto(u, "closing")
    /\ UNCHANGED <<running, stopping, starts, stops, op, chan, ownVars>>

\* listener.Close(): connections that were not accepted yet are reset.
StopListener(u) ==
    /\ upc[u] = "close"
    /\ IF lsn = 0
       THEN Panic(u) /\ UNCHANGED <<open, conn>>
       ELSE /\ UserGoto(u, "closing")
            /\ open' = open \ {lsn}
            /\ conn' = [k \in Clients |->
                          IF conn[k] = "backlog" /\ lsn \in open THEN "reset" ELSE conn[k]]
    /\ UNCHANGED <<running, stopping, starts, stops, op, chan,
                   pc, at, hand, lsn, life, OnClose, managerVars, failed>>

\* MUTANT: the visit of the manager closes no session.
CloseNothing(u) ==
    /\ upc[u] = "closing"
    /\ UserGoto(u, "check")
    /\ UNCHANGED <<running, stopping, starts, stops, op, chan, ownVars>>

\* CloseAllSession: Close on every session, under the read lock of the map.
\* The nil in the sendList of a session that does not run yet waits there.
CloseAllSession(u) ==
    /\ upc[u] = "closing"
    /\ UserGoto(u, "check")
    /\ life' = [k \in Clients |->
                  CASE k \in Managed /\ life[k] = "made" -> "shut"
                    [] k \in Managed /\ life[k] = "live" -> "closing"
                    [] OTHER -> life[k]]
    /\ UNCHANGED <<running, stopping, starts, stops, op, chan,
                   pc, at, hand, lsn, open, conn, OnClose, managerVars, failed>>

(***************************************************************************)
(* accept.                                                                 *)
(***************************************************************************)
AcceptRun(g) ==
    /\ pc[g] = "run"
    /\ SetRunning(TRUE)
    /\ Goto(g, "accept")
    /\ UNCHANGED <<at, hand, lsn, open, conn, life, OnClose, managerVars, failed>>

\* The call of self.listener.Accept reads the field on every turn; on a nil
\* interface it panics.
AcceptCall(g) ==
    /\ pc[g] = "accept"
    /\ at' = [at EXCEPT ![g] = lsn]
    /\ Goto(g, IF lsn = 0 THEN "panic" ELSE "blocked")
    /\ UNCHANGED <<peerVars, hand, lsn, open, conn, life, OnClose, managerVars, failed>>

\* Accept returns a connection, or an error once the listener is closed.
AcceptReturn(g) ==
    /\ pc[g] = "blocked"
    /\ Goto(g, "got")
    /\ \/ /\ at[g] \in open
          /\ \E k \in Clients :
                /\ conn[k] = "backlog"
                /\ hand' = [hand EXCEPT ![g] = {k}]
                /\ ConnGoto(k, "hand")
       \/ /\ at[g] \notin open
          /\ hand' = [hand EXCEPT ![g] = {}]
          /\ UNCHANGED conn
    /\ UNCHANGED <<peerVars, at, lsn, open, life, OnClose, managerVars, failed>>

\* Accept fails on a listener that is open (out of descriptors).
AcceptError(g) ==
    /\ pc[g] = "blocked"
    /\ at[g] \in open
    /\ Goto(g, "got")
    /\ hand' = [hand EXCEPT ![g] = {}]
    /\ failed' = TRUE
    /\ UNCHANGED <<peerVars, at, lsn, open, conn, life, OnClose, managerVars>>

\* Leave when Stop has begun (the connection in hand, if any, is dropped
\* and not closed) or on an error (AcceptFailed is posted; the listener is
\* not closed); else go onAccepted(conn).
AcceptCheck(g) ==
    /\ pc[g] = "got"
    /\ Goto(g, IF isStopping \/ hand[g] = {} THEN "leave" ELSE "accept")
    /\ conn' = [k \in Clients |-> IF k \in hand[g]
                                  THEN IF isStopping THEN "dropped" ELSE "add"
                                  ELSE conn[k]]
    /\ hand' = [hand EXCEPT ![g] = {}]
    /\ UNCHANGED <<peerVars, at, lsn, open, life, OnClose, managerVars, failed>>

AcceptLeave(g) ==
    /\ pc[g] = "leave"
    /\ SetRunning(FALSE)
    /\ Goto(g, "end")
    /\ UNCHANGED <<at, hand, lsn, open, conn, life, OnClose, managerVars, failed>>

AcceptEnd(g) ==
    /\ pc[g] = "end"
    /\ endStopping
    /\ Goto(g, "done")
    /\ UNCHANGED <<at, hand, lsn, open, conn, life, OnClose, managerVars, failed>>

(***************************************************************************)
(* onAccepted, one goroutine per connection.                               *)
(***************************************************************************)
\* newSession and Add.
onAcceptedAdd(k) ==
    /\ conn[k] = "add"
    /\ life' = [life EXCEPT ![k] = "made"]
    /\ Add(k)
    /\ ConnGoto(k, "hook")
    /\ UNCHANGED <<peerVars, pc, at, hand, lsn, open, OnClose, failed>>

onAcceptedHook(k) ==
    /\ conn[k] = "hook"
    /\ OnClose' = OnClose \cup {k}
    /\ ConnGoto(k, "run")
    /\ UNCHANGED <<peerVars, pc, at, hand, lsn, open, life, managerVars, failed>>

\* ses.run(), and Accepted is posted.
onAcceptedRun(k) ==
    /\ conn[k] = "run"
    /\ life' = [life EXCEPT ![k] = IF @ = "shut" THEN "closing" ELSE "live"]
    /\ ConnGoto(k, "done")
    /\ UNCHANGED <<peerVars, pc, at, hand, lsn, open, OnClose, managerVars, failed>>

(***************************************************************************)
(* Sessions, as in Connector, and the remote ends.                         *)
(***************************************************************************)
SessionEnd(k) ==
    /\ life[k] \in {"live", "closing"}
    /\ life' = [life EXCEPT ![k] = "ended"]
    /\ UNCHANGED <<peerVars, pc, at, hand, lsn, open, conn, OnClose, managerVars, failed>>

SessionOnClose(k) ==
    /\ life[k] = "ended"
    /\ life' = [life EXCEPT ![k] = "gone"]
    /\ IF k \in OnClose THEN Remove(k) ELSE UNCHANGED managerVars
    /\ UNCHANGED <<peerVars, pc, at, hand, lsn, open, conn, OnClose, failed>>

\* The kernel completes the handshake of a client before Accept is called.
\* A client whose last connection is over may open another, whose session is
\* a new object.
ClientConnects(k) ==
    /\ conn[k] = "none" \/ (conn[k] = "done" /\ life[k] = "gone")
    /\ open # {}
    /\ ConnGoto(k, "backlog")
    /\ life' = [life EXCEPT ![k] = "none"]
    /\ OnClose' = OnClose \ {k}
    /\ UNCHANGED <<peerVars, pc, at, hand, lsn, open, managerVars, failed>>

-----------------------------------------------------------------------------

Running == Alive /\ \A g \in Goroutines : pc[g] # "panic"

Call(u) == User(u) \/ StartListen(u) \/ StopListener(u) \/ CloseAllSession(u)

Accept(g) ==
    \/ AcceptRun(g) \/ AcceptCall(g) \/ AcceptReturn(g) \/ AcceptCheck(g)
    \/ AcceptLeave(g) \/ AcceptEnd(g)

onAccepted(k) == onAcceptedAdd(k) \/ onAcceptedHook(k) \/ onAcceptedRun(k)

Next ==
    /\ Running
    /\ \/ \E u \in Users : Call(u)
       \/ \E g \in Goroutines : Accept(g) \/ AcceptError(g)
       \/ \E k \in Clients : \/ onAccepted(k) \/ ClientConnects(k)
                             \/ SessionEnd(k) \/ SessionOnClose(k)

(***************************************************************************)
(* A call that has begun and a goroutine that can run go on; a session     *)
(* that is closed ends (CloseEndsBoth of SocketSession), one that is alive *)
(* need not.  Nobody needs to connect, and Accept need not fail.           *)
(***************************************************************************)
Fairness ==
    /\ \A u \in Users : WF_vars(Running /\ upc[u] # "idle" /\ Call(u))
    /\ \A g \in Goroutines : WF_vars(Running /\ Accept(g))
    /\ \A k \in Clients : /\ WF_vars(Running /\ onAccepted(k))
                          /\ WF_vars(Running /\ life[k] = "closing" /\ SessionEnd(k))
                          /\ WF_vars(Running /\ SessionOnClose(k))

Spec == Init /\ [][Next]_vars /\ Fairness

-----------------------------------------------------------------------------

\* The types of the variables.
TypeOK ==
    /\ PeerTypeOK
    /\ pc \in [Goroutines -> {"none", "run", "accept", "blocked", "got", "leave", "end",
                              "done", "panic"}]
    /\ at \in [Goroutines -> {0} \cup Listeners]
    /\ hand \in [Goroutines -> SUBSET Clients]
    /\ lsn \in {0} \cup Listeners
    /\ open \subseteq Listeners
    /\ conn \in [Clients -> {"none", "backlog", "reset", "hand", "dropped",
                             "add", "hook", "run", "done"}]
    /\ life \in [Clients -> {"none", "made", "shut", "live", "closing", "ended", "gone"}]
    /\ OnClose \subseteq Clients
    /\ sesIDAcc \in IDs
    /\ id \in [Clients -> IDs]
    /\ DOMAIN sesMap \subseteq IDs /\ Managed \subseteq Clients
    /\ crowded \in BOOLEAN
    /\ failed \in BOOLEAN

\* The manager holds exactly the sessions that have been made and are not
\* over, so that CloseAllSession reaches each of them, however early or late
\* the session dies: Add, OnClose and run come in an order that leaves no gap,
\* and each session has an id of its own although ids are used again, so that
\* Remove never deletes another.  Unless Add has found as many sessions as it
\* tries ids (sesmgr.go:62 only warns then).
ManagedWhileAlive ==
    crowded \/ \A k \in Clients : k \in Managed <=> life[k] \notin {"none", "gone"}

\* A Start that finds the peer stopped finds the address free as well, so
\* Listen succeeds, and no goroutine of an earlier Start accepts on the new
\* listener; unless an earlier Start is still coming up, or Accept has
\* failed by itself and accept has left its listener open.
ComingUp == \E g \in Goroutines : pc[g] = "run"

RestartFindsAddressFree ==
    \A u \in Users : upc[u] = "go" /\ ~running /\ ~ComingUp /\ ~failed
        => /\ open = {}
           /\ \A g \in Goroutines : pc[g] \in {"none", "done"}

\* Stop ends the goroutine of accept: no connection that arrives keeps it.
StopEndsAccept ==
    isStopping ~> ~Running \/ \A g \in Goroutines : pc[g] \in {"none", "end", "done"}

\* A session that is in the manager when Stop visits it comes to its end,
\* also one that has not been run yet.
StopClosesManaged ==
    \A u \in Users : \A k \in Clients :
        upc[u] = "closing" /\ k \in Managed ~> ~Running \/ k \notin Managed

\* "断开所有连接" (acceptor.go:109): a connection that has been accepted when
\* Stop closes the sessions is disconnected.
StopDisconnectsAll ==
    \A u \in Users : \A k \in Clients :
        upc[u] = "closing" /\ conn[k] \in {"add", "hook", "run", "done"}
            ~> ~Running \/ life[k] = "gone"

=============================================================================
