----------------------------- MODULE Connector -----------------------------
(***************************************************************************)
(* socket/connector.go: the goroutine a Start launches dials, runs a       *)
(* session, waits for its end and dials again or leaves; Stop closes the   *)
(* session and waits for the goroutine.                                    *)
(*                                                                         *)
(* A session is what SocketSession shows of it to its peer: it lives until *)
(* it is closed from either side, and when both its threads are over the   *)
(* goroutine of session.run calls OnClose, if one is set by then.          *)
(***************************************************************************)
EXTENDS PeerStop

CONSTANT MaxDials   \* bound on the sessions that are made

ASSUME ConnectorAssumption == MaxDials \in Nat

VARIABLES
    pc,             \* the goroutines of connect
    mine,           \* the session each of them made last
    defaultSes,     \* socketConnector.defaultSes, 0 for nil
    held,           \* what the test of defaultSes in Stop has seen
    dials,          \* sessions made so far
    life,           \* the state of each session
    OnClose,        \* sessions whose OnClose is set
    sesMap,         \* sessions in the SessionManager
    reconnect,      \* autoReconnectSec # 0
    overlap         \* history: Start has launched a connect beside another

ownVars == <<pc, mine, defaultSes, held, dials, life, OnClose, sesMap, reconnect, overlap>>
vars == <<peerVars, ownVars>>

Goroutines == 1..MaxStarts
Sessions == 1..MaxDials

Init ==
    /\ PeerInit
    /\ pc = [g \in Goroutines |-> "none"]
    /\ mine = [g \in Goroutines |-> 0]
    /\ defaultSes = 0
    /\ held = [u \in Users |-> 0]
    /\ dials = 0
    /\ life = [s \in Sessions |-> "none"]
    /\ OnClose = {}
    /\ sesMap = {}
    /\ reconnect \in BOOLEAN
    /\ overlap = FALSE

Goto(g, l) == pc' = [pc EXCEPT ![g] = l]

-----------------------------------------------------------------------------

(***************************************************************************)
(* The callers of Start and Stop.                                          *)
(***************************************************************************)
User(u) ==
    /\ \/ StopCall(u)
       \/ StopQuery(u)
       \/ startStopping(u)
       \/ StartCall(u)
       \/ waitStopFinished(u)
    /\ UNCHANGED ownVars

\* The end of Start: launch connect unless the peer is running.
StartGo(u) ==
    /\ upc[u] = "go"
    /\ UserGoto(u, "idle")
    /\ IF running
       THEN UNCHANGED <<pc, overlap>>
       ELSE /\ \E g \in Goroutines :
                  /\ pc[g] = "none"
                  /\ \A h \in 1..(g - 1) : pc[h] # "none"
                  /\ Goto(g, "run")
            /\ overlap' = (overlap \/ \E g \in Goroutines : pc[g] \notin {"none", "done"})
    /\ UNCHANGED <<running, stopping, starts, stops, op, chan,
                   mine, defaultSes, held, dials, life, OnClose, sesMap, reconnect>>

\* Stop closes the session there is, if there is one.  defaultSes is read
\* without a lock by the test and, if the compiler does so, again by the
\* call; connect may have cleared it in between, and the call panics.
StopTest(u) ==
    /\ upc[u] = "close"
    /\ held' = [held EXCEPT ![u] = defaultSes]
    /\ UserGoto(u, IF defaultSes = 0 THEN "check" ELSE "closing")
    /\ UNCHANGED <<running, stopping, starts, stops, op, chan,
                   pc, mine, defaultSes, dials, life, OnClose, sesMap, reconnect, overlap>>

StopClose(u) ==
    /\ upc[u] = "closing"
    /\ \/ \E s \in {held[u], defaultSes} \ {0} :
             /\ life' = [life EXCEPT ![s] = IF @ = "live" THEN "closing" ELSE @]
             /\ UserGoto(u, "check")
       \/ defaultSes = 0 /\ Panic(u) /\ UNCHANGED life
    /\ UNCHANGED <<running, stopping, starts, stops, op, chan,
                   pc, mine, defaultSes, held, dials, OnClose, sesMap, reconnect, overlap>>

(***************************************************************************)
(* connect.                                                                *)
(***************************************************************************)
ConnectRun(g) ==
    /\ pc[g] = "run"
    /\ SetRunning(TRUE)
    /\ Goto(g, "dial")
    /\ UNCHANGED <<mine, defaultSes, held, dials, life, OnClose, sesMap, reconnect, overlap>>

\* No connection: post ConnectFailed and leave, or sleep and dial again.
\* When the bound on sessions is reached every Dial fails.
DialFail(g) ==
    /\ pc[g] = "dial"
    /\ Goto(g, IF reconnect THEN "sleep" ELSE "leave")
    /\ UNCHANGED <<peerVars, mine, defaultSes, held, dials, life, OnClose, sesMap, reconnect, overlap>>

ConnectSleep(g) ==
    /\ pc[g] = "sleep"
    /\ Goto(g, "dial")
    /\ UNCHANGED <<peerVars, mine, defaultSes, held, dials, life, OnClose, sesMap, reconnect, overlap>>

\* newSession, defaultSes and ses.run(): the session is alive from here on,
\* though neither its manager nor its OnClose knows of it.
DialOK(g) ==
    /\ pc[g] = "dial"
    /\ dials < MaxDials
    /\ dials' = dials + 1
    /\ mine' = [mine EXCEPT ![g] = dials']
    /\ defaultSes' = dials'
    /\ life' = [life EXCEPT ![dials'] = "live"]
    /\ Goto(g, "add")
    /\ UNCHANGED <<peerVars, held, OnClose, sesMap, reconnect, overlap>>

ConnectAdd(g) ==
    /\ pc[g] = "add"
    /\ sesMap' = sesMap \cup {mine[g]}
    /\ Goto(g, "hook")
    /\ UNCHANGED <<peerVars, mine, defaultSes, held, dials, life, OnClose, reconnect, overlap>>

\* Set OnClose and post Connected.
ConnectHook(g) ==
    /\ pc[g] = "hook"
    /\ OnClose' = OnClose \cup {mine[g]}
    /\ Goto(g, "await")
    /\ UNCHANGED <<peerVars, mine, defaultSes, held, dials, life, sesMap, reconnect, overlap>>

\* MUTANT: defaultSes keeps the session that is gone.
ConnectResumeForgets(g, s) ==
    /\ pc[g] = "await"
    /\ life[s] = "signal"
    /\ life' = [life EXCEPT ![s] = "gone"]
    /\ Goto(g, IF isStopping \/ ~reconnect THEN "leave" ELSE "sleep")
    /\ UNCHANGED <<peerVars, mine, defaultSes, held, dials, OnClose, sesMap, reconnect, overlap>>

\* MUTANT: a Stop does not keep connect from dialling again.
ConnectResumeIgnores(g, s) ==
    /\ pc[g] = "await"
    /\ life[s] = "signal"
    /\ life' = [life EXCEPT ![s] = "gone"]
    /\ defaultSes' = 0
    /\ Goto(g, IF ~reconnect THEN "leave" ELSE "sleep")
    /\ UNCHANGED <<peerVars, mine, held, dials, OnClose, sesMap, reconnect, overlap>>

\* <-closeSignal meets the send in OnClose of a session; the channel belongs
\* to the connector, so it may be the session of another goroutine.
ConnectResume(g, s) ==
    /\ pc[g] = "await"
    /\ life[s] = "signal"
    /\ life' = [life EXCEPT ![s] = "gone"]
    /\ defaultSes' = 0
    /\ Goto(g, IF isStopping \/ ~reconnect THEN "leave" ELSE "sleep")
    /\ UNCHANGED <<peerVars, mine, held, dials, OnClose, sesMap, reconnect, overlap>>

ConnectLeave(g) ==
    /\ pc[g] = "leave"
    /\ SetRunning(FALSE)
    /\ Goto(g, "end")
    /\ UNCHANGED <<mine, defaultSes, held, dials, life, OnClose, sesMap, reconnect, overlap>>

ConnectEnd(g) ==
    /\ pc[g] = "end"
    /\ endStopping
    /\ Goto(g, "done")
    /\ UNCHANGED <<mine, defaultSes, held, dials, life, OnClose, sesMap, reconnect, overlap>>

(***************************************************************************)
(* Sessions.  Both threads end, on Close or because the remote end closed; *)
(* then the goroutine of session.run looks at OnClose.                     *)
(***************************************************************************)
SessionEnd(s) ==
    /\ life[s] \in {"live", "closing"}
    /\ life' = [life EXCEPT ![s] = "ended"]
    /\ UNCHANGED <<peerVars, pc, mine, defaultSes, held, dials, OnClose, sesMap, reconnect, overlap>>

\* MUTANT: OnClose signals without removing the session.
SessionOnCloseKeeps(s) ==
    /\ life[s] = "ended"
    /\ life' = [life EXCEPT ![s] = IF s \in OnClose THEN "signal" ELSE "lost"]
    /\ UNCHANGED <<peerVars, pc, mine, defaultSes, held, dials, OnClose, sesMap, reconnect, overlap>>

\* MUTANT: OnClose removes the session and does not signal.
SessionOnCloseSilent(s) ==
    /\ life[s] = "ended"
    /\ life' = [life EXCEPT ![s] = IF s \in OnClose THEN "gone" ELSE "lost"]
    /\ sesMap' = IF s \in OnClose THEN sesMap \ {s} ELSE sesMap
    /\ UNCHANGED <<peerVars, pc, mine, defaultSes, held, dials, OnClose, reconnect, overlap>>

SessionOnClose(s) ==
    /\ life[s] = "ended"
    /\ IF s \in OnClose
       THEN life' = [life EXCEPT ![s] = "signal"] /\ sesMap' = sesMap \ {s}
       ELSE life' = [life EXCEPT ![s] = "lost"] /\ UNCHANGED sesMap
    /\ UNCHANGED <<peerVars, pc, mine, defaultSes, held, dials, OnClose, reconnect, overlap>>

\* SetAutoReconnectSec may be called at any time.
SetAutoReconnectSec(b) ==
    /\ reconnect' = b
    /\ UNCHANGED <<peerVars, pc, mine, defaultSes, held, dials, life, OnClose, sesMap, overlap>>

-----------------------------------------------------------------------------

Connect(g) ==
    \/ ConnectRun(g) \/ DialFail(g) \/ ConnectSleep(g) \/ DialOK(g)
    \/ ConnectAdd(g) \/ ConnectHook(g)
    \/ (\E s \in Sessions : ConnectResume(g, s))
    \/ ConnectLeave(g) \/ ConnectEnd(g)

Call(u) == User(u) \/ StartGo(u) \/ StopTest(u) \/ StopClose(u)

Next ==
    /\ Alive
    /\ \/ \E u \in Users : Call(u)
       \/ \E g \in Goroutines : Connect(g)
       \/ \E s \in Sessions : SessionEnd(s) \/ SessionOnClose(s)
       \/ SetAutoReconnectSec(~reconnect)

(***************************************************************************)
(* A call that has begun and a goroutine that can run go on; a session     *)
(* that is closed ends (CloseEndsBoth of SocketSession), one that is alive *)
(* need not.  Dial may fail for ever.                    *)
(***************************************************************************)
Fairness ==
    /\ \A u \in Users : WF_vars(Alive /\ upc[u] # "idle" /\ Call(u))
    /\ \A g \in Goroutines : WF_vars(Alive /\ Connect(g))
    /\ \A s \in Sessions : /\ WF_vars(Alive /\ life[s] = "closing" /\ SessionEnd(s))
                           /\ WF_vars(Alive /\ SessionOnClose(s))

Spec == Init /\ [][Next]_vars /\ Fairness

-----------------------------------------------------------------------------

Lives == {"none", "live", "closing", "ended", "signal", "gone", "lost"}

\* The types of the variables.
TypeOK ==
    /\ PeerTypeOK
    /\ pc \in [Goroutines -> {"none", "run", "dial", "sleep", "add", "hook", "await",
                              "leave", "end", "done"}]
    /\ mine \in [Goroutines -> 0..MaxDials]
    /\ defaultSes \in 0..MaxDials
    /\ held \in [Users -> 0..MaxDials]
    /\ dials \in 0..MaxDials
    /\ life \in [Sessions -> Lives]
    /\ OnClose \subseteq Sessions
    /\ sesMap \subseteq Sessions
    /\ reconnect \in BOOLEAN
    /\ overlap \in BOOLEAN

\* Sessions whose end connect has not handled; that of a lost one it never
\* will.
Pending == {s \in Sessions : life[s] \in {"live", "closing", "ended", "signal", "lost"}}

\* The send of OnClose on closeSignal blocks until connect receives.  Even
\* when two goroutines share the channel and take each other's signal,
\* there are as many that wait, or are about to, as sessions to come; and
\* the manager holds no session that is not one of these.
SignalHasReceiver ==
    /\ Cardinality(Pending)
         = Cardinality({g \in Goroutines : pc[g] \in {"add", "hook", "await"}})
    /\ sesMap \subseteq Pending

\* DefaultSession, which rpc and logic send through, is the one session
\* whose end has not been handled, or nil when there is none: connect dials
\* again only after the session before is over.  (Two goroutines of connect
\* overwrite each other's.)
DefaultIsCurrent ==
    ~overlap => \A s \in Sessions : defaultSes = s <=> s \in Pending

\* The end of a session whose OnClose is set in time is handled to the last
\* step: removed from the manager and received by a goroutine of connect.
HookedIsHandled == \A s \in Sessions :
    life[s] = "ended" /\ s \in OnClose ~> ~Alive \/ (life[s] = "gone" /\ s \notin sesMap)

\* "主动退出" (connector.go:111): a Stop that finds a session ends the
\* goroutine of connect, though it is set to reconnect, unless the session
\* died before its OnClose was set or there are two goroutines.
StopEndsConnect ==
    \A u \in Users : upc[u] = "closing" ~>
        \/ ~Alive \/ overlap
        \/ \E s \in Sessions : life[s] = "lost"
        \/ \A g \in Goroutines : pc[g] \in {"none", "leave", "end", "done"}

=============================================================================
