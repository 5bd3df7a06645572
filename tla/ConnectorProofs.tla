-------------------------- MODULE ConnectorProofs --------------------------
(***************************************************************************)
(* Proofs about Connector, for any number of callers, Starts, Stops and    *)
(* sessions: whoever sends on closeSignal has a receiver, and the default  *)
(* session is the one there is.                                            *)
(***************************************************************************)
EXTENDS Connector, FiniteSetTheorems, TLAPS

\* The part of the types the proofs rest on; what Start and Stop keep in
\* PeerStop does not matter to them.
OwnTypes ==
    /\ pc \in [Goroutines -> {"none", "run", "dial", "sleep", "add", "hook", "await",
                              "leave", "end", "done"}]
    /\ mine \in [Goroutines -> 0..MaxDials]
    /\ defaultSes \in 0..MaxDials
    /\ held \in [Users -> 0..MaxDials]
    /\ dials \in 0..MaxDials
    /\ life \in [Sessions -> Lives]

\* Sessions are numbered as they are made, and each belongs to one goroutine.
Numbered ==
    /\ \A s \in Sessions : life[s] = "none" <=> s > dials
    /\ \A g \in Goroutines : mine[g] <= dials
    /\ \A g, h \in Goroutines : mine[g] = mine[h] /\ mine[g] # 0 => g = h

\* Goroutines that wait for a signal or are about to.
Waiting == {g \in Goroutines : pc[g] \in {"add", "hook", "await"}}

\* Until its goroutine has set OnClose a session cannot signal, so it is still
\* there when it is added.
AddedInTime ==
    /\ \A g \in Goroutines : pc[g] \in {"add", "hook"}
            => /\ mine[g] \in Sessions \ OnClose
               /\ life[mine[g]] \in {"live", "closing", "ended", "lost"}
    /\ OnClose \subseteq Sessions
    /\ \A s \in OnClose : life[s] # "none"
    /\ \A s \in Sessions : life[s] \in {"signal", "gone"} => s \in OnClose
    /\ \A s \in sesMap : s \in Pending /\ life[s] # "signal"

SignalInv == OwnTypes /\ Numbered /\ AddedInTime /\ Cardinality(Pending) = Cardinality(Waiting)

\* Goroutines of connect that are not over.
Active == {g \in Goroutines : pc[g] \notin {"none", "done"}}

DefaultInv ==
    ~overlap => /\ \A g, h \in Active : g = h
                /\ \A s \in Sessions : defaultSes = s <=> s \in Pending

-----------------------------------------------------------------------------

(***************************************************************************)
(* Signals.                                                                *)
(***************************************************************************)
LEMMA SignalInit == Init => SignalInv
<1> SUFFICES ASSUME Init PROVE SignalInv
  OBVIOUS
<1>1. MaxDials \in Nat
  BY ConnectorAssumption
<1>2. OwnTypes
  BY <1>1 DEF Init, OwnTypes, Lives
<1>3. Numbered
  BY <1>1 DEF Init, Numbered, Sessions
<1>4. AddedInTime
  BY DEF Init, AddedInTime
<1>5. Pending = {} /\ Waiting = {}
  BY DEF Init, Pending, Waiting
<1> QED
  BY <1>2, <1>3, <1>4, <1>5 DEF SignalInv

LEMMA FiniteParts == IsFiniteSet(Pending) /\ IsFiniteSet(Waiting)
<1>1. IsFiniteSet(Sessions) /\ IsFiniteSet(Goroutines)
  BY ConnectorAssumption, PeerAssumption, FS_Interval DEF Sessions, Goroutines
<1>2. Pending \subseteq Sessions /\ Waiting \subseteq Goroutines
  BY DEF Pending, Waiting
<1> QED
  BY <1>1, <1>2, FS_Subset

\* What the callers of Start and Stop do leaves the sessions that are pending
\* and the goroutines that wait for them alone.
LEMMA CallKeepsSignals ==
    ASSUME SignalInv, NEW u \in Users, Call(u)
    PROVE  /\ OwnTypes' /\ Numbered' /\ AddedInTime'
           /\ Pending' = Pending /\ Waiting' = Waiting
<1>1. OwnTypes /\ Numbered /\ AddedInTime
  BY DEF SignalInv
<1>2. UNCHANGED <<mine, defaultSes, dials, OnClose, sesMap>>
  BY DEF Call, User, StartGo, StopTest, StopClose, ownVars
<1>3. /\ held' \in [Users -> 0..MaxDials]
      /\ life' \in [Sessions -> Lives]
      /\ \A s \in Sessions : life'[s] = life[s] \/ (life[s] = "live" /\ life'[s] = "closing")
  <2>1. CASE User(u) \/ StartGo(u)
    BY <1>1, <2>1 DEF User, StartGo, ownVars, OwnTypes
  <2>2. CASE StopTest(u)
    BY <1>1, <2>2 DEF StopTest, OwnTypes
  <2>3. CASE StopClose(u)
    BY <1>1, <2>3 DEF StopClose, OwnTypes, Lives
  <2> QED
    BY <2>1, <2>2, <2>3 DEF Call
<1>4. /\ pc' \in [Goroutines -> {"none", "run", "dial", "sleep", "add", "hook", "await",
                                 "leave", "end", "done"}]
      /\ \A g \in Goroutines : pc'[g] = pc[g] \/ (pc[g] = "none" /\ pc'[g] = "run")
  <2>1. CASE StartGo(u)
    BY <1>1, <2>1 DEF StartGo, Goto, OwnTypes
  <2>2. CASE UNCHANGED pc
    BY <1>1, <2>2 DEF OwnTypes
  <2> QED
    BY <2>1, <2>2 DEF Call, User, StopTest, StopClose, ownVars
<1>5. Pending' = Pending
  BY <1>3 DEF Pending
<1>6. Waiting' = Waiting
  BY <1>4 DEF Waiting
<1>7. OwnTypes'
  BY <1>1, <1>2, <1>3, <1>4 DEF OwnTypes
<1>8. Numbered'
  BY <1>1, <1>2, <1>3 DEF Numbered
<1>9. AddedInTime'
  <2>1. \A g \in Goroutines : pc'[g] \in {"add", "hook"}
            => /\ mine[g] \in Sessions \ OnClose
               /\ life'[mine[g]] \in {"live", "closing", "ended", "lost"}
    BY <1>1, <1>3, <1>4 DEF AddedInTime
  <2>2. \A s \in sesMap : s \in Sessions /\ s \in Pending /\ life'[s] # "signal"
    BY <1>1, <1>3 DEF AddedInTime, Pending
  <2> QED
    BY <1>1, <1>2, <1>3, <1>5, <2>1, <2>2 DEF AddedInTime
<1> QED
  BY <1>5, <1>6, <1>7, <1>8, <1>9

\* A goroutine moves where neither a session nor a signal is involved.
LEMMA MoveKeepsSignals ==
    ASSUME SignalInv, NEW g \in Goroutines,
           ConnectRun(g) \/ DialFail(g) \/ ConnectSleep(g) \/ ConnectLeave(g) \/ ConnectEnd(g)
    PROVE  /\ OwnTypes' /\ Numbered' /\ AddedInTime'
           /\ Pending' = Pending /\ Waiting' = Waiting
<1>1. OwnTypes /\ Numbered /\ AddedInTime
  BY DEF SignalInv
<1>2. UNCHANGED <<mine, defaultSes, held, dials, life, OnClose, sesMap>>
  BY DEF ConnectRun, DialFail, ConnectSleep, ConnectLeave, ConnectEnd
<1>3. \E l \in {"dial", "sleep", "leave", "end", "done"} :
          pc[g] \notin {"add", "hook", "await"} /\ Goto(g, l)
  BY DEF ConnectRun, DialFail, ConnectSleep, ConnectLeave, ConnectEnd
<1>4. /\ pc' \in [Goroutines -> {"none", "run", "dial", "sleep", "add", "hook", "await",
                                 "leave", "end", "done"}]
      /\ \A h \in Goroutines : pc'[h] = pc[h] \/ {pc[h], pc'[h]} \cap {"add", "hook", "await"} = {}
  BY <1>1, <1>3 DEF Goto, OwnTypes
<1>5. Pending' = Pending
  BY <1>2 DEF Pending
<1>6. Waiting' = Waiting
  BY <1>4 DEF Waiting
<1>7. OwnTypes' /\ Numbered'
  BY <1>1, <1>2, <1>4 DEF OwnTypes, Numbered
<1>8. AddedInTime'
  BY <1>1, <1>2, <1>4, <1>5 DEF AddedInTime
<1> QED
  BY <1>5, <1>6, <1>7, <1>8

\* A Dial that succeeds makes one session and one goroutine that waits for it.
LEMMA DialKeepsSignals ==
    ASSUME SignalInv, NEW g \in Goroutines, DialOK(g)
    PROVE  /\ OwnTypes' /\ Numbered' /\ AddedInTime'
           /\ dials + 1 \in Sessions \ Pending /\ Pending' = Pending \cup {dials + 1}
           /\ g \notin Waiting /\ Waiting' = Waiting \cup {g}
<1> DEFINE n == dials + 1
<1>1. OwnTypes /\ Numbered /\ AddedInTime
  BY DEF SignalInv
<1>2. /\ n \in Sessions /\ n \in 0..MaxDials /\ n > dials /\ n # 0 /\ dials \in Nat
      /\ \A i \in 0..MaxDials : i <= dials => i # n /\ i <= n
      /\ \A s \in Sessions : s # n => (s > dials <=> s > n)
      /\ ~(n > n) /\ n <= n
  BY <1>1, ConnectorAssumption DEF DialOK, OwnTypes, Sessions
<1>3. /\ dials' = n /\ defaultSes' = n
      /\ mine' = [mine EXCEPT ![g] = n]
      /\ life' = [life EXCEPT ![n] = "live"]
      /\ pc[g] = "dial" /\ pc' = [pc EXCEPT ![g] = "add"]
      /\ UNCHANGED <<held, OnClose, sesMap>>
  BY DEF DialOK, Goto
<1> HIDE DEF n
<1>4. life[n] = "none" /\ n \notin OnClose
  BY <1>1, <1>2 DEF Numbered, AddedInTime
<1>5. life'[n] = "live" /\ \A s \in Sessions : s # n => life'[s] = life[s]
  BY <1>1, <1>2, <1>3 DEF OwnTypes
<1>6. /\ mine'[g] = n /\ pc'[g] = "add"
      /\ \A h \in Goroutines : h # g => mine'[h] = mine[h] /\ pc'[h] = pc[h]
  BY <1>1, <1>3 DEF OwnTypes
<1>7. OwnTypes'
  BY <1>1, <1>2, <1>3 DEF OwnTypes, Lives
<1>8. Numbered'
  <2>1. \A h \in Goroutines : mine[h] # n /\ mine[h] <= n
    BY <1>1, <1>2 DEF OwnTypes, Numbered
  <2>2. \A s \in Sessions : life'[s] = "none" <=> s > n
    BY <1>1, <1>2, <1>5 DEF Numbered
  <2> QED
    BY <1>1, <1>2, <1>3, <1>6, <2>1, <2>2 DEF Numbered
<1>9. n \notin Pending /\ Pending' = Pending \cup {n}
  BY <1>2, <1>4, <1>5 DEF Pending
<1>10. g \notin Waiting /\ Waiting' = Waiting \cup {g}
  BY <1>3, <1>6 DEF Waiting
<1>11. AddedInTime'
  <2>1. \A h \in Goroutines : pc'[h] \in {"add", "hook"}
            => /\ mine'[h] \in Sessions \ OnClose
               /\ life'[mine'[h]] \in {"live", "closing", "ended", "lost"}
    <3>1. n \in Sessions
      BY <1>2
    <3> QED
      BY <1>1, <1>4, <1>5, <1>6, <3>1 DEF AddedInTime
  <2>2. \A s \in sesMap : s \in Pending' /\ life'[s] # "signal"
    BY <1>1, <1>4, <1>5, <1>9 DEF AddedInTime, Pending
  <2> QED
    BY <1>1, <1>3, <1>4, <1>5, <2>1, <2>2 DEF AddedInTime
<1> QED
  BY <1>2, <1>7, <1>8, <1>9, <1>10, <1>11 DEF n

\* Add and OnClose are set while the session is still there.
LEMMA HookKeepsSignals ==
    ASSUME SignalInv, NEW g \in Goroutines, ConnectAdd(g) \/ ConnectHook(g)
    PROVE  /\ OwnTypes' /\ Numbered' /\ AddedInTime'
           /\ Pending' = Pending /\ Waiting' = Waiting
<1>1. OwnTypes /\ Numbered /\ AddedInTime
  BY DEF SignalInv
<1>2. /\ UNCHANGED <<mine, defaultSes, held, dials, life>>
      /\ \E l \in {"hook", "await"} : Goto(g, l)
      /\ pc[g] \in {"add", "hook"}
  BY DEF ConnectAdd, ConnectHook
<1>3. /\ pc' \in [Goroutines -> {"none", "run", "dial", "sleep", "add", "hook", "await",
                                 "leave", "end", "done"}]
      /\ pc'[g] \in {"hook", "await"}
      /\ \A h \in Goroutines : h # g => pc'[h] = pc[h]
  BY <1>1, <1>2 DEF Goto, OwnTypes
<1>4. Pending' = Pending /\ Waiting' = Waiting
  BY <1>2, <1>3 DEF Pending, Waiting
<1>5. OwnTypes' /\ Numbered'
  BY <1>1, <1>2, <1>3 DEF OwnTypes, Numbered
<1>6. /\ mine[g] \in Sessions \ OnClose
      /\ life[mine[g]] \in {"live", "closing", "ended", "lost"} /\ mine[g] \in Pending
  BY <1>1, <1>2 DEF AddedInTime, Pending
<1>7. \A h \in Goroutines : h # g /\ pc[h] \in {"add", "hook"} => mine[h] # mine[g]
  BY <1>1, <1>6, ConnectorAssumption DEF Numbered, Sessions
<1>8. CASE ConnectAdd(g)
  <2>1. OnClose' = OnClose /\ sesMap' = sesMap \cup {mine[g]}
    BY <1>8 DEF ConnectAdd
  <2> QED
    BY <1>1, <1>2, <1>3, <1>4, <1>5, <1>6, <2>1 DEF AddedInTime
<1>9. CASE ConnectHook(g)
  <2>1. OnClose' = OnClose \cup {mine[g]} /\ sesMap' = sesMap /\ pc'[g] = "await"
    BY <1>1, <1>9 DEF ConnectHook, Goto, OwnTypes
  <2> QED
    BY <1>1, <1>2, <1>3, <1>4, <1>5, <1>6, <1>7, <2>1 DEF AddedInTime
<1> QED
  BY <1>8, <1>9

\* A signal is received by one goroutine, which stops waiting.
LEMMA ResumeKeepsSignals ==
    ASSUME SignalInv, NEW g \in Goroutines, NEW s \in Sessions, ConnectResume(g, s)
    PROVE  /\ OwnTypes' /\ Numbered' /\ AddedInTime'
           /\ s \in Pending /\ Pending' = Pending \ {s}
           /\ g \in Waiting /\ Waiting' = Waiting \ {g}
<1>1. OwnTypes /\ Numbered /\ AddedInTime
  BY DEF SignalInv
<1>2. /\ UNCHANGED <<mine, held, dials, OnClose, sesMap>> /\ defaultSes' = 0
      /\ life[s] = "signal" /\ life' = [life EXCEPT ![s] = "gone"]
      /\ pc[g] = "await" /\ \E l \in {"leave", "sleep"} : Goto(g, l)
  BY DEF ConnectResume
<1>3. life'[s] = "gone" /\ \A r \in Sessions : r # s => life'[r] = life[r]
  BY <1>1, <1>2 DEF OwnTypes
<1>4. pc'[g] \in {"leave", "sleep"} /\ \A h \in Goroutines : h # g => pc'[h] = pc[h]
  BY <1>1, <1>2 DEF Goto, OwnTypes
<1>5. OwnTypes'
  BY <1>1, <1>2, ConnectorAssumption DEF OwnTypes, Goto, Lives
<1>6. Numbered'
  BY <1>1, <1>2, <1>3 DEF Numbered
<1>7. s \in Pending /\ Pending' = Pending \ {s}
  BY <1>2, <1>3 DEF Pending
<1>8. g \in Waiting /\ Waiting' = Waiting \ {g}
  BY <1>2, <1>4 DEF Waiting
<1>9. AddedInTime'
  <2>1. \A h \in Goroutines : pc'[h] \in {"add", "hook"} => h # g /\ mine[h] # s
    BY <1>1, <1>2, <1>4 DEF AddedInTime
  <2>2. s \notin sesMap
    BY <1>1, <1>2 DEF AddedInTime
  <2>3. \A r \in sesMap : r \in Pending' /\ life'[r] # "signal"
    BY <1>1, <1>3, <1>7, <2>2 DEF AddedInTime, Pending
  <2> QED
    BY <1>1, <1>2, <1>3, <1>4, <2>1, <2>3 DEF AddedInTime
<1> QED
  BY <1>5, <1>6, <1>7, <1>8, <1>9

\* A session that ends stays pending until its signal is received.
LEMMA SessionKeepsSignals ==
    ASSUME SignalInv, NEW s \in Sessions, SessionEnd(s) \/ SessionOnClose(s)
    PROVE  /\ OwnTypes' /\ Numbered' /\ AddedInTime'
           /\ Pending' = Pending /\ Waiting' = Waiting
<1>1. OwnTypes /\ Numbered /\ AddedInTime
  BY DEF SignalInv
<1>2. UNCHANGED <<pc, mine, defaultSes, held, dials, OnClose>>
  BY DEF SessionEnd, SessionOnClose
<1>3. /\ life' \in [Sessions -> Lives]
      /\ life[s] \in {"live", "closing", "ended"}
      /\ life'[s] \in {"ended", "signal", "lost"}
      /\ life'[s] = "signal" => s \in OnClose /\ sesMap' = sesMap \ {s}
      /\ sesMap' \subseteq sesMap
      /\ \A r \in Sessions : r # s => life'[r] = life[r]
  BY <1>1 DEF SessionEnd, SessionOnClose, OwnTypes, Lives
<1>4. Pending' = Pending /\ Waiting' = Waiting
  BY <1>2, <1>3 DEF Pending, Waiting
<1>5. OwnTypes' /\ Numbered'
  BY <1>1, <1>2, <1>3 DEF OwnTypes, Numbered
<1>6. AddedInTime'
  <2>1. \A r \in sesMap' : r \in Pending' /\ life'[r] # "signal"
    BY <1>1, <1>3, <1>4 DEF AddedInTime, Pending
  <2> QED
    BY <1>1, <1>2, <1>3, <2>1 DEF AddedInTime
<1> QED
  BY <1>4, <1>5, <1>6

\* Whatever happens, pending sessions and waiting goroutines stay as they are,
\* or one of each is added, or one of each is removed.
LEMMA NextSignals ==
    ASSUME SignalInv, [Next]_vars
    PROVE  /\ OwnTypes' /\ Numbered' /\ AddedInTime'
           /\ \/ Pending' = Pending /\ Waiting' = Waiting
              \/ \E s \in Sessions \ Pending, g \in Goroutines \ Waiting :
                     Pending' = Pending \cup {s} /\ Waiting' = Waiting \cup {g}
              \/ \E s \in Pending, g \in Waiting :
                     Pending' = Pending \ {s} /\ Waiting' = Waiting \ {g}
<1>1. ASSUME UNCHANGED <<pc, mine, defaultSes, held, dials, life, OnClose, sesMap>>
      PROVE  OwnTypes' /\ Numbered' /\ AddedInTime' /\ Pending' = Pending /\ Waiting' = Waiting
  BY <1>1 DEF SignalInv, OwnTypes, Numbered, AddedInTime, Pending, Waiting
<1>2. \A b : SetAutoReconnectSec(b)
        => UNCHANGED <<pc, mine, defaultSes, held, dials, life, OnClose, sesMap>>
  BY DEF SetAutoReconnectSec
<1>3. UNCHANGED vars => UNCHANGED <<pc, mine, defaultSes, held, dials, life, OnClose, sesMap>>
  BY DEF vars, ownVars
<1>4. ASSUME NEW g \in Goroutines, DialOK(g)
      PROVE  /\ OwnTypes' /\ Numbered' /\ AddedInTime'
             /\ \E s \in Sessions \ Pending, h \in Goroutines \ Waiting :
                     Pending' = Pending \cup {s} /\ Waiting' = Waiting \cup {h}
  BY <1>4, DialKeepsSignals
<1>5. ASSUME NEW g \in Goroutines, NEW s \in Sessions, ConnectResume(g, s)
      PROVE  /\ OwnTypes' /\ Numbered' /\ AddedInTime'
             /\ \E r \in Pending, h \in Waiting :
                     Pending' = Pending \ {r} /\ Waiting' = Waiting \ {h}
  BY <1>5, ResumeKeepsSignals
<1> QED
  BY <1>1, <1>2, <1>3, <1>4, <1>5, CallKeepsSignals, MoveKeepsSignals, HookKeepsSignals,
     SessionKeepsSignals DEF Next, Connect

LEMMA SignalStep == SignalInv /\ [Next]_vars => SignalInv'
<1> SUFFICES ASSUME SignalInv, [Next]_vars PROVE Cardinality(Pending') = Cardinality(Waiting')
  BY NextSignals DEF SignalInv
<1>1. Cardinality(Pending) = Cardinality(Waiting)
  BY DEF SignalInv
<1>2. ASSUME NEW s \in Sessions \ Pending, NEW g \in Goroutines \ Waiting,
             Pending' = Pending \cup {s}, Waiting' = Waiting \cup {g}
      PROVE  Cardinality(Pending') = Cardinality(Waiting')
  <2>1. Cardinality(Pending \cup {s}) = Cardinality(Pending) + 1
    BY <1>2, FiniteParts, FS_AddElement
  <2>2. Cardinality(Waiting \cup {g}) = Cardinality(Waiting) + 1
    BY <1>2, FiniteParts, FS_AddElement
  <2> QED
    BY <1>1, <1>2, <2>1, <2>2
<1>3. ASSUME NEW s \in Pending, NEW g \in Waiting,
             Pending' = Pending \ {s}, Waiting' = Waiting \ {g}
      PROVE  Cardinality(Pending') = Cardinality(Waiting')
  <2>1. Cardinality(Pending \ {s}) = Cardinality(Pending) - 1
    BY <1>3, FiniteParts, FS_RemoveElement
  <2>2. Cardinality(Waiting \ {g}) = Cardinality(Waiting) - 1
    BY <1>3, FiniteParts, FS_RemoveElement
  <2> QED
    BY <1>1, <1>3, <2>1, <2>2
<1> QED
  BY <1>1, <1>2, <1>3, NextSignals

-----------------------------------------------------------------------------

(***************************************************************************)
(* The default session.                                                    *)
(***************************************************************************)
LEMMA DefaultInit == Init => DefaultInv
<1> SUFFICES ASSUME Init PROVE DefaultInv
  OBVIOUS
<1>1. \A s \in Sessions : defaultSes # s
  BY ConnectorAssumption DEF Init, Sessions
<1> QED
  BY <1>1 DEF Init, DefaultInv, Active, Pending

\* While one goroutine runs connect, there is a session only while it waits.
LEMMA DefaultStep == SignalInv /\ DefaultInv /\ [Next]_vars => DefaultInv'
<1> SUFFICES ASSUME SignalInv, DefaultInv, [Next]_vars, ~overlap'
             PROVE  /\ \A g, h \in Active' : g = h
                    /\ \A s \in Sessions : defaultSes' = s <=> s \in Pending'
  BY DEF DefaultInv
<1>0. OwnTypes
  BY DEF SignalInv
<1>1. ASSUME ~overlap, UNCHANGED defaultSes, Pending' = Pending, Active' \subseteq Active
      PROVE  /\ \A g, h \in Active' : g = h
             /\ \A s \in Sessions : defaultSes' = s <=> s \in Pending'
  BY <1>1 DEF DefaultInv
<1>2. ASSUME NEW u \in Users, Call(u)
      PROVE  /\ \A g, h \in Active' : g = h
             /\ \A s \in Sessions : defaultSes' = s <=> s \in Pending'
  <2>1. Pending' = Pending
    BY <1>2, CallKeepsSignals
  <2>2. UNCHANGED defaultSes
    BY <1>2 DEF Call, User, StartGo, StopTest, StopClose, ownVars
  <2>3. CASE UNCHANGED <<pc, overlap>>
    BY <1>1, <2>1, <2>2, <2>3 DEF Active
  <2>4. CASE StartGo(u) /\ ~running
    <3>1. ~overlap /\ Active = {}
      BY <2>4 DEF StartGo, Active
    <3>2. PICK g \in Goroutines : Goto(g, "run")
      BY <2>4 DEF StartGo
    <3>3. Active' \subseteq {g}
      BY <1>0, <3>1, <3>2 DEF Goto, Active, OwnTypes
    <3> QED
      BY <2>1, <2>2, <3>1, <3>3 DEF DefaultInv
  <2> QED
    BY <1>2, <2>3, <2>4 DEF Call, User, StartGo, StopTest, StopClose, ownVars
<1>3. ASSUME NEW g \in Goroutines,
             \/ ConnectRun(g) \/ DialFail(g) \/ ConnectSleep(g) \/ ConnectAdd(g)
             \/ ConnectHook(g) \/ ConnectLeave(g) \/ ConnectEnd(g)
      PROVE  /\ \A h, i \in Active' : h = i
             /\ \A s \in Sessions : defaultSes' = s <=> s \in Pending'
  <2>1. Pending' = Pending
    BY <1>3, MoveKeepsSignals, HookKeepsSignals
  <2>2. UNCHANGED <<defaultSes, overlap>> /\ pc[g] \notin {"none", "done"}
        /\ \E l : Goto(g, l)
    BY <1>3 DEF ConnectRun, DialFail, ConnectSleep, ConnectAdd, ConnectHook, ConnectLeave, ConnectEnd
  <2>3. Active' \subseteq Active
    BY <1>0, <2>2 DEF Goto, Active, OwnTypes
  <2> QED
    BY <1>1, <2>1, <2>2, <2>3
<1>4. ASSUME NEW g \in Goroutines, DialOK(g)
      PROVE  /\ \A h, i \in Active' : h = i
             /\ \A s \in Sessions : defaultSes' = s <=> s \in Pending'
  <2>1. ~overlap /\ pc[g] = "dial" /\ Goto(g, "add") /\ defaultSes' = dials + 1
    BY <1>4 DEF DialOK
  <2>2. Active' \subseteq Active /\ g \in Active
    BY <1>0, <2>1 DEF Goto, Active, OwnTypes
  <2>3. Waiting = {}
    BY <2>1, <2>2 DEF DefaultInv, Waiting, Active
  <2>4. Cardinality(Pending) = 0
    BY <2>3, FS_EmptySet DEF SignalInv
  <2>5. Pending = {}
    BY <2>4, FiniteParts, FS_EmptySet
  <2>6. Pending' = {dials + 1}
    BY <1>4, <2>5, DialKeepsSignals
  <2> QED
    BY <2>1, <2>2, <2>6 DEF DefaultInv
<1>5. ASSUME NEW g \in Goroutines, NEW s \in Sessions, ConnectResume(g, s)
      PROVE  /\ \A h, i \in Active' : h = i
             /\ \A r \in Sessions : defaultSes' = r <=> r \in Pending'
  <2>1. ~overlap /\ pc[g] = "await" /\ (\E l : Goto(g, l)) /\ defaultSes' = 0
    BY <1>5 DEF ConnectResume
  <2>2. Active' \subseteq Active
    BY <1>0, <2>1 DEF Goto, Active, OwnTypes
  <2>3. s \in Pending /\ Pending' = Pending \ {s}
    BY <1>5, ResumeKeepsSignals
  <2>4. \A r \in Pending : r \in Sessions /\ r = defaultSes
    BY <2>1 DEF DefaultInv, Pending
  <2>5. Pending' = {}
    BY <2>3, <2>4
  <2>6. 0 \notin Sessions
    BY ConnectorAssumption DEF Sessions
  <2> QED
    BY <2>1, <2>2, <2>5, <2>6 DEF DefaultInv
<1>6. ASSUME NEW s \in Sessions, SessionEnd(s) \/ SessionOnClose(s)
      PROVE  /\ \A g, h \in Active' : g = h
             /\ \A r \in Sessions : defaultSes' = r <=> r \in Pending'
  <2>1. Pending' = Pending
    BY <1>6, SessionKeepsSignals
  <2>2. UNCHANGED <<defaultSes, overlap, pc>>
    BY <1>6 DEF SessionEnd, SessionOnClose
  <2> QED
    BY <1>1, <2>1, <2>2 DEF Active
<1>7. ASSUME UNCHANGED <<pc, life, defaultSes, overlap>>
      PROVE  /\ \A g, h \in Active' : g = h
             /\ \A s \in Sessions : defaultSes' = s <=> s \in Pending'
  BY <1>1, <1>7 DEF Active, Pending
<1>8. \A b : SetAutoReconnectSec(b) => UNCHANGED <<pc, life, defaultSes, overlap>>
  BY DEF SetAutoReconnectSec
<1>9. UNCHANGED vars => UNCHANGED <<pc, life, defaultSes, overlap>>
  BY DEF vars, ownVars
<1> QED
  BY <1>2, <1>3, <1>4, <1>5, <1>6, <1>7, <1>8, <1>9 DEF Next, Connect

-----------------------------------------------------------------------------

\* The send of OnClose on closeSignal has a receiver to come, also when several
\* goroutines of connect share the channel and take each other's signal, and
\* the manager holds no session that has been handled (connector.go:96, 106).
THEOREM SignalIsReceived == Spec => []SignalHasReceiver
<1>1. SignalInv => SignalHasReceiver
  BY DEF SignalInv, AddedInTime, SignalHasReceiver, Waiting
<1> QED
  BY <1>1, SignalInit, SignalStep, PTL DEF Spec

\* While there is one goroutine of connect at a time, DefaultSession is the
\* session whose end has not been handled, or nil (connector.go:84, 108).
THEOREM DefaultStaysCurrent == Spec => []DefaultIsCurrent
<1>1. DefaultInv => DefaultIsCurrent
  BY DEF DefaultInv, DefaultIsCurrent
<1>2. Init => SignalInv /\ DefaultInv
  BY SignalInit, DefaultInit
<1>3. SignalInv /\ DefaultInv /\ [Next]_vars => SignalInv' /\ DefaultInv'
  BY SignalStep, DefaultStep
<1> QED
  BY <1>1, <1>2, <1>3, PTL DEF Spec

=============================================================================
