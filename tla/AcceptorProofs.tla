--------------------------- MODULE AcceptorProofs ---------------------------
(***************************************************************************)
(* Proofs about Acceptor, for any number of clients, Starts and Stops and  *)
(* any space of ids: its variables keep their types, the manager holds     *)
(* exactly the sessions that are alive, and a Start after a Stop finds the *)
(* address free.                                                           *)
(***************************************************************************)
EXTENDS Acceptor, FiniteSetTheorems, WellFoundedInduction, NaturalsInduction, TLAPS

-----------------------------------------------------------------------------

(***************************************************************************)
(* The sessions and their manager.                                         *)
(***************************************************************************)
\* A session has been made when its onAccepted is past Add, and runs when
\* onAccepted is over, with OnClose set by then.
LifeFollowsConn ==
    \A k \in Clients :
        /\ conn[k] \in {"none", "backlog", "reset", "hand", "dropped", "add"} => life[k] = "none"
        /\ conn[k] \in {"hook", "run"} => life[k] \in {"made", "shut"}
        /\ conn[k] = "done" => life[k] \in {"live", "closing", "ended", "gone"}
        /\ conn[k] \in {"run", "done"} => k \in OnClose

\* A connection that Accept has returned is in one hand until it is checked.
InOneHand ==
    \A g \in Goroutines : \A k \in hand[g] :
        /\ conn[k] = "hand"
        /\ \A h \in Goroutines : k \in hand[h] => h = g

\* A session is where its id says.
UnderItsID == \A i \in DOMAIN sesMap : id[sesMap[i]] = i

Exact == \A k \in Clients : k \in Managed <=> life[k] \notin {"none", "gone"}

ManagerInv ==
    /\ LifeFollowsConn
    /\ InOneHand
    /\ crowded \/ (UnderItsID /\ Exact)

(***************************************************************************)
(* Start and Stop, made by one goroutine, while Accept has not failed by   *)
(* itself.                                                                 *)
(***************************************************************************)
OneUser == \A u, v \in Users : u = v

Active(g) == pc[g] \notin {"none", "done"}

Accepting(g) == pc[g] \in {"run", "accept", "blocked", "got"}

OneActive == \A g, h \in Goroutines : Active(g) /\ Active(h) => g = h

RunningIsAccepting ==
    running <=> \E g \in Goroutines : pc[g] \in {"accept", "blocked", "got", "leave", "panic"}

\* accept leaves its loop only because of a Stop, which is not over then.
LeavesForStop ==
    \A g \in Goroutines :
        /\ pc[g] \in {"leave", "end"} => isStopping
        /\ pc[g] = "got" /\ hand[g] = {} => isStopping

\* While the channel is there its Stop goes on.
StopGoesOn ==
    isStopping => \A u \in Users :
        upc[u] \in {"close", "closing", "check", "load", "recv", "clear", "panic"}

ClearAtEnd == \A u \in Users : upc[u] = "clear" => \A g \in Goroutines : ~Active(g)

\* The field names the open listener, unless a Start that failed has made it
\* nil; a goroutine that accepts reads what the field says.
FieldIsOpen ==
    /\ lsn # 0 => open \subseteq {lsn}
    /\ \A g \in Goroutines : pc[g] \in {"blocked", "got"} => at[g] = lsn /\ lsn # 0

\* The listener is open while a goroutine accepts, unless it is being
\* stopped, and closed when there is none or Stop has passed its Close.
OpenWhileAccepting ==
    /\ \A g \in Goroutines : Accepting(g) => isStopping \/ open # {}
    /\ (isStopping \/ \A g \in Goroutines : ~Active(g))
            => open = {} \/ \E u \in Users : upc[u] \in {"close", "panic"}

\* Stop closes the listener after the signal to leave.
CloseAfterSignal ==
    \A u \in Users : upc[u] = "close" => isStopping \/ \A g \in Goroutines : ~Accepting(g)

StopInv ==
    failed \/ /\ OneActive
              /\ RunningIsAccepting
              /\ LeavesForStop
              /\ StopGoesOn
              /\ ClearAtEnd
              /\ FieldIsOpen
              /\ OpenWhileAccepting
              /\ CloseAfterSignal

(***************************************************************************)
(* The id that Add chooses.                                                *)
(***************************************************************************)
\* A set of numbers that is not empty has a least one.
LEMMA LeastNumber ==
    ASSUME NEW S \in SUBSET Nat, S # {}
    PROVE  \E m \in S : \A n \in S : m <= n
<1>1. \E m \in S : \A n \in S : ~(<<n, m>> \in OpToRel(<, Nat))
  BY NatLessThanWellFounded, WFMin
<1>2. PICK m \in S : \A n \in S : ~(<<n, m>> \in OpToRel(<, Nat))
  BY <1>1
<1>3. \A n \in S : ~(n < m)
  BY <1>2 DEF OpToRel
<1> QED
  BY <1>3

\* The ids wrap around once at most in a loop of Add.
LEMMA Wraps ==
    ASSUME NEW n \in Nat \ {0}, NEW x \in 0..(2 * n - 1)
    PROVE  x % n = IF x < n THEN x ELSE x - n
  OBVIOUS

\* Different turns of the loop look at different ids.
LEMMA CandidatesDiffer ==
    ASSUME sesIDAcc \in IDs
    PROVE  /\ \A k \in 1..totalTryCount : Candidate(k) \in IDs
           /\ \A j, k \in 1..totalTryCount : Candidate(j) = Candidate(k) => j = k
<1>1. IDSpace \in Nat \ {0} /\ totalTryCount \in 1..IDSpace /\ sesIDAcc \in 0..(IDSpace - 1)
  BY ManagerAssumption DEF IDs
<1>2. \A k \in 1..totalTryCount : sesIDAcc + k \in 0..(2 * IDSpace - 1)
  BY <1>1
<1>3. \A k \in 1..totalTryCount :
        Candidate(k) = IF sesIDAcc + k < IDSpace THEN sesIDAcc + k
                                                 ELSE sesIDAcc + k - IDSpace
  <2>1. TAKE k \in 1..totalTryCount
  <2> DEFINE x == sesIDAcc + k
  <2>2. x \in 0..(2 * IDSpace - 1)
    BY <1>2
  <2> HIDE DEF x
  <2>3. x % IDSpace = IF x < IDSpace THEN x ELSE x - IDSpace
    BY <1>1, <2>2, Wraps
  <2> QED
    BY <1>1, <2>3 DEF Candidate, x
<1> QED
  BY <1>1, <1>3 DEF IDs

\* Add looks at ids until it finds one that is free, and while it knows of fewer
\* sessions than it looks at ids there is one.
LEMMA FirstFreeIsFree ==
    ASSUME sesIDAcc \in IDs, DOMAIN sesMap \subseteq IDs
    PROVE  /\ FirstFree \in IDs
           /\ SessionCount < totalTryCount => FirstFree \notin DOMAIN sesMap
<1> DEFINE Turns == 1..totalTryCount
           Free == {k \in Turns : ~Taken(k)}
           Stops == {k \in Turns : ~Taken(k) \/ k = totalTryCount}
           Chosen(k) == (~Taken(k) \/ k = totalTryCount) /\ \A j \in 1..(k - 1) : Taken(j)
<1>1. totalTryCount \in Nat \ {0} /\ IDSpace \in Nat \ {0}
  BY ManagerAssumption
<1>2. \E m \in Stops : \A n \in Stops : m <= n
  <2>1. Stops \in SUBSET Nat /\ totalTryCount \in Stops
    BY <1>1
  <2> QED
    BY <2>1, LeastNumber
<1>3. \E k \in Turns : Chosen(k)
  <2>1. PICK m \in Stops : \A n \in Stops : m <= n
    BY <1>2
  <2>2. \A j \in 1..(m - 1) : j \in Turns /\ ~(m <= j)
    BY <1>1
  <2> QED
    BY <2>1, <2>2
<1> DEFINE c == CHOOSE k \in Turns : Chosen(k)
<1>4. c \in Turns /\ Chosen(c)
  BY <1>3
<1>5. FirstFree = Candidate(c)
  BY DEF FirstFree
<1> HIDE DEF c
<1>6. FirstFree \in IDs
  BY <1>4, <1>5, CandidatesDiffer
<1>7. ASSUME SessionCount < totalTryCount PROVE \E k \in Turns : ~Taken(k)
  <2> DEFINE f == [k \in Turns |-> Candidate(k)]
  <2>1. SUFFICES ASSUME \A k \in Turns : Taken(k) PROVE FALSE
    OBVIOUS
  <2>2. IsFiniteSet(IDs)
    BY <1>1, FS_Interval DEF IDs
  <2>3. IsFiniteSet(DOMAIN sesMap)
    BY <2>2, FS_Subset
  <2>4. IsFiniteSet(Turns) /\ Cardinality(Turns) = totalTryCount
    BY <1>1, FS_Interval
  <2>5. f \in [Turns -> DOMAIN sesMap]
    BY <2>1 DEF Taken
  <2>6. Cardinality(DOMAIN sesMap) < Cardinality(Turns)
    BY <1>7, <2>4 DEF SessionCount
  <2>7. \E x, y \in Turns : x # y /\ f[x] = f[y]
    <3> HIDE DEF f, Turns
    <3> QED
      BY <2>3, <2>4, <2>5, <2>6, FS_PigeonHole
  <2> QED
    BY <2>7, CandidatesDiffer
<1>8. ASSUME NEW k \in Turns, ~Taken(k) PROVE ~Taken(c)
  <2>1. c # totalTryCount => ~Taken(c)
    BY <1>4
  <2>2. c = totalTryCount /\ k # c => k \in 1..(c - 1)
    BY <1>1
  <2> QED
    BY <1>4, <1>8, <2>1, <2>2
<1> QED
  BY <1>5, <1>6, <1>7, <1>8 DEF Taken

-----------------------------------------------------------------------------

(***************************************************************************)
(* Types.                                                                  *)
(***************************************************************************)
LEMMA TypeInit == Init => TypeOK
<1> SUFFICES ASSUME Init PROVE TypeOK
  OBVIOUS
<1>1. PeerTypeOK
  <2>1. 0 \in Channels /\ 0 \in 0..MaxStarts /\ 0 \in 0..MaxStops
    BY PeerAssumption DEF Channels
  <2> QED
    BY <2>1, Zenon DEF Init, PeerInit, PeerTypeOK
<1>2. sesIDAcc \in IDs /\ id \in [Clients -> IDs] /\ DOMAIN sesMap \subseteq IDs
      /\ Managed \subseteq Clients
  <2>1. 0 \in IDs
    BY ManagerAssumption DEF IDs
  <2>2. DOMAIN sesMap = {}
    BY DEF Init, ManagerInit
  <2> QED
    BY <2>1, <2>2 DEF Init, ManagerInit, Managed, Clients
<1> QED
  BY <1>1, <1>2 DEF Init, ManagerInit, TypeOK

\* What Start, Stop and the end of the goroutine do to the fields of the peer.
LEMMA PeerTypeStep ==
    ASSUME PeerTypeOK,
           \/ \E u \in Users : StopCall(u) \/ StopQuery(u) \/ startStopping(u)
                               \/ StartCall(u) \/ waitStopFinished(u)
           \/ endStopping
           \/ \E v \in BOOLEAN : SetRunning(v)
    PROVE  PeerTypeOK'
<1>1. /\ stopping \in 0..MaxStops /\ starts \in 0..MaxStarts /\ stops \in 0..MaxStops
      /\ MaxStarts \in Nat /\ MaxStops \in Nat
  BY PeerAssumption DEF PeerTypeOK, Channels
<1>2. ASSUME NEW u \in Users, StopCall(u) \/ StopQuery(u) PROVE PeerTypeOK'
  BY <1>2 DEF StopCall, StopQuery, UserGoto, PeerTypeOK
<1>3. ASSUME NEW u \in Users, startStopping(u) PROVE PeerTypeOK'
  <2>1. stops' \in 0..MaxStops /\ stopping' \in 0..MaxStops
    BY <1>1, <1>3 DEF startStopping
  <2> QED
    BY <1>3, <2>1 DEF startStopping, UserGoto, PeerTypeOK, Channels
<1>4. ASSUME NEW u \in Users, StartCall(u) PROVE PeerTypeOK'
  <2>1. starts' \in 0..MaxStarts
    BY <1>1, <1>4 DEF StartCall
  <2> QED
    BY <1>4, <2>1 DEF StartCall, UserGoto, PeerTypeOK
<1>5. ASSUME NEW u \in Users, waitStopFinished(u) PROVE PeerTypeOK'
  <2>1. 0 \in Channels
    BY <1>1 DEF Channels
  <2> QED
    BY <1>5, <2>1 DEF waitStopFinished, Waited, UserGoto, PeerTypeOK
<1>6. CASE endStopping
  <2>1. 0 \in Channels
    BY <1>1 DEF Channels
  <2> QED
    BY <1>6, <2>1 DEF endStopping, Receivers, UserGoto, PeerTypeOK
<1>7. ASSUME NEW v \in BOOLEAN, SetRunning(v) PROVE PeerTypeOK'
  BY <1>7 DEF SetRunning, PeerTypeOK
<1> QED
  BY <1>2, <1>3, <1>4, <1>5, <1>6, <1>7

\* What Add and Remove do to the fields of the manager.
ManagerTypeOK ==
    /\ sesIDAcc \in IDs
    /\ id \in [Clients -> IDs]
    /\ DOMAIN sesMap \subseteq IDs /\ Managed \subseteq Clients
    /\ crowded \in BOOLEAN

LEMMA ManagerTypeStep ==
    ASSUME ManagerTypeOK, NEW k \in Clients, Add(k) \/ Remove(k)
    PROVE  ManagerTypeOK'
<1>1. CASE Add(k)
  <2>1. FirstFree \in IDs
    BY FirstFreeIsFree DEF ManagerTypeOK
  <2>2. /\ DOMAIN sesMap' = DOMAIN sesMap \cup {FirstFree}
        /\ \A i \in DOMAIN sesMap' : sesMap'[i] = k \/ (i \in DOMAIN sesMap /\ sesMap'[i] = sesMap[i])
    BY <1>1 DEF Add
  <2>3. Managed' \subseteq Clients
    BY <2>2 DEF Managed, ManagerTypeOK
  <2> QED
    BY <1>1, <2>1, <2>2, <2>3 DEF Add, ManagerTypeOK
<1>2. CASE Remove(k)
  <2>1. /\ DOMAIN sesMap' \subseteq DOMAIN sesMap
        /\ \A i \in DOMAIN sesMap' : sesMap'[i] = sesMap[i]
    BY <1>2 DEF Remove
  <2>2. Managed' \subseteq Clients
    BY <2>1 DEF Managed, ManagerTypeOK
  <2> QED
    BY <1>2, <2>1, <2>2 DEF Remove, ManagerTypeOK
<1> QED
  BY <1>1, <1>2

LEMMA ManagerTypeKept ==
    ASSUME ManagerTypeOK, UNCHANGED managerVars
    PROVE  ManagerTypeOK'
  BY DEF ManagerTypeOK, managerVars, Managed

\* The fields of the acceptor, its goroutines and its clients.
OwnTypeOK ==
    /\ pc \in [Goroutines -> {"none", "run", "accept", "blocked", "got", "leave", "end",
                              "done", "panic"}]
    /\ at \in [Goroutines -> {0} \cup Listeners]
    /\ hand \in [Goroutines -> SUBSET Clients]
    /\ lsn \in {0} \cup Listeners
    /\ open \subseteq Listeners
    /\ conn \in [Clients -> {"none", "backlog", "reset", "hand", "dropped",
                             "add", "hook", "run", "done"}]
    /\ life \in [Clients -> {"none", "made", "shut", "live", "closing", "ended", "gone"}]
    /\ OnClose \subseteq Clients
    /\ failed \in BOOLEAN

LEMMA TypeParts == TypeOK <=> PeerTypeOK /\ ManagerTypeOK /\ OwnTypeOK
  BY DEF TypeOK, ManagerTypeOK, OwnTypeOK

LEMMA TypePartsNext == TypeOK' <=> PeerTypeOK' /\ ManagerTypeOK' /\ OwnTypeOK'
  BY DEF TypeOK, ManagerTypeOK, OwnTypeOK

LEMMA PeerTypeKept == PeerTypeOK /\ UNCHANGED peerVars => PeerTypeOK'
  BY DEF PeerTypeOK, peerVars

LEMMA TypeStep == TypeOK /\ [Next]_vars => TypeOK'
<1> SUFFICES ASSUME TypeOK, [Next]_vars PROVE PeerTypeOK' /\ ManagerTypeOK' /\ OwnTypeOK'
  BY TypePartsNext
<1>0. PeerTypeOK /\ ManagerTypeOK /\ OwnTypeOK
  BY TypeParts
<1>1. ASSUME NEW u \in Users, User(u) PROVE PeerTypeOK' /\ ManagerTypeOK' /\ OwnTypeOK'
  <2>1. PeerTypeOK'
    BY <1>0, <1>1, PeerTypeStep DEF User
  <2>2. ManagerTypeOK'
    BY <1>0, <1>1, ManagerTypeKept DEF User, ownVars
  <2> QED
    BY <1>0, <1>1, <2>1, <2>2 DEF User, ownVars, OwnTypeOK
<1>2. ASSUME NEW u \in Users, StartListen(u) PROVE PeerTypeOK' /\ ManagerTypeOK' /\ OwnTypeOK'
  <2>1. PeerTypeOK'
    BY <1>0, <1>2 DEF StartListen, UserGoto, PeerTypeOK
  <2>2. ManagerTypeOK'
    BY <1>0, <1>2, ManagerTypeKept DEF StartListen
  <2> QED
    BY <1>0, <1>2, <2>1, <2>2 DEF StartListen, Goto, OwnTypeOK, Goroutines, Listeners
<1>3. ASSUME NEW u \in Users, StopListener(u) PROVE PeerTypeOK' /\ ManagerTypeOK' /\ OwnTypeOK'
  <2>1. PeerTypeOK'
    BY <1>0, <1>3 DEF StopListener, Panic, UserGoto, PeerTypeOK
  <2>2. ManagerTypeOK'
    BY <1>0, <1>3, ManagerTypeKept DEF StopListener
  <2> QED
    BY <1>0, <1>3, <2>1, <2>2 DEF StopListener, OwnTypeOK
<1>4. ASSUME NEW u \in Users, CloseAllSession(u) PROVE PeerTypeOK' /\ ManagerTypeOK' /\ OwnTypeOK'
  <2>1. PeerTypeOK'
    BY <1>0, <1>4 DEF CloseAllSession, UserGoto, PeerTypeOK
  <2>2. ManagerTypeOK'
    BY <1>0, <1>4, ManagerTypeKept DEF CloseAllSession
  <2> QED
    BY <1>0, <1>4, <2>1, <2>2 DEF CloseAllSession, OwnTypeOK
<1>5. ASSUME NEW g \in Goroutines, AcceptRun(g) \/ AcceptLeave(g) \/ AcceptEnd(g)
      PROVE  PeerTypeOK' /\ ManagerTypeOK' /\ OwnTypeOK'
  <2>1. PeerTypeOK'
    BY <1>0, <1>5, PeerTypeStep DEF AcceptRun, AcceptLeave, AcceptEnd
  <2>2. ManagerTypeOK'
    BY <1>0, <1>5, ManagerTypeKept DEF AcceptRun, AcceptLeave, AcceptEnd
  <2> QED
    BY <1>0, <1>5, <2>1, <2>2 DEF AcceptRun, AcceptLeave, AcceptEnd, Goto, OwnTypeOK
<1>6. ASSUME NEW g \in Goroutines,
             AcceptCall(g) \/ AcceptReturn(g) \/ AcceptError(g) \/ AcceptCheck(g)
      PROVE  PeerTypeOK' /\ ManagerTypeOK' /\ OwnTypeOK'
  <2>1. UNCHANGED <<peerVars, managerVars>>
    BY <1>6 DEF AcceptCall, AcceptReturn, AcceptError, AcceptCheck
  <2>2. PeerTypeOK' /\ ManagerTypeOK'
    BY <1>0, <2>1, ManagerTypeKept, PeerTypeKept
  <2>3. OwnTypeOK'
    <3>1. CASE AcceptCall(g)
      BY <1>0, <3>1 DEF AcceptCall, Goto, OwnTypeOK
    <3>2. CASE AcceptReturn(g)
      BY <1>0, <3>2 DEF AcceptReturn, Goto, ConnGoto, OwnTypeOK
    <3>3. CASE AcceptError(g)
      BY <1>0, <3>3 DEF AcceptError, Goto, OwnTypeOK
    <3>4. CASE AcceptCheck(g)
      BY <1>0, <3>4 DEF AcceptCheck, Goto, OwnTypeOK
    <3> QED
      BY <1>6, <3>1, <3>2, <3>3, <3>4
  <2> QED
    BY <2>2, <2>3
<1>7. ASSUME NEW k \in Clients,
             onAccepted(k) \/ ClientConnects(k) \/ SessionEnd(k) \/ SessionOnClose(k)
      PROVE  PeerTypeOK' /\ ManagerTypeOK' /\ OwnTypeOK'
  <2>1. UNCHANGED <<peerVars, pc, at, hand, lsn, open, failed>>
    BY <1>7 DEF onAccepted, onAcceptedAdd, onAcceptedHook, onAcceptedRun,
                ClientConnects, SessionEnd, SessionOnClose
  <2>2. PeerTypeOK'
    BY <1>0, <2>1, PeerTypeKept
  <2>3. Add(k) \/ Remove(k) \/ UNCHANGED managerVars
    BY <1>7 DEF onAccepted, onAcceptedAdd, onAcceptedHook, onAcceptedRun,
                ClientConnects, SessionEnd, SessionOnClose
  <2>4. ManagerTypeOK'
    BY <1>0, <2>3, ManagerTypeStep, ManagerTypeKept
  <2>5. OwnTypeOK'
    BY <1>0, <1>7, <2>1 DEF onAccepted, onAcceptedAdd, onAcceptedHook, onAcceptedRun,
                ClientConnects, SessionEnd, SessionOnClose, ConnGoto, OwnTypeOK
  <2> QED
    BY <2>2, <2>4, <2>5
<1>8. CASE UNCHANGED vars
  <2>1. UNCHANGED <<peerVars, managerVars, pc, at, hand, lsn, open, conn, life, OnClose, failed>>
    BY <1>8 DEF vars, ownVars
  <2> QED
    BY <1>0, <2>1, ManagerTypeKept, PeerTypeKept DEF OwnTypeOK
<1> QED
  BY <1>1, <1>2, <1>3, <1>4, <1>5, <1>6, <1>7, <1>8 DEF Next, Call, Accept

-----------------------------------------------------------------------------

(***************************************************************************)
(* The manager holds the sessions that are alive.                          *)
(***************************************************************************)
LEMMA ManagedInit == Init => ManagerInv
<1> SUFFICES ASSUME Init PROVE ManagerInv
  OBVIOUS
<1>1. DOMAIN sesMap = {}
  BY DEF Init, ManagerInit
<1>2. LifeFollowsConn /\ InOneHand
  BY DEF Init, LifeFollowsConn, InOneHand
<1>3. UnderItsID /\ Exact
  BY <1>1 DEF Init, UnderItsID, Exact, Managed
<1> QED
  BY <1>2, <1>3 DEF ManagerInv

\* The steps of the peer, its goroutines and its clients keep sessions in step
\* with their connections.
LEMMA ConnStep ==
    TypeOK /\ LifeFollowsConn /\ InOneHand /\ [Next]_vars => LifeFollowsConn' /\ InOneHand'
<1> SUFFICES ASSUME TypeOK, LifeFollowsConn, InOneHand, [Next]_vars
             PROVE  LifeFollowsConn' /\ InOneHand'
  OBVIOUS
<1>0. /\ hand \in [Goroutines -> SUBSET Clients]
      /\ conn \in [Clients -> {"none", "backlog", "reset", "hand", "dropped",
                               "add", "hook", "run", "done"}]
      /\ life \in [Clients -> {"none", "made", "shut", "live", "closing", "ended", "gone"}]
  BY DEF TypeOK
<1>1. CASE UNCHANGED <<hand, conn, life, OnClose>>
  BY <1>1 DEF LifeFollowsConn, InOneHand
<1>2. ASSUME NEW u \in Users, StopListener(u) PROVE LifeFollowsConn' /\ InOneHand'
  <2>1. /\ UNCHANGED <<hand, life, OnClose>>
        /\ \A k \in Clients : conn'[k] = conn[k] \/ (conn[k] = "backlog" /\ conn'[k] = "reset")
    BY <1>2 DEF StopListener
  <2> QED
    BY <1>0, <2>1 DEF LifeFollowsConn, InOneHand
<1>3. ASSUME NEW u \in Users, CloseAllSession(u) PROVE LifeFollowsConn' /\ InOneHand'
  <2>1. /\ UNCHANGED <<hand, conn, OnClose>>
        /\ \A k \in Clients : \/ life'[k] = life[k]
                              \/ life[k] = "made" /\ life'[k] = "shut"
                              \/ life[k] = "live" /\ life'[k] = "closing"
    BY <1>3 DEF CloseAllSession
  <2> QED
    BY <1>0, <2>1 DEF LifeFollowsConn, InOneHand
<1>4. ASSUME NEW g \in Goroutines, AcceptReturn(g) PROVE LifeFollowsConn' /\ InOneHand'
  <2>1. UNCHANGED <<life, OnClose>>
    BY <1>4 DEF AcceptReturn
  <2>2. ASSUME NEW k \in Clients, conn[k] = "backlog",
               hand' = [hand EXCEPT ![g] = {k}], ConnGoto(k, "hand")
        PROVE  LifeFollowsConn' /\ InOneHand'
    <3>1. \A h \in Goroutines : k \notin hand[h]
      BY <2>2 DEF InOneHand
    <3>2. conn'[k] = "hand" /\ \A j \in Clients : j # k => conn'[j] = conn[j]
      BY <1>0, <2>2 DEF ConnGoto
    <3>3. hand'[g] = {k} /\ \A h \in Goroutines : h # g => hand'[h] = hand[h]
      BY <1>0, <2>2
    <3>4. LifeFollowsConn'
      BY <2>1, <2>2, <3>2 DEF LifeFollowsConn
    <3>5. InOneHand'
      BY <1>0, <3>1, <3>2, <3>3 DEF InOneHand
    <3> QED
      BY <3>4, <3>5
  <2>3. ASSUME hand' = [hand EXCEPT ![g] = {}], UNCHANGED conn
        PROVE  LifeFollowsConn' /\ InOneHand'
    BY <1>0, <2>1, <2>3 DEF LifeFollowsConn, InOneHand
  <2> QED
    BY <1>4, <2>2, <2>3 DEF AcceptReturn
<1>5. ASSUME NEW g \in Goroutines, AcceptError(g) PROVE LifeFollowsConn' /\ InOneHand'
  BY <1>0, <1>5 DEF AcceptError, LifeFollowsConn, InOneHand
<1>6. ASSUME NEW g \in Goroutines, AcceptCheck(g) PROVE LifeFollowsConn' /\ InOneHand'
  <2>1. /\ UNCHANGED <<life, OnClose>>
        /\ \A k \in Clients : IF k \in hand[g] THEN conn'[k] \in {"dropped", "add"}
                                               ELSE conn'[k] = conn[k]
    BY <1>6 DEF AcceptCheck
  <2>2. hand'[g] = {} /\ \A h \in Goroutines : h # g => hand'[h] = hand[h]
    BY <1>0, <1>6 DEF AcceptCheck
  <2>3. LifeFollowsConn'
    BY <2>1 DEF LifeFollowsConn, InOneHand
  <2>4. InOneHand'
    BY <1>0, <2>1, <2>2 DEF InOneHand
  <2> QED
    BY <2>3, <2>4
<1>7. ASSUME NEW k \in Clients, onAccepted(k) \/ ClientConnects(k) \/ SessionEnd(k) \/ SessionOnClose(k)
      PROVE  LifeFollowsConn' /\ InOneHand'
  <2>1. /\ UNCHANGED hand
        /\ \A j \in Clients : j # k => /\ conn'[j] = conn[j] /\ life'[j] = life[j]
                                       /\ j \in OnClose' <=> j \in OnClose
    BY <1>0, <1>7 DEF onAccepted, onAcceptedAdd, onAcceptedHook, onAcceptedRun,
                      ClientConnects, SessionEnd, SessionOnClose, ConnGoto
  <2>2. conn[k] # "hand"
    BY <1>7 DEF onAccepted, onAcceptedAdd, onAcceptedHook, onAcceptedRun,
                ClientConnects, SessionEnd, SessionOnClose, LifeFollowsConn
  <2>3. InOneHand'
    BY <1>0, <2>1, <2>2 DEF InOneHand
  <2>4. /\ conn'[k] \in {"none", "backlog", "reset", "hand", "dropped", "add"} => life'[k] = "none"
        /\ conn'[k] \in {"hook", "run"} => life'[k] \in {"made", "shut"}
        /\ conn'[k] = "done" => life'[k] \in {"live", "closing", "ended", "gone"}
        /\ conn'[k] \in {"run", "done"} => k \in OnClose'
    BY <1>0, <1>7 DEF onAccepted, onAcceptedAdd, onAcceptedHook, onAcceptedRun, ClientConnects,
                      SessionEnd, SessionOnClose, ConnGoto, LifeFollowsConn
  <2> QED
    BY <2>1, <2>3, <2>4 DEF LifeFollowsConn
<1>8. ASSUME NEW u \in Users, User(u) \/ StartListen(u) PROVE UNCHANGED <<hand, conn, life, OnClose>>
  BY <1>8 DEF User, ownVars, StartListen
<1>9. ASSUME NEW g \in Goroutines, AcceptRun(g) \/ AcceptCall(g) \/ AcceptLeave(g) \/ AcceptEnd(g)
      PROVE  UNCHANGED <<hand, conn, life, OnClose>>
  BY <1>9 DEF AcceptRun, AcceptCall, AcceptLeave, AcceptEnd
<1>10. UNCHANGED vars => UNCHANGED <<hand, conn, life, OnClose>>
  BY DEF vars, ownVars
<1> QED
  BY <1>1, <1>2, <1>3, <1>4, <1>5, <1>6, <1>7, <1>8, <1>9, <1>10 DEF Next, Call, Accept

\* Add and Remove keep every session under its id, and Add gives a session an
\* id without taking it from another.
LEMMA ExactStep ==
    TypeOK /\ ManagerInv /\ [Next]_vars => crowded' \/ (UnderItsID' /\ Exact')
<1> SUFFICES ASSUME TypeOK, ManagerInv, [Next]_vars, ~crowded'
             PROVE  UnderItsID' /\ Exact'
  OBVIOUS
<1>0. /\ sesIDAcc \in IDs /\ DOMAIN sesMap \subseteq IDs /\ Managed \subseteq Clients
      /\ id \in [Clients -> IDs]
      /\ life \in [Clients -> {"none", "made", "shut", "live", "closing", "ended", "gone"}]
      /\ LifeFollowsConn
  BY DEF TypeOK, ManagerInv
<1>1. ASSUME ~crowded, UNCHANGED managerVars,
             \A k \in Clients : life'[k] \in {"none", "gone"} <=> life[k] \in {"none", "gone"}
      PROVE  UnderItsID' /\ Exact'
  <2>1. UnderItsID /\ Exact /\ UNCHANGED <<sesMap, id>>
    BY <1>1 DEF ManagerInv, managerVars
  <2> QED
    BY <1>1, <2>1 DEF UnderItsID, Exact, Managed
<1>2. ASSUME NEW k \in Clients, onAcceptedAdd(k) PROVE UnderItsID' /\ Exact'
  <2>1. ~crowded /\ ~(SessionCount >= totalTryCount) /\ UnderItsID /\ Exact
    BY <1>2 DEF onAcceptedAdd, Add, ManagerInv
  <2>2. SessionCount \in Nat /\ totalTryCount \in Nat
    <3>1. IsFiniteSet(IDs)
      BY ManagerAssumption, FS_Interval DEF IDs
    <3> QED
      BY <1>0, <3>1, ManagerAssumption, FS_Subset, FS_CardinalityType DEF SessionCount
  <2>3. FirstFree \notin DOMAIN sesMap
    BY <1>0, <2>1, <2>2, FirstFreeIsFree
  <2>4. k \notin Managed
    BY <1>0, <1>2, <2>1 DEF onAcceptedAdd, LifeFollowsConn, Exact
  <2>5. /\ DOMAIN sesMap' = DOMAIN sesMap \cup {FirstFree} /\ sesMap'[FirstFree] = k
        /\ \A i \in DOMAIN sesMap : sesMap'[i] = sesMap[i] /\ sesMap[i] # k /\ sesMap[i] \in Clients
    BY <1>0, <1>2, <2>3, <2>4 DEF onAcceptedAdd, Add, Managed
  <2>6. id'[k] = FirstFree /\ \A j \in Clients : j # k => id'[j] = id[j]
    BY <1>0, <1>2 DEF onAcceptedAdd, Add
  <2>7. life'[k] = "made" /\ \A j \in Clients : j # k => life'[j] = life[j]
    BY <1>0, <1>2 DEF onAcceptedAdd
  <2>8. UnderItsID'
    BY <2>1, <2>5, <2>6 DEF UnderItsID
  <2>9. Managed' = Managed \cup {k}
    BY <2>5 DEF Managed
  <2> QED
    BY <2>1, <2>7, <2>8, <2>9 DEF Exact
<1>3. ASSUME NEW k \in Clients, SessionOnClose(k) PROVE UnderItsID' /\ Exact'
  <2>1. k \in OnClose /\ life[k] = "ended"
    BY <1>3, <1>0 DEF SessionOnClose, LifeFollowsConn, TypeOK
  <2>2. Remove(k) /\ life' = [life EXCEPT ![k] = "gone"]
    BY <1>3, <2>1 DEF SessionOnClose
  <2>3. UnderItsID /\ Exact
    BY <2>2 DEF Remove, ManagerInv
  <2>4. DOMAIN sesMap' = DOMAIN sesMap \ {id[k]} /\ id' = id
        /\ \A i \in DOMAIN sesMap' : sesMap'[i] = sesMap[i]
    BY <2>2 DEF Remove
  <2>5. UnderItsID'
    BY <2>3, <2>4 DEF UnderItsID
  <2>6. PICK i \in DOMAIN sesMap : sesMap[i] = k
    BY <2>1, <2>3 DEF Exact, Managed
  <2>7. \A j \in DOMAIN sesMap : sesMap[j] = k <=> j = id[k]
    BY <2>3, <2>6 DEF UnderItsID
  <2>8. Managed' = Managed \ {k}
    BY <2>4, <2>7 DEF Managed
  <2>9. life'[k] = "gone" /\ \A j \in Clients : j # k => life'[j] = life[j]
    BY <1>0, <2>2
  <2> QED
    BY <2>3, <2>5, <2>8, <2>9 DEF Exact
<1>4. ASSUME NEW k \in Clients, onAcceptedHook(k) \/ onAcceptedRun(k) \/ ClientConnects(k) \/ SessionEnd(k)
      PROVE  UnderItsID' /\ Exact'
  <2>1. UNCHANGED managerVars /\ ~crowded
    BY <1>4 DEF onAcceptedHook, onAcceptedRun, ClientConnects, SessionEnd, managerVars
  <2>2. \A j \in Clients : j # k => life'[j] = life[j]
    BY <1>0, <1>4 DEF onAcceptedHook, onAcceptedRun, ClientConnects, SessionEnd
  <2>3. life'[k] \in {"none", "gone"} <=> life[k] \in {"none", "gone"}
    BY <1>0, <1>4 DEF onAcceptedHook, onAcceptedRun, ClientConnects, SessionEnd, LifeFollowsConn
  <2> QED
    BY <1>1, <2>1, <2>2, <2>3
<1>5. ASSUME NEW u \in Users, CloseAllSession(u) PROVE UnderItsID' /\ Exact'
  <2>1. UNCHANGED managerVars /\ ~crowded
    BY <1>5 DEF CloseAllSession, managerVars
  <2>2. \A k \in Clients : life'[k] \in {"none", "gone"} <=> life[k] \in {"none", "gone"}
    BY <1>5 DEF CloseAllSession
  <2> QED
    BY <1>1, <2>1, <2>2
<1>6. ASSUME UNCHANGED <<managerVars, life>> PROVE UnderItsID' /\ Exact'
  <2>1. ~crowded
    BY <1>6 DEF managerVars
  <2> QED
    BY <1>1, <1>6, <2>1
<1>7. ASSUME NEW u \in Users, User(u) \/ StartListen(u) \/ StopListener(u) PROVE UNCHANGED <<managerVars, life>>
  BY <1>7 DEF User, ownVars, StartListen, StopListener
<1>8. ASSUME NEW g \in Goroutines, Accept(g) \/ AcceptError(g) PROVE UNCHANGED <<managerVars, life>>
  BY <1>8 DEF Accept, AcceptRun, AcceptCall, AcceptReturn, AcceptError, AcceptCheck, AcceptLeave, AcceptEnd
<1>9. UNCHANGED vars => UNCHANGED <<managerVars, life>>
  BY DEF vars, ownVars
<1> QED
  BY <1>2, <1>3, <1>4, <1>5, <1>6, <1>7, <1>8, <1>9 DEF Next, Call, onAccepted

-----------------------------------------------------------------------------

(***************************************************************************)
(* Stop and the Start after it.                                            *)
(***************************************************************************)
LEMMA StopInit == Init => StopInv
<1> SUFFICES ASSUME Init PROVE StopInv
  OBVIOUS
<1>1. /\ \A g \in Goroutines : pc[g] = "none"
      /\ \A u \in Users : upc[u] = "idle"
      /\ open = {} /\ lsn = 0 /\ stopping = 0 /\ ~running
  BY DEF Init, PeerInit
<1>2. OneActive /\ ClearAtEnd /\ OpenWhileAccepting /\ FieldIsOpen /\ CloseAfterSignal
  BY <1>1 DEF OneActive, ClearAtEnd, OpenWhileAccepting, FieldIsOpen, CloseAfterSignal, Active, Accepting, isStopping
<1>3. RunningIsAccepting /\ LeavesForStop /\ StopGoesOn
  BY <1>1 DEF RunningIsAccepting, LeavesForStop, StopGoesOn, isStopping
<1> QED
  BY <1>2, <1>3 DEF StopInv

\* No step of the user, the goroutine of accept or a client gets accept out of
\* its loop without a Stop, or a Stop out of its wait without the end of accept.
LEMMA StopStep ==
    ASSUME OneUser
    PROVE  TypeOK /\ StopInv /\ [Next]_vars => StopInv'
<1> DEFINE Inv == /\ OneActive /\ RunningIsAccepting /\ LeavesForStop /\ StopGoesOn
                  /\ ClearAtEnd /\ FieldIsOpen /\ OpenWhileAccepting /\ CloseAfterSignal
<1> SUFFICES ASSUME TypeOK, StopInv, [Next]_vars, ~failed' PROVE Inv'
  BY DEF StopInv
<1>0. /\ pc \in [Goroutines -> {"none", "run", "accept", "blocked", "got", "leave", "end",
                                "done", "panic"}]
      /\ at \in [Goroutines -> {0} \cup Listeners]
      /\ hand \in [Goroutines -> SUBSET Clients]
      /\ upc \in [Users -> {"idle", "query", "arm", "close", "closing", "check", "load",
                            "recv", "clear", "go", "panic"}]
      /\ op \in [Users -> {"start", "stop"}]
      /\ running \in BOOLEAN
  BY DEF TypeOK, PeerTypeOK
<1>a. Next \/ UNCHANGED vars => failed = failed' \/ failed'
  BY DEF Next, Call, Accept, onAccepted, User, StartListen, StopListener, CloseAllSession,
         AcceptRun, AcceptCall, AcceptReturn, AcceptError, AcceptCheck, AcceptLeave, AcceptEnd,
         onAcceptedAdd, onAcceptedHook, onAcceptedRun, ClientConnects, SessionEnd, SessionOnClose,
         vars, ownVars
<1>b. Inv
  BY <1>a DEF StopInv
<1>1. ASSUME UNCHANGED <<running, stopping, upc, op, pc, at, hand, lsn, open>> PROVE Inv'
  BY <1>1, <1>b DEF OneActive, RunningIsAccepting, LeavesForStop, StopGoesOn, ClearAtEnd,
     FieldIsOpen, OpenWhileAccepting, CloseAfterSignal, Active, Accepting, isStopping
\* A step of the user that stays on the same side of Stop.
<1>2. ASSUME NEW u \in Users, UNCHANGED <<running, stopping, pc, at, hand, lsn, open>>,
             upc[u] \notin {"close", "panic"},
             upc'[u] \notin {"close", "clear"},
             isStopping => upc'[u] \in {"closing", "check", "load", "recv", "panic"},
             DOMAIN upc' = Users
      PROVE Inv'
  <2>1. \A v \in Users : v = u
    BY DEF OneUser
  <2>2. OneActive' /\ RunningIsAccepting' /\ LeavesForStop' /\ FieldIsOpen'
    BY <1>2, <1>b DEF OneActive, RunningIsAccepting, LeavesForStop, FieldIsOpen, Active, isStopping
  <2>3. StopGoesOn' /\ ClearAtEnd' /\ CloseAfterSignal'
    BY <1>2, <2>1 DEF StopGoesOn, ClearAtEnd, CloseAfterSignal, isStopping
  <2>4. OpenWhileAccepting'
    BY <1>2, <1>b, <2>1 DEF OpenWhileAccepting, Active, Accepting, isStopping
  <2> QED
    BY <2>2, <2>3, <2>4
<1>3. ASSUME NEW u \in Users, StopCall(u) \/ StopQuery(u) \/ StartCall(u), UNCHANGED ownVars PROVE Inv'
  <2>1. ~isStopping
    BY <1>3, <1>b DEF StopCall, StopQuery, StartCall, StopGoesOn
  <2>2. UNCHANGED <<running, stopping, pc, at, hand, lsn, open>> /\ DOMAIN upc' = Users
    BY <1>0, <1>3 DEF StopCall, StopQuery, StartCall, ownVars, UserGoto
  <2>3. upc[u] \notin {"close", "panic"} /\ upc'[u] \notin {"close", "clear"}
    BY <1>0, <1>3 DEF StopCall, StopQuery, StartCall, UserGoto
  <2> QED
    BY <1>2, <2>1, <2>2, <2>3
<1>4. ASSUME NEW u \in Users, startStopping(u), UNCHANGED ownVars PROVE Inv'
  <2>1. \A v \in Users : v = u
    BY DEF OneUser
  <2>2. stopping' = stops + 1 /\ UNCHANGED <<running, op, pc, at, hand, lsn, open>>
        /\ upc[u] = "arm" /\ upc'[u] = "close"
    BY <1>0, <1>4 DEF startStopping, ownVars, UserGoto
  <2>3. isStopping'
    BY <2>2 DEF TypeOK, PeerTypeOK, isStopping
  <2> QED
    BY <1>b, <2>1, <2>2, <2>3 DEF OneActive, RunningIsAccepting, LeavesForStop, StopGoesOn, ClearAtEnd,
       FieldIsOpen, OpenWhileAccepting, CloseAfterSignal, Active, Accepting
<1>5. ASSUME NEW u \in Users, waitStopFinished(u), UNCHANGED ownVars PROVE Inv'
  <2>1. CASE upc[u] # "clear"
    <3>1. UNCHANGED <<running, stopping, pc, at, hand, lsn, open>> /\ DOMAIN upc' = Users
      BY <1>0, <1>5, <2>1 DEF waitStopFinished, ownVars, UserGoto, Waited
    <3>2. upc[u] \notin {"close", "panic"} /\ upc'[u] \notin {"close", "clear"}
      BY <1>0, <1>5, <2>1 DEF waitStopFinished, UserGoto, Waited
    <3>3. isStopping => upc'[u] \in {"load", "recv"}
      BY <1>0, <1>5, <2>1 DEF waitStopFinished, UserGoto
    <3> QED
      BY <1>2, <3>1, <3>2, <3>3
  <2>2. CASE upc[u] = "clear"
    <3>1. stopping' = 0 /\ UNCHANGED <<running, pc, at, hand, lsn, open>>
          /\ upc'[u] \in {"go", "idle"}
      BY <1>0, <1>5, <2>2 DEF waitStopFinished, ownVars, UserGoto, Waited
    <3>2. \A v \in Users : v = u
      BY DEF OneUser
    <3>3. \A g \in Goroutines : pc[g] \in {"none", "done"}
      BY <1>b, <2>2 DEF ClearAtEnd, Active
    <3> QED
      BY <1>b, <2>2, <3>1, <3>2, <3>3
         DEF OneActive, RunningIsAccepting, LeavesForStop, StopGoesOn, ClearAtEnd,
             FieldIsOpen, OpenWhileAccepting, CloseAfterSignal, Active, Accepting, isStopping
  <2> QED
    BY <2>1, <2>2
<1>6. ASSUME NEW u \in Users, StartListen(u) PROVE Inv'
  <2>1. \A v \in Users : v = u
    BY DEF OneUser
  <2>2. /\ upc[u] = "go" /\ upc'[u] = "idle" /\ DOMAIN upc' = Users
        /\ UNCHANGED <<running, stopping, at, hand>>
    BY <1>0, <1>6 DEF StartListen, UserGoto
  <2>3. ~isStopping
    BY <1>b, <2>2 DEF StopGoesOn
  <2>4. CASE running /\ UNCHANGED <<lsn, open, pc>>
    BY <1>2, <2>2, <2>3, <2>4
  <2>5. CASE ~running /\ open # {} /\ lsn' = 0 /\ UNCHANGED <<open, pc>>
    BY <1>b, <2>1, <2>2, <2>3, <2>5
       DEF OneActive, RunningIsAccepting, LeavesForStop, StopGoesOn, ClearAtEnd,
           FieldIsOpen, OpenWhileAccepting, CloseAfterSignal, Active, Accepting, isStopping
  <2>6. ASSUME NEW g \in Goroutines, ~running, open = {}, pc[g] = "none",
               lsn' = g, open' = {g}, Goto(g, "run")
        PROVE  Inv'
    <3>1. \A h \in Goroutines : pc[h] \in {"none", "done"}
      BY <1>0, <1>b, <2>3, <2>6 DEF RunningIsAccepting, LeavesForStop, OpenWhileAccepting, Accepting
    <3>2. pc'[g] = "run" /\ \A h \in Goroutines : h # g => pc'[h] \in {"none", "done"}
      BY <1>0, <2>6, <3>1 DEF Goto
    <3>3. lsn' # 0
      BY <2>6 DEF Goroutines
    <3> QED
      BY <2>1, <2>2, <2>3, <2>6, <3>2, <3>3
         DEF OneActive, RunningIsAccepting, LeavesForStop, StopGoesOn, ClearAtEnd,
             FieldIsOpen, OpenWhileAccepting, CloseAfterSignal, Active, Accepting, isStopping
  <2> QED
    BY <1>6, <2>4, <2>5, <2>6 DEF StartListen
<1>7. ASSUME NEW u \in Users, StopListener(u) PROVE Inv'
  <2>1. \A v \in Users : v = u
    BY DEF OneUser
  <2>2. upc[u] = "close" /\ UNCHANGED <<running, stopping, pc, at, hand, lsn>>
    BY <1>7 DEF StopListener
  <2>3. /\ open' \subseteq open
        /\ \/ upc'[u] = "panic" /\ open' = open
           \/ upc'[u] = "closing" /\ open' = {}
    <3>1. CASE lsn = 0
      BY <1>0, <1>7, <3>1 DEF StopListener, Panic, UserGoto
    <3>2. CASE lsn # 0
      BY <1>0, <1>b, <1>7, <3>2 DEF StopListener, UserGoto, FieldIsOpen
    <3> QED
      BY <3>1, <3>2
  <2>4. \A g \in Goroutines : Accepting(g) => isStopping
    BY <1>b, <2>2 DEF CloseAfterSignal
  <2> QED
    BY <1>b, <2>1, <2>2, <2>3, <2>4
       DEF OneActive, RunningIsAccepting, LeavesForStop, StopGoesOn, ClearAtEnd,
           FieldIsOpen, OpenWhileAccepting, CloseAfterSignal, Active, Accepting, isStopping
<1>8. ASSUME NEW u \in Users, CloseAllSession(u) PROVE Inv'
  <2>1. UNCHANGED <<running, stopping, pc, at, hand, lsn, open>> /\ DOMAIN upc' = Users
    BY <1>0, <1>8 DEF CloseAllSession, UserGoto
  <2>2. upc[u] = "closing" /\ upc'[u] = "check"
    BY <1>0, <1>8 DEF CloseAllSession, UserGoto
  <2> QED
    BY <1>2, <2>1, <2>2
\* A turn of the loop of accept.
<1>9. ASSUME NEW g \in Goroutines, UNCHANGED <<stopping, upc, lsn, open>>,
             Accepting(g), pc'[g] \in {"accept", "blocked", "got", "leave", "panic"},
             \A h \in Goroutines : h # g => pc'[h] = pc[h] /\ at'[h] = at[h] /\ hand'[h] = hand[h],
             running', LeavesForStop', FieldIsOpen'
      PROVE  Inv'
  <2>1. \A h \in Goroutines : Active(h)' <=> Active(h)
    BY <1>9 DEF Active, Accepting
  <2>2. OneActive' /\ ClearAtEnd' /\ RunningIsAccepting'
    BY <1>b, <1>9, <2>1 DEF OneActive, ClearAtEnd, RunningIsAccepting
  <2>3. StopGoesOn' /\ CloseAfterSignal'
    BY <1>b, <1>9 DEF StopGoesOn, CloseAfterSignal, Accepting, isStopping
  <2>4. OpenWhileAccepting'
    BY <1>b, <1>9, <2>1 DEF OpenWhileAccepting, Accepting, isStopping
  <2> QED
    BY <1>9, <2>2, <2>3, <2>4
<1>10. ASSUME NEW g \in Goroutines, AcceptRun(g) PROVE Inv'
  <2>1. /\ UNCHANGED <<stopping, upc, lsn, open, at, hand>> /\ running'
        /\ pc[g] = "run" /\ pc'[g] = "accept"
        /\ \A h \in Goroutines : h # g => pc'[h] = pc[h]
    BY <1>0, <1>10 DEF AcceptRun, SetRunning, Goto
  <2>2. LeavesForStop' /\ FieldIsOpen'
    BY <1>b, <2>1 DEF LeavesForStop, FieldIsOpen, isStopping
  <2> QED
    BY <1>9, <2>1, <2>2 DEF Accepting
<1>11. ASSUME NEW g \in Goroutines, AcceptCall(g) PROVE Inv'
  <2>1. /\ UNCHANGED <<stopping, upc, running, lsn, open, hand>>
        /\ pc[g] = "accept" /\ pc'[g] = IF lsn = 0 THEN "panic" ELSE "blocked"
        /\ at'[g] = lsn
        /\ \A h \in Goroutines : h # g => pc'[h] = pc[h] /\ at'[h] = at[h]
    BY <1>0, <1>11 DEF AcceptCall, Goto, peerVars
  <2>2. LeavesForStop' /\ FieldIsOpen' /\ running
    BY <1>b, <2>1 DEF LeavesForStop, FieldIsOpen, RunningIsAccepting, isStopping
  <2> QED
    BY <1>9, <2>1, <2>2 DEF Accepting
<1>12. ASSUME NEW g \in Goroutines, AcceptReturn(g) PROVE Inv'
  <2>1. /\ UNCHANGED <<stopping, upc, running, lsn, open, at>>
        /\ pc[g] = "blocked" /\ pc'[g] = "got"
        /\ \A h \in Goroutines : h # g => pc'[h] = pc[h] /\ hand'[h] = hand[h]
    BY <1>0, <1>12 DEF AcceptReturn, Goto, peerVars
  <2>2. hand'[g] = {} => at[g] \notin open
    BY <1>0, <1>12 DEF AcceptReturn
  <2>3. isStopping \/ open # {}
    BY <1>b, <2>1 DEF OpenWhileAccepting, Accepting
  <2>4. at[g] = lsn /\ open \subseteq {lsn}
    BY <1>b, <2>1 DEF FieldIsOpen
  <2>5. hand'[g] = {} => isStopping
    BY <2>2, <2>3, <2>4
  <2>6. LeavesForStop' /\ FieldIsOpen' /\ running
    BY <1>b, <2>1, <2>5 DEF LeavesForStop, FieldIsOpen, RunningIsAccepting, isStopping
  <2> QED
    BY <1>9, <2>1, <2>6 DEF Accepting
<1>13. ASSUME NEW g \in Goroutines, AcceptCheck(g) PROVE Inv'
  <2>1. /\ UNCHANGED <<stopping, upc, running, lsn, open, at>>
        /\ pc[g] = "got" /\ pc'[g] \in {"leave", "accept"}
        /\ \A h \in Goroutines : h # g => pc'[h] = pc[h] /\ hand'[h] = hand[h]
    BY <1>0, <1>13 DEF AcceptCheck, Goto, peerVars
  <2>2. pc'[g] = "leave" => isStopping
    BY <1>0, <1>b, <1>13 DEF AcceptCheck, Goto, LeavesForStop
  <2>3. LeavesForStop' /\ FieldIsOpen' /\ running
    BY <1>b, <2>1, <2>2 DEF LeavesForStop, FieldIsOpen, RunningIsAccepting, isStopping
  <2> QED
    BY <1>9, <2>1, <2>3 DEF Accepting
<1>14. ASSUME NEW g \in Goroutines, AcceptLeave(g) PROVE Inv'
  <2>1. /\ UNCHANGED <<stopping, upc, lsn, open, at, hand>> /\ ~running'
        /\ pc[g] = "leave" /\ pc'[g] = "end"
        /\ \A h \in Goroutines : h # g => pc'[h] = pc[h]
    BY <1>0, <1>14 DEF AcceptLeave, SetRunning, Goto
  <2>2. \A h \in Goroutines : Active(h)' <=> Active(h)
    BY <2>1 DEF Active
  <2>3. \A h \in Goroutines : h # g => pc'[h] \in {"none", "done"}
    BY <1>b, <2>1 DEF OneActive, Active
  <2>4. OneActive' /\ ClearAtEnd' /\ RunningIsAccepting' /\ LeavesForStop' /\ FieldIsOpen'
    BY <1>b, <2>1, <2>2, <2>3 DEF OneActive, ClearAtEnd, RunningIsAccepting, LeavesForStop,
                                  FieldIsOpen, isStopping
  <2>5. StopGoesOn' /\ CloseAfterSignal' /\ OpenWhileAccepting'
    BY <1>b, <2>1, <2>2 DEF StopGoesOn, CloseAfterSignal, OpenWhileAccepting, Accepting, isStopping
  <2> QED
    BY <2>4, <2>5
<1>15. ASSUME NEW g \in Goroutines, AcceptEnd(g) PROVE Inv'
  <2>1. /\ UNCHANGED <<running, lsn, open, at, hand>>
        /\ pc[g] = "end" /\ pc'[g] = "done"
        /\ \A h \in Goroutines : h # g => pc'[h] = pc[h]
    BY <1>0, <1>15 DEF AcceptEnd, endStopping, Goto
  <2>2. \A h \in Goroutines : pc'[h] \in {"none", "done"} /\ (h # g => pc[h] \in {"none", "done"})
    BY <1>b, <2>1 DEF OneActive, Active
  <2>3. OneActive' /\ ClearAtEnd' /\ RunningIsAccepting' /\ LeavesForStop' /\ FieldIsOpen'
        /\ CloseAfterSignal'
    BY <1>b, <2>1, <2>2 DEF OneActive, ClearAtEnd, RunningIsAccepting, LeavesForStop,
                            FieldIsOpen, CloseAfterSignal, Active, Accepting
  <2>4. isStopping
    BY <1>b, <2>1 DEF LeavesForStop
  <2>5. open = {} \/ \E u \in Users : upc[u] \in {"close", "panic"}
    BY <1>b, <2>4 DEF OpenWhileAccepting
  <2>6. CASE Receivers = {} /\ stopping' = 0 /\ UNCHANGED upc
    BY <1>b, <2>1, <2>2, <2>3, <2>5, <2>6 DEF StopGoesOn, OpenWhileAccepting, Active, Accepting, isStopping
  <2>7. ASSUME NEW u \in Receivers, UserGoto(u, "clear"), UNCHANGED stopping PROVE Inv'
    <3>1. u \in Users /\ upc[u] = "recv" /\ upc'[u] = "clear"
      BY <1>0, <2>7 DEF Receivers, UserGoto
    <3>2. \A v \in Users : v = u
      BY <3>1 DEF OneUser
    <3>3. open = {}
      BY <2>5, <3>1, <3>2
    <3> QED
      BY <2>1, <2>2, <2>3, <3>1, <3>2, <3>3 DEF StopGoesOn, OpenWhileAccepting, Accepting
  <2> QED
    BY <1>15, <2>6, <2>7 DEF AcceptEnd, endStopping
<1>16. ASSUME NEW g \in Goroutines, AcceptError(g) PROVE FALSE
  BY <1>16 DEF AcceptError
<1>17. ASSUME NEW k \in Clients, onAccepted(k) \/ ClientConnects(k) \/ SessionEnd(k) \/ SessionOnClose(k)
       PROVE  UNCHANGED <<running, stopping, upc, op, pc, at, hand, lsn, open>>
  BY <1>17 DEF onAccepted, onAcceptedAdd, onAcceptedHook, onAcceptedRun, ClientConnects,
               SessionEnd, SessionOnClose, peerVars
<1>18. UNCHANGED vars => UNCHANGED <<running, stopping, upc, op, pc, at, hand, lsn, open>>
  BY DEF vars, ownVars, peerVars
<1> HIDE DEF Inv
<1> QED
  BY <1>1, <1>3, <1>4, <1>5, <1>6, <1>7, <1>8, <1>10, <1>11, <1>12, <1>13, <1>14, <1>15, <1>16,
     <1>17, <1>18 DEF Next, Call, User, Accept

-----------------------------------------------------------------------------

\* The acceptor keeps every variable of its type: among others, Add gives only
\* ids there are, and accept reads only listeners that Start has made.
THEOREM TypeCorrect == Spec => []TypeOK
  BY TypeInit, TypeStep, PTL DEF Spec

\* The manager holds exactly the sessions that have been made and are not over,
\* whatever the ids that wrap around and the sessions that die before or after
\* they run (sesmgr.go:46, acceptor.go:88), unless Add has found as many
\* sessions as it tries ids.
THEOREM ManagerIsExact == Spec => []ManagedWhileAlive
<1>1. Init => ManagerInv
  BY ManagedInit
<1>2. TypeOK /\ ManagerInv /\ [Next]_vars => ManagerInv'
  BY ConnStep, ExactStep DEF ManagerInv
<1>3. ManagerInv => ManagedWhileAlive
  BY DEF ManagerInv, Exact, ManagedWhileAlive
<1> QED
  BY <1>1, <1>2, <1>3, TypeCorrect, PTL DEF Spec

\* If one goroutine makes the calls of Start and Stop, a Start that finds the
\* peer stopped finds its address free and no goroutine of an earlier Start
\* (acceptor.go:34), in the cases RestartFindsAddressFree names.
THEOREM RestartIsClean ==
    ASSUME OneUser
    PROVE  Spec => []RestartFindsAddressFree
<1>1. Init => StopInv
  BY StopInit
<1>2. TypeOK /\ StopInv /\ [Next]_vars => StopInv'
  BY StopStep
<1>3. TypeOK /\ StopInv => RestartFindsAddressFree
  <2> SUFFICES ASSUME TypeOK, StopInv, NEW u \in Users, upc[u] = "go", ~running, ~ComingUp, ~failed
               PROVE  open = {} /\ \A g \in Goroutines : pc[g] \in {"none", "done"}
    BY DEF RestartFindsAddressFree
  <2>1. ~isStopping /\ \A v \in Users : v = u
    BY DEF StopInv, StopGoesOn, OneUser
  <2>2. \A g \in Goroutines : pc[g] \in {"none", "done"}
    BY <2>1 DEF TypeOK, StopInv, RunningIsAccepting, LeavesForStop, ComingUp
  <2> QED
    BY <2>1, <2>2 DEF StopInv, OpenWhileAccepting, Active
<1> QED
  BY <1>1, <1>2, <1>3, TypeCorrect, PTL DEF Spec

=============================================================================
