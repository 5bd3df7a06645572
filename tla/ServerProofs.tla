---------------------------- MODULE ServerProofs ----------------------------
(***************************************************************************)
(* Timers and the events of sessions on the queue of a server, for any     *)
(* Loops, Starters and sessions, any capacity of the queue and any number  *)
(* of Starts and frames.                                                   *)
(***************************************************************************)
EXTENDS Server, SequenceTheorems, FiniteSetTheorems, TLAPS

(***************************************************************************)
(* How many callbacks of a queue are x.                                    *)
(***************************************************************************)

Places(q, x) == {i \in DOMAIN q : q[i] = x}

LEMMA PlacesFinite ==
    ASSUME NEW S, NEW q \in Seq(S), NEW x
    PROVE  IsFiniteSet(Places(q, x)) /\ Cardinality(Places(q, x)) \in Nat
<1>1. DOMAIN q = 1..Len(q) /\ Len(q) \in Nat
  BY LenProperties
<1>2. IsFiniteSet(1..Len(q))
  BY <1>1, FS_Interval
<1>3. Places(q, x) \in SUBSET (1..Len(q))
  BY <1>1 DEF Places
<1> QED
  BY <1>2, <1>3, FS_Subset, FS_CardinalityType

\* Post adds one, if it is x that is posted.
LEMMA PlacesOfPosted ==
    ASSUME NEW S, NEW q \in Seq(S), NEW y \in S, NEW x
    PROVE  Cardinality(Places(Append(q, y), x))
              = Cardinality(Places(q, x)) + (IF y = x THEN 1 ELSE 0)
<1>1. PICK r : r = Append(q, y)
  OBVIOUS
<1>2. /\ r \in Seq(S) /\ Len(r) = Len(q) + 1 /\ r[Len(q) + 1] = y
      /\ \A i \in 1..Len(q) : r[i] = q[i]
  BY <1>1, AppendProperties
<1>3. DOMAIN q = 1..Len(q) /\ DOMAIN r = 1..Len(r) /\ Len(q) \in Nat
  BY <1>2, LenProperties
<1>4. \A i : i \in DOMAIN r <=> i \in DOMAIN q \/ i = Len(q) + 1
  BY <1>2, <1>3
<1>5. Len(q) + 1 \notin Places(q, x)
  BY <1>3 DEF Places
<1>6. IsFiniteSet(Places(q, x)) /\ Cardinality(Places(q, x)) \in Nat
  BY PlacesFinite
<1>7. CASE y = x
  <2>1. Places(r, x) = Places(q, x) \cup {Len(q) + 1}
    BY <1>2, <1>3, <1>4, <1>7 DEF Places
  <2>2. Cardinality(Places(q, x) \cup {Len(q) + 1}) = Cardinality(Places(q, x)) + 1
    BY <1>5, <1>6, FS_AddElement
  <2> QED
    BY <1>1, <1>7, <2>1, <2>2
<1>8. CASE y # x
  <2>1. Places(r, x) = Places(q, x)
    BY <1>2, <1>3, <1>4, <1>8 DEF Places
  <2> QED
    BY <1>1, <1>6, <1>8, <2>1
<1> QED
  BY <1>7, <1>8

\* The loop takes one away, if it is x that comes first.
LEMMA PlacesOfTaken ==
    ASSUME NEW S, NEW q \in Seq(S), q # <<>>, NEW x
    PROVE  Cardinality(Places(Tail(q), x)) + (IF Head(q) = x THEN 1 ELSE 0)
              = Cardinality(Places(q, x))
<1>1. PICK t : t = Tail(q)
  OBVIOUS
<1>2. /\ t \in Seq(S) /\ Len(t) = Len(q) - 1 /\ Head(q) = q[1] /\ Len(q) \in Nat \ {0}
      /\ \A i \in 1..Len(t) : t[i] = q[i + 1]
  BY <1>1, HeadTailProperties
<1>3. DOMAIN q = 1..Len(q) /\ DOMAIN t = 1..Len(t)
  BY <1>2, LenProperties
<1> DEFINE P == Places(t, x)
           Q == Places(q, x) \ {1}
           shift == [i \in P |-> i + 1]
<1>4. shift \in Bijection(P, Q)
  <2>1. ASSUME NEW i \in P PROVE i \in Int /\ i + 1 \in Q
    BY <1>2, <1>3 DEF Places
  <2>2. ASSUME NEW j \in Q PROVE j - 1 \in P /\ (j - 1) + 1 = j
    <3>1. j \in 1..Len(q) /\ j # 1 /\ q[j] = x
      BY <1>3 DEF Places
    <3>2. j - 1 \in 1..Len(t) /\ (j - 1) + 1 = j
      BY <1>2, <3>1
    <3> QED
      BY <1>2, <1>3, <3>1, <3>2 DEF Places
  <2>3. shift \in [P -> Q]
    BY <2>1
  <2>4. \A i, j \in P : shift[i] = shift[j] => i = j
    BY <2>1
  <2>5. \A j \in Q : \E i \in P : shift[i] = j
    BY <2>2
  <2> QED
    BY <2>3, <2>4, <2>5 DEF Bijection, Injection, Surjection, IsInjective
<1>5. IsFiniteSet(P) /\ IsFiniteSet(Places(q, x)) /\ Cardinality(Places(q, x)) \in Nat
  BY <1>2, PlacesFinite
<1>6. IsFiniteSet(Q) /\ Cardinality(Q) = Cardinality(P)
  <2>1. ExistsBijection(P, Q)
    BY <1>4 DEF ExistsBijection
  <2> HIDE DEF P, Q, shift
  <2> QED
    BY <1>5, <2>1, FS_Bijection
<1>7. Cardinality(Q) = IF 1 \in Places(q, x) THEN Cardinality(Places(q, x)) - 1
                                             ELSE Cardinality(Places(q, x))
  BY <1>5, FS_RemoveElement
<1>8. 1 \in Places(q, x) <=> Head(q) = x
  BY <1>2, <1>3 DEF Places
<1> QED
  BY <1>1, <1>5, <1>6, <1>7, <1>8

-----------------------------------------------------------------------------

(***************************************************************************)
(* One tick per Duration.                                                  *)
(***************************************************************************)

\* What there may be in the queue.
Callbacks == [kind : {"tick"}, of : Loops, nextLoop : BOOLEAN]
                \cup [kind : {"event"}, of : Sessions, what : Facts]

ServerTypes ==
    /\ queue \in Seq(Callbacks)
    /\ after \in [Loops -> Nat]
    /\ spare \in [Loops -> Nat]
    /\ hold \in [Sessions -> Facts]
    /\ nread \in [Sessions -> Nat]

TickInv == ServerTypes /\ NoSpareTicks

InQueue(l) == Cardinality(Places(queue, Tick(l, FALSE)))
InHand(l) == IF cur = Tick(l, FALSE) THEN 1 ELSE 0

LEMMA ChainsAre ==
    ASSUME ServerTypes, NEW l \in Loops
    PROVE  /\ Chains(l) = after[l] + InQueue(l) + InHand(l)
           /\ after[l] \in Nat /\ InQueue(l) \in Nat /\ InHand(l) \in 0..1
           /\ spare[l] \in Nat
<1>1. InQueue(l) \in Nat
  BY PlacesFinite DEF InQueue, ServerTypes
<1>2. Chains(l) = after[l] + InQueue(l) + InHand(l)
  BY DEF Chains, InQueue, InHand, Places
<1> QED
  BY <1>1, <1>2 DEF ServerTypes, InHand

LEMMA ChainsWillBe ==
    ASSUME ServerTypes', NEW l \in Loops
    PROVE  /\ Chains(l)' = after'[l] + InQueue(l)' + InHand(l)'
           /\ after'[l] \in Nat /\ InQueue(l)' \in Nat /\ InHand(l)' \in 0..1
           /\ spare'[l] \in Nat
<1>1. Cardinality(Places(queue', Tick(l, FALSE))) \in Nat
  BY PlacesFinite DEF ServerTypes
<1>2. InQueue(l)' \in Nat
  BY <1>1 DEF InQueue
<1>3. Chains(l)' = after'[l] + InQueue(l)' + InHand(l)'
  BY DEF Chains, InQueue, InHand, Places
<1> QED
  BY <1>2, <1>3 DEF ServerTypes, InHand

\* A tick that NextLoop asked for, a tick of another Loop and an event are not
\* ticks that set an After.
LEMMA OtherCallbacks ==
    ASSUME NEW l, NEW m, NEW s, NEW what
    PROVE  /\ Tick(m, TRUE) # Tick(l, FALSE)
           /\ Event(s, what) # Tick(l, FALSE)
           /\ m # l => Tick(m, FALSE) # Tick(l, FALSE)
<1>1. /\ Tick(m, TRUE).nextLoop = TRUE /\ Tick(l, FALSE).nextLoop = FALSE
      /\ Tick(m, FALSE).of = m /\ Tick(l, FALSE).of = l
      /\ Event(s, what).kind = "event" /\ Tick(l, FALSE).kind = "tick"
  BY DEF Tick, Event
<1> QED
  BY <1>1, Zenon

\* Steps that change neither the ticks nor the Starts.
LEMMA TicksAlone ==
    ASSUME TickInv, UNCHANGED <<queue, cur, after, spare>>,
           hold' \in [Sessions -> Facts], nread' \in [Sessions -> Nat]
    PROVE  TickInv'
BY DEF TickInv, ServerTypes, NoSpareTicks, Chains

\* Steps that post a callback that sets no After.
LEMMA TicksPosted ==
    ASSUME TickInv, NEW y \in Callbacks, Post(y), \A l \in Loops : y # Tick(l, FALSE),
           UNCHANGED <<cur, after, spare, hold, nread>>
    PROVE  TickInv'
<1>1. queue \in Seq(Callbacks) /\ queue' = Append(queue, y) /\ queue' \in Seq(Callbacks)
  BY AppendProperties DEF TickInv, ServerTypes, Post
<1>2. ServerTypes'
  BY <1>1 DEF TickInv, ServerTypes
<1>3. ASSUME NEW l \in Loops PROVE Chains(l)' <= 1 + spare'[l]
  <2>1. InQueue(l)' = InQueue(l) + (IF y = Tick(l, FALSE) THEN 1 ELSE 0)
    <3>1. Cardinality(Places(Append(queue, y), Tick(l, FALSE)))
             = Cardinality(Places(queue, Tick(l, FALSE))) + (IF y = Tick(l, FALSE) THEN 1 ELSE 0)
      BY <1>1, PlacesOfPosted
    <3> QED
      BY <1>1, <3>1 DEF InQueue
  <2>2. /\ Chains(l) = after[l] + InQueue(l) + InHand(l)
        /\ after[l] \in Nat /\ InQueue(l) \in Nat /\ InHand(l) \in 0..1
    BY ChainsAre DEF TickInv
  <2>3. Chains(l)' = after'[l] + InQueue(l)' + InHand(l)'
    BY <1>2, ChainsWillBe
  <2>4. InHand(l)' = InHand(l)
    BY DEF InHand
  <2>5. InQueue(l)' = InQueue(l)
    <3>1. y # Tick(l, FALSE)
      OBVIOUS
    <3>2. InQueue(l)' = InQueue(l) + 0
      BY <2>1, <3>1
    <3> QED
      BY <2>2, <3>2
  <2>6. Chains(l)' = Chains(l)
    BY <2>2, <2>3, <2>4, <2>5
  <2> QED
    BY <2>6 DEF TickInv, NoSpareTicks
<1> QED
  BY <1>2, <1>3 DEF TickInv, NoSpareTicks

\* The loop takes the next callback in hand.
LEMMA TicksCalled ==
    ASSUME TickInv, LoopCall, UNCHANGED <<after, spare, hold, nread>>
    PROVE  TickInv'
<1>1. /\ queue \in Seq(Callbacks) /\ queue # <<>> /\ queue' = Tail(queue)
      /\ cur' = Head(queue) /\ queue' \in Seq(Callbacks)
  BY HeadTailProperties DEF TickInv, ServerTypes, LoopCall
<1>2. ServerTypes'
  BY <1>1 DEF TickInv, ServerTypes
<1>3. ASSUME NEW l \in Loops PROVE Chains(l)' <= 1 + spare'[l]
  <2>1. InQueue(l)' + (IF Head(queue) = Tick(l, FALSE) THEN 1 ELSE 0) = InQueue(l)
    <3>1. Cardinality(Places(Tail(queue), Tick(l, FALSE)))
             + (IF Head(queue) = Tick(l, FALSE) THEN 1 ELSE 0)
             = Cardinality(Places(queue, Tick(l, FALSE)))
      BY <1>1, PlacesOfTaken
    <3> QED
      BY <1>1, <3>1 DEF InQueue
  <2>2. /\ Chains(l) = after[l] + InQueue(l) + InHand(l)
        /\ after[l] \in Nat /\ InQueue(l) \in Nat /\ InHand(l) \in 0..1
        /\ spare[l] \in Nat
    BY ChainsAre DEF TickInv
  <2>3. Chains(l)' = after'[l] + InQueue(l)' + InHand(l)' /\ InQueue(l)' \in Nat
    BY <1>2, ChainsWillBe
  <2>4. InHand(l)' = IF Head(queue) = Tick(l, FALSE) THEN 1 ELSE 0
    BY <1>1 DEF InHand
  <2>5. InQueue(l)' + InHand(l)' = InQueue(l) /\ InHand(l)' \in 0..1
    <3>1. CASE Head(queue) = Tick(l, FALSE)
      <4>1. InHand(l)' = 1 /\ InQueue(l)' + 1 = InQueue(l)
        BY <2>1, <2>4, <3>1
      <4> QED
        BY <4>1
    <3>2. CASE Head(queue) # Tick(l, FALSE)
      <4>1. InHand(l)' = 0 /\ InQueue(l)' + 0 = InQueue(l)
        BY <2>1, <2>4, <3>2
      <4> QED
        BY <4>1
    <3> QED
      BY <3>1, <3>2
  <2>6. Chains(l)' <= Chains(l)
    BY <2>2, <2>3, <2>5
  <2>7. Chains(l) <= 1 + spare[l] /\ Chains(l) \in Nat /\ Chains(l)' \in Nat
    BY <2>2, <2>3, <2>5 DEF TickInv, NoSpareTicks
  <2> QED
    BY <2>2, <2>6, <2>7
<1> QED
  BY <1>2, <1>3 DEF TickInv, NoSpareTicks

\* An After posts its tick.
LEMMA TicksFired ==
    ASSUME TickInv, NEW m \in Loops, AfterPost(m), UNCHANGED <<hold, nread>>
    PROVE  TickInv'
<1>1. Tick(m, FALSE) \in Callbacks
  BY DEF Callbacks, Tick
<1>2. /\ queue \in Seq(Callbacks) /\ queue' = Append(queue, Tick(m, FALSE))
      /\ queue' \in Seq(Callbacks)
  BY <1>1, AppendProperties DEF TickInv, ServerTypes, AfterPost, Post
<1>3. after \in [Loops -> Nat] /\ after[m] > 0 /\ after' = [after EXCEPT ![m] = @ - 1]
  BY DEF TickInv, ServerTypes, AfterPost
<1>4. after' \in [Loops -> Nat]
  BY <1>3
<1>5. ServerTypes' /\ UNCHANGED <<cur, spare>>
  BY <1>2, <1>4 DEF TickInv, ServerTypes, AfterPost
<1>6. ASSUME NEW l \in Loops PROVE Chains(l)' <= 1 + spare'[l]
  <2>1. InQueue(l)' = InQueue(l) + (IF Tick(m, FALSE) = Tick(l, FALSE) THEN 1 ELSE 0)
    BY <1>1, <1>2, PlacesOfPosted DEF InQueue
  <2>2. m # l => Tick(m, FALSE) # Tick(l, FALSE)
    BY OtherCallbacks
  <2>3. /\ Chains(l) = after[l] + InQueue(l) + InHand(l)
        /\ after[l] \in Nat /\ InQueue(l) \in Nat /\ InHand(l) \in 0..1
    BY ChainsAre DEF TickInv
  <2>4. Chains(l)' = after'[l] + InQueue(l)' + InHand(l)' /\ InQueue(l)' \in Nat
    BY <1>5, ChainsWillBe
  <2>5. InHand(l)' = InHand(l)
    BY <1>5 DEF InHand
  <2>6. after'[l] + InQueue(l)' = after[l] + InQueue(l)
    <3>1. CASE l = m
      <4>1. InQueue(l)' = InQueue(l) + 1 /\ after'[l] = after[l] - 1
        BY <1>3, <2>1, <3>1
      <4> QED
        BY <2>3, <4>1
    <3>2. CASE l # m
      <4>1. InQueue(l)' = InQueue(l) + 0 /\ after'[l] = after[l]
        BY <1>3, <2>1, <2>2, <3>2
      <4> QED
        BY <2>3, <4>1
    <3> QED
      BY <3>1, <3>2
  <2>7. Chains(l)' = Chains(l)
    BY <2>3, <2>4, <2>5, <2>6
  <2> QED
    BY <1>5, <2>7 DEF TickInv, NoSpareTicks
<1> QED
  BY <1>5, <1>6 DEF TickInv, NoSpareTicks

\* A tick is over: it sets an After, unless NextLoop asked for it.
LEMMA TicksEnded ==
    ASSUME TickInv, NEW m \in Loops, TickEnd(m), UNCHANGED <<hold, nread>>
    PROVE  TickInv'
<1>1. after \in [Loops -> Nat] /\ UNCHANGED <<queue, spare>> /\ cur' = NoCallback
  BY DEF TickInv, ServerTypes, TickEnd, LoopReturn
<1>2. \/ cur = Tick(m, FALSE) /\ (after' = after \/ after' = [after EXCEPT ![m] = @ + 1])
      \/ cur = Tick(m, TRUE) /\ after' = after
  <2>1. Tick(m, TRUE).nextLoop = TRUE
    BY DEF Tick
  <2> QED
    BY <2>1 DEF TickEnd, rawPost
<1>3. after' \in [Loops -> Nat]
  <2>1. after' = after \/ after' = [after EXCEPT ![m] = @ + 1]
    BY <1>2, Zenon
  <2> QED
    BY <1>1, <2>1
<1>4. ServerTypes'
  BY <1>1, <1>3 DEF TickInv, ServerTypes
<1>5. ASSUME NEW l \in Loops PROVE Chains(l)' <= 1 + spare'[l]
  <2>1. /\ Chains(l) = after[l] + InQueue(l) + InHand(l)
        /\ after[l] \in Nat /\ InQueue(l) \in Nat /\ InHand(l) \in 0..1
        /\ spare[l] \in Nat
    BY ChainsAre DEF TickInv
  <2>2. Chains(l)' = after'[l] + InQueue(l)' + InHand(l)' /\ after'[l] \in Nat
    BY <1>4, ChainsWillBe
  <2>3. InQueue(l)' = InQueue(l)
    BY <1>1 DEF InQueue
  <2>4. InHand(l)' = 0
    BY <1>1, TickAssumption DEF InHand
  <2>5. after'[l] <= after[l] + InHand(l)
    <3>1. CASE after' = after
      BY <2>1, <3>1
    <3>2. CASE cur = Tick(m, FALSE) /\ after' = [after EXCEPT ![m] = @ + 1]
      <4>1. CASE l = m
        <5>1. InHand(l) = 1 /\ after'[l] = after[l] + 1
          BY <1>1, <3>2, <4>1 DEF InHand
        <5> QED
          BY <2>1, <5>1
      <4>2. CASE l # m
        <5>1. after'[l] = after[l]
          BY <1>1, <3>2, <4>2
        <5> QED
          BY <2>1, <5>1
      <4> QED
        BY <4>1, <4>2
    <3> QED
      BY <1>2, <3>1, <3>2
  <2>6. Chains(l) <= 1 + spare[l]
    BY DEF TickInv, NoSpareTicks
  <2> QED
    BY <1>1, <2>1, <2>2, <2>3, <2>4, <2>5, <2>6
<1> QED
  BY <1>4, <1>5 DEF TickInv, NoSpareTicks

\* The callback of an event is over.
LEMMA EventEnded ==
    ASSUME TickInv, EventEnd, UNCHANGED timerVars
    PROVE  TickInv'
<1>1. UNCHANGED <<queue, after, spare, hold, nread>> /\ cur' = NoCallback
  BY DEF EventEnd, LoopReturn, timerVars, recvVars
<1>2. ServerTypes'
  BY <1>1 DEF TickInv, ServerTypes
<1>3. ASSUME NEW l \in Loops PROVE Chains(l)' <= 1 + spare'[l]
  <2>1. /\ Chains(l) = after[l] + InQueue(l) + InHand(l)
        /\ after[l] \in Nat /\ InQueue(l) \in Nat /\ InHand(l) \in 0..1
        /\ spare[l] \in Nat
    BY ChainsAre DEF TickInv
  <2>2. Chains(l)' = after'[l] + InQueue(l)' + InHand(l)'
    BY <1>2, ChainsWillBe
  <2>3. InQueue(l)' = InQueue(l)
    BY <1>1 DEF InQueue
  <2>4. InHand(l)' = 0
    BY <1>1, TickAssumption DEF InHand
  <2>5. Chains(l) <= 1 + spare[l]
    BY DEF TickInv, NoSpareTicks
  <2> QED
    BY <1>1, <2>1, <2>2, <2>3, <2>4, <2>5
<1> QED
  BY <1>2, <1>3 DEF TickInv, NoSpareTicks

\* Start sets an After, and finds a tick of an earlier Start or none.
LEMMA TicksStarted ==
    ASSUME TickInv, NEW u \in Starters, NEW m \in Loops, StartPost(u, m),
           UNCHANGED <<hold, nread>>
    PROVE  TickInv'
<1>1. /\ after \in [Loops -> Nat] /\ spare \in [Loops -> Nat]
      /\ UNCHANGED <<queue, cur>>
      /\ after' = [after EXCEPT ![m] = @ + 1]
      /\ spare' = [spare EXCEPT ![m] = @ + (IF Chains(m) > 0 THEN 1 ELSE 0)]
  BY DEF TickInv, ServerTypes, StartPost, rawPost, queueVars
<1>2. after' \in [Loops -> Nat] /\ spare' \in [Loops -> Nat]
  BY <1>1
<1>3. ServerTypes'
  BY <1>1, <1>2 DEF TickInv, ServerTypes
<1>4. ASSUME NEW l \in Loops PROVE Chains(l)' <= 1 + spare'[l]
  <2>1. /\ Chains(l) = after[l] + InQueue(l) + InHand(l)
        /\ after[l] \in Nat /\ InQueue(l) \in Nat /\ InHand(l) \in 0..1
        /\ spare[l] \in Nat
    BY ChainsAre DEF TickInv
  <2>2. Chains(l)' = after'[l] + InQueue(l)' + InHand(l)'
    BY <1>3, ChainsWillBe
  <2>3. InQueue(l)' = InQueue(l) /\ InHand(l)' = InHand(l)
    BY <1>1 DEF InQueue, InHand
  <2>4. Chains(l) <= 1 + spare[l]
    BY DEF TickInv, NoSpareTicks
  <2>5. CASE l # m
    <3>1. after'[l] = after[l] /\ spare'[l] = spare[l]
      BY <1>1, <2>5
    <3> QED
      BY <2>1, <2>2, <2>3, <2>4, <3>1
  <2>6. CASE l = m
    <3>1. after'[l] = after[l] + 1
      BY <1>1, <2>6
    <3>2. Chains(l)' = Chains(l) + 1 /\ Chains(l) \in Nat
      BY <2>1, <2>2, <2>3, <3>1
    <3>3. CASE Chains(l) > 0
      <4>1. spare'[l] = spare[l] + 1
        BY <1>1, <2>6, <3>3
      <4> QED
        BY <2>1, <2>4, <3>2, <4>1
    <3>4. CASE Chains(l) = 0
      <4>1. spare'[l] = spare[l] + 0
        BY <1>1, <2>6, <3>4
      <4> QED
        BY <2>1, <3>2, <3>4, <4>1
    <3> QED
      BY <3>2, <3>3, <3>4
  <2> QED
    BY <2>5, <2>6
<1> QED
  BY <1>3, <1>4 DEF TickInv, NoSpareTicks

LEMMA TickInit == Init => TickInv
<1> SUFFICES ASSUME Init PROVE TickInv
  OBVIOUS
<1>1. /\ queue = <<>> /\ cur = NoCallback
      /\ after = [l \in Loops |-> 0] /\ spare = [l \in Loops |-> 0]
      /\ hold = [s \in Sessions |-> <<"none", 0>>] /\ nread = [s \in Sessions |-> 0]
  BY DEF Init, QueueInit, TimerInit, WebSocketInit
<1>2. <<"none", 0>> \in Facts
  BY DEF Facts
<1>3. ServerTypes
  BY <1>1, <1>2 DEF ServerTypes
<1>4. ASSUME NEW l \in Loops PROVE Chains(l) <= 1 + spare[l]
  <2>1. Places(queue, Tick(l, FALSE)) = {}
    BY <1>1 DEF Places
  <2>2. InQueue(l) = 0
    BY <2>1, FS_EmptySet DEF InQueue
  <2>3. InHand(l) = 0
    BY <1>1, TickAssumption DEF InHand
  <2>4. Chains(l) = after[l] + InQueue(l) + InHand(l)
    BY <1>3, ChainsAre
  <2> QED
    BY <1>1, <2>2, <2>3, <2>4
<1> QED
  BY <1>3, <1>4 DEF TickInv, NoSpareTicks

\* The steps of the peers that post an event.
LEMMA EventPosted ==
    ASSUME TickInv, NEW s \in Sessions, NEW what \in Facts, Post(Event(s, what)),
           UNCHANGED <<cur, after, spare, hold, nread>>
    PROVE  TickInv'
<1>1. Event(s, what) \in Callbacks
  BY DEF Event, Callbacks
<1>2. \A l \in Loops : Event(s, what) # Tick(l, FALSE)
  BY OtherCallbacks
<1> QED
  BY <1>1, <1>2, TicksPosted

LEMMA TickStep == TickInv /\ [Next]_vars => TickInv'
<1> SUFFICES ASSUME TickInv, [Next]_vars PROVE TickInv'
  OBVIOUS
<1>0. hold \in [Sessions -> Facts] /\ nread \in [Sessions -> Nat]
  BY DEF TickInv, ServerTypes
<1>1. ASSUME UNCHANGED <<queue, cur, after, spare, hold, nread>> PROVE TickInv'
  BY <1>0, <1>1, TicksAlone
<1> USE DEF queueVars, timerVars, wsVars, recvVars
<1>2. CASE Main \/ Quits
  BY <1>1, <1>2 DEF Main, Quits, StartLoop, StopLoop, CallbackStopsLoop
<1>3. CASE LoopStep
  <2>1. CASE LoopCall /\ UNCHANGED <<timerVars, wsVars>>
    BY <2>1, TicksCalled
  <2>2. CASE CallbackDone /\ UNCHANGED <<timerVars, wsVars>>
    BY <1>1, <2>2 DEF CallbackDone
  <2>3. ASSUME NEW l \in Loops, TickCallback(l), UNCHANGED wsVars PROVE TickInv'
    <3>1. CASE TickStops(l) \/ TickNextLoop(l)
      BY <1>1, <2>3, <3>1 DEF TickStops, TickNextLoop
    <3>2. CASE NextLoop(l)
      <4>1. Tick(l, TRUE) \in Callbacks
        BY DEF Tick, Callbacks
      <4>2. \A m \in Loops : Tick(l, TRUE) # Tick(m, FALSE)
        BY OtherCallbacks
      <4> QED
        BY <2>3, <3>2, <4>1, <4>2, TicksPosted DEF NextLoop
    <3>3. CASE TickEnd(l)
      BY <2>3, <3>3, TicksEnded
    <3> QED
      BY <2>3, <3>1, <3>2, <3>3 DEF TickCallback
  <2>4. CASE EventEnd /\ UNCHANGED timerVars
    BY <2>4, EventEnded
  <2> QED
    BY <1>3, <2>1, <2>2, <2>3, <2>4 DEF LoopStep
<1>4. CASE PeerStart \/ Remote
  BY <1>1, <1>4 DEF PeerStart, Remote, AcceptorStart, Upgrade, ConnectorStart, RemoteSends
<1>5. ASSUME NEW l \in Loops, TimerFires(l) PROVE TickInv'
  BY <1>5, TicksFired DEF TimerFires
<1>6. ASSUME NEW l \in Loops, NEW u \in Starters, StartRest(u, l) \/ TimerUser(u, l)
      PROVE  TickInv'
  <2>1. CASE StartPost(u, l) /\ UNCHANGED wsVars
    BY <2>1, TicksStarted
  <2>2. CASE (StartSet(u, l) \/ StartTest(u, l) \/ UserStop(l)) /\ UNCHANGED wsVars
    BY <1>1, <2>2 DEF StartSet, StartTest, UserStop
  <2> QED
    BY <1>6, <2>1, <2>2 DEF StartRest, TimerUser
<1>7. ASSUME NEW s \in Sessions, MakeSession(s) PROVE TickInv'
  <2>1. CASE ConnectFails(s)
    <3>1. <<"ConnectFailed", 0>> \in Facts
      BY DEF Facts
    <3> QED
      BY <1>7, <2>1, <3>1, EventPosted DEF ConnectFails, MakeSession
  <2>2. CASE Greet(s)
    <3>1. Greeting \in Facts
      BY DEF Greeting, Facts
    <3> QED
      BY <1>7, <2>2, <3>1, EventPosted DEF Greet, MakeSession
  <2>3. CASE connectRun(s) \/ Dial(s) \/ SessionAdd(s) \/ run(s)
    BY <1>1, <1>7, <2>3 DEF connectRun, Dial, SessionAdd, run, MakeSession
  <2> QED
    BY <1>7, <2>1, <2>2, <2>3 DEF MakeSession
<1>8. ASSUME NEW s \in Sessions, recvThread(s) PROVE TickInv'
  <2>1. CASE RecvRead(s)
    <3>1. UNCHANGED <<queue, cur, after, spare>>
      BY <1>8, <2>1 DEF RecvRead, recvThread
    <3>2. nread' \in [Sessions -> Nat]
      BY <1>0, <2>1 DEF RecvRead
    <3>3. ReadPacket(frames[s][nread'[s]], nread'[s]) \in Facts
      BY <3>2 DEF ReadPacket, Facts
    <3>4. hold' \in [Sessions -> Facts]
      BY <1>0, <2>1, <3>3 DEF RecvRead
    <3> QED
      BY <3>1, <3>2, <3>4, TicksAlone
  <2>2. CASE RecvPost(s)
    <3>1. hold[s] \in Facts
      BY <1>0
    <3> QED
      BY <1>8, <2>2, <3>1, EventPosted DEF RecvPost, recvThread
  <2> QED
    BY <1>8, <2>1, <2>2 DEF recvThread
<1>9. CASE UNCHANGED vars
  BY <1>1, <1>9 DEF vars
<1> QED
  BY <1>2, <1>3, <1>4, <1>5, <1>6, <1>7, <1>8, <1>9 DEF Next

\* A Loop has one tick per Duration, and one more for each Start that came
\* while a tick of an earlier Start was still due (timer/loop.go:24, 68-79),
\* whatever else posts to the queue and however long it keeps the loop.
THEOREM OneTickPerStart == Spec => []NoSpareTicks
<1>1. TickInv => NoSpareTicks
  BY DEF TickInv
<1> QED
  BY <1>1, TickInit, TickStep, PTL DEF Spec

-----------------------------------------------------------------------------

(***************************************************************************)
(* The events of a session, in line: the ones the queue has run (h), the   *)
(* callback in hand (c), at place 1, and the ones that wait in the queue   *)
(* (q), at the places from 2 on.                                           *)
(***************************************************************************)

Line(h, q) == (1 - Len(h))..(Len(q) + 1)

At(h, c, q, s, p) ==
    IF p <= 0 THEN Event(s, h[p + Len(h)]) ELSE IF p = 1 THEN c ELSE q[p - 1]

EventsOf(s) == [kind : {"event"}, of : {s}, what : Facts]

\* What the line says of s, and where.
Said(h, c, q, s) ==
    [p \in {r \in Line(h, q) : At(h, c, q, s, r) \in EventsOf(s)} |-> At(h, c, q, s, p).what]

Numbered(what) == what[1] \in {"Recv", "Closed"}

\* The line holds what came of the first n frames, in their order and with no
\* gap, one greeting if there is one, or else a ConnectFailed alone.
InOrder(W, n, frs, w) ==
    /\ \A p \in DOMAIN W : W[p] \in Facts /\ W[p][1] # "none"
    /\ \A p \in DOMAIN W : Numbered(W[p]) => /\ W[p][2] \in 1..n
                                             /\ W[p] = ReadPacket(frs[W[p][2]], W[p][2])
    /\ \A m \in 1..n : \E p \in DOMAIN W : Numbered(W[p]) /\ W[p][2] = m
    /\ \A p, r \in DOMAIN W : Numbered(W[p]) /\ Numbered(W[r]) /\ p < r => W[p][2] < W[r][2]
    /\ \A p, r \in DOMAIN W : IsGreeting(W[p]) /\ IsGreeting(W[r]) => p = r
    /\ \A p \in DOMAIN W : IsGreeting(W[p]) => w \in {"wait", "over"}
    /\ \A p \in DOMAIN W : W[p][1] = "ConnectFailed" =>
            w = "failed" /\ DOMAIN W = {p} /\ W[p] = <<"ConnectFailed", 0>>

\* The same is said at other places, in the same order.
SameOrder(V, W, f) ==
    /\ DOMAIN V \subseteq Int /\ DOMAIN W \subseteq Int
    /\ \A p \in DOMAIN V : f[p] \in DOMAIN W /\ V[p] = W[f[p]]
    /\ \A p, r \in DOMAIN V : p < r => f[p] < f[r]
    /\ \A r \in DOMAIN W : \E p \in DOMAIN V : f[p] = r

LEMMA OrderMoved ==
    ASSUME NEW V, NEW W, NEW f, SameOrder(V, W, f),
           NEW n, NEW frs, NEW w, InOrder(W, n, frs, w)
    PROVE  InOrder(V, n, frs, w)
<1>1. \A p \in DOMAIN V : f[p] \in DOMAIN W /\ V[p] = W[f[p]]
  BY DEF SameOrder
<1>2. \A p, r \in DOMAIN V : f[p] = f[r] => p = r
  <2> SUFFICES ASSUME NEW p \in DOMAIN V, NEW r \in DOMAIN V, f[p] = f[r], p # r PROVE FALSE
    OBVIOUS
  <2>1. p \in Int /\ r \in Int /\ f[p] \in Int /\ f[r] \in Int
    BY DEF SameOrder
  <2>2. f[p] < f[r] \/ f[r] < f[p]
    BY <2>1 DEF SameOrder
  <2> QED
    BY <2>1, <2>2
<1>3. \A p, r \in DOMAIN V : p < r => f[p] < f[r]
  BY DEF SameOrder
<1>4. \A r \in DOMAIN W : \E p \in DOMAIN V : f[p] = r
  BY DEF SameOrder
<1>5. \A p \in DOMAIN V : V[p] \in Facts /\ V[p][1] # "none"
  BY <1>1 DEF InOrder
<1>6. \A p \in DOMAIN V : Numbered(V[p]) => /\ V[p][2] \in 1..n
                                            /\ V[p] = ReadPacket(frs[V[p][2]], V[p][2])
  BY <1>1 DEF InOrder
<1>7. ASSUME NEW m \in 1..n PROVE \E p \in DOMAIN V : Numbered(V[p]) /\ V[p][2] = m
  <2>1. PICK r \in DOMAIN W : Numbered(W[r]) /\ W[r][2] = m
    BY DEF InOrder
  <2> QED
    BY <1>1, <1>4, <2>1
<1>8. \A p, r \in DOMAIN V : Numbered(V[p]) /\ Numbered(V[r]) /\ p < r => V[p][2] < V[r][2]
  <2> SUFFICES ASSUME NEW p \in DOMAIN V, NEW r \in DOMAIN V, Numbered(V[p]), Numbered(V[r]), p < r
               PROVE  V[p][2] < V[r][2]
    OBVIOUS
  <2>1. /\ f[p] \in DOMAIN W /\ V[p] = W[f[p]] /\ f[r] \in DOMAIN W /\ V[r] = W[f[r]]
        /\ f[p] < f[r]
    BY <1>1, <1>3
  <2> QED
    BY <2>1 DEF InOrder
<1>9. \A p, r \in DOMAIN V : IsGreeting(V[p]) /\ IsGreeting(V[r]) => p = r
  BY <1>1, <1>2 DEF InOrder
<1>10. \A p \in DOMAIN V : IsGreeting(V[p]) => w \in {"wait", "over"}
  BY <1>1 DEF InOrder
<1>11. ASSUME NEW p \in DOMAIN V, V[p][1] = "ConnectFailed"
       PROVE  w = "failed" /\ DOMAIN V = {p} /\ V[p] = <<"ConnectFailed", 0>>
  <2>1. w = "failed" /\ DOMAIN W = {f[p]} /\ V[p] = <<"ConnectFailed", 0>>
    BY <1>1, <1>11 DEF InOrder
  <2>2. \A r \in DOMAIN V : r = p
    BY <1>1, <1>2, <2>1
  <2> QED
    BY <2>1, <2>2
<1> QED
  BY <1>5, <1>6, <1>7, <1>8, <1>9, <1>10, <1>11 DEF InOrder

\* More is said, behind all the rest.
OneMore(V, W, r) ==
    /\ DOMAIN V = DOMAIN W \cup {r} /\ r \in Int /\ DOMAIN W \subseteq Int
    /\ \A p \in DOMAIN W : p < r /\ V[p] = W[p]

LEMMA OrderNumbered ==
    ASSUME NEW V, NEW W, NEW r, OneMore(V, W, r),
           NEW n \in Nat, NEW frs, NEW w, InOrder(W, n, frs, w), w # "failed",
           Numbered(V[r]), V[r] \in Facts, V[r] = ReadPacket(frs[n + 1], n + 1)
    PROVE  InOrder(V, n + 1, frs, w)
<1>0. DOMAIN V = DOMAIN W \cup {r} /\ r \in Int /\ DOMAIN W \subseteq Int
  BY DEF OneMore
<1>1. \A p \in DOMAIN W : p < r /\ p # r /\ V[p] = W[p]
  BY <1>0 DEF OneMore
<1>2. V[r][1] \in {"Recv", "Closed"} /\ V[r][2] = n + 1
  BY DEF ReadPacket, Numbered
<1>3. \A p \in DOMAIN W : Numbered(W[p]) => W[p][2] \in 1..n
  BY DEF InOrder
<1>4. \A p \in DOMAIN V : V[p] \in Facts /\ V[p][1] # "none"
  BY <1>0, <1>1, <1>2 DEF InOrder
<1>5. ASSUME NEW p \in DOMAIN V, Numbered(V[p])
      PROVE  V[p][2] \in 1..(n + 1) /\ V[p] = ReadPacket(frs[V[p][2]], V[p][2])
  <2>1. CASE p = r
    BY <1>2, <2>1
  <2>2. CASE p \in DOMAIN W
    <3>1. V[p][2] \in 1..n /\ V[p] = ReadPacket(frs[V[p][2]], V[p][2])
      BY <1>1, <1>5, <2>2 DEF InOrder
    <3> QED
      BY <3>1
  <2> QED
    BY <1>0, <2>1, <2>2
<1>6. ASSUME NEW m \in 1..(n + 1) PROVE \E p \in DOMAIN V : Numbered(V[p]) /\ V[p][2] = m
  <2>1. CASE m = n + 1
    BY <1>0, <1>2, <2>1
  <2>2. CASE m \in 1..n
    <3>1. PICK p \in DOMAIN W : Numbered(W[p]) /\ W[p][2] = m
      BY <2>2 DEF InOrder
    <3> QED
      BY <1>0, <1>1, <3>1
  <2> QED
    BY <2>1, <2>2
<1>7. ASSUME NEW p \in DOMAIN V, NEW q \in DOMAIN V, Numbered(V[p]), Numbered(V[q]), p < q
      PROVE  V[p][2] < V[q][2]
  <2>1. CASE q = r
    <3>1. p \in DOMAIN W
      BY <1>0, <1>7, <2>1
    <3>2. V[p][2] \in 1..n
      BY <1>1, <1>3, <1>7, <3>1
    <3> QED
      BY <1>2, <2>1, <3>2
  <2>2. CASE q \in DOMAIN W /\ p = r
    <3>1. p \in Int /\ q \in Int /\ q < p
      BY <1>0, <1>1, <2>2
    <3> QED
      BY <1>7, <3>1
  <2>3. CASE q \in DOMAIN W /\ p \in DOMAIN W
    BY <1>1, <1>7, <2>3 DEF InOrder
  <2> QED
    BY <1>0, <2>1, <2>2, <2>3
<1>8. \A p \in DOMAIN V : IsGreeting(V[p]) => p \in DOMAIN W /\ IsGreeting(W[p])
  BY <1>0, <1>1, <1>2 DEF IsGreeting
<1>9. \A p \in DOMAIN V : V[p][1] # "ConnectFailed"
  BY <1>0, <1>1, <1>2 DEF InOrder
<1> QED
  BY <1>4, <1>5, <1>6, <1>7, <1>8, <1>9 DEF InOrder

LEMMA OrderGreeted ==
    ASSUME NEW V, NEW W, NEW r, OneMore(V, W, r),
           NEW n, NEW frs, NEW w, InOrder(W, n, frs, w), w \notin {"wait", "over", "failed"},
           IsGreeting(V[r]), V[r] \in Facts, NEW v \in {"wait", "over"}
    PROVE  InOrder(V, n, frs, v)
<1>0. DOMAIN V = DOMAIN W \cup {r}
  BY DEF OneMore
<1>1. \A p \in DOMAIN W : p < r /\ V[p] = W[p]
  BY DEF OneMore
<1>2. V[r][1] \notin {"Recv", "Closed", "none", "ConnectFailed"}
  BY DEF IsGreeting
<1>3. \A p \in DOMAIN W : V[p] = W[p] /\ ~IsGreeting(W[p]) /\ W[p][1] # "ConnectFailed"
  BY <1>1 DEF InOrder
<1>4. \A p \in DOMAIN V : V[p] \in Facts /\ V[p][1] # "none"
  BY <1>0, <1>1, <1>2 DEF InOrder
<1>5. \A p \in DOMAIN V : Numbered(V[p]) => p \in DOMAIN W /\ Numbered(W[p])
  BY <1>0, <1>1, <1>2 DEF Numbered
<1>6. \A p \in DOMAIN V : IsGreeting(V[p]) => p = r
  BY <1>0, <1>3
<1>7. \A p \in DOMAIN V : V[p][1] # "ConnectFailed"
  BY <1>0, <1>2, <1>3
<1>8. \A p \in DOMAIN V : Numbered(V[p]) => /\ V[p][2] \in 1..n
                                            /\ V[p] = ReadPacket(frs[V[p][2]], V[p][2])
  BY <1>1, <1>5 DEF InOrder
<1>9. \A m \in 1..n : \E p \in DOMAIN V : Numbered(V[p]) /\ V[p][2] = m
  BY <1>0, <1>1 DEF InOrder
<1>10. \A p, q \in DOMAIN V : Numbered(V[p]) /\ Numbered(V[q]) /\ p < q => V[p][2] < V[q][2]
  BY <1>1, <1>5 DEF InOrder
<1> QED
  BY <1>4, <1>6, <1>7, <1>8, <1>9, <1>10 DEF InOrder

LEMMA OrderFailed ==
    ASSUME NEW V, NEW W, NEW r, OneMore(V, W, r),
           NEW frs, NEW w, InOrder(W, 0, frs, w), w \notin {"wait", "over", "failed"},
           V[r] = <<"ConnectFailed", 0>>
    PROVE  InOrder(V, 0, frs, "failed")
<1>1. DOMAIN W = {}
  <2> SUFFICES ASSUME NEW p \in DOMAIN W PROVE FALSE
    OBVIOUS
  <2>1. W[p] \in Facts /\ W[p][1] # "none"
    BY DEF InOrder
  <2>2. ~IsGreeting(W[p]) /\ ~Numbered(W[p]) /\ W[p][1] # "ConnectFailed"
    <3>1. Numbered(W[p]) => W[p][2] \in 1..0
      BY DEF InOrder
    <3>2. ~Numbered(W[p])
      BY <3>1
    <3> QED
      BY <3>2 DEF InOrder
  <2> QED
    BY <2>1, <2>2 DEF Facts, IsGreeting, Numbered
<1>2. DOMAIN V = {r}
  BY <1>1 DEF OneMore
<1>3. V[r] \in Facts /\ V[r][1] = "ConnectFailed"
  BY DEF Facts
<1>4. ~Numbered(V[r]) /\ ~IsGreeting(V[r])
  BY <1>3 DEF Numbered, IsGreeting
<1>5. \A m \in 1..0 : FALSE
  OBVIOUS
<1> QED
  BY <1>2, <1>3, <1>4, <1>5 DEF InOrder

(***************************************************************************)
(* What the steps make of a line.                                          *)
(***************************************************************************)

LEMMA SaidWhere ==
    ASSUME NEW h \in Seq(Facts), NEW q \in Seq(Callbacks), NEW c, NEW s, NEW p
    PROVE  /\ DOMAIN Said(h, c, q, s) \subseteq Int
           /\ p \in DOMAIN Said(h, c, q, s)
                <=> p \in Line(h, q) /\ At(h, c, q, s, p) \in EventsOf(s)
           /\ p \in DOMAIN Said(h, c, q, s) => Said(h, c, q, s)[p] = At(h, c, q, s, p).what
BY DEF Said, Line

\* What is handled is said at the places up to 0.
LEMMA SaidHandled ==
    ASSUME NEW h \in Seq(Facts), NEW q \in Seq(Callbacks), NEW c, NEW s, NEW i \in DOMAIN h
    PROVE  /\ i - Len(h) \in DOMAIN Said(h, c, q, s)
           /\ Said(h, c, q, s)[i - Len(h)] = h[i]
<1>1. Len(h) \in Nat /\ Len(q) \in Nat /\ i \in 1..Len(h) /\ h[i] \in Facts
  BY LenProperties
<1>2. i - Len(h) \in Line(h, q) /\ i - Len(h) <= 0 /\ (i - Len(h)) + Len(h) = i
  BY <1>1 DEF Line
<1>3. At(h, c, q, s, i - Len(h)) = Event(s, h[i])
  BY <1>2 DEF At
<1>4. Event(s, h[i]) \in EventsOf(s) /\ Event(s, h[i]).what = h[i]
  BY <1>1 DEF Event, EventsOf
<1> QED
  BY <1>2, <1>3, <1>4, SaidWhere

\* The loop takes the next callback in hand.
LEMMA SaidCalled ==
    ASSUME NEW h \in Seq(Facts), NEW q \in Seq(Callbacks), q # <<>>, NEW s \in Sessions
    PROVE  SameOrder(Said(h, Head(q), Tail(q), s), Said(h, NoCallback, q, s),
                     [p \in Int |-> IF p <= 0 THEN p ELSE p + 1])
<1>1. PICK t : t = Tail(q)
  OBVIOUS
<1>2. /\ t \in Seq(Callbacks) /\ Len(t) = Len(q) - 1 /\ Head(q) = q[1] /\ Len(q) \in Nat \ {0}
      /\ \A i \in 1..Len(t) : t[i] = q[i + 1]
  BY <1>1, HeadTailProperties
<1>3. Len(h) \in Nat
  BY LenProperties
<1>4. PICK f : f = [p \in Int |-> IF p <= 0 THEN p ELSE p + 1]
  OBVIOUS
<1>5. PICK V : V = Said(h, Head(q), t, s)
  OBVIOUS
<1>6. PICK W : W = Said(h, NoCallback, q, s)
  OBVIOUS
<1>7. NoCallback \notin EventsOf(s)
  BY EventAssumption DEF EventsOf
<1>8. ASSUME NEW p \in Line(h, t)
      PROVE  /\ p \in Int /\ f[p] \in Line(h, q)
             /\ At(h, NoCallback, q, s, f[p]) = At(h, Head(q), t, s, p)
  <2>1. p \in Int
    BY <1>2, <1>3 DEF Line
  <2>2. CASE p <= 0
    <3>1. f[p] = p
      BY <1>4, <2>1, <2>2
    <3> QED
      BY <1>2, <1>3, <2>1, <2>2, <3>1 DEF Line, At
  <2>3. CASE p = 1
    <3>1. f[p] = 2
      BY <1>4, <2>3
    <3> QED
      BY <1>2, <1>3, <2>3, <3>1 DEF Line, At
  <2>4. CASE p > 1
    <3>1. f[p] = p + 1 /\ p - 1 \in 1..Len(t) /\ (p - 1) + 1 = p /\ (p + 1) - 1 = p
      BY <1>2, <1>3, <1>4, <2>1, <2>4 DEF Line
    <3>2. t[p - 1] = q[p]
      BY <1>2, <3>1
    <3>3. At(h, NoCallback, q, s, p + 1) = q[p]
      BY <2>1, <2>4, <3>1 DEF At
    <3>4. At(h, Head(q), t, s, p) = t[p - 1]
      BY <2>1, <2>4 DEF At
    <3> QED
      BY <1>2, <1>3, <2>1, <2>4, <3>1, <3>2, <3>3, <3>4 DEF Line
  <2> QED
    BY <2>1, <2>2, <2>3, <2>4
<1>9. ASSUME NEW p \in DOMAIN V PROVE p \in Int /\ f[p] \in DOMAIN W /\ V[p] = W[f[p]]
  <2>1. p \in Line(h, t) /\ At(h, Head(q), t, s, p) \in EventsOf(s)
        /\ V[p] = At(h, Head(q), t, s, p).what
    BY <1>2, <1>5, <1>9, SaidWhere
  <2>2. p \in Int /\ f[p] \in Line(h, q) /\ At(h, NoCallback, q, s, f[p]) = At(h, Head(q), t, s, p)
    BY <1>8, <2>1
  <2> QED
    BY <1>6, <2>1, <2>2, SaidWhere
<1>10. \A p, r \in Int : p < r => f[p] < f[r]
  BY <1>4
<1>11. ASSUME NEW r \in DOMAIN W PROVE \E p \in DOMAIN V : f[p] = r
  <2>1. r \in Line(h, q) /\ At(h, NoCallback, q, s, r) \in EventsOf(s)
    BY <1>6, <1>11, SaidWhere
  <2>2. r \in Int /\ r # 1
    BY <1>2, <1>3, <1>7, <2>1 DEF Line, At
  <2>3. PICK p \in Line(h, t) : f[p] = r
    <3>1. CASE r <= 0
      <4>1. r \in Line(h, t) /\ f[r] = r
        BY <1>2, <1>3, <1>4, <2>1, <2>2, <3>1 DEF Line
      <4> QED
        BY <4>1
    <3>2. CASE r > 1
      <4>1. r - 1 \in Line(h, t) /\ r - 1 \in Int /\ ~(r - 1 <= 0) /\ (r - 1) + 1 = r
        BY <1>2, <1>3, <2>1, <2>2, <3>2 DEF Line
      <4>2. f[r - 1] = (r - 1) + 1
        BY <1>4, <4>1
      <4> QED
        BY <4>1, <4>2
    <3> QED
      BY <2>2, <3>1, <3>2
  <2>4. At(h, Head(q), t, s, p) \in EventsOf(s)
    BY <1>8, <2>1, <2>3
  <2>5. p \in DOMAIN V
    BY <1>2, <1>5, <2>3, <2>4, SaidWhere
  <2> QED
    BY <2>3, <2>5
<1>12. DOMAIN W \subseteq Int
  BY <1>6, SaidWhere
<1>13. SameOrder(V, W, f)
  BY <1>9, <1>10, <1>11, <1>12 DEF SameOrder
<1> QED
  BY <1>1, <1>4, <1>5, <1>6, <1>13

\* The callback in hand is over, an event of s.
LEMMA SaidEnded ==
    ASSUME NEW h \in Seq(Facts), NEW q \in Seq(Callbacks), NEW s \in Sessions, NEW what \in Facts
    PROVE  SameOrder(Said(Append(h, what), NoCallback, q, s), Said(h, Event(s, what), q, s),
                     [p \in Int |-> IF p <= 0 THEN p + 1 ELSE p])
<1>1. PICK g : g = Append(h, what)
  OBVIOUS
<1>2. /\ g \in Seq(Facts) /\ Len(g) = Len(h) + 1 /\ g[Len(h) + 1] = what
      /\ \A i \in 1..Len(h) : g[i] = h[i]
  BY <1>1, AppendProperties
<1>3. Len(h) \in Nat /\ Len(q) \in Nat
  BY LenProperties
<1>4. PICK f : f = [p \in Int |-> IF p <= 0 THEN p + 1 ELSE p]
  OBVIOUS
<1>5. PICK V : V = Said(g, NoCallback, q, s)
  OBVIOUS
<1>6. PICK W : W = Said(h, Event(s, what), q, s)
  OBVIOUS
<1>7. NoCallback \notin EventsOf(s)
  BY EventAssumption DEF EventsOf
<1>8. ASSUME NEW p \in Line(g, q), p # 1
      PROVE  /\ p \in Int /\ f[p] \in Line(h, q)
             /\ At(h, Event(s, what), q, s, f[p]) = At(g, NoCallback, q, s, p)
  <2>1. p \in Int
    BY <1>2, <1>3 DEF Line
  <2>2. CASE p < 0
    <3>1. f[p] = p + 1 /\ p + Len(g) \in 1..Len(h) /\ (p + 1) + Len(h) = p + Len(g)
      BY <1>2, <1>3, <1>4, <2>1, <2>2 DEF Line
    <3>2. At(g, NoCallback, q, s, p) = Event(s, g[p + Len(g)])
      BY <2>1, <2>2 DEF At
    <3>3. At(h, Event(s, what), q, s, p + 1) = Event(s, h[p + Len(g)])
      BY <2>1, <2>2, <3>1 DEF At
    <3> QED
      BY <1>2, <1>3, <2>1, <2>2, <3>1, <3>2, <3>3 DEF Line
  <2>3. CASE p = 0
    <3>1. f[p] = 1 /\ p + Len(g) = Len(h) + 1
      BY <1>2, <1>3, <1>4, <2>3
    <3> QED
      BY <1>2, <1>3, <2>3, <3>1 DEF Line, At
  <2>4. CASE p > 1
    <3>1. f[p] = p
      BY <1>4, <2>1, <2>4
    <3> QED
      BY <1>2, <1>3, <2>1, <2>4, <3>1 DEF Line, At
  <2> QED
    BY <1>8, <2>1, <2>2, <2>3, <2>4
<1>9. ASSUME NEW p \in DOMAIN V PROVE p \in Int /\ f[p] \in DOMAIN W /\ V[p] = W[f[p]]
  <2>1. /\ p \in Line(g, q) /\ At(g, NoCallback, q, s, p) \in EventsOf(s)
        /\ V[p] = At(g, NoCallback, q, s, p).what
    BY <1>2, <1>5, <1>9, SaidWhere
  <2>2. p # 1
    BY <1>7, <2>1 DEF At
  <2>3. /\ p \in Int /\ f[p] \in Line(h, q)
        /\ At(h, Event(s, what), q, s, f[p]) = At(g, NoCallback, q, s, p)
    BY <1>8, <2>1, <2>2
  <2> QED
    BY <1>6, <2>1, <2>3, SaidWhere
<1>10. \A p, r \in Int : p # 1 /\ r # 1 /\ p < r => f[p] < f[r]
  BY <1>4
<1>11. \A p \in DOMAIN V : p # 1
  <2> SUFFICES ASSUME 1 \in DOMAIN V PROVE FALSE
    OBVIOUS
  <2>1. At(g, NoCallback, q, s, 1) \in EventsOf(s)
    BY <1>2, <1>5, SaidWhere
  <2> QED
    BY <1>7, <2>1 DEF At
<1>12. ASSUME NEW r \in DOMAIN W PROVE \E p \in DOMAIN V : f[p] = r
  <2>1. r \in Line(h, q) /\ At(h, Event(s, what), q, s, r) \in EventsOf(s)
    BY <1>6, <1>12, SaidWhere
  <2>2. r \in Int
    BY <1>3, <2>1 DEF Line
  <2>3. PICK p \in Line(g, q) : p # 1 /\ f[p] = r
    <3>1. CASE r <= 1
      <4>1. r - 1 \in Line(g, q) /\ r - 1 # 1 /\ f[r - 1] = r
        BY <1>2, <1>3, <1>4, <2>1, <2>2, <3>1 DEF Line
      <4> QED
        BY <4>1
    <3>2. CASE r > 1
      <4>1. r \in Line(g, q) /\ r # 1 /\ f[r] = r
        BY <1>2, <1>3, <1>4, <2>1, <2>2, <3>2 DEF Line
      <4> QED
        BY <4>1
    <3> QED
      BY <2>2, <3>1, <3>2
  <2>4. At(g, NoCallback, q, s, p) \in EventsOf(s)
    BY <1>8, <2>1, <2>3
  <2>5. p \in DOMAIN V
    BY <1>2, <1>5, <2>3, <2>4, SaidWhere
  <2> QED
    BY <2>3, <2>5
<1>13. DOMAIN W \subseteq Int
  BY <1>6, SaidWhere
<1>14. SameOrder(V, W, f)
  BY <1>9, <1>10, <1>11, <1>12, <1>13 DEF SameOrder
<1> QED
  BY <1>1, <1>4, <1>5, <1>6, <1>14

\* It is over, and was none of s.
LEMMA SaidDropped ==
    ASSUME NEW h \in Seq(Facts), NEW q \in Seq(Callbacks), NEW s \in Sessions, NEW c,
           c \notin EventsOf(s)
    PROVE  Said(h, NoCallback, q, s) = Said(h, c, q, s)
<1>1. NoCallback \notin EventsOf(s)
  BY EventAssumption DEF EventsOf
<1>2. ASSUME NEW p \in Line(h, q)
      PROVE  /\ At(h, c, q, s, p) \in EventsOf(s) <=> At(h, NoCallback, q, s, p) \in EventsOf(s)
             /\ p # 1 => At(h, c, q, s, p) = At(h, NoCallback, q, s, p)
  BY <1>1 DEF At
<1>3. ASSUME NEW p \in Line(h, q), At(h, c, q, s, p) \in EventsOf(s) PROVE p # 1
  BY <1>3 DEF At
<1> QED
  BY <1>2, <1>3 DEF Said

\* A callback is posted.
LEMMA SaidPosted ==
    ASSUME NEW h \in Seq(Facts), NEW q \in Seq(Callbacks), NEW c, NEW s, NEW y \in Callbacks
    PROVE  /\ y \in EventsOf(s) =>
                 /\ OneMore(Said(h, c, Append(q, y), s), Said(h, c, q, s), Len(q) + 2)
                 /\ Said(h, c, Append(q, y), s)[Len(q) + 2] = y.what
           /\ y \notin EventsOf(s) => Said(h, c, Append(q, y), s) = Said(h, c, q, s)
<1>1. PICK a : a = Append(q, y)
  OBVIOUS
<1>2. /\ a \in Seq(Callbacks) /\ Len(a) = Len(q) + 1 /\ a[Len(q) + 1] = y
      /\ \A i \in 1..Len(q) : a[i] = q[i]
  BY <1>1, AppendProperties
<1>3. Len(h) \in Nat /\ Len(q) \in Nat
  BY LenProperties
<1>4. PICK V : V = Said(h, c, a, s)
  OBVIOUS
<1>5. PICK W : W = Said(h, c, q, s)
  OBVIOUS
<1>6. Line(h, a) = Line(h, q) \cup {Len(q) + 2} /\ Len(q) + 2 \notin Line(h, q)
  BY <1>2, <1>3 DEF Line
<1>7. ASSUME NEW p \in Line(h, q)
      PROVE  At(h, c, a, s, p) = At(h, c, q, s, p) /\ p < Len(q) + 2
  BY <1>2, <1>3 DEF At, Line
<1>8. At(h, c, a, s, Len(q) + 2) = y
  BY <1>2, <1>3 DEF At
<1>9. \A p \in DOMAIN W : p \in Line(h, q) /\ p \in DOMAIN V /\ V[p] = W[p]
  <2> SUFFICES ASSUME NEW p \in DOMAIN W PROVE p \in Line(h, q) /\ p \in DOMAIN V /\ V[p] = W[p]
    OBVIOUS
  <2>1. p \in Line(h, q) /\ At(h, c, q, s, p) \in EventsOf(s) /\ W[p] = At(h, c, q, s, p).what
    BY <1>5, SaidWhere
  <2>2. p \in Line(h, a) /\ At(h, c, a, s, p) = At(h, c, q, s, p)
    BY <1>6, <1>7, <2>1
  <2> QED
    BY <1>2, <1>4, <2>1, <2>2, SaidWhere
<1>10. \A p \in DOMAIN V : p \in DOMAIN W \/ (p = Len(q) + 2 /\ y \in EventsOf(s))
  <2> SUFFICES ASSUME NEW p \in DOMAIN V PROVE p \in DOMAIN W \/ (p = Len(q) + 2 /\ y \in EventsOf(s))
    OBVIOUS
  <2>1. p \in Line(h, a) /\ At(h, c, a, s, p) \in EventsOf(s)
    BY <1>2, <1>4, SaidWhere
  <2>2. CASE p = Len(q) + 2
    BY <1>8, <2>1, <2>2
  <2>3. CASE p \in Line(h, q)
    BY <1>5, <1>7, <2>1, <2>3, SaidWhere
  <2> QED
    BY <1>6, <2>1, <2>2, <2>3
<1>11. DOMAIN W \subseteq Int
  BY <1>5, SaidWhere
<1>12. ASSUME y \in EventsOf(s) PROVE OneMore(V, W, Len(q) + 2) /\ V[Len(q) + 2] = y.what
  <2>1. Len(q) + 2 \in DOMAIN V /\ V[Len(q) + 2] = y.what
    BY <1>2, <1>4, <1>6, <1>8, <1>12, SaidWhere
  <2>2. DOMAIN V = DOMAIN W \cup {Len(q) + 2}
    BY <1>9, <1>10, <2>1
  <2> QED
    BY <1>3, <1>7, <1>9, <1>11, <2>1, <2>2 DEF OneMore
<1>13. ASSUME y \notin EventsOf(s) PROVE V = W
  <2>1. DOMAIN V = DOMAIN W /\ \A p \in DOMAIN W : V[p] = W[p]
    BY <1>9, <1>10, <1>13
  <2>2. V = [p \in DOMAIN V |-> V[p]] /\ W = [p \in DOMAIN W |-> W[p]]
    BY <1>4, <1>5 DEF Said
  <2> QED
    BY <2>1, <2>2
<1> QED
  BY <1>1, <1>4, <1>5, <1>12, <1>13

\* More frames come, and the session goes on.
LEMMA OrderSent ==
    ASSUME NEW W, NEW frs \in Seq(Frames), NEW n \in 0..Len(frs), NEW w, InOrder(W, n, frs, w),
           NEW x \in Frames
    PROVE  InOrder(W, n, Append(frs, x), w)
<1>1. PICK g : g = Append(frs, x)
  OBVIOUS
<1>2. \A i \in 1..Len(frs) : g[i] = frs[i]
  BY <1>1, AppendProperties
<1>3. Len(frs) \in Nat
  BY LenProperties
<1>4. \A i \in 1..n : g[i] = frs[i]
  BY <1>2, <1>3
<1>5. \A p \in DOMAIN W : Numbered(W[p]) => /\ W[p][2] \in 1..n
                                            /\ W[p] = ReadPacket(g[W[p][2]], W[p][2])
  BY <1>4 DEF InOrder
<1>6. InOrder(W, n, g, w)
  BY <1>5 DEF InOrder
<1> QED
  BY <1>1, <1>6

LEMMA OrderGoes ==
    ASSUME NEW W, NEW n, NEW frs, NEW w, NEW v, InOrder(W, n, frs, w),
           w \notin {"wait", "over", "failed"}
    PROVE  InOrder(W, n, frs, v)
BY DEF InOrder

-----------------------------------------------------------------------------

(***************************************************************************)
(* What a session's callbacks are told.                                    *)
(***************************************************************************)

OrderTypes ==
    /\ handled \in [Sessions -> Seq(Facts)]
    /\ frames \in [Sessions -> Seq(Frames)]
    /\ recv \in [Sessions -> {"off", "read", "post", "over"}]
    /\ wpc \in [Sessions -> {"none", "run", "dial", "fail", "failed",
                             "add", "start", "greet", "wait", "over"}]
    /\ cur \in Callbacks \cup {NoCallback}

\* A loop that waits has nothing in hand.
IdleHand ==
    /\ main = "start" => loop = "off"
    /\ loop \in {"off", "idle"} => cur = NoCallback

\* The recvThread (r, with x in hand) has read n frames, and only the last may
\* be one that ends it.
Reads(n, frs, w, r, x) ==
    /\ n <= Len(frs)
    /\ w \notin {"greet", "wait", "over"} => r = "off"
    /\ r = "off" => n = 0
    /\ \A m \in 1..(n - 1) : frs[m] # "fatal"
    /\ r = "read" => \A m \in 1..n : frs[m] # "fatal"
    /\ r = "post" => n > 0 /\ x = ReadPacket(frs[n], n)

Reading(s) == Reads(nread[s], frames[s], wpc[s], recv[s], hold[s])

\* The frames whose events have been posted.
InLine(r, n) == IF r = "post" THEN n - 1 ELSE n

Orderly(s) ==
    InOrder(Said(handled[s], cur, queue, s), InLine(recv[s], nread[s]), frames[s], wpc[s])

Track(s) == Reading(s) /\ Orderly(s)

OrderPart == OrderTypes /\ IdleHand /\ \A s \in Sessions : Track(s)

OrderInv == TickInv /\ OrderPart

\* The recvThread and the goroutine that makes s stay where they are.
Alone(s) ==
    /\ frames'[s] = frames[s] /\ recv'[s] = recv[s] /\ wpc'[s] = wpc[s]
    /\ nread'[s] = nread[s] /\ hold'[s] = hold[s]

LEMMA TrackAlone ==
    ASSUME NEW s \in Sessions, Track(s), Alone(s),
           handled'[s] = handled[s], UNCHANGED <<cur, queue>>
    PROVE  Track(s)'
BY DEF Track, Alone, Reading, Orderly

LEMMA TrackMoved ==
    ASSUME NEW s \in Sessions, Track(s), Alone(s), NEW f,
           SameOrder(Said(handled'[s], cur', queue', s), Said(handled[s], cur, queue, s), f)
    PROVE  Track(s)'
<1>1. Reading(s)'
  BY DEF Track, Alone, Reading
<1>2. InOrder(Said(handled'[s], cur', queue', s), InLine(recv[s], nread[s]), frames[s], wpc[s])
  BY OrderMoved DEF Track, Orderly
<1> QED
  BY <1>1, <1>2 DEF Track, Alone, Orderly

\* Another callback is posted, or over.
LEMMA TrackSame ==
    ASSUME NEW s \in Sessions, Track(s), Alone(s),
           Said(handled'[s], cur', queue', s) = Said(handled[s], cur, queue, s)
    PROVE  Track(s)'
BY DEF Track, Alone, Reading, Orderly

LEMMA TrackPosted ==
    ASSUME OrderInv, NEW s \in Sessions, Alone(s), handled'[s] = handled[s],
           NEW y \in Callbacks, y \notin EventsOf(s), Post(y), cur' = cur
    PROVE  Track(s)'
<1>1. queue \in Seq(Callbacks) /\ queue' = Append(queue, y) /\ handled[s] \in Seq(Facts)
  BY DEF OrderInv, OrderPart, TickInv, ServerTypes, OrderTypes, Post
<1>2. Said(handled[s], cur, Append(queue, y), s) = Said(handled[s], cur, queue, s)
  BY <1>1, SaidPosted
<1>3. Said(handled'[s], cur', queue', s) = Said(handled[s], cur, queue, s)
  BY <1>1, <1>2
<1> QED
  BY <1>3, TrackSame DEF OrderInv, OrderPart

LEMMA TickNoEvent ==
    ASSUME NEW l, NEW b, NEW s
    PROVE  Tick(l, b) \notin EventsOf(s)
<1>1. Tick(l, b).kind = "tick"
  BY DEF Tick
<1>2. \A y \in EventsOf(s) : y.kind = "event"
  BY DEF EventsOf
<1> QED
  BY <1>1, <1>2, Zenon

LEMMA EventIsOf ==
    ASSUME NEW s \in Sessions, NEW what \in Facts
    PROVE  /\ Event(s, what) \in EventsOf(s) /\ Event(s, what) \in Callbacks
           /\ Event(s, what).what = what
           /\ \A r : r # s => Event(s, what) \notin EventsOf(r)
<1>1. /\ Event(s, what) \in EventsOf(s) /\ Event(s, what) \in Callbacks
      /\ Event(s, what).what = what /\ Event(s, what).of = s
  BY DEF Event, EventsOf, Callbacks
<1>2. \A r : \A y \in EventsOf(r) : y.of = r
  BY DEF EventsOf
<1> QED
  BY <1>1, <1>2

\* Steps of the timers and of the loop that leave the line as it is.
LEMMA OrderAlone ==
    ASSUME OrderInv, IdleHand', UNCHANGED <<cur, queue, wsVars>>
    PROVE  OrderPart'
<1>1. OrderTypes'
  BY DEF OrderInv, OrderPart, OrderTypes, wsVars, recvVars, historyVars
<1>2. ASSUME NEW s \in Sessions PROVE Track(s)'
  <2>1. Alone(s) /\ handled'[s] = handled[s] /\ Track(s)
    BY DEF OrderInv, OrderPart, wsVars, recvVars, historyVars, Alone
  <2> QED
    BY <2>1, TrackAlone
<1> QED
  BY <1>1, <1>2 DEF OrderPart

LEMMA OrderTick ==
    ASSUME OrderInv, IdleHand', NEW l \in Loops, NEW b \in BOOLEAN, Post(Tick(l, b)),
           cur' = cur, UNCHANGED wsVars
    PROVE  OrderPart'
<1>1. OrderTypes'
  BY DEF OrderInv, OrderPart, OrderTypes, wsVars, recvVars, historyVars
<1>2. Tick(l, b) \in Callbacks
  BY DEF Tick, Callbacks
<1>3. ASSUME NEW s \in Sessions PROVE Track(s)'
  <2>1. Alone(s) /\ handled'[s] = handled[s]
    BY DEF wsVars, recvVars, historyVars, Alone
  <2> QED
    BY <1>2, <2>1, TrackPosted, TickNoEvent
<1> QED
  BY <1>1, <1>3 DEF OrderPart

LEMMA OrderCalled ==
    ASSUME OrderInv, LoopCall, UNCHANGED wsVars
    PROVE  OrderPart'
<1>1. /\ queue \in Seq(Callbacks) /\ queue # <<>> /\ queue' = Tail(queue) /\ cur' = Head(queue)
      /\ cur = NoCallback /\ Head(queue) \in Callbacks
  BY HeadTailProperties DEF OrderInv, OrderPart, IdleHand, TickInv, ServerTypes, LoopCall
<1>2. OrderTypes'
  BY <1>1 DEF OrderInv, OrderPart, OrderTypes, wsVars, recvVars, historyVars
<1>3. IdleHand'
  BY DEF OrderInv, OrderPart, IdleHand, LoopCall
<1>4. ASSUME NEW s \in Sessions PROVE Track(s)'
  <2>1. Alone(s) /\ handled'[s] = handled[s] /\ Track(s) /\ handled[s] \in Seq(Facts)
    BY DEF OrderInv, OrderPart, OrderTypes, wsVars, recvVars, historyVars, Alone
  <2>2. PICK f : f = [p \in Int |-> IF p <= 0 THEN p ELSE p + 1]
    OBVIOUS
  <2>3. SameOrder(Said(handled[s], Head(queue), Tail(queue), s),
                  Said(handled[s], NoCallback, queue, s), f)
    BY <1>1, <2>1, <2>2, SaidCalled
  <2>4. SameOrder(Said(handled'[s], cur', queue', s), Said(handled[s], cur, queue, s), f)
    BY <1>1, <2>1, <2>3
  <2> QED
    BY <2>1, <2>4, TrackMoved
<1> QED
  BY <1>2, <1>3, <1>4 DEF OrderPart

LEMMA OrderTickEnded ==
    ASSUME OrderInv, NEW l \in Loops, TickEnd(l), UNCHANGED wsVars
    PROVE  OrderPart'
<1>1. queue \in Seq(Callbacks) /\ queue' = queue /\ cur' = NoCallback
  BY DEF OrderInv, TickInv, ServerTypes, TickEnd, LoopReturn
<1>2. OrderTypes'
  BY <1>1 DEF OrderInv, OrderPart, OrderTypes, wsVars, recvVars, historyVars
<1>3. IdleHand'
  BY DEF OrderInv, OrderPart, IdleHand, TickEnd, LoopReturn
<1>4. ASSUME NEW s \in Sessions PROVE Track(s)'
  <2>1. Alone(s) /\ handled'[s] = handled[s] /\ Track(s) /\ handled[s] \in Seq(Facts)
    BY DEF OrderInv, OrderPart, OrderTypes, wsVars, recvVars, historyVars, Alone
  <2>2. cur \notin EventsOf(s)
    BY TickNoEvent DEF TickEnd
  <2>3. Said(handled[s], NoCallback, queue, s) = Said(handled[s], cur, queue, s)
    BY <1>1, <2>1, <2>2, SaidDropped
  <2> QED
    BY <1>1, <2>1, <2>3, TrackSame
<1> QED
  BY <1>2, <1>3, <1>4 DEF OrderPart

LEMMA OrderEventEnded ==
    ASSUME OrderInv, EventEnd
    PROVE  OrderPart'
<1>1. /\ queue \in Seq(Callbacks) /\ queue' = queue /\ cur' = NoCallback
      /\ handled \in [Sessions -> Seq(Facts)] /\ cur \in Callbacks /\ cur.kind = "event"
      /\ handled' = [handled EXCEPT ![cur.of] = Append(@, cur.what)]
  BY DEF OrderInv, OrderPart, OrderTypes, TickInv, ServerTypes, EventEnd, LoopReturn
<1>2. PICK t \in Sessions, what \in Facts : cur = Event(t, what) /\ cur.of = t /\ cur.what = what
  BY <1>1 DEF Callbacks, Event
<1>3. /\ handled'[t] = Append(handled[t], what) /\ handled' \in [Sessions -> Seq(Facts)]
      /\ \A s \in Sessions : s # t => handled'[s] = handled[s]
  <2>1. Append(handled[t], what) \in Seq(Facts)
    BY <1>1, AppendProperties
  <2> QED
    BY <1>1, <1>2, <2>1
<1>4. OrderTypes'
  BY <1>1, <1>3 DEF OrderInv, OrderPart, OrderTypes, EventEnd, recvVars
<1>5. IdleHand'
  BY DEF OrderInv, OrderPart, IdleHand, EventEnd, LoopReturn
<1>6. ASSUME NEW s \in Sessions PROVE Track(s)'
  <2>1. Alone(s) /\ Track(s) /\ handled[s] \in Seq(Facts)
    BY DEF OrderInv, OrderPart, OrderTypes, EventEnd, recvVars, Alone
  <2>2. CASE s = t
    <3>1. PICK f : f = [p \in Int |-> IF p <= 0 THEN p + 1 ELSE p]
      OBVIOUS
    <3>2. SameOrder(Said(Append(handled[s], what), NoCallback, queue, s),
                    Said(handled[s], Event(s, what), queue, s), f)
      BY <1>1, <2>1, <3>1, SaidEnded
    <3>3. SameOrder(Said(handled'[s], cur', queue', s), Said(handled[s], cur, queue, s), f)
      BY <1>1, <1>2, <1>3, <2>2, <3>2
    <3> QED
      BY <2>1, <3>3, TrackMoved
  <2>3. CASE s # t
    <3>1. cur \notin EventsOf(s) /\ handled'[s] = handled[s]
      BY <1>2, <1>3, <2>3, EventIsOf
    <3>2. Said(handled[s], NoCallback, queue, s) = Said(handled[s], cur, queue, s)
      BY <1>1, <2>1, <3>1, SaidDropped
    <3> QED
      BY <1>1, <2>1, <3>1, <3>2, TrackSame
  <2> QED
    BY <2>2, <2>3
<1> QED
  BY <1>4, <1>5, <1>6 DEF OrderPart

\* The steps that make a session, up to its recvThread.
LEMMA OrderMade ==
    ASSUME OrderInv, NEW s \in Sessions, wpc[s] \notin {"greet", "wait", "over", "failed"},
           NEW v \in {"run", "dial", "fail", "add", "start"}, WsGoto(s, v),
           UNCHANGED <<queueVars, recvVars, historyVars>>
    PROVE  OrderPart'
<1> USE DEF queueVars, recvVars, historyVars
<1>1. OrderTypes' /\ wpc'[s] = v /\ \A r \in Sessions : r # s => wpc'[r] = wpc[r]
  BY DEF OrderInv, OrderPart, OrderTypes, WsGoto
<1>2. IdleHand'
  BY DEF OrderInv, OrderPart, IdleHand
<1>3. ASSUME NEW r \in Sessions PROVE Track(r)'
  <2>1. Track(r)
    BY DEF OrderInv, OrderPart
  <2>2. CASE r # s
    BY <1>1, <2>1, <2>2, TrackAlone DEF Alone
  <2>3. CASE r = s
    <3>1. Reading(s)'
      BY <1>1, <2>1, <2>3 DEF Track, Reading, Reads
    <3>2. InOrder(Said(handled[s], cur, queue, s), InLine(recv[s], nread[s]), frames[s], v)
      BY <2>1, <2>3, OrderGoes DEF Track, Orderly
    <3> QED
      BY <1>1, <2>3, <3>1, <3>2 DEF Track, Orderly
  <2> QED
    BY <2>2, <2>3
<1> QED
  BY <1>1, <1>2, <1>3 DEF OrderPart

LEMMA OrderRun ==
    ASSUME OrderInv, NEW s \in Sessions, run(s)
    PROVE  OrderPart'
<1> USE DEF queueVars, historyVars
<1>1. /\ OrderTypes' /\ wpc'[s] = "greet" /\ \A r \in Sessions : r # s => wpc'[r] = wpc[r]
      /\ recv'[s] = "read" /\ \A r \in Sessions : r # s => recv'[r] = recv[r]
      /\ wpc[s] = "start" /\ UNCHANGED <<cur, queue, hold, nread, handled, frames>>
  BY DEF OrderInv, OrderPart, OrderTypes, run, WsGoto, RecvGoto
<1>2. IdleHand'
  BY DEF OrderInv, OrderPart, IdleHand, run
<1>3. ASSUME NEW r \in Sessions PROVE Track(r)'
  <2>1. Track(r)
    BY DEF OrderInv, OrderPart
  <2>2. CASE r # s
    BY <1>1, <2>1, <2>2, TrackAlone DEF Alone
  <2>3. CASE r = s
    <3>1. recv[s] = "off" /\ nread[s] = 0 /\ nread[s] <= Len(frames[s])
      BY <1>1, <2>1, <2>3 DEF Track, Reading, Reads
    <3>2. Reading(s)'
      BY <1>1, <3>1 DEF Reading, Reads
    <3>3. InOrder(Said(handled[s], cur, queue, s), InLine(recv[s], nread[s]), frames[s], "greet")
      BY <1>1, <2>1, <2>3, OrderGoes DEF Track, Orderly
    <3>4. InLine(recv[s], nread[s]) = InLine(recv'[s], nread'[s])
      BY <1>1, <3>1 DEF InLine
    <3> QED
      BY <1>1, <2>3, <3>2, <3>3, <3>4 DEF Track, Orderly
  <2> QED
    BY <2>2, <2>3
<1> QED
  BY <1>1, <1>2, <1>3 DEF OrderPart

\* What the line says of s when an event of s is posted.
LEMMA PostedBehind ==
    ASSUME OrderInv, NEW s \in Sessions, NEW what \in Facts, Post(Event(s, what)),
           UNCHANGED <<cur, handled>>
    PROVE  \E r : /\ OneMore(Said(handled'[s], cur', queue', s), Said(handled[s], cur, queue, s), r)
                  /\ Said(handled'[s], cur', queue', s)[r] = what
<1>1. queue \in Seq(Callbacks) /\ queue' = Append(queue, Event(s, what)) /\ handled[s] \in Seq(Facts)
  BY DEF OrderInv, OrderPart, TickInv, ServerTypes, OrderTypes, Post
<1>2. PICK y : y = Event(s, what)
  OBVIOUS
<1>3. y \in Callbacks /\ y \in EventsOf(s) /\ y.what = what
  BY <1>2, EventIsOf
<1>4. /\ OneMore(Said(handled[s], cur, Append(queue, y), s), Said(handled[s], cur, queue, s), Len(queue) + 2)
      /\ Said(handled[s], cur, Append(queue, y), s)[Len(queue) + 2] = y.what
  BY <1>1, <1>3, SaidPosted
<1> QED
  BY <1>1, <1>2, <1>3, <1>4

\* The other sessions when an event of s is posted.
LEMMA PostedForOthers ==
    ASSUME OrderInv, NEW s \in Sessions, NEW what \in Facts, Post(Event(s, what)),
           UNCHANGED <<cur, handled>>, NEW r \in Sessions, r # s, Alone(r)
    PROVE  Track(r)'
<1>1. PICK y : y = Event(s, what)
  OBVIOUS
<1>2. y \in Callbacks /\ y \notin EventsOf(r) /\ Post(y)
  BY <1>1, EventIsOf
<1> QED
  BY <1>2, TrackPosted

LEMMA OrderGreet ==
    ASSUME OrderInv, NEW s \in Sessions, Greet(s)
    PROVE  OrderPart'
<1> USE DEF recvVars, historyVars
<1>1. PICK v \in {"wait", "over"} : wpc' = [wpc EXCEPT ![s] = v]
  BY DEF Greet, WsGoto
<1>2. /\ OrderTypes' /\ wpc'[s] = v /\ \A r \in Sessions : r # s => wpc'[r] = wpc[r]
      /\ wpc[s] = "greet" /\ UNCHANGED <<cur, recv, hold, nread, handled, frames>>
  BY <1>1 DEF OrderInv, OrderPart, OrderTypes, Greet
<1>3. IdleHand'
  BY DEF OrderInv, OrderPart, IdleHand, Greet
<1>4. PICK what \in Facts : IsGreeting(what) /\ Post(Event(s, what))
  BY DEF Greet, Greeting, IsGreeting, Facts
<1>5. ASSUME NEW r \in Sessions PROVE Track(r)'
  <2>1. Track(r)
    BY DEF OrderInv, OrderPart
  <2>2. CASE r # s
    <3>1. Alone(r)
      BY <1>2, <2>2 DEF Alone
    <3> QED
      BY <1>2, <1>4, <2>2, <3>1, PostedForOthers
  <2>3. CASE r = s
    <3>1. Reading(s)'
      BY <1>2, <2>1, <2>3 DEF Track, Reading, Reads
    <3>2. PICK V : V = Said(handled'[s], cur', queue', s)
      OBVIOUS
    <3>3. PICK W : W = Said(handled[s], cur, queue, s)
      OBVIOUS
    <3>4. PICK p : OneMore(V, W, p) /\ V[p] = what
      BY <1>2, <1>4, <3>2, <3>3, PostedBehind
    <3>5. InOrder(W, InLine(recv[s], nread[s]), frames[s], wpc[s])
      BY <2>1, <2>3, <3>3 DEF Track, Orderly
    <3>6. InOrder(V, InLine(recv[s], nread[s]), frames[s], v)
      BY <1>2, <1>4, <3>4, <3>5, OrderGreeted
    <3> QED
      BY <1>2, <2>3, <3>1, <3>2, <3>6 DEF Track, Orderly
  <2> QED
    BY <2>2, <2>3
<1> QED
  BY <1>2, <1>3, <1>5 DEF OrderPart

LEMMA OrderConnectFails ==
    ASSUME OrderInv, NEW s \in Sessions, ConnectFails(s)
    PROVE  OrderPart'
<1> USE DEF recvVars, historyVars
<1>1. /\ OrderTypes' /\ wpc'[s] = "failed" /\ \A r \in Sessions : r # s => wpc'[r] = wpc[r]
      /\ wpc[s] = "fail" /\ UNCHANGED <<cur, recv, hold, nread, handled, frames>>
  BY DEF OrderInv, OrderPart, OrderTypes, ConnectFails, WsGoto
<1>2. IdleHand'
  BY DEF OrderInv, OrderPart, IdleHand, ConnectFails
<1>3. <<"ConnectFailed", 0>> \in Facts /\ Post(Event(s, <<"ConnectFailed", 0>>))
  BY DEF ConnectFails, Facts
<1>4. ASSUME NEW r \in Sessions PROVE Track(r)'
  <2>1. Track(r)
    BY DEF OrderInv, OrderPart
  <2>2. CASE r # s
    <3>1. Alone(r)
      BY <1>1, <2>2 DEF Alone
    <3> QED
      BY <1>1, <1>3, <2>2, <3>1, PostedForOthers
  <2>3. CASE r = s
    <3>1. recv[s] = "off" /\ nread[s] = 0
      BY <1>1, <2>1, <2>3 DEF Track, Reading, Reads
    <3>2. Reading(s)'
      BY <1>1, <2>1, <2>3, <3>1 DEF Track, Reading, Reads
    <3>3. PICK V : V = Said(handled'[s], cur', queue', s)
      OBVIOUS
    <3>4. PICK W : W = Said(handled[s], cur, queue, s)
      OBVIOUS
    <3>5. PICK p : OneMore(V, W, p) /\ V[p] = <<"ConnectFailed", 0>>
      BY <1>1, <1>3, <3>3, <3>4, PostedBehind
    <3>6. InLine(recv[s], nread[s]) = 0
      BY <3>1 DEF InLine
    <3>7. InOrder(W, 0, frames[s], wpc[s])
      BY <2>1, <2>3, <3>4, <3>6 DEF Track, Orderly
    <3>8. InOrder(V, 0, frames[s], "failed")
      BY <1>1, <3>5, <3>7, OrderFailed
    <3> QED
      BY <1>1, <2>3, <3>2, <3>3, <3>6, <3>8 DEF Track, Orderly
  <2> QED
    BY <2>2, <2>3
<1> QED
  BY <1>1, <1>2, <1>4 DEF OrderPart

LEMMA OrderRead ==
    ASSUME OrderInv, NEW s \in Sessions, RecvRead(s)
    PROVE  OrderPart'
<1> USE DEF queueVars, historyVars
<1>1. nread \in [Sessions -> Nat] /\ hold \in [Sessions -> Facts]
  BY DEF OrderInv, TickInv, ServerTypes
<1>2. /\ OrderTypes' /\ recv[s] = "read" /\ recv'[s] = "post"
      /\ nread[s] < Len(frames[s]) /\ UNCHANGED <<cur, queue, wpc, handled, frames>>
      /\ nread'[s] = nread[s] + 1 /\ hold'[s] = ReadPacket(frames[s][nread'[s]], nread'[s])
      /\ \A r \in Sessions : r # s => recv'[r] = recv[r] /\ nread'[r] = nread[r] /\ hold'[r] = hold[r]
  BY <1>1 DEF OrderInv, OrderPart, OrderTypes, RecvRead, RecvGoto
<1>3. IdleHand'
  BY DEF OrderInv, OrderPart, IdleHand, RecvRead
<1>4. ASSUME NEW r \in Sessions PROVE Track(r)'
  <2>1. Track(r)
    BY DEF OrderInv, OrderPart
  <2>2. CASE r # s
    BY <1>2, <2>1, <2>2, TrackAlone DEF Alone
  <2>3. CASE r = s
    <3>1. nread[s] \in Nat /\ Len(frames[s]) \in Nat /\ (nread[s] + 1) - 1 = nread[s]
      BY <1>1, LenProperties DEF OrderInv, OrderPart, OrderTypes
    <3>2. /\ \A m \in 1..nread[s] : frames[s][m] # "fatal"
          /\ wpc[s] \in {"greet", "wait", "over"}
      BY <1>2, <2>1, <2>3 DEF Track, Reading, Reads
    <3>3. Reading(s)'
      <4>1. nread[s] + 1 <= Len(frames[s]) /\ nread[s] + 1 > 0
        BY <1>2, <3>1
      <4> QED
        BY <1>2, <3>1, <3>2, <4>1 DEF Reading, Reads
    <3>4. InLine(recv'[s], nread'[s]) = InLine(recv[s], nread[s])
      BY <1>2, <3>1 DEF InLine
    <3> QED
      BY <1>2, <2>1, <2>3, <3>3, <3>4 DEF Track, Orderly
  <2> QED
    BY <2>2, <2>3
<1> QED
  BY <1>2, <1>3, <1>4 DEF OrderPart

LEMMA OrderPost ==
    ASSUME OrderInv, NEW s \in Sessions, RecvPost(s)
    PROVE  OrderPart'
<1> USE DEF historyVars
<1>1. nread \in [Sessions -> Nat] /\ hold \in [Sessions -> Facts]
  BY DEF OrderInv, TickInv, ServerTypes
<1>2. /\ OrderTypes' /\ recv[s] = "post"
      /\ recv'[s] = (IF hold[s][1] = "Closed" THEN "over" ELSE "read")
      /\ UNCHANGED <<cur, wpc, handled, frames, nread, hold>>
      /\ \A r \in Sessions : r # s => recv'[r] = recv[r]
  BY <1>1 DEF OrderInv, OrderPart, OrderTypes, RecvPost, RecvGoto
<1>3. IdleHand'
  BY DEF OrderInv, OrderPart, IdleHand, RecvPost
<1>4. hold[s] \in Facts /\ Post(Event(s, hold[s]))
  BY <1>1 DEF RecvPost
<1>5. ASSUME NEW r \in Sessions PROVE Track(r)'
  <2>1. Track(r)
    BY DEF OrderInv, OrderPart
  <2>2. CASE r # s
    <3>1. Alone(r)
      BY <1>2, <2>2 DEF Alone
    <3> QED
      BY <1>2, <1>4, <2>2, <3>1, PostedForOthers
  <2>3. CASE r = s
    <3>1. nread[s] \in Nat /\ frames[s] \in Seq(Frames) /\ Len(frames[s]) \in Nat
      BY <1>1, LenProperties DEF OrderInv, OrderPart, OrderTypes
    <3>2. /\ nread[s] <= Len(frames[s]) /\ nread[s] > 0
          /\ hold[s] = ReadPacket(frames[s][nread[s]], nread[s])
          /\ \A m \in 1..(nread[s] - 1) : frames[s][m] # "fatal"
          /\ wpc[s] \in {"greet", "wait", "over"}
      BY <1>2, <2>1, <2>3 DEF Track, Reading, Reads
    <3>3. recv'[s] = "read" => \A m \in 1..nread[s] : frames[s][m] # "fatal"
      <4> SUFFICES ASSUME recv'[s] = "read", NEW m \in 1..nread[s] PROVE frames[s][m] # "fatal"
        OBVIOUS
      <4>1. hold[s][1] # "Closed"
        BY <1>2
      <4>2. frames[s][nread[s]] = "text"
        BY <3>2, <4>1 DEF ReadPacket
      <4>3. m = nread[s] \/ m \in 1..(nread[s] - 1)
        BY <3>1
      <4> QED
        BY <3>2, <4>2, <4>3
    <3>4. recv'[s] \in {"read", "over"}
      BY <1>2
    <3>5. Reading(s)'
      BY <1>2, <3>2, <3>3, <3>4 DEF Reading, Reads
    <3>6. PICK n \in Nat : n = nread[s] - 1 /\ n + 1 = nread[s]
      BY <3>1, <3>2
    <3>7. InLine(recv[s], nread[s]) = n /\ InLine(recv'[s], nread'[s]) = n + 1
      BY <1>2, <3>4, <3>6 DEF InLine
    <3>8. PICK V : V = Said(handled'[s], cur', queue', s)
      OBVIOUS
    <3>9. PICK W : W = Said(handled[s], cur, queue, s)
      OBVIOUS
    <3>10. PICK p : OneMore(V, W, p) /\ V[p] = hold[s]
      BY <1>2, <1>4, <3>8, <3>9, PostedBehind
    <3>11. InOrder(W, n, frames[s], wpc[s])
      BY <2>1, <2>3, <3>7, <3>9 DEF Track, Orderly
    <3>12. Numbered(V[p]) /\ V[p] \in Facts /\ V[p] = ReadPacket(frames[s][n + 1], n + 1)
      BY <1>4, <3>2, <3>6, <3>10 DEF Numbered, ReadPacket
    <3>13. wpc[s] # "failed"
      BY <3>2
    <3>14. InOrder(V, n + 1, frames[s], wpc[s])
      BY <3>10, <3>11, <3>12, <3>13, OrderNumbered
    <3> QED
      BY <1>2, <2>3, <3>5, <3>7, <3>8, <3>14 DEF Track, Orderly
  <2> QED
    BY <2>2, <2>3
<1> QED
  BY <1>2, <1>3, <1>5 DEF OrderPart

LEMMA OrderRemote ==
    ASSUME OrderInv, NEW s \in Sessions, NEW x \in Frames, RemoteSends(s, x)
    PROVE  OrderPart'
<1> USE DEF queueVars, recvVars
<1>1. nread \in [Sessions -> Nat] /\ frames[s] \in Seq(Frames) /\ Len(frames[s]) \in Nat
  BY LenProperties DEF OrderInv, OrderPart, OrderTypes, TickInv, ServerTypes
<1>2. PICK g : g = Append(frames[s], x)
  OBVIOUS
<1>3. /\ g \in Seq(Frames) /\ Len(g) = Len(frames[s]) + 1
      /\ \A i \in 1..Len(frames[s]) : g[i] = frames[s][i]
  BY <1>1, <1>2, AppendProperties
<1>4. /\ OrderTypes' /\ frames'[s] = g
      /\ \A r \in Sessions : r # s => frames'[r] = frames[r]
      /\ UNCHANGED <<cur, queue, wpc, handled, recv, nread, hold>>
  BY <1>2, <1>3 DEF OrderInv, OrderPart, OrderTypes, RemoteSends
<1>5. IdleHand'
  BY DEF OrderInv, OrderPart, IdleHand, RemoteSends
<1>6. ASSUME NEW r \in Sessions PROVE Track(r)'
  <2>1. Track(r)
    BY DEF OrderInv, OrderPart
  <2>2. CASE r # s
    BY <1>4, <2>1, <2>2, TrackAlone DEF Alone
  <2>3. CASE r = s
    <3>1. nread[s] \in Nat /\ nread[s] <= Len(frames[s])
      BY <1>1, <2>1, <2>3 DEF Track, Reading, Reads
    <3>2. \A i \in 1..nread[s] : g[i] = frames[s][i]
      BY <1>1, <1>3, <3>1
    <3>3. Reading(s)'
      <4>1. Reads(nread[s], frames[s], wpc[s], recv[s], hold[s])
        BY <2>1, <2>3 DEF Track, Reading
      <4>2. nread[s] <= Len(g) /\ \A m \in 1..(nread[s] - 1) : m \in 1..nread[s]
        BY <1>1, <1>3, <3>1
      <4>3. nread[s] > 0 => nread[s] \in 1..nread[s]
        BY <3>1
      <4>4. Reads(nread[s], g, wpc[s], recv[s], hold[s])
        BY <3>2, <4>1, <4>2, <4>3 DEF Reads
      <4> QED
        BY <1>4, <4>4 DEF Reading
    <3>4. PICK n : n = InLine(recv[s], nread[s])
      OBVIOUS
    <3>5. n \in 0..Len(frames[s])
      <4>1. recv[s] = "post" => nread[s] > 0
        BY <2>1, <2>3 DEF Track, Reading, Reads
      <4> QED
        BY <1>1, <3>1, <3>4, <4>1 DEF InLine
    <3>6. InOrder(Said(handled[s], cur, queue, s), n, frames[s], wpc[s])
      BY <2>1, <2>3, <3>4 DEF Track, Orderly
    <3>7. InOrder(Said(handled[s], cur, queue, s), n, g, wpc[s])
      BY <1>1, <1>2, <3>5, <3>6, OrderSent
    <3> QED
      BY <1>4, <2>3, <3>3, <3>4, <3>7 DEF Track, Orderly
  <2> QED
    BY <2>2, <2>3
<1> QED
  BY <1>4, <1>5, <1>6 DEF OrderPart

LEMMA OrderInit == Init => OrderPart
<1> SUFFICES ASSUME Init PROVE OrderPart
  OBVIOUS
<1> USE DEF Init, QueueInit, TimerInit, WebSocketInit
<1>1. OrderTypes
  BY DEF OrderTypes
<1>2. IdleHand
  BY DEF IdleHand
<1>3. ASSUME NEW s \in Sessions PROVE Track(s)
  <2>1. /\ handled[s] = <<>> /\ frames[s] = <<>> /\ cur = NoCallback /\ queue = <<>>
        /\ nread[s] = 0 /\ recv[s] = "off" /\ wpc[s] = "none"
    OBVIOUS
  <2>2. Reading(s)
    BY <2>1 DEF Reading, Reads
  <2>3. NoCallback \notin EventsOf(s)
    BY EventAssumption DEF EventsOf
  <2>4. PICK W : W = Said(<<>>, NoCallback, <<>>, s)
    OBVIOUS
  <2>5. DOMAIN W = {}
    BY <2>3, <2>4 DEF Said, Line, At
  <2>6. InLine(recv[s], nread[s]) = 0
    BY <2>1 DEF InLine
  <2>7. InOrder(W, 0, frames[s], wpc[s])
    BY <2>5 DEF InOrder
  <2> QED
    BY <2>1, <2>2, <2>4, <2>6, <2>7 DEF Track, Orderly
<1> QED
  BY <1>1, <1>2, <1>3 DEF OrderPart

LEMMA OrderStep == OrderInv /\ [Next]_vars => OrderPart'
<1> SUFFICES ASSUME OrderInv, [Next]_vars PROVE OrderPart'
  OBVIOUS
<1>0. IdleHand
  BY DEF OrderInv, OrderPart
<1>1. CASE Main \/ Quits
  <2>1. IdleHand' /\ UNCHANGED <<cur, queue, wsVars>>
    BY <1>0, <1>1 DEF Main, Quits, StartLoop, StopLoop, CallbackStopsLoop, IdleHand
  <2> QED
    BY <2>1, OrderAlone
<1>2. CASE LoopStep
  <2>1. CASE LoopCall /\ UNCHANGED <<timerVars, wsVars>>
    BY <2>1, OrderCalled
  <2>2. CASE CallbackDone /\ UNCHANGED <<timerVars, wsVars>>
    <3>1. IdleHand' /\ UNCHANGED <<cur, queue, wsVars>>
      BY <1>0, <2>2 DEF CallbackDone, IdleHand
    <3> QED
      BY <3>1, OrderAlone
  <2>3. ASSUME NEW l \in Loops, TickCallback(l), UNCHANGED wsVars PROVE OrderPart'
    <3>1. CASE TickStops(l) \/ TickNextLoop(l)
      <4>1. IdleHand' /\ UNCHANGED <<cur, queue>>
        BY <1>0, <3>1 DEF TickStops, TickNextLoop, InTick, IdleHand
      <4> QED
        BY <2>3, <4>1, OrderAlone
    <3>2. CASE NextLoop(l)
      <4>1. IdleHand' /\ cur' = cur /\ Post(Tick(l, TRUE))
        BY <1>0, <3>2 DEF NextLoop, IdleHand
      <4> QED
        BY <2>3, <4>1, OrderTick
    <3>3. CASE TickEnd(l)
      BY <2>3, <3>3, OrderTickEnded
    <3> QED
      BY <2>3, <3>1, <3>2, <3>3 DEF TickCallback
  <2>4. CASE EventEnd /\ UNCHANGED timerVars
    BY <2>4, OrderEventEnded
  <2> QED
    BY <1>2, <2>1, <2>2, <2>3, <2>4 DEF LoopStep
<1>3. CASE PeerStart
  <2>1. CASE AcceptorStart
    <3>1. UNCHANGED <<queueVars, recvVars, historyVars, wpc>>
      BY <2>1 DEF AcceptorStart
    <3>2. OrderTypes' /\ IdleHand'
      BY <3>1 DEF OrderInv, OrderPart, OrderTypes, IdleHand, queueVars, recvVars, historyVars
    <3>3. ASSUME NEW s \in Sessions PROVE Track(s)'
      <4>1. Alone(s) /\ handled'[s] = handled[s] /\ UNCHANGED <<cur, queue>> /\ Track(s)
        BY <3>1 DEF OrderInv, OrderPart, Alone, queueVars, recvVars, historyVars
      <4> QED
        BY <4>1, TrackAlone
    <3> QED
      BY <3>2, <3>3 DEF OrderPart
  <2>2. ASSUME NEW s \in Sessions, Upgrade(s) PROVE OrderPart'
    <3>1. wpc[s] = "none" /\ WsGoto(s, "add") /\ UNCHANGED <<queueVars, recvVars, historyVars>>
      BY <2>2 DEF Upgrade
    <3> QED
      BY <3>1, OrderMade
  <2>3. ASSUME NEW s \in Sessions, ConnectorStart(s) PROVE OrderPart'
    <3>1. wpc[s] = "none" /\ WsGoto(s, "run") /\ UNCHANGED <<queueVars, recvVars, historyVars>>
      BY <2>3 DEF ConnectorStart
    <3> QED
      BY <3>1, OrderMade
  <2> QED
    BY <1>3, <2>1, <2>2, <2>3 DEF PeerStart
<1>4. CASE Remote
  BY <1>4, OrderRemote DEF Remote
<1>5. ASSUME NEW l \in Loops, TimerFires(l) PROVE OrderPart'
  <2>1. IdleHand' /\ cur' = cur /\ Post(Tick(l, FALSE)) /\ UNCHANGED wsVars
    BY <1>0, <1>5 DEF TimerFires, AfterPost, IdleHand
  <2> QED
    BY <2>1, OrderTick
<1>6. ASSUME NEW l \in Loops, NEW u \in Starters, StartRest(u, l) \/ TimerUser(u, l)
      PROVE  OrderPart'
  <2>1. UNCHANGED <<queueVars, wsVars>>
    BY <1>6 DEF StartRest, TimerUser, StartPost, StartSet, StartTest, UserStop
  <2>2. IdleHand' /\ UNCHANGED <<cur, queue, wsVars>>
    BY <1>0, <2>1 DEF queueVars, IdleHand
  <2> QED
    BY <2>2, OrderAlone
<1>7. ASSUME NEW s \in Sessions, MakeSession(s) PROVE OrderPart'
  <2>1. CASE connectRun(s)
    <3>1. wpc[s] = "run" /\ WsGoto(s, "dial") /\ UNCHANGED <<queueVars, recvVars, historyVars>>
      BY <2>1 DEF connectRun
    <3> QED
      BY <3>1, OrderMade
  <2>2. CASE Dial(s)
    <3>1. PICK v \in {"add", "fail"} : WsGoto(s, v)
      BY <2>2 DEF Dial
    <3>2. wpc[s] = "dial" /\ UNCHANGED <<queueVars, recvVars, historyVars>>
      BY <2>2 DEF Dial
    <3> QED
      BY <3>1, <3>2, OrderMade
  <2>3. CASE ConnectFails(s)
    BY <2>3, OrderConnectFails
  <2>4. CASE SessionAdd(s)
    <3>1. wpc[s] = "add" /\ WsGoto(s, "start") /\ UNCHANGED <<queueVars, recvVars, historyVars>>
      BY <2>4 DEF SessionAdd
    <3> QED
      BY <3>1, OrderMade
  <2>5. CASE run(s)
    BY <2>5, OrderRun
  <2>6. CASE Greet(s)
    BY <2>6, OrderGreet
  <2> QED
    BY <1>7, <2>1, <2>2, <2>3, <2>4, <2>5, <2>6 DEF MakeSession
<1>8. ASSUME NEW s \in Sessions, recvThread(s) PROVE OrderPart'
  BY <1>8, OrderRead, OrderPost DEF recvThread
<1>9. CASE UNCHANGED vars
  <2>1. IdleHand' /\ UNCHANGED <<cur, queue, wsVars>>
    BY <1>0, <1>9 DEF vars, queueVars, IdleHand
  <2> QED
    BY <2>1, OrderAlone
<1> QED
  BY <1>1, <1>2, <1>3, <1>4, <1>5, <1>6, <1>7, <1>8, <1>9 DEF Next

\* From the line to what is handled.
LEMMA OrderToldOf ==
    ASSUME OrderInv, NEW s \in Sessions
    PROVE  LET told == {i \in DOMAIN handled[s] : ~IsGreeting(handled[s][i])}
               number(i) == handled[s][i][2]
           IN  /\ \A i, j \in DOMAIN handled[s] \ told : i = j
               /\ \/ handled[s] = <<<<"ConnectFailed", 0>>>>
                  \/ /\ \A i \in told : /\ number(i) \in DOMAIN Expected(s)
                                        /\ handled[s][i] = Expected(s)[number(i)]
                     /\ \A i, j \in told : i < j => number(i) < number(j)
                     /\ \A i \in told : \A n \in 1..number(i) : \E j \in told : number(j) = n
<1>1. PICK h : h = handled[s]
  OBVIOUS
<1>2. PICK W : W = Said(handled[s], cur, queue, s)
  OBVIOUS
<1>3. PICK k : k = InLine(recv[s], nread[s])
  OBVIOUS
<1>4. /\ queue \in Seq(Callbacks) /\ h \in Seq(Facts) /\ nread[s] \in Nat
      /\ frames[s] \in Seq(Frames) /\ Track(s)
  BY <1>1 DEF OrderInv, OrderPart, OrderTypes, TickInv, ServerTypes
<1>5. Len(h) \in Nat /\ DOMAIN h = 1..Len(h) /\ DOMAIN frames[s] = 1..Len(frames[s]) /\ Len(frames[s]) \in Nat
  BY <1>4, LenProperties
<1>6. InOrder(W, k, frames[s], wpc[s])
  BY <1>2, <1>3, <1>4 DEF Track, Orderly
<1>7. \A i \in DOMAIN h : i \in Int /\ i - Len(h) \in DOMAIN W /\ W[i - Len(h)] = h[i]
  <2>1. \A i \in DOMAIN h : i - Len(h) \in DOMAIN W /\ W[i - Len(h)] = h[i]
    BY <1>1, <1>2, <1>4, SaidHandled
  <2> QED
    BY <1>5, <2>1
<1>8. \A i, j \in DOMAIN h : IsGreeting(h[i]) /\ IsGreeting(h[j]) => i = j
  <2> SUFFICES ASSUME NEW i \in DOMAIN h, NEW j \in DOMAIN h, IsGreeting(h[i]), IsGreeting(h[j])
               PROVE  i = j
    OBVIOUS
  <2>1. i - Len(h) = j - Len(h)
    BY <1>6, <1>7 DEF InOrder
  <2> QED
    BY <1>5, <1>7, <2>1
<1>9. ASSUME NEW i \in DOMAIN h, h[i][1] = "ConnectFailed"
      PROVE  h = <<<<"ConnectFailed", 0>>>>
  <2>1. h[i] = <<"ConnectFailed", 0>> /\ DOMAIN W = {i - Len(h)}
    BY <1>6, <1>7, <1>9 DEF InOrder
  <2>2. \A j \in DOMAIN h : j = i
    <3> SUFFICES ASSUME NEW j \in DOMAIN h PROVE j = i
      OBVIOUS
    <3>1. j - Len(h) = i - Len(h)
      BY <1>7, <2>1
    <3> QED
      BY <1>5, <1>7, <3>1
  <2>3. Len(h) = 1 /\ i = 1
    <3>1. Len(h) \in DOMAIN h /\ 1 \in DOMAIN h
      BY <1>5
    <3> QED
      BY <2>2, <3>1
  <2> QED
    BY <1>4, <2>1, <2>3
<1>10. ASSUME \A i \in DOMAIN h : h[i][1] # "ConnectFailed"
       PROVE  \A i \in DOMAIN h : ~IsGreeting(h[i]) => Numbered(h[i])
  <2>1. \A i \in DOMAIN h : h[i] \in Facts /\ h[i][1] # "none"
    BY <1>6, <1>7 DEF InOrder
  <2> QED
    BY <1>10, <2>1 DEF Facts, IsGreeting, Numbered
<1>11. ASSUME NEW n \in 1..k
       PROVE  n \in DOMAIN Expected(s) /\ Expected(s)[n] = ReadPacket(frames[s][n], n)
  <2>1. /\ nread[s] <= Len(frames[s]) /\ \A m \in 1..(nread[s] - 1) : frames[s][m] # "fatal"
        /\ recv[s] = "post" => nread[s] > 0
    BY <1>4 DEF Track, Reading, Reads
  <2>2. k \in Nat /\ k <= nread[s]
    BY <1>3, <1>4, <2>1 DEF InLine
  <2>3. n \in DOMAIN frames[s] /\ \A m \in 1..(n - 1) : m \in 1..(nread[s] - 1)
    BY <1>4, <1>5, <2>1, <2>2
  <2> QED
    BY <2>1, <2>3 DEF Expected
<1>12. \A i \in DOMAIN h : Numbered(h[i]) => /\ h[i][2] \in 1..k
                                             /\ h[i] = ReadPacket(frames[s][h[i][2]], h[i][2])
  BY <1>6, <1>7 DEF InOrder
<1>13. ASSUME NEW i \in DOMAIN h, NEW j \in DOMAIN h, Numbered(h[i]), Numbered(h[j]), i < j
       PROVE  h[i][2] < h[j][2]
  <2>1. i - Len(h) < j - Len(h)
    BY <1>5, <1>7, <1>13
  <2> QED
    BY <1>6, <1>7, <1>13, <2>1 DEF InOrder
<1>14. ASSUME NEW i \in DOMAIN h, Numbered(h[i]), NEW n \in 1..h[i][2]
       PROVE  \E j \in DOMAIN h : Numbered(h[j]) /\ h[j][2] = n
  <2>0. k \in Int
    <3>1. nread[s] \in Int
      BY <1>4
    <3> QED
      BY <1>3, <3>1 DEF InLine
  <2>1. h[i][2] \in 1..k /\ n \in 1..k
    BY <1>12, <1>14, <2>0
  <2>2. PICK p \in DOMAIN W : Numbered(W[p]) /\ W[p][2] = n
    BY <1>6, <2>1 DEF InOrder
  <2>3. p \in Int /\ p \in Line(h, queue) /\ At(h, cur, queue, s, p) \in EventsOf(s)
        /\ W[p] = At(h, cur, queue, s, p).what
    BY <1>1, <1>2, <1>4, <2>2, SaidWhere
  <2>4. p <= 0
    <3> SUFFICES ASSUME p > 0 PROVE FALSE
      BY <2>3
    <3>1. i - Len(h) < p /\ i - Len(h) \in DOMAIN W /\ W[i - Len(h)] = h[i]
      BY <1>5, <1>7, <2>3
    <3>2. h[i][2] < n
      BY <1>6, <1>14, <2>2, <3>1 DEF InOrder
    <3> QED
      BY <2>0, <2>1, <3>2
  <2>5. PICK j : j = p + Len(h)
    OBVIOUS
  <2>6. j \in DOMAIN h /\ j - Len(h) = p
    BY <1>5, <2>3, <2>4, <2>5 DEF Line
  <2>7. h[j] = W[p]
    BY <1>7, <2>6
  <2> QED
    BY <2>2, <2>6, <2>7
<1>15. \A i \in DOMAIN h : Numbered(h[i]) => ~IsGreeting(h[i])
  BY DEF Numbered, IsGreeting
<1>16. CASE \E i \in DOMAIN h : h[i][1] = "ConnectFailed"
  <2>1. handled[s] = <<<<"ConnectFailed", 0>>>>
    BY <1>1, <1>9, <1>16
  <2> QED
    BY <1>1, <1>8, <2>1
<1>17. CASE \A i \in DOMAIN h : h[i][1] # "ConnectFailed"
  <2>1. \A i \in DOMAIN h : ~IsGreeting(h[i]) <=> Numbered(h[i])
    BY <1>10, <1>15, <1>17
  <2>2. \A i \in DOMAIN h : ~IsGreeting(h[i]) => /\ h[i][2] \in DOMAIN Expected(s)
                                                 /\ h[i] = Expected(s)[h[i][2]]
    BY <1>11, <1>12, <2>1
  <2>3. \A i, j \in DOMAIN h : ~IsGreeting(h[i]) /\ ~IsGreeting(h[j]) /\ i < j => h[i][2] < h[j][2]
    BY <1>13, <2>1
  <2>4. \A i \in DOMAIN h : ~IsGreeting(h[i]) =>
            \A n \in 1..h[i][2] : \E j \in DOMAIN h : ~IsGreeting(h[j]) /\ h[j][2] = n
    BY <1>14, <2>1
  <2> QED
    BY <1>1, <1>8, <2>2, <2>3, <2>4
<1> QED
  BY <1>16, <1>17

\* Whatever else posts to the queue, however full it is and however two
\* goroutines of a session interleave, its callbacks are told of its frames in
\* their order, each once and none left out, then of its end, once and last,
\* and once of its beginning (websocket/session.go, event.go, queue.go).
THEOREM ToldInOrder == Spec => []EventsInOrder
<1>1. Init => OrderInv
  BY TickInit, OrderInit DEF OrderInv
<1>2. OrderInv /\ [Next]_vars => OrderInv'
  BY TickStep, OrderStep DEF OrderInv
<1>3. OrderInv => EventsInOrder
  BY OrderToldOf DEF EventsInOrder
<1> QED
  BY <1>1, <1>2, <1>3, PTL DEF Spec

=============================================================================
