------------------------ MODULE SocketSessionProofs ------------------------
(***************************************************************************)
(* For any messages, serials, network capacity and number of calls: what   *)
(* OnClose may rely on, that Close flushes, the types, and that a prefix   *)
(* of what was sent is delivered.                                          *)
(***************************************************************************)
EXTENDS SocketSession, WellFoundedInduction, SequenceTheorems, FiniteSetTheorems, TLAPS

(***************************************************************************)
(* Facts about the lists of NilList.                                       *)
(***************************************************************************)

\* The reader of a list stops at the first nil: FirstNil
\* is an index of the list, a nil stands there and none before it.
LEMMA FirstNilProperties ==
    ASSUME NEW s, Len(s) \in Nat, HasNil(s)
    PROVE  /\ FirstNil(s) \in 1..Len(s)
           /\ s[FirstNil(s)] = Nil
           /\ \A j \in 1..(FirstNil(s) - 1) : s[j] # Nil
<1> DEFINE N == {i \in 1..Len(s) : s[i] = Nil}
<1>1. N # {} /\ N \in SUBSET Nat
  BY DEF HasNil
<1>2. PICK n \in N : \A m \in N : n <= m
  <2> DEFINE LessThan == OpToRel(<, Nat)
  <2>1. \A m, n \in Nat : m < n => <<m, n>> \in LessThan
    BY DEF OpToRel
  <2>2. IsWellFoundedOn(LessThan, Nat)
    BY NatLessThanWellFounded
  <2> HIDE DEF LessThan
  <2> HIDE DEF N
  <2>3. PICK n \in N : \A m \in N : ~(<<m, n>> \in LessThan)
    BY <1>1, <2>2, WFMin
  <2>4. ASSUME NEW m \in N PROVE n <= m
    <3>1. m \in Nat /\ n \in Nat /\ ~(<<m, n>> \in LessThan)
      BY <1>1, <2>3
    <3>2. ~(m < n)
      BY <2>1, <3>1
    <3> QED
      BY <3>1, <3>2
  <2> QED
    BY <2>4
<1>3. n \in 1..Len(s) /\ s[n] = Nil /\ \A j \in 1..(n - 1) : s[j] # Nil
  BY <1>2
<1> QED
  BY <1>3 DEF FirstNil

\* The batch Pick returns holds events of the list and never the nil.
LEMMA BeforeNilType ==
    ASSUME NEW s \in Seq(Items)
    PROVE  BeforeNil(s) \in Seq(Events)
<1>1. CASE HasNil(s)
  <2> DEFINE k == FirstNil(s) - 1
  <2>1. k \in Nat /\ k < Len(s) /\ \A j \in 1..k : s[j] # Nil
    BY <1>1, FirstNilProperties, LenProperties
  <2>2. \A j \in 1..k : s[j] \in Events
    BY <2>1, ElementOfSeq DEF Items
  <2>3. SubSeq(s, 1, k) = [j \in 1..k |-> s[j]]
    BY <2>1
  <2>4. SubSeq(s, 1, k) \in Seq(Events)
    BY <2>1, <2>2, <2>3
  <2> QED
    BY <1>1, <2>4 DEF BeforeNil
<1>2. CASE ~HasNil(s)
  <2>1. \A j \in 1..Len(s) : s[j] \in Events
    BY <1>2, ElementOfSeq DEF Items, HasNil
  <2> QED
    BY <1>2, <2>1 DEF BeforeNil
<1> QED
  BY <1>1, <1>2

\* The first nil is the only index with a nil on it and none before it.
LEMMA FirstNilUnique ==
    ASSUME NEW s, Len(s) \in Nat, NEW i \in 1..Len(s),
           s[i] = Nil, \A j \in 1..(i - 1) : s[j] # Nil
    PROVE  HasNil(s) /\ FirstNil(s) = i
<1>1. HasNil(s)
  BY DEF HasNil
<1>2. /\ FirstNil(s) \in 1..Len(s)
      /\ s[FirstNil(s)] = Nil
      /\ \A j \in 1..(FirstNil(s) - 1) : s[j] # Nil
  BY <1>1, FirstNilProperties
<1> QED
  BY <1>1, <1>2

\* What is added behind a nil changes nothing for the reader of the list.
LEMMA AppendBehindNil ==
    ASSUME NEW s \in Seq(Items), NEW x \in Items, HasNil(s)
    PROVE  /\ HasNil(Append(s, x))
           /\ BeforeNil(Append(s, x)) = BeforeNil(s)
<1> DEFINE t == Append(s, x)
           k == FirstNil(s)
<1>1. /\ t \in Seq(Items) /\ Len(t) = Len(s) + 1 /\ Len(s) \in Nat
      /\ \A i \in 1..Len(s) : t[i] = s[i]
  BY AppendProperties, LenProperties
<1>2. k \in 1..Len(s) /\ s[k] = Nil /\ \A j \in 1..(k - 1) : s[j] # Nil
  BY <1>1, FirstNilProperties
<1> HIDE DEF t, k
<1>3. k \in 1..Len(t) /\ t[k] = Nil /\ \A j \in 1..(k - 1) : t[j] # Nil
  BY <1>1, <1>2
<1>4. HasNil(t) /\ FirstNil(t) = k
  BY <1>1, <1>3, FirstNilUnique
<1>5. SubSeq(t, 1, k - 1) = SubSeq(s, 1, k - 1)
  BY <1>1, <1>2
<1>6. BeforeNil(t) = SubSeq(t, 1, k - 1)
  BY <1>4 DEF BeforeNil
<1>7. BeforeNil(s) = SubSeq(s, 1, k - 1)
  BY DEF BeforeNil, k
<1> QED
  BY <1>4, <1>5, <1>6, <1>7 DEF t

\* Events in front of a list are read before it.
LEMMA EventsInFront ==
    ASSUME NEW s \in Seq(Events), NEW t \in Seq(Items)
    PROVE  /\ HasNil(s \o t) <=> HasNil(t)
           /\ BeforeNil(s \o t) = s \o BeforeNil(t)
<1> DEFINE c == s \o t
<1>1. /\ Len(c) = Len(s) + Len(t) /\ Len(s) \in Nat /\ Len(t) \in Nat
      /\ \A i \in 1..Len(s) : c[i] = s[i]
      /\ \A i \in 1..Len(t) : c[Len(s) + i] = t[i]
  OBVIOUS
<1>2. \A i \in 1..Len(s) : s[i] # Nil
  BY NilAssumption, ElementOfSeq
<1> HIDE DEF c
<1>3. CASE HasNil(t)
  <2>1. PICK k \in 1..Len(t) : /\ k = FirstNil(t) /\ t[k] = Nil
                               /\ \A j \in 1..(k - 1) : t[j] # Nil
    BY <1>1, <1>3, FirstNilProperties
  <2>2. PICK n \in 1..Len(c) : n = Len(s) + k
    BY <1>1, <2>1
  <2>3. ASSUME NEW j \in 1..(n - 1) PROVE c[j] # Nil
    <3>1. CASE j <= Len(s)
      BY <1>1, <1>2, <3>1
    <3>2. CASE j > Len(s)
      <4>1. j - Len(s) \in 1..(k - 1) /\ j - Len(s) \in 1..Len(t)
            /\ Len(s) + (j - Len(s)) = j
        BY <1>1, <2>1, <2>2, <3>2
      <4> QED
        BY <1>1, <2>1, <4>1
    <3> QED
      BY <1>1, <2>1, <2>2, <3>1, <3>2
  <2>4. c[n] = Nil
    BY <1>1, <2>1, <2>2
  <2>5. HasNil(c) /\ FirstNil(c) = n
    <3>1. Len(c) \in Nat
      BY <1>1
    <3>2. \A j \in 1..(n - 1) : c[j] # Nil
      BY <2>3
    <3> QED
      BY <2>4, <3>1, <3>2, FirstNilUnique
  <2>6. SubSeq(c, 1, n - 1) = s \o SubSeq(t, 1, k - 1)
    <3> DEFINE a == SubSeq(c, 1, n - 1)
               u == SubSeq(t, 1, k - 1)
               b == s \o u
    <3>1. s \in Seq(Items) /\ c \in Seq(Items)
      BY ConcatProperties DEF Items, c
    <3>2. a \in Seq(Items) /\ Len(a) = n - 1 /\ \A i \in 1..(n - 1) : a[i] = c[i]
      BY <1>1, <2>2, <3>1
    <3>3. u \in Seq(Items) /\ Len(u) = k - 1 /\ \A i \in 1..(k - 1) : u[i] = t[i]
      BY <1>1, <2>1
    <3> HIDE DEF a, u
    <3>4. /\ b \in Seq(Items) /\ Len(b) = n - 1
          /\ \A i \in 1..(n - 1) : b[i] = IF i <= Len(s) THEN s[i] ELSE u[i - Len(s)]
      BY <1>1, <2>1, <2>2, <3>1, <3>3, ConcatProperties
    <3> HIDE DEF b
    <3>5. ASSUME NEW i \in 1..(n - 1) PROVE a[i] = b[i]
      <4>1. CASE i <= Len(s)
        BY <1>1, <3>2, <3>4, <4>1
      <4>2. CASE i > Len(s)
        <5>1. /\ i - Len(s) \in 1..(k - 1) /\ i - Len(s) \in 1..Len(t)
              /\ Len(s) + (i - Len(s)) = i
          BY <1>1, <2>1, <2>2, <4>2
        <5> QED
          BY <1>1, <3>2, <3>3, <3>4, <4>2, <5>1
      <4> QED
        BY <1>1, <2>2, <4>1, <4>2
    <3>6. a = b
      BY <2>2, <3>2, <3>4, <3>5, SeqEqual
    <3> QED
      BY <3>6 DEF a, b, u
  <2>7. BeforeNil(c) = s \o BeforeNil(t)
    BY <1>3, <2>1, <2>5, <2>6 DEF BeforeNil
  <2> QED
    BY <1>3, <2>5, <2>7, Zenon DEF c
<1>4. CASE ~HasNil(t)
  <2>1. ~HasNil(c)
    <3> SUFFICES ASSUME NEW j \in 1..Len(c) PROVE c[j] # Nil
      BY DEF HasNil
    <3>1. CASE j <= Len(s)
      BY <1>1, <1>2, <3>1
    <3>2. CASE j > Len(s)
      <4>1. j - Len(s) \in 1..Len(t) /\ Len(s) + (j - Len(s)) = j
        BY <1>1, <3>2
      <4> QED
        BY <1>1, <1>4, <4>1 DEF HasNil
    <3> QED
      BY <1>1, <3>1, <3>2
  <2> QED
    BY <1>4, <2>1 DEF BeforeNil, c
<1> QED
  BY <1>3, <1>4

\* Appending to a concatenation appends to its second part.
LEMMA AppendToConcat ==
    ASSUME NEW s \in Seq(Items), NEW t \in Seq(Items), NEW x \in Items
    PROVE  Append(s \o t, x) = s \o Append(t, x)
<1>1. s \o t \in Seq(Items) /\ <<x>> \in Seq(Items)
  BY ConcatProperties
<1>2. Append(s \o t, x) = (s \o t) \o <<x>>
  BY <1>1, AppendIsConcat
<1>3. Append(t, x) = t \o <<x>>
  BY AppendIsConcat
<1>4. (s \o t) \o <<x>> = s \o (t \o <<x>>)
  BY <1>1, ConcatAssociative
<1> QED
  BY <1>2, <1>3, <1>4, Zenon

\* Writing the head of a batch moves it behind what has been written.
LEMMA MoveHead ==
    ASSUME NEW S, NEW s \in Seq(S), NEW t \in Seq(S), t # <<>>
    PROVE  Append(s, Head(t)) \o Tail(t) = s \o t
<1>1. Head(t) \in S /\ Tail(t) \in Seq(S)
  BY HeadTailProperties
<1>2. <<Head(t)>> \in Seq(S)
  BY <1>1
<1>3. Append(s, Head(t)) = s \o <<Head(t)>>
  BY <1>1, AppendIsConcat
<1>4. (s \o <<Head(t)>>) \o Tail(t) = s \o (<<Head(t)>> \o Tail(t))
  BY <1>1, <1>2, ConcatAssociative
<1>5. <<Head(t)>> \o Tail(t) = t
  BY <1>1
<1> QED
  BY <1>3, <1>4, <1>5, Zenon

-----------------------------------------------------------------------------

\* A step of the model is a step of one of its actions.
LEMMA NextCases ==
    ASSUME [Next]_vars, NEW P,
           \A e \in Ends : (\E m \in Events : Send(e, m)) \/ Close(e) => P,
           \A e \in Ends : SendArm(e) \/ SendPick(e) => P,
           \A e \in Ends : SendWrite(e) \/ SendFail(e) => P,
           \A e \in Ends : SendLoop(e) \/ SendShut(e) \/ SendEnd(e) => P,
           \A e \in Ends : RecvRead(e) \/ RecvFail(e) => P,
           \A e \in Ends : RecvNotify(e) \/ RecvEnd(e) => P,
           \A e \in Ends : WaitBoth(e) \/ WriteDeadlinePasses(e) => P,
           Lose => P,
           UNCHANGED vars => P
    PROVE  P
BY DEF Next, Logic, SendThread, RecvThread, NetReset, NetFail

-----------------------------------------------------------------------------

(***************************************************************************)
(* Teardown.                                                               *)
(***************************************************************************)

Running(s) == IF s = "done" THEN 0 ELSE 1

\* The WaitGroup counts the threads that are not over, the sendThread closes
\* the socket before its Done, and OnClose is called on a count of zero.
TeardownInv ==
    /\ spc \in [Ends -> {"arm", "pick", "write", "shut", "end", "done"}]
    /\ rpc \in [Ends -> {"read", "notify", "end", "done"}]
    /\ endSync \in [Ends -> 0..2]
    /\ conn \in [Ends -> BOOLEAN]
    /\ closed \in [Ends -> BOOLEAN]
    /\ \A e \in Ends :
          /\ endSync[e] = Running(spc[e]) + Running(rpc[e])
          /\ spc[e] \in {"end", "done"} => ~conn[e]
          /\ closed[e] => endSync[e] = 0

LEMMA TeardownInit == Init => TeardownInv
BY DEF Init, TeardownInv, Running

LEMMA TeardownStep == TeardownInv /\ [Next]_vars => TeardownInv'
<1> SUFFICES ASSUME TeardownInv, [Next]_vars PROVE TeardownInv'
  OBVIOUS
<1> USE DEF TeardownInv, Running, sendVars, recvVars
<1>1. ASSUME NEW e \in Ends, (\E m \in Events : Send(e, m)) \/ Close(e)
      PROVE TeardownInv'
  BY <1>1 DEF Send, Close
<1>2. ASSUME NEW e \in Ends, SendArm(e) \/ SendPick(e) PROVE TeardownInv'
  BY <1>2 DEF SendArm, SendPick
<1>3. ASSUME NEW e \in Ends, SendWrite(e) \/ SendFail(e) PROVE TeardownInv'
  BY <1>3 DEF SendWrite, SendFail, TakeNext
<1>4. ASSUME NEW e \in Ends, SendLoop(e) \/ SendShut(e) \/ SendEnd(e)
      PROVE TeardownInv'
  <2>1. CASE SendLoop(e)
    BY <2>1 DEF SendLoop
  <2>2. CASE SendShut(e)
    BY <2>2 DEF SendShut
  <2>3. CASE SendEnd(e)
    BY <2>3 DEF SendEnd
  <2> QED
    BY <1>4, <2>1, <2>2, <2>3
<1>5. ASSUME NEW e \in Ends, RecvRead(e) \/ RecvFail(e) PROVE TeardownInv'
  BY <1>5 DEF RecvRead, RecvFail
<1>6. ASSUME NEW e \in Ends, RecvNotify(e) \/ RecvEnd(e) PROVE TeardownInv'
  BY <1>6 DEF RecvNotify, RecvEnd
<1>7. ASSUME NEW e \in Ends, WaitBoth(e) \/ WriteDeadlinePasses(e)
      PROVE TeardownInv'
  BY <1>7 DEF WaitBoth, WriteDeadlinePasses
<1>8. CASE Lose
  BY <1>8 DEF Lose
<1>9. CASE UNCHANGED vars
  BY <1>9 DEF vars
<1> QED
  BY <1>1, <1>2, <1>3, <1>4, <1>5, <1>6, <1>7, <1>8, <1>9, NextCases

\* OnClose is called only when both threads are over and the socket is
\* closed (session.go:182-195).
THEOREM OnCloseIsLast == Safe => []TeardownComplete
<1>1. TeardownInv => TeardownComplete
  BY DEF TeardownInv, TeardownComplete, Running
<1> QED
  BY <1>1, TeardownInit, TeardownStep, PTL DEF Safe

-----------------------------------------------------------------------------

(***************************************************************************)
(* Close flushes.  While nothing has failed, what the logic added is what  *)
(* was written, followed by what sendThread holds, followed by what is     *)
(* still in the list; from the moment Pick has met a nil, what was written *)
(* and what sendThread holds are together all that stood in front of it.   *)
(***************************************************************************)

Taken(e) == wrote[e] \o batch[e]

Exiting(e) == \/ spc[e] = "write" /\ willExit[e]
              \/ spc[e] \in {"shut", "end", "done"}

Conserved(e) ==
    ~failed[e] => IF Exiting(e)
                  THEN HasNil(enq[e]) /\ BeforeNil(enq[e]) = Taken(e)
                  ELSE enq[e] = Taken(e) \o sendList[e]

FlushTypes ==
    /\ enq \in [Ends -> Seq(Items)]
    /\ sendList \in [Ends -> Seq(Items)]
    /\ spc \in [Ends -> {"arm", "pick", "write", "shut", "end", "done"}]
    /\ batch \in [Ends -> Seq(Events)]
    /\ wrote \in [Ends -> Seq(Events)]
    /\ willExit \in [Ends -> BOOLEAN]
    /\ failed \in [Ends -> BOOLEAN]
    /\ \A e \in Ends : spc[e] # "write" => batch[e] = <<>>

FlushInv == FlushTypes /\ \A e \in Ends : Conserved(e)

LEMMA FlushInit == Init => FlushInv
<1> SUFFICES ASSUME Init PROVE FlushInv
  OBVIOUS
<1>1. FlushTypes
  BY DEF Init, FlushTypes
<1>2. ASSUME NEW e \in Ends PROVE Conserved(e)
  BY DEF Init, Conserved, Exiting, Taken
<1> QED
  BY <1>1, <1>2 DEF FlushInv

\* What one end does leaves the other end's books alone.
LEMMA OtherEnd ==
    ASSUME NEW e \in Ends, Conserved(e),
           enq'[e] = enq[e], sendList'[e] = sendList[e], spc'[e] = spc[e],
           batch'[e] = batch[e], wrote'[e] = wrote[e],
           willExit'[e] = willExit[e], failed'[e] = failed[e]
    PROVE  Conserved(e)'
BY DEF Conserved, Exiting, Taken

\* sendList.Add, called by Send, by Close and by the recvThread.
LEMMA AddKeeps ==
    ASSUME FlushInv, NEW e \in Ends, NEW x \in Items,
           Add(e, x), UNCHANGED sendVars
    PROVE  FlushInv'
<1> USE DEF FlushInv, sendVars
<1>1. FlushTypes'
  BY AppendProperties DEF FlushTypes, Add
<1>2. ASSUME NEW f \in Ends, f # e PROVE Conserved(f)'
  BY <1>2, OtherEnd DEF Add, FlushTypes
<1>3. Conserved(e)'
  <2>1. /\ enq'[e] = Append(enq[e], x) /\ sendList'[e] = Append(sendList[e], x)
        /\ enq[e] \in Seq(Items) /\ sendList[e] \in Seq(Items)
        /\ Taken(e) \in Seq(Items)
    BY ConcatProperties DEF Add, FlushTypes, Taken, Items
  <2>2. Taken(e)' = Taken(e) /\ Exiting(e)' = Exiting(e) /\ failed'[e] = failed[e]
    BY DEF Taken, Exiting
  <2>3. CASE ~failed[e] /\ Exiting(e)
    BY <2>1, <2>2, <2>3, AppendBehindNil DEF Conserved
  <2>4. CASE ~failed[e] /\ ~Exiting(e)
    <3>1. PICK s \in Seq(Items), t \in Seq(Items) : s = Taken(e) /\ t = sendList[e]
      BY <2>1
    <3>2. Append(s \o t, x) = s \o Append(t, x)
      BY AppendToConcat
    <3>3. enq[e] = Taken(e) \o sendList[e]
      BY <2>4 DEF Conserved
    <3>4. enq'[e] = Taken(e) \o sendList'[e]
      BY <2>1, <3>1, <3>2, <3>3, Zenon
    <3> QED
      BY <2>2, <2>4, <3>4 DEF Conserved
  <2> QED
    BY <2>2, <2>3, <2>4 DEF Conserved
<1> QED
  BY <1>1, <1>2, <1>3

\* sendList.Pick
LEMMA PickKeeps ==
    ASSUME FlushInv, NEW e \in Ends, SendPick(e)
    PROVE  FlushInv'
<1> USE DEF FlushInv
<1>1. BeforeNil(sendList[e]) \in Seq(Events)
  BY BeforeNilType DEF FlushTypes
<1>2. FlushTypes'
  BY <1>1 DEF FlushTypes, SendPick, HasNil
<1>3. ASSUME NEW f \in Ends, f # e PROVE Conserved(f)'
  BY <1>3, OtherEnd DEF SendPick, FlushTypes
<1>4. Conserved(e)'
  <2>1. /\ sendList[e] \in Seq(Items) /\ wrote[e] \in Seq(Events)
        /\ spc[e] = "pick" /\ batch[e] = <<>>
        /\ wrote[e] \o batch[e] = wrote[e]
    BY ConcatEmptySeq DEF FlushTypes, SendPick
  <2>2. /\ spc'[e] = "write" /\ willExit'[e] = HasNil(sendList[e])
        /\ batch'[e] = BeforeNil(sendList[e]) /\ sendList'[e] = <<>>
        /\ enq'[e] = enq[e] /\ wrote'[e] = wrote[e] /\ failed'[e] = failed[e]
    BY DEF SendPick, FlushTypes
  <2>3. ~failed[e] => enq[e] = wrote[e] \o sendList[e]
    BY <2>1 DEF Conserved, Exiting, Taken
  <2>4. CASE ~failed[e] /\ HasNil(sendList[e])
    <3>1. HasNil(enq[e]) /\ BeforeNil(enq[e]) = wrote[e] \o BeforeNil(sendList[e])
      <4>1. /\ HasNil(wrote[e] \o sendList[e]) <=> HasNil(sendList[e])
            /\ BeforeNil(wrote[e] \o sendList[e]) = wrote[e] \o BeforeNil(sendList[e])
        BY <2>1, EventsInFront
      <4>2. enq[e] = wrote[e] \o sendList[e]
        BY <2>3, <2>4
      <4> QED
        BY <2>4, <4>1, <4>2, Zenon
    <3> QED
      BY <2>2, <2>4, <3>1 DEF Conserved, Exiting, Taken
  <2>5. CASE ~failed[e] /\ ~HasNil(sendList[e])
    <3>1. BeforeNil(sendList[e]) = sendList[e]
      BY <2>5 DEF BeforeNil
    <3>2. wrote[e] \o sendList[e] \in Seq(Items)
      BY <2>1, ConcatProperties DEF Items
    <3>3. (wrote[e] \o sendList[e]) \o <<>> = wrote[e] \o sendList[e]
      BY <3>2, ConcatEmptySeq
    <3> QED
      BY <2>2, <2>3, <2>5, <3>1, <3>3 DEF Conserved, Exiting, Taken
  <2> QED
    BY <2>2, <2>4, <2>5 DEF Conserved
<1> QED
  BY <1>2, <1>3, <1>4

\* The write chain, on the next event of the batch.
LEMMA WriteKeeps ==
    ASSUME FlushInv, NEW e \in Ends, SendWrite(e) \/ SendFail(e)
    PROVE  FlushInv'
<1> USE DEF FlushInv
<1>1. /\ spc[e] = "write" /\ batch[e] # <<>> /\ batch'[e] = Tail(batch[e])
      /\ UNCHANGED <<enq, sendList, spc>>
      /\ batch[e] \in Seq(Events) /\ wrote[e] \in Seq(Events)
  BY DEF SendWrite, SendFail, TakeNext, FlushTypes
<1>2. Head(batch[e]) \in Events /\ Tail(batch[e]) \in Seq(Events)
  BY <1>1, HeadTailProperties
<1>3. ASSUME NEW f \in Ends, f # e PROVE Conserved(f)'
  BY <1>3, OtherEnd DEF SendWrite, SendFail, TakeNext, FlushTypes
<1>4. CASE SendWrite(e)
  <2>1. FlushTypes'
    BY <1>1, <1>2, <1>4, AppendProperties DEF FlushTypes, SendWrite, TakeNext
  <2>2. /\ wrote'[e] = Append(wrote[e], Head(batch[e]))
        /\ willExit'[e] = willExit[e] /\ failed'[e] = failed[e]
    BY <1>4 DEF FlushTypes, SendWrite
  <2>3. Append(wrote[e], Head(batch[e])) \o Tail(batch[e]) = wrote[e] \o batch[e]
    BY <1>1, MoveHead, Zenon
  <2>4. Taken(e)' = Taken(e) /\ Exiting(e)' = Exiting(e)
    BY <1>1, <2>2, <2>3 DEF Taken, Exiting
  <2>5. Conserved(e)'
    BY <1>1, <2>2, <2>4 DEF Conserved
  <2> QED
    BY <1>3, <2>1, <2>5
<1>5. CASE SendFail(e)
  <2>1. FlushTypes' /\ failed'[e]
    BY <1>1, <1>2, <1>5 DEF FlushTypes, SendFail, TakeNext
  <2> QED
    BY <1>3, <2>1 DEF Conserved
<1> QED
  BY <1>4, <1>5

\* The other steps of sendThread.
LEMMA LoopKeeps ==
    ASSUME FlushInv, NEW e \in Ends,
           SendArm(e) \/ SendLoop(e) \/ SendShut(e) \/ SendEnd(e)
    PROVE  FlushInv'
<1> USE DEF FlushInv
<1>1. /\ UNCHANGED <<enq, sendList, batch, wrote, willExit, failed>>
      /\ FlushTypes'
  BY DEF SendArm, SendLoop, SendShut, SendEnd, FlushTypes
<1>2. ASSUME NEW f \in Ends, f # e PROVE Conserved(f)'
  BY <1>1, <1>2, OtherEnd DEF SendArm, SendLoop, SendShut, SendEnd, FlushTypes
<1>3. Taken(e)' = Taken(e) /\ Exiting(e)' = Exiting(e)
  BY <1>1 DEF Taken, Exiting, SendArm, SendLoop, SendShut, SendEnd, FlushTypes
<1>4. Conserved(e)'
  BY <1>1, <1>3 DEF Conserved
<1> QED
  BY <1>1, <1>2, <1>4

LEMMA FlushStep == FlushInv /\ [Next]_vars => FlushInv'
<1> SUFFICES ASSUME FlushInv, [Next]_vars PROVE FlushInv'
  OBVIOUS
<1>1. ASSUME NEW e \in Ends, (\E m \in Events : Send(e, m)) \/ Close(e)
      PROVE FlushInv'
  <2>1. PICK x \in Items : Add(e, x)
    BY <1>1 DEF Send, Close, Items
  <2>2. UNCHANGED sendVars
    BY <1>1 DEF Send, Close
  <2> QED
    BY <2>1, <2>2, AddKeeps
<1>2. ASSUME UNCHANGED <<enq, sendList, spc, batch, willExit, wrote, failed>>
      PROVE FlushInv'
  BY <1>2 DEF FlushInv, FlushTypes, Conserved, Exiting, Taken
<1>3. ASSUME NEW e \in Ends, SendArm(e) \/ SendPick(e) PROVE FlushInv'
  BY <1>3, PickKeeps, LoopKeeps
<1>4. ASSUME NEW e \in Ends, SendWrite(e) \/ SendFail(e) PROVE FlushInv'
  BY <1>4, WriteKeeps
<1>5. ASSUME NEW e \in Ends, SendLoop(e) \/ SendShut(e) \/ SendEnd(e)
      PROVE FlushInv'
  BY <1>5, LoopKeeps
<1>6. ASSUME NEW e \in Ends, RecvRead(e) \/ RecvFail(e) PROVE FlushInv'
  BY <1>2, <1>6 DEF RecvRead, RecvFail, sendVars
<1>7. ASSUME NEW e \in Ends, RecvNotify(e) \/ RecvEnd(e) PROVE FlushInv'
  <2>1. UNCHANGED sendVars
    BY <1>7 DEF RecvNotify, RecvEnd
  <2>2. Add(e, Nil) \/ UNCHANGED <<enq, sendList>>
    BY <1>7 DEF RecvNotify, RecvEnd
  <2>3. Nil \in Items
    BY DEF Items
  <2> QED
    BY <1>2, <2>1, <2>2, <2>3, AddKeeps DEF sendVars
<1>8. ASSUME NEW e \in Ends, WaitBoth(e) \/ WriteDeadlinePasses(e)
      PROVE FlushInv'
  BY <1>2, <1>8 DEF WaitBoth, WriteDeadlinePasses, sendVars
<1>9. CASE Lose
  BY <1>2, <1>9 DEF Lose, sendVars
<1>10. CASE UNCHANGED vars
  BY <1>2, <1>10 DEF vars, sendVars
<1> QED
  BY <1>1, <1>3, <1>4, <1>5, <1>6, <1>7, <1>8, <1>9, <1>10, NextCases

\* A session that closes without an error has written exactly what its logic
\* sent before the Close (session.go:137-176).
THEOREM CloseFlushes == Safe => []FlushBeforeClose
<1>1. FlushInv => FlushBeforeClose
  <2> SUFFICES ASSUME FlushInv, NEW e \in Ends,
                      spc[e] \in {"shut", "end", "done"}, ~failed[e]
               PROVE  HasNil(enq[e]) /\ wrote[e] = BeforeNil(enq[e])
    BY DEF FlushBeforeClose
  <2>1. HasNil(enq[e]) /\ BeforeNil(enq[e]) = wrote[e] \o batch[e]
    BY DEF FlushInv, Conserved, Exiting, Taken
  <2>2. wrote[e] \o batch[e] = wrote[e]
    BY ConcatEmptySeq DEF FlushInv, FlushTypes
  <2> QED
    BY <2>1, <2>2
<1> QED
  BY <1>1, FlushInit, FlushStep, PTL DEF Safe

-----------------------------------------------------------------------------

(***************************************************************************)
(* Type correctness.                                                       *)
(***************************************************************************)

\* The part of TypeOK the two invariants above do not have.
WireTypes ==
    /\ late \in [Ends -> BOOLEAN]
    /\ sendser \in [Ends -> 0..(SerModulus - 1)]
    /\ recvser \in [Ends -> 0..(SerModulus - 1)]
    /\ got \in [Ends -> Seq(Events)]
    /\ needNotifyWrite \in [Ends -> BOOLEAN]
    /\ wire \in [Ends -> Seq(Frames)]
    /\ broken \in BOOLEAN

\* A serial stays a serial when it is counted up (handler_privatepkt.go:66).
LEMMA SerialRange == \A n \in Nat : n % SerModulus \in 0..(SerModulus - 1)
BY SessionAssumption DEF Ends

LEMMA WireInit == Init => WireTypes
<1> SUFFICES ASSUME Init PROVE WireTypes
  OBVIOUS
<1>1. 1 % SerModulus \in 0..(SerModulus - 1)
  BY SerialRange
<1>2. sendser \in [Ends -> 0..(SerModulus - 1)] /\ recvser \in [Ends -> 0..(SerModulus - 1)]
  BY <1>1 DEF Init
<1>3. wire \in [Ends -> Seq(Frames)] /\ got \in [Ends -> Seq(Events)]
  BY DEF Init
<1> QED
  BY <1>2, <1>3 DEF Init, WireTypes

LEMMA WireStep == FlushInv /\ WireTypes /\ [Next]_vars => WireTypes'
<1> SUFFICES ASSUME FlushInv, WireTypes, [Next]_vars PROVE WireTypes'
  OBVIOUS
<1> USE DEF WireTypes, sendVars, recvVars
<1>1. ASSUME NEW e \in Ends, (\E m \in Events : Send(e, m)) \/ Close(e)
      PROVE WireTypes'
  BY <1>1 DEF Send, Close
<1>2. ASSUME NEW e \in Ends, SendArm(e) \/ SendPick(e) PROVE WireTypes'
  BY <1>2 DEF SendArm, SendPick
<1>3. ASSUME NEW e \in Ends, SendWrite(e) \/ SendFail(e) PROVE WireTypes'
  <2>1. batch[e] \in Seq(Events) /\ batch[e] # <<>>
    BY <1>3 DEF FlushInv, FlushTypes, SendWrite, SendFail, TakeNext
  <2>2. Head(batch[e]) \in Events
    BY <2>1, HeadTailProperties
  <2>3. Frame(e, TRUE) \in Frames /\ Frame(e, FALSE) \in Frames
    BY <2>2 DEF Frame, Frames
  <2>4. sendser[e] + 1 \in Nat
    BY SessionAssumption
  <2>5. (sendser[e] + 1) % SerModulus \in 0..(SerModulus - 1)
    BY <2>4, SerialRange
  <2>6. sendser' \in [Ends -> 0..(SerModulus - 1)]
    BY <1>3, <2>5 DEF SendWrite, SendFail, TakeNext
  <2>7. wire' \in [Ends -> Seq(Frames)]
    <3>1. /\ Append(wire[e], Frame(e, TRUE)) \in Seq(Frames)
          /\ Append(wire[e], Frame(e, FALSE)) \in Seq(Frames)
      BY <2>3, AppendProperties
    <3>2. \/ wire' = wire
          \/ wire' = [wire EXCEPT ![e] = Append(@, Frame(e, TRUE))]
          \/ wire' = [wire EXCEPT ![e] = Append(@, Frame(e, FALSE))]
      BY <1>3 DEF SendWrite, SendFail
    <3> QED
      BY <3>1, <3>2
  <2> QED
    BY <1>3, <2>6, <2>7 DEF SendWrite, SendFail, TakeNext
<1>4. ASSUME NEW e \in Ends, SendLoop(e) \/ SendShut(e) \/ SendEnd(e)
      PROVE WireTypes'
  BY <1>4 DEF SendLoop, SendShut, SendEnd
<1>5. ASSUME NEW e \in Ends, RecvRead(e) \/ RecvFail(e) PROVE WireTypes'
  <2>1. CASE RecvRead(e)
    <3>1. Incoming(e) \in Seq(Frames) /\ Incoming(e) # <<>>
      BY <2>1 DEF RecvRead, Arrived, Incoming, Ends, Remote
    <3>2. Head(Incoming(e)) \in Frames /\ Tail(Incoming(e)) \in Seq(Frames)
      BY <3>1, HeadTailProperties
    <3>3. Head(Incoming(e)).msg \in Events
      BY <3>2 DEF Frames
    <3>4. got' \in [Ends -> Seq(Events)]
      BY <2>1, <3>3, AppendProperties DEF RecvRead
    <3>5. wire' \in [Ends -> Seq(Frames)]
      BY <2>1, <3>2 DEF RecvRead, Incoming
    <3>6. recvser[e] + 1 \in Nat
      BY SessionAssumption
    <3>7. (recvser[e] + 1) % SerModulus \in 0..(SerModulus - 1)
      BY <3>6, SerialRange
    <3> QED
      BY <2>1, <3>4, <3>5, <3>7 DEF RecvRead
  <2>2. CASE RecvFail(e)
    BY <2>2 DEF RecvFail
  <2> QED
    BY <1>5, <2>1, <2>2
<1>6. ASSUME NEW e \in Ends, RecvNotify(e) \/ RecvEnd(e) PROVE WireTypes'
  BY <1>6 DEF RecvNotify, RecvEnd
<1>7. ASSUME NEW e \in Ends, WaitBoth(e) \/ WriteDeadlinePasses(e)
      PROVE WireTypes'
  BY <1>7 DEF WaitBoth, WriteDeadlinePasses
<1>8. CASE Lose
  <2>1. PICK n \in [Ends -> 0..(WireCap + 1)] :
           /\ \A e \in Ends : n[e] <= Len(wire[e])
           /\ wire' = [e \in Ends |-> SubSeq(wire[e], 1, n[e])]
    BY <1>8 DEF Lose
  <2>2. ASSUME NEW e \in Ends PROVE SubSeq(wire[e], 1, n[e]) \in Seq(Frames)
    <3>1. n[e] \in Nat /\ n[e] <= Len(wire[e]) /\ wire[e] \in Seq(Frames)
      BY <2>1, SessionAssumption
    <3> QED
      BY <3>1
  <2> QED
    BY <1>8, <2>1, <2>2 DEF Lose
<1>9. CASE UNCHANGED vars
  BY <1>9 DEF vars
<1> QED
  BY <1>1, <1>2, <1>3, <1>4, <1>5, <1>6, <1>7, <1>8, <1>9, NextCases

\* The variables of both sessions and of the network keep their types; the
\* WaitGroup of run never counts below zero, where Done would panic.
THEOREM TypeCorrect == Safe => []TypeOK
<1>1. TeardownInv /\ FlushInv /\ WireTypes => TypeOK
  BY DEF TeardownInv, FlushInv, FlushTypes, WireTypes, TypeOK
<1> QED
  BY <1>1, TeardownInit, TeardownStep, FlushInit, FlushStep, WireInit, WireStep, PTL
  DEF Safe

-----------------------------------------------------------------------------

(***************************************************************************)
(* Delivery.  E is what the logic of one end added, B what its sendThread  *)
(* holds, L what is in its list, W what it wrote and its peer has not      *)
(* read, and G what its peer handed to its chains.  The sendThread has put *)
(* n events through the write chain, and the first k frames of W carry on  *)
(* where G ends; frame k + 1, if there is one, cannot be accepted in their *)
(* place.                                                                  *)
(***************************************************************************)

\* B comes next behind the n events, and no nil is among them.
Feeds(E, B, n) ==
    /\ n + Len(B) <= Len(E)
    /\ \A i \in 1..(n + Len(B)) : E[i] \in Events
    /\ \A i \in 1..Len(B) : B[i] = E[n + i]

\* L is all that is left behind B.
Rests(E, B, L, n) ==
    /\ Len(E) = n + Len(B) + Len(L)
    /\ \A i \in 1..Len(L) : L[i] = E[n + Len(B) + i]

\* G and the first k frames of W are the messages sent first.
Follows(E, G, W, n, k) ==
    /\ k <= Len(W)
    /\ Len(G) + k <= n
    /\ \A i \in 1..Len(G) : G[i] = E[i]
    /\ \A j \in 1..k : W[j].msg = E[Len(G) + j]

\* Frame k + 1 is cut short or does not have the serial expected in its place.
Stops(G, W, k) ==
    k < Len(W) => \/ ~W[k + 1].whole
                  \/ W[k + 1].ser # (Len(G) + k + 1) % SerModulus

\* Whatever went through the chain behind the frames of W had no encoding.
OnlyBad(E, G, n, k) ==
    \A i \in (Len(G) + k + 1)..n : E[i] \in Unencodable

\* The sendThread may come back to its list.
Picks(e) == spc[e] \in {"arm", "pick"} \/ (spc[e] = "write" /\ ~willExit[e])

\* The sendThread may write another frame.
Writes(e) ==
    /\ ~broken
    /\ spc[e] \in {"arm", "pick"} \/ (spc[e] = "write" /\ ~(late[e] /\ willExit[e]))

Delivers(e, n, k) ==
    /\ Feeds(enq[e], batch[e], n)
    /\ Picks(e) => Rests(enq[e], batch[e], sendList[e], n)
    /\ sendser[e] = (n + 1) % SerModulus
    /\ recvser[Remote(e)] = (Len(got[Remote(e)]) + 1) % SerModulus
    /\ Follows(enq[e], got[Remote(e)], wire[e], n, k)
    /\ Stops(got[Remote(e)], wire[e], k)
    /\ k = Len(wire[e]) /\ Writes(e) => OnlyBad(enq[e], got[Remote(e)], n, k)

Booked(e) == /\ Cardinality(Bad(enq[e])) <= MaxBad
             /\ \E n \in Nat, k \in Nat : Delivers(e, n, k)

DeliveryInv == \A e \in Ends : Booked(e)

\* Another call of Send or Close changes nothing in front of it.
LEMMA AddedBehind ==
    ASSUME NEW E \in Seq(Items), NEW B \in Seq(Events), NEW L \in Seq(Items),
           NEW G \in Seq(Events), NEW W \in Seq(Frames),
           NEW x \in Items, NEW n \in Nat, NEW k \in Nat, Feeds(E, B, n)
    PROVE  /\ Feeds(Append(E, x), B, n)
           /\ Rests(E, B, L, n) => Rests(Append(E, x), B, Append(L, x), n)
           /\ Follows(E, G, W, n, k) => Follows(Append(E, x), G, W, n, k)
           /\ OnlyBad(E, G, n, k) => OnlyBad(Append(E, x), G, n, k)
<1>1. PICK F : F = Append(E, x)
  OBVIOUS
<1>2. PICK M : M = Append(L, x)
  OBVIOUS
<1>3. Len(F) = Len(E) + 1 /\ F[Len(E) + 1] = x /\ \A i \in 1..Len(E) : F[i] = E[i]
  BY <1>1, AppendProperties
<1>4. Len(M) = Len(L) + 1 /\ M[Len(L) + 1] = x /\ \A i \in 1..Len(L) : M[i] = L[i]
  BY <1>2, AppendProperties
<1>5. /\ Len(E) \in Nat /\ Len(B) \in Nat /\ Len(L) \in Nat /\ Len(G) \in Nat
      /\ n + Len(B) <= Len(E)
  BY DEF Feeds
<1>6. Feeds(F, B, n)
  <2>1. \A i \in 1..(n + Len(B)) : F[i] = E[i]
    BY <1>3, <1>5
  <2>2. \A i \in 1..Len(B) : n + i \in 1..(n + Len(B))
    BY <1>5
  <2>3. n + Len(B) <= Len(F)
    BY <1>3, <1>5
  <2>4. \A i \in 1..(n + Len(B)) : F[i] \in Events
    BY <2>1 DEF Feeds
  <2>5. \A i \in 1..Len(B) : B[i] = F[n + i]
    BY <2>1, <2>2 DEF Feeds
  <2> QED
    BY <2>3, <2>4, <2>5 DEF Feeds
<1>7. ASSUME Rests(E, B, L, n) PROVE Rests(F, B, M, n)
  <2>1. /\ Len(E) = n + Len(B) + Len(L)
        /\ \A i \in 1..Len(L) : L[i] = E[n + Len(B) + i]
    BY <1>7 DEF Rests
  <2>2. Len(F) = n + Len(B) + Len(M)
    BY <1>3, <1>4, <1>5, <2>1
  <2>3. ASSUME NEW i \in 1..Len(M) PROVE M[i] = F[n + Len(B) + i]
    <3>1. CASE i = Len(L) + 1
      <4>1. n + Len(B) + i = Len(E) + 1
        BY <1>5, <2>1, <3>1
      <4> QED
        BY <1>3, <1>4, <3>1, <4>1
    <3>2. CASE i # Len(L) + 1
      <4>1. i \in 1..Len(L) /\ n + Len(B) + i \in 1..Len(E)
        BY <1>4, <1>5, <2>1, <3>2
      <4> QED
        BY <1>3, <1>4, <2>1, <4>1
    <3> QED
      BY <3>1, <3>2
  <2> QED
    BY <2>2, <2>3 DEF Rests
<1>8. ASSUME Follows(E, G, W, n, k) PROVE Follows(F, G, W, n, k)
  <2>1. /\ \A i \in 1..Len(G) : i \in 1..Len(E)
        /\ \A j \in 1..k : Len(G) + j \in 1..Len(E)
    BY <1>5, <1>8 DEF Follows
  <2>2. /\ \A i \in 1..Len(G) : G[i] = F[i]
        /\ \A j \in 1..k : W[j].msg = F[Len(G) + j]
    BY <1>3, <1>8, <2>1 DEF Follows
  <2> QED
    BY <1>8, <2>2 DEF Follows
<1>9. ASSUME OnlyBad(E, G, n, k) PROVE OnlyBad(F, G, n, k)
  <2>1. \A i \in (Len(G) + k + 1)..n : i \in 1..Len(E)
    BY <1>5
  <2> QED
    BY <1>3, <1>9, <2>1 DEF OnlyBad
<1> QED
  BY <1>1, <1>2, <1>6, <1>7, <1>8, <1>9

\* Pick hands over what is in front of the first nil, which is all of the list
\* when there is none.
LEMMA PickedInOrder ==
    ASSUME NEW E \in Seq(Items), NEW L \in Seq(Items), NEW n \in Nat,
           Feeds(E, <<>>, n), Rests(E, <<>>, L, n)
    PROVE  /\ Feeds(E, BeforeNil(L), n)
           /\ ~HasNil(L) => Rests(E, BeforeNil(L), <<>>, n)
<1> DEFINE B == BeforeNil(L)
<1>1. B \in Seq(Events)
  BY BeforeNilType
<1>2. /\ Len(B) \in Nat /\ Len(B) <= Len(L)
      /\ \A i \in 1..Len(B) : B[i] = L[i]
  <2>1. CASE HasNil(L)
    <3>1. FirstNil(L) \in 1..Len(L)
      BY <2>1, FirstNilProperties
    <3>2. B = SubSeq(L, 1, FirstNil(L) - 1)
      BY <2>1 DEF BeforeNil
    <3> QED
      BY <3>1, <3>2, SubSeqProperties
  <2>2. CASE ~HasNil(L)
    BY <2>2 DEF BeforeNil
  <2> QED
    BY <2>1, <2>2
<1>3. \A i \in 1..Len(B) : B[i] \in Events
  BY <1>1
<1>4. ~HasNil(L) => B = L
  BY DEF BeforeNil
<1>5. /\ Len(E) \in Nat /\ Len(L) \in Nat /\ n <= Len(E) /\ Len(E) = n + Len(L)
      /\ \A i \in 1..n : E[i] \in Events
      /\ \A i \in 1..Len(L) : L[i] = E[n + i]
  BY DEF Feeds, Rests
<1> HIDE DEF B
<1>6. Feeds(E, B, n)
  <2>1. \A i \in 1..Len(B) : B[i] = E[n + i]
    BY <1>2, <1>5
  <2>2. ASSUME NEW i \in 1..(n + Len(B)) PROVE E[i] \in Events
    <3>1. CASE i <= n
      BY <1>5, <3>1
    <3>2. CASE i > n
      <4>1. i - n \in 1..Len(B) /\ n + (i - n) = i
        BY <1>2, <3>2
      <4> QED
        BY <1>3, <2>1, <4>1
    <3> QED
      BY <3>1, <3>2, <1>2
  <2> QED
    BY <1>2, <1>5, <2>1, <2>2 DEF Feeds
<1>7. ~HasNil(L) => Rests(E, B, <<>>, n)
  BY <1>4, <1>5 DEF Rests
<1> QED
  BY <1>6, <1>7 DEF B

\* The next event of the batch.
LEMMA TakenInOrder ==
    ASSUME NEW E \in Seq(Items), NEW B \in Seq(Events), NEW L \in Seq(Items),
           NEW n \in Nat, B # <<>>, Feeds(E, B, n)
    PROVE  /\ Feeds(E, Tail(B), n + 1)
           /\ Rests(E, B, L, n) => Rests(E, Tail(B), L, n + 1)
           /\ Head(B) = E[n + 1]
           /\ n + 1 <= Len(E)
<1> DEFINE T == Tail(B)
<1>1. /\ Len(B) \in Nat \ {0} /\ Len(T) = Len(B) - 1 /\ Head(B) = B[1]
      /\ \A i \in 1..Len(T) : T[i] = B[i + 1]
  BY HeadTailProperties
<1>2. Len(E) \in Nat /\ Len(L) \in Nat
  OBVIOUS
<1> HIDE DEF T
<1>3. Feeds(E, T, n + 1)
  <2>1. (n + 1) + Len(T) = n + Len(B)
    BY <1>1
  <2>2. ASSUME NEW i \in 1..Len(T) PROVE T[i] = E[(n + 1) + i]
    <3>1. i + 1 \in 1..Len(B) /\ n + (i + 1) = (n + 1) + i
      BY <1>1
    <3> QED
      BY <1>1, <3>1 DEF Feeds
  <2> QED
    BY <2>1, <2>2 DEF Feeds
<1>4. Rests(E, B, L, n) => Rests(E, T, L, n + 1)
  <2>1. (n + 1) + Len(T) = n + Len(B)
    BY <1>1
  <2> QED
    BY <2>1 DEF Rests
<1>5. Head(B) = E[n + 1] /\ n + 1 <= Len(E)
  BY <1>1, <1>2 DEF Feeds
<1> QED
  BY <1>3, <1>4, <1>5 DEF T

\* No multiple of M lies strictly between 0 and M.
LEMMA NoMultiple ==
    ASSUME NEW M \in Nat \ {0}, NEW d \in Int
    PROVE  ~(0 < M * d /\ M * d < M)
<1>1. CASE d <= 0
  BY <1>1
<1>2. CASE d >= 1
  <2>1. M * d = M * (d - 1) + M /\ d - 1 \in Nat
    BY <1>2
  <2>2. M * (d - 1) >= 0
    BY <2>1
  <2> QED
    BY <2>1, <2>2
<1> QED
  BY <1>1, <1>2

\* Two positions less than SerModulus apart have different serials.
LEMMA SerialsDiffer ==
    ASSUME NEW a \in Nat, NEW b \in Nat, NEW M \in Nat \ {0}, a < b, b - a < M
    PROVE  b % M # a % M
<1> DEFINE d == (b \div M) - (a \div M)
<1>1. a = M * (a \div M) + (a % M) /\ (a \div M) \in Int /\ a % M \in Int
  OBVIOUS
<1>2. b = M * (b \div M) + (b % M) /\ (b \div M) \in Int /\ b % M \in Int
  OBVIOUS
<1>3. ASSUME b % M = a % M PROVE FALSE
  <2>1. M * (b \div M) - M * (a \div M) = b - a
    BY <1>1, <1>2, <1>3
  <2>2. d \in Int /\ M * d = b - a
    BY <1>1, <1>2, <2>1
  <2> HIDE DEF d
  <2> QED
    BY <2>2, NoMultiple
<1> QED
  BY <1>3

\* Counting the serial up is counting the events (handler_privatepkt.go:66).
LEMMA SerialCounts ==
    ASSUME NEW a \in Nat, NEW M \in Nat \ {0}
    PROVE  ((a % M) + 1) % M = (a + 1) % M
<1>1. PICK r \in 0..(M - 1), p \in Int : r = a % M /\ a = M * p + r
  <2>1. a = M * (a \div M) + (a % M) /\ (a \div M) \in Int /\ a % M \in 0..(M - 1)
    OBVIOUS
  <2> QED
    BY <2>1
<1>2. PICK u \in 0..(M - 1), q \in Int : u = (r + 1) % M /\ r + 1 = M * q + u
  <2>1. /\ r + 1 = M * ((r + 1) \div M) + ((r + 1) % M)
        /\ ((r + 1) \div M) \in Int /\ (r + 1) % M \in 0..(M - 1)
    OBVIOUS
  <2> QED
    BY <2>1
<1>3. PICK v \in 0..(M - 1), w \in Int : v = (a + 1) % M /\ a + 1 = M * w + v
  <2>1. /\ a + 1 = M * ((a + 1) \div M) + ((a + 1) % M)
        /\ ((a + 1) \div M) \in Int /\ (a + 1) % M \in 0..(M - 1)
    OBVIOUS
  <2> QED
    BY <2>1
<1>4. PICK d \in Int : d = p + q - w
  OBVIOUS
<1>5. PICK c \in Int : c = w - p - q
  OBVIOUS
<1>6. M * d = v - u /\ M * c = u - v
  <2>1. M * p + M * q - M * w = v - u
    BY <1>1, <1>2, <1>3
  <2>2. M * d = M * p + M * q - M * w /\ M * c = M * w - M * p - M * q
    BY <1>4, <1>5
  <2> QED
    BY <2>1, <2>2
<1>7. ~(0 < M * d /\ M * d < M) /\ ~(0 < M * c /\ M * c < M)
  BY NoMultiple
<1>8. u = v
  BY <1>6, <1>7
<1> QED
  BY <1>1, <1>2, <1>3, <1>8

\* The unencodable events of a list are finitely many, and a call of Send adds
\* at most one to them.
LEMMA BadGrows ==
    ASSUME NEW E \in Seq(Items), NEW x \in Items
    PROVE  /\ IsFiniteSet(Bad(E)) /\ Cardinality(Bad(E)) \in Nat
           /\ Bad(Append(E, x)) = IF x \in Unencodable
                                  THEN Bad(E) \cup {Len(E) + 1} ELSE Bad(E)
           /\ Cardinality(Bad(Append(E, x))) = IF x \in Unencodable
                                  THEN Cardinality(Bad(E)) + 1 ELSE Cardinality(Bad(E))
<1>1. Len(E) \in Nat /\ Bad(E) \subseteq 1..Len(E)
  BY DEF Bad
<1>2. IsFiniteSet(1..Len(E))
  BY <1>1, FS_Interval
<1>3. IsFiniteSet(Bad(E)) /\ Cardinality(Bad(E)) \in Nat
  BY <1>1, <1>2, FS_Subset, FS_CardinalityType
<1>4. PICK F : F = Append(E, x)
  OBVIOUS
<1>5. Len(F) = Len(E) + 1 /\ F[Len(E) + 1] = x /\ \A i \in 1..Len(E) : F[i] = E[i]
  BY <1>4, AppendProperties
<1>6. \A i : i \in 1..Len(F) <=> i \in 1..Len(E) \/ i = Len(E) + 1
  BY <1>1, <1>5
<1>7. Bad(F) = IF x \in Unencodable THEN Bad(E) \cup {Len(E) + 1} ELSE Bad(E)
  BY <1>5, <1>6 DEF Bad
<1>8. Len(E) + 1 \notin Bad(E)
  BY <1>1
<1>9. Cardinality(Bad(E) \cup {Len(E) + 1}) = Cardinality(Bad(E)) + 1
  BY <1>3, <1>8, FS_AddElement
<1> QED
  BY <1>3, <1>4, <1>7, <1>9

\* A frame behind a gap of unencodable events does not have the serial that is
\* expected in its place, while they are fewer than the serials.
LEMMA GapShows ==
    ASSUME MaxBad < SerModulus, NEW E \in Seq(Items), Cardinality(Bad(E)) <= MaxBad,
           NEW a \in Nat, NEW n \in Nat, a < n, n <= Len(E),
           \A i \in (a + 1)..n : E[i] \in Unencodable
    PROVE  (n + 1) % SerModulus # (a + 1) % SerModulus
<1>1. /\ Len(E) \in Nat /\ Bad(E) \subseteq 1..Len(E)
      /\ SerModulus \in Nat \ {0} /\ MaxBad \in Nat
  BY SessionAssumption DEF Bad
<1>2. IsFiniteSet(Bad(E)) /\ Cardinality(Bad(E)) \in Nat
  <2>1. IsFiniteSet(1..Len(E))
    BY <1>1, FS_Interval
  <2> QED
    BY <1>1, <2>1, FS_Subset, FS_CardinalityType
<1>3. (a + 1)..n \subseteq Bad(E)
  BY <1>1 DEF Bad
<1>4. Cardinality((a + 1)..n) <= Cardinality(Bad(E))
  BY <1>2, <1>3, FS_Subset
<1>5. Cardinality((a + 1)..n) = n - a
  <2>1. a + 1 \in Int /\ n \in Int /\ ~(a + 1 > n)
    OBVIOUS
  <2>2. Cardinality((a + 1)..n) = n - (a + 1) + 1
    BY <2>1, FS_Interval
  <2> QED
    BY <2>2
<1>6. n + 1 \in Nat /\ a + 1 \in Nat /\ a + 1 < n + 1 /\ (n + 1) - (a + 1) < SerModulus
  BY <1>1, <1>2, <1>4, <1>5
<1> QED
  BY <1>1, <1>6, SerialsDiffer

\* The write chain takes the next event, and writes its frame.
LEMMA WrittenInOrder ==
    ASSUME MaxBad < SerModulus,
           NEW E \in Seq(Items), NEW G \in Seq(Events), NEW W \in Seq(Frames),
           NEW f \in Frames, NEW n \in Nat, NEW k \in Nat,
           Cardinality(Bad(E)) <= MaxBad, n + 1 <= Len(E),
           Follows(E, G, W, n, k), Stops(G, W, k),
           k = Len(W) => OnlyBad(E, G, n, k),
           f.msg = E[n + 1], f.ser = (n + 1) % SerModulus
    PROVE  \E h \in Nat : /\ Follows(E, G, Append(W, f), n + 1, h)
                          /\ Stops(G, Append(W, f), h)
                          /\ h = Len(Append(W, f)) => OnlyBad(E, G, n + 1, h)
<1>1. PICK V : V = Append(W, f)
  OBVIOUS
<1>2. Len(V) = Len(W) + 1 /\ V[Len(W) + 1] = f /\ \A i \in 1..Len(W) : V[i] = W[i]
  BY <1>1, AppendProperties
<1>3. Len(W) \in Nat /\ Len(G) \in Nat /\ Len(E) \in Nat
  OBVIOUS
<1>4. /\ k <= Len(W) /\ Len(G) + k <= n
      /\ \A i \in 1..Len(G) : G[i] = E[i]
      /\ \A j \in 1..k : V[j].msg = E[Len(G) + j]
  <2>1. \A j \in 1..k : j \in 1..Len(W)
    BY <1>3 DEF Follows
  <2> QED
    BY <1>2, <2>1 DEF Follows
<1>5. Follows(E, G, V, n + 1, k)
  BY <1>2, <1>3, <1>4 DEF Follows
<1>6. CASE k < Len(W)
  <2>1. V[k + 1] = W[k + 1] /\ k # Len(V)
    BY <1>2, <1>3, <1>6
  <2>2. Stops(G, V, k)
    BY <1>6, <2>1 DEF Stops
  <2> QED
    BY <1>1, <1>5, <2>1, <2>2
<1>7. CASE k = Len(W) /\ Len(G) + k = n
  <2>1. Follows(E, G, V, n + 1, k + 1)
    <3>1. /\ k + 1 <= Len(V) /\ Len(G) + (k + 1) <= n + 1
          /\ V[k + 1] = f /\ Len(G) + (k + 1) = n + 1
      BY <1>2, <1>3, <1>7
    <3>2. ASSUME NEW j \in 1..(k + 1) PROVE V[j].msg = E[Len(G) + j]
      <4>1. j \in 1..k \/ j = k + 1
        OBVIOUS
      <4> QED
        BY <1>4, <3>1, <4>1
    <3> QED
      BY <1>4, <3>1, <3>2 DEF Follows
  <2>2. k + 1 \in Nat /\ ~(k + 1 < Len(V))
    BY <1>2, <1>3, <1>7
  <2>3. Stops(G, V, k + 1)
    BY <2>2 DEF Stops
  <2>4. \A i \in (Len(G) + (k + 1) + 1)..(n + 1) : FALSE
    BY <1>3, <1>7
  <2>5. OnlyBad(E, G, n + 1, k + 1)
    BY <2>4 DEF OnlyBad
  <2> QED
    BY <1>1, <2>1, <2>2, <2>3, <2>5
<1>8. CASE k = Len(W) /\ Len(G) + k < n
  <2>1. PICK a \in Nat : a = Len(G) + k
    BY <1>3
  <2>2. \A i \in (a + 1)..n : E[i] \in Unencodable
    BY <1>8, <2>1 DEF OnlyBad
  <2>3. a < n /\ n <= Len(E) /\ V[k + 1] = f /\ k # Len(V)
    BY <1>2, <1>3, <1>8, <2>1
  <2>4. (n + 1) % SerModulus # (a + 1) % SerModulus
    BY <2>2, <2>3, GapShows
  <2>5. Stops(G, V, k)
    BY <2>1, <2>3, <2>4 DEF Stops
  <2> QED
    BY <1>1, <1>5, <2>3, <2>5
<1>9. k < Len(W) \/ (k = Len(W) /\ (Len(G) + k = n \/ Len(G) + k < n))
  BY <1>3, <1>4
<1> QED
  BY <1>6, <1>7, <1>8, <1>9

\* A part of a frame behind the frames that follow is where they stop.
LEMMA CutInOrder ==
    ASSUME NEW E \in Seq(Items), NEW G \in Seq(Events), NEW W \in Seq(Frames),
           NEW f \in Frames, NEW n \in Nat, NEW k \in Nat,
           Follows(E, G, W, n, k), Stops(G, W, k), ~f.whole
    PROVE  /\ Follows(E, G, Append(W, f), n + 1, k)
           /\ Stops(G, Append(W, f), k)
           /\ k # Len(Append(W, f))
<1>1. PICK V : V = Append(W, f)
  OBVIOUS
<1>2. Len(V) = Len(W) + 1 /\ V[Len(W) + 1] = f /\ \A i \in 1..Len(W) : V[i] = W[i]
  BY <1>1, AppendProperties
<1>3. Len(W) \in Nat /\ Len(G) \in Nat /\ k <= Len(W) /\ Len(G) + k <= n
  BY DEF Follows
<1>4. Follows(E, G, V, n + 1, k)
  <2>1. \A j \in 1..k : V[j] = W[j]
    BY <1>2, <1>3
  <2>2. k <= Len(V) /\ Len(G) + k <= n + 1
    BY <1>2, <1>3
  <2> QED
    BY <2>1, <2>2 DEF Follows
<1>5. Stops(G, V, k)
  <2>1. CASE k < Len(W)
    <3>1. V[k + 1] = W[k + 1]
      BY <1>2, <1>3, <2>1
    <3> QED
      BY <2>1, <3>1 DEF Stops
  <2>2. CASE k = Len(W)
    BY <1>2, <2>2 DEF Stops
  <2> QED
    BY <1>3, <2>1, <2>2
<1>6. k # Len(V)
  BY <1>2, <1>3
<1> QED
  BY <1>1, <1>4, <1>5, <1>6

\* A frame the reader accepts is the next one that was sent.
LEMMA ReadInOrder ==
    ASSUME NEW E \in Seq(Items), NEW G \in Seq(Events), NEW W \in Seq(Frames),
           NEW n \in Nat, NEW k \in Nat, W # <<>>,
           Follows(E, G, W, n, k), Stops(G, W, k),
           Head(W).whole, Head(W).ser = (Len(G) + 1) % SerModulus
    PROVE  /\ k - 1 \in Nat
           /\ Follows(E, Append(G, Head(W).msg), Tail(W), n, k - 1)
           /\ Stops(Append(G, Head(W).msg), Tail(W), k - 1)
           /\ k - 1 = Len(Tail(W)) => k = Len(W)
           /\ OnlyBad(E, G, n, k) => OnlyBad(E, Append(G, Head(W).msg), n, k - 1)
<1>1. /\ Len(W) \in Nat \ {0} /\ Len(G) \in Nat /\ k <= Len(W)
      /\ Head(W) = W[1] /\ Head(W) \in Frames
  BY HeadTailProperties DEF Follows
<1>2. Head(W).msg \in Events
  BY <1>1 DEF Frames
<1>3. PICK H : H = Append(G, Head(W).msg)
  OBVIOUS
<1>4. /\ Len(H) = Len(G) + 1 /\ H[Len(G) + 1] = W[1].msg
      /\ \A i \in 1..Len(G) : H[i] = G[i]
  BY <1>1, <1>2, <1>3, AppendProperties
<1>5. PICK T : T = Tail(W)
  OBVIOUS
<1>6. Len(T) = Len(W) - 1 /\ \A i \in 1..Len(T) : T[i] = W[i + 1]
  BY <1>5, HeadTailProperties
<1>7. k # 0
  BY <1>1 DEF Stops
<1>8. Follows(E, H, T, n, k - 1)
  <2>1. k - 1 <= Len(T) /\ Len(H) + (k - 1) <= n
    BY <1>1, <1>4, <1>6 DEF Follows
  <2>2. ASSUME NEW i \in 1..Len(H) PROVE H[i] = E[i]
    <3>1. CASE i = Len(G) + 1
      <4>1. 1 \in 1..k /\ Len(G) + 1 = i
        BY <1>7, <3>1
      <4> QED
        BY <1>4, <4>1 DEF Follows
    <3>2. CASE i # Len(G) + 1
      <4>1. i \in 1..Len(G)
        BY <1>1, <1>4, <3>2
      <4> QED
        BY <1>4, <4>1 DEF Follows
    <3> QED
      BY <3>1, <3>2
  <2>3. ASSUME NEW j \in 1..(k - 1) PROVE T[j].msg = E[Len(H) + j]
    <3>1. j \in 1..Len(T) /\ j + 1 \in 1..k /\ Len(H) + j = Len(G) + (j + 1)
      BY <1>1, <1>4, <1>6
    <3> QED
      BY <1>6, <3>1 DEF Follows
  <2> QED
    BY <2>1, <2>2, <2>3 DEF Follows
<1>9. Stops(H, T, k - 1)
  <2>1. Len(H) + (k - 1) + 1 = Len(G) + k + 1
    BY <1>1, <1>4
  <2>2. (k - 1) + 1 = k
    OBVIOUS
  <2>3. k - 1 < Len(T) => k < Len(W) /\ T[k] = W[k + 1]
    BY <1>1, <1>6, <1>7
  <2> QED
    BY <2>1, <2>2, <2>3 DEF Stops
<1>10. k - 1 \in Nat /\ (k - 1 = Len(T) => k = Len(W))
  BY <1>1, <1>6, <1>7
<1>11. Len(H) + (k - 1) + 1 = Len(G) + k + 1
  BY <1>1, <1>4
<1>12. OnlyBad(E, G, n, k) => OnlyBad(E, H, n, k - 1)
  BY <1>11 DEF OnlyBad
<1> QED
  BY <1>3, <1>5, <1>8, <1>9, <1>10, <1>12

\* What is left when the connection breaks still follows.
LEMMA LostInOrder ==
    ASSUME NEW E \in Seq(Items), NEW G \in Seq(Events), NEW W \in Seq(Frames),
           NEW n \in Nat, NEW k \in Nat, NEW m \in Nat, m <= Len(W),
           Follows(E, G, W, n, k), Stops(G, W, k)
    PROVE  \E h \in Nat : /\ Follows(E, G, SubSeq(W, 1, m), n, h)
                          /\ Stops(G, SubSeq(W, 1, m), h)
<1>1. PICK V : V = SubSeq(W, 1, m)
  OBVIOUS
<1>2. Len(V) = m /\ \A i \in 1..m : V[i] = W[i]
  BY <1>1
<1>3. Len(W) \in Nat /\ Len(G) \in Nat /\ k <= Len(W) /\ Len(G) + k <= n
  BY DEF Follows
<1>4. CASE k < m
  <2>1. V[k + 1] = W[k + 1] /\ k < Len(W) /\ k <= Len(V) /\ \A j \in 1..k : V[j] = W[j]
    BY <1>2, <1>3, <1>4
  <2>2. Follows(E, G, V, n, k)
    BY <2>1 DEF Follows
  <2>3. Stops(G, V, k)
    BY <2>1 DEF Stops
  <2> QED
    BY <1>1, <2>2, <2>3
<1>5. CASE m <= k
  <2>1. /\ Len(G) + m <= n /\ m <= Len(V) /\ ~(m < Len(V))
        /\ \A j \in 1..m : V[j] = W[j] /\ j \in 1..k
    BY <1>2, <1>3, <1>5
  <2>2. Follows(E, G, V, n, m)
    BY <2>1 DEF Follows
  <2>3. Stops(G, V, m)
    BY <2>1 DEF Stops
  <2> QED
    BY <1>1, <2>2, <2>3
<1> QED
  BY <1>4, <1>5

(***************************************************************************)
(* The steps.  An end is left alone by a step that changes nothing its     *)
(* books name; a step that forgets a deadline or ends the loop only makes  *)
(* Picks and Writes false.                                                 *)
(***************************************************************************)

DeliveryTypes == FlushTypes /\ WireTypes

LEMMA EndTypes ==
    ASSUME DeliveryTypes, NEW e \in Ends
    PROVE  /\ enq[e] \in Seq(Items) /\ sendList[e] \in Seq(Items)
           /\ batch[e] \in Seq(Events) /\ wire[e] \in Seq(Frames)
           /\ Remote(e) \in Ends /\ Remote(e) # e /\ Remote(Remote(e)) = e
           /\ got[Remote(e)] \in Seq(Events)
           /\ sendser[e] \in 0..(SerModulus - 1)
<1>1. Remote(e) \in Ends /\ Remote(e) # e /\ Remote(Remote(e)) = e
  BY DEF Remote, Ends
<1> QED
  BY <1>1 DEF DeliveryTypes, FlushTypes, WireTypes

LEMMA QuietKeeps ==
    ASSUME NEW e \in Ends, NEW n \in Nat, NEW k \in Nat, Delivers(e, n, k),
           enq'[e] = enq[e], sendList'[e] = sendList[e], batch'[e] = batch[e],
           sendser'[e] = sendser[e], wire'[e] = wire[e],
           got'[Remote(e)] = got[Remote(e)], recvser'[Remote(e)] = recvser[Remote(e)],
           Picks(e)' => Picks(e), Writes(e)' => Writes(e)
    PROVE  Delivers(e, n, k)'
BY DEF Delivers

LEMMA QuietBooked ==
    ASSUME NEW e \in Ends, Booked(e),
           enq'[e] = enq[e], sendList'[e] = sendList[e], batch'[e] = batch[e],
           sendser'[e] = sendser[e], wire'[e] = wire[e],
           got'[Remote(e)] = got[Remote(e)], recvser'[Remote(e)] = recvser[Remote(e)],
           Picks(e)' => Picks(e), Writes(e)' => Writes(e)
    PROVE  Booked(e)'
<1>1. PICK n \in Nat, k \in Nat : Delivers(e, n, k)
  BY DEF Booked
<1>2. Delivers(e, n, k)'
  BY <1>1, QuietKeeps
<1>3. Cardinality(Bad(enq'[e])) <= MaxBad
  BY DEF Booked
<1> QED
  BY <1>2, <1>3 DEF Booked

\* Send, Close and the nil of the recvThread.
LEMMA AddBooked ==
    ASSUME DeliveryTypes, \A f \in Ends : Booked(f), NEW e \in Ends, NEW x \in Items,
           x \in Unencodable => Cardinality(Bad(enq[e])) < MaxBad,
           Add(e, x), UNCHANGED <<sendVars, recvser, got, wire, broken>>
    PROVE  \A f \in Ends : Booked(f)'
<1> USE DEF sendVars
<1>1. ASSUME NEW f \in Ends, f # e PROVE Booked(f)'
  <2>1. enq'[f] = enq[f] /\ sendList'[f] = sendList[f]
    BY <1>1 DEF Add, DeliveryTypes, FlushTypes
  <2> QED
    BY <2>1, QuietBooked DEF Picks, Writes
<1>2. Booked(e)'
  <2>1. PICK n \in Nat, k \in Nat : Delivers(e, n, k)
    BY DEF Booked
  <2>2. /\ enq[e] \in Seq(Items) /\ sendList[e] \in Seq(Items)
        /\ batch[e] \in Seq(Events) /\ wire[e] \in Seq(Frames)
        /\ got[Remote(e)] \in Seq(Events)
    BY EndTypes
  <2>3. enq'[e] = Append(enq[e], x) /\ sendList'[e] = Append(sendList[e], x)
    BY DEF Add, DeliveryTypes, FlushTypes
  <2>4. Picks(e)' = Picks(e) /\ Writes(e)' = Writes(e)
    BY DEF Picks, Writes
  <2>5. Feeds(enq[e], batch[e], n) /\ Follows(enq[e], got[Remote(e)], wire[e], n, k)
    BY <2>1 DEF Delivers
  <2>6. /\ Feeds(enq'[e], batch[e], n)
        /\ Rests(enq[e], batch[e], sendList[e], n)
              => Rests(enq'[e], batch[e], sendList'[e], n)
        /\ Follows(enq'[e], got[Remote(e)], wire[e], n, k)
        /\ OnlyBad(enq[e], got[Remote(e)], n, k)
              => OnlyBad(enq'[e], got[Remote(e)], n, k)
    <3>1. \A E \in Seq(Items), B \in Seq(Events), L \in Seq(Items),
             G \in Seq(Events), W \in Seq(Frames) :
             Feeds(E, B, n) =>
                /\ Feeds(Append(E, x), B, n)
                /\ Rests(E, B, L, n) => Rests(Append(E, x), B, Append(L, x), n)
                /\ Follows(E, G, W, n, k) => Follows(Append(E, x), G, W, n, k)
                /\ OnlyBad(E, G, n, k) => OnlyBad(Append(E, x), G, n, k)
      BY AddedBehind
    <3> QED
      BY <2>2, <2>3, <2>5, <3>1, Zenon
  <2>7. Delivers(e, n, k)'
    BY <2>1, <2>4, <2>6 DEF Delivers
  <2>8. Cardinality(Bad(enq'[e])) <= MaxBad
    <3>1. /\ Cardinality(Bad(enq[e])) \in Nat
          /\ Cardinality(Bad(enq'[e])) = IF x \in Unencodable
                THEN Cardinality(Bad(enq[e])) + 1 ELSE Cardinality(Bad(enq[e]))
      BY <2>2, <2>3, BadGrows
    <3>2. Cardinality(Bad(enq[e])) <= MaxBad /\ MaxBad \in Nat
      BY SessionAssumption DEF Booked
    <3> QED
      BY <3>1, <3>2
  <2> QED
    BY <2>7, <2>8 DEF Booked
<1> QED
  BY <1>1, <1>2

LEMMA PickBooked ==
    ASSUME DeliveryTypes, \A f \in Ends : Booked(f), NEW e \in Ends, SendPick(e)
    PROVE  \A f \in Ends : Booked(f)'
<1> USE DEF recvVars
<1>0. /\ UNCHANGED <<enq, sendser, late, wire, broken, got, recvser>>
      /\ spc[e] = "pick" /\ batch[e] = <<>>
  BY DEF SendPick, DeliveryTypes, FlushTypes
<1>1. ASSUME NEW f \in Ends, f # e PROVE Booked(f)'
  <2>1. /\ batch'[f] = batch[f] /\ sendList'[f] = sendList[f]
        /\ spc'[f] = spc[f] /\ willExit'[f] = willExit[f]
    BY <1>1 DEF SendPick, DeliveryTypes, FlushTypes
  <2>2. Picks(f)' = Picks(f) /\ Writes(f)' = Writes(f)
    BY <1>0, <2>1 DEF Picks, Writes
  <2> QED
    BY <1>0, <2>1, <2>2, QuietBooked
<1>2. Booked(e)'
  <2>1. PICK n \in Nat, k \in Nat : Delivers(e, n, k)
    BY DEF Booked
  <2>2. enq[e] \in Seq(Items) /\ sendList[e] \in Seq(Items)
    BY EndTypes
  <2>3. /\ batch'[e] = BeforeNil(sendList[e]) /\ sendList'[e] = <<>>
        /\ spc'[e] = "write" /\ willExit'[e] = HasNil(sendList[e])
    BY DEF SendPick, DeliveryTypes, FlushTypes
  <2>4. Picks(e) /\ (Writes(e)' => Writes(e)) /\ (Picks(e)' => ~HasNil(sendList[e]))
    BY <1>0, <2>3 DEF Picks, Writes
  <2>5. Feeds(enq[e], <<>>, n) /\ Rests(enq[e], <<>>, sendList[e], n)
    BY <1>0, <2>1, <2>4 DEF Delivers
  <2>6. /\ Feeds(enq[e], batch'[e], n)
        /\ ~HasNil(sendList[e]) => Rests(enq[e], batch'[e], sendList'[e], n)
    BY <2>2, <2>3, <2>5, PickedInOrder
  <2>7. Delivers(e, n, k)'
    BY <1>0, <2>1, <2>4, <2>6 DEF Delivers
  <2> QED
    BY <1>0, <2>7 DEF Booked
<1> QED
  BY <1>1, <1>2

\* The write chain takes the next event, whatever becomes of it.
LEMMA TakeEffect ==
    ASSUME DeliveryTypes, NEW e \in Ends, TakeNext(e),
           NEW n \in Nat, NEW k \in Nat, Delivers(e, n, k)
    PROVE  /\ Feeds(enq'[e], batch'[e], n + 1)
           /\ Rests(enq[e], batch[e], sendList[e], n)
                 => Rests(enq'[e], batch'[e], sendList'[e], n + 1)
           /\ sendser'[e] = ((n + 1) + 1) % SerModulus
           /\ Head(batch[e]) = enq[e][n + 1]
           /\ n + 1 <= Len(enq[e])
           /\ Head(batch[e]) \in Events
<1>1. enq[e] \in Seq(Items) /\ sendList[e] \in Seq(Items) /\ batch[e] \in Seq(Events)
  BY EndTypes
<1>2. /\ batch[e] # <<>> /\ batch'[e] = Tail(batch[e])
      /\ enq'[e] = enq[e] /\ sendList'[e] = sendList[e]
      /\ sendser'[e] = (sendser[e] + 1) % SerModulus
  BY DEF TakeNext, DeliveryTypes, FlushTypes, WireTypes
<1>3. Feeds(enq[e], batch[e], n) /\ sendser[e] = (n + 1) % SerModulus
  BY DEF Delivers
<1>4. /\ Feeds(enq[e], Tail(batch[e]), n + 1)
      /\ Rests(enq[e], batch[e], sendList[e], n)
            => Rests(enq[e], Tail(batch[e]), sendList[e], n + 1)
      /\ Head(batch[e]) = enq[e][n + 1]
      /\ n + 1 <= Len(enq[e])
  BY <1>1, <1>2, <1>3, TakenInOrder
<1>5. (((n + 1) % SerModulus) + 1) % SerModulus = ((n + 1) + 1) % SerModulus
  <2>1. n + 1 \in Nat /\ SerModulus \in Nat \ {0}
    BY SessionAssumption
  <2> QED
    BY <2>1, SerialCounts
<1>6. Head(batch[e]) \in Events
  BY <1>1, <1>2, HeadTailProperties
<1> QED
  BY <1>2, <1>3, <1>4, <1>5, <1>6

LEMMA WriteBooked ==
    ASSUME MaxBad < SerModulus, DeliveryTypes, \A f \in Ends : Booked(f),
           NEW e \in Ends, SendWrite(e) \/ SendFail(e)
    PROVE  \A f \in Ends : Booked(f)'
<1> USE DEF recvVars
<1>0. /\ TakeNext(e) /\ spc[e] = "write"
      /\ UNCHANGED <<enq, sendList, spc, late, broken, got, recvser>>
  BY DEF SendWrite, SendFail, TakeNext
<1>1. ASSUME NEW f \in Ends, f # e PROVE Booked(f)'
  <2>1. batch'[f] = batch[f] /\ sendser'[f] = sendser[f]
    BY <1>0, <1>1 DEF TakeNext, DeliveryTypes, FlushTypes, WireTypes
  <2>2. wire'[f] = wire[f] /\ willExit'[f] = willExit[f]
    BY <1>1 DEF SendWrite, SendFail, DeliveryTypes, FlushTypes, WireTypes
  <2>3. Picks(f)' = Picks(f) /\ Writes(f)' = Writes(f)
    BY <1>0, <2>2 DEF Picks, Writes
  <2> QED
    BY <1>0, <2>1, <2>2, <2>3, QuietBooked
<1>2. PICK n \in Nat, k \in Nat : Delivers(e, n, k)
  BY DEF Booked
<1>3. /\ Feeds(enq'[e], batch'[e], n + 1)
      /\ Rests(enq[e], batch[e], sendList[e], n)
            => Rests(enq'[e], batch'[e], sendList'[e], n + 1)
      /\ sendser'[e] = ((n + 1) + 1) % SerModulus
      /\ Head(batch[e]) = enq[e][n + 1]
      /\ n + 1 <= Len(enq[e])
      /\ Head(batch[e]) \in Events
  <2>1. TakeNext(e) /\ Delivers(e, n, k)
    BY <1>0, <1>2
  <2> QED
    BY <2>1, TakeEffect
<1>4. /\ enq[e] \in Seq(Items) /\ wire[e] \in Seq(Frames)
      /\ got[Remote(e)] \in Seq(Events) /\ sendser[e] \in 0..(SerModulus - 1)
  BY EndTypes
<1>5. /\ Follows(enq[e], got[Remote(e)], wire[e], n, k)
      /\ Stops(got[Remote(e)], wire[e], k)
      /\ k = Len(wire[e]) /\ Writes(e) => OnlyBad(enq[e], got[Remote(e)], n, k)
      /\ sendser[e] = (n + 1) % SerModulus
      /\ Cardinality(Bad(enq[e])) <= MaxBad
  BY <1>2 DEF Delivers, Booked
<1>6. ASSUME NEW h \in Nat,
             Follows(enq[e], got[Remote(e)], wire'[e], n + 1, h),
             Stops(got[Remote(e)], wire'[e], h),
             h = Len(wire'[e]) /\ Writes(e)'
                => OnlyBad(enq[e], got[Remote(e)], n + 1, h)
      PROVE  Booked(e)'
  <2>1. Picks(e)' => Picks(e)
    BY <1>0 DEF Picks, SendWrite, SendFail, DeliveryTypes, FlushTypes
  <2>2. n + 1 \in Nat
    OBVIOUS
  <2>3. Delivers(e, n + 1, h)'
    BY <1>0, <1>2, <1>3, <1>6, <2>1 DEF Delivers
  <2> QED
    BY <1>0, <1>5, <2>2, <2>3 DEF Booked
<1>7. CASE SendWrite(e)
  <2>1. wire'[e] = Append(wire[e], Frame(e, TRUE)) /\ Writes(e)
    BY <1>0, <1>7 DEF SendWrite, Writes, DeliveryTypes, WireTypes
  <2>2. PICK f \in Frames : f = Frame(e, TRUE)
    BY <1>3, <1>4 DEF Frame, Frames
  <2>3. f.msg = enq[e][n + 1] /\ f.ser = (n + 1) % SerModulus
    BY <1>3, <1>5, <2>2 DEF Frame
  <2>4. PICK h \in Nat :
           /\ Follows(enq[e], got[Remote(e)], Append(wire[e], f), n + 1, h)
           /\ Stops(got[Remote(e)], Append(wire[e], f), h)
           /\ h = Len(Append(wire[e], f)) => OnlyBad(enq[e], got[Remote(e)], n + 1, h)
    BY <1>3, <1>4, <1>5, <2>1, <2>3, WrittenInOrder
  <2>5. /\ Follows(enq[e], got[Remote(e)], wire'[e], n + 1, h)
        /\ Stops(got[Remote(e)], wire'[e], h)
        /\ h = Len(wire'[e]) => OnlyBad(enq[e], got[Remote(e)], n + 1, h)
    BY <2>1, <2>2, <2>4
  <2> QED
    BY <1>1, <1>6, <2>5
<1>8. CASE SendFail(e) /\ wire'[e] = Append(wire[e], Frame(e, FALSE))
  <2>1. PICK f \in Frames : f = Frame(e, FALSE)
    BY <1>3, <1>4 DEF Frame, Frames
  <2>2. ~f.whole
    BY <2>1 DEF Frame
  <2>3. /\ Follows(enq[e], got[Remote(e)], Append(wire[e], f), n + 1, k)
        /\ Stops(got[Remote(e)], Append(wire[e], f), k)
        /\ k # Len(Append(wire[e], f))
    BY <1>4, <1>5, <2>2, CutInOrder
  <2>4. /\ Follows(enq[e], got[Remote(e)], wire'[e], n + 1, k)
        /\ Stops(got[Remote(e)], wire'[e], k)
        /\ k # Len(wire'[e])
    BY <1>8, <2>1, <2>3
  <2> QED
    BY <1>1, <1>6, <2>4
<1>9. CASE SendFail(e) /\ wire' = wire
  <2>1. Follows(enq[e], got[Remote(e)], wire[e], n + 1, k)
    <3>1. Len(got[Remote(e)]) + k <= n => Len(got[Remote(e)]) + k <= n + 1
      BY <1>4
    <3> QED
      BY <1>5, <3>1 DEF Follows
  <2>2. ASSUME k = Len(wire[e]), Writes(e)'
        PROVE  OnlyBad(enq[e], got[Remote(e)], n + 1, k)
    <3>1. willExit'[e] /\ (Head(batch[e]) \in Unencodable \/ broken \/ late[e])
      BY <1>9 DEF SendFail, DeliveryTypes, FlushTypes
    <3>2. Writes(e) /\ Head(batch[e]) \in Unencodable
      BY <1>0, <2>2, <3>1 DEF Writes
    <3>3. OnlyBad(enq[e], got[Remote(e)], n, k) /\ enq[e][n + 1] \in Unencodable
      BY <1>3, <1>5, <2>2, <3>2
    <3>4. Len(got[Remote(e)]) \in Nat
      BY <1>4
    <3>5. \A i \in (Len(got[Remote(e)]) + k + 1)..(n + 1) :
             i \in (Len(got[Remote(e)]) + k + 1)..n \/ i = n + 1
      BY <3>4
    <3> QED
      BY <3>3, <3>5 DEF OnlyBad
  <2>3. /\ Follows(enq[e], got[Remote(e)], wire'[e], n + 1, k)
        /\ Stops(got[Remote(e)], wire'[e], k)
        /\ k = Len(wire'[e]) /\ Writes(e)' => OnlyBad(enq[e], got[Remote(e)], n + 1, k)
    BY <1>5, <1>9, <2>1, <2>2
  <2> QED
    BY <1>1, <1>6, <2>3
<1>10. SendFail(e) => wire' = wire \/ wire'[e] = Append(wire[e], Frame(e, FALSE))
  BY DEF SendFail, DeliveryTypes, WireTypes
<1> QED
  BY <1>7, <1>8, <1>9, <1>10

\* The steps of the loops that touch neither list, batch nor wire.
LEMMA LoopBooked ==
    ASSUME DeliveryTypes, \A f \in Ends : Booked(f), NEW e \in Ends,
           SendArm(e) \/ SendLoop(e) \/ SendShut(e) \/ SendEnd(e) \/ WriteDeadlinePasses(e)
    PROVE  \A f \in Ends : Booked(f)'
<1>1. UNCHANGED <<enq, sendList, batch, willExit, sendser, wire, broken, got, recvser>>
  BY DEF SendArm, SendLoop, SendShut, SendEnd, WriteDeadlinePasses, recvVars
<1>2. ASSUME NEW f \in Ends
      PROVE  (Picks(f)' => Picks(f)) /\ (Writes(f)' => Writes(f))
  <2>1. CASE f # e
    <3>1. spc'[f] = spc[f] /\ late'[f] = late[f]
      BY <2>1 DEF SendArm, SendLoop, SendShut, SendEnd, WriteDeadlinePasses,
                  DeliveryTypes, FlushTypes, WireTypes
    <3> QED
      BY <1>1, <3>1 DEF Picks, Writes
  <2>2. CASE f = e /\ SendArm(e)
    BY <1>1, <2>2 DEF SendArm, Picks, Writes
  <2>3. CASE f = e /\ SendLoop(e)
    <3>1. /\ spc[e] = "write" /\ late'[e] = late[e]
          /\ spc'[e] = IF willExit[e] THEN "shut" ELSE "arm"
      BY <2>3 DEF SendLoop, DeliveryTypes, FlushTypes
    <3> QED
      BY <1>1, <2>3, <3>1 DEF Picks, Writes
  <2>4. CASE f = e /\ (SendShut(e) \/ SendEnd(e))
    <3>1. spc'[e] \in {"end", "done"}
      BY <2>4 DEF SendShut, SendEnd, DeliveryTypes, FlushTypes
    <3> QED
      BY <2>4, <3>1 DEF Picks, Writes
  <2>5. CASE f = e /\ WriteDeadlinePasses(e)
    <3>1. spc' = spc /\ ~late[e]
      BY <2>5 DEF WriteDeadlinePasses
    <3> QED
      BY <1>1, <2>5, <3>1 DEF Picks, Writes
  <2> QED
    BY <2>1, <2>2, <2>3, <2>4, <2>5
<1> QED
  BY <1>1, <1>2, QuietBooked

\* PrivatePacketReader accepts the frame.
LEMMA ReadBooked ==
    ASSUME DeliveryTypes, \A f \in Ends : Booked(f), NEW r \in Ends, RecvRead(r)
    PROVE  \A f \in Ends : Booked(f)'
<1>1. PICK e \in Ends : e = Remote(r)
  BY EndTypes
<1>2. r = Remote(e) /\ e # r /\ \A f \in Ends : f # e => f = r
  BY <1>1 DEF Remote, Ends
<1>3. UNCHANGED <<enq, sendList, spc, batch, willExit, late, sendser, broken>>
  BY DEF RecvRead, sendVars
<1>4. ASSUME NEW f \in Ends PROVE Picks(f)' = Picks(f) /\ Writes(f)' = Writes(f)
  BY <1>3 DEF Picks, Writes
<1>5. Booked(r)'
  <2>1. Remote(r) # r /\ Remote(r) \in Ends
    BY EndTypes
  <2>2. got'[Remote(r)] = got[Remote(r)] /\ recvser'[Remote(r)] = recvser[Remote(r)]
        /\ wire'[r] = wire[r]
    BY <2>1 DEF RecvRead, DeliveryTypes, WireTypes
  <2> QED
    BY <1>3, <1>4, <2>2, QuietBooked
<1>6. Booked(e)'
  <2>1. PICK n \in Nat, k \in Nat : Delivers(e, n, k)
    BY DEF Booked
  <2>2. enq[e] \in Seq(Items) /\ wire[e] \in Seq(Frames) /\ got[r] \in Seq(Events)
    BY <1>2, EndTypes
  <2>3. /\ wire[e] # <<>> /\ Head(wire[e]).whole /\ Head(wire[e]).ser = recvser[r]
        /\ got'[r] = Append(got[r], Head(wire[e]).msg) /\ wire'[e] = Tail(wire[e])
        /\ recvser'[r] = (recvser[r] + 1) % SerModulus
    BY <1>1, <1>2 DEF RecvRead, Arrived, Acceptable, Incoming, DeliveryTypes, WireTypes
  <2>4. /\ Follows(enq[e], got[r], wire[e], n, k) /\ Stops(got[r], wire[e], k)
        /\ recvser[r] = (Len(got[r]) + 1) % SerModulus
        /\ k = Len(wire[e]) /\ Writes(e) => OnlyBad(enq[e], got[r], n, k)
    BY <1>2, <2>1 DEF Delivers
  <2>5. /\ k - 1 \in Nat
        /\ Follows(enq[e], got'[r], wire'[e], n, k - 1)
        /\ Stops(got'[r], wire'[e], k - 1)
        /\ k - 1 = Len(wire'[e]) => k = Len(wire[e])
        /\ OnlyBad(enq[e], got[r], n, k) => OnlyBad(enq[e], got'[r], n, k - 1)
    <3>1. Head(wire[e]).ser = (Len(got[r]) + 1) % SerModulus
      BY <2>3, <2>4
    <3>2. /\ k - 1 \in Nat
          /\ Follows(enq[e], Append(got[r], Head(wire[e]).msg), Tail(wire[e]), n, k - 1)
          /\ Stops(Append(got[r], Head(wire[e]).msg), Tail(wire[e]), k - 1)
          /\ k - 1 = Len(Tail(wire[e])) => k = Len(wire[e])
          /\ OnlyBad(enq[e], got[r], n, k)
                => OnlyBad(enq[e], Append(got[r], Head(wire[e]).msg), n, k - 1)
      BY <2>2, <2>3, <2>4, <3>1, ReadInOrder
    <3> QED
      BY <2>3, <3>2, Zenon
  <2>6. recvser'[r] = (Len(got'[r]) + 1) % SerModulus
    <3>1. Len(got[r]) + 1 \in Nat
      BY <2>2
    <3>2. (((Len(got[r]) + 1) % SerModulus) + 1) % SerModulus
             = ((Len(got[r]) + 1) + 1) % SerModulus
      BY <3>1, SessionAssumption, SerialCounts
    <3>3. Head(wire[e]) \in Frames
      BY <2>2, <2>3, HeadTailProperties
    <3>4. Head(wire[e]).msg \in Events
      BY <3>3 DEF Frames
    <3>5. Len(got'[r]) = Len(got[r]) + 1
      BY <2>2, <2>3, <3>4, AppendProperties
    <3> QED
      BY <2>3, <2>4, <3>2, <3>5
  <2>7. Delivers(e, n, k - 1)'
    BY <1>2, <1>3, <1>4, <2>1, <2>4, <2>5, <2>6 DEF Delivers
  <2> QED
    BY <1>3, <2>5, <2>7 DEF Booked
<1> QED
  BY <1>2, <1>5, <1>6

LEMMA LoseBooked ==
    ASSUME DeliveryTypes, \A f \in Ends : Booked(f), Lose
    PROVE  \A f \in Ends : Booked(f)'
<1>1. /\ UNCHANGED <<enq, sendList, spc, batch, willExit, late, sendser, got, recvser>>
      /\ broken'
  BY DEF Lose, sendVars, recvVars
<1>2. PICK c \in [Ends -> 0..(WireCap + 1)] :
         /\ \A e \in Ends : c[e] <= Len(wire[e])
         /\ wire' = [e \in Ends |-> SubSeq(wire[e], 1, c[e])]
  BY DEF Lose
<1>3. ASSUME NEW e \in Ends PROVE Booked(e)'
  <2>1. PICK n \in Nat, k \in Nat : Delivers(e, n, k)
    BY DEF Booked
  <2>2. /\ enq[e] \in Seq(Items) /\ wire[e] \in Seq(Frames)
        /\ got[Remote(e)] \in Seq(Events)
    BY EndTypes
  <2>3. c[e] \in Nat /\ c[e] <= Len(wire[e]) /\ wire'[e] = SubSeq(wire[e], 1, c[e])
    BY <1>2, SessionAssumption
  <2>4. /\ Follows(enq[e], got[Remote(e)], wire[e], n, k)
        /\ Stops(got[Remote(e)], wire[e], k)
    BY <2>1 DEF Delivers
  <2>5. PICK h \in Nat : /\ Follows(enq[e], got[Remote(e)], wire'[e], n, h)
                         /\ Stops(got[Remote(e)], wire'[e], h)
    <3>1. \E h \in Nat : /\ Follows(enq[e], got[Remote(e)], SubSeq(wire[e], 1, c[e]), n, h)
                         /\ Stops(got[Remote(e)], SubSeq(wire[e], 1, c[e]), h)
      BY <2>2, <2>3, <2>4, LostInOrder
    <3> QED
      BY <2>3, <3>1, Zenon
  <2>6. ~Writes(e)' /\ Picks(e)' = Picks(e)
    BY <1>1 DEF Writes, Picks
  <2>7. Delivers(e, n, h)'
    BY <1>1, <2>1, <2>5, <2>6 DEF Delivers
  <2> QED
    BY <1>1, <2>7 DEF Booked
<1> QED
  BY <1>3

LEMMA DeliveryInit == Init => DeliveryInv
<1> SUFFICES ASSUME Init, NEW e \in Ends PROVE Booked(e)
  BY DEF DeliveryInv
<1>1. Remote(e) \in Ends
  BY DEF Remote, Ends
<1>2. /\ enq[e] = <<>> /\ batch[e] = <<>> /\ sendList[e] = <<>> /\ wire[e] = <<>>
      /\ got[Remote(e)] = <<>> /\ sendser[e] = 1 % SerModulus
      /\ recvser[Remote(e)] = 1 % SerModulus
  BY <1>1 DEF Init
<1>3. Bad(enq[e]) = {}
  BY <1>2 DEF Bad
<1>4. Cardinality(Bad(enq[e])) <= MaxBad
  BY <1>3, FS_EmptySet, SessionAssumption
<1>5. Len(<<>>) = 0 /\ 0 + 1 = 1 /\ 0 + 0 = 0 /\ 1..0 = {} /\ (0 + 0 + 1)..0 = {}
  OBVIOUS
<1>6. Feeds(<<>>, <<>>, 0) /\ Rests(<<>>, <<>>, <<>>, 0) /\ Follows(<<>>, <<>>, <<>>, 0, 0)
  BY <1>5 DEF Feeds, Rests, Follows
<1>7. Stops(<<>>, <<>>, 0) /\ OnlyBad(<<>>, <<>>, 0, 0)
  BY <1>5 DEF Stops, OnlyBad
<1>8. Delivers(e, 0, 0)
  BY <1>2, <1>5, <1>6, <1>7 DEF Delivers
<1> QED
  BY <1>4, <1>8 DEF Booked

LEMMA DeliveryStep ==
    ASSUME MaxBad < SerModulus, DeliveryTypes, DeliveryInv, [Next]_vars
    PROVE  DeliveryInv'
<1>1. \A f \in Ends : Booked(f)
  BY DEF DeliveryInv
<1> SUFFICES \A f \in Ends : Booked(f)'
  BY DEF DeliveryInv
<1> DEFINE Goal == \A f \in Ends : Booked(f)'
<1>2. ASSUME UNCHANGED <<enq, sendList, spc, batch, willExit, late, sendser,
                         wire, broken, got, recvser>>
      PROVE  Goal
  <2>1. ASSUME NEW f \in Ends PROVE Picks(f)' = Picks(f) /\ Writes(f)' = Writes(f)
    BY <1>2 DEF Picks, Writes
  <2> QED
    BY <1>1, <1>2, <2>1, QuietBooked
<1>3. ASSUME NEW e \in Ends, (\E m \in Events : Send(e, m)) \/ Close(e) PROVE Goal
  <2>1. PICK x \in Items : /\ Add(e, x)
                           /\ x \in Unencodable => Cardinality(Bad(enq[e])) < MaxBad
    <3>1. Nil \in Items /\ Nil \notin Unencodable
      BY NilAssumption, SessionAssumption DEF Items
    <3> QED
      BY <1>3, <3>1 DEF Send, Close, Items
  <2>2. UNCHANGED <<sendVars, recvser, got, wire, broken>>
    BY <1>3 DEF Send, Close, recvVars
  <2> QED
    BY <1>1, <2>1, <2>2, AddBooked
<1>4. ASSUME NEW e \in Ends, SendArm(e) \/ SendPick(e) PROVE Goal
  BY <1>1, <1>4, PickBooked, LoopBooked
<1>5. ASSUME NEW e \in Ends, SendWrite(e) \/ SendFail(e) PROVE Goal
  BY <1>1, <1>5, WriteBooked
<1>6. ASSUME NEW e \in Ends, SendLoop(e) \/ SendShut(e) \/ SendEnd(e) PROVE Goal
  BY <1>1, <1>6, LoopBooked
<1>7. ASSUME NEW e \in Ends, RecvRead(e) \/ RecvFail(e) PROVE Goal
  <2>1. CASE RecvRead(e)
    BY <1>1, <2>1, ReadBooked
  <2>2. CASE RecvFail(e)
    BY <1>2, <2>2 DEF RecvFail, sendVars
  <2> QED
    BY <1>7, <2>1, <2>2
<1>8. ASSUME NEW e \in Ends, RecvNotify(e) \/ RecvEnd(e) PROVE Goal
  <2>1. UNCHANGED <<sendVars, recvser, got, wire, broken>>
    BY <1>8 DEF RecvNotify, RecvEnd
  <2>2. Add(e, Nil) \/ UNCHANGED <<enq, sendList>>
    BY <1>8 DEF RecvNotify, RecvEnd
  <2>3. Nil \in Items /\ Nil \notin Unencodable
    BY NilAssumption, SessionAssumption DEF Items
  <2> QED
    BY <1>1, <1>2, <2>1, <2>2, <2>3, AddBooked DEF sendVars
<1>9. ASSUME NEW e \in Ends, WaitBoth(e) \/ WriteDeadlinePasses(e) PROVE Goal
  <2>1. CASE WaitBoth(e)
    BY <1>2, <2>1 DEF WaitBoth, sendVars, recvVars
  <2>2. CASE WriteDeadlinePasses(e)
    BY <1>1, <2>2, LoopBooked
  <2> QED
    BY <1>9, <2>1, <2>2
<1>10. ASSUME Lose PROVE Goal
  BY <1>1, <1>10, LoseBooked
<1>11. ASSUME UNCHANGED vars PROVE Goal
  BY <1>2, <1>11 DEF vars, sendVars, recvVars
<1> HIDE DEF Goal
<1>12. Goal
  BY <1>3, <1>4, <1>5, <1>6, <1>7, <1>8, <1>9, <1>10, <1>11, NextCases
<1> QED
  BY <1>12 DEF Goal

\* The events in front of the first nil are a prefix that no event can leave.
LEMMA PrefixOfSent ==
    ASSUME NEW E \in Seq(Items), NEW G \in Seq(Events), NEW n \in Nat,
           Len(G) <= n, n <= Len(E), \A i \in 1..n : E[i] \in Events,
           \A i \in 1..Len(G) : G[i] = E[i]
    PROVE  IsPrefix(G, BeforeNil(E))
<1>1. PICK P \in Seq(Events) : P = BeforeNil(E)
  BY BeforeNilType
<1>2. /\ Len(P) \in Nat /\ n <= Len(P)
      /\ \A i \in 1..Len(P) : P[i] = E[i]
  <2>1. CASE HasNil(E)
    <3>1. FirstNil(E) \in 1..Len(E) /\ E[FirstNil(E)] = Nil
      BY <2>1, FirstNilProperties
    <3>2. ~(FirstNil(E) \in 1..n)
      BY <3>1, NilAssumption
    <3>3. P = SubSeq(E, 1, FirstNil(E) - 1)
      BY <1>1, <2>1 DEF BeforeNil
    <3>4. Len(P) = FirstNil(E) - 1 /\ \A i \in 1..Len(P) : P[i] = E[i]
      BY <3>1, <3>3
    <3> QED
      BY <3>1, <3>2, <3>4
  <2>2. CASE ~HasNil(E)
    BY <1>1, <2>2 DEF BeforeNil
  <2> QED
    BY <2>1, <2>2
<1>3. Len(G) \in Nat /\ Len(G) <= Len(P)
  BY <1>2
<1>4. \A i \in 1..Len(G) : G[i] = P[i]
  BY <1>2, <1>3
<1>5. SubSeq(G, 1, Len(G)) = SubSeq(P, 1, Len(G))
  <2>1. /\ SubSeq(G, 1, Len(G)) \in Seq(Events) /\ Len(SubSeq(G, 1, Len(G))) = Len(G)
        /\ \A i \in 1..Len(G) : SubSeq(G, 1, Len(G))[i] = G[i]
    BY <1>3
  <2>2. /\ SubSeq(P, 1, Len(G)) \in Seq(Events) /\ Len(SubSeq(P, 1, Len(G))) = Len(G)
        /\ \A i \in 1..Len(G) : SubSeq(P, 1, Len(G))[i] = P[i]
    BY <1>2, <1>3
  <2> QED
    BY <1>3, <1>4, <2>1, <2>2, SeqEqual
<1> QED
  BY <1>1, <1>3, <1>5 DEF IsPrefix

\* What an end hands to its receive chains is a prefix of what the logic of the
\* other end sent before it closed, as long as fewer messages fail to encode
\* than there are serials (2^16 in handler_privatepkt.go): behind as many
\* unencodable messages in one batch as there are serials, the next message
\* has the serial the reader expects and the gap would not show.
THEOREM PrefixArrives ==
    ASSUME MaxBad < SerModulus
    PROVE  Safe => []DeliveredInOrder
<1>1. DeliveryTypes /\ DeliveryInv => DeliveredInOrder
  <2> SUFFICES ASSUME DeliveryTypes, DeliveryInv, NEW e \in Ends
               PROVE  IsPrefix(got[Remote(e)], BeforeNil(enq[e]))
    BY DEF DeliveredInOrder
  <2>1. PICK n \in Nat, k \in Nat : Delivers(e, n, k)
    BY DEF DeliveryInv, Booked
  <2>2. /\ enq[e] \in Seq(Items) /\ got[Remote(e)] \in Seq(Events)
        /\ batch[e] \in Seq(Events)
    BY EndTypes
  <2>3. Len(batch[e]) \in Nat /\ Len(enq[e]) \in Nat /\ Len(got[Remote(e)]) \in Nat
    BY <2>2
  <2>4. /\ n <= Len(enq[e]) /\ \A i \in 1..n : enq[e][i] \in Events
        /\ Len(got[Remote(e)]) <= n
        /\ \A i \in 1..Len(got[Remote(e)]) : got[Remote(e)][i] = enq[e][i]
    BY <2>1, <2>3 DEF Delivers, Feeds, Follows
  <2> QED
    BY <2>2, <2>4, PrefixOfSent
<1>2. FlushInv /\ WireTypes => DeliveryTypes
  BY DEF FlushInv, DeliveryTypes
<1>3. DeliveryTypes /\ DeliveryInv /\ [Next]_vars => DeliveryInv'
  BY DeliveryStep
<1> QED
  BY <1>1, <1>2, <1>3, FlushInit, FlushStep, WireInit, WireStep, DeliveryInit, PTL
  DEF Safe

=============================================================================
