-------------------------- MODULE EventListProofs --------------------------
(***************************************************************************)
(* For any set of producers and any number of Adds: the invariants of      *)
(* EventList, and that its mutex steps implement SendQueue.                *)
(***************************************************************************)
EXTENDS EventList, WellFoundedInduction, SequenceTheorems, TLAPS

(***************************************************************************)
(* What the copy loop of Pick returns.                                     *)
(***************************************************************************)

\* The copy loop of Pick (evtlist.go:41-49) stops at the first nil: FirstNil
\* is an index of the list, a nil stands there and none before it.
LEMMA FirstNilProperties ==
    ASSUME NEW s, Len(s) \in Nat, HasNil(s)
    PROVE  /\ FirstNil(s) \in 1..Len(s)
           /\ s[FirstNil(s)] = Nil
           /\ \A j \in 1..(FirstNil(s) - 1) : s[j] # Nil
<1> DEFINE N == {i \in 1..Len(s) : s[i] = Nil}
<1>1. N # {} /\ N \in SUBSET Nat
  BY DEF HasNil
<1>2. PICK n \in N : \A m \in N : n <= m
  <2> DEFINE LessThan == OpToRel(<, Nat)
  <2>1. \A m, n \in Nat : m < n => <<m, n>> \in LessThan
    BY DEF OpToRel
  <2>2. IsWellFoundedOn(LessThan, Nat)
    BY NatLessThanWellFounded
  <2> HIDE DEF LessThan
  <2> HIDE DEF N
  <2>3. PICK n \in N : \A m \in N : ~(<<m, n>> \in LessThan)
    BY <1>1, <2>2, WFMin
  <2>4. ASSUME NEW m \in N PROVE n <= m
    <3>1. m \in Nat /\ n \in Nat /\ ~(<<m, n>> \in LessThan)
      BY <1>1, <2>3
    <3>2. ~(m < n)
      BY <2>1, <3>1
    <3> QED
      BY <3>1, <3>2
  <2> QED
    BY <2>4
<1>3. n \in 1..Len(s) /\ s[n] = Nil /\ \A j \in 1..(n - 1) : s[j] # Nil
  BY <1>2
<1> QED
  BY <1>3 DEF FirstNil

\* The batch Pick returns holds events of the list and never the nil.
LEMMA BeforeNilType ==
    ASSUME NEW s \in Seq(Items)
    PROVE  BeforeNil(s) \in Seq(Events)
<1>1. CASE HasNil(s)
  <2> DEFINE k == FirstNil(s) - 1
  <2>1. k \in Nat /\ k < Len(s) /\ \A j \in 1..k : s[j] # Nil
    BY <1>1, FirstNilProperties, LenProperties
  <2>2. \A j \in 1..k : s[j] \in Events
    BY <2>1, ElementOfSeq DEF Items
  <2>3. SubSeq(s, 1, k) = [j \in 1..k |-> s[j]]
    BY <2>1
  <2>4. SubSeq(s, 1, k) \in Seq(Events)
    BY <2>1, <2>2, <2>3
  <2> QED
    BY <1>1, <2>4 DEF BeforeNil
<1>2. CASE ~HasNil(s)
  <2>1. \A j \in 1..Len(s) : s[j] \in Events
    BY <1>2, ElementOfSeq DEF Items, HasNil
  <2> QED
    BY <1>2, <2>1 DEF BeforeNil
<1> QED
  BY <1>1, <1>2

-----------------------------------------------------------------------------

(***************************************************************************)
(* The inductive invariant.  NoLostWakeup and NeverEmptyPick hold only     *)
(* because the mutex is exclusive, so who holds it is part of it, as is    *)
(* what the consumer knows between its two critical sections.              *)
(***************************************************************************)

\* A goroutine owns listGuard exactly between a Lock and the Unlock after it.
Locked(t) == IF t = Consumer
             THEN pc[t] \in {"check", "park", "unlock", "copy", "return"}
             ELSE pc[t] \in {"append", "unlock"}

MutexInv == \A t \in Threads : Locked(t) <=> listGuard = t

\* Once the wait loop has seen an event only the consumer can take it.
FilledInv == pc[Consumer] \in {"unlock", "relock", "copy"} => list # <<>>

IInv == TypeOK /\ MutexInv /\ FilledInv /\ NoLostWakeup

LEMMA InitInv == Init => IInv
<1> SUFFICES ASSUME Init PROVE IInv
  OBVIOUS
<1> USE DEF Init
<1>1. TypeOK
  <2>1. list \in Seq(Items) /\ ret \in Seq(Events)
    OBVIOUS
  <2>2. arg \in [Producers -> Items]
    BY DEF Items
  <2>3. adds \in 0..MaxAdds
    BY MaxAddsAssumption
  <2> QED
    BY <2>1, <2>2, <2>3 DEF TypeOK, Threads, ProducerPC, ConsumerPC
<1>2. MutexInv /\ FilledInv /\ NoLostWakeup
  BY ThreadAssumption DEF MutexInv, Locked, FilledInv, NoLostWakeup, Threads
<1> QED
  BY <1>1, <1>2 DEF IInv

\* Each step of Add and of Pick keeps the types.
LEMMA TypeStep == IInv /\ [Next]_vars => TypeOK'
<1> SUFFICES ASSUME IInv, [Next]_vars PROVE TypeOK'
  OBVIOUS
<1> USE ThreadAssumption, MaxAddsAssumption
    DEF IInv, TypeOK, Threads, ProducerPC, ConsumerPC, Goto, Lock, Unlock
<1>1. ASSUME NEW p \in Producers, NEW x \in Items, AddLock(p, x) PROVE TypeOK'
  BY <1>1 DEF AddLock
<1>2. ASSUME NEW p \in Producers, AddAppend(p) PROVE TypeOK'
  <2>1. list' \in Seq(Items)
    BY <1>2, AppendProperties DEF AddAppend
  <2> QED
    BY <1>2, <2>1 DEF AddAppend
<1>3. ASSUME NEW p \in Producers, AddUnlock(p) PROVE TypeOK'
  BY <1>3 DEF AddUnlock
<1>4. ASSUME NEW p \in Producers, AddSignal(p) PROVE TypeOK'
  BY <1>4 DEF AddSignal
<1>5. CASE PickLock \/ PickPark \/ PickWake \/ PickUnlock \/ PickRelock
  BY <1>5 DEF PickLock, PickPark, PickWake, PickUnlock, PickRelock
<1>6. CASE PickCheck
  BY <1>6 DEF PickCheck
<1>7. CASE PickCopy
  <2>1. ret' \in Seq(Events) /\ exit' \in BOOLEAN /\ list' \in Seq(Items)
    BY <1>7, BeforeNilType DEF PickCopy, HasNil
  <2> QED
    BY <1>7, <2>1 DEF PickCopy
<1>8. CASE PickReturn
  BY <1>8 DEF PickReturn
<1>9. CASE UNCHANGED vars
  BY <1>9 DEF vars
<1> QED
  BY <1>1, <1>2, <1>3, <1>4, <1>5, <1>6, <1>7, <1>8, <1>9
  DEF Next, Producer, Consume

\* Each step keeps the mutex exclusive and what follows from it.
LEMMA MutexStep == IInv /\ [Next]_vars => MutexInv' /\ FilledInv'
<1> SUFFICES ASSUME IInv, [Next]_vars PROVE MutexInv' /\ FilledInv'
  OBVIOUS
<1> USE ThreadAssumption
    DEF IInv, TypeOK, MutexInv, FilledInv, Locked, Threads, ProducerPC, ConsumerPC,
        Goto, Lock, Unlock
<1>1. ASSUME NEW p \in Producers, NEW x \in Items, AddLock(p, x)
      PROVE MutexInv' /\ FilledInv'
  BY <1>1 DEF AddLock
<1>2. ASSUME NEW p \in Producers, AddAppend(p) PROVE MutexInv' /\ FilledInv'
  <2>1. list' # <<>>
    BY <1>2, AppendProperties DEF AddAppend
  <2> QED
    BY <1>2, <2>1 DEF AddAppend
<1>3. ASSUME NEW p \in Producers, AddUnlock(p) PROVE MutexInv' /\ FilledInv'
  BY <1>3 DEF AddUnlock
<1>4. ASSUME NEW p \in Producers, AddSignal(p) PROVE MutexInv' /\ FilledInv'
  BY <1>4 DEF AddSignal
<1>5. CASE PickLock \/ PickPark \/ PickWake \/ PickUnlock \/ PickRelock
  BY <1>5 DEF PickLock, PickPark, PickWake, PickUnlock, PickRelock
<1>6. CASE PickCheck
  BY <1>6 DEF PickCheck
<1>7. CASE PickCopy
  BY <1>7 DEF PickCopy
<1>8. CASE PickReturn
  BY <1>8 DEF PickReturn
<1>9. CASE UNCHANGED vars
  BY <1>9 DEF vars
<1> QED
  BY <1>1, <1>2, <1>3, <1>4, <1>5, <1>6, <1>7, <1>8, <1>9
  DEF Next, Producer, Consume

\* Each step of Add and of Pick keeps a signal on its way to a consumer that
\* sleeps on a list with events.
LEMMA WakeupStep == IInv /\ [Next]_vars => NoLostWakeup'
<1> SUFFICES ASSUME IInv, [Next]_vars PROVE NoLostWakeup'
  OBVIOUS
<1> USE ThreadAssumption
    DEF IInv, TypeOK, MutexInv, Locked, NoLostWakeup, Threads, ProducerPC, ConsumerPC,
        Goto, Lock, Unlock
<1>1. ASSUME NEW p \in Producers, NEW x \in Items, AddLock(p, x)
      PROVE NoLostWakeup'
  BY <1>1 DEF AddLock
<1>2. ASSUME NEW p \in Producers, AddAppend(p) PROVE NoLostWakeup'
  BY <1>2 DEF AddAppend
<1>3. ASSUME NEW p \in Producers, AddUnlock(p) PROVE NoLostWakeup'
  BY <1>3 DEF AddUnlock
<1>4. ASSUME NEW p \in Producers, AddSignal(p) PROVE NoLostWakeup'
  BY <1>4 DEF AddSignal
<1>5. CASE PickLock \/ PickPark \/ PickWake \/ PickUnlock \/ PickRelock
  BY <1>5 DEF PickLock, PickPark, PickWake, PickUnlock, PickRelock
<1>6. CASE PickCheck
  BY <1>6 DEF PickCheck
<1>7. CASE PickCopy \/ PickReturn
  BY <1>7 DEF PickCopy, PickReturn
<1>8. CASE UNCHANGED vars
  BY <1>8 DEF vars
<1> QED
  BY <1>1, <1>2, <1>3, <1>4, <1>5, <1>6, <1>7, <1>8
  DEF Next, Producer, Consume

\* IInv is an invariant of eventList.
LEMMA Invariance == Safe => []IInv
<1>1. IInv /\ [Next]_vars => IInv'
  BY TypeStep, MutexStep, WakeupStep DEF IInv
<1> QED
  BY <1>1, InitInv, PTL DEF Safe

-----------------------------------------------------------------------------

\* The variables of eventList keep their types; a batch Pick returns holds
\* events only, never the nil of Close.
THEOREM TypeCorrect == Safe => []TypeOK
BY Invariance, PTL DEF IInv

\* Signalling after the Unlock (evtlist.go:18-20) loses no wakeup, however
\* many goroutines call Add.
THEOREM NoWakeupIsLost == Safe => []NoLostWakeup
BY Invariance, PTL DEF IInv

\* The gap between the two critical sections of Pick (evtlist.go:35-37) never
\* lets the copy loop run on an empty list.
THEOREM PickIsNeverEmpty == Safe => []NeverEmptyPick
<1>1. IInv => NeverEmptyPick
  BY DEF IInv, FilledInv, NeverEmptyPick
<1> QED
  BY <1>1, Invariance, PTL

\* eventList implements SendQueue: its mutex steps are the atomic Add and
\* Pick of the abstract queue, or change nothing the queue shows.
THEOREM ImplementsSendQueue == Safe => RefinesSendQueue
<1>1. Init => SQ!Init
  BY DEF Init, SQ!Init
<1>2. ASSUME IInv, [Next]_vars PROVE [SQ!Next]_SQ!vars
  <2> USE <1>2 DEF SQ!vars
  <2>1. ASSUME NEW p \in Producers, AddAppend(p) PROVE SQ!Next
    <3>1. arg[p] \in SQ!Items
      BY DEF IInv, TypeOK, Items, SQ!Items
    <3>2. SQ!Add(arg[p])
      BY <2>1 DEF AddAppend, SQ!Add
    <3> QED
      BY <3>1, <3>2 DEF SQ!Next
  <2>2. CASE PickCopy
    <3>1. list # <<>>
      BY <2>2 DEF IInv, FilledInv, PickCopy
    <3> QED
      BY <2>2, <3>1 DEF PickCopy, SQ!Next, SQ!Pick,
                    SQ!BeforeNil, SQ!HasNil, SQ!FirstNil, BeforeNil, HasNil, FirstNil
  <2>3. ASSUME NEW p \in Producers,
               (\E x \in Items : AddLock(p, x)) \/ AddUnlock(p) \/ AddSignal(p)
        PROVE UNCHANGED <<list, ret, exit>>
    BY <2>3 DEF AddLock, AddUnlock, AddSignal
  <2>4. CASE \/ PickLock \/ PickCheck \/ PickPark \/ PickWake
             \/ PickUnlock \/ PickRelock \/ PickReturn
    BY <2>4 DEF PickLock, PickCheck, PickPark, PickWake,
                PickUnlock, PickRelock, PickReturn
  <2>5. CASE UNCHANGED vars
    BY <2>5 DEF vars
  <2> QED
    BY <2>1, <2>2, <2>3, <2>4, <2>5 DEF Next, Producer, Consume
<1> QED
  BY <1>1, <1>2, Invariance, PTL DEF Safe, RefinesSendQueue, SQ!Spec

=============================================================================
