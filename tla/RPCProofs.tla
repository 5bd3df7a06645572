------------------------------ MODULE RPCProofs ------------------------------
(***************************************************************************)
(* For any number of calls and any capacity of the queue: the types of     *)
(* RPC, that the cached list of chains is never out of date unnoticed, and *)
(* that a call is told what came for it, whichever calls wait for answers  *)
(* of the same type.                                                       *)
(***************************************************************************)
EXTENDS RPC, SequenceTheorems, TLAPS

\* The chains start out with a clean, empty cache.
LEMMA InitTypes == Init => TypeOK /\ CacheIsCurrent
<1> SUFFICES ASSUME Init PROVE TypeOK /\ CacheIsCurrent
  OBVIOUS
<1>1. ChainsTypeOK /\ CacheIsCurrent
  <2>1. chainIDAcc \in 0..MaxChains
    BY ChainsAssumption DEF Init, ChainsInit
  <2> QED
    BY <2>1, Zenon DEF Init, ChainsInit, ChainsTypeOK, CacheIsCurrent
<1>2. 0 \in 0..MaxChains /\ QueueLen \in Nat
  BY ChainsAssumption, RPCAssumption
<1>3. /\ answers \in Seq(Calls) /\ queue \in Seq(Jobs) /\ job \in Seq(Jobs)
      /\ Len(queue) = 0 /\ Len(job) = 0
  BY EmptySeq DEF Init
<1>4. came \in [Calls -> Seq(Calls)] /\ told \in [Calls -> Seq(Calls)]
  BY EmptySeq DEF Init
<1> QED
  BY <1>1, <1>2, <1>3, <1>4 DEF Init, TypeOK

\* A method of the chain manager keeps its types and marks what it changes.
LEMMA ChainSteps ==
    ASSUME ChainsTypeOK, CacheIsCurrent
    PROVE  /\ AddChainRecv => ChainsTypeOK' /\ CacheIsCurrent' /\ chainIDAcc' \in 0..MaxChains
           /\ \A i : RemoveChainRecv(i) => ChainsTypeOK' /\ CacheIsCurrent'
           /\ ChainListRecv => ChainsTypeOK' /\ CacheIsCurrent'
           /\ UNCHANGED chainVars => ChainsTypeOK' /\ CacheIsCurrent'
<1> USE ChainsAssumption DEF ChainsTypeOK, CacheIsCurrent, ChainIDs
<1>1. AddChainRecv => ChainsTypeOK' /\ CacheIsCurrent' /\ chainIDAcc' \in 0..MaxChains
  BY DEF AddChainRecv
<1>2. \A i : RemoveChainRecv(i) => ChainsTypeOK' /\ CacheIsCurrent'
  BY DEF RemoveChainRecv
<1>3. ChainListRecv => ChainsTypeOK' /\ CacheIsCurrent'
  BY DEF ChainListRecv
<1>4. UNCHANGED chainVars => ChainsTypeOK' /\ CacheIsCurrent'
  BY DEF chainVars
<1> QED
  BY <1>1, <1>2, <1>3, <1>4

\* What the loop of the queue runs is a job.
LEMMA JobType == ASSUME TypeOK, NEW j \in {job[i] : i \in DOMAIN job} PROVE j \in Jobs
  BY ElementOfSeq, LenProperties DEF TypeOK

\* Each step of the callers, the recvThread and the loop keeps the types, and
\* the cache marked whenever it differs from the map.
LEMMA TypeStep == TypeOK /\ CacheIsCurrent /\ [Next]_vars => TypeOK' /\ CacheIsCurrent'
<1> SUFFICES ASSUME TypeOK, CacheIsCurrent, [Next]_vars PROVE TypeOK' /\ CacheIsCurrent'
  OBVIOUS
<1> USE DEF TypeOK, CallGoto, callVars, netVars, recvVars, queueVars, history
<1>1. ASSUME NEW c \in Calls, BuildAdd(c) PROVE TypeOK' /\ CacheIsCurrent'
  BY <1>1, ChainSteps DEF BuildAdd
<1>2. ASSUME NEW c \in Calls, BuildAssign(c) PROVE TypeOK' /\ CacheIsCurrent'
  BY <1>2, ChainSteps DEF BuildAssign
<1>3. ASSUME NEW c \in Calls, CallSend(c) PROVE TypeOK' /\ CacheIsCurrent'
  BY <1>3, ChainSteps DEF CallSend
<1>4. ASSUME NEW c \in Calls, SyncTimeout(c) PROVE TypeOK' /\ CacheIsCurrent'
  BY <1>4, ChainSteps DEF SyncTimeout
<1>5. ASSUME NEW c \in Calls, AsyncTimeout(c) PROVE TypeOK' /\ CacheIsCurrent'
  BY <1>5, ChainSteps DEF AsyncTimeout
<1>6. ASSUME NEW c \in Calls, RemoteAnswers(c) PROVE TypeOK' /\ CacheIsCurrent'
  <2>1. answers' \in Seq(Calls)
    BY <1>6, AppendProperties DEF RemoteAnswers
  <2> QED
    BY <1>6, <2>1, ChainSteps DEF RemoteAnswers
<1>7. CASE RecvAnswer
  <2>1. Head(answers) \in Calls /\ answers' \in Seq(Calls)
    BY <1>7, HeadTailProperties DEF RecvAnswer
  <2>2. ChainsTypeOK' /\ CacheIsCurrent'
    BY <1>7, ChainSteps DEF RecvAnswer
  <2>3. came' \in [Calls -> Seq(Calls)]
    <3>1. \A d \in Calls : Append(came[d], Head(answers)) \in Seq(Calls)
      BY <2>1, AppendProperties
    <3>2. \A d \in Calls : came[d] \in Seq(Calls)
      OBVIOUS
    <3> QED
      BY <1>7, <3>1, <3>2 DEF RecvAnswer, Comes
  <2> QED
    BY <1>7, <2>1, <2>2, <2>3 DEF RecvAnswer, Matching
<1>8. ASSUME NEW d \in Calls, Post(d) PROVE TypeOK' /\ CacheIsCurrent'
  <2>1. PICK c \in answer : queue' = Append(queue, [to |-> d, of |-> c, step |-> "tail"])
    BY <1>8 DEF Post
  <2>2. [to |-> d, of |-> c, step |-> "tail"] \in Jobs
    BY DEF Jobs
  <2>3. queue' \in Seq(Jobs) /\ Len(queue') = Len(queue) + 1
    BY <2>1, <2>2, AppendProperties
  <2>4. Len(queue') <= QueueLen
    BY <1>8, <2>3, LenProperties, RPCAssumption DEF Post
  <2> QED
    BY <1>8, <2>3, <2>4, ChainSteps DEF Post
<1>9. CASE LoopTake
  <2>1. Head(queue) \in Jobs /\ queue' \in Seq(Jobs) /\ Len(queue') = Len(queue) - 1
    BY <1>9, HeadTailProperties DEF LoopTake
  <2>2. job' \in Seq(Jobs) /\ Len(job') = 1
    BY <1>9, <2>1 DEF LoopTake
  <2>3. Len(queue') <= QueueLen
    BY <2>1, LenProperties, RPCAssumption
  <2> QED
    BY <1>9, <2>1, <2>2, <2>3, ChainSteps DEF LoopTake
<1>10. ASSUME NEW j \in Jobs, Tell(j)
       PROVE  /\ told' \in [Calls -> Seq(Calls)] /\ job' \in Seq(Jobs) /\ Len(job') = 1
              /\ ChainsTypeOK' /\ CacheIsCurrent'
  <2>1. j.to \in Calls /\ j.of \in Calls /\ [j EXCEPT !.step = "remove"] \in Jobs
    BY DEF Jobs
  <2>2. Append(told[j.to], j.of) \in Seq(Calls)
    BY <2>1, AppendProperties
  <2>3. job' \in Seq(Jobs) /\ Len(job') = 1
    BY <1>10, <2>1 DEF Tell
  <2> QED
    BY <1>10, <2>1, <2>2, <2>3, ChainSteps DEF Tell
<1>11. CASE LoopCallback
  <2>1. PICK j \in {job[i] : i \in DOMAIN job} : Tell(j) /\ UNCHANGED cpc
    BY <1>11 DEF LoopCallback
  <2>2. j \in Jobs
    BY JobType
  <2>3. /\ told' \in [Calls -> Seq(Calls)] /\ job' \in Seq(Jobs) /\ Len(job') = 1
        /\ ChainsTypeOK' /\ CacheIsCurrent'
    BY <2>1, <2>2, <1>10
  <2>4. UNCHANGED <<chainOf, rpcid, timer, netVars, recvVars, queue, came>>
    BY <2>1 DEF Tell
  <2> QED
    BY <2>1, <2>2, <2>3, <2>4
<1>12. CASE LoopRetChan
  <2>1. PICK j \in {job[i] : i \in DOMAIN job} : Tell(j) /\ CallGoto(j.to, "done")
    BY <1>12 DEF LoopRetChan
  <2>2. j \in Jobs
    BY JobType
  <2>3. /\ told' \in [Calls -> Seq(Calls)] /\ job' \in Seq(Jobs) /\ Len(job') = 1
        /\ ChainsTypeOK' /\ CacheIsCurrent'
    BY <2>1, <2>2, <1>10
  <2>4. UNCHANGED <<chainOf, rpcid, timer, netVars, recvVars, queue, came>>
    BY <2>1 DEF Tell
  <2>5. cpc' \in [Calls -> {"idle", "assign", "send", "wait", "timeout", "done"}]
    BY <2>1
  <2> QED
    BY <2>2, <2>3, <2>4, <2>5
<1>13. CASE LoopRemove
  <2>1. job' \in Seq(Jobs) /\ Len(job') = 0
    BY <1>13, EmptySeq DEF LoopRemove
  <2>2. ChainsTypeOK' /\ CacheIsCurrent'
    BY <1>13, ChainSteps DEF LoopRemove
  <2> QED
    BY <1>13, <2>1, <2>2 DEF LoopRemove
<1>14. CASE UNCHANGED vars
  BY <1>14, ChainSteps DEF vars
<1> QED
  BY <1>1, <1>2, <1>3, <1>4, <1>5, <1>6, <1>7, <1>8, <1>9, <1>11, <1>12, <1>13, <1>14
  DEF Next, Caller, Recv, Loop

-----------------------------------------------------------------------------

(***************************************************************************)
(* The answers: each is in one place at a time on its way to the           *)
(* recvThread, and has come to no call before it is read.                  *)
(***************************************************************************)
NotAsked(a) == cpc[a] \in {"idle", "assign", "send"}
OnWay(a) == \E i \in DOMAIN answers : answers[i] = a

Once(s) == \A i, j \in DOMAIN s : s[i] = s[j] => i = j

NotRead ==
    /\ Once(answers)
    /\ \A c \in Calls : Once(came[c])
    /\ \A a \in Calls :
        /\ NotAsked(a) => a \notin asked
        /\ NotAsked(a) \/ a \in asked => ~OnWay(a)
        /\ NotAsked(a) \/ a \in asked \/ OnWay(a) =>
                \A c \in Calls : \A i \in DOMAIN came[c] : came[c][i] # a

(***************************************************************************)
(* What came to a call and has not been handed to the loop yet is in the   *)
(* queue q in the order it came, except for the last, which may be still   *)
(* with the recvThread.  Of what came, cs, the first h[c] have been handed *)
(* on; td are the calls the recvThread has to visit with its answer, an.   *)
(***************************************************************************)
Running(c) == \E i \in DOMAIN job : job[i].to = c /\ job[i].step = "tail"

handed == [c \in Calls |-> IF Running(c) THEN Len(told[c]) + 1 ELSE Len(told[c])]

InQueue(q, cs, h) ==
    \A i \in DOMAIN q, c \in Calls : q[i].to = c =>
        /\ q[i].step = "tail"
        /\ \E k \in DOMAIN cs[c] : k > h[c] /\ cs[c][k] = q[i].of

InOrder(q, cs) ==
    \A i, j \in DOMAIN q, c \in Calls : i < j /\ q[i].to = c /\ q[j].to = c =>
        \A k, l \in DOMAIN cs[c] : cs[c][k] = q[i].of /\ cs[c][l] = q[j].of => k < l

LastOf(s) == s[Len(s)]

ToVisit(q, cs, h, td, an) ==
    \A c \in td :
        /\ Len(cs[c]) > h[c]
        /\ an = {LastOf(cs[c])}
        /\ \A i \in DOMAIN q : q[i].to = c => q[i].of # LastOf(cs[c])

Covered(q, cs, h, td) ==
    \A c \in Calls : \A k \in DOMAIN cs[c] : k > h[c] =>
        \/ \E i \in DOMAIN q : q[i].to = c /\ q[i].of = cs[c][k]
        \/ c \in td /\ k = Len(cs[c])

Hands(q, cs, h, td, an) ==
    InQueue(q, cs, h) /\ InOrder(q, cs) /\ ToVisit(q, cs, h, td, an) /\ Covered(q, cs, h, td)

\* What has been told came first, and the loop runs the next.
ToldFirst ==
    \A c \in Calls :
        /\ handed[c] <= Len(came[c])
        /\ \A i \in DOMAIN told[c] : told[c][i] = came[c][i]
        /\ \A i \in DOMAIN job : job[i].to = c /\ job[i].step = "tail" => job[i].of = came[c][handed[c]]

\* A CallSync receives from ret once.
SyncOnce == \A c \in Sync : told[c] # <<>> => Len(told[c]) = 1 /\ cpc[c] = "done"

AnswerInv == NotRead /\ Hands(queue, came, handed, todo, answer) /\ ToldFirst /\ SyncOnce

-----------------------------------------------------------------------------

\* Appending to a sequence leaves what is there in its place.
LEMMA AppendElements ==
    ASSUME NEW S, NEW s \in Seq(S), NEW x \in S
    PROVE  /\ Append(s, x) \in Seq(S) /\ Append(s, x) # <<>>
           /\ Len(s) \in Nat /\ Len(Append(s, x)) = Len(s) + 1
           /\ DOMAIN s = 1..Len(s) /\ DOMAIN Append(s, x) = 1..(Len(s) + 1)
           /\ DOMAIN Append(s, x) = DOMAIN s \cup {Len(s) + 1}
           /\ Len(s) + 1 \notin DOMAIN s
           /\ \A i \in DOMAIN s : Append(s, x)[i] = s[i]
           /\ Append(s, x)[Len(s) + 1] = x
<1>1. Len(s) \in Nat /\ DOMAIN s = 1..Len(s)
  BY LenProperties
<1>2. DOMAIN Append(s, x) = 1..(Len(s) + 1)
  BY AppendProperties, LenProperties
<1> QED
  BY <1>1, <1>2, AppendProperties

\* Receiving from a channel moves every other element one place forward.
LEMMA TailElements ==
    ASSUME NEW S, NEW s \in Seq(S), s # <<>>
    PROVE  /\ 1 \in DOMAIN s /\ s[1] = Head(s) /\ Head(s) \in S
           /\ DOMAIN Tail(s) \subseteq Nat /\ DOMAIN s \subseteq Nat
           /\ \A i \in DOMAIN s : i # 1 => 1 < i
           /\ \A i \in DOMAIN Tail(s) :
                 i + 1 \in DOMAIN s /\ i + 1 # 1 /\ 1 < i + 1 /\ Tail(s)[i] = s[i + 1]
           /\ \A i \in DOMAIN s : i # 1 => i - 1 \in DOMAIN Tail(s) /\ Tail(s)[i - 1] = s[i]
<1>1. Len(s) \in Nat /\ DOMAIN s = 1..Len(s) /\ Len(s) > 0
  BY LenProperties, EmptySeq
<1>2. DOMAIN Tail(s) = 1..(Len(s) - 1)
  BY HeadTailProperties, LenProperties
<1>3. \A i \in DOMAIN Tail(s) : Tail(s)[i] = s[i + 1]
  BY HeadTailProperties, LenProperties
<1>4. s[1] = Head(s) /\ Head(s) \in S
  BY HeadTailProperties
<1>5. ASSUME NEW i \in DOMAIN s, i # 1 PROVE i - 1 \in DOMAIN Tail(s) /\ Tail(s)[i - 1] = s[i]
  <2>1. i - 1 \in DOMAIN Tail(s) /\ (i - 1) + 1 = i
    BY <1>1, <1>2, <1>5
  <2> QED
    BY <1>3, <2>1
<1> QED
  BY <1>1, <1>2, <1>3, <1>4, <1>5

\* What is in the queue is a job for a call.
LEMMA QueueType ==
    ASSUME NEW q \in Seq(Jobs), NEW i \in DOMAIN q
    PROVE  q[i] \in Jobs /\ q[i].to \in Calls
<1>1. q[i] \in Jobs
  BY ElementOfSeq, LenProperties
<1> QED
  BY <1>1 DEF Jobs

(***************************************************************************)
(* The three steps by which an answer is handed on.                        *)
(***************************************************************************)

\* a has been appended to what came to the calls m.
Grown(cs, ds, m, a) ==
    \A c \in Calls :
        /\ Len(cs[c]) \in Nat /\ DOMAIN cs[c] = 1..Len(cs[c])
        /\ Len(ds[c]) = IF c \in m THEN Len(cs[c]) + 1 ELSE Len(cs[c])
        /\ \A i \in DOMAIN cs[c] : i \in DOMAIN ds[c] /\ ds[c][i] = cs[c][i]
        /\ \A i \in DOMAIN ds[c] : \/ i \in DOMAIN cs[c]
                                   \/ c \in m /\ i = Len(cs[c]) + 1 /\ ds[c][i] = a
        /\ c \in m => ds[c][Len(cs[c]) + 1] = a

\* An Append to the sequences of the calls in m is such a growth.
LEMMA GrownByAppend ==
    ASSUME NEW cs \in [Calls -> Seq(Calls)], NEW a \in Calls, NEW m \in SUBSET Calls, NEW ds,
           ds = [c \in Calls |-> IF c \in m THEN Append(cs[c], a) ELSE cs[c]]
    PROVE  Grown(cs, ds, m, a)
<1> SUFFICES ASSUME NEW c \in Calls
             PROVE  /\ Len(cs[c]) \in Nat /\ DOMAIN cs[c] = 1..Len(cs[c])
                    /\ Len(ds[c]) = IF c \in m THEN Len(cs[c]) + 1 ELSE Len(cs[c])
                    /\ \A i \in DOMAIN cs[c] : i \in DOMAIN ds[c] /\ ds[c][i] = cs[c][i]
                    /\ \A i \in DOMAIN ds[c] : \/ i \in DOMAIN cs[c]
                                               \/ c \in m /\ i = Len(cs[c]) + 1 /\ ds[c][i] = a
                    /\ c \in m => ds[c][Len(cs[c]) + 1] = a
  BY DEF Grown
<1>1. cs[c] \in Seq(Calls)
  OBVIOUS
<1>2. ds[c] = IF c \in m THEN Append(cs[c], a) ELSE cs[c]
  OBVIOUS
<1>3. CASE c \in m
  <2>1. ds[c] = Append(cs[c], a)
    BY <1>2, <1>3
  <2> QED
    BY <1>1, <1>3, <2>1, AppendElements
<1>4. CASE c \notin m
  <2>1. ds[c] = cs[c]
    BY <1>2, <1>4
  <2> QED
    BY <1>1, <1>4, <2>1, AppendElements
<1> QED
  BY <1>3, <1>4

\* The recvThread reads a, which has come to nobody, for the calls m.
LEMMA HandsRead ==
    ASSUME NEW q \in Seq(Jobs), NEW cs, NEW h \in [Calls -> Nat], NEW an,
           \A c \in Calls : h[c] <= Len(cs[c]),
           Hands(q, cs, h, {}, an),
           NEW a \in Calls, \A c \in Calls : \A i \in DOMAIN cs[c] : cs[c][i] # a,
           NEW m \in SUBSET Calls, NEW ds, Grown(cs, ds, m, a)
    PROVE  Hands(q, ds, h, m, {a})
<1>1. \A c \in Calls : /\ Len(cs[c]) \in Nat /\ DOMAIN cs[c] = 1..Len(cs[c])
                       /\ \A i \in DOMAIN cs[c] : i \in DOMAIN ds[c] /\ ds[c][i] = cs[c][i]
                       /\ \A i \in DOMAIN ds[c] : \/ i \in DOMAIN cs[c]
                                                  \/ c \in m /\ i = Len(cs[c]) + 1 /\ ds[c][i] = a
                       /\ c \in m => Len(ds[c]) = Len(cs[c]) + 1 /\ ds[c][Len(cs[c]) + 1] = a
  BY DEF Grown
<1>2. \A i \in DOMAIN q : q[i].to \in Calls /\ q[i].of # a
  <2> SUFFICES ASSUME NEW i \in DOMAIN q PROVE q[i].to \in Calls /\ q[i].of # a
    OBVIOUS
  <2>1. q[i].to \in Calls
    BY QueueType
  <2> QED
    BY <2>1 DEF Hands, InQueue
<1>3. InQueue(q, ds, h)
  <2> SUFFICES ASSUME NEW i \in DOMAIN q, NEW c \in Calls, q[i].to = c
               PROVE  q[i].step = "tail" /\ \E k \in DOMAIN ds[c] : k > h[c] /\ ds[c][k] = q[i].of
    BY DEF InQueue
  <2>1. q[i].step = "tail" /\ \E k \in DOMAIN cs[c] : k > h[c] /\ cs[c][k] = q[i].of
    BY DEF Hands, InQueue
  <2>2. PICK k \in DOMAIN cs[c] : k > h[c] /\ cs[c][k] = q[i].of
    BY <2>1
  <2>3. k \in DOMAIN ds[c] /\ ds[c][k] = q[i].of
    BY <1>1, <2>2
  <2> QED
    BY <2>1, <2>2, <2>3
<1>4. InOrder(q, ds)
  <2> SUFFICES ASSUME NEW i \in DOMAIN q, NEW j \in DOMAIN q, NEW c \in Calls, i < j, q[i].to = c, q[j].to = c,
                      NEW k \in DOMAIN ds[c], NEW l \in DOMAIN ds[c], ds[c][k] = q[i].of, ds[c][l] = q[j].of
               PROVE  k < l
    BY DEF InOrder
  <2>1. ASSUME NEW n \in DOMAIN ds[c], ds[c][n] # a PROVE n \in DOMAIN cs[c] /\ ds[c][n] = cs[c][n]
    BY <1>1, <2>1
  <2>2. q[i].of # a /\ q[j].of # a
    BY <1>2
  <2>3. k \in DOMAIN cs[c] /\ l \in DOMAIN cs[c] /\ cs[c][k] = q[i].of /\ cs[c][l] = q[j].of
    BY <2>1, <2>2
  <2> QED
    BY <2>3 DEF Hands, InOrder
<1>5. ToVisit(q, ds, h, m, {a})
  <2> SUFFICES ASSUME NEW c \in m
               PROVE  /\ Len(ds[c]) > h[c] /\ {a} = {ds[c][Len(ds[c])]}
                      /\ \A i \in DOMAIN q : q[i].to = c => q[i].of # ds[c][Len(ds[c])]
    BY DEF ToVisit, LastOf
  <2>1. Len(ds[c]) = Len(cs[c]) + 1 /\ ds[c][Len(ds[c])] = a /\ Len(cs[c]) \in Nat
    BY <1>1
  <2> QED
    BY <1>2, <2>1
<1>6. Covered(q, ds, h, m)
  <2> SUFFICES ASSUME NEW c \in Calls, NEW k \in DOMAIN ds[c], k > h[c]
               PROVE  \/ \E i \in DOMAIN q : q[i].to = c /\ q[i].of = ds[c][k]
                      \/ c \in m /\ k = Len(ds[c])
    BY DEF Covered
  <2>1. CASE k \in DOMAIN cs[c]
    <3>1. \E i \in DOMAIN q : q[i].to = c /\ q[i].of = cs[c][k]
      BY <2>1 DEF Hands, Covered
    <3> QED
      BY <1>1, <2>1, <3>1
  <2>2. CASE c \in m /\ k = Len(cs[c]) + 1
    BY <1>1, <2>2
  <2> QED
    BY <1>1, <2>1, <2>2
<1> QED
  BY <1>3, <1>4, <1>5, <1>6 DEF Hands

\* The recvThread posts its answer a for d.
LEMMA HandsPost ==
    ASSUME NEW q \in Seq(Jobs), NEW cs \in [Calls -> Seq(Calls)], NEW h \in [Calls -> Nat],
           NEW td \in SUBSET Calls, NEW an, Hands(q, cs, h, td, an), \A c \in Calls : Once(cs[c]),
           NEW d \in td, NEW a \in an, NEW x \in Jobs, x.to = d, x.of = a, x.step = "tail"
    PROVE  Hands(Append(q, x), cs, h, td \ {d}, an)
<1>1. PICK r : r = Append(q, x)
  OBVIOUS
<1>2. /\ Len(q) \in Nat /\ DOMAIN q = 1..Len(q)
      /\ DOMAIN r = DOMAIN q \cup {Len(q) + 1} /\ Len(q) + 1 \notin DOMAIN q
      /\ \A i \in DOMAIN q : r[i] = q[i]
      /\ r[Len(q) + 1] = x
  BY <1>1, AppendElements
<1>3. /\ Len(cs[d]) \in Nat /\ DOMAIN cs[d] = 1..Len(cs[d])
  BY LenProperties
<1>4. /\ Len(cs[d]) > h[d] /\ a = cs[d][Len(cs[d])]
      /\ \A i \in DOMAIN q : q[i].to = d => q[i].of # a
  BY DEF Hands, ToVisit, LastOf
<1>5. Len(cs[d]) \in DOMAIN cs[d]
  BY <1>3, <1>4
<1>6. InQueue(r, cs, h)
  <2> SUFFICES ASSUME NEW i \in DOMAIN r, NEW c \in Calls, r[i].to = c
               PROVE  r[i].step = "tail" /\ \E k \in DOMAIN cs[c] : k > h[c] /\ cs[c][k] = r[i].of
    BY DEF InQueue
  <2>1. CASE i \in DOMAIN q
    <3>1. r[i] = q[i] /\ q[i].to = c
      BY <1>2, <2>1
    <3>2. q[i].step = "tail" /\ \E k \in DOMAIN cs[c] : k > h[c] /\ cs[c][k] = q[i].of
      BY <2>1, <3>1 DEF Hands, InQueue
    <3> QED
      BY <3>1, <3>2
  <2>2. CASE i = Len(q) + 1
    BY <1>2, <1>4, <1>5, <2>2
  <2> QED
    BY <1>2, <2>1, <2>2
<1>7. InOrder(r, cs)
  <2> SUFFICES ASSUME NEW i \in DOMAIN r, NEW j \in DOMAIN r, NEW c \in Calls, i < j, r[i].to = c, r[j].to = c,
                      NEW k \in DOMAIN cs[c], NEW l \in DOMAIN cs[c], cs[c][k] = r[i].of, cs[c][l] = r[j].of
               PROVE  k < l
    BY DEF InOrder
  <2>1. i \in DOMAIN q /\ r[i] = q[i]
    BY <1>2
  <2>2. CASE j \in DOMAIN q
    <3>1. r[j] = q[j]
      BY <1>2, <2>2
    <3> QED
      BY <2>1, <2>2, <3>1 DEF Hands, InOrder
  <2>3. CASE j = Len(q) + 1
    <3>1. c = d /\ r[j].of = a /\ cs[d][l] = a
      BY <1>2, <2>3
    <3>2. k # Len(cs[d])
      BY <1>4, <2>1, <3>1
    <3>3. k < Len(cs[d])
      BY <1>3, <3>1, <3>2
    <3>4. l = Len(cs[d])
      BY <1>4, <1>5, <3>1 DEF Once
    <3> QED
      BY <3>3, <3>4
  <2> QED
    BY <1>2, <2>2, <2>3
<1>8. ToVisit(r, cs, h, td \ {d}, an)
  BY <1>2 DEF Hands, ToVisit
<1>9. Covered(r, cs, h, td \ {d})
  <2> SUFFICES ASSUME NEW c \in Calls, NEW k \in DOMAIN cs[c], k > h[c]
               PROVE  \/ \E i \in DOMAIN r : r[i].to = c /\ r[i].of = cs[c][k]
                      \/ c \in td \ {d} /\ k = Len(cs[c])
    BY DEF Covered
  <2>1. \/ \E i \in DOMAIN q : q[i].to = c /\ q[i].of = cs[c][k]
        \/ c \in td /\ k = Len(cs[c])
    BY DEF Hands, Covered
  <2> QED
    BY <1>2, <1>4, <2>1
<1> QED
  BY <1>1, <1>6, <1>7, <1>8, <1>9 DEF Hands

\* Before what is further on there is a next.
LEMMA NextIn ==
    ASSUME NEW n \in Nat, NEW m \in Nat, NEW k \in 1..m, k > n
    PROVE  n + 1 \in 1..m /\ n + 1 > n
  OBVIOUS

\* One more has been handed to c.
OneMore(g, h, c) == \A d \in Calls : g[d] = IF d = c THEN h[d] + 1 ELSE h[d]

EachOnce(cs) == \A c \in Calls : Once(cs[c])

\* x is at the head of the queue q, and g counts it as handed on.
MayTake(q, cs, h, td, an, x, g) ==
    /\ q \in Seq(Jobs) /\ cs \in [Calls -> Seq(Calls)] /\ td \in SUBSET Calls
    /\ h \in [Calls -> Nat] /\ g \in [Calls -> Nat]
    /\ Hands(q, cs, h, td, an) /\ EachOnce(cs)
    /\ q # <<>> /\ x = Head(q) /\ OneMore(g, h, x.to)

\* The loop takes the head of the queue: it is the next that came to its call.
LEMMA HandsTake ==
    ASSUME NEW q, NEW cs, NEW h, NEW td, NEW an, NEW x, NEW g, MayTake(q, cs, h, td, an, x, g)
    PROVE  /\ g[x.to] <= Len(cs[x.to])
           /\ x.of = cs[x.to][g[x.to]]
           /\ Hands(Tail(q), cs, g, td, an)
<1> USE DEF MayTake
<1>1. PICK r : r = Tail(q)
  OBVIOUS
<1>2. /\ 1 \in DOMAIN q /\ q[1] = x /\ x \in Jobs
      /\ DOMAIN q \subseteq Nat /\ DOMAIN r \subseteq Nat
      /\ \A i \in DOMAIN q : i # 1 => 1 < i
      /\ \A i \in DOMAIN r : i + 1 \in DOMAIN q /\ i + 1 # 1 /\ 1 < i + 1 /\ r[i] = q[i + 1]
      /\ \A i \in DOMAIN q : i # 1 => i - 1 \in DOMAIN r /\ r[i - 1] = q[i]
  BY <1>1, TailElements
<1>3. PICK c \in Calls : c = x.to
  BY <1>2 DEF Jobs
<1>4. Len(cs[c]) \in Nat /\ DOMAIN cs[c] = 1..Len(cs[c]) /\ h[c] \in Nat
  BY LenProperties
<1>5. PICK k \in DOMAIN cs[c] : k > h[c] /\ cs[c][k] = x.of
  <2>1. 1 \in DOMAIN q /\ q[1].to = c /\ q[1].of = x.of
    BY <1>2, <1>3
  <2>2. \E l \in DOMAIN cs[c] : l > h[c] /\ cs[c][l] = q[1].of
    BY <2>1 DEF Hands, InQueue
  <2> QED
    BY <2>1, <2>2
<1>6. h[c] + 1 \in DOMAIN cs[c] /\ h[c] + 1 > h[c]
  <2>1. k \in 1..Len(cs[c]) /\ k > h[c]
    BY <1>4, <1>5, Zenon
  <2>2. h[c] + 1 \in 1..Len(cs[c]) /\ h[c] + 1 > h[c]
    BY <1>4, <2>1, NextIn, Zenon
  <2> QED
    BY <1>4, <2>2
<1>7. k = h[c] + 1
  <2>1. CASE \E i \in DOMAIN q : q[i].to = c /\ q[i].of = cs[c][h[c] + 1]
    <3>1. PICK i \in DOMAIN q : q[i].to = c /\ q[i].of = cs[c][h[c] + 1]
      BY <2>1
    <3>2. CASE i = 1
      <4>1. cs[c][k] = cs[c][h[c] + 1]
        BY <1>2, <1>5, <3>1, <3>2
      <4> QED
        BY <1>6, <4>1 DEF EachOnce, Once
    <3>3. CASE i # 1
      <4>1. 1 < i
        BY <1>2, <3>3
      <4>2. k < h[c] + 1
        <5>1. q[1].to = c /\ cs[c][k] = q[1].of
          BY <1>2, <1>3, <1>5
        <5>2. \A n, l \in DOMAIN cs[c] : cs[c][n] = q[1].of /\ cs[c][l] = q[i].of => n < l
          BY <1>2, <3>1, <4>1, <5>1 DEF Hands, InOrder
        <5> QED
          BY <1>5, <1>6, <3>1, <5>1, <5>2
      <4> QED
        BY <1>4, <1>5, <4>2
    <3> QED
      BY <3>2, <3>3
  <2>2. CASE c \in td /\ h[c] + 1 = Len(cs[c])
    BY <1>4, <1>5, <2>2
  <2> QED
    BY <1>6, <2>1, <2>2 DEF Hands, Covered
<1>8. /\ g[c] = h[c] + 1 /\ g[c] = k /\ \A d \in Calls : d # c => g[d] = h[d]
      /\ \A d \in Calls : g[d] \in Nat
  BY <1>3, <1>7 DEF OneMore
<1>9. InQueue(r, cs, g)
  <2> SUFFICES ASSUME NEW i \in DOMAIN r, NEW d \in Calls, r[i].to = d
               PROVE  r[i].step = "tail" /\ \E l \in DOMAIN cs[d] : l > g[d] /\ cs[d][l] = r[i].of
    BY DEF InQueue
  <2>1. i + 1 \in DOMAIN q /\ 1 < i + 1 /\ r[i] = q[i + 1]
    BY <1>2
  <2>2. r[i].step = "tail" /\ \E l \in DOMAIN cs[d] : l > h[d] /\ cs[d][l] = r[i].of
    <3>1. q[i + 1].to = d
      BY <2>1
    <3>2. q[i + 1].step = "tail" /\ \E l \in DOMAIN cs[d] : l > h[d] /\ cs[d][l] = q[i + 1].of
      BY <2>1, <3>1 DEF Hands, InQueue
    <3> QED
      BY <2>1, <3>2
  <2>3. CASE d = c
    <3>1. PICK l \in DOMAIN cs[c] : cs[c][l] = r[i].of
      BY <2>2, <2>3
    <3>2. k < l
      <4>1. q[1].to = c /\ cs[c][k] = q[1].of /\ q[i + 1].to = c /\ cs[c][l] = q[i + 1].of
        BY <1>2, <1>3, <1>5, <2>1, <2>3, <3>1
      <4> QED
        BY <1>2, <2>1, <4>1 DEF Hands, InOrder
    <3> QED
      BY <1>8, <2>2, <2>3, <3>1, <3>2
  <2>4. CASE d # c
    BY <1>8, <2>2, <2>4
  <2> QED
    BY <2>3, <2>4
<1>10. InOrder(r, cs)
  <2> SUFFICES ASSUME NEW i \in DOMAIN r, NEW j \in DOMAIN r, NEW d \in Calls, i < j, r[i].to = d, r[j].to = d,
                      NEW l \in DOMAIN cs[d], NEW n \in DOMAIN cs[d], cs[d][l] = r[i].of, cs[d][n] = r[j].of
               PROVE  l < n
    BY DEF InOrder
  <2>1. i + 1 \in DOMAIN q /\ j + 1 \in DOMAIN q /\ i + 1 < j + 1 /\ r[i] = q[i + 1] /\ r[j] = q[j + 1]
    BY <1>2
  <2>2. q[i + 1].to = d /\ q[j + 1].to = d /\ cs[d][l] = q[i + 1].of /\ cs[d][n] = q[j + 1].of
    BY <2>1
  <2> QED
    BY <2>1, <2>2 DEF Hands, InOrder
<1>11. ToVisit(r, cs, g, td, an)
  <2> SUFFICES ASSUME NEW d \in td
               PROVE  /\ Len(cs[d]) > g[d] /\ an = {cs[d][Len(cs[d])]}
                      /\ \A i \in DOMAIN r : r[i].to = d => r[i].of # cs[d][Len(cs[d])]
    BY DEF ToVisit, LastOf
  <2>1. /\ Len(cs[d]) > h[d] /\ an = {cs[d][Len(cs[d])]}
        /\ \A i \in DOMAIN q : q[i].to = d => q[i].of # cs[d][Len(cs[d])]
    BY DEF Hands, ToVisit, LastOf
  <2>2. \A i \in DOMAIN r : r[i].to = d => r[i].of # cs[d][Len(cs[d])]
    <3> SUFFICES ASSUME NEW i \in DOMAIN r, r[i].to = d
                 PROVE  r[i].of # cs[d][Len(cs[d])]
      OBVIOUS
    <3>1. i + 1 \in DOMAIN q /\ r[i] = q[i + 1]
      BY <1>2
    <3>2. q[i + 1].to = d
      BY <3>1
    <3>3. q[i + 1].of # cs[d][Len(cs[d])]
      BY <2>1, <3>1, <3>2
    <3> QED
      BY <3>1, <3>3
  <2>3. Len(cs[d]) > g[d]
    <3>1. CASE d = c
      <4>1. k # Len(cs[c])
        BY <1>2, <1>3, <1>5, <2>1, <3>1
      <4> QED
        BY <1>4, <1>8, <3>1, <4>1
    <3>2. CASE d # c
      BY <1>8, <2>1, <3>2
    <3> QED
      BY <3>1, <3>2
  <2> QED
    BY <2>1, <2>2, <2>3
<1>12. Covered(r, cs, g, td)
  <2> SUFFICES ASSUME NEW d \in Calls, NEW l \in DOMAIN cs[d], l > g[d]
               PROVE  \/ \E i \in DOMAIN r : r[i].to = d /\ r[i].of = cs[d][l]
                      \/ d \in td /\ l = Len(cs[d])
    BY DEF Covered
  <2>1. l > h[d] /\ (d = c => l # k)
    <3>1. l \in Nat /\ h[d] \in Nat /\ k \in Nat
      <4>1. DOMAIN cs[d] = 1..Len(cs[d]) /\ Len(cs[d]) \in Nat
        BY LenProperties
      <4>2. l \in Nat
        BY <4>1
      <4>3. h[d] \in Nat
        OBVIOUS
      <4>4. k \in Nat
        BY <1>4
      <4> QED
        BY <4>2, <4>3, <4>4
    <3>2. CASE d = c
      BY <1>4, <1>8, <3>1, <3>2
    <3>3. CASE d # c
      BY <1>8, <3>1, <3>3
    <3> QED
      BY <3>2, <3>3
  <2>2. \/ \E i \in DOMAIN q : q[i].to = d /\ q[i].of = cs[d][l]
        \/ d \in td /\ l = Len(cs[d])
    BY <2>1 DEF Hands, Covered
  <2>3. ASSUME NEW i \in DOMAIN q, q[i].to = d, q[i].of = cs[d][l]
        PROVE  \E j \in DOMAIN r : r[j].to = d /\ r[j].of = cs[d][l]
    <3>1. i # 1
      <4> SUFFICES ASSUME i = 1 PROVE FALSE
        OBVIOUS
      <4>1. d = c /\ cs[c][l] = cs[c][k]
        BY <1>2, <1>3, <1>5, <2>3
      <4> QED
        BY <2>1, <4>1 DEF EachOnce, Once
    <3>2. i - 1 \in DOMAIN r /\ r[i - 1] = q[i]
      BY <1>2, <3>1
    <3>3. r[i - 1].to = d /\ r[i - 1].of = cs[d][l]
      BY <2>3, <3>2
    <3> QED
      BY <3>2, <3>3
  <2> QED
    BY <2>2, <2>3
<1>13. Hands(r, cs, g, td, an)
  BY <1>9, <1>10, <1>11, <1>12 DEF Hands
<1>14. g[c] <= Len(cs[c]) /\ x.of = cs[c][g[c]]
  BY <1>4, <1>5, <1>8
<1> QED
  BY <1>1, <1>3, <1>13, <1>14

(***************************************************************************)
(* The invariant holds in the beginning, and every step keeps it.          *)
(***************************************************************************)

\* What has been handed on is what has been told and, if a job runs, one more.
LEMMA HandedType ==
    ASSUME TypeOK
    PROVE  /\ handed \in [Calls -> Nat]
           /\ \A c \in Calls : /\ Len(told[c]) \in Nat /\ Len(told[c]) <= handed[c]
                               /\ Running(c) => handed[c] = Len(told[c]) + 1
                               /\ ~Running(c) => handed[c] = Len(told[c])
<1>1. \A c \in Calls : Len(told[c]) \in Nat
  BY LenProperties DEF TypeOK
<1>2. \A c \in Calls : handed[c] = IF Running(c) THEN Len(told[c]) + 1 ELSE Len(told[c])
  BY DEF handed
<1>3. handed = [c \in Calls |-> handed[c]]
  BY DEF handed
<1> QED
  BY <1>1, <1>2, <1>3

\* Nothing has come, and nothing has been told.
LEMMA AnswerInit == Init => AnswerInv
<1> SUFFICES ASSUME Init PROVE AnswerInv
  OBVIOUS
<1> USE DEF Init
<1>1. /\ DOMAIN queue = {} /\ DOMAIN answers = {} /\ DOMAIN job = {} /\ todo = {}
      /\ \A c \in Calls : /\ DOMAIN came[c] = {} /\ DOMAIN told[c] = {}
                          /\ Len(came[c]) = 0 /\ Len(told[c]) = 0 /\ told[c] = <<>>
  OBVIOUS
<1>2. NotRead
  BY <1>1 DEF NotRead, Once, OnWay, NotAsked
<1>3. Hands(queue, came, handed, todo, answer)
  BY <1>1 DEF Hands, InQueue, InOrder, ToVisit, Covered
<1>4. ToldFirst
  <2>1. \A c \in Calls : handed[c] = 0
    BY <1>1 DEF handed, Running
  <2> QED
    BY <1>1, <2>1 DEF ToldFirst
<1>5. SyncOnce
  BY <1>1, RPCAssumption DEF SyncOnce
<1> QED
  BY <1>2, <1>3, <1>4, <1>5 DEF AnswerInv

\* A step that moves no answer.
LEMMA Unmoved ==
    ASSUME TypeOK, AnswerInv, UNCHANGED <<answer, todo, queue, came, told>>, handed' = handed,
           \A i \in DOMAIN job' : job'[i].step = "tail" => i \in DOMAIN job /\ job'[i] = job[i]
    PROVE  Hands(queue, came, handed, todo, answer)' /\ ToldFirst'
<1>1. ToldFirst'
  BY DEF AnswerInv, ToldFirst
<1>2. Hands(queue, came, handed, todo, answer)'
  BY DEF AnswerInv, Hands, InQueue, InOrder, ToVisit, Covered, LastOf
<1> QED
  BY <1>1, <1>2

\* Each step hands an answer on, or leaves the answers as they are.
LEMMA AnswerStep ==
    ASSUME TypeOK, CacheIsCurrent, AnswerInv, [Next]_vars
    PROVE  AnswerInv'
<1> USE RPCAssumption DEF CallGoto, callVars, netVars, recvVars, queueVars, history
<1>1. ASSUME NEW c \in Calls, BuildAdd(c) \/ BuildAssign(c) \/ SyncTimeout(c) \/ AsyncTimeout(c)
      PROVE  AnswerInv'
  <2>1. UNCHANGED <<asked, answers, answer, todo, queue, job, came, told>>
    BY <1>1 DEF BuildAdd, BuildAssign, SyncTimeout, AsyncTimeout
  <2>2. \A d \in Calls : NotAsked(d)' => NotAsked(d)
    BY <1>1 DEF TypeOK, NotAsked, BuildAdd, BuildAssign, SyncTimeout, AsyncTimeout
  <2>3. NotRead'
    BY <2>1, <2>2 DEF AnswerInv, NotRead, OnWay, Once
  <2>4. handed' = handed
    BY <2>1 DEF handed, Running
  <2>5. Hands(queue, came, handed, todo, answer)' /\ ToldFirst'
    BY <2>1, <2>4, Unmoved
  <2>6. \A d \in Calls : cpc[d] = "done" => cpc'[d] = "done"
    BY <1>1 DEF TypeOK, BuildAdd, BuildAssign, SyncTimeout, AsyncTimeout
  <2>7. SyncOnce'
    BY <2>1, <2>6 DEF AnswerInv, SyncOnce
  <2> QED
    BY <2>3, <2>5, <2>7 DEF AnswerInv
<1>2. ASSUME NEW c \in Calls, CallSend(c) PROVE AnswerInv'
  <2>1. /\ UNCHANGED <<answers, answer, todo, queue, job, came, told>>
        /\ asked' = asked \cup {c} /\ NotAsked(c)
    BY <1>2 DEF CallSend, NotAsked
  <2>2. \A d \in Calls : NotAsked(d)' => NotAsked(d) /\ d # c
    BY <1>2 DEF TypeOK, NotAsked, CallSend
  <2>3. NotRead'
    BY <2>1, <2>2 DEF AnswerInv, NotRead, OnWay, Once
  <2>4. handed' = handed
    BY <2>1 DEF handed, Running
  <2>5. Hands(queue, came, handed, todo, answer)' /\ ToldFirst'
    BY <2>1, <2>4, Unmoved
  <2>6. \A d \in Calls : cpc[d] = "done" => cpc'[d] = "done"
    BY <1>2 DEF TypeOK, CallSend
  <2>7. SyncOnce'
    BY <2>1, <2>6 DEF AnswerInv, SyncOnce
  <2> QED
    BY <2>3, <2>5, <2>7 DEF AnswerInv
<1>3. ASSUME NEW c \in Calls, RemoteAnswers(c) PROVE AnswerInv'
  <2>1. /\ UNCHANGED <<cpc, answer, todo, queue, job, came, told>>
        /\ c \in asked /\ asked' = asked \ {c} /\ answers' = Append(answers, c)
    BY <1>3 DEF RemoteAnswers
  <2>2. /\ DOMAIN answers' = DOMAIN answers \cup {Len(answers) + 1}
        /\ Len(answers) + 1 \notin DOMAIN answers
        /\ \A i \in DOMAIN answers : answers'[i] = answers[i]
        /\ answers'[Len(answers) + 1] = c
    BY <2>1, AppendElements DEF TypeOK
  <2>3. \A d \in Calls : OnWay(d)' <=> OnWay(d) \/ d = c
    BY <2>2 DEF OnWay
  <2>4. ~OnWay(c)
    BY <2>1 DEF AnswerInv, NotRead
  <2>5. Once(answers')
    BY <2>2, <2>4 DEF AnswerInv, NotRead, Once, OnWay
  <2>6. NotRead'
    <3>1. \A d \in Calls : NotAsked(d)' <=> NotAsked(d)
      BY <2>1 DEF NotAsked
    <3>2. \A d \in Calls : Once(came'[d])
      BY <2>1 DEF AnswerInv, NotRead
    <3> QED
      BY <2>1, <2>3, <2>5, <3>1, <3>2 DEF AnswerInv, NotRead
  <2>7. handed' = handed
    BY <2>1 DEF handed, Running
  <2>8. Hands(queue, came, handed, todo, answer)' /\ ToldFirst'
    BY <2>1, <2>7, Unmoved
  <2>9. SyncOnce'
    BY <2>1 DEF AnswerInv, SyncOnce
  <2> QED
    BY <2>6, <2>8, <2>9 DEF AnswerInv
<1>4. CASE RecvAnswer
  <2>1. PICK a : a = Head(answers)
    OBVIOUS
  <2>2. PICK m : m = Matching(recvChainByID, a)
    OBVIOUS
  <2>3. /\ UNCHANGED <<cpc, asked, queue, job, told>> /\ answers # <<>> /\ todo = {}
        /\ answer' = {a} /\ answers' = Tail(answers)
        /\ came' = [d \in Calls |-> IF d \in m THEN Append(came[d], a) ELSE came[d]]
    BY <1>4, <2>1, <2>2 DEF RecvAnswer, Comes
  <2>4. todo' = m /\ m \in SUBSET Calls
    <3>1. recvChainList' = recvChainByID
      BY <1>4 DEF RecvAnswer, ChainListRecv, CacheIsCurrent
    <3> QED
      BY <1>4, <2>1, <2>2, <3>1 DEF RecvAnswer, Matching
  <2>5. /\ 1 \in DOMAIN answers /\ answers[1] = a /\ a \in Calls /\ DOMAIN answers' \subseteq Nat
        /\ \A i \in DOMAIN answers' :
                i + 1 \in DOMAIN answers /\ i + 1 # 1 /\ answers'[i] = answers[i + 1]
    BY <2>1, <2>3, TailElements DEF TypeOK
  <2>6. OnWay(a) /\ \A d \in Calls : OnWay(d)' => OnWay(d) /\ d # a
    BY <2>5 DEF OnWay, AnswerInv, NotRead, Once
  <2>7. \A c \in Calls : \A i \in DOMAIN came[c] : came[c][i] # a
    BY <2>5, <2>6 DEF AnswerInv, NotRead
  <2>8. \A c \in Calls : /\ came[c] \in Seq(Calls) /\ Len(came[c]) \in Nat
                         /\ DOMAIN came[c] = 1..Len(came[c])
    BY LenProperties DEF TypeOK
  <2>9. \A c \in Calls :
           /\ came'[c] = IF c \in m THEN Append(came[c], a) ELSE came[c]
           /\ \A i \in DOMAIN came[c] : i \in DOMAIN came'[c] /\ came'[c][i] = came[c][i]
           /\ \A i \in DOMAIN came'[c] :
                 \/ i \in DOMAIN came[c] /\ came'[c][i] = came[c][i]
                 \/ i = Len(came[c]) + 1 /\ came'[c][i] = a
           /\ Len(came[c]) <= Len(came'[c])
    <3> SUFFICES ASSUME NEW c \in Calls
                 PROVE  /\ came'[c] = IF c \in m THEN Append(came[c], a) ELSE came[c]
                        /\ \A i \in DOMAIN came[c] : i \in DOMAIN came'[c] /\ came'[c][i] = came[c][i]
                        /\ \A i \in DOMAIN came'[c] :
                              \/ i \in DOMAIN came[c] /\ came'[c][i] = came[c][i]
                              \/ i = Len(came[c]) + 1 /\ came'[c][i] = a
                        /\ Len(came[c]) <= Len(came'[c])
      OBVIOUS
    <3>1. came'[c] = IF c \in m THEN Append(came[c], a) ELSE came[c]
      BY <2>3
    <3>2. CASE c \in m
      <4>1. came'[c] = Append(came[c], a)
        BY <3>1, <3>2
      <4> QED
        BY <2>5, <2>8, <3>2, <4>1, AppendElements
    <3>3. CASE c \notin m
      BY <2>8, <3>1, <3>3
    <3> QED
      BY <3>2, <3>3
  <2>10. NotRead'
    <3>1. Once(answers')
      BY <2>5 DEF AnswerInv, NotRead, Once
    <3>2. ASSUME NEW c \in Calls PROVE Once(came'[c])
      BY <2>7, <2>9 DEF AnswerInv, NotRead, Once
    <3>3. \A d \in Calls : NotAsked(d)' <=> NotAsked(d)
      BY <2>3 DEF NotAsked
    <3>4. ~NotAsked(a) /\ a \notin asked /\ ~OnWay(a)'
      BY <2>5, <2>6 DEF AnswerInv, NotRead
    <3>5. ASSUME NEW b \in Calls, NotAsked(b) \/ b \in asked \/ OnWay(b)', NEW c \in Calls,
                 NEW i \in DOMAIN came'[c]
          PROVE  came'[c][i] # b
      <4>1. b # a /\ (NotAsked(b) \/ b \in asked \/ OnWay(b))
        BY <2>6, <3>4, <3>5
      <4> QED
        BY <2>9, <3>5, <4>1 DEF AnswerInv, NotRead
    <3> QED
      BY <2>3, <2>6, <3>1, <3>2, <3>3, <3>5 DEF AnswerInv, NotRead
  <2>11. handed' = handed
    BY <2>3 DEF handed, Running
  <2>12. Hands(queue, came, handed, todo, answer)'
    <3>1. /\ queue \in Seq(Jobs) /\ came \in [Calls -> Seq(Calls)] /\ handed \in [Calls -> Nat]
          /\ \A c \in Calls : handed[c] <= Len(came[c])
      BY HandedType DEF TypeOK, AnswerInv, ToldFirst
    <3>2. Hands(queue, came, handed, {}, answer)
      BY <2>3 DEF AnswerInv
    <3>3. Grown(came, came', m, a)
      BY <2>3, <2>4, <2>5, <3>1, GrownByAppend
    <3>4. Hands(queue, came', handed, m, {a})
      BY <2>4, <2>5, <2>7, <3>1, <3>2, <3>3, HandsRead
    <3> QED
      BY <2>3, <2>4, <2>11, <3>4
  <2>13. ToldFirst'
    <3> SUFFICES ASSUME NEW c \in Calls
                 PROVE  /\ handed[c] <= Len(came'[c])
                        /\ \A i \in DOMAIN told[c] : told[c][i] = came'[c][i]
                        /\ \A i \in DOMAIN job : job[i].to = c /\ job[i].step = "tail"
                                                    => job[i].of = came'[c][handed[c]]
      BY <2>3, <2>11 DEF ToldFirst
    <3>1. /\ handed[c] \in Nat /\ handed[c] <= Len(came[c])
          /\ \A i \in DOMAIN told[c] : told[c][i] = came[c][i]
          /\ \A i \in DOMAIN job : job[i].to = c /\ job[i].step = "tail" => job[i].of = came[c][handed[c]]
      BY HandedType DEF AnswerInv, ToldFirst
    <3>2. \A i \in DOMAIN told[c] : i \in DOMAIN came[c]
      <4>1. /\ Len(told[c]) \in Nat /\ DOMAIN told[c] = 1..Len(told[c])
        BY LenProperties DEF TypeOK
      <4>2. Len(told[c]) <= handed[c]
        BY <4>1, HandedType
      <4> QED
        BY <2>8, <3>1, <4>1, <4>2
    <3>3. ASSUME NEW i \in DOMAIN job, job[i].to = c, job[i].step = "tail" PROVE handed[c] \in DOMAIN came[c]
      <4>1. handed[c] = Len(told[c]) + 1 /\ Len(told[c]) \in Nat
        BY <3>3, HandedType DEF Running
      <4> QED
        BY <2>8, <3>1, <4>1
    <3>4. handed[c] <= Len(came'[c])
      <4>1. came'[c] \in Seq(Calls)
        <5>1. Append(came[c], a) \in Seq(Calls) /\ came[c] \in Seq(Calls)
          BY <2>5, <2>8, AppendProperties
        <5> QED
          BY <2>9, <5>1
      <4>2. Len(came'[c]) \in Nat
        BY <4>1, LenProperties
      <4> QED
        BY <2>8, <2>9, <3>1, <4>2
    <3> QED
      BY <2>9, <3>1, <3>2, <3>3, <3>4
  <2>14. SyncOnce'
    BY <2>3 DEF AnswerInv, SyncOnce
  <2> QED
    BY <2>10, <2>12, <2>13, <2>14 DEF AnswerInv
<1>5. ASSUME NEW d \in Calls, Post(d) PROVE AnswerInv'
  <2>1. /\ UNCHANGED <<cpc, asked, answers, answer, job, came, told>>
        /\ d \in todo /\ todo' = todo \ {d}
    BY <1>5 DEF Post
  <2>2. PICK a \in answer : queue' = Append(queue, [to |-> d, of |-> a, step |-> "tail"])
    BY <1>5 DEF Post
  <2>3. PICK x : x = [to |-> d, of |-> a, step |-> "tail"]
    OBVIOUS
  <2>4. x \in Jobs /\ x.to = d /\ x.of = a /\ x.step = "tail" /\ queue' = Append(queue, x)
    BY <2>2, <2>3 DEF Jobs, TypeOK
  <2>5. handed' = handed
    BY <2>1 DEF handed, Running
  <2>6. Hands(queue, came, handed, todo, answer)'
    <3>1. /\ queue \in Seq(Jobs) /\ came \in [Calls -> Seq(Calls)] /\ handed \in [Calls -> Nat]
          /\ todo \in SUBSET Calls /\ Hands(queue, came, handed, todo, answer)
          /\ \A c \in Calls : Once(came[c])
      BY HandedType DEF TypeOK, AnswerInv, NotRead
    <3>2. Hands(Append(queue, x), came, handed, todo \ {d}, answer)
      BY <2>1, <2>2, <2>4, <3>1, HandsPost
    <3> QED
      BY <2>1, <2>4, <2>5, <3>2
  <2>7. ToldFirst'
    BY <2>1, <2>5 DEF AnswerInv, ToldFirst
  <2>8. NotRead' /\ SyncOnce'
    BY <2>1 DEF AnswerInv, NotRead, SyncOnce, NotAsked, OnWay
  <2> QED
    BY <2>6, <2>7, <2>8 DEF AnswerInv
<1>6. CASE LoopTake
  <2>1. /\ UNCHANGED <<cpc, asked, answers, answer, todo, came, told>> /\ queue # <<>>
        /\ job = <<>> /\ job' = <<Head(queue)>> /\ queue' = Tail(queue)
    BY <1>6 DEF LoopTake
  <2>2. PICK x : x = Head(queue)
    OBVIOUS
  <2>3. /\ queue \in Seq(Jobs) /\ came \in [Calls -> Seq(Calls)] /\ handed \in [Calls -> Nat]
        /\ todo \in SUBSET Calls /\ Hands(queue, came, handed, todo, answer)
        /\ \A c \in Calls : Once(came[c])
    BY HandedType DEF TypeOK, AnswerInv, NotRead
  <2>4. x.to \in Calls /\ x.step = "tail"
    <3>1. 1 \in DOMAIN queue /\ queue[1] = x
      BY <2>1, <2>2, <2>3, TailElements
    <3>2. queue[1].to \in Calls
      BY <2>3, <3>1, QueueType
    <3> QED
      BY <2>3, <3>1, <3>2 DEF Hands, InQueue
  <2>5. DOMAIN job' = {1} /\ job'[1] = x /\ DOMAIN job = {}
    BY <2>1, <2>2
  <2>6. \A c \in Calls : /\ handed[c] \in Nat /\ handed[c] = Len(told[c])
                         /\ handed'[c] = IF c = x.to THEN handed[c] + 1 ELSE handed[c]
    <3>1. \A c \in Calls : ~Running(c)
      BY <2>5 DEF Running
    <3>2. \A c \in Calls : Running(c)' <=> c = x.to
      BY <2>4, <2>5 DEF Running
    <3>3. \A c \in Calls : handed'[c] = IF Running(c)' THEN Len(told'[c]) + 1 ELSE Len(told'[c])
      BY DEF handed
    <3>4. \A c \in Calls : handed[c] \in Nat /\ handed[c] = Len(told[c])
      BY <3>1, HandedType
    <3> QED
      BY <2>1, <3>2, <3>3, <3>4
  <2>7. handed' \in [Calls -> Nat]
    <3>1. handed' = [c \in Calls |-> handed'[c]]
      BY DEF handed
    <3>2. \A c \in Calls : handed'[c] \in Nat
      BY <2>6
    <3> QED
      BY <3>1, <3>2
  <2>8. PICK g \in [Calls -> Nat] : g = handed'
    BY <2>7
  <2>9. \A c \in Calls : g[c] = IF c = x.to THEN handed[c] + 1 ELSE handed[c]
    BY <2>6, <2>8
  <2>10. /\ g[x.to] <= Len(came[x.to]) /\ x.of = came[x.to][g[x.to]]
         /\ Hands(Tail(queue), came, g, todo, answer)
    <3>1. PICK h \in [Calls -> Nat] : h = handed
      BY <2>3
    <3>2. Hands(queue, came, h, todo, answer) /\ queue # <<>> /\ x = Head(queue)
      BY <2>1, <2>2, <2>3, <3>1
    <3>3. OneMore(g, h, x.to) /\ EachOnce(came)
      BY <2>3, <2>9, <3>1 DEF OneMore, EachOnce
    <3>4. /\ queue \in Seq(Jobs) /\ came \in [Calls -> Seq(Calls)] /\ todo \in SUBSET Calls
      BY <2>3
    <3>5. MayTake(queue, came, h, todo, answer, x, g)
      BY <3>2, <3>3, <3>4 DEF MayTake
    <3> QED
      BY <3>5, HandsTake
  <2>11. Hands(queue, came, handed, todo, answer)'
    BY <2>1, <2>8, <2>10
  <2>12. ToldFirst'
    <3> SUFFICES ASSUME NEW c \in Calls
                 PROVE  /\ g[c] <= Len(came[c])
                        /\ \A i \in DOMAIN told[c] : told[c][i] = came[c][i]
                        /\ \A i \in DOMAIN job' : job'[i].to = c /\ job'[i].step = "tail"
                                                     => job'[i].of = came[c][g[c]]
      BY <2>1, <2>8 DEF ToldFirst
    <3>1. handed[c] <= Len(came[c]) /\ \A i \in DOMAIN told[c] : told[c][i] = came[c][i]
      BY DEF AnswerInv, ToldFirst
    <3>2. c # x.to => g[c] = handed[c]
      BY <2>9
    <3> QED
      BY <2>5, <2>10, <3>1, <3>2
  <2>13. NotRead' /\ SyncOnce'
    BY <2>1 DEF AnswerInv, NotRead, SyncOnce, NotAsked, OnWay
  <2> QED
    BY <2>11, <2>12, <2>13 DEF AnswerInv
<1>7. ASSUME NEW j \in {job[i] : i \in DOMAIN job}, j.step = "tail", Tell(j),
             \A d \in Calls : NotAsked(d)' => NotAsked(d),
             \A d \in Calls : d # j.to => cpc'[d] = cpc[d],
             j.to \in Sync => cpc[j.to] # "done" /\ cpc'[j.to] = "done"
      PROVE  AnswerInv'
  <2>1. /\ UNCHANGED <<asked, answers, answer, todo, queue, came>>
        /\ told' = [told EXCEPT ![j.to] = Append(@, j.of)]
        /\ job' = <<[j EXCEPT !.step = "remove"]>>
    BY <1>7 DEF Tell
  <2>2. j \in Jobs /\ j.to \in Calls /\ j.of \in Calls
    BY JobType DEF Jobs
  <2>3. PICK n \in DOMAIN job : job[n] = j
    OBVIOUS
  <2>4. DOMAIN job' = {1} /\ job'[1].step = "remove"
    BY <2>1, <2>2 DEF Jobs
  <2>5. \A i \in DOMAIN job : job[i] = j
    <3>1. DOMAIN job \subseteq {1}
      BY LenProperties DEF TypeOK
    <3> QED
      BY <2>3, <3>1
  <2>6. /\ told[j.to] \in Seq(Calls) /\ told'[j.to] = Append(told[j.to], j.of)
        /\ \A d \in Calls : d # j.to => told'[d] = told[d]
    BY <2>1, <2>2 DEF TypeOK
  <2>7. /\ Len(told[j.to]) \in Nat /\ Len(told'[j.to]) = Len(told[j.to]) + 1
        /\ DOMAIN told[j.to] = 1..Len(told[j.to])
        /\ DOMAIN told'[j.to] = DOMAIN told[j.to] \cup {Len(told[j.to]) + 1}
        /\ \A i \in DOMAIN told[j.to] : told'[j.to][i] = told[j.to][i]
        /\ told'[j.to][Len(told[j.to]) + 1] = j.of
    BY <2>2, <2>6, AppendElements
  <2>8. \A d \in Calls : Len(told[d]) \in Nat
    BY LenProperties DEF TypeOK
  <2>9. handed[j.to] = Len(told[j.to]) + 1 /\ handed' = handed
    <3>1. \A c \in Calls : Running(c) <=> c = j.to
      BY <1>7, <2>3, <2>5 DEF Running
    <3>2. \A c \in Calls : ~Running(c)'
      BY <2>4 DEF Running
    <3>3. \A c \in Calls : /\ handed[c] = IF c = j.to THEN Len(told[c]) + 1 ELSE Len(told[c])
                           /\ handed'[c] = Len(told'[c])
      <4>1. \A c \in Calls : handed'[c] = IF Running(c)' THEN Len(told'[c]) + 1 ELSE Len(told'[c])
        BY DEF handed
      <4> QED
        BY <3>1, <3>2, <4>1, HandedType
    <3>4. \A c \in Calls : handed'[c] = handed[c]
      BY <2>6, <2>7, <2>8, <3>3
    <3>5. handed' = [c \in Calls |-> handed'[c]] /\ handed = [c \in Calls |-> handed[c]]
      BY DEF handed
    <3> QED
      BY <2>2, <3>3, <3>4, <3>5
  <2>10. Hands(queue, came, handed, todo, answer)'
    BY <2>1, <2>9 DEF AnswerInv
  <2>11. ToldFirst'
    <3> SUFFICES ASSUME NEW c \in Calls
                 PROVE  /\ handed[c] <= Len(came[c])
                        /\ \A i \in DOMAIN told'[c] : told'[c][i] = came[c][i]
      BY <2>1, <2>4, <2>9 DEF ToldFirst
    <3>1. handed[c] <= Len(came[c]) /\ \A i \in DOMAIN told[c] : told[c][i] = came[c][i]
      BY DEF AnswerInv, ToldFirst
    <3>2. j.of = came[j.to][handed[j.to]]
      BY <1>7, <2>2, <2>3 DEF AnswerInv, ToldFirst
    <3>3. CASE c = j.to
      BY <2>7, <2>9, <3>1, <3>2, <3>3
    <3>4. CASE c # j.to
      BY <2>6, <3>1, <3>4
    <3> QED
      BY <3>3, <3>4
  <2>12. NotRead'
    BY <1>7, <2>1 DEF AnswerInv, NotRead, OnWay, Once
  <2>13. SyncOnce'
    <3> SUFFICES ASSUME NEW c \in Sync, told'[c] # <<>> PROVE Len(told'[c]) = 1 /\ cpc'[c] = "done"
      BY DEF SyncOnce
    <3>1. CASE c = j.to
      <4>1. told[c] = <<>>
        BY <1>7, <3>1 DEF AnswerInv, SyncOnce
      <4>2. Len(told[c]) = 0
        BY <4>1
      <4> QED
        BY <1>7, <2>7, <3>1, <4>2
    <3>2. CASE c # j.to
      BY <1>7, <2>6, <3>2 DEF AnswerInv, SyncOnce
    <3> QED
      BY <3>1, <3>2
  <2> QED
    BY <2>10, <2>11, <2>12, <2>13 DEF AnswerInv
<1>8. CASE LoopCallback
  <2>1. PICK j \in {job[i] : i \in DOMAIN job} : j.step = "tail" /\ j.to \in Async /\ Tell(j) /\ UNCHANGED cpc
    BY <1>8 DEF LoopCallback
  <2>2. \A d \in Calls : NotAsked(d)' => NotAsked(d)
    BY <2>1 DEF NotAsked
  <2>3. \A d \in Calls : d # j.to => cpc'[d] = cpc[d]
    BY <2>1
  <2>4. j.to \notin Sync
    BY <2>1 DEF Async
  <2> QED
    BY <2>1, <2>2, <2>3, <2>4, <1>7
<1>9. CASE LoopRetChan
  <2>1. PICK j \in {job[i] : i \in DOMAIN job} :
            j.step = "tail" /\ Tell(j) /\ cpc[j.to] = "wait" /\ CallGoto(j.to, "done")
    BY <1>9 DEF LoopRetChan
  <2>2. \A d \in Calls : NotAsked(d)' => NotAsked(d)
    BY <2>1 DEF NotAsked, TypeOK
  <2>3. \A d \in Calls : d # j.to => cpc'[d] = cpc[d]
    BY <2>1 DEF TypeOK
  <2>4. cpc[j.to] # "done" /\ cpc'[j.to] = "done"
    <3>1. j.to \in Calls
      BY JobType DEF Jobs
    <3> QED
      BY <2>1, <3>1 DEF TypeOK
  <2> QED
    BY <2>1, <2>2, <2>3, <2>4, <1>7
<1>10. CASE LoopRemove
  <2>1. UNCHANGED <<cpc, asked, answers, answer, todo, queue, came, told>> /\ job' = <<>>
    BY <1>10 DEF LoopRemove
  <2>2. PICK n \in DOMAIN job : job[n].step = "remove"
    BY <1>10 DEF LoopRemove
  <2>3. \A i \in DOMAIN job : job[i].step = "remove"
    <3>1. DOMAIN job \subseteq {1}
      BY LenProperties DEF TypeOK
    <3> QED
      BY <2>2, <3>1
  <2>4. DOMAIN job' = {}
    BY <2>1
  <2>5. handed' = handed
    BY <2>1, <2>3, <2>4 DEF handed, Running
  <2>6. Hands(queue, came, handed, todo, answer)' /\ ToldFirst'
    BY <2>1, <2>4, <2>5, Unmoved
  <2>7. NotRead' /\ SyncOnce'
    BY <2>1 DEF AnswerInv, NotRead, SyncOnce, NotAsked, OnWay
  <2> QED
    BY <2>6, <2>7 DEF AnswerInv
<1>11. CASE UNCHANGED vars
  <2>1. UNCHANGED <<cpc, asked, answers, answer, todo, queue, job, came, told>>
    BY <1>11 DEF vars
  <2>2. handed' = handed
    BY <2>1 DEF handed, Running
  <2>3. Hands(queue, came, handed, todo, answer)' /\ ToldFirst'
    BY <2>1, <2>2, Unmoved
  <2>4. NotRead' /\ SyncOnce'
    BY <2>1 DEF AnswerInv, NotRead, SyncOnce, NotAsked, OnWay
  <2> QED
    BY <2>3, <2>4 DEF AnswerInv
<1> QED
  BY <1>1, <1>2, <1>3, <1>4, <1>5, <1>6, <1>8, <1>9, <1>10, <1>11 DEF Next, Caller, Recv, Loop

\* The chain of a call matches the type the call waits for.
RightType == \A c \in Calls : \A i \in DOMAIN came[c] : Ack[came[c][i]] = Ack[c]

\* Only the recvThread adds to what came.
LEMMA TypeMatches ==
    ASSUME TypeOK, RightType, [Next]_vars
    PROVE  RightType'
<1>1. CASE UNCHANGED came
  BY <1>1 DEF RightType
<1>2. CASE RecvAnswer
  <2> SUFFICES ASSUME NEW c \in Calls, NEW i \in DOMAIN came'[c]
               PROVE  Ack[came'[c][i]] = Ack[c]
    BY DEF RightType
  <2>1. PICK a : a = Head(answers)
    OBVIOUS
  <2>2. came'[c] = IF c \in Matching(recvChainByID, a) THEN Append(came[c], a) ELSE came[c]
    BY <1>2, <2>1 DEF RecvAnswer, Comes
  <2>3. CASE c \in Matching(recvChainByID, a)
    <3>1. Ack[a] = Ack[c]
      BY <2>3 DEF Matching
    <3>2. (i \in DOMAIN came[c] /\ came'[c][i] = came[c][i]) \/ came'[c][i] = a
      <4>1. came[c] \in Seq(Calls) /\ answers \in Seq(Calls) /\ answers # <<>>
        BY <1>2 DEF TypeOK, RecvAnswer
      <4>2. a \in Calls
        BY <2>1, <4>1, TailElements
      <4>3. came'[c] = Append(came[c], a)
        BY <2>2, <2>3
      <4> QED
        BY <4>1, <4>2, <4>3, AppendElements
    <3> QED
      BY <3>1, <3>2 DEF RightType
  <2>4. CASE c \notin Matching(recvChainByID, a)
    BY <2>2, <2>4 DEF RightType
  <2> QED
    BY <2>3, <2>4
<1>3. UNCHANGED came \/ RecvAnswer
  <2> USE DEF history
  <2>1. ASSUME NEW c \in Calls, Caller(c) \/ AsyncTimeout(c) \/ RemoteAnswers(c)
        PROVE  UNCHANGED came
    BY <2>1 DEF Caller, BuildAdd, BuildAssign, CallSend, SyncTimeout, AsyncTimeout, RemoteAnswers
  <2>2. Recv => UNCHANGED came \/ RecvAnswer
    BY DEF Recv, Post
  <2>3. Loop => UNCHANGED came
    BY DEF Loop, LoopTake, LoopCallback, LoopRetChan, Tell, LoopRemove
  <2> QED
    BY <2>1, <2>2, <2>3 DEF Next, vars
<1> QED
  BY <1>1, <1>2, <1>3

\* When the recvThread, the queue and the loop have nothing left, all that came
\* has been handed on.
LEMMA InvToldWhatCame ==
    ASSUME TypeOK, AnswerInv, RightType
    PROVE  ToldWhatCame
<1> SUFFICES ASSUME NEW c \in Calls
             PROVE  /\ Len(told[c]) <= Len(came[c])
                    /\ \A i \in DOMAIN told[c] : told[c][i] = came[c][i] /\ Ack[told[c][i]] = Ack[c]
                    /\ \A i, j \in DOMAIN came[c] : came[c][i] = came[c][j] => i = j
                    /\ todo = {} /\ queue = <<>> /\ job = <<>> => told[c] = came[c]
                    /\ c \in Sync => Len(told[c]) <= 1
  BY DEF ToldWhatCame
<1>1. /\ told[c] \in Seq(Calls) /\ came[c] \in Seq(Calls)
  BY DEF TypeOK
<1>2. /\ Len(told[c]) \in Nat /\ DOMAIN told[c] = 1..Len(told[c])
      /\ Len(came[c]) \in Nat /\ DOMAIN came[c] = 1..Len(came[c])
  BY <1>1, LenProperties
<1>3. Len(told[c]) <= handed[c] /\ handed[c] \in Nat /\ (job = <<>> => handed[c] = Len(told[c]))
  <2>1. job = <<>> => ~Running(c)
    BY DEF Running
  <2> QED
    BY <2>1, HandedType
<1>4. handed[c] <= Len(came[c]) /\ \A i \in DOMAIN told[c] : told[c][i] = came[c][i]
  BY DEF AnswerInv, ToldFirst
<1>5. \A i, j \in DOMAIN came[c] : came[c][i] = came[c][j] => i = j
  BY DEF AnswerInv, NotRead, Once
<1>6. c \in Sync => Len(told[c]) <= 1
  <2>1. CASE told[c] = <<>>
    <3>1. Len(told[c]) = 0
      BY <2>1
    <3> QED
      BY <3>1
  <2>2. ASSUME told[c] # <<>>, c \in Sync PROVE Len(told[c]) = 1
    BY <2>2, Zenon DEF AnswerInv, SyncOnce
  <2>3. ASSUME told[c] # <<>>, c \in Sync PROVE Len(told[c]) <= 1
    <3>1. Len(told[c]) = 1
      BY <2>2, <2>3
    <3> QED
      BY <3>1
  <2> QED
    BY <2>1, <2>3
<1>7. ASSUME todo = {}, queue = <<>>, job = <<>> PROVE told[c] = came[c]
  <2>1. Len(told[c]) = Len(came[c])
    <3> SUFFICES ASSUME Len(told[c]) # Len(came[c]) PROVE FALSE
      OBVIOUS
    <3>1. Len(told[c]) + 1 \in DOMAIN came[c] /\ Len(told[c]) + 1 > handed[c]
      BY <1>2, <1>3, <1>4, <1>7
    <3>2. DOMAIN queue = {}
      BY <1>7
    <3> QED
      BY <1>7, <3>1, <3>2 DEF AnswerInv, Hands, Covered
  <2> QED
    BY <1>1, <1>2, <1>4, <2>1, SeqEqual
<1>8. \A i \in DOMAIN told[c] : Ack[told[c][i]] = Ack[c]
  <2> SUFFICES ASSUME NEW i \in DOMAIN told[c] PROVE Ack[told[c][i]] = Ack[c]
    OBVIOUS
  <2>1. i \in DOMAIN came[c] /\ told[c][i] = came[c][i]
    BY <1>2, <1>3, <1>4
  <2> QED
    BY <2>1 DEF RightType
<1> QED
  BY <1>2, <1>3, <1>4, <1>5, <1>6, <1>7, <1>8

-----------------------------------------------------------------------------

\* Callers, recvThread and loop keep every variable of its type, and the queue
\* within its capacity.
THEOREM TypeCorrect == Spec => []TypeOK
<1>1. Init => TypeOK /\ CacheIsCurrent
  BY InitTypes
<1>2. TypeOK /\ CacheIsCurrent /\ [Next]_vars => TypeOK' /\ CacheIsCurrent'
  BY TypeStep
<1> QED
  BY <1>1, <1>2, PTL DEF Spec

\* The list of chains that the recvThread walks is the map whenever it is not
\* marked as stale, whoever adds and removes chains meanwhile
\* (handlerchainmgr.go:114).
THEOREM CacheStaysCurrent == Spec => []CacheIsCurrent
<1>1. Init => TypeOK /\ CacheIsCurrent
  BY InitTypes
<1>2. TypeOK /\ CacheIsCurrent /\ [Next]_vars => TypeOK' /\ CacheIsCurrent'
  BY TypeStep
<1> QED
  BY <1>1, <1>2, PTL DEF Spec

\* However calls, timeouts, late answers and a full queue interleave, and
\* whichever calls wait for answers of one type: a call is told the answers of
\* its type that came while its chain was in the manager, in that order, once
\* each and in the end all of them, and a CallSync no more than one.
THEOREM EachToldWhatCame == Spec => []ToldWhatCame
<1>1. Init => TypeOK /\ CacheIsCurrent /\ AnswerInv /\ RightType
  <2>1. Init => RightType
    BY DEF Init, RightType
  <2> QED
    BY <2>1, InitTypes, AnswerInit
<1>2. TypeOK /\ CacheIsCurrent /\ AnswerInv /\ RightType /\ [Next]_vars => AnswerInv' /\ RightType'
  BY AnswerStep, TypeMatches
<1>3. TypeOK /\ AnswerInv /\ RightType => ToldWhatCame
  BY InvToldWhatCame
<1> QED
  BY <1>1, <1>2, <1>3, TypeCorrect, CacheStaysCurrent, PTL DEF Spec

=============================================================================
