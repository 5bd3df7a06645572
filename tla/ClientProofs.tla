---------------------------- MODULE ClientProofs ----------------------------
(***************************************************************************)
(* Proofs about ClientQueue and ClientSocket, for any number of sockets,   *)
(* packets and tags: messages are processed in the order they are posted,  *)
(* packets arrive without a gap, and the end of a connection is told.      *)
(***************************************************************************)
EXTENDS ClientSocket, SequenceTheorems, TLAPS

\* A sequence of consecutive numbers that begins after b.
Runs(q, b) == \A i \in 1..Len(q) : q[i] = b + i

\* The same with at most one number left out.
Near(q, b) == \A i \in 1..Len(q) : q[i] \in {b + i, b + i + 1}

(***************************************************************************)
(* The message queue: the messages that wait are the next ones, the        *)
(* delayed ones first.                                                     *)
(***************************************************************************)
Waits ==
    /\ processed + Len(delayQueue) + Len(msgQueue) = posted
    /\ Runs(delayQueue, processed)
    /\ Runs(msgQueue, processed + Len(delayQueue))

\* Nothing is in the delay when it is off.
DelayInUse == ~delayed => delayQueue = <<>>

QueueInv ==
    /\ msgQueue \in Seq(Nat) /\ delayQueue \in Seq(Nat)
    /\ posted \in Nat /\ processed \in Nat
    /\ mixed \/ (Waits /\ DelayInUse)

(***************************************************************************)
(* The packets of a connection.                                            *)
(***************************************************************************)
Labels == {"none", "lock", "notify", "unlock", "clear", "send", "check", "end", "thread",
           "ready", "loop", "head", "body", "recvHead", "recvBody", "post", "done"}
Nets == {"none", "connecting", "open", "early", "refused", "connected", "failed", "closed"}

OwnTypes ==
    /\ cur \in 0..MaxSockets /\ made \in 0..MaxSockets
    /\ sock \subseteq Sockets /\ \A s \in sock : s <= made
    /\ pc \in [Threads -> [Sockets -> Labels]]
    /\ stage \in [Sockets -> {"None", "BeginConnect", "Ready"}]
    /\ guard \in [Sockets -> Threads \cup {"free"}]
    /\ net \in [Sockets -> Nets] /\ remote \in [Sockets -> {"open", "fin", "reset"}]
    /\ stream \in [Sockets -> Seq(Nat)] /\ got \in [Sockets -> Seq(Nat)]
    /\ out \in [Sockets -> Seq(Nat)]
    /\ sent \in [Sockets -> Nat]
    /\ recvTag \in [Sockets -> Nat] /\ sendTag \in [Sockets -> Nat]
    /\ said \in [Sockets -> [Kinds -> Nat]]

\* What the remote end has numbered is what has been posted, what is under way
\* and at most one packet that it left out.
OneGap(s) ==
    /\ recvTag[s] = Len(got[s]) + 1
    /\ sent[s] \in {Len(got[s]) + Len(stream[s]), Len(got[s]) + Len(stream[s]) + 1}
    /\ Near(stream[s], Len(got[s]))

\* Past the check of the tag, the packet is the one that comes next.
TagChecked(s) ==
    pc["recv"][s] \in {"body", "recvBody", "post"}
        => Len(stream[s]) > 0 /\ stream[s][1] = Len(got[s]) + 1

\* Nothing can be sent any more.
Dead(s) ==
    s <= made /\ (s \notin sock \/ net[s] \in {"failed", "closed"} \/ remote[s] = "reset")

\* A tag that is used up without a packet is the last.
TagsUsed(s) ==
    \/ Dead(s)
    \/ sendTag[s] = Len(out[s]) + 1 + (IF pc["main"][s] = "send" THEN 1 ELSE 0)

InSend(s) ==
    pc["main"][s] = "send"
        => s <= made /\ (s \notin sock \/ net[s] \in {"early", "connected", "failed", "closed"})

PacketInv(s) ==
    /\ Runs(got[s], 0) /\ OneGap(s) /\ TagChecked(s)
    /\ Runs(out[s], 0) /\ TagsUsed(s) /\ InSend(s)

(***************************************************************************)
(* The end of a connection.                                                *)
(***************************************************************************)
Told(s) == \E k \in {"Disconnected", "SendError", "RecvError"} : said[s][k] > 0

\* A socket is made before it is used, and HandleConnected starts IOThreadRecv.
InTurn(s) ==
    /\ s > made => net[s] = "none"
    /\ net[s] \in {"none", "connecting"} => pc["conn"][s] = "none"
    /\ pc["conn"][s] \in {"none", "check", "end", "thread"} => pc["recv"][s] = "none"
    /\ said[s]["Connected"] > 0 \/ pc["conn"][s] \in {"thread", "ready"}
            => net[s] \in {"connected", "failed", "closed"}

\* The lock of Close, which keeps HandleConnected from going on when it is early.
Closing(s) ==
    \A t \in Threads :
        /\ pc[t][s] \in {"notify", "unlock"} => guard[s] = t /\ s \in sock /\ stage[s] # "BeginConnect"
        /\ pc[t][s] = "notify" => net[s] = "closed" /\ said[s]["Disconnected"] = 0

\* Who has seen the connection fail or close has told it, or is about to.
EndTold(s) ==
    /\ net[s] = "failed" => Told(s)
    /\ net[s] = "closed" => Told(s) \/ \E t \in Threads : pc[t][s] = "notify"
    /\ said[s]["Disconnected"] <= 1
    /\ said[s]["Disconnected"] > 0 => net[s] = "closed"

\* A connection that Close has not closed was missed by it.
LeakIsMissed(s) ==
    /\ s \notin sock /\ net[s] = "connected" => s \in missed
    /\ (\E t \in Threads : pc[t][s] = "unlock")
           => /\ net[s] = "connected" => s \in missed
              /\ pc["conn"][s] = "end" /\ net[s] \in {"open", "early"} => s \in missed

EndInv(s) == InTurn(s) /\ Closing(s) /\ EndTold(s) /\ LeakIsMissed(s)

ClientInv == OwnTypes /\ \A s \in Sockets : PacketInv(s) /\ EndInv(s)

-----------------------------------------------------------------------------

(***************************************************************************)
(* Sequences of consecutive numbers.                                       *)
(***************************************************************************)
LEMMA RunGrows ==
    ASSUME NEW q \in Seq(Nat), NEW b \in Nat, Runs(q, b), NEW x, x = b + Len(q) + 1
    PROVE  /\ Append(q, x) \in Seq(Nat) /\ Len(Append(q, x)) = Len(q) + 1
           /\ Runs(Append(q, x), b)
<1>1. Len(q) \in Nat /\ x \in Nat
  OBVIOUS
<1>2. /\ Append(q, x) \in Seq(Nat) /\ Len(Append(q, x)) = Len(q) + 1
      /\ \A i \in 1..Len(q) : Append(q, x)[i] = q[i]
      /\ Append(q, x)[Len(q) + 1] = x
  BY <1>1, AppendProperties
<1>3. ASSUME NEW i \in 1..(Len(q) + 1) PROVE Append(q, x)[i] = b + i
  <2>1. CASE i = Len(q) + 1
    BY <1>1, <1>2, <2>1
  <2>2. CASE i \in 1..Len(q)
    BY <1>2, <2>2 DEF Runs
  <2> QED
    BY <1>1, <2>1, <2>2
<1> QED
  BY <1>2, <1>3 DEF Runs

LEMMA RunShrinks ==
    ASSUME NEW q \in Seq(Nat), q # <<>>, NEW b \in Nat, Runs(q, b)
    PROVE  /\ Tail(q) \in Seq(Nat) /\ Len(q) \in Nat /\ Len(q) > 0 /\ Len(Tail(q)) = Len(q) - 1
           /\ Runs(Tail(q), b + 1) /\ Head(q) = b + 1
<1>1. /\ Tail(q) \in Seq(Nat) /\ Len(Tail(q)) = Len(q) - 1 /\ Len(q) \in Nat /\ Len(q) > 0
      /\ \A i \in 1..Len(Tail(q)) : Tail(q)[i] = q[i + 1]
      /\ Head(q) = q[1]
  BY HeadTailProperties, EmptySeq
<1>2. ASSUME NEW i \in 1..Len(Tail(q)) PROVE Tail(q)[i] = (b + 1) + i
  <2>1. i + 1 \in 1..Len(q)
    BY <1>1
  <2>2. q[i + 1] = b + (i + 1)
    BY <2>1 DEF Runs
  <2> QED
    BY <1>1, <2>2
<1>3. 1 \in 1..Len(q)
  BY <1>1
<1> QED
  BY <1>1, <1>2, <1>3 DEF Runs

LEMMA NearGrows ==
    ASSUME NEW q \in Seq(Nat), NEW b \in Nat, Near(q, b),
           NEW x, x \in {b + Len(q) + 1, b + Len(q) + 2}
    PROVE  /\ Append(q, x) \in Seq(Nat) /\ Len(Append(q, x)) = Len(q) + 1
           /\ Near(Append(q, x), b)
<1>1. Len(q) \in Nat /\ x \in Nat
  OBVIOUS
<1>2. /\ Append(q, x) \in Seq(Nat) /\ Len(Append(q, x)) = Len(q) + 1
      /\ \A i \in 1..Len(q) : Append(q, x)[i] = q[i]
      /\ Append(q, x)[Len(q) + 1] = x
  BY <1>1, AppendProperties
<1>3. ASSUME NEW i \in 1..(Len(q) + 1) PROVE Append(q, x)[i] \in {b + i, b + i + 1}
  <2>1. CASE i = Len(q) + 1
    BY <1>1, <1>2, <2>1
  <2>2. CASE i \in 1..Len(q)
    BY <1>2, <2>2 DEF Near
  <2> QED
    BY <1>1, <2>1, <2>2
<1> QED
  BY <1>2, <1>3 DEF Near

LEMMA NearShrinks ==
    ASSUME NEW q \in Seq(Nat), Len(q) > 0, NEW b \in Nat, Near(q, b)
    PROVE  /\ Tail(q) \in Seq(Nat) /\ Len(Tail(q)) = Len(q) - 1 /\ Head(q) = q[1]
           /\ Near(Tail(q), b + 1)
<1>1. /\ Tail(q) \in Seq(Nat) /\ Len(Tail(q)) = Len(q) - 1 /\ Len(q) \in Nat
      /\ \A i \in 1..Len(Tail(q)) : Tail(q)[i] = q[i + 1]
      /\ Head(q) = q[1]
  BY HeadTailProperties, EmptySeq
<1>2. ASSUME NEW i \in 1..Len(Tail(q)) PROVE Tail(q)[i] \in {(b + 1) + i, (b + 1) + i + 1}
  <2>1. i + 1 \in 1..Len(q)
    BY <1>1
  <2>2. q[i + 1] \in {b + (i + 1), b + (i + 1) + 1}
    BY <2>1 DEF Near
  <2> QED
    BY <1>1, <2>2
<1> QED
  BY <1>1, <1>2 DEF Near

LEMMA RunIsUnique ==
    ASSUME NEW q \in Seq(Nat), NEW b \in Nat, Runs(q, b)
    PROVE  q = [i \in 1..Len(q) |-> b + i]
<1> DEFINE n == [i \in 1..Len(q) |-> b + i]
<1>1. Len(q) \in Nat
  OBVIOUS
<1>2. n \in Seq(Nat) /\ Len(n) = Len(q) /\ \A i \in 1..Len(q) : n[i] = b + i
  BY <1>1, IsASeq
<1>3. \A i \in 1..Len(q) : q[i] = n[i]
  BY <1>2 DEF Runs
<1> HIDE DEF n
<1>4. q = n
  BY <1>2, <1>3, SeqEqual
<1> QED
  BY <1>4 DEF n

LEMMA RunsJoin ==
    ASSUME NEW q \in Seq(Nat), NEW r \in Seq(Nat), NEW b \in Nat,
           Runs(q, b), Runs(r, b + Len(q))
    PROVE  q \o r \in Seq(Nat) /\ Len(q \o r) = Len(q) + Len(r) /\ Runs(q \o r, b)
<1>1. Len(q) \in Nat /\ Len(r) \in Nat
  OBVIOUS
<1>2. /\ q \o r \in Seq(Nat) /\ Len(q \o r) = Len(q) + Len(r)
      /\ \A i \in 1..(Len(q) + Len(r)) :
            (q \o r)[i] = IF i <= Len(q) THEN q[i] ELSE r[i - Len(q)]
  BY ConcatProperties
<1>3. ASSUME NEW i \in 1..(Len(q) + Len(r)) PROVE (q \o r)[i] = b + i
  <2>1. CASE i <= Len(q)
    BY <1>1, <1>2, <2>1 DEF Runs
  <2>2. CASE ~(i <= Len(q))
    <3>1. i - Len(q) \in 1..Len(r)
      BY <1>1, <2>2
    <3>2. r[i - Len(q)] = b + Len(q) + (i - Len(q))
      BY <3>1 DEF Runs
    <3> QED
      BY <1>1, <1>2, <2>2, <3>2
  <2> QED
    BY <2>1, <2>2
<1> QED
  BY <1>2, <1>3 DEF Runs

LEMMA NothingRuns == \A b : <<>> \in Seq(Nat) /\ Len(<<>>) = 0 /\ Runs(<<>>, b)
  BY DEF Runs

(***************************************************************************)
(* The message queue.                                                      *)
(***************************************************************************)
LEMMA QueueStart == Init => QueueInv
<1> SUFFICES ASSUME Init PROVE QueueInv
  OBVIOUS
<1>1. msgQueue = <<>> /\ delayQueue = <<>> /\ posted = 0 /\ processed = 0
  BY DEF Init, QueueInit
<1> QED
  BY <1>1, NothingRuns DEF QueueInv, DelayInUse, Waits

LEMMA PostKeepsOrder == QueueInv /\ PostStream => QueueInv'
<1> SUFFICES ASSUME QueueInv, PostStream PROVE QueueInv'
  OBVIOUS
<1>1. /\ posted' = posted + 1 /\ msgQueue' = Append(msgQueue, posted + 1)
      /\ delayQueue' = delayQueue /\ delayed' = delayed /\ processed' = processed /\ mixed' = mixed
  BY DEF PostStream
<1>2. msgQueue \in Seq(Nat) /\ delayQueue \in Seq(Nat) /\ posted \in Nat /\ processed \in Nat
  BY DEF QueueInv
<1>3. Len(delayQueue) \in Nat /\ Len(msgQueue) \in Nat /\ processed + Len(delayQueue) \in Nat
  BY <1>2
<1>4. msgQueue' \in Seq(Nat) /\ posted' \in Nat
  BY <1>1, <1>2, AppendProperties
<1>5. ASSUME Waits PROVE Waits'
  <2>1. processed + Len(delayQueue) + Len(msgQueue) = posted
    BY <1>5 DEF Waits
  <2>2. Runs(msgQueue, processed + Len(delayQueue)) /\ Runs(delayQueue, processed)
    BY <1>5 DEF Waits
  <2>3. posted + 1 = (processed + Len(delayQueue)) + Len(msgQueue) + 1
    BY <1>2, <1>3, <2>1
  <2>4. Len(msgQueue') = Len(msgQueue) + 1 /\ Runs(msgQueue', processed + Len(delayQueue))
    BY <1>1, <1>2, <1>3, <2>2, <2>3, RunGrows
  <2>5. processed + Len(delayQueue) + Len(msgQueue') = posted'
    BY <1>1, <1>2, <1>3, <2>3, <2>4
  <2> QED
    BY <1>1, <2>2, <2>4, <2>5 DEF Waits
<1>6. DelayInUse => DelayInUse'
  BY <1>1, Zenon DEF DelayInUse
<1> QED
  BY <1>1, <1>2, <1>4, <1>5, <1>6, Zenon DEF QueueInv

\* A frame moves the head of what waits, whichever queue it is in.
LEMMA PollKeepsOrder == \A due \in BOOLEAN : QueueInv /\ Polling(due) => QueueInv'
<1> SUFFICES ASSUME NEW due \in BOOLEAN, QueueInv, Polling(due) PROVE QueueInv'
  OBVIOUS
<1> DEFINE ripe == due /\ delayed /\ delayQueue # <<>>
           rest == IF ripe THEN Tail(delayQueue) ELSE delayQueue
           take == msgQueue # <<>>
           done == IF ripe THEN 1 ELSE 0
<1>1. /\ msgQueue' = IF take THEN Tail(msgQueue) ELSE msgQueue
      /\ delayQueue' = IF take /\ delayed THEN Append(rest, Head(msgQueue)) ELSE rest
      /\ processed' = processed + done + (IF take /\ ~delayed THEN 1 ELSE 0)
      /\ delayed' = delayed /\ posted' = posted /\ mixed' = mixed
  BY DEF Polling
<1>2. /\ msgQueue \in Seq(Nat) /\ delayQueue \in Seq(Nat) /\ posted \in Nat /\ processed \in Nat
      /\ Len(msgQueue) \in Nat /\ Len(delayQueue) \in Nat
  BY DEF QueueInv
<1>3. /\ rest \in Seq(Nat) /\ Len(rest) \in Nat /\ done \in {0, 1}
      /\ Len(rest) + done = Len(delayQueue)
      /\ Runs(delayQueue, processed) => Runs(rest, processed + done)
      /\ delayQueue = <<>> => rest = <<>>
  <2>1. CASE ripe
    <3>1. rest = Tail(delayQueue) /\ done = 1 /\ delayQueue # <<>>
      BY <2>1
    <3> HIDE DEF rest, done, ripe
    <3>2. rest \in Seq(Nat) /\ Len(rest) = Len(delayQueue) - 1 /\ Len(delayQueue) # 0
      BY <1>2, <3>1, HeadTailProperties, EmptySeq
    <3>3. Runs(delayQueue, processed) => Runs(rest, processed + 1)
      BY <1>2, <3>1, RunShrinks
    <3> QED
      BY <1>2, <3>1, <3>2, <3>3
  <2>2. CASE ~ripe
    <3>1. rest = delayQueue /\ done = 0
      BY <2>2
    <3> HIDE DEF rest, done, ripe
    <3>2. processed + 0 = processed /\ Len(delayQueue) + 0 = Len(delayQueue)
      BY <1>2
    <3> QED
      BY <1>2, <3>1, <3>2
  <2> QED
    BY <2>1, <2>2
<1> HIDE DEF rest, done, ripe
<1>4. /\ processed + done \in Nat /\ Len(rest) \in Nat /\ done \in Nat
      /\ (processed + done) + Len(rest) = processed + Len(delayQueue)
  <2>1. Len(rest) \in Nat /\ done \in {0, 1} /\ Len(rest) + done = Len(delayQueue)
    BY <1>3
  <2> QED
    BY <1>2, <2>1
<1>5. CASE ~take
  <2>1. msgQueue' = msgQueue /\ delayQueue' = rest /\ processed' = processed + done
    BY <1>1, <1>4, <1>5
  <2>2. ASSUME Waits PROVE Waits'
    <3>1. processed + Len(delayQueue) + Len(msgQueue) = posted
      BY <2>2 DEF Waits
    <3>2. Runs(rest, processed + done)
      BY <1>3, <2>2 DEF Waits
    <3>3. (processed + done) + Len(rest) = processed + Len(delayQueue)
      BY <1>4
    <3> QED
      BY <1>1, <2>1, <2>2, <3>1, <3>2, <3>3, Zenon DEF Waits
  <2>3. DelayInUse => DelayInUse'
    BY <1>1, <1>3, <2>1, Zenon DEF DelayInUse
  <2> QED
    BY <1>1, <1>2, <1>3, <1>4, <2>1, <2>2, <2>3, Zenon DEF QueueInv
<1>6. CASE take
  <2>1. /\ msgQueue' = Tail(msgQueue) /\ msgQueue' \in Seq(Nat) /\ Head(msgQueue) \in Nat
        /\ Len(msgQueue') = Len(msgQueue) - 1 /\ Len(msgQueue) # 0
    BY <1>1, <1>2, <1>6, HeadTailProperties, EmptySeq
  <2>2. ASSUME Waits
        PROVE  /\ Runs(msgQueue', processed + Len(delayQueue) + 1)
               /\ Head(msgQueue) = processed + Len(delayQueue) + 1
               /\ Runs(rest, processed + done)
               /\ processed + Len(delayQueue) + Len(msgQueue) = posted
    <3>1. processed + Len(delayQueue) \in Nat
      BY <1>2
    <3>2. Runs(msgQueue, processed + Len(delayQueue))
      BY <2>2 DEF Waits
    <3>3. /\ Runs(msgQueue', processed + Len(delayQueue) + 1)
          /\ Head(msgQueue) = processed + Len(delayQueue) + 1
      BY <1>2, <1>6, <2>1, <3>1, <3>2, RunShrinks
    <3> QED
      BY <1>3, <2>2, <3>3 DEF Waits
  <2>3. CASE delayed
    <3>1. delayQueue' = Append(rest, Head(msgQueue)) /\ processed' = processed + done
      BY <1>1, <1>4, <1>6, <2>3
    <3>2. delayQueue' \in Seq(Nat) /\ Len(delayQueue') = Len(rest) + 1
      BY <1>3, <2>1, <3>1, AppendProperties
    <3>3. ASSUME Waits PROVE Waits'
      <4>1. Head(msgQueue) = (processed + done) + Len(rest) + 1
        <5>1. Head(msgQueue) = processed + Len(delayQueue) + 1
          BY <2>2, <3>3
        <5> QED
          BY <1>2, <1>4, <5>1
      <4>2. Runs(delayQueue', processed')
        BY <1>3, <1>4, <2>2, <3>1, <3>3, <4>1, RunGrows
      <4>3. processed' + Len(delayQueue') = processed + Len(delayQueue) + 1
        <5>1. processed' = processed + done /\ Len(delayQueue') = Len(rest) + 1
          BY <3>1, <3>2
        <5> QED
          BY <1>4, <5>1
      <4>4. processed + Len(delayQueue) + Len(msgQueue) = posted
        BY <2>2, <3>3
      <4>5. processed' + Len(delayQueue') + Len(msgQueue') = posted'
        BY <1>1, <1>2, <2>1, <4>3, <4>4
      <4>6. Runs(msgQueue', processed' + Len(delayQueue'))
        BY <2>2, <3>3, <4>3
      <4> QED
        BY <4>2, <4>5, <4>6 DEF Waits
    <3>4. DelayInUse'
      BY <1>1, <2>3, Zenon DEF DelayInUse
    <3> QED
      BY <1>1, <1>2, <1>4, <2>1, <3>1, <3>2, <3>3, <3>4, Zenon DEF QueueInv
  <2>4. CASE ~delayed
    <3>1. done = 0
      BY <2>4 DEF done, ripe
    <3>2. delayQueue' = rest /\ processed' = processed + done + 1
      BY <1>1, <1>6, <2>4
    <3>3. processed' = processed + 1 /\ processed' \in Nat
      BY <1>2, <3>1, <3>2
    <3>4. ASSUME Waits, DelayInUse PROVE Waits' /\ DelayInUse'
      <4>1. delayQueue = <<>> /\ delayQueue' = <<>>
        BY <1>3, <2>4, <3>2, <3>4, Zenon DEF DelayInUse
      <4>2. Len(delayQueue) = 0 /\ Len(delayQueue') = 0 /\ Runs(delayQueue', processed')
        BY <4>1, NothingRuns
      <4>3. processed' + Len(delayQueue') = processed + Len(delayQueue) + 1
        BY <1>2, <3>3, <4>2
      <4>4. processed + Len(delayQueue) + Len(msgQueue) = posted
        BY <2>2, <3>4
      <4>5. processed' + Len(delayQueue') + Len(msgQueue') = posted'
        BY <1>1, <1>2, <2>1, <4>3, <4>4
      <4>6. Runs(msgQueue', processed' + Len(delayQueue'))
        BY <2>2, <3>4, <4>3
      <4>7. DelayInUse'
        BY <4>1 DEF DelayInUse
      <4> QED
        BY <4>2, <4>5, <4>6, <4>7 DEF Waits
    <3> QED
      BY <1>1, <1>2, <1>3, <2>1, <3>2, <3>3, <3>4, Zenon DEF QueueInv
  <2> QED
    BY <2>3, <2>4
<1> QED
  BY <1>5, <1>6

\* A delay that is switched off with messages in it is the one that mixes them.
LEMMA DelayKeepsOrder == \A b : QueueInv /\ EmulateDelayMS(b) => QueueInv'
<1> SUFFICES ASSUME NEW b, QueueInv, EmulateDelayMS(b) PROVE QueueInv'
  OBVIOUS
<1>1. UNCHANGED <<msgQueue, delayQueue, posted, processed>>
  BY DEF EmulateDelayMS
<1>2. Waits => Waits'
  BY <1>1 DEF Waits
<1>3. mixed' \/ (~mixed /\ DelayInUse')
  BY <1>1, Zenon DEF EmulateDelayMS, DelayInUse
<1> QED
  BY <1>1, <1>2, <1>3, Zenon DEF QueueInv

LEMMA QueueCases ==
    ASSUME [Next]_vars
    PROVE  \/ PostStream \/ UNCHANGED queueVars
           \/ \E due \in BOOLEAN : Polling(due)
           \/ \E b : EmulateDelayMS(b)
<1>1. ASSUME NEW t, NEW s, Close(t, s) PROVE PostStream \/ UNCHANGED queueVars
  BY <1>1 DEF Close, CloseEnter, CloseNotify, CloseLeave, Say, SayNothing
<1>2. ASSUME NEW s, Main(s) PROVE PostStream \/ UNCHANGED queueVars
  BY <1>1, <1>2 DEF Main, StopClear, SendPacket, Say, SayNothing
<1>3. ASSUME NEW s, HandleConnected(s) PROVE PostStream \/ UNCHANGED queueVars
  BY <1>1, <1>3 DEF HandleConnected, ConnCheck, ConnEnd, ConnThread, ConnReady, Say, SayNothing
<1>4. ASSUME NEW s, IOThreadRecv(s) PROVE PostStream \/ UNCHANGED queueVars
  BY <1>1, <1>4 DEF IOThreadRecv, RecvLoop, ReadPacket, ReceiveThrows, ReceiveZero,
                    HandleReadHeader, HandleReadBody, DoRecvPacket, Say, SayNothing
<1>5. ASSUME NEW s, Completes(s) \/ RemoteSends(s) \/ RemoteEnds(s) PROVE UNCHANGED queueVars
  BY <1>5 DEF Completes, RemoteSends, RemoteEnds, SayNothing
<1>6. Connect \/ ConnectBad \/ ConnectThrows \/ Stop \/ SendMessage => PostStream \/ UNCHANGED queueVars
  BY DEF Connect, ConnectBad, ConnectThrows, Stop, SendMessage, Say, SayNothing
<1> QED
  BY <1>2, <1>3, <1>4, <1>5, <1>6 DEF Next, Update, vars

LEMMA QueueStep == QueueInv /\ [Next]_vars => QueueInv'
<1>1. QueueInv /\ UNCHANGED queueVars => QueueInv'
  BY DEF QueueInv, queueVars, Waits, DelayInUse
<1> QED
  BY <1>1, PostKeepsOrder, PollKeepsOrder, DelayKeepsOrder, QueueCases

\* The main thread processes what the sockets posted in that order, none twice
\* and none left out, with or without the emulated delay, until the delay is
\* switched off with messages in it (NetworkPeerBase.cs:149).
THEOREM MessagesInOrder == Spec => []ProcessedInOrder
<1>1. QueueInv => ProcessedInOrder
  <2> SUFFICES ASSUME QueueInv, ~mixed
               PROVE  delayQueue \o msgQueue = [i \in 1..(posted - processed) |-> processed + i]
    BY DEF ProcessedInOrder
  <2>1. /\ msgQueue \in Seq(Nat) /\ delayQueue \in Seq(Nat) /\ posted \in Nat /\ processed \in Nat
        /\ Len(delayQueue) \in Nat /\ Len(msgQueue) \in Nat /\ Waits
    BY DEF QueueInv
  <2>2. /\ delayQueue \o msgQueue \in Seq(Nat)
        /\ Len(delayQueue \o msgQueue) = Len(delayQueue) + Len(msgQueue)
        /\ Runs(delayQueue \o msgQueue, processed)
    BY <2>1, RunsJoin DEF Waits
  <2>3. Len(delayQueue) + Len(msgQueue) = posted - processed
    BY <2>1 DEF Waits
  <2> QED
    BY <2>1, <2>2, <2>3, RunIsUnique
<1> QED
  BY <1>1, QueueStart, QueueStep, PTL DEF Spec

(***************************************************************************)
(* What a step does to the socket it is about, and leaves of the others.   *)
(***************************************************************************)
Untouched(u) ==
    /\ \A t \in Threads : pc'[t][u] = pc[t][u]
    /\ said'[u] = said[u] /\ stage'[u] = stage[u] /\ guard'[u] = guard[u]
    /\ net'[u] = net[u] /\ remote'[u] = remote[u]
    /\ stream'[u] = stream[u] /\ sent'[u] = sent[u] /\ got'[u] = got[u] /\ out'[u] = out[u]
    /\ recvTag'[u] = recvTag[u] /\ sendTag'[u] = sendTag[u]
    /\ (u \in sock' <=> u \in sock) /\ (u \in missed' <=> u \in missed)

Others(s) == made <= made' /\ \A u \in Sockets : u # s => Untouched(u)

Coming == {"none", "check", "end", "thread", "ready"}
Past == {"body", "recvBody", "post"}
Up == {"early", "connected", "failed", "closed"}

\* A step that matters to no packet of s.
PacketQuiet(s) ==
    /\ stream'[s] = stream[s] /\ sent'[s] = sent[s] /\ got'[s] = got[s] /\ out'[s] = out[s]
    /\ recvTag'[s] = recvTag[s] /\ sendTag'[s] = sendTag[s]
    /\ pc'["recv"][s] \in Past => pc["recv"][s] \in Past
    /\ pc'["main"][s] = "send" <=> pc["main"][s] = "send"
    /\ s \in sock' => s \in sock
    /\ made <= made'
    /\ net[s] \in Up => net'[s] \in Up
    /\ net[s] \in {"failed", "closed"} => net'[s] \in {"failed", "closed"}
    /\ remote[s] = "reset" => remote'[s] = "reset"

\* A step that is neither a step towards the connection nor one back.
TurnQuiet(s) ==
    /\ made <= made'
    /\ net[s] = "none" => net'[s] = "none"
    /\ net'[s] \in {"none", "connecting"} => net'[s] = net[s]
    /\ net[s] \in {"connected", "failed", "closed"} => net'[s] \in {"connected", "failed", "closed"}
    /\ said'[s]["Connected"] = said[s]["Connected"]
    /\ \/ pc'["conn"][s] = pc["conn"][s]
       \/ pc["conn"][s] \notin Coming /\ pc'["conn"][s] \notin Coming
    /\ pc'["recv"][s] = pc["recv"][s] \/ pc["recv"][s] # "none"

\* A step that does not matter to the end of the connection of s: it may say
\* that it failed, and make it fail when it does.
EndQuiet(s) ==
    /\ stage'[s] = stage[s] /\ guard'[s] = guard[s] /\ made <= made'
    /\ (s \in sock' <=> s \in sock) /\ (s \in missed' <=> s \in missed)
    /\ said'[s]["Connected"] = said[s]["Connected"]
    /\ said'[s]["Disconnected"] = said[s]["Disconnected"]
    /\ Told(s) => Told(s)'
    /\ \/ net'[s] = net[s]
       \/ net[s] = "connected" /\ net'[s] = "failed" /\ Told(s)'
       \/ net[s] = "early" /\ net'[s] = "open"
    /\ \A t \in Threads : \/ pc'[t][s] = pc[t][s]
                          \/ /\ pc[t][s] \notin {"notify", "unlock"}
                             /\ pc'[t][s] \notin {"notify", "unlock"}
    /\ \/ pc'["conn"][s] = pc["conn"][s]
       \/ pc["conn"][s] \notin Coming /\ pc'["conn"][s] \notin Coming
    /\ pc'["recv"][s] = pc["recv"][s] \/ pc["recv"][s] # "none"

LEMMA PacketQuietKeeps ==
    ASSUME NEW s \in Sockets, OwnTypes, PacketInv(s), PacketQuiet(s), made' \in Nat
    PROVE  PacketInv(s)'
<1>1. made \in Nat /\ s \in Nat
  BY ClientAssumption DEF OwnTypes, Sockets
<1>2. Runs(got[s], 0)' /\ Runs(out[s], 0)'
  BY DEF PacketInv, PacketQuiet
<1>3. OneGap(s)'
  BY DEF PacketInv, PacketQuiet, OneGap
<1>4. TagChecked(s)'
  BY DEF PacketInv, PacketQuiet, TagChecked, Past
<1>5. Dead(s) => Dead(s)'
  BY <1>1 DEF PacketQuiet, Dead
<1>6. TagsUsed(s)'
  <2>1. CASE Dead(s)
    BY <1>5, <2>1 DEF TagsUsed
  <2>2. CASE sendTag[s] = Len(out[s]) + 1 + (IF pc["main"][s] = "send" THEN 1 ELSE 0)
    BY <2>2 DEF TagsUsed, PacketQuiet
  <2> QED
    BY <2>1, <2>2 DEF PacketInv, TagsUsed
<1>7. InSend(s)'
  BY <1>1 DEF PacketInv, PacketQuiet, InSend, Up
<1> QED
  BY <1>2, <1>3, <1>4, <1>6, <1>7 DEF PacketInv

LEMMA TurnKeeps ==
    ASSUME NEW s \in Sockets, OwnTypes, InTurn(s), TurnQuiet(s), made' \in Nat
    PROVE  InTurn(s)'
<1>1. made \in Nat /\ s \in Nat
  BY ClientAssumption DEF OwnTypes, Sockets
<1>2. (s > made => net[s] = "none")'
  <2>1. s > made' => s > made
    BY <1>1 DEF TurnQuiet
  <2> QED
    BY <2>1 DEF TurnQuiet, InTurn
<1>3. (net[s] \in {"none", "connecting"} => pc["conn"][s] = "none")'
  BY DEF TurnQuiet, InTurn, Coming
<1>4. (pc["conn"][s] \in {"none", "check", "end", "thread"} => pc["recv"][s] = "none")'
  BY DEF TurnQuiet, InTurn, Coming
<1>5. (said[s]["Connected"] > 0 \/ pc["conn"][s] \in {"thread", "ready"}
          => net[s] \in {"connected", "failed", "closed"})'
  <2>1. said[s]["Connected"] > 0 \/ pc["conn"][s] \in {"thread", "ready"}
            => net[s] \in {"connected", "failed", "closed"}
    BY DEF InTurn
  <2>2. /\ net[s] \in {"connected", "failed", "closed"} => net'[s] \in {"connected", "failed", "closed"}
        /\ said'[s]["Connected"] = said[s]["Connected"]
        /\ \/ pc'["conn"][s] = pc["conn"][s]
           \/ pc["conn"][s] \notin Coming /\ pc'["conn"][s] \notin Coming
    BY DEF TurnQuiet
  <2> QED
    BY <2>1, <2>2 DEF Coming
<1> QED
  BY <1>2, <1>3, <1>4, <1>5 DEF InTurn

LEMMA EndQuietKeeps ==
    ASSUME NEW s \in Sockets, OwnTypes, EndInv(s), EndQuiet(s), made' \in Nat
    PROVE  EndInv(s)'
<1>1. InTurn(s)'
  <2>1. TurnQuiet(s)
    BY DEF EndQuiet, TurnQuiet
  <2> QED
    BY <2>1, TurnKeeps DEF EndInv
<1>2. Closing(s)'
  BY DEF EndInv, EndQuiet, Closing
<1>3. EndTold(s)'
  BY DEF EndInv, EndQuiet, EndTold
<1>4. LeakIsMissed(s)'
  BY DEF EndInv, EndQuiet, LeakIsMissed, Threads, Coming
<1> QED
  BY <1>1, <1>2, <1>3, <1>4 DEF EndInv

LEMMA OthersKeep ==
    ASSUME NEW s, OwnTypes, Others(s), made' \in Nat,
           NEW u \in Sockets, u # s, PacketInv(u), EndInv(u)
    PROVE  PacketInv(u)' /\ EndInv(u)'
<1>1. Untouched(u) /\ made <= made'
  BY DEF Others
<1>2. PacketQuiet(u)
  BY <1>1 DEF Untouched, PacketQuiet, Threads
<1>3. EndQuiet(u)
  BY <1>1 DEF Untouched, EndQuiet, Threads, Told
<1> QED
  BY <1>2, <1>3, PacketQuietKeeps, EndQuietKeeps

LEMMA OwnKeeps ==
    ASSUME NEW s \in Sockets, ClientInv, OwnTypes', Others(s), PacketInv(s)', EndInv(s)'
    PROVE  ClientInv'
<1>1. made' \in Nat
  BY ClientAssumption DEF OwnTypes
<1>2. \A u \in Sockets : u # s => PacketInv(u)' /\ EndInv(u)'
  BY <1>1, OthersKeep DEF ClientInv
<1> QED
  BY <1>2 DEF ClientInv

LEMMA QuietKeeps ==
    ASSUME NEW s \in Sockets, ClientInv, OwnTypes', Others(s), PacketQuiet(s), EndQuiet(s)
    PROVE  ClientInv'
<1>1. made' \in Nat
  BY ClientAssumption DEF OwnTypes
<1> QED
  BY <1>1, OwnKeeps, PacketQuietKeeps, EndQuietKeeps DEF ClientInv

LEMMA GotoEffect ==
    ASSUME OwnTypes, NEW t \in Threads, NEW s \in Sockets, NEW l \in Labels, Goto(t, s, l)
    PROVE  /\ pc' \in [Threads -> [Sockets -> Labels]] /\ pc'[t][s] = l
           /\ \A u \in Threads, r \in Sockets : u # t \/ r # s => pc'[u][r] = pc[u][r]
  BY DEF OwnTypes, Goto

LEMMA SayEffect ==
    ASSUME OwnTypes, NEW s \in Sockets, NEW k \in Kinds, Say(s, k)
    PROVE  /\ said' \in [Sockets -> [Kinds -> Nat]] /\ said'[s][k] = said[s][k] + 1
           /\ said[s][k] \in Nat
           /\ \A u \in Sockets, j \in Kinds : u # s \/ j # k => said'[u][j] = said[u][j]
           /\ \A u \in Sockets : u # s => said'[u] = said[u]
<1>1. said' = [said EXCEPT ![s][k] = said[s][k] + 1]
  BY DEF Say
<1>2. said \in [Sockets -> [Kinds -> Nat]] /\ said[s][k] \in Nat /\ said[s][k] + 1 \in Nat
  BY DEF OwnTypes
<1> HIDE DEF Kinds
<1> QED
  BY <1>1, <1>2

\* A thread of s moves; it may say something and find that the Socket has changed.
LEMMA MoveEffect ==
    ASSUME OwnTypes, NEW t \in Threads, NEW s \in Sockets, NEW l \in Labels, Goto(t, s, l),
           SayNothing \/ \E k \in Kinds : Say(s, k),
           net' = net \/ \E n \in Nets : net' = [net EXCEPT ![s] = n],
           cur' \in 0..MaxSockets,
           UNCHANGED <<made, sock, stage, guard, remote, packetVars, missed>>
    PROVE  OwnTypes' /\ Others(s)
<1>1. /\ pc' \in [Threads -> [Sockets -> Labels]]
      /\ \A u \in Threads, r \in Sockets : u # t \/ r # s => pc'[u][r] = pc[u][r]
  BY GotoEffect, Zenon
<1>2. /\ said' \in [Sockets -> [Kinds -> Nat]]
      /\ \A u \in Sockets : u # s => said'[u] = said[u]
  <2>1. CASE SayNothing
    BY <2>1 DEF SayNothing, OwnTypes
  <2>2. CASE \E k \in Kinds : Say(s, k)
    BY <2>2, SayEffect
  <2> QED
    BY <2>1, <2>2
<1>3. net' \in [Sockets -> Nets] /\ \A u \in Sockets : u # s => net'[u] = net[u]
  BY DEF OwnTypes
<1>4. OwnTypes'
  BY <1>1, <1>2, <1>3 DEF OwnTypes, packetVars
<1>5. made <= made'
  BY ClientAssumption DEF OwnTypes
<1>6. Others(s)
  BY <1>1, <1>2, <1>3, <1>5 DEF Others, Untouched, packetVars
<1> QED
  BY <1>4, <1>6

\* It keeps the packets when nobody sends and the Socket comes up or fails.
LEMMA MoveIsQuiet ==
    ASSUME OwnTypes, NEW t \in Threads, NEW s \in Sockets, NEW l \in Labels, Goto(t, s, l),
           t = "recv" /\ l \in Past => pc["recv"][s] \in Past,
           t = "main" => pc["main"][s] # "send" /\ l # "send",
           net[s] \in Up => net'[s] \in Up,
           net[s] \in {"failed", "closed"} => net'[s] \in {"failed", "closed"},
           UNCHANGED <<made, sock, remote, packetVars>>
    PROVE  PacketQuiet(s)
<1>1. /\ pc'[t][s] = l
      /\ \A u \in Threads : u # t => pc'[u][s] = pc[u][s]
  BY GotoEffect
<1>2. pc'["recv"][s] \in Past => pc["recv"][s] \in Past
  BY <1>1 DEF Threads
<1>3. pc'["main"][s] = "send" <=> pc["main"][s] = "send"
  BY <1>1 DEF Threads
<1>4. made <= made'
  BY ClientAssumption DEF OwnTypes
<1> QED
  BY <1>2, <1>3, <1>4 DEF PacketQuiet, packetVars

\* It keeps the end when the thread is not in Close, nor on its way to connect,
\* and what is said is an error.
LEMMA MoveKeepsEnd ==
    ASSUME OwnTypes, NEW t \in Threads, NEW s \in Sockets, NEW l \in Labels, Goto(t, s, l),
           pc[t][s] \notin {"notify", "unlock"}, l \notin {"notify", "unlock"},
           t = "conn" => pc[t][s] \notin Coming /\ l \notin Coming,
           t = "recv" => pc[t][s] # "none",
           SayNothing \/ Say(s, "SendError") \/ Say(s, "RecvError"),
           \/ net'[s] = net[s]
           \/ /\ net[s] = "connected" /\ net'[s] = "failed"
              /\ Say(s, "SendError") \/ Say(s, "RecvError")
           \/ net[s] = "early" /\ net'[s] = "open",
           UNCHANGED <<made, sock, stage, guard, missed>>
    PROVE  EndQuiet(s)
<1>1. /\ pc'[t][s] = l
      /\ \A u \in Threads : u # t => pc'[u][s] = pc[u][s]
  BY GotoEffect
<1>2. \A k \in Kinds : said[s][k] \in Nat
  BY DEF OwnTypes
<1>3. /\ said'[s]["Connected"] = said[s]["Connected"]
      /\ said'[s]["Disconnected"] = said[s]["Disconnected"]
      /\ Told(s) => Told(s)'
      /\ Say(s, "SendError") \/ Say(s, "RecvError") => Told(s)'
  <2>1. CASE ~(Say(s, "SendError") \/ Say(s, "RecvError"))
    BY <2>1 DEF SayNothing, Told
  <2>2. CASE Say(s, "SendError")
    <3>1. /\ said'[s]["SendError"] = said[s]["SendError"] + 1
          /\ \A j \in Kinds : j # "SendError" => said'[s][j] = said[s][j]
      BY <2>2, SayEffect DEF Kinds
    <3>2. said'[s]["SendError"] > 0
      BY <1>2, <3>1 DEF Kinds
    <3> QED
      BY <3>1, <3>2 DEF Told, Kinds
  <2>3. CASE Say(s, "RecvError")
    <3>1. /\ said'[s]["RecvError"] = said[s]["RecvError"] + 1
          /\ \A j \in Kinds : j # "RecvError" => said'[s][j] = said[s][j]
      BY <2>3, SayEffect DEF Kinds
    <3>2. said'[s]["RecvError"] > 0
      BY <1>2, <3>1 DEF Kinds
    <3> QED
      BY <3>1, <3>2 DEF Told, Kinds
  <2> QED
    BY <2>1, <2>2, <2>3
<1>4. made <= made'
  BY ClientAssumption DEF OwnTypes
<1>5. \/ net'[s] = net[s]
      \/ net[s] = "connected" /\ net'[s] = "failed" /\ Told(s)'
      \/ net[s] = "early" /\ net'[s] = "open"
  BY <1>3
<1>6. \A u \in Threads : \/ pc'[u][s] = pc[u][s]
                         \/ /\ pc[u][s] \notin {"notify", "unlock"}
                            /\ pc'[u][s] \notin {"notify", "unlock"}
  BY <1>1
<1>7. /\ \/ pc'["conn"][s] = pc["conn"][s]
         \/ pc["conn"][s] \notin Coming /\ pc'["conn"][s] \notin Coming
      /\ pc'["recv"][s] = pc["recv"][s] \/ pc["recv"][s] # "none"
  BY <1>1 DEF Threads
<1> QED
  BY <1>3, <1>4, <1>5, <1>6, <1>7 DEF EndQuiet

\* Such a move, in one formula.
Calm(t, s, l) ==
    /\ Goto(t, s, l)
    /\ pc[t][s] \notin {"notify", "unlock"} /\ l \notin {"notify", "unlock"}
    /\ t = "main" => pc[t][s] # "send" /\ l # "send"
    /\ t = "conn" => pc[t][s] \notin Coming /\ l \notin Coming
    /\ t = "recv" => pc[t][s] # "none" /\ (l \in Past => pc[t][s] \in Past)
    /\ SayNothing \/ Say(s, "SendError") \/ Say(s, "RecvError")
    /\ \/ net' = net
       \/ /\ net[s] = "connected" /\ net' = [net EXCEPT ![s] = "failed"]
          /\ Say(s, "SendError") \/ Say(s, "RecvError")
    /\ cur' \in 0..MaxSockets
    /\ UNCHANGED <<made, sock, stage, guard, remote, packetVars, missed>>

LEMMA CalmKeeps ==
    ASSUME ClientInv, NEW t \in Threads, NEW s \in Sockets, NEW l \in Labels, Calm(t, s, l)
    PROVE  ClientInv'
<1>1. OwnTypes
  BY DEF ClientInv
<1>2. Goto(t, s, l) /\ UNCHANGED <<made, sock, stage, guard, remote, packetVars, missed>>
  BY DEF Calm
<1>3. OwnTypes' /\ Others(s)
  <2>1. SayNothing \/ \E k \in Kinds : Say(s, k)
    BY DEF Kinds, Calm
  <2>2. net' = net \/ \E n \in Nets : net' = [net EXCEPT ![s] = n]
    BY DEF Calm, Nets
  <2>3. cur' \in 0..MaxSockets
    BY DEF Calm
  <2> QED
    BY <1>1, <1>2, <2>1, <2>2, <2>3, MoveEffect
<1>4. \/ net'[s] = net[s]
      \/ net[s] = "connected" /\ net'[s] = "failed" /\ (Say(s, "SendError") \/ Say(s, "RecvError"))
  BY <1>1 DEF OwnTypes, Calm
<1>5. PacketQuiet(s)
  <2>1. t = "recv" /\ l \in Past => pc["recv"][s] \in Past
    BY Zenon DEF Calm
  <2>2. t = "main" => pc["main"][s] # "send" /\ l # "send"
    BY Zenon DEF Calm
  <2>3. net[s] \in Up => net'[s] \in Up
    BY <1>4 DEF Up
  <2>4. net[s] \in {"failed", "closed"} => net'[s] \in {"failed", "closed"}
    BY <1>4
  <2> QED
    BY <1>1, <1>2, <2>1, <2>2, <2>3, <2>4, MoveIsQuiet
<1>6. EndQuiet(s)
  <2>1. /\ pc[t][s] \notin {"notify", "unlock"} /\ l \notin {"notify", "unlock"}
        /\ t = "conn" => pc[t][s] \notin Coming /\ l \notin Coming
        /\ t = "recv" => pc[t][s] # "none"
        /\ SayNothing \/ Say(s, "SendError") \/ Say(s, "RecvError")
    BY DEF Calm
  <2> QED
    BY <1>1, <1>2, <1>4, <2>1, MoveKeepsEnd
<1> QED
  BY <1>3, <1>5, <1>6, QuietKeeps

\* The steps that are calm.
LEMMA MainCalm ==
    ASSUME ClientInv, Stop \/ \E s \in Sockets : StopClear(s)
    PROVE  ClientInv'
<1>1. cur \in 0..MaxSockets /\ MaxSockets \in Nat
  BY ClientAssumption DEF ClientInv, OwnTypes
<1>2. ASSUME Stop PROVE ClientInv'
  <2>1. cur \in Sockets /\ cur' \in 0..MaxSockets
    BY <1>1, <1>2 DEF Stop, Sockets
  <2>2. pc["main"][cur] = "none"
    BY <1>2, <2>1 DEF Stop, MainIdle
  <2>3. Calm("main", cur, "lock")
    BY <1>2, <2>1, <2>2 DEF Stop, Calm
  <2> QED
    BY <2>1, <2>3, CalmKeeps DEF Threads, Labels
<1>3. ASSUME NEW s \in Sockets, StopClear(s) PROVE ClientInv'
  <2>1. cur' \in 0..MaxSockets
    BY <1>1, <1>3 DEF StopClear
  <2>2. Calm("main", s, "none")
    BY <1>3, <2>1 DEF StopClear, Calm
  <2> QED
    BY <2>2, CalmKeeps DEF Threads, Labels
<1> QED
  BY <1>2, <1>3

LEMMA RecvCalm ==
    ASSUME ClientInv, NEW s \in Sockets,
           \/ RecvLoop(s) \/ ReadPacket(s) \/ ReceiveThrows(s) \/ ReceiveZero(s) \/ HandleReadBody(s)
    PROVE  ClientInv'
<1>1. cur \in 0..MaxSockets
  BY DEF ClientInv, OwnTypes
<1>2. SUFFICES \E l \in Labels : Calm("recv", s, l)
  BY CalmKeeps DEF Threads, Labels
<1>3. ASSUME RecvLoop(s) PROVE \E l \in Labels : Calm("recv", s, l)
  <2>1. PICK l \in {"done", "head", "lock"} : Goto("recv", s, l)
    BY <1>3 DEF RecvLoop
  <2>2. Calm("recv", s, l)
    BY <1>1, <1>3, <2>1 DEF RecvLoop, Past, Calm
  <2> QED
    BY <2>2 DEF Labels
<1>4. ASSUME ReadPacket(s) PROVE \E l \in Labels : Calm("recv", s, l)
  <2>1. /\ pc["recv"][s] \in {"head", "body"} /\ cur' \in 0..MaxSockets
        /\ UNCHANGED <<made, sock, stage, guard, net, remote, packetVars, missed>>
    BY <1>1, <1>4 DEF ReadPacket
  <2>2. ASSUME Goto("recv", s, "recvHead"), SayNothing, pc["recv"][s] = "head"
        PROVE  Calm("recv", s, "recvHead")
    BY <2>1, <2>2 DEF Past, Calm
  <2>3. ASSUME Goto("recv", s, "recvBody"), SayNothing, pc["recv"][s] = "body"
        PROVE  Calm("recv", s, "recvBody")
    BY <2>1, <2>3 DEF Past, Calm
  <2>4. ASSUME Goto("recv", s, "loop"), SayNothing PROVE Calm("recv", s, "loop")
    BY <2>1, <2>4 DEF Past, Calm
  <2>5. ASSUME Goto("recv", s, "lock"), Say(s, "RecvError") PROVE Calm("recv", s, "lock")
    BY <2>1, <2>5 DEF Past, Calm
  <2> QED
    BY <1>4, <2>2, <2>3, <2>4, <2>5 DEF ReadPacket, Labels
<1>5. ASSUME ReceiveThrows(s) PROVE \E l \in Labels : Calm("recv", s, l)
  <2>1. pc["recv"][s] \in {"recvHead", "recvBody"}
    BY <1>5 DEF ReceiveThrows, InReceive
  <2>2. net \in [Sockets -> Nets]
    BY DEF ClientInv, OwnTypes
  <2>3. net' = net \/ (net[s] = "connected" /\ net' = [net EXCEPT ![s] = "failed"])
    BY <1>5, <2>2 DEF ReceiveThrows
  <2>4. Calm("recv", s, "lock")
    BY <1>1, <1>5, <2>1, <2>3 DEF ReceiveThrows, Past, Calm
  <2> QED
    BY <2>4 DEF Labels
<1>6. ASSUME ReceiveZero(s) PROVE \E l \in Labels : Calm("recv", s, l)
  <2>1. pc["recv"][s] \in {"recvHead", "recvBody"}
    BY <1>6 DEF ReceiveZero, InReceive
  <2>2. Calm("recv", s, "lock")
    BY <1>1, <1>6, <2>1 DEF ReceiveZero, Past, Calm
  <2> QED
    BY <2>2 DEF Labels
<1>7. ASSUME HandleReadBody(s) PROVE \E l \in Labels : Calm("recv", s, l)
  <2>1. Calm("recv", s, "post")
    BY <1>1, <1>7 DEF HandleReadBody, Past, Calm
  <2> QED
    BY <2>1 DEF Labels
<1> QED
  BY <1>3, <1>4, <1>5, <1>6, <1>7

(***************************************************************************)
(* Tags: the one after next looks different, for there are two at least.   *)
(***************************************************************************)
LEMMA NoUnit ==
    ASSUME NEW T \in Nat \ {0, 1}, NEW d \in Int
    PROVE  T * d # 1
<1>1. CASE d <= 0
  <2>1. T * d <= 0
    BY <1>1
  <2> QED
    BY <2>1
<1>2. CASE d >= 1
  <2>1. T * d >= T
    BY <1>2
  <2> QED
    BY <2>1
<1> QED
  BY <1>1, <1>2

LEMMA NextTagDiffers ==
    ASSUME NEW a \in Nat, NEW T \in Nat \ {0, 1}
    PROVE  (a + 1) % T # a % T
<1> DEFINE d == ((a + 1) \div T) - (a \div T)
<1>1. a = T * (a \div T) + (a % T) /\ (a \div T) \in Int /\ a % T \in Int
  OBVIOUS
<1>2. /\ a + 1 = T * ((a + 1) \div T) + ((a + 1) % T)
      /\ ((a + 1) \div T) \in Int /\ (a + 1) % T \in Int
  OBVIOUS
<1>3. ASSUME (a + 1) % T = a % T PROVE FALSE
  <2>1. T * ((a + 1) \div T) - T * (a \div T) = 1
    BY <1>1, <1>2, <1>3
  <2>2. d \in Int /\ T * d = 1
    BY <1>1, <1>2, <2>1
  <2> HIDE DEF d
  <2> QED
    BY <2>2, NoUnit
<1> QED
  BY <1>3

\* What IOThreadRecv lets through is the packet that comes next.
LEMMA HeaderKeeps ==
    ASSUME ClientInv, NEW s \in Sockets, HandleReadHeader(s)
    PROVE  ClientInv'
<1>1. OwnTypes /\ PacketInv(s) /\ EndInv(s) /\ cur \in 0..MaxSockets
  BY DEF ClientInv, OwnTypes
<1>2. /\ pc["recv"][s] = "recvHead" /\ cur' \in 0..MaxSockets
      /\ UNCHANGED <<made, sock, stage, guard, net, remote, packetVars, missed>>
  BY <1>1 DEF HandleReadHeader
<1>3. CASE Goto("recv", s, "lock") /\ Say(s, "RecvError")
  <2>1. Calm("recv", s, "lock")
    BY <1>2, <1>3 DEF Calm, Past
  <2> QED
    BY <2>1, CalmKeeps DEF Threads, Labels
<1>4. ASSUME NEW l \in {"body", "post"}, Goto("recv", s, l), SayNothing,
             Head(stream[s]) % TagModulus = recvTag[s] % TagModulus, Arrived(s)
      PROVE  ClientInv'
  <2>1. l \in Labels /\ "recv" \in Threads
    BY DEF Labels, Threads
  <2>2. OwnTypes' /\ Others(s)
    BY <1>1, <1>2, <1>4, <2>1, MoveEffect
  <2>3. EndQuiet(s)
    BY <1>1, <1>2, <1>4, <2>1, MoveKeepsEnd
  <2>4. stream[s] \in Seq(Nat) /\ Len(got[s]) \in Nat
    BY <1>1 DEF OwnTypes
  <2>5. Len(stream[s]) > 0 /\ Head(stream[s]) = stream[s][1] /\ 1 \in 1..Len(stream[s])
    BY <1>4, <2>4, HeadTailProperties, EmptySeq DEF Arrived
  <2>6. stream[s][1] = Len(got[s]) + 1
    <3>1. stream[s][1] \in {Len(got[s]) + 1, Len(got[s]) + 1 + 1} /\ recvTag[s] = Len(got[s]) + 1
      BY <1>1, <2>5 DEF PacketInv, OneGap, Near
    <3>2. Len(got[s]) + 1 \in Nat /\ TagModulus \in Nat \ {0, 1}
      BY <2>4, ClientAssumption
    <3>3. (Len(got[s]) + 1 + 1) % TagModulus # (Len(got[s]) + 1) % TagModulus
      BY <3>2, NextTagDiffers
    <3> QED
      BY <1>4, <2>5, <3>1, <3>3
  <2>7. /\ pc'["recv"][s] = l
        /\ \A u \in Threads : u # "recv" => pc'[u][s] = pc[u][s]
    BY <1>1, <1>4, <2>1, GotoEffect
  <2>8. pc'["main"][s] = pc["main"][s]
    BY <2>7 DEF Threads
  <2>9. PacketInv(s)'
    <3>1. /\ stream' = stream /\ sent' = sent /\ recvTag' = recvTag /\ sendTag' = sendTag
          /\ got' = got /\ out' = out
      BY <1>2 DEF packetVars
    <3>2. Runs(got[s], 0)' /\ OneGap(s)' /\ Runs(out[s], 0)'
      BY <1>1, <3>1 DEF PacketInv, OneGap
    <3>3. TagChecked(s)'
      BY <2>5, <2>6, <3>1 DEF TagChecked
    <3>4. TagsUsed(s)' /\ InSend(s)'
      BY <1>1, <1>2, <2>8, <3>1 DEF PacketInv, TagsUsed, InSend, Dead
    <3> QED
      BY <3>2, <3>3, <3>4 DEF PacketInv
  <2>10. made' \in Nat
    BY <2>2, ClientAssumption DEF OwnTypes
  <2> QED
    BY <1>1, <2>2, <2>3, <2>9, <2>10, EndQuietKeeps, OwnKeeps
<1> QED
  BY <1>3, <1>4 DEF HandleReadHeader

LEMMA PostPacketKeeps ==
    ASSUME ClientInv, NEW s \in Sockets, DoRecvPacket(s)
    PROVE  ClientInv'
<1> DEFINE n == Len(got[s])
           m == Len(stream[s])
<1>1. OwnTypes /\ PacketInv(s) /\ EndInv(s)
  BY DEF ClientInv
<1>2. /\ pc["recv"][s] = "post" /\ Goto("recv", s, "loop")
      /\ UNCHANGED <<cur, made, sock, stage, guard, net, remote, sent, sendTag, out, said, missed>>
      /\ got' = [got EXCEPT ![s] = Append(got[s], Head(stream[s]))]
      /\ stream' = [stream EXCEPT ![s] = Tail(stream[s])]
      /\ recvTag' = [recvTag EXCEPT ![s] = recvTag[s] + 1]
  BY DEF DoRecvPacket
<1>3. /\ got \in [Sockets -> Seq(Nat)] /\ stream \in [Sockets -> Seq(Nat)]
      /\ recvTag \in [Sockets -> Nat] /\ got[s] \in Seq(Nat) /\ stream[s] \in Seq(Nat)
      /\ n \in Nat /\ m \in Nat /\ recvTag[s] \in Nat /\ sent[s] \in Nat
  BY <1>1 DEF OwnTypes
<1>4. m > 0 /\ stream[s][1] = n + 1
  BY <1>1, <1>2 DEF PacketInv, TagChecked
<1>5. /\ recvTag[s] = n + 1 /\ sent[s] \in {n + m, n + m + 1}
      /\ Near(stream[s], n) /\ Runs(got[s], 0)
  BY <1>1 DEF PacketInv, OneGap
<1>6. /\ Tail(stream[s]) \in Seq(Nat) /\ Len(Tail(stream[s])) = m - 1
      /\ Head(stream[s]) = n + 1 /\ Near(Tail(stream[s]), n + 1)
  BY <1>3, <1>4, <1>5, NearShrinks
<1>7. /\ Append(got[s], Head(stream[s])) \in Seq(Nat)
      /\ Len(Append(got[s], Head(stream[s]))) = n + 1
      /\ Runs(Append(got[s], Head(stream[s])), 0)
  <2>1. Head(stream[s]) = 0 + Len(got[s]) + 1
    BY <1>3, <1>6
  <2> QED
    BY <1>3, <1>5, <2>1, RunGrows
<1>8. /\ got'[s] = Append(got[s], Head(stream[s])) /\ stream'[s] = Tail(stream[s])
      /\ recvTag'[s] = recvTag[s] + 1 /\ recvTag[s] + 1 \in Nat
      /\ \A u \in Sockets : u # s => got'[u] = got[u] /\ stream'[u] = stream[u] /\ recvTag'[u] = recvTag[u]
  BY <1>2, <1>3
<1>9. got' \in [Sockets -> Seq(Nat)] /\ stream' \in [Sockets -> Seq(Nat)] /\ recvTag' \in [Sockets -> Nat]
  BY <1>2, <1>3, <1>6, <1>7, <1>8
<1>10. "recv" \in Threads /\ "loop" \in Labels
  BY DEF Threads, Labels
<1>11. /\ pc' \in [Threads -> [Sockets -> Labels]] /\ pc'["recv"][s] = "loop"
       /\ \A u \in Threads, r \in Sockets : u # "recv" \/ r # s => pc'[u][r] = pc[u][r]
  BY <1>1, <1>2, <1>10, GotoEffect
<1>12. OwnTypes'
  BY <1>1, <1>2, <1>9, <1>11 DEF OwnTypes
<1>13. made <= made'
  BY <1>1, <1>2, ClientAssumption DEF OwnTypes
<1>14. Others(s)
  BY <1>2, <1>8, <1>11, <1>13 DEF Others, Untouched
<1>15. EndQuiet(s)
  <2>1. SayNothing \/ (said' = said /\ Told(s)' = Told(s))
    BY <1>2 DEF Told
  <2> QED
    BY <1>2, <1>11, <1>13 DEF EndQuiet, Threads, Told
<1>16. PacketInv(s)'
  <2>1. OneGap(s)'
    <3>1. Len(got'[s]) = n + 1 /\ Len(stream'[s]) = m - 1 /\ recvTag'[s] = n + 1 + 1 /\ sent'[s] = sent[s]
      BY <1>2, <1>5, <1>6, <1>7, <1>8
    <3>2. sent'[s] \in {(n + 1) + (m - 1), (n + 1) + (m - 1) + 1}
      BY <1>3, <1>5, <3>1
    <3> QED
      BY <1>6, <1>8, <3>1, <3>2 DEF OneGap
  <2>2. TagChecked(s)'
    BY <1>11 DEF TagChecked
  <2>3. pc'["main"][s] = pc["main"][s]
    BY <1>11 DEF Threads
  <2>4. TagsUsed(s)' /\ InSend(s)' /\ Runs(out[s], 0)'
    BY <1>1, <1>2, <2>3 DEF PacketInv, TagsUsed, InSend, Dead
  <2> QED
    BY <1>7, <1>8, <2>1, <2>2, <2>4 DEF PacketInv
<1>17. made' \in Nat
  BY <1>12, ClientAssumption DEF OwnTypes
<1> QED
  BY <1>1, <1>12, <1>14, <1>15, <1>16, <1>17, EndQuietKeeps, OwnKeeps

\* The remote end numbers a packet, and sends it or leaves it out.
LEMMA RemoteSendsKeeps ==
    ASSUME ClientInv, NEW s \in Sockets, RemoteSends(s)
    PROVE  ClientInv'
<1> DEFINE n == Len(got[s])
           m == Len(stream[s])
<1>1. OwnTypes /\ PacketInv(s) /\ EndInv(s)
  BY DEF ClientInv
<1>2. /\ UNCHANGED <<cur, made, pc, sock, stage, guard, net, remote, recvTag, sendTag, got, out, missed>>
      /\ said' = said /\ sent' = [sent EXCEPT ![s] = sent[s] + 1]
  BY DEF RemoteSends, SayNothing
<1>3. /\ stream \in [Sockets -> Seq(Nat)] /\ sent \in [Sockets -> Nat]
      /\ got[s] \in Seq(Nat) /\ stream[s] \in Seq(Nat)
      /\ n \in Nat /\ m \in Nat /\ sent[s] \in Nat
  BY <1>1 DEF OwnTypes
<1>4. sent[s] \in {n + m, n + m + 1} /\ Near(stream[s], n) /\ recvTag[s] = n + 1
  BY <1>1 DEF PacketInv, OneGap
<1>5. /\ sent' \in [Sockets -> Nat] /\ sent'[s] = sent[s] + 1
      /\ \A u \in Sockets : u # s => sent'[u] = sent[u]
  BY <1>2, <1>3
<1>6. \/ stream' = [stream EXCEPT ![s] = Append(stream[s], sent[s] + 1)]
      \/ sent[s] + 1 = 1 + n + m /\ stream' = stream
  BY <1>5 DEF RemoteSends
<1>7. /\ stream' \in [Sockets -> Seq(Nat)] /\ stream'[s] \in Seq(Nat)
      /\ \A u \in Sockets : u # s => stream'[u] = stream[u]
      /\ Near(stream'[s], n)
      /\ sent'[s] \in {n + Len(stream'[s]), n + Len(stream'[s]) + 1}
      /\ m > 0 => Len(stream'[s]) > 0 /\ stream'[s][1] = stream[s][1]
  <2>1. CASE stream' = [stream EXCEPT ![s] = Append(stream[s], sent[s] + 1)]
    <3>1. sent[s] + 1 \in {n + Len(stream[s]) + 1, n + Len(stream[s]) + 2}
      BY <1>3, <1>4
    <3>2. /\ Append(stream[s], sent[s] + 1) \in Seq(Nat)
          /\ Len(Append(stream[s], sent[s] + 1)) = m + 1
          /\ Near(Append(stream[s], sent[s] + 1), n)
      BY <1>3, <1>4, <3>1, NearGrows
    <3>3. m > 0 => Append(stream[s], sent[s] + 1)[1] = stream[s][1]
      BY <1>3, AppendProperties
    <3>4. stream'[s] = Append(stream[s], sent[s] + 1)
      BY <1>3, <2>1
    <3>5. Len(stream'[s]) = m + 1
      BY <3>2, <3>4
    <3>6. sent'[s] \in {n + Len(stream'[s]), n + Len(stream'[s]) + 1}
      <4>1. n \in Nat /\ m \in Nat /\ sent'[s] \in {n + m + 1, n + m + 2}
        BY <1>3, <1>5, <3>1
      <4> HIDE DEF n, m
      <4> QED
        BY <3>5, <4>1
    <3>7. stream' \in [Sockets -> Seq(Nat)] /\ \A u \in Sockets : u # s => stream'[u] = stream[u]
      BY <1>3, <2>1, <3>2
    <3>8. Len(stream'[s]) > 0
      BY <1>3, <3>5
    <3> QED
      BY <3>2, <3>3, <3>4, <3>6, <3>7, <3>8
  <2>2. CASE sent[s] + 1 = 1 + n + m /\ stream' = stream
    <3>1. sent'[s] = n + m + 1
      BY <1>3, <1>5, <2>2
    <3> QED
      BY <1>3, <1>4, <2>2, <3>1
  <2> QED
    BY <1>6, <2>1, <2>2
<1>8. OwnTypes'
  BY <1>1, <1>2, <1>5, <1>7 DEF OwnTypes
<1>9. made <= made'
  BY <1>1, <1>2, ClientAssumption DEF OwnTypes
<1>10. Others(s)
  BY <1>2, <1>5, <1>7, <1>9 DEF Others, Untouched
<1>11. EndQuiet(s)
  BY <1>2, <1>9 DEF EndQuiet, Told
<1>12. PacketInv(s)'
  <2>1. OneGap(s)'
    BY <1>2, <1>4, <1>7 DEF OneGap
  <2>2. TagChecked(s)'
    BY <1>1, <1>2, <1>7 DEF PacketInv, TagChecked
  <2>3. TagsUsed(s)' /\ InSend(s)' /\ Runs(out[s], 0)' /\ Runs(got[s], 0)'
    BY <1>1, <1>2 DEF PacketInv, TagsUsed, InSend, Dead
  <2> QED
    BY <2>1, <2>2, <2>3 DEF PacketInv
<1>13. made' \in Nat
  BY <1>8, ClientAssumption DEF OwnTypes
<1> QED
  BY <1>1, <1>8, <1>10, <1>11, <1>12, <1>13, EndQuietKeeps, OwnKeeps

LEMMA RemoteEndsKeeps ==
    ASSUME ClientInv, NEW s \in Sockets, RemoteEnds(s)
    PROVE  ClientInv'
<1>1. OwnTypes
  BY DEF ClientInv
<1>2. PICK r \in {"fin", "reset"} : remote' = [remote EXCEPT ![s] = r]
  BY DEF RemoteEnds
<1>3. /\ UNCHANGED <<cur, made, pc, sock, stage, guard, net, packetVars, missed>>
      /\ said' = said /\ remote[s] # "reset"
  BY DEF RemoteEnds, SayNothing
<1>4. /\ remote' \in [Sockets -> {"open", "fin", "reset"}]
      /\ \A u \in Sockets : u # s => remote'[u] = remote[u]
  BY <1>1, <1>2 DEF OwnTypes
<1>5. OwnTypes'
  BY <1>1, <1>3, <1>4 DEF OwnTypes, packetVars
<1>6. made <= made'
  BY <1>1, <1>3, ClientAssumption DEF OwnTypes
<1>7. Others(s)
  BY <1>3, <1>4, <1>6 DEF Others, Untouched, packetVars
<1>8. PacketQuiet(s)
  BY <1>3, <1>6 DEF PacketQuiet, packetVars
<1>9. EndQuiet(s)
  BY <1>3, <1>6 DEF EndQuiet, Told
<1> QED
  BY <1>5, <1>7, <1>8, <1>9, QuietKeeps

LEMMA SendMessageKeeps ==
    ASSUME ClientInv, SendMessage, NEW s \in Sockets, s = cur
    PROVE  ClientInv'
<1>1. OwnTypes /\ s \in sock
  BY DEF ClientInv, OwnTypes, SendMessage
<1>2. PacketInv(s) /\ EndInv(s) /\ pc["main"][s] = "none" /\ net[s] \in {"early", "connected"}
  BY <1>1 DEF ClientInv, SendMessage, MainIdle, Connected
<1>3. /\ UNCHANGED <<cur, made, sock, stage, guard, net, remote, stream, sent, recvTag, got, out, missed>>
      /\ said' = said /\ sendTag' = [sendTag EXCEPT ![s] = sendTag[s] + 1]
      /\ Goto("main", s, "send") /\ SayNothing
  BY DEF SendMessage, SayNothing
<1>4. /\ sendTag \in [Sockets -> Nat] /\ sendTag[s] \in Nat /\ sendTag[s] + 1 \in Nat /\ out[s] \in Seq(Nat)
      /\ Len(out[s]) \in Nat /\ made \in Nat /\ s <= made
  BY <1>1, ClientAssumption DEF OwnTypes
<1>5. /\ sendTag' \in [Sockets -> Nat] /\ sendTag'[s] = sendTag[s] + 1
      /\ \A u \in Sockets : u # s => sendTag'[u] = sendTag[u]
  BY <1>1, <1>3, <1>4
<1>6. "main" \in Threads /\ "send" \in Labels
  BY DEF Threads, Labels
<1>7. /\ pc' \in [Threads -> [Sockets -> Labels]] /\ pc'["main"][s] = "send"
      /\ \A u \in Threads, r \in Sockets : u # "main" \/ r # s => pc'[u][r] = pc[u][r]
  BY <1>1, <1>3, <1>6, GotoEffect
<1>8. OwnTypes'
  BY <1>1, <1>3, <1>5, <1>7 DEF OwnTypes
<1>9. made <= made' /\ made' \in Nat
  BY <1>3, <1>4
<1>10. Others(s)
  BY <1>3, <1>5, <1>7, <1>9 DEF Others, Untouched
<1>11. EndQuiet(s)
  BY <1>1, <1>2, <1>3, <1>7, <1>9 DEF EndQuiet, Threads, Told
<1>12. PacketInv(s)'
  <2>1. pc'["recv"][s] = pc["recv"][s]
    BY <1>1, <1>7 DEF Threads
  <2>2. OneGap(s)' /\ TagChecked(s)' /\ Runs(out[s], 0)' /\ Runs(got[s], 0)'
    BY <1>2, <1>3, <2>1 DEF PacketInv, OneGap, TagChecked
  <2>3. InSend(s)'
    BY <1>2, <1>3, <1>4 DEF InSend
  <2>4. TagsUsed(s)'
    <3>1. CASE Dead(s)
      BY <1>3, <3>1 DEF Dead, TagsUsed
    <3>2. CASE ~Dead(s)
      <4>1. sendTag[s] = Len(out[s]) + 1 + 0
        BY <1>2, <3>2 DEF PacketInv, TagsUsed
      <4>2. sendTag'[s] = Len(out[s]) + 1 + 1
        BY <1>4, <1>5, <4>1
      <4> QED
        BY <1>3, <1>7, <4>2 DEF TagsUsed
    <3> QED
      BY <3>1, <3>2
  <2> QED
    BY <2>2, <2>3, <2>4 DEF PacketInv
<1> QED
  BY <1>1, <1>2, <1>8, <1>9, <1>10, <1>11, <1>12, EndQuietKeeps, OwnKeeps

\* A packet that is not sent is the last: the socket is gone, not connected
\* any more, or reset.
LEMMA SendPacketKeeps ==
    ASSUME ClientInv, NEW s \in Sockets, SendPacket(s)
    PROVE  ClientInv'
<1>1. OwnTypes /\ PacketInv(s) /\ EndInv(s)
  BY DEF ClientInv
<1>2. /\ pc["main"][s] = "send" /\ Goto("main", s, "none")
      /\ UNCHANGED <<cur, made, sock, stage, guard, remote, stream, sent, recvTag, sendTag, got, missed>>
  BY DEF SendPacket
<1>3. "main" \in Threads /\ "none" \in Labels
  BY DEF Threads, Labels
<1>4. /\ pc' \in [Threads -> [Sockets -> Labels]] /\ pc'["main"][s] = "none"
      /\ \A u \in Threads, r \in Sockets : u # "main" \/ r # s => pc'[u][r] = pc[u][r]
  BY <1>1, <1>2, <1>3, GotoEffect
<1>5. /\ made \in Nat /\ s <= made /\ made <= made' /\ made' \in Nat
      /\ s \notin sock \/ net[s] \in Up
  BY <1>1, <1>2, ClientAssumption DEF OwnTypes, PacketInv, InSend, Up
<1>6. pc'["recv"][s] = pc["recv"][s]
  BY <1>4 DEF Threads
<1>7. /\ sendTag[s] \in Nat /\ out \in [Sockets -> Seq(Nat)] /\ out[s] \in Seq(Nat) /\ Len(out[s]) \in Nat
      /\ net \in [Sockets -> Nets]
  BY <1>1 DEF OwnTypes
<1>8. OneGap(s)' /\ TagChecked(s)' /\ Runs(got[s], 0)' /\ InSend(s)'
  BY <1>1, <1>2, <1>4, <1>6 DEF PacketInv, OneGap, TagChecked, InSend
<1>9. CASE /\ s \in sock /\ Connected(s) /\ remote[s] # "reset"
           /\ out' = [out EXCEPT ![s] = Append(out[s], sendTag[s] - 1)]
           /\ SayNothing /\ net' = net
  <2>1. ~Dead(s)
    BY <1>9 DEF Dead, Connected
  <2>2. sendTag[s] = Len(out[s]) + 1 + 1
    BY <1>1, <1>2, <2>1 DEF PacketInv, TagsUsed
  <2>3. sendTag[s] - 1 = 0 + Len(out[s]) + 1
    BY <1>7, <2>2
  <2>4. /\ Append(out[s], sendTag[s] - 1) \in Seq(Nat)
        /\ Len(Append(out[s], sendTag[s] - 1)) = Len(out[s]) + 1
        /\ Runs(Append(out[s], sendTag[s] - 1), 0)
    <3>1. Runs(out[s], 0)
      BY <1>1 DEF PacketInv
    <3> QED
      BY <1>7, <2>3, <3>1, RunGrows
  <2>5. /\ out'[s] = Append(out[s], sendTag[s] - 1)
        /\ \A u \in Sockets : u # s => out'[u] = out[u]
        /\ out' \in [Sockets -> Seq(Nat)]
    BY <1>7, <1>9, <2>4
  <2>6. said' = said
    BY <1>9 DEF SayNothing
  <2>7. OwnTypes'
    BY <1>1, <1>2, <1>4, <1>9, <2>5, <2>6 DEF OwnTypes
  <2>8. Others(s)
    BY <1>2, <1>4, <1>5, <1>9, <2>5, <2>6 DEF Others, Untouched
  <2>9. EndQuiet(s)
    BY <1>2, <1>4, <1>5, <1>9, <2>6 DEF EndQuiet, Threads, Told
  <2>10. sendTag'[s] = Len(out'[s]) + 1 + 0
    <3>1. Len(out'[s]) = Len(out[s]) + 1 /\ sendTag'[s] = sendTag[s]
      BY <1>2, <2>4, <2>5
    <3> QED
      BY <1>7, <2>2, <3>1
  <2>11. TagsUsed(s)' /\ Runs(out[s], 0)'
    BY <1>4, <2>4, <2>5, <2>10 DEF TagsUsed
  <2>12. PacketInv(s)'
    BY <1>8, <2>11 DEF PacketInv
  <2> QED
    BY <1>1, <1>5, <2>7, <2>8, <2>9, <2>12, EndQuietKeeps, OwnKeeps
<1>10. ASSUME out' = out, s \notin sock \/ ~Connected(s) \/ remote[s] = "reset",
              SayNothing \/ Say(s, "SendError"),
              \/ net' = net
              \/ net[s] = "connected" /\ net' = [net EXCEPT ![s] = "failed"] /\ Say(s, "SendError")
              \/ net[s] = "early" /\ net' = [net EXCEPT ![s] = "open"] /\ remote[s] = "reset"
       PROVE  ClientInv'
  <2>1. UNCHANGED <<made, sock, stage, guard, remote, packetVars, missed>> /\ cur' \in 0..MaxSockets
    BY <1>1, <1>2, <1>10 DEF packetVars, OwnTypes
  <2>2. SayNothing \/ \E k \in Kinds : Say(s, k)
    BY <1>10 DEF Kinds
  <2>3. net' = net \/ \E n \in Nets : net' = [net EXCEPT ![s] = n]
    BY <1>10 DEF Nets
  <2>4. OwnTypes' /\ Others(s)
    BY <1>1, <1>2, <1>3, <2>1, <2>2, <2>3, MoveEffect
  <2>5. \/ net'[s] = net[s]
        \/ net[s] = "connected" /\ net'[s] = "failed" /\ (Say(s, "SendError") \/ Say(s, "RecvError"))
        \/ net[s] = "early" /\ net'[s] = "open" /\ remote[s] = "reset"
    BY <1>7, <1>10
  <2>6. EndQuiet(s)
    BY <1>1, <1>2, <1>3, <1>10, <2>1, <2>5, MoveKeepsEnd
  <2>7. Dead(s)'
    <3>1. s <= made'
      BY <1>2, <1>5
    <3>2. s \notin sock' \/ net'[s] \in {"failed", "closed"} \/ remote'[s] = "reset"
      BY <1>2, <1>5, <1>10, <2>5 DEF Connected, Up
    <3> QED
      BY <3>1, <3>2 DEF Dead
  <2>8. PacketInv(s)'
    BY <1>1, <1>8, <1>10, <2>7 DEF PacketInv, TagsUsed
  <2> QED
    BY <1>1, <1>5, <2>4, <2>6, <2>8, EndQuietKeeps, OwnKeeps
<1>11. CASE /\ s \notin sock \/ ~Connected(s)
            /\ SayNothing /\ UNCHANGED <<out, net>>
  BY <1>10, <1>11
<1>12. CASE /\ s \notin sock \/ ~Connected(s) \/ remote[s] = "reset"
            /\ Say(s, "SendError") /\ out' = out
            /\ net' = [net EXCEPT ![s] = CASE s \in sock /\ net[s] = "connected" -> "failed"
                                           [] s \in sock /\ net[s] = "early" -> "open"
                                           [] OTHER -> net[s]]
  <2>1. CASE s \in sock /\ net[s] = "connected"
    <3>1. net' = [net EXCEPT ![s] = "failed"]
      BY <1>12, <2>1
    <3> QED
      BY <1>10, <1>12, <2>1, <3>1
  <2>2. CASE s \in sock /\ net[s] = "early"
    <3>1. net' = [net EXCEPT ![s] = "open"] /\ remote[s] = "reset"
      BY <1>12, <2>2 DEF Connected
    <3> QED
      BY <1>10, <1>12, <2>2, <3>1
  <2>3. CASE ~(s \in sock /\ net[s] = "connected") /\ ~(s \in sock /\ net[s] = "early")
    <3>1. net' = [net EXCEPT ![s] = net[s]]
      BY <1>12, <2>3
    <3>2. net' = net
      BY <1>7, <3>1
    <3> QED
      BY <1>10, <1>12, <3>2
  <2> QED
    BY <2>1, <2>2, <2>3
<1> QED
  BY <1>9, <1>11, <1>12 DEF SendPacket

(***************************************************************************)
(* Close.  Whoever holds _closeGuard is alone between its two ends.        *)
(***************************************************************************)
LEMMA AfterClose ==
    ASSUME NEW t \in Threads
    PROVE  /\ After(t) \in {"clear", "done", "loop"} /\ After(t) \in Labels
           /\ t = "conn" => After(t) = "done"
           /\ t = "recv" => After(t) = "loop"
  BY DEF Threads, After, Labels

LEMMA CloseEnterKeeps ==
    ASSUME ClientInv, NEW t \in Threads, NEW s \in Sockets, CloseEnter(t, s)
    PROVE  ClientInv'
<1>1. OwnTypes /\ PacketInv(s) /\ EndInv(s) /\ cur \in 0..MaxSockets
  BY DEF ClientInv, OwnTypes
<1>2. /\ pc[t][s] = "lock" /\ guard[s] = "free" /\ SayNothing
      /\ UNCHANGED <<cur, made, sock, running, remote, packetVars>>
  BY DEF CloseEnter
<1>3. CASE s \notin sock
  <2>1. Goto(t, s, After(t)) /\ UNCHANGED <<guard, stage, net, missed>>
    BY <1>3 DEF CloseEnter
  <2>2. Calm(t, s, After(t))
    <3>1. /\ After(t) \notin {"notify", "unlock", "send"}
          /\ t = "conn" => After(t) \notin Coming
          /\ t = "recv" => After(t) \notin Past
      BY AfterClose DEF Coming, Past
    <3> QED
      BY <1>1, <1>2, <2>1, <3>1 DEF Calm, Coming
  <2> QED
    BY <2>2, AfterClose, CalmKeeps
<1>4. CASE s \in sock
  <2> DEFINE l == IF Connected(s) THEN "notify" ELSE "unlock"
             n == IF Connected(s) THEN "closed" ELSE net[s]
  <2>1. /\ guard' = [guard EXCEPT ![s] = t] /\ stage' = [stage EXCEPT ![s] = "None"]
        /\ net' = [net EXCEPT ![s] = n]
        /\ missed' = IF net[s] = "open" THEN missed \cup {s} ELSE missed
        /\ Goto(t, s, l)
    BY <1>4 DEF CloseEnter
  <2>2. l \in {"notify", "unlock"} /\ l \in Labels /\ n \in Nets
    BY <1>1 DEF Labels, Nets, OwnTypes
  <2>3. /\ pc' \in [Threads -> [Sockets -> Labels]] /\ pc'[t][s] = l
        /\ \A u \in Threads, r \in Sockets : u # t \/ r # s => pc'[u][r] = pc[u][r]
    BY <1>1, <2>1, <2>2, GotoEffect
  <2>4. /\ guard' \in [Sockets -> Threads \cup {"free"}] /\ guard'[s] = t
        /\ stage' \in [Sockets -> {"None", "BeginConnect", "Ready"}] /\ stage'[s] = "None"
        /\ net' \in [Sockets -> Nets] /\ net'[s] = n
        /\ \A u \in Sockets : u # s => guard'[u] = guard[u] /\ stage'[u] = stage[u] /\ net'[u] = net[u]
    BY <1>1, <2>1, <2>2 DEF OwnTypes
  <2>5. said' = said
    BY <1>2 DEF SayNothing
  <2>6. OwnTypes'
    BY <1>1, <1>2, <2>3, <2>4, <2>5 DEF OwnTypes, packetVars
  <2>7. made <= made' /\ made' = made /\ made \in Nat
    BY <1>1, <1>2, ClientAssumption DEF OwnTypes
  <2>8. Others(s)
    BY <1>2, <2>1, <2>3, <2>4, <2>5, <2>7 DEF Others, Untouched, packetVars
  <2>9. PacketQuiet(s)
    <3>1. net[s] \in Up => net'[s] \in Up
      BY <2>4 DEF Up
    <3>2. net[s] \in {"failed", "closed"} => net'[s] \in {"failed", "closed"}
      BY <2>4
    <3>3. (t = "recv" /\ l \in Past => pc["recv"][s] \in Past) /\ (t = "main" => pc["main"][s] # "send" /\ l # "send")
      BY <1>2, <2>2 DEF Past
    <3> HIDE DEF l, n
    <3> QED
      BY <1>1, <1>2, <2>1, <2>2, <3>1, <3>2, <3>3, MoveIsQuiet
  <2>10. PacketInv(s)'
    BY <1>1, <2>7, <2>9, PacketQuietKeeps
  <2>11. \A u \in Threads : pc[u][s] \notin {"notify", "unlock"}
    BY <1>1, <1>2 DEF EndInv, Closing, Threads
  <2>12. EndInv(s)'
    <3>1. InTurn(s)'
      <4>1. \/ pc'["conn"][s] = pc["conn"][s]
            \/ pc["conn"][s] \notin Coming /\ pc'["conn"][s] \notin Coming
        BY <1>2, <2>2, <2>3 DEF Threads, Coming
      <4>2. pc'["recv"][s] = pc["recv"][s] \/ pc["recv"][s] # "none"
        BY <1>2, <2>3 DEF Threads
      <4>3. TurnQuiet(s)
        BY <2>4, <2>5, <2>7, <4>1, <4>2 DEF TurnQuiet, Connected
      <4> QED
        BY <1>1, <2>7, <4>3, TurnKeeps DEF EndInv
    <3>2. Closing(s)'
      <4>1. said[s]["Disconnected"] \in Nat
        BY <1>1 DEF OwnTypes, Kinds
      <4>2. Connected(s) => said[s]["Disconnected"] = 0
        BY <1>1, <4>1 DEF EndInv, EndTold, Connected
      <4>3. pc'[t][s] = "notify" => net'[s] = "closed" /\ said'[s]["Disconnected"] = 0
        BY <2>3, <2>4, <2>5, <4>2
      <4>4. \A u \in Threads : u # t => pc'[u][s] \notin {"notify", "unlock"}
        BY <2>3, <2>11
      <4> HIDE DEF l, n
      <4>5. guard'[s] = t /\ s \in sock' /\ stage'[s] # "BeginConnect"
        BY <1>2, <1>4, <2>4
      <4> QED
        BY <4>3, <4>4, <4>5 DEF Closing
    <3>3. EndTold(s)'
      <4>1. Told(s)' <=> Told(s)
        BY <2>5 DEF Told
      <4>2. net[s] = "failed" => Told(s)
        BY <1>1 DEF EndInv, EndTold
      <4>3. net[s] = "closed" => Told(s)
        BY <1>1, <2>11 DEF EndInv, EndTold
      <4>4. /\ said[s]["Disconnected"] <= 1
            /\ said[s]["Disconnected"] > 0 => net[s] = "closed"
        BY <1>1 DEF EndInv, EndTold
      <4>5. net'[s] = "failed" => Told(s)'
        BY <2>4, <4>1, <4>2
      <4>6. net'[s] = "closed" => Told(s)' \/ \E u \in Threads : pc'[u][s] = "notify"
        BY <2>3, <2>4, <4>1, <4>3
      <4>7. net[s] = "closed" => net'[s] = "closed"
        BY <2>4
      <4> QED
        BY <2>5, <4>4, <4>5, <4>6, <4>7 DEF EndTold
    <3>4. LeakIsMissed(s)'
      <4>1. s \in sock' /\ net'[s] \notin {"connected", "early"}
        BY <1>2, <1>4, <2>4 DEF Connected
      <4>2. net'[s] = "open" => s \in missed'
        BY <2>1, <2>4
      <4> QED
        BY <4>1, <4>2 DEF LeakIsMissed
    <3> QED
      BY <3>1, <3>2, <3>3, <3>4 DEF EndInv
  <2> QED
    BY <2>6, <2>8, <2>10, <2>12, OwnKeeps
<1> QED
  BY <1>3, <1>4

LEMMA CloseNotifyKeeps ==
    ASSUME ClientInv, NEW t \in Threads, NEW s \in Sockets, CloseNotify(t, s)
    PROVE  ClientInv'
<1>1. OwnTypes /\ PacketInv(s) /\ EndInv(s) /\ cur \in 0..MaxSockets
  BY DEF ClientInv, OwnTypes
<1>2. /\ pc[t][s] = "notify" /\ Say(s, "Disconnected") /\ Goto(t, s, "unlock")
      /\ UNCHANGED <<cur, made, sock, stage, running, guard, net, remote, packetVars, missed>>
  BY DEF CloseNotify
<1>3. "unlock" \in Labels /\ "Disconnected" \in Kinds /\ cur' \in 0..MaxSockets
  BY <1>1, <1>2 DEF Labels, Kinds
<1>4. OwnTypes' /\ Others(s)
  BY <1>1, <1>2, <1>3, MoveEffect
<1>5. made \in Nat /\ made' = made /\ made <= made'
  BY <1>1, <1>2, ClientAssumption DEF OwnTypes
<1>6. PacketQuiet(s)
  <2>1. t = "recv" /\ "unlock" \in Past => pc["recv"][s] \in Past
    BY DEF Past
  <2>2. t = "main" => pc["main"][s] # "send" /\ "unlock" # "send"
    BY <1>2
  <2> QED
    BY <1>1, <1>2, <1>3, <2>1, <2>2, MoveIsQuiet
<1>7. /\ pc'[t][s] = "unlock"
      /\ \A u \in Threads : u # t => pc'[u][s] = pc[u][s]
  BY <1>1, <1>2, <1>3, GotoEffect
<1>8. /\ said'[s]["Disconnected"] = said[s]["Disconnected"] + 1
      /\ \A k \in Kinds : k # "Disconnected" => said'[s][k] = said[s][k]
  BY <1>1, <1>2, <1>3, SayEffect
<1>9. /\ guard[s] = t /\ s \in sock /\ stage[s] # "BeginConnect"
      /\ net[s] = "closed" /\ said[s]["Disconnected"] = 0
      /\ \A u \in Threads : u # t => pc[u][s] \notin {"notify", "unlock"}
  BY <1>1, <1>2 DEF EndInv, Closing
<1>10. said'[s]["Disconnected"] = 1
  BY <1>8, <1>9
<1>11. EndInv(s)'
  <2>1. InTurn(s)'
    <3>1. TurnQuiet(s)
      BY <1>2, <1>5, <1>7, <1>8 DEF TurnQuiet, Coming, Threads, Kinds
    <3> QED
      BY <1>1, <1>5, <3>1, TurnKeeps DEF EndInv
  <2>2. Closing(s)'
    BY <1>2, <1>7, <1>9 DEF Closing
  <2>3. EndTold(s)'
    <3>1. Told(s)'
      BY <1>10 DEF Told
    <3> QED
      BY <1>2, <1>9, <1>10, <3>1 DEF EndTold
  <2>4. LeakIsMissed(s)'
    BY <1>2, <1>9 DEF LeakIsMissed
  <2> QED
    BY <2>1, <2>2, <2>3, <2>4 DEF EndInv
<1> QED
  BY <1>1, <1>4, <1>5, <1>6, <1>11, PacketQuietKeeps, OwnKeeps

LEMMA CloseLeaveKeeps ==
    ASSUME ClientInv, NEW t \in Threads, NEW s \in Sockets, CloseLeave(t, s)
    PROVE  ClientInv'
<1>1. OwnTypes /\ PacketInv(s) /\ EndInv(s)
  BY DEF ClientInv
<1>2. /\ pc[t][s] = "unlock" /\ sock' = sock \ {s} /\ guard' = [guard EXCEPT ![s] = "free"]
      /\ Goto(t, s, After(t)) /\ said' = said
      /\ UNCHANGED <<cur, made, stage, net, remote, packetVars, missed>>
  BY DEF CloseLeave, SayNothing
<1>3. /\ After(t) \in Labels /\ After(t) \notin {"notify", "unlock", "send", "none"}
      /\ t = "conn" => After(t) \notin Coming
      /\ t = "recv" => After(t) \notin Past
  BY AfterClose DEF Coming, Past
<1>4. /\ pc' \in [Threads -> [Sockets -> Labels]] /\ pc'[t][s] = After(t)
      /\ \A u \in Threads, r \in Sockets : u # t \/ r # s => pc'[u][r] = pc[u][r]
  BY <1>1, <1>2, <1>3, GotoEffect
<1>5. /\ guard' \in [Sockets -> Threads \cup {"free"}] /\ guard'[s] = "free"
      /\ \A u \in Sockets : u # s => guard'[u] = guard[u]
  BY <1>1, <1>2 DEF OwnTypes
<1>6. OwnTypes'
  BY <1>1, <1>2, <1>4, <1>5 DEF OwnTypes, packetVars
<1>7. made \in Nat /\ made' = made /\ made <= made'
  BY <1>1, <1>2, ClientAssumption DEF OwnTypes
<1>8. Others(s)
  BY <1>2, <1>4, <1>5, <1>7 DEF Others, Untouched, packetVars
<1>9. /\ pc'["recv"][s] \in Past => pc["recv"][s] \in Past
      /\ pc'["main"][s] = "send" <=> pc["main"][s] = "send"
  BY <1>2, <1>3, <1>4 DEF Threads
<1>10. PacketQuiet(s)
  BY <1>2, <1>7, <1>9 DEF PacketQuiet, packetVars
<1>11. /\ guard[s] = t /\ s \in sock
       /\ \A u \in Threads : u # t => pc[u][s] \notin {"notify", "unlock"}
  BY <1>1, <1>2 DEF EndInv, Closing
<1>12. \A u \in Threads : pc'[u][s] \notin {"notify", "unlock"}
  BY <1>3, <1>4, <1>11
<1>13. EndInv(s)'
  <2>1. InTurn(s)'
    <3>1. /\ \/ pc'["conn"][s] = pc["conn"][s]
             \/ pc["conn"][s] \notin Coming /\ pc'["conn"][s] \notin Coming
          /\ pc'["recv"][s] = pc["recv"][s] \/ pc["recv"][s] # "none"
      BY <1>2, <1>3, <1>4 DEF Coming, Threads
    <3>2. TurnQuiet(s)
      BY <1>2, <1>7, <3>1 DEF TurnQuiet
    <3> QED
      BY <1>1, <1>7, <3>2, TurnKeeps DEF EndInv
  <2>2. Closing(s)'
    BY <1>12 DEF Closing
  <2>3. EndTold(s)'
    <3>1. \A u \in Threads : pc[u][s] # "notify"
      BY <1>2, <1>11
    <3>2. Told(s)' <=> Told(s)
      BY <1>2 DEF Told
    <3> QED
      BY <1>1, <1>2, <3>1, <3>2 DEF EndInv, EndTold
  <2>4. LeakIsMissed(s)'
    <3>1. net[s] = "connected" => s \in missed
      BY <1>1, <1>2 DEF EndInv, LeakIsMissed
    <3> QED
      BY <1>2, <1>12, <3>1 DEF LeakIsMissed
  <2> QED
    BY <2>1, <2>2, <2>3, <2>4 DEF EndInv
<1> QED
  BY <1>1, <1>6, <1>7, <1>8, <1>10, <1>13, PacketQuietKeeps, OwnKeeps

LEMMA CloseKeeps ==
    ASSUME ClientInv, NEW t \in Threads, NEW s \in Sockets, Close(t, s)
    PROVE  ClientInv'
  BY CloseEnterKeeps, CloseNotifyKeeps, CloseLeaveKeeps DEF Close

(***************************************************************************)
(* HandleConnected: EndConnect makes the connection, and what Close does   *)
(* at the same time it does to a connection it has missed.                 *)
(***************************************************************************)
LEMMA CheckKeeps ==
    ASSUME ClientInv, NEW s \in Sockets, ConnCheck(s)
    PROVE  ClientInv'
<1> DEFINE l == IF stage[s] = "BeginConnect" THEN "end" ELSE "done"
<1>1. OwnTypes /\ PacketInv(s) /\ EndInv(s) /\ cur \in 0..MaxSockets
  BY DEF ClientInv, OwnTypes
<1>2. /\ pc["conn"][s] = "check" /\ Goto("conn", s, l) /\ SayNothing
      /\ UNCHANGED <<cur, made, sock, stage, guard, net, remote, packetVars, missed>>
  BY DEF ConnCheck
<1>3. l \in Labels /\ l \in {"end", "done"} /\ "conn" \in Threads /\ cur' \in 0..MaxSockets
  BY <1>1, <1>2 DEF Labels, Threads
<1>4. l = "end" => stage[s] = "BeginConnect"
  OBVIOUS
<1> HIDE DEF l
<1>5. OwnTypes' /\ Others(s)
  BY <1>1, <1>2, <1>3, MoveEffect
<1>6. made \in Nat /\ made' = made
  BY <1>1, <1>2, ClientAssumption DEF OwnTypes
<1>7. PacketQuiet(s)
  BY <1>1, <1>2, <1>3, MoveIsQuiet
<1>8. /\ pc'["conn"][s] = l
      /\ \A u \in Threads : u # "conn" => pc'[u][s] = pc[u][s]
  BY <1>1, <1>2, <1>3, GotoEffect
<1>9. said' = said
  BY <1>2 DEF SayNothing
<1>10. EndInv(s)'
  <2>1. InTurn(s)'
    BY <1>1, <1>2, <1>3, <1>8, <1>9 DEF EndInv, InTurn, Threads
  <2>2. Closing(s)'
    BY <1>1, <1>2, <1>3, <1>8, <1>9 DEF EndInv, Closing, Threads
  <2>3. EndTold(s)'
    <3>1. (\E u \in Threads : pc[u][s] = "notify") => \E u \in Threads : pc'[u][s] = "notify"
      BY <1>2, <1>8
    <3> QED
      BY <1>1, <1>2, <1>9, <3>1 DEF EndInv, EndTold, Told
  <2>4. LeakIsMissed(s)'
    <3>1. l = "end" => \A u \in Threads : pc[u][s] # "unlock"
      BY <1>1, <1>4 DEF EndInv, Closing
    <3>2. (\E u \in Threads : pc'[u][s] = "unlock") => (\E u \in Threads : pc[u][s] = "unlock") /\ l # "end"
      BY <1>3, <1>8, <3>1
    <3> QED
      BY <1>1, <1>2, <1>8, <3>2 DEF EndInv, LeakIsMissed
  <2> QED
    BY <2>1, <2>2, <2>3, <2>4 DEF EndInv
<1> QED
  BY <1>1, <1>5, <1>6, <1>7, <1>10, PacketQuietKeeps, OwnKeeps

LEMMA EndConnectKeeps ==
    ASSUME ClientInv, NEW s \in Sockets, ConnEnd(s)
    PROVE  ClientInv'
<1>1. OwnTypes /\ PacketInv(s) /\ EndInv(s) /\ cur \in 0..MaxSockets
  BY DEF ClientInv, OwnTypes
<1>2. /\ pc["conn"][s] = "end" /\ "conn" \in Threads /\ {"thread", "lock"} \subseteq Labels
      /\ UNCHANGED <<cur, made, sock, stage, guard, remote, packetVars, missed>>
      /\ cur' \in 0..MaxSockets
  BY <1>1 DEF ConnEnd, Threads, Labels
<1>3. made \in Nat /\ made' = made
  BY <1>1, <1>2, ClientAssumption DEF OwnTypes
<1>4. CASE /\ s \in sock /\ net[s] \in {"open", "early"} /\ net' = [net EXCEPT ![s] = "connected"]
           /\ Goto("conn", s, "thread") /\ SayNothing
  <2>1. OwnTypes' /\ Others(s)
    <3>1. \E n \in Nets : net' = [net EXCEPT ![s] = n]
      BY <1>4 DEF Nets
    <3> QED
      BY <1>1, <1>2, <1>4, <3>1, MoveEffect
  <2>2. net'[s] = "connected" /\ said' = said
    BY <1>1, <1>4 DEF OwnTypes, SayNothing
  <2>3. PacketQuiet(s)
    <3>1. /\ net[s] \in Up => net'[s] \in Up
          /\ net[s] \in {"failed", "closed"} => net'[s] \in {"failed", "closed"}
      BY <1>4, <2>2 DEF Up
    <3> QED
      BY <1>1, <1>2, <1>4, <3>1, MoveIsQuiet
  <2>4. /\ pc'["conn"][s] = "thread"
        /\ \A u \in Threads : u # "conn" => pc'[u][s] = pc[u][s]
    BY <1>1, <1>2, <1>4, GotoEffect
  <2>5. EndInv(s)'
    <3>1. InTurn(s)'
      <4>1. s <= made
        BY <1>1, <1>4 DEF OwnTypes
      <4>2. ~(s > made') /\ s \in Nat
        BY <1>3, <4>1 DEF Sockets
      <4>3. pc'["recv"][s] = "none"
        BY <1>1, <1>2, <2>4 DEF EndInv, InTurn, Threads
      <4> QED
        BY <2>2, <4>2, <4>3 DEF InTurn
    <3>2. \A u \in Threads : pc[u][s] # "notify" /\ pc'[u][s] # "notify"
      BY <1>1, <1>4, <2>4 DEF EndInv, Closing
    <3>3. Closing(s)'
      BY <1>1, <1>2, <2>4, <3>2 DEF EndInv, Closing
    <3>4. EndTold(s)'
      BY <1>1, <1>4, <2>2 DEF EndInv, EndTold
    <3>5. LeakIsMissed(s)'
      <4>1. (\E u \in Threads : pc'[u][s] = "unlock") => \E u \in Threads : pc[u][s] = "unlock"
        BY <2>4
      <4>2. (\E u \in Threads : pc[u][s] = "unlock") => s \in missed
        BY <1>1, <1>2, <1>4 DEF EndInv, LeakIsMissed
      <4> QED
        BY <1>2, <1>4, <2>2, <4>1, <4>2 DEF LeakIsMissed
    <3> QED
      BY <3>1, <3>3, <3>4, <3>5 DEF EndInv
  <2> QED
    BY <1>1, <1>3, <2>1, <2>3, <2>5, PacketQuietKeeps, OwnKeeps
<1>5. CASE Say(s, "ConnectError") /\ Goto("conn", s, "lock") /\ net' = net
  <2>1. "ConnectError" \in Kinds
    BY DEF Kinds
  <2>2. OwnTypes' /\ Others(s)
    BY <1>1, <1>2, <1>5, <2>1, MoveEffect
  <2>3. PacketQuiet(s)
    BY <1>1, <1>2, <1>5, MoveIsQuiet
  <2>4. /\ pc'["conn"][s] = "lock"
        /\ \A u \in Threads : u # "conn" => pc'[u][s] = pc[u][s]
    BY <1>1, <1>2, <1>5, GotoEffect
  <2>5. \A k \in Kinds : k # "ConnectError" => said'[s][k] = said[s][k]
    BY <1>1, <1>5, <2>1, SayEffect
  <2>6. /\ said'[s]["Connected"] = said[s]["Connected"]
        /\ said'[s]["Disconnected"] = said[s]["Disconnected"]
        /\ Told(s)' <=> Told(s)
    BY <2>5 DEF Kinds, Told
  <2>7. EndInv(s)'
    <3>1. InTurn(s)'
      BY <1>1, <1>2, <1>3, <1>5, <2>4, <2>6 DEF EndInv, InTurn, Threads
    <3>2. Closing(s)'
      BY <1>1, <1>2, <1>5, <2>4, <2>6 DEF EndInv, Closing, Threads
    <3>3. (\E u \in Threads : pc[u][s] = "notify") => \E u \in Threads : pc'[u][s] = "notify"
      BY <1>2, <2>4
    <3>4. EndTold(s)'
      BY <1>1, <1>5, <2>6, <3>3 DEF EndInv, EndTold
    <3>5. (\E u \in Threads : pc'[u][s] = "unlock") => \E u \in Threads : pc[u][s] = "unlock"
      BY <2>4
    <3>6. LeakIsMissed(s)'
      BY <1>1, <1>2, <1>5, <2>4, <3>5 DEF EndInv, LeakIsMissed
    <3> QED
      BY <3>1, <3>2, <3>4, <3>6 DEF EndInv
  <2> QED
    BY <1>1, <1>3, <2>2, <2>3, <2>7, PacketQuietKeeps, OwnKeeps
<1> QED
  BY <1>4, <1>5 DEF ConnEnd

LEMMA ReadyKeeps ==
    ASSUME ClientInv, NEW s \in Sockets, ConnReady(s)
    PROVE  ClientInv'
<1>1. OwnTypes /\ PacketInv(s) /\ EndInv(s)
  BY DEF ClientInv
<1>2. /\ pc["conn"][s] = "ready" /\ Goto("conn", s, "done") /\ Say(s, "Connected")
      /\ stage' = [stage EXCEPT ![s] = "Ready"]
      /\ UNCHANGED <<cur, made, sock, guard, net, remote, packetVars, missed>>
  BY DEF ConnReady
<1>3. "conn" \in Threads /\ "done" \in Labels /\ "Connected" \in Kinds
  BY DEF Threads, Labels, Kinds
<1>4. /\ pc' \in [Threads -> [Sockets -> Labels]] /\ pc'["conn"][s] = "done"
      /\ \A u \in Threads, r \in Sockets : u # "conn" \/ r # s => pc'[u][r] = pc[u][r]
  BY <1>1, <1>2, <1>3, GotoEffect
<1>5. /\ said' \in [Sockets -> [Kinds -> Nat]]
      /\ \A k \in Kinds : k # "Connected" => said'[s][k] = said[s][k]
      /\ \A u \in Sockets : u # s => said'[u] = said[u]
  BY <1>1, <1>2, <1>3, SayEffect
<1>6. /\ stage' \in [Sockets -> {"None", "BeginConnect", "Ready"}] /\ stage'[s] = "Ready"
      /\ \A u \in Sockets : u # s => stage'[u] = stage[u]
  BY <1>1, <1>2 DEF OwnTypes
<1>7. OwnTypes'
  BY <1>1, <1>2, <1>4, <1>5, <1>6 DEF OwnTypes, packetVars
<1>8. made \in Nat /\ made' = made /\ made <= made'
  BY <1>1, <1>2, ClientAssumption DEF OwnTypes
<1>9. Others(s)
  BY <1>2, <1>4, <1>5, <1>6, <1>8 DEF Others, Untouched, packetVars
<1>10. PacketQuiet(s)
  BY <1>1, <1>2, <1>3, MoveIsQuiet
<1>11. said'[s]["Disconnected"] = said[s]["Disconnected"] /\ (Told(s)' <=> Told(s))
  BY <1>5 DEF Kinds, Told
<1>12. EndInv(s)'
  <2>1. InTurn(s)'
    <3>1. net'[s] \in {"connected", "failed", "closed"}
      BY <1>1, <1>2 DEF EndInv, InTurn
    <3>2. (s > made => net[s] = "none")'
      BY <1>1, <1>2 DEF EndInv, InTurn
    <3> QED
      BY <1>4, <3>1, <3>2 DEF InTurn
  <2>2. Closing(s)'
    BY <1>1, <1>2, <1>4, <1>6, <1>11 DEF EndInv, Closing, Threads
  <2>3. (\E u \in Threads : pc[u][s] = "notify") => \E u \in Threads : pc'[u][s] = "notify"
    BY <1>2, <1>4
  <2>4. EndTold(s)'
    BY <1>1, <1>2, <1>11, <2>3 DEF EndInv, EndTold
  <2>5. (\E u \in Threads : pc'[u][s] = "unlock") => \E u \in Threads : pc[u][s] = "unlock"
    BY <1>4
  <2>6. LeakIsMissed(s)'
    BY <1>1, <1>2, <1>4, <2>5 DEF EndInv, LeakIsMissed
  <2> QED
    BY <2>1, <2>2, <2>4, <2>6 DEF EndInv
<1> QED
  BY <1>1, <1>7, <1>8, <1>9, <1>10, <1>12, PacketQuietKeeps, OwnKeeps

LEMMA ThreadKeeps ==
    ASSUME ClientInv, NEW s \in Sockets, ConnThread(s)
    PROVE  ClientInv'
<1>1. OwnTypes /\ PacketInv(s) /\ EndInv(s)
  BY DEF ClientInv
<1>2. /\ pc["conn"][s] = "thread" /\ said' = said
      /\ pc' = [pc EXCEPT !["conn"][s] = "ready", !["recv"][s] = "loop"]
      /\ UNCHANGED <<cur, made, sock, stage, guard, net, remote, packetVars, missed>>
  BY DEF ConnThread, SayNothing
<1>3. "conn" \in Threads /\ "recv" \in Threads /\ "ready" \in Labels /\ "loop" \in Labels
  BY DEF Threads, Labels
<1>4. /\ pc' \in [Threads -> [Sockets -> Labels]]
      /\ pc'["conn"][s] = "ready" /\ pc'["recv"][s] = "loop"
      /\ \A u \in Threads, r \in Sockets :
            (u # "conn" /\ u # "recv") \/ r # s => pc'[u][r] = pc[u][r]
  BY <1>1, <1>2, <1>3 DEF OwnTypes
<1>5. OwnTypes'
  BY <1>1, <1>2, <1>4 DEF OwnTypes, packetVars
<1>6. made \in Nat /\ made' = made /\ made <= made'
  BY <1>1, <1>2, ClientAssumption DEF OwnTypes
<1>7. Others(s)
  BY <1>2, <1>4, <1>6 DEF Others, Untouched, packetVars
<1>8. pc["recv"][s] = "none" /\ pc'["main"][s] = pc["main"][s]
  BY <1>1, <1>2, <1>4 DEF EndInv, InTurn, Threads
<1>9. PacketQuiet(s)
  BY <1>2, <1>4, <1>6, <1>8 DEF PacketQuiet, packetVars, Past
<1>10. \A u \in Threads : \/ pc'[u][s] = pc[u][s]
                          \/ /\ pc[u][s] \notin {"notify", "unlock"}
                             /\ pc'[u][s] \notin {"notify", "unlock"}
  BY <1>2, <1>4, <1>8
<1>11. EndInv(s)'
  <2>1. InTurn(s)'
    <3>1. net'[s] \in {"connected", "failed", "closed"} /\ (s > made => net[s] = "none")'
      BY <1>1, <1>2 DEF EndInv, InTurn
    <3> QED
      BY <1>4, <3>1 DEF InTurn
  <2>2. Closing(s)'
    BY <1>1, <1>2, <1>10 DEF EndInv, Closing
  <2>3. EndTold(s)'
    BY <1>1, <1>2, <1>10 DEF EndInv, EndTold, Told
  <2>4. LeakIsMissed(s)'
    BY <1>1, <1>2, <1>4, <1>10 DEF EndInv, LeakIsMissed
  <2> QED
    BY <2>1, <2>2, <2>3, <2>4 DEF EndInv
<1> QED
  BY <1>1, <1>5, <1>6, <1>7, <1>9, <1>11, PacketQuietKeeps, OwnKeeps

LEMMA CompletesKeeps ==
    ASSUME ClientInv, NEW s \in Sockets, Completes(s)
    PROVE  ClientInv'
<1>1. OwnTypes /\ PacketInv(s) /\ EndInv(s) /\ cur \in 0..MaxSockets
  BY DEF ClientInv, OwnTypes
<1>2. /\ net[s] = "connecting" /\ Goto("conn", s, "check") /\ SayNothing /\ said' = said
      /\ UNCHANGED <<cur, made, sock, stage, guard, remote, packetVars, missed>>
      /\ cur' \in 0..MaxSockets
  BY <1>1 DEF Completes, SayNothing
<1>3. PICK r \in {"open", "early", "refused"} : net' = [net EXCEPT ![s] = r]
  BY DEF Completes
<1>4. "conn" \in Threads /\ "check" \in Labels /\ r \in Nets /\ net'[s] = r
  BY <1>1, <1>3 DEF Threads, Labels, Nets, OwnTypes
<1>5. OwnTypes' /\ Others(s)
  BY <1>1, <1>2, <1>3, <1>4, MoveEffect
<1>6. made \in Nat /\ made' = made
  BY <1>1, <1>2, ClientAssumption DEF OwnTypes
<1>7. PacketQuiet(s)
  <2>1. net[s] \notin Up /\ net[s] \notin {"failed", "closed"}
    BY <1>2 DEF Up
  <2> QED
    BY <1>1, <1>2, <1>4, <2>1, MoveIsQuiet
<1>8. /\ pc'["conn"][s] = "check"
      /\ \A u \in Threads : u # "conn" => pc'[u][s] = pc[u][s]
  BY <1>1, <1>2, <1>4, GotoEffect
<1>9. pc["conn"][s] = "none" /\ pc'["recv"][s] = "none" /\ ~(said[s]["Connected"] > 0) /\ ~(s > made)
  BY <1>1, <1>2, <1>8 DEF EndInv, InTurn, Threads
<1>10. EndInv(s)'
  <2>1. InTurn(s)'
    BY <1>2, <1>3, <1>4, <1>8, <1>9 DEF InTurn
  <2>2. \A u \in Threads : pc[u][s] # "notify" /\ pc'[u][s] # "notify"
    BY <1>1, <1>2, <1>8 DEF EndInv, Closing
  <2>3. Closing(s)'
    BY <1>1, <1>2, <1>8, <1>9, <2>2 DEF EndInv, Closing
  <2>4. EndTold(s)'
    BY <1>1, <1>2, <1>3, <1>4 DEF EndInv, EndTold
  <2>5. LeakIsMissed(s)'
    BY <1>3, <1>4, <1>8 DEF LeakIsMissed
  <2> QED
    BY <2>1, <2>3, <2>4, <2>5 DEF EndInv
<1> QED
  BY <1>1, <1>5, <1>6, <1>7, <1>10, PacketQuietKeeps, OwnKeeps

(***************************************************************************)
(* Connect uses a socket nobody has used.                                  *)
(***************************************************************************)
LEMMA ConnectKeeps ==
    ASSUME ClientInv, Connect \/ ConnectBad \/ ConnectThrows
    PROVE  ClientInv'
<1>1. OwnTypes /\ Make /\ MaxSockets \in Nat /\ made \in 0..MaxSockets
  BY ClientAssumption DEF ClientInv, OwnTypes, Connect, ConnectBad, ConnectThrows
<1>2. made' = made + 1 /\ cur' = made + 1 /\ made < MaxSockets
  BY <1>1 DEF Make
<1>3. PICK s \in Sockets : s = made + 1
  BY <1>1, <1>2 DEF Sockets
<1>4. /\ PacketInv(s) /\ EndInv(s) /\ s > made /\ s <= made' /\ made <= made' /\ made' \in Nat
      /\ cur' \in 0..MaxSockets /\ made' \in 0..MaxSockets
  BY <1>1, <1>2, <1>3 DEF ClientInv
<1>5. s \notin sock /\ net[s] = "none" /\ pc["conn"][s] = "none" /\ pc["recv"][s] = "none"
  <2>1. \A u \in sock : u <= made
    BY <1>1 DEF OwnTypes
  <2>2. s \notin sock
    BY <1>1, <1>3, <2>1
  <2> QED
    BY <1>4, <2>2 DEF EndInv, InTurn
<1>6. \A u \in sock : u <= made'
  <2>1. \A u \in sock : u \in Nat /\ u <= made
    BY <1>1 DEF OwnTypes, Sockets
  <2> QED
    BY <1>1, <1>2, <2>1
<1>7. CASE ConnectBad \/ ConnectThrows
  <2>1. UNCHANGED <<pc, sock, stage, guard, net, remote, packetVars, missed>>
    BY <1>7 DEF ConnectBad, ConnectThrows
  <2>2. /\ said' \in [Sockets -> [Kinds -> Nat]]
        /\ \A u \in Sockets : u # s => said'[u] = said[u]
        /\ \A k \in Kinds : k # "ConnectError" => said'[s][k] = said[s][k]
    <3>1. CASE ConnectBad
      <4>1. Say(s, "ConnectError") /\ "ConnectError" \in Kinds
        BY <1>2, <1>3, <3>1 DEF ConnectBad, Kinds
      <4> QED
        BY <1>1, <4>1, SayEffect
    <3>2. CASE ConnectThrows
      BY <1>1, <3>2 DEF ConnectThrows, SayNothing, OwnTypes
    <3> QED
      BY <1>7, <3>1, <3>2
  <2>3. OwnTypes'
    BY <1>1, <1>4, <1>6, <2>1, <2>2 DEF OwnTypes, packetVars
  <2>4. Others(s)
    BY <1>4, <2>1, <2>2 DEF Others, Untouched, packetVars
  <2>5. PacketQuiet(s)
    BY <1>4, <2>1 DEF PacketQuiet, packetVars
  <2>6. EndQuiet(s)
    BY <1>4, <2>1, <2>2 DEF EndQuiet, Kinds, Told
  <2> QED
    BY <2>3, <2>4, <2>5, <2>6, QuietKeeps
<1>8. CASE Connect
  <2>1. /\ sock' = sock \cup {s} /\ stage' = [stage EXCEPT ![s] = "BeginConnect"]
        /\ net' = [net EXCEPT ![s] = "connecting"] /\ said' = said
        /\ UNCHANGED <<pc, guard, remote, packetVars, missed>>
    BY <1>2, <1>3, <1>8 DEF Connect, SayNothing
  <2>2. /\ net' \in [Sockets -> Nets] /\ net'[s] = "connecting"
        /\ stage' \in [Sockets -> {"None", "BeginConnect", "Ready"}]
        /\ \A u \in Sockets : u # s => net'[u] = net[u] /\ stage'[u] = stage[u]
    BY <1>1, <2>1 DEF OwnTypes, Nets
  <2>3. sock' \subseteq Sockets /\ \A u \in sock' : u <= made'
    BY <1>1, <1>4, <1>6, <2>1 DEF OwnTypes
  <2>4. OwnTypes'
    BY <1>1, <1>4, <2>1, <2>2, <2>3 DEF OwnTypes, packetVars
  <2>5. Others(s)
    BY <1>4, <2>1, <2>2 DEF Others, Untouched, packetVars
  <2>6. PacketInv(s)'
    <3>1. ~(s <= made)
      BY <1>1, <1>3
    <3>2. /\ pc["main"][s] # "send"
          /\ sendTag[s] = Len(out[s]) + 1 + 0
      BY <1>4, <3>1 DEF PacketInv, InSend, TagsUsed, Dead
    <3>3. TagsUsed(s)' /\ InSend(s)'
      BY <2>1, <3>2 DEF TagsUsed, InSend, packetVars
    <3>4. Runs(got[s], 0)' /\ OneGap(s)' /\ TagChecked(s)' /\ Runs(out[s], 0)'
      BY <1>4, <2>1 DEF PacketInv, OneGap, TagChecked, packetVars
    <3> QED
      BY <3>3, <3>4 DEF PacketInv
  <2>7. EndInv(s)'
    <3>1. \A u \in Threads : pc[u][s] \notin {"notify", "unlock"}
      BY <1>4, <1>5 DEF EndInv, Closing
    <3>2. InTurn(s)'
      <4>1. ~(s > made') /\ ~(said[s]["Connected"] > 0)
        BY <1>2, <1>3, <1>4, <1>5 DEF EndInv, InTurn
      <4> QED
        BY <1>5, <2>1, <2>2, <4>1 DEF InTurn
    <3>3. Closing(s)'
      BY <2>1, <3>1 DEF Closing
    <3>4. EndTold(s)'
      BY <1>4, <1>5, <2>1, <2>2 DEF EndInv, EndTold
    <3>5. LeakIsMissed(s)'
      BY <2>1, <2>2, <3>1 DEF LeakIsMissed
    <3> QED
      BY <3>2, <3>3, <3>4, <3>5 DEF EndInv
  <2> QED
    BY <2>4, <2>5, <2>6, <2>7, OwnKeeps
<1> QED
  BY <1>7, <1>8

LEMMA ClientStart == Init => ClientInv
<1> SUFFICES ASSUME Init PROVE ClientInv
  OBVIOUS
<1>1. OwnTypes
  BY ClientAssumption, NothingRuns DEF Init, OwnTypes, Labels, Nets
<1>2. ASSUME NEW s \in Sockets PROVE PacketInv(s)
  <2>1. /\ got[s] = <<>> /\ out[s] = <<>> /\ stream[s] = <<>> /\ sent[s] = 0
        /\ recvTag[s] = 1 /\ sendTag[s] = 1 /\ \A t \in Threads : pc[t][s] = "none"
    BY <1>2 DEF Init
  <2>2. Len(got[s]) = 0 /\ Len(out[s]) = 0 /\ Len(stream[s]) = 0
    BY <2>1
  <2>3. Runs(got[s], 0) /\ Runs(out[s], 0) /\ Near(stream[s], Len(got[s]))
    BY <2>2 DEF Runs, Near
  <2> QED
    BY <2>1, <2>2, <2>3 DEF PacketInv, OneGap, TagChecked, TagsUsed, InSend, Threads
<1>3. ASSUME NEW s \in Sockets PROVE EndInv(s)
  <2>1. /\ \A t \in Threads : pc[t][s] = "none"
        /\ net[s] = "none" /\ \A k \in Kinds : said[s][k] = 0
    BY <1>3 DEF Init
  <2>2. InTurn(s)
    BY <2>1 DEF InTurn, Threads, Kinds
  <2>3. Closing(s) /\ LeakIsMissed(s)
    BY <2>1 DEF Closing, LeakIsMissed
  <2>4. EndTold(s)
    BY <2>1 DEF EndTold, Kinds
  <2> QED
    BY <2>2, <2>3, <2>4 DEF EndInv
<1> QED
  BY <1>1, <1>2, <1>3 DEF ClientInv

LEMMA ClientStep == ClientInv /\ [Next]_vars => ClientInv'
<1> SUFFICES ASSUME ClientInv, [Next]_vars PROVE ClientInv'
  OBVIOUS
<1>1. ASSUME UNCHANGED ownVars PROVE ClientInv'
  BY <1>1 DEF ownVars, ClientInv, OwnTypes, PacketInv, OneGap, TagChecked, TagsUsed, InSend, Dead,
              EndInv, InTurn, Closing, EndTold, LeakIsMissed, Told
<1>2. "main" \in Threads /\ "conn" \in Threads /\ "recv" \in Threads
  BY DEF Threads
<1>3. ASSUME SendMessage PROVE ClientInv'
  <2>1. PICK s \in Sockets : s = cur
    BY <1>3 DEF ClientInv, OwnTypes, SendMessage
  <2> QED
    BY <1>3, <2>1, SendMessageKeeps
<1>4. ASSUME NEW s \in Sockets, Main(s) PROVE ClientInv'
  BY <1>2, <1>4, CloseKeeps, MainCalm, SendPacketKeeps DEF Main
<1>5. ASSUME NEW s \in Sockets, HandleConnected(s) PROVE ClientInv'
  BY <1>2, <1>5, CheckKeeps, EndConnectKeeps, ThreadKeeps, ReadyKeeps, CloseKeeps DEF HandleConnected
<1>6. ASSUME NEW s \in Sockets, IOThreadRecv(s) PROVE ClientInv'
  BY <1>2, <1>6, RecvCalm, HeaderKeeps, PostPacketKeeps, CloseKeeps DEF IOThreadRecv
<1>7. ASSUME NEW s \in Sockets, Completes(s) \/ RemoteSends(s) \/ RemoteEnds(s) PROVE ClientInv'
  BY <1>7, CompletesKeeps, RemoteSendsKeeps, RemoteEndsKeeps
<1> QED
  BY <1>1, <1>3, <1>4, <1>5, <1>6, <1>7, ConnectKeeps, MainCalm DEF Next, Update, vars

-----------------------------------------------------------------------------

\* Both ways, the packets of a connection are the first ones its sender
\* numbered: IOThreadRecv posts none out of turn whatever the remote end leaves
\* out, with any number of tags above one (HandleReadHeader), and a tag that
\* SendPacket uses up in vain is the last one it uses.
THEOREM PacketsArriveInOrder == Spec => []PacketsInOrder
<1>1. ClientInv => PacketsInOrder
  <2> SUFFICES ASSUME ClientInv, NEW s \in Sockets
               PROVE  /\ got[s] = [i \in 1..Len(got[s]) |-> i]
                      /\ out[s] = [i \in 1..Len(out[s]) |-> i]
    BY DEF PacketsInOrder
  <2>1. got[s] \in Seq(Nat) /\ out[s] \in Seq(Nat) /\ Runs(got[s], 0) /\ Runs(out[s], 0)
    BY DEF ClientInv, OwnTypes, PacketInv
  <2>2. ASSUME NEW q \in Seq(Nat), Runs(q, 0) PROVE q = [i \in 1..Len(q) |-> i]
    <3>1. q = [i \in 1..Len(q) |-> 0 + i] /\ Len(q) \in Nat
      BY <2>2, RunIsUnique
    <3>2. [i \in 1..Len(q) |-> 0 + i] = [i \in 1..Len(q) |-> i]
      BY <3>1
    <3> QED
      BY <3>1, <3>2
  <2> QED
    BY <2>1, <2>2
<1> QED
  BY <1>1, ClientStart, ClientStep, PTL DEF Spec

\* OnDisconnected is called at most once per socket, whichever of its three
\* threads gets into Close first, and who was told of a connection has been told
\* of its end when _socket is gone, unless Close missed the connection.
THEOREM EndIsTold == Spec => []EndIsAnnounced
<1>1. ClientInv => EndIsAnnounced
  <2> SUFFICES ASSUME ClientInv, NEW s \in Sockets
               PROVE  /\ said[s]["Disconnected"] <= 1
                      /\ said[s]["Connected"] > 0 /\ s \notin sock /\ ~Leaked(s) => Told(s)
    BY DEF EndIsAnnounced, Told
  <2>1. EndInv(s)
    BY DEF ClientInv
  <2>2. said[s]["Disconnected"] <= 1
    BY <2>1 DEF EndInv, EndTold
  <2>3. ASSUME said[s]["Connected"] > 0, s \notin sock, ~Leaked(s) PROVE Told(s)
    <3>1. net[s] \in {"failed", "closed"}
      BY <2>1, <2>3 DEF EndInv, InTurn, LeakIsMissed, Leaked
    <3>2. \A t \in Threads : pc[t][s] # "notify"
      BY <2>1, <2>3 DEF EndInv, Closing
    <3> QED
      BY <2>1, <3>1, <3>2 DEF EndInv, EndTold
  <2> QED
    BY <2>2, <2>3
<1> QED
  BY <1>1, ClientStart, ClientStep, PTL DEF Spec

=============================================================================
