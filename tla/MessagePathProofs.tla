------------------------- MODULE MessagePathProofs -------------------------
(***************************************************************************)
(* For any messages, ids, codecs and handlers, and any number of messages  *)
(* sent: what is sent is told, and nothing else.                           *)
(***************************************************************************)
EXTENDS MessagePath, SequenceTheorems, TLAPS

\* What Send is called with, the packets, and the calls of the chains.
Sent == [how : {"event", "session"}, msg : Messages \X {"v", "bad"}]

Packets == [name : Messages, data : {"v", NoBytes}, n : Nat]

Heard == (Messages \cup System \cup {NoMsg}) \X {"v", "result", EmptyMsg, NoData}

Calls == [type : System \cup {"Recv"}, n : Nat, got : Seq(Heard)]

PathTypes ==
    /\ recvUp \in {"new", "open", "over"}
    /\ greeted \in BOOLEAN
    /\ metaByName \in [Programs -> SUBSET (Messages \cup System)]
    /\ DOMAIN metaByID = Programs
    /\ chains \in Seq(Nat)
    /\ sentMsgs \in Seq(Sent)
    /\ out \in SUBSET Packets
    /\ onWire \in Seq(Packets)
    /\ told \in Seq(Calls)

\* The tables of a program agree, and an id is that of one message.
MetaAgree ==
    \A p \in Programs :
        /\ System \subseteq metaByName[p]
        /\ \A m \in metaByName[p] : IDOf[m] \in DOMAIN metaByID[p] /\ metaByID[p][IDOf[m]] = m
        /\ \A i \in DOMAIN metaByID[p] : \E m \in metaByName[p] : i = IDOf[m]

\* The packet of the n-th of the messages q, and what comes of a packet where
\* the handlers are c.
PacketOf(q, n) ==
    [name |-> q[n].msg[1],
     data |-> IF Sound(q[n]) THEN q[n].msg[2] ELSE NoBytes,
     n |-> n]

GotOf(c, m, data) ==
    [i \in DOMAIN c |->
        IF c[i] = IDOf[m] /\ (data # NoBytes \/ CodecOf[m] # "json")
        THEN <<m, IF data = NoBytes THEN EmptyMsg ELSE data>> ELSE NotCalled]

CallOf(c, packet) == [type |-> "Recv", n |-> packet.n, got |-> GotOf(c, packet.name, packet.data)]

\* A packet is under way unchanged, and what is told is what comes of it.
Unchanged ==
    /\ \A p \in out : p.n \in DOMAIN sentMsgs /\ p = PacketOf(sentMsgs, p.n)
    /\ \A i \in DOMAIN onWire : onWire[i].n \in DOMAIN sentMsgs /\ onWire[i] = PacketOf(sentMsgs, onWire[i].n)
    /\ \A k \in DOMAIN told : told[k].n > 0 =>
            told[k].n \in DOMAIN sentMsgs /\ told[k] = CallOf(chains, PacketOf(sentMsgs, told[k].n))

\* It is in one place.
InOnePlace ==
    /\ \A p \in out, i \in DOMAIN onWire : p.n # onWire[i].n
    /\ \A p \in out, k \in DOMAIN told : p.n # told[k].n
    /\ \A i, j \in DOMAIN onWire : onWire[i].n = onWire[j].n => i = j
    /\ \A i \in DOMAIN onWire, k \in DOMAIN told : onWire[i].n # told[k].n
    /\ \A j, k \in DOMAIN told : told[j].n > 0 /\ told[j].n = told[k].n => j = k

\* And not in none.
NotLost ==
    recvUp # "over" =>
        \A n \in DOMAIN sentMsgs :
            Sound(sentMsgs[n]) /\ Known("here", sentMsgs[n].msg[1]) =>
                \/ \E p \in out : p.n = n
                \/ \E i \in DOMAIN onWire : onWire[i].n = n
                \/ \E k \in DOMAIN told : told[k].n = n

NothingYet ==
    recvUp = "new" => ~greeted /\ sentMsgs = <<>> /\ out = {} /\ onWire = <<>> /\ told = <<>>

PathInv ==
    PathTypes /\ MetaAgree /\ Unchanged /\ InOnePlace /\ NotLost /\ NothingYet /\ SystemTold

-----------------------------------------------------------------------------

(***************************************************************************)
(* What the chains make of an event.                                       *)
(***************************************************************************)

LEMMA ChainHears ==
    ASSUME PathTypes, MetaAgree, NEW m \in metaByName["there"], NEW id,
           NEW e, e.MsgID = IDOf[m], e.Data # NoData
    PROVE  ChainCall(id, e) =
              IF id = IDOf[m] /\ (e.Data # NoBytes \/ CodecOf[m] # "json")
              THEN <<m, IF e.Data = NoBytes THEN EmptyMsg ELSE e.Data>> ELSE NotCalled
<1>1. m # NoMsg /\ MessageMetaByID("there", IDOf[m]) = m
  <2>1. m \in Messages \cup System
    BY DEF PathTypes, Programs
  <2>2. m # NoMsg
    BY <2>1, MessageAssumption DEF NoMsg, System
  <2> QED
    BY <2>2 DEF MetaAgree, Programs, MessageMetaByID
<1>2. CASE e.Data # NoBytes
  <2>1. DecodeMessage("there", e.MsgID, e.Data) = [msg |-> <<m, e.Data>>, err |-> FALSE]
    BY <1>1, <1>2 DEF DecodeMessage
  <2> QED
    BY <1>2, <2>1 DEF ChainCall, Matches, DecodePacket
<1>3. CASE e.Data = NoBytes
  <2>2. CASE CodecOf[m] = "json"
    <3>1. DecodeMessage("there", e.MsgID, e.Data) = [msg |-> <<NoMsg, NoData>>, err |-> TRUE]
      BY <1>1, <1>3, <2>2 DEF DecodeMessage
    <3>2. DecodePacket(e).err = TRUE
      BY <3>1 DEF DecodePacket
    <3> QED
      BY <1>3, <2>2, <3>2 DEF ChainCall
  <2>3. CASE CodecOf[m] # "json"
    <3>1. DecodeMessage("there", e.MsgID, e.Data) = [msg |-> <<m, EmptyMsg>>, err |-> FALSE]
      BY <1>1, <1>3, <2>3 DEF DecodeMessage
    <3>2. DecodePacket(e).err = FALSE /\ DecodePacket(e).msg = <<m, EmptyMsg>>
      BY <3>1 DEF DecodePacket
    <3> QED
      BY <1>3, <2>3, <3>2 DEF ChainCall, Matches
  <2> QED
    BY <2>2, <2>3
<1> QED
  BY <1>2, <1>3

\* The log changes neither id nor data of an event that has an id.
LEMMA LogKeeps ==
    ASSUME NEW e \in [MsgID : Nat \ {0}, Msg : {<<NoMsg, NoData>>}, Data : {NoData, NoBytes, "v", "result"}],
           NEW p
    PROVE  /\ MsgLog(p, e).MsgID = e.MsgID /\ MsgLog(p, e).Data = e.Data
           /\ Clone(MsgLog(p, e)).MsgID = e.MsgID
           /\ Clone(MsgLog(p, e)).Data = IF e.Data = NoData THEN NoBytes ELSE e.Data
<1>1. PICK x : x = DecodeMessage(p, e.MsgID, e.Data).msg
  OBVIOUS
<1>2. Parse(p, e) \in {e, [e EXCEPT !.Msg = x]}
  BY <1>1 DEF Parse, NoID
<1>3. MsgLog(p, e) \in {e, [e EXCEPT !.Msg = x]}
  BY <1>2 DEF MsgLog
<1>4. e = [MsgID |-> e.MsgID, Msg |-> e.Msg, Data |-> e.Data]
  OBVIOUS
<1>5. PICK y : MsgLog(p, e) = [MsgID |-> e.MsgID, Msg |-> y, Data |-> e.Data]
  BY <1>3, <1>4
<1> QED
  BY <1>5 DEF Clone

LEMMA ListHears ==
    ASSUME PathTypes, MetaAgree, NEW m \in metaByName["there"], NEW n, NEW e,
           e \in [MsgID : Nat \ {0}, Msg : {<<NoMsg, NoData>>}, Data : {NoData, NoBytes, "v", "result"}],
           e.MsgID = IDOf[m], NEW t, ChainListCall(t, MsgLog("there", e), n)
    PROVE  told' = Append(told, [type |-> t, n |-> n, got |-> GotOf(chains, m, IF e.Data = NoData THEN NoBytes ELSE e.Data)])
<1>1. PICK c : c = Clone(MsgLog("there", e))
  OBVIOUS
<1>2. c.MsgID = IDOf[m] /\ c.Data = (IF e.Data = NoData THEN NoBytes ELSE e.Data)
  BY <1>1, LogKeeps
<1>3. c.Data # NoData
  BY <1>2 DEF NoData, NoBytes
<1>4. \A i \in DOMAIN chains : ChainCall(chains[i], c) =
              IF chains[i] = IDOf[m] /\ (c.Data # NoBytes \/ CodecOf[m] # "json")
              THEN <<m, IF c.Data = NoBytes THEN EmptyMsg ELSE c.Data>> ELSE NotCalled
  BY <1>2, <1>3, ChainHears
<1>5. [i \in DOMAIN chains |-> ChainCall(chains[i], c)] = GotOf(chains, m, c.Data)
  BY <1>4 DEF GotOf
<1>6. told' = Append(told, [type |-> t, n |-> n, got |-> [i \in DOMAIN chains |-> ChainCall(chains[i], c)]])
  BY <1>1, Zenon DEF ChainListCall
<1> QED
  BY <1>2, <1>5, <1>6, Zenon

\* A packet that comes in.
LEMMA PacketHeard ==
    ASSUME PathTypes, MetaAgree, NEW p \in Packets, p.name \in metaByName["there"],
           ChainListCall("Recv", MsgLog("there", RawEvent(IDOf[p.name], p.data)), p.n)
    PROVE  told' = Append(told, CallOf(chains, p))
<1>1. PICK e : e = [MsgID |-> IDOf[p.name], Msg |-> <<NoMsg, NoData>>, Data |-> p.data]
  OBVIOUS
<1>2. RawEvent(IDOf[p.name], p.data) = e
  BY <1>1 DEF RawEvent
<1>3. p.name \in Messages /\ p.data \in {"v", NoBytes} /\ IDOf[p.name] \in Nat \ {0}
  BY MessageAssumption DEF Packets
<1>4. /\ e \in [MsgID : Nat \ {0}, Msg : {<<NoMsg, NoData>>}, Data : {NoData, NoBytes, "v", "result"}]
      /\ e.MsgID = IDOf[p.name] /\ e.Data = p.data
  BY <1>1, <1>3
<1>5. ChainListCall("Recv", MsgLog("there", e), p.n)
  BY <1>2
<1>6. p.data # NoData
  BY <1>3 DEF NoBytes, NoData
<1>7. told' = Append(told, [type |-> "Recv", n |-> p.n, got |-> GotOf(chains, p.name, IF e.Data = NoData THEN NoBytes ELSE e.Data)])
  BY <1>4, <1>5, ListHears
<1> QED
  BY <1>4, <1>6, <1>7 DEF CallOf

LEMMA SystemHeard ==
    ASSUME PathTypes, MetaAgree
    PROVE  /\ PostSystemEvent("Accepted") => told' = Append(told, SystemCall("Accepted", EmptyMsg))
           /\ PostSystemEvent("Closed") => told' = Append(told, SystemCall("Closed", "result"))
<1>1. \A m \in System : /\ m \in metaByName["there"] /\ IDOf[m] \in Nat \ {0}
                        /\ CodecOf[m] # "json"
  BY MessageAssumption DEF MetaAgree, Programs
<1>2. ASSUME PostSystemEvent("Accepted") PROVE told' = Append(told, SystemCall("Accepted", EmptyMsg))
  <2>1. PICK e : e = [MsgID |-> IDOf["Accepted"], Msg |-> <<NoMsg, NoData>>, Data |-> NoData]
    OBVIOUS
  <2>2. RawEvent(IDOf["Accepted"], NoData) = e
    BY <2>1 DEF RawEvent
  <2>3. ChainListCall("Accepted", MsgLog("there", e), 0)
    BY <1>2, <2>2 DEF PostSystemEvent
  <2>4. /\ e \in [MsgID : Nat \ {0}, Msg : {<<NoMsg, NoData>>}, Data : {NoData, NoBytes, "v", "result"}]
        /\ e.MsgID = IDOf["Accepted"] /\ e.Data = NoData /\ "Accepted" \in metaByName["there"]
    BY <1>1, <2>1 DEF System
  <2>5. told' = Append(told, [type |-> "Accepted", n |-> 0, got |-> GotOf(chains, "Accepted", NoBytes)])
    BY <2>3, <2>4, ListHears
  <2>6. GotOf(chains, "Accepted", NoBytes)
          = [i \in DOMAIN chains |-> IF chains[i] = IDOf["Accepted"] THEN <<"Accepted", EmptyMsg>> ELSE NotCalled]
    BY <1>1 DEF GotOf, System
  <2> QED
    BY <2>5, <2>6 DEF SystemCall
<1>3. ASSUME PostSystemEvent("Closed") PROVE told' = Append(told, SystemCall("Closed", "result"))
  <2>1. PICK e : e = [MsgID |-> IDOf["Closed"], Msg |-> <<NoMsg, NoData>>, Data |-> "result"]
    OBVIOUS
  <2>2. FromMessage("there", <<"Closed", "result">>) = e
    <3>1. EncodeMessage("there", <<"Closed", "result">>)
            = [Data |-> "result", MsgID |-> IDOf["Closed"], err |-> FALSE]
      <4> PICK x : x = <<"Closed", "result">>
        OBVIOUS
      <4>1. x = <<"Closed", "result">> /\ x[1] = "Closed" /\ x[2] = "result"
        OBVIOUS
      <4>2. Known("there", x[1]) /\ Encodable(x[1], x[2])
        BY <1>1, <4>1 DEF Known, Encodable, System
      <4>3. EncodeMessage("there", x) = [Data |-> x[2], MsgID |-> IDOf[x[1]], err |-> FALSE]
        BY <4>2 DEF EncodeMessage
      <4> QED
        BY <4>1, <4>3
    <3> QED
      BY <2>1, <3>1 DEF FromMessage, RawEvent
  <2>3. ChainListCall("Closed", MsgLog("there", e), 0)
    BY <1>3, <2>2 DEF PostSystemEvent
  <2>4. /\ e \in [MsgID : Nat \ {0}, Msg : {<<NoMsg, NoData>>}, Data : {NoData, NoBytes, "v", "result"}]
        /\ e.MsgID = IDOf["Closed"] /\ e.Data = "result" /\ "Closed" \in metaByName["there"]
        /\ "result" # NoData /\ "result" # NoBytes
    BY <1>1, <2>1 DEF System, NoData, NoBytes
  <2>5. told' = Append(told, [type |-> "Closed", n |-> 0, got |-> GotOf(chains, "Closed", "result")])
    BY <2>3, <2>4, ListHears
  <2>6. GotOf(chains, "Closed", "result")
          = [i \in DOMAIN chains |-> IF chains[i] = IDOf["Closed"] THEN <<"Closed", "result">> ELSE NotCalled]
    BY <2>4 DEF GotOf
  <2> QED
    BY <2>5, <2>6 DEF SystemCall
<1> QED
  BY <1>2, <1>3

\* What is told has its type.
LEMMA CallTypes ==
    ASSUME PathTypes
    PROVE  /\ \A p \in Packets :
                 CallOf(chains, p) \in Calls /\ CallOf(chains, p).n = p.n /\ CallOf(chains, p).type = "Recv"
           /\ \A m \in System, v \in {EmptyMsg, "result"} :
                 SystemCall(m, v) \in Calls /\ SystemCall(m, v).n = 0 /\ SystemCall(m, v).type = m
<1>1. DOMAIN chains = 1..Len(chains) /\ Len(chains) \in Nat
  BY LenProperties DEF PathTypes
<1>2. NotCalled \in Heard /\ \A m \in System, v \in {EmptyMsg, "result"} : <<m, v>> \in Heard
  BY DEF NotCalled, Heard, System
<1>3. ASSUME NEW p \in Packets
      PROVE  CallOf(chains, p) \in Calls /\ CallOf(chains, p).n = p.n /\ CallOf(chains, p).type = "Recv"
  <2>1. <<p.name, IF p.data = NoBytes THEN EmptyMsg ELSE p.data>> \in Heard
    BY DEF Packets, Heard
  <2>2. GotOf(chains, p.name, p.data) \in Seq(Heard)
    BY <1>1, <1>2, <2>1 DEF GotOf
  <2> QED
    BY <2>2 DEF CallOf, Calls, Packets
<1>4. ASSUME NEW m \in System, NEW v \in {EmptyMsg, "result"}
      PROVE  SystemCall(m, v) \in Calls /\ SystemCall(m, v).n = 0 /\ SystemCall(m, v).type = m
  <2> PICK x \in Heard : x = <<m, v>>
    BY <1>2
  <2>1. [i \in DOMAIN chains |-> IF chains[i] = IDOf[m] THEN <<m, v>> ELSE NotCalled] \in Seq(Heard)
    BY <1>1, <1>2
  <2>2. PICK got \in Seq(Heard) : SystemCall(m, v) = [type |-> m, n |-> 0, got |-> got]
    BY <2>1 DEF SystemCall
  <2> QED
    BY <2>2 DEF Calls
<1> QED
  BY <1>3, <1>4

-----------------------------------------------------------------------------

(***************************************************************************)
(* Sequences that grow at the end, or are read at the front.               *)
(***************************************************************************)

LEMMA Appended ==
    ASSUME NEW S, NEW q \in Seq(S), NEW x \in S
    PROVE  /\ Append(q, x) \in Seq(S) /\ Append(q, x) # <<>>
           /\ Len(q) \in Nat /\ Len(Append(q, x)) = Len(q) + 1
           /\ DOMAIN q = 1..Len(q) /\ DOMAIN Append(q, x) = 1..(Len(q) + 1)
           /\ \A i \in DOMAIN Append(q, x) :
                 \/ i \in DOMAIN q /\ i # Len(q) + 1 /\ Append(q, x)[i] = q[i]
                 \/ i \notin DOMAIN q /\ i = Len(q) + 1 /\ Append(q, x)[i] = x
           /\ \A i \in DOMAIN q : i \in DOMAIN Append(q, x) /\ Append(q, x)[i] = q[i]
           /\ Len(q) + 1 \in DOMAIN Append(q, x) /\ Append(q, x)[Len(q) + 1] = x
<1>1. Len(q) \in Nat /\ DOMAIN q = 1..Len(q)
  BY LenProperties
<1>2. /\ Append(q, x) \in Seq(S) /\ Append(q, x) # <<>> /\ Len(Append(q, x)) = Len(q) + 1
      /\ \A i \in 1..Len(q) : Append(q, x)[i] = q[i]
      /\ Append(q, x)[Len(q) + 1] = x
  BY AppendProperties
<1>3. DOMAIN Append(q, x) = 1..(Len(q) + 1)
  BY <1>1, <1>2, LenProperties
<1> QED
  BY <1>1, <1>2, <1>3

LEMMA Taken ==
    ASSUME NEW S, NEW q \in Seq(S), q # <<>>
    PROVE  /\ Tail(q) \in Seq(S) /\ Head(q) \in S /\ 1 \in DOMAIN q /\ Head(q) = q[1]
           /\ \A i \in DOMAIN Tail(q) : i + 1 \in DOMAIN q /\ i + 1 # 1 /\ Tail(q)[i] = q[i + 1]
           /\ \A i \in DOMAIN q : i # 1 => i - 1 \in DOMAIN Tail(q) /\ Tail(q)[i - 1] = q[i]
           /\ \A i, j \in DOMAIN Tail(q) : i + 1 = j + 1 => i = j
<1>1. Len(q) \in Nat /\ DOMAIN q = 1..Len(q) /\ Len(q) # 0
  BY LenProperties, EmptySeq
<1>2. /\ Tail(q) \in Seq(S) /\ Head(q) \in S /\ Head(q) = q[1] /\ Len(Tail(q)) = Len(q) - 1
      /\ \A i \in 1..Len(Tail(q)) : Tail(q)[i] = q[i + 1]
  BY HeadTailProperties
<1>3. DOMAIN Tail(q) = 1..(Len(q) - 1)
  BY <1>1, <1>2, LenProperties
<1>4. \A i \in DOMAIN Tail(q) : i + 1 \in DOMAIN q /\ i + 1 # 1 /\ Tail(q)[i] = q[i + 1]
  BY <1>1, <1>2, <1>3
<1>5. ASSUME NEW i \in DOMAIN q, i # 1 PROVE i - 1 \in DOMAIN Tail(q) /\ Tail(q)[i - 1] = q[i]
  <2>1. i - 1 \in DOMAIN Tail(q) /\ (i - 1) + 1 = i
    BY <1>1, <1>3, <1>5
  <2> QED
    BY <1>4, <2>1
<1> QED
  BY <1>1, <1>2, <1>3, <1>4, <1>5

-----------------------------------------------------------------------------

(***************************************************************************)
(* What is sent.                                                           *)
(***************************************************************************)

\* The packet of a message, if there is one: there is if it was encoded.
LEMMA PacketMade ==
    ASSUME PathTypes, MetaAgree, NEW how \in {"event", "session"}, NEW m \in Messages, NEW v \in {"v", "bad"},
           RawSend(IF how = "event" THEN EventSend(<<m, v>>) ELSE SessionSend(<<m, v>>)),
           NEW packet,
           packet = [name |-> m, data |-> IF how = "event" /\ v # "bad" THEN v ELSE NoBytes, n |-> Len(sentMsgs) + 1]
    PROVE  /\ out' \in {out, out \cup {packet}}
           /\ how = "event" /\ v # "bad" /\ Known("here", m) => out' = out \cup {packet}
<1>1. IDOf[m] \in Nat \ {0} /\ m # NoMsg
  BY MessageAssumption DEF NoMsg
<1>2. MessageMetaByID("here", NoID) = NoMsg
  <2>1. metaByName["here"] \subseteq DOMAIN IDOf
    BY MessageAssumption DEF PathTypes, Programs
  <2>2. NoID \notin DOMAIN metaByID["here"]
    BY <2>1, MessageAssumption DEF MetaAgree, Programs, NoID
  <2> QED
    BY <2>2 DEF MessageMetaByID
<1>3. Known("here", m) => MessageMetaByID("here", IDOf[m]) = m
  BY DEF Known, MetaAgree, Programs, MessageMetaByID
<1>4. PICK x : x = <<m, v>>
  OBVIOUS
<1>5. x[1] = m /\ x[2] = v
  BY <1>4
<1>6. CASE how = "event"
  <2>1. RawSend(EncodePacket("here", [NewEvent EXCEPT !.Msg = x]))
    BY <1>4, <1>6 DEF EventSend
  <2>2. [NewEvent EXCEPT !.Msg = x].Msg = x
    BY DEF NewEvent, RawEvent
  <2>3. CASE Known("here", m)
    <3>1. /\ EncodeMessage("here", x).Data = IF v # "bad" THEN v ELSE NoData
          /\ EncodeMessage("here", x).MsgID = IDOf[m]
      BY <1>5, <2>3 DEF EncodeMessage, Encodable
    <3>2. PICK e : e = [MsgID |-> IDOf[m], Msg |-> x, Data |-> IF v # "bad" THEN v ELSE NoData]
      OBVIOUS
    <3>3. EncodePacket("here", [NewEvent EXCEPT !.Msg = x]) = e
      BY <2>2, <3>1, <3>2 DEF EncodePacket
    <3>4. MsgLog("here", e) = e
      BY <1>1, <1>5, <3>2 DEF MsgLog, Parse, NoID
    <3>5. MessageMetaByID("here", MsgLog("here", e).MsgID) = m
      BY <1>3, <2>3, <3>2, <3>4
    <3>6. composePacket(e.Data) = IF v # "bad" THEN v ELSE NoBytes
      BY <3>2 DEF composePacket, NoData
    <3>7. [name |-> m, data |-> composePacket(e.Data), n |-> Len(sentMsgs) + 1] = packet
      BY <1>6, <3>6
    <3>8. RawSend(e)
      BY <2>1, <3>3
    <3>9. out' = out \cup {packet}
      BY <1>1, <3>5, <3>7, <3>8 DEF RawSend
    <3> QED
      BY <3>9
  <2>4. CASE ~Known("here", m)
    <3>1. EncodeMessage("here", x).Data = NoData /\ EncodeMessage("here", x).MsgID = NoID
      BY <1>5, <2>4 DEF EncodeMessage
    <3>2. PICK e : e = [MsgID |-> NoID, Msg |-> x, Data |-> NoData]
      OBVIOUS
    <3>3. EncodePacket("here", [NewEvent EXCEPT !.Msg = x]) = e
      BY <2>2, <3>1, <3>2 DEF EncodePacket
    <3>4. MsgLog("here", e) = e
      BY <1>1, <1>5, <2>4, <3>2 DEF MsgLog, Parse
    <3>5. RawSend(e)
      BY <2>1, <3>3
    <3>6. MessageMetaByID("here", MsgLog("here", e).MsgID) = NoMsg
      BY <1>2, <3>2, <3>4
    <3> QED
      BY <2>4, <3>5, <3>6 DEF RawSend
  <2> QED
    BY <2>3, <2>4
<1>7. CASE how = "session"
  <2>1. PICK e : e = [MsgID |-> NoID, Msg |-> x, Data |-> NoData]
    OBVIOUS
  <2>2. SessionSend(x) = e
    BY <2>1 DEF SessionSend, NewEvent, RawEvent
  <2>3. RawSend(e)
    BY <1>4, <1>7, <2>2
  <2>4. composePacket(e.Data) = NoBytes
    BY <2>1 DEF composePacket
  <2>5. [name |-> m, data |-> composePacket(e.Data), n |-> Len(sentMsgs) + 1] = packet
    BY <1>7, <2>4
  <2>6. CASE debug /\ Known("here", m)
    <3>1. MsgLog("here", e).MsgID = IDOf[m]
      BY <1>1, <1>5, <2>1, <2>6 DEF MsgLog, Parse
    <3>2. MessageMetaByID("here", MsgLog("here", e).MsgID) = m
      BY <1>3, <2>6, <3>1
    <3> QED
      BY <1>1, <1>7, <2>3, <2>5, <3>2 DEF RawSend
  <2>7. CASE ~(debug /\ Known("here", m))
    <3>1. MsgLog("here", e) = e
      BY <1>1, <1>5, <2>1, <2>7 DEF MsgLog, Parse
    <3>2. MessageMetaByID("here", MsgLog("here", e).MsgID) = NoMsg
      BY <1>2, <2>1, <3>1
    <3> QED
      BY <1>7, <2>3, <3>2 DEF RawSend
  <2> QED
    BY <2>6, <2>7
<1> QED
  BY <1>6, <1>7

-----------------------------------------------------------------------------

(***************************************************************************)
(* The invariant holds in the beginning, and every step keeps it.          *)
(***************************************************************************)

\* While the session is new there is nothing to go wrong.
LEMMA StillNew ==
    ASSUME recvUp' = "new", greeted' = FALSE, sentMsgs' = <<>>, out' = {}, onWire' = <<>>, told' = <<>>
    PROVE  (Unchanged /\ InOnePlace /\ NotLost /\ NothingYet /\ SystemTold)'
<1>1. DOMAIN sentMsgs' = {} /\ DOMAIN onWire' = {} /\ DOMAIN told' = {}
  OBVIOUS
<1> QED
  BY <1>1 DEF Unchanged, InOnePlace, NotLost, NothingYet, SystemTold

LEMMA InvInit == PathInit => PathInv
<1> SUFFICES ASSUME PathInit PROVE PathInv
  OBVIOUS
<1> USE DEF PathInit
<1>1. DOMAIN sentMsgs = {} /\ DOMAIN onWire = {} /\ DOMAIN told = {}
  OBVIOUS
<1>2. Unchanged /\ InOnePlace /\ NotLost /\ NothingYet /\ SystemTold
  <2>1. ~greeted /\ recvUp = "new"
    OBVIOUS
  <2> QED
    BY <1>1, <2>1 DEF Unchanged, InOnePlace, NotLost, NothingYet, SystemTold
<1>3. PathTypes
  <2>1. greeted \in BOOLEAN
    BY Zenon
  <2> QED
    BY <2>1 DEF PathTypes, System
<1>4. MetaAgree
  <2> SUFFICES ASSUME NEW p \in Programs
               PROVE  /\ System \subseteq metaByName[p]
                      /\ \A m \in metaByName[p] : IDOf[m] \in DOMAIN metaByID[p] /\ metaByID[p][IDOf[m]] = m
                      /\ \A i \in DOMAIN metaByID[p] : \E m \in metaByName[p] : i = IDOf[m]
    BY DEF MetaAgree
  <2>1. metaByName[p] = System /\ DOMAIN metaByID[p] = {IDOf[m] : m \in System}
    OBVIOUS
  <2>2. ASSUME NEW m \in System PROVE metaByID[p][IDOf[m]] = m
    <3>1. metaByID[p][IDOf[m]] = CHOOSE n \in System : IDOf[n] = IDOf[m]
      BY <2>1
    <3>2. ASSUME NEW n \in System, IDOf[n] = IDOf[m] PROVE n = m
      <4>1. n \in {"Accepted", "Closed"} /\ m \in {"Accepted", "Closed"}
        BY DEF System
      <4>2. IDOf["Accepted"] # IDOf["Closed"]
        BY MessageAssumption
      <4> QED
        BY <3>2, <4>1, <4>2
    <3> QED
      BY <3>1, <3>2
  <2> QED
    BY <2>1, <2>2
<1> QED
  BY <1>2, <1>3, <1>4 DEF PathInv

LEMMA RegisterMessageMetaStep ==
    ASSUME PathInv, NEW p \in Programs, NEW m \in Messages, RegisterMessageMeta(p, m)
    PROVE  PathInv'
<1>1. recvUp' = "new" /\ greeted' = FALSE /\ sentMsgs' = <<>> /\ out' = {} /\ onWire' = <<>> /\ told' = <<>>
  BY DEF PathInv, NothingYet, RegisterMessageMeta
<1>2. PathTypes'
  BY DEF PathInv, PathTypes, RegisterMessageMeta
<1>3. MetaAgree'
  <2> SUFFICES ASSUME NEW q \in Programs
               PROVE  /\ System \subseteq metaByName'[q]
                      /\ \A k \in metaByName'[q] : IDOf[k] \in DOMAIN metaByID'[q] /\ metaByID'[q][IDOf[k]] = k
                      /\ \A i \in DOMAIN metaByID'[q] : \E k \in metaByName'[q] : i = IDOf[k]
    BY DEF MetaAgree
  <2>1. /\ System \subseteq metaByName[q]
        /\ \A k \in metaByName[q] : IDOf[k] \in DOMAIN metaByID[q] /\ metaByID[q][IDOf[k]] = k
        /\ \A i \in DOMAIN metaByID[q] : \E k \in metaByName[q] : i = IDOf[k]
    BY DEF PathInv, MetaAgree
  <2>2. CASE q = p
    <3>1. metaByName'[q] = metaByName[q] \cup {m}
      BY <2>2 DEF PathInv, PathTypes, RegisterMessageMeta
    <3>2. metaByID'[q] = [i \in DOMAIN metaByID[q] \cup {IDOf[m]} |->
                             IF i = IDOf[m] THEN m ELSE metaByID[q][i]]
      BY <2>2 DEF PathInv, PathTypes, RegisterMessageMeta
    <3>3. IDOf[m] \notin DOMAIN metaByID[q]
      BY <2>2 DEF RegisterMessageMeta, Free
    <3>4. \A k \in metaByName[q] : IDOf[k] # IDOf[m]
      BY <2>1, <3>3
    <3> QED
      BY <2>1, <3>1, <3>2, <3>4
  <2>3. CASE q # p
    <3>1. metaByName'[q] = metaByName[q] /\ metaByID'[q] = metaByID[q]
      BY <2>3 DEF PathInv, PathTypes, RegisterMessageMeta
    <3> QED
      BY <2>1, <3>1
  <2> QED
    BY <2>2, <2>3
<1> QED
  BY <1>1, <1>2, <1>3, StillNew DEF PathInv

LEMMA RegisterHandlerStep ==
    ASSUME PathInv, NEW m \in Messages \cup System, RegisterHandler(m)
    PROVE  PathInv'
<1>1. recvUp' = "new" /\ greeted' = FALSE /\ sentMsgs' = <<>> /\ out' = {} /\ onWire' = <<>> /\ told' = <<>>
  BY DEF PathInv, NothingYet, RegisterHandler
<1>2. IDOf[m] \in Nat /\ chains \in Seq(Nat)
  BY MessageAssumption DEF PathInv, PathTypes
<1>3. chains' \in Seq(Nat)
  BY <1>2, AppendProperties DEF RegisterHandler
<1>4. PathTypes' /\ MetaAgree'
  BY <1>3 DEF PathInv, PathTypes, MetaAgree, RegisterHandler
<1> QED
  BY <1>1, <1>4, StillNew DEF PathInv

\* The events that go into told: one that is there is neither changed nor told
\* again, and one that comes is the last.
LEMMA SystemAppend ==
    ASSUME PathInv, NEW c \in Calls, told' = Append(told, c), chains' = chains,
           c.type = "Recv" \/ \A k \in DOMAIN told : told[k].type # c.type,
           c.type = "Recv" => recvUp # "over" /\ c.n > 0,
           c.type = "Accepted" => c = SystemCall("Accepted", EmptyMsg),
           c.type = "Closed" => c = SystemCall("Closed", "result"),
           greeted' <=> greeted \/ c.type = "Accepted",
           recvUp' = "over" <=> recvUp = "over" \/ c.type = "Closed"
    PROVE  SystemTold'
<1>1. told \in Seq(Calls)
  BY DEF PathInv, PathTypes
<1>2. /\ Len(told) \in Nat /\ DOMAIN told = 1..Len(told)
      /\ \A k \in DOMAIN told' : \/ k \in DOMAIN told /\ k # Len(told) + 1 /\ told'[k] = told[k]
                                 \/ k \notin DOMAIN told /\ k = Len(told) + 1 /\ told'[k] = c
      /\ \A k \in DOMAIN told : k \in DOMAIN told' /\ told'[k] = told[k]
      /\ Len(told) + 1 \in DOMAIN told' /\ told'[Len(told) + 1] = c
  BY <1>1, Appended
<1>3. \A m, v : SystemCall(m, v)' = SystemCall(m, v)
  BY DEF SystemCall
<1>4. c.type \in {"Recv", "Accepted", "Closed"}
  BY DEF Calls, System
<1>5. ASSUME NEW k \in DOMAIN told'
      PROVE  \/ told'[k].type = "Recv" /\ told'[k].n > 0
             \/ greeted' /\ told'[k] = SystemCall("Accepted", EmptyMsg)'
             \/ recvUp' = "over" /\ told'[k] = SystemCall("Closed", "result")'
  <2>1. CASE k \in DOMAIN told /\ told'[k] = told[k]
    BY <1>3, <2>1 DEF PathInv, SystemTold
  <2>2. CASE told'[k] = c
    BY <1>3, <1>4, <2>2
  <2> QED
    BY <1>2, <2>1, <2>2
<1>6. greeted' => \E k \in DOMAIN told' : told'[k].type = "Accepted"
  BY <1>2 DEF PathInv, SystemTold
<1>7. recvUp' = "over" => \E k \in DOMAIN told' : told'[k].type = "Closed"
  BY <1>2 DEF PathInv, SystemTold
<1>8. ASSUME NEW j \in DOMAIN told', NEW k \in DOMAIN told', told'[j].type # "Recv", told'[j].type = told'[k].type
      PROVE  j = k
  BY <1>2, <1>8 DEF PathInv, SystemTold
<1>9. ASSUME NEW j \in DOMAIN told', NEW k \in DOMAIN told', told'[j].type = "Closed", told'[k].type = "Recv"
      PROVE  k < j
  <2>1. CASE k \in DOMAIN told /\ told'[k] = told[k] /\ j \in DOMAIN told /\ told'[j] = told[j]
    BY <1>9, <2>1 DEF PathInv, SystemTold
  <2>2. CASE k \in DOMAIN told /\ j = Len(told) + 1
    BY <1>2, <2>2
  <2>3. CASE told'[k] = c /\ told'[j] = c
    BY <1>9, <2>3
  <2>4. CASE told'[k] = c /\ j \in DOMAIN told /\ told'[j] = told[j]
    <3>1. recvUp # "over" /\ told[j].type = "Closed" /\ told[j].type # "Recv" /\ told[j].type # "Accepted"
      BY <1>9, <2>4
    <3>2. SystemCall("Accepted", EmptyMsg).type = "Accepted"
      BY DEF SystemCall
    <3> QED
      BY <2>4, <3>1, <3>2 DEF PathInv, SystemTold
  <2> QED
    BY <1>2, <2>1, <2>2, <2>3, <2>4
<1> QED
  BY <1>5, <1>6, <1>7, <1>8, <1>9 DEF SystemTold

\* Nothing was sent to a session that is not open yet.
LEMMA AcceptStep ==
    ASSUME PathInv, Accept
    PROVE  PathInv'
<1>1. /\ recvUp' = "open" /\ ~greeted' /\ sentMsgs' = <<>> /\ out' = {} /\ onWire' = <<>> /\ told' = <<>>
  BY DEF PathInv, NothingYet, Accept
<1>2. DOMAIN sentMsgs' = {} /\ DOMAIN onWire' = {} /\ DOMAIN told' = {}
  BY <1>1
<1>3. PathTypes' /\ MetaAgree'
  BY DEF PathInv, PathTypes, MetaAgree, Accept, metaVars
<1> QED
  BY <1>1, <1>2, <1>3 DEF PathInv, Unchanged, InOnePlace, NotLost, NothingYet, SystemTold

\* A system event is told to the chains, and no packet is moved.
LEMMA GreetStep ==
    ASSUME PathInv, Greet
    PROVE  PathInv'
<1>1. /\ metaByName' = metaByName /\ metaByID' = metaByID /\ chains' = chains /\ recvUp' = recvUp
      /\ sentMsgs' = sentMsgs /\ out' = out /\ onWire' = onWire
      /\ recvUp # "new" /\ ~greeted /\ greeted'
  BY DEF Greet, metaVars
<1>2. PICK c : c = SystemCall("Accepted", EmptyMsg)
  OBVIOUS
<1>3. c \in Calls /\ c.n = 0 /\ c.type = "Accepted"
  BY <1>2, CallTypes DEF PathInv, System
<1>4. told' = Append(told, c)
  BY <1>2, SystemHeard DEF PathInv, Greet
<1>5. told \in Seq(Calls)
  BY DEF PathInv, PathTypes
<1>6. /\ told' \in Seq(Calls) /\ DOMAIN told = 1..Len(told)
      /\ \A k \in DOMAIN told' : \/ k \in DOMAIN told /\ told'[k] = told[k]
                                 \/ k \notin DOMAIN told /\ told'[k] = c
      /\ \A k \in DOMAIN told : k \in DOMAIN told' /\ told'[k] = told[k]
  BY <1>3, <1>4, <1>5, Appended
<1>7. PathTypes' /\ MetaAgree' /\ NothingYet'
  BY <1>1, <1>6 DEF PathInv, PathTypes, MetaAgree, NothingYet
<1>8. \A k \in DOMAIN told' : told'[k].n > 0 => k \in DOMAIN told /\ told'[k] = told[k]
  BY <1>3, <1>6
<1>9. Unchanged'
  BY <1>1, <1>8 DEF PathInv, Unchanged
<1>10. InOnePlace'
  <2>1. \A p \in out : p.n # 0
    BY LenProperties DEF PathInv, PathTypes, Unchanged
  <2>2. \A i \in DOMAIN onWire : onWire[i].n # 0
    BY LenProperties DEF PathInv, PathTypes, Unchanged
  <2>3. \A p \in out, k \in DOMAIN told' : p.n # told'[k].n
    BY <1>3, <1>6, <2>1 DEF PathInv, InOnePlace
  <2>4. \A i \in DOMAIN onWire, k \in DOMAIN told' : onWire[i].n # told'[k].n
    BY <1>3, <1>6, <2>2 DEF PathInv, InOnePlace
  <2>5. \A j, k \in DOMAIN told' : told'[j].n > 0 /\ told'[j].n = told'[k].n => j = k
    BY <1>8 DEF PathInv, InOnePlace
  <2> QED
    BY <1>1, <2>3, <2>4, <2>5 DEF PathInv, InOnePlace
<1>11. NotLost'
  BY <1>1, <1>6 DEF PathInv, NotLost, Known, Sound
<1>12. SystemTold'
  <2>1. \A k \in DOMAIN told : told[k].type # "Accepted"
    <3>1. SystemCall("Accepted", EmptyMsg).type = "Accepted" /\ SystemCall("Closed", "result").type = "Closed"
      BY DEF SystemCall
    <3> QED
      BY <1>1, <3>1 DEF PathInv, SystemTold
  <2> QED
    BY <1>1, <1>2, <1>3, <1>4, <2>1, SystemAppend
<1> QED
  BY <1>7, <1>9, <1>10, <1>11, <1>12 DEF PathInv

\* What was sent before is as it was; the new packet is that of the new message.
LEMMA SendStep ==
    ASSUME PathInv, NEW how \in {"event", "session"}, NEW m \in Messages, NEW v \in {"v", "bad"},
           Send(how, <<m, v>>)
    PROVE  PathInv'
<1>1. PICK s : s = [how |-> how, msg |-> <<m, v>>]
  OBVIOUS
<1>2. s \in Sent /\ s.how = how /\ s.msg = <<m, v>> /\ s.msg[1] = m /\ s.msg[2] = v
  BY <1>1 DEF Sent
<1>3. PICK packet :
         packet = [name |-> m, data |-> IF how = "event" /\ v # "bad" THEN v ELSE NoBytes, n |-> Len(sentMsgs) + 1]
  OBVIOUS
<1>4. /\ out' \in {out, out \cup {packet}}
      /\ how = "event" /\ v # "bad" /\ Known("here", m) => out' = out \cup {packet}
  BY <1>3, PacketMade DEF PathInv, Send
<1>5. sentMsgs' = Append(sentMsgs, s) /\ sentMsgs \in Seq(Sent)
  BY <1>1 DEF Send, PathInv, PathTypes
<1>6. /\ Len(sentMsgs) \in Nat /\ DOMAIN sentMsgs = 1..Len(sentMsgs)
      /\ sentMsgs' \in Seq(Sent) /\ DOMAIN sentMsgs' = 1..(Len(sentMsgs) + 1)
      /\ \A i \in DOMAIN sentMsgs : sentMsgs'[i] = sentMsgs[i]
      /\ sentMsgs'[Len(sentMsgs) + 1] = s
  BY <1>2, <1>5, Appended
<1>7. /\ metaByName' = metaByName /\ metaByID' = metaByID /\ chains' = chains
      /\ recvUp' = recvUp /\ greeted' = greeted /\ onWire' = onWire /\ told' = told /\ recvUp # "new"
  BY DEF Send, metaVars
<1>8. packet \in Packets /\ packet.n = Len(sentMsgs) + 1
  BY <1>3, <1>6 DEF Packets
<1>9. Sound(s) <=> how = "event" /\ v # "bad"
  BY <1>2 DEF Sound, Encodable
<1>10. PacketOf(sentMsgs', Len(sentMsgs) + 1) = packet
  BY <1>2, <1>3, <1>6, <1>9 DEF PacketOf
<1>11. \A n \in DOMAIN sentMsgs : PacketOf(sentMsgs', n) = PacketOf(sentMsgs, n)
  BY <1>6 DEF PacketOf
<1>12. \A n \in DOMAIN sentMsgs : n \in DOMAIN sentMsgs' /\ n # Len(sentMsgs) + 1
  BY <1>6
<1>13. Len(sentMsgs) + 1 \in DOMAIN sentMsgs' /\ ~(Len(sentMsgs) + 1 \in DOMAIN sentMsgs)
  BY <1>6
<1>14. \A p \in out' : p \in out \/ p = packet
  BY <1>4
<1>15. PathTypes' /\ MetaAgree' /\ NothingYet'
  BY <1>4, <1>6, <1>7, <1>8 DEF PathInv, PathTypes, MetaAgree, NothingYet
<1>16. Unchanged'
  <2>1. ASSUME NEW p \in out' PROVE p.n \in DOMAIN sentMsgs' /\ p = PacketOf(sentMsgs', p.n)
    <3>1. CASE p \in out
      BY <3>1, <1>11, <1>12 DEF PathInv, Unchanged
    <3>2. CASE p = packet
      BY <3>2, <1>8, <1>10, <1>13
    <3> QED
      BY <1>14, <3>1, <3>2
  <2>2. \A i \in DOMAIN onWire : onWire[i].n \in DOMAIN sentMsgs' /\ onWire[i] = PacketOf(sentMsgs', onWire[i].n)
    BY <1>11, <1>12 DEF PathInv, Unchanged
  <2>3. ASSUME NEW k \in DOMAIN told, told[k].n > 0
        PROVE  told[k].n \in DOMAIN sentMsgs' /\ told[k] = CallOf(chains, PacketOf(sentMsgs', told[k].n))
    <3>1. told[k].n \in DOMAIN sentMsgs /\ told[k] = CallOf(chains, PacketOf(sentMsgs, told[k].n))
      BY <2>3 DEF PathInv, Unchanged
    <3> QED
      BY <1>11, <1>12, <3>1
  <2> QED
    BY <1>7, <2>1, <2>2, <2>3 DEF Unchanged
<1>17. InOnePlace'
  <2>1. \A i \in DOMAIN onWire : onWire[i].n # packet.n
    BY <1>8, <1>13 DEF PathInv, Unchanged
  <2>2. \A k \in DOMAIN told : told[k].n # packet.n
    <3> SUFFICES ASSUME NEW k \in DOMAIN told, told[k].n = packet.n PROVE FALSE
      OBVIOUS
    <3>1. told[k].n > 0
      BY <1>6, <1>8
    <3> QED
      BY <1>8, <1>13, <3>1 DEF PathInv, Unchanged
  <2> QED
    BY <1>7, <1>14, <2>1, <2>2 DEF PathInv, InOnePlace
<1>18. NotLost'
  <2> SUFFICES ASSUME recvUp # "over", NEW n \in DOMAIN sentMsgs', Sound(sentMsgs'[n]),
                      Known("here", sentMsgs'[n].msg[1])
               PROVE  \/ \E p \in out' : p.n = n
                      \/ \E i \in DOMAIN onWire : onWire[i].n = n
                      \/ \E k \in DOMAIN told : told[k].n = n
    BY <1>7 DEF NotLost, Known, Sound
  <2>1. CASE n \in DOMAIN sentMsgs
    <3>1. Sound(sentMsgs[n]) /\ Known("here", sentMsgs[n].msg[1])
      BY <1>6, <2>1
    <3> QED
      BY <1>4, <2>1, <3>1 DEF PathInv, NotLost
  <2>2. CASE n = Len(sentMsgs) + 1
    <3>1. out' = out \cup {packet}
      BY <1>2, <1>4, <1>6, <1>9, <2>2
    <3> QED
      BY <1>8, <2>2, <3>1
  <2> QED
    BY <1>6, <2>1, <2>2
<1>19. SystemTold'
  BY <1>7 DEF PathInv, SystemTold, SystemCall
<1> QED
  BY <1>15, <1>16, <1>17, <1>18, <1>19 DEF PathInv

\* A packet goes from the goroutines to the wire.
LEMMA WriteMessageStep ==
    ASSUME PathInv, NEW p \in out, WriteMessage(p)
    PROVE  PathInv'
<1>1. /\ metaByName' = metaByName /\ metaByID' = metaByID /\ chains' = chains
      /\ recvUp' = recvUp /\ greeted' = greeted /\ sentMsgs' = sentMsgs /\ told' = told /\ out' = out \ {p}
  BY DEF WriteMessage, metaVars
<1>2. onWire' = Append(onWire, p) /\ onWire \in Seq(Packets) /\ p \in Packets
  BY DEF WriteMessage, PathInv, PathTypes
<1>3. /\ onWire' \in Seq(Packets)
      /\ \A i \in DOMAIN onWire' : \/ i \in DOMAIN onWire /\ onWire'[i] = onWire[i]
                                   \/ i \notin DOMAIN onWire /\ i = Len(onWire) + 1 /\ onWire'[i] = p
      /\ \A i \in DOMAIN onWire : i \in DOMAIN onWire' /\ onWire'[i] = onWire[i]
      /\ Len(onWire) + 1 \in DOMAIN onWire' /\ onWire'[Len(onWire) + 1] = p
  BY <1>2, Appended
<1>4. \A q \in out : q.n = p.n => q = p
  BY DEF PathInv, Unchanged
<1>5. PathTypes' /\ MetaAgree'
  BY <1>1, <1>3 DEF PathInv, PathTypes, MetaAgree
<1>6. Unchanged'
  <2>1. \A i \in DOMAIN onWire' : /\ onWire'[i].n \in DOMAIN sentMsgs
                                  /\ onWire'[i] = PacketOf(sentMsgs, onWire'[i].n)
    BY <1>3 DEF PathInv, Unchanged
  <2> QED
    BY <1>1, <2>1 DEF PathInv, Unchanged
<1>7. InOnePlace'
  <2>1. \A q \in out', i \in DOMAIN onWire' : q.n # onWire'[i].n
    BY <1>1, <1>3, <1>4 DEF PathInv, InOnePlace
  <2>2. \A i, j \in DOMAIN onWire' : onWire'[i].n = onWire'[j].n => i = j
    BY <1>3 DEF PathInv, InOnePlace
  <2>3. \A i \in DOMAIN onWire', k \in DOMAIN told : onWire'[i].n # told[k].n
    BY <1>3 DEF PathInv, InOnePlace
  <2> QED
    BY <1>1, <2>1, <2>2, <2>3 DEF PathInv, InOnePlace
<1>8. NotLost'
  <2> SUFFICES ASSUME recvUp # "over", NEW n \in DOMAIN sentMsgs, Sound(sentMsgs[n]),
                      Known("here", sentMsgs[n].msg[1])
               PROVE  \/ \E q \in out' : q.n = n
                      \/ \E i \in DOMAIN onWire' : onWire'[i].n = n
                      \/ \E k \in DOMAIN told : told[k].n = n
    BY <1>1 DEF NotLost, Known, Sound
  <2>1. \/ \E q \in out : q.n = n
        \/ \E i \in DOMAIN onWire : onWire[i].n = n
        \/ \E k \in DOMAIN told : told[k].n = n
    BY DEF PathInv, NotLost
  <2> QED
    BY <1>1, <1>3, <2>1
<1>9. NothingYet' /\ SystemTold'
  BY <1>1 DEF PathInv, NothingYet, SystemTold, SystemCall
<1> QED
  BY <1>5, <1>6, <1>7, <1>8, <1>9 DEF PathInv

\* What a session reads is told, or ends it.
LEMMA RecvStep ==
    ASSUME PathInv, Recv
    PROVE  PathInv'
<1>1. /\ metaByName' = metaByName /\ metaByID' = metaByID /\ chains' = chains
      /\ sentMsgs' = sentMsgs /\ out' = out /\ recvUp = "open" /\ greeted' = greeted
      /\ onWire # <<>> /\ onWire' = Tail(onWire)
  BY DEF Recv, metaVars
<1>2. onWire \in Seq(Packets) /\ told \in Seq(Calls)
  BY DEF PathInv, PathTypes
<1>3. PICK p : p = Head(onWire)
  OBVIOUS
<1>4. /\ onWire' \in Seq(Packets) /\ p \in Packets /\ 1 \in DOMAIN onWire /\ p = onWire[1]
      /\ \A i \in DOMAIN onWire' : i + 1 \in DOMAIN onWire /\ i + 1 # 1 /\ onWire'[i] = onWire[i + 1]
      /\ \A i \in DOMAIN onWire : i # 1 => i - 1 \in DOMAIN onWire' /\ onWire'[i - 1] = onWire[i]
      /\ \A i, j \in DOMAIN onWire' : i + 1 = j + 1 => i = j
  BY <1>1, <1>2, <1>3, Taken
<1>5. p.n \in DOMAIN sentMsgs /\ p = PacketOf(sentMsgs, p.n)
  BY <1>4 DEF PathInv, Unchanged
<1>6. p.n \in Nat /\ p.n > 0 /\ DOMAIN sentMsgs = 1..Len(sentMsgs)
  <2>1. DOMAIN sentMsgs = 1..Len(sentMsgs) /\ Len(sentMsgs) \in Nat
    BY LenProperties DEF PathInv, PathTypes
  <2> QED
    BY <1>5, <2>1
<1>7. ASSUME NEW c \in Calls, told' = Append(told, c)
      PROVE  /\ told' \in Seq(Calls) /\ told' # <<>>
             /\ Len(told) \in Nat /\ Len(told') = Len(told) + 1 /\ DOMAIN told = 1..Len(told)
             /\ \A k \in DOMAIN told' : \/ k \in DOMAIN told /\ told'[k] = told[k]
                                        \/ k \notin DOMAIN told /\ k = Len(told) + 1 /\ told'[k] = c
             /\ \A k \in DOMAIN told : k \in DOMAIN told' /\ told'[k] = told[k]
             /\ Len(told) + 1 \in DOMAIN told' /\ told'[Len(told) + 1] = c
  BY <1>2, <1>7, Appended
<1>8. MetaAgree'
  BY <1>1 DEF PathInv, MetaAgree
\* The packets that stay on the wire.
<1>9. /\ \A i \in DOMAIN onWire' : /\ onWire'[i].n \in DOMAIN sentMsgs
                                   /\ onWire'[i] = PacketOf(sentMsgs, onWire'[i].n)
                                   /\ onWire'[i].n # p.n
      /\ \A q \in out, i \in DOMAIN onWire' : q.n # onWire'[i].n
      /\ \A q \in out : q.n # p.n
      /\ \A i, j \in DOMAIN onWire' : onWire'[i].n = onWire'[j].n => i = j
      /\ \A i \in DOMAIN onWire', k \in DOMAIN told : onWire'[i].n # told[k].n
      /\ \A k \in DOMAIN told : told[k].n # p.n
  BY <1>4 DEF PathInv, Unchanged, InOnePlace
<1>10. CASE Known("there", p.name)
  <2>1. recvUp' = "open" /\ ChainListCall("Recv", MsgLog("there", RawEvent(IDOf[p.name], p.data)), p.n)
    BY <1>1, <1>3, <1>10 DEF Recv
  <2>2. told' = Append(told, CallOf(chains, p))
    BY <1>4, <1>10, <2>1, PacketHeard DEF PathInv, Known
  <2>3. CallOf(chains, p) \in Calls /\ CallOf(chains, p).n = p.n
    BY <1>4, CallTypes DEF PathInv
  <2>4. PICK c : c = CallOf(chains, p)
    OBVIOUS
  <2>5. c \in Calls /\ c.n = p.n /\ told' = Append(told, c)
    BY <2>2, <2>3, <2>4
  <2>6. /\ told' \in Seq(Calls) /\ told' # <<>>
        /\ \A k \in DOMAIN told' : \/ k \in DOMAIN told /\ told'[k] = told[k]
                                   \/ k \notin DOMAIN told /\ k = Len(told) + 1 /\ told'[k] = c
        /\ \A k \in DOMAIN told : k \in DOMAIN told' /\ told'[k] = told[k]
        /\ Len(told) + 1 \in DOMAIN told' /\ told'[Len(told) + 1] = c
    BY <2>5, <1>7
  <2>7. PathTypes' /\ NothingYet'
    BY <1>1, <1>4, <2>1, <2>6 DEF PathInv, PathTypes, NothingYet
  <2>8. Unchanged'
    <3>1. ASSUME NEW k \in DOMAIN told', told'[k].n > 0
          PROVE  told'[k].n \in DOMAIN sentMsgs /\ told'[k] = CallOf(chains, PacketOf(sentMsgs, told'[k].n))
      <4>1. CASE k \in DOMAIN told /\ told'[k] = told[k]
        BY <3>1, <4>1 DEF PathInv, Unchanged
      <4>2. CASE told'[k] = c
        BY <4>2, <1>5, <2>4, <2>5
      <4> QED
        BY <2>6, <4>1, <4>2
    <3> QED
      BY <1>1, <1>9, <3>1 DEF PathInv, Unchanged
  <2>9. InOnePlace'
    <3>1. \A q \in out, k \in DOMAIN told' : q.n # told'[k].n
      BY <1>9, <2>5, <2>6 DEF PathInv, InOnePlace
    <3>2. \A i \in DOMAIN onWire', k \in DOMAIN told' : onWire'[i].n # told'[k].n
      BY <1>9, <2>5, <2>6
    <3>3. \A j, k \in DOMAIN told' : told'[j].n > 0 /\ told'[j].n = told'[k].n => j = k
      BY <1>9, <2>5, <2>6 DEF PathInv, InOnePlace
    <3> QED
      BY <1>1, <1>9, <3>1, <3>2, <3>3 DEF InOnePlace
  <2>10. NotLost'
    <3> SUFFICES ASSUME NEW n \in DOMAIN sentMsgs, Sound(sentMsgs[n]), Known("here", sentMsgs[n].msg[1])
                 PROVE  \/ \E q \in out : q.n = n
                        \/ \E i \in DOMAIN onWire' : onWire'[i].n = n
                        \/ \E k \in DOMAIN told' : told'[k].n = n
      BY <1>1 DEF NotLost, Known, Sound
    <3>1. \/ \E q \in out : q.n = n
          \/ \E i \in DOMAIN onWire : onWire[i].n = n
          \/ \E k \in DOMAIN told : told[k].n = n
      BY <1>1 DEF PathInv, NotLost
    <3>2. ASSUME NEW i \in DOMAIN onWire, onWire[i].n = n
          PROVE  \/ \E j \in DOMAIN onWire' : onWire'[j].n = n
                 \/ \E k \in DOMAIN told' : told'[k].n = n
      <4>1. CASE i = 1
        BY <1>4, <2>5, <2>6, <3>2, <4>1
      <4>2. CASE i # 1
        BY <1>4, <3>2, <4>2
      <4> QED
        BY <4>1, <4>2
    <3>3. ASSUME NEW k \in DOMAIN told, told[k].n = n PROVE \E l \in DOMAIN told' : told'[l].n = n
      BY <2>6, <3>3
    <3> QED
      BY <3>1, <3>2, <3>3
  <2>11. SystemTold'
    <3>1. c.type = "Recv"
      BY <1>4, <2>4, CallTypes DEF PathInv
    <3> QED
      BY <1>1, <1>6, <2>1, <2>5, <3>1, SystemAppend
  <2> QED
    BY <1>8, <2>7, <2>8, <2>9, <2>10, <2>11 DEF PathInv
<1>11. CASE ~Known("there", p.name)
  <2>1. recvUp' = "over" /\ PostSystemEvent("Closed")
    BY <1>3, <1>11 DEF Recv
  <2>2. PICK c : c = SystemCall("Closed", "result")
    OBVIOUS
  <2>3. told' = Append(told, c)
    BY <2>1, <2>2, SystemHeard DEF PathInv
  <2>4. c \in Calls /\ c.n = 0 /\ c.type = "Closed"
    BY <2>2, CallTypes DEF PathInv, System
  <2>5. /\ told' \in Seq(Calls) /\ told' # <<>>
        /\ Len(told) \in Nat /\ Len(told') = Len(told) + 1 /\ DOMAIN told = 1..Len(told)
        /\ \A k \in DOMAIN told' : \/ k \in DOMAIN told /\ told'[k] = told[k]
                                   \/ k \notin DOMAIN told /\ k = Len(told) + 1 /\ told'[k] = c
        /\ \A k \in DOMAIN told : k \in DOMAIN told' /\ told'[k] = told[k]
        /\ Len(told) + 1 \in DOMAIN told' /\ told'[Len(told) + 1] = c
    BY <2>3, <2>4, <1>7
  <2>6. PathTypes' /\ NothingYet' /\ NotLost'
    BY <1>1, <1>4, <2>1, <2>5 DEF PathInv, PathTypes, NothingYet, NotLost
  <2>7. Unchanged'
    <3>1. ASSUME NEW k \in DOMAIN told', told'[k].n > 0
          PROVE  told'[k].n \in DOMAIN sentMsgs /\ told'[k] = CallOf(chains, PacketOf(sentMsgs, told'[k].n))
      <4>1. told'[k] # c
        BY <2>4, <3>1
      <4>2. k \in DOMAIN told /\ told'[k] = told[k]
        BY <2>5, <4>1
      <4> QED
        BY <3>1, <4>2 DEF PathInv, Unchanged
    <3> QED
      BY <1>1, <1>9, <3>1 DEF PathInv, Unchanged
  <2>8. InOnePlace'
    <3>1. \A q \in out : q.n # 0
      BY <1>6 DEF PathInv, Unchanged
    <3>2. \A i \in DOMAIN onWire' : onWire'[i].n # 0
      BY <1>6, <1>9
    <3>3. \A q \in out, k \in DOMAIN told' : q.n # told'[k].n
      BY <2>4, <2>5, <3>1 DEF PathInv, InOnePlace
    <3>4. \A i \in DOMAIN onWire', k \in DOMAIN told' : onWire'[i].n # told'[k].n
      BY <1>9, <2>4, <2>5, <3>2
    <3>5. \A j, k \in DOMAIN told' : told'[j].n > 0 /\ told'[j].n = told'[k].n => j = k
      BY <2>4, <2>5 DEF PathInv, InOnePlace
    <3> QED
      BY <1>1, <1>9, <3>3, <3>4, <3>5 DEF InOnePlace
  <2>9. SystemTold'
    <3>1. \A k \in DOMAIN told : told[k].type # "Closed"
      <4>1. SystemCall("Accepted", EmptyMsg).type = "Accepted"
        BY DEF SystemCall
      <4> QED
        BY <1>1, <4>1 DEF PathInv, SystemTold
    <3> QED
      BY <1>1, <2>1, <2>2, <2>3, <2>4, <3>1, SystemAppend
  <2> QED
    BY <1>8, <2>6, <2>7, <2>8, <2>9 DEF PathInv
<1> QED
  BY <1>10, <1>11

LEMMA PathInvStep == PathInv /\ [PathNext]_pathVars => PathInv'
<1> SUFFICES ASSUME PathInv, [PathNext]_pathVars PROVE PathInv'
  OBVIOUS
<1>1. CASE \E m \in Messages : \E p \in Programs : RegisterMessageMeta(p, m)
  BY <1>1, RegisterMessageMetaStep
<1>2. CASE \E m \in Messages \cup System : RegisterHandler(m)
  BY <1>2, RegisterHandlerStep
<1>3. CASE Accept
  BY <1>3, AcceptStep
<1>4. ASSUME NEW m \in Messages, NEW how \in {"event", "session"}, NEW v \in SendValues(how), Send(how, <<m, v>>)
      PROVE  PathInv'
  <2>1. v \in {"v", "bad"}
    BY DEF SendValues
  <2> QED
    BY <1>4, <2>1, SendStep
<1>5. CASE \E p \in out : WriteMessage(p)
  BY <1>5, WriteMessageStep
<1>6. CASE Recv
  BY <1>6, RecvStep
<1>7. CASE UNCHANGED pathVars
  BY <1>7 DEF pathVars, metaVars, PathInv, PathTypes, MetaAgree, Unchanged, InOnePlace, NotLost,
              NothingYet, SystemTold, SystemCall, Known, Sound
<1>8. CASE Greet
  BY <1>8, GreetStep
<1> QED
  BY <1>1, <1>2, <1>3, <1>4, <1>5, <1>6, <1>7, <1>8 DEF PathNext

-----------------------------------------------------------------------------

LEMMA SentMessage ==
    ASSUME NEW s \in Sent
    PROVE  s.msg[2] # NoBytes /\ s.msg = <<s.msg[1], s.msg[2]>>
<1>1. s.msg \in Messages \X {"v", "bad"}
  BY DEF Sent
<1>2. PICK m \in Messages, v \in {"v", "bad"} : s.msg = <<m, v>>
  BY <1>1
<1>3. s.msg[1] = m /\ s.msg[2] = v
  BY <1>2
<1> QED
  BY <1>2, <1>3 DEF NoBytes

LEMMA InvToldRight == PathInv => SentIsTold
<1> SUFFICES ASSUME PathInv PROVE SentIsTold
  OBVIOUS
<1>1. ASSUME NEW k \in DOMAIN told, told[k].type = "Recv", NEW i \in DOMAIN chains, told[k].got[i] # NotCalled
      PROVE  LET s == sentMsgs[told[k].n]
             IN  /\ chains[i] = IDOf[s.msg[1]]
                 /\ \/ Sound(s) /\ told[k].got[i] = s.msg
                    \/ /\ ~Sound(s) /\ told[k].got[i] = <<s.msg[1], EmptyMsg>>
                       /\ CodecOf[s.msg[1]] # "json"
  <2>1. PICK s : s = sentMsgs[told[k].n]
    OBVIOUS
  <2>0. told[k].n > 0
    BY <1>1 DEF PathInv, SystemTold, SystemCall
  <2>2. told[k].n \in DOMAIN sentMsgs /\ told[k] = CallOf(chains, PacketOf(sentMsgs, told[k].n))
    BY <2>0 DEF PathInv, Unchanged
  <2>3. s \in Sent
    BY <2>1, <2>2, ElementOfSeq, LenProperties DEF PathInv, PathTypes
  <2>4. PICK data : data = IF Sound(s) THEN s.msg[2] ELSE NoBytes
    OBVIOUS
  <2>5. told[k].got = GotOf(chains, s.msg[1], data)
    BY <2>1, <2>2, <2>4 DEF CallOf, PacketOf
  <2>6. told[k].got[i] = IF chains[i] = IDOf[s.msg[1]] /\ (data # NoBytes \/ CodecOf[s.msg[1]] # "json")
                         THEN <<s.msg[1], IF data = NoBytes THEN EmptyMsg ELSE data>> ELSE NotCalled
    BY <2>5 DEF GotOf
  <2>7. s.msg[2] # NoBytes /\ s.msg = <<s.msg[1], s.msg[2]>>
    BY <2>3, SentMessage
  <2> QED
    BY <1>1, <2>1, <2>4, <2>6, <2>7
<1>2. ASSUME out = {}, onWire = <<>>, recvUp = "open", NEW n \in DOMAIN sentMsgs, Sound(sentMsgs[n]),
             \A p \in Programs : Known(p, sentMsgs[n].msg[1])
      PROVE  \E k \in DOMAIN told :
                /\ told[k].n = n
                /\ \A i \in DOMAIN chains : chains[i] = IDOf[sentMsgs[n].msg[1]] => told[k].got[i] = sentMsgs[n].msg
  <2>1. DOMAIN onWire = {}
    BY <1>2
  <2>2. PICK k \in DOMAIN told : told[k].n = n
    BY <1>2, <2>1 DEF PathInv, NotLost, Programs
  <2>3. n > 0
    BY LenProperties DEF PathInv, PathTypes
  <2>4. told[k] = CallOf(chains, PacketOf(sentMsgs, n))
    BY <2>2, <2>3 DEF PathInv, Unchanged
  <2>5. PICK s : s = sentMsgs[n]
    OBVIOUS
  <2>6. s \in Sent /\ Sound(s)
    BY <1>2, <2>5, ElementOfSeq, LenProperties DEF PathInv, PathTypes
  <2>7. told[k].got = GotOf(chains, s.msg[1], s.msg[2])
    BY <2>4, <2>5, <2>6 DEF CallOf, PacketOf
  <2>8. s.msg[2] # NoBytes /\ s.msg = <<s.msg[1], s.msg[2]>>
    BY <2>6, SentMessage
  <2>9. \A i \in DOMAIN chains : chains[i] = IDOf[s.msg[1]] => told[k].got[i] = s.msg
    BY <2>7, <2>8 DEF GotOf
  <2> QED
    BY <2>2, <2>5, <2>9
<1> QED
  BY <1>1, <1>2 DEF PathInv, SentIsTold, InOnePlace

\* For every way of registering messages and handlers in the two programs and
\* any interleaving of the goroutines that write: a callback is given what was
\* sent and nothing else, once, a message that was encoded comes to each of its
\* handlers unless the session ends, Closed comes once and behind every message,
\* and Accepted once, before, between or behind these.
THEOREM SentMessagesAreTold == PathSpec => []SentIsTold
<1>1. PathInit => PathInv
  BY InvInit
<1>2. PathInv /\ [PathNext]_pathVars => PathInv'
  BY PathInvStep
<1>3. PathInv => SentIsTold
  BY InvToldRight
<1> QED
  BY <1>1, <1>2, <1>3, PTL DEF PathSpec

=============================================================================
