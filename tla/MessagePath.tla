---------------------------- MODULE MessagePath ----------------------------
(***************************************************************************)
(* The way of a message over a websocket: registered with its name, id and *)
(* codec (msgmeta.go), sent with Send of a session or of an event, encoded *)
(* by the send chain, written under its name, looked up again by the       *)
(* receiver, and passed through the receive chains with Match, Decode and  *)
(* a callback.  Two programs, "here" and "there", register what they know. *)
(*                                                                         *)
(* The generated code registers a type under its own full name with the    *)
(* hash of that name as its id, in every program alike, so a message       *)
(* stands for its name and its type; two names may have one hash.  Data is *)
(* the value that was encoded.  The codecs differ in what they make of no  *)
(* data: json refuses it, and the others return a message with no field    *)
(* set.  External: the connection, which loses nothing.                    *)
(***************************************************************************)
EXTENDS Naturals, Sequences

CONSTANTS
    Messages,       \* the messages of the users
    IDOf, CodecOf,  \* id and codec of each, system messages included
    MaxSends        \* bound on the messages sent

System == {"Accepted", "Closed"}

ASSUME MessageAssumption ==
    /\ DOMAIN IDOf = Messages \cup System /\ DOMAIN CodecOf = Messages \cup System
    /\ \A m \in DOMAIN IDOf : IDOf[m] \in Nat \ {0}
    /\ IDOf["Accepted"] # IDOf["Closed"]
    /\ \A m \in System : CodecOf[m] # "json"
    /\ "nil" \notin Messages

VARIABLES
    metaByName,     \* per program; metaByType has the same keys
    metaByID,       \* per program: the message of an id
    debug,          \* log.IsDebugEnabled, in both programs
    chains,         \* the ids that handlers there are registered for
    recvUp,         \* the session there: "new", "open" or "over"
    greeted,        \* Accepted has been posted for it
    sentMsgs,       \* history: what was sent, and how
    out,            \* packets in the goroutines that RawSend started
    onWire,
    told            \* history: the events, and what the callback of each chain was called with

metaVars == <<metaByName, metaByID, debug, chains>>
pathVars == <<metaVars, recvUp, greeted, sentMsgs, out, onWire, told>>

Programs == {"here", "there"}
NoMsg == "nil"
NoData == "no data"
NoBytes == "no bytes"   \* an empty slice, but not nil
EmptyMsg == "empty"     \* a message with no field set
NoID == 0

\* The package init of coredef registers the system messages.
PathInit ==
    /\ metaByName = [p \in Programs |-> System]
    /\ metaByID = [p \in Programs |-> [i \in {IDOf[m] : m \in System} |->
                                            CHOOSE m \in System : IDOf[m] = i]]
    /\ debug \in BOOLEAN
    /\ chains = <<>>
    /\ recvUp = "new" /\ greeted = FALSE
    /\ sentMsgs = <<>> /\ out = {} /\ onWire = <<>> /\ told = <<>>

\* MessageMetaByName, and MessageMetaByType.
Known(p, m) == m \in metaByName[p]

MessageMetaByID(p, id) == IF id \in DOMAIN metaByID[p] THEN metaByID[p][id] ELSE NoMsg

\* MUTANT: the ids are not compared.
FreeByName(p, m) == ~Known(p, m)

Free(p, m) == ~Known(p, m) /\ IDOf[m] \notin DOMAIN metaByID[p]

\* A message that is not Free panics in a package init: no such program runs.
RegisterMessageMeta(p, m) ==
    /\ recvUp = "new"
    /\ Free(p, m)
    /\ metaByName' = [metaByName EXCEPT ![p] = @ \cup {m}]
    /\ metaByID' = [metaByID EXCEPT ![p] = [i \in DOMAIN @ \cup {IDOf[m]} |->
                                                IF i = IDOf[m] THEN m ELSE @[i]]]
    /\ UNCHANGED <<debug, chains, recvUp, greeted, sentMsgs, out, onWire, told>>

\* RegisterHandler: panics for a name that is not registered.
RegisterHandler(m) ==
    /\ recvUp = "new"
    /\ Len(chains) < 2
    /\ Known("there", m)
    /\ chains' = Append(chains, IDOf[m])
    /\ UNCHANGED <<metaByName, metaByID, debug, recvUp, greeted, sentMsgs, out, onWire, told>>

-----------------------------------------------------------------------------

(***************************************************************************)
(* Events: an id, a message with its value, and data.                      *)
(***************************************************************************)
RawEvent(id, data) == [MsgID |-> id, Msg |-> <<NoMsg, NoData>>, Data |-> data]

NewEvent == RawEvent(NoID, NoData)

Encodable(m, v) == v # "bad"

EncodeMessage(p, msg) ==
    IF ~Known(p, msg[1]) THEN [Data |-> NoData, MsgID |-> NoID, err |-> TRUE]
    ELSE [Data |-> IF Encodable(msg[1], msg[2]) THEN msg[2] ELSE NoData,
          MsgID |-> IDOf[msg[1]], err |-> ~Encodable(msg[1], msg[2])]

DecodeMessage(p, id, data) ==
    LET m == MessageMetaByID(p, id)
    IN  CASE m = NoMsg -> [msg |-> <<NoMsg, NoData>>, err |-> TRUE]
          [] m # NoMsg /\ data \notin {NoData, NoBytes} -> [msg |-> <<m, data>>, err |-> FALSE]
          [] OTHER -> [msg |-> IF CodecOf[m] = "json" THEN <<NoMsg, NoData>> ELSE <<m, EmptyMsg>>,
                       err |-> CodecOf[m] = "json"]

\* EncodePacketHandler; RawSend does not look at the result.
EncodePacket(p, ev) ==
    LET r == EncodeMessage(p, ev.Msg) IN [MsgID |-> r.MsgID, Msg |-> ev.Msg, Data |-> r.Data]

Parse(p, ev) ==
    IF ev.Msg[1] = NoMsg /\ ev.Data # NoData /\ ev.MsgID # NoID
    THEN [ev EXCEPT !.Msg = DecodeMessage(p, ev.MsgID, ev.Data).msg]
    ELSE IF ev.MsgID = NoID /\ Known(p, ev.Msg[1])
    THEN [ev EXCEPT !.MsgID = IDOf[ev.Msg[1]]]
    ELSE ev

MsgLog(p, ev) == IF debug THEN Parse(p, ev) ELSE ev

\* A copy of the data is never nil: behind the name in a packet, in a Clone.
composePacket(data) == IF data = NoData THEN NoBytes ELSE data

Clone(ev) == [ev EXCEPT !.Data = IF @ = NoData THEN NoBytes ELSE @]

\* The goroutine of RawSend writes a packet if the id is that of a message.
RawSend(ev) ==
    LET m == MessageMetaByID("here", MsgLog("here", ev).MsgID)
    IN  out' = IF m = NoMsg THEN out
               ELSE out \cup {[name |-> m, data |-> composePacket(ev.Data), n |-> Len(sentMsgs) + 1]}

\* Send of an event goes through the chain of the peer; Send of the session
\* tests ChainSend for the wrong thing, and the message is not encoded.
EventSend(msg) == EncodePacket("here", [NewEvent EXCEPT !.Msg = msg])
SessionSend(msg) == [NewEvent EXCEPT !.Msg = msg]

Send(how, msg) ==
    /\ recvUp # "new"
    /\ Len(sentMsgs) < MaxSends
    /\ RawSend(IF how = "event" THEN EventSend(msg) ELSE SessionSend(msg))
    /\ sentMsgs' = Append(sentMsgs, [how |-> how, msg |-> msg])
    /\ UNCHANGED <<metaVars, recvUp, greeted, onWire, told>>

\* The goroutines write in any order.
WriteMessage(p) ==
    /\ out' = out \ {p}
    /\ onWire' = Append(onWire, p)
    /\ UNCHANGED <<metaVars, recvUp, greeted, sentMsgs, told>>

(***************************************************************************)
(* The receiver.  HandlerChainList.Call gives every chain a clone of the   *)
(* event, so that a chain that fails changes nothing for the others.       *)
(***************************************************************************)
\* MatchMsgIDHandler, DecodePacketHandler and the callback of one chain.
Matches(id, ev) == ev.MsgID = id

DecodePacket(ev) == DecodeMessage("there", ev.MsgID, ev.Data)

NotCalled == <<NoMsg, NoData>>

ChainCall(id, ev) ==
    IF ~Matches(id, ev) \/ DecodePacket(ev).err THEN NotCalled ELSE DecodePacket(ev).msg

ChainListCall(type, ev, n) ==
    told' = Append(told, [type |-> type, n |-> n,
                          got |-> [i \in DOMAIN chains |-> ChainCall(chains[i], Clone(ev))]])

\* An event holds the data of a message, or the message.
FromMessage(p, msg) == LET r == EncodeMessage(p, msg) IN RawEvent(r.MsgID, r.Data)

\* Closed is made from a message, Accepted has an id and no data.
PostSystemEvent(t) ==
    ChainListCall(t, MsgLog("there", IF t = "Closed" THEN FromMessage("there", <<t, "result">>)
                                     ELSE RawEvent(IDOf[t], NoData)), 0)

\* The handler of the acceptor's address makes the session and runs it ...
Accept ==
    /\ recvUp = "new"
    /\ recvUp' = "open"
    /\ UNCHANGED <<metaVars, greeted, sentMsgs, out, onWire, told>>

\* ... and posts Accepted while recvThread reads, or when it is over.
Greet ==
    /\ recvUp # "new"
    /\ ~greeted
    /\ greeted' = TRUE
    /\ PostSystemEvent("Accepted")
    /\ UNCHANGED <<metaVars, recvUp, sentMsgs, out, onWire>>

\* ReadPacket and recvThread: a name that is not registered ends the session.
Recv ==
    /\ recvUp = "open"
    /\ onWire # <<>>
    /\ onWire' = Tail(onWire)
    /\ IF Known("there", Head(onWire).name)
       THEN /\ ChainListCall("Recv", MsgLog("there", RawEvent(IDOf[Head(onWire).name], Head(onWire).data)),
                         Head(onWire).n)
            /\ UNCHANGED recvUp
       ELSE PostSystemEvent("Closed") /\ recvUp' = "over"
    /\ UNCHANGED <<metaVars, greeted, sentMsgs, out>>

\* Every codec may refuse a value; Send of the session does not come to one.
SendValues(how) == IF how = "event" THEN {"v", "bad"} ELSE {"v"}

PathNext ==
    \/ \E m \in Messages : (\E p \in Programs : RegisterMessageMeta(p, m)) \/ RegisterHandler(m)
    \/ \E m \in System : RegisterHandler(m)
    \/ Accept \/ Greet
    \/ \E m \in Messages, how \in {"event", "session"} : \E v \in SendValues(how) : Send(how, <<m, v>>)
    \/ \E p \in out : WriteMessage(p)
    \/ Recv

PathSpec == PathInit /\ [][PathNext]_pathVars

-----------------------------------------------------------------------------

Sound(s) == s.how = "event" /\ Encodable(s.msg[1], s.msg[2])

\* Told to the handlers of a system message, and to no other.
SystemCall(m, v) ==
    [type |-> m, n |-> 0,
     got |-> [i \in DOMAIN chains |-> IF chains[i] = IDOf[m] THEN <<m, v>> ELSE NotCalled]]

\* Each system event is told once when it has been posted, and not before, and
\* nothing that was received comes after Closed.
SystemTold ==
    /\ \A k \in DOMAIN told :
            \/ told[k].type = "Recv" /\ told[k].n > 0
            \/ greeted /\ told[k] = SystemCall("Accepted", EmptyMsg)
            \/ recvUp = "over" /\ told[k] = SystemCall("Closed", "result")
    /\ greeted => \E k \in DOMAIN told : told[k].type = "Accepted"
    /\ recvUp = "over" => \E k \in DOMAIN told : told[k].type = "Closed"
    /\ \A j, k \in DOMAIN told : told[j].type # "Recv" /\ told[j].type = told[k].type => j = k
    /\ \A j, k \in DOMAIN told : told[j].type = "Closed" /\ told[k].type = "Recv" => k < j

\* A callback is never given another message than was sent, or with another
\* value: one that was not encoded, because of Send of the session or an error
\* of its codec, comes as a message with no field set, if at all (its codec is
\* not json).  None comes twice.  When nothing is under way, one that was
\* encoded has been told to each handler there is for it, if both programs know
\* it and the session is not over.  Accepted and Closed come once each, Closed
\* behind every message, and Accepted anywhere: the session runs before it is
\* posted (websocket/acceptor.go:61).
SentIsTold ==
    /\ \A k \in DOMAIN told : told[k].type = "Recv" =>
            LET s == sentMsgs[told[k].n]
            IN  \A i \in DOMAIN chains : told[k].got[i] # NotCalled =>
                    /\ chains[i] = IDOf[s.msg[1]]
                    /\ \/ Sound(s) /\ told[k].got[i] = s.msg
                       \/ ~Sound(s) /\ told[k].got[i] = <<s.msg[1], EmptyMsg>>
                          /\ CodecOf[s.msg[1]] # "json"
    /\ \A j, k \in DOMAIN told : told[j].n > 0 /\ told[j].n = told[k].n => j = k
    /\ out = {} /\ onWire = <<>> /\ recvUp = "open" =>
            \A n \in DOMAIN sentMsgs :
                LET s == sentMsgs[n]
                IN  Sound(s) /\ (\A p \in Programs : Known(p, s.msg[1])) =>
                        \E k \in DOMAIN told :
                            /\ told[k].n = n
                            /\ \A i \in DOMAIN chains : chains[i] = IDOf[s.msg[1]] => told[k].got[i] = s.msg
    /\ SystemTold

=============================================================================
