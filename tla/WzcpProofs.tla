------------------------------ MODULE WzcpProofs -----------------------------
(***************************************************************************)
(* Proofs about Wzcp, for any threads, body lengths, chunk and buffer      *)
(* sizes: the types for any number of writing threads, the handshake and   *)
(* the reassembly of the stream for one.                                   *)
(***************************************************************************)
EXTENDS Wzcp, SequenceTheorems, TLAPS

\* The body lengths of all frames: EVENT_BATCH, HELLO and ACK, HEARTBEAT.
Bodies == EventBodies \cup {0, 1}
FrameDoc == [id : 0 .. MaxFrames, type : MsgTypes, n : Bodies]
Dispatched == [hdr : Unit, body : Seq(Unit)]

Writing(t) == pc[t] \in {"len", "hdr", "body"}

AgentTyped ==
    /\ conn \in 0 .. MaxConns
    /\ started \in BOOLEAN
    /\ waiting \in BOOLEAN
    /\ pc \in [Threads -> {"idle", "connect", "len", "hdr", "body", "await"}]

\* A frame that is being written has a number, none beyond the last one begun.
FramesTyped ==
    /\ begun \in 0 .. MaxFrames
    /\ frame \in [Threads -> FrameDoc]
    /\ \A t \in Threads : frame[t].id <= begun /\ (Writing(t) => frame[t].id >= 1)

WireTyped ==
    /\ wire \in Seq(Unit)
    /\ acks \in Seq({"ACK", "HEARTBEAT"})
    /\ link \in {"open", "closed", "silent"}

GwTyped ==
    /\ gwPc \in {"read", "detect", "frames"}
    /\ bufSize \in ChunkSize .. BufferSize
    /\ buf \in Seq(Unit)
    /\ Len(buf) <= bufSize
    /\ got \in Seq(Dispatched)

TypeInv == AgentTyped /\ FramesTyped /\ WireTyped /\ GwTyped

-----------------------------------------------------------------------------
LEMMA BodiesNat == Bodies \subseteq Nat
BY WzcpAssumption DEF Bodies

\* The initial state is well typed.
LEMMA InitTypeInv == Init => TypeInv
<1> SUFFICES ASSUME Init PROVE TypeInv
  OBVIOUS
<1>1. AgentTyped
  <2>1. conn \in 0 .. MaxConns
    BY WzcpAssumption DEF Init
  <2>2. started \in BOOLEAN /\ waiting \in BOOLEAN
    BY Zenon DEF Init
  <2>3. pc \in [Threads -> {"idle", "connect", "len", "hdr", "body", "await"}]
    BY DEF Init
  <2> QED BY <2>1, <2>2, <2>3 DEF AgentTyped
<1>2. FramesTyped
  <2>1. NoFrame \in FrameDoc /\ NoFrame.id = 0
    BY WzcpAssumption DEF NoFrame, Frame, FrameDoc, MsgTypes, Bodies
  <2>2. \A t \in Threads : ~Writing(t)
    BY DEF Init, Writing
  <2> QED BY <2>1, <2>2, WzcpAssumption DEF Init, FramesTyped
<1>3. WireTyped
  BY DEF Init, WireTyped
<1>4. GwTyped
  BY WzcpAssumption DEF Init, GwTyped
<1> QED BY <1>1, <1>2, <1>3, <1>4 DEF TypeInv

\* A thread that begins a frame writes a well-typed one.
LEMMA BeginTyped ==
    ASSUME AgentTyped, FramesTyped, NEW t \in Threads, NEW type \in MsgTypes, NEW n \in Bodies,
           Begin(t, type, n)
    PROVE  /\ pc' \in [Threads -> {"idle", "connect", "len", "hdr", "body", "await"}]
           /\ FramesTyped'
<1> DEFINE fr == Frame(begun + 1, type, n)
<1>1. begun \in Nat /\ begun' = begun + 1 /\ begun' \in 0 .. MaxFrames
  BY WzcpAssumption DEF Begin, FramesTyped
<1>2. fr \in FrameDoc /\ fr.id = begun + 1
  BY <1>1, WzcpAssumption DEF FrameDoc, Frame
<1>3. frame' = [frame EXCEPT ![t] = fr] /\ pc' = [pc EXCEPT ![t] = "len"]
  BY DEF Begin
<1> HIDE DEF fr
<1>4. frame' \in [Threads -> FrameDoc]
  BY <1>2, <1>3 DEF FramesTyped
<1>5. ASSUME NEW s \in Threads
      PROVE  frame'[s].id <= begun' /\ (Writing(s)' => frame'[s].id >= 1)
  <2>1. frame[s].id \in Nat /\ frame[s].id <= begun /\ (Writing(s) => frame[s].id >= 1)
    BY WzcpAssumption DEF FramesTyped, FrameDoc
  <2>2. CASE s = t
    BY <1>1, <1>2, <1>3, <2>2 DEF FramesTyped
  <2>3. CASE s # t
    BY <1>1, <1>3, <2>1, <2>3 DEF FramesTyped, Writing, AgentTyped
  <2> QED BY <2>2, <2>3
<1> QED BY <1>1, <1>3, <1>4, <1>5 DEF FramesTyped, AgentTyped

\* The units of a frame that is being written.
LEMMA UnitsTyped ==
    ASSUME NEW f \in FrameDoc, f.id >= 1
    PROVE  /\ <<LenUnit(f)>> \in Seq(Unit) /\ <<HdrUnit(f)>> \in Seq(Unit)
           /\ BodyUnits(f) \in Seq(Unit) /\ Len(BodyUnits(f)) = f.n
           /\ LenUnit(f) \in Unit /\ HdrUnit(f) \in Unit
<1>1. f.n \in Nat /\ f.id \in 1 .. MaxFrames /\ f.type \in MsgTypes
  <2>1. f.id \in 0 .. MaxFrames /\ f.type \in MsgTypes /\ f.n \in Bodies
    BY DEF FrameDoc
  <2>2. \A id \in 0 .. MaxFrames : id >= 1 => id \in 1 .. MaxFrames
    BY WzcpAssumption
  <2> QED BY <2>1, <2>2, BodiesNat
<1>2. LenUnit(f) \in Unit /\ HdrUnit(f) \in Unit
  BY <1>1 DEF LenUnit, HdrUnit, Unit
<1>3. \A i \in 1 .. f.n : [k |-> "body", id |-> f.id, type |-> f.type, n |-> i] \in Unit
  BY <1>1 DEF Unit
<1>4. BodyUnits(f) \in [1 .. f.n -> Unit]
  BY <1>3 DEF BodyUnits
<1>5. BodyUnits(f) \in Seq(Unit) /\ Len(BodyUnits(f)) = f.n
  BY <1>1, <1>4
<1> QED BY <1>2, <1>5

\* A step that begins no frame keeps the frames well typed.
LEMMA FramesKept ==
    ASSUME FramesTyped, UNCHANGED <<frame, begun>>,
           \A t \in Threads : Writing(t)' => Writing(t)
    PROVE  FramesTyped'
BY DEF FramesTyped

\* What follows a send_all of thread t.
LEMMA SentTyped ==
    ASSUME AgentTyped, NEW t \in Threads
    PROVE  /\ Sent(t) \in [Threads -> {"idle", "connect", "len", "hdr", "body", "await"}]
           /\ \A s \in Threads : Sent(t)[s] = IF s = t
                THEN IF frame[t].type = "HELLO" THEN "await" ELSE "idle" ELSE pc[s]
<1> DEFINE v == IF frame[t].type = "HELLO" THEN "await" ELSE "idle"
<1>1. v \in {"await", "idle"} /\ Sent(t) = [pc EXCEPT ![t] = v]
  BY DEF Sent
<1> QED BY <1>1 DEF AgentTyped

\* One send_all of a thread: which units it writes, and where the thread stands
\* then.
LEMMA SendStep ==
    ASSUME AgentTyped, FramesTyped, NEW t \in Threads, SendLen(t) \/ SendHdr(t) \/ SendBody(t)
    PROVE  /\ pc' \in [Threads -> {"idle", "connect", "len", "hdr", "body", "await"}]
           /\ \A s \in Threads \ {t} : pc'[s] = pc[s]
           /\ Writing(t)
           /\ UNCHANGED <<conn, started, waiting, frame, begun, acks, link, gwVars>>
           /\ \E units \in Seq(Unit) :
                /\ wire' = IF link = "open" THEN wire \o units ELSE wire
                /\ \/ /\ pc[t] = "len" /\ pc'[t] = "hdr" /\ units = <<LenUnit(frame[t])>>
                   \/ /\ pc[t] = "hdr" /\ frame[t].n > 0 /\ pc'[t] = "body"
                      /\ units = <<HdrUnit(frame[t])>>
                   \/ /\ \/ pc[t] = "hdr" /\ frame[t].n = 0 /\ units = <<HdrUnit(frame[t])>>
                         \/ pc[t] = "body" /\ units = BodyUnits(frame[t])
                      /\ pc'[t] = IF frame[t].type = "HELLO" THEN "await" ELSE "idle"
<1>1. ASSUME Writing(t)
      PROVE  /\ <<LenUnit(frame[t])>> \in Seq(Unit) /\ <<HdrUnit(frame[t])>> \in Seq(Unit)
             /\ BodyUnits(frame[t]) \in Seq(Unit)
  BY <1>1, UnitsTyped DEF FramesTyped
<1>2. frame[t].n \in Nat
  BY BodiesNat DEF FramesTyped, FrameDoc
<1>3. CASE SendLen(t)
  BY <1>1, <1>3 DEF SendLen, SendAll, AgentTyped, Writing
<1>4. CASE SendHdr(t) /\ frame[t].n > 0
  BY <1>1, <1>4 DEF SendHdr, SendAll, AgentTyped, Writing
<1>5. CASE SendHdr(t) /\ frame[t].n = 0
  <2>1. /\ pc[t] = "hdr" /\ pc' = Sent(t)
        /\ wire' = IF link = "open" THEN wire \o <<HdrUnit(frame[t])>> ELSE wire
        /\ UNCHANGED <<conn, started, waiting, frame, begun, acks, link, gwVars>>
    BY <1>5 DEF SendHdr, SendAll
  <2> QED BY <1>1, <1>5, <2>1, SentTyped DEF Writing
<1>6. CASE SendBody(t)
  BY <1>1, <1>6, SentTyped DEF SendBody, SendAll, Writing
<1>7. frame[t].n > 0 \/ frame[t].n = 0
  BY <1>2
<1> QED BY <1>3, <1>4, <1>5, <1>6, <1>7, Zenon

\* The steps of the agent preserve the type invariant.
LEMMA AgentTypeInv ==
    ASSUME TypeInv,
           \/ ConnectServer \/ SendHeartbeat \/ AwaitAck \/ ReceiveMsg \/ ReceiveFails \/ RunNotifyReconnects
           \/ \E t \in Threads : SendLen(t) \/ SendHdr(t) \/ SendBody(t) \/ SendFails(t)
           \/ \E t \in Senders : SendBufferLevel(t)
           \/ \E n \in EventBodies : RunNotify(n) \/ \E t \in Senders : SendMsg(t, n)
    PROVE  TypeInv'
<1>1. AgentTyped /\ FramesTyped /\ WireTyped /\ GwTyped
  BY DEF TypeInv
<1>2. Receiver \in Threads /\ Senders \subseteq Threads
      /\ EventBodies \subseteq Bodies /\ {0, 1} \subseteq Bodies
  BY DEF Threads, Bodies
<1>3. ASSUME NEW t \in Threads, NEW type \in MsgTypes, NEW n \in Bodies, Begin(t, type, n),
             UNCHANGED <<conn, started, waiting, wire, acks, link, gwVars>>
      PROVE  TypeInv'
  <2>1. AgentTyped' /\ FramesTyped'
    BY <1>1, <1>3, BeginTyped DEF AgentTyped
  <2> QED BY <1>1, <1>3, <2>1 DEF TypeInv, WireTyped, GwTyped, gwVars
<1>4. ASSUME NEW n \in EventBodies, RunNotify(n) PROVE TypeInv'
  BY <1>2, <1>3, <1>4 DEF RunNotify, MsgTypes
<1>5. ASSUME NEW t \in Senders, NEW n \in EventBodies, SendMsg(t, n) PROVE TypeInv'
  BY <1>2, <1>3, <1>5 DEF SendMsg, MsgTypes
<1>6. ASSUME NEW t \in Senders, SendBufferLevel(t) PROVE TypeInv'
  BY <1>2, <1>3, <1>6 DEF SendBufferLevel, MsgTypes
<1>7. CASE SendHeartbeat
  BY <1>2, <1>3, <1>7 DEF SendHeartbeat, MsgTypes
<1>8. CASE ConnectServer
  <2>1. FramesTyped' /\ pc' \in [Threads -> {"idle", "connect", "len", "hdr", "body", "await"}]
    BY <1>1, <1>2, <1>8, BeginTyped DEF ConnectServer, MsgTypes
  <2>2. conn' \in 0 .. MaxConns
    BY <1>1, <1>8, WzcpAssumption DEF ConnectServer, AgentTyped
  <2>3. AgentTyped'
    BY <1>1, <1>8, <2>1, <2>2 DEF ConnectServer, AgentTyped
  <2>4. WireTyped' /\ GwTyped'
    BY <1>8, WzcpAssumption DEF ConnectServer, WireTyped, GwTyped
  <2> QED BY <2>1, <2>3, <2>4 DEF TypeInv
<1>9. CASE ReceiveMsg
  <2>1. acks' \in Seq({"ACK", "HEARTBEAT"})
    BY <1>1, <1>9 DEF ReceiveMsg, WireTyped
  <2>2. AgentTyped' /\ FramesTyped'
    <3>1. CASE Begin(Receiver, "ACK", 1)
      BY <1>1, <1>2, <1>9, <3>1, BeginTyped DEF ReceiveMsg, MsgTypes, AgentTyped
    <3>2. CASE UNCHANGED <<begun, frame, pc>>
      BY <1>1, <1>9, <3>2 DEF ReceiveMsg, AgentTyped, FramesTyped, Writing
    <3> QED BY <1>9, <3>1, <3>2 DEF ReceiveMsg
  <2>3. UNCHANGED <<wire, link, gwVars>>
    BY <1>9 DEF ReceiveMsg
  <2> QED BY <1>1, <2>1, <2>2, <2>3 DEF TypeInv, WireTyped, GwTyped, gwVars
<1>10. ASSUME NEW t \in Threads, NEW p \in {"connect", "idle"}, pc' = [pc EXCEPT ![t] = p],
              started' \in BOOLEAN, waiting' \in BOOLEAN, acks' \in Seq({"ACK", "HEARTBEAT"}),
              UNCHANGED <<conn, frame, begun, wire, link, gwVars>>
       PROVE  TypeInv'
  <2>1. AgentTyped'
    BY <1>1, <1>10 DEF AgentTyped
  <2>2. \A s \in Threads : Writing(s)' => Writing(s)
    BY <1>1, <1>10 DEF AgentTyped, Writing
  <2>3. FramesTyped'
    BY <1>1, <1>10, <2>2, FramesKept
  <2> QED BY <1>1, <1>10, <2>1, <2>3 DEF TypeInv, WireTyped, GwTyped, gwVars
<1>11. CASE AwaitAck
  <2>1. acks' \in Seq({"ACK", "HEARTBEAT"})
    BY <1>1, <1>11 DEF AwaitAck, WireTyped
  <2>2. started' \in BOOLEAN /\ waiting' \in BOOLEAN
    BY <1>1, <1>11, Zenon DEF AwaitAck, AgentTyped
  <2> QED BY <1>2, <1>10, <1>11, <2>1, <2>2 DEF AwaitAck
<1>12. CASE ReceiveFails \/ RunNotifyReconnects
  <2>1. started' \in BOOLEAN /\ waiting' \in BOOLEAN
    BY <1>1, <1>12, Zenon DEF ReceiveFails, RunNotifyReconnects, AgentTyped
  <2> QED BY <1>1, <1>2, <1>10, <1>12, <2>1 DEF ReceiveFails, RunNotifyReconnects, WireTyped
<1>13. ASSUME NEW t \in Threads, SendFails(t) PROVE TypeInv'
  <2> DEFINE restart == frame[t].type \in {"HELLO", "HEARTBEAT"}
             p == IF restart THEN "connect" ELSE "idle"
  <2>1. started' \in BOOLEAN /\ waiting' \in BOOLEAN
    BY <1>1, <1>13, Zenon DEF SendFails, AgentTyped
  <2>2. p \in {"connect", "idle"} /\ pc' = [pc EXCEPT ![t] = p]
    BY <1>13 DEF SendFails
  <2> HIDE DEF p
  <2> QED BY <1>1, <1>10, <1>13, <2>1, <2>2 DEF SendFails, WireTyped
<1>14. ASSUME NEW t \in Threads, SendLen(t) \/ SendHdr(t) \/ SendBody(t) PROVE TypeInv'
  <2>1. /\ pc' \in [Threads -> {"idle", "connect", "len", "hdr", "body", "await"}]
        /\ \A s \in Threads \ {t} : pc'[s] = pc[s]
        /\ Writing(t)
        /\ UNCHANGED <<conn, started, waiting, frame, begun, acks, link, gwVars>>
    BY <1>1, <1>14, SendStep
  <2>2. wire' \in Seq(Unit)
    <3>1. PICK units \in Seq(Unit) : wire' = IF link = "open" THEN wire \o units ELSE wire
      BY <1>1, <1>14, SendStep, Zenon
    <3> QED BY <1>1, <3>1 DEF WireTyped
  <2>3. AgentTyped' /\ FramesTyped'
    BY <1>1, <2>1, FramesKept DEF AgentTyped, Writing
  <2> QED BY <1>1, <2>1, <2>2, <2>3 DEF TypeInv, WireTyped, GwTyped, gwVars
<1> QED BY <1>4, <1>5, <1>6, <1>7, <1>8, <1>9, <1>11, <1>12, <1>13, <1>14

\* The network and the gateway preserve the type invariant: a read fits the room
\* that is left, whatever the bytes are.
LEMMA GatewayTypeInv ==
    ASSUME TypeInv,
           \/ LinkBreaks \/ ConnEventFull \/ Detect \/ ProcessFrame \/ ProcessFrameFails
           \/ FramesDone \/ GatewayHeartbeat
           \/ \E k \in 1 .. BufferSize : ConnEventRead(k)
    PROVE  TypeInv'
<1>1. AgentTyped /\ FramesTyped /\ WireTyped /\ GwTyped
  BY DEF TypeInv
<1>2. UNCHANGED agentVars
  BY DEF LinkBreaks, ConnEventFull, Detect, ProcessFrame, ProcessFrameFails, FramesDone,
     GatewayHeartbeat, ConnEventRead, conn_del
<1>3. AgentTyped' /\ FramesTyped'
  BY <1>1, <1>2 DEF agentVars, AgentTyped, FramesTyped, Writing
<1>4. ChunkSize \in Nat \ {0} /\ BufferSize \in Nat /\ bufSize \in Nat /\ Len(buf) \in Nat
  BY <1>1, WzcpAssumption DEF GwTyped
<1>5. ASSUME conn_del PROVE WireTyped' /\ GwTyped'
  <2>1. /\ link' = "closed" \/ link' = link
        /\ wire' = << >> /\ gwPc' = "read" /\ buf' = << >>
        /\ acks' = acks /\ bufSize' = bufSize /\ got' = got
    BY <1>5 DEF conn_del
  <2>2. WireTyped'
    BY <1>1, <2>1 DEF WireTyped
  <2>3. buf' \in Seq(Unit) /\ Len(buf') <= bufSize'
    BY <1>4, <2>1
  <2>4. GwTyped'
    BY <1>1, <2>1, <2>3 DEF GwTyped
  <2> QED BY <2>2, <2>4
<1>6. ASSUME LinkBreaks PROVE WireTyped' /\ GwTyped'
  <2>1. link' \in {"closed", "silent"} /\ wire' = << >> /\ acks' = acks /\ UNCHANGED gwVars
    BY <1>6 DEF LinkBreaks
  <2>2. WireTyped'
    BY <1>1, <2>1 DEF WireTyped
  <2>3. GwTyped'
    BY <1>1, <2>1 DEF GwTyped, gwVars
  <2> QED BY <2>2, <2>3
<1>7. ASSUME NEW k \in 1 .. BufferSize, ConnEventRead(k) PROVE WireTyped' /\ GwTyped'
  <2>1. Grown \in ChunkSize .. BufferSize
    BY <1>1, <1>4, <1>7 DEF ConnEventRead, Grown, GwTyped
  <2>2. /\ SubSeq(wire, 1, k) \in Seq(Unit) /\ Len(SubSeq(wire, 1, k)) = k
        /\ SubSeq(wire, k + 1, Len(wire)) \in Seq(Unit)
    BY <1>1, <1>7, SMTT(30) DEF ConnEventRead, WireTyped
  <2>3. buf' \in Seq(Unit) /\ Len(buf') = Len(buf) + k
    BY <1>1, <1>7, <2>2 DEF ConnEventRead, GwTyped
  <2>4. k <= Grown - Len(buf) /\ bufSize' = Grown
    BY <1>7 DEF ConnEventRead
  <2>5. Len(buf') <= bufSize'
    BY <1>4, <2>1, <2>3, <2>4
  <2> QED BY <1>1, <1>7, <2>1, <2>2, <2>3, <2>4, <2>5 DEF ConnEventRead, WireTyped, GwTyped
<1>8. ASSUME ProcessFrame PROVE WireTyped' /\ GwTyped'
  <2>1. Len(buf) >= 2 /\ buf[1].n \in Nat /\ buf[2] \in Unit /\ Len(buf) - 1 >= buf[1].n
    <3>1. Len(buf) >= 2 /\ Len(buf) - 1 >= buf[1].n
      BY <1>8 DEF ProcessFrame, Complete
    <3>2. buf[1] \in Unit /\ buf[2] \in Unit
      BY <1>1, <1>4, <3>1 DEF GwTyped
    <3> QED BY <3>1, <3>2 DEF Unit
  <2>2. Body \in Seq(Unit)
    BY <1>1, <2>1 DEF Body, GwTyped
  <2>3. Rest \in Seq(Unit) /\ Len(Rest) <= Len(buf)
    BY <1>1, <2>1 DEF Rest, GwTyped
  <2>4. got' \in Seq(Dispatched)
    <3>1. [hdr |-> buf[2], body |-> Body] \in Dispatched
      BY <2>1, <2>2 DEF Dispatched
    <3> QED BY <1>1, <1>8, <3>1 DEF ProcessFrame, GwTyped
  <2>5. acks' \in Seq({"ACK", "HEARTBEAT"})
    BY <1>1, <1>8 DEF ProcessFrame, WireTyped
  <2>6. Len(buf') <= bufSize' /\ buf' \in Seq(Unit)
    BY <1>1, <1>4, <1>8, <2>3 DEF ProcessFrame, GwTyped
  <2>7. UNCHANGED <<wire, link, gwPc, bufSize>>
    BY <1>8 DEF ProcessFrame
  <2>8. WireTyped'
    BY <1>1, <2>5, <2>7 DEF WireTyped
  <2>9. GwTyped'
    BY <1>1, <2>4, <2>6, <2>7 DEF GwTyped
  <2> QED BY <2>8, <2>9
<1>9. ASSUME FramesDone \/ GatewayHeartbeat \/ (Detect /\ ~conn_del) PROVE WireTyped' /\ GwTyped'
  <2>1. UNCHANGED <<wire, link, bufSize, buf, got>> /\ gwPc' \in {"read", "detect", "frames"}
    BY <1>1, <1>9 DEF FramesDone, GatewayHeartbeat, Detect, gwVars, GwTyped
  <2>2. acks' \in Seq({"ACK", "HEARTBEAT"})
    <3>1. acks' = acks \/ acks' = <<"HEARTBEAT">>
      BY <1>9 DEF FramesDone, GatewayHeartbeat, Detect
    <3>2. <<"HEARTBEAT">> \in Seq({"ACK", "HEARTBEAT"})
      OBVIOUS
    <3> QED BY <1>1, <3>1, <3>2 DEF WireTyped
  <2>3. WireTyped'
    BY <1>1, <2>1, <2>2 DEF WireTyped
  <2>4. GwTyped'
    BY <1>1, <2>1 DEF GwTyped
  <2> QED BY <2>3, <2>4
<1>10. conn_del \/ ~conn_del
  OBVIOUS
<1>11. WireTyped' /\ GwTyped'
  BY <1>5, <1>6, <1>7, <1>8, <1>9, <1>10 DEF ConnEventFull, ProcessFrameFails
<1> QED BY <1>3, <1>11 DEF TypeInv

\* Every step preserves the type invariant.
LEMMA NextTypeInv == TypeInv /\ [Next]_vars => TypeInv'
<1> SUFFICES ASSUME TypeInv, [Next]_vars PROVE TypeInv'
  OBVIOUS
<1>1. CASE UNCHANGED vars
  BY <1>1 DEF vars, agentVars, gwVars, TypeInv, AgentTyped, FramesTyped, Writing, WireTyped,
     GwTyped
<1> QED BY <1>1, AgentTypeInv, GatewayTypeInv DEF Next

\* The buffer of the gateway never holds more than its size, nor grows past
\* buffer_size, and every unit, header and number has its type, for any number
\* of threads that interleave their writes in any way.
THEOREM TypeCorrect == Spec => []TypeOK
<1>1. Init => TypeInv
  BY InitTypeInv
<1>2. TypeInv /\ [Next]_vars => TypeInv'
  BY NextTypeInv
<1>3. TypeInv => TypeOK
  <2> SUFFICES ASSUME TypeInv PROVE TypeOK
    OBVIOUS
  <2>1. AgentTyped /\ FramesTyped /\ WireTyped /\ GwTyped
    BY DEF TypeInv
  <2>2. \A t \in Threads : frame[t].id \in 0 .. begun /\ frame[t].type \in MsgTypes
    <3> SUFFICES ASSUME NEW t \in Threads
                 PROVE  frame[t].id \in 0 .. begun /\ frame[t].type \in MsgTypes
      OBVIOUS
    <3>1. frame[t].id \in 0 .. MaxFrames /\ frame[t].type \in MsgTypes
      BY <2>1 DEF FramesTyped, FrameDoc
    <3>2. frame[t].id <= begun /\ begun \in 0 .. MaxFrames
      BY <2>1 DEF FramesTyped
    <3>3. \A id \in 0 .. MaxFrames : id <= begun => id \in 0 .. begun
      BY <3>2, WzcpAssumption
    <3> QED BY <3>1, <3>2, <3>3
  <2>3. \A i \in 1 .. Len(got) : got[i].hdr \in Unit /\ got[i].body \in Seq(Unit)
    <3>1. \A i \in 1 .. Len(got) : got[i] \in Dispatched
      BY <2>1 DEF GwTyped
    <3> QED BY <3>1 DEF Dispatched
  <2> QED BY <2>1, <2>2, <2>3 DEF AgentTyped, FramesTyped, WireTyped, GwTyped, TypeOK
<1> QED BY <1>1, <1>2, <1>3, PTL DEF Spec

-----------------------------------------------------------------------------
(* The handshake.  It waits for any ACK, so it is sound as long as nothing    *)
(* but the HELLO is on the connection: with one writing thread always, and    *)
(* with any threads on the first connection, before events are collected.     *)

\* The receiver is in wzcp_handshake_to_gateway.
Shaking ==
    \/ pc[Receiver] = "await"
    \/ Writing(Receiver) /\ frame[Receiver].type = "HELLO"

\* No other thread writes during a handshake.
Alone == Senders = {} \/ conn <= 1

\* Nothing but a HELLO is on its way or has been dispatched, and what the gateway
\* has answered came after it.
OnlyHello ==
    /\ \A i \in 1 .. Len(wire) : wire[i].type = "HELLO"
    /\ \A i \in 1 .. Len(buf) : buf[i].type = "HELLO"
    /\ \A i \in 1 .. Len(got) : got[i].hdr.type = "HELLO"
    /\ acks # << >> => got # << >>

\* The senders are held back while the receiver connects, and do nothing at all
\* before the first handshake has succeeded.
HeldBack ==
    /\ pc[Receiver] = "connect" \/ Shaking => waiting
    /\ ~started => waiting /\ \A t \in Senders : pc[t] = "idle"
    /\ conn = 0 => ~started /\ pc[Receiver] = "connect"
    /\ conn <= 1 /\ Shaking => ~started

HandshakeInv ==
    /\ HeldBack
    /\ Alone /\ Shaking => OnlyHello
    /\ Alone => HandshakeSound

\* At first the receiver is about to connect.
LEMMA InitHandshakeInv == Init => HandshakeInv
<1> SUFFICES ASSUME Init PROVE HandshakeInv
  OBVIOUS
<1>1. pc[Receiver] = "connect" /\ \A t \in Senders : pc[t] = "idle"
  BY WzcpAssumption DEF Init, Threads
<1>2. ~Shaking
  BY <1>1 DEF Shaking, Writing
<1> QED BY <1>1, <1>2 DEF Init, HandshakeInv, HeldBack, HandshakeSound

\* A thread that begins a frame.
LEMMA BeginFields ==
    ASSUME AgentTyped, FramesTyped, NEW t \in Threads, NEW type, NEW n, Begin(t, type, n)
    PROVE  /\ pc'[t] = "len" /\ frame'[t].type = type
           /\ \A s \in Threads \ {t} : pc'[s] = pc[s] /\ frame'[s] = frame[s]
BY DEF Begin, Frame, AgentTyped, FramesTyped

\* What the steps that are neither the receiver's nor the gateway's own leave
\* alone: a sender acts only once the agent has started.
LEMMA SenderStep ==
    ASSUME TypeInv, HeldBack, NEW t \in Senders,
           \/ SendLen(t) \/ SendHdr(t) \/ SendBody(t) \/ SendFails(t) \/ SendBufferLevel(t)
           \/ \E n \in EventBodies : SendMsg(t, n)
    PROVE  /\ started
           /\ pc'[Receiver] = pc[Receiver] /\ frame'[Receiver] = frame[Receiver]
           /\ UNCHANGED <<conn, started, acks, link, gwVars>>
           /\ waiting => waiting'
<1>1. AgentTyped /\ FramesTyped /\ t \in Threads /\ Receiver \in Threads /\ t # Receiver
  BY WzcpAssumption DEF TypeInv, Threads
<1>2. ASSUME NEW type, NEW n, Begin(t, type, n)
      PROVE  pc'[Receiver] = pc[Receiver] /\ frame'[Receiver] = frame[Receiver]
  BY <1>1, <1>2, BeginFields
<1>3. CASE SendLen(t) \/ SendHdr(t) \/ SendBody(t)
  <2>1. /\ Writing(t) /\ pc'[Receiver] = pc[Receiver]
        /\ UNCHANGED <<conn, started, waiting, frame, begun, acks, link, gwVars>>
    BY <1>1, <1>3, SendStep
  <2>2. started
    BY <2>1 DEF HeldBack, Writing
  <2> QED BY <2>1, <2>2
<1>4. CASE SendFails(t)
  <2>1. started
    BY <1>4 DEF SendFails, HeldBack
  <2>2. pc'[Receiver] = pc[Receiver] /\ (waiting => waiting')
    BY <1>1, <1>4 DEF SendFails, AgentTyped
  <2> QED BY <1>4, <2>1, <2>2 DEF SendFails
<1>5. CASE SendBufferLevel(t)
  BY <1>2, <1>5 DEF SendBufferLevel
<1>6. ASSUME NEW n \in EventBodies, SendMsg(t, n)
      PROVE  /\ started
             /\ pc'[Receiver] = pc[Receiver] /\ frame'[Receiver] = frame[Receiver]
             /\ UNCHANGED <<conn, started, acks, link, gwVars>>
             /\ waiting => waiting'
  BY <1>2, <1>6 DEF SendMsg, HeldBack
<1> QED BY <1>3, <1>4, <1>5, <1>6

\* The steps of the receiver other than the handshake itself: it is in its loop,
\* or in the middle of a frame.
LEMMA ReceiverStep ==
    ASSUME TypeInv,
           \/ SendHeartbeat \/ ReceiveMsg \/ ReceiveFails \/ RunNotifyReconnects
           \/ SendLen(Receiver) \/ SendHdr(Receiver) \/ SendBody(Receiver) \/ SendFails(Receiver)
           \/ \E n \in EventBodies : RunNotify(n)
    PROVE  /\ \A t \in Senders : pc'[t] = pc[t]
           /\ UNCHANGED <<conn, started, link, gwVars>>
           /\ waiting => waiting'
           /\ pc[Receiver] # "connect"
           /\ pc'[Receiver] = "connect" => waiting'
           /\ Shaking' => /\ Shaking
                          /\ SendLen(Receiver) \/ SendHdr(Receiver) \/ SendBody(Receiver)
<1>1. AgentTyped /\ FramesTyped /\ Receiver \in Threads /\ Senders \subseteq Threads \ {Receiver}
  BY WzcpAssumption DEF TypeInv, Threads
<1>2. ASSUME NEW type, NEW n, Begin(Receiver, type, n), type # "HELLO"
      PROVE  /\ \A t \in Senders : pc'[t] = pc[t]
             /\ ~Shaking' /\ pc'[Receiver] = "len"
  BY <1>1, <1>2, BeginFields DEF Shaking
<1>3. CASE SendHeartbeat \/ \E n \in EventBodies : RunNotify(n)
  BY <1>2, <1>3 DEF SendHeartbeat, RunNotify
<1>4. CASE ReceiveMsg
  <2>1. CASE Begin(Receiver, "ACK", 1)
    BY <1>2, <1>4, <2>1 DEF ReceiveMsg
  <2>2. CASE UNCHANGED <<begun, frame, pc>>
    BY <1>4, <2>2 DEF ReceiveMsg, Shaking, Writing
  <2> QED BY <1>4, <2>1, <2>2 DEF ReceiveMsg
<1>5. CASE ReceiveFails \/ RunNotifyReconnects
  BY <1>1, <1>5 DEF ReceiveFails, RunNotifyReconnects, Shaking, Writing, AgentTyped
<1>6. CASE SendFails(Receiver)
  <2>1. /\ \A t \in Senders : pc'[t] = pc[t]
        /\ pc'[Receiver] \in {"connect", "idle"}
        /\ pc[Receiver] # "connect"
    BY <1>1, <1>6 DEF SendFails, AgentTyped
  <2>2. pc'[Receiver] = "connect" => waiting'
    BY <1>1, <1>6 DEF SendFails, AgentTyped
  <2> QED BY <1>6, <2>1, <2>2 DEF SendFails, Shaking, Writing
<1>7. CASE SendLen(Receiver) \/ SendHdr(Receiver) \/ SendBody(Receiver)
  <2>1. /\ Writing(Receiver) /\ \A t \in Senders : pc'[t] = pc[t]
        /\ UNCHANGED <<conn, started, waiting, frame, begun, acks, link, gwVars>>
        /\ pc'[Receiver] \in {"hdr", "body", "idle"}
             \/ (frame[Receiver].type = "HELLO" /\ pc'[Receiver] = "await")
    BY <1>1, <1>7, SendStep
  <2> QED BY <1>7, <2>1 DEF Shaking, Writing
<1> QED BY <1>3, <1>4, <1>5, <1>6, <1>7

\* connect_server empties the connection and begins the HELLO.
LEMMA ConnectStep ==
    ASSUME TypeInv, HeldBack, ConnectServer
    PROVE  /\ Shaking' /\ waiting /\ conn \in Nat /\ conn' = conn + 1 /\ pc'[Receiver] = "len"
           /\ \A t \in Senders : pc'[t] = pc[t]
           /\ UNCHANGED <<started, waiting>>
           /\ wire' = << >> /\ buf' = << >> /\ got' = << >> /\ acks' = << >>
<1>1. AgentTyped /\ FramesTyped /\ Receiver \in Threads /\ Senders \subseteq Threads \ {Receiver}
  BY WzcpAssumption DEF TypeInv, Threads
<1>2. pc'[Receiver] = "len" /\ frame'[Receiver].type = "HELLO" /\ \A t \in Senders : pc'[t] = pc[t]
  BY <1>1, BeginFields DEF ConnectServer
<1>3. waiting /\ conn \in Nat
  BY <1>1, WzcpAssumption DEF ConnectServer, HeldBack, AgentTyped
<1> QED BY <1>2, <1>3 DEF ConnectServer, Shaking, Writing

\* The answer to the HELLO ends the handshake, one way or the other.
LEMMA AwaitStep ==
    ASSUME TypeInv, AwaitAck
    PROVE  /\ Shaking /\ ~Shaking' /\ acks # << >> /\ pc[Receiver] # "connect"
           /\ \A t \in Senders : pc'[t] = pc[t]
           /\ UNCHANGED <<conn, wire, link, gwVars>>
           /\ \/ pc'[Receiver] = "connect" /\ UNCHANGED <<started, waiting>>
              \/ pc'[Receiver] = "idle" /\ started'
<1>1. AgentTyped /\ Receiver \in Threads /\ Senders \subseteq Threads \ {Receiver}
  BY WzcpAssumption DEF TypeInv, Threads
<1>2. \A t \in Senders : pc'[t] = pc[t]
  BY <1>1 DEF AwaitAck, AgentTyped
<1>3. \/ pc'[Receiver] = "connect" /\ UNCHANGED <<started, waiting>>
      \/ pc'[Receiver] = "idle" /\ started'
  BY <1>1 DEF AwaitAck, AgentTyped
<1>4. pc'[Receiver] \in {"connect", "idle"}
  BY <1>3
<1> QED BY <1>2, <1>3, <1>4 DEF AwaitAck, Shaking, Writing

\* The network and the gateway leave the agent alone.
GatewayStep ==
    \/ LinkBreaks \/ ConnEventFull \/ Detect \/ ProcessFrame \/ ProcessFrameFails
    \/ FramesDone \/ GatewayHeartbeat
    \/ \E k \in 1 .. BufferSize : ConnEventRead(k)

\* The steps by whose they are.
LEMMA StepOwner ==
    ASSUME [Next]_vars
    PROVE  \/ UNCHANGED vars
           \/ GatewayStep
           \/ ConnectServer
           \/ AwaitAck
           \/ \/ SendHeartbeat \/ ReceiveMsg \/ ReceiveFails \/ RunNotifyReconnects
              \/ SendLen(Receiver) \/ SendHdr(Receiver) \/ SendBody(Receiver) \/ SendFails(Receiver)
              \/ \E n \in EventBodies : RunNotify(n)
           \/ \E t \in Senders :
                \/ SendLen(t) \/ SendHdr(t) \/ SendBody(t) \/ SendFails(t) \/ SendBufferLevel(t)
                \/ \E n \in EventBodies : SendMsg(t, n)
BY DEF Next, GatewayStep, Threads

\* Every step keeps HeldBack.
LEMMA NextHeldBack ==
    ASSUME TypeInv, HeldBack, [Next]_vars
    PROVE  HeldBack'
<1>1. CASE UNCHANGED agentVars
  BY <1>1 DEF agentVars, HeldBack, Shaking, Writing
<1>2. ASSUME GatewayStep \/ UNCHANGED vars PROVE UNCHANGED agentVars
  BY <1>2 DEF GatewayStep, LinkBreaks, ConnEventFull, Detect, ProcessFrame, ProcessFrameFails,
     FramesDone, GatewayHeartbeat, ConnEventRead, conn_del, vars
<1>3. CASE ConnectServer
  <2>1. /\ waiting' /\ conn \in Nat /\ conn' = conn + 1
        /\ \A t \in Senders : pc'[t] = pc[t]
        /\ UNCHANGED <<started, waiting>>
    BY <1>3, ConnectStep
  <2>2. conn' # 0 /\ (conn' <= 1 => ~started)
    BY <2>1 DEF HeldBack
  <2> QED BY <2>1, <2>2 DEF HeldBack
<1>4. CASE AwaitAck
  BY <1>4, AwaitStep DEF HeldBack
<1>5. CASE \/ SendHeartbeat \/ ReceiveMsg \/ ReceiveFails \/ RunNotifyReconnects
           \/ SendLen(Receiver) \/ SendHdr(Receiver) \/ SendBody(Receiver) \/ SendFails(Receiver)
           \/ \E n \in EventBodies : RunNotify(n)
  <2>1. /\ \A t \in Senders : pc'[t] = pc[t]
        /\ UNCHANGED <<conn, started>>
        /\ waiting => waiting'
        /\ pc[Receiver] # "connect"
        /\ pc'[Receiver] = "connect" => waiting'
        /\ Shaking' => Shaking
    BY <1>5, ReceiverStep
  <2> QED BY <2>1 DEF HeldBack
<1>6. ASSUME NEW t \in Senders,
             \/ SendLen(t) \/ SendHdr(t) \/ SendBody(t) \/ SendFails(t) \/ SendBufferLevel(t)
             \/ \E n \in EventBodies : SendMsg(t, n)
      PROVE  HeldBack'
  <2>1. /\ started
        /\ pc'[Receiver] = pc[Receiver] /\ frame'[Receiver] = frame[Receiver]
        /\ UNCHANGED <<conn, started>>
        /\ waiting => waiting'
    BY <1>6, SenderStep
  <2>2. Shaking' = Shaking
    BY <2>1 DEF Shaking, Writing
  <2> QED BY <2>1, <2>2 DEF HeldBack
<1> QED BY <1>1, <1>2, <1>3, <1>4, <1>5, <1>6, StepOwner

\* What is left of a sequence when its first m elements are gone.
LEMMA DropUnits ==
    ASSUME NEW S, NEW s \in Seq(S), NEW m \in Nat, m < Len(s) + 1
    PROVE  LET r == SubSeq(s, 1 + m, Len(s)) IN
           /\ r \in Seq(S) /\ Len(r) = Len(s) - m
           /\ \A i \in 1 .. Len(r) : r[i] = s[m + i] /\ m + i \in 1 .. Len(s)
BY SMTT(30)

\* The gateway dispatches and answers nothing but the HELLO while there is
\* nothing else on the connection.
LEMMA GatewayOnlyHello ==
    ASSUME TypeInv, OnlyHello, GatewayStep
    PROVE  OnlyHello'
<1>1. /\ wire \in Seq(Unit) /\ buf \in Seq(Unit) /\ got \in Seq(Dispatched)
      /\ acks \in Seq({"ACK", "HEARTBEAT"})
  BY DEF TypeInv, WireTyped, GwTyped
<1>2. ASSUME conn_del PROVE OnlyHello'
  BY <1>2 DEF conn_del, OnlyHello
<1>3. CASE LinkBreaks
  BY <1>3 DEF LinkBreaks, OnlyHello, gwVars
<1>4. ASSUME NEW k \in 1 .. BufferSize, ConnEventRead(k) PROVE OnlyHello'
  <2>1. k \in 1 .. Len(wire) /\ Len(wire) \in Nat /\ Len(buf) \in Nat
    BY <1>1, <1>4 DEF ConnEventRead
  <2>2. \A i \in 1 .. Len(wire') : wire'[i].type = "HELLO"
    <3>1. wire' = SubSeq(wire, k + 1, Len(wire))
      BY <1>4 DEF ConnEventRead
    <3> QED BY <1>1, <2>1, <3>1 DEF OnlyHello
  <2>3. \A i \in 1 .. Len(buf') : buf'[i].type = "HELLO"
    <3>1. SubSeq(wire, 1, k) \in Seq(Unit) /\ Len(SubSeq(wire, 1, k)) = k
          /\ \A i \in 1 .. k : SubSeq(wire, 1, k)[i] = wire[i]
      BY <1>1, <2>1
    <3>2. buf' = buf \o SubSeq(wire, 1, k)
      BY <1>4 DEF ConnEventRead
    <3> QED BY <1>1, <2>1, <3>1, <3>2 DEF OnlyHello
  <2> QED BY <1>4, <2>2, <2>3 DEF ConnEventRead, OnlyHello
<1>5. CASE ProcessFrame
  <2>1. /\ Len(buf) \in Nat /\ Len(buf) >= 2 /\ Len(buf) - 1 >= buf[1].n
    BY <1>1, <1>5 DEF ProcessFrame, Complete
  <2>2. buf[1].n \in Nat
    <3>1. buf[1] \in Unit
      BY <1>1, <2>1
    <3> QED BY <3>1 DEF Unit
  <2>3. \A i \in 1 .. Len(buf') : buf'[i].type = "HELLO"
    <3>1. buf' = SubSeq(buf, 2 + buf[1].n, Len(buf))
      BY <1>5 DEF ProcessFrame, Rest
    <3>2. \A i \in 1 .. Len(buf') : \E j \in 1 .. Len(buf) : buf'[i] = buf[j]
      <4> DEFINE m == 1 + buf[1].n
      <4>1. m \in Nat /\ m < Len(buf) + 1 /\ 1 + m = 2 + buf[1].n
        BY <2>1, <2>2
      <4> HIDE DEF m
      <4>2. buf' = SubSeq(buf, 1 + m, Len(buf))
        BY <3>1, <4>1
      <4> QED BY <1>1, <4>1, <4>2, DropUnits
    <3> QED BY <3>2 DEF OnlyHello
  <2>4. got' = Append(got, [hdr |-> buf[2], body |-> Body]) /\ wire' = wire
    BY <1>5 DEF ProcessFrame
  <2>5. buf[2].type = "HELLO"
    BY <2>1 DEF OnlyHello
  <2>6. \A i \in 1 .. Len(got') : got'[i].hdr.type = "HELLO"
    BY <1>1, <2>4, <2>5 DEF OnlyHello
  <2>7. got' # << >>
    BY <1>1, <2>4
  <2> QED BY <2>3, <2>4, <2>6, <2>7 DEF OnlyHello
<1>6. CASE FramesDone \/ GatewayHeartbeat \/ (Detect /\ ~conn_del)
  <2>1. UNCHANGED <<wire, buf, got>> /\ (acks' = acks \/ got # << >>)
    BY <1>6 DEF FramesDone, GatewayHeartbeat, Detect, gwVars
  <2> QED BY <2>1 DEF OnlyHello
<1>7. conn_del \/ ~conn_del
  OBVIOUS
<1> QED BY <1>2, <1>3, <1>4, <1>5, <1>6, <1>7 DEF GatewayStep, ConnEventFull, ProcessFrameFails

\* What the receiver writes during a handshake is the HELLO.
LEMMA HelloWritten ==
    ASSUME TypeInv, Shaking, OnlyHello, SendLen(Receiver) \/ SendHdr(Receiver) \/ SendBody(Receiver)
    PROVE  OnlyHello'
<1>1. AgentTyped /\ FramesTyped /\ Receiver \in Threads /\ wire \in Seq(Unit)
  BY DEF TypeInv, WireTyped, Threads
<1>2. PICK units \in Seq(Unit) :
        /\ wire' = IF link = "open" THEN wire \o units ELSE wire
        /\ \/ units = <<LenUnit(frame[Receiver])>>
           \/ units = <<HdrUnit(frame[Receiver])>>
           \/ units = BodyUnits(frame[Receiver])
  BY <1>1, SendStep, Zenon
<1>3. /\ UNCHANGED <<acks, buf, got>> /\ Writing(Receiver)
  BY <1>1, SendStep DEF gwVars
<1>4. frame[Receiver].type = "HELLO" /\ frame[Receiver] \in FrameDoc /\ frame[Receiver].id >= 1
  BY <1>1, <1>3 DEF Shaking, Writing, FramesTyped
<1>5. \A i \in 1 .. Len(units) : units[i].type = "HELLO"
  <2>1. CASE units = <<LenUnit(frame[Receiver])>> \/ units = <<HdrUnit(frame[Receiver])>>
    BY <1>4, <2>1 DEF LenUnit, HdrUnit
  <2>2. CASE units = BodyUnits(frame[Receiver])
    <3>1. Len(units) = frame[Receiver].n
      BY <1>4, <2>2, UnitsTyped
    <3>2. \A i \in 1 .. frame[Receiver].n : units[i].type = frame[Receiver].type
      BY <2>2 DEF BodyUnits
    <3> QED BY <1>4, <3>1, <3>2
  <2> QED BY <1>2, <2>1, <2>2
<1>6. \A i \in 1 .. Len(wire') : wire'[i].type = "HELLO"
  BY <1>1, <1>2, <1>5 DEF OnlyHello
<1> QED BY <1>3, <1>6 DEF OnlyHello

\* The HELLO stays alone on the connection until the handshake is over.
LEMMA NextOnlyHello ==
    ASSUME TypeInv, HandshakeInv, [Next]_vars, Alone', Shaking'
    PROVE  OnlyHello'
<1>1. conn \in Nat /\ HeldBack /\ (Alone /\ Shaking => OnlyHello)
  BY WzcpAssumption DEF TypeInv, AgentTyped, HandshakeInv
<1>2. CASE ConnectServer
  BY <1>2, <1>1, ConnectStep DEF OnlyHello
<1>3. ASSUME UNCHANGED <<pc, frame, conn>> PROVE Alone /\ Shaking
  BY <1>3 DEF Alone, Shaking, Writing
<1>4. CASE UNCHANGED vars
  BY <1>1, <1>3, <1>4 DEF OnlyHello, vars, agentVars, gwVars
<1>5. CASE GatewayStep
  <2>1. UNCHANGED agentVars
    BY <1>5 DEF GatewayStep, LinkBreaks, ConnEventFull, Detect, ProcessFrame, ProcessFrameFails,
       FramesDone, GatewayHeartbeat, ConnEventRead, conn_del
  <2> QED BY <1>1, <1>3, <1>5, <2>1, GatewayOnlyHello DEF agentVars
<1>6. CASE AwaitAck
  BY <1>6, AwaitStep
<1>7. CASE \/ SendHeartbeat \/ ReceiveMsg \/ ReceiveFails \/ RunNotifyReconnects
           \/ SendLen(Receiver) \/ SendHdr(Receiver) \/ SendBody(Receiver) \/ SendFails(Receiver)
           \/ \E n \in EventBodies : RunNotify(n)
  <2>1. Shaking /\ conn' = conn /\ (SendLen(Receiver) \/ SendHdr(Receiver) \/ SendBody(Receiver))
    BY <1>7, ReceiverStep
  <2>2. Alone
    BY <2>1 DEF Alone
  <2> QED BY <1>1, <2>1, <2>2, HelloWritten
<1>8. ASSUME NEW t \in Senders,
             \/ SendLen(t) \/ SendHdr(t) \/ SendBody(t) \/ SendFails(t) \/ SendBufferLevel(t)
             \/ \E n \in EventBodies : SendMsg(t, n)
      PROVE  FALSE
  <2>1. /\ started /\ conn' = conn
        /\ pc'[Receiver] = pc[Receiver] /\ frame'[Receiver] = frame[Receiver]
    BY <1>1, <1>8, SenderStep
  <2>2. Shaking /\ conn <= 1
    BY <1>8, <2>1 DEF Shaking, Writing, Alone
  <2> QED BY <1>1, <2>1, <2>2 DEF HeldBack
<1> QED BY <1>2, <1>4, <1>5, <1>6, <1>7, <1>8, StepOwner

\* Every step keeps the handshake sound.
LEMMA NextHandshakeSound ==
    ASSUME TypeInv, HandshakeInv, [Next]_vars, Alone'
    PROVE  HandshakeSound'
<1> SUFFICES ASSUME ~waiting' PROVE \E i \in 1 .. Len(got') : got'[i].hdr.type = "HELLO"
  BY DEF HandshakeSound
<1>1. conn \in Nat /\ HeldBack /\ got \in Seq(Dispatched)
  BY WzcpAssumption DEF TypeInv, AgentTyped, GwTyped, HandshakeInv
<1>2. ~ConnectServer
  BY <1>1, ConnectStep
<1>3. CASE AwaitAck
  <2>1. Shaking /\ acks # << >> /\ got' = got /\ conn' = conn
    BY <1>3, AwaitStep DEF gwVars
  <2>2. Alone
    BY <2>1 DEF Alone
  <2>3. got # << >> /\ \A i \in 1 .. Len(got) : got[i].hdr.type = "HELLO"
    BY <2>1, <2>2 DEF HandshakeInv, OnlyHello
  <2>4. 1 \in 1 .. Len(got)
    BY <1>1, <2>3
  <2> QED BY <2>1, <2>3, <2>4
<1>4. CASE ~AwaitAck
  <2>1. ~waiting /\ conn' = conn /\ (got' = got \/ ProcessFrame)
    <3>1. CASE UNCHANGED vars \/ GatewayStep
      BY <3>1 DEF GatewayStep, LinkBreaks, ConnEventFull, Detect, ProcessFrameFails,
         FramesDone, GatewayHeartbeat, ConnEventRead, ProcessFrame, conn_del, vars, agentVars, gwVars
    <3>2. CASE \/ SendHeartbeat \/ ReceiveMsg \/ ReceiveFails \/ RunNotifyReconnects
               \/ SendLen(Receiver) \/ SendHdr(Receiver) \/ SendBody(Receiver) \/ SendFails(Receiver)
               \/ \E n \in EventBodies : RunNotify(n)
      BY <3>2, ReceiverStep DEF gwVars
    <3>3. ASSUME NEW t \in Senders,
                 \/ SendLen(t) \/ SendHdr(t) \/ SendBody(t) \/ SendFails(t) \/ SendBufferLevel(t)
                 \/ \E n \in EventBodies : SendMsg(t, n)
          PROVE  ~waiting /\ conn' = conn /\ got' = got
      BY <1>1, <3>3, SenderStep DEF gwVars
    <3> QED BY <1>2, <1>4, <3>1, <3>2, <3>3, StepOwner
  <2>2. Alone
    BY <2>1 DEF Alone
  <2>3. PICK i \in 1 .. Len(got) : got[i].hdr.type = "HELLO"
    BY <2>1, <2>2 DEF HandshakeInv, HandshakeSound
  <2>4. CASE got' = got
    BY <2>3, <2>4
  <2>5. CASE ProcessFrame
    <3>1. i \in 1 .. Len(got') /\ got'[i] = got[i]
      BY <1>1, <2>3, <2>5 DEF ProcessFrame
    <3> QED BY <2>3, <3>1
  <2> QED BY <2>1, <2>4, <2>5
<1> QED BY <1>3, <1>4

\* Every step keeps the invariant of the handshake.
LEMMA NextHandshakeInv ==
    TypeInv /\ HandshakeInv /\ [Next]_vars => (TypeInv /\ HandshakeInv)'
<1> SUFFICES ASSUME TypeInv, HandshakeInv, [Next]_vars PROVE TypeInv' /\ HandshakeInv'
  OBVIOUS
<1>1. TypeInv' /\ HeldBack'
  BY NextTypeInv, NextHeldBack DEF HandshakeInv
<1> QED BY <1>1, NextOnlyHello, NextHandshakeSound DEF HandshakeInv

\* With one writing thread, the senders are let loose only after the gateway has
\* seen the HELLO of this connection, over any number of reconnects.  A second
\* thread breaks it from the second connection on: the ACK of what it sends
\* about the level of its buffer is taken for the one of the HELLO.
THEOREM HandshakeSoundAlways == Senders = {} /\ Spec => []HandshakeSound
<1>1. Init => TypeInv /\ HandshakeInv
  BY InitTypeInv, InitHandshakeInv
<1>2. CASE Senders = {}
  <2>1. HandshakeInv => HandshakeSound
    BY <1>2 DEF HandshakeInv, Alone
  <2> QED BY <1>1, <2>1, NextHandshakeInv, PTL DEF Spec
<1>3. CASE Senders # {}
  BY <1>3
<1> QED BY <1>2, <1>3

\* On its first connection the handshake is sound whatever threads there are:
\* no thread writes before start_agent has returned once.
THEOREM FirstHandshakeSound == Spec => [](conn <= 1 => HandshakeSound)
<1>1. Init => TypeInv /\ HandshakeInv
  BY InitTypeInv, InitHandshakeInv
<1>2. HandshakeInv => (conn <= 1 => HandshakeSound)
  BY DEF HandshakeInv, Alone
<1> QED BY <1>1, <1>2, NextHandshakeInv, PTL DEF Spec

-----------------------------------------------------------------------------
(* The reassembly of the stream of one writing thread. *)

Stream == buf \o wire

\* Unit j after the prefix u of a frame: its header, then its body.
UnitAfter(u, j) ==
    IF j = 1 THEN [k |-> "hdr", id |-> u.id, type |-> u.type, n |-> u.n - 1]
             ELSE [k |-> "body", id |-> u.id, type |-> u.type, n |-> j - 1]

\* The units after the prefix at i are those of its frame, as far as they are
\* there, and the next frame follows.
FrameAt(s, i) ==
    /\ s[i].n - 1 \in Bodies
    /\ \A j \in 1 .. s[i].n : i + j <= Len(s) => s[i + j] = UnitAfter(s[i], j)
    /\ i + 1 + s[i].n <= Len(s) => s[i + 1 + s[i].n].k = "len"

\* A stream is frames one after the other, of which the last may be cut short.
WellFormed(s) ==
    /\ s # << >> => s[1].k = "len"
    /\ \A i \in 1 .. Len(s) : s[i].k = "len" => FrameAt(s, i)

\* All frames of s are whole but for its last p units, which begin frame f and
\* are not all of it.
Unfinished(s, f, p) ==
    /\ p <= Len(s)
    /\ p > 0 => s[Len(s) - p + 1] = LenUnit(f) /\ p <= 1 + f.n
    /\ \A i \in 1 .. Len(s) - p : s[i].k = "len" => i + s[i].n <= Len(s)

\* How many units of its frame the receiver has sent.
Part == IF pc[Receiver] = "hdr" THEN 1 ELSE IF pc[Receiver] = "body" THEN 2 ELSE 0

StreamInv ==
    /\ WellFormed(Stream)
    /\ link = "open" => Unfinished(Stream, frame[Receiver], Part)

\* process_frames leaves no whole frame in the buffer, which grows by chunks.
BufferInv ==
    /\ gwPc = "read" => Len(buf) < 2 \/ Len(buf) <= buf[1].n
    /\ \E m \in Nat : bufSize = m * ChunkSize

\* Every frame dispatched has the body its sender wrote.
FramesIntact == \A i \in 1 .. Len(got) : Intact(got[i])

ReassemblyInv == StreamInv /\ BufferInv /\ FramesIntact

\* The largest frame fits the chunks that fit buffer_size.
FramesFit ==
    \E k \in Nat : k * ChunkSize <= BufferSize /\ \A n \in Bodies : 2 + n <= k * ChunkSize

-----------------------------------------------------------------------------
(* Well-formed streams. *)

\* What a prefix says of its frame.
LEMMA PrefixUnit ==
    ASSUME NEW f \in FrameDoc
    PROVE  /\ f.n \in Nat
           /\ LenUnit(f).k = "len" /\ LenUnit(f).n = 1 + f.n /\ LenUnit(f).n - 1 \in Bodies
           /\ HdrUnit(f) = UnitAfter(LenUnit(f), 1)
           /\ \A i \in 1 .. f.n : BodyUnits(f)[i] = UnitAfter(LenUnit(f), 1 + i)
<1>1. f.n \in Nat /\ f.n \in Bodies
  BY BodiesNat DEF FrameDoc
<1>2. LenUnit(f).k = "len" /\ LenUnit(f).n = 1 + f.n
      /\ LenUnit(f).id = f.id /\ LenUnit(f).type = f.type
  BY DEF LenUnit
<1>3. LenUnit(f).n - 1 = f.n
  BY <1>1, <1>2
<1>4. HdrUnit(f) = UnitAfter(LenUnit(f), 1)
  BY <1>2, <1>3 DEF HdrUnit, UnitAfter
<1>5. ASSUME NEW i \in 1 .. f.n PROVE BodyUnits(f)[i] = UnitAfter(LenUnit(f), 1 + i)
  <2>1. 1 + i # 1 /\ 1 + i - 1 = i
    BY <1>1
  <2> QED BY <1>2, <2>1 DEF BodyUnits, UnitAfter
<1> QED BY <1>1, <1>2, <1>3, <1>4, <1>5

\* What WellFormed says of one prefix.
LEMMA AtPrefix ==
    ASSUME NEW s \in Seq(Unit), WellFormed(s), NEW i \in 1 .. Len(s), s[i].k = "len"
    PROVE  /\ s[i].n \in Nat /\ s[i].n >= 1 /\ s[i].n - 1 \in Bodies
           /\ \A j \in 1 .. s[i].n : i + j <= Len(s) =>
                s[i + j] = UnitAfter(s[i], j) /\ s[i + j].k # "len"
           /\ i + 1 + s[i].n <= Len(s) => s[i + 1 + s[i].n].k = "len"
<1>1. s[i].n \in Nat
  <2>1. s[i] \in Unit
    OBVIOUS
  <2> QED BY <2>1 DEF Unit
<1>2. s[i].n - 1 \in Bodies
  BY DEF WellFormed, FrameAt
<1>3. s[i].n >= 1
  BY <1>1, <1>2, BodiesNat
<1>4. \A u, j : UnitAfter(u, j).k # "len"
  BY DEF UnitAfter
<1> QED BY <1>1, <1>2, <1>3, <1>4 DEF WellFormed, FrameAt

\* A longer stream: its units, as they follow those of s.
Extends(s, t, units) ==
    /\ Len(t) = Len(s) + Len(units)
    /\ \A i \in 1 .. Len(s) : t[i] = s[i]
    /\ \A i \in 1 .. Len(units) : t[Len(s) + i] = units[i]

\* A whole frame stays one, if what follows it is a prefix.
LEMMA WholeFrameKept ==
    ASSUME NEW s \in Seq(Unit), NEW t \in Seq(Unit), NEW units \in Seq(Unit),
           WellFormed(s), Extends(s, t, units),
           NEW i \in 1 .. Len(s), s[i].k = "len", i + s[i].n <= Len(s),
           i + s[i].n = Len(s) /\ Len(units) > 0 => units[1].k = "len"
    PROVE  FrameAt(t, i) /\ i + t[i].n <= Len(t)
<1> DEFINE n == Len(s)
           m == Len(units)
           l == s[i].n
<1>1. n \in Nat /\ m \in Nat /\ Len(t) = n + m /\ i \in 1 .. n
  BY DEF Extends
<1>2. (\A x \in 1 .. n : t[x] = s[x]) /\ (m > 0 => t[n + 1] = units[1])
  BY <1>1 DEF Extends
<1>3. /\ l \in Nat /\ l >= 1 /\ l - 1 \in Bodies
      /\ \A j \in 1 .. l : i + j <= n => s[i + j] = UnitAfter(s[i], j)
      /\ i + 1 + l <= n => s[i + 1 + l].k = "len"
  BY AtPrefix
<1>4. i + l <= n /\ (i + l = n /\ m > 0 => units[1].k = "len") /\ t[i] = s[i] /\ t[i].n = l
  BY <1>2
<1> HIDE DEF n, m, l
<1>5. ASSUME NEW j \in 1 .. l PROVE t[i + j] = UnitAfter(t[i], j)
  <2>1. i + j \in 1 .. n /\ i + j <= n
    BY <1>1, <1>3, <1>4
  <2> QED BY <1>2, <1>3, <1>4, <2>1
<1>6. ASSUME i + 1 + l <= n + m PROVE t[i + 1 + l].k = "len"
  <2>1. CASE i + l = n
    <3>1. m > 0 /\ i + 1 + l = n + 1
      BY <1>1, <1>3, <1>6, <2>1
    <3> QED BY <1>2, <1>4, <2>1, <3>1
  <2>2. CASE i + l # n
    <3>1. i + 1 + l \in 1 .. n /\ i + 1 + l <= n
      BY <1>1, <1>3, <1>4, <2>2
    <3> QED BY <1>2, <1>3, <3>1
  <2> QED BY <2>1, <2>2
<1>7. i + l <= n + m
  BY <1>1, <1>3, <1>4
<1> QED BY <1>1, <1>3, <1>4, <1>5, <1>6, <1>7 DEF FrameAt

\* The prefix of a frame after whole frames.
LEMMA WithPrefix ==
    ASSUME NEW s \in Seq(Unit), NEW t \in Seq(Unit), NEW f \in FrameDoc, f.id >= 1, NEW g,
           WellFormed(s), Unfinished(s, g, 0), Extends(s, t, <<LenUnit(f)>>)
    PROVE  WellFormed(t) /\ Unfinished(t, f, 1)
<1> DEFINE n == Len(s)
           u == LenUnit(f)
<1>1. n \in Nat /\ Len(t) = n + 1 /\ t[n + 1] = u /\ \A i \in 1 .. n : t[i] = s[i]
  BY DEF Extends
<1>2. u.k = "len" /\ u.n \in Nat /\ u.n >= 1 /\ u.n - 1 \in Bodies /\ <<u>> \in Seq(Unit)
  BY PrefixUnit, UnitsTyped
<1>3. \A i \in 1 .. n : s[i].k = "len" => i + s[i].n <= n
  BY <1>1 DEF Unfinished
<1>4. \A i \in 1 .. n : t[i].k = "len" => FrameAt(t, i) /\ i + t[i].n <= Len(t)
  BY <1>1, <1>2, <1>3, WholeFrameKept
<1> HIDE DEF u
<1>5. FrameAt(t, n + 1)
  BY <1>1, <1>2 DEF FrameAt
<1>6. t[1].k = "len"
  BY <1>1, <1>2 DEF WellFormed
<1>7. WellFormed(t)
  BY <1>1, <1>4, <1>5, <1>6 DEF WellFormed
<1>8. Unfinished(t, f, 1)
  <2>1. 1 <= Len(t) /\ Len(t) - 1 = n /\ Len(t) - 1 + 1 = n + 1
    BY <1>1
  <2>2. t[Len(t) - 1 + 1] = LenUnit(f)
    BY <1>1, <2>1 DEF u
  <2>3. 1 <= 1 + f.n
    BY PrefixUnit
  <2>4. \A i \in 1 .. Len(t) - 1 : t[i].k = "len" => i + t[i].n <= Len(t)
    BY <1>4, <2>1
  <2> QED BY <2>1, <2>2, <2>3, <2>4 DEF Unfinished
<1> QED BY <1>7, <1>8

\* A whole frame ends before the prefix of the last one.
LEMMA EndsBefore ==
    ASSUME NEW s \in Seq(Unit), WellFormed(s), NEW x \in 1 .. Len(s), s[x].k = "len",
           NEW i \in 1 .. x - 1, s[i].k = "len"
    PROVE  i + s[i].n < x
<1>1. i \in 1 .. Len(s) /\ Len(s) \in Nat /\ i < x
  OBVIOUS
<1>2. /\ s[i].n \in Nat
      /\ \A j \in 1 .. s[i].n : i + j <= Len(s) => s[i + j].k # "len"
  BY <1>1, AtPrefix
<1> SUFFICES ASSUME i + s[i].n >= x PROVE FALSE
  BY <1>1, <1>2
<1> DEFINE j == x - i
<1>3. j \in 1 .. s[i].n /\ i + j = x /\ i + j <= Len(s)
  BY <1>1, <1>2
<1> QED BY <1>2, <1>3

\* The header after its prefix; with an empty body the frame is whole.
LEMMA WithHeader ==
    ASSUME NEW s \in Seq(Unit), NEW t \in Seq(Unit), NEW f \in FrameDoc, f.id >= 1,
           WellFormed(s), Unfinished(s, f, 1), Extends(s, t, <<HdrUnit(f)>>)
    PROVE  /\ WellFormed(t)
           /\ f.n > 0 => Unfinished(t, f, 2)
           /\ f.n = 0 => \A g : Unfinished(t, g, 0)
<1> DEFINE n == Len(s)
           u == LenUnit(f)
           h == HdrUnit(f)
<1>1. n \in Nat /\ Len(t) = n + 1 /\ t[n + 1] = h /\ \A i \in 1 .. n : t[i] = s[i]
  BY DEF Extends
<1>2. /\ u.k = "len" /\ u.n = 1 + f.n /\ f.n \in Nat /\ u.n - 1 \in Bodies
      /\ h = UnitAfter(u, 1) /\ h.k # "len" /\ <<h>> \in Seq(Unit)
  <2>1. \A j : UnitAfter(u, j).k # "len"
    BY DEF UnitAfter
  <2> HIDE DEF u, h
  <2>2. /\ u.k = "len" /\ u.n = 1 + f.n /\ f.n \in Nat /\ u.n - 1 \in Bodies
        /\ h = UnitAfter(u, 1) /\ <<h>> \in Seq(Unit)
    BY PrefixUnit, UnitsTyped DEF u, h
  <2> QED BY <2>1, <2>2
<1>3. 1 <= n /\ s[n] = u
  BY <1>1 DEF Unfinished
<1>4. \A i \in 1 .. n - 1 : s[i].k = "len" => i + s[i].n < n
  BY <1>1, <1>2, <1>3, EndsBefore, SMTT(30)
<1>5. \A i \in 1 .. n - 1 : t[i].k = "len" => FrameAt(t, i) /\ i + t[i].n <= Len(t)
  <2> SUFFICES ASSUME NEW i \in 1 .. n - 1, t[i].k = "len"
               PROVE  FrameAt(t, i) /\ i + t[i].n <= Len(t)
    OBVIOUS
  <2>1. i \in 1 .. n /\ s[i].k = "len" /\ i + s[i].n < n
    BY <1>1, <1>4
  <2>2. s[i].n \in Nat
    BY <2>1, AtPrefix
  <2>3. i + s[i].n <= n /\ i + s[i].n # n
    BY <1>1, <2>1, <2>2
  <2> QED BY <1>2, <2>1, <2>3, WholeFrameKept
<1> HIDE DEF u, h
<1>6. FrameAt(t, n)
  <2>1. t[n] = u
    BY <1>1, <1>3
  <2>2. \A j \in 1 .. 1 + f.n : n + j <= n + 1 => t[n + j] = UnitAfter(u, j)
    <3> SUFFICES ASSUME NEW j \in 1 .. 1 + f.n, n + j <= n + 1 PROVE t[n + j] = UnitAfter(u, j)
      OBVIOUS
    <3>1. j = 1
      BY <1>1, <1>2
    <3> QED BY <1>1, <1>2, <3>1
  <2>3. ~(n + 1 + u.n <= n + 1)
    BY <1>1, <1>2
  <2> QED BY <1>1, <1>2, <2>1, <2>2, <2>3 DEF FrameAt
<1>7. t[1].k = "len"
  BY <1>1, <1>3 DEF WellFormed
<1>8. WellFormed(t)
  BY <1>1, <1>2, <1>5, <1>6, <1>7 DEF WellFormed
<1>9. ASSUME f.n > 0 PROVE Unfinished(t, f, 2)
  <2>1. Len(t) = n + 1 /\ Len(t) - 2 + 1 = n /\ Len(t) - 2 = n - 1 /\ 2 <= Len(t)
    BY <1>1, <1>3
  <2>2. t[Len(t) - 2 + 1] = LenUnit(f)
    BY <1>1, <1>3, <2>1 DEF u
  <2>3. 2 <= 1 + f.n
    BY <1>9, PrefixUnit
  <2>4. \A i \in 1 .. Len(t) - 2 : t[i].k = "len" => i + t[i].n <= Len(t)
    BY <1>5, <2>1
  <2> QED BY <2>1, <2>2, <2>3, <2>4 DEF Unfinished
<1>10. ASSUME f.n = 0, NEW g PROVE Unfinished(t, g, 0)
  <2>1. \A i \in 1 .. Len(t) : t[i].k = "len" => i + t[i].n <= Len(t)
    BY <1>1, <1>2, <1>3, <1>5, <1>10
  <2> QED BY <1>1, <2>1 DEF Unfinished
<1> QED BY <1>8, <1>9, <1>10

\* The body after the header: the frame is whole.
LEMMA WithBody ==
    ASSUME NEW s \in Seq(Unit), NEW t \in Seq(Unit), NEW f \in FrameDoc, f.id >= 1,
           WellFormed(s), Unfinished(s, f, 2), Extends(s, t, BodyUnits(f)), NEW g
    PROVE  WellFormed(t) /\ Unfinished(t, g, 0)
<1> DEFINE n == Len(s)
           u == LenUnit(f)
           b == BodyUnits(f)
           l == f.n
<1>1. /\ n \in Nat /\ l \in Nat /\ Len(t) = n + l /\ b \in Seq(Unit) /\ Len(b) = l
      /\ \A i \in 1 .. n : t[i] = s[i]
      /\ \A i \in 1 .. l : t[n + i] = b[i]
  <2>1. n \in Nat /\ l \in Nat /\ b \in Seq(Unit) /\ Len(b) = l
    BY PrefixUnit, UnitsTyped
  <2> HIDE DEF b, l
  <2>2. Extends(s, t, b)
    BY DEF b
  <2> QED BY <2>1, <2>2 DEF Extends
<1>2. /\ u.k = "len" /\ u.n = 1 + l /\ u.n - 1 \in Bodies
      /\ \A i \in 1 .. l : b[i] = UnitAfter(u, 1 + i)
      /\ \A j : UnitAfter(u, j).k # "len"
  BY PrefixUnit DEF UnitAfter
<1>3. 2 <= n /\ s[n - 1] = u
  <2>1. n - 2 + 1 = n - 1
    BY <1>1
  <2> QED BY <1>1, <2>1 DEF Unfinished
<1>4. s[n] = UnitAfter(u, 1)
  <2>1. n - 1 \in 1 .. Len(s) /\ n - 1 + 1 = n /\ 1 \in 1 .. 1 + l
    BY <1>1, <1>3
  <2>2. \A j \in 1 .. s[n - 1].n : n - 1 + j <= n => s[n - 1 + j] = UnitAfter(s[n - 1], j)
    BY <1>2, <1>3, <2>1, AtPrefix
  <2>3. s[n - 1].n = 1 + l
    BY <1>2, <1>3
  <2> HIDE DEF u, n, l
  <2>4. n - 1 + 1 <= n
    BY <1>1
  <2>5. s[n - 1 + 1] = UnitAfter(s[n - 1], 1)
    BY <2>1, <2>2, <2>3, <2>4
  <2> QED BY <1>3, <2>1, <2>5
<1>5. \A i \in 1 .. n - 2 : s[i].k = "len" => i + s[i].n < n - 1
  <2>1. n - 1 \in 1 .. Len(s) /\ n - 1 - 1 = n - 2
    BY <1>1, <1>3
  <2> QED BY <1>2, <1>3, <2>1, EndsBefore
<1>6. \A i \in 1 .. n - 2 : t[i].k = "len" => FrameAt(t, i) /\ i + t[i].n <= Len(t)
  <2> SUFFICES ASSUME NEW i \in 1 .. n - 2, t[i].k = "len"
               PROVE  FrameAt(t, i) /\ i + t[i].n <= Len(t)
    OBVIOUS
  <2>1. i \in 1 .. n /\ s[i].k = "len" /\ i + s[i].n < n - 1
    BY <1>1, <1>5
  <2>2. s[i].n \in Nat
    BY <2>1, AtPrefix
  <2>3. i + s[i].n <= n /\ i + s[i].n # n
    BY <1>1, <2>1, <2>2
  <2> QED BY <1>1, <2>1, <2>3, WholeFrameKept
<1> HIDE DEF u, b, l, n
<1>7. t[n - 1] = u /\ t[n] = UnitAfter(u, 1) /\ \A i \in 1 .. l : t[n + i] = UnitAfter(u, 1 + i)
  <2>1. n - 1 \in 1 .. n /\ n \in 1 .. n
    BY <1>1, <1>3
  <2>2. t[n - 1] = u /\ t[n] = UnitAfter(u, 1)
    BY <1>1, <1>3, <1>4, <2>1
  <2>3. \A i \in 1 .. l : t[n + i] = UnitAfter(u, 1 + i)
    BY <1>1, <1>2
  <2> QED BY <2>2, <2>3
<1>8. FrameAt(t, n - 1)
  <2>1. \A j \in 1 .. 1 + l : t[n - 1 + j] = UnitAfter(u, j)
    <3> SUFFICES ASSUME NEW j \in 1 .. 1 + l PROVE t[n - 1 + j] = UnitAfter(u, j)
      OBVIOUS
    <3>1. CASE j = 1
      BY <1>1, <1>7, <3>1
    <3>2. CASE j # 1
      <4>1. j - 1 \in 1 .. l /\ n + (j - 1) = n - 1 + j /\ 1 + (j - 1) = j
        BY <1>1, <3>2
      <4> QED BY <1>7, <4>1
    <3> QED BY <3>1, <3>2
  <2>2. ~(n - 1 + 1 + u.n <= n + l)
    BY <1>1, <1>2
  <2> QED BY <1>1, <1>2, <1>7, <2>1, <2>2 DEF FrameAt
<1>9. t[1].k = "len"
  <2>1. s[1].k = "len"
    BY <1>3 DEF WellFormed, n
  <2> QED BY <1>1, <1>3, <2>1
<1>10. ASSUME NEW i \in 1 .. Len(t), t[i].k = "len"
       PROVE  FrameAt(t, i) /\ i + t[i].n <= Len(t)
  <2>1. CASE i \in 1 .. n - 2
    BY <1>6, <1>10, <2>1
  <2>2. CASE i = n - 1
    BY <1>1, <1>2, <1>7, <1>8, <2>2
  <2>3. CASE i = n
    BY <1>2, <1>7, <1>10, <2>3
  <2>4. CASE i \in n + 1 .. n + l
    <3>1. i - n \in 1 .. l /\ n + (i - n) = i
      BY <1>1, <2>4
    <3>2. t[i] = UnitAfter(u, 1 + (i - n))
      BY <1>7, <3>1
    <3> QED BY <1>2, <1>10, <3>2
  <2> QED BY <1>1, <1>3, <2>1, <2>2, <2>3, <2>4
<1>11. WellFormed(t)
  BY <1>9, <1>10 DEF WellFormed
<1>12. Unfinished(t, g, 0)
  BY <1>1, <1>10 DEF Unfinished
<1> QED BY <1>11, <1>12

\* The units of t are those of s after the first m.
Drops(s, t, m) ==
    /\ m <= Len(s)
    /\ Len(t) = Len(s) - m
    /\ \A i \in 1 .. Len(t) : t[i] = s[m + i]

\* Without its first frame a stream is well formed, and cut where it was.
LEMMA WithoutFrame ==
    ASSUME NEW s \in Seq(Unit), NEW t \in Seq(Unit), WellFormed(s), s # << >>,
           NEW m \in Nat, m = 1 + s[1].n, Drops(s, t, m)
    PROVE  /\ WellFormed(t)
           /\ \A f \in FrameDoc, p \in Nat : Unfinished(s, f, p) => Unfinished(t, f, p)
<1> DEFINE n == Len(s)
<1>1. /\ n \in Nat /\ n >= 1 /\ Len(t) = n - m /\ Len(t) \in Nat /\ m <= n
      /\ \A i \in 1 .. n - m : t[i] = s[m + i]
  BY DEF Drops
<1>2. s[1].k = "len" /\ 1 \in 1 .. n
  BY <1>1 DEF WellFormed
<1>3. s[1].n \in Nat /\ (1 + 1 + s[1].n <= n => s[1 + 1 + s[1].n].k = "len")
  BY <1>2, AtPrefix
<1>4. ASSUME t # << >> PROVE t[1].k = "len"
  <2>1. Len(t) >= 1 /\ m + 1 = 1 + 1 + s[1].n /\ m + 1 <= n
    BY <1>1, <1>3, <1>4
  <2>2. t[1] = s[m + 1]
    BY <1>1, <2>1
  <2> QED BY <1>3, <2>1, <2>2
<1>5. ASSUME NEW i \in 1 .. Len(t), t[i].k = "len" PROVE FrameAt(t, i)
  <2> DEFINE x == m + i
             l == s[x].n
  <2>0. n \in Nat /\ Len(t) = n - m /\ i \in 1 .. n - m
    BY <1>1
  <2>1. x \in 1 .. n /\ t[i] = s[x]
    <3>1. \A c, d \in Nat : \A y \in 1 .. d - c : c + y \in 1 .. d
      OBVIOUS
    <3> HIDE DEF n
    <3> QED BY <1>1, <2>0, <3>1
  <2>2. /\ l \in Nat /\ l - 1 \in Bodies
        /\ \A j \in 1 .. l : x + j <= n => s[x + j] = UnitAfter(s[x], j)
        /\ x + 1 + l <= n => s[x + 1 + l].k = "len"
    BY <1>5, <2>1, AtPrefix
  <2> HIDE DEF l, n
  <2>l. l \in Nat
    BY <2>2
  <2>3. ASSUME NEW j \in 1 .. l, i + j <= Len(t) PROVE t[i + j] = UnitAfter(t[i], j)
    <3>1. i + j \in 1 .. n - m /\ m + (i + j) = x + j /\ x + j <= n
      BY <2>0, <2>l, <2>3
    <3>2. t[i + j] = s[x + j]
      BY <1>1, <3>1
    <3> QED BY <2>1, <2>2, <3>1, <3>2
  <2>4. ASSUME i + 1 + l <= Len(t) PROVE t[i + 1 + l].k = "len"
    <3>1. i + 1 + l \in 1 .. n - m /\ m + (i + 1 + l) = x + 1 + l /\ x + 1 + l <= n
      BY <2>0, <2>l, <2>4, SMTT(30)
    <3>2. t[i + 1 + l] = s[x + 1 + l]
      BY <1>1, <3>1
    <3> QED BY <2>2, <3>1, <3>2
  <2> QED BY <2>1, <2>2, <2>3, <2>4 DEF FrameAt, l
<1>6. WellFormed(t)
  BY <1>4, <1>5 DEF WellFormed
<1>7. ASSUME NEW f \in FrameDoc, NEW p \in Nat, Unfinished(s, f, p) PROVE Unfinished(t, f, p)
  <2>1. /\ p <= n /\ (p > 0 => s[n - p + 1] = LenUnit(f) /\ p <= 1 + f.n)
        /\ \A i \in 1 .. n - p : s[i].k = "len" => i + s[i].n <= n
    BY <1>7 DEF Unfinished
  <2>2. LenUnit(f).k = "len" /\ LenUnit(f).n = 1 + f.n /\ f.n \in Nat
    BY PrefixUnit
  <2>3. ASSUME p > 0 PROVE m < n - p + 1
    <3> DEFINE x == n - p + 1
    <3>1. x \in 1 .. Len(s) /\ s[x].k = "len"
      <4>1. n \in Nat /\ p <= n
        BY <1>1, <2>1
      <4>2. s[x] = LenUnit(f)
        BY <2>1, <2>3
      <4> QED BY <2>2, <2>3, <4>1, <4>2
    <3>2. CASE x = 1
      <4>1. n = p /\ s[1].n = 1 + f.n /\ p <= 1 + f.n
        BY <1>1, <2>1, <2>2, <2>3, <3>2
      <4>2. n \in Nat /\ m <= n /\ s[1].n \in Nat
        BY <1>1, <1>3
      <4> HIDE DEF n
      <4> QED BY <2>2, <4>1, <4>2
    <3>3. CASE x # 1
      <4>1. 1 \in 1 .. x - 1
        BY <3>1, <3>3
      <4> HIDE DEF x
      <4> QED BY <1>2, <3>1, <4>1, EndsBefore DEF x
    <3> QED BY <3>2, <3>3
  <2>4. p <= n - m
    BY <1>1, <2>3
  <2>5. ASSUME p > 0 PROVE t[Len(t) - p + 1] = LenUnit(f)
    <3> DEFINE y == n - m - p + 1
    <3>1. y \in 1 .. n - m /\ m + y = n - p + 1
      <4>1. \A c, d, q \in Nat : q <= c - d /\ q > 0 =>
              c - d - q + 1 \in 1 .. c - d /\ d + (c - d - q + 1) = c - q + 1
        OBVIOUS
      <4>2. n \in Nat
        BY <1>1
      <4> HIDE DEF n
      <4> QED BY <2>4, <2>5, <4>1, <4>2
    <3>2. y = Len(t) - p + 1
      BY <1>1
    <3> HIDE DEF y
    <3>3. t[y] = s[m + y]
      BY <1>1, <3>1
    <3> QED BY <2>1, <2>5, <3>1, <3>2, <3>3
  <2>6. ASSUME NEW i \in 1 .. Len(t) - p, t[i].k = "len" PROVE i + t[i].n <= Len(t)
    <3>1. i \in 1 .. n - m /\ m + i \in 1 .. n - p /\ m + i \in 1 .. n
      <4>1. n \in Nat /\ i \in 1 .. (n - m) - p
        BY <1>1
      <4> HIDE DEF n
      <4> QED BY <4>1, SMTT(30)
    <3>2. t[i] = s[m + i]
      BY <1>1, <3>1
    <3>3. s[m + i].n \in Nat /\ m + i + s[m + i].n <= n
      BY <2>1, <2>6, <3>1, <3>2, AtPrefix
    <3> HIDE DEF n
    <3> DEFINE l == s[m + i].n
    <3>4. l \in Nat /\ m + i + l <= n /\ t[i].n = l
      BY <3>2, <3>3
    <3>5. n \in Nat /\ Len(t) = n - m
      BY <1>1
    <3>6. \A c, d, e \in Nat : \A y \in 1 .. c - d : d + y + e <= c => y + e <= c - d
      OBVIOUS
    <3> HIDE DEF l
    <3> QED BY <3>1, <3>4, <3>5, <3>6, Zenon
  <2> QED BY <1>1, <2>1, <2>4, <2>5, <2>6 DEF Unfinished
<1> QED BY <1>6, <1>7

\* The beginning of a well-formed stream is well formed.
LEMMA CutShort ==
    ASSUME NEW s \in Seq(Unit), NEW t \in Seq(Unit), WellFormed(s),
           Len(t) <= Len(s), \A i \in 1 .. Len(t) : t[i] = s[i]
    PROVE  WellFormed(t)
<1>1. Len(s) \in Nat /\ Len(t) \in Nat
  OBVIOUS
<1>2. ASSUME t # << >> PROVE t[1].k = "len"
  <2>1. 1 \in 1 .. Len(t) /\ s # << >>
    BY <1>1, <1>2
  <2> QED BY <2>1 DEF WellFormed
<1>3. ASSUME NEW i \in 1 .. Len(t), t[i].k = "len" PROVE FrameAt(t, i)
  <2> DEFINE l == s[i].n
  <2>1. i \in 1 .. Len(s) /\ t[i] = s[i]
    BY <1>1
  <2>2. /\ l \in Nat /\ l - 1 \in Bodies
        /\ \A j \in 1 .. l : i + j <= Len(s) => s[i + j] = UnitAfter(s[i], j)
        /\ i + 1 + l <= Len(s) => s[i + 1 + l].k = "len"
    BY <1>3, <2>1, AtPrefix
  <2> HIDE DEF l
  <2>3. ASSUME NEW j \in 1 .. l, i + j <= Len(t) PROVE t[i + j] = UnitAfter(t[i], j)
    <3>1. i + j \in 1 .. Len(t) /\ i + j <= Len(s)
      BY <1>1, <2>2, <2>3
    <3> QED BY <2>1, <2>2, <3>1
  <2>4. ASSUME i + 1 + l <= Len(t) PROVE t[i + 1 + l].k = "len"
    <3>1. i + 1 + l \in 1 .. Len(t) /\ i + 1 + l <= Len(s)
      BY <1>1, <2>2, <2>4
    <3> QED BY <2>2, <3>1
  <2> QED BY <2>1, <2>2, <2>3, <2>4 DEF FrameAt, l
<1> QED BY <1>2, <1>3 DEF WellFormed

-----------------------------------------------------------------------------
(* The steps of the agent and of the gateway on a well-formed stream. *)

LEMMA StreamUnits ==
    ASSUME TypeInv
    PROVE  /\ buf \in Seq(Unit) /\ wire \in Seq(Unit) /\ Stream \in Seq(Unit)
           /\ Len(Stream) = Len(buf) + Len(wire)
           /\ \A i \in 1 .. Len(buf) : Stream[i] = buf[i]
           /\ \A i \in 1 .. Len(wire) : Stream[Len(buf) + i] = wire[i]
<1>1. buf \in Seq(Unit) /\ wire \in Seq(Unit)
  BY DEF TypeInv, WireTyped, GwTyped
<1> QED BY <1>1 DEF Stream

\* The stream at the start of a connection.
LEMMA EmptyStream ==
    ASSUME buf' = << >>, wire' = << >>, Part' = 0
    PROVE  StreamInv'
<1>1. Stream' = << >>
  BY DEF Stream
<1>2. Len(Stream') = 0
  BY <1>1
<1> QED BY <1>1, <1>2 DEF StreamInv, WellFormed, Unfinished

\* Steps that leave the units and the unfinished frame as they are.
LEMMA StreamKept ==
    ASSUME StreamInv, Stream' = Stream,
           link' = "open" => /\ link = "open" /\ Part' = Part
                             /\ Part = 0 \/ frame'[Receiver] = frame[Receiver]
    PROVE  StreamInv'
BY DEF StreamInv, Unfinished

\* With one writing thread, what it sends continues the frame it has begun.
LEMMA SendStream ==
    ASSUME TypeInv, StreamInv, SendLen(Receiver) \/ SendHdr(Receiver) \/ SendBody(Receiver)
    PROVE  StreamInv'
<1> DEFINE f == frame[Receiver]
<1>1. AgentTyped /\ FramesTyped /\ Receiver \in Threads
  BY DEF TypeInv, Threads
<1>2. UNCHANGED <<frame, link, buf>> /\ Writing(Receiver)
  BY <1>1, SendStep DEF gwVars
<1>3. f \in FrameDoc /\ f.id >= 1 /\ f.n \in Nat
  BY <1>1, <1>2, PrefixUnit DEF FramesTyped
<1>4. TypeInv'
  BY AgentTypeInv, <1>1
<1>5. CASE link # "open"
  <2>1. wire' = wire
    BY <1>1, <1>5, SendStep
  <2> QED BY <1>2, <1>5, <2>1, StreamKept DEF Stream
<1>6. CASE link = "open"
  <2>1. PICK units \in Seq(Unit) :
          /\ wire' = wire \o units
          /\ \/ /\ pc[Receiver] = "len" /\ pc'[Receiver] = "hdr" /\ units = <<LenUnit(f)>>
             \/ /\ pc[Receiver] = "hdr" /\ f.n > 0 /\ pc'[Receiver] = "body"
                /\ units = <<HdrUnit(f)>>
             \/ /\ \/ pc[Receiver] = "hdr" /\ f.n = 0 /\ units = <<HdrUnit(f)>>
                   \/ pc[Receiver] = "body" /\ units = BodyUnits(f)
                /\ pc'[Receiver] = IF f.type = "HELLO" THEN "await" ELSE "idle"
    BY <1>1, <1>6, SendStep
  <2>2. /\ Stream \in Seq(Unit) /\ Stream' \in Seq(Unit)
        /\ WellFormed(Stream) /\ Unfinished(Stream, f, Part)
    <3>1. buf' \in Seq(Unit) /\ wire' \in Seq(Unit)
      BY <1>4 DEF TypeInv, WireTyped, GwTyped
    <3>2. Stream' \in Seq(Unit)
      BY <3>1 DEF Stream
    <3> QED BY <1>6, <3>2, StreamUnits DEF StreamInv
  <2>3. Extends(Stream, Stream', units)
    <3>1. buf \in Seq(Unit) /\ wire \in Seq(Unit)
      BY StreamUnits
    <3>2. Stream' = buf \o (wire \o units)
      BY <1>2, <2>1 DEF Stream
    <3>3. Stream' = Stream \o units
      <4>1. \A x \in Seq(Unit) : (buf \o wire) \o x = buf \o (wire \o x)
        BY <3>1, ConcatAssociative
      <4> QED BY <2>1, <3>2, <4>1 DEF Stream
    <3> QED BY <2>2, <3>3, ConcatProperties DEF Extends
  <2>4. WellFormed(Stream') /\ Unfinished(Stream', f, Part')
    <3>1. CASE pc[Receiver] = "len"
      <4>1. Part = 0 /\ Part' = 1 /\ units = <<LenUnit(f)>>
        BY <2>1, <3>1 DEF Part
      <4> QED BY <1>3, <2>2, <2>3, <4>1, WithPrefix
    <3>2. CASE pc[Receiver] = "hdr"
      <4>1. Part = 1 /\ units = <<HdrUnit(f)>> /\ Part' = IF f.n > 0 THEN 2 ELSE 0
        BY <1>3, <2>1, <3>2 DEF Part
      <4>2. /\ WellFormed(Stream')
            /\ f.n > 0 => Unfinished(Stream', f, 2)
            /\ f.n = 0 => Unfinished(Stream', f, 0)
        BY <1>3, <2>2, <2>3, <4>1, WithHeader
      <4> QED BY <1>3, <4>1, <4>2
    <3>3. CASE pc[Receiver] = "body"
      <4>1. Part = 2 /\ units = BodyUnits(f) /\ Part' = 0
        BY <2>1, <3>3 DEF Part
      <4> QED BY <1>3, <2>2, <2>3, <4>1, WithBody
    <3> QED BY <1>2, <3>1, <3>2, <3>3 DEF Writing
  <2> QED BY <1>2, <1>6, <2>4 DEF StreamInv
<1> QED BY <1>5, <1>6

\* The other steps of the agent leave the stream alone.
LEMMA AgentStream ==
    ASSUME TypeInv, HeldBack, StreamInv, Senders = {}, [Next]_vars, ~GatewayStep
    PROVE  StreamInv'
<1>1. AgentTyped /\ FramesTyped /\ Receiver \in Threads
  BY DEF TypeInv, Threads
<1>2. CASE UNCHANGED vars
  <2>1. UNCHANGED <<buf, wire, link, frame, pc>>
    BY <1>2 DEF vars, agentVars, gwVars
  <2> QED BY <2>1, StreamKept DEF Stream, Part
<1>3. CASE ConnectServer
  <2>1. buf' = << >> /\ wire' = << >> /\ pc'[Receiver] = "len"
    BY <1>3, ConnectStep
  <2> QED BY <2>1, EmptyStream DEF Part
<1>4. ASSUME UNCHANGED <<buf, wire, link>>, pc[Receiver] \in {"idle", "await"},
             pc'[Receiver] \in {"idle", "await", "connect", "len"}
      PROVE  StreamInv'
  BY <1>4, StreamKept DEF Stream, Part
<1>5. CASE AwaitAck
  <2>1. UNCHANGED <<buf, wire, link>> /\ pc'[Receiver] \in {"connect", "idle"}
    BY <1>5, AwaitStep DEF gwVars
  <2> QED BY <1>4, <1>5, <2>1 DEF AwaitAck
<1>6. ASSUME NEW type, NEW n, Begin(Receiver, type, n), pc[Receiver] = "idle",
             UNCHANGED <<wire, link, gwVars>>
      PROVE  StreamInv'
  BY <1>1, <1>4, <1>6, BeginFields DEF gwVars
<1>7. CASE SendHeartbeat \/ \E n \in EventBodies : RunNotify(n)
  BY <1>6, <1>7 DEF SendHeartbeat, RunNotify
<1>8. CASE ReceiveMsg
  <2>1. CASE Begin(Receiver, "ACK", 1)
    BY <1>6, <1>8, <2>1 DEF ReceiveMsg
  <2>2. CASE UNCHANGED <<begun, frame, pc>>
    BY <1>4, <1>8, <2>2 DEF ReceiveMsg, gwVars
  <2> QED BY <1>8, <2>1, <2>2 DEF ReceiveMsg
<1>9. CASE ReceiveFails \/ SendFails(Receiver)
  <2>1. UNCHANGED <<buf, wire, link>> /\ link = "closed"
    BY <1>9 DEF ReceiveFails, SendFails, gwVars
  <2> QED BY <2>1, StreamKept DEF Stream
<1>11. CASE RunNotifyReconnects
  <2>1. UNCHANGED <<buf, wire, link>> /\ pc[Receiver] = "idle" /\ pc'[Receiver] = "connect"
    BY <1>1, <1>11 DEF RunNotifyReconnects, gwVars, AgentTyped
  <2> QED BY <1>4, <2>1
<1>10. CASE SendLen(Receiver) \/ SendHdr(Receiver) \/ SendBody(Receiver)
  BY <1>10, SendStream
<1> QED BY <1>2, <1>3, <1>5, <1>7, <1>8, <1>9, <1>10, <1>11, StepOwner

\* What process_frames finds at the front of the buffer.
LEMMA FrontOfBuffer ==
    ASSUME TypeInv, StreamInv, Len(buf) >= 2
    PROVE  /\ buf[1].k = "len" /\ buf[1].n \in Nat /\ buf[1].n >= 1 /\ buf[1].n - 1 \in Bodies
           /\ \A j \in 1 .. buf[1].n : 1 + j <= Len(buf) => buf[1 + j] = UnitAfter(buf[1], j)
           /\ buf[2].k = "hdr" /\ buf[2].n = buf[1].n - 1
           /\ buf[2].id = buf[1].id /\ buf[2].type = buf[1].type
<1>1. /\ buf \in Seq(Unit) /\ wire \in Seq(Unit) /\ Stream \in Seq(Unit)
      /\ Len(Stream) = Len(buf) + Len(wire)
      /\ \A i \in 1 .. Len(buf) : Stream[i] = buf[i]
  BY StreamUnits
<1>2. Len(buf) \in Nat /\ Len(wire) \in Nat /\ 1 \in 1 .. Len(Stream) /\ Stream # << >>
  BY <1>1
<1>3. Stream[1] = buf[1] /\ buf[1].k = "len" /\ WellFormed(Stream)
  BY <1>1, <1>2 DEF StreamInv, WellFormed
<1>4. /\ buf[1].n \in Nat /\ buf[1].n >= 1 /\ buf[1].n - 1 \in Bodies
      /\ \A j \in 1 .. buf[1].n : 1 + j <= Len(Stream) => Stream[1 + j] = UnitAfter(buf[1], j)
  <2>1. /\ Stream[1].n \in Nat /\ Stream[1].n >= 1 /\ Stream[1].n - 1 \in Bodies
        /\ \A j \in 1 .. Stream[1].n : 1 + j <= Len(Stream) =>
             Stream[1 + j] = UnitAfter(Stream[1], j)
    <3>1. Stream[1].k = "len"
      BY <1>3
    <3> QED BY <1>1, <1>2, <1>3, <3>1, AtPrefix
  <2> QED BY <1>3, <2>1
<1>5. ASSUME NEW j \in 1 .. buf[1].n, 1 + j <= Len(buf)
      PROVE  buf[1 + j] = UnitAfter(buf[1], j)
  <2>1. 1 + j \in 1 .. Len(buf) /\ 1 + j <= Len(Stream)
    BY <1>1, <1>2, <1>4, <1>5
  <2> QED BY <1>1, <1>4, <2>1
<1>6. buf[2] = UnitAfter(buf[1], 1)
  <2>1. 1 \in 1 .. buf[1].n /\ 1 + 1 <= Len(buf) /\ 1 + 1 = 2
    BY <1>4
  <2> QED BY <1>5, <2>1
<1>7. /\ UnitAfter(buf[1], 1).k = "hdr" /\ UnitAfter(buf[1], 1).n = buf[1].n - 1
      /\ UnitAfter(buf[1], 1).id = buf[1].id /\ UnitAfter(buf[1], 1).type = buf[1].type
  BY DEF UnitAfter
<1> QED BY <1>3, <1>4, <1>5, <1>6, <1>7

\* The units of a whole frame after its header are its body.
LEMMA BodyIsIntact ==
    ASSUME TypeInv, StreamInv, Complete
    PROVE  /\ Body \in Seq(Unit)
           /\ Body = BodyUnits(Frame(buf[2].id, buf[2].type, buf[2].n))
           /\ \A i \in 1 .. Len(Body) : Body[i].id = buf[2].id
<1> DEFINE u == buf[1]
           n == buf[1].n - 1
           b == BodyUnits(Frame(buf[2].id, buf[2].type, buf[2].n))
<1>1. buf \in Seq(Unit) /\ Len(buf) \in Nat /\ Len(buf) >= 2 /\ Len(buf) >= 2 + n
  <2>1. buf \in Seq(Unit) /\ Len(buf) >= 2 /\ Len(buf) - 1 >= buf[1].n
    BY StreamUnits DEF Complete
  <2>2. buf[1].n \in Nat
    BY <2>1, FrontOfBuffer
  <2> QED BY <2>1, <2>2
<1>2. /\ n \in Nat /\ u.n = 1 + n /\ buf[2].n = n /\ buf[2].id = u.id /\ buf[2].type = u.type
      /\ \A j \in 1 .. 1 + n : 1 + j <= Len(buf) => buf[1 + j] = UnitAfter(u, j)
  BY <1>1, FrontOfBuffer
<1>3. Body = SubSeq(buf, 3, 2 + n)
  <2>1. 1 + buf[1].n = 2 + n
    BY <1>2
  <2> QED BY <2>1 DEF Body
<1>4. b = [i \in 1 .. n |-> [k |-> "body", id |-> u.id, type |-> u.type, n |-> i]]
  BY <1>2 DEF BodyUnits, Frame
<1> HIDE DEF n, b, u
<1>5. Body \in Seq(Unit) /\ Len(Body) = n /\ \A i \in 1 .. n : Body[i] = buf[2 + i]
  BY <1>1, <1>2, <1>3
<1>6. \A i \in 1 .. n : Body[i] = [k |-> "body", id |-> u.id, type |-> u.type, n |-> i]
  <2> SUFFICES ASSUME NEW i \in 1 .. n
               PROVE  Body[i] = [k |-> "body", id |-> u.id, type |-> u.type, n |-> i]
    OBVIOUS
  <2>1. 1 + i \in 1 .. 1 + n /\ 1 + (1 + i) <= Len(buf) /\ 1 + (1 + i) = 2 + i
        /\ 1 + i # 1 /\ 1 + i - 1 = i
    BY <1>1, <1>2
  <2>2. buf[2 + i] = UnitAfter(u, 1 + i)
    BY <1>2, <2>1
  <2> QED BY <1>5, <2>1, <2>2 DEF UnitAfter
<1>7. Body = [i \in 1 .. n |-> Body[i]]
  BY <1>2, <1>5
<1>8. Body = b
  BY <1>4, <1>6, <1>7
<1>9. \A i \in 1 .. Len(Body) : Body[i].id = buf[2].id
  <2>1. \A i : [k |-> "body", id |-> u.id, type |-> u.type, n |-> i].id = u.id
    OBVIOUS
  <2> SUFFICES ASSUME NEW i \in 1 .. Len(Body) PROVE Body[i].id = buf[2].id
    OBVIOUS
  <2>2. i \in 1 .. n /\ buf[2].id = u.id
    BY <1>2, <1>5
  <2>3. Body[i] = [k |-> "body", id |-> u.id, type |-> u.type, n |-> i]
    BY <1>6, <2>2, Zenon
  <2> QED BY <2>1, <2>2, <2>3, Zenon
<1> QED BY <1>5, <1>8, <1>9 DEF b

\* The gateway keeps the stream well formed, whatever its reads are.
LEMMA GatewayStream ==
    ASSUME TypeInv, StreamInv, GatewayStep
    PROVE  StreamInv'
<1>1. /\ buf \in Seq(Unit) /\ wire \in Seq(Unit) /\ Stream \in Seq(Unit)
      /\ Len(buf) \in Nat /\ Len(wire) \in Nat
      /\ Len(Stream) = Len(buf) + Len(wire)
      /\ \A i \in 1 .. Len(buf) : Stream[i] = buf[i]
      /\ \A i \in 1 .. Len(wire) : Stream[Len(buf) + i] = wire[i]
  <2>1. buf \in Seq(Unit) /\ wire \in Seq(Unit)
    BY StreamUnits
  <2>2. Len(buf) \in Nat /\ Len(wire) \in Nat
    BY <2>1
  <2> QED BY <2>2, StreamUnits
<1>2. UNCHANGED <<frame, pc>> /\ Part' = Part
  BY DEF GatewayStep, LinkBreaks, ConnEventFull, Detect, ProcessFrame, ProcessFrameFails,
     FramesDone, GatewayHeartbeat, ConnEventRead, conn_del, agentVars, Part
<1>3. ASSUME link' # "open", wire' = << >>, buf' = << >> \/ buf' = buf PROVE StreamInv'
  <2>1. Stream' = buf'
    BY <1>1, <1>3 DEF Stream
  <2>2. Len(buf') <= Len(Stream) /\ buf' \in Seq(Unit) /\ \A i \in 1 .. Len(buf') : buf'[i] = Stream[i]
    <3>1. CASE buf' = buf
      BY <1>1, <3>1
    <3>2. CASE buf' = << >>
      <4>1. Len(buf') = 0 /\ buf' \in Seq(Unit)
        BY <3>2
      <4>2. Len(Stream) \in Nat
        BY <1>1
      <4> QED BY <4>1, <4>2
    <3> QED BY <1>3, <3>1, <3>2
  <2>3. WellFormed(buf')
    BY <1>1, <2>2, CutShort DEF StreamInv
  <2> QED BY <1>3, <2>1, <2>3 DEF StreamInv
<1>4. CASE conn_del \/ LinkBreaks
  BY <1>3, <1>4 DEF conn_del, LinkBreaks, gwVars
<1>5. CASE FramesDone \/ GatewayHeartbeat \/ (Detect /\ ~conn_del)
  <2>1. UNCHANGED <<buf, wire, link>>
    BY <1>5 DEF FramesDone, GatewayHeartbeat, Detect, gwVars
  <2> QED BY <1>2, <2>1, StreamKept DEF Stream
<1>6. ASSUME NEW k \in 1 .. BufferSize, ConnEventRead(k) PROVE StreamInv'
  <2>1. /\ k \in 1 .. Len(wire) /\ link' = link
        /\ buf' = buf \o SubSeq(wire, 1, k) /\ wire' = SubSeq(wire, k + 1, Len(wire))
    BY <1>6 DEF ConnEventRead
  <2>2. SubSeq(wire, 1, k) \in Seq(Unit) /\ SubSeq(wire, k + 1, Len(wire)) \in Seq(Unit)
    <3>1. wire \in Seq(Unit) /\ k \in 1 .. Len(wire)
      BY <1>1, <2>1
    <3> QED BY <3>1
  <2>3. SubSeq(wire, 1, k) \o SubSeq(wire, k + 1, Len(wire)) = wire
    <3>1. /\ 1 \in 1 .. Len(wire) + 1 /\ k \in 1 - 1 .. Len(wire)
          /\ Len(wire) \in k .. Len(wire)
      BY <1>1, <2>1
    <3>2. SubSeq(wire, 1, k) \o SubSeq(wire, k + 1, Len(wire)) = SubSeq(wire, 1, Len(wire))
      BY <1>1, <3>1, ConcatAdjacentSubSeq
    <3> QED BY <1>1, <3>2, SubSeqFull
  <2>4. Stream' = Stream
    <3> DEFINE x == SubSeq(wire, 1, k)
               y == SubSeq(wire, k + 1, Len(wire))
    <3>1. Stream' = (buf \o x) \o y
      BY <2>1 DEF Stream
    <3>2. buf \in Seq(Unit) /\ x \in Seq(Unit) /\ y \in Seq(Unit)
      BY <1>1, <2>2
    <3>3. x \o y = wire
      BY <2>3
    <3> HIDE DEF x, y
    <3>4. (buf \o x) \o y = buf \o (x \o y)
      BY <3>2, ConcatAssociative
    <3> QED BY <3>1, <3>3, <3>4 DEF Stream
  <2> QED BY <1>2, <2>1, <2>4, StreamKept
<1>7. CASE ProcessFrame
  <2> DEFINE m == 1 + buf[1].n
  <2>1. Len(buf) >= 2 /\ Len(buf) - 1 >= buf[1].n
        /\ buf' = SubSeq(buf, 2 + buf[1].n, Len(buf)) /\ UNCHANGED <<wire, link>>
    BY <1>7 DEF ProcessFrame, Complete, Rest
  <2>2. buf[1].n \in Nat /\ Stream[1] = buf[1] /\ Stream # << >>
    BY <1>1, <2>1, FrontOfBuffer
  <2>3. m \in Nat /\ m <= Len(buf) /\ 1 + m = 2 + buf[1].n /\ m = 1 + Stream[1].n
    <3>1. Len(buf) \in Nat
      BY <1>1
    <3> QED BY <2>1, <2>2, <3>1
  <2> HIDE DEF m
  <2>4. buf' \in Seq(Unit) /\ Len(buf') = Len(buf) - m
        /\ \A i \in 1 .. Len(buf') : buf'[i] = buf[m + i] /\ m + i \in 1 .. Len(buf)
    <3>1. buf' = SubSeq(buf, 1 + m, Len(buf))
      BY <2>1, <2>3
    <3>2. \A c, d \in Nat : c <= d => c < d + 1
      OBVIOUS
    <3>3. m < Len(buf) + 1
      BY <1>1, <2>3, <3>2
    <3>4. buf \in Seq(Unit) /\ m \in Nat
      BY <1>1, <2>3
    <3> QED BY <3>1, <3>3, <3>4, DropUnits
  <2>5. Stream' = buf' \o wire
    BY <2>1 DEF Stream
  <2> DEFINE t == buf' \o wire
  <2>6. /\ t \in Seq(Unit) /\ Len(t) = Len(buf') + Len(wire)
        /\ \A i \in 1 .. Len(buf') + Len(wire) :
             t[i] = IF i <= Len(buf') THEN buf'[i] ELSE wire[i - Len(buf')]
    BY <1>1, <2>4, ConcatProperties
  <2> HIDE DEF t
  <2>7. Len(t) = Len(Stream) - m /\ m <= Len(Stream)
    <3>1. /\ Len(buf) \in Nat /\ Len(wire) \in Nat /\ Len(Stream) = Len(buf) + Len(wire)
          /\ Len(t) = Len(buf') + Len(wire) /\ Len(buf') = Len(buf) - m
      BY <1>1, <2>4, <2>6
    <3>2. m \in Nat /\ m <= Len(buf)
      BY <2>3
    <3> QED BY <3>1, <3>2
  <2>8. ASSUME NEW i \in 1 .. Len(t) PROVE t[i] = Stream[m + i]
    <3>1. CASE i <= Len(buf')
      <4>1. i \in 1 .. Len(buf') /\ t[i] = buf'[i]
        BY <1>1, <2>4, <2>6, <3>1
      <4> QED BY <1>1, <2>4, <4>1
    <3>2. CASE ~(i <= Len(buf'))
      <4> DEFINE j == i - Len(buf')
      <4>1. t[i] = wire[j]
        BY <2>6, <3>2
      <4>2. j \in 1 .. Len(wire) /\ Len(buf) + j = m + i
        <5>1. \A c, d, e \in Nat : \A x \in 1 .. (c - d) + e :
                d <= c /\ ~(x <= c - d) => x - (c - d) \in 1 .. e /\ c + (x - (c - d)) = d + x
          OBVIOUS
        <5>2. i \in 1 .. (Len(buf) - m) + Len(wire) /\ ~(i <= Len(buf) - m)
          BY <2>4, <2>6, <2>8, <3>2
        <5>3. j = i - (Len(buf) - m)
          BY <2>4
        <5>4. m \in Nat /\ Len(buf) \in Nat /\ Len(wire) \in Nat /\ m <= Len(buf)
          BY <1>1, <2>3
        <5> HIDE DEF j
        <5> QED BY <5>1, <5>2, <5>3, <5>4, Zenon
      <4> HIDE DEF j
      <4> QED BY <1>1, <4>1, <4>2
    <3> QED BY <3>1, <3>2
  <2>9. Drops(Stream, t, m)
    BY <2>7, <2>8 DEF Drops
  <2>10. /\ WellFormed(t)
         /\ \A f \in FrameDoc, p \in Nat : Unfinished(Stream, f, p) => Unfinished(t, f, p)
    BY <1>1, <2>2, <2>3, <2>6, <2>9, WithoutFrame DEF StreamInv
  <2>11. frame[Receiver] \in FrameDoc /\ Part \in Nat
    BY DEF TypeInv, FramesTyped, Threads, Part
  <2>12. Stream' = t
    BY <2>5 DEF t
  <2> QED BY <1>2, <2>1, <2>10, <2>11, <2>12 DEF StreamInv
<1> QED BY <1>4, <1>5, <1>6, <1>7 DEF GatewayStep, ConnEventFull, ProcessFrameFails

\* What the agent leaves alone in the gateway, but for a new connection.
LEMMA AgentLeavesGateway ==
    ASSUME TypeInv, HeldBack, Senders = {}, [Next]_vars, ~GatewayStep, ~ConnectServer
    PROVE  UNCHANGED gwVars /\ (link' = "open" <=> link = "open")
<1>1. CASE UNCHANGED vars
  BY <1>1 DEF vars
<1>2. CASE AwaitAck
  BY <1>2, AwaitStep
<1>3. CASE \/ SendHeartbeat \/ ReceiveMsg \/ ReceiveFails \/ RunNotifyReconnects
           \/ SendLen(Receiver) \/ SendHdr(Receiver) \/ SendBody(Receiver) \/ SendFails(Receiver)
           \/ \E n \in EventBodies : RunNotify(n)
  BY <1>3, ReceiverStep
<1> QED BY <1>1, <1>2, <1>3, StepOwner

\* Every step leaves no whole frame in the buffer of a gateway that is to read,
\* and the size of the buffer a number of chunks.
LEMMA NextBufferInv ==
    ASSUME TypeInv, HeldBack, StreamInv, BufferInv, Senders = {}, [Next]_vars
    PROVE  BufferInv'
<1>1. ChunkSize \in Nat /\ buf \in Seq(Unit) /\ Len(buf) \in Nat
  BY WzcpAssumption DEF TypeInv, GwTyped
<1>2. PICK m \in Nat : bufSize = m * ChunkSize
  BY DEF BufferInv
<1>3. \A a \in Nat : a * ChunkSize + ChunkSize = (a + 1) * ChunkSize /\ a + 1 \in Nat
  BY <1>1
<1>4. ChunkSize = 1 * ChunkSize
  BY <1>1
<1>5. \E a \in Nat : bufSize' = a * ChunkSize
  <2>1. bufSize' = bufSize \/ bufSize' = bufSize + ChunkSize \/ bufSize' = ChunkSize
    BY AgentLeavesGateway DEF GatewayStep, LinkBreaks, ConnEventFull, Detect, ProcessFrame,
       ProcessFrameFails, FramesDone, GatewayHeartbeat, ConnEventRead, conn_del, Grown,
       ConnectServer, gwVars
  <2> QED BY <1>2, <1>3, <1>4, <2>1
<1>6. ASSUME gwPc' = "read" PROVE Len(buf') < 2 \/ Len(buf') <= buf'[1].n
  <2>1. CASE UNCHANGED <<gwPc, buf>>
    BY <1>6, <2>1 DEF BufferInv
  <2>2. CASE buf' = << >>
    BY <2>2
  <2>3. ASSUME FramesDone \/ (Detect /\ ~conn_del)
        PROVE  buf' = buf /\ (Len(buf) < 2 \/ Len(buf) <= buf[1].n)
    <3>1. CASE FramesDone
      <4>1. buf' = buf
        BY <3>1 DEF FramesDone
      <4>2. ASSUME Len(buf) >= 2 PROVE Len(buf) <= buf[1].n
        <5>1. buf[1].k = "len" /\ buf[1].n \in Nat
          BY <4>2, FrontOfBuffer
        <5>2. ~(Len(buf) - 1 >= buf[1].n)
          BY <3>1, <4>2, <5>1 DEF FramesDone, Complete
        <5> QED BY <1>1, <5>1, <5>2
      <4> QED BY <1>1, <4>1, <4>2
    <3>2. CASE Detect /\ ~conn_del
      BY <1>6, <3>2 DEF Detect
    <3> QED BY <2>3, <3>1, <3>2
  <2>4. ASSUME GatewayStep
        PROVE  \/ UNCHANGED <<gwPc, buf>> \/ buf' = << >>
               \/ FramesDone \/ (Detect /\ ~conn_del)
    BY <1>6, <2>4 DEF GatewayStep, LinkBreaks, ConnEventFull, ProcessFrame,
       ProcessFrameFails, GatewayHeartbeat, ConnEventRead, conn_del, gwVars
  <2>5. ASSUME ~GatewayStep PROVE UNCHANGED <<gwPc, buf>> \/ buf' = << >>
    BY <2>5, AgentLeavesGateway DEF ConnectServer, gwVars
  <2> QED BY <2>1, <2>2, <2>3, <2>4, <2>5
<1> QED BY <1>5, <1>6 DEF BufferInv

\* Every step dispatches whole frames only.
LEMMA NextFramesIntact ==
    ASSUME TypeInv, HeldBack, StreamInv, FramesIntact, Senders = {}, [Next]_vars
    PROVE  FramesIntact'
<1>1. got \in Seq(Dispatched)
  BY DEF TypeInv, GwTyped
<1>2. CASE ProcessFrame
  <2> DEFINE d == [hdr |-> buf[2], body |-> Body]
  <2>1. got' = Append(got, d) /\ Complete
    BY <1>2 DEF ProcessFrame
  <2>2. d.hdr = buf[2] /\ d.body = Body
    OBVIOUS
  <2>3. Intact(d)
    BY <2>1, <2>2, BodyIsIntact DEF Intact
  <2> HIDE DEF d
  <2>4. \A i \in 1 .. Len(got') : got'[i] = d \/ (i \in 1 .. Len(got) /\ got'[i] = got[i])
    BY <1>1, <2>1
  <2> QED BY <2>3, <2>4 DEF FramesIntact, Intact
<1>3. CASE got' = got
  BY <1>3 DEF FramesIntact, Intact
<1>4. CASE got' = << >>
  <2>1. Len(got') = 0
    BY <1>4
  <2> QED BY <2>1 DEF FramesIntact
<1>5. got' = got \/ got' = << >> \/ ProcessFrame
  BY AgentLeavesGateway DEF GatewayStep, LinkBreaks, ConnEventFull, Detect,
     ProcessFrameFails, FramesDone, GatewayHeartbeat, ConnEventRead, conn_del,
     ConnectServer, gwVars
<1> QED BY <1>2, <1>3, <1>4, <1>5

\* Chunks up to k are enough for what is less than k chunks.
LEMMA OneMoreChunk ==
    ASSUME NEW m \in Nat, NEW k \in Nat, NEW c \in Nat, m * c < k * c
    PROVE  m * c + c <= k * c
<1>1. m < k
  <2> SUFFICES ASSUME k <= m PROVE FALSE
    OBVIOUS
  <2>1. PICK d \in Nat : m = k + d
    BY m = k + (m - k), m - k \in Nat
  <2>2. m * c = k * c + d * c /\ d * c >= 0
    BY <2>1
  <2> QED BY <2>2
<1>2. PICK d \in Nat : k = m + 1 + d
  BY <1>1, k = m + 1 + (k - m - 1), k - m - 1 \in Nat
<1>3. k * c = m * c + c + d * c /\ d * c >= 0
  BY <1>2
<1> QED BY <1>3

\* The gateway refuses no well-formed stream whose frames fit its buffer.
LEMMA NoRefusal ==
    ASSUME TypeInv, StreamInv, BufferInv, FramesFit
    PROVE  ~ConnEventFull /\ ~ProcessFrameFails /\ ~(Detect /\ conn_del /\ link = "open")
<1>1. /\ ChunkSize \in Nat /\ BufferSize \in Nat /\ bufSize \in Nat /\ Len(buf) \in Nat
      /\ bufSize <= BufferSize /\ buf \in Seq(Unit)
  BY WzcpAssumption DEF TypeInv, GwTyped
<1>2. ~ConnEventFull
  <2> SUFFICES ASSUME ConnEventFull PROVE FALSE
    OBVIOUS
  <2>1. PICK m \in Nat : bufSize = m * ChunkSize
    BY DEF BufferInv
  <2>2. PICK k \in Nat : k * ChunkSize <= BufferSize /\ \A n \in Bodies : 2 + n <= k * ChunkSize
    BY DEF FramesFit
  <2>3. m * ChunkSize \in Nat /\ k * ChunkSize \in Nat
    BY <1>1
  <2>4. Len(buf) = bufSize /\ bufSize + ChunkSize > BufferSize /\ gwPc = "read"
    BY <1>1 DEF ConnEventFull, Grown
  <2>5. m * ChunkSize < k * ChunkSize
    <3>1. CASE Len(buf) < 2
      <4>1. 2 + 0 <= k * ChunkSize
        BY <2>2 DEF Bodies
      <4> QED BY <1>1, <2>1, <2>3, <2>4, <3>1, <4>1
    <3>2. CASE Len(buf) >= 2
      <4> DEFINE n == buf[1].n - 1
      <4>1. n \in Bodies /\ buf[1].n \in Nat /\ Len(buf) <= buf[1].n
        BY <1>1, <2>4, <3>2, FrontOfBuffer DEF BufferInv
      <4>2. 2 + n <= k * ChunkSize
        BY <2>2, <4>1
      <4> QED BY <1>1, <2>1, <2>3, <2>4, <4>1, <4>2
    <3> QED BY <1>1, <3>1, <3>2
  <2>6. m * ChunkSize + ChunkSize <= k * ChunkSize
    BY <1>1, <2>5, OneMoreChunk
  <2> QED BY <1>1, <2>1, <2>2, <2>3, <2>4, <2>6
<1>3. ~ProcessFrameFails
  <2> SUFFICES ASSUME ProcessFrameFails PROVE FALSE
    OBVIOUS
  <2>1. Len(buf) >= 2
    BY DEF ProcessFrameFails
  <2>2. buf[1].k = "len" /\ buf[2].k = "hdr" /\ buf[2].n = buf[1].n - 1
    BY <2>1, FrontOfBuffer
  <2>3. Complete /\ \E i \in 1 .. Len(Body) : Body[i].id # buf[2].id
    BY <2>2 DEF ProcessFrameFails
  <2> QED BY <2>3, BodyIsIntact
<1>4. ~(Detect /\ conn_del /\ link = "open")
  <2> SUFFICES ASSUME Detect, conn_del, link = "open" PROVE FALSE
    OBVIOUS
  <2>1. link' = "closed"
    BY DEF conn_del
  <2>2. Len(buf) >= 2 /\ ~(buf[1].k = "len" /\ buf[2].k = "hdr")
    BY <1>1, <2>1 DEF Detect
  <2> QED BY <2>2, FrontOfBuffer
<1> QED BY <1>2, <1>3, <1>4

IInv == TypeInv /\ HeldBack /\ ReassemblyInv

\* The invariant of the reassembly holds at first and after every step.
LEMMA Reassembly ==
    ASSUME Senders = {}
    PROVE  (Init => IInv) /\ (IInv /\ [Next]_vars => IInv')
<1>1. ASSUME Init PROVE IInv
  <2>1. TypeInv /\ HeldBack
    BY <1>1, InitTypeInv, InitHandshakeInv DEF HandshakeInv
  <2>2. Stream = << >>
    BY <1>1 DEF Init, Stream
  <2>3. StreamInv
    <3>1. WellFormed(<< >>)
      BY DEF WellFormed
    <3> QED BY <1>1, <2>2, <3>1 DEF StreamInv, Init
  <2>4. BufferInv
    <3>1. Len(buf) = 0
      BY <1>1 DEF Init
    <3>2. bufSize = 1 * ChunkSize
      BY <1>1, WzcpAssumption DEF Init
    <3> QED BY <3>1, <3>2 DEF BufferInv
  <2>5. FramesIntact
    BY <1>1 DEF Init, FramesIntact
  <2> QED BY <2>1, <2>3, <2>4, <2>5 DEF IInv, ReassemblyInv
<1>2. ASSUME IInv, [Next]_vars PROVE IInv'
  <2>1. TypeInv /\ HeldBack /\ StreamInv /\ BufferInv /\ FramesIntact
    BY <1>2 DEF IInv, ReassemblyInv
  <2>2. TypeInv' /\ HeldBack'
    BY <1>2, <2>1, NextTypeInv, NextHeldBack
  <2>3. StreamInv'
    BY <1>2, <2>1, AgentStream, GatewayStream
  <2>4. BufferInv' /\ FramesIntact'
    BY <1>2, <2>1, NextBufferInv, NextFramesIntact
  <2> QED BY <2>2, <2>3, <2>4 DEF IInv, ReassemblyInv
<1> QED BY <1>1, <1>2

\* Every frame the gateway dispatches has the body its sender wrote, for frames
\* of any length, cut by reads of any length, and any breaks of the link, as
\* long as one thread writes.
THEOREM FramesIntactAlways == Senders = {} /\ Spec => []FramesIntact
<1>1. CASE Senders = {}
  <2>1. IInv => FramesIntact
    BY DEF IInv, ReassemblyInv
  <2>2. (Init => IInv) /\ (IInv /\ [Next]_vars => IInv')
    BY <1>1, Reassembly
  <2> QED BY <2>1, <2>2, PTL DEF Spec
<1>2. CASE Senders # {}
  BY <1>2
<1> QED BY <1>1, <1>2

\* The gateway never refuses the stream of an agent with one writing thread: it
\* closes no connection of its own accord, if every frame fits its buffer.
THEOREM StreamAcceptedAlways == Senders = {} /\ FramesFit /\ Spec => StreamAccepted
<1>1. CASE Senders = {} /\ FramesFit
  <2>1. ASSUME IInv, [Next]_vars PROVE [link = "open" /\ link' = "closed" => LinkBreaks]_vars
    <3>1. TypeInv /\ HeldBack /\ StreamInv /\ BufferInv
      BY <2>1 DEF IInv, ReassemblyInv
    <3> SUFFICES ASSUME link = "open", link' = "closed" PROVE LinkBreaks
      OBVIOUS
    <3>2. GatewayStep
      BY <1>1, <2>1, <3>1, AgentLeavesGateway DEF ConnectServer
    <3>3. ~ConnEventFull /\ ~ProcessFrameFails /\ ~(Detect /\ conn_del)
      BY <1>1, <3>1, NoRefusal
    <3> QED BY <3>2, <3>3 DEF GatewayStep, Detect, ProcessFrame, FramesDone, GatewayHeartbeat,
               ConnEventRead
  <2>2. (Init => IInv) /\ (IInv /\ [Next]_vars => IInv')
    BY <1>1, Reassembly
  <2> QED BY <2>1, <2>2, PTL DEF Spec, StreamAccepted
<1>2. CASE ~(Senders = {} /\ FramesFit)
  BY <1>2
<1> QED BY <1>1, <1>2
==============================================================================
