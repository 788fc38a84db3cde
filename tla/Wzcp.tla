--------------------------------- MODULE Wzcp --------------------------------
(***************************************************************************)
(* The WZCP byte stream between one agent and the gateway: the threads of  *)
(* the agent that write frames piece by piece to the one socket they share *)
(* (send_frame), the handshake and the reconnect, and the reassembly of    *)
(* the stream into frames in the gateway (conn_event, process_buffer,      *)
(* process_frames).                                                        *)
(*                                                                         *)
(* A frame is a length prefix, a header and a body.  The unit of the       *)
(* stream is one prefix, one header or one piece of a body; reads of the   *)
(* gateway end after any unit.  Sequence numbers and time stamps, which no *)
(* end compares, are left out; "id" tells the frames apart.                *)
(***************************************************************************)
EXTENDS Naturals, Sequences, FiniteSets

CONSTANTS
    Senders,     \* the threads that call send_msg (dispatch_buffer, notify...)
    Receiver,    \* the thread that runs receiver_messages
    EventBodies, \* body lengths of EVENT_BATCH frames, in units
    ChunkSize,   \* ctx->chunk_size, in units
    BufferSize,  \* ctx->buffer_size, in units
    MaxConns,    \* bound on the connections the agent makes
    MaxFrames    \* bound on the frames the agent begins

ASSUME WzcpAssumption ==
    /\ Receiver \notin Senders
    /\ EventBodies \subseteq Nat \ {0}
    /\ ChunkSize \in Nat \ {0}
    /\ BufferSize \in Nat /\ BufferSize >= ChunkSize
    /\ MaxConns \in Nat
    /\ MaxFrames \in Nat

VARIABLES
    conn,    \* how many connections the agent has made; 0: none yet
    started, \* start_agent has returned once, and events are being collected
    waiting, \* os_setwait is in force: senders are to hold back
    pc,      \* pc[t]: what thread t does next
    frame,   \* frame[t]: the frame t is writing
    begun,   \* frames begun so far
    wire,    \* units written and not yet read by the gateway
    acks,    \* frames from the gateway the agent has not yet received
    link,    \* "open"; "closed", and the agent's system knows; or "silent"
    gwPc,    \* the gateway: "read", "detect" (process_buffer), "frames"
    bufSize, \* conn->buf_size
    buf,     \* conn->buf_data
    got      \* the frames process_frames has dispatched on this connection

agentVars == <<conn, started, waiting, pc, frame, begun>>
gwVars == <<gwPc, bufSize, buf, got>>
vars == <<agentVars, wire, acks, link, gwVars>>

-----------------------------------------------------------------------------
Threads == Senders \cup {Receiver}
MsgTypes == {"HELLO", "EVENT_BATCH", "ACK", "HEARTBEAT"}
Frame(id, type, n) == [id |-> id, type |-> type, n |-> n]
NoFrame == Frame(0, "ACK", 0)

\* Mutant: the prefix counts the body and forgets the header.
LenUnit_BodyOnly(f) == [k |-> "len", id |-> f.id, type |-> f.type, n |-> f.n]

\* The units of frame f: prefix, header and n pieces of body.
LenUnit(f) == [k |-> "len", id |-> f.id, type |-> f.type, n |-> 1 + f.n]
HdrUnit(f) == [k |-> "hdr", id |-> f.id, type |-> f.type, n |-> f.n]
BodyUnits(f) == [i \in 1 .. f.n |-> [k |-> "body", id |-> f.id, type |-> f.type, n |-> i]]

Init ==
    /\ conn = 0
    /\ started = FALSE
    /\ waiting = TRUE
    /\ pc = [t \in Threads |-> IF t = Receiver THEN "connect" ELSE "idle"]
    /\ frame = [t \in Threads |-> NoFrame]
    /\ begun = 0
    /\ wire = << >>
    /\ acks = << >>
    /\ link = "closed"
    /\ gwPc = "read"
    /\ bufSize = ChunkSize
    /\ buf = << >>
    /\ got = << >>

-----------------------------------------------------------------------------
(* The agent. *)

\* Thread t begins a frame: send_frame is called.
Begin(t, type, n) ==
    /\ begun < MaxFrames
    /\ begun' = begun + 1
    /\ frame' = [frame EXCEPT ![t] = Frame(begun + 1, type, n)]
    /\ pc' = [pc EXCEPT ![t] = "len"]

\* connect_server and the HELLO of wzcp_handshake_to_gateway.  The descriptor
\* of the socket that was closed is the one the new socket gets, so a thread
\* that still holds it writes to the new connection.
ConnectServer ==
    /\ pc[Receiver] = "connect"
    /\ conn < MaxConns
    /\ conn' = conn + 1
    /\ wire' = << >>
    /\ acks' = << >>
    /\ link' = "open"
    /\ gwPc' = "read"
    /\ bufSize' = ChunkSize
    /\ buf' = << >>
    /\ got' = << >>
    /\ Begin(Receiver, "HELLO", 1)
    /\ UNCHANGED <<started, waiting>>

\* dispatch_buffer: os_wait has let the thread pass, and it calls send_msg.
SendMsg(t, n) ==
    /\ pc[t] = "idle"
    /\ ~waiting
    /\ Begin(t, "EVENT_BATCH", n)
    /\ UNCHANGED <<conn, started, waiting, wire, acks, link, gwVars>>

\* dispatch_buffer: what it says of the level of the buffer (warning, full,
\* flood, normal again) is sent before os_wait.  There is something to say once
\* the agent collects events.
SendBufferLevel(t) ==
    /\ pc[t] = "idle"
    /\ started
    /\ Begin(t, "EVENT_BATCH", 1)
    /\ UNCHANGED <<conn, started, waiting, wire, acks, link, gwVars>>

\* run_notify, in the receiver's own loop, connects anew when the gateway has not
\* answered for max_time_reconnect_try, or force_reconnect_interval has passed,
\* whatever the state of the link.
RunNotifyReconnects ==
    /\ pc[Receiver] = "idle"
    /\ pc' = [pc EXCEPT ![Receiver] = "connect"]
    /\ waiting' = TRUE
    /\ UNCHANGED <<conn, started, frame, begun, wire, acks, link, gwVars>>

\* run_notify sends the keep-alive with send_msg.
RunNotify(n) ==
    /\ pc[Receiver] = "idle"
    /\ Begin(Receiver, "EVENT_BATCH", n)
    /\ UNCHANGED <<conn, started, waiting, wire, acks, link, gwVars>>

\* wzcp_send_heartbeat_if_due.
SendHeartbeat ==
    /\ pc[Receiver] = "idle"
    /\ Begin(Receiver, "HEARTBEAT", 0)
    /\ UNCHANGED <<conn, started, waiting, wire, acks, link, gwVars>>

\* What a thread does when send_frame has returned: the receiver goes on to
\* wait for the answer to its HELLO, everybody else has done.
Sent(t) == [pc EXCEPT ![t] = IF frame[t].type = "HELLO" THEN "await" ELSE "idle"]

\* One send_all of send_frame; the units reach the stream of an open link.
SendAll(t, at, units, next) ==
    /\ pc[t] = at
    /\ wire' = IF link = "open" THEN wire \o units ELSE wire
    /\ pc' = next
    /\ UNCHANGED <<conn, started, waiting, frame, begun, acks, link, gwVars>>

SendLen(t) == SendAll(t, "len", <<LenUnit(frame[t])>>, [pc EXCEPT ![t] = "hdr"])

SendHdr(t) ==
    SendAll(t, "hdr", <<HdrUnit(frame[t])>>,
            IF frame[t].n > 0 THEN [pc EXCEPT ![t] = "body"] ELSE Sent(t))

SendBody(t) == SendAll(t, "body", BodyUnits(frame[t]), Sent(t))

\* A send to a link known to be broken fails.  The caller of send_msg (dispatch_buffer, which
\* frees the message, or run_notify) and the answer to a HEARTBEAT go on as if
\* nothing had happened; a failed HEARTBEAT makes the receiver call start_agent,
\* under os_setwait, and a failed HELLO makes start_agent try again.
SendFails(t) ==
    LET restart == frame[t].type \in {"HELLO", "HEARTBEAT"} IN
    /\ pc[t] \in {"len", "hdr", "body"}
    /\ link = "closed"
    /\ pc' = [pc EXCEPT ![t] = IF restart THEN "connect" ELSE "idle"]
    /\ waiting' = (waiting \/ restart)
    /\ UNCHANGED <<conn, started, frame, begun, wire, acks, link, gwVars>>

\* Mutant: the handshake does not wait for an answer.
AwaitAck_Blind ==
    /\ pc[Receiver] = "await"
    /\ pc' = [pc EXCEPT ![Receiver] = "idle"]
    /\ waiting' = FALSE
    /\ started' = TRUE
    /\ UNCHANGED <<conn, frame, begun, wire, acks, link, gwVars>>

\* wzcp_handshake_to_gateway receives a frame: any ACK will do, its sequence
\* number is not compared; any other frame makes the handshake start over.
AwaitAck ==
    /\ pc[Receiver] = "await"
    /\ acks # << >>
    /\ acks' = Tail(acks)
    /\ IF Head(acks) = "HEARTBEAT"
       THEN /\ pc' = [pc EXCEPT ![Receiver] = "connect"]
            /\ UNCHANGED <<started, waiting>>
       ELSE /\ pc' = [pc EXCEPT ![Receiver] = "idle"]
            /\ waiting' = FALSE
            /\ started' = TRUE
    /\ UNCHANGED <<conn, frame, begun, wire, link, gwVars>>

\* receive_msg: an ACK is noted, a HEARTBEAT is answered with an ACK.
ReceiveMsg ==
    /\ pc[Receiver] = "idle"
    /\ acks # << >>
    /\ acks' = Tail(acks)
    /\ IF Head(acks) = "HEARTBEAT" THEN Begin(Receiver, "ACK", 1)
                                   ELSE UNCHANGED <<begun, frame, pc>>
    /\ UNCHANGED <<conn, started, waiting, wire, link, gwVars>>

\* Mutant: only the loop, not the handshake, notices the broken link.
ReceiveFails_IdleOnly ==
    /\ pc[Receiver] = "idle"
    /\ link = "closed"
    /\ pc' = [pc EXCEPT ![Receiver] = "connect"]
    /\ waiting' = TRUE
    /\ UNCHANGED <<conn, started, frame, begun, wire, acks, link, gwVars>>

\* receive_msg, or the handshake, fails on a link known to be broken: start_agent.
\* recv_all has no timeout: while the link is silent it just waits.
ReceiveFails ==
    /\ pc[Receiver] \in {"idle", "await"}
    /\ link = "closed"
    /\ pc' = [pc EXCEPT ![Receiver] = "connect"]
    /\ waiting' = TRUE
    /\ UNCHANGED <<conn, started, frame, begun, wire, acks, link, gwVars>>

-----------------------------------------------------------------------------
(* The network and the gateway. *)

\* The network breaks the connection, and the agent's system learns of it (a
\* reset, unanswered segments) at once, later or never.
LinkBreaks ==
    /\ \/ link = "open" /\ link' \in {"closed", "silent"}
       \/ link = "silent" /\ link' = "closed"
    /\ wire' = << >>
    /\ UNCHANGED <<agentVars, acks, gwVars>>

\* conn_del; a link gone silent does not bring the news to the agent.
conn_del ==
    /\ link' = IF link = "open" THEN "closed" ELSE link
    /\ wire' = << >>
    /\ gwPc' = "read"
    /\ buf' = << >>
    /\ UNCHANGED <<agentVars, acks, bufSize, got>>

\* The buffer is full: conn_event grows it by one chunk, up to buffer_size.
Grown == IF Len(buf) = bufSize THEN bufSize + ChunkSize ELSE bufSize

\* Mutant: the limit is hit one chunk early.
ConnEventRead_Early(k) ==
    /\ link = "open" /\ gwPc = "read"
    /\ Grown < BufferSize
    /\ k \in 1 .. Len(wire) /\ k <= Grown - Len(buf)
    /\ bufSize' = Grown
    /\ buf' = buf \o SubSeq(wire, 1, k)
    /\ wire' = SubSeq(wire, k + 1, Len(wire))
    /\ gwPc' = "detect"
    /\ UNCHANGED <<agentVars, acks, link, got>>

\* Mutant: the room left in the buffer is not respected.
ConnEventRead_NoRoom(k) ==
    /\ link = "open" /\ gwPc = "read"
    /\ Grown <= BufferSize
    /\ k \in 1 .. Len(wire)
    /\ bufSize' = Grown
    /\ buf' = buf \o SubSeq(wire, 1, k)
    /\ wire' = SubSeq(wire, k + 1, Len(wire))
    /\ gwPc' = "detect"
    /\ UNCHANGED <<agentVars, acks, link, got>>

\* conn_event reads k units into the room that is left.
ConnEventRead(k) ==
    /\ link = "open" /\ gwPc = "read"
    /\ Grown <= BufferSize
    /\ k \in 1 .. Len(wire) /\ k <= Grown - Len(buf)
    /\ bufSize' = Grown
    /\ buf' = buf \o SubSeq(wire, 1, k)
    /\ wire' = SubSeq(wire, k + 1, Len(wire))
    /\ gwPc' = "detect"
    /\ UNCHANGED <<agentVars, acks, link, got>>

\* The buffer cannot grow: the connection is dropped.
ConnEventFull ==
    /\ link = "open" /\ gwPc = "read"
    /\ wire # << >>
    /\ Grown > BufferSize
    /\ conn_del

\* process_buffer: with a prefix and a header the bytes must look like WZCP.
\* (Body bytes that look like syslog lines would make it a syslog session.)
Detect ==
    /\ gwPc = "detect"
    /\ IF Len(buf) < 2
       THEN /\ gwPc' = "read"
            /\ UNCHANGED <<agentVars, wire, acks, link, bufSize, buf, got>>
       ELSE IF buf[1].k = "len" /\ buf[2].k = "hdr"
       THEN /\ gwPc' = "frames"
            /\ UNCHANGED <<agentVars, wire, acks, link, bufSize, buf, got>>
       ELSE conn_del

\* The buffer begins with a frame that is there in full.
Complete == Len(buf) >= 2 /\ buf[1].k = "len" /\ Len(buf) - 1 >= buf[1].n

\* The units after the header of that frame, up to its end by the prefix.
Body == SubSeq(buf, 3, 1 + buf[1].n)

\* Mutant: the buffer is emptied after a frame, whatever follows it.
Rest_Nothing == << >>

\* consume_bytes: what follows that frame moves to the front.
Rest == SubSeq(buf, 2 + buf[1].n, Len(buf))

\* process_frames, one turn of the loop: a complete frame is dispatched and
\* acknowledged.  A batch whose bytes are not those of its sender is refused,
\* or taken for events it is not.
ProcessFrame ==
    /\ gwPc = "frames"
    /\ Complete
    /\ buf[2].k = "hdr" /\ buf[2].n = buf[1].n - 1
    /\ got' = Append(got, [hdr |-> buf[2], body |-> Body])
    /\ buf' = Rest
    /\ acks' = IF buf[2].type # "ACK" /\ link = "open" THEN Append(acks, "ACK") ELSE acks
    /\ UNCHANGED <<agentVars, wire, link, gwPc, bufSize>>

\* process_frames returns -1: a prefix that is none, a header that does not
\* fit, or a handler that fails on a body that is not that of its frame.
ProcessFrameFails ==
    /\ gwPc = "frames"
    /\ Len(buf) >= 2
    /\ \/ buf[1].k # "len"
       \/ Complete /\ ~(buf[2].k = "hdr" /\ buf[2].n = buf[1].n - 1)
       \/ Complete /\ \E i \in 1 .. Len(Body) : Body[i].id # buf[2].id
    /\ conn_del

\* The loop ends; what is left stays in the buffer.
FramesDone ==
    /\ gwPc = "frames"
    /\ ~(Len(buf) >= 2 /\ (buf[1].k # "len" \/ Complete))
    /\ gwPc' = "read"
    /\ UNCHANGED <<agentVars, wire, acks, link, bufSize, buf, got>>

\* heartbeat_collect sends a HEARTBEAT to a session it knows as WZCP; the model
\* has one on its way at a time.
GatewayHeartbeat ==
    /\ link = "open" /\ gwPc = "read"
    /\ got # << >>
    /\ acks = << >>
    /\ acks' = <<"HEARTBEAT">>
    /\ UNCHANGED <<agentVars, wire, link, gwVars>>

Next ==
    \/ ConnectServer
    \/ SendHeartbeat
    \/ RunNotifyReconnects
    \/ AwaitAck
    \/ ReceiveMsg
    \/ ReceiveFails
    \/ \E t \in Threads : SendLen(t) \/ SendHdr(t) \/ SendBody(t) \/ SendFails(t)
    \/ \E t \in Senders : SendBufferLevel(t)
    \/ \E n \in EventBodies : RunNotify(n) \/ \E t \in Senders : SendMsg(t, n)
    \/ LinkBreaks
    \/ \E k \in 1 .. BufferSize : ConnEventRead(k)
    \/ ConnEventFull
    \/ Detect
    \/ ProcessFrame
    \/ ProcessFrameFails
    \/ FramesDone
    \/ GatewayHeartbeat

Spec == Init /\ [][Next]_vars

\* Fairness: a thread that is in send_frame goes on, unless the link is silent and
\* send may block; a recv on a link known to be broken returns, and start_agent
\* tries until it is connected; the event loop of the gateway serves a socket that
\* has bytes to read.  Nothing obliges the network to report a silent link.
Fairness ==
    /\ \A t \in Threads :
           WF_vars(link # "silent" /\ (SendLen(t) \/ SendHdr(t) \/ SendBody(t)))
    /\ WF_vars(ConnectServer \/ AwaitAck \/ ReceiveFails)
    /\ WF_vars(\E k \in 1 .. BufferSize : ConnEventRead(k))
    /\ WF_vars(Detect \/ ProcessFrame \/ ProcessFrameFails \/ FramesDone)

LiveSpec == Spec /\ Fairness

-----------------------------------------------------------------------------
Unit == [k : {"len", "hdr", "body"}, id : 1 .. MaxFrames, type : MsgTypes, n : Nat]

\* Every variable has its type; the buffer holds no more than it has room for,
\* and its size never exceeds buffer_size (conn_event).
TypeOK ==
    /\ conn \in 0 .. MaxConns
    /\ started \in BOOLEAN
    /\ waiting \in BOOLEAN
    /\ pc \in [Threads -> {"idle", "connect", "len", "hdr", "body", "await"}]
    /\ \A t \in Threads : frame[t].id \in 0 .. begun /\ frame[t].type \in MsgTypes
    /\ begun \in 0 .. MaxFrames
    /\ wire \in Seq(Unit)
    /\ acks \in Seq({"ACK", "HEARTBEAT"})
    /\ link \in {"open", "closed", "silent"}
    /\ gwPc \in {"read", "detect", "frames"}
    /\ bufSize \in ChunkSize .. BufferSize
    /\ buf \in Seq(Unit) /\ Len(buf) <= bufSize
    /\ \A i \in 1 .. Len(got) : got[i].hdr \in Unit /\ got[i].body \in Seq(Unit)

\* The prefixes in a piece of the stream stand for the frames begun in it.
FrameIds(units) ==
    LET heads == SelectSeq(units, LAMBDA u : u.k = "len") IN [n \in 1 .. Len(heads) |-> heads[n].id]

\* The body dispatched with a header is the one its sender wrote.
Intact(f) == f.body = BodyUnits(Frame(f.hdr.id, f.hdr.type, f.hdr.n))

\* What is not the frame of a sender is delivered as 0, which nobody sent.
Channel == INSTANCE FrameChannel WITH
    Ids <- 1 .. MaxFrames,
    queue <- FrameIds(buf \o wire),
    delivered <- [n \in 1 .. Len(got) |-> IF Intact(got[n]) THEN got[n].hdr.id ELSE 0]

\* With one writing thread the byte stream, cut into reads, buffered, grown and
\* reassembled, implements a channel of frames: whole, once, in order, without
\* gaps, losing only the end when the link breaks (send_frame, conn_event,
\* process_frames, consume_bytes).
StreamIsChannel == Channel!Spec

\* The gateway never refuses the stream of a well-behaved agent: no frame is
\* taken for a protocol error, none that fits buffer_size outgrows the buffer
\* ("Each TCP frame is: ...", XSIAM-WZCP.md).
StreamAccepted == [][link = "open" /\ link' = "closed" => LinkBreaks]_vars

\* When the handshake has succeeded and the senders are let loose, the gateway
\* has seen the HELLO of this very connection ("Send synchronization message to
\* the server and wait for the ack", start_agent).
HandshakeSound == ~waiting => \E i \in 1 .. Len(got) : got[i].hdr.type = "HELLO"

\* An agent whose link is broken, by the network or by the gateway that lost
\* track of the frames, gets a new one in the end, once its own system knows of
\* it; no thread keeps it waiting (os_setwait, start_agent).  A link that goes
\* silent in the handshake is not such a link: recv_all has no timeout, and
\* start_agent waits for as long as nothing is reported.  MaxConns and MaxFrames
\* only bound the model.
Reconnects ==
    link = "closed" ~> (link = "open" \/ conn = MaxConns \/ begun = MaxFrames)

\* A frame an agent begins on a connection is dispatched in the end, unless the
\* link breaks or the agent itself gives the connection up for a new one.
FrameArrives ==
    \A id \in 1 .. MaxFrames, c \in 1 .. MaxConns :
        (link = "open" /\ conn = c /\ \E t \in Threads : frame[t].id = id /\ pc[t] = "len")
            ~> (link # "open" \/ conn # c \/ \E i \in 1 .. Len(got) : got[i].hdr.id = id)
==============================================================================
