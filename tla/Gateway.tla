------------------------------- MODULE Gateway -------------------------------
(***************************************************************************)
(* One instance of the Fluent Bit input plugin in_xsiam_agent: the TCP     *)
(* sessions it holds, the in-memory cache of agent states, the batched     *)
(* write of dirty entries to the ArangoDB collection "devices", and the    *)
(* life-cycle events it posts to the xsiam service.                        *)
(*                                                                         *)
(* The plugin is not a FLB_INPUT_CORO plugin: the engine runs each of its  *)
(* callbacks (conn_event, the collectors, exit_cb) to completion on one    *)
(* thread, so a callback, or the handling of one frame in conn_event, is   *)
(* one action.  What is concurrent is the environment: agents that vanish  *)
(* and reconnect, the database, and the service behind post_agent_event.   *)
(***************************************************************************)
EXTENDS Naturals

CONSTANTS
    Agents,                 \* agent ids that may say HELLO
    Conns,                  \* connection slots
    None,                   \* "no agent_key yet"
    HeartbeatFlushInterval, \* ctx->heartbeat_flush_interval, in clock units
    MaxClock                \* bound on the clock

ASSUME GatewayAssumption ==
    /\ None \notin Agents
    /\ HeartbeatFlushInterval \in Nat \ {0}
    /\ MaxClock \in Nat

VARIABLES
    up,           \* the plugin runs (between init and exit_cb or a crash)
    now,          \* time(NULL)
    conns,        \* ctx->connections
    peerGone,     \* open connections whose peer is no longer there
    agent_key,    \* conn->agent_key
    protocol_tag, \* conn->protocol_tag
    cache,        \* ctx->agents: one entry per agent id seen
    devices,      \* the documents of the ArangoDB collection "devices"
    heard         \* the last life-cycle event of each agent xsiam received

vars == <<up, now, conns, peerGone, agent_key, protocol_tag, cache, devices, heard>>

-----------------------------------------------------------------------------
Clock == 0 .. MaxClock
Tags == {"unknown", "agent_wzcp", "syslog"}
Status == {"online", "offline"}
Events == {"none", "connect", "heartbeat", "disconnect"}

\* struct xsiam_agent_state, the fields the properties tell apart.  "known"
\* says that the agent has an entry in the list at all.
Entry == [known : BOOLEAN, agent_status : Status, is_connected : BOOLEAN,
          last_heartbeat : Clock, last_db_flush : Clock, dirty : BOOLEAN]

NoEntry == [known |-> FALSE, agent_status |-> "offline", is_connected |-> FALSE,
            last_heartbeat |-> 0, last_db_flush |-> 0, dirty |-> FALSE]

\* A document of "devices"; "present" is FALSE while there is none.
Doc == [present : BOOLEAN, agent_status : Status, is_connected : BOOLEAN,
        last_heartbeat : Clock]

NoDoc == [present |-> FALSE, agent_status |-> "offline", is_connected |-> FALSE,
          last_heartbeat |-> 0]

\* agent_state_get with create: a new entry is online, dirty and never flushed.
agent_state_get(e) ==
    IF e.known THEN e
    ELSE [known |-> TRUE, agent_status |-> "online", is_connected |-> FALSE,
          last_heartbeat |-> now, last_db_flush |-> 0, dirty |-> TRUE]

\* Mutant: a status the readers of "devices" do not know.
agent_state_mark_seen_OddStatus(e) ==
    [agent_state_get(e) EXCEPT !.agent_status = "connected", !.is_connected = TRUE,
                               !.last_heartbeat = now, !.dirty = TRUE]

\* Mutant: a HELLO changes the status and forgets is_connected.
agent_state_mark_seen_StatusOnly(e) ==
    [agent_state_get(e) EXCEPT !.agent_status = "online", !.last_heartbeat = now, !.dirty = TRUE]

agent_state_mark_seen(e) ==
    [agent_state_get(e) EXCEPT !.agent_status = "online", !.is_connected = TRUE,
                               !.last_heartbeat = now, !.dirty = TRUE]

\* Mutant: the flush interval is compared with > instead of >=.
agent_state_mark_heartbeat_OffByOne(e) ==
    IF ~e.known THEN e
    ELSE [e EXCEPT !.last_heartbeat = now,
                   !.dirty = @ \/ now - e.last_db_flush > HeartbeatFlushInterval]

agent_state_mark_heartbeat(e) ==
    IF ~e.known THEN e
    ELSE [e EXCEPT !.last_heartbeat = now,
                   !.dirty = @ \/ now - e.last_db_flush >= HeartbeatFlushInterval]

\* Mutant: the status changes and is_connected is forgotten.
agent_state_mark_disconnected_StatusOnly(e) ==
    IF ~(e.known /\ e.is_connected) THEN e
    ELSE [e EXCEPT !.agent_status = "offline", !.dirty = TRUE]

\* Mutant: the entry is not marked dirty.
agent_state_mark_disconnected_NotDirty(e) ==
    IF ~(e.known /\ e.is_connected) THEN e
    ELSE [e EXCEPT !.is_connected = FALSE, !.agent_status = "offline"]

agent_state_mark_disconnected(e) ==
    IF ~(e.known /\ e.is_connected) THEN e
    ELSE [e EXCEPT !.is_connected = FALSE, !.agent_status = "offline", !.dirty = TRUE]

\* append_agent_doc: the document one cache entry is written as.
append_agent_doc(e) ==
    [present |-> TRUE, agent_status |-> e.agent_status,
     is_connected |-> e.is_connected, last_heartbeat |-> e.last_heartbeat]

\* The agents whose session is among the connections of D.
KeysOf(D) == {a \in Agents : \E c \in D : agent_key[c] = a}

\* post_agent_event is fire and forget.  Of the events P[a] one callback posts
\* for agent a, the last one the service receives may be any of them, or none.
post_agent_event(P) ==
    /\ heard' \in [Agents -> Events]
    /\ \A a \in Agents : heard'[a] \in {heard[a]} \cup P[a]

\* conn_del of the connections in D, of which every agent's entry was e[a].
conn_del(D, e) ==
    /\ conns' = conns \ D
    /\ peerGone' = peerGone \ D
    /\ agent_key' = [c \in Conns |-> IF c \in D THEN None ELSE agent_key[c]]
    /\ protocol_tag' = [c \in Conns |-> IF c \in D THEN "unknown" ELSE protocol_tag[c]]
    /\ cache' = [a \in Agents |->
                   IF a \in KeysOf(D) THEN agent_state_mark_disconnected(e[a]) ELSE e[a]]

\* The events conn_del posts: one "disconnect" for an agent marked connected.
Disconnects(D) ==
    [a \in Agents |-> IF a \in KeysOf(D) /\ cache[a].is_connected
                      THEN {"disconnect"} ELSE {}]

-----------------------------------------------------------------------------
Init ==
    /\ up = TRUE
    /\ now = 0
    /\ conns = {}
    /\ peerGone = {}
    /\ agent_key = [c \in Conns |-> None]
    /\ protocol_tag = [c \in Conns |-> "unknown"]
    /\ cache = [a \in Agents |-> NoEntry]
    /\ devices = [a \in Agents |-> NoDoc]
    /\ heard = [a \in Agents |-> "none"]

Tick ==
    /\ now < MaxClock
    /\ now' = now + 1
    /\ UNCHANGED <<up, conns, peerGone, agent_key, protocol_tag, cache, devices, heard>>

\* collect and conn_add: a connection is accepted, of unknown protocol.
Collect(c) ==
    /\ up
    /\ c \notin conns
    /\ conns' = conns \cup {c}
    /\ agent_key' = [agent_key EXCEPT ![c] = None]
    /\ protocol_tag' = [protocol_tag EXCEPT ![c] = "unknown"]
    /\ UNCHANGED <<up, now, peerGone, cache, devices, heard>>

\* The peer of c disappears and nothing tells the gateway yet (power loss, a
\* dropped NAT entry, a FIN under way): the connection is half open.
PeerVanishes(c) ==
    /\ c \in conns \ peerGone
    /\ peerGone' = peerGone \cup {c}
    /\ UNCHANGED <<up, now, conns, agent_key, protocol_tag, cache, devices, heard>>

\* An agent has one socket: when it says HELLO on connection c it has let go of
\* the connections it used before, whether or not the gateway knows.
Abandoned(c, a) == {d \in conns \ {c} : agent_key[d] = a}

\* process_hello, for a client that keeps one identity per connection (the
\* agent opens a new connection for every handshake).
Hello(c, a) ==
    /\ c \in conns \ peerGone
    /\ agent_key[c] \in {None, a}
    /\ cache' = [cache EXCEPT ![a] = agent_state_mark_seen(@)]
    /\ agent_key' = [agent_key EXCEPT ![c] = a]
    /\ protocol_tag' = [protocol_tag EXCEPT ![c] = "agent_wzcp"]
    /\ post_agent_event([b \in Agents |-> IF b = a THEN {"connect"} ELSE {}])
    /\ peerGone' = peerGone \cup Abandoned(c, a)
    /\ UNCHANGED <<up, now, conns, devices>>

\* process_hello whose ACK cannot be written: the handler fails and conn_event
\* deletes the connection whose agent it has just marked as seen.
HelloAckFails(c, a) ==
    /\ c \in conns
    /\ agent_key[c] \in {None, a}
    /\ conns' = conns \ {c}
    /\ peerGone' = (peerGone \cup Abandoned(c, a)) \ {c}
    /\ agent_key' = [agent_key EXCEPT ![c] = None]
    /\ protocol_tag' = [protocol_tag EXCEPT ![c] = "unknown"]
    /\ cache' = [cache EXCEPT
                   ![a] = agent_state_mark_disconnected(agent_state_mark_seen(@))]
    /\ post_agent_event([b \in Agents |->
                           IF b = a THEN {"connect", "disconnect"} ELSE {}])
    /\ UNCHANGED <<up, now, devices>>

\* A HELLO whose agent_id is empty: mark_seen returns at once, the session is
\* classified and acknowledged all the same.  So does a frame of a type that
\* process_frames has no handler for.
HelloAnonymous(c) ==
    /\ c \in conns
    /\ protocol_tag' = [protocol_tag EXCEPT ![c] = "agent_wzcp"]
    /\ UNCHANGED <<up, now, conns, peerGone, agent_key, cache, devices, heard>>

\* The entries, and the events posted, once the agent of session c has been
\* seen alive.
Refreshed(c) ==
    [a \in Agents |-> IF a = agent_key[c] THEN agent_state_mark_heartbeat(cache[a])
                      ELSE cache[a]]

Heartbeats(c) == [a \in Agents |-> IF a = agent_key[c] THEN {"heartbeat"} ELSE {}]

\* A HEARTBEAT or an EVENT_BATCH frame, handled and acknowledged.  Like every
\* frame it labels the session, whatever it was labelled before.
Frame(c) ==
    /\ c \in conns
    /\ protocol_tag' = [protocol_tag EXCEPT ![c] = "agent_wzcp"]
    /\ cache' = Refreshed(c)
    /\ post_agent_event(Heartbeats(c))
    /\ UNCHANGED <<up, now, conns, peerGone, agent_key, devices>>

\* The same frames when the batch is malformed or the ACK cannot be written:
\* the agent has been refreshed before conn_event deletes the connection.
FrameFails(c) ==
    /\ c \in conns
    /\ conn_del({c}, Refreshed(c))
    /\ post_agent_event([a \in Agents |-> Heartbeats(c)[a] \cup Disconnects({c})[a]])
    /\ UNCHANGED <<up, now, devices>>

\* process_buffer on bytes that look like syslog: the session is labelled a
\* device's, also when an agent has said HELLO on it; its agent_key stays.
Syslog(c) ==
    /\ c \in conns
    /\ protocol_tag' = [protocol_tag EXCEPT ![c] = "syslog"]
    /\ UNCHANGED <<up, now, conns, peerGone, agent_key, cache, devices, heard>>

\* conn_event sees the peer's FIN (late, perhaps), a read error, a protocol
\* error or a frame that outgrows the buffer: the connection is deleted.
ConnEventClose(c) ==
    /\ c \in conns
    /\ conn_del({c}, cache)
    /\ post_agent_event(Disconnects({c}))
    /\ UNCHANGED <<up, now, devices>>

\* heartbeat_collect: a HEARTBEAT is written to every WZCP session whose
\* random deadline has passed; D are the sessions that cannot be written to.
\* A write that succeeds changes no state modelled here.
HeartbeatCollect(D) ==
    /\ D # {}
    /\ D \subseteq {c \in conns : protocol_tag[c] = "agent_wzcp"}
    /\ conn_del(D, cache)
    /\ post_agent_event(Disconnects(D))
    /\ UNCHANGED <<up, now, devices>>

\* arango_flush_dirty_agents on the entries f.  "applied" tells whether the
\* UPSERT reached the database, "acked" whether a 2xx came back; only an
\* acknowledged flush clears the dirty flags.
Flush(f, applied, acked) ==
    [docs |-> [a \in Agents |-> IF f[a].dirty /\ applied
                                THEN append_agent_doc(f[a]) ELSE devices[a]],
     entries |-> [a \in Agents |-> IF f[a].dirty /\ acked
                                   THEN [f[a] EXCEPT !.dirty = FALSE, !.last_db_flush = now]
                                   ELSE f[a]]]

\* db_collect, every db_flush_interval seconds.
DbCollect(applied, acked) ==
    LET r == Flush(cache, applied, acked) IN
    /\ up
    /\ acked => applied
    /\ \E a \in Agents : cache[a].dirty
    /\ devices' = r.docs
    /\ cache' = r.entries
    /\ UNCHANGED <<up, now, conns, peerGone, agent_key, protocol_tag, heard>>

\* The plugin's memory after it has stopped.
Gone ==
    /\ up' = FALSE
    /\ conns' = {}
    /\ peerGone' = {}
    /\ agent_key' = [c \in Conns |-> None]
    /\ protocol_tag' = [c \in Conns |-> "unknown"]
    /\ cache' = [a \in Agents |-> NoEntry]

\* Mutant: the last flush is tried before the connections are closed.
ExitCb_FlushFirst(applied) ==
    /\ up
    /\ devices' = Flush(cache, applied, applied).docs
    /\ post_agent_event(Disconnects(conns))
    /\ Gone
    /\ UNCHANGED now

\* exit_cb: every connection is deleted, the last flush is tried, and the
\* cache is freed.
ExitCb(applied) ==
    LET closed == [a \in Agents |->
                     IF a \in KeysOf(conns) THEN agent_state_mark_disconnected(cache[a])
                     ELSE cache[a]]
    IN
    /\ up
    /\ devices' = Flush(closed, applied, applied).docs
    /\ post_agent_event(Disconnects(conns))
    /\ Gone
    /\ UNCHANGED now

\* The process dies: connections and cache are gone, nothing is written.
Crash ==
    /\ up
    /\ Gone
    /\ UNCHANGED <<now, devices, heard>>

\* init: the plugin starts again with empty lists.
Start ==
    /\ ~up
    /\ up' = TRUE
    /\ UNCHANGED <<now, conns, peerGone, agent_key, protocol_tag, cache, devices, heard>>

Next ==
    \/ Tick
    \/ Crash
    \/ Start
    \/ \E applied \in BOOLEAN : ExitCb(applied)
    \/ \E applied, acked \in BOOLEAN : DbCollect(applied, acked)
    \/ \E D \in SUBSET Conns : HeartbeatCollect(D)
    \/ \E c \in Conns :
        \/ Collect(c)
        \/ PeerVanishes(c)
        \/ HelloAnonymous(c)
        \/ Frame(c)
        \/ FrameFails(c)
        \/ Syslog(c)
        \/ ConnEventClose(c)
    \/ \E c \in Conns, a \in Agents : Hello(c, a) \/ HelloAckFails(c, a)

Spec == Init /\ [][Next]_vars

-----------------------------------------------------------------------------
\* Fairness.  The 1 s timer of heartbeat_collect keeps firing and a write to a
\* peer that is gone fails in the end (unacknowledged data time the socket
\* out); the timer of db_collect keeps firing and the database answers in the
\* end.  Nothing is assumed of agents, of crashes or of a live peer.
Fairness ==
    /\ \A c \in Conns : WF_vars(\E D \in SUBSET peerGone : c \in D /\ HeartbeatCollect(D))
    /\ WF_vars(DbCollect(TRUE, TRUE))

LiveSpec == Spec /\ Fairness

-----------------------------------------------------------------------------
\* Every variable has its type, and a connection that is not open holds nothing.
TypeOK ==
    /\ up \in BOOLEAN
    /\ now \in Clock
    /\ conns \subseteq Conns
    /\ peerGone \subseteq conns
    /\ agent_key \in [Conns -> Agents \cup {None}]
    /\ protocol_tag \in [Conns -> Tags]
    /\ cache \in [Agents -> Entry]
    /\ devices \in [Agents -> Doc]
    /\ heard \in [Agents -> Events]

\* The cache marks an agent connected only while some session of it is open:
\* whatever the order in which sessions of one agent open, fail and close,
\* conn_del never leaves a closed agent online (conn_del, mark_disconnected).
OnlineHasSession ==
    \A a \in Agents : cache[a].is_connected => \E c \in conns : agent_key[c] = a

\* A status change is never lost between the cache and the database: an entry
\* that is not dirty is the document, through failed flushes, flushes applied
\* but not acknowledged, and reconnects (arango_flush_dirty_agents).
CleanEntryIsStored ==
    \A a \in Agents : cache[a].known /\ ~cache[a].dirty =>
        /\ devices[a].present
        /\ devices[a].agent_status = cache[a].agent_status
        /\ devices[a].is_connected = cache[a].is_connected

\* Heartbeats are not written one by one, yet a clean entry holds no heartbeat
\* Heartbeat_Flush_Interval or more after its last flush (mark_heartbeat).
HeartbeatLagBounded ==
    \A a \in Agents : cache[a].known /\ ~cache[a].dirty =>
        cache[a].last_heartbeat < cache[a].last_db_flush + HeartbeatFlushInterval

\* The step of a shutdown whose last flush is acknowledged.
ShutdownOffline ==
    ExitCb(TRUE) => \A a \in Agents :
        cache[a].known => devices'[a].agent_status = "offline" /\ ~devices'[a].is_connected

\* A shutdown whose last flush is acknowledged leaves every agent this
\* instance has seen offline in the database, also those whose session closed
\* long before and those a half-open connection kept online (exit_cb).
CleanShutdown == [][ShutdownOffline]_vars

\* The sessions the gateway still has of agent a are all dead, and labelled so
\* that heartbeat_collect probes them.
Departed(a) ==
    \A c \in conns : agent_key[c] = a => c \in peerGone /\ protocol_tag[c] = "agent_wzcp"

\* If an agent never comes back and the gateway stays up, the database ends up
\* saying that it is offline, unless a crash has erased the agent's entry.  A
\* session that a line of text has relabelled as syslog is excepted: it keeps
\* its agent_key, and heartbeat_collect does not probe it any more.
SilentDeathStored ==
    \A a \in Agents :
        <>[](up /\ Departed(a)) => <>[](cache[a].known => ~devices[a].is_connected)

\* The agent on connection c, if there is one and its peer is alive, is marked
\* connected.
SessionOnline(c) ==
    c \in conns \ peerGone /\ agent_key[c] # None => cache[agent_key[c]].is_connected

\* What agents/XSIAM-WZCP.md promises of HELLO, an agent with an open session is
\* online, is lost in one way only: an older session of the same agent, which
\* the gateway still had, is deleted after the new one said HELLO (conn_del).
OfflineOnlyByLateClose ==
    [][\A c \in Conns : SessionOnline(c) /\ ~SessionOnline(c)' =>
          \E d \in conns \ (conns' \cup {c}) : agent_key[d] = agent_key'[c]]_vars

\* A status of an agent, in memory or in the database.
StatusOf(e, there) == IF there THEN <<e.agent_status, e.is_connected>> ELSE <<"absent", FALSE>>

Store == INSTANCE WriteBehind WITH
    Keys <- Agents,
    Values <- Status \X BOOLEAN,
    Absent <- <<"absent", FALSE>>,
    memo <- [a \in Agents |-> StatusOf(cache[a], cache[a].known)],
    pending <- {a \in Agents : cache[a].dirty},
    stored <- [a \in Agents |-> StatusOf(devices[a], devices[a].present)]

\* The cache, its dirty flags and the collection implement a write-behind cache
\* of the agents' status: no change escapes the next flush, no flush writes
\* anything but the latest status, and an unacknowledged one is repeated.
CacheIsWriteBehind == Store!Spec
==============================================================================
