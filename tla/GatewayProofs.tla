---------------------------- MODULE GatewayProofs ----------------------------
(***************************************************************************)
(* Proofs about Gateway, for any sets of agents and connections, any flush *)
(* interval and any bound on the clock.                                    *)
(***************************************************************************)
EXTENDS Gateway, TLAPS

\* What one entry e and the document d of the same agent satisfy at time t.
EntryOK(e, d, t) ==
    /\ e.is_connected => e.known
    /\ e.dirty => e.known
    /\ e.known => (e.agent_status = "online" <=> e.is_connected)
    /\ e.last_heartbeat <= t
    /\ e.last_db_flush <= t
    /\ e.known /\ ~e.dirty =>
        /\ d.present
        /\ d.agent_status = e.agent_status
        /\ d.is_connected = e.is_connected
        /\ e.last_heartbeat < e.last_db_flush + HeartbeatFlushInterval

EntriesOK == \A a \in Agents : EntryOK(cache[a], devices[a], now)

\* The inductive invariant.
IInv == TypeOK /\ EntriesOK /\ OnlineHasSession

-----------------------------------------------------------------------------
\* agent_state_mark_seen keeps an entry well formed and leaves it dirty.
LEMMA SeenOK ==
    ASSUME now \in Clock, NEW e \in Entry, NEW d \in Doc, EntryOK(e, d, now)
    PROVE  /\ agent_state_mark_seen(e) \in Entry
           /\ EntryOK(agent_state_mark_seen(e), d, now)
<1> DEFINE g == agent_state_get(e)
           m == agent_state_mark_seen(e)
<1>1. g \in Entry /\ g.last_db_flush <= now /\ g.known
  <2>1. CASE e.known
    BY <2>1 DEF agent_state_get, EntryOK
  <2>2. CASE ~e.known
    BY <2>2, GatewayAssumption DEF agent_state_get, Entry, Clock, Status
  <2> QED BY <2>1, <2>2
<1>2. m = [g EXCEPT !.agent_status = "online", !.is_connected = TRUE,
                    !.last_heartbeat = now, !.dirty = TRUE]
  BY DEF agent_state_mark_seen
<1> HIDE DEF g, m
<1>3. m \in Entry
  BY <1>1, <1>2 DEF Entry, Status
<1>4. /\ m.known /\ m.is_connected /\ m.dirty /\ m.agent_status = "online"
      /\ m.last_heartbeat = now /\ m.last_db_flush = g.last_db_flush
  BY <1>1, <1>2 DEF Entry
<1>5. EntryOK(m, d, now)
  BY <1>1, <1>4 DEF EntryOK, Clock
<1> QED BY <1>3, <1>5 DEF m

\* After agent_state_mark_seen the agent is connected.
LEMMA SeenConnected ==
    ASSUME now \in Clock, NEW e \in Entry
    PROVE  agent_state_mark_seen(e).is_connected
<1>1. agent_state_get(e) \in Entry
  BY GatewayAssumption DEF agent_state_get, Entry, Clock, Status
<1> QED BY <1>1 DEF agent_state_mark_seen, Entry

\* agent_state_mark_heartbeat keeps an entry well formed, marking it dirty when
\* its last flush is too old, and never changes is_connected.
LEMMA HeartbeatOK ==
    ASSUME now \in Clock, NEW e \in Entry, NEW d \in Doc, EntryOK(e, d, now)
    PROVE  /\ agent_state_mark_heartbeat(e) \in Entry
           /\ EntryOK(agent_state_mark_heartbeat(e), d, now)
           /\ agent_state_mark_heartbeat(e).is_connected = e.is_connected
<1> DEFINE m == agent_state_mark_heartbeat(e)
           old == now - e.last_db_flush >= HeartbeatFlushInterval
<1>1. CASE ~e.known
  BY <1>1 DEF agent_state_mark_heartbeat
<1>2. CASE e.known
  <2>1. m = [e EXCEPT !.last_heartbeat = now, !.dirty = e.dirty \/ old]
    BY <1>2 DEF agent_state_mark_heartbeat
  <2>2. (e.dirty \/ old) \in BOOLEAN
    BY DEF Entry
  <2> HIDE DEF m
  <2>3. m \in Entry
    BY <2>1, <2>2 DEF Entry
  <2>4. /\ m.known = e.known /\ m.is_connected = e.is_connected
        /\ m.agent_status = e.agent_status /\ m.last_db_flush = e.last_db_flush
        /\ m.last_heartbeat = now
    BY <2>1 DEF Entry
  <2>5. m.dirty <=> (e.dirty \/ old)
    BY <2>1, Zenon DEF Entry
  <2>6. ~old => now < e.last_db_flush + HeartbeatFlushInterval
    BY GatewayAssumption DEF Entry, Clock
  <2> HIDE DEF old
  <2>7. EntryOK(m, d, now)
    BY <1>2, <2>4, <2>5, <2>6 DEF EntryOK, Clock
  <2> QED BY <2>3, <2>4, <2>7 DEF m
<1> QED BY <1>1, <1>2

\* agent_state_mark_disconnected keeps an entry well formed and not connected.
LEMMA DisconnectedOK ==
    ASSUME now \in Clock, NEW e \in Entry, NEW d \in Doc, EntryOK(e, d, now)
    PROVE  /\ agent_state_mark_disconnected(e) \in Entry
           /\ EntryOK(agent_state_mark_disconnected(e), d, now)
           /\ ~agent_state_mark_disconnected(e).is_connected
BY GatewayAssumption DEF EntryOK, agent_state_mark_disconnected, Entry, Clock, Status

\* Initially there is no entry, no document and no session.
LEMMA InitIInv == Init => IInv
BY GatewayAssumption
   DEF Init, IInv, TypeOK, EntriesOK, EntryOK, OnlineHasSession, NoEntry, NoDoc,
       Entry, Doc, Clock, Status, Tags, Events

-----------------------------------------------------------------------------
\* Tearing down connections D (conn_del) preserves the invariant, when the
\* entries e it starts from do and agree with the cache on is_connected.
LEMMA ConnDelOK ==
    ASSUME IInv, NEW D \in SUBSET conns, NEW e \in [Agents -> Entry],
           \A a \in Agents : /\ EntryOK(e[a], devices[a], now)
                             /\ e[a].is_connected = cache[a].is_connected,
           conn_del(D, e), heard' \in [Agents -> Events],
           UNCHANGED <<up, now, devices>>
    PROVE  IInv'
<1> USE DEF IInv, conn_del
<1>1. \A a \in Agents : /\ cache'[a] \in Entry
                        /\ EntryOK(cache'[a], devices[a], now)
                        /\ a \in KeysOf(D) => ~cache'[a].is_connected
                        /\ a \notin KeysOf(D) => cache'[a] = e[a]
  <2> SUFFICES ASSUME NEW a \in Agents
               PROVE  /\ cache'[a] \in Entry
                      /\ EntryOK(cache'[a], devices[a], now)
                      /\ a \in KeysOf(D) => ~cache'[a].is_connected
                      /\ a \notin KeysOf(D) => cache'[a] = e[a]
    OBVIOUS
  <2>1. now \in Clock /\ devices[a] \in Doc /\ e[a] \in Entry /\ EntryOK(e[a], devices[a], now)
    BY DEF TypeOK
  <2>2. cache'[a] = IF a \in KeysOf(D) THEN agent_state_mark_disconnected(e[a]) ELSE e[a]
    OBVIOUS
  <2> QED BY <2>1, <2>2, DisconnectedOK
<1>2. TypeOK'
  BY <1>1 DEF TypeOK, Tags
<1>3. EntriesOK'
  BY <1>1 DEF EntriesOK
<1>4. OnlineHasSession'
  <2> SUFFICES ASSUME NEW a \in Agents, cache'[a].is_connected
               PROVE  \E c \in conns' : agent_key'[c] = a
    BY DEF OnlineHasSession
  <2>1. a \notin KeysOf(D) /\ cache[a].is_connected
    BY <1>1
  <2>2. PICK c \in conns : agent_key[c] = a
    BY <2>1 DEF OnlineHasSession
  <2>3. c \notin D /\ c \in Conns
    BY <2>1, <2>2 DEF KeysOf, TypeOK
  <2> QED BY <2>2, <2>3
<1> QED BY <1>2, <1>3, <1>4

\* The session's agent is refreshed without a change of is_connected.
LEMMA RefreshedOK ==
    ASSUME IInv, NEW c \in Conns
    PROVE  /\ Refreshed(c) \in [Agents -> Entry]
           /\ \A a \in Agents :
                /\ EntryOK(Refreshed(c)[a], devices[a], now)
                /\ Refreshed(c)[a].is_connected = cache[a].is_connected
<1> SUFFICES ASSUME NEW a \in Agents
             PROVE  /\ Refreshed(c)[a] \in Entry
                    /\ EntryOK(Refreshed(c)[a], devices[a], now)
                    /\ Refreshed(c)[a].is_connected = cache[a].is_connected
  BY DEF Refreshed
<1>1. now \in Clock /\ devices[a] \in Doc /\ cache[a] \in Entry /\ EntryOK(cache[a], devices[a], now)
  BY DEF IInv, TypeOK, EntriesOK
<1>2. Refreshed(c)[a] = IF a = agent_key[c] THEN agent_state_mark_heartbeat(cache[a]) ELSE cache[a]
  BY DEF Refreshed
<1> QED BY <1>1, <1>2, HeartbeatOK

\* A flush, whatever became of it, keeps every entry and document consistent
\* and never changes is_connected.
LEMMA FlushOK ==
    ASSUME now \in Clock, devices \in [Agents -> Doc], NEW f \in [Agents -> Entry],
           \A a \in Agents : EntryOK(f[a], devices[a], now),
           NEW applied \in BOOLEAN, NEW acked \in BOOLEAN, acked => applied
    PROVE  LET r == Flush(f, applied, acked) IN
           /\ r.docs \in [Agents -> Doc]
           /\ r.entries \in [Agents -> Entry]
           /\ \A a \in Agents : /\ EntryOK(r.entries[a], r.docs[a], now)
                                /\ r.entries[a].is_connected = f[a].is_connected
<1> DEFINE r == Flush(f, applied, acked)
<1> SUFFICES ASSUME NEW a \in Agents
             PROVE  /\ r.docs[a] \in Doc
                    /\ r.entries[a] \in Entry
                    /\ EntryOK(r.entries[a], r.docs[a], now)
                    /\ r.entries[a].is_connected = f[a].is_connected
  BY DEF Flush
<1>1. /\ r.docs[a] = IF f[a].dirty /\ applied THEN append_agent_doc(f[a]) ELSE devices[a]
      /\ r.entries[a] = IF f[a].dirty /\ acked
                        THEN [f[a] EXCEPT !.dirty = FALSE, !.last_db_flush = now]
                        ELSE f[a]
  BY DEF Flush
<1>2. f[a] \in Entry /\ devices[a] \in Doc /\ EntryOK(f[a], devices[a], now)
  OBVIOUS
<1>3. /\ append_agent_doc(f[a]) \in Doc
      /\ append_agent_doc(f[a]).present
      /\ append_agent_doc(f[a]).agent_status = f[a].agent_status
      /\ append_agent_doc(f[a]).is_connected = f[a].is_connected
  BY <1>2 DEF append_agent_doc, Doc, Entry
<1> HIDE DEF r
<1>4. CASE ~f[a].dirty
  BY <1>1, <1>2, <1>4
<1>5. CASE f[a].dirty /\ ~acked
  BY <1>1, <1>2, <1>3, <1>5 DEF EntryOK
<1>6. CASE f[a].dirty /\ acked
  <2> DEFINE n == [f[a] EXCEPT !.dirty = FALSE, !.last_db_flush = now]
  <2>1. r.entries[a] = n /\ r.docs[a] = append_agent_doc(f[a])
    BY <1>1, <1>6
  <2>2. /\ n \in Entry /\ ~n.dirty
        /\ n.known = f[a].known /\ n.is_connected = f[a].is_connected
        /\ n.agent_status = f[a].agent_status /\ n.last_db_flush = now
        /\ n.last_heartbeat = f[a].last_heartbeat
    BY <1>2 DEF Entry
  <2> HIDE DEF n
  <2>3. now < now + HeartbeatFlushInterval
    BY GatewayAssumption DEF Clock
  <2>4. EntryOK(n, append_agent_doc(f[a]), now)
    BY <1>2, <1>3, <2>2, <2>3, GatewayAssumption DEF EntryOK, Entry, Clock
  <2> QED BY <1>3, <2>1, <2>2, <2>4
<1> QED BY <1>4, <1>5, <1>6

-----------------------------------------------------------------------------
\* The plugin's memory is freed: whatever the documents are, no entry is left.
LEMMA GoneOK ==
    ASSUME IInv, Gone, devices' \in [Agents -> Doc], heard' \in [Agents -> Events],
           UNCHANGED now
    PROVE  IInv'
<1>1. \A a \in Agents : cache'[a] = NoEntry
  BY DEF Gone
<1>2. NoEntry \in Entry
  BY GatewayAssumption DEF NoEntry, Entry, Status, Clock
<1>3. TypeOK'
  BY <1>2 DEF IInv, TypeOK, Gone, Tags
<1>4. EntriesOK'
  BY <1>1 DEF IInv, TypeOK, EntriesOK, EntryOK, NoEntry, Clock
<1>5. OnlineHasSession'
  BY <1>1 DEF OnlineHasSession, NoEntry
<1> QED BY <1>3, <1>4, <1>5 DEF IInv

\* process_hello, acknowledged: the agent named has a session, and the agents
\* whose session is another connection keep theirs.
LEMMA HelloOK ==
    ASSUME IInv, NEW c \in Conns, NEW a \in Agents, Hello(c, a)
    PROVE  IInv'
<1> USE DEF IInv, Hello
<1>1. now \in Clock /\ cache[a] \in Entry /\ devices[a] \in Doc
      /\ EntryOK(cache[a], devices[a], now)
  BY DEF TypeOK, EntriesOK
<1>2. /\ cache'[a] = agent_state_mark_seen(cache[a])
      /\ \A b \in Agents : b # a => cache'[b] = cache[b]
  BY DEF TypeOK
<1>3. cache'[a] \in Entry /\ EntryOK(cache'[a], devices[a], now)
  BY <1>1, <1>2, SeenOK
<1>4. TypeOK'
  <2>1. cache' \in [Agents -> Entry]
    BY <1>2, <1>3 DEF TypeOK
  <2>2. heard' \in [Agents -> Events]
    BY DEF post_agent_event
  <2> QED BY <2>1, <2>2 DEF TypeOK, Tags, Abandoned
<1>5. EntriesOK'
  BY <1>2, <1>3 DEF EntriesOK
<1>6. OnlineHasSession'
  <2> SUFFICES ASSUME NEW b \in Agents, cache'[b].is_connected
               PROVE  \E d \in conns' : agent_key'[d] = b
    BY DEF OnlineHasSession
  <2>1. CASE b = a
    BY <2>1 DEF TypeOK
  <2>2. CASE b # a
    <3>1. PICK d \in conns : agent_key[d] = b
      BY <1>2, <2>2 DEF OnlineHasSession
    <3>2. d # c
      BY <2>2, <3>1, GatewayAssumption
    <3> QED BY <3>1, <3>2 DEF TypeOK
  <2> QED BY <2>1, <2>2
<1> QED BY <1>4, <1>5, <1>6

\* process_hello whose ACK fails: the agent is marked seen, then disconnected.
LEMMA HelloAckFailsOK ==
    ASSUME IInv, NEW c \in Conns, NEW a \in Agents, HelloAckFails(c, a)
    PROVE  IInv'
<1> USE DEF IInv, HelloAckFails
<1>1. now \in Clock /\ cache[a] \in Entry /\ devices[a] \in Doc
      /\ EntryOK(cache[a], devices[a], now)
  BY DEF TypeOK, EntriesOK
<1>2. /\ cache'[a] = agent_state_mark_disconnected(agent_state_mark_seen(cache[a]))
      /\ \A b \in Agents : b # a => cache'[b] = cache[b]
  BY DEF TypeOK
<1>3. /\ agent_state_mark_seen(cache[a]) \in Entry
      /\ EntryOK(agent_state_mark_seen(cache[a]), devices[a], now)
  BY <1>1, SeenOK
<1>4. /\ cache'[a] \in Entry /\ EntryOK(cache'[a], devices[a], now)
      /\ ~cache'[a].is_connected
  BY <1>1, <1>2, <1>3, DisconnectedOK
<1>5. TypeOK'
  <2>1. cache' \in [Agents -> Entry]
    BY <1>2, <1>4 DEF TypeOK
  <2>2. heard' \in [Agents -> Events]
    BY DEF post_agent_event
  <2> QED BY <2>1, <2>2 DEF TypeOK, Tags, Abandoned
<1>6. EntriesOK'
  BY <1>2, <1>4 DEF EntriesOK
<1>7. OnlineHasSession'
  <2> SUFFICES ASSUME NEW b \in Agents, cache'[b].is_connected
               PROVE  \E d \in conns' : agent_key'[d] = b
    BY DEF OnlineHasSession
  <2>1. b # a
    BY <1>4
  <2>2. PICK d \in conns : agent_key[d] = b
    BY <1>2, <2>1 DEF OnlineHasSession
  <2>3. d # c
    BY <2>1, <2>2, GatewayAssumption
  <2> QED BY <2>2, <2>3 DEF TypeOK
<1> QED BY <1>5, <1>6, <1>7

\* What exit_cb's closing of the connections makes of the entries.
Closed == [a \in Agents |->
             IF a \in KeysOf(conns) THEN agent_state_mark_disconnected(cache[a])
             ELSE cache[a]]

\* Closing every connection leaves no agent connected: each connected agent
\* has a session among them.
LEMMA ClosedOK ==
    ASSUME IInv
    PROVE  /\ Closed \in [Agents -> Entry]
           /\ \A a \in Agents : /\ EntryOK(Closed[a], devices[a], now)
                                /\ ~Closed[a].is_connected
                                /\ cache[a].known => Closed[a].known
<1> SUFFICES ASSUME NEW a \in Agents
             PROVE  /\ Closed[a] \in Entry
                    /\ EntryOK(Closed[a], devices[a], now)
                    /\ ~Closed[a].is_connected
                    /\ cache[a].known => Closed[a].known
  BY DEF Closed
<1>1. now \in Clock /\ devices[a] \in Doc /\ cache[a] \in Entry
      /\ EntryOK(cache[a], devices[a], now)
  BY DEF IInv, TypeOK, EntriesOK
<1>2. CASE a \in KeysOf(conns)
  <2>1. Closed[a] = agent_state_mark_disconnected(cache[a])
    BY <1>2 DEF Closed
  <2>2. cache[a].known => agent_state_mark_disconnected(cache[a]).known
    BY <1>1 DEF agent_state_mark_disconnected, Entry
  <2> QED BY <1>1, <2>1, <2>2, DisconnectedOK
<1>3. CASE a \notin KeysOf(conns)
  <2>1. Closed[a] = cache[a]
    BY <1>3 DEF Closed
  <2>2. ~cache[a].is_connected
    BY <1>3 DEF IInv, OnlineHasSession, KeysOf
  <2> QED BY <1>1, <2>1, <2>2
<1> QED BY <1>2, <1>3

-----------------------------------------------------------------------------
\* Every step of the plugin and of its environment preserves the invariant.
LEMMA NextIInv == IInv /\ [Next]_vars => IInv'
<1> SUFFICES ASSUME IInv, [Next]_vars PROVE IInv'
  OBVIOUS
<1> USE DEF IInv
<1>1. CASE Tick
  <2>1. TypeOK'
    BY <1>1, GatewayAssumption DEF Tick, TypeOK, Clock
  <2>2. EntriesOK'
    <3> SUFFICES ASSUME NEW a \in Agents PROVE EntryOK(cache[a], devices[a], now + 1)
      BY <1>1 DEF EntriesOK, Tick
    <3>1. cache[a] \in Entry /\ EntryOK(cache[a], devices[a], now) /\ now \in Nat
      BY DEF TypeOK, EntriesOK, Clock
    <3>2. cache[a].last_heartbeat \in Nat /\ cache[a].last_db_flush \in Nat
      BY <3>1 DEF Entry, Clock
    <3> QED BY <3>1, <3>2 DEF EntryOK
  <2>3. OnlineHasSession'
    BY <1>1 DEF OnlineHasSession, Tick
  <2> QED BY <2>1, <2>2, <2>3
<1>2. CASE Crash
  BY <1>2, GoneOK DEF Crash, TypeOK
<1>3. CASE Start
  BY <1>3 DEF Start, TypeOK, EntriesOK, OnlineHasSession
<1>4. ASSUME NEW applied \in BOOLEAN, ExitCb(applied) PROVE IInv'
  <2>1. devices' = Flush(Closed, applied, applied).docs
    BY <1>4 DEF ExitCb, Closed
  <2>2. devices' \in [Agents -> Doc]
    BY <2>1, ClosedOK, FlushOK DEF TypeOK
  <2>3. heard' \in [Agents -> Events]
    BY <1>4 DEF ExitCb, post_agent_event
  <2> QED BY <1>4, <2>2, <2>3, GoneOK DEF ExitCb
<1>5. ASSUME NEW applied \in BOOLEAN, NEW acked \in BOOLEAN, DbCollect(applied, acked)
      PROVE  IInv'
  <2>1. /\ devices' \in [Agents -> Doc]
        /\ cache' \in [Agents -> Entry]
        /\ \A a \in Agents : /\ EntryOK(cache'[a], devices'[a], now)
                             /\ cache'[a].is_connected = cache[a].is_connected
    BY <1>5, FlushOK DEF DbCollect, TypeOK, EntriesOK
  <2>2. TypeOK'
    BY <1>5, <2>1 DEF TypeOK, DbCollect
  <2>3. EntriesOK'
    BY <1>5, <2>1 DEF EntriesOK, DbCollect
  <2>4. OnlineHasSession'
    BY <1>5, <2>1 DEF OnlineHasSession, DbCollect
  <2> QED BY <2>2, <2>3, <2>4
<1>6. ASSUME NEW D \in SUBSET Conns, HeartbeatCollect(D) PROVE IInv'
  BY <1>6, ConnDelOK DEF HeartbeatCollect, post_agent_event, TypeOK, EntriesOK
<1>7. ASSUME NEW c \in Conns, Collect(c) PROVE IInv'
  <2>1. TypeOK'
    BY <1>7 DEF Collect, TypeOK, Tags
  <2>2. EntriesOK'
    BY <1>7 DEF Collect, EntriesOK
  <2>3. OnlineHasSession'
    BY <1>7 DEF Collect, OnlineHasSession, TypeOK
  <2> QED BY <2>1, <2>2, <2>3
<1>8. ASSUME NEW c \in Conns, PeerVanishes(c) PROVE IInv'
  BY <1>8 DEF PeerVanishes, TypeOK, EntriesOK, OnlineHasSession
<1>9. ASSUME NEW c \in Conns, HelloAnonymous(c) PROVE IInv'
  BY <1>9 DEF HelloAnonymous, TypeOK, EntriesOK, OnlineHasSession, Tags
<1>10. ASSUME NEW c \in Conns, Frame(c) PROVE IInv'
  <2>1. /\ cache' \in [Agents -> Entry]
        /\ \A a \in Agents : /\ EntryOK(cache'[a], devices[a], now)
                             /\ cache'[a].is_connected = cache[a].is_connected
    BY <1>10, RefreshedOK DEF Frame
  <2>2. TypeOK'
    BY <1>10, <2>1 DEF TypeOK, Frame, Tags, post_agent_event
  <2>3. EntriesOK'
    BY <1>10, <2>1 DEF EntriesOK, Frame
  <2>4. OnlineHasSession'
    BY <1>10, <2>1 DEF OnlineHasSession, Frame
  <2> QED BY <2>2, <2>3, <2>4
<1>11. ASSUME NEW c \in Conns, FrameFails(c) PROVE IInv'
  BY <1>11, RefreshedOK, ConnDelOK DEF FrameFails, post_agent_event
<1>12. ASSUME NEW c \in Conns, Syslog(c) PROVE IInv'
  BY <1>12 DEF Syslog, TypeOK, EntriesOK, OnlineHasSession, Tags
<1>13. ASSUME NEW c \in Conns, ConnEventClose(c) PROVE IInv'
  BY <1>13, ConnDelOK DEF ConnEventClose, post_agent_event, TypeOK, EntriesOK
<1>14. CASE UNCHANGED vars
  BY <1>14 DEF vars, TypeOK, EntriesOK, OnlineHasSession
<1> QED
  BY <1>1, <1>2, <1>3, <1>4, <1>5, <1>6, <1>7, <1>8, <1>9, <1>10, <1>11, <1>12, <1>13,
     <1>14, HelloOK, HelloAckFailsOK DEF Next

\* The invariant holds in every reachable state.
THEOREM Invariance == Spec => []IInv
BY InitIInv, NextIInv, PTL DEF Spec

\* Every variable keeps its type (run gateway checks it on an instance).
THEOREM TypeCorrect == Spec => []TypeOK
BY Invariance, PTL DEF IInv

\* No agent is marked connected without an open session of it, whatever the
\* order in which its sessions open, fail and close (conn_del).
THEOREM OnlineHasSessionAlways == Spec => []OnlineHasSession
BY Invariance, PTL DEF IInv

\* No status change is lost on the way to the database (mark_*, db_collect).
THEOREM CleanEntryIsStoredAlways == Spec => []CleanEntryIsStored
<1>1. IInv => CleanEntryIsStored
  BY DEF IInv, EntriesOK, EntryOK, CleanEntryIsStored
<1> QED BY <1>1, Invariance, PTL

\* A clean entry is never Heartbeat_Flush_Interval behind (mark_heartbeat).
THEOREM HeartbeatLagBoundedAlways == Spec => []HeartbeatLagBounded
<1>1. IInv => HeartbeatLagBounded
  BY DEF IInv, EntriesOK, EntryOK, HeartbeatLagBounded
<1> QED BY <1>1, Invariance, PTL

\* A shutdown whose last flush succeeds leaves every agent seen offline in the
\* database (exit_cb).
THEOREM CleanShutdownAlways == Spec => CleanShutdown
<1>1. IInv => ShutdownOffline
  <2> SUFFICES ASSUME IInv, ExitCb(TRUE), NEW a \in Agents, cache[a].known
               PROVE  devices'[a].agent_status = "offline" /\ ~devices'[a].is_connected
    BY DEF ShutdownOffline
  <2>1. devices' = Flush(Closed, TRUE, TRUE).docs
    BY DEF ExitCb, Closed
  <2>2. devices'[a] = IF Closed[a].dirty THEN append_agent_doc(Closed[a]) ELSE devices[a]
    BY <2>1 DEF Flush
  <2>3. /\ Closed[a] \in Entry /\ EntryOK(Closed[a], devices[a], now)
        /\ ~Closed[a].is_connected /\ Closed[a].known
    BY ClosedOK
  <2>4. Closed[a].agent_status = "offline"
    BY <2>3 DEF EntryOK, Entry, Status
  <2>5. CASE Closed[a].dirty
    BY <2>2, <2>3, <2>4, <2>5 DEF append_agent_doc
  <2>6. CASE ~Closed[a].dirty
    BY <2>2, <2>3, <2>4, <2>6 DEF EntryOK
  <2> QED BY <2>5, <2>6
<1> QED BY <1>1, Invariance, PTL DEF CleanShutdown

-----------------------------------------------------------------------------
\* A session that is open, whose peer is alive and whose agent is marked
\* connected stays so, unless an older session of the same agent is deleted.
\* What deletes a session marks its agent disconnected (conn_del); a HELLO that
\* fails has told the agent's other sessions apart as abandoned.
THEOREM OfflineOnlyByLateCloseAlways == Spec => OfflineOnlyByLateClose
<1> DEFINE Late(c) == \E d \in conns \ (conns' \cup {c}) : agent_key[d] = agent_key'[c]
           Kept == \A c \in Conns : SessionOnline(c) /\ ~SessionOnline(c)' => Late(c)
<1>1. ASSUME IInv, [Next]_vars, NEW c \in Conns, SessionOnline(c), ~SessionOnline(c)'
      PROVE  Late(c)
  <2> USE DEF SessionOnline
  <2>1. TypeOK /\ None \notin Agents
    BY <1>1, GatewayAssumption DEF IInv
  <2>2. c \in conns' \ peerGone' /\ agent_key'[c] # None /\ ~cache'[agent_key'[c]].is_connected
    BY <1>1
  <2>3. ASSUME NEW D \in SUBSET conns, NEW e, conn_del(D, e),
               \A a \in Agents : e[a].is_connected = cache[a].is_connected
        PROVE  Late(c)
    <3>1. c \notin D /\ c \in conns \ peerGone /\ agent_key'[c] = agent_key[c]
      BY <2>1, <2>2, <2>3 DEF conn_del, TypeOK
    <3>2. agent_key[c] \in Agents /\ cache[agent_key[c]].is_connected
      BY <1>1, <2>1, <2>2, <3>1 DEF TypeOK
    <3>3. agent_key[c] \in KeysOf(D)
      BY <2>2, <2>3, <3>1, <3>2 DEF conn_del
    <3> QED BY <2>3, <3>1, <3>3 DEF KeysOf, conn_del
  <2>4. CASE UNCHANGED <<conns, peerGone, agent_key, cache>>
    BY <1>1, <2>4
  <2>5. CASE Gone
    BY <2>2, <2>5 DEF Gone
  <2>6. ASSUME NEW d \in Conns, Collect(d) PROVE Late(c)
    BY <1>1, <2>1, <2>6 DEF Collect, TypeOK
  <2>7. ASSUME NEW d \in Conns, PeerVanishes(d) PROVE Late(c)
    BY <1>1, <2>7 DEF PeerVanishes
  <2>8. ASSUME NEW d \in Conns, Frame(d) PROVE Late(c)
    <3>1. \A a \in Agents : cache'[a].is_connected = cache[a].is_connected
      BY <1>1, <2>8, RefreshedOK DEF Frame
    <3> QED BY <1>1, <2>1, <2>8, <3>1 DEF Frame, TypeOK
  <2>9. ASSUME NEW d \in Conns, FrameFails(d) PROVE Late(c)
    BY <1>1, <2>3, <2>9, RefreshedOK DEF FrameFails
  <2>10. ASSUME NEW d \in Conns, NEW a \in Agents, Hello(d, a) PROVE Late(c)
    <3>1. cache'[a].is_connected
      BY <1>1, <2>1, <2>10, SeenConnected DEF Hello, TypeOK
    <3>2. agent_key'[c] # a /\ c # d
      BY <2>1, <2>2, <2>10, <3>1 DEF Hello, TypeOK
    <3> QED BY <1>1, <2>1, <2>2, <2>10, <3>2 DEF Hello, TypeOK
  <2>11. ASSUME NEW d \in Conns, NEW a \in Agents, HelloAckFails(d, a) PROVE Late(c)
    <3>1. c # d /\ c \in conns /\ agent_key'[c] = agent_key[c]
      BY <2>1, <2>2, <2>11 DEF HelloAckFails, TypeOK
    <3>2. agent_key[c] # a
      BY <2>2, <2>11, <3>1 DEF HelloAckFails, Abandoned
    <3> QED BY <1>1, <2>1, <2>2, <2>11, <3>1, <3>2 DEF HelloAckFails, TypeOK
  <2>12. CASE \E d \in Conns : HelloAnonymous(d) \/ Syslog(d)
    BY <2>4, <2>12 DEF HelloAnonymous, Syslog
  <2>13. CASE Tick \/ Start \/ UNCHANGED vars
    BY <2>4, <2>13 DEF Tick, Start, vars
  <2>14. CASE Crash \/ \E applied \in BOOLEAN : ExitCb(applied)
    BY <2>5, <2>14 DEF Crash, ExitCb
  <2>15. CASE \E applied, acked \in BOOLEAN : DbCollect(applied, acked)
    <3>1. UNCHANGED <<conns, peerGone, agent_key>>
      BY <2>15 DEF DbCollect
    <3>2. \A a \in Agents : cache'[a].is_connected = cache[a].is_connected
      BY <1>1, <2>15, FlushOK DEF DbCollect, IInv, TypeOK, EntriesOK
    <3> QED BY <1>1, <2>1, <2>2, <3>1, <3>2 DEF TypeOK
  <2>16. CASE \E D \in SUBSET Conns : HeartbeatCollect(D)
    BY <2>3, <2>16 DEF HeartbeatCollect
  <2>17. CASE \E d \in Conns : ConnEventClose(d)
    BY <2>3, <2>17 DEF ConnEventClose
  <2> QED
    BY <1>1, <2>6, <2>7, <2>8, <2>9, <2>10, <2>11, <2>12, <2>13, <2>14, <2>15, <2>16,
       <2>17 DEF Next
<1>2. IInv /\ [Next]_vars => Kept
  BY <1>1
<1> QED BY <1>2, Invariance, PTL DEF Spec, OfflineOnlyByLateClose

-----------------------------------------------------------------------------
(* The refinement of WriteBehind: memo, pending and stored are the functions *)
(* of cache and devices that Gateway's INSTANCE gives, named here.           *)

Memo(e) == [a \in Agents |-> StatusOf(e[a], e[a].known)]
Pending(e) == {a \in Agents : e[a].dirty}
Stored(d) == [a \in Agents |-> StatusOf(d[a], d[a].present)]

\* Entry f may replace entry e in memory: what is dirty stays dirty, what is
\* known stays known, and a clean entry has kept its status.
Follows(e, f) ==
    /\ e.dirty => f.dirty
    /\ e.known => f.known
    /\ ~f.dirty => StatusOf(f, f.known) = StatusOf(e, e.known)

\* The functions that mark an entry produce one that may replace it.
LEMMA MarksFollow ==
    ASSUME now \in Clock, NEW e \in Entry
    PROVE  /\ agent_state_mark_seen(e) \in Entry /\ Follows(e, agent_state_mark_seen(e))
           /\ agent_state_mark_heartbeat(e) \in Entry /\ Follows(e, agent_state_mark_heartbeat(e))
           /\ agent_state_mark_disconnected(e) \in Entry
           /\ Follows(e, agent_state_mark_disconnected(e))
<1>1. agent_state_mark_seen(e) \in Entry /\ Follows(e, agent_state_mark_seen(e))
  <2> DEFINE g == agent_state_get(e)
             m == [g EXCEPT !.agent_status = "online", !.is_connected = TRUE,
                            !.last_heartbeat = now, !.dirty = TRUE]
  <2>1. g \in Entry /\ g.known
    BY GatewayAssumption DEF agent_state_get, Entry, Clock, Status
  <2> HIDE DEF g
  <2>2. m \in Entry /\ m.known /\ m.dirty
    BY <2>1 DEF Entry, Status
  <2>3. m = agent_state_mark_seen(e)
    BY DEF agent_state_mark_seen, g
  <2> QED BY <2>2, <2>3 DEF Follows
<1>2. agent_state_mark_heartbeat(e) \in Entry /\ Follows(e, agent_state_mark_heartbeat(e))
  <2> DEFINE late == e.dirty \/ now - e.last_db_flush >= HeartbeatFlushInterval
             m == [e EXCEPT !.last_heartbeat = now, !.dirty = late]
  <2>1. late \in BOOLEAN /\ (e.dirty => late)
    BY DEF Entry
  <2> HIDE DEF late
  <2>2. /\ m \in Entry /\ m.known = e.known /\ m.agent_status = e.agent_status
        /\ m.is_connected = e.is_connected /\ m.dirty = late
    BY <2>1 DEF Entry
  <2>3. agent_state_mark_heartbeat(e) \in {e, m}
    BY DEF agent_state_mark_heartbeat, late
  <2> QED BY <2>1, <2>2, <2>3 DEF Follows, StatusOf
<1>3. agent_state_mark_disconnected(e) \in Entry
      /\ Follows(e, agent_state_mark_disconnected(e))
  <2> DEFINE m == [e EXCEPT !.is_connected = FALSE, !.agent_status = "offline", !.dirty = TRUE]
  <2>1. m \in Entry /\ m.known = e.known /\ m.dirty
    BY DEF Entry, Status
  <2>2. agent_state_mark_disconnected(e) \in {e, m}
    BY DEF agent_state_mark_disconnected
  <2> QED BY <2>1, <2>2 DEF Follows
<1> QED BY <1>1, <1>2, <1>3

\* What follows what follows an entry follows it.
LEMMA FollowsTransitive ==
    ASSUME NEW e \in Entry, NEW f \in Entry, NEW g \in Entry, Follows(e, f), Follows(f, g)
    PROVE  Follows(e, g)
BY DEF Follows, Entry

\* The states of memory and database are maps of WriteBehind.
LEMMA MapsOK ==
    ASSUME NEW e \in [Agents -> Entry], NEW d \in [Agents -> Doc]
    PROVE  /\ Memo(e) \in Store!Maps /\ Stored(d) \in Store!Maps
           /\ Pending(e) \in SUBSET Agents
BY DEF Memo, Stored, Pending, Store!Maps, StatusOf, Entry, Doc

\* When every entry follows its predecessor, the map of the new ones is a change.
LEMMA FollowsChanges ==
    ASSUME NEW f \in [Agents -> Entry], \A a \in Agents : Follows(cache[a], f[a]),
           cache \in [Agents -> Entry]
    PROVE  Store!Changes(Memo(f), Pending(f))
<1>1. \A a \in Agents : Memo(f)[a] = StatusOf(f[a], f[a].known)
                        /\ Memo(cache)[a] = StatusOf(cache[a], cache[a].known)
  BY DEF Memo
<1>2. {a \in Agents : cache[a].dirty} \subseteq Pending(f)
  BY DEF Pending, Follows
<1>3. \A a \in Agents \ Pending(f) : Memo(f)[a] = Memo(cache)[a]
  BY <1>1 DEF Pending, Follows
<1>4. \A a \in Agents : Memo(cache)[a] # <<"absent", FALSE>> => Memo(f)[a] # <<"absent", FALSE>>
  <2> SUFFICES ASSUME NEW a \in Agents, Memo(cache)[a] # <<"absent", FALSE>>
               PROVE  Memo(f)[a] # <<"absent", FALSE>>
    OBVIOUS
  <2>1. f[a].known
    BY <1>1 DEF StatusOf, Follows
  <2>2. Memo(f)[a] = <<f[a].agent_status, f[a].is_connected>>
    BY <1>1, <2>1 DEF StatusOf
  <2>3. f[a].agent_status # "absent"
    BY DEF Entry, Status
  <2>4. Memo(f)[a][1] # <<"absent", FALSE>>[1]
    BY <2>2, <2>3
  <2> QED BY <2>4
<1> QED BY <1>2, <1>3, <1>4 DEF Store!Changes, Memo

\* A callback that changes entries and no document is a change.
LEMMA ChangeStep ==
    ASSUME TypeOK, TypeOK', UNCHANGED devices,
           \A a \in Agents : Follows(cache[a], cache'[a])
    PROVE  Store!Change
<1>1. Store!Changes(Memo(cache'), Pending(cache'))
  BY FollowsChanges DEF TypeOK
<1>2. Memo(cache') \in Store!Maps /\ Pending(cache') \in SUBSET Agents
  BY MapsOK DEF TypeOK
<1> QED BY <1>1, <1>2 DEF Store!Change, Memo, Pending

\* What a flush of the entries f applied to the database is what a write of
\* their map stores.
LEMMA FlushWrites ==
    ASSUME NEW f \in [Agents -> Entry], \A a \in Agents : f[a].dirty => f[a].known,
           devices \in [Agents -> Doc], NEW acked
    PROVE  Stored(Flush(f, TRUE, acked).docs) = Store!Written(Memo(f), Pending(f))
<1> DEFINE docs == Flush(f, TRUE, acked).docs
<1>1. docs = [a \in Agents |-> IF f[a].dirty THEN append_agent_doc(f[a]) ELSE devices[a]]
  BY DEF Flush
<1> HIDE DEF docs
<1>2. ASSUME NEW a \in Agents, f[a].dirty
      PROVE  StatusOf(docs[a], docs[a].present) = StatusOf(f[a], f[a].known)
  <2>1. docs[a] = append_agent_doc(f[a])
    BY <1>1, <1>2
  <2>2. /\ docs[a].present /\ docs[a].agent_status = f[a].agent_status
        /\ docs[a].is_connected = f[a].is_connected
    BY <2>1 DEF append_agent_doc
  <2>3. f[a].known
    BY <1>2
  <2> QED BY <2>2, <2>3 DEF StatusOf
<1>3. ASSUME NEW a \in Agents, ~f[a].dirty
      PROVE  docs[a] = devices[a]
  BY <1>1, <1>3
<1> QED BY <1>2, <1>3 DEF Stored, Store!Written, Memo, Pending, docs

\* Every step of the gateway is a step of the write-behind cache, or none.
LEMMA StoreStep ==
    ASSUME IInv, IInv', [Next]_vars
    PROVE  [Store!Next]_(Store!vars)
<1> DEFINE Same == UNCHANGED <<cache, devices>>
<1>1. /\ TypeOK /\ TypeOK' /\ now \in Clock
      /\ cache \in [Agents -> Entry] /\ devices \in [Agents -> Doc]
      /\ \A a \in Agents : cache[a].dirty => cache[a].known
  BY DEF IInv, TypeOK, EntriesOK, EntryOK
<1>2. ASSUME Same PROVE UNCHANGED Store!vars
  BY <1>2 DEF Store!vars
<1>3. ASSUME UNCHANGED devices, \A a \in Agents : Follows(cache[a], cache'[a])
      PROVE  Store!Next
  BY <1>1, <1>3, ChangeStep DEF Store!Next
<1>4. \A a \in Agents : Follows(cache[a], cache[a])
  BY DEF Follows
<1>5. \A c \in Conns, a \in Agents :
        Refreshed(c)[a] \in Entry /\ Follows(cache[a], Refreshed(c)[a])
  BY <1>1, <1>4, MarksFollow DEF Refreshed
<1>6. ASSUME NEW D, NEW e \in [Agents -> Entry], conn_del(D, e), UNCHANGED devices,
             \A a \in Agents : Follows(cache[a], e[a])
      PROVE  Store!Next
  <2>1. ASSUME NEW a \in Agents PROVE Follows(cache[a], cache'[a])
    <3>1. cache'[a] \in {e[a], agent_state_mark_disconnected(e[a])}
      BY <1>6 DEF conn_del
    <3>2. /\ agent_state_mark_disconnected(e[a]) \in Entry
          /\ Follows(e[a], agent_state_mark_disconnected(e[a]))
      BY <1>1, MarksFollow
    <3> QED BY <1>1, <1>6, <3>1, <3>2, FollowsTransitive
  <2> QED BY <1>3, <1>6, <2>1
<1>7. ASSUME NEW applied \in BOOLEAN, NEW acked \in BOOLEAN, DbCollect(applied, acked)
      PROVE  Store!Next \/ Same
  <2>1. /\ devices' = Flush(cache, applied, acked).docs
        /\ cache' = Flush(cache, applied, acked).entries /\ (acked => applied)
    BY <1>7 DEF DbCollect
  <2>2. CASE ~applied
    BY <1>1, <2>1, <2>2 DEF Flush
  <2>3. CASE applied
    <3>1. Stored(devices') = Store!Written(Memo(cache), Pending(cache))
      BY <1>1, <2>1, <2>3, FlushWrites
    <3>2. \A a \in Agents :
            /\ StatusOf(cache'[a], cache'[a].known) = StatusOf(cache[a], cache[a].known)
            /\ acked => ~cache'[a].dirty
            /\ ~acked => cache'[a] = cache[a]
      <4> SUFFICES ASSUME NEW a \in Agents
                   PROVE  /\ StatusOf(cache'[a], cache'[a].known)
                               = StatusOf(cache[a], cache[a].known)
                          /\ acked => ~cache'[a].dirty
                          /\ ~acked => cache'[a] = cache[a]
        OBVIOUS
      <4> DEFINE n == [cache[a] EXCEPT !.dirty = FALSE, !.last_db_flush = now]
      <4>1. cache'[a] = IF cache[a].dirty /\ acked THEN n ELSE cache[a]
        BY <2>1 DEF Flush
      <4>2. /\ n.known = cache[a].known /\ n.agent_status = cache[a].agent_status
            /\ n.is_connected = cache[a].is_connected /\ ~n.dirty
        BY <1>1 DEF Entry
      <4> HIDE DEF n
      <4> QED BY <4>1, <4>2 DEF StatusOf
    <3>3. Memo(cache') = Memo(cache)
      BY <3>2 DEF Memo
    <3>4. Pending(cache') \in {Pending(cache), {}}
      BY <3>2 DEF Pending
    <3> QED BY <3>1, <3>3, <3>4 DEF Store!Next, Store!Write, Memo, Pending, Stored
  <2> QED BY <2>2, <2>3
<1>8. ASSUME Gone PROVE /\ Memo(cache') = [a \in Agents |-> <<"absent", FALSE>>]
                        /\ Pending(cache') = {}
  <2>1. \A a \in Agents : ~cache'[a].known /\ ~cache'[a].dirty
    BY <1>8 DEF Gone, NoEntry
  <2> QED BY <2>1 DEF Memo, Pending, StatusOf
<1>9. CASE Crash
  BY <1>8, <1>9 DEF Crash, Store!Next, Store!Stop, Memo, Pending
<1>10. ASSUME NEW applied \in BOOLEAN, ExitCb(applied)
       PROVE  Store!Next
  <2>1. Gone /\ devices' = Flush(Closed, applied, applied).docs
    BY <1>10 DEF ExitCb, Closed
  <2>2. CASE ~applied
    <3>1. UNCHANGED devices
      BY <1>1, <2>1, <2>2 DEF Flush
    <3> QED BY <1>8, <2>1, <3>1 DEF Store!Next, Store!Stop, Memo, Pending
  <2>3. CASE applied
    <3>1. Closed \in [Agents -> Entry] /\ \A a \in Agents : Closed[a].dirty => Closed[a].known
      BY ClosedOK DEF EntryOK
    <3>2. Stored(devices') = Store!Written(Memo(Closed), Pending(Closed))
      BY <1>1, <2>1, <2>3, <3>1, FlushWrites
    <3>3. \A a \in Agents : Follows(cache[a], Closed[a])
      BY <1>1, <1>4, MarksFollow DEF Closed
    <3>4. Store!Changes(Memo(Closed), Pending(Closed))
      BY <1>1, <3>1, <3>3, FollowsChanges
    <3>5. Memo(Closed) \in Store!Maps /\ Pending(Closed) \in SUBSET Agents
      BY <1>1, <3>1, MapsOK
    <3> HIDE DEF Closed
    <3>6. \E m \in Store!Maps, P \in SUBSET Agents :
            Store!Changes(m, P) /\ Stored(devices') = Store!Written(m, P)
      BY <3>2, <3>4, <3>5
    <3> QED BY <1>8, <2>1, <3>6 DEF Store!Next, Store!Stop, Memo, Pending, Stored
  <2> QED BY <2>2, <2>3
<1>11. ASSUME NEW c \in Conns, NEW a \in Agents, Hello(c, a) \/ HelloAckFails(c, a)
       PROVE  Store!Next
  <2> DEFINE s == agent_state_mark_seen(cache[a])
  <2>1. UNCHANGED devices
    BY <1>11 DEF Hello, HelloAckFails
  <2>2. s \in Entry /\ Follows(cache[a], s)
    BY <1>1, MarksFollow
  <2>3. /\ agent_state_mark_disconnected(s) \in Entry
        /\ Follows(s, agent_state_mark_disconnected(s))
    BY <1>1, <2>2, MarksFollow
  <2>4. /\ cache'[a] \in {s, agent_state_mark_disconnected(s)}
        /\ \A b \in Agents \ {a} : cache'[b] = cache[b]
    BY <1>1, <1>11 DEF Hello, HelloAckFails
  <2> HIDE DEF s
  <2>5. Follows(cache[a], cache'[a])
    BY <1>1, <2>2, <2>3, <2>4, FollowsTransitive
  <2> QED BY <1>3, <1>4, <2>1, <2>4, <2>5
<1>12. ASSUME NEW c \in Conns, Frame(c) PROVE Store!Next
  BY <1>3, <1>5, <1>12 DEF Frame
<1>13. ASSUME NEW c \in Conns, FrameFails(c) PROVE Store!Next
  <2>1. Refreshed(c) \in [Agents -> Entry]
    BY <1>5 DEF Refreshed
  <2> QED BY <1>5, <1>6, <1>13, <2>1 DEF FrameFails
<1>14. ASSUME NEW c \in Conns, ConnEventClose(c) PROVE Store!Next
  BY <1>1, <1>4, <1>6, <1>14 DEF ConnEventClose
<1>15. ASSUME NEW D \in SUBSET Conns, HeartbeatCollect(D) PROVE Store!Next
  BY <1>1, <1>4, <1>6, <1>15 DEF HeartbeatCollect
<1>16. CASE \E c \in Conns : Collect(c) \/ PeerVanishes(c) \/ HelloAnonymous(c) \/ Syslog(c)
  BY <1>2, <1>16 DEF Collect, PeerVanishes, HelloAnonymous, Syslog
<1>17. CASE Tick \/ Start \/ UNCHANGED vars
  BY <1>2, <1>17 DEF Tick, Start, vars
<1> QED
  BY <1>2, <1>7, <1>9, <1>10, <1>11, <1>12, <1>13, <1>14, <1>15, <1>16, <1>17 DEF Next

\* The cache and the collection "devices" implement a write-behind cache.
THEOREM CacheIsWriteBehindAlways == Spec => CacheIsWriteBehind
<1>1. Init => Store!Init
  <2> SUFFICES ASSUME Init PROVE Store!Init
    OBVIOUS
  <2>1. \A a \in Agents : ~cache[a].known /\ ~cache[a].dirty
    BY DEF Init, NoEntry
  <2>2. Stored(devices) \in Store!Maps
    BY InitIInv, MapsOK DEF IInv, TypeOK
  <2> QED BY <2>1, <2>2 DEF Store!Init, StatusOf, Stored
<1> QED BY <1>1, StoreStep, Invariance, PTL DEF Spec, CacheIsWriteBehind, Store!Spec
==============================================================================
