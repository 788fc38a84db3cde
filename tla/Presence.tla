------------------------------- MODULE Presence ------------------------------
(***************************************************************************)
(* Distributed agent presence: several gateway (fluent-bit) instances      *)
(* report the life cycle of their agents to the xsiam service, which keeps *)
(* the Redis structures of internal/presence and the agent_status of the   *)
(* device documents; the gateways write the same documents themselves, and *)
(* the GC sweeps the agents of instances whose lease has expired.          *)
(*                                                                         *)
(* An HTTP handler makes one remote call after another, and so does the    *)
(* GC: every Redis or ArangoDB call is one action, and the handlers of     *)
(* different instances, the GC and the gateways interleave between them.   *)
(* post_agent_event waits for the answer, so an instance has at most one   *)
(* event under way.  One tenant.  The members of the sorted set do not age *)
(* here: an agent is heard at least every NOTIFY_TIME (20 s), well within  *)
(* LeaseTTL (90 s).                                                        *)
(***************************************************************************)
EXTENDS Naturals, FiniteSets

CONSTANTS
    Agents,
    FBs,      \* instance ids; a restarted gateway draws a new one
    None,     \* "not connected anywhere", "no instance"
    MaxConns, \* MaxConns[f]: bound on the sessions f holds of one agent
    Hazards   \* what else the environment may do, see HazardNames

\* Crashes, silent departures and failovers are part of every instance of this
\* module.  Beyond them:
\* coldstart  an instance may begin without a lease: its first fb_heartbeat is
\*            still to come when the first agent says HELLO
\* lapse      callbacks of an instance, or requests, may take longer than a lease
\* loss       an event may be lost before it reaches the service
\* db         a call of a handler to ArangoDB may fail
\* gcdb       a call of the GC to ArangoDB may fail
\* restart    the service may crash, and its handlers and its GC with it
HazardNames == {"coldstart", "lapse", "loss", "db", "gcdb", "restart"}

ASSUME PresenceAssumption ==
    /\ None \notin Agents \cup FBs
    /\ MaxConns \in [FBs -> Nat]
    /\ Hazards \subseteq HazardNames

VARIABLES
    life,     \* life[f]: instance f is up (at first without agents) or down
    session,  \* session[a]: the instance agent a is really connected to
    conns,    \* conns[f][a]: the sessions of a that f holds, dead ones included
    cached,   \* cached[f][a]: the agent_status in the cache of f
    dirty,    \* dirty[f]: the agents whose cached entry f has yet to write
    req,      \* req[f]: the event of f the service is handling
    online,   \* Redis: members of agent:online:{tenant}
    owned,    \* Redis: owned[f], the members of agent:fb:{f}
    lease,    \* Redis: the f whose key agent:fb:lease:{f} exists
    device,   \* ArangoDB: agent_status of the document of an agent
    gcPc,     \* where GC.Run stands
    gcCand,   \* the set keys found by the scan and not yet looked up
    gcDead,   \* deadFBs, those not yet swept
    gcFb,     \* the instance being swept
    gcTodo,   \* agentKeys of that instance, not yet resolved
    gcKeys,   \* agentKeys resolved to the tenant
    misjudged \* history: the instances the GC has wrongly held for dead

gcVars == <<gcPc, gcCand, gcDead, gcFb, gcTodo, gcKeys, misjudged>>
gwVars == <<life, session, conns, cached, dirty>>
vars == <<gwVars, req, online, owned, lease, device, gcVars>>

-----------------------------------------------------------------------------
Status == {"absent", "online", "offline"}
AgentEvent == {"connect", "heartbeat", "disconnect"}

\* A handler: the call it makes next, its event, and the document it has read.
Request == [pc : {"idle", "redis", "renew", "find", "write"},
            ev : AgentEvent \cup {"fb_heartbeat"},
            agent : Agents \cup {None},
            dev : Status]

Idle == [pc |-> "idle", ev |-> "fb_heartbeat", agent |-> None, dev |-> "absent"]

\* A handler that is about to make its first call, or the event got lost.
Post(f, ev, a) ==
    LET r == [pc |-> IF ev = "fb_heartbeat" THEN "renew" ELSE "redis",
              ev |-> ev, agent |-> a, dev |-> "absent"]
    IN  \/ req' = [req EXCEPT ![f] = r]
        \/ "loss" \in Hazards /\ req' = req

\* The engine runs the callbacks of an instance one at a time, and each of them
\* waits for the answer to its event.
Free(f) == life[f] = "up" /\ req[f].pc = "idle"

\* An instance that is gone, and of which no event is being handled any more.
Silent(f) == life[f] = "down" /\ req[f].pc = "idle"

Init ==
    /\ life = [f \in FBs |-> "up"]
    /\ session = [a \in Agents |-> None]
    /\ conns = [f \in FBs |-> [a \in Agents |-> 0]]
    /\ cached = [f \in FBs |-> [a \in Agents |-> "absent"]]
    /\ dirty = [f \in FBs |-> {}]
    /\ req = [f \in FBs |-> Idle]
    /\ online = {}
    /\ owned = [f \in FBs |-> {}]
    /\ lease \in IF "coldstart" \in Hazards THEN SUBSET FBs ELSE {FBs}
    /\ device = [a \in Agents |-> "absent"]
    /\ gcPc = "idle"
    /\ gcCand = {}
    /\ gcDead = {}
    /\ gcFb = None
    /\ gcTodo = {}
    /\ gcKeys = {}
    /\ misjudged = {}

-----------------------------------------------------------------------------
(* The gateways (module Gateway), as the service sees them. *)

\* The process ends.  A stop in good order is a Disconnect for every session,
\* a Flush, and then this.
Crash(f) ==
    /\ life[f] = "up"
    /\ life' = [life EXCEPT ![f] = "down"]
    /\ session' = [a \in Agents |-> IF session[a] = f THEN None ELSE session[a]]
    /\ conns' = [conns EXCEPT ![f] = [a \in Agents |-> 0]]
    /\ cached' = [cached EXCEPT ![f] = [a \in Agents |-> "absent"]]
    /\ dirty' = [dirty EXCEPT ![f] = {}]
    /\ UNCHANGED <<req, online, owned, lease, device, gcVars>>

\* An agent without a session, or one that gives up its session elsewhere,
\* says HELLO to f: agent_state_mark_seen.  Whatever sessions f and the other
\* instances still hold of it are dead from now on.
Connect(f, a) ==
    /\ Free(f)
    /\ session[a] # f
    /\ conns[f][a] < MaxConns[f]
    /\ session' = [session EXCEPT ![a] = f]
    /\ conns' = [conns EXCEPT ![f][a] = @ + 1]
    /\ cached' = [cached EXCEPT ![f][a] = "online"]
    /\ dirty' = [dirty EXCEPT ![f] = @ \cup {a}]
    /\ Post(f, "connect", a)
    /\ UNCHANGED <<life, online, owned, lease, device, gcVars>>

\* Mutant: a heartbeat never asks for a flush.
Heartbeat_NeverDirty(f, a, due) ==
    /\ Free(f)
    /\ session[a] = f
    /\ Post(f, "heartbeat", a)
    /\ UNCHANGED <<gwVars, online, owned, lease, device, gcVars>>

\* A HEARTBEAT or an EVENT_BATCH: agent_state_mark_heartbeat, which marks the
\* entry dirty when its last flush is heartbeat_flush_interval old.
Heartbeat(f, a, due) ==
    /\ Free(f)
    /\ session[a] = f
    /\ dirty' = [dirty EXCEPT ![f] = IF due THEN @ \cup {a} ELSE @]
    /\ Post(f, "heartbeat", a)
    /\ UNCHANGED <<life, session, conns, cached, online, owned, lease, device, gcVars>>

\* The agent goes away; the gateway does not know yet.
Leave(a) ==
    /\ session[a] # None
    /\ session' = [session EXCEPT ![a] = None]
    /\ UNCHANGED <<life, conns, cached, dirty, req, online, owned, lease, device, gcVars>>

\* f holds a session of a whose peer is gone.
HalfOpen(f, a) == conns[f][a] > IF session[a] = f THEN 1 ELSE 0

\* conn_del of such a session: agent_state_mark_disconnected, which does not
\* ask whether the agent has a newer session.
Disconnect(f, a) ==
    /\ Free(f)
    /\ HalfOpen(f, a)
    /\ conns' = [conns EXCEPT ![f][a] = @ - 1]
    /\ \/ /\ cached[f][a] = "online"
          /\ cached' = [cached EXCEPT ![f][a] = "offline"]
          /\ dirty' = [dirty EXCEPT ![f] = @ \cup {a}]
          /\ Post(f, "disconnect", a)
       \/ /\ cached[f][a] # "online"
          /\ UNCHANGED <<cached, dirty, req>>
    /\ UNCHANGED <<life, session, online, owned, lease, device, gcVars>>

\* fb_lease_collect, every XSIAM_FB_LEASE_INTERVAL seconds.
FbLeaseCollect(f) ==
    /\ Free(f)
    /\ Post(f, "fb_heartbeat", None)
    /\ UNCHANGED <<gwVars, online, owned, lease, device, gcVars>>

\* arango_flush_dirty_agents: one UPSERT of all dirty entries.  A flush that
\* fails changes nothing.
Flush(f) ==
    /\ Free(f)
    /\ dirty[f] # {}
    /\ device' = [a \in Agents |-> IF a \in dirty[f] THEN cached[f][a] ELSE device[a]]
    /\ dirty' = [dirty EXCEPT ![f] = {}]
    /\ UNCHANGED <<life, session, conns, cached, req, online, owned, lease, gcVars>>

-----------------------------------------------------------------------------
(* HandleAgentEvent, one call at a time. *)

\* Redis drops the lease key FBLeaseTTL (30 s) after its last renewal.  A live
\* instance renews it three times as often, with every event of an agent and
\* every XSIAM_FB_LEASE_INTERVAL (10 s) besides: its lease lapses when enough of
\* these events are lost, while the service is down, or when one takes too long.
LeaseExpires(f) ==
    /\ f \in lease
    /\ Silent(f) \/ Hazards \cap {"lapse", "loss", "restart"} # {}
    /\ lease' = lease \ {f}
    /\ UNCHANGED <<gwVars, req, online, owned, device, gcVars>>

\* Mutant: Touch does not record the owner.
Touch_NoOwner(f) ==
    /\ req[f].pc = "redis"
    /\ req[f].ev \in {"connect", "heartbeat"}
    /\ online' = online \cup {req[f].agent}
    /\ req' = [req EXCEPT ![f].pc = "renew"]
    /\ UNCHANGED <<gwVars, owned, lease, device, gcVars>>

\* Mutant: only a "connect" adds the agent to the online set.
Touch_ConnectOnly(f) ==
    /\ req[f].pc = "redis"
    /\ req[f].ev \in {"connect", "heartbeat"}
    /\ online' = IF req[f].ev = "connect" THEN online \cup {req[f].agent} ELSE online
    /\ owned' = [owned EXCEPT ![f] = @ \cup {req[f].agent}]
    /\ req' = [req EXCEPT ![f].pc = "renew"]
    /\ UNCHANGED <<gwVars, lease, device, gcVars>>

\* Registry.Touch: ZADD and SADD in one pipeline.
Touch(f) ==
    /\ req[f].pc = "redis"
    /\ req[f].ev \in {"connect", "heartbeat"}
    /\ online' = online \cup {req[f].agent}
    /\ owned' = [owned EXCEPT ![f] = @ \cup {req[f].agent}]
    /\ req' = [req EXCEPT ![f].pc = "renew"]
    /\ UNCHANGED <<gwVars, lease, device, gcVars>>

\* Registry.Remove: ZREM and SREM in one pipeline.
Remove(f) ==
    /\ req[f].pc = "redis"
    /\ req[f].ev = "disconnect"
    /\ online' = online \ {req[f].agent}
    /\ owned' = [owned EXCEPT ![f] = @ \ {req[f].agent}]
    /\ req' = [req EXCEPT ![f].pc = "find"]
    /\ UNCHANGED <<gwVars, lease, device, gcVars>>

\* Registry.RenewFB; with it the handling of "fb_heartbeat" is over.
RenewFB(f) ==
    /\ req[f].pc = "renew"
    /\ lease' = lease \cup {f}
    /\ req' = [req EXCEPT ![f] = IF @.ev = "fb_heartbeat" THEN Idle
                                 ELSE [@ EXCEPT !.pc = "find"]]
    /\ UNCHANGED <<gwVars, online, owned, device, gcVars>>

\* Does the handler of r go on to write, having read status s?
Writes(ev, s) ==
    CASE ev = "connect"    -> TRUE
      [] ev = "disconnect" -> s = "online"
      [] OTHER             -> s # "absent"

\* Repo.FindByAgentID; without a document, or one already offline, the handler
\* of "heartbeat" or "disconnect" returns.
FindByAgentID(f) ==
    LET r == req[f]
        s == device[r.agent]
    IN
    /\ r.pc = "find"
    /\ req' = [req EXCEPT ![f] = IF Writes(r.ev, s)
                                 THEN [r EXCEPT !.pc = "write", !.dev = s]
                                 ELSE Idle]
    /\ UNCHANGED <<gwVars, online, owned, lease, device, gcVars>>

\* Mutant: a status the console does not know.
Written_OddStatus(r) ==
    IF r.ev = "connect" THEN "connected" ELSE "offline"

\* Repo.Create, UpdateStatusByKey or Update.  agent_id is a unique index: a
\* Create that finds the document there by now fails.  The patch of a heartbeat
\* holds no status.
Written(r) ==
    CASE r.ev = "connect" /\ r.dev = "absent" ->
             IF device[r.agent] = "absent" THEN "online" ELSE device[r.agent]
      [] r.ev = "connect" /\ r.dev # "absent" -> "online"
      [] r.ev = "disconnect" -> "offline"
      [] OTHER -> device[r.agent]

UpdateDevice(f) ==
    /\ req[f].pc = "write"
    /\ device' = [device EXCEPT ![req[f].agent] = Written(req[f])]
    /\ req' = [req EXCEPT ![f] = Idle]
    /\ UNCHANGED <<gwVars, online, owned, lease, gcVars>>

\* A call to ArangoDB fails: the handler returns, the answer is 204 all the same.
DbError(f) ==
    /\ "db" \in Hazards
    /\ req[f].pc \in {"find", "write"}
    /\ req' = [req EXCEPT ![f] = Idle]
    /\ UNCHANGED <<gwVars, online, owned, lease, device, gcVars>>

Handler(f) ==
    Touch(f) \/ Remove(f) \/ RenewFB(f) \/ FindByAgentID(f) \/ UpdateDevice(f)

-----------------------------------------------------------------------------
(* GC.Run, every 15 s. *)

\* DeadFBInstances, the SCAN of the set keys (an empty set has no key).
GcScan ==
    /\ gcPc = "idle"
    /\ gcCand' = {f \in FBs : owned[f] # {}}
    /\ gcCand' # {}
    /\ gcPc' = "check"
    /\ UNCHANGED <<gwVars, req, online, owned, lease, device, gcDead, gcFb, gcTodo, gcKeys, misjudged>>

\* DeadFBInstances, the EXISTS of one lease key.
GcCheck(f) ==
    /\ gcPc = "check"
    /\ f \in gcCand
    /\ gcCand' = gcCand \ {f}
    /\ gcDead' = IF f \in lease THEN gcDead ELSE gcDead \cup {f}
    /\ misjudged' = IF f \in lease \/ Silent(f) THEN misjudged ELSE misjudged \cup {f}
    /\ gcPc' = IF gcCand' = {} THEN "run" ELSE "check"
    /\ UNCHANGED <<gwVars, req, online, owned, lease, device, gcFb, gcTodo, gcKeys>>

\* sweepFB: SMEMBERS of the next dead instance.  With no member it deletes the
\* key, which is not there.
AgentsForFB(f) ==
    /\ gcPc = "run"
    /\ f \in gcDead
    /\ gcTodo' = owned[f]
    /\ IF owned[f] = {}
       THEN /\ gcDead' = gcDead \ {f}
            /\ UNCHANGED <<gcPc, gcFb>>
       ELSE /\ gcPc' = "resolve"
            /\ gcFb' = f
            /\ UNCHANGED gcDead
    /\ UNCHANGED <<gwVars, req, online, owned, lease, device, gcCand, gcKeys, misjudged>>

\* TenantForAgentKey: an agent without a document, or whose lookup fails, is
\* skipped.
TenantForAgentKey(a) ==
    /\ gcPc = "resolve"
    /\ a \in gcTodo
    /\ gcTodo' = gcTodo \ {a}
    /\ \/ gcKeys' = IF device[a] = "absent" THEN gcKeys ELSE gcKeys \cup {a}
       \/ "gcdb" \in Hazards /\ gcKeys' = gcKeys
    /\ gcPc' = IF gcTodo' = {} THEN "zrem" ELSE "resolve"
    /\ UNCHANGED <<gwVars, req, online, owned, lease, device, gcCand, gcDead, gcFb, misjudged>>

BulkRemove ==
    /\ gcPc = "zrem"
    /\ online' = online \ gcKeys
    /\ gcPc' = "offline"
    /\ UNCHANGED <<gwVars, req, owned, lease, device, gcCand, gcDead, gcFb, gcTodo, gcKeys, misjudged>>

\* Mutant: the filter is inverted, so that online devices are left alone.
BulkOfflineByAgentKeys_Inverted ==
    /\ gcPc = "offline"
    /\ device' = [a \in Agents |-> IF a \in gcKeys /\ device[a] # "online"
                                   THEN "offline" ELSE device[a]]
    /\ gcPc' = "delete"
    /\ UNCHANGED <<gwVars, req, online, owned, lease, gcCand, gcDead, gcFb, gcTodo, gcKeys, misjudged>>

BulkOfflineByAgentKeys ==
    /\ gcPc = "offline"
    /\ \/ device' = [a \in Agents |-> IF a \in gcKeys /\ device[a] = "online"
                                      THEN "offline" ELSE device[a]]
       \/ "gcdb" \in Hazards /\ device' = device
    /\ gcPc' = "delete"
    /\ UNCHANGED <<gwVars, req, online, owned, lease, gcCand, gcDead, gcFb, gcTodo, gcKeys, misjudged>>

\* DeleteFBSet, "regardless of db success".
DeleteFBSet ==
    /\ gcPc = "delete"
    /\ owned' = [owned EXCEPT ![gcFb] = {}]
    /\ gcDead' = gcDead \ {gcFb}
    /\ gcFb' = None
    /\ gcKeys' = {}
    /\ gcPc' = "run"
    /\ UNCHANGED <<gwVars, req, online, lease, device, gcCand, gcTodo, misjudged>>

\* The loop of Run is over.
GcDone ==
    /\ gcPc = "run"
    /\ gcDead = {}
    /\ gcPc' = "idle"
    /\ UNCHANGED <<gwVars, req, online, owned, lease, device,
                   gcCand, gcDead, gcFb, gcTodo, gcKeys, misjudged>>

GC ==
    \/ GcScan
    \/ \E f \in FBs : GcCheck(f) \/ AgentsForFB(f)
    \/ \E a \in Agents : TenantForAgentKey(a)
    \/ BulkRemove
    \/ BulkOfflineByAgentKeys
    \/ DeleteFBSet
    \/ GcDone

\* The service dies and starts again: what its handlers and its GC were doing
\* is lost, Redis and ArangoDB keep what they have.
ServiceRestart ==
    /\ "restart" \in Hazards
    /\ req' = [f \in FBs |-> Idle]
    /\ gcPc' = "idle"
    /\ gcCand' = {}
    /\ gcDead' = {}
    /\ gcFb' = None
    /\ gcTodo' = {}
    /\ gcKeys' = {}
    /\ UNCHANGED <<gwVars, online, owned, lease, device, misjudged>>

Next ==
    \/ GC
    \/ ServiceRestart
    \/ \E a \in Agents : Leave(a)
    \/ \E f \in FBs :
        \/ Crash(f)
        \/ FbLeaseCollect(f)
        \/ Flush(f)
        \/ LeaseExpires(f)
        \/ Handler(f)
        \/ DbError(f)
    \/ \E f \in FBs, a \in Agents :
        \/ Connect(f, a)
        \/ Disconnect(f, a)
        \/ \E due \in BOOLEAN : Heartbeat(f, a, due)

Spec == Init /\ [][Next]_vars

-----------------------------------------------------------------------------
\* Fairness.  The service goes on with every handler and with the GC, and the
\* lease of a dead instance expires.  A live instance serves every timer and
\* every socket in turn, so what is possible again and again between two events
\* happens: the heartbeats of a connected agent, among them some that come
\* after the flush interval, the flush, and the close of a session whose peer
\* is gone.  Agents owe nothing else, and nothing crashes or starts by duty.
Fairness ==
    /\ WF_vars(GC)
    /\ \A f \in FBs :
        /\ WF_vars(Handler(f))
        /\ WF_vars(LeaseExpires(f) /\ Silent(f))
        /\ SF_vars(Flush(f))
        /\ \A a \in Agents :
            /\ SF_vars(Heartbeat(f, a, TRUE) /\ req' # req)
            /\ SF_vars(Disconnect(f, a))

LiveSpec == Spec /\ Fairness

-----------------------------------------------------------------------------
\* Every variable has its type: what the handlers and the GC hold between two
\* calls are events, instances and agents, and no status but the three there are.
TypeOK ==
    /\ life \in [FBs -> {"up", "down"}]
    /\ session \in [Agents -> FBs \cup {None}]
    /\ conns \in [FBs -> [Agents -> Nat]]
    /\ cached \in [FBs -> [Agents -> Status]]
    /\ dirty \in [FBs -> SUBSET Agents]
    /\ req \in [FBs -> Request]
    /\ online \subseteq Agents
    /\ owned \in [FBs -> SUBSET Agents]
    /\ lease \subseteq FBs
    /\ device \in [Agents -> Status]
    /\ gcPc \in {"idle", "check", "run", "resolve", "zrem", "offline", "delete"}
    /\ gcCand \subseteq FBs
    /\ gcDead \subseteq FBs
    /\ gcFb \in FBs \cup {None}
    /\ gcTodo \subseteq Agents
    /\ gcKeys \subseteq Agents
    /\ misjudged \subseteq FBs

\* Somebody will still set the status of agent a to offline: an instance that
\* takes a for connected or has yet to write that it is not, the GC by the set
\* of some instance, or a handler of "disconnect".
CanGoOffline(a) ==
    \/ \E f \in FBs : cached[f][a] = "online"
    \/ \E f \in FBs : cached[f][a] = "offline" /\ a \in dirty[f]
    \/ \E f \in FBs : a \in owned[f]
    \/ \E f \in FBs : req[f].agent = a /\ req[f].ev = "disconnect" /\ req[f].pc # "idle"

\* No device is left online for ever: while a document says "online" someone is
\* there to say "offline" when the agent is gone, whatever crashes, moves, late
\* closes and races there have been (Touch, Remove, sweepFB).  One thing breaks
\* it: a GC that has taken an instance for dead that was not.
NoOrphanOnline ==
    misjudged = {} => \A a \in Agents : device[a] = "online" => CanGoOffline(a)

\* An agent that is gone for good is shown offline in the end, also when its
\* instance died without a word: the purpose of the lease and of the GC.  As
\* before, the GC must not have taken a live instance for dead.
GoneAgentOffline ==
    \A a \in Agents : <>[](session[a] = None /\ misjudged = {}) => <>[](device[a] # "online")

\* An agent that stays connected to one instance, which from some time on holds
\* its lease, in a service that stays up from some time on, is in the online set
\* for good in the end, and its document says what that instance says of it,
\* whatever late disconnects and sweeps of other instances, or of this one, have
\* said before.  (The instance says "online" unless it has closed an older session
\* of the agent after the last HELLO.)
StatusSettles ==
    \A a \in Agents, f \in FBs :
        <>[](session[a] = f /\ f \in lease) /\ <>[][~ServiceRestart]_vars =>
            <>[](a \in online /\ device[a] = cached[f][a])
==============================================================================
