---------------------------- MODULE PresenceProofs ---------------------------
(***************************************************************************)
(* Proofs about Presence, for any agents, any number of gateway instances  *)
(* and any hazards except those a theorem excludes by name.                *)
(***************************************************************************)
EXTENDS Presence, TLAPS

\* A handler of an event other than "fb_heartbeat" has an agent, and only such
\* a handler gets to touch Redis' agent keys or the device documents.
ReqOK ==
    \A f \in FBs :
        /\ req[f].ev # "fb_heartbeat" => req[f].agent \in Agents
        /\ req[f].pc \in {"redis", "find", "write"} => req[f].ev # "fb_heartbeat"

TypeInv == TypeOK /\ ReqOK

-----------------------------------------------------------------------------
\* The initial state is well typed.
LEMMA InitTypeInv == Init => TypeInv
BY DEF Init, TypeInv, TypeOK, ReqOK, Request, Idle, Status

\* Posting an event leaves the requests well typed.
LEMMA PostOK ==
    ASSUME TypeInv, NEW f \in FBs, NEW ev \in AgentEvent \cup {"fb_heartbeat"},
           NEW a \in Agents \cup {None}, ev # "fb_heartbeat" => a \in Agents,
           Post(f, ev, a)
    PROVE  /\ req' \in [FBs -> Request]
           /\ ReqOK'
<1>1. CASE req' = req
  BY <1>1 DEF TypeInv, TypeOK, ReqOK
<1>2. ASSUME NEW r \in Request, req' = [req EXCEPT ![f] = r],
             r.ev # "fb_heartbeat" => r.agent \in Agents,
             r.pc \in {"redis", "find", "write"} => r.ev # "fb_heartbeat"
      PROVE  req' \in [FBs -> Request] /\ ReqOK'
  BY <1>2 DEF TypeInv, TypeOK, ReqOK
<1>3. [pc |-> IF ev = "fb_heartbeat" THEN "renew" ELSE "redis",
       ev |-> ev, agent |-> a, dev |-> "absent"] \in Request
  BY DEF Request, Status
<1> QED BY <1>1, <1>2, <1>3 DEF Post

\* Replacing one request by a well-formed one.
LEMMA StepReqOK ==
    ASSUME TypeInv, NEW f \in FBs, NEW r \in Request,
           r.ev # "fb_heartbeat" => r.agent \in Agents,
           r.pc \in {"redis", "find", "write"} => r.ev # "fb_heartbeat",
           req' = [req EXCEPT ![f] = r]
    PROVE  req' \in [FBs -> Request] /\ ReqOK'
BY DEF TypeInv, TypeOK, ReqOK

LEMMA IdleOK == Idle \in Request /\ Idle.ev = "fb_heartbeat" /\ Idle.pc = "idle"
BY DEF Idle, Request, Status

\* The steps of the gateways preserve the type invariant.
LEMMA GatewayTypeInv ==
    ASSUME TypeInv, NEW f \in FBs,
           \/ Crash(f) \/ FbLeaseCollect(f) \/ Flush(f)
           \/ \E a \in Agents : \/ Connect(f, a)
                              \/ Disconnect(f, a)
                              \/ \E due \in BOOLEAN : Heartbeat(f, a, due)
    PROVE  TypeInv'
<1> USE DEF gcVars, gwVars
<1>2. CASE Crash(f)
  BY <1>2 DEF Crash, TypeInv, TypeOK, ReqOK, Status
<1>3. ASSUME NEW a \in Agents, Connect(f, a) PROVE TypeInv'
  <2>1. req' \in [FBs -> Request] /\ ReqOK'
    BY <1>3, PostOK DEF Connect, AgentEvent
  <2>2. cached' \in [FBs -> [Agents -> Status]]
    BY <1>3 DEF Connect, TypeInv, TypeOK, Status
  <2> QED BY <1>3, <2>1, <2>2 DEF Connect, TypeInv, TypeOK
<1>4. ASSUME NEW a \in Agents, NEW due \in BOOLEAN, Heartbeat(f, a, due) PROVE TypeInv'
  <2>1. req' \in [FBs -> Request] /\ ReqOK'
    BY <1>4, PostOK DEF Heartbeat, AgentEvent
  <2>2. PICK D \in SUBSET Agents : dirty' = [dirty EXCEPT ![f] = D]
    <3>1. (IF due THEN dirty[f] \cup {a} ELSE dirty[f]) \in SUBSET Agents
      BY DEF TypeInv, TypeOK
    <3> QED BY <1>4, <3>1 DEF Heartbeat
  <2>3. dirty' \in [FBs -> SUBSET Agents]
    BY <2>2 DEF TypeInv, TypeOK
  <2>4. UNCHANGED <<life, session, conns, cached, online, owned, lease, device, gcVars>>
    BY <1>4 DEF Heartbeat
  <2> QED BY <2>1, <2>3, <2>4 DEF TypeInv, TypeOK
<1>6. ASSUME NEW a \in Agents, Disconnect(f, a) PROVE TypeInv'
  <2>1. conns' \in [FBs -> [Agents -> Nat]]
    <3>1. /\ conns \in [FBs -> [Agents -> Nat]] /\ conns[f][a] > 0
          /\ conns' = [conns EXCEPT ![f][a] = @ - 1]
      BY <1>6 DEF Disconnect, HalfOpen, TypeInv, TypeOK
    <3>2. conns[f][a] - 1 \in Nat
      BY <3>1
    <3> QED BY <3>1, <3>2
  <2>2. UNCHANGED <<life, session, online, owned, lease, device, gcVars>>
    BY <1>6 DEF Disconnect
  <2>3. CASE UNCHANGED <<cached, dirty, req>>
    BY <2>1, <2>2, <2>3 DEF TypeInv, TypeOK, ReqOK
  <2>4. CASE /\ cached' = [cached EXCEPT ![f][a] = "offline"]
             /\ dirty' = [dirty EXCEPT ![f] = @ \cup {a}]
             /\ Post(f, "disconnect", a)
    <3>1. req' \in [FBs -> Request] /\ ReqOK'
      BY <2>4, PostOK DEF AgentEvent
    <3>2. cached' \in [FBs -> [Agents -> Status]] /\ dirty' \in [FBs -> SUBSET Agents]
      BY <2>4 DEF TypeInv, TypeOK, Status
    <3> QED BY <2>1, <2>2, <3>1, <3>2 DEF TypeInv, TypeOK
  <2> QED BY <1>6, <2>3, <2>4 DEF Disconnect
<1>7. CASE FbLeaseCollect(f)
  <2>1. req' \in [FBs -> Request] /\ ReqOK'
    BY <1>7, PostOK DEF FbLeaseCollect
  <2> QED BY <1>7, <2>1 DEF FbLeaseCollect, TypeInv, TypeOK
<1>8. CASE Flush(f)
  BY <1>8 DEF Flush, TypeInv, TypeOK, ReqOK
<1> QED BY <1>2, <1>3, <1>4, <1>6, <1>7, <1>8

\* The calls of HandleAgentEvent preserve the type invariant.
LEMMA HandlerTypeInv ==
    ASSUME TypeInv, NEW f \in FBs, Handler(f) \/ LeaseExpires(f) \/ DbError(f)
    PROVE  TypeInv'
<1> USE DEF gcVars, gwVars
<1> DEFINE r == req[f]
<1>0. r \in Request /\ r.pc \in {"idle", "redis", "renew", "find", "write"}
      /\ r.ev \in AgentEvent \cup {"fb_heartbeat"}
      /\ (r.ev # "fb_heartbeat" => r.agent \in Agents)
      /\ (r.pc \in {"redis", "find", "write"} => r.ev # "fb_heartbeat")
  BY DEF TypeInv, TypeOK, ReqOK, Request
<1>1. CASE Touch(f)
  <2>1. [r EXCEPT !.pc = "renew"] \in Request
        /\ [r EXCEPT !.pc = "renew"].ev = r.ev /\ [r EXCEPT !.pc = "renew"].pc = "renew"
        /\ [r EXCEPT !.pc = "renew"].agent = r.agent
    BY <1>0 DEF Request
  <2>2. req' = [req EXCEPT ![f] = [r EXCEPT !.pc = "renew"]]
    BY <1>1 DEF Touch
  <2>3. req' \in [FBs -> Request] /\ ReqOK'
    BY <1>0, <2>1, <2>2, StepReqOK
  <2> QED BY <1>0, <1>1, <2>3 DEF Touch, TypeInv, TypeOK
<1>2. CASE Remove(f)
  <2>1. [r EXCEPT !.pc = "find"] \in Request
        /\ [r EXCEPT !.pc = "find"].ev = r.ev /\ [r EXCEPT !.pc = "find"].agent = r.agent
    BY <1>0 DEF Request
  <2>2. req' = [req EXCEPT ![f] = [r EXCEPT !.pc = "find"]] /\ r.ev = "disconnect"
    BY <1>2 DEF Remove
  <2>3. req' \in [FBs -> Request] /\ ReqOK'
    BY <1>0, <2>1, <2>2, StepReqOK
  <2> QED BY <1>0, <1>2, <2>3 DEF Remove, TypeInv, TypeOK
<1>3. CASE RenewFB(f)
  <2> DEFINE n == IF r.ev = "fb_heartbeat" THEN Idle ELSE [r EXCEPT !.pc = "find"]
  <2>1. n \in Request /\ (n.ev # "fb_heartbeat" => n.agent \in Agents)
        /\ (n.pc \in {"redis", "find", "write"} => n.ev # "fb_heartbeat")
    BY <1>0, IdleOK DEF Request
  <2>2. req' = [req EXCEPT ![f] = n]
    BY <1>3 DEF RenewFB
  <2> HIDE DEF n
  <2>3. req' \in [FBs -> Request] /\ ReqOK'
    BY <2>1, <2>2, StepReqOK
  <2> QED BY <1>3, <2>3 DEF RenewFB, TypeInv, TypeOK
<1>4. CASE FindByAgentID(f)
  <2> DEFINE s == device[r.agent]
             n == IF Writes(r.ev, s) THEN [r EXCEPT !.pc = "write", !.dev = s] ELSE Idle
  <2>1. s \in Status
    BY <1>0, <1>4 DEF FindByAgentID, TypeInv, TypeOK
  <2>2. n \in Request /\ (n.ev # "fb_heartbeat" => n.agent \in Agents)
        /\ (n.pc \in {"redis", "find", "write"} => n.ev # "fb_heartbeat")
    <3>1. CASE Writes(r.ev, s)
      <4>1. r.ev # "fb_heartbeat"
        BY <1>0, <1>4 DEF FindByAgentID
      <4> HIDE DEF s
      <4> QED BY <1>0, <2>1, <3>1, <4>1 DEF Request
    <3>2. CASE ~Writes(r.ev, s)
      BY <3>2, IdleOK
    <3> QED BY <3>1, <3>2
  <2>3. req' = [req EXCEPT ![f] = n]
    BY <1>4 DEF FindByAgentID
  <2> HIDE DEF n
  <2>4. req' \in [FBs -> Request] /\ ReqOK'
    BY <2>2, <2>3, StepReqOK
  <2> QED BY <1>4, <2>4 DEF FindByAgentID, TypeInv, TypeOK
<1>5. CASE UpdateDevice(f)
  <2>1. r.agent \in Agents /\ device[r.agent] \in Status
    BY <1>0, <1>5 DEF UpdateDevice, TypeInv, TypeOK
  <2>2. Written(r) \in Status
    BY <2>1 DEF Written, Status
  <2>3. device' \in [Agents -> Status]
    BY <1>5, <2>2 DEF UpdateDevice, TypeInv, TypeOK
  <2>4. req' \in [FBs -> Request] /\ ReqOK'
    BY <1>5, IdleOK, StepReqOK DEF UpdateDevice
  <2> QED BY <1>5, <2>3, <2>4 DEF UpdateDevice, TypeInv, TypeOK
<1>6. CASE LeaseExpires(f)
  BY <1>6 DEF LeaseExpires, TypeInv, TypeOK, ReqOK
<1>7. CASE DbError(f)
  <2>1. req' \in [FBs -> Request] /\ ReqOK'
    BY <1>7, IdleOK, StepReqOK DEF DbError
  <2> QED BY <1>7, <2>1 DEF DbError, TypeInv, TypeOK
<1> QED BY <1>1, <1>2, <1>3, <1>4, <1>5, <1>6, <1>7 DEF Handler

\* The steps of the GC, and a restart of the service, preserve the type
\* invariant.
LEMMA GcTypeInv ==
    ASSUME TypeInv, GC \/ ServiceRestart
    PROVE  TypeInv'
<1> USE DEF gcVars, gwVars
<1>1. CASE GcScan
  BY <1>1 DEF GcScan, TypeInv, TypeOK, ReqOK
<1>2. ASSUME NEW f \in FBs, GcCheck(f) PROVE TypeInv'
  BY <1>2 DEF GcCheck, TypeInv, TypeOK, ReqOK
<1>3. ASSUME NEW f \in FBs, AgentsForFB(f) PROVE TypeInv'
  BY <1>3 DEF AgentsForFB, TypeInv, TypeOK, ReqOK
<1>4. ASSUME NEW a \in Agents, TenantForAgentKey(a) PROVE TypeInv'
  BY <1>4 DEF TenantForAgentKey, TypeInv, TypeOK, ReqOK
<1>5. CASE BulkRemove
  BY <1>5 DEF BulkRemove, TypeInv, TypeOK, ReqOK
<1>6. CASE BulkOfflineByAgentKeys
  <2>1. device' \in [Agents -> Status]
    BY <1>6 DEF BulkOfflineByAgentKeys, TypeInv, TypeOK, Status
  <2> QED BY <1>6, <2>1 DEF BulkOfflineByAgentKeys, TypeInv, TypeOK, ReqOK
<1>7. CASE DeleteFBSet
  BY <1>7 DEF DeleteFBSet, TypeInv, TypeOK, ReqOK
<1>8. CASE GcDone
  BY <1>8 DEF GcDone, TypeInv, TypeOK, ReqOK
<1>9. CASE ServiceRestart
  <2>1. req' \in [FBs -> Request] /\ ReqOK'
    BY <1>9, IdleOK DEF ServiceRestart, ReqOK
  <2> QED BY <1>9, <2>1 DEF ServiceRestart, TypeInv, TypeOK
<1> QED BY <1>1, <1>2, <1>3, <1>4, <1>5, <1>6, <1>7, <1>8, <1>9 DEF GC

\* Every step preserves the type invariant.
LEMMA NextTypeInv == TypeInv /\ [Next]_vars => TypeInv'
<1> SUFFICES ASSUME TypeInv, [Next]_vars PROVE TypeInv'
  OBVIOUS
<1>1. CASE UNCHANGED vars
  BY <1>1 DEF vars, gwVars, gcVars, TypeInv, TypeOK, ReqOK
<1>2. ASSUME NEW a \in Agents, Leave(a) PROVE TypeInv'
  BY <1>2 DEF Leave, TypeInv, TypeOK, ReqOK, gcVars
<1> QED BY <1>1, <1>2, GatewayTypeInv, HandlerTypeInv, GcTypeInv DEF Next

\* TypeOK holds for any agents, instances and hazards: no interleaving of
\* handlers, GC and gateways makes one of them write what another cannot read.
THEOREM TypeCorrect == Spec => []TypeOK
<1>1. Init => TypeInv
  BY InitTypeInv
<1>2. TypeInv /\ [Next]_vars => TypeInv'
  BY NextTypeInv
<1>3. TypeInv => TypeOK
  BY DEF TypeInv
<1> QED BY <1>1, <1>2, <1>3, PTL DEF Spec

-----------------------------------------------------------------------------
(* No device is left online for ever, where no call fails, no event is lost   *)
(* and the GC has not taken a live instance for dead.                         *)

\* The hazards that break it are absent.  Instances may begin without a lease,
\* and leases may lapse: what follows from that is in misjudged.
CallsSucceed == Hazards \subseteq {"coldstart", "lapse"}

\* A handler of f that is under way with an event of an agent.
Busy(f) == req[f].pc # "idle" /\ req[f].ev # "fb_heartbeat"
Handles(f, ev, a) == Busy(f) /\ req[f].ev = ev /\ req[f].agent = a

\* The GC is in the middle of sweeping an instance.
Sweeping == gcPc \in {"resolve", "zrem", "offline", "delete"}

\* An instance the GC holds for dead is silent for good, or was misjudged, and
\* the GC sweeps no other.
SweepSound ==
    /\ \A f \in gcDead : Silent(f) \/ f \in misjudged
    /\ Sweeping => gcFb \in gcDead

\* An instance that takes an agent for connected is up, and the agent is in its
\* set unless Touch is still to come; an agent that Touch has added for a
\* "connect" stays there until the handler is done.
Touched(f, a) ==
    /\ cached[f][a] = "online" =>
         life[f] = "up" /\ (a \in owned[f] \/ (Handles(f, "connect", a) /\ req[f].pc = "redis"))
    /\ Handles(f, "connect", a) /\ req[f].pc # "redis" => a \in owned[f]
    /\ Handles(f, "disconnect", a) /\ req[f].pc = "redis" => cached[f][a] # "online"
OwnedAfterTouch == \A f \in FBs, a \in Agents : Touched(f, a)

\* The set of f will still set agent a offline: it has a, and the GC has neither
\* skipped a nor gone past the writing of the device documents.
WillSweep(f, a) ==
    /\ a \in owned[f]
    /\ gcFb = f =>
        /\ gcPc = "resolve" => a \in gcTodo \cup gcKeys
        /\ gcPc \in {"zrem", "offline"} => a \in gcKeys
        /\ gcPc # "delete"

\* A handler of "disconnect" that has removed a and goes on to its document.
WillWrite(f, a) == Handles(f, "disconnect", a) /\ req[f].pc \in {"find", "write"}

Reachable ==
    \A a \in Agents : device[a] = "online" => \E f \in FBs : WillSweep(f, a) \/ WillWrite(f, a)

OrphanInv == TypeInv /\ SweepSound /\ (misjudged = {} => OwnedAfterTouch /\ Reachable)

\* The same as long as the GC has misjudged nobody.
HandedOn == TypeInv /\ SweepSound /\ misjudged = {} /\ OwnedAfterTouch /\ Reachable

\* At first there is nothing.
LEMMA InitOrphanInv == Init => OrphanInv
<1> SUFFICES ASSUME Init PROVE OrphanInv
  OBVIOUS
<1>1. \A f \in FBs : ~Busy(f)
  BY IdleOK DEF Init, Busy
<1>2. SweepSound
  BY DEF Init, SweepSound, Sweeping
<1>3. OwnedAfterTouch
  BY <1>1 DEF Init, OwnedAfterTouch, Touched, Handles
<1>4. Reachable
  BY DEF Init, Reachable
<1> QED BY <1>2, <1>3, <1>4, InitTypeInv DEF OrphanInv

\* An instance that is silent stays so: an id is not used again.
LEMMA SilentForGood ==
    ASSUME TypeInv, [Next]_vars, NEW f \in FBs, Silent(f)
    PROVE  Silent(f)'
<1> USE DEF gwVars
<1>1. /\ life \in [FBs -> {"up", "down"}] /\ req \in [FBs -> Request]
      /\ life[f] = "down" /\ req[f].pc = "idle"
  BY DEF TypeInv, TypeOK, Silent
<1>2. ASSUME NEW g \in FBs, NEW ev, NEW a, Free(g), Post(g, ev, a) PROVE req'[f] = req[f]
  <2>1. g # f
    BY <1>1, <1>2 DEF Free
  <2> QED BY <1>1, <1>2, <2>1 DEF Post
<1>3. ASSUME NEW g \in FBs, NEW a \in Agents,
             Connect(g, a) \/ Disconnect(g, a) \/ \E due \in BOOLEAN : Heartbeat(g, a, due)
      PROVE  req'[f] = req[f] /\ life' = life
  <2>1. CASE UNCHANGED req
    BY <1>3, <2>1 DEF Connect, Disconnect, Heartbeat
  <2>2. CASE Free(g) /\ \E ev : Post(g, ev, a)
    BY <1>2, <1>3, <2>2 DEF Connect, Disconnect, Heartbeat
  <2> QED BY <1>3, <2>1, <2>2 DEF Connect, Disconnect, Heartbeat
<1>4. ASSUME NEW g \in FBs, FbLeaseCollect(g) PROVE req'[f] = req[f] /\ life' = life
  BY <1>2, <1>4 DEF FbLeaseCollect
<1>5. ASSUME NEW g \in FBs, Handler(g) \/ DbError(g) PROVE req'[f] = req[f] /\ life' = life
  <2>1. g # f
    BY <1>1, <1>5 DEF Handler, DbError, Touch, Remove, RenewFB, FindByAgentID, UpdateDevice
  <2> QED BY <1>1, <1>5, <2>1
          DEF Handler, DbError, Touch, Remove, RenewFB, FindByAgentID, UpdateDevice
<1>6. ASSUME NEW g \in FBs, Crash(g) \/ Flush(g) \/ LeaseExpires(g)
      PROVE  req'[f] = req[f] /\ life'[f] = "down"
  BY <1>1, <1>6 DEF Crash, Flush, LeaseExpires
<1>7. CASE ServiceRestart
  BY <1>1, <1>7, IdleOK DEF ServiceRestart, Silent
<1>8. ASSUME GC \/ UNCHANGED vars \/ \E a \in Agents : Leave(a)
      PROVE  req' = req /\ life' = life
  BY <1>8 DEF GC, GcScan, GcCheck, AgentsForFB, TenantForAgentKey, BulkRemove,
     BulkOfflineByAgentKeys, DeleteFBSet, GcDone, vars, Leave
<1> QED BY <1>1, <1>3, <1>4, <1>5, <1>6, <1>7, <1>8 DEF Next, Silent

\* The GC's mistakes are not forgotten, and whom it newly holds for dead is
\* silent or a mistake.
LEMMA DeadFound ==
    ASSUME TypeInv, [Next]_vars
    PROVE  /\ misjudged \subseteq misjudged'
           /\ \A f \in gcDead' : f \in FBs /\ (f \in gcDead \/ Silent(f) \/ f \in misjudged')
<1>1. CASE \E g \in FBs : GcCheck(g)
  BY <1>1 DEF GcCheck, TypeInv, TypeOK
<1>2. CASE \E g \in FBs : AgentsForFB(g)
  BY <1>2 DEF AgentsForFB, TypeInv, TypeOK
<1>3. CASE DeleteFBSet \/ ServiceRestart
  BY <1>3 DEF DeleteFBSet, ServiceRestart, TypeInv, TypeOK
<1>4. \/ UNCHANGED <<gcDead, misjudged>> \/ DeleteFBSet \/ ServiceRestart
      \/ \E g \in FBs : GcCheck(g) \/ AgentsForFB(g)
  BY ZenonT(60) DEF Next, GC, Handler, GcScan, TenantForAgentKey, BulkRemove,
     BulkOfflineByAgentKeys, GcDone, Leave, FbLeaseCollect,
     Flush, LeaseExpires, Touch, Remove, RenewFB, FindByAgentID, UpdateDevice, DbError,
     Connect, Disconnect, Heartbeat, Crash, vars, gcVars
<1> QED BY <1>1, <1>2, <1>3, <1>4 DEF TypeInv, TypeOK

\* Every step keeps SweepSound.
LEMMA NextSweepSound ==
    ASSUME TypeInv, SweepSound, [Next]_vars
    PROVE  SweepSound'
<1>1. ASSUME NEW f \in gcDead' PROVE Silent(f)' \/ f \in misjudged'
  BY DeadFound, SilentForGood DEF SweepSound
<1>2. ASSUME Sweeping' PROVE gcFb' \in gcDead'
  <2>1. CASE UNCHANGED <<gcPc, gcFb, gcDead>>
    BY <1>2, <2>1 DEF SweepSound, Sweeping
  <2>2. ASSUME NEW f \in FBs, GcCheck(f) \/ AgentsForFB(f) PROVE gcFb' \in gcDead'
    BY <1>2, <2>2 DEF GcCheck, AgentsForFB, Sweeping
  <2>3. CASE BulkRemove \/ BulkOfflineByAgentKeys \/ \E a \in Agents : TenantForAgentKey(a)
    BY <2>3 DEF BulkRemove, BulkOfflineByAgentKeys, TenantForAgentKey, SweepSound, Sweeping
  <2>4. CASE GcScan \/ DeleteFBSet \/ GcDone \/ ServiceRestart
    BY <1>2, <2>4 DEF GcScan, DeleteFBSet, GcDone, ServiceRestart, Sweeping
  <2>5. UNCHANGED <<gcPc, gcFb, gcDead>> \/ GC \/ ServiceRestart
    BY ZenonT(60)
    DEF Next, Handler, Leave, FbLeaseCollect, LeaseExpires,
       Flush, Touch, Remove, RenewFB, FindByAgentID, UpdateDevice, DbError,
       Connect, Disconnect, Heartbeat, Crash, vars, gcVars
  <2> QED BY <2>1, <2>2, <2>3, <2>4, <2>5 DEF GC
<1> QED BY <1>1, <1>2 DEF SweepSound

\* An event that is posted and not lost.
LEMMA PostFields ==
    ASSUME CallsSucceed, req \in [FBs -> Request], NEW f \in FBs, NEW ev, NEW a, Post(f, ev, a)
    PROVE  /\ req'[f].ev = ev /\ req'[f].agent = a
           /\ req'[f].pc = IF ev = "fb_heartbeat" THEN "renew" ELSE "redis"
           /\ \A g \in FBs \ {f} : req'[g] = req[g]
<1> DEFINE r == [pc |-> IF ev = "fb_heartbeat" THEN "renew" ELSE "redis",
                 ev |-> ev, agent |-> a, dev |-> "absent"]
<1>1. req' = [req EXCEPT ![f] = r]
  BY DEF Post, CallsSucceed
<1>2. r.ev = ev /\ r.agent = a /\ r.pc = IF ev = "fb_heartbeat" THEN "renew" ELSE "redis"
  OBVIOUS
<1> HIDE DEF r
<1> QED BY <1>1, <1>2

\* How a handler goes on: its event and its agent stay the same, and it does not
\* come to the document before Redis.
LEMMA HandlerFields ==
    ASSUME req \in [FBs -> Request], NEW f \in FBs, Handler(f)
    PROVE  /\ \A g \in FBs \ {f} : req'[g] = req[g]
           /\ \/ req'[f].pc = "idle" /\ req'[f].ev = "fb_heartbeat"
              \/ /\ req'[f].ev = req[f].ev /\ req'[f].agent = req[f].agent
                 /\ req[f].pc # "idle" /\ req'[f].pc \in {"renew", "find", "write"}
           /\ Touch(f) => req'[f].pc = "renew"
           /\ Remove(f) => req'[f].pc = "find"
           /\ RenewFB(f) /\ req[f].ev # "fb_heartbeat" => req'[f].pc = "find"
           /\ FindByAgentID(f) /\ Writes(req[f].ev, device[req[f].agent]) => req'[f].pc = "write"
<1> DEFINE r == req[f]
<1>1. r \in Request
  OBVIOUS
<1>2. \A p \in {"renew", "find"} :
        LET n == [r EXCEPT !.pc = p] IN n.ev = r.ev /\ n.agent = r.agent /\ n.pc = p
  BY <1>1 DEF Request
<1>3. \A s : LET n == [r EXCEPT !.pc = "write", !.dev = s]
             IN  n.ev = r.ev /\ n.agent = r.agent /\ n.pc = "write"
  BY <1>1 DEF Request
<1>4. CASE Touch(f) \/ Remove(f)
  <2>1. PICK p \in {"renew", "find"} : /\ req' = [req EXCEPT ![f] = [r EXCEPT !.pc = p]]
                                       /\ Touch(f) => p = "renew"
                                       /\ Remove(f) => p = "find"
    BY <1>4 DEF Touch, Remove
  <2>2. r.pc = "redis" /\ ~RenewFB(f) /\ ~FindByAgentID(f)
    BY <1>4 DEF Touch, Remove, RenewFB, FindByAgentID
  <2>3. req'[f] = [r EXCEPT !.pc = p] /\ \A g \in FBs \ {f} : req'[g] = req[g]
    BY <2>1
  <2> QED BY <1>2, <2>1, <2>2, <2>3
<1>5. CASE RenewFB(f)
  <2>1. r.pc = "renew" /\ ~Touch(f) /\ ~Remove(f) /\ ~FindByAgentID(f)
    BY <1>5 DEF Touch, Remove, RenewFB, FindByAgentID
  <2>2. /\ req'[f] = IF r.ev = "fb_heartbeat" THEN Idle ELSE [r EXCEPT !.pc = "find"]
        /\ \A g \in FBs \ {f} : req'[g] = req[g]
    BY <1>5 DEF RenewFB
  <2> QED BY <1>2, <2>1, <2>2, IdleOK
<1>6. CASE FindByAgentID(f)
  <2>1. r.pc = "find" /\ ~Touch(f) /\ ~Remove(f) /\ ~RenewFB(f)
    BY <1>6 DEF Touch, Remove, RenewFB, FindByAgentID
  <2>2. /\ req'[f] = IF Writes(r.ev, device[r.agent])
                     THEN [r EXCEPT !.pc = "write", !.dev = device[r.agent]] ELSE Idle
        /\ \A g \in FBs \ {f} : req'[g] = req[g]
    BY <1>6 DEF FindByAgentID
  <2> QED BY <1>3, <2>1, <2>2, IdleOK
<1>7. CASE UpdateDevice(f)
  <2>1. r.pc = "write" /\ ~Touch(f) /\ ~Remove(f) /\ ~RenewFB(f) /\ ~FindByAgentID(f)
    BY <1>7 DEF Touch, Remove, RenewFB, FindByAgentID, UpdateDevice
  <2>2. req'[f] = Idle /\ \A g \in FBs \ {f} : req'[g] = req[g]
    BY <1>7 DEF UpdateDevice
  <2> QED BY <2>1, <2>2, IdleOK
<1> QED BY <1>4, <1>5, <1>6, <1>7 DEF Handler

\* What the steps of the service that are not handlers leave alone.
LEMMA ServiceFrame ==
    ASSUME GC \/ \E f \in FBs : LeaseExpires(f)
    PROVE  UNCHANGED <<req, life, session, cached, dirty>>
BY DEF GC, GcScan, GcCheck, AgentsForFB, TenantForAgentKey, BulkRemove, BulkOfflineByAgentKeys,
       DeleteFBSet, GcDone, LeaseExpires, gwVars

\* What Touched(f, a) depends on.
LEMMA TouchedFrame ==
    ASSUME NEW f \in FBs, NEW a \in Agents, Touched(f, a), cached'[f][a] = cached[f][a],
           req'[f] = req[f], owned'[f] = owned[f], life'[f] = life[f]
    PROVE  Touched(f, a)'
BY DEF Touched, Handles, Busy

\* The handlers keep OwnedAfterTouch: Touch adds the agent before its document
\* is written, and Remove follows the disconnect in the cache.
LEMMA HandlerTouched ==
    ASSUME TypeOK, NEW f \in FBs, Handler(f), NEW a \in Agents, Touched(f, a)
    PROVE  Touched(f, a)'
<1>1. /\ req \in [FBs -> Request] /\ owned \in [FBs -> SUBSET Agents]
      /\ cached' = cached /\ life' = life
  BY DEF TypeOK, Handler, Touch, Remove, RenewFB, FindByAgentID, UpdateDevice, gwVars
<1>2. \/ req'[f].pc = "idle" /\ req'[f].ev = "fb_heartbeat"
      \/ /\ req'[f].ev = req[f].ev /\ req'[f].agent = req[f].agent
         /\ req[f].pc # "idle" /\ req'[f].pc \in {"renew", "find", "write"}
  BY <1>1, HandlerFields
<1>3. CASE Touch(f)
  BY <1>1, <1>2, <1>3 DEF Touch, Touched, Handles, Busy
<1>4. CASE Remove(f)
  BY <1>1, <1>2, <1>4 DEF Remove, Touched, Handles, Busy
<1>5. CASE RenewFB(f) \/ FindByAgentID(f) \/ UpdateDevice(f)
  <2>1. owned' = owned /\ req[f].pc # "redis"
    BY <1>5 DEF RenewFB, FindByAgentID, UpdateDevice
  <2> QED BY <1>1, <1>2, <2>1 DEF Touched, Handles, Busy
<1> QED BY <1>3, <1>4, <1>5 DEF Handler

\* Every step keeps OwnedAfterTouch.
LEMMA NextOwnedAfterTouch ==
    ASSUME CallsSucceed, HandedOn, [Next]_vars
    PROVE  OwnedAfterTouch'
<1> SUFFICES ASSUME NEW g \in FBs, NEW b \in Agents PROVE Touched(g, b)'
  BY DEF OwnedAfterTouch
<1>1. TypeOK /\ Touched(g, b) /\ SweepSound /\ misjudged = {}
  BY DEF HandedOn, TypeInv, OwnedAfterTouch
<1>2. /\ req \in [FBs -> Request] /\ owned \in [FBs -> SUBSET Agents]
      /\ life \in [FBs -> {"up", "down"}] /\ cached \in [FBs -> [Agents -> Status]]
  BY <1>1 DEF TypeOK
<1>3. ASSUME NEW f \in FBs, NEW ev, NEW a \in Agents, ev # "fb_heartbeat", Free(f), Post(f, ev, a),
             owned' = owned, life' = life, \A c \in FBs \ {f} : cached'[c] = cached[c],
             cached'[f][b] = IF b = a /\ ev = "connect" THEN "online"
                             ELSE IF b = a /\ ev = "disconnect" THEN "offline"
                             ELSE cached[f][b]
      PROVE  Touched(g, b)'
  <2>1. /\ req'[f].ev = ev /\ req'[f].agent = a /\ req'[f].pc = "redis"
        /\ \A c \in FBs \ {f} : req'[c] = req[c]
    BY <1>2, <1>3, PostFields
  <2>2. CASE f # g
    BY <1>1, <1>3, <2>1, <2>2, TouchedFrame
  <2>3. CASE f = g
    BY <1>1, <1>3, <2>1, <2>3 DEF Touched, Handles, Busy, Free
  <2> QED BY <2>2, <2>3
<1>4. ASSUME NEW f \in FBs, NEW a \in Agents, Connect(f, a) PROVE Touched(g, b)'
  BY <1>2, <1>3, <1>4 DEF Connect
<1>5. ASSUME NEW f \in FBs, NEW a \in Agents, Disconnect(f, a) PROVE Touched(g, b)'
  <2>1. CASE cached[f][a] = "online"
    BY <1>2, <1>3, <1>5, <2>1 DEF Disconnect
  <2>2. CASE cached[f][a] # "online"
    BY <1>1, <1>5, <2>2, TouchedFrame DEF Disconnect
  <2> QED BY <2>1, <2>2
<1>6. ASSUME NEW f \in FBs, NEW a \in Agents, NEW due \in BOOLEAN, Heartbeat(f, a, due)
      PROVE  Touched(g, b)'
  BY <1>2, <1>3, <1>6 DEF Heartbeat
<1>7. ASSUME NEW f \in FBs, FbLeaseCollect(f) PROVE Touched(g, b)'
  <2>1. req'[f].ev = "fb_heartbeat" /\ \A c \in FBs \ {f} : req'[c] = req[c]
    BY <1>2, <1>7, PostFields DEF FbLeaseCollect
  <2>2. UNCHANGED <<owned, life, cached>> /\ Free(f)
    BY <1>7 DEF FbLeaseCollect, gwVars
  <2> QED BY <1>1, <2>1, <2>2 DEF Touched, Handles, Busy, Free
<1>9. ASSUME NEW f \in FBs, Crash(f) PROVE Touched(g, b)'
  BY <1>1, <1>2, <1>9 DEF Crash, Touched, Handles, Busy
<1>10. ASSUME NEW f \in FBs, Handler(f) PROVE Touched(g, b)'
  <2>1. CASE f = g
    BY <1>1, <1>10, <2>1, HandlerTouched
  <2>2. CASE f # g
    <3>1. UNCHANGED <<cached, life>> /\ owned'[g] = owned[g]
      BY <1>2, <1>10, <2>2
         DEF Handler, Touch, Remove, RenewFB, FindByAgentID, UpdateDevice, gwVars
    <3>2. req'[g] = req[g]
      BY <1>2, <1>10, <2>2, HandlerFields
    <3> QED BY <1>1, <3>1, <3>2, TouchedFrame
  <2> QED BY <2>1, <2>2
<1>11. CASE DeleteFBSet
  <2>1. UNCHANGED <<cached, life, req>> /\ gcFb \in gcDead
    BY <1>1, <1>11 DEF DeleteFBSet, gwVars, SweepSound, Sweeping
  <2>2. CASE g = gcFb
    <3>1. life[g] = "down" /\ ~Busy(g)
      BY <1>1, <2>1, <2>2 DEF SweepSound, Silent, Busy
    <3> QED BY <1>1, <2>1, <3>1 DEF Touched, Handles, Busy
  <2>3. CASE g # gcFb
    <3>1. owned'[g] = owned[g]
      BY <1>2, <1>11, <2>3 DEF DeleteFBSet
    <3> QED BY <1>1, <2>1, <3>1, TouchedFrame
  <2> QED BY <2>2, <2>3
<1>12. CASE UNCHANGED <<cached, life, req, owned>>
  BY <1>1, <1>12, TouchedFrame
<1>13. ASSUME GC, ~DeleteFBSet PROVE UNCHANGED <<cached, life, req, owned>>
  BY <1>13 DEF GC, GcScan, GcCheck, AgentsForFB, TenantForAgentKey, BulkRemove,
     BulkOfflineByAgentKeys, GcDone, gwVars
<1>14. ASSUME \/ UNCHANGED vars \/ \E a \in Agents : Leave(a)
              \/ \E f \in FBs : Flush(f) \/ LeaseExpires(f)
       PROVE  UNCHANGED <<cached, life, req, owned>>
  BY <1>14 DEF vars, gwVars, Leave, Flush, LeaseExpires
<1>15. ~ServiceRestart /\ \A f \in FBs : ~DbError(f)
  BY DEF ServiceRestart, DbError, CallsSucceed
<1> QED BY <1>4, <1>5, <1>6, <1>7, <1>9, <1>10, <1>11, <1>12, <1>13, <1>14, <1>15
        DEF Next

\* An agent in the set of an instance that is not held for dead will be swept.
LEMMA FreshSweep ==
    ASSUME SweepSound, NEW f \in FBs, f \notin gcDead, NEW a \in owned[f]
    PROVE  WillSweep(f, a)
BY DEF SweepSound, Sweeping, WillSweep

\* Someone who will set a offline stays so while the GC stands still, the sets
\* keep a and the handlers of "disconnect" go on.
LEMMA KeptReachable ==
    ASSUME NEW a \in Agents, \E f \in FBs : WillSweep(f, a) \/ WillWrite(f, a),
           UNCHANGED gcVars,
           \A f \in FBs : a \in owned[f] => a \in owned'[f],
           \A f \in FBs : WillWrite(f, a) => WillWrite(f, a)'
    PROVE  \E f \in FBs : WillSweep(f, a)' \/ WillWrite(f, a)'
BY DEF WillSweep, gcVars

\* The gateways keep every online device within somebody's reach: what Flush
\* writes as online is in the set of its instance.
LEMMA GatewayReachable ==
    ASSUME CallsSucceed, HandedOn, NEW f \in FBs,
           \/ Crash(f) \/ FbLeaseCollect(f) \/ Flush(f) \/ LeaseExpires(f)
           \/ \E a \in Agents : \/ Connect(f, a)
                                \/ Disconnect(f, a)
                                \/ \E due \in BOOLEAN : Heartbeat(f, a, due)
    PROVE  Reachable'
<1> SUFFICES ASSUME NEW b \in Agents, device'[b] = "online"
             PROVE  \E c \in FBs : WillSweep(c, b)' \/ WillWrite(c, b)'
  BY DEF Reachable
<1>1. TypeOK /\ SweepSound /\ misjudged = {} /\ Touched(f, b) /\ req \in [FBs -> Request]
  BY DEF HandedOn, TypeInv, TypeOK, OwnedAfterTouch
<1>2. device[b] = "online" => \E c \in FBs : WillSweep(c, b) \/ WillWrite(c, b)
  BY DEF HandedOn, Reachable
<1>3. owned' = owned /\ UNCHANGED gcVars
  BY DEF Crash, FbLeaseCollect, Flush, LeaseExpires, Connect, Disconnect, Heartbeat
<1>4. \A c \in FBs : WillWrite(c, b) => WillWrite(c, b)'
  <2>1. CASE UNCHANGED req
    BY <2>1 DEF WillWrite, Handles, Busy
  <2>2. ASSUME NEW ev, NEW a, Free(f), Post(f, ev, a)
        PROVE  \A c \in FBs : WillWrite(c, b) => WillWrite(c, b)'
    <3>1. \A c \in FBs \ {f} : req'[c] = req[c]
      BY <1>1, <2>2, PostFields
    <3>2. ~WillWrite(f, b)
      BY <2>2 DEF Free, WillWrite, Handles, Busy
    <3> QED BY <3>1, <3>2 DEF WillWrite, Handles, Busy
  <2> QED BY <2>1, <2>2 DEF Crash, FbLeaseCollect, Flush, LeaseExpires,
             Connect, Disconnect, Heartbeat
<1>5. CASE device[b] = "online"
  BY <1>2, <1>3, <1>4, <1>5, KeptReachable
<1>6. CASE device[b] # "online"
  <2>1. Flush(f)
    BY <1>6 DEF Crash, FbLeaseCollect, LeaseExpires, Connect, Disconnect, Heartbeat
  <2>2. cached[f][b] = "online" /\ Free(f)
    BY <1>6, <2>1 DEF Flush
  <2>3. b \in owned[f] /\ f \notin gcDead
    BY <1>1, <2>2 DEF Touched, Handles, Busy, Free, SweepSound, Silent
  <2>4. WillSweep(f, b)
    BY <1>1, <2>3, FreshSweep
  <2> QED BY <1>3, <1>4, <2>4, KeptReachable
<1> QED BY <1>5, <1>6

\* The handlers keep every online device within reach: a "connect" writes after
\* Touch, and a "disconnect" that has emptied the set goes on to the document.
LEMMA HandlerReachable ==
    ASSUME CallsSucceed, HandedOn, NEW f \in FBs, Handler(f)
    PROVE  Reachable'
<1> SUFFICES ASSUME NEW b \in Agents, device'[b] = "online"
             PROVE  \E c \in FBs : WillSweep(c, b)' \/ WillWrite(c, b)'
  BY DEF Reachable
<1> DEFINE a == req[f].agent
<1>1. /\ TypeOK /\ ReqOK /\ SweepSound /\ misjudged = {} /\ Touched(f, b)
      /\ req \in [FBs -> Request] /\ owned \in [FBs -> SUBSET Agents]
      /\ device \in [Agents -> Status]
  BY DEF HandedOn, TypeInv, TypeOK, OwnedAfterTouch
<1>2. device[b] = "online" => \E c \in FBs : WillSweep(c, b) \/ WillWrite(c, b)
  BY DEF HandedOn, Reachable
<1>3. UNCHANGED gcVars
  BY DEF Handler, Touch, Remove, RenewFB, FindByAgentID, UpdateDevice
<1>4. \A c \in FBs \ {f} : WillWrite(c, b) => WillWrite(c, b)'
  BY <1>1, HandlerFields DEF WillWrite, Handles, Busy
<1>5. CASE Touch(f) \/ RenewFB(f)
  <2>1. ~WillWrite(f, b) /\ device' = device
    BY <1>5 DEF Touch, RenewFB, WillWrite, Handles
  <2>2. \A c \in FBs : b \in owned[c] => b \in owned'[c]
    BY <1>1, <1>5 DEF Touch, RenewFB
  <2> QED BY <1>2, <1>3, <1>4, <2>1, <2>2, KeptReachable
<1>6. CASE Remove(f)
  <2>1. CASE b = a
    <3>1. WillWrite(f, b)'
      BY <1>1, <1>6, <2>1, HandlerFields DEF Remove, WillWrite, Handles, Busy
    <3> QED BY <3>1
  <2>2. CASE b # a
    <3>1. ~WillWrite(f, b) /\ device' = device
      BY <1>6 DEF Remove, WillWrite
    <3>2. \A c \in FBs : b \in owned[c] => b \in owned'[c]
      BY <1>1, <1>6, <2>2 DEF Remove
    <3> QED BY <1>2, <1>3, <1>4, <3>1, <3>2, KeptReachable
  <2> QED BY <2>1, <2>2
<1>7. CASE FindByAgentID(f)
  <2>1. device' = device /\ owned' = owned
    BY <1>7 DEF FindByAgentID
  <2>2. ASSUME WillWrite(f, b) PROVE WillWrite(f, b)'
    <3>1. req[f].ev = "disconnect" /\ a = b
      BY <2>2 DEF WillWrite, Handles
    <3>2. Writes(req[f].ev, device[a])
      BY <2>1, <3>1 DEF Writes
    <3> QED BY <1>1, <1>7, <3>1, <3>2, HandlerFields DEF WillWrite, Handles, Busy
  <2> QED BY <1>2, <1>3, <1>4, <2>1, <2>2, KeptReachable
<1>8. CASE UpdateDevice(f)
  <2>1. /\ owned' = owned /\ a \in Agents /\ req[f].pc = "write"
        /\ device' = [device EXCEPT ![a] = Written(req[f])]
        /\ req[f].ev \in AgentEvent
    BY <1>1, <1>8 DEF UpdateDevice, ReqOK, Request
  <2>2. CASE b # a
    <3>1. ~WillWrite(f, b) /\ device'[b] = device[b]
      BY <1>1, <2>1, <2>2 DEF WillWrite, Handles
    <3> QED BY <1>2, <1>3, <1>4, <2>1, <3>1, KeptReachable
  <2>3. CASE b = a /\ req[f].ev = "connect"
    <3>1. Handles(f, "connect", b)
      BY <2>1, <2>3 DEF Handles, Busy
    <3>2. b \in owned[f] /\ f \notin gcDead
      BY <1>1, <2>1, <3>1 DEF Touched, Handles, Busy, SweepSound, Silent
    <3>3. WillSweep(f, b)
      BY <1>1, <3>2, FreshSweep
    <3>4. ~WillWrite(f, b)
      BY <2>3 DEF WillWrite, Handles
    <3> QED BY <1>3, <1>4, <2>1, <3>3, <3>4, KeptReachable
  <2>4. CASE b = a /\ req[f].ev = "disconnect"
    BY <1>1, <2>1, <2>4 DEF Written
  <2>5. CASE b = a /\ req[f].ev = "heartbeat"
    <3>1. ~WillWrite(f, b) /\ device'[b] = device[b]
      BY <1>1, <2>1, <2>5 DEF WillWrite, Handles, Written
    <3> QED BY <1>2, <1>3, <1>4, <2>1, <3>1, KeptReachable
  <2> QED BY <2>1, <2>2, <2>3, <2>4, <2>5 DEF AgentEvent
<1> QED BY <1>5, <1>6, <1>7, <1>8 DEF Handler

\* The GC keeps every online device within reach: it deletes a set only after
\* each of its agents that has a document has been written.
LEMMA GcReachable ==
    ASSUME CallsSucceed, HandedOn, GC
    PROVE  Reachable'
<1> SUFFICES ASSUME NEW b \in Agents, device'[b] = "online"
             PROVE  \E c \in FBs : WillSweep(c, b)' \/ WillWrite(c, b)'
  BY DEF Reachable
<1>1. TypeOK /\ owned \in [FBs -> SUBSET Agents] /\ device \in [Agents -> Status]
  BY DEF HandedOn, TypeInv, TypeOK
<1>2. device[b] = "online"
  BY <1>1 DEF GC, GcScan, GcCheck, AgentsForFB, TenantForAgentKey, BulkRemove,
     BulkOfflineByAgentKeys, DeleteFBSet, GcDone
<1>3. PICK c \in FBs : WillSweep(c, b) \/ WillWrite(c, b)
  BY <1>2 DEF HandedOn, Reachable
<1>4. CASE WillWrite(c, b)
  <2>1. WillWrite(c, b)'
    BY <1>4, ServiceFrame DEF WillWrite, Handles, Busy
  <2> QED BY <2>1
<1>5. CASE WillSweep(c, b)
  <2>1. CASE GcScan
    BY <1>5, <2>1 DEF GcScan, WillSweep
  <2>2. ASSUME NEW f \in FBs, GcCheck(f) PROVE WillSweep(c, b)'
    BY <1>5, <2>2 DEF GcCheck, WillSweep
  <2>3. ASSUME NEW f \in FBs, AgentsForFB(f) PROVE WillSweep(c, b)'
    BY <1>5, <2>3 DEF AgentsForFB, WillSweep
  <2>4. ASSUME NEW a \in Agents, TenantForAgentKey(a) PROVE WillSweep(c, b)'
    BY <1>2, <1>5, <2>4 DEF TenantForAgentKey, WillSweep, CallsSucceed
  <2>5. CASE BulkRemove
    BY <1>5, <2>5 DEF BulkRemove, WillSweep
  <2>6. CASE BulkOfflineByAgentKeys
    <3>1. b \notin gcKeys
      BY <1>2, <2>6 DEF BulkOfflineByAgentKeys, CallsSucceed
    <3> QED BY <1>5, <2>6, <3>1 DEF BulkOfflineByAgentKeys, WillSweep
  <2>7. CASE DeleteFBSet
    BY <1>1, <1>5, <2>7 DEF DeleteFBSet, WillSweep
  <2>8. CASE GcDone
    BY <1>5, <2>8 DEF GcDone, WillSweep
  <2> QED BY <2>1, <2>2, <2>3, <2>4, <2>5, <2>6, <2>7, <2>8 DEF GC
<1> QED BY <1>3, <1>4, <1>5

\* Every step keeps every online device within somebody's reach.
LEMMA NextReachable ==
    ASSUME CallsSucceed, HandedOn, [Next]_vars
    PROVE  Reachable'
<1>1. CASE UNCHANGED vars \/ \E a \in Agents : Leave(a)
  <2>1. UNCHANGED <<req, owned, device, gcVars>>
    BY <1>1 DEF vars, Leave
  <2> QED BY <2>1 DEF HandedOn, Reachable, WillSweep, WillWrite, Handles, Busy, gcVars
<1>2. ~ServiceRestart /\ \A f \in FBs : ~DbError(f)
  BY DEF ServiceRestart, DbError, CallsSucceed
<1> QED BY <1>1, <1>2, GatewayReachable, HandlerReachable, GcReachable DEF Next

\* No device is left online for ever, for any agents that move between any
\* number of instances that crash at any moment, with late closes, with leases
\* that are missing at first or lapse, and with the handlers, the flushes and the
\* sweeps interleaved call by call, as long as the GC has taken no live instance
\* for dead.  A lost event, a failing call or a restart of the service breaks it,
\* which is why CallsSucceed excludes them.
THEOREM NoOrphanOnlineAlways == CallsSucceed /\ Spec => []NoOrphanOnline
<1>1. Init => OrphanInv
  BY InitOrphanInv
<1>2. CallsSucceed /\ OrphanInv /\ [Next]_vars => OrphanInv'
  <2> SUFFICES ASSUME CallsSucceed, OrphanInv, [Next]_vars PROVE OrphanInv'
    OBVIOUS
  <2>1. TypeInv' /\ SweepSound'
    BY NextTypeInv, NextSweepSound DEF OrphanInv
  <2>2. ASSUME misjudged' = {} PROVE OwnedAfterTouch' /\ Reachable'
    <3>1. HandedOn
      BY <2>2, DeadFound DEF OrphanInv, HandedOn
    <3> QED BY <3>1, NextOwnedAfterTouch, NextReachable
  <2> QED BY <2>1, <2>2 DEF OrphanInv
<1>3. OrphanInv => NoOrphanOnline
  BY DEF OrphanInv, Reachable, WillSweep, WillWrite, Handles, Busy, NoOrphanOnline, CanGoOffline
<1>4. CASE CallsSucceed
  <2>1. OrphanInv /\ [Next]_vars => OrphanInv'
    BY <1>2, <1>4
  <2> QED BY <1>1, <2>1, <1>3, PTL DEF Spec
<1>5. CASE ~CallsSucceed
  BY <1>5
<1> QED BY <1>4, <1>5
==============================================================================
