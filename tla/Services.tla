------------------------------ MODULE Services ------------------------------
(***************************************************************************)
(* The services of one application: registering, updating and deleting     *)
(* them (mp1/plans), their heartbeats and the check for late ones          *)
(* (heartbeat.go), their deletion when the application is terminated       *)
(* (mm5/plans/app_instance_termination.go), and the entries of the API     *)
(* gateway through which they are reached (serviceinfo.go, apigwutil.go).  *)
(* Every request reads the instance, changes the gateway, and writes the   *)
(* instance back as a whole; nothing keeps two of them apart.              *)
(*                                                                         *)
(* The service center and its etcd are external: an instance is written    *)
(* only while it exists.  Of the properties of an instance the model keeps *)
(* the gateway names of its endpoints, the state and the heartbeat.  No    *)
(* request reads the gateway, so its calls are part of the step before     *)
(* the write that follows them.                                            *)
(***************************************************************************)
EXTENDS Naturals, FiniteSets, Functions

CONSTANTS
  Instances,         \* instance ids
  Uris,              \* endpoints an application may give
  Names,             \* names of gateway services
  Requests,          \* requests under way
  Bodies,            \* what they may ask for, of AllBodies
  ServicesMaxCount,
  ServiceFaults,     \* failures that may happen: "store", "gateway"
  MaxFaults,         \* bound: how many
  MaxAstray,         \* bound: no new request with so many names astray
  Alternative,       \* endpoints described in another way
  NoInstance, NoName

\* URIs (or addresses), an alternative, or no endpoint at all; the state, and
\* whether heartbeats will be sent.
AllBodies == [endpoint : (SUBSET Uris) \cup {{Alternative}},
              state : {"ACTIVE", "INACTIVE"}, live : BOOLEAN]

ASSUME ServicesAssumption ==
  /\ ServicesMaxCount \in Nat \ {0} /\ MaxFaults \in Nat /\ MaxAstray \in Nat
  /\ ServiceFaults \subseteq {"store", "gateway"}
  /\ Bodies \subseteq AllBodies
  /\ {NoName, Alternative} \cap Names = {} /\ Alternative \notin Uris

VARIABLES
  inst,    \* the instances in etcd
  gw,      \* names with a service and a route on the gateway
  req,     \* the requests
  check,   \* what the heartbeat check has read and not looked at yet
  astray,  \* names a failure, or a write over another write, has cut loose
  faults

vars == <<inst, gw, req, check, astray, faults>>

States == {"ACTIVE", "INACTIVE", "SUSPENDED"}
\* late: the timestamp is older than BufferHeartbeatInterval allows.
Properties == [eps : [Uris -> Names \cup {NoName}], mecState : States,
               live : BOOLEAN, late : BOOLEAN]
InstanceInfo == [props : Properties, endpoints : SUBSET (Names \cup {Alternative})]

\* NoInstance is no instance, and there is only so much of everything.
ASSUME StoreAssumption ==
  /\ NoInstance \notin InstanceInfo
  /\ IsFiniteSet(Instances) /\ IsFiniteSet(Uris) /\ IsFiniteSet(Names) /\ IsFiniteSet(Requests)

\* The gateway names among the properties, and (GetApiGwSerName) those that the
\* published endpoints end with.
EpNames(p) == Range(p.eps) \ {NoName}
ApiGwSerNames(x) == x.endpoints \cap Names
NamesOf(x) == EpNames(x.props) \cup ApiGwSerNames(x)
Present == {i \in Instances : inst[i] # NoInstance}
Idle == [pc |-> "idle"]
At(pcs) == {r \in Requests : req[r].pc \in pcs}

\* Names in the store, on the gateway, or in the hands of a request: they are
\* random, and so no other is taken twice.
InUse == UNION (
  {gw, astray} \cup {NamesOf(inst[i]) : i \in Present}
  \cup {NamesOf(check[i]) : i \in {j \in Instances : check[j] # NoInstance}}
  \cup {NamesOf(req[r].new) : r \in At({"register", "props", "update"})}
  \cup {NamesOf(req[r].base) : r \in At({"update", "delete", "beat"})}
  \cup {UNION Range(req[r].list) : r \in At({"terminate"})})

Fault(k) == k \in ServiceFaults /\ faults < MaxFaults /\ faults' = faults + 1
Become(r, x) == req' = [req EXCEPT ![r] = x]

\* The instance as a request keeps it; nobody looks at the timestamp again.
Read(i) == [inst[i] EXCEPT !.props.late = FALSE]

\* A gateway call that fails is only logged (apigwutil.go).
Gateway(add, del) ==
  \/ gw' = (gw \cup add) \ del /\ UNCHANGED <<astray, faults>>
  \/ \E n \in add \cup del :
       /\ Fault("gateway")
       /\ gw' = (gw \cup (add \ {n})) \ (del \ {n})
       /\ astray' = astray \cup {n}

\* A write replaces what is there, which may no longer be what was read.
Overwrite(i, base, info) ==
  /\ inst' = [inst EXCEPT ![i] = info]
  /\ astray' = IF inst[i].props.eps = base.props.eps /\ inst[i].endpoints = base.endpoints
               THEN astray
               ELSE astray \cup UNION {NamesOf(x) : x \in {inst[i], base, info}}

\* InstanceAPI.UpdateInstanceProperties, which may fail.
UpdateProperties(i, base, p) ==
  \/ /\ IF i \in Present THEN Overwrite(i, base, [inst[i] EXCEPT !.props = p])
                         ELSE UNCHANGED <<inst, astray>>
     /\ UNCHANGED faults
  \/ Fault("store") /\ UNCHANGED <<inst, astray>>
----------------------------------------------------------------------------
(* GenerateRegisterInstance: the instance a body describes.                *)

Fresh(uris) == CHOOSE f \in [uris -> Names \ InUse] : IsInjective(f)

\* compareEndPointsWithDB: an endpoint that is there keeps its name, others
\* get new ones, and the names of the rest are dropped.  Alternative endpoints
\* leave the names as they are.
Endpoints(body, eps) ==
  LET new == {u \in body.endpoint : eps[u] = NoName}
  IN IF body.endpoint = {Alternative} THEN eps
     ELSE [u \in Uris |-> IF u \in new THEN Fresh(new)[u]
                          ELSE IF u \in body.endpoint THEN eps[u] ELSE NoName]

Generate(body, old) ==
  LET eps == Endpoints(body, old)
  IN [props |-> [eps |-> eps, mecState |-> body.state, live |-> body.live, late |-> FALSE],
      endpoints |-> IF body.endpoint = {Alternative} THEN {Alternative}
                    ELSE Range(eps) \ {NoName}]

NoEps == [u \in Uris |-> NoName]

\* Bounds: there are names left to choose from; and once so many are astray,
\* only what is under way goes on.
Room == Cardinality(Names \ InUse) >= Cardinality(Uris)
Followed == Cardinality(astray) < MaxAstray
----------------------------------------------------------------------------
(* POST services: RegisterLimit, RegisterServiceId, RegisterServiceInst.   *)

\* Mutant: one more than the limit.
RegisterOneMore(r, body) ==
  LET new == Generate(body, NoEps) IN
  /\ req[r] = Idle /\ Followed /\ Room
  /\ Cardinality(Present) <= ServicesMaxCount
  /\ Gateway(EpNames(new.props), {})
  /\ Become(r, [pc |-> "register", new |-> new])
  /\ UNCHANGED <<inst, check>>

\* Up to RegisterToApiGw: the limit, and the gateway entries.
Register(r, body) ==
  LET new == Generate(body, NoEps) IN
  /\ req[r] = Idle /\ Followed /\ Room
  /\ Cardinality(Present) < ServicesMaxCount
  /\ Gateway(EpNames(new.props), {})
  /\ Become(r, [pc |-> "register", new |-> new])
  /\ UNCHANGED <<inst, check>>

\* InstanceAPI.Register.  After a failure the gateway entries stay.
RegisterInstance(r) ==
  LET new == req[r].new IN
  /\ req[r].pc = "register"
  /\ \/ \E i \in Instances \ Present :
          /\ inst' = [inst EXCEPT ![i] = new]
          /\ Become(r, [pc |-> "props", id |-> i, new |-> new])
          /\ UNCHANGED <<astray, faults>>
     \/ /\ Fault("store") /\ Become(r, Idle)
        /\ astray' = astray \cup EpNames(new.props)
        /\ UNCHANGED inst
  /\ UNCHANGED <<gw, check>>

\* The properties are written once more, with the link of the heartbeat.
RegisterProperties(r) ==
  /\ req[r].pc = "props"
  /\ UpdateProperties(req[r].id, req[r].new, req[r].new.props)
  /\ Become(r, Idle)
  /\ UNCHANGED <<gw, check>>
----------------------------------------------------------------------------
(* PUT services/{id}: UpdateInstance.                                      *)

\* Mutant: an update makes no entries on the gateway.
UpdateNoEntries(r, i, body) ==
  LET new == Generate(body, inst[i].props.eps) IN
  /\ req[r] = Idle /\ Followed /\ Room
  /\ i \in Present
  /\ Gateway({}, EpNames(inst[i].props) \ EpNames(new.props))
  /\ Become(r, [pc |-> "update", id |-> i, base |-> Read(i), new |-> new])
  /\ UNCHANGED <<inst, check>>

\* handleEndPointUri makes the new entries and cleans up the old ones.
Update(r, i, body) ==
  LET new == Generate(body, inst[i].props.eps) IN
  /\ req[r] = Idle /\ Followed /\ Room
  /\ i \in Present
  /\ Gateway(EpNames(new.props) \ EpNames(inst[i].props),
             EpNames(inst[i].props) \ EpNames(new.props))
  /\ Become(r, [pc |-> "update", id |-> i, base |-> Read(i), new |-> new])
  /\ UNCHANGED <<inst, check>>

\* svcutil.UpdateInstance writes properties and endpoints, if it can.
UpdateInstance(r) ==
  LET i == req[r].id
      before == EpNames(req[r].base.props)
      after == EpNames(req[r].new.props)
  IN /\ req[r].pc = "update"
     /\ \/ i \in Present /\ Overwrite(i, req[r].base, req[r].new) /\ UNCHANGED faults
        \/ /\ IF i \in Present THEN Fault("store") ELSE UNCHANGED faults
           /\ astray' = astray \cup (before \ after) \cup (after \ before)
           /\ UNCHANGED inst
     /\ Become(r, Idle)
     /\ UNCHANGED <<gw, check>>
----------------------------------------------------------------------------
(* DELETE services/{id}: the gateway first, then the instance.             *)

\* CleanUpApiGwEntry for every name among the properties.
Delete(r, i) ==
  /\ req[r] = Idle /\ Followed
  /\ i \in Present
  /\ Gateway({}, EpNames(inst[i].props))
  /\ Become(r, [pc |-> "delete", id |-> i, base |-> Read(i)])
  /\ UNCHANGED <<inst, check>>

Unregister(r) ==
  LET i == req[r].id
      cleaned == EpNames(req[r].base.props)
  IN /\ req[r].pc = "delete"
     /\ \/ /\ i \in Present
           /\ inst' = [inst EXCEPT ![i] = NoInstance]
           /\ astray' = astray \cup (EpNames(inst[i].props) \ cleaned)
           /\ UNCHANGED faults
        \/ i \notin Present /\ UNCHANGED <<inst, astray, faults>>
        \/ Fault("store") /\ astray' = astray \cup cleaned /\ UNCHANGED inst
     /\ Become(r, Idle)
     /\ UNCHANGED <<gw, check>>
----------------------------------------------------------------------------
(* Termination of the application: DeleteService of mm5.                   *)

Terminate(r) ==
  /\ req[r] = Idle /\ Followed
  /\ Present # {}
  /\ Become(r, [pc |-> "terminate", list |-> [i \in Present |-> ApiGwSerNames(inst[i])]])
  /\ UNCHANGED <<inst, gw, check, astray, faults>>

\* Mutant: the instance is unregistered and that is all.
TerminateNoCleanUp(r) ==
  /\ req[r].pc = "terminate"
  /\ \E i \in DOMAIN req[r].list \cap Present :
       /\ inst' = [inst EXCEPT ![i] = NoInstance]
       /\ Become(r, IF DOMAIN req[r].list = {i} THEN Idle
                    ELSE [req[r] EXCEPT !.list = Restrict(@, DOMAIN @ \ {i})])
  /\ UNCHANGED <<gw, check, astray, faults>>

\* An instance of the list is unregistered and its entries are cleaned up; the
\* first error ends it all.  The names come from the endpoints, not from the
\* properties: an instance with alternative endpoints leaves them behind.
TerminateOne(r) ==
  /\ req[r].pc = "terminate"
  /\ \E i \in DOMAIN req[r].list :
       LET names == req[r].list[i] IN
       \/ /\ i \in Present
          /\ inst' = [inst EXCEPT ![i] = NoInstance]
          /\ \E lost \in SUBSET names :
               /\ IF lost = {} THEN UNCHANGED faults ELSE Fault("gateway")
               /\ gw' = gw \ (names \ lost)
               /\ astray' = astray \cup (EpNames(inst[i].props) \ names) \cup lost
          /\ Become(r, IF DOMAIN req[r].list = {i} THEN Idle
                       ELSE [req[r] EXCEPT !.list = Restrict(@, DOMAIN @ \ {i})])
       \/ /\ IF i \in Present THEN Fault("store") ELSE UNCHANGED faults
          /\ Become(r, Idle)
          /\ UNCHANGED <<inst, gw, astray>>
  /\ UNCHANGED check
----------------------------------------------------------------------------
(* Heartbeats: PATCH .../liveness, and heartbeatProcess, which looks every *)
(* second at the instances that want one and are active.                   *)

BeatRead(r, i) ==
  /\ req[r] = Idle /\ Followed
  /\ i \in Present
  /\ inst[i].props.live /\ inst[i].props.mecState # "INACTIVE"
  /\ Become(r, [pc |-> "beat", id |-> i, base |-> Read(i)])
  /\ UNCHANGED <<inst, gw, check, astray, faults>>

\* All the properties that were read are written back.
BeatWrite(r) ==
  /\ req[r].pc = "beat"
  /\ UpdateProperties(req[r].id, req[r].base,
                      [req[r].base.props EXCEPT !.mecState = "ACTIVE", !.late = FALSE])
  /\ Become(r, Idle)
  /\ UNCHANGED <<gw, check>>

\* availableServiceForHeartbeat
CheckRead ==
  /\ \A i \in Instances : check[i] = NoInstance
  /\ check' = [i \in Instances |->
       IF i \in Present /\ inst[i].props.live /\ inst[i].props.mecState = "ACTIVE"
       THEN inst[i] ELSE NoInstance]
  /\ UNCHANGED <<inst, gw, req, astray, faults>>

\* Mutant: the state is written as "DOWN".
CheckOneDown(i) ==
  /\ check[i] # NoInstance
  /\ IF check[i].props.late
     THEN UpdateProperties(i, check[i], [check[i].props EXCEPT !.mecState = "DOWN"])
     ELSE UNCHANGED <<inst, astray, faults>>
  /\ check' = [check EXCEPT ![i] = NoInstance]
  /\ UNCHANGED <<gw, req>>

\* Mutant: nobody writes that an instance is late.
CheckOneNever(i) ==
  /\ check[i] # NoInstance
  /\ check' = [check EXCEPT ![i] = NoInstance]
  /\ UNCHANGED <<inst, gw, req, astray, faults>>

\* A late instance is suspended, with all the properties that were read.
CheckOne(i) ==
  /\ check[i] # NoInstance
  /\ \/ ~check[i].props.late /\ UNCHANGED <<inst, astray, faults>>
     \/ /\ check[i].props.late
        /\ UpdateProperties(i, check[i], [check[i].props EXCEPT !.mecState = "SUSPENDED"])
  /\ check' = [check EXCEPT ![i] = NoInstance]
  /\ UNCHANGED <<gw, req>>

\* Time passes BufferHeartbeatInterval after a timestamp; what the check has
\* read is at least as old as what is stored.  A registration is over by then.
Late(i) ==
  /\ i \in Present /\ inst[i].props.live /\ ~inst[i].props.late
  /\ \A r \in Requests : req[r].pc = "props" => req[r].id # i
  /\ check' = IF check[i] = NoInstance THEN check ELSE [check EXCEPT ![i].props.late = TRUE]
  /\ \/ inst' = [inst EXCEPT ![i].props.late = TRUE]
     \/ check # check' /\ check[i].props # inst[i].props /\ UNCHANGED inst
  /\ UNCHANGED <<gw, req, astray, faults>>
----------------------------------------------------------------------------
(* GET services: what an application that looks for services is told.      *)

\* fromEndpoints; alternative endpoints are parsed and then not passed on.
FromEndpoints(endpoints) == endpoints \cap Names

\* DiscoverService finds all instances, whatever their state; the answer may
\* have only those of them that the application requires.  The hook does not
\* replace the endpoints: its ticker is stopped before it ticks.
Discovered == [i \in Present |-> FromEndpoints(inst[i].endpoints)]
----------------------------------------------------------------------------
Init ==
  /\ inst = [i \in Instances |-> NoInstance]
  /\ gw = {}
  /\ req = [r \in Requests |-> Idle]
  /\ check = [i \in Instances |-> NoInstance]
  /\ astray = {}
  /\ faults = 0

Request(r) ==
  \/ \E body \in Bodies : Register(r, body) \/ \E i \in Present : Update(r, i, body)
  \/ \E i \in Instances : Delete(r, i) \/ BeatRead(r, i)
  \/ Terminate(r)

RequestStep(r) ==
  \/ RegisterInstance(r) \/ RegisterProperties(r) \/ UpdateInstance(r)
  \/ Unregister(r) \/ TerminateOne(r) \/ BeatWrite(r)

Next ==
  \/ \E r \in Requests : Request(r) \/ RequestStep(r)
  \/ CheckRead
  \/ \E i \in Instances : CheckOne(i) \/ Late(i)

\* Requests go on once they are accepted, and so does the heartbeat check.
Spec ==
  /\ Init /\ [][Next]_vars
  /\ \A r \in Requests : WF_vars(RequestStep(r))
  /\ WF_vars(CheckRead)
  /\ \A i \in Instances : WF_vars(CheckOne(i))
----------------------------------------------------------------------------
(* Properties.                                                             *)

\* The instances, the gateway and the requests keep their types.
TypeOK ==
  /\ inst \in [Instances -> InstanceInfo \cup {NoInstance}]
  /\ check \in [Instances -> InstanceInfo \cup {NoInstance}]
  /\ gw \subseteq Names /\ astray \subseteq Names
  /\ faults \in 0 .. MaxFaults

\* When no request is under way, the gateway has an entry for every endpoint
\* of every instance and no other: no request leaves an entry behind and none
\* takes one away that is still published, except for the names that a failed
\* call, a write over another one, or the termination of an instance with
\* alternative endpoints has cut loose.
GatewayMatches ==
  (\A r \in Requests : req[r] = Idle) =>
    gw \ astray = (UNION {EpNames(inst[i].props) : i \in Present}) \ astray

\* Whatever is under way, an endpoint that an application is told of can be
\* reached: registration and update make its gateway entry before they store
\* it, and it goes away only while the update or the deletion that drops it is
\* about to store that.  Excepted are, again, names cut loose.
DiscoveredReachable ==
  LET Dropped(i) == UNION {EpNames(req[r].base.props) : r \in
                             {q \in At({"update", "delete"}) : req[q].id = i}}
  IN \A i \in Present : Discovered[i] \subseteq gw \cup astray \cup Dropped(i)

\* Requests that register at the same time may each find room for one more:
\* the limit is exceeded by no more than there are other requests.
LimitNearlyHolds ==
  Cardinality(Present) + Cardinality(At({"register"}))
    <= ServicesMaxCount + Cardinality(Requests) - 1

\* A service that has to send heartbeats and does not is not seen as active
\* forever.
LateIsSuspended ==
  \A i \in Instances :
    (i \in Present /\ inst[i].props.live /\ inst[i].props.mecState = "ACTIVE" /\ inst[i].props.late)
    ~> ~(i \in Present /\ inst[i].props.live /\ inst[i].props.mecState = "ACTIVE" /\ inst[i].props.late)
=============================================================================
