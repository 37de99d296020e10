--------------------------- MODULE ServicesProofs ---------------------------
(***************************************************************************)
(* Proofs about Services: types, the limit, and the names that instances   *)
(* and the API gateway have in common, for any number of instances and     *)
(* requests.                                                               *)
(***************************************************************************)
EXTENDS Services, FiniteSetTheorems, FunctionTheorems, TLAPS

\* What a request keeps between its steps.
ReqTypes ==
  {Idle}
  \cup [pc : {"register"}, new : InstanceInfo]
  \cup [pc : {"props"}, id : Instances, new : InstanceInfo]
  \cup [pc : {"update"}, id : Instances, base : InstanceInfo, new : InstanceInfo]
  \cup [pc : {"delete", "beat"}, id : Instances, base : InstanceInfo]
  \cup [pc : {"terminate"}, list : UNION {[D -> SUBSET Names] : D \in SUBSET Instances}]

TypeInv == TypeOK /\ req \in [Requests -> ReqTypes]
----------------------------------------------------------------------------
(* Names.  n is a name; what is said of it holds until it goes astray.     *)

Has(i, n) == i \in Present /\ n \in EpNames(inst[i].props)

\* A request that holds n without any instance having it yet, ...
Makes(r, n) ==
  \/ req[r].pc = "register" /\ n \in EpNames(req[r].new.props)
  \/ /\ req[r].pc = "update"
     /\ n \in EpNames(req[r].new.props) \ EpNames(req[r].base.props)

\* ... and one that has found n at instance i and is about to drop it.
Bases(r, i, n) ==
  /\ req[r].pc \in {"update", "delete"} /\ req[r].id = i
  /\ n \in EpNames(req[r].base.props)

Drops(r, i, n) ==
  Bases(r, i, n) /\ (req[r].pc = "update" => n \notin EpNames(req[r].new.props))

Lists(r, i, n) ==
  req[r].pc = "terminate" /\ i \in DOMAIN req[r].list /\ n \in req[r].list[i]

Uses(i, n) == Has(i, n) \/ \E r \in Requests : Bases(r, i, n) \/ Lists(r, i, n)

\* A name belongs to one instance, or to the one request that makes it; its
\* gateway entry is there while somebody has it and is gone when it is dropped.
NameInv(n) ==
  /\ \A i, j \in Instances : Uses(i, n) /\ Uses(j, n) => i = j
  /\ \A r \in Requests : Makes(r, n) =>
       /\ n \in gw
       /\ \A i \in Instances : ~Uses(i, n)
       /\ \A q \in Requests : Makes(q, n) => q = r
  /\ n \in gw => (\E i \in Instances : Has(i, n)) \/ \E r \in Requests : Makes(r, n)
  /\ \A r \in Requests, i \in Instances : Drops(r, i, n) => n \notin gw
  /\ \A i \in Instances : Has(i, n) => n \in gw \/ \E r \in Requests : Drops(r, i, n)

\* The endpoints that are published are among the properties.
ShapeInv(n) ==
  /\ \A i \in Present : n \in inst[i].endpoints => n \in EpNames(inst[i].props)
  /\ \A r \in At({"register", "update"}) :
       n \in req[r].new.endpoints => n \in EpNames(req[r].new.props)

NamesInv == \A n \in Names \ astray : NameInv(n) /\ ShapeInv(n)

ServicesInv == TypeInv /\ NamesInv /\ LimitNearlyHolds
----------------------------------------------------------------------------
(* Choosing names.                                                         *)

LEMMA SmallerInjects ==
  ASSUME NEW S, NEW T, IsFiniteSet(S), IsFiniteSet(T), Cardinality(S) <= Cardinality(T)
  PROVE  \E f \in [S -> T] : IsInjective(f)
<1>1. PICK f \in Bijection(1 .. Cardinality(S), S) : TRUE
  BY FS_CardinalityType DEF ExistsBijection
<1>2. PICK g \in Bijection(1 .. Cardinality(T), T) : TRUE
  BY FS_CardinalityType DEF ExistsBijection
<1>3. PICK h \in Injection(S, 1 .. Cardinality(S)) : TRUE
  <2>1. Inverse(f, 1 .. Cardinality(S), S) \in Bijection(S, 1 .. Cardinality(S))
    BY <1>1, Fun_BijInverse
  <2> QED
    BY <2>1, Fun_BijectionProperties
<1>4. h \in Injection(S, 1 .. Cardinality(T))
  BY <1>3, FS_CardinalityType DEF Injection
<1>5. [s \in S |-> g[h[s]]] \in Injection(S, T)
  BY <1>2, <1>4, Fun_InjTransitive, Fun_BijectionProperties
<1> QED
  BY <1>5 DEF Injection, IsInjective

LEMMA FreshTyped ==
  ASSUME Room, NEW uris \in SUBSET Uris
  PROVE  Fresh(uris) \in [uris -> Names \ InUse]
<1>1. IsFiniteSet(uris) /\ Cardinality(uris) <= Cardinality(Uris)
  BY StoreAssumption, FS_Subset
<1>2. IsFiniteSet(Names \ InUse)
  BY StoreAssumption, FS_Subset
<1>3. Cardinality(uris) <= Cardinality(Names \ InUse)
  <2>1. /\ Cardinality(uris) \in Nat /\ Cardinality(Uris) \in Nat
        /\ Cardinality(Names \ InUse) \in Nat
    BY <1>1, <1>2, StoreAssumption, FS_CardinalityType
  <2> QED
    BY <1>1, <2>1 DEF Room
<1>4. \E f \in [uris -> Names \ InUse] : IsInjective(f)
  BY <1>1, <1>2, <1>3, SmallerInjects
<1> QED
  BY <1>4 DEF Fresh

\* The properties a body gives: names the endpoints had, and fresh ones.
LEMMA EndpointsTyped ==
  ASSUME Room, NEW body \in AllBodies, NEW old \in [Uris -> Names \cup {NoName}]
  PROVE  /\ Endpoints(body, old) \in [Uris -> Names \cup {NoName}]
         /\ \A u \in Uris : \/ Endpoints(body, old)[u] \in {NoName, old[u]}
                            \/ Endpoints(body, old)[u] \in Names \ InUse
<1> DEFINE new == {u \in body.endpoint : old[u] = NoName}
<1>1. CASE body.endpoint = {Alternative}
  BY <1>1 DEF Endpoints
<1>2. CASE body.endpoint # {Alternative}
  <2>1. body.endpoint \in SUBSET Uris
    BY <1>2 DEF AllBodies
  <2>2. new \in SUBSET Uris
    BY <2>1
  <2>3. Fresh(new) \in [new -> Names \ InUse]
    BY <2>2, FreshTyped
  <2>4. Endpoints(body, old) =
          [u \in Uris |-> IF u \in new THEN Fresh(new)[u]
                          ELSE IF u \in body.endpoint THEN old[u] ELSE NoName]
    BY <1>2 DEF Endpoints
  <2> HIDE DEF new
  <2> QED
    BY <2>3, <2>4
<1> QED
  BY <1>1, <1>2

LEMMA EpMember ==
  ASSUME NEW p \in Properties, NEW n \in Names
  PROVE  /\ EpNames(p) \subseteq Names
         /\ n \in EpNames(p) <=> \E u \in Uris : p.eps[u] = n
  BY ServicesAssumption DEF EpNames, Properties, Range

LEMMA Generated ==
  ASSUME Room, NEW body \in AllBodies, NEW old \in [Uris -> Names \cup {NoName}], NEW n \in Names
  PROVE  /\ Generate(body, old) \in InstanceInfo
         /\ n \in EpNames(Generate(body, old).props) =>
              (\E u \in Uris : old[u] = n) \/ n \notin InUse
         /\ n \in Generate(body, old).endpoints => n \in EpNames(Generate(body, old).props)
<1> DEFINE eps == Endpoints(body, old)
           props == [eps |-> eps, mecState |-> body.state, live |-> body.live, late |-> FALSE]
           ends == IF body.endpoint = {Alternative} THEN {Alternative} ELSE Range(eps) \ {NoName}
<1>1. /\ eps \in [Uris -> Names \cup {NoName}]
      /\ \A u \in Uris : eps[u] \in {NoName, old[u]} \/ eps[u] \in Names \ InUse
  BY EndpointsTyped
<1>2. props \in Properties
  BY <1>1 DEF Properties, AllBodies, States
<1>3. Generate(body, old) = [props |-> props, endpoints |-> ends]
  BY DEF Generate
<1>4. n \in EpNames(props) <=> \E u \in Uris : eps[u] = n
  <2>1. props.eps = eps
    OBVIOUS
  <2> QED
    BY <1>2, <2>1, EpMember
<1>5. EpNames(props) = Range(eps) \ {NoName}
  BY DEF EpNames
<1>6. ends \subseteq Names \cup {Alternative}
  BY <1>2, <1>5, EpMember
<1>7. n \in ends => n \in EpNames(props)
  BY <1>5, ServicesAssumption
<1>8. n # NoName
  BY ServicesAssumption
<1> HIDE DEF eps, props, ends
<1>9. n \in EpNames(props) => (\E u \in Uris : old[u] = n) \/ n \notin InUse
  BY <1>1, <1>4, <1>8
<1> QED
  BY <1>2, <1>3, <1>6, <1>7, <1>9 DEF InstanceInfo

----------------------------------------------------------------------------
(* What the parts of a step do.                                            *)

LEMMA RequestShapes ==
  ASSUME TypeInv, NEW r \in Requests
  PROVE  /\ req[r].pc \in {"idle", "register", "props", "update", "delete", "beat", "terminate"}
         /\ req[r] # Idle => req[r].pc # "idle"
         /\ req[r].pc \in {"register", "props", "update"} => req[r].new \in InstanceInfo
         /\ req[r].pc \in {"props", "update", "delete", "beat"} => req[r].id \in Instances
         /\ req[r].pc \in {"update", "delete", "beat"} => req[r].base \in InstanceInfo
         /\ req[r].pc = "terminate" =>
              /\ DOMAIN req[r].list \subseteq Instances
              /\ req[r].list \in [DOMAIN req[r].list -> SUBSET Names]
<1>1. req[r] \in ReqTypes
  BY DEF TypeInv
<1> QED
  BY <1>1 DEF ReqTypes, Idle

LEMMA InstanceShapes ==
  ASSUME TypeInv, NEW i \in Instances
  PROVE  /\ i \in Present => /\ inst[i] \in InstanceInfo /\ Read(i) \in InstanceInfo
                            /\ Read(i).props.eps = inst[i].props.eps
         /\ check[i] # NoInstance => check[i] \in InstanceInfo
<1>1. inst[i] \in InstanceInfo \cup {NoInstance} /\ check[i] \in InstanceInfo \cup {NoInstance}
  BY DEF TypeInv, TypeOK
<1>2. ASSUME i \in Present PROVE inst[i] \in InstanceInfo
  BY <1>1, <1>2 DEF Present
<1>3. ASSUME i \in Present
      PROVE  Read(i) \in InstanceInfo /\ Read(i).props.eps = inst[i].props.eps
  BY <1>2, <1>3 DEF Read, InstanceInfo, Properties
<1> QED
  BY <1>1, <1>2, <1>3

LEMMA FaultCounted ==
  ASSUME TypeInv, NEW k, Fault(k) \/ UNCHANGED faults
  PROVE  faults' \in 0 .. MaxFaults
  BY ServicesAssumption DEF TypeInv, TypeOK, Fault

LEMMA GatewayEffect ==
  ASSUME TypeInv, NEW add \in SUBSET Names, NEW del \in SUBSET Names, Gateway(add, del)
  PROVE  /\ gw' \subseteq Names /\ astray' \subseteq Names /\ astray \subseteq astray'
         /\ faults' \in 0 .. MaxFaults
         /\ \A n \in Names \ astray' : n \in gw' <=> (n \in gw \/ n \in add) /\ n \notin del
<1>1. gw \subseteq Names /\ astray \subseteq Names
  BY DEF TypeInv, TypeOK
<1>2. faults' \in 0 .. MaxFaults
  BY FaultCounted DEF Gateway
<1> QED
  BY <1>1, <1>2 DEF Gateway

LEMMA NamesTyped ==
  ASSUME NEW x \in InstanceInfo
  PROVE  NamesOf(x) \subseteq Names
<1>1. x.props \in Properties /\ x.endpoints \subseteq Names \cup {Alternative}
  BY DEF InstanceInfo
<1>2. EpNames(x.props) \subseteq Names
  BY <1>1 DEF EpNames, Range, Properties
<1> QED
  BY <1>2 DEF NamesOf, ApiGwSerNames

\* A write either replaces what was read, or loses sight of all the names.
LEMMA OverwriteEffect ==
  ASSUME TypeInv, NEW i \in Present, NEW base \in InstanceInfo, NEW info \in InstanceInfo,
         Overwrite(i, base, info)
  PROVE  /\ inst' = [inst EXCEPT ![i] = info]
         /\ inst' \in [Instances -> InstanceInfo \cup {NoInstance}]
         /\ astray' \subseteq Names /\ astray \subseteq astray'
         /\ \/ astray' = astray /\ inst[i].props.eps = base.props.eps
               /\ inst[i].endpoints = base.endpoints
            \/ \A n \in Names \ astray' :
                 n \notin NamesOf(inst[i]) \cup NamesOf(base) \cup NamesOf(info)
<1>1. i \in Instances
  BY DEF Present
<1>2. inst \in [Instances -> InstanceInfo \cup {NoInstance}] /\ astray \subseteq Names
  BY DEF TypeInv, TypeOK
<1>3. inst[i] \in InstanceInfo
  BY <1>1, InstanceShapes
<1>4. NamesOf(inst[i]) \cup NamesOf(base) \cup NamesOf(info) \subseteq Names
  BY <1>3, NamesTyped
<1>5. inst' = [inst EXCEPT ![i] = info]
  BY DEF Overwrite
<1>6. inst' \in [Instances -> InstanceInfo \cup {NoInstance}]
  BY <1>2, <1>5
<1>7. \/ astray' = astray /\ inst[i].props.eps = base.props.eps /\ inst[i].endpoints = base.endpoints
      \/ astray' = astray \cup (NamesOf(inst[i]) \cup NamesOf(base) \cup NamesOf(info))
  BY DEF Overwrite
<1> QED
  BY <1>2, <1>4, <1>5, <1>6, <1>7

\* The properties are written with the endpoints they were read with.
LEMMA PropertiesEffect ==
  ASSUME TypeInv, NEW i \in Instances, NEW base \in InstanceInfo, NEW p \in Properties,
         p.eps = base.props.eps, UpdateProperties(i, base, p)
  PROVE  /\ inst' \in [Instances -> InstanceInfo \cup {NoInstance}]
         /\ astray' \subseteq Names /\ astray \subseteq astray'
         /\ faults' \in 0 .. MaxFaults
         /\ Present' = Present
         /\ \A n \in Names \ astray', j \in Present :
              /\ n \in EpNames(inst'[j].props) <=> n \in EpNames(inst[j].props)
              /\ n \in inst'[j].endpoints <=> n \in inst[j].endpoints
<1> DEFINE info == [inst[i] EXCEPT !.props = p]
<1>1. faults' \in 0 .. MaxFaults
  BY FaultCounted DEF UpdateProperties, Overwrite
<1>2. CASE UNCHANGED <<inst, astray>>
  BY <1>1, <1>2 DEF TypeInv, TypeOK, Present
<1>3. CASE i \in Present /\ Overwrite(i, base, info)
  <2>1. inst[i] \in InstanceInfo
    BY <1>3, InstanceShapes
  <2>2. info \in InstanceInfo /\ info.props = p /\ info.endpoints = inst[i].endpoints
    BY <2>1 DEF InstanceInfo
  <2> HIDE DEF info
  <2>3. /\ inst' = [inst EXCEPT ![i] = info]
        /\ inst' \in [Instances -> InstanceInfo \cup {NoInstance}]
        /\ astray' \subseteq Names /\ astray \subseteq astray'
        /\ \/ astray' = astray /\ inst[i].props.eps = base.props.eps
              /\ inst[i].endpoints = base.endpoints
           \/ \A n \in Names \ astray' :
                n \notin NamesOf(inst[i]) \cup NamesOf(base) \cup NamesOf(info)
    BY <1>3, <2>2, OverwriteEffect
  <2>4. inst \in [Instances -> InstanceInfo \cup {NoInstance}]
    BY DEF TypeInv, TypeOK
  <2>5. inst'[i] = info /\ \A j \in Instances \ {i} : inst'[j] = inst[j]
    BY <2>3, <2>4
  <2>6. info # NoInstance
    BY <2>2, StoreAssumption
  <2>7. Present' = Present
    BY <1>3, <2>5, <2>6 DEF Present
  <2>8. \A n \in Names \ astray' :
          /\ n \in EpNames(info.props) <=> n \in EpNames(inst[i].props)
          /\ n \in info.endpoints <=> n \in inst[i].endpoints
    <3>1. CASE inst[i].props.eps = base.props.eps
      BY <2>2, <3>1 DEF EpNames
    <3>2. CASE \A n \in Names \ astray' :
                 n \notin NamesOf(inst[i]) \cup NamesOf(base) \cup NamesOf(info)
      BY <2>2, <3>2 DEF NamesOf
    <3> QED
      BY <2>3, <3>1, <3>2
  <2> QED
    BY <1>1, <2>3, <2>5, <2>7, <2>8 DEF Present
<1> QED
  BY <1>2, <1>3 DEF UpdateProperties

----------------------------------------------------------------------------
(* Types.                                                                  *)

LEMMA BecomeTyped ==
  ASSUME TypeInv, NEW r \in Requests, NEW x \in ReqTypes, Become(r, x)
  PROVE  req' \in [Requests -> ReqTypes]
  BY DEF TypeInv, Become

LEMMA IdleTyped == Idle \in ReqTypes
  BY DEF ReqTypes

\* What the steps that call Generate need to know of it.
LEMMA NewNames ==
  ASSUME Room, NEW body \in Bodies, NEW old \in [Uris -> Names \cup {NoName}]
  PROVE  /\ Generate(body, old) \in InstanceInfo
         /\ EpNames(Generate(body, old).props) \in SUBSET Names
<1>1. body \in AllBodies
  BY ServicesAssumption
<1>2. Endpoints(body, old) \in [Uris -> Names \cup {NoName}]
  BY <1>1, EndpointsTyped
<1>3. Generate(body, old).props.eps = Endpoints(body, old)
  BY DEF Generate
<1>4. EpNames(Generate(body, old).props) \in SUBSET Names
  BY <1>2, <1>3 DEF EpNames, Range
<1>5. Generate(body, old) \in InstanceInfo
  <2>1. Range(Endpoints(body, old)) \ {NoName} \subseteq Names
    BY <1>2 DEF Range
  <2>2. /\ body.state \in States /\ body.live \in BOOLEAN
    BY <1>1 DEF AllBodies, States
  <2> QED
    BY <1>2, <2>1, <2>2 DEF Generate, InstanceInfo, Properties
<1> QED
  BY <1>4, <1>5

LEMMA InstanceNames ==
  ASSUME TypeInv, NEW i \in Present
  PROVE  /\ i \in Instances
         /\ inst[i].props.eps \in [Uris -> Names \cup {NoName}]
         /\ EpNames(inst[i].props) \in SUBSET Names
<1>1. i \in Instances /\ inst[i] \in InstanceInfo
  BY InstanceShapes DEF Present
<1>2. EpNames(inst[i].props) \in SUBSET Names
  BY <1>1, NamesTyped DEF NamesOf
<1> QED
  BY <1>1, <1>2 DEF InstanceInfo, Properties

LEMMA NoEpsTyped ==
  /\ NoEps \in [Uris -> Names \cup {NoName}]
  /\ \A n \in Names, u \in Uris : NoEps[u] # n
  BY ServicesAssumption DEF NoEps

LEMMA TypeNext ==
  ASSUME TypeInv, [Next]_vars
  PROVE  TypeInv' /\ astray \subseteq astray'
<1> DEFINE Goal == TypeInv' /\ astray \subseteq astray'
<1>0. /\ inst \in [Instances -> InstanceInfo \cup {NoInstance}]
      /\ check \in [Instances -> InstanceInfo \cup {NoInstance}]
      /\ gw \subseteq Names /\ astray \subseteq Names /\ faults \in 0 .. MaxFaults
      /\ req \in [Requests -> ReqTypes]
  BY DEF TypeInv, TypeOK
<1>1. ASSUME NEW r \in Requests, NEW body \in Bodies, Register(r, body) PROVE Goal
  <2> DEFINE new == Generate(body, NoEps)
  <2>1. new \in InstanceInfo /\ EpNames(new.props) \in SUBSET Names
    BY <1>1, NewNames, NoEpsTyped DEF Register
  <2>2. Gateway(EpNames(new.props), {}) /\ Become(r, [pc |-> "register", new |-> new])
        /\ UNCHANGED <<inst, check>>
    BY <1>1 DEF Register
  <2> HIDE DEF new
  <2>3. [pc |-> "register", new |-> new] \in ReqTypes
    BY <2>1 DEF ReqTypes
  <2>8. gw' \subseteq Names /\ astray' \subseteq Names /\ astray \subseteq astray' /\ faults' \in 0 .. MaxFaults
    BY <2>1, <2>2, GatewayEffect
  <2>9. req' \in [Requests -> ReqTypes]
    BY <2>2, <2>3, BecomeTyped
  <2> QED
    BY <1>0, <2>2, <2>8, <2>9 DEF TypeInv, TypeOK
<1>2. ASSUME NEW r \in Requests, NEW body \in Bodies, NEW i \in Present, Update(r, i, body) PROVE Goal
  <2> DEFINE new == Generate(body, inst[i].props.eps)
             old == EpNames(inst[i].props)
  <2>1. i \in Instances /\ old \in SUBSET Names
    BY InstanceNames
  <2>2. new \in InstanceInfo /\ EpNames(new.props) \in SUBSET Names
    BY <1>2, NewNames, InstanceNames DEF Update
  <2>3. /\ Gateway(EpNames(new.props) \ old, old \ EpNames(new.props))
        /\ Become(r, [pc |-> "update", id |-> i, base |-> Read(i), new |-> new])
        /\ UNCHANGED <<inst, check>>
    BY <1>2 DEF Update
  <2> HIDE DEF new, old
  <2>4. [pc |-> "update", id |-> i, base |-> Read(i), new |-> new] \in ReqTypes
    BY <2>1, <2>2, InstanceShapes DEF ReqTypes
  <2>5. EpNames(new.props) \ old \in SUBSET Names /\ old \ EpNames(new.props) \in SUBSET Names
    BY <2>1, <2>2
  <2>8. gw' \subseteq Names /\ astray' \subseteq Names /\ astray \subseteq astray' /\ faults' \in 0 .. MaxFaults
    BY <2>3, <2>5, GatewayEffect
  <2>9. req' \in [Requests -> ReqTypes]
    BY <2>3, <2>4, BecomeTyped
  <2> QED
    BY <1>0, <2>3, <2>8, <2>9 DEF TypeInv, TypeOK
<1>3. ASSUME NEW r \in Requests, NEW i \in Instances, Delete(r, i) PROVE Goal
  <2>1. i \in Present /\ EpNames(inst[i].props) \in SUBSET Names
    BY <1>3, InstanceNames DEF Delete
  <2>2. /\ Gateway({}, EpNames(inst[i].props))
        /\ Become(r, [pc |-> "delete", id |-> i, base |-> Read(i)])
        /\ UNCHANGED <<inst, check>>
    BY <1>3 DEF Delete
  <2>3. [pc |-> "delete", id |-> i, base |-> Read(i)] \in ReqTypes
    BY <2>1, InstanceShapes DEF ReqTypes
  <2>8. gw' \subseteq Names /\ astray' \subseteq Names /\ astray \subseteq astray' /\ faults' \in 0 .. MaxFaults
    BY <2>1, <2>2, GatewayEffect
  <2>9. req' \in [Requests -> ReqTypes]
    BY <2>2, <2>3, BecomeTyped
  <2> QED
    BY <1>0, <2>2, <2>8, <2>9 DEF TypeInv, TypeOK
<1>4. ASSUME NEW r \in Requests, NEW i \in Instances, BeatRead(r, i) PROVE Goal
  <2>1. i \in Present /\ Become(r, [pc |-> "beat", id |-> i, base |-> Read(i)])
        /\ UNCHANGED <<inst, gw, check, astray, faults>>
    BY <1>4 DEF BeatRead
  <2>2. [pc |-> "beat", id |-> i, base |-> Read(i)] \in ReqTypes
    BY <2>1, InstanceShapes DEF ReqTypes
  <2> QED
    BY <1>0, <2>1, <2>2, BecomeTyped DEF TypeInv, TypeOK
<1>5. ASSUME NEW r \in Requests, Terminate(r) PROVE Goal
  <2> DEFINE list == [i \in Present |-> ApiGwSerNames(inst[i])]
  <2>1. Become(r, [pc |-> "terminate", list |-> list])
        /\ UNCHANGED <<inst, gw, check, astray, faults>>
    BY <1>5 DEF Terminate
  <2>2. Present \in SUBSET Instances /\ list \in [Present -> SUBSET Names]
    BY DEF Present, ApiGwSerNames
  <2> HIDE DEF list
  <2>3. [pc |-> "terminate", list |-> list] \in ReqTypes
    BY <2>2 DEF ReqTypes
  <2> QED
    BY <1>0, <2>1, <2>3, BecomeTyped DEF TypeInv, TypeOK
<1>6. ASSUME NEW r \in Requests, RegisterInstance(r) PROVE Goal
  <2> DEFINE new == req[r].new
  <2>1. new \in InstanceInfo
    BY <1>6, RequestShapes DEF RegisterInstance
  <2>2. EpNames(new.props) \subseteq Names
    BY <2>1, NamesTyped DEF NamesOf
  <2>3. CASE /\ \E i \in Instances \ Present :
                  /\ inst' = [inst EXCEPT ![i] = new]
                  /\ Become(r, [pc |-> "props", id |-> i, new |-> new])
             /\ UNCHANGED <<gw, check, astray, faults>>
    <3>1. PICK i \in Instances \ Present :
            inst' = [inst EXCEPT ![i] = new] /\ Become(r, [pc |-> "props", id |-> i, new |-> new])
      BY <2>3
    <3> HIDE DEF new
    <3>2. [pc |-> "props", id |-> i, new |-> new] \in ReqTypes
      BY <2>1 DEF ReqTypes
    <3> QED
      BY <1>0, <2>1, <2>3, <3>1, <3>2, BecomeTyped DEF TypeInv, TypeOK
  <2>4. CASE /\ Fault("store") /\ Become(r, Idle)
             /\ astray' = astray \cup EpNames(new.props)
             /\ UNCHANGED <<inst, gw, check>>
    BY <1>0, <2>2, <2>4, FaultCounted, IdleTyped, BecomeTyped DEF TypeInv, TypeOK
  <2> QED
    BY <1>6, <2>3, <2>4 DEF RegisterInstance
<1>7. ASSUME NEW r \in Requests, RegisterProperties(r) PROVE Goal
  <2>1. req[r].id \in Instances /\ req[r].new \in InstanceInfo /\ req[r].new.props \in Properties
    BY <1>7, RequestShapes DEF RegisterProperties, InstanceInfo
  <2>2. UpdateProperties(req[r].id, req[r].new, req[r].new.props) /\ Become(r, Idle)
        /\ UNCHANGED <<gw, check>>
    BY <1>7 DEF RegisterProperties
  <2> QED
    BY <1>0, <2>1, <2>2, PropertiesEffect, IdleTyped, BecomeTyped DEF TypeInv, TypeOK
<1>8. ASSUME NEW r \in Requests, UpdateInstance(r) PROVE Goal
  <2> DEFINE i == req[r].id
             before == EpNames(req[r].base.props)
             after == EpNames(req[r].new.props)
  <2>1. i \in Instances /\ req[r].new \in InstanceInfo /\ req[r].base \in InstanceInfo
    BY <1>8, RequestShapes DEF UpdateInstance
  <2>2. before \cup after \subseteq Names
    BY <2>1, NamesTyped DEF NamesOf
  <2>3. Become(r, Idle) /\ UNCHANGED <<gw, check>>
    BY <1>8 DEF UpdateInstance
  <2>4. CASE i \in Present /\ Overwrite(i, req[r].base, req[r].new) /\ UNCHANGED faults
    BY <1>0, <2>1, <2>3, <2>4, OverwriteEffect, IdleTyped, BecomeTyped DEF TypeInv, TypeOK
  <2>5. CASE /\ Fault("store") \/ UNCHANGED faults
             /\ astray' = astray \cup (before \ after) \cup (after \ before)
             /\ UNCHANGED inst
    <3>1. faults' \in 0 .. MaxFaults
      BY <2>5, FaultCounted
    <3> QED
      BY <1>0, <2>2, <2>3, <2>5, <3>1, IdleTyped, BecomeTyped DEF TypeInv, TypeOK
  <2> QED
    BY <1>8, <2>4, <2>5 DEF UpdateInstance
<1>9. ASSUME NEW r \in Requests, Unregister(r) PROVE Goal
  <2> DEFINE i == req[r].id
             cleaned == EpNames(req[r].base.props)
  <2>1. i \in Instances /\ req[r].base \in InstanceInfo
    BY <1>9, RequestShapes DEF Unregister
  <2>2. cleaned \subseteq Names
    BY <2>1, NamesTyped DEF NamesOf
  <2>3. Become(r, Idle) /\ UNCHANGED <<gw, check>>
    BY <1>9 DEF Unregister
  <2>4. i \in Present => EpNames(inst[i].props) \subseteq Names
    BY InstanceNames
  <2>5. faults' \in 0 .. MaxFaults
    BY <1>9, FaultCounted DEF Unregister
  <2>6. inst' \in [Instances -> InstanceInfo \cup {NoInstance}]
    BY <1>0, <1>9 DEF Unregister
  <2>7. astray' \subseteq Names /\ astray \subseteq astray'
    BY <1>0, <1>9, <2>2, <2>4 DEF Unregister
  <2> QED
    BY <1>0, <2>3, <2>5, <2>6, <2>7, IdleTyped, BecomeTyped DEF TypeInv, TypeOK
<1>10. ASSUME NEW r \in Requests, TerminateOne(r) PROVE Goal
  <2>1. PICK i \in DOMAIN req[r].list :
          \/ /\ i \in Present
             /\ inst' = [inst EXCEPT ![i] = NoInstance]
             /\ \E lost \in SUBSET req[r].list[i] :
                  /\ IF lost = {} THEN UNCHANGED faults ELSE Fault("gateway")
                  /\ gw' = gw \ (req[r].list[i] \ lost)
                  /\ astray' = astray \cup (EpNames(inst[i].props) \ req[r].list[i]) \cup lost
             /\ Become(r, IF DOMAIN req[r].list = {i} THEN Idle
                          ELSE [req[r] EXCEPT !.list = Restrict(@, DOMAIN @ \ {i})])
          \/ /\ IF i \in Present THEN Fault("store") ELSE UNCHANGED faults
             /\ Become(r, Idle)
             /\ UNCHANGED <<inst, gw, astray>>
    BY <1>10 DEF TerminateOne
  <2>2. /\ DOMAIN req[r].list \subseteq Instances
        /\ req[r].list \in [DOMAIN req[r].list -> SUBSET Names]
    BY <1>10, RequestShapes DEF TerminateOne
  <2>3. faults' \in 0 .. MaxFaults
    BY <2>1, FaultCounted
  <2>4. UNCHANGED check
    BY <1>10 DEF TerminateOne
  <2>5. [req[r] EXCEPT !.list = Restrict(@, DOMAIN @ \ {i})] \in ReqTypes
    <3> DEFINE rest == Restrict(req[r].list, DOMAIN req[r].list \ {i})
    <3>1. rest \in [DOMAIN req[r].list \ {i} -> SUBSET Names]
      BY <2>2 DEF Restrict
    <3>2. DOMAIN req[r].list \ {i} \in SUBSET Instances
      BY <2>2
    <3>3. req[r] \in [pc : {"terminate"}, list : UNION {[D -> SUBSET Names] : D \in SUBSET Instances}]
      BY <1>0, <1>10 DEF TerminateOne, ReqTypes, Idle
    <3>4. [req[r] EXCEPT !.list = Restrict(@, DOMAIN @ \ {i})] = [req[r] EXCEPT !.list = rest]
      OBVIOUS
    <3> HIDE DEF rest
    <3>5. rest \in UNION {[D -> SUBSET Names] : D \in SUBSET Instances}
      BY <3>1, <3>2
    <3>6. [req[r] EXCEPT !.list = rest]
            \in [pc : {"terminate"}, list : UNION {[D -> SUBSET Names] : D \in SUBSET Instances}]
      BY <3>3, <3>5
    <3> QED
      BY <3>4, <3>6 DEF ReqTypes
  <2>6. req' \in [Requests -> ReqTypes]
    BY <2>1, <2>5, IdleTyped, BecomeTyped
  <2>7. inst' \in [Instances -> InstanceInfo \cup {NoInstance}]
    BY <1>0, <2>1
  <2>8. gw' \subseteq Names /\ astray' \subseteq Names /\ astray \subseteq astray'
    <3>1. i \in Present => EpNames(inst[i].props) \subseteq Names
      BY InstanceNames
    <3>2. req[r].list[i] \subseteq Names
      BY <2>1, <2>2
    <3> QED
      BY <1>0, <2>1, <3>1, <3>2
  <2> QED
    BY <1>0, <2>3, <2>4, <2>6, <2>7, <2>8 DEF TypeInv, TypeOK
<1>11. ASSUME NEW r \in Requests, BeatWrite(r) PROVE Goal
  <2> DEFINE p == [req[r].base.props EXCEPT !.mecState = "ACTIVE", !.late = FALSE]
  <2>1. req[r].id \in Instances /\ req[r].base \in InstanceInfo
    BY <1>11, RequestShapes DEF BeatWrite
  <2>2. p \in Properties /\ p.eps = req[r].base.props.eps
    BY <2>1 DEF InstanceInfo, Properties, States
  <2>3. UpdateProperties(req[r].id, req[r].base, p) /\ Become(r, Idle) /\ UNCHANGED <<gw, check>>
    BY <1>11 DEF BeatWrite
  <2> HIDE DEF p
  <2> QED
    BY <1>0, <2>1, <2>2, <2>3, PropertiesEffect, IdleTyped, BecomeTyped DEF TypeInv, TypeOK
<1>12. ASSUME CheckRead PROVE Goal
  <2>1. check' \in [Instances -> InstanceInfo \cup {NoInstance}]
    BY <1>0, <1>12 DEF CheckRead
  <2> QED
    BY <1>0, <1>12, <2>1 DEF CheckRead, TypeInv, TypeOK
<1>13. ASSUME NEW i \in Instances, CheckOne(i) PROVE Goal
  <2> DEFINE p == [check[i].props EXCEPT !.mecState = "SUSPENDED"]
  <2>1. check[i] \in InstanceInfo
    BY <1>13, InstanceShapes DEF CheckOne
  <2>2. p \in Properties /\ p.eps = check[i].props.eps
    BY <2>1 DEF InstanceInfo, Properties, States
  <2>3. /\ UNCHANGED <<inst, astray, faults>> \/ UpdateProperties(i, check[i], p)
        /\ check' = [check EXCEPT ![i] = NoInstance]
        /\ UNCHANGED <<gw, req>>
    BY <1>13 DEF CheckOne
  <2> HIDE DEF p
  <2> QED
    BY <1>0, <2>1, <2>2, <2>3, PropertiesEffect DEF TypeInv, TypeOK
<1>14. ASSUME NEW i \in Instances, Late(i) PROVE Goal
  <2>1. inst[i] \in InstanceInfo /\ (check[i] # NoInstance => check[i] \in InstanceInfo)
    BY <1>14, InstanceShapes DEF Late
  <2>2. [inst[i] EXCEPT !.props.late = TRUE] \in InstanceInfo
    BY <2>1 DEF InstanceInfo, Properties
  <2>3. check[i] # NoInstance => [check[i] EXCEPT !.props.late = TRUE] \in InstanceInfo
    BY <2>1 DEF InstanceInfo, Properties
  <2>4. inst' \in [Instances -> InstanceInfo \cup {NoInstance}]
    <3>1. [inst EXCEPT ![i].props.late = TRUE] =
            [inst EXCEPT ![i] = [inst[i] EXCEPT !.props.late = TRUE]]
      BY <1>0
    <3> QED
      BY <1>0, <1>14, <2>2, <3>1 DEF Late
  <2>5. check' \in [Instances -> InstanceInfo \cup {NoInstance}]
    <3>1. [check EXCEPT ![i].props.late = TRUE] =
            [check EXCEPT ![i] = [check[i] EXCEPT !.props.late = TRUE]]
      BY <1>0
    <3> QED
      BY <1>0, <1>14, <2>3, <3>1 DEF Late
  <2> QED
    BY <1>0, <1>14, <2>4, <2>5 DEF Late, TypeInv, TypeOK
<1>15. CASE UNCHANGED vars
  BY <1>0, <1>15 DEF vars, TypeInv, TypeOK
<1> HIDE DEF Goal
<1>16. ASSUME NEW r \in Requests, Request(r) PROVE Goal
  BY <1>16, <1>1, <1>2, <1>3, <1>4, <1>5 DEF Request
<1>17. ASSUME NEW r \in Requests, RequestStep(r) PROVE Goal
  BY <1>17, <1>6, <1>7, <1>8, <1>9, <1>10, <1>11 DEF RequestStep
<1> QED
  BY <1>12, <1>13, <1>14, <1>15, <1>16, <1>17 DEF Next, Goal

----------------------------------------------------------------------------
(* What can happen to a name in a step.                                    *)

\* A name that is not in use is nobody's.
LEMMA UnusedNames ==
  ASSUME NEW n, n \notin InUse
  PROVE  /\ n \notin gw
         /\ \A i \in Instances : ~Has(i, n) /\ ~Uses(i, n)
         /\ \A r \in Requests : ~Makes(r, n)
         /\ \A r \in Requests, i \in Instances : ~Bases(r, i, n) /\ ~Drops(r, i, n) /\ ~Lists(r, i, n)
<1> DEFINE A == {gw, astray}
           B == {NamesOf(inst[i]) : i \in Present}
           C == {NamesOf(check[i]) : i \in {j \in Instances : check[j] # NoInstance}}
           D == {NamesOf(req[r].new) : r \in At({"register", "props", "update"})}
           E == {NamesOf(req[r].base) : r \in At({"update", "delete", "beat"})}
           F == {UNION Range(req[r].list) : r \in At({"terminate"})}
<1>0. \A S \in A \cup B \cup C \cup D \cup E \cup F : n \notin S
  <2>1. InUse = UNION (A \cup B \cup C \cup D \cup E \cup F)
    BY DEF InUse
  <2> HIDE DEF A, B, C, D, E, F
  <2> QED
    BY <2>1
<1>1. n \notin gw
  BY <1>0
<1>2. \A i \in Present : n \notin NamesOf(inst[i])
  BY <1>0
<1>3. \A r \in At({"register", "props", "update"}) : n \notin NamesOf(req[r].new)
  BY <1>0
<1>4. \A r \in At({"update", "delete", "beat"}) : n \notin NamesOf(req[r].base)
  BY <1>0
<1>5. \A r \in At({"terminate"}) : n \notin UNION Range(req[r].list)
  BY <1>0
<1>6. \A i \in Instances : ~Has(i, n)
  BY <1>2 DEF Has, NamesOf
<1>7. \A r \in Requests : ~Makes(r, n)
  BY <1>3 DEF Makes, NamesOf, At
<1>8. \A r \in Requests, i \in Instances : ~Bases(r, i, n) /\ ~Drops(r, i, n)
  BY <1>4 DEF Bases, Drops, NamesOf, At
<1>9. \A r \in Requests, i \in Instances : ~Lists(r, i, n)
  BY <1>5 DEF Lists, At, Range
<1> QED
  BY <1>1, <1>6, <1>7, <1>8, <1>9 DEF Uses

\* Nothing happens to it, except that a request forgets it; ...
LEMMA Untouched ==
  ASSUME NEW n, NameInv(n), n \in gw' <=> n \in gw,
         \A i \in Instances : (Has(i, n)' <=> Has(i, n)) /\ (Uses(i, n)' => Uses(i, n)),
         \A r \in Requests : (Makes(r, n)' <=> Makes(r, n)),
         \A r \in Requests, i \in Instances : (Drops(r, i, n)' <=> Drops(r, i, n))
  PROVE  NameInv(n)'
  BY DEF NameInv

\* ... a request has made it; ...
LEMMA Made ==
  ASSUME NEW n, NEW r \in Requests, n \in gw',
         \A i \in Instances : ~Uses(i, n)',
         \A q \in Requests : (Makes(q, n)' <=> q = r)
  PROVE  NameInv(n)'
<1>1. \A i \in Instances : ~Has(i, n)' /\ \A q \in Requests : ~Drops(q, i, n)'
  BY DEF Uses, Drops
<1> QED
  BY <1>1 DEF NameInv

\* ... or it is the name of an instance, with or without a gateway entry.
LEMMA Belongs ==
  ASSUME NEW n, NEW i \in Instances,
         \A j \in Instances : Uses(j, n)' => j = i,
         \A q \in Requests : ~Makes(q, n)',
         n \in gw' => Has(i, n)' /\ \A q \in Requests : ~Drops(q, i, n)',
         Has(i, n)' => n \in gw' \/ \E q \in Requests : Drops(q, i, n)'
  PROVE  NameInv(n)'
<1>1. \A j \in Instances : /\ Has(j, n)' => j = i
                           /\ \A q \in Requests : Drops(q, j, n)' => j = i
  BY DEF Uses, Drops
<1> QED
  BY <1>1 DEF NameInv

\* A step changes what one request keeps, and one instance.
LEMMA RequestMoves ==
  ASSUME TypeInv, NEW n, NEW r \in Requests, NEW x, Become(r, x)
  PROVE  /\ req'[r] = x /\ \A q \in Requests \ {r} : req'[q] = req[q]
         /\ \A q \in Requests \ {r} : Makes(q, n)' <=> Makes(q, n)
         /\ \A q \in Requests \ {r}, i \in Instances :
              /\ Bases(q, i, n)' <=> Bases(q, i, n)
              /\ Drops(q, i, n)' <=> Drops(q, i, n)
              /\ Lists(q, i, n)' <=> Lists(q, i, n)
         /\ x.pc \notin {"register", "update"} => ~Makes(r, n)'
         /\ x.pc \notin {"update", "delete"} =>
              \A i \in Instances : ~Bases(r, i, n)' /\ ~Drops(r, i, n)'
         /\ x.pc # "terminate" => \A i \in Instances : ~Lists(r, i, n)'
<1>1. req'[r] = x /\ \A q \in Requests \ {r} : req'[q] = req[q]
  BY DEF TypeInv, Become
<1> QED
  BY <1>1 DEF Makes, Bases, Drops, Lists

LEMMA InstanceMoves ==
  ASSUME TypeInv, NEW n, NEW i \in Instances, NEW x, inst' = [inst EXCEPT ![i] = x]
  PROVE  /\ inst'[i] = x /\ \A j \in Instances \ {i} : inst'[j] = inst[j]
         /\ \A j \in Instances \ {i} : (Has(j, n)' <=> Has(j, n)) /\ (j \in Present' <=> j \in Present)
         /\ Has(i, n)' <=> x # NoInstance /\ n \in EpNames(x.props)
<1>1. inst'[i] = x /\ \A j \in Instances \ {i} : inst'[j] = inst[j]
  BY DEF TypeInv, TypeOK
<1> QED
  BY <1>1 DEF Has, Present

\* The shape of what a step leaves alone.
LEMMA ShapesKept ==
  ASSUME NEW n, ShapeInv(n),
         \A i \in Present' : \/ n \in inst'[i].endpoints => n \in EpNames(inst'[i].props)
                             \/ i \in Present /\ inst'[i] = inst[i],
         \A r \in Requests : \/ req'[r] = req[r]
                             \/ req'[r].pc \notin {"register", "update"}
                             \/ n \in req'[r].new.endpoints => n \in EpNames(req'[r].new.props)
  PROVE  ShapeInv(n)'
  BY DEF ShapeInv, At

----------------------------------------------------------------------------
(* Names: a new instance.                                                  *)

LEMMA RegisterNames ==
  ASSUME TypeInv, NEW n \in Names \ astray', NameInv(n), ShapeInv(n),
         NEW r \in Requests, NEW body \in Bodies, Register(r, body)
  PROVE  NameInv(n)' /\ ShapeInv(n)'
<1> DEFINE new == Generate(body, NoEps)
           x == [pc |-> "register", new |-> new]
<1>1. body \in AllBodies /\ Room /\ req[r] = Idle
  BY ServicesAssumption DEF Register
<1>2. /\ new \in InstanceInfo /\ EpNames(new.props) \in SUBSET Names
      /\ n \in EpNames(new.props) => n \notin InUse
      /\ n \in new.endpoints => n \in EpNames(new.props)
  BY <1>1, NewNames, Generated, NoEpsTyped
<1>3. Gateway(EpNames(new.props), {}) /\ Become(r, x) /\ UNCHANGED <<inst, check>>
  BY DEF Register
<1> HIDE DEF new
<1>4. n \in gw' <=> n \in gw \/ n \in EpNames(new.props)
  <2>1. {} \in SUBSET Names
    OBVIOUS
  <2> QED
    BY <1>2, <1>3, <2>1, GatewayEffect
<1>5. x.pc = "register" /\ x.new = new
  OBVIOUS
<1> HIDE DEF x
<1>6. /\ req'[r] = x /\ \A q \in Requests \ {r} : req'[q] = req[q]
      /\ \A q \in Requests \ {r} : Makes(q, n)' <=> Makes(q, n)
      /\ \A q \in Requests \ {r}, i \in Instances :
           /\ Bases(q, i, n)' <=> Bases(q, i, n)
           /\ Drops(q, i, n)' <=> Drops(q, i, n)
           /\ Lists(q, i, n)' <=> Lists(q, i, n)
      /\ \A i \in Instances : ~Bases(r, i, n)' /\ ~Drops(r, i, n)' /\ ~Lists(r, i, n)'
  BY <1>3, <1>5, RequestMoves
<1>7. Makes(r, n)' <=> n \in EpNames(new.props)
  BY <1>5, <1>6 DEF Makes
<1>8. \A i \in Instances : Has(i, n)' <=> Has(i, n)
  BY <1>3 DEF Has, Present
<1>9. \A i \in Instances : Uses(i, n)' => Uses(i, n)
  BY <1>6, <1>8 DEF Uses
<1>10. ~Makes(r, n) /\ \A i \in Instances : ~Drops(r, i, n)
  BY <1>1 DEF Idle, Makes, Drops, Bases
<1>11. NameInv(n)'
  <2>1. CASE n \in EpNames(new.props)
    BY <1>2, <1>4, <1>6, <1>7, <1>9, <2>1, UnusedNames, Made
  <2>2. CASE n \notin EpNames(new.props)
    <3>1. \A q \in Requests : Makes(q, n)' <=> Makes(q, n)
      BY <1>6, <1>7, <1>10, <2>2
    <3>2. \A q \in Requests, i \in Instances : Drops(q, i, n)' <=> Drops(q, i, n)
      BY <1>6, <1>10
    <3> QED
      BY <1>4, <1>8, <1>9, <2>2, <3>1, <3>2, Untouched
  <2> QED
    BY <2>1, <2>2
<1>12. ShapeInv(n)'
  BY <1>2, <1>3, <1>5, <1>6, ShapesKept DEF Present
<1> QED
  BY <1>11, <1>12

LEMMA RegisterInstanceNames ==
  ASSUME TypeInv, NEW n \in Names \ astray', NameInv(n), ShapeInv(n),
         NEW r \in Requests, RegisterInstance(r)
  PROVE  NameInv(n)' /\ ShapeInv(n)'
<1> DEFINE new == req[r].new
<1>1. req[r].pc = "register" /\ new \in InstanceInfo /\ new # NoInstance /\ gw' = gw
  BY RequestShapes, StoreAssumption DEF RegisterInstance
<1>2. /\ Makes(r, n) <=> n \in EpNames(new.props)
      /\ \A i \in Instances : ~Drops(r, i, n)
  BY <1>1 DEF Makes, Drops, Bases
<1>3. n \in new.endpoints => n \in EpNames(new.props)
  BY <1>1 DEF ShapeInv, At
<1> HIDE DEF new
<1>4. ASSUME NEW i \in Instances \ Present, inst' = [inst EXCEPT ![i] = new],
             Become(r, [pc |-> "props", id |-> i, new |-> new])
      PROVE  NameInv(n)' /\ ShapeInv(n)'
  <2> DEFINE x == [pc |-> "props", id |-> i, new |-> new]
  <2>1. x.pc = "props" /\ Become(r, x)
    BY <1>4
  <2> HIDE DEF x
  <2>2. /\ req'[r] = x /\ \A q \in Requests \ {r} : req'[q] = req[q]
        /\ ~Makes(r, n)' /\ \A q \in Requests \ {r} : Makes(q, n)' <=> Makes(q, n)
        /\ \A q \in Requests \ {r}, j \in Instances :
             /\ Bases(q, j, n)' <=> Bases(q, j, n)
             /\ Drops(q, j, n)' <=> Drops(q, j, n)
             /\ Lists(q, j, n)' <=> Lists(q, j, n)
        /\ \A j \in Instances : ~Bases(r, j, n)' /\ ~Drops(r, j, n)' /\ ~Lists(r, j, n)'
    BY <2>1, RequestMoves
  <2>3. /\ inst'[i] = new /\ \A j \in Instances \ {i} : inst'[j] = inst[j]
        /\ \A j \in Instances \ {i} : (Has(j, n)' <=> Has(j, n)) /\ (j \in Present' <=> j \in Present)
        /\ Has(i, n)' <=> n \in EpNames(new.props)
    BY <1>1, <1>4, InstanceMoves
  <2>4. \A j \in Instances \ {i} : Uses(j, n)' => Uses(j, n)
    BY <2>2, <2>3 DEF Uses
  <2>5. ~Has(i, n)
    BY <1>4 DEF Has
  <2>6. NameInv(n)'
    <3>1. CASE n \in EpNames(new.props)
      <4>1. Makes(r, n)
        BY <1>2, <3>1
      <4>2. /\ n \in gw /\ \A j \in Instances : ~Uses(j, n)
            /\ \A q \in Requests : Makes(q, n) => q = r
        BY <4>1 DEF NameInv
      <4>3. \A q \in Requests, j \in Instances : ~Drops(q, j, n)'
        BY <2>2, <4>2 DEF Uses, Drops
      <4>4. \A j \in Instances : Uses(j, n)' => j = i
        BY <2>4, <4>2
      <4>5. \A q \in Requests : ~Makes(q, n)'
        BY <2>2, <4>2
      <4>6. n \in gw' /\ Has(i, n)'
        BY <1>1, <2>3, <3>1, <4>2
      <4> QED
        BY <4>3, <4>4, <4>5, <4>6, Belongs
    <3>2. CASE n \notin EpNames(new.props)
      <4>1. \A j \in Instances : Has(j, n)' <=> Has(j, n)
        BY <2>3, <2>5, <3>2
      <4>2. \A j \in Instances : Uses(j, n)' => Uses(j, n)
        BY <2>2, <4>1 DEF Uses
      <4>3. \A q \in Requests : Makes(q, n)' <=> Makes(q, n)
        BY <1>2, <2>2, <3>2
      <4>4. \A q \in Requests, j \in Instances : Drops(q, j, n)' <=> Drops(q, j, n)
        BY <1>2, <2>2
      <4> QED
        BY <1>1, <4>1, <4>2, <4>3, <4>4, Untouched
    <3> QED
      BY <3>1, <3>2
  <2>7. ShapeInv(n)'
    <3>1. \A j \in Present' : \/ n \in inst'[j].endpoints => n \in EpNames(inst'[j].props)
                              \/ j \in Present /\ inst'[j] = inst[j]
      BY <1>3, <2>3 DEF Present
    <3> QED
      BY <2>1, <2>2, <3>1, ShapesKept
  <2> QED
    BY <2>6, <2>7
<1>5. ASSUME Become(r, Idle), astray' = astray \cup EpNames(new.props), UNCHANGED inst
      PROVE  NameInv(n)' /\ ShapeInv(n)'
  <2>1. n \notin EpNames(new.props) /\ Idle.pc = "idle"
    BY <1>5 DEF Idle
  <2>2. /\ req'[r] = Idle /\ \A q \in Requests \ {r} : req'[q] = req[q]
        /\ ~Makes(r, n)' /\ \A q \in Requests \ {r} : Makes(q, n)' <=> Makes(q, n)
        /\ \A q \in Requests \ {r}, j \in Instances :
             /\ Bases(q, j, n)' <=> Bases(q, j, n)
             /\ Drops(q, j, n)' <=> Drops(q, j, n)
             /\ Lists(q, j, n)' <=> Lists(q, j, n)
        /\ \A j \in Instances : ~Bases(r, j, n)' /\ ~Drops(r, j, n)' /\ ~Lists(r, j, n)'
    BY <1>5, <2>1, RequestMoves
  <2>3. \A j \in Instances : Has(j, n)' <=> Has(j, n)
    BY <1>5 DEF Has, Present
  <2>4. \A j \in Instances : Uses(j, n)' => Uses(j, n)
    BY <2>2, <2>3 DEF Uses
  <2>5. \A q \in Requests : Makes(q, n)' <=> Makes(q, n)
    BY <1>2, <2>1, <2>2
  <2>6. \A q \in Requests, j \in Instances : Drops(q, j, n)' <=> Drops(q, j, n)
    BY <1>2, <2>2
  <2>7. NameInv(n)'
    BY <1>1, <2>3, <2>4, <2>5, <2>6, Untouched
  <2>8. ShapeInv(n)'
    BY <1>5, <2>1, <2>2, ShapesKept DEF Present
  <2> QED
    BY <2>7, <2>8
<1> QED
  BY <1>4, <1>5 DEF RegisterInstance, new

----------------------------------------------------------------------------
(* Names: steps that leave them alone.                                     *)

\* A request that neither makes n nor drops it goes on, or ends; what the
\* instances say of n stays as it is.
LEMMA Ends ==
  ASSUME TypeInv, NEW n, NameInv(n), ShapeInv(n),
         NEW r \in Requests, NEW x, x.pc \in {"idle", "props", "beat"}, Become(r, x),
         ~Makes(r, n), \A i \in Instances : ~Drops(r, i, n),
         n \in gw' <=> n \in gw, Present' = Present,
         \A j \in Present : /\ n \in EpNames(inst'[j].props) <=> n \in EpNames(inst[j].props)
                            /\ n \in inst'[j].endpoints <=> n \in inst[j].endpoints
  PROVE  NameInv(n)' /\ ShapeInv(n)'
<1>1. /\ req'[r] = x /\ \A q \in Requests \ {r} : req'[q] = req[q]
      /\ ~Makes(r, n)' /\ \A q \in Requests \ {r} : Makes(q, n)' <=> Makes(q, n)
      /\ \A q \in Requests \ {r}, j \in Instances :
           /\ Bases(q, j, n)' <=> Bases(q, j, n)
           /\ Drops(q, j, n)' <=> Drops(q, j, n)
           /\ Lists(q, j, n)' <=> Lists(q, j, n)
      /\ \A j \in Instances : ~Bases(r, j, n)' /\ ~Drops(r, j, n)' /\ ~Lists(r, j, n)'
  BY RequestMoves
<1>2. \A j \in Instances : Has(j, n)' <=> Has(j, n)
  BY DEF Has
<1>3. \A j \in Instances : Uses(j, n)' => Uses(j, n)
  BY <1>1, <1>2 DEF Uses
<1>4. \A q \in Requests : Makes(q, n)' <=> Makes(q, n)
  BY <1>1
<1>5. \A q \in Requests, j \in Instances : Drops(q, j, n)' <=> Drops(q, j, n)
  BY <1>1
<1>6. NameInv(n)'
  BY <1>2, <1>3, <1>4, <1>5, Untouched
<1>7. \A j \in Present' : n \in inst'[j].endpoints => n \in EpNames(inst'[j].props)
  BY DEF ShapeInv
<1>8. ShapeInv(n)'
  BY <1>1, <1>7, ShapesKept
<1> QED
  BY <1>6, <1>8

\* The same without any request.
LEMMA Quiet ==
  ASSUME NEW n, NameInv(n), ShapeInv(n), UNCHANGED req,
         n \in gw' <=> n \in gw, Present' = Present,
         \A j \in Present : /\ n \in EpNames(inst'[j].props) <=> n \in EpNames(inst[j].props)
                            /\ n \in inst'[j].endpoints <=> n \in inst[j].endpoints
  PROVE  NameInv(n)' /\ ShapeInv(n)'
<1>1. /\ \A q \in Requests : Makes(q, n)' <=> Makes(q, n)
      /\ \A q \in Requests, j \in Instances :
           /\ Bases(q, j, n)' <=> Bases(q, j, n)
           /\ Drops(q, j, n)' <=> Drops(q, j, n)
           /\ Lists(q, j, n)' <=> Lists(q, j, n)
  BY DEF Makes, Bases, Drops, Lists
<1>2. \A j \in Instances : Has(j, n)' <=> Has(j, n)
  BY DEF Has
<1>3. \A j \in Instances : Uses(j, n)' => Uses(j, n)
  BY <1>1, <1>2 DEF Uses
<1>4. NameInv(n)'
  BY <1>1, <1>2, <1>3, Untouched
<1>5. \A j \in Present' : n \in inst'[j].endpoints => n \in EpNames(inst'[j].props)
  BY DEF ShapeInv
<1>6. ShapeInv(n)'
  BY <1>5, ShapesKept
<1> QED
  BY <1>4, <1>6

LEMMA RegisterPropertiesNames ==
  ASSUME TypeInv, NEW n \in Names \ astray', NameInv(n), ShapeInv(n),
         NEW r \in Requests, RegisterProperties(r)
  PROVE  NameInv(n)' /\ ShapeInv(n)'
<1>1. /\ req[r].pc = "props" /\ req[r].id \in Instances
      /\ req[r].new \in InstanceInfo /\ req[r].new.props \in Properties
  BY RequestShapes DEF RegisterProperties, InstanceInfo
<1>2. UpdateProperties(req[r].id, req[r].new, req[r].new.props) /\ Become(r, Idle) /\ gw' = gw
  BY DEF RegisterProperties
<1>3. /\ Present' = Present
      /\ \A j \in Present : /\ n \in EpNames(inst'[j].props) <=> n \in EpNames(inst[j].props)
                            /\ n \in inst'[j].endpoints <=> n \in inst[j].endpoints
  BY <1>1, <1>2, PropertiesEffect
<1>4. ~Makes(r, n) /\ (\A i \in Instances : ~Drops(r, i, n)) /\ Idle.pc = "idle"
  BY <1>1 DEF Makes, Drops, Bases, Idle
<1> QED
  BY <1>2, <1>3, <1>4, Ends

LEMMA BeatReadNames ==
  ASSUME TypeInv, NEW n \in Names \ astray', NameInv(n), ShapeInv(n),
         NEW r \in Requests, NEW i \in Instances, BeatRead(r, i)
  PROVE  NameInv(n)' /\ ShapeInv(n)'
<1> DEFINE x == [pc |-> "beat", id |-> i, base |-> Read(i)]
<1>1. x.pc = "beat" /\ Become(r, x) /\ UNCHANGED <<inst, gw>> /\ req[r] = Idle
  BY DEF BeatRead
<1> HIDE DEF x
<1>2. ~Makes(r, n) /\ \A j \in Instances : ~Drops(r, j, n)
  BY <1>1 DEF Makes, Drops, Bases, Idle
<1>3. Present' = Present
  BY <1>1 DEF Present
<1> QED
  BY <1>1, <1>2, <1>3, Ends

LEMMA BeatWriteNames ==
  ASSUME TypeInv, NEW n \in Names \ astray', NameInv(n), ShapeInv(n),
         NEW r \in Requests, BeatWrite(r)
  PROVE  NameInv(n)' /\ ShapeInv(n)'
<1> DEFINE p == [req[r].base.props EXCEPT !.mecState = "ACTIVE", !.late = FALSE]
<1>1. req[r].pc = "beat" /\ req[r].id \in Instances /\ req[r].base \in InstanceInfo
  BY RequestShapes DEF BeatWrite
<1>2. p \in Properties /\ p.eps = req[r].base.props.eps
  BY <1>1 DEF InstanceInfo, Properties, States
<1>3. UpdateProperties(req[r].id, req[r].base, p) /\ Become(r, Idle) /\ gw' = gw
  BY DEF BeatWrite
<1> HIDE DEF p
<1>4. /\ Present' = Present
      /\ \A j \in Present : /\ n \in EpNames(inst'[j].props) <=> n \in EpNames(inst[j].props)
                            /\ n \in inst'[j].endpoints <=> n \in inst[j].endpoints
  BY <1>1, <1>2, <1>3, PropertiesEffect
<1>5. ~Makes(r, n) /\ (\A i \in Instances : ~Drops(r, i, n)) /\ Idle.pc = "idle"
  BY <1>1 DEF Makes, Drops, Bases, Idle
<1> QED
  BY <1>3, <1>4, <1>5, Ends

LEMMA CheckOneNames ==
  ASSUME TypeInv, NEW n \in Names \ astray', NameInv(n), ShapeInv(n),
         NEW i \in Instances, CheckOne(i)
  PROVE  NameInv(n)' /\ ShapeInv(n)'
<1> DEFINE p == [check[i].props EXCEPT !.mecState = "SUSPENDED"]
<1>1. check[i] \in InstanceInfo
  BY InstanceShapes DEF CheckOne
<1>2. p \in Properties /\ p.eps = check[i].props.eps
  BY <1>1 DEF InstanceInfo, Properties, States
<1>3. UNCHANGED <<gw, req>> /\ (UNCHANGED inst \/ UpdateProperties(i, check[i], p))
  BY DEF CheckOne
<1> HIDE DEF p
<1>4. CASE UNCHANGED inst
  BY <1>3, <1>4, Quiet DEF Present
<1>5. CASE UpdateProperties(i, check[i], p)
  <2>1. /\ Present' = Present
        /\ \A j \in Present : /\ n \in EpNames(inst'[j].props) <=> n \in EpNames(inst[j].props)
                              /\ n \in inst'[j].endpoints <=> n \in inst[j].endpoints
    BY <1>1, <1>2, <1>5, PropertiesEffect
  <2> QED
    BY <1>3, <2>1, Quiet
<1> QED
  BY <1>3, <1>4, <1>5

LEMMA LateNames ==
  ASSUME TypeInv, NEW n \in Names \ astray', NameInv(n), ShapeInv(n),
         NEW i \in Instances, Late(i)
  PROVE  NameInv(n)' /\ ShapeInv(n)'
<1> DEFINE x == [inst[i] EXCEPT !.props.late = TRUE]
<1>1. i \in Present /\ inst[i] \in InstanceInfo
  BY InstanceShapes DEF Late
<1>2. x \in InstanceInfo /\ x.props.eps = inst[i].props.eps /\ x.endpoints = inst[i].endpoints
  BY <1>1 DEF InstanceInfo, Properties
<1>3. x # NoInstance /\ EpNames(x.props) = EpNames(inst[i].props)
  BY <1>2, StoreAssumption DEF EpNames
<1>4. UNCHANGED <<gw, req>> /\ (UNCHANGED inst \/ inst' = [inst EXCEPT ![i] = x])
  BY DEF Late, TypeInv, TypeOK
<1> HIDE DEF x
<1>5. CASE UNCHANGED inst
  BY <1>4, <1>5, Quiet DEF Present
<1>6. CASE inst' = [inst EXCEPT ![i] = x]
  <2>1. inst'[i] = x /\ \A j \in Instances \ {i} : inst'[j] = inst[j]
    BY <1>6 DEF TypeInv, TypeOK
  <2>2. Present' = Present
    BY <1>1, <1>3, <2>1 DEF Present
  <2>3. \A j \in Present : /\ n \in EpNames(inst'[j].props) <=> n \in EpNames(inst[j].props)
                           /\ n \in inst'[j].endpoints <=> n \in inst[j].endpoints
    BY <1>2, <1>3, <2>1 DEF Present
  <2> QED
    BY <1>4, <2>2, <2>3, Quiet
<1> QED
  BY <1>4, <1>5, <1>6

----------------------------------------------------------------------------
(* Names: updates and deletions.                                           *)

\* An update or a deletion has changed the gateway: what it makes has an
\* entry, what it will drop has none.
LEMMA Starts ==
  ASSUME TypeInv, NEW n \in Names, NameInv(n),
         NEW r \in Requests, req[r] = Idle, NEW i \in Present, UNCHANGED inst,
         NEW x, x.pc \in {"update", "delete"}, x.id = i, Become(r, x),
         NEW new,
         n \in EpNames(x.base.props) <=> n \in EpNames(inst[i].props),
         x.pc = "update" => (n \in EpNames(x.new.props) <=> n \in new),
         x.pc = "delete" => n \notin new,
         n \in new => n \in EpNames(inst[i].props) \/ n \notin InUse,
         n \in gw' <=> /\ n \in gw \/ n \in new \ EpNames(inst[i].props)
                       /\ n \notin EpNames(inst[i].props) \ new
  PROVE  NameInv(n)'
<1> DEFINE old == EpNames(inst[i].props)
<1>1. /\ req'[r] = x /\ \A q \in Requests \ {r} : req'[q] = req[q]
      /\ \A q \in Requests \ {r} : Makes(q, n)' <=> Makes(q, n)
      /\ \A q \in Requests \ {r}, j \in Instances :
           /\ Bases(q, j, n)' <=> Bases(q, j, n)
           /\ Drops(q, j, n)' <=> Drops(q, j, n)
           /\ Lists(q, j, n)' <=> Lists(q, j, n)
      /\ \A j \in Instances : ~Lists(r, j, n)'
  BY RequestMoves
<1>2. /\ i \in Instances /\ (Has(i, n) <=> n \in old)
      /\ \A j \in Instances : Has(j, n)' <=> Has(j, n)
  BY DEF Has, Present
<1>3. /\ Makes(r, n)' <=> n \in new \ old
      /\ \A j \in Instances : /\ Bases(r, j, n)' <=> j = i /\ n \in old
                              /\ Drops(r, j, n)' <=> j = i /\ n \in old \ new
  BY <1>1 DEF Makes, Bases, Drops
<1>4. ~Makes(r, n) /\ \A j \in Instances : ~Drops(r, j, n) /\ ~Bases(r, j, n) /\ ~Lists(r, j, n)
  BY DEF Idle, Makes, Drops, Bases, Lists
<1>5. \A j \in Instances : Uses(j, n)' => Uses(j, n)
  <2>1. ASSUME NEW j \in Instances, Uses(j, n)' PROVE Uses(j, n)
    <3>1. CASE Has(j, n)'
      BY <1>2, <3>1 DEF Uses
    <3>2. CASE \E q \in Requests : Bases(q, j, n)' \/ Lists(q, j, n)'
      <4>1. PICK q \in Requests : Bases(q, j, n)' \/ Lists(q, j, n)'
        BY <3>2
      <4>2. CASE q = r
        BY <1>1, <1>2, <1>3, <4>1, <4>2 DEF Uses
      <4>3. CASE q # r
        BY <1>1, <4>1, <4>3 DEF Uses
      <4> QED
        BY <4>2, <4>3
    <3> QED
      BY <2>1, <3>1, <3>2 DEF Uses
  <2> QED
    BY <2>1
<1> HIDE DEF old
<1>6. CASE n \in new \ old
  <2>1. /\ n \in gw' /\ \A j \in Instances : ~Uses(j, n)
        /\ \A q \in Requests : ~Makes(q, n)
    BY <1>6, UnusedNames DEF old
  <2>2. \A q \in Requests : Makes(q, n)' <=> q = r
    BY <1>1, <1>3, <1>6, <2>1
  <2>3. \A j \in Instances : ~Uses(j, n)'
    BY <1>5, <2>1
  <2> QED
    BY <2>1, <2>2, <2>3, Made
<1>7. CASE n \in old \ new
  <2>1. Has(i, n) /\ Uses(i, n)
    BY <1>2, <1>7 DEF Uses
  <2>2. /\ \A j \in Instances : Uses(j, n) => j = i
        /\ \A q \in Requests : ~Makes(q, n)
    BY <1>2, <2>1 DEF NameInv
  <2>3. \A j \in Instances : Uses(j, n)' => j = i
    BY <1>5, <2>2
  <2>4. \A q \in Requests : ~Makes(q, n)'
    BY <1>1, <1>3, <1>7, <2>2
  <2>5. n \notin gw' /\ Drops(r, i, n)'
    BY <1>2, <1>3, <1>7 DEF old
  <2> QED
    BY <1>2, <2>3, <2>4, <2>5, Belongs
<1>8. CASE n \in old <=> n \in new
  <2>1. \A q \in Requests : Makes(q, n)' <=> Makes(q, n)
    BY <1>1, <1>3, <1>4, <1>8
  <2>2. \A q \in Requests, j \in Instances : Drops(q, j, n)' <=> Drops(q, j, n)
    BY <1>1, <1>3, <1>4, <1>8
  <2>3. n \in gw' <=> n \in gw
    BY <1>8 DEF old
  <2> QED
    BY <1>2, <1>5, <2>1, <2>2, <2>3, Untouched
<1> QED
  BY <1>6, <1>7, <1>8

LEMMA UpdateNames ==
  ASSUME TypeInv, NEW n \in Names \ astray', NameInv(n), ShapeInv(n),
         NEW r \in Requests, NEW body \in Bodies, NEW i \in Present, Update(r, i, body)
  PROVE  NameInv(n)' /\ ShapeInv(n)'
<1> DEFINE new == Generate(body, inst[i].props.eps)
           old == EpNames(inst[i].props)
           x == [pc |-> "update", id |-> i, base |-> Read(i), new |-> new]
<1>1. body \in AllBodies /\ Room /\ req[r] = Idle
  BY ServicesAssumption DEF Update
<1>2. /\ i \in Instances /\ inst[i].props \in Properties
      /\ inst[i].props.eps \in [Uris -> Names \cup {NoName}] /\ old \in SUBSET Names
      /\ EpNames(Read(i).props) = old
  BY InstanceNames, InstanceShapes DEF EpNames, InstanceInfo
<1>3. n \in old <=> \E u \in Uris : inst[i].props.eps[u] = n
  BY <1>2, EpMember
<1>4. /\ new \in InstanceInfo /\ EpNames(new.props) \in SUBSET Names
      /\ n \in EpNames(new.props) => n \in old \/ n \notin InUse
      /\ n \in new.endpoints => n \in EpNames(new.props)
  BY <1>1, <1>2, <1>3, NewNames, Generated
<1>5. /\ Gateway(EpNames(new.props) \ old, old \ EpNames(new.props))
      /\ Become(r, x) /\ UNCHANGED <<inst, check>>
  BY DEF Update
<1>6. x.pc = "update" /\ x.id = i /\ x.base = Read(i) /\ x.new = new
  OBVIOUS
<1> HIDE DEF new, x, old
<1>7. n \in gw' <=> (n \in gw \/ n \in EpNames(new.props) \ old) /\ n \notin old \ EpNames(new.props)
  <2>1. EpNames(new.props) \ old \in SUBSET Names /\ old \ EpNames(new.props) \in SUBSET Names
    BY <1>2, <1>4
  <2> QED
    BY <1>5, <2>1, GatewayEffect
<1>8. NameInv(n)'
  BY <1>1, <1>2, <1>4, <1>5, <1>6, <1>7, Starts DEF old
<1>9. req'[r] = x /\ \A q \in Requests \ {r} : req'[q] = req[q]
  BY <1>5, RequestMoves
<1>10. ShapeInv(n)'
  BY <1>4, <1>5, <1>6, <1>9, ShapesKept DEF Present
<1> QED
  BY <1>8, <1>10

LEMMA DeleteNames ==
  ASSUME TypeInv, NEW n \in Names \ astray', NameInv(n), ShapeInv(n),
         NEW r \in Requests, NEW i \in Instances, Delete(r, i)
  PROVE  NameInv(n)' /\ ShapeInv(n)'
<1> DEFINE old == EpNames(inst[i].props)
           x == [pc |-> "delete", id |-> i, base |-> Read(i)]
<1>1. req[r] = Idle /\ i \in Present
  BY DEF Delete
<1>2. old \in SUBSET Names /\ EpNames(Read(i).props) = old
  BY <1>1, InstanceNames, InstanceShapes DEF EpNames
<1>3. Gateway({}, old) /\ Become(r, x) /\ UNCHANGED <<inst, check>>
  BY DEF Delete
<1>4. x.pc = "delete" /\ x.id = i /\ x.base = Read(i)
  OBVIOUS
<1> HIDE DEF x, old
<1> DEFINE new == {}
<1>5. n \in gw' <=> (n \in gw \/ n \in new \ old) /\ n \notin old \ new
  <2>1. new \in SUBSET Names /\ Gateway(new, old) /\ n \notin new
    BY <1>3
  <2> HIDE DEF new
  <2>2. old \in SUBSET Names
    BY <1>2
  <2>3. \A m \in Names \ astray' : m \in gw' <=> (m \in gw \/ m \in new) /\ m \notin old
    BY <2>1, <2>2, GatewayEffect, Zenon
  <2> QED
    BY <2>1, <2>3
<1>6. NameInv(n)'
  <2>1. /\ n \notin new /\ x.pc \in {"update", "delete"} /\ x.pc # "update"
        /\ n \in EpNames(x.base.props) <=> n \in EpNames(inst[i].props)
    BY <1>2, <1>4 DEF old
  <2>2. n \in gw' <=> /\ n \in gw \/ n \in new \ EpNames(inst[i].props)
                      /\ n \notin EpNames(inst[i].props) \ new
    BY <1>5 DEF old
  <2>3. /\ x.pc = "update" => (n \in EpNames(x.new.props) <=> n \in new)
        /\ x.pc = "delete" => n \notin new
        /\ n \in new => n \in EpNames(inst[i].props) \/ n \notin InUse
    BY <2>1
  <2> HIDE DEF new
  <2> QED
    BY <1>1, <1>3, <1>4, <2>1, <2>2, <2>3, Starts
<1>7. req'[r] = x /\ \A q \in Requests \ {r} : req'[q] = req[q]
  BY <1>3, RequestMoves
<1>8. ShapeInv(n)'
  BY <1>3, <1>4, <1>7, ShapesKept DEF Present
<1> QED
  BY <1>6, <1>8

\* The update is stored: what it makes becomes the instance's, what it drops
\* is no longer.
LEMMA UpdateInstanceNames ==
  ASSUME TypeInv, NEW n \in Names \ astray', NameInv(n), ShapeInv(n),
         NEW r \in Requests, UpdateInstance(r)
  PROVE  NameInv(n)' /\ ShapeInv(n)'
<1>0. PICK i \in Instances : i = req[r].id
  BY RequestShapes DEF UpdateInstance
<1> DEFINE new == req[r].new
           before == EpNames(req[r].base.props)
           after == EpNames(new.props)
<1>1. /\ req[r].pc = "update"
      /\ new \in InstanceInfo /\ new # NoInstance /\ req[r].base \in InstanceInfo
      /\ Become(r, Idle) /\ gw' = gw
  BY RequestShapes, StoreAssumption DEF UpdateInstance
<1>2. /\ Makes(r, n) <=> n \in after \ before
      /\ \A j \in Instances : /\ Bases(r, j, n) <=> j = i /\ n \in before
                              /\ Drops(r, j, n) <=> j = i /\ n \in before \ after
  BY <1>0, <1>1 DEF Makes, Bases, Drops
<1>3. n \in new.endpoints => n \in after
  BY <1>1 DEF ShapeInv, At
<1>4. Idle.pc = "idle"
  BY DEF Idle
<1>5. CASE i \in Present /\ Overwrite(i, req[r].base, new)
  <2>1. /\ inst' = [inst EXCEPT ![i] = new]
        /\ \/ inst[i].props.eps = req[r].base.props.eps /\ inst[i].endpoints = req[r].base.endpoints
           \/ n \notin NamesOf(inst[i]) \cup NamesOf(req[r].base) \cup NamesOf(new)
    BY <1>1, <1>5, OverwriteEffect
  <2>2. \/ n \in EpNames(inst[i].props) <=> n \in before
        \/ n \notin EpNames(inst[i].props) /\ n \notin before /\ n \notin after
    BY <2>1 DEF EpNames, NamesOf
  <2> HIDE DEF new, before, after
  <2>3. /\ inst'[i] = new /\ \A j \in Instances \ {i} : inst'[j] = inst[j]
        /\ \A j \in Instances \ {i} : (Has(j, n)' <=> Has(j, n)) /\ (j \in Present' <=> j \in Present)
        /\ Has(i, n)' <=> n \in after
    BY <1>1, <2>1, InstanceMoves DEF after
  <2>4. Has(i, n) <=> n \in before
    BY <1>5, <2>2 DEF Has
  <2>5. /\ req'[r] = Idle /\ \A q \in Requests \ {r} : req'[q] = req[q]
        /\ ~Makes(r, n)' /\ \A q \in Requests \ {r} : Makes(q, n)' <=> Makes(q, n)
        /\ \A q \in Requests \ {r}, j \in Instances :
             /\ Bases(q, j, n)' <=> Bases(q, j, n)
             /\ Drops(q, j, n)' <=> Drops(q, j, n)
             /\ Lists(q, j, n)' <=> Lists(q, j, n)
        /\ \A j \in Instances : ~Bases(r, j, n)' /\ ~Drops(r, j, n)' /\ ~Lists(r, j, n)'
    BY <1>1, <1>4, RequestMoves
  <2>6. \A j \in Instances \ {i} : Uses(j, n)' => Uses(j, n)
    BY <2>3, <2>5 DEF Uses
  <2>7. NameInv(n)'
    <3>1. CASE n \in after \ before
      <4>1. /\ n \in gw /\ \A j \in Instances : ~Uses(j, n)
            /\ \A q \in Requests : Makes(q, n) => q = r
        BY <1>2, <3>1 DEF NameInv
      <4>2. \A j \in Instances : Uses(j, n)' => j = i
        BY <2>6, <4>1
      <4>3. \A q \in Requests : ~Makes(q, n)'
        BY <2>5, <4>1
      <4>4. \A q \in Requests, j \in Instances : ~Drops(q, j, n)'
        BY <2>5, <4>1 DEF Uses, Drops
      <4>5. Has(i, n)' /\ n \in gw'
        BY <1>1, <2>3, <3>1, <4>1
      <4> QED
        BY <1>1, <4>2, <4>3, <4>4, <4>5, Belongs
    <3>2. CASE n \in before \ after
      <4>1. Drops(r, i, n) /\ Uses(i, n)
        BY <1>1, <1>2, <2>4, <3>2 DEF Uses
      <4>2. /\ n \notin gw /\ \A j \in Instances : Uses(j, n) => j = i
            /\ \A q \in Requests : ~Makes(q, n)
        BY <1>1, <4>1 DEF NameInv
      <4>3. \A j \in Instances : Uses(j, n)' => j = i
        BY <2>6, <4>2
      <4>4. \A q \in Requests : ~Makes(q, n)'
        BY <2>5, <4>2
      <4>5. n \notin gw' /\ ~Has(i, n)'
        BY <1>1, <2>3, <3>2, <4>2
      <4> QED
        BY <1>1, <4>3, <4>4, <4>5, Belongs
    <3>3. CASE n \in before <=> n \in after
      <4>1. \A j \in Instances : Has(j, n)' <=> Has(j, n)
        BY <2>3, <2>4, <3>3
      <4>2. \A j \in Instances : Uses(j, n)' => Uses(j, n)
        BY <2>5, <4>1 DEF Uses
      <4>3. \A q \in Requests : Makes(q, n)' <=> Makes(q, n)
        BY <1>2, <2>5, <3>3
      <4>4. \A q \in Requests, j \in Instances : Drops(q, j, n)' <=> Drops(q, j, n)
        BY <1>2, <2>5, <3>3
      <4> QED
        BY <1>1, <4>1, <4>2, <4>3, <4>4, Untouched
    <3> QED
      BY <3>1, <3>2, <3>3
  <2>8. ShapeInv(n)'
    <3>1. \A j \in Present' : \/ n \in inst'[j].endpoints => n \in EpNames(inst'[j].props)
                              \/ j \in Present /\ inst'[j] = inst[j]
      BY <1>3, <2>3 DEF Present, after
    <3> QED
      BY <1>4, <2>5, <3>1, ShapesKept
  <2> QED
    BY <2>7, <2>8
<1>6. CASE astray' = astray \cup (before \ after) \cup (after \ before) /\ UNCHANGED inst
  <2>1. ~Makes(r, n) /\ \A j \in Instances : ~Drops(r, j, n)
    BY <1>2, <1>6
  <2>2. Present' = Present
    BY <1>6 DEF Present
  <2> QED
    BY <1>1, <1>4, <1>6, <2>1, <2>2, Ends
<1> QED
  BY <1>0, <1>5, <1>6 DEF UpdateInstance

\* The instance goes: none of its names is on the gateway any more.
LEMMA Removed ==
  ASSUME TypeInv, NEW n, NameInv(n), ShapeInv(n), NEW i \in Instances,
         inst' = [inst EXCEPT ![i] = NoInstance], Uses(i, n), n \notin gw',
         NEW r \in Requests, req[r].pc \in {"delete", "terminate"}, NEW x, Become(r, x),
         x.pc \in {"idle", "terminate"},
         \A j \in Instances : Lists(r, j, n)' => Lists(r, j, n)
  PROVE  NameInv(n)' /\ ShapeInv(n)'
<1>1. /\ \A j \in Instances \ {i} : inst'[j] = inst[j]
      /\ \A j \in Instances \ {i} : (Has(j, n)' <=> Has(j, n)) /\ (j \in Present' <=> j \in Present)
      /\ ~Has(i, n)' /\ inst'[i] = NoInstance
  BY InstanceMoves
<1>2. /\ req'[r] = x /\ \A q \in Requests \ {r} : req'[q] = req[q]
      /\ ~Makes(r, n)' /\ \A q \in Requests \ {r} : Makes(q, n)' <=> Makes(q, n)
      /\ \A q \in Requests \ {r}, j \in Instances :
           /\ Bases(q, j, n)' <=> Bases(q, j, n)
           /\ Lists(q, j, n)' <=> Lists(q, j, n)
      /\ \A j \in Instances : ~Bases(r, j, n)'
  BY RequestMoves
<1>3. /\ \A j \in Instances : Uses(j, n) => j = i
      /\ \A q \in Requests : ~Makes(q, n)
  BY DEF NameInv
<1>4. \A j \in Instances \ {i} : Uses(j, n)' => Uses(j, n)
  BY <1>1, <1>2 DEF Uses
<1>5. NameInv(n)'
  BY <1>1, <1>2, <1>3, <1>4, Belongs
<1>6. ShapeInv(n)'
  <2>1. \A j \in Present' : j \in Present /\ inst'[j] = inst[j]
    BY <1>1 DEF Present
  <2> QED
    BY <1>2, <2>1, ShapesKept
<1> QED
  BY <1>5, <1>6

\* The instance goes, but it did not have the name.
LEMMA NotTouched ==
  ASSUME TypeInv, NEW n, NameInv(n), ShapeInv(n), NEW i \in Instances,
         inst' = [inst EXCEPT ![i] = NoInstance], ~Has(i, n), n \in gw' <=> n \in gw,
         NEW r \in Requests, ~Makes(r, n), \A j \in Instances : ~Drops(r, j, n),
         NEW x, Become(r, x), x.pc \in {"idle", "terminate"},
         \A j \in Instances : Lists(r, j, n)' => Lists(r, j, n)
  PROVE  NameInv(n)' /\ ShapeInv(n)'
<1>1. /\ \A j \in Instances \ {i} : inst'[j] = inst[j]
      /\ \A j \in Instances \ {i} : (Has(j, n)' <=> Has(j, n)) /\ (j \in Present' <=> j \in Present)
      /\ ~Has(i, n)' /\ inst'[i] = NoInstance
  BY InstanceMoves
<1>2. /\ req'[r] = x /\ \A q \in Requests \ {r} : req'[q] = req[q]
      /\ ~Makes(r, n)' /\ \A q \in Requests \ {r} : Makes(q, n)' <=> Makes(q, n)
      /\ \A q \in Requests \ {r}, j \in Instances :
           /\ Bases(q, j, n)' <=> Bases(q, j, n)
           /\ Drops(q, j, n)' <=> Drops(q, j, n)
           /\ Lists(q, j, n)' <=> Lists(q, j, n)
      /\ \A j \in Instances : ~Bases(r, j, n)' /\ ~Drops(r, j, n)'
  BY RequestMoves
<1>3. \A j \in Instances : Has(j, n)' <=> Has(j, n)
  BY <1>1
<1>4. \A j \in Instances : Uses(j, n)' => Uses(j, n)
  BY <1>2, <1>3 DEF Uses
<1>5. \A q \in Requests : Makes(q, n)' <=> Makes(q, n)
  BY <1>2
<1>6. \A q \in Requests, j \in Instances : Drops(q, j, n)' <=> Drops(q, j, n)
  BY <1>2
<1>7. NameInv(n)'
  BY <1>3, <1>4, <1>5, <1>6, Untouched
<1>8. ShapeInv(n)'
  <2>1. \A j \in Present' : j \in Present /\ inst'[j] = inst[j]
    BY <1>1 DEF Present
  <2> QED
    BY <1>2, <2>1, ShapesKept
<1> QED
  BY <1>7, <1>8

LEMMA UnregisterNames ==
  ASSUME TypeInv, NEW n \in Names \ astray', NameInv(n), ShapeInv(n),
         NEW r \in Requests, Unregister(r)
  PROVE  NameInv(n)' /\ ShapeInv(n)'
<1>0. PICK i \in Instances : i = req[r].id
  BY RequestShapes DEF Unregister
<1> DEFINE cleaned == EpNames(req[r].base.props)
<1>1. /\ req[r].pc = "delete" /\ Become(r, Idle) /\ gw' = gw /\ Idle.pc = "idle"
      /\ inst \in [Instances -> InstanceInfo \cup {NoInstance}]
  BY DEF Unregister, Idle, TypeInv, TypeOK
<1>2. /\ ~Makes(r, n)
      /\ \A j \in Instances : /\ Bases(r, j, n) <=> j = i /\ n \in cleaned
                              /\ Drops(r, j, n) <=> j = i /\ n \in cleaned
  BY <1>0, <1>1 DEF Makes, Bases, Drops
<1>3. n \in cleaned => Uses(i, n) /\ n \notin gw
  BY <1>2 DEF NameInv, Uses
<1>4. \A j \in Instances : Lists(r, j, n)' => Lists(r, j, n)
  BY <1>1, RequestMoves
<1> HIDE DEF cleaned
<1>5. CASE inst' = [inst EXCEPT ![i] = NoInstance] /\ (n \in cleaned \/ ~Has(i, n))
  <2>1. CASE n \in cleaned
    BY <1>1, <1>3, <1>4, <1>5, <2>1, Removed
  <2>2. CASE n \notin cleaned
    BY <1>1, <1>2, <1>4, <1>5, <2>2, NotTouched
  <2> QED
    BY <2>1, <2>2
<1>6. CASE UNCHANGED inst /\ n \notin cleaned
  BY <1>1, <1>2, <1>6, Ends DEF Present
<1>7. i \in Present /\ inst' = [inst EXCEPT ![i] = NoInstance]
      /\ astray' = astray \cup (EpNames(inst[i].props) \ cleaned)
      => n \in cleaned \/ ~Has(i, n)
  BY DEF Has
<1>8. i \notin Present /\ UNCHANGED inst =>
        inst' = [inst EXCEPT ![i] = NoInstance] /\ ~Has(i, n)
  BY <1>1 DEF Has, Present
<1> QED
  BY <1>0, <1>5, <1>6, <1>7, <1>8 DEF Unregister, cleaned

LEMMA TerminateNames ==
  ASSUME TypeInv, NEW n \in Names \ astray', NameInv(n), ShapeInv(n),
         NEW r \in Requests, Terminate(r)
  PROVE  NameInv(n)' /\ ShapeInv(n)'
<1> DEFINE list == [i \in Present |-> ApiGwSerNames(inst[i])]
           x == [pc |-> "terminate", list |-> list]
<1>1. req[r] = Idle /\ Become(r, x) /\ UNCHANGED <<inst, gw>>
  BY DEF Terminate
<1>2. x.pc = "terminate" /\ x.list = list
  OBVIOUS
<1>3. /\ DOMAIN list = Present
      /\ \A i \in Present : n \in list[i] => Has(i, n)
  BY DEF ApiGwSerNames, ShapeInv, Has
<1> HIDE DEF list, x
<1>4. /\ req'[r] = x /\ \A q \in Requests \ {r} : req'[q] = req[q]
      /\ ~Makes(r, n)' /\ \A q \in Requests \ {r} : Makes(q, n)' <=> Makes(q, n)
      /\ \A q \in Requests \ {r}, j \in Instances :
           /\ Bases(q, j, n)' <=> Bases(q, j, n)
           /\ Drops(q, j, n)' <=> Drops(q, j, n)
           /\ Lists(q, j, n)' <=> Lists(q, j, n)
      /\ \A j \in Instances : ~Bases(r, j, n)' /\ ~Drops(r, j, n)'
  BY <1>1, <1>2, RequestMoves
<1>5. ~Makes(r, n) /\ \A j \in Instances : ~Drops(r, j, n)
  BY <1>1 DEF Idle, Makes, Drops, Bases
<1>6. \A j \in Instances : Has(j, n)' <=> Has(j, n)
  BY <1>1 DEF Has, Present
<1>7. \A j \in Instances : Lists(r, j, n)' => Has(j, n)
  BY <1>2, <1>3, <1>4 DEF Lists
<1>8. \A j \in Instances : Uses(j, n)' => Uses(j, n)
  BY <1>4, <1>6, <1>7 DEF Uses
<1>9. NameInv(n)'
  BY <1>1, <1>4, <1>5, <1>6, <1>8, Untouched
<1>10. ShapeInv(n)'
  BY <1>1, <1>2, <1>4, ShapesKept DEF Present
<1> QED
  BY <1>9, <1>10

LEMMA TerminateOneNames ==
  ASSUME TypeInv, NEW n \in Names \ astray', NameInv(n), ShapeInv(n),
         NEW r \in Requests, TerminateOne(r)
  PROVE  NameInv(n)' /\ ShapeInv(n)'
<1> DEFINE X(i) == IF DOMAIN req[r].list = {i} THEN Idle
                   ELSE [req[r] EXCEPT !.list = Restrict(@, DOMAIN @ \ {i})]
<1>1. PICK i \in DOMAIN req[r].list :
        \/ /\ i \in Present
           /\ inst' = [inst EXCEPT ![i] = NoInstance]
           /\ \E lost \in SUBSET req[r].list[i] :
                /\ gw' = gw \ (req[r].list[i] \ lost)
                /\ astray' = astray \cup (EpNames(inst[i].props) \ req[r].list[i]) \cup lost
           /\ Become(r, X(i))
        \/ Become(r, Idle) /\ UNCHANGED <<inst, gw, astray>>
  BY DEF TerminateOne
<1>2. req[r].pc = "terminate" /\ Idle.pc = "idle" /\ i \in Instances
  BY <1>1, RequestShapes DEF TerminateOne, Idle
<1>3. ~Makes(r, n) /\ \A j \in Instances : ~Drops(r, j, n)
  BY <1>2 DEF Makes, Drops, Bases
<1>4. CASE /\ i \in Present
           /\ inst' = [inst EXCEPT ![i] = NoInstance]
           /\ \E lost \in SUBSET req[r].list[i] :
                /\ gw' = gw \ (req[r].list[i] \ lost)
                /\ astray' = astray \cup (EpNames(inst[i].props) \ req[r].list[i]) \cup lost
           /\ Become(r, X(i))
  <2>0. PICK x : x = X(i)
    OBVIOUS
  <2>1. Become(r, x) /\ req'[r] = x
    BY <1>4, <2>0, RequestMoves
  <2>2. /\ x.pc \in {"idle", "terminate"}
        /\ x.pc = "terminate" => x.list = Restrict(req[r].list, DOMAIN req[r].list \ {i})
    <3>1. req[r] \in ReqTypes
      BY DEF TypeInv
    <3>2. req[r] \in [pc : {"terminate"}, list : UNION {[D -> SUBSET Names] : D \in SUBSET Instances}]
      BY <1>2, <3>1 DEF ReqTypes, Idle
    <3> QED
      BY <1>2, <2>0, <3>2
  <2>3. \A j \in Instances : Lists(r, j, n)' => Lists(r, j, n)
    <3>1. \A j \in DOMAIN Restrict(req[r].list, DOMAIN req[r].list \ {i}) :
            /\ j \in DOMAIN req[r].list
            /\ Restrict(req[r].list, DOMAIN req[r].list \ {i})[j] = req[r].list[j]
      BY DEF Restrict
    <3> QED
      BY <1>2, <2>1, <2>2, <3>1 DEF Lists
  <2>4. CASE n \in req[r].list[i]
    <3>1. Uses(i, n)
      BY <1>1, <1>2, <2>4 DEF Uses, Lists
    <3>2. n \notin gw'
      BY <1>4, <2>4
    <3> QED
      BY <1>2, <1>4, <2>1, <2>2, <2>3, <3>1, <3>2, Removed
  <2>5. CASE n \notin req[r].list[i]
    <3>1. ~Has(i, n)
      BY <1>4, <2>5 DEF Has
    <3>2. n \in gw' <=> n \in gw
      BY <1>4, <2>5
    <3> QED
      BY <1>2, <1>3, <1>4, <2>1, <2>2, <2>3, <3>1, <3>2, NotTouched
  <2> QED
    BY <2>4, <2>5
<1>5. CASE Become(r, Idle) /\ UNCHANGED <<inst, gw, astray>>
  BY <1>2, <1>3, <1>5, Ends DEF Present
<1> QED
  BY <1>1, <1>4, <1>5

----------------------------------------------------------------------------
(* Every step keeps what is said of the names that are not astray.         *)

LEMMA NamesNext ==
  ASSUME TypeInv, NamesInv, [Next]_vars
  PROVE  NamesInv'
<1> SUFFICES ASSUME NEW n \in Names \ astray' PROVE NameInv(n)' /\ ShapeInv(n)'
  BY DEF NamesInv
<1>0. NameInv(n) /\ ShapeInv(n)
  BY TypeNext DEF NamesInv
<1>1. ASSUME NEW r \in Requests, Request(r) PROVE NameInv(n)' /\ ShapeInv(n)'
  <2>1. ASSUME NEW body \in Bodies, Register(r, body) PROVE NameInv(n)' /\ ShapeInv(n)'
    BY <1>0, <2>1, RegisterNames
  <2>2. ASSUME NEW body \in Bodies, NEW i \in Present, Update(r, i, body)
        PROVE NameInv(n)' /\ ShapeInv(n)'
    BY <1>0, <2>2, UpdateNames
  <2>3. ASSUME NEW i \in Instances, Delete(r, i) PROVE NameInv(n)' /\ ShapeInv(n)'
    BY <1>0, <2>3, DeleteNames
  <2>4. ASSUME NEW i \in Instances, BeatRead(r, i) PROVE NameInv(n)' /\ ShapeInv(n)'
    BY <1>0, <2>4, BeatReadNames
  <2>5. CASE Terminate(r)
    BY <1>0, <2>5, TerminateNames
  <2> QED
    BY <1>1, <2>1, <2>2, <2>3, <2>4, <2>5 DEF Request
<1>2. ASSUME NEW r \in Requests, RequestStep(r) PROVE NameInv(n)' /\ ShapeInv(n)'
  <2>1. CASE RegisterInstance(r)
    BY <1>0, <2>1, RegisterInstanceNames
  <2>2. CASE RegisterProperties(r)
    BY <1>0, <2>2, RegisterPropertiesNames
  <2>3. CASE UpdateInstance(r)
    BY <1>0, <2>3, UpdateInstanceNames
  <2>4. CASE Unregister(r)
    BY <1>0, <2>4, UnregisterNames
  <2>5. CASE TerminateOne(r)
    BY <1>0, <2>5, TerminateOneNames
  <2>6. CASE BeatWrite(r)
    BY <1>0, <2>6, BeatWriteNames
  <2> QED
    BY <1>2, <2>1, <2>2, <2>3, <2>4, <2>5, <2>6 DEF RequestStep
<1>3. CASE CheckRead
  BY <1>0, <1>3, Quiet DEF CheckRead, Present
<1>4. ASSUME NEW i \in Instances, CheckOne(i) PROVE NameInv(n)' /\ ShapeInv(n)'
  BY <1>0, <1>4, CheckOneNames
<1>5. ASSUME NEW i \in Instances, Late(i) PROVE NameInv(n)' /\ ShapeInv(n)'
  BY <1>0, <1>5, LateNames
<1>6. CASE UNCHANGED vars
  BY <1>0, <1>6, Quiet DEF vars, Present
<1> QED
  BY <1>1, <1>2, <1>3, <1>4, <1>5, <1>6 DEF Next

LEMMA ServicesInit ==
  ASSUME Init
  PROVE  ServicesInv
<1>1. \A i \in Instances : inst[i] = NoInstance /\ check[i] = NoInstance
  BY DEF Init
<1>2. \A r \in Requests : req[r] = Idle
  BY DEF Init
<1>3. Present = {} /\ At({"register"}) = {}
  BY <1>1, <1>2 DEF Present, At, Idle
<1>4. TypeInv
  BY IdleTyped, ServicesAssumption DEF Init, TypeInv, TypeOK
<1>5. NamesInv
  <2>1. \A r \in Requests, n \in Names :
          /\ ~Makes(r, n)
          /\ \A i \in Instances : ~Bases(r, i, n) /\ ~Drops(r, i, n) /\ ~Lists(r, i, n)
    BY <1>2 DEF Makes, Bases, Drops, Lists, Idle
  <2>2. \A n \in Names, i \in Instances : ~Has(i, n)
    BY <1>3 DEF Has
  <2>3. \A n \in Names, i \in Instances : ~Uses(i, n)
    BY <2>1, <2>2 DEF Uses
  <2>4. gw = {}
    BY DEF Init
  <2>5. \A n \in Names : NameInv(n)
    BY <2>1, <2>2, <2>3, <2>4 DEF NameInv
  <2>6. \A n \in Names : ShapeInv(n)
    BY <1>2, <1>3 DEF ShapeInv, At, Idle
  <2> QED
    BY <2>5, <2>6 DEF NamesInv
<1>6. Cardinality({}) = 0 /\ Cardinality(Requests) \in Nat
  BY StoreAssumption, FS_EmptySet, FS_CardinalityType
<1>7. LimitNearlyHolds
  <2>1. ServicesMaxCount \in Nat \ {0}
    BY ServicesAssumption
  <2>2. Cardinality(Present) = 0 /\ Cardinality(At({"register"})) = 0
    BY <1>3, <1>6
  <2> QED
    BY <1>6, <2>1, <2>2 DEF LimitNearlyHolds
<1> QED
  BY <1>4, <1>5, <1>7 DEF ServicesInv
----------------------------------------------------------------------------
(* The limit.                                                              *)

\* The two sets that are counted.
LEMMA Counted ==
  /\ IsFiniteSet(Present) /\ Cardinality(Present) \in Nat
  /\ IsFiniteSet(At({"register"})) /\ Cardinality(At({"register"})) \in Nat
  /\ Cardinality(At({"register"})) <= Cardinality(Requests) /\ Cardinality(Requests) \in Nat
<1>1. Present \subseteq Instances /\ At({"register"}) \subseteq Requests
  BY DEF Present, At
<1> QED
  BY <1>1, StoreAssumption, FS_Subset, FS_CardinalityType

LEMMA LimitShrinks ==
  ASSUME LimitNearlyHolds, Present' \subseteq Present,
         At({"register"})' \subseteq At({"register"})
  PROVE  LimitNearlyHolds'
<1> DEFINE before == At({"register"})
           after == At({"register"})'
<1>1. Cardinality(Present') <= Cardinality(Present) /\ Cardinality(Present') \in Nat
  BY Counted, FS_Subset, FS_CardinalityType
<1>2. Cardinality(after) <= Cardinality(before) /\ Cardinality(after) \in Nat
  BY Counted, FS_Subset, FS_CardinalityType
<1>3. Cardinality(Requests) \in Nat /\ ServicesMaxCount \in Nat
  BY StoreAssumption, FS_CardinalityType, ServicesAssumption
<1> QED
  BY <1>1, <1>2, <1>3, Counted DEF LimitNearlyHolds

LEMMA NobodyRegisters ==
  ASSUME TypeInv, NEW r \in Requests, NEW x, Become(r, x), x.pc # "register"
  PROVE  At({"register"})' = At({"register"}) \ {r}
<1>1. req'[r] = x /\ \A q \in Requests \ {r} : req'[q] = req[q]
  BY DEF TypeInv, Become
<1> QED
  BY <1>1 DEF At

LEMMA LimitNext ==
  ASSUME TypeInv, LimitNearlyHolds, [Next]_vars
  PROVE  LimitNearlyHolds'
<1>0. /\ ServicesMaxCount \in Nat /\ Idle.pc = "idle"
      /\ inst \in [Instances -> InstanceInfo \cup {NoInstance}]
  BY ServicesAssumption DEF Idle, TypeInv, TypeOK
<1>1. ASSUME NEW r \in Requests, NEW body \in Bodies, Register(r, body) PROVE LimitNearlyHolds'
  <2> DEFINE x == [pc |-> "register", new |-> Generate(body, NoEps)]
  <2>1. /\ req[r] = Idle /\ Cardinality(Present) < ServicesMaxCount
        /\ Become(r, x) /\ x.pc = "register" /\ UNCHANGED inst
    BY <1>1 DEF Register
  <2> HIDE DEF x
  <2>2. req'[r] = x /\ \A q \in Requests \ {r} : req'[q] = req[q]
    BY <2>1, RequestMoves
  <2>3. /\ At({"register"})' = At({"register"}) \cup {r} /\ r \notin At({"register"})
        /\ Present' = Present
    BY <1>0, <2>1, <2>2 DEF At, Present
  <2>4. Cardinality(At({"register"})') = Cardinality(At({"register"})) + 1
    BY <2>3, Counted, FS_AddElement
  <2>5. Cardinality(At({"register"})') <= Cardinality(Requests)
    <3>1. At({"register"})' \subseteq Requests
      BY DEF At
    <3> QED
      BY <3>1, StoreAssumption, FS_Subset
  <2> QED
    BY <1>0, <2>1, <2>3, <2>4, <2>5, Counted DEF LimitNearlyHolds
<1>2. ASSUME NEW r \in Requests, NEW body \in Bodies, NEW i \in Present, Update(r, i, body)
      PROVE LimitNearlyHolds'
  <2> DEFINE x == [pc |-> "update", id |-> i, base |-> Read(i),
                   new |-> Generate(body, inst[i].props.eps)]
  <2>1. Become(r, x) /\ x.pc = "update" /\ UNCHANGED inst
    BY <1>2 DEF Update
  <2> HIDE DEF x
  <2> QED
    BY <2>1, NobodyRegisters, LimitShrinks DEF Present
<1>3. ASSUME NEW r \in Requests, NEW i \in Instances, Delete(r, i) PROVE LimitNearlyHolds'
  <2> DEFINE x == [pc |-> "delete", id |-> i, base |-> Read(i)]
  <2>1. Become(r, x) /\ x.pc = "delete" /\ UNCHANGED inst
    BY <1>3 DEF Delete
  <2> HIDE DEF x
  <2> QED
    BY <2>1, NobodyRegisters, LimitShrinks DEF Present
<1>4. ASSUME NEW r \in Requests, NEW i \in Instances, BeatRead(r, i) PROVE LimitNearlyHolds'
  <2> DEFINE x == [pc |-> "beat", id |-> i, base |-> Read(i)]
  <2>1. Become(r, x) /\ x.pc = "beat" /\ UNCHANGED inst
    BY <1>4 DEF BeatRead
  <2> HIDE DEF x
  <2> QED
    BY <2>1, NobodyRegisters, LimitShrinks DEF Present
<1>5. ASSUME NEW r \in Requests, Terminate(r) PROVE LimitNearlyHolds'
  <2> DEFINE x == [pc |-> "terminate", list |-> [i \in Present |-> ApiGwSerNames(inst[i])]]
  <2>1. Become(r, x) /\ x.pc = "terminate" /\ UNCHANGED inst
    BY <1>5 DEF Terminate
  <2> HIDE DEF x
  <2> QED
    BY <2>1, NobodyRegisters, LimitShrinks DEF Present
<1>6. ASSUME NEW r \in Requests, RegisterInstance(r) PROVE LimitNearlyHolds'
  <2>1. /\ req[r].pc = "register" /\ req[r].new # NoInstance /\ r \in At({"register"})
    BY <1>6, RequestShapes, StoreAssumption DEF RegisterInstance, At
  <2>2. CASE \E i \in Instances \ Present :
               /\ inst' = [inst EXCEPT ![i] = req[r].new]
               /\ Become(r, [pc |-> "props", id |-> i, new |-> req[r].new])
    <3>1. PICK i \in Instances \ Present :
            /\ inst' = [inst EXCEPT ![i] = req[r].new]
            /\ Become(r, [pc |-> "props", id |-> i, new |-> req[r].new])
      BY <2>2
    <3> DEFINE x == [pc |-> "props", id |-> i, new |-> req[r].new]
    <3>2. x.pc = "props" /\ Become(r, x)
      BY <3>1
    <3> HIDE DEF x
    <3>3. At({"register"})' = At({"register"}) \ {r}
      BY <3>2, NobodyRegisters
    <3>4. Present' = Present \cup {i}
      BY <1>0, <2>1, <3>1 DEF Present
    <3>5. Cardinality(Present') = Cardinality(Present) + 1
      BY <3>1, <3>4, Counted, FS_AddElement
    <3>6. Cardinality(At({"register"})') = Cardinality(At({"register"})) - 1
      BY <2>1, <3>3, Counted, FS_RemoveElement
    <3> QED
      BY <1>0, <3>5, <3>6, Counted DEF LimitNearlyHolds
  <2>3. CASE Become(r, Idle) /\ UNCHANGED inst
    BY <1>0, <2>3, NobodyRegisters, LimitShrinks DEF Present
  <2> QED
    BY <1>6, <2>2, <2>3 DEF RegisterInstance
<1>7. ASSUME NEW r \in Requests, RegisterProperties(r) PROVE LimitNearlyHolds'
  <2>1. /\ req[r].id \in Instances /\ req[r].new \in InstanceInfo
        /\ req[r].new.props \in Properties
    BY <1>7, RequestShapes DEF RegisterProperties, InstanceInfo
  <2>2. UpdateProperties(req[r].id, req[r].new, req[r].new.props) /\ Become(r, Idle)
    BY <1>7 DEF RegisterProperties
  <2>3. Present' = Present
    BY <2>1, <2>2, PropertiesEffect
  <2> QED
    BY <1>0, <2>2, <2>3, NobodyRegisters, LimitShrinks
<1>8. ASSUME NEW r \in Requests, UpdateInstance(r) PROVE LimitNearlyHolds'
  <2>1. Become(r, Idle)
    BY <1>8 DEF UpdateInstance
  <2>2. Present' \subseteq Present
    BY <1>0, <1>8 DEF UpdateInstance, Overwrite, Present
  <2> QED
    BY <1>0, <2>1, <2>2, NobodyRegisters, LimitShrinks
<1>9. ASSUME NEW r \in Requests, Unregister(r) PROVE LimitNearlyHolds'
  <2>1. Become(r, Idle)
    BY <1>9 DEF Unregister
  <2>2. Present' \subseteq Present
    BY <1>0, <1>9 DEF Unregister, Present
  <2> QED
    BY <1>0, <2>1, <2>2, NobodyRegisters, LimitShrinks
<1>10. ASSUME NEW r \in Requests, TerminateOne(r) PROVE LimitNearlyHolds'
  <2>1. Present' \subseteq Present
    BY <1>0, <1>10 DEF TerminateOne, Present
  <2>2. At({"register"})' \subseteq At({"register"})
    <3>1. PICK x : Become(r, x) /\ x.pc # "register"
      <4>1. req[r] \in ReqTypes /\ req[r].pc = "terminate"
        BY <1>10 DEF TerminateOne, TypeInv
      <4>2. req[r] \in [pc : {"terminate"},
                        list : UNION {[D -> SUBSET Names] : D \in SUBSET Instances}]
        BY <4>1 DEF ReqTypes, Idle
      <4>3. PICK i : \/ Become(r, Idle)
                     \/ Become(r, [req[r] EXCEPT !.list = Restrict(@, DOMAIN @ \ {i})])
        BY <1>10 DEF TerminateOne
      <4>4. [req[r] EXCEPT !.list = Restrict(@, DOMAIN @ \ {i})].pc = "terminate"
        BY <4>2
      <4> QED
        BY <1>0, <4>3, <4>4
    <3> QED
      BY <3>1, NobodyRegisters
  <2> QED
    BY <2>1, <2>2, LimitShrinks
<1>11. ASSUME NEW r \in Requests, BeatWrite(r) PROVE LimitNearlyHolds'
  <2> DEFINE p == [req[r].base.props EXCEPT !.mecState = "ACTIVE", !.late = FALSE]
  <2>1. req[r].id \in Instances /\ req[r].base \in InstanceInfo
    BY <1>11, RequestShapes DEF BeatWrite
  <2>2. p \in Properties /\ p.eps = req[r].base.props.eps
    BY <2>1 DEF InstanceInfo, Properties, States
  <2>3. UpdateProperties(req[r].id, req[r].base, p) /\ Become(r, Idle)
    BY <1>11 DEF BeatWrite
  <2> HIDE DEF p
  <2>4. Present' = Present
    BY <2>1, <2>2, <2>3, PropertiesEffect
  <2> QED
    BY <1>0, <2>3, <2>4, NobodyRegisters, LimitShrinks
<1>12. CASE CheckRead \/ UNCHANGED vars
  BY <1>12, LimitShrinks DEF CheckRead, vars, Present, At
<1>13. ASSUME NEW i \in Instances, CheckOne(i) PROVE LimitNearlyHolds'
  <2> DEFINE p == [check[i].props EXCEPT !.mecState = "SUSPENDED"]
  <2>1. check[i] \in InstanceInfo
    BY <1>13, InstanceShapes DEF CheckOne
  <2>2. p \in Properties /\ p.eps = check[i].props.eps
    BY <2>1 DEF InstanceInfo, Properties, States
  <2>3. UNCHANGED req /\ (UNCHANGED inst \/ UpdateProperties(i, check[i], p))
    BY <1>13 DEF CheckOne
  <2> HIDE DEF p
  <2>4. Present' = Present
    <3>1. CASE UNCHANGED inst
      BY <3>1 DEF Present
    <3>2. CASE UpdateProperties(i, check[i], p)
      BY <2>1, <2>2, <3>2, PropertiesEffect
    <3> QED
      BY <2>3, <3>1, <3>2
  <2> QED
    BY <2>3, <2>4, LimitShrinks DEF At
<1>14. ASSUME NEW i \in Instances, Late(i) PROVE LimitNearlyHolds'
  <2>1. Present' \subseteq Present /\ UNCHANGED req
    BY <1>0, <1>14 DEF Late, Present
  <2> QED
    BY <2>1, LimitShrinks DEF At
<1>15. ASSUME NEW r \in Requests, Request(r) PROVE LimitNearlyHolds'
  BY <1>15, <1>1, <1>2, <1>3, <1>4, <1>5 DEF Request
<1>16. ASSUME NEW r \in Requests, RequestStep(r) PROVE LimitNearlyHolds'
  BY <1>16, <1>6, <1>7, <1>8, <1>9, <1>10, <1>11 DEF RequestStep
<1> QED
  BY <1>12, <1>13, <1>14, <1>15, <1>16 DEF Next

----------------------------------------------------------------------------
(* The theorems.                                                           *)

LEMMA ServicesNext ==
  ASSUME ServicesInv, [Next]_vars
  PROVE  ServicesInv'
  BY TypeNext, NamesNext, LimitNext DEF ServicesInv

\* ServicesInv says what is wanted of the gateway when nobody is at work, ...
LEMMA MatchesFromInv ==
  ASSUME ServicesInv
  PROVE  GatewayMatches
<1> SUFFICES ASSUME \A r \in Requests : req[r] = Idle
             PROVE  gw \ astray = (UNION {EpNames(inst[i].props) : i \in Present}) \ astray
  BY DEF GatewayMatches
<1>1. /\ gw \subseteq Names
      /\ \A i \in Present : EpNames(inst[i].props) \subseteq Names
  BY InstanceNames DEF ServicesInv, TypeInv, TypeOK
<1>2. /\ \A r \in Requests, n \in Names : ~Makes(r, n)
      /\ \A r \in Requests, i \in Instances, n \in Names : ~Drops(r, i, n)
  BY DEF Makes, Drops, Bases, Idle
<1>3. ASSUME NEW n \in gw \ astray
      PROVE  \E i \in Present : n \in EpNames(inst[i].props)
  <2>1. NameInv(n)
    BY <1>1, <1>3 DEF ServicesInv, NamesInv
  <2>2. \E i \in Instances : Has(i, n)
    BY <1>1, <1>2, <1>3, <2>1 DEF NameInv
  <2> QED
    BY <2>2 DEF Has
<1>4. ASSUME NEW i \in Present, NEW n \in EpNames(inst[i].props) \ astray
      PROVE  n \in gw
  <2>1. i \in Instances /\ Has(i, n)
    BY <1>4 DEF Has, Present
  <2>2. NameInv(n)
    BY <1>1, <1>4 DEF ServicesInv, NamesInv
  <2> QED
    BY <1>1, <1>2, <1>4, <2>1, <2>2 DEF NameInv
<1> DEFINE published == UNION {EpNames(inst[i].props) : i \in Present}
<1>5. \A n : n \in published <=> \E i \in Present : n \in EpNames(inst[i].props)
  OBVIOUS
<1> HIDE DEF published
<1>6. gw \ astray = published \ astray
  BY <1>3, <1>4, <1>5
<1> QED
  BY <1>6 DEF published

\* ... and what is wanted of the endpoints while somebody is.
LEMMA ReachableFromInv ==
  ASSUME ServicesInv
  PROVE  DiscoveredReachable
<1> DEFINE Dropped(i) == UNION {EpNames(req[r].base.props) : r \in
                                  {q \in At({"update", "delete"}) : req[q].id = i}}
<1> SUFFICES ASSUME NEW i \in Present, NEW n \in Discovered[i], n \notin gw, n \notin astray
             PROVE  n \in Dropped(i)
  BY DEF DiscoveredReachable
<1>1. i \in Instances /\ n \in Names /\ n \in inst[i].endpoints
  BY DEF Discovered, FromEndpoints, Present
<1>2. NameInv(n) /\ ShapeInv(n)
  BY <1>1 DEF ServicesInv, NamesInv
<1>3. Has(i, n)
  BY <1>1, <1>2 DEF ShapeInv, Has
<1>4. PICK r \in Requests : Drops(r, i, n)
  BY <1>1, <1>2, <1>3 DEF NameInv
<1>5. r \in {q \in At({"update", "delete"}) : req[q].id = i} /\ n \in EpNames(req[r].base.props)
  BY <1>4 DEF Drops, Bases, At
<1> QED
  BY <1>5

LEMMA ServicesAlways == Spec => []ServicesInv
<1>1. Init => ServicesInv
  BY ServicesInit
<1>2. ServicesInv /\ [Next]_vars => ServicesInv'
  BY ServicesNext
<1> QED
  BY <1>1, <1>2, PTL DEF Spec

\* The instances, the gateway and the requests keep their types, whatever
\* fails and however the requests interleave.
THEOREM ServicesTypeCorrect == Spec => []TypeOK
<1>1. ServicesInv => TypeOK
  BY DEF ServicesInv, TypeInv
<1> QED
  BY <1>1, ServicesAlways, PTL

\* RegisterLimit counts before the instance is stored: any number of requests
\* that register at the same time exceed the limit by no more than the number
\* of other requests.
THEOREM LimitHolds == Spec => []LimitNearlyHolds
<1>1. ServicesInv => LimitNearlyHolds
  BY DEF ServicesInv
<1> QED
  BY <1>1, ServicesAlways, PTL

\* When no request is under way, the gateway has an entry for each endpoint of
\* each instance and no other, except for names that were cut loose.
THEOREM EntriesMatch == Spec => []GatewayMatches
<1>1. ServicesInv => GatewayMatches
  BY MatchesFromInv
<1> QED
  BY <1>1, ServicesAlways, PTL

\* An endpoint that an application is told of has its gateway entry, unless it
\* was cut loose or the update or deletion that drops it is under way.
THEOREM EndpointsReachable == Spec => []DiscoveredReachable
<1>1. ServicesInv => DiscoveredReachable
  BY ReachableFromInv
<1> QED
  BY <1>1, ServicesAlways, PTL
=============================================================================
