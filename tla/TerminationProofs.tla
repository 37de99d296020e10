------------------------- MODULE TerminationProofs -------------------------
(***************************************************************************)
(* Proofs about Subscriptions and Termination: types, the limit of         *)
(* subscriptions, what subscribers are told, the time an application has   *)
(* to confirm its termination, and what the clean-up leaves, for any       *)
(* number of requests, terminations and confirmations.                     *)
(***************************************************************************)
EXTENDS Termination, FiniteSetTheorems, SequenceTheorems, TLAPS

ReqTypes == {Idle} \cup [pc : {"insert"}, sub : Subs] \cup [pc : {"remove"}, id : Ids]

TermTypes ==
  [pc : TermPcs, subscribed : BOOLEAN, polls : 0 .. AppTerminationTimeout - 1,
   answered : BOOLEAN, sure : BOOLEAN, before : SUBSET Ids]

SubsTypeInv == SubsTypeOK /\ req \in [Requests -> ReqTypes]

TypeInv == TypeOK /\ SubsTypeInv /\ term \in [Terms -> TermTypes]
----------------------------------------------------------------------------
(* Notifications.                                                          *)

\* An event is of interest to a subscription.
Covers(i, e) == IsInFilter(subs[i].filter, e.state)

\* What is due to a subscriber is the news of the last event that waits and
\* covers it; if there is none, it is on its way, or has arrived.
DueInv(i) ==
  due[i] # Nothing =>
    /\ i \in Stored("avail")
    /\ \/ \E k \in 1 .. Len(events) :
            /\ Covers(i, events[k]) /\ due[i] = NewsOf(events[k])
            /\ \A j \in k + 1 .. Len(events) : ~Covers(i, events[j])
       \/ /\ \A k \in 1 .. Len(events) : ~Covers(i, events[k])
          /\ IF i \in sending.to THEN due[i] = sending.news ELSE told[i] = due[i]

NewsInv == \A i \in Ids : DueInv(i)
----------------------------------------------------------------------------
(* The wait for a confirmation, and the clean-up.                          *)

\* A termination that nothing disturbs is the only one that waits; its record
\* is as it was written until the application confirms; and what is left of
\* the subscriptions it has found gets less.
WaitInv(t) ==
  term[t].sure =>
    /\ term[t].pc \in Waiting \cup {"after", "load", "sync", "release"}
    /\ \A u \in Terms \ {t} : term[u].pc \notin Waiting
    /\ term[t].pc \in {"write", "poll"} /\ (\E c \in Confirms : conf[c] # "idle") =>
         term[t].answered
    /\ term[t].pc = "poll" /\ record # "inProgress" => term[t].answered
    /\ \A i \in term[t].before : subs[i] # NoSub
    /\ term[t].pc = "deleteAvail" => \A i \in term[t].before : subs[i].type = "avail"
    /\ term[t].pc = "after" => term[t].before = {}

TermInv ==
  TypeInv /\ SubscriptionLimit /\ NewsInv /\ \A t \in Terms : WaitInv(t)

----------------------------------------------------------------------------
(* Types.                                                                  *)

LEMMA FaultCounted ==
  ASSUME SubsTypeOK, NEW k, Fault(k)
  PROVE  faults' \in 0 .. MaxFaults
  BY SubscriptionsAssumption DEF SubsTypeOK, Fault

LEMMA RequestShapes ==
  ASSUME SubsTypeInv, NEW r \in Requests
  PROVE  /\ req[r].pc \in {"idle", "insert", "remove"}
         /\ req[r].pc = "idle" => req[r] = Idle
         /\ req[r].pc = "insert" => req[r].sub \in Subs
         /\ req[r].pc = "remove" => req[r].id \in Ids
<1>1. req[r] \in ReqTypes
  BY DEF SubsTypeInv
<1> QED
  BY <1>1 DEF ReqTypes, Idle

LEMMA StoredShapes ==
  ASSUME SubsTypeInv, NEW i \in Ids
  PROVE  /\ subs[i] # NoSub => subs[i] \in Subs
         /\ subs[i] # NoSub => i \in Stored("end") \cup Stored("avail")
<1>1. subs[i] \in Subs \cup {NoSub}
  BY DEF SubsTypeInv, SubsTypeOK
<1> QED
  BY <1>1 DEF Subs, Stored

LEMMA DropTyped ==
  ASSUME SubsTypeInv, NEW ids, Drop(ids)
  PROVE  /\ subs' \in [Ids -> Subs \cup {NoSub}]
         /\ due' \in [Ids -> News \cup {Nothing}] /\ told' \in [Ids -> News \cup {Nothing}]
         /\ \A i \in Ids : subs'[i] = IF i \in ids THEN NoSub ELSE subs[i]
         /\ \A i \in Ids : due'[i] = IF i \in ids THEN Nothing ELSE due[i]
         /\ \A i \in Ids : told'[i] = IF i \in ids THEN Nothing ELSE told[i]
  BY DEF SubsTypeInv, SubsTypeOK, Drop

LEMMA SettleEffect ==
  ASSUME NEW d \in [Ids -> News \cup {Nothing}], NEW h \in [Ids -> News \cup {Nothing}],
         Settle(d, h)
  PROVE  /\ due' \in [Ids -> News \cup {Nothing}] /\ told' \in [Ids -> News \cup {Nothing}]
         /\ \A i \in Ids : due'[i] # Nothing => due'[i] = d[i] /\ told'[i] = h[i]
<1> DEFINE done == {i \in Ids : d[i] = Nothing
                                \/ (events' = <<>> /\ sending' = Nobody /\ h[i] = d[i])}
<1>1. /\ due' = [i \in Ids |-> IF i \in done THEN Nothing ELSE d[i]]
      /\ told' = [i \in Ids |-> IF i \in done THEN Nothing ELSE h[i]]
  BY DEF Settle
<1> HIDE DEF done
<1> QED
  BY <1>1

LEMMA AnyIn ==
  ASSUME NEW S, NEW x \in Any(S)
  PROVE  x \in S
  BY DEF Any

LEMMA SendingTyped ==
  ASSUME NEW ids \in SUBSET Ids, NEW news \in News
  PROVE  Sending(ids, news) \in [to : SUBSET Ids, news : News]
  BY DEF Sending, Nobody, News

\* Where a step of Subscriptions may leave its variables.
LEMMA ArriveTypes ==
  ASSUME SubsTypeInv, SubsArrive
  PROVE  SubsTypeInv'
<1>0. /\ subs \in [Ids -> Subs \cup {NoSub}]
      /\ events \in Seq([action : {"CREATE", "UPDATE", "DELETE"}, state : States])
      /\ sending \in [to : SUBSET Ids, news : News]
      /\ due \in [Ids -> News \cup {Nothing}] /\ told \in [Ids -> News \cup {Nothing}]
      /\ faults \in 0 .. MaxFaults /\ req \in [Requests -> ReqTypes]
  BY DEF SubsTypeInv, SubsTypeOK
<1>1. ASSUME NEW r \in Requests, NEW sub \in Bodies, Subscribe(r, sub) PROVE SubsTypeInv'
  <2>1. sub \in Subs
    BY SubscriptionsAssumption
  <2>2. [pc |-> "insert", sub |-> sub] \in ReqTypes
    BY <2>1 DEF ReqTypes
  <2> QED
    BY <1>0, <1>1, <2>2 DEF Subscribe, Become, newsVars, SubsTypeInv, SubsTypeOK
<1>2. ASSUME NEW r \in Requests, NEW i \in Ids, Unsubscribe(r, i) PROVE SubsTypeInv'
  <2>1. [pc |-> "remove", id |-> i] \in ReqTypes
    BY DEF ReqTypes
  <2> QED
    BY <1>0, <1>2, <2>1 DEF Unsubscribe, Become, newsVars, SubsTypeInv, SubsTypeOK
<1>3. ASSUME NEW a \in {"CREATE", "UPDATE", "DELETE"}, NEW s \in States,
             Change([action |-> a, state |-> s])
      PROVE  SubsTypeInv'
  <2> DEFINE e == [action |-> a, state |-> s]
  <2>1. e \in [action : {"CREATE", "UPDATE", "DELETE"}, state : States]
    OBVIOUS
  <2>2. NewsOf(e) \in News
    BY DEF NewsOf, News
  <2>3. /\ events' = Append(events, e)
        /\ due' = [i \in Ids |-> IF i \in Callbacks(e.state) THEN NewsOf(e) ELSE due[i]]
        /\ UNCHANGED <<subs, req, sending, told, faults>>
    BY <1>3 DEF Change
  <2> HIDE DEF e
  <2>4. events' \in Seq([action : {"CREATE", "UPDATE", "DELETE"}, state : States])
    BY <1>0, <2>1, <2>3
  <2>5. due' \in [Ids -> News \cup {Nothing}]
    BY <1>0, <2>2, <2>3
  <2> QED
    BY <1>0, <2>3, <2>4, <2>5 DEF SubsTypeInv, SubsTypeOK
<1> QED
  BY <1>1, <1>2, <1>3, AnyIn DEF SubsArrive

LEMMA StepTypes ==
  ASSUME SubsTypeInv, SubsStep
  PROVE  SubsTypeInv'
<1>0. /\ subs \in [Ids -> Subs \cup {NoSub}]
      /\ events \in Seq([action : {"CREATE", "UPDATE", "DELETE"}, state : States])
      /\ sending \in [to : SUBSET Ids, news : News]
      /\ due \in [Ids -> News \cup {Nothing}] /\ told \in [Ids -> News \cup {Nothing}]
      /\ faults \in 0 .. MaxFaults /\ req \in [Requests -> ReqTypes] /\ Idle \in ReqTypes
  BY DEF SubsTypeInv, SubsTypeOK, ReqTypes
<1>1. CASE OnEvent
  <2> DEFINE e == Head(events)
             all == [i \in Ids |-> Nothing]
  <2>1. events # <<>> /\ events' = Tail(events) /\ UNCHANGED <<subs, req>>
    BY <1>1 DEF OnEvent
  <2>2. /\ e \in [action : {"CREATE", "UPDATE", "DELETE"}, state : States]
        /\ events' \in Seq([action : {"CREATE", "UPDATE", "DELETE"}, state : States])
    BY <1>0, <2>1, HeadTailProperties
  <2>3. NewsOf(e) \in News /\ Callbacks(e.state) \in SUBSET Ids
    BY <2>2 DEF NewsOf, News, Callbacks, Stored
  <2>4. CASE sending' = Sending(Callbacks(e.state), NewsOf(e)) /\ Settle(due, told)
             /\ UNCHANGED faults
    BY <1>0, <2>1, <2>2, <2>3, <2>4, SendingTyped, SettleEffect DEF SubsTypeInv, SubsTypeOK
  <2>5. CASE (Fault("read") \/ Fault("event")) /\ sending' = Nobody /\ Settle(all, told)
    <3>1. Nobody \in [to : SUBSET Ids, news : News] /\ all \in [Ids -> News \cup {Nothing}]
      BY DEF Nobody, News
    <3>2. faults' \in 0 .. MaxFaults
      BY <2>5, FaultCounted DEF SubsTypeInv
    <3> HIDE DEF all
    <3> QED
      BY <1>0, <2>1, <2>2, <2>5, <3>1, <3>2, SettleEffect DEF SubsTypeInv, SubsTypeOK
  <2> QED
    BY <1>1, <2>4, <2>5 DEF OnEvent
<1>2. ASSUME NEW i \in Ids, SendMsg(i) PROVE SubsTypeInv'
  <2>1. /\ sending' = Sending(sending.to \ {i}, sending.news) /\ UNCHANGED <<subs, req, events>>
        /\ sending.news \in News /\ sending.to \ {i} \in SUBSET Ids
    BY <1>0, <1>2 DEF SendMsg
  <2>2. sending' \in [to : SUBSET Ids, news : News]
    BY <2>1, SendingTyped
  <2>3. CASE Settle(due, [told EXCEPT ![i] = sending.news]) /\ UNCHANGED faults
    <3>1. [told EXCEPT ![i] = sending.news] \in [Ids -> News \cup {Nothing}]
      BY <1>0, <2>1
    <3> QED
      BY <1>0, <2>1, <2>2, <2>3, <3>1, SettleEffect DEF SubsTypeInv, SubsTypeOK
  <2>4. CASE Fault("send") /\ Settle([due EXCEPT ![i] = Nothing], told)
    <3>1. [due EXCEPT ![i] = Nothing] \in [Ids -> News \cup {Nothing}]
      BY <1>0
    <3>2. faults' \in 0 .. MaxFaults
      BY <2>4, FaultCounted DEF SubsTypeInv
    <3> QED
      BY <1>0, <2>1, <2>2, <2>4, <3>1, <3>2, SettleEffect DEF SubsTypeInv, SubsTypeOK
  <2> QED
    BY <1>2, <2>3, <2>4 DEF SendMsg
<1>3. ASSUME NEW r \in Requests, SubscribeIst(r) PROVE SubsTypeInv'
  <2>1. req[r].sub \in Subs
    BY <1>3, RequestShapes DEF SubscribeIst
  <2>2. subs' \in [Ids -> Subs \cup {NoSub}]
    BY <1>0, <1>3, <2>1 DEF SubscribeIst, InsertOrUpdateData
  <2>3. faults' \in 0 .. MaxFaults
    BY <1>0, <1>3, FaultCounted DEF SubscribeIst, InsertOrUpdateData, SubsTypeInv
  <2> QED
    BY <1>0, <1>3, <2>2, <2>3 DEF SubscribeIst, Become, newsVars, SubsTypeInv, SubsTypeOK
<1>4. ASSUME NEW r \in Requests, DelOneSubscribe(r) PROVE SubsTypeInv'
  <2>1. req' \in [Requests -> ReqTypes] /\ UNCHANGED <<events, sending>>
    BY <1>0, <1>4 DEF DelOneSubscribe, Become, newsVars
  <2>2. CASE Drop({req[r].id}) /\ UNCHANGED faults
    BY <1>0, <2>1, <2>2, DropTyped DEF SubsTypeInv, SubsTypeOK
  <2>3. CASE Fault("write") /\ UNCHANGED <<subs, due, told>>
    BY <1>0, <2>1, <2>3, FaultCounted DEF SubsTypeInv, SubsTypeOK
  <2> QED
    BY <1>4, <2>2, <2>3 DEF DelOneSubscribe
<1> QED
  BY <1>1, <1>2, <1>3, <1>4 DEF SubsStep, NotifyStep, RequestStep

\* What the steps make of a termination.
LEMMA NoTermTyped == NoTerm \in TermTypes
  BY TerminationAssumption DEF NoTerm, TermTypes, TermPcs

LEMMA TermMoves ==
  ASSUME NEW x \in TermTypes, NEW l \in TermPcs
  PROVE  [x EXCEPT !.pc = l] \in TermTypes
  BY DEF TermTypes

LEMMA UnsureFields ==
  ASSUME NEW x \in TermTypes
  PROVE  /\ Unsure(x) \in TermTypes /\ Unsure(x).pc = x.pc /\ Unsure(x).sure = FALSE
         /\ Unsure(x).polls = x.polls
  BY DEF Unsure, TermTypes

LEMMA WaitOverFields ==
  ASSUME NEW x \in TermTypes
  PROVE  /\ WaitOver(x) \in TermTypes /\ WaitOver(x).pc = "delete"
         /\ WaitOver(x).sure = x.sure /\ WaitOver(x).before = x.before
<1>1. "delete" \in TermPcs
  BY DEF TermPcs, Waiting
<1>2. 0 \in 0 .. AppTerminationTimeout - 1
  BY TerminationAssumption
<1> QED
  BY <1>1, <1>2 DEF WaitOver, TermTypes

LEMMA KnownFields ==
  ASSUME NEW x \in TermTypes
  PROVE  /\ Known(x) \in TermTypes /\ Known(x).pc = x.pc /\ Known(x).sure = x.sure
         /\ Known(x).answered = x.answered /\ Known(x).polls = x.polls
         /\ Known(x).before = {i \in x.before : subs'[i] # NoSub}
  BY DEF Known, TermTypes

LEMMA TypeFromParts ==
  ASSUME SubsTypeInv', term' \in [Terms -> TermTypes],
         config' \in BOOLEAN, job' \in BOOLEAN, stuck' \in BOOLEAN,
         record' \in {"none", "inProgress", "finish"},
         conf' \in [Confirms -> {"idle", "read", "put"}]
  PROVE  TypeInv'
<1>1. \A t \in Terms : /\ term'[t].pc \in TermPcs
                       /\ term'[t].polls < AppTerminationTimeout
                       /\ term'[t].before \subseteq Ids
  BY TerminationAssumption DEF TermTypes
<1> QED
  BY <1>1 DEF TypeInv, TypeOK, SubsTypeInv

\* The steps of a termination or of a confirmation that touch no subscription.
LEMMA OnlyFaults ==
  ASSUME SubsTypeInv, UNCHANGED <<subs, req, newsVars, due, told>>,
         faults' = faults \/ \E k \in FaultKinds : Fault(k)
  PROVE  SubsTypeInv'
<1>1. faults' \in 0 .. MaxFaults
  BY FaultCounted DEF SubsTypeInv, SubsTypeOK
<1> QED
  BY <1>1 DEF SubsTypeInv, SubsTypeOK, newsVars

LEMMA TermTypesNext ==
  ASSUME TypeInv, NEW t \in Terms, TermStep(t)
  PROVE  TypeInv'
<1>0. /\ SubsTypeInv /\ term \in [Terms -> TermTypes]
      /\ config \in BOOLEAN /\ job \in BOOLEAN /\ stuck \in BOOLEAN
      /\ record \in {"none", "inProgress", "finish"}
      /\ conf \in [Confirms -> {"idle", "read", "put"}]
  BY DEF TypeInv, TypeOK
<1>a. term[t] \in TermTypes
  BY <1>0
<1>b. {"idle", "begin", "lookup", "send", "after", "load", "sync", "release", "staging", "created", "put",
       "write", "poll", "delete", "deleteEnd", "deleteAvail"} \subseteq TermPcs
  BY DEF TermPcs, Staging, Waiting
<1>c. {"read", "write", "send"} \subseteq FaultKinds
  BY DEF FaultKinds
<1>1. CASE StageSubscribed(t)
  <2>1. SubsTypeInv'
    BY <1>0, <1>1, <1>c, OnlyFaults DEF StageSubscribed
  <2>2. IsSubscribed \in BOOLEAN
    BY DEF IsSubscribed
  <2>3. [term[t] EXCEPT !.pc = "created", !.subscribed = IsSubscribed] \in TermTypes
    BY <1>a, <1>b, <2>2 DEF TermTypes
  <2>4. term' \in [Terms -> TermTypes]
    <3>1. CASE term' = [term EXCEPT ![t].pc = "created", ![t].subscribed = IsSubscribed]
      BY <1>0, <2>3, <3>1
    <3>2. CASE Goto(t, "created")
      BY <1>0, <1>a, <1>b, <3>2, TermMoves DEF Goto
    <3> QED
      BY <1>1, <3>1, <3>2 DEF StageSubscribed
  <2> QED
    BY <1>0, <1>1, <2>1, <2>4, TypeFromParts DEF StageSubscribed
<1>2. CASE StageCreated(t)
  <2>1. SubsTypeInv'
    BY <1>0, <1>2, <1>c, OnlyFaults DEF StageCreated
  <2>2. [term[t] EXCEPT !.pc = "begin", !.subscribed = FALSE] \in TermTypes
    BY <1>a, <1>b DEF TermTypes
  <2>3. term' \in [Terms -> TermTypes]
    BY <1>0, <1>2, <1>a, <1>b, <2>2, TermMoves DEF StageCreated, Goto
  <2> QED
    BY <1>0, <1>2, <2>1, <2>3, TypeFromParts DEF StageCreated
<1>3. CASE PutJob(t)
  <2>1. SubsTypeInv'
    BY <1>0, <1>3, <1>c, OnlyFaults DEF PutJob
  <2>2. term' \in [Terms -> TermTypes]
    BY <1>0, <1>3, <1>a, <1>b, NoTermTyped, TermMoves DEF PutJob, Goto, End
  <2> QED
    BY <1>0, <1>3, <2>1, <2>2, TypeFromParts DEF PutJob
<1>4. CASE Begin(t)
  <2>1. SubsTypeInv'
    BY <1>0, <1>4, <1>c, OnlyFaults DEF Begin
  <2>2. \A l \in {"lookup", "load"} : [term[t] EXCEPT !.pc = l, !.subscribed = FALSE] \in TermTypes
    BY <1>a, <1>b DEF TermTypes
  <2>3. term' \in [Terms -> TermTypes]
    BY <1>0, <1>4, <2>2 DEF Begin
  <2> QED
    BY <1>0, <1>4, <2>1, <2>3, TypeFromParts DEF Begin
<1>5. CASE Lookup(t)
  <2>1. SubsTypeInv'
    BY <1>0, <1>5, <1>c, OnlyFaults DEF Lookup
  <2>2. term' \in [Terms -> TermTypes]
    BY <1>0, <1>5, <1>a, <1>b, NoTermTyped, TermMoves DEF Lookup, Goto, End
  <2>3. stuck' \in BOOLEAN
    BY <1>0, <1>5 DEF Lookup
  <2> QED
    BY <1>0, <1>5, <2>1, <2>2, <2>3, TypeFromParts DEF Lookup
<1>6. CASE Notify(t)
  <2>1. SubsTypeInv'
    BY <1>0, <1>6, <1>c, OnlyFaults DEF Notify
  <2> DEFINE alone == {u \in Terms \ {t} : term[u].pc \in Waiting} = {}
                      /\ \A c \in Confirms : conf[c] = "idle"
             x == [term[t] EXCEPT !.pc = "write", !.sure = alone,
                     !.before = IF alone THEN Stored("end") \cup Stored("avail") ELSE {}]
  <2>2. x \in TermTypes
    <3>1. alone \in BOOLEAN
      OBVIOUS
    <3>2. Stored("end") \cup Stored("avail") \in SUBSET Ids
      BY DEF Stored
    <3> HIDE DEF alone
    <3> QED
      BY <1>a, <1>b, <3>1, <3>2 DEF TermTypes
  <2>3. \/ term' = [u \in Terms |-> IF u # t THEN Unsure(term[u]) ELSE x]
        \/ Goto(t, "after")
    BY <1>6 DEF Notify
  <2> HIDE DEF alone, x
  <2>4. term' \in [Terms -> TermTypes]
    <3>1. CASE term' = [u \in Terms |-> IF u # t THEN Unsure(term[u]) ELSE x]
      BY <1>0, <2>2, <3>1, UnsureFields
    <3>2. CASE Goto(t, "after")
      BY <1>0, <1>a, <1>b, <3>2, TermMoves DEF Goto
    <3> QED
      BY <2>3, <3>1, <3>2
  <2> QED
    BY <1>0, <1>6, <2>1, <2>4, TypeFromParts DEF Notify
<1>7. CASE WriteRecord(t)
  <2>1. SubsTypeInv'
    BY <1>0, <1>7, <1>c, OnlyFaults DEF WriteRecord
  <2>2. term' \in [Terms -> TermTypes]
    <3>1. /\ [term[t] EXCEPT !.pc = "poll"] \in TermTypes
          /\ Unsure([term[t] EXCEPT !.pc = "poll"]) \in TermTypes
      BY <1>a, <1>b, UnsureFields, TermMoves
    <3> QED
      BY <1>0, <1>7, <3>1 DEF WriteRecord, Goto
  <2>3. record' \in {"none", "inProgress", "finish"}
    BY <1>0, <1>7 DEF WriteRecord
  <2> QED
    BY <1>0, <1>7, <2>1, <2>2, <2>3, TypeFromParts DEF WriteRecord
<1>8. CASE Poll(t)
  <2>1. SubsTypeInv'
    BY <1>0, <1>8, <1>c, OnlyFaults DEF Poll
  <2>2. WaitOver(term[t]) \in TermTypes /\ WaitOver(Unsure(term[t])) \in TermTypes
    BY <1>a, WaitOverFields, UnsureFields
  <2>3. term[t].polls + 1 < AppTerminationTimeout =>
          [term[t] EXCEPT !.polls = term[t].polls + 1] \in TermTypes
    BY <1>a, TerminationAssumption DEF TermTypes
  <2>4. term' \in [Terms -> TermTypes]
    BY <1>0, <1>8, <2>2, <2>3 DEF Poll
  <2> QED
    BY <1>0, <1>8, <2>1, <2>4, TypeFromParts DEF Poll
<1>9. ASSUME CutShort(t) PROVE term' \in [Terms -> TermTypes] /\ Fault("write")
  BY <1>0, <1>9, <1>a, <1>b, UnsureFields, TermMoves DEF CutShort
<1>10. CASE DeleteRecord(t)
  <2>1. SubsTypeInv'
    BY <1>0, <1>9, <1>10, <1>c, OnlyFaults DEF DeleteRecord
  <2>2. term' \in [Terms -> TermTypes]
    BY <1>0, <1>9, <1>10, <1>a, <1>b, TermMoves DEF DeleteRecord, Goto
  <2>3. record' \in {"none", "inProgress", "finish"}
    BY <1>0, <1>10 DEF DeleteRecord
  <2> QED
    BY <1>0, <1>10, <2>1, <2>2, <2>3, TypeFromParts DEF DeleteRecord
<1>11. ASSUME NEW l \in TermPcs, GotoKnown(t, l) PROVE term' \in [Terms -> TermTypes]
  <2>1. \A u \in Terms : (IF u = t THEN [term[t] EXCEPT !.pc = l] ELSE term[u]) \in TermTypes
    BY <1>0, <1>a, TermMoves
  <2> QED
    BY <1>11, <2>1, KnownFields DEF GotoKnown
<1>12. ASSUME NEW ids, Drop(ids), UNCHANGED <<req, newsVars, faults>> PROVE SubsTypeInv'
  BY <1>0, <1>12, DropTyped DEF SubsTypeInv, SubsTypeOK, newsVars
<1>13. CASE DeleteEnd(t)
  <2>1. CASE Drop(Stored("end")) /\ GotoKnown(t, "deleteAvail") /\ UNCHANGED faults
    BY <1>0, <1>11, <1>12, <1>13, <1>b, <2>1, TypeFromParts DEF DeleteEnd
  <2>2. CASE CutShort(t) /\ UNCHANGED <<subs, due, told>>
    <3>1. SubsTypeInv'
      BY <1>0, <1>9, <1>13, <1>c, <2>2, OnlyFaults DEF DeleteEnd
    <3> QED
      BY <1>0, <1>9, <1>13, <2>2, <3>1, TypeFromParts DEF DeleteEnd
  <2> QED
    BY <1>13, <2>1, <2>2 DEF DeleteEnd
<1>14. CASE DeleteAvail(t)
  <2>1. CASE Drop(Stored("avail")) /\ GotoKnown(t, "after") /\ UNCHANGED faults
    BY <1>0, <1>11, <1>12, <1>14, <1>b, <2>1, TypeFromParts DEF DeleteAvail
  <2>2. CASE CutShort(t) /\ UNCHANGED <<subs, due, told>>
    <3>1. SubsTypeInv'
      BY <1>0, <1>9, <1>14, <1>c, <2>2, OnlyFaults DEF DeleteAvail
    <3> QED
      BY <1>0, <1>9, <1>14, <2>2, <3>1, TypeFromParts DEF DeleteAvail
  <2> QED
    BY <1>14, <2>1, <2>2 DEF DeleteAvail
<1>15. CASE After(t)
  <2>1. SubsTypeInv'
    BY <1>0, <1>15, <1>c, OnlyFaults DEF After
  <2>2. term' \in [Terms -> TermTypes]
    BY <1>0, <1>15, <1>a, <1>b, NoTermTyped, TermMoves DEF After, Goto, End
  <2> QED
    BY <1>0, <1>15, <2>1, <2>2, TypeFromParts DEF After
<1>16. CASE Load(t)
  <2>1. SubsTypeInv'
    BY <1>0, <1>16, <1>c, OnlyFaults DEF Load
  <2>2. term' \in [Terms -> TermTypes]
    BY <1>0, <1>16, <1>a, <1>b, NoTermTyped, TermMoves DEF Load, Goto, End
  <2> QED
    BY <1>0, <1>16, <2>1, <2>2, TypeFromParts DEF Load
<1>18. CASE Release(t)
  <2>1. SubsTypeInv'
    BY <1>0, <1>18, <1>c, OnlyFaults DEF Release
  <2>2. term' \in [Terms -> TermTypes]
    BY <1>0, <1>18, NoTermTyped DEF Release, End
  <2>3. stuck' \in BOOLEAN /\ job' \in BOOLEAN
    BY <1>0, <1>18 DEF Release
  <2> QED
    BY <1>0, <1>18, <2>1, <2>2, <2>3, TypeFromParts DEF Release
<1>17. CASE Sync(t)
  <2>1. SubsTypeInv'
    BY <1>0, <1>17, <1>c, OnlyFaults DEF Sync
  <2>2. term' \in [Terms -> TermTypes]
    BY <1>0, <1>17, NoTermTyped DEF Sync, End
  <2>3. stuck' \in BOOLEAN /\ config' \in BOOLEAN /\ job' \in BOOLEAN
    BY <1>0, <1>17 DEF Sync
  <2> QED
    BY <1>0, <1>17, <2>1, <2>2, <2>3, TypeFromParts DEF Sync
<1> QED
  BY <1>1, <1>2, <1>3, <1>4, <1>5, <1>6, <1>7, <1>8, <1>10, <1>13, <1>14, <1>15, <1>16, <1>17, <1>18
     DEF TermStep

LEMMA TypeNext ==
  ASSUME TypeInv, [Next]_vars
  PROVE  TypeInv'
<1>0. /\ SubsTypeInv /\ term \in [Terms -> TermTypes]
      /\ config \in BOOLEAN /\ job \in BOOLEAN /\ stuck \in BOOLEAN
      /\ record \in {"none", "inProgress", "finish"}
      /\ conf \in [Confirms -> {"idle", "read", "put"}]
  BY DEF TypeInv, TypeOK
<1>a. {"read", "write"} \subseteq FaultKinds
  BY DEF FaultKinds
<1>1. CASE SubsArrive /\ UNCHANGED termVars
  BY <1>0, <1>1, ArriveTypes, TypeFromParts DEF termVars
<1>2. ASSUME NEW t \in Terms, Terminate(t) PROVE TypeInv'
  <2>1. SubsTypeInv'
    BY <1>0, <1>2, <1>a, OnlyFaults DEF Terminate
  <2>2. "staging" \in TermPcs
    BY DEF TermPcs, Staging
  <2>3. term' \in [Terms -> TermTypes]
    BY <1>0, <1>2, <2>2, TermMoves DEF Terminate, Goto
  <2> QED
    BY <1>0, <1>2, <2>1, <2>3, TypeFromParts DEF Terminate
<1>3. ASSUME NEW c \in Confirms, Confirm(c) PROVE TypeInv'
  <2>1. SubsTypeInv'
    BY <1>0, <1>3, OnlyFaults DEF Confirm, subsVars, newsVars
  <2>2. term' \in [Terms -> TermTypes]
    <3> DEFINE says(u) == term[u].answered \/ (term[u].sure /\ term[u].pc \in {"write", "poll"})
    <3>1. \A u \in Terms : says(u) \in BOOLEAN
      OBVIOUS
    <3>2. term' = [u \in Terms |-> [term[u] EXCEPT !.answered = says(u)]]
      BY <1>3 DEF Confirm
    <3> HIDE DEF says
    <3>3. \A u \in Terms : [term[u] EXCEPT !.answered = says(u)] \in TermTypes
      BY <1>0, <3>1 DEF TermTypes
    <3> QED
      BY <3>2, <3>3
  <2>3. conf' \in [Confirms -> {"idle", "read", "put"}]
    BY <1>0, <1>3 DEF Confirm
  <2> QED
    BY <1>0, <1>3, <2>1, <2>2, <2>3, TypeFromParts DEF Confirm
<1>4. CASE Configure
  <2>1. SubsTypeInv'
    BY <1>0, <1>4, OnlyFaults DEF Configure, subsVars, newsVars
  <2> QED
    BY <1>0, <1>4, <2>1, TypeFromParts DEF Configure
<1>5. CASE /\ SubsStep
           /\ term' = [t \in Terms |-> Known(term[t])]
           /\ UNCHANGED <<config, job, record, conf, stuck>>
  <2>1. term' \in [Terms -> TermTypes]
    BY <1>0, <1>5, KnownFields
  <2> QED
    BY <1>0, <1>5, <2>1, StepTypes, TypeFromParts
<1>6. ASSUME NEW t \in Terms, TermStep(t) PROVE TypeInv'
  BY <1>6, TermTypesNext
<1>7. ASSUME NEW c \in Confirms, ConfStep(c) PROVE TypeInv'
  <2>1. SubsTypeInv'
    BY <1>0, <1>7, <1>a, OnlyFaults DEF ConfStep, ConfirmRead, ConfirmPut
  <2>2. conf' \in [Confirms -> {"idle", "read", "put"}]
    BY <1>0, <1>7 DEF ConfStep, ConfirmRead, ConfirmPut
  <2>3. record' \in {"none", "inProgress", "finish"}
    BY <1>0, <1>7 DEF ConfStep, ConfirmRead, ConfirmPut
  <2>4. UNCHANGED <<config, job, term, stuck>>
    BY <1>7 DEF ConfStep, ConfirmRead, ConfirmPut
  <2> QED
    BY <1>0, <2>1, <2>2, <2>3, <2>4, TypeFromParts
<1>8. CASE UNCHANGED vars
  <2>1. SubsTypeInv'
    BY <1>0, <1>8, OnlyFaults DEF vars, subsVars, newsVars
  <2> QED
    BY <1>0, <1>8, <2>1, TypeFromParts DEF vars, termVars
<1> QED
  BY <1>1, <1>2, <1>3, <1>4, <1>5, <1>6, <1>7, <1>8, AnyIn DEF Next, Arrive
----------------------------------------------------------------------------
(* What the steps of a termination do to the subscriptions.                *)

Freed ==
  /\ UNCHANGED <<req, newsVars>>
  /\ UNCHANGED <<subs, due, told>> \/ \E type \in {"end", "avail"} : Drop(Stored(type))

LEMMA TermFrees ==
  ASSUME TypeInv, NEW t \in Terms, TermStep(t)
  PROVE  Freed
  BY DEF TermStep, Freed, StageSubscribed, StageCreated, PutJob, Begin, Lookup, Notify, WriteRecord,
         Poll, DeleteRecord, DeleteEnd, DeleteAvail, After, Load, Release, Sync

\* All the steps, as far as the subscriptions are concerned.
LEMMA SubsEffect ==
  ASSUME TypeInv, [Next]_vars
  PROVE  Freed \/ SubsArrive \/ SubsStep
<1>1. ASSUME NEW t \in Terms, TermStep(t) PROVE Freed
  BY <1>1, TermFrees
<1>2. ASSUME NEW c \in Confirms, ConfStep(c) PROVE Freed
  BY <1>2 DEF ConfStep, ConfirmRead, ConfirmPut, Freed
<1>3. ASSUME NEW t \in Terms, Terminate(t) PROVE Freed
  BY <1>3 DEF Terminate, Freed
<1>4. ASSUME NEW c \in Confirms, Confirm(c) PROVE Freed
  BY <1>4 DEF Confirm, Freed, subsVars, newsVars
<1>5. CASE Configure \/ UNCHANGED vars
  BY <1>5 DEF Configure, vars, Freed, subsVars, newsVars
<1> QED
  BY <1>1, <1>2, <1>3, <1>4, <1>5, AnyIn DEF Next, Arrive
----------------------------------------------------------------------------
(* The limit.                                                              *)

LEMMA Counted ==
  ASSUME NEW type
  PROVE  /\ IsFiniteSet(Stored(type)) /\ Cardinality(Stored(type)) \in Nat
         /\ IsFiniteSet(Inserting(type)) /\ Cardinality(Inserting(type)) \in Nat
         /\ Cardinality(Requests) \in Nat
<1>1. Stored(type) \subseteq Ids /\ Inserting(type) \subseteq Requests
  BY DEF Stored, Inserting
<1> QED
  BY <1>1, SubscriptionsAssumption, FS_Subset, FS_CardinalityType

LEMMA CountsShrink ==
  ASSUME NEW type, Stored(type)' \subseteq Stored(type), Inserting(type)' \subseteq Inserting(type)
  PROVE  /\ Cardinality(Stored(type)') \in Nat /\ Cardinality(Inserting(type)') \in Nat
         /\ Cardinality(Stored(type)') + Cardinality(Inserting(type)')
              <= Cardinality(Stored(type)) + Cardinality(Inserting(type))
<1>1. Cardinality(Stored(type)') \in Nat /\ Cardinality(Stored(type)') <= Cardinality(Stored(type))
  BY Counted, FS_Subset, FS_CardinalityType
<1>2. /\ Cardinality(Inserting(type)') \in Nat
      /\ Cardinality(Inserting(type)') <= Cardinality(Inserting(type))
  BY Counted, FS_Subset, FS_CardinalityType
<1> QED
  BY <1>1, <1>2, Counted

LEMMA LimitShrinks ==
  ASSUME SubscriptionLimit,
         \A type \in {"end", "avail"} : /\ Stored(type)' \subseteq Stored(type)
                                        /\ Inserting(type)' \subseteq Inserting(type)
  PROVE  SubscriptionLimit'
<1> SUFFICES ASSUME NEW type \in {"end", "avail"}
             PROVE  Cardinality(Stored(type)') + Cardinality(Inserting(type)')
                      <= AppSubscriptionCount + Cardinality(Requests) - 1
  BY DEF SubscriptionLimit
<1>1. /\ Cardinality(Stored(type)') \in Nat /\ Cardinality(Inserting(type)') \in Nat
      /\ Cardinality(Stored(type)') + Cardinality(Inserting(type)')
           <= Cardinality(Stored(type)) + Cardinality(Inserting(type))
  BY CountsShrink
<1>2. Cardinality(Stored(type)) + Cardinality(Inserting(type))
        <= AppSubscriptionCount + Cardinality(Requests) - 1
  BY DEF SubscriptionLimit
<1>3. AppSubscriptionCount \in Nat
  BY SubscriptionsAssumption
<1> QED
  BY <1>1, <1>2, <1>3, Counted

LEMMA LimitNext ==
  ASSUME SubsTypeInv, SubscriptionLimit, Freed \/ SubsArrive \/ SubsStep
  PROVE  SubscriptionLimit'
<1>0. /\ AppSubscriptionCount \in Nat /\ Idle.pc = "idle"
      /\ subs \in [Ids -> Subs \cup {NoSub}] /\ req \in [Requests -> ReqTypes]
  BY SubscriptionsAssumption DEF Idle, SubsTypeInv, SubsTypeOK
<1>1. ASSUME NEW r \in Requests, NEW sub \in Bodies, Subscribe(r, sub) PROVE SubscriptionLimit'
  <2> DEFINE x == [pc |-> "insert", sub |-> sub]
  <2>1. /\ req[r] = Idle /\ Cardinality(Stored(sub.type)) < AppSubscriptionCount
        /\ req' = [req EXCEPT ![r] = x] /\ UNCHANGED subs /\ x.pc = "insert" /\ x.sub = sub
    BY <1>1 DEF Subscribe, Become
  <2> HIDE DEF x
  <2>2. req'[r] = x /\ \A q \in Requests \ {r} : req'[q] = req[q]
    BY <1>0, <2>1
  <2> SUFFICES ASSUME NEW type \in {"end", "avail"}
               PROVE  Cardinality(Stored(type)') + Cardinality(Inserting(type)')
                        <= AppSubscriptionCount + Cardinality(Requests) - 1
    BY DEF SubscriptionLimit
  <2>3. Stored(type)' = Stored(type)
    BY <2>1 DEF Stored
  <2>4. CASE type = sub.type
    <3>1. Cardinality(Inserting(type)') <= Cardinality(Requests) /\ Cardinality(Inserting(type)') \in Nat
      <4>1. Inserting(type)' \subseteq Requests
        BY DEF Inserting
      <4> QED
        BY <4>1, SubscriptionsAssumption, FS_Subset, FS_CardinalityType
    <3> QED
      BY <1>0, <2>1, <2>3, <2>4, <3>1, Counted
  <2>5. CASE type # sub.type
    <3>1. Inserting(type)' = Inserting(type)
      BY <1>0, <2>1, <2>2, <2>5 DEF Inserting
    <3> QED
      BY <2>3, <3>1 DEF SubscriptionLimit
  <2> QED
    BY <2>4, <2>5
<1>2. ASSUME NEW r \in Requests, NEW x, x.pc # "insert", Become(r, x)
      PROVE  \A type : Inserting(type)' = Inserting(type) \ {r}
  <2>1. req'[r] = x /\ \A q \in Requests \ {r} : req'[q] = req[q]
    BY <1>0, <1>2 DEF Become
  <2> QED
    BY <1>2, <2>1 DEF Inserting
<1>3. ASSUME NEW ids, Drop(ids) PROVE \A type : Stored(type)' \subseteq Stored(type)
  BY <1>3, DropTyped DEF Stored
<1>4. ASSUME NEW r \in Requests, NEW i \in Ids, Unsubscribe(r, i) PROVE SubscriptionLimit'
  <2> DEFINE x == [pc |-> "remove", id |-> i]
  <2>1. x.pc # "insert" /\ Become(r, x) /\ UNCHANGED subs
    BY <1>4 DEF Unsubscribe
  <2> HIDE DEF x
  <2> QED
    BY <1>2, <2>1, LimitShrinks DEF Stored
<1>5. ASSUME NEW r \in Requests, SubscribeIst(r) PROVE SubscriptionLimit'
  <2>1. /\ req[r].pc = "insert" /\ req[r].sub \in Subs /\ Become(r, Idle)
        /\ InsertOrUpdateData(req[r].sub) /\ req[r].sub # NoSub
    BY <1>5, RequestShapes, SubscriptionsAssumption DEF SubscribeIst
  <2>2. \A type : Inserting(type)' = Inserting(type) \ {r}
    BY <1>0, <1>2, <2>1
  <2>3. CASE UNCHANGED subs
    BY <2>2, <2>3, LimitShrinks DEF Stored
  <2>4. ASSUME NEW i \in Ids, subs[i] = NoSub, subs' = [subs EXCEPT ![i] = req[r].sub]
        PROVE  SubscriptionLimit'
    <3>1. subs'[i] = req[r].sub /\ \A j \in Ids \ {i} : subs'[j] = subs[j]
      BY <1>0, <2>4
    <3> SUFFICES ASSUME NEW type \in {"end", "avail"}
                 PROVE  Cardinality(Stored(type)') + Cardinality(Inserting(type)')
                          <= AppSubscriptionCount + Cardinality(Requests) - 1
      BY DEF SubscriptionLimit
    <3>2. CASE type = req[r].sub.type
      <4>1. /\ Stored(type)' = Stored(type) \cup {i} /\ i \notin Stored(type)
            /\ r \in Inserting(type)
        BY <2>1, <2>4, <3>1, <3>2 DEF Stored, Inserting
      <4>2. Cardinality(Stored(type)') = Cardinality(Stored(type)) + 1
        BY <4>1, Counted, FS_AddElement
      <4>3. Cardinality(Inserting(type)') = Cardinality(Inserting(type)) - 1
        BY <2>2, <4>1, Counted, FS_RemoveElement
      <4> QED
        BY <4>2, <4>3, Counted DEF SubscriptionLimit
    <3>3. CASE type # req[r].sub.type
      <4>1. /\ Stored(type)' = Stored(type)
            /\ Inserting(type)' = Inserting(type)
        BY <2>2, <2>4, <3>1, <3>3 DEF Stored, Inserting
      <4> QED
        BY <4>1 DEF SubscriptionLimit
    <3> QED
      BY <3>2, <3>3
  <2> QED
    BY <2>1, <2>3, <2>4, AnyIn DEF InsertOrUpdateData
<1>6. ASSUME NEW r \in Requests, DelOneSubscribe(r) PROVE SubscriptionLimit'
  <2>1. Become(r, Idle) /\ (Drop({req[r].id}) \/ UNCHANGED subs)
    BY <1>6 DEF DelOneSubscribe
  <2>2. \A type : Inserting(type)' = Inserting(type) \ {r}
    BY <1>0, <1>2, <2>1
  <2>3. \A type : Stored(type)' \subseteq Stored(type)
    BY <1>3, <2>1 DEF Stored
  <2> QED
    BY <2>2, <2>3, LimitShrinks
<1>7. CASE UNCHANGED <<subs, req>>
  BY <1>7, LimitShrinks DEF Stored, Inserting
<1>8. CASE Freed
  <2>1. \A type : Inserting(type)' = Inserting(type)
    BY <1>8 DEF Freed, Inserting
  <2>2. \A type : Stored(type)' \subseteq Stored(type)
    BY <1>3, <1>8 DEF Freed, Stored
  <2> QED
    BY <2>1, <2>2, LimitShrinks
<1>9. CASE SubsArrive
  <2>1. ASSUME NEW e, Change(e) PROVE SubscriptionLimit'
    BY <1>7, <2>1 DEF Change
  <2> QED
    BY <1>1, <1>4, <1>9, <2>1, AnyIn DEF SubsArrive
<1>10. CASE SubsStep
  <2>1. ASSUME OnEvent \/ \E i \in Ids : SendMsg(i) PROVE SubscriptionLimit'
    BY <1>7, <2>1 DEF OnEvent, SendMsg
  <2> QED
    BY <1>5, <1>6, <1>10, <2>1 DEF SubsStep, NotifyStep, RequestStep
<1> QED
  BY <1>8, <1>9, <1>10

----------------------------------------------------------------------------
(* Notifications.                                                          *)

Events == [action : {"CREATE", "UPDATE", "DELETE"}, state : States]

LEMMA DueKept ==
  ASSUME NEW i \in Ids, DueInv(i), UNCHANGED <<events, sending>>,
         due'[i] # Nothing => due'[i] = due[i] /\ told'[i] = told[i] /\ subs'[i] = subs[i]
  PROVE  DueInv(i)'
  BY DEF DueInv, Covers, Stored

LEMMA SendingFields ==
  ASSUME NEW ids, NEW news
  PROVE  Sending(ids, news).to = ids /\ (ids # {} => Sending(ids, news).news = news)
  BY DEF Sending, Nobody

LEMMA ChangeDue ==
  ASSUME SubsTypeInv, NEW i \in Ids, DueInv(i), NEW e \in Events, Change(e)
  PROVE  DueInv(i)'
<1> DEFINE n == Len(events)
<1>1. events \in Seq(Events) /\ n \in Nat
  BY DEF SubsTypeInv, SubsTypeOK, Events
<1>2. /\ events' = Append(events, e) /\ UNCHANGED <<subs, sending, told>>
      /\ due'[i] = IF i \in Callbacks(e.state) THEN NewsOf(e) ELSE due[i]
  BY DEF Change
<1>3. Len(events') = n + 1 /\ events'[n + 1] = e /\ \A k \in 1 .. n : events'[k] = events[k]
  BY <1>1, <1>2, AppendProperties
<1>4. i \in Callbacks(e.state) <=> i \in Stored("avail") /\ Covers(i, e)
  BY DEF Callbacks, Covers
<1> DEFINE C(x) == IsInFilter(subs[i].filter, x.state)
<1>6. /\ DueInv(i)' <=>
           (due'[i] # Nothing =>
             /\ i \in Stored("avail")
             /\ \/ \E k \in 1 .. n + 1 :
                     /\ C(events'[k]) /\ due'[i] = NewsOf(events'[k])
                     /\ \A j \in k + 1 .. n + 1 : ~C(events'[j])
                \/ /\ \A k \in 1 .. n + 1 : ~C(events'[k])
                   /\ IF i \in sending.to THEN due'[i] = sending.news ELSE told[i] = due'[i])
  BY <1>2, <1>3 DEF DueInv, Covers, Stored
<1>7. DueInv(i) <=>
        (due[i] # Nothing =>
          /\ i \in Stored("avail")
          /\ \/ \E k \in 1 .. n :
                  /\ C(events[k]) /\ due[i] = NewsOf(events[k])
                  /\ \A j \in k + 1 .. n : ~C(events[j])
             \/ /\ \A k \in 1 .. n : ~C(events[k])
                /\ IF i \in sending.to THEN due[i] = sending.news ELSE told[i] = due[i])
  BY DEF DueInv, Covers
<1>8. Covers(i, e) <=> C(e)
  BY DEF Covers
<1> HIDE DEF n, C
<1>9. CASE i \in Callbacks(e.state)
  <2>1. n + 1 \in 1 .. n + 1 /\ \A j \in n + 1 + 1 .. n + 1 : ~C(events'[j])
    BY <1>1
  <2> QED
    BY <1>2, <1>3, <1>4, <1>6, <1>8, <1>9, <2>1
<1>10. CASE i \notin Callbacks(e.state) /\ due[i] # Nothing
  <2>1. ~C(e) /\ i \in Stored("avail")
    BY <1>4, <1>7, <1>8, <1>10
  <2>2. CASE \E k \in 1 .. n : /\ C(events[k]) /\ due[i] = NewsOf(events[k])
                               /\ \A j \in k + 1 .. n : ~C(events[j])
    <3>1. PICK k \in 1 .. n : /\ C(events[k]) /\ due[i] = NewsOf(events[k])
                              /\ \A j \in k + 1 .. n : ~C(events[j])
      BY <2>2
    <3>2. k \in 1 .. n + 1 /\ \A j \in k + 1 .. n + 1 : j = n + 1 \/ j \in k + 1 .. n
      BY <1>1, <3>1
    <3>3. \A j \in k + 1 .. n + 1 : ~C(events'[j])
      BY <1>1, <1>3, <2>1, <3>1, <3>2
    <3> QED
      BY <1>2, <1>3, <1>6, <1>10, <2>1, <3>1, <3>2, <3>3
  <2>3. CASE /\ \A k \in 1 .. n : ~C(events[k])
             /\ IF i \in sending.to THEN due[i] = sending.news ELSE told[i] = due[i]
    <3>1. \A k \in 1 .. n + 1 : k = n + 1 \/ k \in 1 .. n
      BY <1>1
    <3>2. \A k \in 1 .. n + 1 : ~C(events'[k])
      BY <1>3, <2>1, <2>3, <3>1
    <3> QED
      BY <1>2, <1>6, <1>10, <2>1, <2>3, <3>2
  <2> QED
    BY <1>7, <1>10, <2>2, <2>3
<1>11. CASE i \notin Callbacks(e.state) /\ due[i] = Nothing
  BY <1>2, <1>6, <1>11
<1> QED
  BY <1>9, <1>10, <1>11

LEMMA EventDue ==
  ASSUME SubsTypeInv, NEW i \in Ids, DueInv(i), OnEvent
  PROVE  DueInv(i)'
<1> DEFINE n == Len(events)
           e == Head(events)
           all == [j \in Ids |-> Nothing]
<1>1. /\ events \in Seq(Events) /\ n \in Nat
      /\ due \in [Ids -> News \cup {Nothing}] /\ told \in [Ids -> News \cup {Nothing}]
  BY DEF SubsTypeInv, SubsTypeOK, Events
<1>2. events # <<>> /\ events' = Tail(events) /\ UNCHANGED subs /\ sending.to = {}
  BY DEF OnEvent, Nobody
<1>3. /\ n >= 1 /\ e = events[1] /\ Len(events') = n - 1
      /\ \A k \in 1 .. n - 1 : events'[k] = events[k + 1]
  <2>1. n >= 1 /\ e = events[1]
    BY <1>1, <1>2
  <2> QED
    BY <1>1, <1>2, <2>1, HeadTailProperties
<1> DEFINE C(x) == IsInFilter(subs[i].filter, x.state)
<1>4. DueInv(i)' <=>
        (due'[i] # Nothing =>
          /\ i \in Stored("avail")
          /\ \/ \E k \in 1 .. n - 1 :
                  /\ C(events'[k]) /\ due'[i] = NewsOf(events'[k])
                  /\ \A j \in k + 1 .. n - 1 : ~C(events'[j])
             \/ /\ \A k \in 1 .. n - 1 : ~C(events'[k])
                /\ IF i \in sending'.to THEN due'[i] = sending'.news ELSE told'[i] = due'[i])
  BY <1>2, <1>3 DEF DueInv, Covers, Stored
<1>5. DueInv(i) <=>
        (due[i] # Nothing =>
          /\ i \in Stored("avail")
          /\ \/ \E k \in 1 .. n :
                  /\ C(events[k]) /\ due[i] = NewsOf(events[k])
                  /\ \A j \in k + 1 .. n : ~C(events[j])
             \/ /\ \A k \in 1 .. n : ~C(events[k])
                /\ IF i \in sending.to THEN due[i] = sending.news ELSE told[i] = due[i])
  BY DEF DueInv, Covers
<1>6. i \in Callbacks(e.state) <=> i \in Stored("avail") /\ C(e)
  BY DEF Callbacks
<1>7. CASE sending' = Sending(Callbacks(e.state), NewsOf(e)) /\ Settle(due, told)
  <2>1. due'[i] # Nothing => due'[i] = due[i] /\ told'[i] = told[i]
    BY <1>1, <1>7, SettleEffect
  <2>2. /\ sending'.to = Callbacks(e.state)
        /\ i \in Callbacks(e.state) => sending'.news = NewsOf(e)
    BY <1>7, SendingFields
  <2> HIDE DEF n, C, e
  <2>3. CASE due'[i] # Nothing /\ \E k \in 1 .. n :
               /\ C(events[k]) /\ due[i] = NewsOf(events[k])
               /\ \A j \in k + 1 .. n : ~C(events[j])
    <3>1. PICK k \in 1 .. n : /\ C(events[k]) /\ due[i] = NewsOf(events[k])
                              /\ \A j \in k + 1 .. n : ~C(events[j])
      BY <2>3
    <3>2. \A j \in k .. n - 1 : j >= 1 => events'[j] = events[j + 1] /\ ~C(events[j + 1])
      BY <1>1, <1>3, <3>1
    <3>3. CASE k = 1
      <4>1. \A j \in 1 .. n - 1 : ~C(events'[j])
        BY <1>1, <3>2, <3>3
      <4>2. C(e) /\ due[i] = NewsOf(e)
        BY <1>3, <3>1, <3>3
      <4> QED
        BY <1>4, <1>5, <1>6, <2>1, <2>2, <2>3, <4>1, <4>2
    <3>4. CASE k # 1
      <4>1. k - 1 \in 1 .. n - 1 /\ events'[k - 1] = events[k]
        BY <1>1, <1>3, <3>1, <3>4
      <4>2. \A j \in k - 1 + 1 .. n - 1 : ~C(events'[j])
        BY <1>1, <3>1, <3>2
      <4>3. C(events'[k - 1]) /\ due'[i] = NewsOf(events'[k - 1])
        BY <2>1, <2>3, <3>1, <4>1
      <4> QED
        BY <1>4, <1>5, <2>1, <2>3, <4>1, <4>2, <4>3
    <3> QED
      BY <3>3, <3>4
  <2>4. CASE due'[i] # Nothing /\ (\A k \in 1 .. n : ~C(events[k])) /\ told[i] = due[i]
    <3>1. 1 \in 1 .. n /\ \A k \in 1 .. n - 1 : k + 1 \in 1 .. n
      BY <1>1, <1>3
    <3>2. ~C(e) /\ \A k \in 1 .. n - 1 : ~C(events'[k])
      BY <1>3, <2>4, <3>1
    <3> QED
      BY <1>4, <1>5, <1>6, <2>1, <2>2, <2>4, <3>2
  <2> QED
    BY <1>2, <1>4, <1>5, <2>1, <2>3, <2>4
<1>8. CASE Settle(all, told)
  <2>1. all \in [Ids -> News \cup {Nothing}] /\ all[i] = Nothing
    OBVIOUS
  <2> HIDE DEF all
  <2>2. due'[i] = Nothing
    BY <1>1, <1>8, <2>1, SettleEffect
  <2> QED
    BY <1>4, <2>2
<1> QED
  BY <1>7, <1>8 DEF OnEvent

LEMMA SendDue ==
  ASSUME SubsTypeInv, NEW i \in Ids, DueInv(i), NEW s \in Ids, SendMsg(s)
  PROVE  DueInv(i)'
<1>1. /\ due \in [Ids -> News \cup {Nothing}] /\ told \in [Ids -> News \cup {Nothing}]
      /\ sending.news \in News
  BY DEF SubsTypeInv, SubsTypeOK
<1>2. /\ s \in sending.to /\ UNCHANGED <<subs, events>>
      /\ sending' = Sending(sending.to \ {s}, sending.news)
  BY DEF SendMsg
<1>3. /\ sending'.to = sending.to \ {s}
      /\ i \in sending'.to => sending'.news = sending.news
  BY <1>2, SendingFields
<1>4. CASE Settle(due, [told EXCEPT ![s] = sending.news])
  <2> DEFINE h == [told EXCEPT ![s] = sending.news]
  <2>1. /\ h \in [Ids -> News \cup {Nothing}]
        /\ h[i] = IF i = s THEN sending.news ELSE told[i]
    BY <1>1
  <2> HIDE DEF h
  <2>2. Settle(due, h)
    BY <1>4 DEF h
  <2>3. due'[i] # Nothing => due'[i] = due[i] /\ told'[i] = h[i]
    BY <1>1, <2>1, <2>2, SettleEffect
  <2> QED
    BY <1>2, <1>3, <2>1, <2>3 DEF DueInv, Covers, Stored
<1>5. CASE Settle([due EXCEPT ![s] = Nothing], told)
  <2> DEFINE d == [due EXCEPT ![s] = Nothing]
  <2>1. /\ d \in [Ids -> News \cup {Nothing}]
        /\ d[i] = IF i = s THEN Nothing ELSE due[i]
    BY <1>1
  <2> HIDE DEF d
  <2>2. Settle(d, told)
    BY <1>5 DEF d
  <2>3. due'[i] # Nothing => due'[i] = d[i] /\ told'[i] = told[i]
    BY <1>1, <2>1, <2>2, SettleEffect
  <2> QED
    BY <1>2, <1>3, <2>1, <2>3 DEF DueInv, Covers, Stored
<1> QED
  BY <1>4, <1>5 DEF SendMsg

LEMMA NewsNext ==
  ASSUME SubsTypeInv, NewsInv, Freed \/ SubsArrive \/ SubsStep
  PROVE  NewsInv'
<1> SUFFICES ASSUME NEW i \in Ids PROVE DueInv(i)'
  BY DEF NewsInv
<1>0. DueInv(i)
  BY DEF NewsInv
<1>1. ASSUME NEW ids, Drop(ids), UNCHANGED <<events, sending>> PROVE DueInv(i)'
  BY <1>0, <1>1, DropTyped, DueKept
<1>2. ASSUME UNCHANGED <<subs, due, told, events, sending>> PROVE DueInv(i)'
  BY <1>0, <1>2, DueKept
<1>3. CASE Freed
  BY <1>1, <1>2, <1>3 DEF Freed, newsVars
<1>4. CASE SubsArrive
  <2>1. ASSUME NEW r \in Requests, NEW sub \in Bodies, Subscribe(r, sub) PROVE DueInv(i)'
    BY <1>2, <2>1 DEF Subscribe, newsVars
  <2>2. ASSUME NEW r \in Requests, NEW j \in Ids, Unsubscribe(r, j) PROVE DueInv(i)'
    BY <1>2, <2>2 DEF Unsubscribe, newsVars
  <2>3. ASSUME NEW a \in {"CREATE", "UPDATE", "DELETE"}, NEW s \in States,
               Change([action |-> a, state |-> s])
        PROVE  DueInv(i)'
    <3>1. [action |-> a, state |-> s] \in Events
      BY DEF Events
    <3> QED
      BY <1>0, <2>3, <3>1, ChangeDue
  <2> QED
    BY <1>4, <2>1, <2>2, <2>3, AnyIn DEF SubsArrive
<1>5. CASE SubsStep
  <2>1. CASE OnEvent
    BY <1>0, <2>1, EventDue
  <2>2. ASSUME NEW s \in Ids, SendMsg(s) PROVE DueInv(i)'
    BY <1>0, <2>2, SendDue
  <2>3. ASSUME NEW r \in Requests, SubscribeIst(r) PROVE DueInv(i)'
    <3>1. UNCHANGED <<events, sending, due, told>>
      BY <2>3 DEF SubscribeIst, newsVars
    <3>2. \/ UNCHANGED subs
          \/ \E j \in Ids : subs[j] = NoSub /\ subs' = [subs EXCEPT ![j] = req[r].sub]
      BY <2>3, AnyIn DEF SubscribeIst, InsertOrUpdateData
    <3>3. due[i] # Nothing => subs[i] # NoSub
      BY <1>0 DEF DueInv, Stored
    <3>4. due[i] # Nothing => subs'[i] = subs[i]
      BY <3>2, <3>3 DEF SubsTypeInv, SubsTypeOK
    <3> QED
      BY <1>0, <3>1, <3>4, DueKept
  <2>4. ASSUME NEW r \in Requests, DelOneSubscribe(r) PROVE DueInv(i)'
    BY <1>1, <1>2, <2>4 DEF DelOneSubscribe, newsVars
  <2> QED
    BY <1>5, <2>1, <2>2, <2>3, <2>4 DEF SubsStep, NotifyStep, RequestStep
<1> QED
  BY <1>3, <1>4, <1>5

----------------------------------------------------------------------------
(* The wait.                                                               *)

AllWait == \A t \in Terms : WaitInv(t)

\* While one termination waits, no other is sure of its wait.
LEMMA OthersUnsure ==
  ASSUME AllWait, NEW t \in Terms, term[t].pc \in Waiting
  PROVE  \A u \in Terms \ {t} : ~term[u].sure
  BY DEF AllWait, WaitInv

LEMMA UnsureWaits ==
  ASSUME NEW t \in Terms, ~term'[t].sure
  PROVE  WaitInv(t)'
  BY DEF WaitInv

\* Nothing that matters to t happens.
LEMMA Undisturbed ==
  ASSUME NEW t \in Terms, WaitInv(t), term'[t].sure => term[t].sure,
         term'[t].pc = term[t].pc, term[t].answered => term'[t].answered,
         term'[t].before \subseteq term[t].before,
         \A i \in term'[t].before : subs'[i] # NoSub /\ subs'[i] = subs[i],
         \A u \in Terms \ {t} : term'[u].pc \in Waiting => term[u].pc \in Waiting,
         UNCHANGED record, UNCHANGED conf
  PROVE  WaitInv(t)'
<1> SUFFICES ASSUME term'[t].sure PROVE WaitInv(t)'
  BY DEF WaitInv
<1>1. /\ term[t].pc \in Waiting \cup {"after", "load", "sync", "release"}
      /\ \A u \in Terms \ {t} : term[u].pc \notin Waiting
      /\ term[t].pc \in {"write", "poll"} /\ (\E c \in Confirms : conf[c] # "idle") =>
           term[t].answered
      /\ term[t].pc = "poll" /\ record # "inProgress" => term[t].answered
      /\ term[t].pc = "deleteAvail" => \A i \in term[t].before : subs[i].type = "avail"
      /\ term[t].pc = "after" => term[t].before = {}
  BY DEF WaitInv
<1> QED
  BY <1>1 DEF WaitInv

\* A termination moves on outside of the wait.
LEMMA Outside ==
  ASSUME TypeInv, AllWait, NEW t \in Terms, NEW x, term' = [term EXCEPT ![t] = x],
         term[t].pc \notin Waiting, x.pc \notin Waiting,
         x.sure => term[t].sure /\ x.before = term[t].before /\ x.pc \in {"load", "sync", "release"},
         UNCHANGED <<subs, record, conf>>
  PROVE  AllWait'
<1>1. term'[t] = x /\ \A u \in Terms \ {t} : term'[u] = term[u]
  BY DEF TypeInv
<1>2. ASSUME NEW u \in Terms \ {t} PROVE WaitInv(u)'
  <2>1. WaitInv(u)
    BY DEF AllWait
  <2>2. \A v \in Terms \ {u} : term'[v].pc \in Waiting => term[v].pc \in Waiting
    BY <1>1
  <2>3. term'[u].sure => \A i \in term'[u].before : subs'[i] # NoSub /\ subs'[i] = subs[i]
    BY <1>1, <2>1 DEF WaitInv
  <2>4. CASE term'[u].sure
    BY <1>1, <2>1, <2>2, <2>3, <2>4, Undisturbed
  <2> QED
    BY <2>4, UnsureWaits
<1>3. WaitInv(t)'
  <2>1. CASE x.sure
    <3>1. /\ \A u \in Terms \ {t} : term[u].pc \notin Waiting
          /\ \A i \in term[t].before : subs[i] # NoSub
      BY <2>1 DEF AllWait, WaitInv
    <3> QED
      BY <1>1, <2>1, <3>1 DEF WaitInv
  <2>2. CASE ~x.sure
    BY <1>1, <2>2, UnsureWaits
  <2> QED
    BY <2>1, <2>2
<1> QED
  BY <1>2, <1>3 DEF AllWait

LEMMA OutsideSteps ==
  ASSUME TypeInv, AllWait, NEW t \in Terms,
         \/ Terminate(t) \/ StageSubscribed(t) \/ StageCreated(t) \/ PutJob(t) \/ Begin(t)
         \/ Lookup(t) \/ After(t) \/ Load(t) \/ Release(t) \/ Sync(t)
  PROVE  AllWait'
<1>0. term \in [Terms -> TermTypes] /\ term[t] \in TermTypes
  BY DEF TypeInv
<1>a. /\ NoTerm.pc = "idle" /\ NoTerm.sure = FALSE
      /\ {"idle", "begin", "lookup", "send", "after", "load", "sync", "release", "staging", "created", "put"}
           \cap Waiting = {}
  BY DEF NoTerm, Waiting
<1>1. UNCHANGED <<subs, record, conf>>
  BY DEF Terminate, StageSubscribed, StageCreated, PutJob, Begin, Lookup, After, Load, Release, Sync
<1>2. term[t].sure => term[t].pc \in Waiting \cup {"after", "load", "sync", "release"}
  BY DEF AllWait, WaitInv
<1>3. ASSUME NEW l \in {"staging", "created", "put", "begin", "lookup", "send", "load", "sync", "release"},
             Goto(t, l), term[t].pc \notin Waiting,
             term[t].pc \in {"after", "load", "sync", "release"} => l \in {"load", "sync", "release"}
      PROVE  AllWait'
  <2> DEFINE x == [term[t] EXCEPT !.pc = l]
  <2>1. x.pc = l /\ x.sure = term[t].sure /\ x.before = term[t].before
    BY <1>0 DEF TermTypes
  <2>2. term' = [term EXCEPT ![t] = x]
    BY <1>0, <1>3 DEF Goto
  <2> HIDE DEF x
  <2> QED
    BY <1>1, <1>2, <1>3, <1>a, <2>1, <2>2, Outside
<1>4. ASSUME End(t), term[t].pc \notin Waiting PROVE AllWait'
  BY <1>1, <1>4, <1>a, Outside DEF End
<1>5. ASSUME NEW l \in {"created", "begin", "lookup", "load"}, NEW b \in BOOLEAN,
             term' = [term EXCEPT ![t].pc = l, ![t].subscribed = b],
             term[t].pc \in {"staging", "created", "begin"}
      PROVE  AllWait'
  <2> DEFINE x == [term[t] EXCEPT !.pc = l, !.subscribed = b]
  <2>1. x.pc = l /\ x.sure = term[t].sure
    BY <1>0 DEF TermTypes
  <2>2. term' = [term EXCEPT ![t] = x]
    BY <1>0, <1>5
  <2>3. ~term[t].sure /\ term[t].pc \notin Waiting
    BY <1>2, <1>5, <1>a
  <2> HIDE DEF x
  <2> QED
    BY <1>1, <1>5, <1>a, <2>1, <2>2, <2>3, Outside
<1>6. CASE Terminate(t)
  BY <1>3, <1>6, <1>a DEF Terminate, At
<1>7. CASE StageSubscribed(t)
  <2>1. IsSubscribed \in BOOLEAN
    BY DEF IsSubscribed
  <2> QED
    BY <1>3, <1>5, <1>7, <1>a, <2>1 DEF StageSubscribed, At
<1>8. CASE StageCreated(t)
  BY <1>3, <1>5, <1>8, <1>a DEF StageCreated, At
<1>9. CASE PutJob(t)
  BY <1>3, <1>4, <1>9, <1>a DEF PutJob, At
<1>10. CASE Begin(t)
  BY <1>5, <1>10 DEF Begin, At
<1>11. CASE Lookup(t)
  BY <1>3, <1>4, <1>11, <1>a DEF Lookup, At
<1>12. CASE After(t)
  BY <1>3, <1>4, <1>12, <1>a DEF After, At
<1>13. CASE Load(t)
  BY <1>3, <1>4, <1>13, <1>a DEF Load, At
<1>14. CASE Sync(t)
  BY <1>4, <1>14, <1>a DEF Sync, At
<1>15. CASE Release(t)
  BY <1>4, <1>15, <1>a DEF Release, At
<1> QED
  BY <1>15, <1>6, <1>7, <1>8, <1>9, <1>10, <1>11, <1>12, <1>13, <1>14

\* A step of the termination that waits: what the others do not know of, they
\* are not sure of either.
LEMMA Inside ==
  ASSUME AllWait, NEW t \in Terms, term[t].pc \in Waiting,
         \A u \in Terms \ {t} : term'[u].sure = term[u].sure /\ term'[u].pc = term[u].pc,
         term'[t].sure =>
           /\ term[t].sure /\ term'[t].pc \in Waiting \cup {"after"}
           /\ term'[t].pc \in {"write", "poll"} /\ (\E c \in Confirms : conf'[c] # "idle") =>
                term'[t].answered
           /\ term'[t].pc = "poll" /\ record' # "inProgress" => term'[t].answered
           /\ \A i \in term'[t].before : subs'[i] # NoSub
           /\ term'[t].pc = "deleteAvail" => \A i \in term'[t].before : subs'[i].type = "avail"
           /\ term'[t].pc = "after" => term'[t].before = {}
  PROVE  AllWait'
<1>1. ASSUME NEW u \in Terms \ {t} PROVE WaitInv(u)'
  BY OthersUnsure, UnsureWaits
<1>2. WaitInv(t)'
  <2>1. CASE term'[t].sure
    <3>1. \A u \in Terms \ {t} : term'[u].pc \notin Waiting
      BY <2>1 DEF AllWait, WaitInv
    <3> QED
      BY <2>1, <3>1 DEF WaitInv
  <2> QED
    BY <2>1, UnsureWaits
<1> QED
  BY <1>1, <1>2 DEF AllWait

\* What is known of a termination that waits undisturbed.
LEMMA WaitFacts ==
  ASSUME AllWait, NEW t \in Terms, term[t].sure
  PROVE  /\ \A u \in Terms \ {t} : term[u].pc \notin Waiting
         /\ term[t].pc \in {"write", "poll"} /\ (\E c \in Confirms : conf[c] # "idle") =>
              term[t].answered
         /\ term[t].pc = "poll" /\ record # "inProgress" => term[t].answered
         /\ \A i \in term[t].before : subs[i] # NoSub
         /\ term[t].pc = "deleteAvail" => \A i \in term[t].before : subs[i].type = "avail"
  BY DEF AllWait, WaitInv

LEMMA NotifyWaits ==
  ASSUME TypeInv, AllWait, NEW t \in Terms, Notify(t)
  PROVE  AllWait'
<1> DEFINE others == {u \in Terms \ {t} : term[u].pc \in Waiting}
           alone == others = {} /\ \A c \in Confirms : conf[c] = "idle"
           x == [term[t] EXCEPT !.pc = "write", !.sure = alone,
                   !.before = IF alone THEN Stored("end") \cup Stored("avail") ELSE {}]
<1>0. term \in [Terms -> TermTypes] /\ term[t] \in TermTypes
  BY DEF TypeInv
<1>1. UNCHANGED <<subs, record, conf>> /\ term[t].pc = "send"
  BY DEF Notify, At
<1>2. CASE term' = [u \in Terms |-> IF u # t THEN Unsure(term[u]) ELSE x]
  <2>1. /\ x.pc = "write" /\ x.sure = alone
        /\ x.before = IF alone THEN Stored("end") \cup Stored("avail") ELSE {}
    BY <1>0 DEF TermTypes
  <2>2. term'[t] = x /\ \A u \in Terms \ {t} : term'[u] = Unsure(term[u])
    BY <1>2
  <2> HIDE DEF x
  <2>3. \A u \in Terms \ {t} : term'[u].pc = term[u].pc /\ term'[u].sure = FALSE
    BY <1>0, <2>2, UnsureFields
  <2>4. \A u \in Terms \ {t} : WaitInv(u)'
    BY <2>3, UnsureWaits
  <2>5. CASE alone
    <3>1. (\A u \in Terms \ {t} : term'[u].pc \notin Waiting) /\ \A c \in Confirms : conf'[c] = "idle"
      BY <1>1, <2>3, <2>5
    <3>2. term'[t].pc = "write" /\ \A i \in term'[t].before : subs'[i] # NoSub
      BY <1>1, <2>1, <2>2, <2>5 DEF Stored
    <3>3. WaitInv(t)'
      BY <3>1, <3>2 DEF WaitInv, Waiting
    <3> QED
      BY <2>4, <3>3 DEF AllWait
  <2>6. CASE ~alone
    BY <2>1, <2>2, <2>4, <2>6, UnsureWaits DEF AllWait
  <2> QED
    BY <2>5, <2>6
<1>3. CASE Goto(t, "after")
  <2> DEFINE y == [term[t] EXCEPT !.pc = "after"]
  <2>1. y.pc = "after" /\ y.sure = term[t].sure
    BY <1>0 DEF TermTypes
  <2>2. term' = [term EXCEPT ![t] = y]
    BY <1>0, <1>3 DEF Goto
  <2>3. ~term[t].sure /\ "send" \notin Waiting /\ "after" \notin Waiting
    BY <1>1 DEF AllWait, WaitInv, Waiting
  <2> HIDE DEF y
  <2> QED
    BY <1>1, <2>1, <2>2, <2>3, Outside
<1> QED
  BY <1>2, <1>3 DEF Notify

LEMMA CutShortWaits ==
  ASSUME TypeInv, AllWait, NEW t \in Terms, term[t].pc \in Waiting, CutShort(t)
  PROVE  AllWait'
<1> DEFINE x == [term[t] EXCEPT !.pc = "after"]
<1>0. term \in [Terms -> TermTypes] /\ x \in TermTypes
  BY TermMoves DEF TypeInv, TermPcs
<1>1. term' = [term EXCEPT ![t] = Unsure(x)]
  BY DEF CutShort
<1> HIDE DEF x
<1>2. ~Unsure(x).sure
  BY <1>0, UnsureFields
<1>3. ~term'[t].sure /\ \A u \in Terms \ {t} : term'[u] = term[u]
  BY <1>0, <1>1, <1>2
<1> QED
  BY <1>3, Inside

LEMMA WriteWaits ==
  ASSUME TypeInv, AllWait, NEW t \in Terms, WriteRecord(t)
  PROVE  AllWait'
<1> DEFINE x == [term[t] EXCEPT !.pc = "poll"]
<1>0. term \in [Terms -> TermTypes] /\ term[t] \in TermTypes /\ x \in TermTypes
  BY TermMoves DEF TypeInv, TermPcs, Waiting
<1>1. UNCHANGED <<subs, conf>> /\ term[t].pc = "write" /\ "write" \in Waiting /\ "poll" \in Waiting
  BY DEF WriteRecord, At, Waiting
<1>2. x.pc = "poll" /\ x.sure = term[t].sure /\ x.before = term[t].before
      /\ x.answered = term[t].answered
  BY <1>0 DEF TermTypes
<1>3. CASE record' = "inProgress" /\ Goto(t, "poll")
  <2>1. term'[t] = x /\ \A u \in Terms \ {t} : term'[u] = term[u]
    BY <1>0, <1>3 DEF Goto
  <2> HIDE DEF x
  <2> QED
    BY <1>1, <1>2, <1>3, <2>1, WaitFacts, Inside
<1>4. CASE term' = [term EXCEPT ![t] = Unsure([@ EXCEPT !.pc = "poll"])]
  <2>1. term'[t] = Unsure(x) /\ \A u \in Terms \ {t} : term'[u] = term[u]
    BY <1>0, <1>4
  <2> HIDE DEF x
  <2>2. ~term'[t].sure
    BY <1>0, <2>1, UnsureFields
  <2> QED
    BY <1>1, <2>1, <2>2, Inside
<1> QED
  BY <1>3, <1>4 DEF WriteRecord

LEMMA PollWaits ==
  ASSUME TypeInv, AllWait, NEW t \in Terms, Poll(t)
  PROVE  AllWait'
<1>0. term \in [Terms -> TermTypes] /\ term[t] \in TermTypes
  BY DEF TypeInv
<1>1. /\ UNCHANGED <<subs, record, conf>> /\ term[t].pc = "poll"
      /\ "poll" \in Waiting /\ "delete" \in Waiting
  BY DEF Poll, At, Waiting
<1>2. CASE term' = [term EXCEPT ![t] = WaitOver(@)]
  <2>1. term'[t] = WaitOver(term[t]) /\ \A u \in Terms \ {t} : term'[u] = term[u]
    BY <1>0, <1>2
  <2>2. term'[t].pc = "delete" /\ term'[t].sure = term[t].sure /\ term'[t].before = term[t].before
    BY <1>0, <2>1, WaitOverFields
  <2> QED
    BY <1>1, <2>1, <2>2, WaitFacts, Inside
<1>3. CASE term' = [term EXCEPT ![t].polls = term[t].polls + 1]
  <2>1. /\ term'[t].pc = "poll" /\ term'[t].sure = term[t].sure
        /\ term'[t].before = term[t].before /\ term'[t].answered = term[t].answered
        /\ \A u \in Terms \ {t} : term'[u] = term[u]
    BY <1>0, <1>1, <1>3 DEF TermTypes
  <2> QED
    BY <1>1, <2>1, WaitFacts, Inside
<1>4. CASE term' = [term EXCEPT ![t] = WaitOver(Unsure(@))]
  <2>1. term'[t] = WaitOver(Unsure(term[t])) /\ \A u \in Terms \ {t} : term'[u] = term[u]
    BY <1>0, <1>4
  <2>2. Unsure(term[t]) \in TermTypes /\ ~Unsure(term[t]).sure
    BY <1>0, UnsureFields
  <2>3. ~term'[t].sure
    BY <2>1, <2>2, WaitOverFields
  <2> QED
    BY <1>1, <2>1, <2>3, Inside
<1> QED
  BY <1>2, <1>3, <1>4 DEF Poll

LEMMA DeleteRecordWaits ==
  ASSUME TypeInv, AllWait, NEW t \in Terms, DeleteRecord(t)
  PROVE  AllWait'
<1>0. term \in [Terms -> TermTypes] /\ term[t] \in TermTypes
  BY DEF TypeInv
<1>1. /\ UNCHANGED <<subs, conf>> /\ term[t].pc = "delete"
      /\ "delete" \in Waiting /\ "deleteEnd" \in Waiting
  BY DEF DeleteRecord, At, Waiting
<1>2. CASE Goto(t, "deleteEnd")
  <2>1. /\ term'[t].pc = "deleteEnd" /\ term'[t].sure = term[t].sure
        /\ term'[t].before = term[t].before
        /\ \A u \in Terms \ {t} : term'[u] = term[u]
    BY <1>0, <1>2 DEF Goto, TermTypes
  <2> QED
    BY <1>1, <2>1, WaitFacts, Inside
<1>3. CASE CutShort(t)
  BY <1>1, <1>3, CutShortWaits
<1> QED
  BY <1>2, <1>3 DEF DeleteRecord

\* What GotoKnown keeps and what it forgets.
LEMMA GotoKnownFields ==
  ASSUME TypeInv, NEW t \in Terms, NEW l \in TermPcs, GotoKnown(t, l)
  PROVE  /\ term'[t].pc = l /\ term'[t].sure = term[t].sure
         /\ term'[t].before = {i \in term[t].before : subs'[i] # NoSub}
         /\ \A u \in Terms \ {t} : term'[u].sure = term[u].sure /\ term'[u].pc = term[u].pc
<1> DEFINE x == [term[t] EXCEPT !.pc = l]
<1>0. term \in [Terms -> TermTypes] /\ term[t] \in TermTypes /\ x \in TermTypes
  BY TermMoves DEF TypeInv
<1>1. x.pc = l /\ x.sure = term[t].sure /\ x.before = term[t].before
  BY <1>0 DEF TermTypes
<1>2. term'[t] = Known(x) /\ \A u \in Terms \ {t} : term'[u] = Known(term[u])
  BY DEF GotoKnown
<1> HIDE DEF x
<1>3. /\ Known(x).pc = x.pc /\ Known(x).sure = x.sure
      /\ Known(x).before = {i \in x.before : subs'[i] # NoSub}
  BY <1>0, KnownFields
<1>4. \A u \in Terms : Known(term[u]).sure = term[u].sure /\ Known(term[u]).pc = term[u].pc
  BY <1>0, KnownFields
<1> QED
  BY <1>1, <1>2, <1>3, <1>4

LEMMA DeleteEndWaits ==
  ASSUME TypeInv, AllWait, NEW t \in Terms, DeleteEnd(t)
  PROVE  AllWait'
<1>0. SubsTypeInv /\ term[t].before \subseteq Ids
  BY DEF TypeInv, TypeOK
<1>1. /\ term[t].pc = "deleteEnd" /\ "deleteEnd" \in Waiting
      /\ "deleteAvail" \in Waiting /\ "deleteAvail" \in TermPcs
  BY DEF DeleteEnd, At, Waiting, TermPcs
<1>2. CASE Drop(Stored("end")) /\ GotoKnown(t, "deleteAvail")
  <2>1. /\ term'[t].pc = "deleteAvail" /\ term'[t].sure = term[t].sure
        /\ term'[t].before = {i \in term[t].before : subs'[i] # NoSub}
        /\ \A u \in Terms \ {t} : term'[u].sure = term[u].sure /\ term'[u].pc = term[u].pc
    BY <1>1, <1>2, GotoKnownFields
  <2>2. \A i \in Ids : subs'[i] = IF i \in Stored("end") THEN NoSub ELSE subs[i]
    BY <1>0, <1>2, DropTyped
  <2>3. ASSUME NEW i \in Ids, subs'[i] # NoSub PROVE subs'[i].type = "avail"
    <3>1. i \notin Stored("end") /\ subs'[i] = subs[i]
      BY <2>2, <2>3
    <3>2. i \in Stored("avail")
      BY <1>0, <2>3, <3>1, StoredShapes
    <3> QED
      BY <3>1, <3>2 DEF Stored
  <2> QED
    BY <1>0, <1>1, <2>1, <2>3, Inside
<1>3. CASE CutShort(t)
  BY <1>1, <1>3, CutShortWaits
<1> QED
  BY <1>2, <1>3 DEF DeleteEnd

LEMMA DeleteAvailWaits ==
  ASSUME TypeInv, AllWait, NEW t \in Terms, DeleteAvail(t)
  PROVE  AllWait'
<1>0. SubsTypeInv /\ term[t].before \subseteq Ids
  BY DEF TypeInv, TypeOK
<1>1. term[t].pc = "deleteAvail" /\ "deleteAvail" \in Waiting /\ "after" \in TermPcs
  BY DEF DeleteAvail, At, Waiting, TermPcs
<1>2. CASE Drop(Stored("avail")) /\ GotoKnown(t, "after")
  <2>1. /\ term'[t].pc = "after" /\ term'[t].sure = term[t].sure
        /\ term'[t].before = {i \in term[t].before : subs'[i] # NoSub}
        /\ \A u \in Terms \ {t} : term'[u].sure = term[u].sure /\ term'[u].pc = term[u].pc
    BY <1>1, <1>2, GotoKnownFields
  <2>2. \A i \in Ids : subs'[i] = IF i \in Stored("avail") THEN NoSub ELSE subs[i]
    BY <1>0, <1>2, DropTyped
  <2>3. ASSUME term[t].sure, NEW i \in term[t].before PROVE subs'[i] = NoSub
    <3>1. subs[i] # NoSub /\ subs[i].type = "avail"
      BY <1>1, <2>3, WaitFacts
    <3>2. i \in Stored("avail")
      BY <1>0, <3>1 DEF Stored
    <3> QED
      BY <1>0, <2>2, <3>2
  <2> QED
    BY <1>1, <2>1, <2>3, Inside
<1>3. CASE CutShort(t)
  BY <1>1, <1>3, CutShortWaits
<1> QED
  BY <1>2, <1>3 DEF DeleteAvail

\* The confirmation of the application: whoever waits undisturbed has its
\* answer before the record changes.
LEMMA ConfirmWaits ==
  ASSUME TypeInv, AllWait, NEW c \in Confirms, Confirm(c) \/ ConfStep(c)
  PROVE  AllWait'
<1> SUFFICES ASSUME NEW t \in Terms, term'[t].sure PROVE WaitInv(t)'
  BY UnsureWaits DEF AllWait
<1>0. /\ term \in [Terms -> TermTypes] /\ term[t] \in TermTypes
      /\ conf \in [Confirms -> {"idle", "read", "put"}] /\ UNCHANGED subs
  BY DEF TypeInv, TypeOK, Confirm, ConfStep, ConfirmRead, ConfirmPut, subsVars
<1>1. CASE Confirm(c)
  <2>1. UNCHANGED record
    BY <1>1 DEF Confirm
  <2>2. \A u \in Terms : term'[u] =
           [term[u] EXCEPT !.answered = @ \/ (term[u].sure /\ term[u].pc \in {"write", "poll"})]
    BY <1>1 DEF Confirm
  <2>3. ASSUME NEW u \in Terms PROVE term'[u].pc = term[u].pc
    <3>1. term[u] \in TermTypes
      BY <1>0
    <3> QED
      BY <2>2, <3>1 DEF TermTypes
  <2>4. /\ term'[t].sure = term[t].sure /\ term'[t].before = term[t].before
        /\ term'[t].answered =
             (term[t].answered \/ (term[t].sure /\ term[t].pc \in {"write", "poll"}))
    BY <1>0, <2>2 DEF TermTypes
  <2>5. WaitInv(t) /\ term[t].sure
    BY <2>4 DEF AllWait
  <2> QED
    BY <1>0, <2>1, <2>3, <2>4, <2>5 DEF WaitInv
<1>2. CASE ConfStep(c)
  <2>1. UNCHANGED term
    BY <1>2 DEF ConfStep, ConfirmRead, ConfirmPut
  <2>2. conf[c] # "idle" /\ \A d \in Confirms : conf'[d] # "idle" => conf[d] # "idle"
    BY <1>0, <1>2 DEF ConfStep, ConfirmRead, ConfirmPut
  <2>3. WaitInv(t) /\ term[t].sure
    BY <2>1 DEF AllWait
  <2>4. term[t].pc \in {"write", "poll"} => term[t].answered
    BY <2>2, <2>3 DEF WaitInv
  <2> QED
    BY <1>0, <2>1, <2>3, <2>4 DEF WaitInv
<1> QED
  BY <1>1, <1>2

\* A subscription that stays keeps what it was.
LEMMA SubsKept ==
  ASSUME SubsTypeInv, SubsStep, NEW i \in Ids, subs[i] # NoSub, subs'[i] # NoSub
  PROVE  subs'[i] = subs[i]
<1>0. subs \in [Ids -> Subs \cup {NoSub}]
  BY DEF SubsTypeInv, SubsTypeOK
<1>1. CASE OnEvent \/ \E s \in Ids : SendMsg(s)
  BY <1>1 DEF OnEvent, SendMsg
<1>2. ASSUME NEW r \in Requests, SubscribeIst(r) PROVE subs'[i] = subs[i]
  <2>1. \/ UNCHANGED subs
        \/ \E j \in Ids : subs[j] = NoSub /\ subs' = [subs EXCEPT ![j] = req[r].sub]
    BY <1>2, AnyIn DEF SubscribeIst, InsertOrUpdateData
  <2> QED
    BY <1>0, <2>1
<1>3. ASSUME NEW r \in Requests, DelOneSubscribe(r) PROVE subs'[i] = subs[i]
  <2>1. CASE Drop({req[r].id})
    BY <2>1, DropTyped
  <2> QED
    BY <1>3, <2>1 DEF DelOneSubscribe
<1> QED
  BY <1>1, <1>2, <1>3 DEF SubsStep, NotifyStep, RequestStep

LEMMA SubsStepWaits ==
  ASSUME TypeInv, AllWait, SubsStep, term' = [t \in Terms |-> Known(term[t])],
         UNCHANGED <<record, conf>>
  PROVE  AllWait'
<1> SUFFICES ASSUME NEW t \in Terms, term'[t].sure PROVE WaitInv(t)'
  BY UnsureWaits DEF AllWait
<1>0. SubsTypeInv /\ term \in [Terms -> TermTypes] /\ term[t].before \subseteq Ids
  BY DEF TypeInv, TypeOK
<1>1. \A u \in Terms : term'[u].pc = term[u].pc
  BY <1>0, KnownFields
<1>2. /\ term'[t].sure = term[t].sure /\ term'[t].answered = term[t].answered
      /\ term'[t].before = {i \in term[t].before : subs'[i] # NoSub}
  BY <1>0, KnownFields
<1>3. WaitInv(t) /\ term[t].sure
  BY <1>2 DEF AllWait
<1>4. \A i \in term'[t].before : subs'[i] # NoSub /\ subs'[i] = subs[i]
  <2>1. \A i \in term[t].before : subs[i] # NoSub
    BY <1>3 DEF WaitInv
  <2> QED
    BY <1>0, <1>2, <2>1, SubsKept
<1>5. term'[t].before \subseteq term[t].before
  BY <1>2
<1> QED
  BY <1>1, <1>2, <1>3, <1>4, <1>5, Undisturbed

LEMMA WaitNext ==
  ASSUME TypeInv, AllWait, [Next]_vars
  PROVE  AllWait'
<1>1. ASSUME NEW t \in Terms, TermStep(t) PROVE AllWait'
  BY <1>1, OutsideSteps, NotifyWaits, WriteWaits, PollWaits, DeleteRecordWaits, DeleteEndWaits,
     DeleteAvailWaits DEF TermStep
<1>2. ASSUME NEW c \in Confirms, ConfStep(c) \/ Confirm(c) PROVE AllWait'
  BY <1>2, ConfirmWaits
<1>3. ASSUME NEW t \in Terms, Terminate(t) PROVE AllWait'
  BY <1>3, OutsideSteps
<1>4. ASSUME UNCHANGED <<subs, record, term, conf>> PROVE AllWait'
  BY <1>4 DEF AllWait, WaitInv
<1>5. CASE Arrive
  <2>1. CASE SubsArrive /\ UNCHANGED termVars
    <3>1. UNCHANGED subs
      BY <2>1 DEF SubsArrive, Subscribe, Unsubscribe, Change
    <3> QED
      BY <1>4, <2>1, <3>1 DEF termVars
  <2>2. CASE Configure
    BY <1>4, <2>2 DEF Configure, subsVars
  <2> QED
    BY <1>2, <1>3, <1>5, <2>1, <2>2, AnyIn DEF Arrive
<1>6. CASE /\ SubsStep /\ term' = [t \in Terms |-> Known(term[t])]
           /\ UNCHANGED <<config, job, record, conf, stuck>>
  BY <1>6, SubsStepWaits
<1>7. CASE UNCHANGED vars
  BY <1>4, <1>7 DEF vars, subsVars, termVars
<1> QED
  BY <1>1, <1>2, <1>5, <1>6, <1>7 DEF Next

\* Nobody but the task itself ends its wait.
LEMMA OnlyPollEnds ==
  ASSUME TypeInv, [Next]_vars, NEW t \in Terms, At(t, "poll"), term'[t].pc # "poll"
  PROVE  Poll(t)
<1>0. term \in [Terms -> TermTypes] /\ term[t] \in TermTypes /\ term[t].pc = "poll"
  BY DEF TypeInv, At
<1>1. ASSUME NEW u \in Terms, TermStep(u) PROVE Poll(t)
  <2>1. CASE u = t
    BY <1>0, <1>1, <2>1 DEF TermStep, At, StageSubscribed, StageCreated, PutJob, Begin, Lookup,
       Notify, WriteRecord, DeleteRecord, DeleteEnd, DeleteAvail, After, Load, Release, Sync
  <2>2. CASE u # t
    <3>1. CASE \/ StageSubscribed(u) \/ StageCreated(u) \/ PutJob(u) \/ Begin(u) \/ Lookup(u)
               \/ WriteRecord(u) \/ Poll(u) \/ DeleteRecord(u) \/ After(u) \/ Load(u)
               \/ Release(u) \/ Sync(u)
      <4>1. term'[t] = term[t]
        BY <1>0, <2>2, <3>1 DEF StageSubscribed, StageCreated, PutJob, Begin, Lookup, WriteRecord,
           Poll, DeleteRecord, CutShort, After, Load, Release, Sync, Goto, End
      <4> QED
        BY <1>0, <4>1
    <3>2. CASE Notify(u)
      <4>1. term'[t] = Unsure(term[t]) \/ term'[t] = term[t]
        BY <1>0, <2>2, <3>2 DEF Notify, Goto
      <4> QED
        BY <1>0, <4>1, UnsureFields
    <3>3. CASE DeleteEnd(u) \/ DeleteAvail(u)
      <4>1. term'[t] = Known(term[t]) \/ term'[t] = term[t]
        BY <1>0, <2>2, <3>3 DEF DeleteEnd, DeleteAvail, GotoKnown, CutShort
      <4> QED
        BY <1>0, <4>1, KnownFields
    <3> QED
      BY <1>1, <3>1, <3>2, <3>3 DEF TermStep
  <2> QED
    BY <2>1, <2>2
<1>2. ASSUME NEW c \in Confirms, ConfStep(c) PROVE FALSE
  BY <1>0, <1>2 DEF ConfStep, ConfirmRead, ConfirmPut
<1>3. CASE Arrive
  <2>1. ASSUME NEW c \in Confirms, Confirm(c) PROVE FALSE
    <3>1. term'[t] =
            [term[t] EXCEPT !.answered = @ \/ (term[t].sure /\ term[t].pc \in {"write", "poll"})]
      BY <2>1 DEF Confirm
    <3> QED
      BY <1>0, <3>1 DEF TermTypes
  <2>2. ASSUME NEW u \in Terms, Terminate(u) PROVE FALSE
    BY <1>0, <2>2 DEF Terminate, Goto, At
  <2>3. CASE (SubsArrive /\ UNCHANGED termVars) \/ Configure
    BY <1>0, <2>3 DEF termVars, Configure
  <2> QED
    BY <1>3, <2>1, <2>2, <2>3, AnyIn DEF Arrive
<1>4. CASE term' = [u \in Terms |-> Known(term[u])]
  BY <1>0, <1>4, KnownFields
<1>5. CASE UNCHANGED vars
  BY <1>0, <1>5 DEF vars, termVars
<1> QED
  BY <1>1, <1>2, <1>3, <1>4, <1>5 DEF Next

----------------------------------------------------------------------------
(* The theorems.                                                           *)

LEMMA TermInit == Init => TermInv
<1> SUFFICES ASSUME Init PROVE TermInv
  OBVIOUS
<1>1. /\ SubsInit /\ config = FALSE /\ job = FALSE /\ record = "none"
      /\ term = [t \in Terms |-> NoTerm] /\ conf = [c \in Confirms |-> "idle"] /\ stuck = FALSE
  BY DEF Init
<1>2. SubsTypeInv
  <2>1. Nobody \in [to : SUBSET Ids, news : News] /\ Idle \in ReqTypes /\ 0 \in 0 .. MaxFaults
    BY SubscriptionsAssumption DEF Nobody, News, ReqTypes
  <2>2. <<>> \in Seq([action : {"CREATE", "UPDATE", "DELETE"}, state : States])
    OBVIOUS
  <2> QED
    BY <1>1, <2>1, <2>2 DEF SubsInit, SubsTypeInv, SubsTypeOK
<1>3. TypeInv
  <2>1. term \in [Terms -> TermTypes]
    BY <1>1, NoTermTyped
  <2>2. \A t \in Terms : /\ term[t].pc \in TermPcs
                         /\ term[t].polls < AppTerminationTimeout
                         /\ term[t].before \subseteq Ids
    BY <2>1, TerminationAssumption DEF TermTypes
  <2> QED
    BY <1>1, <1>2, <2>1, <2>2 DEF TypeInv, TypeOK, SubsTypeInv
<1>4. SubscriptionLimit
  <2>1. ASSUME NEW type \in {"end", "avail"} PROVE Stored(type) = {} /\ Inserting(type) = {}
    BY <1>1 DEF SubsInit, Stored, Inserting, Idle
  <2>2. Cardinality({}) = 0
    BY FS_EmptySet
  <2>3. AppSubscriptionCount \in Nat \ {0} /\ Cardinality(Requests) \in Nat
    BY SubscriptionsAssumption, FS_CardinalityType
  <2>4. 0 + 0 <= AppSubscriptionCount + Cardinality(Requests) - 1
    BY <2>3
  <2>5. ASSUME NEW type \in {"end", "avail"}
        PROVE  Cardinality(Stored(type)) = 0 /\ Cardinality(Inserting(type)) = 0
    BY <2>1, <2>2
  <2> QED
    BY <2>4, <2>5 DEF SubscriptionLimit
<1>5. NewsInv
  BY <1>1 DEF SubsInit, NewsInv, DueInv
<1>6. \A t \in Terms : WaitInv(t)
  BY <1>1 DEF WaitInv, NoTerm
<1> QED
  BY <1>3, <1>4, <1>5, <1>6 DEF TermInv

LEMMA TermInvNext == TermInv /\ [Next]_vars => TermInv'
<1> SUFFICES ASSUME TermInv, [Next]_vars PROVE TermInv'
  OBVIOUS
<1>1. TypeInv /\ SubsTypeInv /\ SubscriptionLimit /\ NewsInv /\ AllWait
  BY DEF TermInv, TypeInv, AllWait
<1>2. TypeInv'
  BY <1>1, TypeNext
<1>3. Freed \/ SubsArrive \/ SubsStep
  BY <1>1, SubsEffect
<1>4. SubscriptionLimit'
  BY <1>1, <1>3, LimitNext
<1>5. NewsInv'
  BY <1>1, <1>3, NewsNext
<1>6. AllWait'
  BY <1>1, WaitNext
<1> QED
  BY <1>2, <1>4, <1>5, <1>6 DEF TermInv, AllWait

LEMMA TermInvariant == Spec => []TermInv
  BY TermInit, TermInvNext, PTL DEF Spec

\* The records, the requests and the tasks keep their types, and a task never
\* asks more often than AppTerminationTimeout allows.
THEOREM TerminationTypeCorrect == Spec => []TypeOK
<1>1. TermInv => TypeOK
  BY DEF TermInv, TypeInv
<1> QED
  BY <1>1, TermInvariant, PTL

\* However AppSubscribeLimit and SubscribeIst of several requests interleave,
\* the limit is exceeded by no more than there are other requests.
THEOREM SubscriptionsLimited == Spec => []SubscriptionLimit
<1>1. TermInv => SubscriptionLimit
  BY DEF TermInv
<1> QED
  BY <1>1, TermInvariant, PTL

\* When all events are handled, every subscriber whose filter covered the last
\* change has heard of it and of nothing older afterwards (OnEvent, sendMsg).
THEOREM SubscribersTold == Spec => []ToldWhenQuiet
<1>1. TermInv => ToldWhenQuiet
  <2> SUFFICES ASSUME TermInv, events = <<>>, sending = Nobody, NEW i \in Ids, due[i] # Nothing
               PROVE  told[i] = due[i]
    BY DEF ToldWhenQuiet
  <2>1. DueInv(i) /\ Len(events) = 0 /\ sending.to = {}
    BY DEF TermInv, NewsInv, Nobody
  <2> QED
    BY <2>1 DEF DueInv
<1> QED
  BY <1>1, TermInvariant, PTL

\* When the clean-up of an undisturbed termination is over, nothing is left of
\* the subscriptions the application had when it was notified, whatever it
\* confirms and unsubscribes meanwhile (handleTerminationNotification).
THEOREM NothingIsLeft == Spec => []NothingLeft
<1>1. TermInv => NothingLeft
  BY DEF TermInv, WaitInv, NothingLeft, At
<1> QED
  BY <1>1, TermInvariant, PTL

\* An application that has been notified keeps its full time, unless it
\* confirms this very termination (handleResponseFromAppInstance).
THEOREM TimeIsGiven == Spec => GivesTime
<1> DEFINE A == \A t \in Terms :
             At(t, "poll") /\ term'[t].pc # "poll" /\ term'[t].sure =>
               term[t].answered \/ term[t].polls + 1 = AppTerminationTimeout
<1>1. TermInv /\ [Next]_vars => [A]_vars
  <2> SUFFICES ASSUME TermInv, [Next]_vars, NEW t \in Terms,
                      At(t, "poll"), term'[t].pc # "poll", term'[t].sure
               PROVE  term[t].answered \/ term[t].polls + 1 = AppTerminationTimeout
    OBVIOUS
  <2>0. term \in [Terms -> TermTypes] /\ term[t] \in TermTypes /\ TypeInv /\ WaitInv(t)
        /\ term[t].pc = "poll"
    BY DEF TermInv, TypeInv, At
  <2>1. Poll(t)
    BY <2>0, OnlyPollEnds
  <2>2. CASE /\ record \in {"none", "finish"} \/ term[t].polls + 1 = AppTerminationTimeout
             /\ term' = [term EXCEPT ![t] = WaitOver(@)]
    <3>1. term'[t] = WaitOver(term[t])
      BY <2>0, <2>2
    <3>2. term[t].sure
      BY <2>0, <3>1, WaitOverFields
    <3> QED
      BY <2>0, <2>2, <3>2 DEF WaitInv
  <2>3. CASE term' = [term EXCEPT ![t].polls = term[t].polls + 1]
    BY <2>0, <2>3 DEF TermTypes
  <2>4. CASE term' = [term EXCEPT ![t] = WaitOver(Unsure(@))]
    <3>1. term'[t] = WaitOver(Unsure(term[t]))
      BY <2>0, <2>4
    <3>2. Unsure(term[t]) \in TermTypes /\ ~Unsure(term[t]).sure
      BY <2>0, UnsureFields
    <3> QED
      BY <3>1, <3>2, WaitOverFields
  <2> QED
    BY <2>1, <2>2, <2>3, <2>4 DEF Poll
<1> QED
  BY <1>1, TermInvariant, PTL DEF Spec, GivesTime
=============================================================================
