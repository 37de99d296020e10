--------------------------- MODULE Subscriptions ---------------------------
(***************************************************************************)
(* The subscriptions of one application instance (mp1/plans), to the end   *)
(* of the application and to the availability of services, and the         *)
(* notifications about a service of another application that they bring    *)
(* (mp1/event).  A request checks in one step and writes in a later one;   *)
(* the events of the service come out of etcd's watch in order and are     *)
(* handled one after the other, each with the subscriptions of its moment. *)
(***************************************************************************)
EXTENDS Naturals, Sequences, FiniteSets

CONSTANTS
  Ids,                   \* subscription ids
  Requests,              \* requests under way
  Bodies,                \* what they may ask for, of Subs
  AppSubscriptionCount,  \* the limit for each type
  StoreFaults,           \* failures that may happen, of FaultKinds
  MaxFaults,             \* bound: how many
  MaxEvents,             \* bound: events waiting
  NoSub, Nothing

FaultKinds ==
  { "read",    \* a record cannot be read
    "write",   \* a record cannot be written or deleted
    "send",    \* a notification or its answer is lost
    "event" }  \* an event is dropped: its service is not in the cache

States == {"ACTIVE", "SUSPENDED"}

\* lists: whether instance ids, names or categories are given, and match.
AllFilters == [lists : {"none", "match", "other"}, states : SUBSET States, isLocal : BOOLEAN]

\* An application may give its subscription the other type in the body.
Subs == [type : {"end"}, typed : BOOLEAN] \cup [type : {"avail"}, filter : AllFilters]
News == States \cup {"REMOVED"}

ASSUME SubscriptionsAssumption ==
  /\ Bodies \subseteq Subs
  /\ StoreFaults \subseteq FaultKinds
  /\ AppSubscriptionCount \in Nat \ {0} /\ MaxFaults \in Nat /\ MaxEvents \in Nat
  /\ NoSub \notin Subs /\ Nothing \notin News
  /\ IsFiniteSet(Ids) /\ IsFiniteSet(Requests)

VARIABLES
  subs,     \* etcd: the subscriptions
  req,      \* the requests
  events,   \* the changes of the service that have not been handled
  sending,  \* who is still to be notified of the current one, and of what
  due,      \* what a subscriber ought to be told last
  told,     \* what it was told last
  faults    \* how many failures there have been

subsVars == <<subs, req, events, sending, due, told, faults>>
newsVars == <<events, sending>>

Idle == [pc |-> "idle"]
Stored(type) == {i \in Ids : subs[i] # NoSub /\ subs[i].type = type}
Inserting(type) == {r \in Requests : req[r].pc = "insert" /\ req[r].sub.type = type}
\* Nothing tells ids, or goroutines that have nothing to do, apart: where one is
\* needed, any will do.
Any(S) == IF S = {} THEN {} ELSE {CHOOSE x \in S : TRUE}

Become(r, x) == req' = [req EXCEPT ![r] = x]
Fault(k) == k \in StoreFaults /\ faults < MaxFaults /\ faults' = faults + 1

\* Removing subscriptions; nothing is owed to them any more.
Drop(ids) ==
  /\ subs' = [i \in Ids |-> IF i \in ids THEN NoSub ELSE subs[i]]
  /\ due' = [i \in Ids |-> IF i \in ids THEN Nothing ELSE due[i]]
  /\ told' = [i \in Ids |-> IF i \in ids THEN Nothing ELSE told[i]]
----------------------------------------------------------------------------
(* Requests: subscribe and unsubscribe.                                    *)

\* Bound: at most one request has to wait for an id of the finite set.
Room == Cardinality({i \in Ids : subs[i] = NoSub})
          >= Cardinality(Inserting("end") \cup Inserting("avail"))

\* Mutant: the limit is one too high.
SubscribeOneMore(r, sub) ==
  /\ req[r] = Idle /\ Room
  /\ Cardinality(Stored(sub.type)) <= AppSubscriptionCount
  /\ Become(r, [pc |-> "insert", sub |-> sub])
  /\ UNCHANGED <<subs, newsVars, due, told, faults>>

\* AppSubscribeLimit; a request over the limit, or one whose read fails, is
\* answered with an error.
Subscribe(r, sub) ==
  /\ req[r] = Idle /\ Room
  /\ Cardinality(Stored(sub.type)) < AppSubscriptionCount
  /\ Become(r, [pc |-> "insert", sub |-> sub])
  /\ UNCHANGED <<subs, newsVars, due, told, faults>>

\* insertOrUpdateData, with an id nobody has: the ids are random.
InsertOrUpdateData(sub) ==
  LET held == {i \in Ids : subs[i] # NoSub} \cup sending.to
                \cup {req[q].id : q \in {p \in Requests : req[p].pc = "remove"}}
  IN \/ \E i \in Any(Ids \ held) : subs' = [subs EXCEPT ![i] = sub] /\ UNCHANGED faults
     \/ Fault("write") /\ UNCHANGED subs

\* SubscribeIst; a body that does not pass its checks changes nothing.
SubscribeIst(r) ==
  /\ req[r].pc = "insert"
  /\ InsertOrUpdateData(req[r].sub)
  /\ Become(r, Idle)
  /\ UNCHANGED <<newsVars, due, told>>

\* DelOneSubscribe looks for the subscription ...
Unsubscribe(r, i) ==
  /\ req[r] = Idle
  /\ subs[i] # NoSub
  /\ Become(r, [pc |-> "remove", id |-> i])
  /\ UNCHANGED <<subs, newsVars, due, told, faults>>

\* ... and deletes it.
DelOneSubscribe(r) ==
  /\ req[r].pc = "remove"
  /\ \/ Drop({req[r].id}) /\ UNCHANGED faults
     \/ Fault("write") /\ UNCHANGED <<subs, due, told>>
  /\ Become(r, Idle)
  /\ UNCHANGED newsVars
----------------------------------------------------------------------------
(* Events of the service and the notifications of InstanceEtsiEventHandler. *)

\* isAllFilterEmpty and isFilterContain: with anything at all in the filter,
\* an instance id, a name or a category has to match.
IsInFilter(filter, state) ==
  /\ filter.states = {} \/ state \in filter.states
  /\ \/ filter.lists = "none" /\ filter.states = {} /\ ~filter.isLocal
     \/ filter.lists = "match"

\* getCallBackUris
Callbacks(state) == {i \in Stored("avail") : IsInFilter(subs[i].filter, state)}

\* A deleted instance is reported as removed; its event has its last state.
NewsOf(e) == IF e.action = "DELETE" THEN "REMOVED" ELSE e.state

\* A service is registered, changed or unregistered (module Services); here
\* its changes may come in any order.
Change(e) ==
  /\ Len(events) < MaxEvents
  /\ events' = Append(events, e)
  /\ due' = [i \in Ids |-> IF i \in Callbacks(e.state) THEN NewsOf(e) ELSE due[i]]
  /\ UNCHANGED <<subs, req, sending, told, faults>>

\* Nobody is left to be notified, or these are.
Nobody == [to |-> {}, news |-> "REMOVED"]
Sending(ids, news) == IF ids = {} THEN Nobody ELSE [to |-> ids, news |-> news]

\* What a subscriber has been told, as far as something is due to it.  Once all
\* is quiet, what has arrived can be forgotten.
Settle(d, h) ==
  LET done == {i \in Ids : d[i] = Nothing \/ (events' = <<>> /\ sending' = Nobody /\ h[i] = d[i])}
  IN /\ due' = [i \in Ids |-> IF i \in done THEN Nothing ELSE d[i]]
     /\ told' = [i \in Ids |-> IF i \in done THEN Nothing ELSE h[i]]

\* Mutant: only creation and deletion are of interest.
OnEventNotUpdate ==
  LET e == Head(events) IN
  /\ events # <<>> /\ sending = Nobody
  /\ events' = Tail(events)
  /\ sending' = Sending(IF e.action = "UPDATE" THEN {} ELSE Callbacks(e.state), NewsOf(e))
  /\ Settle(due, told)
  /\ UNCHANGED <<subs, req, faults>>

\* OnEvent; when the subscriptions cannot be read, or the provider is unknown,
\* nobody is told.
OnEvent ==
  LET e == Head(events) IN
  /\ events # <<>> /\ sending = Nobody
  /\ events' = Tail(events)
  /\ \/ sending' = Sending(Callbacks(e.state), NewsOf(e)) /\ Settle(due, told) /\ UNCHANGED faults
     \/ /\ Fault("read") \/ Fault("event")
        /\ sending' = Nobody
        /\ Settle([i \in Ids |-> Nothing], told)
  /\ UNCHANGED <<subs, req>>

\* sendMsg, in any order; a failure is logged.
SendMsg(i) ==
  /\ i \in sending.to
  /\ sending' = Sending(sending.to \ {i}, sending.news)
  /\ UNCHANGED <<subs, req, events>>
  /\ \/ Settle(due, [told EXCEPT ![i] = sending.news]) /\ UNCHANGED faults
     \/ Fault("send") /\ Settle([due EXCEPT ![i] = Nothing], told)
----------------------------------------------------------------------------
SubsInit ==
  /\ subs = [i \in Ids |-> NoSub]
  /\ req = [r \in Requests |-> Idle]
  /\ events = <<>>
  /\ sending = Nobody
  /\ due = [i \in Ids |-> Nothing] /\ told = [i \in Ids |-> Nothing]
  /\ faults = 0

RequestStep(r) == SubscribeIst(r) \/ DelOneSubscribe(r)
NotifyStep == OnEvent \/ \E i \in Ids : SendMsg(i)

SubsArrive ==
  \/ \E r \in Any({q \in Requests : req[q] = Idle}) :
       \/ \E sub \in Bodies : Subscribe(r, sub)
       \/ \E i \in Ids : Unsubscribe(r, i)
  \/ \E a \in {"CREATE", "UPDATE", "DELETE"}, s \in States : Change([action |-> a, state |-> s])

SubsStep == NotifyStep \/ \E r \in Requests : RequestStep(r)

\* How many things are under way; an event that waits is one.
SubsBusy == Cardinality({r \in Requests : req[r] # Idle}) + Len(events)
              + (IF sending = Nobody THEN 0 ELSE 1)
----------------------------------------------------------------------------
(* Properties.                                                             *)

SubsTypeOK ==
  /\ subs \in [Ids -> Subs \cup {NoSub}]
  /\ events \in Seq([action : {"CREATE", "UPDATE", "DELETE"}, state : States])
  /\ sending \in [to : SUBSET Ids, news : News]
  /\ due \in [Ids -> News \cup {Nothing}] /\ told \in [Ids -> News \cup {Nothing}]
  /\ faults \in 0 .. MaxFaults

\* Requests that subscribe at the same time may each find room for one more
\* (AppSubscribeLimit checks, SubscribeIst inserts): the limit is exceeded by
\* no more than there are other requests.
SubscriptionLimit ==
  \A type \in {"end", "avail"} :
    Cardinality(Stored(type)) + Cardinality(Inserting(type))
      <= AppSubscriptionCount + Cardinality(Requests) - 1

\* Once all events are handled, every subscriber whose filter covered the last
\* change of the service, and that was there when it happened, has been told
\* of it, and of nothing older afterwards, unless a message was lost.
ToldWhenQuiet ==
  events = <<>> /\ sending = Nobody =>
    \A i \in Ids : due[i] # Nothing => told[i] = due[i]
=============================================================================
