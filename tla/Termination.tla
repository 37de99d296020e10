---------------------------- MODULE Termination ----------------------------
(***************************************************************************)
(* The graceful termination of an application instance: the request of     *)
(* Mm5 (mm5/plans/app_instance_termination.go), the task that notifies the *)
(* application, waits for its confirmation and cleans up (mm5/task), and   *)
(* the confirmation over Mp1 (app_confirm_termination.go), all of it       *)
(* against the application subscribing and unsubscribing.  Several         *)
(* terminations of one application can be under way: one without a stored  *)
(* configuration has no job entry that would keep the next one out.        *)
(*                                                                         *)
(* Of the rules only their presence is kept, and their synchronisation is  *)
(* one step; AppDSync and AppDLcm look inside.  Services has the deletion  *)
(* of the application's services, which the request goes on to while its   *)
(* task runs.                                                              *)
(***************************************************************************)
EXTENDS Subscriptions

CONSTANTS
  Terms,                 \* terminations under way
  Confirms,              \* confirmations under way
  MaxBusy,               \* bound: how many of all these at once
  AppTerminationTimeout  \* how often the task asks for the confirmation

ASSUME TerminationAssumption ==
  AppTerminationTimeout \in Nat \ {0} /\ MaxBusy \in Nat

VARIABLES
  config,   \* etcd: the application has a configuration
  job,      \* etcd: it has a job entry
  record,   \* etcd: the confirmation record
  term,     \* the termination requests and their tasks
  conf,     \* where the confirmations are
  stuck     \* a failure, or a panic, may have left the job entry behind

termVars == <<config, job, record, term, conf, stuck>>
vars == <<subsVars, termVars>>

\* subscribed: the status of the task says that the application is to be
\* notified.  The last three are for the properties: a confirmation came after
\* the notification; no failure and no overlap disturbs the wait; the
\* subscriptions at the time of the notification that are still there.
NoTerm == [pc |-> "idle", subscribed |-> FALSE, polls |-> 0,
           answered |-> FALSE, sure |-> FALSE, before |-> {}]
Staging == {"staging", "created", "put"}
Waiting == {"write", "poll", "delete", "deleteEnd", "deleteAvail"}
TermPcs == {"idle", "begin", "lookup", "send", "after", "load", "sync", "release"} \cup Staging \cup Waiting

At(t, l) == term[t].pc = l
Goto(t, l) == term' = [term EXCEPT ![t].pc = l]
End(t) == term' = [term EXCEPT ![t] = NoTerm]

\* Something disturbs the wait.
Unsure(x) == [x EXCEPT !.sure = FALSE, !.answered = FALSE, !.before = {}]
WaitOver(x) == [x EXCEPT !.pc = "delete", !.polls = 0, !.answered = FALSE]

Known(x) == [x EXCEPT !.before = {i \in @ : subs'[i] # NoSub}]
GotoKnown(t, l) ==
  term' = [u \in Terms |-> Known(IF u = t THEN [term[t] EXCEPT !.pc = l] ELSE term[u])]

\* AppTerminationIsSubscribed
IsSubscribed == \E i \in Stored("end") : subs[i].typed
----------------------------------------------------------------------------
(* The request: DeleteAppDConfigWithSync.  What its plan does afterwards,  *)
(* the deletion of the services and of the mepauth key, touches nothing    *)
(* that is kept here.                                                      *)

\* IsAnyOngoingOperationExist; an error counts as no.
Terminate(t) ==
  /\ At(t, "idle")
  /\ IF job THEN Fault("read") ELSE UNCHANGED faults
  /\ Goto(t, "staging")
  /\ UNCHANGED <<subs, req, newsVars, due, told, config, job, record, conf, stuck>>

\* stageAppTerminationProgress: is the application subscribed, ...
StageSubscribed(t) ==
  /\ At(t, "staging")
  /\ \/ /\ term' = [term EXCEPT ![t].pc = "created", ![t].subscribed = IsSubscribed]
        /\ UNCHANGED faults
     \/ Fault("read") /\ Goto(t, "created")
  /\ UNCHANGED <<subs, req, newsVars, due, told, config, job, record, conf, stuck>>

\* ... and is it configured?  If not, its task starts without a job entry.  A
\* status that cannot be written is as good as none.
StageCreated(t) ==
  /\ At(t, "created")
  /\ \/ config /\ Goto(t, "put") /\ UNCHANGED <<job, faults>>
     \/ ~config /\ Goto(t, "begin") /\ UNCHANGED <<job, faults>>
     \/ config /\ Fault("read") /\ Goto(t, "begin") /\ UNCHANGED job
     \/ /\ ~config /\ term[t].subscribed /\ Fault("write")
        /\ job' = FALSE
        /\ term' = [term EXCEPT ![t].pc = "begin", ![t].subscribed = FALSE]
  /\ UNCHANGED <<subs, req, newsVars, due, told, config, record, conf, stuck>>

\* The rest of StageNewTask; after a failure nothing is left of it.
PutJob(t) ==
  /\ At(t, "put")
  /\ \/ config /\ job' = TRUE /\ Goto(t, "begin") /\ UNCHANGED faults
     \/ ~config /\ End(t) /\ UNCHANGED <<job, faults>>
     \/ Fault("write") /\ End(t) /\ job' \in {job, FALSE}
  /\ UNCHANGED <<subs, req, newsVars, due, told, config, record, conf, stuck>>
----------------------------------------------------------------------------
(* The task: handleAppTermination and handleTerminationNotification.       *)

\* The status says whether there is anybody to notify.
Begin(t) ==
  /\ At(t, "begin")
  /\ \E l \in {"lookup", "load"} :
       /\ IF term[t].subscribed /\ l = "load" THEN Fault("read") ELSE UNCHANGED faults
       /\ l = "lookup" => term[t].subscribed
       /\ term' = [term EXCEPT ![t].pc = l, ![t].subscribed = FALSE]
  /\ UNCHANGED <<subs, req, newsVars, due, told, config, job, record, conf, stuck>>

\* The subscription is looked up again; if it is gone, its nil pointer ends the
\* task (recover in ProcessAppDConfigSync).
Lookup(t) ==
  /\ At(t, "lookup")
  /\ \/ IsSubscribed /\ Goto(t, "send") /\ UNCHANGED <<stuck, faults>>
     \/ /\ IF IsSubscribed THEN Fault("read") ELSE UNCHANGED faults
        /\ End(t) /\ stuck' = (stuck \/ job)
  /\ UNCHANGED <<subs, req, newsVars, due, told, config, job, record, conf>>

\* Mutant: a failure ends the task.
NotifyOrGiveUp(t) ==
  /\ At(t, "send")
  /\ \/ Goto(t, "write") /\ UNCHANGED faults
     \/ Fault("send") /\ End(t)
  /\ UNCHANGED <<subs, req, newsVars, due, told, config, job, record, conf, stuck>>

\* sendTerminateNotification; after a failure the resources are freed at once,
\* but the subscriptions stay.
Notify(t) ==
  LET others == {u \in Terms \ {t} : term[u].pc \in Waiting}
      alone == others = {} /\ \A c \in Confirms : conf[c] = "idle"
  IN /\ At(t, "send")
     /\ \/ /\ term' = [u \in Terms |->
                IF u # t THEN Unsure(term[u])
                ELSE [term[t] EXCEPT !.pc = "write", !.sure = alone,
                        !.before = IF alone THEN Stored("end") \cup Stored("avail") ELSE {}]]
           /\ UNCHANGED faults
        \/ Fault("send") /\ Goto(t, "after")
     /\ UNCHANGED <<subs, req, newsVars, due, told, config, job, record, conf, stuck>>

\* Mutant: a record that is there is left as it is.
WriteRecordOnce(t) ==
  /\ At(t, "write")
  /\ record' = IF record = "none" THEN "inProgress" ELSE record
  /\ Goto(t, "poll")
  /\ UNCHANGED <<subsVars, config, job, conf, stuck>>

\* writeConfirmTerminateToDb; nobody hears of a failure.
WriteRecord(t) ==
  /\ At(t, "write")
  /\ \/ record' = "inProgress" /\ Goto(t, "poll") /\ UNCHANGED faults
     \/ /\ Fault("write")
        /\ term' = [term EXCEPT ![t] = Unsure([@ EXCEPT !.pc = "poll"])]
        /\ UNCHANGED record
  /\ UNCHANGED <<subs, req, newsVars, due, told, config, job, conf, stuck>>

\* Mutant: nobody counts.
PollForever(t) ==
  /\ At(t, "poll")
  /\ IF record \in {"none", "finish"} THEN term' = [term EXCEPT ![t] = WaitOver(@)]
     ELSE UNCHANGED term
  /\ UNCHANGED <<subsVars, config, job, record, conf, stuck>>

\* Mutant: the round is counted, and nobody asks whether it was the last.
PollOneMore(t) ==
  /\ At(t, "poll")
  /\ term' = [term EXCEPT ![t] = IF record = "inProgress" /\ @.polls < AppTerminationTimeout
                                 THEN [@ EXCEPT !.polls = @ + 1] ELSE WaitOver(@)]
  /\ UNCHANGED <<subsVars, config, job, record, conf, stuck>>

\* handleResponseFromAppInstance, one round: an error ends the wait as well.
Poll(t) ==
  LET n == term[t].polls + 1 IN
  /\ At(t, "poll")
  /\ \/ /\ record \in {"none", "finish"} \/ n = AppTerminationTimeout
        /\ term' = [term EXCEPT ![t] = WaitOver(@)]
        /\ UNCHANGED faults
     \/ /\ record = "inProgress" /\ n < AppTerminationTimeout
        /\ term' = [term EXCEPT ![t].polls = n]
        /\ UNCHANGED faults
     \/ Fault("read") /\ term' = [term EXCEPT ![t] = WaitOver(Unsure(@))]
  /\ UNCHANGED <<subs, req, newsVars, due, told, config, job, record, conf, stuck>>

\* A failure to delete ends the clean-up.
CutShort(t) ==
  /\ Fault("write")
  /\ term' = [term EXCEPT ![t] = Unsure([@ EXCEPT !.pc = "after"])]

DeleteRecord(t) ==
  /\ At(t, "delete")
  /\ \/ record' = "none" /\ Goto(t, "deleteEnd") /\ UNCHANGED faults
     \/ CutShort(t) /\ UNCHANGED record
  /\ UNCHANGED <<subs, req, newsVars, due, told, config, job, conf, stuck>>

DeleteEnd(t) ==
  /\ At(t, "deleteEnd")
  /\ \/ Drop(Stored("end")) /\ GotoKnown(t, "deleteAvail") /\ UNCHANGED faults
     \/ CutShort(t) /\ UNCHANGED <<subs, due, told>>
  /\ UNCHANGED <<req, newsVars, config, job, record, conf, stuck>>

\* Mutant: the type is not changed.
DeleteEndAgain(t) ==
  /\ At(t, "deleteAvail")
  /\ Drop(Stored("end")) /\ GotoKnown(t, "after")
  /\ UNCHANGED <<req, newsVars, faults, config, job, record, conf, stuck>>

DeleteAvail(t) ==
  /\ At(t, "deleteAvail")
  /\ \/ Drop(Stored("avail")) /\ GotoKnown(t, "after") /\ UNCHANGED faults
     \/ CutShort(t) /\ UNCHANGED <<subs, due, told>>
  /\ UNCHANGED <<req, newsVars, config, job, record, conf, stuck>>

\* Without a configuration the task is over, and is to delete all job entries
\* (AppDLcm has those of other applications).
After(t) ==
  /\ At(t, "after")
  /\ \/ config /\ Goto(t, "load") /\ UNCHANGED faults
     \/ /\ IF config THEN Fault("read") ELSE UNCHANGED faults
        /\ Goto(t, "release")
  /\ UNCHANGED <<subs, req, newsVars, due, told, config, job, record, conf, stuck>>

\* newTask; without a job there is none, and the job entry is to be deleted.
Load(t) ==
  /\ At(t, "load")
  /\ \/ job /\ Goto(t, "sync") /\ UNCHANGED faults
     \/ /\ IF job THEN Fault("read") ELSE UNCHANGED faults
        /\ Goto(t, "release")
  /\ UNCHANGED <<subs, req, newsVars, due, told, config, job, record, conf, stuck>>

\* Nobody hears of a failure to delete the job entry.
Release(t) ==
  /\ At(t, "release")
  /\ \/ job' = FALSE /\ UNCHANGED <<faults, stuck>>
     \/ Fault("write") /\ stuck' = (stuck \/ job) /\ UNCHANGED job
  /\ End(t)
  /\ UNCHANGED <<subs, req, newsVars, due, told, config, record, conf>>

\* The rules are deleted, or come back, or the task fails without releasing
\* the job entry.
Sync(t) ==
  /\ At(t, "sync")
  /\ \/ config' = FALSE /\ job' = FALSE /\ UNCHANGED <<faults, stuck>>
     \/ job' = FALSE /\ UNCHANGED <<config, faults, stuck>>
     \/ Fault("write") /\ stuck' = (stuck \/ job) /\ config' \in {config, FALSE} /\ UNCHANGED job
  /\ End(t)
  /\ UNCHANGED <<subs, req, newsVars, due, told, record, conf>>

\* The application is configured by a request and its task (AppDLcm).
Configure ==
  /\ ~config /\ ~job
  /\ config' = TRUE
  /\ UNCHANGED <<subsVars, job, record, term, conf, stuck>>
----------------------------------------------------------------------------
(* The confirmation of the application.                                    *)

\* DecodeConfirmTerminateReq: a body that can be read is refused while there is
\* no record; one that cannot be read sets no error code, so that the plan goes
\* on with it in any case.
Confirm(c) ==
  /\ conf[c] = "idle"
  /\ conf' = [conf EXCEPT ![c] = "read"]
  /\ term' = [t \in Terms |->
       [term[t] EXCEPT !.answered = @ \/ (term[t].sure /\ term[t].pc \in {"write", "poll"})]]
  /\ UNCHANGED <<subsVars, config, job, record, stuck>>

\* ConfirmTermination reads the record once more ...
ConfirmRead(c) ==
  /\ conf[c] = "read"
  /\ \/ conf' = [conf EXCEPT ![c] = IF record = "none" THEN "idle" ELSE "put"] /\ UNCHANGED faults
     \/ Fault("read") /\ conf' = [conf EXCEPT ![c] = "idle"]
  /\ UNCHANGED <<subs, req, newsVars, due, told, config, job, record, term, stuck>>

\* ... and writes it, even if it has been deleted in between.
ConfirmPut(c) ==
  /\ conf[c] = "put"
  /\ \/ record' = "finish" /\ UNCHANGED faults
     \/ Fault("write") /\ UNCHANGED record
  /\ conf' = [conf EXCEPT ![c] = "idle"]
  /\ UNCHANGED <<subs, req, newsVars, due, told, config, job, term, stuck>>
----------------------------------------------------------------------------
Init ==
  /\ SubsInit
  /\ config = FALSE /\ job = FALSE /\ record = "none"
  /\ term = [t \in Terms |-> NoTerm]
  /\ conf = [c \in Confirms |-> "idle"]
  /\ stuck = FALSE

TermStep(t) ==
  \/ StageSubscribed(t) \/ StageCreated(t) \/ PutJob(t) \/ Begin(t) \/ Lookup(t)
  \/ Notify(t) \/ WriteRecord(t) \/ Poll(t) \/ DeleteRecord(t) \/ DeleteEnd(t)
  \/ DeleteAvail(t) \/ After(t) \/ Load(t) \/ Release(t) \/ Sync(t)

ConfStep(c) == ConfirmRead(c) \/ ConfirmPut(c)

Busy ==
  SubsBusy + Cardinality({t \in Terms : ~At(t, "idle")})
           + Cardinality({c \in Confirms : conf[c] # "idle"})

Arrive ==
  /\ Busy < MaxBusy
  /\ \/ SubsArrive /\ UNCHANGED termVars
     \/ \E t \in Any({u \in Terms : At(u, "idle")}) : Terminate(t)
     \/ \E c \in Any({d \in Confirms : conf[d] = "idle"}) : Confirm(c)
     \/ Configure

Next ==
  \/ Arrive
  \/ /\ SubsStep
     /\ term' = [t \in Terms |-> Known(term[t])]
     /\ UNCHANGED <<config, job, record, conf, stuck>>
  \/ \E t \in Terms : TermStep(t)
  \/ \E c \in Confirms : ConfStep(c)

\* The goroutine of a task is scheduled again and again; nobody has to ask for
\* anything, to confirm or to unsubscribe.
Spec ==
  /\ Init /\ [][Next]_vars
  /\ \A t \in Terms : WF_vars(TermStep(t))
----------------------------------------------------------------------------
(* Properties.                                                             *)

\* The records, the requests and the tasks keep their types, and a task never
\* asks more often than it may.
TypeOK ==
  /\ SubsTypeOK
  /\ config \in BOOLEAN /\ job \in BOOLEAN /\ stuck \in BOOLEAN
  /\ record \in {"none", "inProgress", "finish"}
  /\ conf \in [Confirms -> {"idle", "read", "put"}]
  /\ \A t \in Terms :
       /\ term[t].pc \in TermPcs
       /\ term[t].polls < AppTerminationTimeout
       /\ term[t].before \subseteq Ids

\* "Wait for the response or timeout": a notified application has its full
\* time before the task goes on to free its resources, unless it confirms this
\* very termination, be it with a body that cannot be read.  Excepted are failures of etcd, another termination of
\* the same application that notifies it meanwhile, and a confirmation that
\* was already on its way when this notification was sent.
GivesTime ==
  [][\A t \in Terms :
       At(t, "poll") /\ term'[t].pc # "poll" /\ term'[t].sure =>
         term[t].answered \/ term[t].polls + 1 = AppTerminationTimeout]_vars

\* When the clean-up is over, none of the subscriptions the application had
\* when it was notified is left, so that the next instance of it starts
\* without, however it confirms and unsubscribes meanwhile.
NothingLeft ==
  \A t \in Terms :
    At(t, "after") /\ term[t].sure => term[t].before = {}

\* Every termination ends, whether the application confirms or not.
TerminationEnds == \A t \in Terms : ~At(t, "idle") ~> At(t, "idle")

\* A termination releases the job entry, also when the application cannot be
\* notified or does not answer.  The exceptions: the application unsubscribed
\* just before it was to be notified (a nil pointer ends the task), the deletion
\* of its rules failed for good, or the one of the job entry itself.
JobReleased == job ~> (~job \/ stuck)
=============================================================================
