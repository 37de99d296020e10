------------------------------ MODULE AppDSync ------------------------------
(***************************************************************************)
(* The life of the AppD configuration of ONE application instance: a       *)
(* request stages a job (common/appd), and the synchronisation task        *)
(* (mm5/task) carries it out rule by rule on the data plane (mp2) and on   *)
(* the local DNS server, records every step in the task status, writes the *)
(* configuration database at the end, and releases the job entry that      *)
(* locks the application.  A failing rule makes the task revert what it    *)
(* has done.                                                               *)
(*                                                                         *)
(* Rule ids are numbers, the DNS rules first.  The task status lists the   *)
(* rules in an order of its own, which a task follows in both directions.  *)
(* Requests of several clients are the subject of AppDLcm.                 *)
(***************************************************************************)
EXTENDS Integers, FiniteSets

CONSTANTS
  NDns, NTrf,        \* how many DNS and traffic rule ids there are
  Names,             \* DNS domain names, each with one record type
  Vals,              \* what a rule says beyond its name (address, filter)
  InStates,          \* the rule states a request may carry, "" included
  Foreign,           \* the names that other applications have registered
  DnsType,           \* dnsAgent.type: "local", "dataplane" or "all"
  Faults,            \* the failures that may happen (FaultKinds)
  Edits,             \* the delicate modifications a request may ask for
  NoRule, NoConfig, NoJob, NoStatus, NoName, NoAddr, ForeignAddr

FaultKinds ==
  { "call",      \* a call to the data plane or the DNS server fails
    "lost",      \* ... takes effect, but its answer is lost
    "undo",      \* a call made to revert fails
    "load",      \* a record cannot be read when the task starts
    "record",    \* the task status cannot be written while applying
    "unrecord",  \* ... while reverting
    "config",    \* the configuration cannot be written
    "clean",     \* the job entry cannot be deleted
    "crash" }    \* the process stops

EditKinds ==
  { "rename",    \* a modification changes the DNS name of a rule
    "inactive" } \* a rule that is INACTIVE is modified and stays INACTIVE

DnsRules == 1 .. NDns
Rules == 1 .. (NDns + NTrf)

RuleOf(i) == [name  : IF i \in DnsRules THEN Names ELSE {NoName},
              val   : Vals,
              state : {"", "ACTIVE", "INACTIVE"}]

\* AppDConfig: the rules a configuration has.
Configs == {c \in [Rules -> {NoRule} \cup UNION {RuleOf(i) : i \in Rules}] :
              \A i \in Rules : c[i] \in {NoRule} \cup RuleOf(i)}

Methods == {"none", "create", "modify", "delete"}

\* AppDRuleStatus: what a rule waits for.
WaitMp2 == 0
WaitLocal == 1
WaitConfigDBWrite == 2
TaskProgressFailure == -1

Jobs == [op : {"POST", "PUT", "DELETE"}, cfg : Configs]

\* The order of a status list: the rule at every place.
Orders == {f \in [Rules -> Rules] :
             /\ \A i \in Rules : \E k \in Rules : f[k] = i
             /\ \A k, n \in Rules : f[k] = f[n] => k = n
             /\ \A k \in Rules : f[k] \in DnsRules <=> k \in DnsRules}

Statuses == [method : [Rules -> Methods], state : [Rules -> 0 .. 2],
             order : Orders, progress : Int]

ASSUME SizeAssumption == NDns \in Nat /\ NTrf \in Nat
ASSUME ParamAssumption ==
  /\ DnsType \in {"local", "dataplane", "all"}
  /\ InStates \subseteq {"", "ACTIVE", "INACTIVE"}
  /\ Foreign \subseteq Names
  /\ Faults \subseteq FaultKinds
  /\ Edits \subseteq EditKinds
ASSUME SentinelAssumption ==
  /\ \A i \in Rules : NoRule \notin RuleOf(i)
  /\ NoConfig \notin Configs /\ NoJob \notin Jobs /\ NoStatus \notin Statuses
  /\ NoName \notin Names
  /\ NoAddr \notin Vals /\ ForeignAddr \notin Vals /\ ForeignAddr # NoAddr

VARIABLES
  config,   \* etcd: the stored configuration            (AppDConfigKeyPath)
  job,      \* etcd: the job entry, which is the lock    (AppDLCMJobsPath)
  status,   \* etcd: status of the latest task      (AppDLCMTaskStatusPath)
  dp,       \* the rules installed on the data plane
  dns,      \* the records of the local DNS server
  wJob, wConfig, wStatus,   \* what the task has in memory
  pc,       \* where the task is
  pos,      \* the place in the list the current loop is at
  lvl,      \* the state of the rule the inner loop is at
  snap      \* the copy of the rule's state that the revert loop tests

dbs == <<config, job, status>>
ext == <<dp, dns>>
mem == <<wJob, wConfig, wStatus>>
loop == <<pos, lvl, snap>>
vars == <<config, job, status, dp, dns, wJob, wConfig, wStatus, pc, pos, lvl,
          snap>>

RuleIn(c, i) == IF c = NoConfig THEN NoRule ELSE c[i]

\* Mutant: the state is taken as it comes.
NormKeepsEmpty(r) == r

\* An empty state stands for ACTIVE; every operation below normalises it.
Norm(r) == IF r # NoRule /\ r.state = "" THEN [r EXCEPT !.state = "ACTIVE"] ELSE r

Active(r) == r # NoRule /\ r.state \in {"", "ACTIVE"}
----------------------------------------------------------------------------
(* Staging a job.                                                          *)

\* buildTaskStatus: what has to be done for rule i.
MethodOf(op, in, c, i) ==
  CASE op = "POST"   -> IF in[i] = NoRule THEN "none" ELSE "create"
    [] op = "DELETE" -> IF RuleIn(c, i) = NoRule THEN "none" ELSE "delete"
    [] op = "PUT"    -> IF in[i] = RuleIn(c, i) THEN "none"
                        ELSE IF in[i] = NoRule THEN "delete"
                        ELSE IF RuleIn(c, i) = NoRule THEN "create" ELSE "modify"

NewStatus(op, in, c, f) ==
  [method   |-> [i \in Rules |-> MethodOf(op, in, c, i)],
   state    |-> [i \in Rules |-> WaitMp2],
   order    |-> f,
   progress |-> 0]

\* The list of a POST and a DELETE has the order of the configuration.  The
\* one of a PUT comes out of the iteration over two maps, first the new and
\* changed rules, then the ones to delete.  (Rules that are not listed have
\* the last places, where the loops pass over them.)
ListOrder(op, m, f) ==
  \A k, n \in Rules : k < n /\ (k \in DnsRules <=> n \in DnsRules) =>
    /\ m[f[k]] = "none" => m[f[n]] = "none"
    /\ op = "PUT" /\ m[f[k]] = "delete" => m[f[n]] \in {"delete", "none"}

\* Mutant: only the request itself is looked through.
DuplicateInRequest(in, st) ==
  \E i, j \in DnsRules : /\ i # j /\ in[i] # NoRule /\ in[j] # NoRule
                         /\ in[i].name = in[j].name

\* isDNSDomainNameExists: the request names a domain twice, or creates a rule
\* for a domain of another application.
DuplicateName(in, st) ==
  \/ \E i, j \in DnsRules : /\ i # j /\ in[i] # NoRule /\ in[j] # NoRule
                            /\ in[i].name = in[j].name
  \/ \E i \in DnsRules : st.method[i] = "create" /\ in[i].name \in Foreign

\* Which requests a run considers (see Edits).
EditAllowed(in, st) ==
  LET old(i) == RuleIn(config, i) IN
  /\ "rename" \notin Edits =>
       \A i \in DnsRules : st.method[i] = "modify" => in[i].name = old(i).name
  /\ "inactive" \notin Edits =>
       \A i \in Rules : st.method[i] = "modify" => Active(in[i]) \/ Active(old(i))

\* Mutant: nobody asks for an ongoing operation.
StageNewTaskUnlocked(op, in, f) ==
  LET st == NewStatus(op, in, config, f) IN
  /\ op = "POST" <=> config = NoConfig
  /\ \E i \in Rules : st.method[i] # "none"
  /\ ListOrder(op, st.method, f)
  /\ op # "DELETE" => ~DuplicateName(in, st) /\ EditAllowed(in, st)
  /\ job' = [op |-> op, cfg |-> IF op = "DELETE" THEN config ELSE in]
  /\ status' = st
  /\ pc' = "staged"
  /\ UNCHANGED <<config, ext, mem, loop>>

\* The plans of POST, PUT and DELETE, and StageNewTask: refused while a job
\* entry exists, for a request that changes nothing, and for a duplicate name.
\* A DELETE stores the configuration it found as its job.
StageNewTask(op, in, f) ==
  LET st == NewStatus(op, in, config, f) IN
  /\ job = NoJob
  /\ op = "POST" <=> config = NoConfig
  /\ \E i \in Rules : st.method[i] # "none"
  /\ ListOrder(op, st.method, f)
  /\ op # "DELETE" => ~DuplicateName(in, st) /\ EditAllowed(in, st)
  /\ job' = [op |-> op, cfg |-> IF op = "DELETE" THEN config ELSE in]
  /\ status' = st
  /\ pc' = "staged"
  /\ UNCHANGED <<config, ext, mem, loop>>
----------------------------------------------------------------------------
(* Starting the task: ProcessDataPlaneSync and newTask.                    *)

\* The memory of the task is gone once its goroutine has returned.
Forget == /\ wJob' = NoJob /\ wConfig' = NoConfig /\ wStatus' = NoStatus
          /\ pos' = 1 /\ lvl' = 0 /\ snap' = 0

\* newTask reads the job, the stored configuration and the status.  It does
\* not ask whether reading the configuration failed.
StartTask ==
  /\ pc = "staged"
  /\ wJob' = job
  /\ wStatus' = status
  /\ \/ wConfig' = config
     \/ "load" \in Faults /\ wConfig' = NoConfig
  /\ pc' = "apply"
  /\ pos' = 1 /\ lvl' = WaitMp2 /\ snap' = 0
  /\ UNCHANGED <<dbs, ext>>

\* The job or the status cannot be read: the job entry is deleted and the
\* failure recorded, unless the status is what cannot be reached.
StartFails ==
  /\ pc = "staged"
  /\ "load" \in Faults
  /\ job' = NoJob
  /\ \/ status' = [status EXCEPT !.progress = TaskProgressFailure]
     \/ status' = status
  /\ pc' = "idle"
  /\ UNCHANGED <<config, ext, mem, loop>>
----------------------------------------------------------------------------
(* The calls that carry a rule to the data plane and to the DNS server.    *)

\* The state machines of newTask, cleaned up for the configured DNS type.
HasOperation(i, l) ==
  IF i \in DnsRules
  THEN DnsType # (IF l = WaitMp2 THEN "local" ELSE "dataplane")
  ELSE l = WaitMp2

ApplyFn(m) == CASE m = "create" -> "add" [] m = "modify" -> "set"
                [] m = "delete" -> "del"
RevertFn(m) == CASE m = "create" -> "del" [] m = "modify" -> "set"
                 [] m = "delete" -> "add"

\* add*, set* and delete* of sync.go: what is sent for a rule that is to
\* become new where old is installed.  Rules that are not active are not sent.
CallFor(fn, new, old) ==
  CASE fn = "add" -> IF Active(new) THEN "Add" ELSE "None"
    [] fn = "del" -> IF Active(old) THEN "Delete" ELSE "None"
    [] fn = "set" -> IF ~Active(old) /\ Active(new) THEN "Add"
                     ELSE IF Active(old) /\ ~Active(new) THEN "Delete" ELSE "Set"

\* set* and delete* read through the existing rule; it is a nil pointer when
\* the map has no such rule.
Panics(fn, old) == fn \in {"set", "del"} /\ old = NoRule

\* generateDnsRuleMap and generateTrafficRuleMap.
ApplyNew(i) == IF wJob.cfg[i] # NoRule THEN wJob.cfg[i] ELSE RuleIn(wConfig, i)
ApplyOld(i) == RuleIn(wConfig, i)
\* Mutant: the revert maps are filled like the ones for applying.
RevertNewIsJob(i) == IF wJob.cfg[i] # NoRule THEN wJob.cfg[i] ELSE RuleIn(wConfig, i)
RevertNew(i) == IF RuleIn(wConfig, i) # NoRule THEN RuleIn(wConfig, i) ELSE wJob.cfg[i]
RevertOld(i) == wJob.cfg[i]

Body(r) == [name |-> r.name, val |-> r.val]

\* The data plane keeps one entry per rule id.
DataPlane(i, call, r) ==
  dp' = CASE call \in {"Add", "Set"} -> [dp EXCEPT ![i] = Body(r)]
          [] call = "Delete" -> [dp EXCEPT ![i] = NoRule]
          [] call = "None" -> dp

\* The DNS server refuses to add a record it has, and to change or delete one
\* it does not have.
DnsAccepts(call, name) ==
  CASE call = "Add" -> dns[name] = NoAddr
    [] call \in {"Set", "Delete"} -> dns[name] # NoAddr
    [] call = "None" -> TRUE

DnsServer(call, r) ==
  dns' = CASE call \in {"Add", "Set"} -> [dns EXCEPT ![r.name] = r.val]
           [] call = "Delete" -> [dns EXCEPT ![r.name] = NoAddr]
           [] call = "None" -> dns

Accepts(l, call, r) == l = WaitLocal => DnsAccepts(call, r.name)

Send(i, l, call, r) ==
  IF l = WaitMp2 THEN DataPlane(i, call, r) /\ UNCHANGED dns
  ELSE DnsServer(call, r) /\ UNCHANGED dp

\* The call is made and answered.  ok says what the task gets to know.
Outcome(i, l, call, r, ok, fault) ==
  \/ ok /\ Accepts(l, call, r) /\ Send(i, l, call, r)
  \/ ~ok /\ call # "None" /\ (~Accepts(l, call, r) \/ fault \in Faults) /\ UNCHANGED ext
  \/ ~ok /\ call # "None" /\ "lost" \in Faults /\ Accepts(l, call, r) /\ Send(i, l, call, r)
----------------------------------------------------------------------------
(* Applying: handleDNSRules and handleTrafficRules with ApplyFunc.         *)

Listed(i) == wStatus.method[i] # "none"
Here == wStatus.order[pos]

BeginRevert == pc' = "revert" /\ pos' = 1 /\ lvl' = WaitLocal /\ snap' = 0

AtApply == pc = "apply" /\ pos \in Rules

SkipUnlisted ==
  /\ AtApply /\ ~Listed(Here)
  /\ pos' = pos + 1
  /\ UNCHANGED <<dbs, ext, mem, pc, lvl, snap>>

\* The operation of the rule at this state; the job in memory is normalised.
ApplyCall ==
  LET i == Here
      fn == ApplyFn(wStatus.method[i])
      call == CallFor(fn, ApplyNew(i), ApplyOld(i))
  IN /\ AtApply /\ Listed(i) /\ HasOperation(i, lvl) /\ ~Panics(fn, ApplyOld(i))
     /\ wJob' = [wJob EXCEPT !.cfg[i] = Norm(wJob.cfg[i])]
     /\ \E ok \in BOOLEAN :
          /\ Outcome(i, lvl, call, ApplyNew(i), ok, "call")
          /\ IF ok THEN pc' = "record" /\ UNCHANGED loop ELSE BeginRevert
     /\ UNCHANGED <<dbs, wConfig, wStatus>>

\* No operation at this state: only the status is advanced.
ApplyNothing ==
  /\ AtApply /\ Listed(Here) /\ ~HasOperation(Here, lvl)
  /\ pc' = "record"
  /\ UNCHANGED <<dbs, ext, mem, loop>>

\* recover() in ProcessAppDConfigSync: the goroutine ends, nothing is undone.
ApplyPanic ==
  /\ AtApply /\ Listed(Here) /\ HasOperation(Here, lvl)
  /\ Panics(ApplyFn(wStatus.method[Here]), ApplyOld(Here))
  /\ pc' = "stuck"
  /\ Forget
  /\ UNCHANGED <<dbs, ext>>

\* Mutants: the rule skips a state; its progress counts for every state.
RecordedAhead(i, s) ==
  [method   |-> wStatus.method,
   state    |-> [wStatus.state EXCEPT ![i] = s + 1],
   order    |-> wStatus.order,
   progress |-> wStatus.progress + (IF s = WaitConfigDBWrite THEN 1 ELSE 0)]
RecordedTwice(i, s) ==
  [method   |-> wStatus.method,
   state    |-> [wStatus.state EXCEPT ![i] = s],
   order    |-> wStatus.order,
   progress |-> wStatus.progress + (IF s >= WaitLocal THEN 1 ELSE 0)]

\* setStateAndProgress.
Recorded(i, s) ==
  [method   |-> wStatus.method,
   state    |-> [wStatus.state EXCEPT ![i] = s],
   order    |-> wStatus.order,
   progress |-> wStatus.progress + (IF s = WaitConfigDBWrite THEN 1 ELSE 0)]

ApplyRecord ==
  /\ pc = "record"
  /\ wStatus' = Recorded(Here, lvl + 1)
  /\ status' = wStatus'
  /\ pc' = "apply"
  /\ IF lvl = WaitMp2 THEN lvl' = WaitLocal /\ pos' = pos
                      ELSE lvl' = WaitMp2 /\ pos' = pos + 1
  /\ UNCHANGED <<config, job, ext, wJob, wConfig, snap>>

\* The status cannot be written: the modification in memory is taken back.
ApplyRecordFails ==
  /\ pc = "record"
  /\ "record" \in Faults
  /\ BeginRevert
  /\ UNCHANGED <<dbs, ext, mem>>

ApplyDone ==
  /\ pc = "apply" /\ pos \notin Rules
  /\ pc' = "write"
  /\ UNCHANGED <<dbs, ext, mem, loop>>

\* Mutant: the configuration of a DELETE is written back.
WriteConfigAlways ==
  /\ pc = "write"
  /\ config' = wJob.cfg
  /\ pc' = "clean"
  /\ UNCHANGED <<job, status, ext, mem, loop>>

\* handleConfigDBWriteOnSuccess.  The error of a failed write is logged, and
\* nil is returned.
WriteConfig ==
  /\ pc = "write"
  /\ IF \E i \in Rules : Listed(i) /\ wStatus.state[i] # WaitConfigDBWrite
     THEN BeginRevert /\ UNCHANGED config
     ELSE /\ \/ config' = IF wJob.op = "DELETE" THEN NoConfig ELSE wJob.cfg
             \/ "config" \in Faults /\ config' = config
          /\ pc' = "clean" /\ UNCHANGED loop
  /\ UNCHANGED <<job, status, ext, mem>>

\* cleanProcessingCache, and the end of the goroutine.
Clean ==
  /\ pc = "clean"
  /\ \/ job' = NoJob /\ pc' = "idle"
     \/ "clean" \in Faults /\ job' = job /\ pc' = "stuck"
  /\ Forget
  /\ UNCHANGED <<config, status, ext>>
----------------------------------------------------------------------------
(* Reverting: handleErrorOnProcessing.  Rules are visited in the order in  *)
(* which they were applied.                                                *)

AtRevert == pc = "revert" /\ pos \in Rules

\* The loop goes over a copy of the rule's status, taken when it gets there.
RuleState == IF lvl = WaitLocal THEN wStatus.state[Here] ELSE snap

\* Mutant: the loop does not get to the next rule.
NextRevertStays ==
  /\ pc' = "revert"
  /\ IF lvl = WaitLocal THEN lvl' = WaitMp2 /\ pos' = pos /\ snap' = RuleState
                        ELSE lvl' = WaitLocal /\ pos' = pos /\ snap' = 0

NextRevert ==
  /\ pc' = "revert"
  /\ IF lvl = WaitLocal THEN lvl' = WaitMp2 /\ pos' = pos /\ snap' = RuleState
                        ELSE lvl' = WaitLocal /\ pos' = pos + 1 /\ snap' = 0

\* Mutant: the last state that was reached is not reverted either.
SkipRevertMore ==
  /\ AtRevert
  /\ ~Listed(Here) \/ lvl + 1 >= RuleState
  /\ NextRevert
  /\ UNCHANGED <<dbs, ext, mem>>

\* "On revert the current state is the failed one, so no need to process the
\* current state also."
SkipRevert ==
  /\ AtRevert
  /\ ~Listed(Here) \/ lvl >= RuleState
  /\ NextRevert
  /\ UNCHANGED <<dbs, ext, mem>>

AfterRevertCall ==
  IF lvl = WaitMp2 THEN NextRevert
  ELSE pc' = "unrecord" /\ snap' = RuleState /\ UNCHANGED <<pos, lvl>>

RevertCall ==
  LET i == Here
      fn == RevertFn(wStatus.method[i])
      call == CallFor(fn, RevertNew(i), RevertOld(i))
  IN /\ AtRevert /\ Listed(i) /\ lvl < RuleState /\ HasOperation(i, lvl)
     /\ \E ok \in BOOLEAN :
          /\ Outcome(i, lvl, call, RevertNew(i), ok, "undo")
          /\ IF ok THEN AfterRevertCall /\ UNCHANGED mem
                   ELSE pc' = "stuck" /\ Forget
     /\ UNCHANGED dbs

RevertNothing ==
  /\ AtRevert /\ Listed(Here) /\ lvl < RuleState /\ ~HasOperation(Here, lvl)
  /\ AfterRevertCall
  /\ UNCHANGED <<dbs, ext, mem>>

RevertRecord ==
  /\ pc = "unrecord"
  /\ wStatus' = Recorded(Here, WaitMp2)
  /\ status' = wStatus'
  /\ lvl' = WaitMp2
  /\ pc' = "revert"
  /\ UNCHANGED <<config, job, ext, wJob, wConfig, pos, snap>>

\* The status cannot be written: the task ends and keeps its job entry.
RevertRecordFails ==
  /\ pc \in {"unrecord", "fail"}
  /\ "unrecord" \in Faults
  /\ pc' = "stuck"
  /\ Forget
  /\ UNCHANGED <<dbs, ext>>

RevertDone ==
  /\ pc = "revert" /\ pos \notin Rules
  /\ pc' = "fail"
  /\ UNCHANGED <<dbs, ext, mem, loop>>

\* Mutant: the job entry is forgotten once the failure is recorded.
FailKeepsJob ==
  /\ pc = "fail"
  /\ status' = [wStatus EXCEPT !.progress = TaskProgressFailure]
  /\ pc' = "stuck"
  /\ Forget
  /\ UNCHANGED <<config, job, ext>>

Fail ==
  /\ pc = "fail"
  /\ wStatus' = [wStatus EXCEPT !.progress = TaskProgressFailure]
  /\ status' = wStatus'
  /\ pc' = "clean"
  /\ UNCHANGED <<config, job, ext, wJob, wConfig, loop>>
----------------------------------------------------------------------------
\* The process stops.  Nothing takes up the task again after a restart.
Crash ==
  /\ pc \notin {"idle", "stuck", "crashed"}
  /\ "crash" \in Faults
  /\ pc' = "crashed"
  /\ Forget
  /\ UNCHANGED <<dbs, ext>>

Init ==
  /\ config = NoConfig /\ job = NoJob /\ status = NoStatus
  /\ dp = [i \in Rules |-> NoRule]
  /\ dns = [n \in Names |-> IF n \in Foreign THEN ForeignAddr ELSE NoAddr]
  /\ wJob = NoJob /\ wConfig = NoConfig /\ wStatus = NoStatus
  /\ pc = "idle" /\ pos = 1 /\ lvl = 0 /\ snap = 0

Inputs == {c \in Configs : \A i \in Rules : c[i] # NoRule => c[i].state \in InStates}

Request ==
  \E f \in Orders :
    \/ \E in \in Inputs : StageNewTask("POST", in, f) \/ StageNewTask("PUT", in, f)
    \/ StageNewTask("DELETE", config, f)

Task == \/ StartTask \/ StartFails
        \/ SkipUnlisted \/ ApplyCall \/ ApplyNothing \/ ApplyPanic
        \/ ApplyRecord \/ ApplyRecordFails \/ ApplyDone \/ WriteConfig \/ Clean
        \/ SkipRevert \/ RevertCall \/ RevertNothing \/ RevertRecord
        \/ RevertRecordFails \/ RevertDone \/ Fail

Next == Request \/ Task \/ Crash

Spec == Init /\ [][Next]_vars

\* The goroutine of a task is always scheduled again; nobody has to send
\* requests, and nothing has to fail.
FairSpec == Spec /\ WF_vars(Task)
----------------------------------------------------------------------------
(* Properties.                                                             *)

\* What the data plane and the DNS server should hold for configuration c,
\* and what this application has on the DNS server.
DpOf(c) == [i \in Rules |-> IF HasOperation(i, WaitMp2) /\ Active(RuleIn(c, i))
                            THEN Body(RuleIn(c, i)) ELSE NoRule]

DnsOf(c) == {<<RuleIn(c, i).name, RuleIn(c, i).val>> :
               i \in {j \in DnsRules : DnsType # "dataplane" /\ Active(RuleIn(c, j))}}

DnsRecords == {<<n, dns[n]>> : n \in {m \in Names \ Foreign : dns[m] # NoAddr}}

Matches(c) == dp = DpOf(c) /\ DnsRecords = DnsOf(c)

\* TaskStatusGet: what a client is told about the latest task.
TaskState ==
  IF status = NoStatus THEN "NONE"
  ELSE IF status.progress = Cardinality({i \in Rules : status.method[i] # "none"})
  THEN "SUCCESS"
  ELSE IF status.progress >= 0 THEN "PROCESSING" ELSE "FAILURE"

\* Every variable of the worker and of the databases keeps its type.
TypeOK ==
  /\ config \in Configs \cup {NoConfig}
  /\ job \in Jobs \cup {NoJob}
  /\ status \in Statuses \cup {NoStatus}
  /\ dp \in [Rules -> [name : Names \cup {NoName}, val : Vals] \cup {NoRule}]
  /\ dns \in [Names -> Vals \cup {NoAddr, ForeignAddr}]
  /\ wJob \in Jobs \cup {NoJob}
  /\ wConfig \in Configs \cup {NoConfig}
  /\ wStatus \in Statuses \cup {NoStatus}
  /\ pc \in {"idle", "staged", "apply", "record", "write", "clean", "revert",
             "unrecord", "fail", "stuck", "crashed"}
  /\ pos \in 1 .. (NDns + NTrf + 1) /\ lvl \in 0 .. 1 /\ snap \in 0 .. 2

\* All or nothing: whenever the application is unlocked, the data plane and
\* the local DNS server hold exactly the active rules of the stored
\* configuration, whatever failed, was reverted or crashed before
\* (ProcessDataPlaneSync, handleErrorOnProcessing).
SettledWhenUnlocked == job = NoJob => Matches(config)

\* A task that reports FAILURE has left nothing of its request behind on the
\* data plane or the DNS server (handleErrorOnProcessing reverts before it
\* records the failure).
FailureLeavesNothing == TaskState = "FAILURE" => Matches(config)

ForeignRecords == \A n \in Foreign : dns[n] = ForeignAddr

\* The DNS records of other applications are never touched by the tasks of
\* this one, nor does its configuration ever take in a name of theirs, which
\* a later task would act upon (isDNSDomainNameExists is to keep them apart).
ForeignUntouched ==
  /\ ForeignRecords
  /\ \A i \in DnsRules : RuleIn(config, i) # NoRule => RuleIn(config, i).name \notin Foreign

\* As long as a task is on its way its job entry is there, and is the job it
\* works on: the lock is never lost while externals are being changed.
RunningIsLocked ==
  /\ pc \notin {"idle"} => job # NoJob
  /\ wJob # NoJob => wJob.op = job.op /\ \A i \in Rules : wJob.cfg[i] \in {job.cfg[i], Norm(job.cfg[i])}

\* What a client is told of a task is never taken back: SUCCESS stays SUCCESS
\* and FAILURE stays FAILURE until another task is staged.
VerdictIsFinal ==
  [][pc' # "staged" /\ TaskState \in {"SUCCESS", "FAILURE"} => TaskState' = TaskState]_vars

\* The synchronisation implements the atomic change of AppDAtomic: the job
\* entry is the pending operation, and what is installed counts only while
\* there is none.
NormJob(j) == [j EXCEPT !.cfg = [i \in Rules |-> Norm(j.cfg[i])]]
Atomic == INSTANCE AppDAtomic WITH
            Result <- LAMBDA j : IF j.op = "DELETE" THEN NoConfig ELSE NormJob(j).cfg,
            View <- LAMBDA c : <<DpOf(c), DnsOf(c)>>,
            None <- NoConfig,
            Unsettled <- "unsettled",
            stored <- config,
            pending <- job,
            installed <- IF job = NoJob THEN <<dp, DnsRecords>> ELSE "unsettled",
            verdict <- TaskState
ImplementsAtomic == Atomic!Spec

\* Every task comes to an end.
TaskEnds == (pc # "idle") ~> (pc \in {"idle", "stuck", "crashed"})

\* "Once operation is completed this entry would be deleted from DB for this
\* appInstanceId" (IsAnyOngoingOperationExist): no application stays locked.
LockReleased == (job # NoJob) ~> (job = NoJob)
=============================================================================
