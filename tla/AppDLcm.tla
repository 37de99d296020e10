------------------------------ MODULE AppDLcm ------------------------------
(***************************************************************************)
(* Several clients configure, modify, delete and terminate application     *)
(* instances at once (the Mm5 interface).  Every request is served by a    *)
(* goroutine of its own, which checks, stages a job and starts the task    *)
(* that carries it out; nothing but the records in etcd keeps the requests *)
(* apart, and every read or write of etcd is a step.                       *)
(*                                                                         *)
(* The synchronisation of the rules is one step here, which succeeds, is   *)
(* reverted, or leaves the task stuck: AppDSync looks inside it.  A rule   *)
(* is nothing but its domain name.                                         *)
(***************************************************************************)
EXTENDS Integers, FiniteSets

CONSTANTS
  Procs,      \* goroutines that serve requests
  Apps,       \* application instance ids
  AppNames,   \* the names the applications give themselves
  Domains,    \* DNS domain names
  Faults,     \* the failures of etcd and of tasks that may happen
  Overlaps,   \* the unprotected overlaps of requests that may happen
  NoConfig, NoJob, NoReq

FaultKinds ==
  { "read",     \* a record cannot be read: the checks take it for absent
    "write",    \* a record cannot be written
    "delete",   \* the job entry cannot be deleted
    "stuck" }   \* a task ends without releasing its job entry

OverlapKinds ==
  { "same",     \* a request that has no job entry yet is overtaken by other
                \* requests or tasks of the same application
    "scan",     \* the two reads of the duplicate-domain check are separated
    "wipe" }    \* the clean-up of an unconfigured application's termination
                \* runs while other applications have jobs

Configs == [appName : AppNames, domains : SUBSET Domains]
Ops == {"POST", "PUT", "DELETE", "TERMINATE"}

\* A job record; "by" says which goroutine wrote it and is not in the record.
Jobs == [op : {"POST", "PUT", "DELETE"}, cfg : Configs, by : Procs]

Requests == [app    : Apps,
             op     : Ops,
             cfg    : Configs \cup {NoConfig}, \* the request's body
             sub    : BOOLEAN,                 \* termination is subscribed
             base   : Configs \cup {NoConfig}, \* the configuration staged on
             seen   : SUBSET Domains,          \* what the domain check found
             locked : BOOLEAN,                 \* has written its job entry
             work   : Jobs \cup {NoJob}]       \* the job its task has read

ASSUME LcmAssumption == Faults \subseteq FaultKinds /\ Overlaps \subseteq OverlapKinds
ASSUME LcmSentinels ==
  NoConfig \notin Configs /\ NoJob \notin Jobs /\ NoReq \notin Requests

VARIABLES
  config,   \* etcd: the stored configuration of every application
  job,      \* etcd: the job entry of every application, its lock
  req,      \* the request that a goroutine serves
  pc,       \* where the goroutine is
  overtaken \* for the properties: the applications with a request that relied
            \* on an answer which was false, or no longer true

vars == <<config, job, req, pc, overtaken>>

App(p) == req[p].app
DomainsOf(c) == IF c = NoConfig THEN {} ELSE c.domains

\* Without an overlap kind the goroutines of a run are scheduled so that it
\* does not happen.
Turn(p, a) ==
  \A q \in Procs \ {p} :
    req[q] # NoReq =>
      /\ "same" \notin Overlaps => req[q].locked \/ req[q].app # a
      /\ "scan" \notin Overlaps => pc[q] # "scanJobs"

At(p, l) == pc[p] = l /\ Turn(p, App(p))

Goto(p, l) == pc' = [pc EXCEPT ![p] = l]

\* The goroutine is done with its request: answered, or the task has ended.
Finish(p) == Goto(p, "idle") /\ req' = [req EXCEPT ![p] = NoReq]

\* What a check sees of a record: an error counts as absent.
Reads(value, absent) == {value} \cup (IF "read" \in Faults THEN {absent} ELSE {})
----------------------------------------------------------------------------
(* The handlers: CreateAppDConfig, UpdateAppDConfig, DeleteAppDConfig and  *)
(* DeleteAppDConfigWithSync.                                               *)

\* The order of the checks in the four handlers.
FirstCheck(op) == IF op = "TERMINATE" THEN "ongoing" ELSE "created"
AfterCreated(op) == IF op = "POST" THEN "name" ELSE "ongoing"
AfterOngoing(op) == CASE op = "TERMINATE" -> "staging"
                      [] op = "POST" -> "put"
                      [] OTHER -> "base"

Arrive(p) ==
  \E a \in Apps, op \in Ops, c \in Configs \cup {NoConfig} :
    /\ pc[p] = "idle" /\ Turn(p, a)
    /\ op \in {"DELETE", "TERMINATE"} <=> c = NoConfig
    /\ req' = [req EXCEPT ![p] = [app |-> a, op |-> op, cfg |-> c, sub |-> FALSE,
                 base |-> NoConfig, seen |-> {}, locked |-> FALSE, work |-> NoJob]]
    /\ Goto(p, FirstCheck(op))
    /\ UNCHANGED <<config, job>>

\* IsAppInstanceAlreadyCreated.
CheckCreated(p) ==
  /\ At(p, "created")
  /\ \E c \in Reads(config[App(p)], NoConfig) :
       IF (c = NoConfig) = (req[p].op = "POST")
       THEN Goto(p, AfterCreated(req[p].op)) /\ UNCHANGED req
       ELSE Finish(p)
  /\ UNCHANGED <<config, job>>

\* IsDuplicateAppNameExists looks at the stored configurations.
CheckAppName(p) ==
  LET names == {config[b].appName : b \in {d \in Apps : config[d] # NoConfig}} IN
  /\ At(p, "name")
  /\ \E found \in Reads(names, {}) :
       IF req[p].cfg.appName \in found THEN Finish(p)
       ELSE Goto(p, "ongoing") /\ UNCHANGED req
  /\ UNCHANGED <<config, job>>

\* IsAnyOngoingOperationExist.
CheckOngoing(p) ==
  /\ At(p, "ongoing")
  /\ \E j \in Reads(job[App(p)], NoJob) :
       IF j # NoJob THEN Finish(p)
       ELSE Goto(p, AfterOngoing(req[p].op)) /\ UNCHANGED req
  /\ UNCHANGED <<config, job>>

\* stageAppTerminationProgress: an application without a configuration gets a
\* task, but no job entry.
StageTermination(p) ==
  /\ At(p, "staging")
  /\ \E sub \in BOOLEAN : req' = [req EXCEPT ![p].sub = sub]
  /\ \E c \in Reads(config[App(p)], NoConfig) :
       Goto(p, IF c # NoConfig THEN "base"
               ELSE IF req'[p].sub THEN "wait" ELSE "load")
  /\ UNCHANGED <<config, job>>

\* StageNewTask reads the configuration it builds on, for every operation but
\* POST; an update must name the application as before.
ReadBase(p) ==
  LET c == config[App(p)]
      fits == c # NoConfig /\ (req[p].op = "PUT" => c.appName = req[p].cfg.appName)
  IN
  /\ At(p, "base")
  /\ \/ fits /\ req' = [req EXCEPT ![p].base = c] /\ Goto(p, "put")
     \/ (~fits \/ "read" \in Faults) /\ Finish(p)
  /\ UNCHANGED <<config, job>>

\* Mutant: the operation is stored as the request has it.
NewJobAsAsked(p) ==
  [op  |-> req[p].op,
   cfg |-> IF req[p].cfg = NoConfig THEN req[p].base ELSE req[p].cfg,
   by  |-> p]

NewJob(p) ==
  LET del == req[p].op \in {"DELETE", "TERMINATE"} IN
  [op  |-> IF del THEN "DELETE" ELSE req[p].op,
   cfg |-> IF del THEN req[p].base ELSE req[p].cfg,
   by  |-> p]

\* The domains a staged request creates, and whether it has anything to do.
Creates(p) == DomainsOf(req[p].cfg) \ DomainsOf(req[p].base)
Deletes(p) == DomainsOf(req[p].base) \ DomainsOf(req[p].cfg)
HasWork(p) == Creates(p) \cup Deletes(p) # {}

\* addJobsToDb, and buildTaskStatus: "No modification found."
PutJob(p) ==
  /\ At(p, "put")
  /\ \/ /\ job' = [job EXCEPT ![App(p)] = NewJob(p)]
        /\ req' = [req EXCEPT ![p].locked = TRUE]
        /\ \/ Goto(p, IF HasWork(p) THEN "scan" ELSE "withdraw")
           \/ "write" \in Faults /\ Goto(p, "withdraw")
     \/ "write" \in Faults /\ Finish(p) /\ UNCHANGED job
  /\ UNCHANGED config

\* isDNSDomainNameExists: first the configurations of the other applications ...
ScanConfigs(p) ==
  LET taken == UNION {DomainsOf(config[b]) : b \in Apps \ {App(p)}} IN
  /\ At(p, "scan")
  /\ \E s \in Reads(taken, {}) : req' = [req EXCEPT ![p].seen = s]
  /\ Goto(p, "scanJobs")
  /\ UNCHANGED <<config, job>>

\* Mutant: the jobs are not looked at.
ScanJobsNot(p) ==
  /\ At(p, "scanJobs")
  /\ Goto(p, IF Creates(p) \cap req[p].seen # {} THEN "withdraw" ELSE "status")
  /\ UNCHANGED <<config, job, req>>

\* ... then their jobs.
ScanJobs(p) ==
  LET taken == UNION {job[b].cfg.domains : b \in {d \in Apps \ {App(p)} : job[d] # NoJob}} IN
  /\ At(p, "scanJobs")
  /\ \E s \in Reads(taken, {}) :
       Goto(p, IF Creates(p) \cap (req[p].seen \cup s) # {} THEN "withdraw" ELSE "status")
  /\ UNCHANGED <<config, job, req>>

\* Mutants: all job entries are deleted; none is.
WithdrawAll(p) ==
  /\ At(p, "withdraw")
  /\ job' = [a \in Apps |-> NoJob]
  /\ Finish(p)
  /\ UNCHANGED config
WithdrawNothing(p) ==
  /\ At(p, "withdraw")
  /\ Finish(p)
  /\ UNCHANGED <<config, job>>

\* A refused request takes its job entry back.
Withdraw(p) ==
  /\ At(p, "withdraw")
  /\ \/ job' = [job EXCEPT ![App(p)] = NoJob]
     \/ "delete" \in Faults /\ UNCHANGED job
  /\ Finish(p)
  /\ UNCHANGED config

\* writeStatusToStore, and StartNewTask.
WriteStatus(p) ==
  /\ At(p, "status")
  /\ \/ Goto(p, IF req[p].sub THEN "wait" ELSE "load")
     \/ "write" \in Faults /\ Goto(p, "withdraw")
  /\ UNCHANGED <<config, job, req>>
----------------------------------------------------------------------------
(* The tasks: ProcessDataPlaneSync.                                        *)

Task == {"wait", "wipe", "load", "apply", "write", "release"}

\* Mutant: the time to confirm never runs out.
AwaitConfirmation(p) ==
  /\ At(p, "wait")
  /\ UNCHANGED vars

\* handleAppTermination: the application is notified and has its time to
\* confirm; then the task asks whether there is a configuration.
AwaitTermination(p) ==
  /\ At(p, "wait")
  /\ \E c \in Reads(config[App(p)], NoConfig) :
       Goto(p, IF c = NoConfig THEN "wipe" ELSE "load")
  /\ UNCHANGED <<config, job, req>>

\* The clean-up with an empty task deletes the job entries under the prefix
\* common to all applications.
Wipe(p) ==
  /\ At(p, "wipe")
  /\ "wipe" \in Overlaps \/ \A b \in Apps \ {App(p)} : job[b] = NoJob
  /\ \/ job' = [a \in Apps |-> NoJob]
     \/ "delete" \in Faults /\ UNCHANGED job
  /\ Finish(p)
  /\ UNCHANGED config

\* newTask: without a job or without a status record there is nothing to do
\* but to delete the job entry.
Load(p) ==
  LET j == job[App(p)]
      hasStatus == req[p].locked \/ req[p].sub
  IN /\ At(p, "load")
     /\ \/ /\ j # NoJob /\ hasStatus
           /\ req' = [req EXCEPT ![p].work = j]
           /\ Goto(p, "apply")
        \/ /\ j = NoJob \/ ~hasStatus \/ "read" \in Faults
           /\ Goto(p, "release")
           /\ UNCHANGED req
     /\ UNCHANGED <<config, job>>

\* Mutant: the job entry is deleted before the configuration is written.
ApplyUnlocks(p) ==
  /\ At(p, "apply")
  /\ job' = [job EXCEPT ![App(p)] = NoJob]
  /\ Goto(p, "write") \/ Goto(p, "release")
  /\ UNCHANGED <<config, req>>

Apply(p) ==
  /\ At(p, "apply")
  /\ Goto(p, "write") \/ Goto(p, "release")
  /\ UNCHANGED <<config, job, req>>

\* A revert that fails, a panic or the end of the process: the job entry stays.
Abandon(p) ==
  /\ "stuck" \in Faults
  /\ \E l \in Task : At(p, l)
  /\ Finish(p)
  /\ UNCHANGED <<config, job>>

\* handleConfigDBWriteOnSuccess.
WriteConfig(p) ==
  /\ At(p, "write")
  /\ config' = [config EXCEPT ![App(p)] =
                  IF req[p].work.op = "DELETE" THEN NoConfig ELSE req[p].work.cfg]
  /\ Goto(p, "release")
  /\ UNCHANGED <<job, req>>

\* cleanProcessingCache.
Release(p) ==
  /\ At(p, "release")
  /\ \/ job' = [job EXCEPT ![App(p)] = NoJob]
     \/ "delete" \in Faults /\ UNCHANGED job
  /\ Finish(p)
  /\ UNCHANGED config
----------------------------------------------------------------------------
Init ==
  /\ config = [a \in Apps |-> NoConfig] /\ job = [a \in Apps |-> NoJob]
  /\ req = [p \in Procs |-> NoReq] /\ pc = [p \in Procs |-> "idle"]
  /\ overtaken = {}

Serve(p) ==
  \/ CheckCreated(p) \/ CheckAppName(p) \/ CheckOngoing(p) \/ StageTermination(p)
  \/ ReadBase(p) \/ PutJob(p) \/ ScanConfigs(p) \/ ScanJobs(p) \/ Withdraw(p)
  \/ WriteStatus(p) \/ AwaitTermination(p) \/ Wipe(p) \/ Load(p) \/ Apply(p)
  \/ Abandon(p) \/ WriteConfig(p) \/ Release(p)

\* A request that is still asking whether it may start.
Asking == {"created", "name", "ongoing"}

\* What a request without a job entry of its own was told is false: past its
\* questions there is a job entry, or a POST, which was told that there is no
\* configuration, has one.
Misled(p) ==
  /\ req[p] # NoReq /\ ~req[p].locked
  /\ \/ pc[p] \notin Asking /\ job[App(p)] # NoJob
     \/ req[p].op = "POST" /\ pc[p] # "created" /\ config[App(p)] # NoConfig

\* Whom a step of p misleads: others, who were told the truth before; itself
\* only by a read that fails.
Overtakes(p, q) == ~Misled(q) /\ Misled(q)' /\ (q = p => "read" \in Faults)

Step(p) ==
  /\ Serve(p)
  /\ overtaken' = overtaken \cup {App(q) : q \in {r \in Procs : Overtakes(p, r)}}

Next == \E p \in Procs : (Arrive(p) /\ UNCHANGED overtaken) \/ Step(p)

Spec == Init /\ [][Next]_vars

\* Every goroutine is scheduled again and again; requests need not come.
FairSpec == Spec /\ \A p \in Procs : WF_vars(Step(p))
----------------------------------------------------------------------------
(* Properties.                                                             *)

Locked(p) == req[p] # NoReq /\ req[p].locked
Handler == {"created", "name", "ongoing", "staging", "base", "put", "scan",
            "scanJobs", "withdraw", "status"}

\* The domains of application a, or of a task of it that has been accepted.
Claims(a) ==
  DomainsOf(config[a]) \cup
  UNION {DomainsOf(req[p].cfg) : p \in {q \in Procs : pc[q] \in Task /\ App(q) = a}}

\* Every variable keeps its type, and a goroutine at rest has no request.
TypeOK ==
  /\ config \in [Apps -> Configs \cup {NoConfig}]
  /\ job \in [Apps -> Jobs \cup {NoJob}]
  /\ req \in [Procs -> Requests \cup {NoReq}]
  /\ pc \in [Procs -> Handler \cup Task \cup {"idle"}]
  /\ \A p \in Procs : pc[p] = "idle" <=> req[p] = NoReq
  /\ overtaken \subseteq Apps

\* "Check any duplicate dns entry exists": no domain belongs to two
\* applications, be it stored or on its way to the data plane
\* (isDNSDomainNameExists), as long as no application has lost a job entry to
\* requests for it that overtook each other.
DomainsApart ==
  overtaken = {} => \A a, b \in Apps : a # b => Claims(a) \cap Claims(b) = {}

\* "Check if any other ongoing operation for this AppInstance Id in the
\* system": an application never has two tasks at once, unless two requests
\* for this very application got past that check together or one of its
\* checks could not read; what happens to other applications has no part in it.
OneTaskPerApp ==
  LET running == {p \in Procs : Locked(p) /\ pc[p] \in Task} IN
  \A p, q \in running : p # q /\ App(p) = App(q) => App(p) \in overtaken

\* From the time it is written until its own goroutine removes it, the job
\* entry is there and says what its request asked for; the task reads no
\* other one.  Only requests for the same application that were overtaken may
\* spoil that, never those for another one (addJobsToDb, cleanProcessingCache).
HoldsOwnJob ==
  \A p \in Procs : Locked(p) /\ App(p) \notin overtaken =>
    /\ job[App(p)] = NewJob(p)
    /\ req[p].work \in {NoJob, NewJob(p)}

\* The configuration a task was planned against (which rules to create, to
\* modify, to delete) is still the stored one when the task replaces it; but
\* for an application of which a POST relied on an answer that was stale.
BaseIsCurrent ==
  \A p \in Procs : Locked(p) /\ pc[p] # "release" /\ App(p) \notin overtaken =>
    config[App(p)] = req[p].base

\* Every request is answered and every task ends.
RequestEnds == \A p \in Procs : (pc[p] # "idle") ~> (pc[p] = "idle")

\* Every job entry goes away again, whatever the requests do to one another:
\* also the one that a refused request wrote before it was refused.
LocksEnd == \A a \in Apps : (job[a] # NoJob) ~> (job[a] = NoJob)
=============================================================================
