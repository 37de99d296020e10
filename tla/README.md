# TLA+ models of the EdgeGallery MEP

The MEP (multi-access edge platform) is a set of Go services. *mepserver*
offers the Mm5 interface, over which a management system configures
application instances, and the Mp1 interface, over which the applications
register services and subscribe to events. *dns-server* answers DNS queries
from records that mepserver puts there. *mepauth* issues tokens. Behind
mepserver are etcd (through the service center), the data plane (Mp2) and an
API gateway.

## The system and its parts

| Part | State | Operations | What is hard |
|---|---|---|---|
| AppD synchronisation task (`mm5/task`) | job, task status and configuration of an application in etcd; the task's copies of them; the rules on the data plane; the DNS records | load, apply rule by rule, record, write the configuration, revert, release | any step may fail, the revert too; the process may stop; two systems outside and three records must agree in the end |
| AppD requests (`mm5/plans`, `common/appd`) | the same records for all applications | POST, PUT, DELETE, terminate | one goroutine per request, no lock but the job entry; check-then-act on etcd |
| App termination (`mm5/plans`, `mm5/task`, `mp1/plans`) | confirmation record, subscriptions | terminate, notify, wait, confirm | a wait with a time limit racing the confirmation; clean-up of what is not there |
| Task status (`appd_get_taskstatus.go`) | none | query | reads while the task writes |
| Mp1 rules (`dns_one_update.go`, `traffic_one_update.go`) | the stored configuration | switch a rule on or off, change it | reads, changes and writes back the configuration that a task may be replacing; three systems changed in turn |
| Mp1 services (`svc_*.go`, `serviceinfo.go`, `apigwutil.go`) | instances in the service center, services and routes on the gateway | register, update, delete, discover | limits checked before insertion; gateway changed before the store, whole records written back |
| Mp1 subscriptions and events (`app_subscribe*.go`, `event`) | subscriptions in etcd | subscribe, unsubscribe, notify | limit, filters, events against unsubscription |
| Heartbeat (`heartbeat.go`, `heartbeat_patched.go`), hook | properties of instances | heartbeat, periodic check, refresh | the check writes back an old snapshot |
| Workspace (`common/arch`) | the plan of a request | run steps and groups, collect the first error | goroutines and wait groups |
| dns-server | records in bolt, zones | add, set, delete, query, forward | concurrent calls, zone and default zone |
| Starting (`mepauth/main.go`, `apigw.go`, `mepserver/main.go`, `util`) | key files in pairs, gateway entries, the first record | make what is missing, on every start | a crash or a torn write between two files; set-up that fails half way and is repeated |
| mepauth, serving | records of keys, block list | configure, delete, token, block | unsynchronised map and timers |
| healthcheck, kong-plugin, queries | none of their own | forward, format | nothing that outlives a request |

The parts interact through etcd records and REST calls: an Mm5 request stages
a job entry and a status and starts a task; the task calls the data plane and
dns-server and stores the configuration that Mp1 requests read and change;
termination notifies a subscriber, waits for its Mp1 confirmation and then
deletes through the same task.

`PROJECT.json` has the components, the hazards of the code at their lines, and
for every definition the lines it stands for.

## Modules

**AppDSync** is the life of the configuration of *one* application. Its
database variables `config`, `job`, `status` are the etcd records under
`appd/`, `applcm/jobs/` and `applcm/taskstatus/`; `dp` and `dns` are what the
data plane and the DNS server hold; `wJob`, `wConfig`, `wStatus` are the
fields of the Go struct `task`; `pc`, `pos`, `lvl`, `snap` are the place in the
two nested loops and the copy of the rule's status that `range` hands to the
revert loop. One action is one call or one write: `ApplyCall` is the operation
of a rule at a state (add, set or delete, on Mp2 or on the local DNS, with its
conditions on ACTIVE and INACTIVE), `ApplyRecord` is `setStateAndProgress`,
`WriteConfig` is `handleConfigDBWriteOnSuccess`, `RevertCall` and
`RevertRecord` are the same for reverting, `Clean` is `cleanProcessingCache`,
`ApplyPanic` the nil pointer that `recover` catches, `Crash` the end of the
process. `StageNewTask` is the request, in one step.

- A rule is a name, a value and a state (`""`, ACTIVE, INACTIVE). Rule ids are
  numbers; the DNS rules are the first ones, since their list is walked first.
  A domain name has one record type. The status list has an order of its own
  (`order`): the one of a PUT comes out of the iteration over Go maps, so it is
  any order that has the new and changed rules before the deleted ones.
- The data plane is external and keeps one entry per rule id. Add and set both
  leave the rule that was sent. The DNS server refuses to add an existing
  record and to set or delete a missing one, as `mgmt/controller.go` does.
- `Foreign` are the names that other applications registered; they do not
  change here.
- `Faults` says which failures may happen, `Edits` which delicate changes a
  request may ask for. A run that leaves one out says so in its configuration.

**AppDAtomic** is what clients may rely on: one operation at a time, the
configuration replaced in one step and only by a task seen as succeeded, and
the outside in agreement with the stored configuration, old or new, when the
operation is over. `Atomic` in AppDSync maps one to the other (`job` is the
pending operation; what is installed counts when there is none).

**AppDLcm** is several applications and several requests at once. A goroutine
`p` serves one request after the other; `req[p]` is what its handler and then
its task have in memory. Every read or write of etcd is a step, in the order of
the handlers: is there a configuration, is the application name free, is there
a job, read the configuration, write the job, collect the domains of the other
configurations, then of the other jobs, write the status, start the task. The
synchronisation itself is one step (`Apply`) that succeeds, is reverted or gets
stuck. A rule is its domain name only, so that a PUT with the same domains is
one that changes nothing. The field `by` of a job is not in the record; the
properties use it. `Overlaps` says which of the unprotected overlaps may
happen; `Turn` schedules a run so that the others do not. `overtaken` is a
history variable: the applications with a request that goes on after an answer
that was not true, because its read failed (`Misled` by itself), or is true no
longer, because a step of another goroutine came in between (`Overtakes`).

**Mp1Rules** extends AppDSync with the requests of Mp1 that change one rule of
the same configuration. `upd[u]` is the update a client has under way, with the
configuration it read (`base`). A DNS rule goes through `StoreUpdate`,
`UpdateDns`, `UpdateDataPlane`; a failure goes back through `UndoDns` (twice: the
caller undoes what the callee has undone) and `UnstoreUpdate`. A traffic rule has
the store and the data plane only, and its body need not have a state
(`Bodies`): it is stored as it came, and the rule is deleted on the data plane,
while a task would take it for an active one. `Unstated` are the rules stored so.
Nobody looks at the job entry: an update that overlaps with another writer sets
`raced`, one that cannot be undone `broken`, and a behaviour is followed to the
end of the requests concerned.

**Startup** is what mepauth and mepserver do on every start (`program` says which
of the two a behaviour is about). The variables are the six files: the two parts
of the root key, the encrypted work key and its nonce, the encrypted password
(of the JWT key, of the certificate) and its nonce. A cipher text is a record of
the key and nonce it was made with, so that `WorkKey` and `PwdReadable` say what
`GetWorkKey`, `getJwtPrivateKeyPwd` and `GetCertPwd` would answer. `at` is the
place in main; every file is written in a step of its own, which may fail, or
leave the file cut off. mepauth then makes its gateway entries one by one
(`MakeEntry`), encrypts its password and stores the key of the first
application; while it serves, `PutConf` and `DeleteConf` change the records.

**MepauthTokens** extends Startup with the token requests and the block list.
`authInfoList` is the map of the code; `stray` counts the timer goroutines that an
entry does not know of any more, which still delete the entry of their key. Each
request goes through the points at which it looks at the map: is the key
blocked, then the signature, then clear it or count.

**Services** is the services of one application. `inst` are the records of the
service center, `gw` the names with a service and a route on the gateway. A
request reads the record, changes the gateway and writes the whole record back;
`req` holds what it has read. The heartbeat check reads all instances
(`CheckRead`) and writes them back one by one (`CheckOne`). Endpoints get random
names on the gateway; `astray` are the names that a failed call or a write over
another write has cut loose.

**Subscriptions** is the subscriptions of one application, to its own end and to
services, and the notifications about a service: changes come in order out of
etcd's watch (`events`), each is sent to the subscribers of its moment
(`sending`). `due` and `told` are what each ought to be told last and what it was.

**Termination** extends Subscriptions with terminations of the application: the
request stages (`Terminate`, `StageSubscribed`, `StageCreated`, `PutJob`), the task
notifies, writes the confirmation record, polls for the confirmation and deletes
record and subscriptions, then synchronises, or has only its job entry to delete
(`Release`). The confirmation reads and writes the record in two steps; a body that
cannot be parsed sets no error code, so that it confirms like any other
(`Confirm`). `answered`, `sure`, `before` and `stuck` are for the properties.

The theorems are in **AppDSyncProofs** and **AppDAtomicProofs** (AppDSync and its
refinement), **AppDLcmProofs**, **Mp1Proofs**, **StartupProofs** and **MepauthProofs**
(Startup and MepauthTokens), **ServicesProofs** and **TerminationProofs**
(Subscriptions and Termination). **MCAppDSync**, **MCAppDLcm**, **MCMp1Rules**,
**MCMepauth**, **MCServices** and **MCTermination** are the modules TLC runs.
Definitions whose comment starts with "Mutant" are wrong on purpose: each
replaces a definition of the model, and the property it belongs to must then
fail.

## Runs

| Run | Instance | Checks |
|---|---|---|
| `sync_safe` | 2 DNS rules, 1 traffic rule, 2 own names and a foreign one, both DNS targets; calls, reverts, loads, status writes while reverting, the clean-up and the process fail | `TypeOK`, `SettledWhenUnlocked`, `ForeignUntouched`, `ImplementsAtomic` |
| `sync_faults` | 1 DNS rule, 1 traffic rule; every fault and every edit; fair | `RunningIsLocked`, `VerdictIsFinal`, `TaskEnds` |
| `sync_live` | 2 DNS rules, 2 values, DNS agent type `local` (the others use `all`), states `""` and INACTIVE; calls fail; fair | `FailureLeavesNothing`, `LockReleased` |
| `lcm_safe` | 3 goroutines, 2 applications, 1 domain both want; etcd writes and deletes fail, tasks get stuck; no overlap | `TypeOK`, `DomainsApart`, `HoldsOwnJob` |
| `lcm_live` | 2 goroutines, 1 application; overlaps `same` and `scan`; reads and writes fail; fair | `OneTaskPerApp`, `BaseIsCurrent`, `RequestEnds`, `LocksEnd` |
| `mp1_safe` | 1 DNS rule, 1 traffic rule, 2 values, one Mp1 request at a time next to the tasks, states `""`, ACTIVE and INACTIVE; calls, their undoing and writes of the update fail | `Mp1TypeOK`, `ConsistentWhenQuiet`, `UpdateIsAtomic`, `TasksNormalise` |
| `mepauth` | either program; 2 applications, 1 access key, 2 requests, 3 wrong signatures to a block, 2 gateway entries, at most 2 failures of any kind; fair | `TypeOK`, `SecretsReadable`, `ServesBehindGateway`, `NoInternalError`, `CertPwdKept`, `BlockHolds`, `BlockEnds`, `GetsUp` |
| `services` | 1 instance, 1 endpoint or an alternative, 2 requests, 4 names, a limit of 1, 1 failure of store or gateway; fair | `TypeOK`, `DiscoveredReachable`, `GatewayMatches`, `LimitNearlyHolds`, `LateIsSuspended` |
| `termination` | 2 terminations, 1 confirmation, 2 subscription requests, 2 of all these at once, 1 event, 2 polls, 1 failure; fair | `TypeOK`, `SubscriptionLimit`, `ToldWhenQuiet`, `NothingLeft`, `GivesTime`, `TerminationEnds`, `JobReleased` |
| `sync_config` | 2 DNS rules, 1 traffic rule; only the write of the configuration fails | `SettledWhenUnlocked` is violated |
| `lcm_scan` | 2 goroutines, 2 applications; overlap `scan` | `DomainsApart` is violated |
| `lcm_wipe` | 2 goroutines, 2 applications; overlap `wipe` | `HoldsOwnJob` is violated |

Why these bounds: two DNS rules are needed for a name to be used twice or
handed over, and for a failure to find one rule done and the next not; a
traffic rule has no operation at the second state, which a DNS rule has. Two
values are needed to tell the old rule from the new one; the runs that do not
compare values have one. Two applications and one domain are the smallest
conflict; the third goroutine lets a request arrive while another task runs and
a third one is being checked. `lcm_live` asks what requests for one application do
to each other; for that one application and two goroutines are enough (the overlap
`wipe` needs a second one and makes no difference there). What they do to other
applications is a theorem. `lcm_safe` uses symmetry; the runs with liveness do not.

`mp1_safe` has two values, so that an update is told from the rule it replaces
(they are symmetric). The tasks' requests need only the empty state there: it is
normalised to ACTIVE, and an update then brings the other states. Two failures in `mepauth` are a write that fails and the crash
of the start that should repair it; two requests are enough for a wrong signature
to overtake another one. Seven random values suffice: a start never waits for one.
In `services` the instances of an application are independent of each other, so
one is followed; the limit of one with two requests is the smallest case in which
both find room. In `termination` two goroutines at once, of five, already make
every pair of steps interleave; the application may confirm before or after
either poll.

Deadlock is checked for AppDLcm, `mepauth`, `services` and `termination`. It is not
for AppDSync and Mp1Rules, where an application whose task died keeps its lock
and takes no more requests.

Fairness: a task's goroutine, or a request's, is scheduled again and again
(`WF` of `Task`, of `Serve(p)` for every `p`); the Go scheduler guarantees that,
and every call of theirs ends, if only with an error. Requests need not come
and nothing needs to fail. The wait of a termination is bounded by
`AppTerminationTimeout`, so it is a step in AppDLcm and as many steps in
Termination. In `mepauth` main is run again whenever it has ended (`WF` of
`StartStep`; the container is restarted), and timers fire; nobody has to ask for a
token, and failures are bounded, so that they stop. In `services` the check's
rounds go on and it gets to every instance it has read; no heartbeat has to come.

## Findings

- `sync_config`: when the configuration cannot be written,
  `handleConfigDBWriteOnSuccess` returns a nil error. The task neither reverts
  nor fails; it releases the lock with everything installed and nothing stored.
- `lcm_scan`: the duplicate check reads configurations, then jobs; a task
  writes its configuration, then deletes its job. A task that ends between the
  two reads is missed, and two applications get one domain. (Reading the jobs
  first would close the gap.)
- `lcm_wipe`: terminating a subscribed application that has no configuration
  runs the clean-up on an empty task. Deletion is by prefix, so all job entries
  go, and other applications lose their locks in mid-task.

### Exclusions

What the safety runs and the theorems leave out, they leave out because the
property fails with it. Adding the kind to the constant of a run shows how:

- `Faults`, "undo" with `LockReleased`: a revert that fails ends the task before
  the clean-up; the job entry stays, though "once operation is completed this
  entry would be deleted" (`appd.go`:73).
- `Faults`, "record" with `SettledWhenUnlocked`: a call that succeeded but could
  not be recorded is not reverted ("On revert the current state is the failed
  one", `sync.go`:358).
- `Faults`, "lost": the same for a call that took effect and was not answered.
- `Edits`, "inactive": the set operations send a rule that is and stays INACTIVE
  (`sync.go`:525 and 672), and the data plane has it then.
- `Edits`, "rename": only rules to be created are compared with the domains of
  other applications (`appd.go`:283); a rule modified to a foreign name
  overwrites the foreign record.
- `Overlaps`, "same", with `DomainsApart`: an application with two tasks has one
  job entry for both, so that the domains of one of them are overlooked.
- `Faults` of AppDLcm, "read", with `DomainsApart`: configurations and jobs that
  cannot be read count as absent.
- Application names are compared with stored configurations only
  (`appd.go`:52), so two applications created at the same time may share one.

Other properties themselves name what they except:

- `overtaken` (AppDLcm): the job entry is a lock that is read in one step
  (`IsAnyOngoingOperationExist`) and written several steps later (`StageNewTask`).
  Two requests for one application both find no job entry, or one takes an entry that it cannot read for absent (`appd.go`:75), and two
  tasks start; or a POST finds no configuration just before a task stores one, and
  plans against what is no longer so. `OneTaskPerApp`, `HoldsOwnJob` and
  `BaseIsCurrent` except the application this has happened to.
- `Unstated` (Mp1Rules): a traffic rule that an update stored without a state
  (`traffic_one_update.go`:138) has been deleted on the data plane if it was
  ACTIVE (line 159), and the next task that compares or reverts it takes it for an
  active one (`sync.go`:629). `ConsistentWhenQuiet` says nothing of the rule on the
  data plane while it has no state; the rest of the configuration must agree, and
  so must the rule once it has a state again. `TasksNormalise` is about tasks only:
  updates do store rules without a state.
- `raced` (Mp1Rules): an update of a rule reads the configuration, and writes it
  back after calls to the outside, whatever a task or another update has stored
  meanwhile (`traffic_one_update.go`:69); it neither looks at nor writes a job
  entry. `broken`: an update whose DNS record or store entry could not be put
  back.
- `Unusable` (Startup): a work key that does not go with its nonce, or a component
  that is cut off, exists, so no start makes it anew (`util.go`:377), and mepauth
  does not get up again. The same holds for a certificate password that was
  written by half: main asks for its first file only.
- `raced` (MepauthTokens): requests for one key that overlap, or that meet a timer
  that has fired, may lose a block; two accesses of the map at the same instant
  end the process, which is `Crash`. The goroutine of a stopped timer waits
  forever, and the list does not survive a restart.
- `astray` (Services): the names of entries that a failing gateway or store, a
  stale record written back by a heartbeat, the check or another update, or a
  termination after an update to alternative endpoints leaves behind. An update
  gives new endpoints no JWT plugin, and DeleteJwtPlugin sends a POST; the
  model keeps service and route only. An alternative is stored and never passed
  on to those who discover it (the inverted `err != nil` in `fromEndpoints`).
- `stuck` (Termination): the application unsubscribes between the two lookups, and
  the nil pointer ends the task without releasing the job entry
  (`sync.go`:839); or the deletion of its rules fails for good, or that of the job
  entry itself (`sync.go`:89 and 945), of which nobody hears.
- `sure` (Termination): another termination of the same application (without a
  configuration there is no job entry to keep it out), a failure of etcd, or a
  confirmation of the last termination that comes late and re-creates the record.
- A filter with states only (`Subscriptions`) never matches, and isLocal is not
  looked at; a subscription to the end of an application whose body gives the
  other type is stored and never found. The run has neither.
- Mp1Rules assumes the DNS agent type "all" (`Mp1Assumption`). With "local" an update
  of a DNS rule tells the data plane all the same (`dns_one_update.go`:391), which a
  task does not; with "dataplane" there is no DNS agent (`mp1/controller.go`:82), and
  the update meets a nil pointer after it has written the store (line 308).
- The hook's ticker is stopped before it ticks (`hook.go`:67), so that endpoints
  are never replaced by it.
- An invalid access key sent to `ConfController.Put` is answered with success and
  changes nothing (the empty case for `AkFailMsg`).

Two more oddities that the models have as they are: a configuration that a PUT
leaves without rules can never be deleted ("no modification data found"), and a
name handed over from a deleted rule to a new one in one PUT is refused by the
local DNS server, since new rules come first; the task then reverts cleanly.

## Proofs

`AppDSyncProofs` proves, for any number of rules, any names and values and any
DNS type:

- `TypeCorrect`: `Spec => []TypeOK`.
- `LockHeld`: `Spec => []RunningIsLocked`. Both hold under all faults and edits.
- `AllOrNothing`: `Benign /\ Spec => []SettledWhenUnlocked`.
- `ForeignSafe`: `Benign /\ Spec => []ForeignUntouched`.

`Benign` excludes the edits and the faults "lost", "record" and "config", for
the reasons above. The assumptions on the constants are those named in
AppDSync: the sentinels differ from what they stand beside, and the sets
contain what their names say.

`SettledWhenUnlocked` speaks of idle moments only, so the inductive invariant
`IInv` has to say what is installed in the middle of a task. `Level(i)` is how
many of the two operations of rule `i` are in force, from the status, the loop
position and the copy the loop tests; `Cur(l, i)` is then the rule in force at
level `l`, the target or the old one. `DpInv` and `DnsInv` say that the data
plane and the DNS server agree with `Cur` all the time. They need `StateInv`
(the status and the loop position fit together), `PlanInv` (methods, job and
stored configuration fit together, and no name is foreign), `LoadInv` (a task
that could not read the configuration has not got past a rule that needs it)
and `TypeInv` (types, and the lock). Each action either leaves `Cur` alone or
moves one rule by one level and makes the call that fits (`DpStep`, `DnsStep`,
`ApplyMoves`, `RevertMoves`); the steps that do neither are `ExtQuiet`.

`StartupProofs` proves about the composition of Startup and MepauthTokens, for
any number of applications, access keys, requests, gateway entries and failures,
from the assumptions that sentinels differ from what they stand beside
(`StartAssumption`):

- `SecretsStayReadable`: `Spec => []SecretsReadable`.
- `GatewayBeforeService`: `Spec => []ServesBehindGateway`.
- `CertPwdStays`: `Spec => CertPwdKept`.
- `NoRequestFails`: `Spec => []NoInternalError`.

That no secret is lost is not inductive: it has to be known that the key files are
written only while there is nothing to lose. `StartInv` says so for every point of
a start: without both parts of the root key there has never been a work key
(`RootFirst`; files do not vanish), a work key is written only while none can be
decrypted, and with a nonce that is not the stored one (`WorkKeyOnce`, and
`CertPwdOnce` for the certificate), a record presupposes a work key (`Secrets`), and
past its two writes the password of mepauth can be decrypted (`JwtPwdMade`).
`GatewayInOrder` says which entries have been made when the next one is `entry`.
There is a lemma per action; requests and timers leave these variables alone
(`NextIsStartNext`). `NoRequestFails` adds that requests are under way only while
mepauth serves (`RequestsServed`).

`MepauthProofs` goes on to the block list, with `ValidationCounter` at least 2 (it is
3 in `const.go`) and a finite set of requests:

- `MepauthTypeCorrect`: `Spec => []TypeOK`, with the bounds of the counter and of
  the stray timers.
- `BlocksHold`: `Spec => BlockHolds`.

The bound on stray timers needs `StrayInv`: the timers a key has lost, and the
requests that may still lose one, are together no more than `MaxStray` and the
requests. `BlockHolds` needs `AloneInv`: of a key whose requests have not overlapped
there is no stray timer and one request at most, and that request finds the entry
in the state it left it in.

`AppDAtomicProofs` is about AppDSync as clients see it:

- `VerdictStands`: `Spec => VerdictIsFinal`, under all faults and edits.
- `FailureReverted`: `Benign /\ Spec => []FailureLeavesNothing`.
- `SyncIsAtomic`: `Benign /\ Spec => ImplementsAtomic`, the whole refinement.

`ProgressInv` says that the progress counts the rules that are done until the task
turns back, and stays short of the number that means success afterwards; so a
verdict comes once (`Verdicts`). `NormInv` follows a rule to the operation that
normalises it, or says that the job leaves it as it is stored (`Kept`); a task alone
then keeps `StoredIsNormal`, that no rule is stored without a state, which the
refinement uses and which updates over Mp1 do not keep. In the refinement (`AtomicNext`) a request begins the operation, the
record of the last rule or `Fail` is the verdict, `WriteConfig` the change (what is
written is what the job asks for, `WritesResult`), `Clean` or `StartFails` the end, at
which everything outside matches (`MatchInv`, from `IInv`); every other step changes
nothing that AppDAtomic speaks of.

`AppDLcmProofs` is for any number of goroutines, applications, application names
and domains:

- `LcmTypeCorrect`: `Spec => []TypeOK`, under every overlap and fault.
- `OwnJobHeld`, `TasksApart`, `PlansStayCurrent`: `Unwiped /\ Spec` implies
  `[]HoldsOwnJob`, `[]OneTaskPerApp` and `[]BaseIsCurrent`.
- `DomainsStayApart`: `Orderly /\ Spec => []DomainsApart`.

`Unwiped` leaves out the overlap "wipe" only, which breaks all three (`lcm_wipe`).
Requests for one application may overtake each other, and reads, writes, deletes
and tasks may fail: the properties except the very applications this has
misled, and the theorems say that nothing else gives an application two tasks, and
that the rest are safe from it. `Orderly` also leaves out the overlap "scan" and the
fault "read", each of which breaks `DomainsApart`. `LcmInv` says of each request for an
application that is not overtaken (`ProcInv`) where it can be (`PlaceInv`), that the
job entry is its own, or, past its questions, that there is none (`JobInv`), and that
what it has read of the configuration is still so (`BaseInv`). Two such requests
cannot both have the entry, since it says whose it is. `DomainInv` adds the domains of the accepted
requests to the stored ones, and what a request knows between the two reads of the
duplicate check.

`Mp1Proofs` is for any number of rules and clients:

- `Mp1TypeCorrect`: `Mp1Spec => []Mp1TypeOK`.
- `UpdatesAreAtomic`: `Mp1Spec => UpdateIsAtomic`.
- `TasksNormal`: `Mp1Spec => TasksNormalise`; none of the three needs a hypothesis.
- `UpdatesConsistent`: `Benign /\ Mp1Spec => []ConsistentWhenQuiet`.

`HeldInv` says that as long as nothing has overlapped one update is under way and
no task writes, and the stored configuration is the one that the update read, or
wrote. `AgreeInv` takes the invariant of AppDSync over: while a task writes, `TaskInv`
holds; when none does, the outside agrees with the configuration (`SettledNow`), and
each gives the other where a task begins and ends (`TaskInvSettled`,
`SettledTaskInv`). `TaskInv` is `IInv` but for the rules that are loose: that a task
finds stored without a state and has not touched yet, or has put back
(`LooseUnstated`). AppDSyncProofs proves its invariant with a set of rules that may be
so (`IInvBut`); there, `IInv` is `IInvBut({})`.
`NormInv` holds beside the updates too, as long as none overlaps with a task
(`NormHeld`), from which `TasksNormal` follows.
During an update the data plane has the old rule until the last call, and the DNS
server the new one from its call to the one that takes it back (`PlaceFits`). That
the second undo does no harm needs `Flipped`: the DNS server accepted the first call
only because the rule changed its state and no other active rule has its name, so
after the first undo it refuses another one (`DnsRefuses`).

`ServicesProofs` is for any finite sets of instances, requests, addresses and names
(`StoreAssumption`); nothing is excluded, since `astray` collects the exceptions:

- `ServicesTypeCorrect`, `LimitHolds`, `EntriesMatch`, `EndpointsReachable`:
  `Spec` implies `[]TypeOK`, `[]LimitNearlyHolds`, `[]GatewayMatches` and
  `[]DiscoveredReachable`.

`NameInv(n)` follows one gateway name: it is used by one instance, or made by one
request and used by no instance yet; its entry exists while somebody has it, and
is gone once a request is about to drop it. Every action is shown to keep this for
each name that it does not send astray. The limit is a count: the requests that
have passed the check and the stored instances.

`TerminationProofs` is for any finite sets of subscription ids and requests, and any
number of terminations, confirmations and polls:

- `TerminationTypeCorrect`, `SubscriptionsLimited`, `SubscribersTold`, `NothingIsLeft`:
  `Spec` implies `[]TypeOK`, `[]SubscriptionLimit`, `[]ToldWhenQuiet` and `[]NothingLeft`.
- `TimeIsGiven`: `Spec => GivesTime`.

`DueInv` says where the news that is due to a subscriber is: in the last waiting
event its filter covers, or on its way, or there. `WaitInv` says of a termination
that nothing has disturbed that it is the only one that waits, that its record is
as it wrote it until the application confirms, and that the subscriptions it found
only get fewer, by type, as the clean-up goes on.

Every invariant and every action property of the runs is thereby a theorem, under
the hypotheses given. Liveness
(`TaskEnds`, `LockReleased`, `RequestEnds`, `LocksEnd`, `BlockEnds`, `GetsUp`,
`LateIsSuspended`, `TerminationEnds`, `JobReleased`) is only model-checked: fairness
and ENABLED are out of the prover's reach. The hypotheses `Benign`, `Unwiped` and
`Orderly` are about constants; the configurations of `sync_safe`, `sync_live` and
`mp1_safe` satisfy the first, those of `lcm_safe` and `lcm_live` the second, that of
`lcm_safe` the third.

## Not modelled

- Parsing and validation of requests, JSON, TLS, logging, the wording of answers,
  percentages of progress: layout, without a state of its own.
- The arithmetic of key derivation, ciphers and signatures: a cipher text is the
  key and nonce it was made with, a signature is right or wrong.
- dns-server beyond what a task or an update sees of it: zones, record classes,
  concurrent management calls, resolving and forwarding. Resolving keeps no state:
  one read transaction, or at most three questions to the forwarder. mepserver
  always uses the default zone.
- The call of a termination to mepauth (`DeleteFromMepauth`), which is `DeleteConf`
  of Startup, is not composed with Termination: it follows the staging whatever
  the task does, and touches nothing that Termination keeps.
- mepserver stopping in the middle of an Mp1 request; the AppD task has it.
- The service center, etcd, the gateway, the database and the data plane are
  external and modelled as far as the code uses them.
- healthcheck, kong-plugin, the statistics of the gateway (`kong_http_log.go`), ready
  confirmations and read-only queries: they forward or format and keep nothing.
- The workspace's groups and policies, and the parameter bus: no plan relies on
  more than its steps running in order until the first error.

## Plan

What safety the runs check is proved, under hypotheses that some of the properties
need only in part. Worth asking next, first of TLC and then of the prover: which of
the faults that `Benign` excludes leave `ForeignUntouched` and
`FailureLeavesNothing` alone; whether the domains of the applications that are not
overtaken stay apart (`DomainsApart` gives up as soon as one is); and what an update
of a rule that overlaps with a task (`raced`) can at worst leave behind.
