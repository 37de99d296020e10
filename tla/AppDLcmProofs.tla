--------------------------- MODULE AppDLcmProofs ---------------------------
(***************************************************************************)
(* Proofs about AppDLcm, for any number of goroutines, applications,       *)
(* application names and domains.                                          *)
(***************************************************************************)
EXTENDS AppDLcm, TLAPS

Deleting == {"DELETE", "TERMINATE"}

\* What a request is made of: a body exactly if it does not delete, something
\* to delete once that has been read, and a job once the task has one.
FormInv ==
  \A p \in Procs : req[p] # NoReq =>
    /\ req[p].op \in Deleting <=> req[p].cfg = NoConfig
    /\ pc[p] = "put" /\ req[p].op \in Deleting => req[p].base # NoConfig
    /\ pc[p] \in {"apply", "write"} => req[p].work # NoJob

TypeInv == TypeOK /\ FormInv
----------------------------------------------------------------------------
\* Where a request can be before it has written its job entry (one that never
\* writes any is a termination), and afterwards.
BeforePut == {"created", "name", "ongoing", "staging", "base", "put",
              "wait", "wipe", "load", "release"}
AfterPut == {"scan", "scanJobs", "withdraw", "status"} \cup Task

PlaceInv(p) ==
  /\ req[p].locked => pc[p] \in AfterPut
  /\ ~req[p].locked => pc[p] \in BeforePut /\ req[p].work = NoJob
  /\ pc[p] = "name" => req[p].op = "POST"
  /\ pc[p] = "staging" => req[p].op = "TERMINATE"
  /\ pc[p] \in Task /\ ~req[p].locked => req[p].op = "TERMINATE"

\* The job entry is the one's that has written it; whoever is past the
\* question without having written one knows that there is none.
JobInv(p) ==
  /\ req[p].locked => /\ job[App(p)] = NewJob(p) /\ job[App(p)] # NoJob
                      /\ req[p].work \in {NoJob, NewJob(p)}
  /\ ~req[p].locked /\ pc[p] \notin Asking => job[App(p)] = NoJob
  /\ pc[p] \in {"apply", "write"} => req[p].work = NewJob(p)

\* What has been read of the configuration is still so.
BaseInv(p) ==
  /\ req[p].op = "POST" => req[p].base = NoConfig
  /\ req[p].op = "POST" /\ ~req[p].locked /\ pc[p] # "created" => config[App(p)] = NoConfig
  /\ pc[p] = "put" \/ (req[p].locked /\ pc[p] # "release") => config[App(p)] = req[p].base

\* Every request keeps to this, unless one for its application was overtaken.
ProcInv(p) ==
  req[p] # NoReq /\ App(p) \notin overtaken => PlaceInv(p) /\ JobInv(p) /\ BaseInv(p)

LcmInv == TypeInv /\ \A p \in Procs : ProcInv(p)

\* No clean-up of an unconfigured application meets the jobs of other ones.
Unwiped == "wipe" \notin Overlaps
----------------------------------------------------------------------------
\* Accepted requests, whose tasks may put their domains into force.
Accepted == Task \cup {"status"}

Holds(a) ==
  DomainsOf(config[a]) \cup
  UNION {DomainsOf(req[p].cfg) : p \in {q \in Procs : pc[q] \in Accepted /\ App(q) = a}}

\* The domains stored or accepted are apart; whoever is between the two reads
\* of the check still knows all the domains stored.
DomainInv ==
  overtaken = {} =>
    /\ \A a, b \in Apps : a # b => Holds(a) \cap Holds(b) = {}
    /\ \A p \in Procs : pc[p] = "scanJobs" =>
         req[p].seen = UNION {DomainsOf(config[b]) : b \in Apps \ {App(p)}}
----------------------------------------------------------------------------
(* Types.                                                                  *)

Pcs == Handler \cup Task \cup {"idle"}

\* A step of goroutine p: it goes to l with x as its request.
Moves(p, x, l) == req' = [req EXCEPT ![p] = x] /\ pc' = [pc EXCEPT ![p] = l]

\* What FormInv says of one request x at l.
Formed(x, l) ==
  IF l = "idle" THEN x = NoReq
  ELSE /\ x \in Requests
       /\ x.op \in Deleting <=> x.cfg = NoConfig
       /\ l = "put" /\ x.op \in Deleting => x.base # NoConfig
       /\ l \in {"apply", "write"} => x.work # NoJob

RecordsTyped ==
  /\ config \in [Apps -> Configs \cup {NoConfig}] /\ job \in [Apps -> Jobs \cup {NoJob}]
  /\ overtaken \subseteq Apps

LEMMA MovesTyped ==
  ASSUME TypeInv, RecordsTyped', NEW p \in Procs, NEW x, NEW l \in Pcs,
         Moves(p, x, l), Formed(x, l)
  PROVE  TypeInv'
<1>1. x \in Requests \cup {NoReq} /\ (l = "idle" <=> x = NoReq)
  BY LcmSentinels DEF Formed
<1>2. /\ req' \in [Procs -> Requests \cup {NoReq}] /\ pc' \in [Procs -> Pcs]
      /\ req'[p] = x /\ pc'[p] = l
      /\ \A q \in Procs \ {p} : req'[q] = req[q] /\ pc'[q] = pc[q]
  BY <1>1 DEF Moves, TypeInv, TypeOK, Pcs
<1>3. TypeOK'
  BY <1>1, <1>2 DEF TypeInv, TypeOK, RecordsTyped, Pcs
<1>4. FormInv'
  BY <1>1, <1>2 DEF TypeInv, FormInv, Formed
<1> QED
  BY <1>3, <1>4 DEF TypeInv

\* What is known of the goroutine that takes a step.
LEMMA Serving ==
  ASSUME TypeInv, NEW p \in Procs, pc[p] # "idle"
  PROVE  /\ req[p] # NoReq /\ req[p] \in Requests /\ App(p) \in Apps
         /\ Formed(req[p], pc[p])
         /\ config[App(p)] \in Configs \cup {NoConfig}
         /\ job[App(p)] \in Jobs \cup {NoJob}
BY DEF TypeInv, TypeOK, FormInv, Formed, App, Requests

LEMMA NewJobTyped ==
  ASSUME TypeInv, NEW p \in Procs, pc[p] = "put"
  PROVE  NewJob(p) \in Jobs
<1>1. req[p] \in Requests /\ Formed(req[p], "put")
  BY Serving
<1>2. CASE req[p].op \in Deleting
  BY <1>1, <1>2 DEF NewJob, Jobs, Requests, Formed, Deleting
<1>3. CASE req[p].op \notin Deleting
  BY <1>1, <1>3 DEF NewJob, Jobs, Requests, Formed, Deleting, Ops
<1> QED
  BY <1>2, <1>3

LEMMA ArriveTyped ==
  ASSUME TypeInv, NEW p \in Procs, Arrive(p), UNCHANGED overtaken
  PROVE  TypeInv'
<1>1. PICK a \in Apps, op \in Ops, c \in Configs \cup {NoConfig} :
        /\ op \in Deleting <=> c = NoConfig
        /\ Moves(p, [app |-> a, op |-> op, cfg |-> c, sub |-> FALSE, base |-> NoConfig,
                     seen |-> {}, locked |-> FALSE, work |-> NoJob], FirstCheck(op))
  BY DEF Arrive, Moves, Goto, Deleting
<1> DEFINE x == [app |-> a, op |-> op, cfg |-> c, sub |-> FALSE, base |-> NoConfig,
                 seen |-> {}, locked |-> FALSE, work |-> NoJob]
<1>2. x \in Requests
  BY DEF Requests
<1>3. FirstCheck(op) \in {"ongoing", "created"}
  BY DEF FirstCheck
<1>4. Formed(x, FirstCheck(op)) /\ FirstCheck(op) \in Pcs
  BY <1>1, <1>2, <1>3 DEF Formed, Pcs, Handler
<1>5. RecordsTyped'
  BY DEF Arrive, RecordsTyped, TypeInv, TypeOK
<1> QED
  BY <1>1, <1>4, <1>5, MovesTyped

LEMMA FinishTyped ==
  ASSUME TypeInv, RecordsTyped', NEW p \in Procs, Finish(p)
  PROVE  TypeInv'
<1>1. Moves(p, NoReq, "idle")
  BY DEF Finish, Goto, Moves
<1> QED
  BY <1>1, MovesTyped DEF Formed, Pcs

\* A step that changes the place only, to one that asks for nothing more.
LEMMA GotoTyped ==
  ASSUME TypeInv, RecordsTyped', NEW p \in Procs, pc[p] # "idle", NEW l \in Pcs \ {"idle"},
         Goto(p, l), UNCHANGED req, Formed(req[p], l)
  PROVE  TypeInv'
<1>1. Moves(p, req[p], l)
  BY DEF Goto, Moves, TypeInv, TypeOK
<1> QED
  BY <1>1, MovesTyped

LEMMA Busy ==
  ASSUME NEW p \in Procs, Serve(p)
  PROVE  pc[p] # "idle"
BY DEF Serve, At, CheckCreated, CheckAppName, CheckOngoing, StageTermination, ReadBase,
       PutJob, ScanConfigs, ScanJobs, Withdraw, WriteStatus, AwaitTermination, Wipe, Load,
       Apply, Abandon, WriteConfig, Release, Task

LEMMA ServeTyped ==
  ASSUME TypeInv, NEW p \in Procs, Serve(p), overtaken' \subseteq Apps
  PROVE  TypeInv'
<1> DEFINE r == req[p]
<1>1. /\ pc[p] # "idle" /\ r # NoReq /\ r \in Requests /\ App(p) \in Apps
      /\ Formed(r, pc[p])
      /\ config[App(p)] \in Configs \cup {NoConfig} /\ job[App(p)] \in Jobs \cup {NoJob}
  <2>1. pc[p] # "idle"
    BY Busy
  <2> QED
    BY <2>1, Serving
<1>2. TypeOK /\ RecordsTyped /\ overtaken' \subseteq Apps
  BY DEF TypeInv, TypeOK, RecordsTyped
<1>a. CASE CheckCreated(p)
  <2>1. RecordsTyped'
    BY <1>a, <1>2 DEF CheckCreated, RecordsTyped
  <2>2. CASE Finish(p)
    BY <2>1, <2>2, FinishTyped
  <2>3. CASE Goto(p, AfterCreated(r.op)) /\ UNCHANGED req
    BY <1>1, <2>1, <2>3, GotoTyped DEF AfterCreated, Pcs, Handler, Formed
  <2> QED
    BY <1>a, <2>2, <2>3 DEF CheckCreated
<1>b. CASE CheckAppName(p)
  <2>1. RecordsTyped'
    BY <1>b, <1>2 DEF CheckAppName, RecordsTyped
  <2>2. CASE Finish(p)
    BY <2>1, <2>2, FinishTyped
  <2>3. CASE Goto(p, "ongoing") /\ UNCHANGED req
    BY <1>1, <2>1, <2>3, GotoTyped DEF Pcs, Handler, Formed
  <2> QED
    BY <1>b, <2>2, <2>3 DEF CheckAppName
<1>c. CASE CheckOngoing(p)
  <2>1. RecordsTyped'
    BY <1>c, <1>2 DEF CheckOngoing, RecordsTyped
  <2>2. CASE Finish(p)
    BY <2>1, <2>2, FinishTyped
  <2>3. CASE Goto(p, AfterOngoing(r.op)) /\ UNCHANGED req
    <3>1. /\ AfterOngoing(r.op) \in {"staging", "put", "base"}
          /\ AfterOngoing(r.op) = "put" => r.op \notin Deleting
      BY <1>1 DEF AfterOngoing, Deleting
    <3> QED
      BY <1>1, <2>1, <2>3, <3>1, GotoTyped DEF Pcs, Handler, Formed
  <2> QED
    BY <1>c, <2>2, <2>3 DEF CheckOngoing
<1>d. CASE StageTermination(p)
  <2>1. RecordsTyped'
    BY <1>d, <1>2 DEF StageTermination, RecordsTyped
  <2>2. PICK sub \in BOOLEAN : req' = [req EXCEPT ![p].sub = sub]
    BY <1>d DEF StageTermination
  <2>3. PICK l \in {"base", "wait", "load"} : Goto(p, l)
    BY <1>d DEF StageTermination
  <2> DEFINE x == [r EXCEPT !.sub = sub]
  <2>4. x \in Requests /\ Formed(x, l) /\ Moves(p, x, l) /\ l \in Pcs
    BY <1>1, <1>d, <2>2, <2>3 DEF Requests, Formed, Moves, Goto, Pcs, Handler, Task, StageTermination, At
  <2> QED
    BY <2>1, <2>4, MovesTyped
<1>e. CASE ReadBase(p)
  <2>1. RecordsTyped'
    BY <1>e, <1>2 DEF ReadBase, RecordsTyped
  <2>2. CASE Finish(p)
    BY <2>1, <2>2, FinishTyped
  <2>3. CASE config[App(p)] # NoConfig /\ req' = [req EXCEPT ![p].base = config[App(p)]] /\ Goto(p, "put")
    <3> DEFINE x == [r EXCEPT !.base = config[App(p)]]
    <3>1. x \in Requests /\ Formed(x, "put") /\ Moves(p, x, "put") /\ "put" \in Pcs
      BY <1>1, <1>e, <2>3 DEF Requests, Formed, Moves, Goto, Pcs, Handler, ReadBase, At
    <3> QED
      BY <2>1, <3>1, MovesTyped
  <2> QED
    BY <1>e, <2>2, <2>3 DEF ReadBase
<1>f. CASE PutJob(p)
  <2>1. CASE /\ job' = [job EXCEPT ![App(p)] = NewJob(p)] /\ UNCHANGED config
             /\ req' = [req EXCEPT ![p].locked = TRUE]
             /\ \E l \in {"scan", "withdraw"} : Goto(p, l)
    <3>1. NewJob(p) \in Jobs
      BY <1>f, NewJobTyped DEF PutJob, At
    <3>2. RecordsTyped'
      BY <1>1, <1>2, <2>1, <3>1 DEF RecordsTyped
    <3> DEFINE x == [r EXCEPT !.locked = TRUE]
    <3>3. PICK l \in {"scan", "withdraw"} : Goto(p, l)
      BY <2>1
    <3>4. x \in Requests /\ Formed(x, l) /\ Moves(p, x, l) /\ l \in Pcs
      BY <1>1, <2>1, <3>3 DEF Requests, Formed, Moves, Goto, Pcs, Handler
    <3> QED
      BY <3>2, <3>4, MovesTyped
  <2>2. CASE Finish(p) /\ UNCHANGED <<job, config>>
    BY <1>2, <2>2, FinishTyped DEF RecordsTyped
  <2> QED
    BY <1>f, <2>1, <2>2 DEF PutJob
<1>g. CASE ScanConfigs(p)
  <2>1. RecordsTyped'
    BY <1>g, <1>2 DEF ScanConfigs, RecordsTyped
  <2>2. PICK s : /\ s \in {UNION {DomainsOf(config[b]) : b \in Apps \ {App(p)}}, {}}
                 /\ req' = [req EXCEPT ![p].seen = s]
    BY <1>g DEF ScanConfigs, Reads
  <2>3. \A b \in Apps : DomainsOf(config[b]) \subseteq Domains
    BY <1>2 DEF RecordsTyped, DomainsOf, Configs
  <2>4. s \in SUBSET Domains
    BY <2>2, <2>3
  <2> DEFINE x == [r EXCEPT !.seen = s]
  <2>5. x \in Requests /\ Formed(x, "scanJobs") /\ Moves(p, x, "scanJobs") /\ "scanJobs" \in Pcs
    BY <1>1, <1>g, <2>2, <2>4 DEF Requests, Formed, Moves, Goto, Pcs, Handler, ScanConfigs, At
  <2> QED
    BY <2>1, <2>5, MovesTyped
<1>h. CASE ScanJobs(p)
  <2>1. RecordsTyped'
    BY <1>h, <1>2 DEF ScanJobs, RecordsTyped
  <2>2. PICK l \in {"withdraw", "status"} : Goto(p, l)
    BY <1>h DEF ScanJobs
  <2> QED
    BY <1>1, <1>h, <2>1, <2>2, GotoTyped DEF ScanJobs, Pcs, Handler, Formed
<1>i. CASE Withdraw(p)
  BY <1>1, <1>2, <1>i, FinishTyped DEF Withdraw, RecordsTyped
<1>j. CASE WriteStatus(p)
  <2>1. RecordsTyped'
    BY <1>j, <1>2 DEF WriteStatus, RecordsTyped
  <2>2. PICK l \in {"wait", "load", "withdraw"} : Goto(p, l)
    BY <1>j DEF WriteStatus
  <2> QED
    BY <1>1, <1>j, <2>1, <2>2, GotoTyped DEF WriteStatus, Pcs, Handler, Task, Formed
<1>k. CASE AwaitTermination(p)
  <2>1. RecordsTyped'
    BY <1>k, <1>2 DEF AwaitTermination, RecordsTyped
  <2>2. PICK l \in {"wipe", "load"} : Goto(p, l)
    BY <1>k DEF AwaitTermination
  <2> QED
    BY <1>1, <1>k, <2>1, <2>2, GotoTyped DEF AwaitTermination, Pcs, Task, Formed
<1>l. CASE Wipe(p)
  BY <1>2, <1>l, FinishTyped DEF Wipe, RecordsTyped
<1>m. CASE Load(p)
  <2>1. RecordsTyped'
    BY <1>m, <1>2 DEF Load, RecordsTyped
  <2>2. CASE /\ job[App(p)] # NoJob
             /\ req' = [req EXCEPT ![p].work = job[App(p)]] /\ Goto(p, "apply")
    <3> DEFINE x == [r EXCEPT !.work = job[App(p)]]
    <3>1. x \in Requests /\ Formed(x, "apply") /\ Moves(p, x, "apply") /\ "apply" \in Pcs
      BY <1>1, <2>2 DEF Requests, Formed, Moves, Goto, Pcs, Task
    <3> QED
      BY <2>1, <3>1, MovesTyped
  <2>3. CASE Goto(p, "release") /\ UNCHANGED req
    BY <1>1, <2>1, <2>3, GotoTyped DEF Pcs, Task, Formed
  <2> QED
    BY <1>m, <2>2, <2>3 DEF Load
<1>n. CASE Apply(p)
  <2>1. RecordsTyped'
    BY <1>n, <1>2 DEF Apply, RecordsTyped
  <2>2. PICK l \in {"write", "release"} : Goto(p, l)
    BY <1>n DEF Apply
  <2> QED
    BY <1>1, <1>n, <2>1, <2>2, GotoTyped DEF Apply, At, Pcs, Task, Formed
<1>o. CASE Abandon(p)
  BY <1>2, <1>o, FinishTyped DEF Abandon, RecordsTyped
<1>p. CASE WriteConfig(p)
  <2>1. r.work \in Jobs
    BY <1>1, <1>p DEF WriteConfig, At, Formed, Requests
  <2>2. RecordsTyped'
    BY <1>1, <1>2, <1>p, <2>1 DEF WriteConfig, RecordsTyped, Jobs
  <2> QED
    BY <1>1, <1>p, <2>2, GotoTyped DEF WriteConfig, Pcs, Task, Formed
<1>q. CASE Release(p)
  BY <1>1, <1>2, <1>q, FinishTyped DEF Release, RecordsTyped
<1> QED
  BY <1>a, <1>b, <1>c, <1>d, <1>e, <1>f, <1>g, <1>h, <1>i, <1>j, <1>k, <1>l, <1>m, <1>n,
     <1>o, <1>p, <1>q DEF Serve

LEMMA TypeInitially == Init => TypeInv
BY LcmSentinels DEF Init, TypeInv, TypeOK, FormInv

----------------------------------------------------------------------------
(* What a step leaves alone, and types.                                    *)

\* A step of one goroutine changes no request but its own.
LEMMA OwnRequest ==
  ASSUME TypeInv, NEW p \in Procs, Arrive(p) \/ Serve(p), NEW q \in Procs \ {p}
  PROVE  req'[q] = req[q] /\ pc'[q] = pc[q]
<1>1. TypeOK
  BY DEF TypeInv
<1>2. CASE Arrive(p)
  BY <1>1, <1>2 DEF Arrive, Goto, TypeOK
<1>3. CASE Serve(p)
  <2> USE <1>1 DEF TypeOK, Goto, Finish
  <2>1. CASE CheckCreated(p) \/ CheckAppName(p) \/ CheckOngoing(p)
    BY <2>1 DEF CheckCreated, CheckAppName, CheckOngoing
  <2>2. CASE StageTermination(p) \/ ReadBase(p) \/ PutJob(p)
    BY <2>2 DEF StageTermination, ReadBase, PutJob
  <2>3. CASE ScanConfigs(p) \/ ScanJobs(p) \/ Withdraw(p) \/ WriteStatus(p)
    BY <2>3 DEF ScanConfigs, ScanJobs, Withdraw, WriteStatus
  <2>4. CASE AwaitTermination(p) \/ Wipe(p) \/ Load(p) \/ Apply(p)
    BY <2>4 DEF AwaitTermination, Wipe, Load, Apply
  <2>5. CASE Abandon(p) \/ WriteConfig(p) \/ Release(p)
    BY <2>5 DEF Abandon, WriteConfig, Release
  <2> QED
    BY <1>3, <2>1, <2>2, <2>3, <2>4, <2>5 DEF Serve
<1> QED
  BY <1>2, <1>3

\* A request stays with its application, and keeps its job entry to its end.
LEMMA SameApp ==
  ASSUME TypeInv, NEW p \in Procs, Serve(p), req'[p] # NoReq
  PROVE  /\ pc[p] # "idle" /\ req[p] # NoReq /\ req'[p].app = req[p].app
         /\ App(p)' = App(p)
<1>1. TypeOK
  BY DEF TypeInv
<1>2. req[p] # NoReq /\ pc[p] # "idle" /\ req'[p].app = req[p].app
  <2> USE <1>1 DEF TypeOK, Requests, Goto, Finish, At
  <2>1. CASE CheckCreated(p) \/ CheckAppName(p) \/ CheckOngoing(p) \/ ScanJobs(p) \/ Withdraw(p)
    BY <2>1 DEF CheckCreated, CheckAppName, CheckOngoing, ScanJobs, Withdraw
  <2>2. CASE StageTermination(p) \/ ReadBase(p) \/ PutJob(p) \/ ScanConfigs(p) \/ Load(p)
    <3>1. CASE StageTermination(p)
      BY <2>2, <3>1 DEF StageTermination
    <3>2. CASE ReadBase(p)
      BY <2>2, <3>2 DEF ReadBase
    <3>3. CASE PutJob(p)
      BY <2>2, <3>3 DEF PutJob
    <3>4. CASE ScanConfigs(p)
      BY <2>2, <3>4 DEF ScanConfigs
    <3>5. CASE Load(p)
      BY <2>2, <3>5 DEF Load
    <3> QED
      BY <2>2, <3>1, <3>2, <3>3, <3>4, <3>5
  <2>3. CASE AwaitTermination(p) \/ Wipe(p) \/ Apply(p) \/ WriteStatus(p)
    BY <2>3 DEF AwaitTermination, Wipe, Apply, WriteStatus
  <2>4. CASE Abandon(p) \/ WriteConfig(p) \/ Release(p)
    BY <2>4 DEF Abandon, WriteConfig, Release
  <2> QED
    BY <2>1, <2>2, <2>3, <2>4 DEF Serve
<1> QED
  BY <1>2 DEF App

\* Whoever becomes misled by a step works for an application that is marked.
LEMMA Marked ==
  ASSUME TypeInv, NEW p \in Procs, Step(p), NEW q \in Procs, ~Misled(q), Misled(q)',
         q = p => "read" \in Faults
  PROVE  App(q) \in overtaken'
BY DEF Step, Overtakes

LEMMA OvertakenTyped ==
  ASSUME TypeInv, NEW p \in Procs, Step(p)
  PROVE  overtaken' \subseteq Apps /\ overtaken \subseteq overtaken'
<1>1. Serve(p) /\ TypeOK
  BY DEF Step, TypeInv
<1>2. ASSUME NEW q \in Procs, Overtakes(p, q) PROVE App(q) \in Apps
  <2>1. req'[q] # NoReq
    BY <1>2 DEF Overtakes, Misled
  <2>2. req[q] # NoReq
    BY <1>1, <2>1, SameApp, OwnRequest
  <2> QED
    BY <1>1, <2>2 DEF TypeOK, App, Requests
<1> QED
  BY <1>1, <1>2 DEF Step, TypeOK

LEMMA TypeNext == TypeInv /\ [Next]_vars => TypeInv'
<1> SUFFICES ASSUME TypeInv, [Next]_vars PROVE TypeInv'
  OBVIOUS
<1>1. CASE UNCHANGED vars
  BY <1>1 DEF vars, TypeInv, TypeOK, FormInv
<1>2. ASSUME NEW p \in Procs, Arrive(p) /\ UNCHANGED overtaken PROVE TypeInv'
  BY <1>2, ArriveTyped
<1>3. ASSUME NEW p \in Procs, Step(p) PROVE TypeInv'
  BY <1>3, OvertakenTyped, ServeTyped DEF Step
<1> QED
  BY <1>1, <1>2, <1>3 DEF Next

\* Whatever overlaps and whatever fails, the records and the requests keep
\* their types (the handlers and tasks of Mm5).
THEOREM LcmTypeCorrect == Spec => []TypeOK
<1>1. TypeInv => TypeOK
  BY DEF TypeInv
<1> QED
  BY <1>1, TypeInitially, TypeNext, PTL DEF Spec

----------------------------------------------------------------------------
(* Requests for one application that are not overtaken.                    *)

\* Nobody changes the records of an application but who works for it; and the
\* clean-up finds nothing to delete.
LEMMA OthersRecords ==
  ASSUME Unwiped, TypeInv, NEW p \in Procs, Serve(p), NEW a \in Apps, a # App(p)
  PROVE  job'[a] = job[a] /\ config'[a] = config[a]
<1>1. TypeOK
  BY DEF TypeInv
<1>2. CASE UNCHANGED <<job, config>>
  BY <1>2
<1>3. CASE PutJob(p) \/ Withdraw(p) \/ Release(p) \/ WriteConfig(p)
  BY <1>1, <1>3 DEF PutJob, Withdraw, Release, WriteConfig, TypeOK
<1>4. CASE Wipe(p)
  <2>1. job[a] = NoJob
    BY <1>4 DEF Wipe, Unwiped
  <2> QED
    BY <1>1, <1>4, <2>1 DEF Wipe
<1> QED
  BY <1>2, <1>3, <1>4
     DEF Serve, CheckCreated, CheckAppName, CheckOngoing, StageTermination, ReadBase,
         ScanConfigs, ScanJobs, WriteStatus, AwaitTermination, Load, Apply, Abandon

\* A request that is asking changes no record, and only a task that has a job
\* changes the configuration.
LEMMA WhoWrites ==
  ASSUME TypeInv, NEW p \in Procs, Serve(p)
  PROVE  /\ pc[p] \in Asking => UNCHANGED <<job, config>>
         /\ pc[p] # "write" => UNCHANGED config
BY DEF Serve, CheckCreated, CheckAppName, CheckOngoing, StageTermination, ReadBase, PutJob,
       ScanConfigs, ScanJobs, Withdraw, WriteStatus, AwaitTermination, Wipe, Load, Apply,
       Abandon, WriteConfig, Release, At, Asking

\* Whoever keeps to the invariant has been told the truth.
LEMMA NotMisled ==
  ASSUME LcmInv, NEW p \in Procs, App(p) \notin overtaken
  PROVE  ~Misled(p)
BY DEF LcmInv, ProcInv, JobInv, BaseInv, Misled

LEMMA OthersKept ==
  ASSUME Unwiped, LcmInv, NEW p \in Procs, Step(p), NEW q \in Procs \ {p}
  PROVE  ProcInv(q)'
<1>1. TypeInv /\ TypeOK /\ Serve(p) /\ overtaken \subseteq overtaken'
  BY OvertakenTyped DEF LcmInv, TypeInv, Step
<1>2. req'[q] = req[q] /\ pc'[q] = pc[q]
  BY <1>1, OwnRequest
<1>3. App(q)' = App(q) /\ NewJob(q)' = NewJob(q)
  BY <1>2 DEF App, NewJob
<1> SUFFICES ASSUME req[q] # NoReq, App(q) \notin overtaken'
             PROVE  PlaceInv(q)' /\ JobInv(q)' /\ BaseInv(q)'
  BY <1>2, <1>3 DEF ProcInv
<1>4. PlaceInv(q) /\ JobInv(q) /\ BaseInv(q) /\ App(q) \in Apps
  BY <1>1 DEF LcmInv, ProcInv, TypeOK, App, Requests
<1>5. CASE job'[App(q)] = job[App(q)] /\ config'[App(q)] = config[App(q)]
  BY <1>2, <1>3, <1>4, <1>5 DEF PlaceInv, JobInv, BaseInv
<1>6. CASE App(p) # App(q)
  BY <1>1, <1>4, <1>5, <1>6, OthersRecords
<1>7. CASE App(p) = App(q)
  <2>1. pc[p] # "idle" /\ req[p] # NoReq
    BY <1>1, Busy DEF TypeOK
  <2>2. PlaceInv(p) /\ JobInv(p)
    BY <1>1, <1>7, <2>1 DEF LcmInv, ProcInv
  <2>3. CASE req[q].locked
    <3>1. job[App(p)] = NewJob(q) /\ job[App(p)] # NoJob
      BY <1>4, <1>7, <2>3 DEF JobInv
    <3>2. ~req[p].locked
      BY <2>2, <3>1 DEF JobInv, NewJob
    <3>3. pc[p] \in Asking
      BY <2>2, <3>1, <3>2 DEF JobInv
    <3> QED
      BY <1>1, <1>5, <3>3, WhoWrites
  <2>4. CASE ~req[q].locked
    <3>1. ~Misled(q)'
      BY <1>1, <1>3, NotMisled, Marked
    <3>2. /\ pc[q] \notin Asking => job'[App(q)] = NoJob
          /\ req[q].op = "POST" /\ pc[q] # "created" => config'[App(q)] = NoConfig
      BY <1>2, <1>3, <2>4, <3>1 DEF Misled
    <3>3. pc[q] = "put" => config'[App(q)] = req[q].base
      <4> SUFFICES ASSUME pc[q] = "put" PROVE UNCHANGED config
        BY <1>4 DEF BaseInv
      <4>1. job[App(p)] = NoJob
        BY <1>4, <1>7, <2>4 DEF JobInv, Asking
      <4>2. ~req[p].locked
        BY <2>2, <4>1 DEF JobInv
      <4>3. pc[p] # "write"
        BY <2>2, <4>2 DEF PlaceInv, BeforePut
      <4> QED
        BY <1>1, <4>3, WhoWrites
    <3> QED
      BY <1>2, <1>3, <1>4, <2>4, <3>2, <3>3 DEF PlaceInv, JobInv, BaseInv, BeforePut
  <2> QED
    BY <2>3, <2>4
<1> QED
  BY <1>6, <1>7

\* A new request starts without anything, and disturbs nobody.
LEMMA ArriveKeeps ==
  ASSUME LcmInv, NEW p \in Procs, Arrive(p), UNCHANGED overtaken, NEW q \in Procs
  PROVE  ProcInv(q)'
<1>1. PICK a \in Apps, op \in Ops, c \in Configs \cup {NoConfig} :
        /\ req' = [req EXCEPT ![p] = [app |-> a, op |-> op, cfg |-> c, sub |-> FALSE,
             base |-> NoConfig, seen |-> {}, locked |-> FALSE, work |-> NoJob]]
        /\ Goto(p, FirstCheck(op))
  BY DEF Arrive
<1>2. TypeOK /\ pc'[p] = FirstCheck(op)
  BY <1>1 DEF LcmInv, TypeInv, TypeOK, Goto
<1>3. req'[p] = [app |-> a, op |-> op, cfg |-> c, sub |-> FALSE,
             base |-> NoConfig, seen |-> {}, locked |-> FALSE, work |-> NoJob]
  BY <1>1, <1>2 DEF TypeOK
<1>4. ProcInv(p)'
  <2>1. PlaceInv(p)'
    BY <1>2, <1>3 DEF PlaceInv, FirstCheck, BeforePut, AfterPut, Task
  <2>2. JobInv(p)'
    BY <1>2, <1>3 DEF JobInv, FirstCheck, Asking
  <2>3. BaseInv(p)'
    BY <1>2, <1>3 DEF BaseInv, FirstCheck, Ops
  <2> QED
    BY <2>1, <2>2, <2>3 DEF ProcInv
<1>5. CASE q # p
  <2>1. req'[q] = req[q] /\ pc'[q] = pc[q] /\ UNCHANGED <<job, config, overtaken>>
    BY <1>5, OwnRequest DEF LcmInv, Arrive
  <2>2. App(q)' = App(q) /\ NewJob(q)' = NewJob(q)
    BY <2>1 DEF App, NewJob
  <2> QED
    BY <2>1, <2>2 DEF LcmInv, ProcInv, PlaceInv, JobInv, BaseInv
<1> QED
  BY <1>4, <1>5

LEMMA FinishKeeps ==
  ASSUME TypeOK, NEW p \in Procs, Finish(p)
  PROVE  ProcInv(p)'
BY DEF Finish, ProcInv, TypeOK

\* A step that leaves the request and the records alone.
LEMMA GotoKeeps ==
  ASSUME TypeOK, NEW p \in Procs, PlaceInv(p), JobInv(p), BaseInv(p), NEW l, Goto(p, l),
         UNCHANGED <<req, job, config>>,
         req[p].locked => l \in AfterPut,
         ~req[p].locked => l \in BeforePut,
         l = "name" => req[p].op = "POST",
         l = "staging" => req[p].op = "TERMINATE",
         l \in Task /\ ~req[p].locked => req[p].op = "TERMINATE",
         ~req[p].locked /\ l \notin Asking => job[App(p)] = NoJob,
         l \in {"apply", "write"} => req[p].work = NewJob(p),
         req[p].op = "POST" /\ ~req[p].locked /\ l # "created" => config[App(p)] = NoConfig,
         l = "put" \/ (req[p].locked /\ l # "release") => config[App(p)] = req[p].base
  PROVE  ProcInv(p)'
<1>1. pc'[p] = l /\ App(p)' = App(p) /\ NewJob(p)' = NewJob(p)
  BY DEF Goto, TypeOK, App, NewJob
<1>2. PlaceInv(p)'
  BY <1>1 DEF PlaceInv
<1>3. JobInv(p)'
  BY <1>1 DEF JobInv
<1>4. BaseInv(p)'
  BY <1>1 DEF BaseInv
<1> QED
  BY <1>2, <1>3, <1>4 DEF ProcInv

\* A request that could read its records goes on with what is true; one that
\* could not may be as lucky.
LEMMA ServeKeeps ==
  ASSUME LcmInv, NEW p \in Procs, Serve(p), App(p) \notin overtaken,
         "read" \in Faults => ~Misled(p)'
  PROVE  ProcInv(p)'
<1> DEFINE r == req[p]
<1>1. TypeOK /\ FormInv /\ ProcInv(p) /\ TypeInv
  BY DEF LcmInv, TypeInv
<1>2. /\ pc[p] # "idle" /\ r # NoReq /\ r \in Requests /\ App(p) \in Apps
  <2>1. pc[p] # "idle"
    BY Busy
  <2> QED
    BY <1>1, <2>1, Serving
<1>3. PlaceInv(p) /\ JobInv(p) /\ BaseInv(p)
  BY <1>1, <1>2 DEF ProcInv
<1>4. "read" \notin Faults => \A x, y : Reads(x, y) = {x}
  BY DEF Reads
<1> USE DEF At
<1>a. CASE CheckCreated(p)
  <2>1. CASE Finish(p)
    BY <1>1, <2>1, FinishKeeps
  <2>2. CASE Goto(p, AfterCreated(r.op)) /\ UNCHANGED req
    <3>1. AfterCreated(r.op) = IF r.op = "POST" THEN "name" ELSE "ongoing"
      BY DEF AfterCreated
    <3>2. ~r.locked /\ pc[p] = "created"
      BY <1>a, <1>3 DEF CheckCreated, PlaceInv, AfterPut, Task
    <3>3. UNCHANGED <<req, job, config>>
      BY <1>a, <2>2 DEF CheckCreated
    <3>4. pc'[p] = AfterCreated(r.op)
      BY <1>1, <2>2 DEF Goto, TypeOK
    <3>5. r.op = "POST" => config[App(p)] = NoConfig
      <4>1. CASE "read" \in Faults
        BY <1>2, <3>1, <3>2, <3>3, <3>4, <4>1 DEF Misled, App
      <4>2. CASE "read" \notin Faults
        <5>1. Reads(config[App(p)], NoConfig) = {config[App(p)]}
          BY <1>4, <4>2
        <5>2. req'[p] # NoReq
          BY <1>2, <3>3
        <5>3. ~Finish(p)
          BY <1>1, <5>2 DEF Finish, TypeOK
        <5> QED
          BY <1>a, <5>1, <5>3 DEF CheckCreated
      <4> QED
        BY <4>1, <4>2
    <3> QED
      BY <1>1, <1>2, <1>3, <2>2, <3>1, <3>2, <3>3, <3>5, GotoKeeps
         DEF BeforePut, Asking, Task, BaseInv
  <2> QED
    BY <1>a, <2>1, <2>2 DEF CheckCreated
<1>b. CASE CheckAppName(p)
  <2>1. CASE Finish(p)
    BY <1>1, <2>1, FinishKeeps
  <2>2. CASE Goto(p, "ongoing") /\ UNCHANGED req
    <3>1. ~r.locked /\ pc[p] = "name" /\ r.op = "POST"
      BY <1>b, <1>3 DEF CheckAppName, PlaceInv, AfterPut, Task
    <3>2. UNCHANGED <<req, job, config>>
      BY <1>b, <2>2 DEF CheckAppName
    <3> QED
      BY <1>1, <1>2, <1>3, <2>2, <3>1, <3>2, GotoKeeps DEF BeforePut, Asking, Task, BaseInv
  <2> QED
    BY <1>b, <2>1, <2>2 DEF CheckAppName
<1>c. CASE CheckOngoing(p)
  <2>1. CASE Finish(p)
    BY <1>1, <2>1, FinishKeeps
  <2>2. CASE Goto(p, AfterOngoing(r.op)) /\ UNCHANGED req
    <3>1. AfterOngoing(r.op) = IF r.op = "TERMINATE" THEN "staging"
                               ELSE IF r.op = "POST" THEN "put" ELSE "base"
      BY <1>2 DEF AfterOngoing, Requests, Ops
    <3>2. ~r.locked /\ pc[p] = "ongoing"
      BY <1>c, <1>3 DEF CheckOngoing, PlaceInv, AfterPut, Task
    <3>3. UNCHANGED <<req, job, config>>
      BY <1>c, <2>2 DEF CheckOngoing
    <3>4. r.op = "POST" => config[App(p)] = NoConfig /\ r.base = NoConfig
      BY <1>3, <3>2 DEF BaseInv
    <3>5. pc'[p] = AfterOngoing(r.op)
      BY <1>1, <2>2 DEF Goto, TypeOK
    <3>6. job[App(p)] = NoJob
      <4>1. CASE "read" \in Faults
        BY <1>2, <3>1, <3>2, <3>3, <3>5, <4>1 DEF Misled, App, Asking
      <4>2. CASE "read" \notin Faults
        <5>1. Reads(job[App(p)], NoJob) = {job[App(p)]}
          BY <1>4, <4>2
        <5>2. req'[p] # NoReq
          BY <1>2, <3>3
        <5>3. ~Finish(p)
          BY <1>1, <5>2 DEF Finish, TypeOK
        <5> QED
          BY <1>c, <5>1, <5>3 DEF CheckOngoing
      <4> QED
        BY <4>1, <4>2
    <3> QED
      BY <1>1, <1>2, <1>3, <2>2, <3>1, <3>2, <3>3, <3>4, <3>6, GotoKeeps
         DEF BeforePut, Asking, Task
  <2> QED
    BY <1>c, <2>1, <2>2 DEF CheckOngoing
<1>d. CASE StageTermination(p)
  <2>1. /\ pc[p] = "staging" /\ ~r.locked /\ r.op = "TERMINATE" /\ r.work = NoJob
        /\ job[App(p)] = NoJob
    BY <1>d, <1>3 DEF StageTermination, PlaceInv, JobInv, AfterPut, Task, Asking
  <2>2. PICK sub \in BOOLEAN : req' = [req EXCEPT ![p].sub = sub]
    BY <1>d DEF StageTermination
  <2>3. PICK l \in {"base", "wait", "load"} : Goto(p, l)
    BY <1>d DEF StageTermination
  <2>4. pc'[p] = l /\ req'[p] = [r EXCEPT !.sub = sub]
    BY <1>1, <2>2, <2>3 DEF TypeOK, Goto
  <2>5. /\ App(p)' = App(p) /\ ~req'[p].locked /\ req'[p].op = "TERMINATE"
        /\ req'[p].work = NoJob /\ UNCHANGED <<job, config>>
    BY <1>2, <1>d, <2>1, <2>4 DEF App, Requests, StageTermination
  <2> QED
    BY <2>1, <2>4, <2>5 DEF ProcInv, PlaceInv, JobInv, BaseInv, BeforePut, Task
<1>e. CASE ReadBase(p)
  <2>1. CASE Finish(p)
    BY <1>1, <2>1, FinishKeeps
  <2>2. CASE /\ config[App(p)] # NoConfig /\ Goto(p, "put")
             /\ req' = [req EXCEPT ![p].base = config[App(p)]]
    <3>1. /\ pc[p] = "base" /\ ~r.locked /\ r.work = NoJob /\ job[App(p)] = NoJob
          /\ r.op # "POST"
      BY <1>e, <1>3, <2>2 DEF ReadBase, PlaceInv, JobInv, BaseInv, AfterPut, Task, Asking
    <3>2. pc'[p] = "put" /\ req'[p] = [r EXCEPT !.base = config[App(p)]]
      BY <1>1, <2>2 DEF TypeOK, Goto
    <3>3. /\ App(p)' = App(p) /\ ~req'[p].locked /\ req'[p].op # "POST"
          /\ req'[p].work = NoJob /\ req'[p].base = config[App(p)] /\ UNCHANGED <<job, config>>
      BY <1>2, <1>e, <3>1, <3>2 DEF App, Requests, ReadBase
    <3> QED
      BY <3>1, <3>2, <3>3 DEF ProcInv, PlaceInv, JobInv, BaseInv, BeforePut, Task
  <2> QED
    BY <1>e, <2>1, <2>2 DEF ReadBase
<1>f. CASE PutJob(p)
  <2>1. CASE Finish(p)
    BY <1>1, <2>1, FinishKeeps
  <2>2. CASE /\ job' = [job EXCEPT ![App(p)] = NewJob(p)] /\ req' = [req EXCEPT ![p].locked = TRUE]
             /\ \E l \in {"scan", "withdraw"} : Goto(p, l)
    <3>1. pc[p] = "put" /\ ~r.locked /\ r.work = NoJob /\ config[App(p)] = r.base
          /\ NewJob(p) # NoJob
      BY <1>f, <1>1, <1>3, NewJobTyped, LcmSentinels
         DEF PutJob, PlaceInv, BaseInv, AfterPut, Task
    <3>2. PICK l \in {"scan", "withdraw"} : Goto(p, l)
      BY <2>2
    <3>3. pc'[p] = l /\ req'[p] = [r EXCEPT !.locked = TRUE] /\ job'[App(p)] = NewJob(p)
      BY <1>1, <1>2, <2>2, <3>2 DEF TypeOK, Goto
    <3>4. /\ App(p)' = App(p) /\ NewJob(p)' = NewJob(p) /\ req'[p].locked
          /\ req'[p].op = r.op /\ req'[p].base = r.base /\ req'[p].work = NoJob /\ UNCHANGED config
      BY <1>2, <1>f, <3>1, <3>3 DEF App, Requests, PutJob, NewJob
    <3> QED
      BY <1>3, <3>1, <3>3, <3>4 DEF ProcInv, PlaceInv, JobInv, BaseInv, AfterPut, Task
  <2> QED
    BY <1>f, <2>1, <2>2 DEF PutJob
<1>g. CASE ScanConfigs(p)
  <2>1. pc[p] = "scan" /\ r.locked
    BY <1>g, <1>3 DEF ScanConfigs, PlaceInv, BeforePut
  <2>2. PICK s : req' = [req EXCEPT ![p].seen = s]
    BY <1>g DEF ScanConfigs
  <2>3. pc'[p] = "scanJobs" /\ req'[p] = [r EXCEPT !.seen = s]
    BY <1>1, <1>g, <2>2 DEF ScanConfigs, TypeOK, Goto
  <2>4. /\ App(p)' = App(p) /\ NewJob(p)' = NewJob(p) /\ req'[p].locked
        /\ req'[p].op = r.op /\ req'[p].base = r.base /\ req'[p].work = r.work
        /\ UNCHANGED <<job, config>>
    BY <1>2, <1>g, <2>1, <2>3 DEF App, Requests, ScanConfigs, NewJob
  <2> QED
    BY <1>3, <2>1, <2>3, <2>4 DEF ProcInv, PlaceInv, JobInv, BaseInv, AfterPut, Task
<1>h. CASE ScanJobs(p)
  <2>1. pc[p] = "scanJobs" /\ r.locked /\ UNCHANGED <<req, job, config>>
    BY <1>h, <1>3 DEF ScanJobs, PlaceInv, BeforePut
  <2>2. PICK l \in {"withdraw", "status"} : Goto(p, l)
    BY <1>h DEF ScanJobs
  <2> QED
    BY <1>1, <1>2, <1>3, <2>1, <2>2, GotoKeeps DEF AfterPut, Asking, Task, BaseInv
<1>i. CASE Withdraw(p)
  BY <1>1, <1>i, FinishKeeps DEF Withdraw
<1>j. CASE WriteStatus(p)
  <2>1. pc[p] = "status" /\ r.locked /\ UNCHANGED <<req, job, config>>
    BY <1>j, <1>3 DEF WriteStatus, PlaceInv, BeforePut
  <2>2. PICK l \in {"wait", "load", "withdraw"} : Goto(p, l)
    BY <1>j DEF WriteStatus
  <2> QED
    BY <1>1, <1>2, <1>3, <2>1, <2>2, GotoKeeps DEF AfterPut, Asking, Task, BaseInv
<1>k. CASE AwaitTermination(p)
  <2>1. pc[p] = "wait" /\ UNCHANGED <<req, job, config>>
    BY <1>k DEF AwaitTermination
  <2>2. PICK l \in {"wipe", "load"} : Goto(p, l)
    BY <1>k DEF AwaitTermination
  <2>3. ~r.locked => r.op = "TERMINATE" /\ job[App(p)] = NoJob
    BY <1>3, <2>1 DEF PlaceInv, JobInv, Task, Asking
  <2>4. r.locked => config[App(p)] = r.base
    BY <1>3, <2>1 DEF BaseInv
  <2> QED
    BY <1>1, <1>2, <1>3, <2>1, <2>2, <2>3, <2>4, GotoKeeps DEF AfterPut, BeforePut, Asking, Task
<1>l. CASE Wipe(p)
  BY <1>1, <1>l, FinishKeeps DEF Wipe
<1>m. CASE Load(p)
  <2>1. pc[p] = "load" /\ UNCHANGED <<job, config>>
    BY <1>m DEF Load
  <2>2. ~r.locked => r.op = "TERMINATE" /\ job[App(p)] = NoJob
    BY <1>3, <2>1 DEF PlaceInv, JobInv, Task, Asking
  <2>3. CASE /\ job[App(p)] # NoJob
             /\ req' = [req EXCEPT ![p].work = job[App(p)]] /\ Goto(p, "apply")
    <3>1. pc'[p] = "apply" /\ req'[p] = [r EXCEPT !.work = job[App(p)]]
      BY <1>1, <2>3 DEF TypeOK, Goto
    <3>2. r.locked /\ job[App(p)] = NewJob(p)
      BY <1>3, <2>2, <2>3 DEF JobInv
    <3>3. /\ App(p)' = App(p) /\ NewJob(p)' = NewJob(p) /\ req'[p].locked
          /\ req'[p].op = r.op /\ req'[p].base = r.base /\ req'[p].work = NewJob(p)
      BY <1>2, <3>1, <3>2 DEF App, Requests, NewJob
    <3> QED
      BY <1>3, <2>1, <2>3, <3>1, <3>2, <3>3
         DEF ProcInv, PlaceInv, JobInv, BaseInv, AfterPut, Task
  <2>4. CASE Goto(p, "release") /\ UNCHANGED req
    BY <1>1, <1>2, <1>3, <2>1, <2>2, <2>4, GotoKeeps DEF AfterPut, BeforePut, Asking, Task
  <2> QED
    BY <1>m, <2>3, <2>4 DEF Load
<1>n. CASE Apply(p)
  <2>1. pc[p] = "apply" /\ r.locked /\ UNCHANGED <<req, job, config>>
    BY <1>n, <1>3 DEF Apply, PlaceInv, BeforePut
  <2>2. PICK l \in {"write", "release"} : Goto(p, l)
    BY <1>n DEF Apply
  <2>3. r.work = NewJob(p) /\ config[App(p)] = r.base
    BY <1>3, <2>1 DEF JobInv, BaseInv
  <2> QED
    BY <1>1, <1>2, <1>3, <2>1, <2>2, <2>3, GotoKeeps DEF AfterPut, Asking, Task
<1>o. CASE Abandon(p)
  BY <1>1, <1>o, FinishKeeps DEF Abandon
<1>p. CASE WriteConfig(p)
  <2>1. pc[p] = "write" /\ r.locked /\ UNCHANGED <<req, job>>
    BY <1>p, <1>3 DEF WriteConfig, PlaceInv, BeforePut
  <2>2. pc'[p] = "release" /\ App(p)' = App(p) /\ NewJob(p)' = NewJob(p)
    BY <1>1, <1>p, <2>1 DEF WriteConfig, TypeOK, Goto, App, NewJob
  <2> QED
    BY <1>2, <1>3, <2>1, <2>2 DEF ProcInv, PlaceInv, JobInv, BaseInv, AfterPut, Asking, Task
<1>q. CASE Release(p)
  BY <1>1, <1>q, FinishKeeps DEF Release
<1> QED
  BY <1>a, <1>b, <1>c, <1>d, <1>e, <1>f, <1>g, <1>h, <1>i, <1>j, <1>k, <1>l, <1>m, <1>n,
     <1>o, <1>p, <1>q DEF Serve

LEMMA LcmInvInitially == Init => LcmInv
BY TypeInitially DEF Init, LcmInv, ProcInv

LEMMA LcmInvNext ==
  ASSUME Unwiped, LcmInv, [Next]_vars
  PROVE  LcmInv'
<1>1. CASE UNCHANGED vars
  BY <1>1, TypeNext
     DEF vars, LcmInv, ProcInv, PlaceInv, JobInv, BaseInv, App, NewJob
<1>2. TypeInv'
  BY TypeNext DEF LcmInv
<1>3. ASSUME NEW p \in Procs, Arrive(p) /\ UNCHANGED overtaken PROVE LcmInv'
  BY <1>2, <1>3, ArriveKeeps DEF LcmInv
<1>4. ASSUME NEW p \in Procs, Step(p) PROVE LcmInv'
  <2>1. TypeInv /\ Serve(p) /\ overtaken \subseteq overtaken'
    BY <1>4, OvertakenTyped DEF LcmInv, Step
  <2>2. ProcInv(p)'
    <3> SUFFICES ASSUME req'[p] # NoReq, App(p)' \notin overtaken' PROVE ProcInv(p)'
      BY DEF ProcInv
    <3>1. App(p) \notin overtaken' /\ App(p) \notin overtaken
      BY <2>1, SameApp
    <3>2. "read" \in Faults => ~Misled(p)'
      BY <1>4, <2>1, <3>1, NotMisled, Marked
    <3> QED
      BY <2>1, <3>1, <3>2, ServeKeeps
  <2>3. \A q \in Procs : ProcInv(q)'
    BY <1>4, <2>2, OthersKept
  <2> QED
    BY <1>2, <2>3 DEF LcmInv
<1> QED
  BY <1>1, <1>3, <1>4 DEF Next

\* Whatever fails, and however requests for any applications interleave: the
\* job entry says what its request asked for, and the task reads no other one,
\* until a request for the same application is overtaken (addJobsToDb,
\* cleanProcessingCache).
THEOREM OwnJobHeld == Unwiped /\ Spec => []HoldsOwnJob
<1> SUFFICES ASSUME Unwiped PROVE Spec => []HoldsOwnJob
  OBVIOUS
<1>1. LcmInv /\ [Next]_vars => LcmInv'
  BY LcmInvNext
<1>2. LcmInv => HoldsOwnJob
  BY DEF LcmInv, ProcInv, JobInv, HoldsOwnJob, Locked
<1> QED
  BY LcmInvInitially, <1>1, <1>2, PTL DEF Spec

\* The check for an ongoing operation fails to keep two tasks of an application
\* apart in no other way than this: the request was overtaken between the check
\* and its own job entry, or could not read (IsAnyOngoingOperationExist).
THEOREM TasksApart == Unwiped /\ Spec => []OneTaskPerApp
<1> SUFFICES ASSUME Unwiped PROVE Spec => []OneTaskPerApp
  OBVIOUS
<1>1. LcmInv /\ [Next]_vars => LcmInv'
  BY LcmInvNext
<1>2. ASSUME LcmInv PROVE OneTaskPerApp
  <2> SUFFICES ASSUME NEW p \in Procs, NEW q \in Procs, Locked(p), Locked(q), App(p) = App(q),
                      App(p) \notin overtaken
               PROVE  p = q
    BY DEF OneTaskPerApp
  <2>1. job[App(p)] = NewJob(p) /\ job[App(q)] = NewJob(q)
    BY <1>2 DEF LcmInv, ProcInv, JobInv, Locked
  <2> QED
    BY <2>1 DEF NewJob
<1> QED
  BY LcmInvInitially, <1>1, <1>2, PTL DEF Spec

\* Nor is the configuration that a task was planned against replaced by
\* anything else until the task is over, but after such an overtaking
\* (StageNewTask, handleConfigDBWriteOnSuccess).
THEOREM PlansStayCurrent == Unwiped /\ Spec => []BaseIsCurrent
<1> SUFFICES ASSUME Unwiped PROVE Spec => []BaseIsCurrent
  OBVIOUS
<1>1. LcmInv /\ [Next]_vars => LcmInv'
  BY LcmInvNext
<1>2. LcmInv => BaseIsCurrent
  BY DEF LcmInv, ProcInv, BaseInv, BaseIsCurrent, Locked
<1> QED
  BY LcmInvInitially, <1>1, <1>2, PTL DEF Spec

----------------------------------------------------------------------------
(* Domains.                                                                *)

\* Nobody takes a step between the two reads of somebody else's check, none of
\* these reads fails, and no clean-up meets the jobs of other applications.
Orderly == "scan" \notin Overlaps /\ "read" \notin Faults /\ Unwiped

\* What application a holds is what is stored for it, and what its accepted
\* requests ask for.
LEMMA HoldsWhat ==
  ASSUME NEW a, NEW d
  PROVE  d \in Holds(a) <=>
           \/ d \in DomainsOf(config[a])
           \/ \E q \in Procs : pc[q] \in Accepted /\ App(q) = a /\ d \in DomainsOf(req[q].cfg)
BY DEF Holds

\* An accepted request that brings domains has a job entry that says so.
LEMMA AcceptedHasJob ==
  ASSUME LcmInv, overtaken = {}, NEW q \in Procs, pc[q] \in Accepted, DomainsOf(req[q].cfg) # {}
  PROVE  /\ App(q) \in Apps /\ job[App(q)] # NoJob
         /\ job[App(q)].cfg.domains = DomainsOf(req[q].cfg)
<1>1. req[q] # NoReq /\ req[q] \in Requests
  <2>1. TypeInv /\ pc[q] # "idle"
    BY DEF LcmInv, Accepted, Task
  <2> QED
    BY <2>1, Serving
<1>2. PlaceInv(q) /\ JobInv(q) /\ FormInv
  BY <1>1 DEF LcmInv, ProcInv, TypeInv
<1>3. req[q].cfg # NoConfig
  BY DEF DomainsOf
<1>4. req[q].op \notin Deleting
  BY <1>1, <1>2, <1>3 DEF FormInv
<1>5. req[q].locked
  BY <1>2, <1>4 DEF PlaceInv, Accepted, BeforePut, Deleting
<1> QED
  BY <1>1, <1>2, <1>3, <1>4, <1>5 DEF JobInv, NewJob, Deleting, DomainsOf, App, Requests

\* A step that is not the end of a check takes domains away, or stores what was
\* accepted; at the end of a check, the request's own are added.
LEMMA StepHolds ==
  ASSUME LcmInv, overtaken = {}, NEW p \in Procs, Arrive(p) \/ Serve(p),
         NEW a \in Apps, NEW d \in Holds(a)'
  PROVE  d \in Holds(a) \/ (ScanJobs(p) /\ pc'[p] = "status" /\ a = App(p)
                              /\ d \in DomainsOf(req[p].cfg) /\ UNCHANGED req)
<1>1. TypeInv /\ TypeOK /\ FormInv
  BY DEF LcmInv, TypeInv
<1>2. \A q \in Procs \ {p} : req'[q] = req[q] /\ pc'[q] = pc[q]
  BY <1>1, OwnRequest
<1>3. d \in DomainsOf(config'[a]) \/ \E q \in Procs :
        pc'[q] \in Accepted /\ req'[q].app = a /\ d \in DomainsOf(req'[q].cfg)
  BY DEF Holds, App, DomainsOf
<1>4. CASE d \in DomainsOf(config'[a])
  <2>1. CASE UNCHANGED config
    BY <1>4, <2>1, HoldsWhat
  <2>2. CASE WriteConfig(p) /\ a # App(p)
    BY <1>1, <1>4, <2>2, HoldsWhat DEF WriteConfig, TypeOK
  <2>3. CASE WriteConfig(p) /\ a = App(p)
    <3>1. pc[p] = "write" /\ req[p] # NoReq /\ req[p] \in Requests
      BY <1>1, <2>3 DEF WriteConfig, At, TypeOK
    <3>2. req[p].work = NewJob(p)
      BY <3>1 DEF LcmInv, ProcInv, JobInv
    <3>3. req[p].work.op # "DELETE" /\ d \in DomainsOf(req[p].work.cfg)
      BY <1>1, <1>4, <2>3 DEF WriteConfig, TypeOK, DomainsOf
    <3>4. d \in DomainsOf(req[p].cfg)
      BY <3>2, <3>3 DEF NewJob
    <3> QED
      BY <2>3, <3>1, <3>4, HoldsWhat DEF Accepted, Task
  <2> QED
    BY <2>1, <2>2, <2>3
       DEF Arrive, Serve, CheckCreated, CheckAppName, CheckOngoing, StageTermination, ReadBase,
           PutJob, ScanConfigs, ScanJobs, Withdraw, WriteStatus, AwaitTermination, Wipe, Load,
           Apply, Abandon, Release
<1>5. CASE \E q \in Procs \ {p} :
             pc'[q] \in Accepted /\ req'[q].app = a /\ d \in DomainsOf(req'[q].cfg)
  BY <1>2, <1>5, HoldsWhat DEF App
<1>6. CASE pc'[p] \in Accepted /\ req'[p].app = a /\ d \in DomainsOf(req'[p].cfg)
  <2> USE DEF Accepted, Task, At, Goto, Finish
  <2>1. ~Arrive(p)
    BY <1>1, <1>6 DEF Arrive, FirstCheck, TypeOK
  <2>2. CASE Finish(p)
    BY <1>1, <1>6, <2>2 DEF TypeOK
  <2>3. CASE pc[p] \in Accepted /\ (UNCHANGED req \/ Load(p))
    <3>1. req'[p].app = req[p].app /\ req'[p].cfg = req[p].cfg
      BY <1>1, <2>3 DEF Load, TypeOK, Requests
    <3> QED
      BY <1>6, <2>3, <3>1, HoldsWhat DEF App
  <2>4. CASE ScanJobs(p)
    BY <1>1, <1>6, <2>4 DEF ScanJobs, TypeOK, App
  <2>5. CASE StageTermination(p)
    <3>1. req[p] # NoReq /\ req[p] \in Requests
      BY <1>1, <2>5 DEF StageTermination, TypeOK
    <3>2. req[p].op = "TERMINATE"
      BY <2>5, <3>1 DEF StageTermination, LcmInv, ProcInv, PlaceInv
    <3>3. req[p].cfg = NoConfig
      BY <1>1, <3>1, <3>2 DEF FormInv, Deleting
    <3>4. req'[p].cfg = NoConfig
      BY <1>1, <2>5, <3>1, <3>3 DEF StageTermination, TypeOK, Requests
    <3> QED
      BY <1>6, <3>4 DEF DomainsOf
  <2>6. CASE \/ CheckCreated(p) \/ CheckAppName(p) \/ CheckOngoing(p)
             \/ ReadBase(p) \/ PutJob(p) \/ ScanConfigs(p)
    BY <1>1, <1>6, <2>2, <2>6
       DEF CheckCreated, CheckAppName, CheckOngoing, ReadBase, PutJob, ScanConfigs, TypeOK,
           AfterCreated, AfterOngoing
  <2>7. CASE \/ Withdraw(p) \/ WriteStatus(p) \/ AwaitTermination(p) \/ Wipe(p) \/ Load(p)
             \/ Apply(p) \/ Abandon(p) \/ WriteConfig(p) \/ Release(p)
    BY <2>2, <2>3, <2>7
       DEF Withdraw, WriteStatus, AwaitTermination, Wipe, Load, Apply, Abandon, WriteConfig, Release
  <2> QED
    BY <2>1, <2>4, <2>5, <2>6, <2>7 DEF Serve
<1> QED
  BY <1>3, <1>4, <1>5, <1>6

\* A request that passes the check brings no domain that anybody else holds.
LEMMA CheckSound ==
  ASSUME Orderly, LcmInv, DomainInv, overtaken = {}, NEW p \in Procs, ScanJobs(p), pc'[p] = "status",
         NEW b \in Apps, b # App(p), NEW d \in DomainsOf(req[p].cfg)
  PROVE  d \notin Holds(b)
<1> SUFFICES ASSUME d \in Holds(b) PROVE FALSE
  OBVIOUS
<1> DEFINE taken == UNION {job[c].cfg.domains : c \in {e \in Apps \ {App(p)} : job[e] # NoJob}}
<1>1. pc[p] = "scanJobs" /\ Creates(p) \cap (req[p].seen \cup taken) = {}
  <2>1. TypeOK
    BY DEF LcmInv, TypeInv
  <2>2. Reads(taken, {}) = {taken}
    BY DEF Reads, Orderly
  <2> QED
    BY <2>1, <2>2 DEF ScanJobs, At, Goto, TypeOK
<1>2. req[p] # NoReq /\ App(p) \in Apps /\ PlaceInv(p) /\ BaseInv(p)
  BY <1>1, Serving DEF LcmInv, ProcInv
<1>3. config[App(p)] = req[p].base
  BY <1>1, <1>2 DEF PlaceInv, BaseInv, BeforePut
<1>4. d \notin DomainsOf(req[p].base)
  BY <1>2, <1>3, HoldsWhat DEF DomainInv
<1>5. d \in Creates(p)
  BY <1>4 DEF Creates
<1>6. d \notin DomainsOf(config[b])
  BY <1>1, <1>5 DEF DomainInv
<1>7. PICK q \in Procs : pc[q] \in Accepted /\ App(q) = b /\ d \in DomainsOf(req[q].cfg)
  BY <1>6, HoldsWhat
<1>8. job[b] # NoJob /\ d \in job[b].cfg.domains
  BY <1>7, AcceptedHasJob
<1> QED
  BY <1>1, <1>5, <1>8

LEMMA SeenKept ==
  ASSUME Orderly, LcmInv, DomainInv, overtaken = {}, NEW p \in Procs, Arrive(p) \/ Serve(p),
         NEW q \in Procs, pc'[q] = "scanJobs"
  PROVE  req'[q].seen = UNION {DomainsOf(config'[b]) : b \in Apps \ {req'[q].app}}
<1>1. TypeInv /\ TypeOK
  BY DEF LcmInv, TypeInv
<1>2. CASE q # p
  <2>1. pc[q] = "scanJobs" /\ req[q] # NoReq
    BY <1>1, <1>2, OwnRequest DEF TypeOK
  <2>2. \E a : Turn(p, a)
    BY DEF Arrive, Serve, At, CheckCreated, CheckAppName, CheckOngoing, StageTermination,
           ReadBase, PutJob, ScanConfigs, ScanJobs, Withdraw, WriteStatus, AwaitTermination,
           Wipe, Load, Apply, Abandon, WriteConfig, Release
  <2> QED
    BY <1>2, <2>1, <2>2 DEF Turn, Orderly, DomainInv
<1>3. CASE q = p
  <2> USE DEF Goto, Finish, At
  <2>1. ~Arrive(p)
    BY <1>1, <1>3 DEF Arrive, FirstCheck, TypeOK
  <2>2. CASE ScanConfigs(p)
    <3>1. PICK s \in {UNION {DomainsOf(config[b]) : b \in Apps \ {App(p)}}} :
            req' = [req EXCEPT ![p].seen = s]
      BY <2>2 DEF ScanConfigs, Reads, Orderly
    <3>2. pc[p] = "scan" /\ req[p] # NoReq /\ req[p] \in Requests /\ UNCHANGED config
      BY <1>1, <2>2 DEF ScanConfigs, TypeOK
    <3>3. req'[p].seen = s /\ req'[p].app = App(p)
      BY <1>1, <3>1, <3>2 DEF TypeOK, Requests, App
    <3> QED
      BY <1>3, <3>1, <3>2, <3>3
  <2>3. ~(CheckCreated(p) \/ CheckAppName(p) \/ CheckOngoing(p) \/ StageTermination(p)
             \/ ReadBase(p) \/ PutJob(p) \/ ScanJobs(p) \/ Withdraw(p) \/ WriteStatus(p))
    BY <1>1, <1>3 DEF CheckCreated, CheckAppName, CheckOngoing, StageTermination, ReadBase,
         PutJob, ScanJobs, Withdraw, WriteStatus, TypeOK, AfterCreated, AfterOngoing, Ops
  <2>4. ~(AwaitTermination(p) \/ Wipe(p) \/ Load(p) \/ Apply(p)
             \/ Abandon(p) \/ WriteConfig(p) \/ Release(p))
    BY <1>1, <1>3 DEF AwaitTermination, Wipe, Load, Apply, Abandon, WriteConfig, Release, TypeOK
  <2> QED
    BY <2>1, <2>2, <2>3, <2>4 DEF Serve
<1> QED
  BY <1>2, <1>3

LEMMA DomainInitially == Init => DomainInv
BY DEF Init, DomainInv, Holds, DomainsOf, Accepted, Task

LEMMA DomainNext ==
  ASSUME Orderly, LcmInv, DomainInv, [Next]_vars
  PROVE  DomainInv'
<1> SUFFICES ASSUME overtaken' = {} PROVE DomainInv'
  BY DEF DomainInv
<1>1. CASE UNCHANGED vars
  BY <1>1 DEF vars, DomainInv, Holds, DomainsOf, App
<1>2. ASSUME NEW p \in Procs, Arrive(p) \/ Serve(p), overtaken = {} PROVE DomainInv'
  <2>1. ASSUME NEW a \in Apps, NEW b \in Apps, a # b, NEW d \in Holds(a)', d \in Holds(b)'
        PROVE  FALSE
    <3>1. CASE d \in Holds(a) /\ d \in Holds(b)
      BY <1>2, <2>1, <3>1 DEF DomainInv
    <3>2. CASE d \notin Holds(a)
      <4>1. ScanJobs(p) /\ pc'[p] = "status" /\ a = App(p) /\ d \in DomainsOf(req[p].cfg)
        BY <1>2, <3>2, StepHolds
      <4>2. d \in Holds(b)
        BY <1>2, <2>1, <4>1, StepHolds
      <4> QED
        BY <1>2, <2>1, <4>1, <4>2, CheckSound
    <3>3. CASE d \notin Holds(b)
      <4>1. ScanJobs(p) /\ pc'[p] = "status" /\ b = App(p) /\ d \in DomainsOf(req[p].cfg)
        BY <1>2, <2>1, <3>3, StepHolds
      <4>2. d \in Holds(a)
        BY <1>2, <2>1, <4>1, StepHolds
      <4> QED
        BY <1>2, <2>1, <4>1, <4>2, CheckSound
    <3> QED
      BY <3>1, <3>2, <3>3
  <2>2. \A a, b \in Apps : a # b => Holds(a)' \cap Holds(b)' = {}
    BY <2>1
  <2>3. \A q \in Procs : pc'[q] = "scanJobs" =>
          req'[q].seen = UNION {DomainsOf(config'[b]) : b \in Apps \ {req'[q].app}}
    BY <1>2, SeenKept
  <2> QED
    BY <2>2, <2>3 DEF DomainInv, App, DomainsOf
<1>3. ASSUME NEW p \in Procs, Step(p) PROVE overtaken = {}
  BY <1>3, OvertakenTyped DEF LcmInv
<1> QED
  BY <1>1, <1>2, <1>3 DEF Next, Step

\* When nobody takes a step between the two reads of another request's check
\* and these do not fail, no domain belongs to two applications, be it stored or
\* on its way to the data plane, as long as no request is overtaken
\* (isDNSDomainNameExists).
THEOREM DomainsStayApart == Orderly /\ Spec => []DomainsApart
<1> SUFFICES ASSUME Orderly PROVE Spec => []DomainsApart
  OBVIOUS
<1> DEFINE Inv == LcmInv /\ DomainInv
<1>1. Init => Inv
  BY LcmInvInitially, DomainInitially
<1>2. Inv /\ [Next]_vars => Inv'
  BY LcmInvNext, DomainNext DEF Orderly
<1>3. ASSUME Inv PROVE DomainsApart
  <2>1. \A a \in Apps : Claims(a) \subseteq Holds(a)
    BY DEF Claims, Holds, Accepted
  <2> QED
    BY <1>3, <2>1 DEF DomainInv, DomainsApart
<1> QED
  BY <1>1, <1>2, <1>3, PTL DEF Spec
=============================================================================
