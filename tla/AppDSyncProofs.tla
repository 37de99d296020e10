--------------------------- MODULE AppDSyncProofs ---------------------------
(***************************************************************************)
(* Proofs about AppDSync, for any number of rules, any sets of names and   *)
(* values and any DNS type.                                                *)
(***************************************************************************)
EXTENDS AppDSync, TLAPS

Running == {"apply", "record", "write", "clean", "revert", "unrecord", "fail"}
Working == Running \ {"clean"}

\* The lock is held exactly while a task is under way or has died.
LockInv ==
  /\ pc = "idle" <=> job = NoJob
  /\ pc = "staged" => status \in Statuses
  /\ pc \in Running => wJob \in Jobs /\ wStatus \in Statuses /\ wJob.op = job.op
  /\ pc \in Running => \A i \in Rules : wJob.cfg[i] \in {job.cfg[i], Norm(job.cfg[i])}
  /\ pc \notin Running => wJob = NoJob
  /\ pc \in {"record", "unrecord"} => pos \in Rules

\* A rule that is to be created or modified is in the job.
HasRule(m, j, i) == m \in {"create", "modify"} => j.cfg[i] # NoRule

HasRuleInv ==
  /\ pc = "staged" => \A i \in Rules : HasRule(status.method[i], job, i)
  /\ pc \in Running => \A i \in Rules : HasRule(wStatus.method[i], wJob, i)

TypeInv == TypeOK /\ LockInv /\ HasRuleInv
----------------------------------------------------------------------------
Old(i) == RuleIn(config, i)
Target(j, i) == IF j.op = "DELETE" THEN NoRule ELSE j.cfg[i]

\* What the staged job asks for rule i, compared with what is stored.
Plan(m, j, i) ==
  /\ m = "none" => Target(j, i) = Old(i)
  /\ m = "create" => /\ Old(i) = NoRule /\ j.op # "DELETE" /\ j.cfg[i] # NoRule
                     /\ i \in DnsRules => j.cfg[i].name \notin Foreign
  /\ m = "modify" => /\ Old(i) # NoRule /\ j.op # "DELETE" /\ j.cfg[i] # NoRule
                     /\ j.cfg[i].name = Old(i).name
                     /\ Active(j.cfg[i]) \/ Active(Old(i))
  /\ m = "delete" => /\ Old(i) # NoRule
                     /\ j.op = "DELETE" => j.cfg[i] # NoRule /\ j.cfg[i].name = Old(i).name
                     /\ j.op # "DELETE" => j.cfg[i] = NoRule

PlanInv ==
  /\ pc = "staged" => \A i \in Rules : Plan(status.method[i], job, i)
  /\ pc \in Working => \A i \in Rules : Plan(wStatus.method[i], wJob, i)
  /\ \A i \in DnsRules : Old(i) # NoRule => Old(i).name \notin Foreign

\* The place of rule i in the list.
Rank(i) == CHOOSE k \in Rules : wStatus.order[k] = i

\* How far the loops have got.
StateInv ==
  /\ pc = "staged" => \A i \in Rules : status.state[i] = 0
  /\ pc \in Working => \A i \in Rules : ~Listed(i) => wStatus.state[i] = 0
  /\ pc \in {"apply", "record"} =>
       \A i \in Rules : Listed(i) =>
         wStatus.state[i] = IF Rank(i) < pos THEN 2 ELSE IF Rank(i) = pos THEN lvl ELSE 0
  /\ pc \in {"apply", "record"} /\ lvl = 1 => pos \in Rules /\ Listed(Here)
  /\ pc \in {"record", "unrecord"} => Listed(Here)
  /\ pc = "write" => \A i \in Rules : Listed(i) => wStatus.state[i] = 2
  /\ pc = "unrecord" => lvl = 1 /\ snap = 2
  /\ pc = "revert" /\ lvl = 0 /\ pos \in Rules /\ ~Listed(Here) => snap = 0

\* How many of the two operations of rule i are in force now.
Level(i) ==
  CASE pc \in {"apply", "write"} -> wStatus.state[i]
    [] pc = "record" -> IF Rank(i) = pos THEN lvl + 1 ELSE wStatus.state[i]
    [] pc = "revert" -> IF Rank(i) < pos THEN 0
                        ELSE IF Rank(i) = pos /\ lvl = 0 THEN (IF snap > 0 THEN 1 ELSE 0)
                        ELSE wStatus.state[i]
    [] pc = "unrecord" -> IF Rank(i) < pos THEN 0 ELSE IF Rank(i) = pos THEN 1 ELSE wStatus.state[i]
    [] OTHER -> 0

Cur(l, i) == IF Level(i) > l THEN Target(wJob, i) ELSE Old(i)

\* A task that could not read the stored configuration has not got past a
\* rule that needs it.
LoadInv ==
  pc \in Working /\ wConfig # config =>
    /\ wConfig = NoConfig
    /\ \A i \in Rules : wStatus.method[i] \in {"modify", "delete"} =>
         Level(i) = 0 \/ (Level(i) = 1 /\ ~HasOperation(i, WaitMp2))

Alive == pc \notin {"stuck", "crashed"}

\* The rules among S that are stored without a state and that the task has not
\* reached: an update of Mp1Rules may have left them on the data plane or not.
\* For the tasks by themselves S is empty.
Loose(S) == {i \in S : /\ HasOperation(i, WaitMp2) /\ Level(i) = 0
                       /\ Old(i) # NoRule /\ Old(i).state = ""}

\* d is what the data plane has when c(i) is in force for every rule i but those
\* in L.
DpAgrees(d, c, L) ==
  \A i \in Rules \ L : d[i] = IF HasOperation(i, WaitMp2) /\ Active(c[i]) THEN Body(c[i]) ELSE NoRule

\* The same for the DNS server; no two rules in force share a name.
DnsAgrees(d, c) ==
  /\ \A i \in DnsRules : Active(c[i]) => d[c[i].name] = c[i].val
  /\ \A n \in Names \ Foreign : d[n] # NoAddr =>
       \E i \in DnsRules : Active(c[i]) /\ c[i].name = n
  /\ \A i, j \in DnsRules : i # j /\ Active(c[i]) /\ Active(c[j]) => c[i].name # c[j].name

DpInv(S) == Alive => DpAgrees(dp, [i \in Rules |-> Cur(0, i)], Loose(S))

DnsInv == Alive /\ DnsType # "dataplane" => DnsAgrees(dns, [i \in Rules |-> Cur(1, i)])

ForeignInv ==
  /\ ForeignRecords
  /\ DnsType = "dataplane" => \A n \in Names \ Foreign : dns[n] = NoAddr

IInvBut(S) ==
  TypeInv /\ PlanInv /\ StateInv /\ LoadInv /\ DpInv(S) /\ DnsInv /\ ForeignInv
IInv == IInvBut({})
----------------------------------------------------------------------------
(* Facts about rules, configurations and jobs.                             *)

\* A configuration has, at every position, no rule or one of its kind.
LEMMA RuleTyped ==
  ASSUME NEW c \in Configs \cup {NoConfig}, NEW i \in Rules
  PROVE  RuleIn(c, i) \in {NoRule} \cup RuleOf(i)
BY DEF Configs, RuleIn

LEMMA CfgTyped ==
  ASSUME NEW c \in Configs, NEW i \in Rules
  PROVE  c[i] \in {NoRule} \cup RuleOf(i)
BY DEF Configs

\* The fields of a rule.
LEMMA RuleFields ==
  ASSUME NEW i \in Rules, NEW r \in RuleOf(i)
  PROVE  /\ r # NoRule
         /\ r.val \in Vals
         /\ r.state \in {"", "ACTIVE", "INACTIVE"}
         /\ i \in DnsRules => r.name \in Names
         /\ r.name \in Names \cup {NoName}
         /\ Body(r) \in [name : Names \cup {NoName}, val : Vals]
BY SentinelAssumption DEF RuleOf, Body

\* Normalising a rule changes nothing but an empty state.
LEMMA NormFacts ==
  ASSUME NEW i \in Rules, NEW r \in {NoRule} \cup RuleOf(i)
  PROVE  /\ Norm(r) \in {NoRule} \cup RuleOf(i)
         /\ Norm(r) = NoRule <=> r = NoRule
         /\ Active(Norm(r)) <=> Active(r)
         /\ r # NoRule => Norm(r).name = r.name /\ Norm(r).val = r.val
         /\ Norm(Norm(r)) = Norm(r)
<1>1. CASE r = NoRule
  BY <1>1 DEF Norm, Active
<1>2. CASE r # NoRule /\ r.state # ""
  BY <1>2 DEF Norm, Active
<1>3. CASE r # NoRule /\ r.state = ""
  <2>1. Norm(r) \in RuleOf(i) /\ Norm(r).state = "ACTIVE" /\ Norm(r).name = r.name
          /\ Norm(r).val = r.val
    BY <1>3 DEF Norm, RuleOf
  <2>2. Norm(r) # NoRule
    BY <2>1, RuleFields
  <2> QED
    BY <1>3, <2>1, <2>2 DEF Norm, Active
<1> QED
  BY <1>1, <1>2, <1>3

\* ... and so does normalising one rule of a job.
LEMMA JobNorm ==
  ASSUME NEW j \in Jobs, NEW i \in Rules
  PROVE  LET k == [j EXCEPT !.cfg[i] = Norm(j.cfg[i])] IN
         /\ k \in Jobs
         /\ k.op = j.op
         /\ \A m \in Rules : k.cfg[m] = IF m = i THEN Norm(j.cfg[m]) ELSE j.cfg[m]
<1> DEFINE k == [j EXCEPT !.cfg[i] = Norm(j.cfg[i])]
<1>1. j.cfg \in Configs /\ j.cfg[i] \in {NoRule} \cup RuleOf(i)
  BY CfgTyped DEF Jobs
<1>2. Norm(j.cfg[i]) \in {NoRule} \cup RuleOf(i)
  BY <1>1, NormFacts
<1>3. [j.cfg EXCEPT ![i] = Norm(j.cfg[i])] \in Configs
  BY <1>1, <1>2 DEF Configs
<1>4. k = [j EXCEPT !.cfg = [j.cfg EXCEPT ![i] = Norm(j.cfg[i])]]
  OBVIOUS
<1> HIDE DEF Configs
<1>5. k \in Jobs /\ k.op = j.op /\ k.cfg = [j.cfg EXCEPT ![i] = Norm(j.cfg[i])]
  BY <1>3, <1>4 DEF Jobs
<1> QED
  BY <1>1, <1>5 DEF Configs

\* Recording a state of a rule keeps the type of the status.
LEMMA RecordedTyped ==
  ASSUME wStatus \in Statuses, NEW i \in Rules, NEW s \in 0 .. 2
  PROVE  /\ Recorded(i, s) \in Statuses
         /\ Recorded(i, s).method = wStatus.method
         /\ Recorded(i, s).order = wStatus.order
         /\ \A m \in Rules : Recorded(i, s).state[m] = IF m = i THEN s ELSE wStatus.state[m]
BY DEF Recorded, Statuses, WaitConfigDBWrite
----------------------------------------------------------------------------
(* Types.                                                                  *)

DpTyped == dp \in [Rules -> [name : Names \cup {NoName}, val : Vals] \cup {NoRule}]
DnsTyped == dns \in [Names -> Vals \cup {NoAddr, ForeignAddr}]
Calls == {"Add", "Set", "Delete", "None"}

LEMMA ConstFacts ==
  /\ WaitMp2 = 0 /\ WaitLocal = 1 /\ WaitConfigDBWrite = 2 /\ TaskProgressFailure = -1
  /\ Rules = 1 .. (NDns + NTrf) /\ Rules \subseteq Nat
  /\ DnsRules \subseteq Rules
  /\ NDns + NTrf \in Nat
BY SizeAssumption DEF WaitMp2, WaitLocal, WaitConfigDBWrite, TaskProgressFailure,
                      Rules, DnsRules

LEMMA CallTyped ==
  ASSUME NEW m \in {"create", "modify", "delete"}, NEW new, NEW old
  PROVE  /\ ApplyFn(m) \in {"add", "set", "del"} /\ CallFor(ApplyFn(m), new, old) \in Calls
         /\ RevertFn(m) \in {"add", "set", "del"} /\ CallFor(RevertFn(m), new, old) \in Calls
BY DEF ApplyFn, RevertFn, CallFor, Calls

\* Whatever a call does, the data plane and the DNS server keep their types.
LEMMA OutcomeTyped ==
  ASSUME DpTyped, DnsTyped, NEW i \in Rules, NEW l \in 0 .. 1, NEW call \in Calls,
         NEW r, call = "None" \/ r \in RuleOf(i), HasOperation(i, l),
         NEW ok, NEW fault, Outcome(i, l, call, r, ok, fault)
  PROVE  DpTyped' /\ DnsTyped'
<1>1. CASE UNCHANGED ext
  BY <1>1 DEF ext, DpTyped, DnsTyped
<1>2. CASE Send(i, l, call, r)
  <2>1. CASE l = WaitMp2
    <3>1. dns' = dns /\ DataPlane(i, call, r)
      BY <1>2, <2>1 DEF Send
    <3>2. CASE call = "None"
      BY <3>1, <3>2 DEF DataPlane, DpTyped, DnsTyped
    <3>3. CASE call # "None"
      <4>1. Body(r) \in [name : Names \cup {NoName}, val : Vals]
        BY <3>3, RuleFields
      <4> QED
        BY <3>1, <3>3, <4>1 DEF DataPlane, DpTyped, DnsTyped, Calls
    <3> QED
      BY <3>2, <3>3
  <2>2. CASE l # WaitMp2
    <3>1. dp' = dp /\ DnsServer(call, r)
      BY <1>2, <2>2 DEF Send
    <3>2. CASE call = "None"
      BY <3>1, <3>2 DEF DnsServer, DpTyped, DnsTyped
    <3>3. CASE call # "None"
      <4>1. i \in DnsRules
        BY <2>2 DEF HasOperation
      <4>2. r.name \in Names /\ r.val \in Vals
        BY <3>3, <4>1, RuleFields
      <4> QED
        BY <3>1, <3>3, <4>2 DEF DnsServer, DpTyped, DnsTyped, Calls
    <3> QED
      BY <3>2, <3>3
  <2> QED
    BY <2>1, <2>2
<1> QED
  BY <1>1, <1>2 DEF Outcome

\* The rule that a task sends while applying exists ...
LEMMA ApplyRuleTyped ==
  ASSUME TypeInv, pc \in Running, NEW i \in Rules, Listed(i),
         ~Panics(ApplyFn(wStatus.method[i]), ApplyOld(i))
  PROVE  /\ ApplyNew(i) \in RuleOf(i)
         /\ wStatus.method[i] \in {"create", "modify", "delete"}
<1>1. wJob \in Jobs /\ wStatus \in Statuses /\ wConfig \in Configs \cup {NoConfig}
  BY DEF TypeInv, TypeOK, LockInv
<1>2. wJob.cfg[i] \in {NoRule} \cup RuleOf(i) /\ RuleIn(wConfig, i) \in {NoRule} \cup RuleOf(i)
  BY <1>1, CfgTyped, RuleTyped DEF Jobs
<1>3. wStatus.method[i] \in {"create", "modify", "delete"}
  BY <1>1 DEF Statuses, Methods, Listed
<1>4. CASE wStatus.method[i] = "delete"
  BY <1>2, <1>4 DEF Panics, ApplyFn, ApplyOld, ApplyNew
<1>5. CASE wStatus.method[i] # "delete"
  BY <1>2, <1>3, <1>5 DEF TypeInv, HasRuleInv, HasRule, ApplyNew
<1> QED
  BY <1>3, <1>4, <1>5

\* ... and so does the one it sends while reverting, if it sends any.
LEMMA RevertRuleTyped ==
  ASSUME TypeInv, pc \in Running, NEW i \in Rules, Listed(i)
  PROVE  /\ \/ RevertNew(i) \in RuleOf(i)
            \/ CallFor(RevertFn(wStatus.method[i]), RevertNew(i), RevertOld(i)) = "None"
         /\ wStatus.method[i] \in {"create", "modify", "delete"}
<1>1. wJob \in Jobs /\ wStatus \in Statuses /\ wConfig \in Configs \cup {NoConfig}
  BY DEF TypeInv, TypeOK, LockInv
<1>2. wJob.cfg[i] \in {NoRule} \cup RuleOf(i) /\ RuleIn(wConfig, i) \in {NoRule} \cup RuleOf(i)
  BY <1>1, CfgTyped, RuleTyped DEF Jobs
<1>3. wStatus.method[i] \in {"create", "modify", "delete"}
  BY <1>1 DEF Statuses, Methods, Listed
<1>4. CASE wStatus.method[i] = "delete"
  BY <1>2, <1>4 DEF RevertFn, RevertNew, CallFor, Active
<1>5. CASE wStatus.method[i] # "delete"
  BY <1>2, <1>3, <1>5 DEF TypeInv, HasRuleInv, HasRule, RevertNew
<1> QED
  BY <1>3, <1>4, <1>5

LEMMA TypeInit == Init => TypeInv
<1> SUFFICES ASSUME Init PROVE TypeInv
  OBVIOUS
<1> USE ConstFacts DEF Init
<1>1. TypeOK
  BY SentinelAssumption DEF TypeOK
<1>2. LockInv /\ HasRuleInv
  BY DEF LockInv, HasRuleInv, Running
<1> QED
  BY <1>1, <1>2 DEF TypeInv

\* The status that is staged lists what the job asks for.
LEMMA NewStatusTyped ==
  ASSUME NEW op \in {"POST", "PUT", "DELETE"}, NEW in, NEW c, NEW f \in Orders
  PROVE  /\ NewStatus(op, in, c, f) \in Statuses
         /\ \A i \in Rules : NewStatus(op, in, c, f).method[i] = MethodOf(op, in, c, i)
         /\ \A i \in Rules : NewStatus(op, in, c, f).state[i] = 0
<1>1. \A i \in Rules : MethodOf(op, in, c, i) \in Methods
  BY DEF MethodOf, Methods
<1> QED
  BY <1>1, ConstFacts DEF NewStatus, Statuses

LEMMA StageTyped ==
  ASSUME TypeInv, NEW op \in {"POST", "PUT", "DELETE"}, NEW in, NEW f \in Orders,
         (op = "DELETE" /\ in = config) \/ (op # "DELETE" /\ in \in Configs),
         StageNewTask(op, in, f)
  PROVE  TypeInv'
<1>1. /\ job' = [op |-> op, cfg |-> IF op = "DELETE" THEN config ELSE in]
      /\ status' = NewStatus(op, in, config, f)
      /\ pc' = "staged" /\ job = NoJob
      /\ op = "POST" <=> config = NoConfig
      /\ UNCHANGED <<config, dp, dns, wJob, wConfig, wStatus, pos, lvl, snap>>
  BY DEF StageNewTask, ext, mem, loop
<1>2. job' \in Jobs /\ job' # NoJob
  BY <1>1, SentinelAssumption DEF TypeInv, TypeOK, Jobs
<1>3. status' \in Statuses
  BY <1>1, NewStatusTyped
<1>4. TypeOK'
  BY <1>1, <1>2, <1>3 DEF TypeInv, TypeOK
<1>5. LockInv'
  BY <1>1, <1>2, <1>3 DEF TypeInv, LockInv, Running
<1>6. HasRuleInv'
  <2>1. \A i \in Rules : MethodOf(op, in, config, i) \in {"create", "modify"} =>
          op # "DELETE" /\ in[i] # NoRule
    BY DEF MethodOf
  <2> QED
    BY <1>1, <2>1, NewStatusTyped DEF HasRuleInv, HasRule, Running
<1> QED
  BY <1>4, <1>5, <1>6 DEF TypeInv

\* The place of the loop and the rule that is there.
LEMMA HereFacts ==
  ASSUME TypeInv, pc \in Running
  PROVE  /\ \A i \in Rules : Rank(i) \in Rules /\ wStatus.order[Rank(i)] = i
         /\ pos \in Rules => /\ Here \in Rules /\ RuleState \in 0 .. 2
                             /\ \A i \in Rules : Rank(i) = pos <=> i = Here
<1>1. wStatus.order \in Orders
  BY DEF TypeInv, LockInv, Statuses
<1>2. \A i \in Rules : Rank(i) \in Rules /\ wStatus.order[Rank(i)] = i
  BY <1>1 DEF Orders, Rank
<1>3. pos \in Rules => /\ Here \in Rules
                       /\ \A i \in Rules : Rank(i) = pos <=> i = Here
  BY <1>1, <1>2 DEF Orders, Here
<1>4. pos \in Rules => RuleState \in 0 .. 2
  BY <1>3 DEF RuleState, TypeInv, TypeOK, LockInv, Statuses
<1> QED
  BY <1>2, <1>3, <1>4

LEMMA RankKept ==
  ASSUME wStatus'.order = wStatus.order
  PROVE  (\A i \in Rules : Rank(i)' = Rank(i)) /\ (pos' = pos => Here' = Here)
BY DEF Rank, Here

LEMMA TypeNext == TypeInv /\ [Next]_vars => TypeInv'
<1> SUFFICES ASSUME TypeInv, [Next]_vars PROVE TypeInv'
  OBVIOUS
<1> USE ConstFacts
<1>1. CASE Request
  <2>0. PICK f \in Orders :
          \/ \E in \in Inputs : StageNewTask("POST", in, f) \/ StageNewTask("PUT", in, f)
          \/ StageNewTask("DELETE", config, f)
    BY <1>1 DEF Request
  <2>1. CASE \E in \in Inputs : StageNewTask("POST", in, f) \/ StageNewTask("PUT", in, f)
    <3>1. PICK in \in Inputs : StageNewTask("POST", in, f) \/ StageNewTask("PUT", in, f)
      BY <2>1
    <3>2. in \in Configs
      BY DEF Inputs
    <3>3. CASE StageNewTask("POST", in, f)
      BY <3>2, <3>3, StageTyped
    <3>4. CASE StageNewTask("PUT", in, f)
      BY <3>2, <3>4, StageTyped
    <3> QED
      BY <3>1, <3>3, <3>4
  <2>2. CASE StageNewTask("DELETE", config, f)
    <3>1. PICK in : in = config
      OBVIOUS
    <3>2. StageNewTask("DELETE", in, f)
      BY <2>2, <3>1 DEF StageNewTask
    <3> QED
      BY <3>1, <3>2, StageTyped
  <2> QED
    BY <2>0, <2>1, <2>2
<1>2. CASE StartTask
  <2>1. job # NoJob /\ job \in Jobs /\ status \in Statuses
    BY <1>2 DEF StartTask, TypeInv, TypeOK, LockInv
  <2>2. TypeOK'
    BY <1>2, <2>1 DEF StartTask, TypeInv, TypeOK, dbs, ext
  <2>3. LockInv' /\ HasRuleInv'
    BY <1>2, <2>1 DEF StartTask, TypeInv, LockInv, HasRuleInv, HasRule, dbs, ext, Running
  <2> QED
    BY <2>2, <2>3 DEF TypeInv
<1>3. CASE StartFails
  <2>1. status' \in Statuses
    BY <1>3 DEF StartFails, TypeInv, LockInv, Statuses
  <2> QED
    BY <1>3, <2>1 DEF StartFails, TypeInv, TypeOK, LockInv, HasRuleInv, ext, mem, loop, Running
<1>4. CASE SkipUnlisted
  BY <1>4 DEF SkipUnlisted, AtApply, TypeInv, TypeOK, LockInv, HasRuleInv, HasRule,
              dbs, ext, mem, Running
<1>5. CASE ApplyCall
  <2> DEFINE call == CallFor(ApplyFn(wStatus.method[Here]), ApplyNew(Here), ApplyOld(Here))
  <2>1. /\ pc = "apply" /\ pos \in Rules /\ Listed(Here) /\ HasOperation(Here, lvl)
        /\ ~Panics(ApplyFn(wStatus.method[Here]), ApplyOld(Here))
        /\ wJob' = [wJob EXCEPT !.cfg[Here] = Norm(wJob.cfg[Here])]
        /\ UNCHANGED <<config, job, status, wConfig, wStatus>>
    BY <1>5 DEF ApplyCall, AtApply, dbs
  <2>h. Here \in Rules
    BY <2>1, HereFacts DEF Running
  <2>2. PICK ok \in BOOLEAN :
          /\ Outcome(Here, lvl, call, ApplyNew(Here), ok, "call")
          /\ IF ok THEN pc' = "record" /\ UNCHANGED loop ELSE BeginRevert
    BY <1>5 DEF ApplyCall
  <2>3. wJob \in Jobs /\ lvl \in 0 .. 1 /\ DpTyped /\ DnsTyped
    BY <2>1 DEF TypeInv, TypeOK, LockInv, DpTyped, DnsTyped, Running
  <2>4. /\ wJob' \in Jobs /\ wJob'.op = wJob.op
        /\ \A m \in Rules : wJob'.cfg[m] = IF m = Here THEN Norm(wJob.cfg[m]) ELSE wJob.cfg[m]
    BY <2>h, <2>1, <2>3, JobNorm
  <2>5. ApplyNew(Here) \in RuleOf(Here) /\ call \in Calls
    BY <2>h, <2>1, ApplyRuleTyped, CallTyped DEF Running
  <2>6. DpTyped' /\ DnsTyped'
    <3> HIDE DEF call
    <3> QED BY <2>h, <2>1, <2>2, <2>3, <2>5, OutcomeTyped
  <2>7. /\ pc' \in {"record", "revert"} /\ lvl' \in 0 .. 1 /\ snap' \in 0 .. 2
        /\ pos' \in 1 .. (NDns + NTrf + 1)
        /\ pc' = "record" => pos' = pos
    BY <2>1, <2>2 DEF BeginRevert, loop, TypeInv, TypeOK
  <2>8. TypeOK'
    <3> HIDE DEF call
    <3> QED BY <2>1, <2>4, <2>6, <2>7 DEF TypeInv, TypeOK, DpTyped, DnsTyped
  <2>9. \A m \in Rules : /\ wJob.cfg[m] \in {NoRule} \cup RuleOf(m)
                         /\ job.cfg[m] \in {NoRule} \cup RuleOf(m)
    BY <2>1, <2>3, CfgTyped DEF Jobs, TypeInv, TypeOK, LockInv, Running
  <2>10. \A m \in Rules : wJob.cfg[m] \in {job.cfg[m], Norm(job.cfg[m])}
                            => Norm(wJob.cfg[m]) \in {job.cfg[m], Norm(job.cfg[m])}
    BY <2>9, NormFacts
  <2>11. LockInv'
    <3> HIDE DEF call
    <3>1. pc' \in Running /\ pc' # "idle" /\ pc' # "staged" /\ pc' # "unrecord"
      BY <2>7 DEF Running
    <3>2. job' # NoJob /\ wJob'.op = job'.op /\ wStatus' \in Statuses
      BY <2>1, <2>4 DEF TypeInv, LockInv, Running
    <3>3. \A m \in Rules : wJob'.cfg[m] \in {job'.cfg[m], Norm(job'.cfg[m])}
      BY <2>1, <2>4, <2>10 DEF TypeInv, LockInv, Running
    <3>4. pc' = "record" => pos' \in Rules
      BY <2>1, <2>7
    <3> QED
      BY <2>4, <3>1, <3>2, <3>3, <3>4 DEF LockInv
  <2>12. HasRuleInv'
    BY <2>1, <2>4, <2>7, <2>9, NormFacts DEF TypeInv, HasRuleInv, HasRule, Running
  <2> QED
    BY <2>8, <2>11, <2>12 DEF TypeInv
<1>6. CASE ApplyNothing
  BY <1>6 DEF ApplyNothing, AtApply, TypeInv, TypeOK, LockInv, HasRuleInv, HasRule,
              dbs, ext, mem, loop, Running
<1>7. CASE ApplyPanic \/ RevertRecordFails \/ Crash
  BY <1>7 DEF ApplyPanic, AtApply, RevertRecordFails, Crash, Forget, TypeInv, TypeOK,
              LockInv, HasRuleInv, HasRule, dbs, ext, Running
<1>8. CASE ApplyRecord
  <2>1. wStatus \in Statuses /\ pos \in Rules /\ lvl + 1 \in 0 .. 2
    BY <1>8 DEF ApplyRecord, TypeInv, TypeOK, LockInv, Running
  <2>h. Here \in Rules
    BY <1>8, <2>1, HereFacts DEF ApplyRecord, Running
  <2>2. wStatus' \in Statuses /\ wStatus'.method = wStatus.method
    BY <2>h, <1>8, <2>1, RecordedTyped DEF ApplyRecord
  <2> QED
    BY <1>8, <2>1, <2>2 DEF ApplyRecord, TypeInv, TypeOK, LockInv, HasRuleInv, HasRule,
                            ext, Running
<1>9. CASE ApplyRecordFails
  BY <1>9 DEF ApplyRecordFails, BeginRevert, TypeInv, TypeOK, LockInv, HasRuleInv, HasRule,
              dbs, ext, mem, Running
<1>10. CASE ApplyDone \/ RevertDone
  BY <1>10 DEF ApplyDone, RevertDone, TypeInv, TypeOK, LockInv, HasRuleInv, HasRule,
              dbs, ext, mem, loop, Running
<1>11. CASE WriteConfig
  <2>1. config' \in Configs \cup {NoConfig}
    BY <1>11 DEF WriteConfig, TypeInv, TypeOK, LockInv, Jobs, Running
  <2> QED
    BY <1>11, <2>1 DEF WriteConfig, BeginRevert, TypeInv, TypeOK, LockInv, HasRuleInv, HasRule,
              ext, mem, loop, Running
<1>12. CASE Clean
  BY <1>12 DEF Clean, Forget, TypeInv, TypeOK, LockInv, HasRuleInv, ext, Running
<1>13. CASE SkipRevert
  <2>1. RuleState \in 0 .. 2
    BY <1>13, HereFacts DEF SkipRevert, AtRevert, Running
  <2> QED
    BY <1>13, <2>1 DEF SkipRevert, AtRevert, NextRevert, TypeInv, TypeOK, LockInv,
              HasRuleInv, HasRule, dbs, ext, mem, Running
<1>14. CASE RevertCall
  <2> DEFINE i == Here
             call == CallFor(RevertFn(wStatus.method[i]), RevertNew(i), RevertOld(i))
  <2>1. /\ pc = "revert" /\ pos \in Rules /\ Listed(i) /\ HasOperation(i, lvl)
        /\ UNCHANGED <<config, job, status>>
    BY <1>14 DEF RevertCall, AtRevert, dbs
  <2>h. i \in Rules /\ RuleState \in 0 .. 2
    BY <2>1, HereFacts DEF Running
  <2>2. PICK ok \in BOOLEAN :
          /\ Outcome(i, lvl, call, RevertNew(i), ok, "undo")
          /\ IF ok THEN AfterRevertCall /\ UNCHANGED mem ELSE pc' = "stuck" /\ Forget
    BY <1>14 DEF RevertCall
  <2>3. wStatus \in Statuses /\ lvl \in 0 .. 1 /\ DpTyped /\ DnsTyped
    BY <2>1 DEF TypeInv, TypeOK, LockInv, DpTyped, DnsTyped, Running
  <2>4. /\ call = "None" \/ RevertNew(i) \in RuleOf(i)
        /\ call \in Calls
    BY <2>h, <2>1, RevertRuleTyped, CallTyped DEF Running
  <2>5. DpTyped' /\ DnsTyped'
    <3> HIDE DEF i, call
    <3> QED BY <2>h, <2>1, <2>2, <2>3, <2>4, OutcomeTyped
  <2>6. CASE ok
    BY <2>h, <2>1, <2>2, <2>3, <2>5, <2>6 DEF AfterRevertCall, NextRevert, TypeInv, TypeOK,
       LockInv, HasRuleInv, HasRule, Statuses, mem, DpTyped, DnsTyped, Running
  <2>7. CASE ~ok
    BY <2>1, <2>2, <2>5, <2>7 DEF Forget, TypeInv, TypeOK, LockInv, HasRuleInv,
       DpTyped, DnsTyped, Running
  <2> QED
    BY <2>6, <2>7
<1>15. CASE RevertNothing
  <2>1. pc = "revert" /\ pos \in Rules /\ AfterRevertCall /\ UNCHANGED <<dbs, ext, mem>>
    BY <1>15 DEF RevertNothing, AtRevert
  <2>2. RuleState \in 0 .. 2
    BY <2>1, HereFacts DEF Running
  <2>3. /\ pc' \in {"revert", "unrecord"} /\ lvl' \in 0 .. 1 /\ snap' \in 0 .. 2
        /\ pos' \in 1 .. (NDns + NTrf + 1)
        /\ pc' = "unrecord" => pos' \in Rules
    BY <2>1, <2>2 DEF AfterRevertCall, NextRevert, TypeInv, TypeOK
  <2> QED
    BY <2>1, <2>3 DEF TypeInv, TypeOK, LockInv, HasRuleInv, HasRule, dbs, ext, mem, Running
<1>16. CASE RevertRecord
  <2>1. wStatus \in Statuses /\ pos \in Rules
    BY <1>16 DEF RevertRecord, TypeInv, TypeOK, LockInv, Running
  <2>h. Here \in Rules
    BY <1>16, <2>1, HereFacts DEF RevertRecord, Running
  <2>2. wStatus' \in Statuses /\ wStatus'.method = wStatus.method
    BY <2>h, <1>16, <2>1, RecordedTyped DEF RevertRecord
  <2> QED
    BY <1>16, <2>1, <2>2 DEF RevertRecord, TypeInv, TypeOK, LockInv, HasRuleInv, HasRule,
                            ext, Running
<1>17. CASE Fail
  <2>1. wStatus' \in Statuses /\ wStatus'.method = wStatus.method
    <3>1. wStatus \in Statuses /\ wStatus' = [wStatus EXCEPT !.progress = -1] /\ -1 \in Int
      BY <1>17 DEF Fail, TypeInv, LockInv, Running
    <3> QED
      BY <3>1 DEF Statuses
  <2> QED
    BY <1>17, <2>1 DEF Fail, TypeInv, TypeOK, LockInv, HasRuleInv, HasRule, ext, loop, Running
<1>18. CASE UNCHANGED vars
  BY <1>18 DEF vars, TypeInv, TypeOK, LockInv, HasRuleInv, HasRule, Running
<1> QED
  BY <1>1, <1>2, <1>3, <1>4, <1>5, <1>6, <1>7, <1>8, <1>9, <1>10, <1>11, <1>12, <1>13, <1>14,
     <1>15, <1>16, <1>17, <1>18 DEF Next, Task

\* Whatever fails and whatever is asked for, every variable keeps its type;
\* LockInv and HasRuleInv are the facts about the task's memory that the types
\* depend on (ProcessDataPlaneSync never sends a rule it does not have).
THEOREM TypeCorrect == Spec => []TypeOK
<1>1. TypeInv => TypeOK
  BY DEF TypeInv
<1> QED
  BY TypeInit, TypeNext, <1>1, PTL DEF Spec

\* Under every failure and every request, the job entry is there as long as a
\* task is under way, and it is the job the task carries out.
THEOREM LockHeld == Spec => []RunningIsLocked
<1>1. TypeInv => RunningIsLocked
  BY DEF TypeInv, TypeOK, LockInv, RunningIsLocked, Running
<1> QED
  BY TypeInit, TypeNext, <1>1, PTL DEF Spec
----------------------------------------------------------------------------
(* All or nothing.  The requests may hand names over, but neither rename a *)
(* rule nor modify an inactive one; calls, reverting calls, reads, the     *)
(* clean-up and the process may fail at any time, but a call that failed   *)
(* had no effect, and the task status (while applying) and the             *)
(* configuration can be written.  README.md says what happens otherwise.   *)

Benign == /\ Edits = {}
          /\ Faults \cap {"lost", "record", "config"} = {}

\* Normalising the job does not change what it asks for.
LEMMA PlanNorm ==
  ASSUME NEW m, NEW i \in Rules, NEW j, NEW k, Plan(m, j, i), k.op = j.op,
         j.cfg[i] \in {NoRule} \cup RuleOf(i),
         k.cfg[i] = j.cfg[i] \/ (m # "none" /\ k.cfg[i] = Norm(j.cfg[i]))
  PROVE  Plan(m, k, i)
<1>1. CASE k.cfg[i] = j.cfg[i]
  BY <1>1 DEF Plan, Target
<1>2. CASE m # "none" /\ k.cfg[i] = Norm(j.cfg[i])
  <2>1. /\ k.cfg[i] = NoRule <=> j.cfg[i] = NoRule
        /\ Active(k.cfg[i]) <=> Active(j.cfg[i])
        /\ j.cfg[i] # NoRule => k.cfg[i].name = j.cfg[i].name
    BY <1>2, NormFacts
  <2> QED
    BY <1>2, <2>1 DEF Plan
<1> QED
  BY <1>1, <1>2

\* A job that is staged is a plan.
LEMMA StagePlan ==
  ASSUME Benign, TypeInv, PlanInv, NEW op \in {"POST", "PUT", "DELETE"}, NEW in, NEW f \in Orders,
         (op = "DELETE" /\ in = config) \/ (op # "DELETE" /\ in \in Configs),
         StageNewTask(op, in, f)
  PROVE  PlanInv'
<1> USE ConstFacts
<1> DEFINE st == NewStatus(op, in, config, f)
<1>1. /\ job' = [op |-> op, cfg |-> IF op = "DELETE" THEN config ELSE in]
      /\ status' = st
      /\ pc' = "staged"
      /\ op = "POST" <=> config = NoConfig
      /\ op # "DELETE" => ~DuplicateName(in, st) /\ EditAllowed(in, st)
      /\ config' = config
  BY DEF StageNewTask
<1>2. \A i \in Rules : st.method[i] = MethodOf(op, in, config, i) /\ st.state[i] = 0
  BY NewStatusTyped
<1>3. \A i \in Rules : Old(i) \in {NoRule} \cup RuleOf(i)
  BY RuleTyped DEF Old, TypeInv, TypeOK
<1>4. op # "DELETE" => \A i \in Rules : in[i] \in {NoRule} \cup RuleOf(i)
  BY CfgTyped
<1>5. job'.op = op /\ job'.cfg = IF op = "DELETE" THEN config ELSE in
  BY <1>1
<1> HIDE DEF st
<1>6. \A i \in Rules : Old(i)' = Old(i)
  BY <1>1 DEF Old
<1>7. ASSUME NEW i \in Rules PROVE Plan(status.method[i], job, i)'
  <2> st.method[i] = status'.method[i]
    BY <1>1
  <2>1. CASE op = "DELETE"
    <3>1. config # NoConfig /\ job'.cfg[i] = Old(i)
      BY <1>1, <1>5, <2>1 DEF Old, RuleIn
    <3>2. st.method[i] = IF Old(i) = NoRule THEN "none" ELSE "delete"
      BY <1>2, <2>1 DEF MethodOf, Old
    <3> QED
      BY <1>5, <1>6, <2>1, <3>1, <3>2 DEF Plan, Target
  <2>2. CASE op = "POST"
    <3>1. Old(i) = NoRule /\ job'.cfg[i] = in[i]
      BY <1>1, <1>5, <2>2 DEF Old, RuleIn
    <3>2. st.method[i] = IF in[i] = NoRule THEN "none" ELSE "create"
      BY <1>2, <2>2 DEF MethodOf
    <3>3. st.method[i] = "create" /\ i \in DnsRules => in[i].name \notin Foreign
      BY <1>1, <2>2 DEF DuplicateName
    <3> QED
      BY <1>5, <1>6, <2>2, <3>1, <3>2, <3>3 DEF Plan, Target
  <2>3. CASE op = "PUT"
    <3>1. job'.cfg[i] = in[i]
      BY <1>5, <2>3
    <3>2. st.method[i] = IF in[i] = Old(i) THEN "none" ELSE IF in[i] = NoRule THEN "delete"
                         ELSE IF Old(i) = NoRule THEN "create" ELSE "modify"
      BY <1>2, <2>3 DEF MethodOf, Old
    <3>3. st.method[i] = "create" /\ i \in DnsRules => in[i].name \notin Foreign
      BY <1>1, <2>3 DEF DuplicateName
    <3>4. st.method[i] = "modify" => /\ i \in DnsRules => in[i].name = Old(i).name
                                     /\ Active(in[i]) \/ Active(Old(i))
      BY <1>1, <2>3 DEF EditAllowed, Benign, Old
    <3>5. st.method[i] = "modify" /\ i \notin DnsRules => in[i].name = Old(i).name
      BY <1>3, <1>4, <2>3, <3>2 DEF RuleOf
    <3> QED
      BY <1>5, <1>6, <2>3, <3>1, <3>2, <3>3, <3>4, <3>5 DEF Plan, Target
  <2> QED
    BY <2>1, <2>2, <2>3
<1> QED
  BY <1>1, <1>6, <1>7 DEF PlanInv, Working, Running

\* A step that keeps the job, the configuration and the list keeps the plan.
LEMMA PlanKept ==
  ASSUME PlanInv, TypeInv, pc \in Working, config' = config, wStatus'.method = wStatus.method,
         wJob'.op = wJob.op, pc' # "staged",
         \A i \in Rules : \/ wJob'.cfg[i] = wJob.cfg[i]
                          \/ Listed(i) /\ wJob'.cfg[i] = Norm(wJob.cfg[i])
  PROVE  PlanInv'
<1>1. \A i \in Rules : wJob.cfg[i] \in {NoRule} \cup RuleOf(i)
  BY CfgTyped DEF TypeInv, LockInv, Working, Running, Jobs
<1>2. \A i \in Rules : Old(i)' = Old(i)
  BY DEF Old
<1>3. ASSUME NEW i \in Rules PROVE Plan(wStatus.method[i], wJob, i)'
  <2>1. Plan(wStatus.method[i], wJob, i)
    BY DEF PlanInv
  <2>2. PICK j, k, m : j = wJob /\ k = wJob' /\ m = wStatus.method[i]
    OBVIOUS
  <2>3. Plan(m, k, i)
    BY <1>1, <2>1, <2>2, PlanNorm DEF Listed
  <2> QED
    BY <1>2, <2>2, <2>3 DEF Plan, Target
<1> QED
  BY <1>2, <1>3, ConstFacts DEF PlanInv

\* Every request stages a task.
LEMMA RequestStages ==
  Request => \E op \in {"POST", "PUT", "DELETE"} : \E in : \E f \in Orders : StageNewTask(op, in, f)
<1> SUFFICES ASSUME Request
             PROVE  \E op \in {"POST", "PUT", "DELETE"} : \E in : \E f \in Orders : StageNewTask(op, in, f)
  OBVIOUS
<1>1. PICK f \in Orders :
        \/ \E in \in Inputs : StageNewTask("POST", in, f) \/ StageNewTask("PUT", in, f)
        \/ StageNewTask("DELETE", config, f)
  BY DEF Request
<1>2. \E op \in {"POST", "PUT", "DELETE"} : \E in : StageNewTask(op, in, f)
  BY <1>1
<1> QED
  BY <1>2

\* Whatever fails, the loops keep to the states that StateInv describes.
LEMMA StateNext ==
  ASSUME TypeInv, TypeInv', StateInv, Next
  PROVE  StateInv'
<1> USE ConstFacts
<1>t. /\ lvl \in 0 .. 1 /\ snap \in 0 .. 2 /\ pos \in 1 .. (NDns + NTrf + 1)
      /\ pc \in Running => wStatus \in Statuses
      /\ pc \in Running => \A i \in Rules : wStatus.state[i] \in 0 .. 2
  BY DEF TypeInv, TypeOK, LockInv, Statuses
<1>h. pc \in Running => \A i \in Rules : Rank(i) \in Rules
  BY HereFacts
<1>k. pc \in Running /\ pos \in Rules =>
        Here \in Rules /\ (\A i \in Rules : Rank(i) = pos <=> i = Here)
  BY HereFacts
<1>r. wStatus'.order = wStatus.order =>
        (\A i \in Rules : Rank(i)' = Rank(i)) /\ (pos' = pos => Here' = Here)
  BY RankKept
<1>1. CASE Request
  <2>1. PICK op \in {"POST", "PUT", "DELETE"} : \E in : \E f \in Orders : StageNewTask(op, in, f)
    BY <1>1, RequestStages
  <2>2. PICK in : \E f \in Orders : StageNewTask(op, in, f)
    BY <2>1
  <2>3. PICK f \in Orders : StageNewTask(op, in, f)
    BY <2>2
  <2>4. pc' = "staged" /\ status' = NewStatus(op, in, config, f)
    BY <2>3 DEF StageNewTask
  <2>5. \A i \in Rules : status'.state[i] = 0
    BY <2>4, NewStatusTyped
  <2> QED
    BY <2>4, <2>5 DEF StateInv, Working, Running
<1>2. CASE StartTask
  <2>1. \A i \in Rules : Rank(i)' \in Rules
    BY <1>2 DEF StartTask, TypeInv, LockInv, Statuses, Orders, Rank
  <2> QED
    BY <1>2, <2>1 DEF StartTask, StateInv, Listed, dbs, ext, Working, Running
<1>3. CASE StartFails
  BY <1>3 DEF StartFails, StateInv, ext, mem, loop, Working, Running
<1>4. CASE SkipUnlisted
  <2>1. /\ pc = "apply" /\ pc' = "apply" /\ pos \in Rules /\ ~Listed(Here) /\ pos' = pos + 1
        /\ UNCHANGED <<config, wJob, wStatus, lvl, snap>>
    BY <1>4 DEF SkipUnlisted, AtApply, dbs, mem
  <2>2. \A i \in Rules : Rank(i)' = Rank(i) /\ Rank(i) \in Rules /\ (Rank(i) = pos <=> i = Here)
    BY <2>1, <1>h, <1>k, <1>r DEF Running
  <2>4. lvl = 0
    BY <1>t, <2>1 DEF StateInv
  <2>5. StateInv'
    BY <2>1, <2>2, <2>4 DEF StateInv, Listed, Working, Running
  <2> QED
    BY <2>5
<1>5. CASE ApplyCall
  <2>1. /\ pc = "apply" /\ pos \in Rules /\ Listed(Here) /\ pc' \in {"record", "revert"}
        /\ wJob' = [wJob EXCEPT !.cfg[Here] = Norm(wJob.cfg[Here])]
        /\ UNCHANGED <<config, wConfig, wStatus>>
        /\ pc' = "record" => UNCHANGED <<pos, lvl, snap>>
        /\ pc' = "revert" => pos' = 1 /\ lvl' = 1
    BY <1>5 DEF ApplyCall, AtApply, dbs, loop, BeginRevert
  <2>2. /\ wJob'.op = wJob.op
        /\ \A m \in Rules : wJob'.cfg[m] = IF m = Here THEN Norm(wJob.cfg[m]) ELSE wJob.cfg[m]
    <3>1. Here \in Rules /\ wJob \in Jobs
      BY <2>1, <1>k DEF TypeInv, LockInv, Running
    <3> QED
      BY <2>1, <3>1, JobNorm
  <2>4. StateInv'
    BY <2>1, <1>t, <1>h, <1>k, <1>r DEF StateInv, Listed, Working, Running
  <2> QED
    BY <2>4
<1>6. CASE ApplyNothing
  BY <1>6, <1>t, <1>h, <1>k, <1>r DEF ApplyNothing, AtApply, StateInv, Listed, dbs, ext, mem, loop,
                              Working, Running
<1>7. CASE ApplyPanic \/ RevertRecordFails \/ Crash
  BY <1>7 DEF ApplyPanic, RevertRecordFails, Crash, StateInv, dbs, Working, Running
<1>8. CASE ApplyRecord
  <2>1. /\ pc = "record" /\ pos \in Rules /\ Listed(Here) /\ pc' = "apply"
        /\ config' = config /\ wJob' = wJob /\ lvl + 1 \in 0 .. 2
        /\ wStatus' = Recorded(Here, lvl + 1)
        /\ lvl = 0 => lvl' = 1 /\ pos' = pos
        /\ lvl = 1 => lvl' = 0 /\ pos' = pos + 1
    BY <1>8, <1>t DEF ApplyRecord, TypeInv, LockInv, StateInv, Running
  <2>h. Here \in Rules /\ wStatus \in Statuses
    BY <1>h, <1>k, <1>t, <2>1 DEF Running
  <2>2. /\ wStatus'.method = wStatus.method /\ wStatus'.order = wStatus.order
        /\ \A m \in Rules : wStatus'.state[m] = IF m = Here THEN lvl + 1 ELSE wStatus.state[m]
    BY <2>1, <2>h, RecordedTyped
  <2>4. \A i \in Rules : Rank(i)' = Rank(i) /\ Rank(i) \in Rules /\ (Rank(i) = pos <=> i = Here)
    BY <2>1, <2>2, <1>h, <1>k, <1>r DEF Running
  <2>5. pos' = pos => Here' = Here
    BY <2>2, <1>r
  <2>6. StateInv'
    <3>1. ASSUME NEW i \in Rules, Listed(i)'
          PROVE  wStatus'.state[i] = IF Rank(i)' < pos' THEN 2 ELSE IF Rank(i)' = pos' THEN lvl' ELSE 0
      <4>1. wStatus.state[i] = IF Rank(i) < pos THEN 2 ELSE IF Rank(i) = pos THEN lvl ELSE 0
        BY <2>1, <2>2, <3>1 DEF StateInv, Listed
      <4>2. CASE lvl = 0
        <5>1. /\ pos' = pos /\ lvl' = 1 /\ Rank(i)' = Rank(i)
              /\ wStatus'.state[i] = IF Rank(i) = pos THEN 1 ELSE wStatus.state[i]
          BY <2>1, <2>2, <2>4, <4>2
        <5>2. CASE Rank(i) < pos
          BY <2>4, <4>1, <5>1, <5>2
        <5>3. CASE Rank(i) = pos
          BY <2>1, <5>1, <5>3
        <5>4. CASE ~(Rank(i) < pos) /\ Rank(i) # pos
          BY <4>1, <5>1, <5>4
        <5> QED
          BY <5>2, <5>3, <5>4
      <4>3. CASE lvl = 1
        BY <2>1, <2>2, <2>4, <4>1, <4>3
      <4> QED
        BY <1>t, <4>2, <4>3
    <3>2. lvl' = 1 => pos' \in Rules /\ Listed(Here)'
      BY <1>t, <2>1, <2>2, <2>5 DEF Listed
    <3>3. \A i \in Rules : ~Listed(i)' => wStatus'.state[i] = 0
      BY <2>1, <2>2 DEF StateInv, Listed, Working, Running
    <3> QED
      BY <2>1, <3>1, <3>2, <3>3 DEF StateInv
  <2> QED
    BY <2>6
<1>9. CASE ApplyRecordFails
  BY <1>9, <1>t DEF ApplyRecordFails, BeginRevert, StateInv, Listed, dbs, ext, mem, Working,
                          Running
<1>10. CASE ApplyDone \/ RevertDone
  <2>1. /\ (pc = "apply" /\ pc' = "write") \/ (pc = "revert" /\ pc' = "fail")
        /\ pos = NDns + NTrf + 1 /\ UNCHANGED <<config, wJob, wStatus>>
    BY <1>10, <1>t DEF ApplyDone, RevertDone, dbs, mem
  <2>3. \A i \in Rules : Rank(i) < pos
    BY <1>h, <1>k, <2>1 DEF Running
  <2>4. StateInv'
    BY <2>1, <2>3 DEF StateInv, Listed, Working, Running
  <2> QED
    BY <2>4
<1>11. CASE WriteConfig
  <2>1. /\ pc = "write" /\ wStatus' = wStatus
        /\ pc' = "clean" \/ (pc' = "revert" /\ lvl' = 1)
    BY <1>11 DEF WriteConfig, BeginRevert, mem
  <2> QED
    BY <2>1 DEF StateInv, Listed, Working, Running
<1>12. CASE Clean
  BY <1>12 DEF Clean, StateInv, ext, Working, Running
<1>13. CASE SkipRevert \/ RevertNothing
  <2>h. Here \in Rules /\ RuleState \in 0 .. 2 /\ wStatus.state[Here] \in 0 .. 2
    BY <1>13, <1>t, HereFacts DEF SkipRevert, RevertNothing, AtRevert, Running
  <2>1. /\ pc = "revert" /\ pos \in Rules /\ pc' \in {"revert", "unrecord"}
        /\ UNCHANGED <<config, wJob, wStatus>>
        /\ pc' = "unrecord" => /\ Listed(Here) /\ pos' = pos /\ lvl' = lvl /\ lvl = 1
                               /\ wStatus.state[Here] = 2 /\ snap' = 2
        /\ pc' = "revert" /\ lvl' = 0 => pos' = pos /\ snap' = wStatus.state[Here]
    BY <1>13, <1>t, <2>h DEF SkipRevert, RevertNothing, AtRevert, AfterRevertCall, NextRevert,
                 RuleState, dbs, mem
  <2>2. pos' = pos => Here' = Here
    BY <2>1, <1>r
  <2>4. StateInv'
    BY <2>1, <2>2, <2>h DEF StateInv, Listed, Working, Running
  <2> QED
    BY <2>4
<1>14. CASE RevertCall
  <2>h. Here \in Rules /\ RuleState \in 0 .. 2 /\ wStatus.state[Here] \in 0 .. 2
    BY <1>14, <1>t, HereFacts DEF RevertCall, AtRevert, Running
  <2>1. /\ pc = "revert" /\ pos \in Rules /\ pc' \in {"revert", "unrecord", "stuck"}
        /\ config' = config
        /\ pc' # "stuck" => UNCHANGED <<wJob, wStatus>>
        /\ pc' = "unrecord" => /\ Listed(Here) /\ pos' = pos /\ lvl' = lvl /\ lvl = 1
                               /\ wStatus.state[Here] = 2 /\ snap' = 2
        /\ pc' = "revert" /\ lvl' = 0 => pos' = pos /\ snap' = wStatus.state[Here]
    BY <1>14, <1>t, <2>h DEF RevertCall, AtRevert, AfterRevertCall, NextRevert, RuleState,
                 dbs, mem
  <2>2. CASE pc' = "stuck"
    BY <2>1, <2>2 DEF StateInv, Working, Running
  <2>3. CASE pc' # "stuck"
    <3>1. pos' = pos => Here' = Here
      BY <2>1, <2>3, <1>r
    <3>3. StateInv'
      BY <2>1, <2>3, <2>h, <3>1 DEF StateInv, Listed, Working, Running
    <3> QED
      BY <3>3
  <2> QED
    BY <2>2, <2>3
<1>16. CASE RevertRecord
  <2>1. /\ pc = "unrecord" /\ pos \in Rules /\ Listed(Here) /\ pc' = "revert"
        /\ wStatus' = Recorded(Here, 0)
        /\ config' = config /\ wJob' = wJob /\ lvl' = 0 /\ pos' = pos /\ snap' = snap
    BY <1>16, <1>t DEF RevertRecord, TypeInv, LockInv, StateInv, Running
  <2>h. Here \in Rules /\ wStatus \in Statuses
    BY <1>h, <1>k, <1>t, <2>1 DEF Running
  <2>2. /\ wStatus'.method = wStatus.method /\ wStatus'.order = wStatus.order
        /\ \A m \in Rules : wStatus'.state[m] = IF m = Here THEN 0 ELSE wStatus.state[m]
    BY <2>1, <2>h, RecordedTyped
  <2>4. Here' = Here
    BY <2>1, <2>2, <1>r
  <2>5. StateInv'
    BY <2>1, <2>2, <2>4 DEF StateInv, Listed, Working, Running
  <2> QED
    BY <2>5
<1>17. CASE Fail
  BY <1>17, <1>t, <1>h, <1>k, <1>r DEF Fail, StateInv, Listed, Working, Running
<1> QED
  BY <1>1, <1>2, <1>3, <1>4, <1>5, <1>6, <1>7, <1>8, <1>9, <1>10, <1>11, <1>12, <1>13, <1>14,
     <1>16, <1>17 DEF Next, Task

\* The benign steps keep the plan of the task.
LEMMA PlanNext ==
  ASSUME Benign, TypeInv, PlanInv, StateInv, Next
  PROVE  PlanInv'
<1> USE ConstFacts
<1>k. pc \in Running => wStatus \in Statuses /\ (pos \in Rules => Here \in Rules)
  BY HereFacts DEF TypeInv, LockInv
<1>1. CASE Request
  <2>0. PICK f \in Orders :
          \/ \E in \in Inputs : StageNewTask("POST", in, f) \/ StageNewTask("PUT", in, f)
          \/ StageNewTask("DELETE", config, f)
    BY <1>1 DEF Request
  <2>1. CASE \E in \in Inputs : StageNewTask("POST", in, f) \/ StageNewTask("PUT", in, f)
    <3>1. PICK in \in Inputs : StageNewTask("POST", in, f) \/ StageNewTask("PUT", in, f)
      BY <2>1
    <3>2. in \in Configs
      BY DEF Inputs
    <3>3. CASE StageNewTask("POST", in, f)
      BY <3>2, <3>3, StagePlan
    <3>4. CASE StageNewTask("PUT", in, f)
      BY <3>2, <3>4, StagePlan
    <3> QED
      BY <3>1, <3>3, <3>4
  <2>2. CASE StageNewTask("DELETE", config, f)
    <3>1. PICK in : in = config
      OBVIOUS
    <3>2. StageNewTask("DELETE", in, f)
      BY <2>2, <3>1 DEF StageNewTask
    <3> QED
      BY <3>1, <3>2, StagePlan
  <2> QED
    BY <2>0, <2>1, <2>2
<1>2. CASE StartTask
  BY <1>2 DEF StartTask, PlanInv, Plan, Target, Old, dbs, Working, Running
<1>3. CASE StartFails \/ Clean \/ ApplyPanic \/ RevertRecordFails \/ Crash
  BY <1>3 DEF StartFails, Clean, ApplyPanic, RevertRecordFails, Crash, PlanInv, Old, dbs, ext,
              Working, Running
<1>4. CASE \/ SkipUnlisted \/ ApplyNothing \/ ApplyRecordFails \/ ApplyDone
           \/ SkipRevert \/ RevertNothing \/ RevertDone
  <2>1. pc \in Working /\ UNCHANGED <<config, wJob, wStatus>> /\ pc' # "staged"
    BY <1>4 DEF SkipUnlisted, ApplyNothing, AtApply, ApplyRecordFails, BeginRevert, ApplyDone,
       SkipRevert, RevertNothing, RevertDone, AtRevert, NextRevert, AfterRevertCall, dbs, mem,
       Working, Running
  <2> QED
    BY <2>1, PlanKept
<1>5. CASE ApplyCall
  <2>1. /\ pc = "apply" /\ pos \in Rules /\ Listed(Here) /\ pc' \in {"record", "revert"}
        /\ wJob' = [wJob EXCEPT !.cfg[Here] = Norm(wJob.cfg[Here])]
        /\ UNCHANGED <<config, wConfig, wStatus>>
    BY <1>5 DEF ApplyCall, AtApply, dbs, BeginRevert
  <2>2. /\ wJob'.op = wJob.op
        /\ \A m \in Rules : wJob'.cfg[m] = IF m = Here THEN Norm(wJob.cfg[m]) ELSE wJob.cfg[m]
    <3>1. Here \in Rules /\ wJob \in Jobs
      BY <2>1, <1>k DEF TypeInv, LockInv, Running
    <3> QED
      BY <2>1, <3>1, JobNorm
  <2> QED
    BY <2>1, <2>2, PlanKept DEF Listed, Working, Running
<1>6. CASE ApplyRecord \/ RevertRecord
  <2>1. /\ pc \in {"record", "unrecord"} /\ pc' # "staged" /\ UNCHANGED <<config, wJob>>
        /\ wStatus'.method = wStatus.method
    BY <1>6 DEF ApplyRecord, RevertRecord, Recorded
  <2> QED
    BY <2>1, PlanKept DEF Working, Running
<1>7. CASE WriteConfig
  <2>1. /\ pc = "write" /\ pc' = "clean" /\ wStatus' = wStatus
        /\ config' = IF wJob.op = "DELETE" THEN NoConfig ELSE wJob.cfg
    BY <1>7 DEF WriteConfig, StateInv, Benign, mem
  <2>2. wJob.cfg # NoConfig
    BY <2>1, SentinelAssumption DEF TypeInv, LockInv, Running, Jobs
  <2>3. \A i \in Rules : Old(i)' = Target(wJob, i)
    BY <2>1, <2>2 DEF Old, RuleIn, Target
  <2>4. \A i \in DnsRules : Target(wJob, i) # NoRule => Target(wJob, i).name \notin Foreign
    <3> TAKE i \in DnsRules
    <3>1. /\ Plan(wStatus.method[i], wJob, i)
          /\ Old(i) # NoRule => Old(i).name \notin Foreign
          /\ wStatus.method[i] \in Methods
      BY <2>1, <1>k DEF PlanInv, Working, Running, Statuses
    <3> QED
      BY <3>1 DEF Plan, Target, Methods
  <2> QED
    BY <2>1, <2>3, <2>4 DEF PlanInv, Working, Running
<1>8. CASE RevertCall
  <2>1. /\ pc = "revert" /\ pc' \in {"revert", "unrecord", "stuck"} /\ config' = config
        /\ pc' # "stuck" => UNCHANGED <<wJob, wStatus>>
    BY <1>8 DEF RevertCall, AtRevert, AfterRevertCall, NextRevert, dbs, mem
  <2>2. CASE pc' = "stuck"
    BY <2>1, <2>2 DEF PlanInv, Old, Working, Running
  <2>3. CASE pc' # "stuck"
    BY <2>1, <2>3, PlanKept DEF Working, Running
  <2> QED
    BY <2>2, <2>3
<1>9. CASE Fail
  BY <1>9 DEF Fail, PlanInv, Old, Working, Running
<1> QED
  BY <1>1, <1>2, <1>3, <1>4, <1>5, <1>6, <1>7, <1>8, <1>9 DEF Next, Task
----------------------------------------------------------------------------
(* How the steps of a task move the levels of the rules.                   *)

\* All levels stay, or only rule p goes to level v.
LevelsKept == \A i \in Rules : Level(i)' = Level(i)
LevelMoves(p, v) == \A i \in Rules : Level(i)' = IF i = p THEN v ELSE Level(i)

LEMMA LevelTyped ==
  ASSUME TypeInv, NEW i \in Rules
  PROVE  Level(i) \in 0 .. 2
<1>1. pc \in Running => wStatus.state[i] \in 0 .. 2
  BY DEF TypeInv, LockInv, Statuses
<1>2. lvl \in 0 .. 1
  BY DEF TypeInv, TypeOK
<1> QED
  BY <1>1, <1>2, ConstFacts DEF Level, Running

\* The steps that do not call anything keep every level ...
LEMMA LevelQuiet ==
  ASSUME TypeInv, StateInv, StateInv',
         \/ Request \/ StartTask \/ StartFails \/ SkipUnlisted \/ ApplyRecord \/ ApplyDone
         \/ Clean \/ SkipRevert \/ RevertRecord \/ RevertDone \/ Fail,
         pc' \notin {"stuck", "crashed"}
  PROVE  LevelsKept
<1> USE ConstFacts
<1>t. /\ lvl \in 0 .. 1 /\ snap \in 0 .. 2 /\ pos \in 1 .. (NDns + NTrf + 1)
      /\ pc \in Running => wStatus \in Statuses
      /\ pc \in Running => \A i \in Rules : wStatus.state[i] \in 0 .. 2
  BY DEF TypeInv, TypeOK, LockInv, Statuses
<1>h. pc \in Running => \A i \in Rules : Rank(i) \in Rules
  BY HereFacts
<1>k. pc \in Running /\ pos \in Rules =>
        Here \in Rules /\ (\A i \in Rules : Rank(i) = pos <=> i = Here)
  BY HereFacts
<1>r. wStatus'.order = wStatus.order =>
        (\A i \in Rules : Rank(i)' = Rank(i)) /\ (pos' = pos => Here' = Here)
  BY RankKept
<1>1. CASE Request
  <2>1. pc = "idle" /\ pc' = "staged"
    BY <1>1 DEF Request, StageNewTask, TypeInv, LockInv
  <2> QED
    BY <2>1, <1>h, <1>k, <1>r DEF LevelsKept, Level, Running
<1>2. CASE StartTask
  BY <1>2 DEF StartTask, StateInv, LevelsKept, Level
<1>3. CASE StartFails
  BY <1>3 DEF StartFails, LevelsKept, Level
<1>4. CASE SkipUnlisted
  BY <1>4 DEF SkipUnlisted, AtApply, LevelsKept, Level, mem
<1>8. CASE ApplyRecord
  <2>1. /\ pc = "record" /\ pos \in Rules /\ lvl + 1 \in 0 .. 2 /\ pc' = "apply"
        /\ wStatus' = Recorded(Here, lvl + 1)
    BY <1>8, <1>t DEF ApplyRecord, TypeInv, LockInv
  <2>h. Here \in Rules /\ wStatus \in Statuses
    BY <1>h, <1>k, <1>t, <2>1 DEF Running
  <2>2. \A m \in Rules : wStatus'.state[m] = IF m = Here THEN lvl + 1 ELSE wStatus.state[m]
    BY <2>1, <2>h, RecordedTyped
  <2>3. \A i \in Rules : Rank(i) = pos <=> i = Here
    BY <2>1, <1>h, <1>k DEF Running
  <2> QED
    BY <2>1, <2>2, <2>3 DEF LevelsKept, Level
<1>10. CASE ApplyDone
  BY <1>10 DEF ApplyDone, LevelsKept, Level, mem
<1>12. CASE Clean
  BY <1>12 DEF Clean, LevelsKept, Level
<1>13. CASE SkipRevert
  <2>h. Here \in Rules /\ wStatus.state[Here] \in 0 .. 2 /\ pc \in Running /\ pos \in Rules
    BY <1>13, <1>t, HereFacts DEF SkipRevert, AtRevert, Running
  <2>1. /\ pc = "revert" /\ pc' = "revert" /\ wStatus' = wStatus
        /\ lvl = 1 => /\ lvl' = 0 /\ pos' = pos /\ snap' = wStatus.state[Here]
                      /\ Listed(Here) => wStatus.state[Here] \in 0 .. 1
        /\ lvl = 0 => /\ lvl' = 1 /\ pos' = pos + 1
                      /\ Listed(Here) => snap = 0
    BY <1>13, <1>t, <2>h DEF SkipRevert, AtRevert, NextRevert, RuleState, mem
  <2>2. ~Listed(Here) => wStatus.state[Here] = 0 /\ (lvl = 0 => snap = 0)
    BY <2>1, <2>h DEF StateInv, Working, Running
  <2>3. \A i \in Rules : Rank(i)' = Rank(i) /\ Rank(i) \in Rules /\ (Rank(i) = pos <=> i = Here)
    BY <2>1, <2>h, <1>h, <1>k, <1>r
  <2>4. CASE lvl = 1
    BY <2>1, <2>2, <2>3, <2>4, <2>h DEF LevelsKept, Level
  <2>5. CASE lvl = 0
    BY <2>1, <2>2, <2>3, <2>5, <2>h DEF LevelsKept, Level
  <2> QED
    BY <2>4, <2>5, <1>t
<1>16. CASE RevertRecord
  <2>1. /\ pc = "unrecord" /\ pos \in Rules /\ pc' = "revert"
        /\ lvl' = 0 /\ pos' = pos /\ snap' = 2 /\ wStatus' = Recorded(Here, 0)
    BY <1>16, <1>t DEF RevertRecord, TypeInv, LockInv, StateInv
  <2>h. Here \in Rules /\ wStatus \in Statuses
    BY <1>h, <1>k, <1>t, <2>1 DEF Running
  <2>2. /\ wStatus'.order = wStatus.order
        /\ \A m \in Rules : wStatus'.state[m] = IF m = Here THEN 0 ELSE wStatus.state[m]
    BY <2>1, <2>h, RecordedTyped
  <2>3. \A i \in Rules : Rank(i)' = Rank(i) /\ Rank(i) \in Rules /\ (Rank(i) = pos <=> i = Here)
    BY <2>1, <2>2, <1>h, <1>k, <1>r DEF Running
  <2> QED
    BY <2>1, <2>2, <2>3 DEF LevelsKept, Level
<1>17. CASE RevertDone
  <2>1. pc = "revert" /\ pc' = "fail" /\ pos = NDns + NTrf + 1
    BY <1>17, <1>t DEF RevertDone
  <2>2. \A i \in Rules : Rank(i) < pos
    BY <1>h, <1>k, <2>1 DEF Running
  <2> QED
    BY <2>1, <2>2 DEF LevelsKept, Level
<1>18. CASE Fail
  BY <1>18 DEF Fail, LevelsKept, Level
<1> QED
  BY <1>1, <1>2, <1>3, <1>4, <1>8, <1>10, <1>12, <1>13, <1>16, <1>17, <1>18

\* ... a call or a skipped operation that went well moves the rule one level
\* up, when applying, and one level down, when reverting.
LEMMA LevelUp ==
  ASSUME TypeInv, StateInv, pc = "apply", pos \in Rules, Listed(Here),
         wStatus' = wStatus, pc' = "record", pos' = pos, lvl' = lvl
  PROVE  Level(Here) = lvl /\ LevelMoves(Here, lvl + 1)
<1>h. /\ Here \in Rules
      /\ \A i \in Rules : Rank(i)' = Rank(i) /\ Rank(i) \in Rules /\ (Rank(i) = pos <=> i = Here)
  BY HereFacts, RankKept DEF Running
<1>1. wStatus.state[Here] = lvl
  BY <1>h, ConstFacts DEF StateInv
<1> QED
  BY <1>h, <1>1 DEF LevelMoves, Level

LEMMA LevelDown ==
  ASSUME TypeInv, StateInv, pc = "revert", pos \in Rules, Listed(Here), lvl < RuleState,
         wStatus' = wStatus, AfterRevertCall
  PROVE  Level(Here) = lvl + 1 /\ LevelMoves(Here, lvl)
<1> USE ConstFacts
<1>h. /\ Here \in Rules
      /\ \A i \in Rules : Rank(i)' = Rank(i) /\ Rank(i) \in Rules /\ (Rank(i) = pos <=> i = Here)
  BY HereFacts, RankKept DEF Running
<1>t. lvl \in 0 .. 1 /\ snap \in 0 .. 2 /\ wStatus.state[Here] \in 0 .. 2
  BY <1>h DEF TypeInv, TypeOK, LockInv, Statuses, Running
<1>1. CASE lvl = 1
  <2>1. wStatus.state[Here] = 2 /\ pc' = "unrecord" /\ pos' = pos
    BY <1>1, <1>t DEF RuleState, AfterRevertCall
  <2> QED
    BY <1>h, <1>1, <2>1 DEF LevelMoves, Level
<1>2. CASE lvl = 0
  <2>1. snap > 0 /\ pc' = "revert" /\ pos' = pos + 1 /\ lvl' = 1
    BY <1>2, <1>t DEF RuleState, AfterRevertCall, NextRevert
  <2> QED
    BY <1>h, <1>2, <2>1 DEF LevelMoves, Level
<1> QED
  BY <1>1, <1>2, <1>t
----------------------------------------------------------------------------
(* What a call does to the data plane and to the DNS server.               *)

\* Two rules that are the same to the outside.
Same(r, s) == /\ Active(r) <=> Active(s)
              /\ Active(r) => r.name = s.name /\ r.val = s.val

\* The call, made with rule r, is the right one to get from one rule to another.
Moves(call, from, to, r) ==
  /\ call \in Calls
  /\ call = "Add" => ~Active(from) /\ Active(to) /\ to.name = r.name /\ to.val = r.val
  /\ call = "Set" => /\ Active(from) /\ Active(to) /\ from.name = r.name
                     /\ to.name = r.name /\ to.val = r.val
  /\ call = "Delete" => Active(from) /\ ~Active(to) /\ from.name = r.name
  /\ call = "None" => ~Active(from) /\ ~Active(to)

LEMMA DpStep ==
  ASSUME NEW c, NEW c2, NEW p \in Rules, NEW call, NEW r, DpTyped,
         Moves(call, c[p], c2[p], r), HasOperation(p, WaitMp2),
         NEW L, NEW L2, DpAgrees(dp, c, L), \A i \in Rules \ {p} : Same(c[i], c2[i]),
         \A i \in L \ {p} : i \in L2, p \in L => Active(c[p]),
         DataPlane(p, call, r)
  PROVE  DpAgrees(dp', c2, L2)
<1>1. ASSUME NEW i \in Rules \ {p}, i \notin L2
      PROVE  dp'[i] = IF HasOperation(i, WaitMp2) /\ Active(c2[i]) THEN Body(c2[i]) ELSE NoRule
  <2>1. dp'[i] = dp[i]
    BY DEF DataPlane, DpTyped, Moves, Calls
  <2>2. i \in Rules \ L /\ Same(c[i], c2[i])
    BY <1>1
  <2> QED
    BY <2>1, <2>2 DEF DpAgrees, Same, Body
<1>2. dp'[p] = IF Active(c2[p]) THEN Body(c2[p]) ELSE NoRule
  BY DEF DataPlane, DpTyped, Moves, Calls, DpAgrees, Body
<1>3. HasOperation(p, WaitMp2)
  OBVIOUS
<1> QED
  BY <1>1, <1>2, <1>3 DEF DpAgrees

LEMMA DpSame ==
  ASSUME NEW c, NEW c2, NEW d, NEW L, NEW L2, DpAgrees(d, c, L), L \subseteq L2,
         \A i \in Rules : HasOperation(i, WaitMp2) => Same(c[i], c2[i])
  PROVE  DpAgrees(d, c2, L2)
BY DEF DpAgrees, Same, Body

LEMMA DnsSame ==
  ASSUME NEW c, NEW c2, NEW d, DnsAgrees(d, c), \A i \in DnsRules : Same(c[i], c2[i])
  PROVE  DnsAgrees(d, c2)
BY DEF DnsAgrees, Same

LEMMA DnsStep ==
  ASSUME NEW c, NEW c2, NEW p \in DnsRules, NEW call, NEW r, DnsTyped,
         Moves(call, c[p], c2[p], r), call # "None" => r.name \in Names \ Foreign /\ r.val \in Vals,
         DnsAgrees(dns, c), \A i \in DnsRules \ {p} : Same(c[i], c2[i]),
         \A i \in DnsRules : Active(c[i]) => c[i].name \in Names \ Foreign /\ c[i].val \in Vals,
         DnsAccepts(call, r.name), DnsServer(call, r)
  PROVE  DnsAgrees(dns', c2) /\ \A n \in Foreign : dns'[n] = dns[n]
<1> USE SentinelAssumption, ParamAssumption
<1>a. \A i \in DnsRules : Active(c[i]) => dns[c[i].name] = c[i].val
  BY DEF DnsAgrees
<1>b. \A m \in Names \ Foreign : dns[m] # NoAddr =>
        \E i \in DnsRules : Active(c[i]) /\ c[i].name = m
  BY DEF DnsAgrees
<1>c. \A i, j \in DnsRules : i # j /\ Active(c[i]) /\ Active(c[j]) => c[i].name # c[j].name
  BY DEF DnsAgrees
<1>d. \A i \in DnsRules \ {p} : Active(c2[i]) =>
        Active(c[i]) /\ c2[i].name = c[i].name /\ c2[i].val = c[i].val
  BY DEF Same
<1>1. CASE call = "None"
  <2>1. dns' = dns /\ \A i \in DnsRules : Same(c[i], c2[i])
    BY <1>1 DEF DnsServer, Moves, Same
  <2> QED
    BY <2>1, DnsSame
<1>2. CASE call = "Add"
  <2>1. dns' = [dns EXCEPT ![r.name] = r.val] /\ dns[r.name] = NoAddr
    BY <1>2 DEF DnsServer, DnsAccepts
  <2>2. \A i \in DnsRules : Active(c[i]) => c[i].name # r.name
    <3> SUFFICES ASSUME NEW i \in DnsRules, Active(c[i]), c[i].name = r.name PROVE FALSE
      OBVIOUS
    <3>1. dns[r.name] = c[i].val
      BY DEF DnsAgrees
    <3> QED
      BY <2>1, <3>1
  <2>0. ~Active(c[p]) /\ Active(c2[p]) /\ c2[p].name = r.name /\ c2[p].val = r.val
    BY <1>2 DEF Moves
  <2>3. \A m \in Names : dns'[m] = IF m = r.name THEN r.val ELSE dns[m]
    BY <2>1 DEF DnsTyped
  <2>4. \A i \in DnsRules \ {p} : Active(c2[i]) => c2[i].name # r.name
    BY <1>d, <2>2
  <2>5. \A i \in DnsRules : Active(c2[i]) => dns'[c2[i].name] = c2[i].val
    <3> SUFFICES ASSUME NEW i \in DnsRules, Active(c2[i]) PROVE dns'[c2[i].name] = c2[i].val
      OBVIOUS
    <3>1. CASE i = p
      BY <1>2, <2>0, <2>3, <3>1
    <3>2. CASE i # p
      <4>1. Active(c[i]) /\ c2[i].name = c[i].name /\ c2[i].val = c[i].val /\ c[i].name # r.name
        BY <1>d, <2>4, <3>2
      <4>2. c[i].name \in Names
        BY <4>1
      <4> QED
        BY <1>a, <2>3, <4>1, <4>2
    <3> QED
      BY <3>1, <3>2
  <2>6. \A i, j \in DnsRules : i # j /\ Active(c2[i]) /\ Active(c2[j]) => c2[i].name # c2[j].name
    BY <1>c, <1>d, <2>0, <2>4
  <2>7. ASSUME NEW m \in Names \ Foreign, dns'[m] # NoAddr
        PROVE  \E i \in DnsRules : Active(c2[i]) /\ c2[i].name = m
    <3>1. CASE m = r.name
      BY <2>0, <2>3, <2>7, <3>1
    <3>2. CASE m # r.name
      <4>1. PICK i \in DnsRules : Active(c[i]) /\ c[i].name = m
        BY <1>b, <2>3, <2>7, <3>2
      <4> QED
        BY <2>0, <3>2, <4>1 DEF Same
    <3> QED
      BY <3>1, <3>2
  <2>8. \A m \in Foreign : dns'[m] = dns[m]
    BY <1>2, <2>3
  <2> QED
    BY <2>5, <2>6, <2>7, <2>8 DEF DnsAgrees
<1>3. CASE call = "Set"
  <2>1. dns' = [dns EXCEPT ![r.name] = r.val]
    BY <1>3 DEF DnsServer
  <2>0. /\ Active(c[p]) /\ Active(c2[p]) /\ c[p].name = r.name
        /\ c2[p].name = r.name /\ c2[p].val = r.val
    BY <1>3 DEF Moves
  <2>3. \A m \in Names : dns'[m] = IF m = r.name THEN r.val ELSE dns[m]
    BY <2>1 DEF DnsTyped
  <2>4. \A i \in DnsRules \ {p} : Active(c2[i]) => c2[i].name # r.name
    BY <1>c, <1>d, <2>0
  <2>5. \A i \in DnsRules : Active(c2[i]) => dns'[c2[i].name] = c2[i].val
    <3> SUFFICES ASSUME NEW i \in DnsRules, Active(c2[i]) PROVE dns'[c2[i].name] = c2[i].val
      OBVIOUS
    <3>1. CASE i = p
      BY <2>0, <2>3, <3>1
    <3>2. CASE i # p
      <4>1. Active(c[i]) /\ c2[i].name = c[i].name /\ c2[i].val = c[i].val /\ c[i].name # r.name
        BY <1>d, <2>4, <3>2
      <4>2. c[i].name \in Names
        BY <4>1
      <4> QED
        BY <1>a, <2>3, <4>1, <4>2
    <3> QED
      BY <3>1, <3>2
  <2>6. \A i, j \in DnsRules : i # j /\ Active(c2[i]) /\ Active(c2[j]) => c2[i].name # c2[j].name
    BY <1>c, <1>d, <2>0, <2>4
  <2>7. ASSUME NEW m \in Names \ Foreign, dns'[m] # NoAddr
        PROVE  \E i \in DnsRules : Active(c2[i]) /\ c2[i].name = m
    <3>1. CASE m = r.name
      BY <2>0, <2>3, <2>7, <3>1
    <3>2. CASE m # r.name
      <4>1. PICK i \in DnsRules : Active(c[i]) /\ c[i].name = m
        BY <1>b, <2>3, <2>7, <3>2
      <4> QED
        BY <2>0, <3>2, <4>1 DEF Same
    <3> QED
      BY <3>1, <3>2
  <2>8. \A m \in Foreign : dns'[m] = dns[m]
    BY <1>3, <2>3
  <2> QED
    BY <2>5, <2>6, <2>7, <2>8 DEF DnsAgrees
<1>4. CASE call = "Delete"
  <2>1. dns' = [dns EXCEPT ![r.name] = NoAddr]
    BY <1>4 DEF DnsServer
  <2>0. Active(c[p]) /\ ~Active(c2[p]) /\ c[p].name = r.name
    BY <1>4 DEF Moves
  <2>3. \A m \in Names : dns'[m] = IF m = r.name THEN NoAddr ELSE dns[m]
    BY <2>1 DEF DnsTyped
  <2>4. \A i \in DnsRules \ {p} : Active(c2[i]) => c2[i].name # r.name
    BY <1>c, <1>d, <2>0
  <2>5. \A i \in DnsRules : Active(c2[i]) => dns'[c2[i].name] = c2[i].val
    <3> SUFFICES ASSUME NEW i \in DnsRules, Active(c2[i]) PROVE dns'[c2[i].name] = c2[i].val
      OBVIOUS
    <3>1. CASE i = p
      BY <2>0, <2>3, <3>1
    <3>2. CASE i # p
      <4>1. Active(c[i]) /\ c2[i].name = c[i].name /\ c2[i].val = c[i].val /\ c[i].name # r.name
        BY <1>d, <2>4, <3>2
      <4>2. c[i].name \in Names
        BY <4>1
      <4> QED
        BY <1>a, <2>3, <4>1, <4>2
    <3> QED
      BY <3>1, <3>2
  <2>6. \A i, j \in DnsRules : i # j /\ Active(c2[i]) /\ Active(c2[j]) => c2[i].name # c2[j].name
    BY <1>c, <1>d, <2>0, <2>4
  <2>7. ASSUME NEW m \in Names \ Foreign, dns'[m] # NoAddr
        PROVE  \E i \in DnsRules : Active(c2[i]) /\ c2[i].name = m
    <3>1. CASE m = r.name
      BY <2>0, <2>3, <2>7, <3>1
    <3>2. CASE m # r.name
      <4>1. PICK i \in DnsRules : Active(c[i]) /\ c[i].name = m
        BY <1>b, <2>3, <2>7, <3>2
      <4> QED
        BY <2>0, <3>2, <4>1 DEF Same
    <3> QED
      BY <3>1, <3>2
  <2>8. \A m \in Foreign : dns'[m] = dns[m]
    BY <1>4, <2>3
  <2> QED
    BY <2>5, <2>6, <2>7, <2>8 DEF DnsAgrees
<1> QED
  BY <1>1, <1>2, <1>3, <1>4 DEF Moves, Calls
----------------------------------------------------------------------------
(* A task that could not read the configuration.                           *)

\* Turning from applying to reverting keeps the levels.
LEMMA LevelTurn ==
  ASSUME TypeInv, pc = "apply", BeginRevert, wStatus' = wStatus
  PROVE  LevelsKept
<1>1. \A i \in Rules : Rank(i)' = Rank(i) /\ Rank(i) \in Rules
  BY HereFacts, RankKept DEF Running
<1> QED
  BY <1>1, ConstFacts DEF BeginRevert, LevelsKept, Level

LEMMA LoadKept ==
  ASSUME LoadInv, pc \in Working, config' = config, wConfig' = wConfig,
         wStatus'.method = wStatus.method, LevelsKept
  PROVE  LoadInv'
BY DEF LoadInv, LevelsKept

LEMMA LoadNext ==
  ASSUME Benign, TypeInv, PlanInv, StateInv, StateInv', LoadInv, Next
  PROVE  LoadInv'
<1> USE ConstFacts
<1>t. lvl \in 0 .. 1 /\ snap \in 0 .. 2 /\ (pc \in Running => wStatus \in Statuses)
  BY DEF TypeInv, TypeOK, LockInv
<1>1. CASE Request \/ StartFails \/ Clean \/ ApplyPanic \/ RevertRecordFails \/ Crash \/ Fail
  BY <1>1 DEF Request, StageNewTask, StartFails, Clean, ApplyPanic, RevertRecordFails, Crash, Fail,
              LoadInv, Working, Running
<1>2. CASE StartTask
  <2>1. /\ pc = "staged" /\ pc' = "apply" /\ config' = config
        /\ wConfig' = config \/ wConfig' = NoConfig
    BY <1>2 DEF StartTask, dbs
  <2>2. LevelsKept
    BY <1>2, <2>1, LevelQuiet
  <2> QED
    BY <2>1, <2>2 DEF LoadInv, LevelsKept, Level
<1>3. CASE SkipUnlisted \/ ApplyDone \/ SkipRevert \/ RevertDone
  <2>1. LevelsKept
    BY <1>3, LevelQuiet DEF SkipUnlisted, ApplyDone, SkipRevert, NextRevert, RevertDone, AtApply
  <2> QED
    BY <1>3, <2>1, LoadKept DEF SkipUnlisted, ApplyDone, SkipRevert, AtApply, AtRevert, RevertDone,
       dbs, mem, Working, Running
<1>4. CASE ApplyRecord \/ RevertRecord
  <2>1. LevelsKept
    BY <1>4, LevelQuiet DEF ApplyRecord, RevertRecord
  <2>2. wStatus'.method = wStatus.method
    BY <1>4 DEF ApplyRecord, RevertRecord, Recorded
  <2> QED
    BY <1>4, <2>1, <2>2, LoadKept DEF ApplyRecord, RevertRecord, Working, Running
<1>5. CASE ApplyRecordFails
  BY <1>5 DEF ApplyRecordFails, Benign
<1>6. CASE WriteConfig
  BY <1>6 DEF WriteConfig, StateInv, LoadInv, Working, Running
<1>7. CASE ApplyCall
  <2>1. /\ pc = "apply" /\ pos \in Rules /\ Listed(Here)
        /\ UNCHANGED <<config, wConfig, wStatus>>
        /\ ~Panics(ApplyFn(wStatus.method[Here]), ApplyOld(Here))
        /\ BeginRevert \/ (pc' = "record" /\ UNCHANGED <<pos, lvl, snap>>)
    BY <1>7 DEF ApplyCall, AtApply, dbs, loop
  <2>2. CASE BeginRevert
    BY <2>1, <2>2, LevelTurn, LoadKept DEF Working, Running
  <2>3. CASE pc' = "record" /\ UNCHANGED <<pos, lvl, snap>>
    <3>1. LevelMoves(Here, lvl + 1)
      BY <2>1, <2>3, LevelUp
    <3>2. wConfig = NoConfig => wStatus.method[Here] \notin {"modify", "delete"}
      BY <2>1 DEF Panics, ApplyFn, ApplyOld, RuleIn
    <3> QED
      BY <2>1, <2>3, <3>1, <3>2 DEF LoadInv, LevelMoves, Working, Running
  <2> QED
    BY <2>1, <2>2, <2>3
<1>8. CASE ApplyNothing
  <2>1. /\ pc = "apply" /\ pos \in Rules /\ Listed(Here) /\ ~HasOperation(Here, lvl)
        /\ UNCHANGED <<config, wConfig, wStatus>>
        /\ pc' = "record" /\ UNCHANGED <<pos, lvl, snap>>
    BY <1>8 DEF ApplyNothing, AtApply, dbs, loop, mem
  <2>2. Level(Here) = lvl /\ LevelMoves(Here, lvl + 1)
    BY <2>1, LevelUp
  <2>3. CASE lvl = 0
    BY <2>1, <2>2, <2>3 DEF LoadInv, LevelMoves, Working, Running
  <2>4. CASE lvl = 1
    <3>1. HasOperation(Here, WaitMp2)
      BY <2>1, <2>4 DEF HasOperation
    <3> QED
      BY <2>1, <2>2, <2>4, <3>1 DEF LoadInv, LevelMoves, Working, Running
  <2> QED
    BY <1>t, <2>3, <2>4
<1>9. CASE RevertCall \/ RevertNothing
  <2>1. /\ pc = "revert" /\ pos \in Rules /\ Listed(Here) /\ lvl < RuleState
        /\ config' = config
        /\ \/ AfterRevertCall /\ UNCHANGED <<wConfig, wStatus>>
           \/ pc' = "stuck"
    BY <1>9 DEF RevertCall, RevertNothing, AtRevert, dbs, mem
  <2>2. CASE pc' = "stuck"
    BY <2>2 DEF LoadInv, Working, Running
  <2>3. CASE AfterRevertCall /\ UNCHANGED <<wConfig, wStatus>>
    <3>1. Level(Here) = lvl + 1 /\ LevelMoves(Here, lvl)
      BY <2>1, <2>3, LevelDown
    <3>2. ASSUME NEW i \in Rules, wStatus.method[i] \in {"modify", "delete"}, wConfig # config
          PROVE  Level(i)' = 0 \/ (Level(i)' = 1 /\ ~HasOperation(i, WaitMp2))
      <4>1. Level(i) = 0 \/ (Level(i) = 1 /\ ~HasOperation(i, WaitMp2))
        BY <2>1, <3>2 DEF LoadInv, Working, Running
      <4> QED
        BY <1>t, <3>1, <4>1 DEF LevelMoves
    <3> QED
      BY <2>1, <2>3, <3>2 DEF LoadInv, Working, Running
  <2> QED
    BY <2>1, <2>2, <2>3
<1> QED
  BY <1>1, <1>2, <1>3, <1>4, <1>5, <1>6, <1>7, <1>8, <1>9 DEF Next, Task
----------------------------------------------------------------------------
(* The call a task makes is the right one.                                 *)

LEMMA ApplyMoves ==
  ASSUME TypeInv, PlanInv, LoadInv, pc = "apply", pos \in Rules, Listed(Here),
         ~Panics(ApplyFn(wStatus.method[Here]), ApplyOld(Here))
  PROVE  /\ Moves(CallFor(ApplyFn(wStatus.method[Here]), ApplyNew(Here), ApplyOld(Here)),
                  Old(Here), Target(wJob, Here), ApplyNew(Here))
         /\ Here \in DnsRules => ApplyNew(Here).name \in Names \ Foreign
         /\ ApplyNew(Here).val \in Vals
<1>0. Here \in Rules
  BY HereFacts DEF Running
<1>1. /\ Plan(wStatus.method[Here], wJob, Here)
      /\ Here \in DnsRules /\ Old(Here) # NoRule => Old(Here).name \notin Foreign
  BY <1>0 DEF PlanInv, Working, Running
<1>2. ApplyNew(Here) \in RuleOf(Here) /\ wStatus.method[Here] \in {"create", "modify", "delete"}
  BY <1>0, ApplyRuleTyped DEF Running
<1>3. /\ ApplyNew(Here).val \in Vals /\ ApplyNew(Here) # NoRule
      /\ Here \in DnsRules => ApplyNew(Here).name \in Names
  BY <1>0, <1>2, RuleFields
<1>4. wConfig # config => wStatus.method[Here] = "create" /\ wConfig = NoConfig
  BY <1>0, <1>2 DEF LoadInv, Working, Running, Panics, ApplyFn, ApplyOld, RuleIn
<1>5. CASE wStatus.method[Here] = "create"
  <2>1. Old(Here) = NoRule /\ Target(wJob, Here) = ApplyNew(Here)
    BY <1>1, <1>5 DEF Plan, Target, ApplyNew
  <2>2. ApplyFn(wStatus.method[Here]) = "add"
    BY <1>5 DEF ApplyFn
  <2>3. Here \in DnsRules => ApplyNew(Here).name \notin Foreign
    BY <1>1, <1>5 DEF Plan, ApplyNew
  <2> QED
    BY <1>3, <2>1, <2>2, <2>3 DEF Moves, CallFor, Active, Calls
<1>6. CASE wStatus.method[Here] = "modify"
  <2>1. ApplyOld(Here) = Old(Here) /\ Target(wJob, Here) = ApplyNew(Here)
    BY <1>1, <1>4, <1>6 DEF Plan, Target, ApplyNew, ApplyOld, Old
  <2>2. ApplyFn(wStatus.method[Here]) = "set"
    BY <1>6 DEF ApplyFn
  <2>3. /\ ApplyNew(Here).name = Old(Here).name /\ Old(Here) # NoRule
        /\ Active(ApplyNew(Here)) \/ Active(Old(Here))
    BY <1>1, <1>6 DEF Plan, ApplyNew
  <2> QED
    BY <1>1, <1>3, <2>1, <2>2, <2>3 DEF Moves, CallFor, Calls
<1>7. CASE wStatus.method[Here] = "delete"
  <2>1. ApplyOld(Here) = Old(Here) /\ Target(wJob, Here) = NoRule /\ Old(Here) # NoRule
    BY <1>1, <1>4, <1>7 DEF Plan, Target, ApplyOld, Old
  <2>2. ApplyNew(Here).name = Old(Here).name
    BY <1>1, <1>4, <1>7 DEF Plan, ApplyNew, Old
  <2>3. ApplyFn(wStatus.method[Here]) = "del"
    BY <1>7 DEF ApplyFn
  <2> QED
    BY <1>1, <1>3, <2>1, <2>2, <2>3 DEF Moves, CallFor, Calls, Active
<1> QED
  BY <1>2, <1>5, <1>6, <1>7

LEMMA RevertMoves ==
  ASSUME TypeInv, PlanInv, LoadInv, pc = "revert", pos \in Rules, Listed(Here),
         Level(Here) > 0, Level(Here) = 1 => HasOperation(Here, WaitMp2),
         NEW call, call = CallFor(RevertFn(wStatus.method[Here]), RevertNew(Here), RevertOld(Here))
  PROVE  /\ Moves(call, Target(wJob, Here), Old(Here), RevertNew(Here))
         /\ call # "None" /\ Here \in DnsRules => RevertNew(Here).name \in Names \ Foreign
         /\ call # "None" => RevertNew(Here).val \in Vals
<1>0. Here \in Rules
  BY HereFacts DEF Running
<1>1. /\ Plan(wStatus.method[Here], wJob, Here)
      /\ Here \in DnsRules /\ Old(Here) # NoRule => Old(Here).name \notin Foreign
  BY <1>0 DEF PlanInv, Working, Running
<1>2. /\ RevertNew(Here) \in RuleOf(Here) \/ call = "None"
      /\ wStatus.method[Here] \in {"create", "modify", "delete"}
  BY <1>0, RevertRuleTyped DEF Running
<1>3. call # "None" => /\ RevertNew(Here).val \in Vals /\ RevertNew(Here) # NoRule
                       /\ Here \in DnsRules => RevertNew(Here).name \in Names
  BY <1>0, <1>2, RuleFields
<1>4. wConfig # config => wStatus.method[Here] = "create" /\ wConfig = NoConfig
  BY <1>0, <1>2, LevelTyped DEF LoadInv, Working, Running
<1>5. CASE wStatus.method[Here] = "create"
  <2>1. /\ Old(Here) = NoRule /\ Target(wJob, Here) = RevertOld(Here) /\ RevertNew(Here) = RevertOld(Here)
        /\ RevertOld(Here) # NoRule
    BY <1>1, <1>4, <1>5 DEF Plan, Target, RevertNew, RevertOld, RuleIn, Old
  <2>2. RevertFn(wStatus.method[Here]) = "del"
    BY <1>5 DEF RevertFn
  <2>3. Here \in DnsRules => RevertNew(Here).name \notin Foreign
    BY <1>1, <1>5, <2>1 DEF Plan, RevertOld
  <2> QED
    BY <1>3, <2>1, <2>2, <2>3 DEF Moves, CallFor, Active, Calls
<1>6. CASE wStatus.method[Here] = "modify"
  <2>1. RevertNew(Here) = Old(Here) /\ Target(wJob, Here) = RevertOld(Here) /\ Old(Here) # NoRule
    BY <1>1, <1>4, <1>6 DEF Plan, Target, RevertNew, RevertOld, Old
  <2>2. RevertFn(wStatus.method[Here]) = "set"
    BY <1>6 DEF RevertFn
  <2>3. /\ RevertOld(Here).name = Old(Here).name
        /\ Active(RevertOld(Here)) \/ Active(Old(Here))
    BY <1>1, <1>6 DEF Plan, RevertOld
  <2> QED
    BY <1>1, <1>3, <2>1, <2>2, <2>3 DEF Moves, CallFor, Calls
<1>7. CASE wStatus.method[Here] = "delete"
  <2>1. RevertNew(Here) = Old(Here) /\ Target(wJob, Here) = NoRule /\ Old(Here) # NoRule
    BY <1>1, <1>4, <1>7 DEF Plan, Target, RevertNew, Old
  <2>2. RevertFn(wStatus.method[Here]) = "add"
    BY <1>7 DEF RevertFn
  <2> QED
    BY <1>1, <1>3, <2>1, <2>2 DEF Moves, CallFor, Calls, Active
<1> QED
  BY <1>2, <1>5, <1>6, <1>7
----------------------------------------------------------------------------
(* The data plane and the DNS server.                                      *)

\* The names and values of the rules in force are this application's.
LEMMA CurNames ==
  ASSUME TypeInv, PlanInv, Alive, NEW i \in DnsRules, NEW l \in 0 .. 1, Active(Cur(l, i))
  PROVE  Cur(l, i).name \in Names \ Foreign /\ Cur(l, i).val \in Vals
<1> USE ConstFacts
<1>1. Old(i) \in {NoRule} \cup RuleOf(i) /\ (Old(i) # NoRule => Old(i).name \notin Foreign)
  BY RuleTyped DEF TypeInv, TypeOK, Old, PlanInv
<1>2. CASE Cur(l, i) = Old(i)
  BY <1>1, <1>2, RuleFields DEF Active
<1>3. CASE Cur(l, i) # Old(i)
  <2>1. Cur(l, i) = Target(wJob, i) /\ pc \in Working
    BY <1>3 DEF Cur, Level, Working, Running
  <2>2. /\ wJob.cfg[i] \in {NoRule} \cup RuleOf(i)
        /\ wStatus.method[i] \in Methods
        /\ Plan(wStatus.method[i], wJob, i)
    BY <2>1, CfgTyped DEF TypeInv, LockInv, PlanInv, Working, Jobs, Statuses
  <2>3. Target(wJob, i) = wJob.cfg[i] /\ wJob.cfg[i] # NoRule
    BY <2>1 DEF Target, Active
  <2>4. wJob.cfg[i].name \notin Foreign
    BY <1>1, <1>3, <2>1, <2>2, <2>3 DEF Plan, Methods
  <2> QED
    BY <2>1, <2>2, <2>3, <2>4, RuleFields
<1> QED
  BY <1>2, <1>3

ExtInv(S) == DpInv(S) /\ DnsInv /\ ForeignInv

\* A step that calls nothing, and keeps what is in force wherever the data
\* plane or the DNS server is told about it.
LEMMA ExtSame ==
  ASSUME NEW S \in SUBSET Rules, ExtInv(S), Alive, UNCHANGED ext, Loose(S) \subseteq Loose(S)',
         \A i \in Rules : HasOperation(i, WaitMp2) => Same(Cur(0, i), Cur(0, i)'),
         DnsType # "dataplane" => \A i \in DnsRules : Same(Cur(1, i), Cur(1, i)')
  PROVE  ExtInv(S)'
<1>1. dp' = dp /\ dns' = dns
  BY DEF ext
<1>2. PICK c, c2 : c = [i \in Rules |-> Cur(0, i)] /\ c2 = [i \in Rules |-> Cur(0, i)']
  OBVIOUS
<1>3. PICK e, e2 : e = [i \in Rules |-> Cur(1, i)] /\ e2 = [i \in Rules |-> Cur(1, i)']
  OBVIOUS
<1>l. PICK L, L2 : L = Loose(S) /\ L2 = Loose(S)'
  OBVIOUS
<1>4. DpInv(S)'
  <2>1. DpAgrees(dp, c, L)
    BY <1>2, <1>l DEF ExtInv, DpInv
  <2>2. DpAgrees(dp, c2, L2)
    BY <1>2, <1>l, <2>1, DpSame
  <2> QED
    BY <1>1, <1>2, <1>l, <2>2 DEF DpInv, DpAgrees
<1>5. DnsInv'
  <2> SUFFICES ASSUME DnsType # "dataplane" PROVE DnsAgrees(dns', e2)
    BY <1>3 DEF DnsInv
  <2>1. DnsAgrees(dns, e)
    BY <1>3 DEF ExtInv, DnsInv
  <2>2. DnsAgrees(dns, e2)
    BY <1>3, <2>1, DnsSame, ConstFacts
  <2> QED
    BY <1>1, <2>2
<1>6. ForeignInv'
  BY <1>1 DEF ExtInv, ForeignInv, ForeignRecords
<1> QED
  BY <1>4, <1>5, <1>6 DEF ExtInv

\* A call that goes through, and is the right one for the rule in force.
LEMMA ExtCall ==
  ASSUME NEW S \in SUBSET Rules, ExtInv(S), Alive, TypeInv, PlanInv,
         NEW p \in Rules, NEW l \in 0 .. 1, NEW call, NEW r,
         HasOperation(p, l), Accepts(l, call, r), Send(p, l, call, r),
         Moves(call, Cur(l, p), Cur(l, p)', r),
         call # "None" => (p \in DnsRules => r.name \in Names \ Foreign) /\ r.val \in Vals,
         \A i \in Rules : i # p \/ l # 0 => Same(Cur(0, i), Cur(0, i)'),
         \A i \in Rules : i # p \/ l # 1 => Same(Cur(1, i), Cur(1, i)'),
         \A i \in Loose(S) : i # p \/ l # 0 => i \in Loose(S)'
  PROVE  ExtInv(S)'
<1> USE ConstFacts
<1>t. DpTyped /\ DnsTyped
  BY DEF TypeInv, TypeOK, DpTyped, DnsTyped
<1>2. PICK c, c2 : c = [i \in Rules |-> Cur(0, i)] /\ c2 = [i \in Rules |-> Cur(0, i)']
  OBVIOUS
<1>3. PICK e, e2 : e = [i \in Rules |-> Cur(1, i)] /\ e2 = [i \in Rules |-> Cur(1, i)']
  OBVIOUS
<1>l. PICK L, L2 : L = Loose(S) /\ L2 = Loose(S)'
  OBVIOUS
<1>4. DpAgrees(dp, c, L)
  BY <1>2, <1>l DEF ExtInv, DpInv
<1>p. p \in L => Active(c[p])
  <2> SUFFICES ASSUME p \in Loose(S) PROVE Active(c[p])
    BY <1>l
  <2>1. Level(p) = 0 /\ Active(Old(p))
    BY DEF Loose, Active
  <2>2. c[p] = Cur(0, p)
    BY <1>2
  <2>3. Cur(0, p) = Old(p)
    BY <2>1 DEF Cur
  <2> QED
    BY <2>1, <2>2, <2>3
<1>5. DnsType # "dataplane" => DnsAgrees(dns, e)
  BY <1>3 DEF ExtInv, DnsInv
<1>6. CASE l = 0
  <2>1. DataPlane(p, call, r) /\ dns' = dns
    BY <1>6 DEF Send
  <2>2. \A i \in Rules \ {p} : Same(c[i], c2[i])
    BY <1>2, <1>6
  <2>3. Moves(call, c[p], c2[p], r) /\ HasOperation(p, WaitMp2)
    BY <1>2, <1>6
  <2>l. \A i \in L \ {p} : i \in L2
    BY <1>l
  <2>4. DpAgrees(dp', c2, L2)
    BY <1>t, <1>p, <1>4, <2>1, <2>2, <2>3, <2>l, DpStep
  <2>5. \A i \in DnsRules : Same(e[i], e2[i])
    BY <1>3, <1>6
  <2>6. DnsType # "dataplane" => DnsAgrees(dns', e2)
    BY <1>5, <2>1, <2>5, DnsSame
  <2>7. DpInv(S)' /\ DnsInv'
    BY <1>2, <1>3, <1>l, <2>4, <2>6 DEF DpInv, DnsInv
  <2>8. ForeignInv'
    BY <2>1 DEF ExtInv, ForeignInv, ForeignRecords
  <2> QED
    BY <2>7, <2>8 DEF ExtInv
<1>7. CASE l = 1
  <2>1. /\ DnsServer(call, r) /\ dp' = dp /\ DnsAccepts(call, r.name)
        /\ p \in DnsRules /\ DnsType # "dataplane"
    BY <1>7 DEF Send, Accepts, HasOperation
  <2>2. \A i \in DnsRules \ {p} : Same(e[i], e2[i])
    BY <1>3, <1>7
  <2>3. Moves(call, e[p], e2[p], r)
    BY <1>3, <1>7
  <2>4. \A i \in DnsRules : Active(e[i]) => e[i].name \in Names \ Foreign /\ e[i].val \in Vals
    BY <1>3, CurNames
  <2>5. DnsAgrees(dns', e2) /\ \A m \in Foreign : dns'[m] = dns[m]
    BY <1>t, <1>5, <2>1, <2>2, <2>3, <2>4, DnsStep
  <2>6. \A i \in Rules : Same(c[i], c2[i])
    BY <1>2, <1>7
  <2>l. L \subseteq L2
    BY <1>7, <1>l
  <2>7. DpAgrees(dp', c2, L2)
    BY <1>4, <2>1, <2>6, <2>l, DpSame
  <2>8. DpInv(S)' /\ DnsInv'
    BY <1>2, <1>3, <1>l, <2>5, <2>7 DEF DpInv, DnsInv
  <2>9. ForeignInv'
    BY <2>1, <2>5 DEF ExtInv, ForeignInv, ForeignRecords
  <2> QED
    BY <2>8, <2>9 DEF ExtInv
<1> QED
  BY <1>6, <1>7

\* A task that is dead is not asked what is in force.
LEMMA ExtDead ==
  ASSUME NEW S \in SUBSET Rules, ExtInv(S), UNCHANGED ext, pc' \in {"stuck", "crashed"}
  PROVE  ExtInv(S)'
BY DEF ExtInv, DpInv, DnsInv, ForeignInv, ForeignRecords, Alive, ext

\* The levels stay, and so does what the job asks for.
LEMMA ExtQuiet ==
  ASSUME NEW S \in SUBSET Rules, ExtInv(S), Alive, UNCHANGED ext, LevelsKept, config' = config,
         \A i \in Rules : Level(i) = 0 \/ Same(Target(wJob, i), Target(wJob, i)')
  PROVE  ExtInv(S)'
<1>1. \A i \in Rules : Old(i)' = Old(i)
  BY DEF Old
<1>2. \A i \in Rules : Same(Cur(0, i), Cur(0, i)') /\ Same(Cur(1, i), Cur(1, i)')
  BY <1>1 DEF Cur, Same, LevelsKept
<1>3. Loose(S) \subseteq Loose(S)'
  BY <1>1 DEF Loose, LevelsKept
<1> QED
  BY <1>2, <1>3, ExtSame, ConstFacts

\* What the levels and the job say about the rules in force, when rule p of
\* level l goes from one operation to the next.
LEMMA CurMoves ==
  ASSUME TypeInv, NEW p \in Rules, NEW l \in 0 .. 1, NEW v \in {l, l + 1},
         {Level(p), v} = {l, l + 1}, LevelMoves(p, v), config' = config,
         \A i \in Rules : Same(Target(wJob, i), Target(wJob, i)')
  PROVE  /\ \A i \in Rules : i # p \/ l # 0 => Same(Cur(0, i), Cur(0, i)')
         /\ \A i \in Rules : i # p \/ l # 1 => Same(Cur(1, i), Cur(1, i)')
         /\ Cur(l, p) = IF v = l THEN Target(wJob, p) ELSE Old(p)
         /\ Cur(l, p)' = IF v = l THEN Old(p) ELSE Target(wJob, p)'
<1>1. \A i \in Rules : Old(i)' = Old(i) /\ Level(i) \in 0 .. 2
  BY LevelTyped DEF Old
<1>2. \/ v = l /\ Level(p) = l + 1
      \/ v = l + 1 /\ Level(p) = l
  OBVIOUS
<1>3. \A i \in Rules : Same(Old(i), Old(i)')
  BY <1>1 DEF Same
<1>4. \A i \in Rules : i # p => Same(Cur(0, i), Cur(0, i)') /\ Same(Cur(1, i), Cur(1, i)')
  BY <1>3 DEF Cur, LevelMoves
<1>5. l # 0 => Same(Cur(0, p), Cur(0, p)')
  BY <1>2 DEF Cur, LevelMoves
<1>6. l # 1 => Same(Cur(1, p), Cur(1, p)')
  BY <1>2, <1>3 DEF Cur, LevelMoves
<1>7. /\ Cur(l, p) = IF v = l THEN Target(wJob, p) ELSE Old(p)
      /\ Cur(l, p)' = IF v = l THEN Old(p) ELSE Target(wJob, p)'
  BY <1>1, <1>2 DEF Cur, LevelMoves
<1> QED
  BY <1>4, <1>5, <1>6, <1>7

\* Nothing becomes strict that was loose, but rule p when its level 0 is moved.
LEMMA LooseMoves ==
  ASSUME TypeInv, NEW S \in SUBSET Rules, NEW p \in Rules, NEW l \in 0 .. 1, NEW v \in {l, l + 1},
         {Level(p), v} = {l, l + 1}, LevelMoves(p, v), config' = config
  PROVE  \A i \in Loose(S) : i # p \/ l # 0 => i \in Loose(S)'
<1> SUFFICES ASSUME NEW i \in Loose(S), i # p \/ l # 0 PROVE i \in Loose(S)'
  OBVIOUS
<1>1. i \in Rules /\ Level(i) = 0
  BY DEF Loose
<1>2. Level(p) \in {l, l + 1}
  OBVIOUS
<1>3. i # p
  BY <1>1, <1>2
<1>4. Level(i)' = 0 /\ Old(i)' = Old(i)
  BY <1>1, <1>3 DEF LevelMoves, Old
<1> QED
  BY <1>4 DEF Loose

\* The two steps without an operation.
LEMMA ExtNothing ==
  ASSUME NEW S \in SUBSET Rules, TypeInv, ExtInv(S), Alive, UNCHANGED ext,
         NEW p \in Rules, NEW l \in 0 .. 1, NEW v \in {l, l + 1}, {Level(p), v} = {l, l + 1}, LevelMoves(p, v),
         config' = config, wJob' = wJob, ~HasOperation(p, l)
  PROVE  ExtInv(S)'
<1>1. \A i \in Rules : Same(Target(wJob, i), Target(wJob, i)')
  BY DEF Same, Target
<1>2. /\ \A i \in Rules : i # p \/ l # 0 => Same(Cur(0, i), Cur(0, i)')
      /\ \A i \in Rules : i # p \/ l # 1 => Same(Cur(1, i), Cur(1, i)')
  BY <1>1, CurMoves
<1> USE ConstFacts
<1>3. l = 1 /\ DnsType # "dataplane" => p \notin DnsRules
  BY DEF HasOperation
<1>4. \A i \in Rules : HasOperation(i, WaitMp2) => Same(Cur(0, i), Cur(0, i)')
  BY <1>2
<1>5. DnsType # "dataplane" => \A i \in DnsRules : Same(Cur(1, i), Cur(1, i)')
  BY <1>2, <1>3
<1>6. Loose(S) \subseteq Loose(S)'
  <2>1. \A i \in Loose(S) : i # p \/ l # 0 => i \in Loose(S)'
    BY LooseMoves
  <2>2. l = 0 => p \notin Loose(S)
    BY DEF Loose
  <2> QED
    BY <2>1, <2>2
<1> QED
  BY <1>4, <1>5, <1>6, ExtSame

LEMMA ExtNext ==
  ASSUME NEW S \in SUBSET Rules, Benign, TypeInv, PlanInv, StateInv, StateInv', LoadInv, ExtInv(S),
         Next
  PROVE  ExtInv(S)'
<1> USE ConstFacts
<1>t. /\ lvl \in 0 .. 1 /\ snap \in 0 .. 2
      /\ pc \in Running => wStatus \in Statuses /\ wJob \in Jobs
  BY DEF TypeInv, TypeOK, LockInv
<1>h. pc \in {"apply", "revert"} /\ pos \in Rules => Here \in Rules
  BY HereFacts DEF Running
<1>0. "lost" \notin Faults /\ "config" \notin Faults
  BY DEF Benign
<1>1. CASE Request
  <2>1. UNCHANGED ext /\ config' = config /\ pc = "idle" /\ pc' = "staged"
    BY <1>1 DEF Request, StageNewTask, TypeInv, LockInv
  <2>2. LevelsKept /\ \A i \in Rules : Level(i) = 0
    BY <2>1 DEF LevelsKept, Level
  <2> QED
    BY <2>1, <2>2, ExtQuiet DEF Alive
<1>2. CASE StartTask \/ StartFails
  <2>1. UNCHANGED ext /\ config' = config /\ pc = "staged" /\ pc' \in {"apply", "idle"}
    BY <1>2 DEF StartTask, StartFails, dbs
  <2>2. LevelsKept
    BY <1>2, <2>1, LevelQuiet
  <2> QED
    BY <2>1, <2>2, ExtQuiet DEF Alive, Level
<1>3. CASE SkipUnlisted \/ ApplyRecord \/ ApplyDone \/ SkipRevert \/ RevertRecord \/ RevertDone \/ Fail
  <2>1. /\ UNCHANGED ext /\ config' = config /\ wJob' = wJob
        /\ pc \notin {"stuck", "crashed"} /\ pc' \notin {"stuck", "crashed"}
    BY <1>3 DEF SkipUnlisted, ApplyRecord, ApplyDone, SkipRevert, RevertRecord, RevertDone, Fail,
                AtApply, AtRevert, NextRevert, dbs, mem
  <2>2. LevelsKept
    BY <1>3, <2>1, LevelQuiet
  <2>3. \A i \in Rules : Same(Target(wJob, i), Target(wJob, i)')
    BY <2>1 DEF Target, Same
  <2> QED
    BY <2>1, <2>2, <2>3, ExtQuiet DEF Alive
<1>4. CASE Clean
  <2>1. UNCHANGED ext /\ config' = config /\ pc = "clean" /\ pc' \in {"idle", "stuck"}
    BY <1>4 DEF Clean
  <2>2. CASE pc' = "stuck"
    BY <2>1, <2>2, ExtDead
  <2>3. CASE pc' = "idle"
    <3>1. LevelsKept /\ \A i \in Rules : Level(i) = 0
      BY <2>1, <2>3 DEF LevelsKept, Level
    <3> QED
      BY <2>1, <3>1, ExtQuiet DEF Alive
  <2> QED
    BY <2>1, <2>2, <2>3
<1>5. CASE ApplyPanic \/ RevertRecordFails \/ Crash
  BY <1>5, ExtDead DEF ApplyPanic, RevertRecordFails, Crash
<1>6. CASE ApplyRecordFails
  BY <1>6 DEF ApplyRecordFails, Benign
<1>7. CASE WriteConfig
  <2>1. /\ pc = "write" /\ pc' = "clean" /\ UNCHANGED ext
        /\ config' = IF wJob.op = "DELETE" THEN NoConfig ELSE wJob.cfg
        /\ \A i \in Rules : wStatus.method[i] # "none" => wStatus.state[i] = 2
        /\ \A i \in Rules : wStatus.method[i] = "none" => wStatus.state[i] = 0
    BY <1>0, <1>7 DEF WriteConfig, StateInv, Working, Running, Listed
  <2>2. wJob.cfg # NoConfig
    BY <1>t, <2>1, SentinelAssumption DEF Running, Jobs
  <2>3. \A i \in Rules : Old(i)' = Target(wJob, i)
    BY <2>1, <2>2 DEF Old, RuleIn, Target
  <2>4. \A i \in Rules : wStatus.method[i] = "none" => Target(wJob, i) = Old(i)
    BY <2>1 DEF PlanInv, Plan, Working, Running
  <2>5. \A i \in Rules : Level(i) = wStatus.state[i] /\ Level(i)' = 0
    BY <2>1 DEF Level
  <2>6. \A i \in Rules : Cur(0, i) = Target(wJob, i) /\ Cur(1, i) = Target(wJob, i)
    BY <2>1, <2>4, <2>5 DEF Cur
  <2>7. \A i \in Rules : Cur(0, i)' = Target(wJob, i) /\ Cur(1, i)' = Target(wJob, i)
    BY <2>3, <2>5 DEF Cur
  <2>8. \A i \in Rules : Same(Cur(0, i), Cur(0, i)') /\ Same(Cur(1, i), Cur(1, i)')
    BY <2>6, <2>7 DEF Same
  <2>9. Loose(S) \subseteq Loose(S)'
    <3> SUFFICES ASSUME NEW i \in Loose(S) PROVE i \in Loose(S)'
      OBVIOUS
    <3>1. i \in Rules /\ Level(i) = 0
      BY DEF Loose
    <3>2. wStatus.method[i] = "none"
      BY <2>1, <2>5, <3>1
    <3>3. Old(i)' = Old(i) /\ Level(i)' = 0
      BY <2>3, <2>4, <2>5, <3>1, <3>2
    <3> QED
      BY <3>3 DEF Loose
  <2> QED
    BY <2>1, <2>8, <2>9, ExtSame DEF Alive
<1>8. CASE ApplyCall
  <2>0. PICK p, l, call, r :
          /\ p = Here /\ l = lvl /\ r = ApplyNew(Here)
          /\ call = CallFor(ApplyFn(wStatus.method[Here]), ApplyNew(Here), ApplyOld(Here))
    OBVIOUS
  <2>1. /\ pc = "apply" /\ pos \in Rules /\ p \in Rules /\ Listed(p) /\ HasOperation(p, l)
        /\ ~Panics(ApplyFn(wStatus.method[p]), ApplyOld(p))
        /\ wJob' = [wJob EXCEPT !.cfg[p] = Norm(wJob.cfg[p])]
        /\ UNCHANGED <<config, wConfig, wStatus>>
    BY <1>8, <1>h, <2>0 DEF ApplyCall, AtApply, dbs
  <2>2. \/ UNCHANGED ext /\ BeginRevert
        \/ /\ Accepts(l, call, r) /\ Send(p, l, call, r)
           /\ pc' = "record" /\ UNCHANGED <<pos, lvl, snap>>
    <3>1. PICK ok \in BOOLEAN : /\ Outcome(p, l, call, r, ok, "call")
                                /\ IF ok THEN pc' = "record" /\ UNCHANGED loop ELSE BeginRevert
      BY <1>8, <2>0 DEF ApplyCall, Outcome, Accepts, Send, DataPlane, DnsServer
    <3> QED
      BY <1>0, <3>1 DEF Outcome, loop
  <2>3. \A i \in Rules : Same(Target(wJob, i), Target(wJob, i)')
    <3>1. /\ wJob'.op = wJob.op
          /\ \A m \in Rules : wJob'.cfg[m] = IF m = p THEN Norm(wJob.cfg[m]) ELSE wJob.cfg[m]
      BY <1>t, <2>1, JobNorm DEF Running
    <3>2. \A i \in Rules : wJob.cfg[i] \in {NoRule} \cup RuleOf(i)
      BY <1>t, <2>1, CfgTyped DEF Running, Jobs
    <3>3. \A i \in Rules : Same(wJob.cfg[i], Norm(wJob.cfg[i]))
      BY <3>2, NormFacts DEF Same, Active
    <3> QED
      BY <3>1, <3>3 DEF Target, Same
  <2>4. CASE UNCHANGED ext /\ BeginRevert
    BY <2>1, <2>3, <2>4, LevelTurn, ExtQuiet DEF Alive
  <2>5. CASE /\ Accepts(l, call, r) /\ Send(p, l, call, r)
             /\ pc' = "record" /\ UNCHANGED <<pos, lvl, snap>>
    <3>1. Level(p) = l /\ LevelMoves(p, l + 1) /\ l \in 0 .. 1
      BY <1>t, <2>0, <2>1, <2>5, LevelUp
    <3>2. /\ \A i \in Rules : i # p \/ l # 0 => Same(Cur(0, i), Cur(0, i)')
          /\ \A i \in Rules : i # p \/ l # 1 => Same(Cur(1, i), Cur(1, i)')
          /\ Cur(l, p) = Old(p) /\ Cur(l, p)' = Target(wJob, p)'
      BY <2>1, <2>3, <3>1, CurMoves
    <3>3. /\ Moves(call, Old(p), Target(wJob, p), r)
          /\ (p \in DnsRules => r.name \in Names \ Foreign) /\ r.val \in Vals
      BY <2>0, <2>1, ApplyMoves
    <3>4. Moves(call, Cur(l, p), Cur(l, p)', r)
      <4>1. Same(Target(wJob, p), Target(wJob, p)')
        BY <2>1, <2>3
      <4> QED
        BY <3>2, <3>3, <4>1 DEF Moves, Same, Calls
    <3>5. \A i \in Loose(S) : i # p \/ l # 0 => i \in Loose(S)'
      BY <2>1, <3>1, LooseMoves
    <3> QED
      BY <2>1, <2>5, <3>1, <3>2, <3>3, <3>4, <3>5, ExtCall DEF Alive
  <2> QED
    BY <2>2, <2>4, <2>5
<1>9. CASE ApplyNothing
  <2>0. PICK p, l : p = Here /\ l = lvl
    OBVIOUS
  <2>1. /\ pc = "apply" /\ pos \in Rules /\ p \in Rules /\ Listed(p) /\ ~HasOperation(p, l) /\ UNCHANGED ext
        /\ UNCHANGED <<config, wJob, wConfig, wStatus>>
        /\ pc' = "record" /\ UNCHANGED <<pos, lvl, snap>>
    BY <1>9, <1>h, <2>0 DEF ApplyNothing, AtApply, dbs, loop, mem
  <2>2. Level(p) = l /\ LevelMoves(p, l + 1) /\ l \in 0 .. 1
    BY <1>t, <2>0, <2>1, LevelUp
  <2> QED
    BY <2>1, <2>2, ExtNothing DEF Alive
<1>10. CASE RevertNothing
  <2>0. PICK p, l : p = Here /\ l = lvl
    OBVIOUS
  <2>1. /\ pc = "revert" /\ pos \in Rules /\ p \in Rules /\ Listed(p) /\ ~HasOperation(p, l) /\ UNCHANGED ext
        /\ UNCHANGED <<config, wJob, wConfig, wStatus>> /\ lvl < RuleState /\ AfterRevertCall
    BY <1>10, <1>h, <2>0 DEF RevertNothing, AtRevert, dbs, mem
  <2>2. Level(p) = l + 1 /\ LevelMoves(p, l) /\ l \in 0 .. 1
    BY <1>t, <2>0, <2>1, LevelDown
  <2> QED
    BY <2>1, <2>2, ExtNothing DEF Alive
<1>11. CASE RevertCall
  <2>0. PICK p, l, call, r :
          /\ p = Here /\ l = lvl /\ r = RevertNew(Here)
          /\ call = CallFor(RevertFn(wStatus.method[Here]), RevertNew(Here), RevertOld(Here))
    OBVIOUS
  <2>1. /\ pc = "revert" /\ pos \in Rules /\ p \in Rules /\ Listed(p) /\ HasOperation(p, l)
        /\ lvl < RuleState /\ config' = config
    BY <1>11, <1>h, <2>0 DEF RevertCall, AtRevert, dbs
  <2>2. \/ UNCHANGED ext /\ pc' = "stuck"
        \/ /\ Accepts(l, call, r) /\ Send(p, l, call, r)
           /\ AfterRevertCall /\ UNCHANGED <<wJob, wConfig, wStatus>>
    <3>1. PICK ok \in BOOLEAN : /\ Outcome(p, l, call, r, ok, "undo")
                                /\ IF ok THEN AfterRevertCall /\ UNCHANGED mem
                                         ELSE pc' = "stuck" /\ Forget
      BY <1>11, <2>0 DEF RevertCall, Outcome, Accepts, Send, DataPlane, DnsServer
    <3> QED
      BY <1>0, <3>1 DEF Outcome, mem
  <2>4. CASE UNCHANGED ext /\ pc' = "stuck"
    BY <2>4, ExtDead
  <2>5. CASE /\ Accepts(l, call, r) /\ Send(p, l, call, r)
             /\ AfterRevertCall /\ UNCHANGED <<wJob, wConfig, wStatus>>
    <3>1. Level(p) = l + 1 /\ LevelMoves(p, l) /\ l \in 0 .. 1
      BY <1>t, <2>0, <2>1, <2>5, LevelDown
    <3>2. \A i \in Rules : Same(Target(wJob, i), Target(wJob, i)')
      BY <2>5 DEF Target, Same
    <3>3. /\ \A i \in Rules : i # p \/ l # 0 => Same(Cur(0, i), Cur(0, i)')
          /\ \A i \in Rules : i # p \/ l # 1 => Same(Cur(1, i), Cur(1, i)')
          /\ Cur(l, p) = Target(wJob, p) /\ Cur(l, p)' = Old(p)
      BY <2>1, <3>1, <3>2, CurMoves
    <3>4. /\ Moves(call, Target(wJob, p), Old(p), r)
          /\ call # "None" => (p \in DnsRules => r.name \in Names \ Foreign) /\ r.val \in Vals
      BY <2>0, <2>1, <3>1, RevertMoves
    <3>5. \A i \in Loose(S) : i # p \/ l # 0 => i \in Loose(S)'
      BY <2>1, <3>1, LooseMoves
    <3> QED
      BY <2>1, <2>5, <3>1, <3>3, <3>4, <3>5, ExtCall DEF Alive
  <2> QED
    BY <2>2, <2>4, <2>5
<1> QED
  BY <1>1, <1>2, <1>3, <1>4, <1>5, <1>6, <1>7, <1>8, <1>9, <1>10, <1>11 DEF Next, Task
----------------------------------------------------------------------------
LEMMA IInvInit == Init => IInv
<1> SUFFICES ASSUME Init PROVE IInv
  OBVIOUS
<1> USE ConstFacts
<1>1. TypeInv
  BY TypeInit
<1>2. PlanInv /\ StateInv /\ LoadInv
  BY DEF Init, PlanInv, StateInv, LoadInv, Old, RuleIn, Working, Running
<1>3. \A i \in Rules : Cur(0, i) = NoRule /\ Cur(1, i) = NoRule
  BY DEF Init, Cur, Level, Old, RuleIn
<1>4. DpInv({})
  BY <1>3 DEF Init, DpInv, DpAgrees, Active
<1>5. DnsInv
  BY <1>3 DEF Init, DnsInv, DnsAgrees, Active
<1>6. ForeignInv
  BY ParamAssumption DEF Init, ForeignInv, ForeignRecords
<1> QED
  BY <1>1, <1>2, <1>4, <1>5, <1>6 DEF IInv, IInvBut

\* Whatever rules an update has left loose, a step keeps the others strict.
LEMMA IInvButNext ==
  ASSUME NEW S \in SUBSET Rules, Benign, IInvBut(S), [Next]_vars
  PROVE  IInvBut(S)'
<1>1. TypeInv'
  BY TypeNext DEF IInvBut
<1>2. CASE Next
  <2>1. PlanInv' /\ StateInv'
    BY <1>1, <1>2, StateNext, PlanNext DEF IInvBut
  <2>2. LoadInv'
    BY <1>2, <2>1, LoadNext DEF IInvBut
  <2>3. ExtInv(S)'
    BY <1>2, <2>1, ExtNext DEF IInvBut, ExtInv
  <2> QED
    BY <1>1, <2>1, <2>2, <2>3 DEF IInvBut, ExtInv
<1>3. CASE UNCHANGED vars
  <2>1. /\ UNCHANGED <<config, job, status, dp, dns, wJob, wConfig, wStatus, pc, pos, lvl, snap>>
        /\ UNCHANGED ext
    BY <1>3 DEF vars, ext
  <2>2. PlanInv' /\ StateInv'
    BY <2>1, RankKept DEF IInvBut, PlanInv, StateInv, Plan, Target, Old, Listed
  <2>3. LevelsKept
    BY <2>1, RankKept DEF LevelsKept, Level
  <2>4. LoadInv'
    BY <2>1, <2>3 DEF IInvBut, LoadInv, LevelsKept
  <2>5. ExtInv(S)'
    <3>1. CASE Alive
      <4>1. \A i \in Rules : Same(Target(wJob, i), Target(wJob, i)')
        BY <2>1 DEF Target, Same
      <4> QED
        BY <2>1, <2>3, <3>1, <4>1, ExtQuiet DEF IInvBut, ExtInv
    <3>2. CASE ~Alive
      BY <2>1, <3>2, ExtDead DEF IInvBut, ExtInv, Alive
    <3> QED
      BY <3>1, <3>2
  <2> QED
    BY <1>1, <2>2, <2>4, <2>5 DEF IInvBut, ExtInv
<1> QED
  BY <1>2, <1>3

LEMMA IInvNext == Benign /\ IInv /\ [Next]_vars => IInv'
BY IInvButNext DEF IInv

\* An application none of whose rules is being changed, seen from outside.
LEMMA MatchesBut ==
  ASSUME NEW S \in SUBSET Rules, IInvBut(S), Alive, \A i \in Rules : Level(i) = 0
  PROVE  DnsRecords = DnsOf(config) /\ \A i \in Rules \ Loose(S) : dp[i] = DpOf(config)[i]
<1> USE ConstFacts
<1>1. \A i \in Rules : Cur(0, i) = RuleIn(config, i) /\ Cur(1, i) = RuleIn(config, i)
  BY DEF Cur, Old
<1>2. \A i \in Rules \ Loose(S) : dp[i] = DpOf(config)[i]
  BY <1>1 DEF IInvBut, DpInv, DpAgrees, DpOf
<1>3. DnsRecords = DnsOf(config)
  <2>1. CASE DnsType = "dataplane"
    BY <2>1 DEF IInvBut, ForeignInv, DnsRecords, DnsOf
  <2>2. CASE DnsType # "dataplane"
    <3>1. PICK c : c = [i \in Rules |-> Cur(1, i)]
      OBVIOUS
    <3>2. DnsAgrees(dns, c)
      BY <2>2, <3>1 DEF IInvBut, DnsInv
    <3>3. \A i \in DnsRules : c[i] = RuleIn(config, i)
      BY <1>1, <3>1
    <3>4. \A i \in DnsRules : Active(c[i]) => c[i].name \in Names \ Foreign /\ c[i].val \in Vals
      BY <3>1, CurNames DEF IInvBut
    <3>5. ASSUME NEW x \in DnsRecords PROVE x \in DnsOf(config)
      <4>1. PICK m \in Names \ Foreign : dns[m] # NoAddr /\ x = <<m, dns[m]>>
        BY DEF DnsRecords
      <4>2. PICK i \in DnsRules : Active(c[i]) /\ c[i].name = m
        BY <3>2, <4>1 DEF DnsAgrees
      <4>3. dns[m] = c[i].val
        BY <3>2, <4>2 DEF DnsAgrees
      <4>4. i \in {j \in DnsRules : DnsType # "dataplane" /\ Active(RuleIn(config, j))}
        BY <2>2, <3>3, <4>2
      <4>5. x = <<RuleIn(config, i).name, RuleIn(config, i).val>>
        BY <3>3, <4>1, <4>2, <4>3
      <4> QED
        BY <4>4, <4>5 DEF DnsOf
    <3>6. ASSUME NEW x \in DnsOf(config) PROVE x \in DnsRecords
      <4>1. PICK i \in DnsRules : /\ Active(RuleIn(config, i))
                                  /\ x = <<RuleIn(config, i).name, RuleIn(config, i).val>>
        BY DEF DnsOf
      <4>2. Active(c[i]) /\ x = <<c[i].name, c[i].val>>
        BY <3>3, <4>1
      <4>3. c[i].name \in Names \ Foreign /\ dns[c[i].name] = c[i].val /\ c[i].val # NoAddr
        BY <3>2, <3>4, <4>2, SentinelAssumption DEF DnsAgrees
      <4> QED
        BY <4>2, <4>3 DEF DnsRecords
    <3> QED
      BY <3>5, <3>6
  <2> QED
    BY <2>1, <2>2
<1> QED
  BY <1>2, <1>3

LEMMA MatchesFromIInv ==
  ASSUME IInv, Alive, \A i \in Rules : Level(i) = 0
  PROVE  Matches(config)
<1>1. DnsRecords = DnsOf(config) /\ \A i \in Rules : dp[i] = DpOf(config)[i]
  <2>1. Loose({}) = {} /\ IInvBut({}) /\ {} \in SUBSET Rules
    BY DEF IInv, Loose
  <2>2. DnsRecords = DnsOf(config) /\ \A i \in Rules \ Loose({}) : dp[i] = DpOf(config)[i]
    BY <2>1, MatchesBut
  <2> QED
    BY <2>1, <2>2
<1>2. dp = [i \in Rules |-> dp[i]]
  BY DEF IInv, IInvBut, TypeInv, TypeOK
<1>3. DpOf(config) = [i \in Rules |-> DpOf(config)[i]]
  BY DEF DpOf
<1> QED
  BY <1>1, <1>2, <1>3 DEF Matches

LEMMA SettledFromIInv == IInv => SettledWhenUnlocked
<1> SUFFICES ASSUME IInv, job = NoJob PROVE Matches(config)
  BY DEF SettledWhenUnlocked
<1>1. pc = "idle" /\ Alive
  BY DEF IInv, IInvBut, TypeInv, LockInv, Alive
<1>2. \A i \in Rules : Level(i) = 0
  BY <1>1 DEF Level
<1> QED
  BY <1>1, <1>2, MatchesFromIInv

\* All or nothing: calls, reads, reverts, the clean-up and the process may fail
\* in any order, and names may be handed over between rules; whenever the
\* application is unlocked, the data plane and the DNS server hold exactly the
\* active rules of the stored configuration (ProcessDataPlaneSync).
THEOREM AllOrNothing == Benign /\ Spec => []SettledWhenUnlocked
<1> SUFFICES ASSUME Benign PROVE Spec => []SettledWhenUnlocked
  OBVIOUS
<1>1. IInv /\ [Next]_vars => IInv'
  BY IInvNext
<1> QED
  BY IInvInit, <1>1, SettledFromIInv, PTL DEF Spec

\* Under the same conditions no task ever changes a DNS record of another
\* application, not even in the middle of
\* reverting, nor does the stored configuration get hold of their names.
THEOREM ForeignSafe == Benign /\ Spec => []ForeignUntouched
<1> SUFFICES ASSUME Benign PROVE Spec => []ForeignUntouched
  OBVIOUS
<1>1. IInv /\ [Next]_vars => IInv'
  BY IInvNext
<1>2. IInv => ForeignUntouched
  BY DEF IInv, IInvBut, ForeignInv, PlanInv, Old, ForeignUntouched
<1> QED
  BY IInvInit, <1>1, <1>2, PTL DEF Spec
=============================================================================
