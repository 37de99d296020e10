------------------------------ MODULE Mp1Rules ------------------------------
(***************************************************************************)
(* The Mp1 side of the rules of one application: DNSRuleUpdate and         *)
(* TrafficRuleUpdate (mp1/plans) change one rule of the stored             *)
(* configuration, the DNS server and the data plane, and undo on failure.  *)
(* They share all of that with the task of AppDSync, whose job entry they  *)
(* never look at, and with each other.                                     *)
(*                                                                         *)
(* Answers that change nothing (no such rule, an If-Match tag that does    *)
(* not match, a DNS rule in the state it is in) are left out.              *)
(***************************************************************************)
EXTENDS AppDSync

CONSTANTS
  Clients,     \* the Mp1 requests that may be under way at a time
  Mp1States,   \* the rule states an Mp1 request may carry
  StoreFaults, \* whether a write of an update to the store may fail
  NoUpdate     \* a client without a request

ASSUME Mp1Assumption ==
  /\ DnsType = "all"       \* with "local" the code tells the data plane all the
                           \* same, with "dataplane" there is no DNS agent
  /\ Mp1States \subseteq {"", "ACTIVE", "INACTIVE"}
  /\ StoreFaults \in BOOLEAN

VARIABLES
  upd,     \* the update of every client
  raced,   \* an update and another writer of the configuration overlapped
  broken   \* a step of a failed update could not be undone

mp1 == <<upd, raced, broken>>
mp1Vars == <<vars, mp1>>

Updates == [pc    : {"store", "dns", "dp", "undo", "again", "unstore"},
            rule  : Rules,
            new   : UNION {RuleOf(i) : i \in Rules},
            base  : Configs,
            went  : {"well", "wrong", "back"}]  \* ... and the DNS record is back

ASSUME UpdateAssumption == NoUpdate \notin Updates

Busy == {u \in Clients : upd[u] # NoUpdate}
OldRule(u) == upd[u].base[upd[u].rule]

At(u, pcs) == upd[u] # NoUpdate /\ upd[u].pc \in pcs
Goto(u, p) == upd' = [upd EXCEPT ![u].pc = p]
Failed(u, p) == upd' = [upd EXCEPT ![u].pc = p, ![u].went = "wrong"]
Done(u) == upd' = [upd EXCEPT ![u] = NoUpdate]

\* Bound: a behaviour is followed to the end of the requests that overlap
\* first, or of the one that could not be undone.
Followed == ~raced /\ ~broken

\* What a body may say of a rule.  A traffic rule need not have a state
\* (DecodeTrafficRestReq: omitempty), a DNS rule must (validateInputs).
Bodies(i) == {new \in RuleOf(i) : /\ new.state \in Mp1States
                                  /\ i \in DnsRules => new.state # ""}

\* validateInputs: only the state of a DNS rule may change.  Anything of a
\* traffic rule may, or nothing that is told apart here.
Acceptable(i, old, new) ==
  i \in DnsRules => new # old /\ new = [old EXCEPT !.state = new.state]

\* The stored configuration has the rule, and the request fits.
Fits(i, new) == RuleIn(config, i) # NoRule /\ Acceptable(i, config[i], new)

\* A task that has written the configuration, or undone all it did, has only
\* its job entry left to delete.
TaskWrites == pc \notin {"idle", "fail", "clean"}

\* Mutant: nobody asks whether the application has the rule.
BeginUnchecked(u, i, new) ==
  /\ Followed
  /\ upd[u] = NoUpdate
  /\ RuleIn(config, i) # NoRule => Acceptable(i, config[i], new)
  /\ upd' = [upd EXCEPT ![u] = [pc |-> "store", rule |-> i, new |-> new,
                                base |-> config, went |-> "well"]]
  /\ raced' = (raced \/ TaskWrites \/ Busy # {})
  /\ UNCHANGED <<vars, broken>>

\* OnRequest up to the write: reads the whole configuration, finds the rule.
BeginUpdate(u, i, new) ==
  /\ Followed
  /\ upd[u] = NoUpdate
  /\ Fits(i, new)
  /\ upd' = [upd EXCEPT ![u] = [pc |-> "store", rule |-> i, new |-> new,
                                base |-> config, went |-> "well"]]
  /\ raced' = (raced \/ TaskWrites \/ Busy # {})
  /\ UNCHANGED <<vars, broken>>

\* The whole configuration that was read is written back, with the new rule.
StoreUpdate(u) ==
  /\ At(u, {"store"})
  /\ \/ /\ config' = [upd[u].base EXCEPT ![upd[u].rule] = upd[u].new]
        /\ Goto(u, IF upd[u].rule \in DnsRules THEN "dns" ELSE "dp")
     \/ StoreFaults /\ Done(u) /\ UNCHANGED config
  /\ UNCHANGED <<job, status, ext, mem, pc, loop, raced, broken>>

DnsCall(new) == IF new.state = "ACTIVE" THEN "Add" ELSE "Delete"
UndoCall(new) == IF new.state = "ACTIVE" THEN "Delete" ELSE "Add"

\* The data plane is told of a DNS rule like the DNS server.  A traffic rule
\* that stays ACTIVE is set, one that stays as it is otherwise is not sent.
\* Unlike the operations of a task, this one does not take "" for ACTIVE: a
\* rule that is to have no state is deleted.
DataPlaneCall(i, old, new) ==
  IF i \in DnsRules \/ old.state # new.state THEN DnsCall(new)
  ELSE IF new.state = "ACTIVE" THEN "Set" ELSE "None"

\* updateDnsRecordToRemoteServer: the DNS server first.
UpdateDns(u) ==
  /\ At(u, {"dns"})
  /\ \E ok \in BOOLEAN :
       /\ Outcome(upd[u].rule, WaitLocal, DnsCall(upd[u].new), upd[u].new, ok, "call")
       /\ IF ok THEN Goto(u, "dp") ELSE Failed(u, "unstore")
  /\ UNCHANGED <<dbs, mem, pc, loop, raced, broken>>

\* Mutant: the record on the DNS server is not taken back.
UpdateDataPlaneKeepsDns(u) ==
  LET i == upd[u].rule
      call == DataPlaneCall(i, OldRule(u), upd[u].new)
  IN /\ At(u, {"dp"})
     /\ \E ok \in BOOLEAN :
          /\ Outcome(i, WaitMp2, call, upd[u].new, ok, "call")
          /\ IF ok THEN Done(u) ELSE Failed(u, "unstore")
     /\ UNCHANGED <<dbs, mem, pc, loop, raced, broken>>

\* Then the data plane: updateDNSToDataPlane, and the calls of applyTrafficRule.
UpdateDataPlane(u) ==
  LET i == upd[u].rule
      call == DataPlaneCall(i, OldRule(u), upd[u].new)
  IN /\ At(u, {"dp"})
     /\ \E ok \in BOOLEAN :
          /\ Outcome(i, WaitMp2, call, upd[u].new, ok, "call")
          /\ IF ok THEN Done(u)
             ELSE Failed(u, IF i \in DnsRules THEN "undo" ELSE "unstore")
     /\ UNCHANGED <<dbs, mem, pc, loop, raced, broken>>

\* The record is taken back by updateDNSToDataPlane and once more by its
\* caller (revertEntryFromDNSServer), which is refused if the first one was
\* done.  Errors are only logged.
UndoDns(u) ==
  LET next == IF upd[u].pc = "undo" THEN "again" ELSE "unstore" IN
  /\ At(u, {"undo", "again"})
  /\ \E ok \in BOOLEAN :
       /\ Outcome(upd[u].rule, WaitLocal, UndoCall(upd[u].new), upd[u].new, ok, "undo")
       /\ upd' = [upd EXCEPT ![u].pc = next, ![u].went = IF ok THEN "back" ELSE @]
       /\ broken' = (broken \/ (upd[u].pc = "again" /\ ~ok /\ upd[u].went # "back"))
  /\ UNCHANGED <<dbs, mem, pc, loop, raced>>

\* Mutant: the update stays in the store when it has failed.
UnstoreNothing(u) ==
  /\ At(u, {"unstore"})
  /\ Done(u)
  /\ UNCHANGED <<vars, raced, broken>>

\* revertEntryFromDB, and the last write of applyTrafficRule: what was read is
\* written back; an error is broken.
UnstoreUpdate(u) ==
  /\ At(u, {"unstore"})
  /\ Done(u)
  /\ \/ config' = upd[u].base /\ UNCHANGED broken
     \/ StoreFaults /\ broken' = TRUE /\ UNCHANGED config
  /\ UNCHANGED <<job, status, ext, mem, pc, loop, raced>>

UpdateStep(u) == \/ StoreUpdate(u) \/ UpdateDns(u) \/ UpdateDataPlane(u)
                 \/ UndoDns(u) \/ UnstoreUpdate(u)

\* The requests and the task of AppDSync go on beside the updates.
AppDStep ==
  /\ (Request /\ Followed) \/ Task
  /\ raced' = (raced \/ (TaskWrites' /\ Busy # {}))
  /\ UNCHANGED <<upd, broken>>

Mp1Init ==
  /\ Init
  /\ upd = [u \in Clients |-> NoUpdate]
  /\ raced = FALSE /\ broken = FALSE

Mp1Next ==
  \/ AppDStep
  \/ \E u \in Clients :
       \/ UpdateStep(u)
       \/ \E i \in Rules : \E new \in Bodies(i) : BeginUpdate(u, i, new)

Mp1Spec == Mp1Init /\ [][Mp1Next]_mp1Vars
----------------------------------------------------------------------------
(* Properties.                                                             *)

\* The updates and the variables of AppDSync keep their types.
Mp1TypeOK ==
  /\ TypeOK
  /\ upd \in [Clients -> Updates \cup {NoUpdate}]
  /\ raced \in BOOLEAN /\ broken \in BOOLEAN

\* The rules that configuration c has without a state.
Unstated(c) == {i \in Rules : RuleIn(c, i) # NoRule /\ RuleIn(c, i).state = ""}

\* Whenever nothing is under way, the data plane and the DNS server hold what
\* the stored configuration says, however many tasks and updates failed and
\* were undone, unless an update overlapped with another writer of the
\* configuration, or both attempts to undo a step failed.  (The second undo of
\* a DNS record is refused after the first and must do no harm.)  A traffic
\* rule that was updated to have no state may be on the data plane or not, and
\* is right again with the next task or update that gives it one.
ConsistentWhenQuiet ==
  job = NoJob /\ Busy = {} /\ ~raced /\ ~broken =>
    /\ DnsRecords = DnsOf(config)
    /\ \A i \in Rules \ Unstated(config) : dp[i] = DpOf(config)[i]

\* No task brings a rule without a state into the store, whatever it applied
\* or reverted on the way: only an update does, and a task that leaves
\* such a rule there leaves it as it was.  (A request that says "" where ACTIVE
\* is stored compares as a change; the add and set operations are to normalise
\* the job before it is written.)
TasksNormalise ==
  [][pc = "write" /\ ~raced =>
       \A i \in Unstated(config') : RuleIn(config, i) = config'[i]]_mp1Vars

\* An update that ends has either done all it was asked to do, to the rule it
\* was asked for and to no other, or left the configuration as it was read
\* (DNSRuleUpdate and TrafficRuleUpdate, as long as nobody else writes).
UpdateIsAtomic ==
  [][\A u \in Clients : upd[u] # NoUpdate /\ upd'[u] = NoUpdate /\ ~raced /\ ~broken' =>
       config' \in {upd[u].base, [upd[u].base EXCEPT ![upd[u].rule] = upd[u].new]}
       /\ (upd[u].went # "well" => config' = upd[u].base)]_mp1Vars
=============================================================================
