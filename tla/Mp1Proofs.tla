------------------------------ MODULE Mp1Proofs ------------------------------
(***************************************************************************)
(* Proofs about Mp1Rules, for any number of rules, clients and values: the *)
(* updates of single rules keep the types, end with all or nothing, and    *)
(* leave the data plane and the DNS server in agreement with the stored    *)
(* configuration, beside the tasks of AppDSync, which store no rule        *)
(* without a state.                                                        *)
(***************************************************************************)
EXTENDS Mp1Rules, AppDAtomicProofs

\* What the update of u writes.
NewConfig(u) == [upd[u].base EXCEPT ![upd[u].rule] = upd[u].new]

\* What is known of an update that passed validateInputs.
UpdateInv(u) ==
  upd[u] # NoUpdate =>
    /\ upd[u].new \in RuleOf(upd[u].rule)
    /\ upd[u].rule \in DnsRules => upd[u].new.state # ""
    /\ OldRule(u) # NoRule /\ Acceptable(upd[u].rule, OldRule(u), upd[u].new)
    /\ upd[u].pc \in {"dns", "undo", "again"} => upd[u].rule \in DnsRules
    /\ upd[u].pc \in {"store", "dns", "dp"} <=> upd[u].went = "well"
    /\ upd[u].pc = "undo" => upd[u].went = "wrong"

\* As long as nothing overlaps, the configuration is the one of the update.
HeldInv ==
  ~raced =>
    /\ \A u, v \in Busy : u = v
    /\ Busy # {} => ~TaskWrites
    /\ \A u \in Busy : config = IF upd[u].pc = "store" THEN upd[u].base ELSE NewConfig(u)

Mp1TypeInv ==
  /\ TypeInv
  /\ upd \in [Clients -> Updates \cup {NoUpdate}] /\ raced \in BOOLEAN /\ broken \in BOOLEAN
  /\ \A u \in Clients : UpdateInv(u)

----------------------------------------------------------------------------
(* What the data plane and the DNS server hold.                            *)

\* The rules that configuration c has.
Held(c) == [i \in Rules |-> RuleIn(c, i)]
DpFits(c) == DpAgrees(dp, Held(c), Unstated(c))
DnsFits(c) == DnsAgrees(dns, Held(c))
NamesOwn(c) == \A i \in DnsRules : RuleIn(c, i) # NoRule => RuleIn(c, i).name \notin Foreign

\* The outside agrees with configuration c.
Settled(c) == DpFits(c) /\ DnsFits(c) /\ NamesOwn(c) /\ ForeignRecords
SettledNow == Settled(config)

\* Configuration b with n in the place of rule i.
With(b, i, n) == [b EXCEPT ![i] = n]

\* The DNS server holds the new rule from its call to the one that takes it
\* back ...
HasNew(p, w) == p = "dp" \/ (p \in {"undo", "again"} /\ w = "wrong")
DnsTarget(b, i, n, p, w) == IF HasNew(p, w) THEN With(b, i, n) ELSE b

\* ... its state has changed then, and no other active rule has its name.
Flipped(b, i, n) ==
  /\ Active(n) <=> ~Active(b[i])
  /\ \A j \in DnsRules \ {i} : Active(b[j]) => b[j].name # n.name

\* The data plane comes last: until then it holds what was read.
PlaceFits(b, i, n, p, w) ==
  /\ NamesOwn(b) /\ ForeignRecords /\ DpFits(b) /\ DnsFits(DnsTarget(b, i, n, p, w))
  /\ p \in {"dp", "undo", "again"} /\ i \in DnsRules => Flipped(b, i, n)

FitsInv(u) == PlaceFits(upd[u].base, upd[u].rule, upd[u].new, upd[u].pc, upd[u].went)

\* The invariant of the tasks, when the updates have left rules without a state
\* on the data plane or not.
TaskInv == IInvBut(Rules)

AgreeInv ==
  ~raced /\ ~broken =>
    /\ Busy = {} => IF TaskWrites THEN TaskInv ELSE SettledNow
    /\ \A u \in Busy : FitsInv(u)

Mp1Inv == Mp1TypeInv /\ HeldInv /\ AgreeInv
----------------------------------------------------------------------------
(* How the steps move an update.                                           *)

UpdTyped == upd \in [Clients -> Updates \cup {NoUpdate}]

\* The update of u goes on at p, or ends; the others stay.
Moved(u, p, w) ==
  /\ upd'[u] \in Updates /\ upd'[u].pc = p /\ upd'[u].went = w
  /\ upd'[u].rule = upd[u].rule /\ upd'[u].new = upd[u].new /\ upd'[u].base = upd[u].base
  /\ \A v \in Clients \ {u} : upd'[v] = upd[v]

Left(u) == upd'[u] = NoUpdate /\ \A v \in Clients \ {u} : upd'[v] = upd[v]

Places == {"store", "dns", "dp", "undo", "again", "unstore"}
Ways == {"well", "wrong", "back"}

LEMMA UpdFields ==
  ASSUME UpdTyped, NEW u \in Clients, upd[u] # NoUpdate
  PROVE  /\ upd[u] \in Updates /\ upd[u].pc \in Places /\ upd[u].went \in Ways
         /\ upd[u].rule \in Rules /\ upd[u].base \in Configs
         /\ upd[u].new \in UNION {RuleOf(i) : i \in Rules}
<1>1. upd[u] \in Updates
  BY DEF UpdTyped
<1> QED
  BY <1>1 DEF Updates, Places, Ways

LEMMA GotoMoves ==
  ASSUME UpdTyped, NEW u \in Clients, upd[u] # NoUpdate, NEW p \in Places, Goto(u, p)
  PROVE  UpdTyped' /\ Moved(u, p, upd[u].went)
<1>1. upd[u] \in Updates
  BY DEF UpdTyped
<1>2. [upd[u] EXCEPT !.pc = p] \in Updates
  BY <1>1 DEF Updates, Places
<1>3. upd' = [upd EXCEPT ![u] = [upd[u] EXCEPT !.pc = p]]
  BY DEF Goto
<1>4. UpdTyped'
  BY <1>2, <1>3 DEF UpdTyped
<1>5. upd'[u] = [upd[u] EXCEPT !.pc = p] /\ \A v \in Clients \ {u} : upd'[v] = upd[v]
  BY <1>3 DEF UpdTyped
<1>6. Moved(u, p, upd[u].went)
  BY <1>1, <1>2, <1>5 DEF Moved, Updates
<1> QED
  BY <1>4, <1>6

LEMMA ResultMoves ==
  ASSUME UpdTyped, NEW u \in Clients, upd[u] # NoUpdate, NEW p \in Places, NEW w \in Ways,
         upd' = [upd EXCEPT ![u].pc = p, ![u].went = w]
  PROVE  UpdTyped' /\ Moved(u, p, w)
<1>1. upd[u] \in Updates
  BY DEF UpdTyped
<1>2. PICK g : g = [upd[u] EXCEPT !.pc = p, !.went = w]
  OBVIOUS
<1>3. g \in Updates /\ g.pc = p /\ g.went = w /\ g.rule = upd[u].rule /\ g.new = upd[u].new
        /\ g.base = upd[u].base
  BY <1>1, <1>2 DEF Updates, Places, Ways
<1>4. upd' = [upd EXCEPT ![u] = g]
  <2>1. PICK h : h = [upd[u] EXCEPT !.pc = p]
    OBVIOUS
  <2>2. PICK f : f = [upd EXCEPT ![u] = h]
    OBVIOUS
  <2>3. f[u] = h
    BY <2>2 DEF UpdTyped
  <2>4. upd' = [f EXCEPT ![u].went = w]
    BY <2>1, <2>2
  <2>5. upd' = [f EXCEPT ![u] = g]
    BY <1>2, <2>1, <2>3, <2>4
  <2> QED
    BY <2>2, <2>5 DEF UpdTyped
<1>5. UpdTyped'
  BY <1>3, <1>4 DEF UpdTyped
<1>6. upd'[u] = g /\ \A v \in Clients \ {u} : upd'[v] = upd[v]
  BY <1>4 DEF UpdTyped
<1>7. Moved(u, p, w)
  BY <1>3, <1>6 DEF Moved
<1> QED
  BY <1>5, <1>7

LEMMA DoneLeaves ==
  ASSUME UpdTyped, NEW u \in Clients, Done(u)
  PROVE  UpdTyped' /\ Left(u)
BY DEF UpdTyped, Done, Left

\* Who is busy after such a step.
LEMMA BusyAfter ==
  ASSUME UpdTyped, NEW u \in Clients, upd[u] # NoUpdate
  PROVE  /\ \A p, w : Moved(u, p, w) => Busy' = Busy
         /\ Left(u) => Busy' = Busy \ {u}
BY UpdateAssumption DEF Busy, Moved, Left

\* An update that goes on knows what it knew.
LEMMA MovedKnows ==
  ASSUME \A v \in Clients : UpdateInv(v), UpdTyped, NEW u \in Clients, upd[u] # NoUpdate,
         NEW p \in Places, NEW w \in Ways, Moved(u, p, w),
         p \in {"dns", "undo", "again"} => upd[u].rule \in DnsRules,
         p \in {"store", "dns", "dp"} <=> w = "well",
         p = "undo" => w = "wrong"
  PROVE  \A v \in Clients : UpdateInv(v)'
<1>1. ASSUME NEW v \in Clients \ {u} PROVE UpdateInv(v)'
  BY DEF UpdateInv, Moved, OldRule
<1>2. UpdateInv(u)'
  BY DEF UpdateInv, Moved, OldRule
<1> QED
  BY <1>1, <1>2

LEMMA LeftKnows ==
  ASSUME \A v \in Clients : UpdateInv(v), NEW u \in Clients, Left(u)
  PROVE  \A v \in Clients : UpdateInv(v)'
<1>1. ASSUME NEW v \in Clients \ {u} PROVE UpdateInv(v)'
  BY DEF UpdateInv, Left, OldRule
<1>2. UpdateInv(u)'
  BY DEF UpdateInv, Left
<1> QED
  BY <1>1, <1>2

----------------------------------------------------------------------------
(* Types, and what nobody else changes.                                    *)

\* Both agents take part for every DNS rule.
LEMMA Operations ==
  /\ \A i \in Rules : HasOperation(i, WaitMp2)
  /\ \A i \in DnsRules : HasOperation(i, WaitLocal)
BY Mp1Assumption, ConstFacts DEF HasOperation

\* The updates leave everything of the task alone but what both of them write.
Beside == UNCHANGED <<job, status, wJob, wConfig, wStatus, pc, pos, lvl, snap>>

LEMMA BesideTyped ==
  ASSUME TypeInv, Beside, config' \in Configs \cup {NoConfig}, DpTyped', DnsTyped'
  PROVE  TypeInv'
BY DEF TypeInv, TypeOK, LockInv, HasRuleInv, HasRule, Beside, DpTyped, DnsTyped

LEMMA Mp1Calls ==
  ASSUME NEW i, NEW old, NEW new
  PROVE  DnsCall(new) \in Calls /\ UndoCall(new) \in Calls /\ DataPlaneCall(i, old, new) \in Calls
BY DEF DnsCall, UndoCall, DataPlaneCall, Calls

\* What an update has in hand.
LEMMA InHand ==
  ASSUME Mp1TypeInv, NEW u \in Clients, upd[u] # NoUpdate
  PROVE  /\ upd[u].rule \in Rules /\ upd[u].new \in RuleOf(upd[u].rule) /\ upd[u].base \in Configs
         /\ upd[u].pc \in Places /\ upd[u].went \in Ways
         /\ NewConfig(u) \in Configs
         /\ \A j \in Rules : NewConfig(u)[j] = IF j = upd[u].rule THEN upd[u].new
                                               ELSE upd[u].base[j]
<1>1. /\ upd[u].rule \in Rules /\ upd[u].base \in Configs
      /\ upd[u].pc \in Places /\ upd[u].went \in Ways
  BY UpdFields DEF Mp1TypeInv, UpdTyped
<1>2. upd[u].new \in RuleOf(upd[u].rule)
  BY DEF Mp1TypeInv, UpdateInv
<1> QED
  BY <1>1, <1>2 DEF NewConfig, Configs

\* A call keeps the types of the data plane and the DNS server.
LEMMA CallTypes ==
  ASSUME Mp1TypeInv, NEW u \in Clients, upd[u] # NoUpdate, NEW l \in 0 .. 1,
         l = 1 => upd[u].rule \in DnsRules,
         NEW call \in Calls, NEW ok, NEW fault,
         Outcome(upd[u].rule, l, call, upd[u].new, ok, fault),
         Beside, config' = config
  PROVE  TypeInv'
<1>1. PICK i \in Rules : i = upd[u].rule
  BY InHand
<1>2. PICK r : r = upd[u].new
  OBVIOUS
<1>3. r \in RuleOf(i)
  BY <1>1, <1>2, InHand
<1>4. Outcome(i, l, call, r, ok, fault)
  BY <1>1, <1>2
<1>5. HasOperation(i, l)
  BY <1>1, Operations, ConstFacts
<1>6. DpTyped /\ DnsTyped /\ config \in Configs \cup {NoConfig} /\ TypeInv
  BY DEF Mp1TypeInv, TypeInv, TypeOK, DpTyped, DnsTyped
<1>7. DpTyped' /\ DnsTyped'
  BY <1>3, <1>4, <1>5, <1>6, OutcomeTyped
<1> QED
  BY <1>6, <1>7, BesideTyped

LEMMA UpdateTypes ==
  ASSUME Mp1TypeInv, NEW u \in Clients, UpdateStep(u)
  PROVE  Mp1TypeInv'
<1> USE ConstFacts
<1>u. upd[u] # NoUpdate
  BY DEF UpdateStep, StoreUpdate, UpdateDns, UpdateDataPlane, UndoDns, UnstoreUpdate, At
<1>h. /\ upd[u].rule \in Rules /\ upd[u].base \in Configs /\ NewConfig(u) \in Configs
      /\ upd[u].went \in Ways
  BY <1>u, InHand
<1>t. UpdTyped /\ TypeInv /\ DpTyped /\ DnsTyped
  BY DEF Mp1TypeInv, UpdTyped, TypeInv, TypeOK, DpTyped, DnsTyped
<1>k. /\ \A v \in Clients : UpdateInv(v)
      /\ raced \in BOOLEAN /\ broken \in BOOLEAN
  BY DEF Mp1TypeInv
<1>w. /\ upd[u].pc \in {"store", "dns", "dp"} <=> upd[u].went = "well"
      /\ upd[u].pc \in {"dns", "undo", "again"} => upd[u].rule \in DnsRules
      /\ upd[u].pc = "undo" => upd[u].went = "wrong"
  BY <1>k, <1>u DEF UpdateInv
<1> SUFFICES /\ TypeInv' /\ UpdTyped' /\ (\A v \in Clients : UpdateInv(v)')
             /\ raced' \in BOOLEAN /\ broken' \in BOOLEAN
  BY DEF Mp1TypeInv, UpdTyped
<1>1. CASE StoreUpdate(u)
  <2>1. /\ upd[u].pc = "store" /\ Beside /\ dp' = dp /\ dns' = dns
        /\ raced' = raced /\ broken' = broken
    BY <1>1 DEF StoreUpdate, At, Beside, ext, mem, loop
  <2>2. DpTyped' /\ DnsTyped'
    BY <1>t, <2>1 DEF DpTyped, DnsTyped
  <2>3. CASE config' = NewConfig(u) /\ Goto(u, IF upd[u].rule \in DnsRules THEN "dns" ELSE "dp")
    <3>1. PICK p \in Places : p = IF upd[u].rule \in DnsRules THEN "dns" ELSE "dp"
      BY DEF Places
    <3>2. UpdTyped' /\ Moved(u, p, upd[u].went)
      BY <1>t, <1>u, <2>3, <3>1, GotoMoves
    <3>3. Moved(u, p, "well")
      BY <1>w, <2>1, <3>2
    <3>4. \A v \in Clients : UpdateInv(v)'
      BY <1>k, <1>t, <1>u, <3>1, <3>3, MovedKnows DEF Ways
    <3>5. TypeInv'
      BY <1>h, <1>t, <2>1, <2>2, <2>3, BesideTyped
    <3> QED
      BY <1>k, <2>1, <3>2, <3>4, <3>5
  <2>4. CASE Done(u) /\ UNCHANGED config
    <3>1. UpdTyped' /\ Left(u)
      BY <1>t, <2>4, DoneLeaves
    <3>2. TypeInv'
      BY <1>t, <2>1, <2>2, <2>4, BesideTyped DEF TypeInv, TypeOK
    <3> QED
      BY <1>k, <2>1, <3>1, <3>2, LeftKnows
  <2> QED
    BY <1>1, <2>3, <2>4 DEF StoreUpdate, NewConfig
<1>2. CASE UpdateDns(u)
  <2>1. /\ upd[u].pc = "dns" /\ Beside /\ config' = config /\ raced' = raced /\ broken' = broken
    BY <1>2 DEF UpdateDns, At, Beside, dbs, mem, loop
  <2>2. PICK ok \in BOOLEAN :
          /\ Outcome(upd[u].rule, WaitLocal, DnsCall(upd[u].new), upd[u].new, ok, "call")
          /\ IF ok THEN Goto(u, "dp") ELSE Failed(u, "unstore")
    BY <1>2 DEF UpdateDns
  <2>3. PICK call \in Calls : call = DnsCall(upd[u].new)
    BY Mp1Calls
  <2>o. Outcome(upd[u].rule, WaitLocal, call, upd[u].new, ok, "call")
    BY <2>2, <2>3
  <2>d. upd[u].rule \in DnsRules /\ WaitLocal \in 0 .. 1
    BY <1>w, <2>1
  <2>4. TypeInv'
    BY <1>u, <2>1, <2>d, <2>o, CallTypes
  <2>5. CASE ok
    <3>1. UpdTyped' /\ Moved(u, "dp", upd[u].went)
      BY <1>t, <1>u, <2>2, <2>5, GotoMoves DEF Places
    <3>2. Moved(u, "dp", "well")
      BY <1>w, <2>1, <3>1
    <3>3. \A v \in Clients : UpdateInv(v)'
      BY <1>k, <1>t, <1>u, <3>2, MovedKnows DEF Ways, Places
    <3> QED
      BY <1>k, <2>1, <2>4, <3>1, <3>3
  <2>6. CASE ~ok
    <3>1. UpdTyped' /\ Moved(u, "unstore", "wrong")
      BY <1>t, <1>u, <2>2, <2>6, ResultMoves DEF Places, Ways, Failed
    <3>2. \A v \in Clients : UpdateInv(v)'
      BY <1>k, <1>t, <1>u, <3>1, MovedKnows DEF Ways, Places
    <3> QED
      BY <1>k, <2>1, <2>4, <3>1, <3>2
  <2> QED
    BY <2>5, <2>6
<1>3. CASE UpdateDataPlane(u)
  <2>1. /\ upd[u].pc = "dp" /\ Beside /\ config' = config /\ raced' = raced /\ broken' = broken
    BY <1>3 DEF UpdateDataPlane, At, Beside, dbs, mem, loop
  <2>2. PICK ok \in BOOLEAN :
          /\ Outcome(upd[u].rule, WaitMp2, DataPlaneCall(upd[u].rule, OldRule(u), upd[u].new),
                     upd[u].new, ok, "call")
          /\ IF ok THEN Done(u)
             ELSE Failed(u, IF upd[u].rule \in DnsRules THEN "undo" ELSE "unstore")
    BY <1>3 DEF UpdateDataPlane
  <2>3. PICK call \in Calls : call = DataPlaneCall(upd[u].rule, OldRule(u), upd[u].new)
    BY Mp1Calls
  <2>o. Outcome(upd[u].rule, WaitMp2, call, upd[u].new, ok, "call")
    BY <2>2, <2>3
  <2>4. TypeInv'
    BY <1>u, <2>1, <2>o, CallTypes
  <2>5. CASE ok
    <3>1. UpdTyped' /\ Left(u)
      BY <1>t, <2>2, <2>5, DoneLeaves
    <3> QED
      BY <1>k, <2>1, <2>4, <3>1, LeftKnows
  <2>6. CASE ~ok
    <3>1. PICK p \in Places : p = IF upd[u].rule \in DnsRules THEN "undo" ELSE "unstore"
      BY DEF Places
    <3>2. UpdTyped' /\ Moved(u, p, "wrong")
      BY <1>t, <1>u, <2>2, <2>6, <3>1, ResultMoves DEF Ways, Failed
    <3>3. \A v \in Clients : UpdateInv(v)'
      BY <1>k, <1>t, <1>u, <3>1, <3>2, MovedKnows DEF Ways
    <3> QED
      BY <1>k, <2>1, <2>4, <3>2, <3>3
  <2> QED
    BY <2>5, <2>6
<1>4. CASE UndoDns(u)
  <2>1. /\ upd[u].pc \in {"undo", "again"} /\ Beside /\ config' = config /\ raced' = raced
    BY <1>4 DEF UndoDns, At, Beside, dbs, mem, loop
  <2>2. PICK p \in Places : p = IF upd[u].pc = "undo" THEN "again" ELSE "unstore"
    BY DEF Places
  <2>3. PICK ok \in BOOLEAN :
          /\ Outcome(upd[u].rule, WaitLocal, UndoCall(upd[u].new), upd[u].new, ok, "undo")
          /\ upd' = [upd EXCEPT ![u].pc = p, ![u].went = IF ok THEN "back" ELSE @]
          /\ broken' = (broken \/ (upd[u].pc = "again" /\ ~ok /\ upd[u].went # "back"))
    BY <1>4, <2>2 DEF UndoDns
  <2>4. PICK call \in Calls : call = UndoCall(upd[u].new)
    BY Mp1Calls
  <2>5. TypeInv'
    BY <1>u, <1>w, <2>1, <2>3, <2>4, CallTypes
  <2>6. PICK w \in Ways : w = IF ok THEN "back" ELSE upd[u].went
    BY <1>h DEF Ways
  <2>7. upd' = [upd EXCEPT ![u].pc = p, ![u].went = w]
    <3>1. CASE ok
      BY <2>3, <2>6, <3>1
    <3>2. CASE ~ok
      BY <2>3, <2>6, <3>2
    <3> QED
      BY <3>1, <3>2
  <2>8. UpdTyped' /\ Moved(u, p, w)
    BY <1>t, <1>u, <2>7, ResultMoves
  <2>9. \A v \in Clients : UpdateInv(v)'
    BY <1>k, <1>t, <1>u, <1>w, <2>1, <2>2, <2>6, <2>8, MovedKnows DEF Ways
  <2> QED
    BY <1>k, <2>1, <2>3, <2>5, <2>8, <2>9
<1>5. CASE UnstoreUpdate(u)
  <2>1. /\ Beside /\ dp' = dp /\ dns' = dns /\ raced' = raced /\ Done(u)
        /\ config' \in {config, upd[u].base} /\ broken' \in BOOLEAN
    BY <1>5, <1>k DEF UnstoreUpdate, Beside, ext, mem, loop
  <2>2. DpTyped' /\ DnsTyped'
    BY <1>t, <2>1 DEF DpTyped, DnsTyped
  <2>3. config' \in Configs \cup {NoConfig}
    BY <1>t, <1>h, <2>1 DEF TypeInv, TypeOK
  <2>4. TypeInv'
    BY <1>t, <2>1, <2>2, <2>3, BesideTyped
  <2>5. UpdTyped' /\ Left(u)
    BY <1>t, <2>1, DoneLeaves
  <2> QED
    BY <1>k, <2>1, <2>4, <2>5, LeftKnows
<1> QED
  BY <1>1, <1>2, <1>3, <1>4, <1>5 DEF UpdateStep

\* An update goes on, or ends at one of three places.
LEMMA StepShape ==
  ASSUME Mp1TypeInv, NEW u \in Clients, UpdateStep(u)
  PROVE  /\ upd[u] # NoUpdate /\ raced' = raced /\ pc' = pc
         /\ \/ /\ \E p \in Places \ {"store"}, w \in Ways : Moved(u, p, w)
               /\ config' = IF upd[u].pc = "store" THEN NewConfig(u) ELSE config
            \/ Left(u) /\ upd[u].pc \in {"store", "dp"} /\ config' = config
            \/ Left(u) /\ upd[u].pc = "unstore" /\ (config' = upd[u].base \/ broken')
<1>u. upd[u] # NoUpdate /\ raced' = raced /\ pc' = pc
  BY DEF UpdateStep, StoreUpdate, UpdateDns, UpdateDataPlane, UndoDns, UnstoreUpdate, At
<1>t. UpdTyped /\ upd[u].went \in Ways
  BY <1>u, InHand DEF Mp1TypeInv, UpdTyped
<1>1. CASE StoreUpdate(u)
  <2>1. CASE config' = NewConfig(u) /\ Goto(u, IF upd[u].rule \in DnsRules THEN "dns" ELSE "dp")
    <3>1. PICK p \in Places \ {"store"} : p = IF upd[u].rule \in DnsRules THEN "dns" ELSE "dp"
      BY DEF Places
    <3>2. Moved(u, p, upd[u].went)
      BY <1>t, <1>u, <2>1, <3>1, GotoMoves
    <3> QED
      BY <1>1, <1>t, <1>u, <2>1, <3>2 DEF StoreUpdate, At
  <2>2. CASE Done(u) /\ UNCHANGED config
    BY <1>1, <1>t, <1>u, <2>2, DoneLeaves DEF StoreUpdate, At
  <2> QED
    BY <1>1, <2>1, <2>2 DEF StoreUpdate, NewConfig
<1>2. CASE UpdateDns(u)
  <2>1. upd[u].pc = "dns" /\ config' = config /\ (Goto(u, "dp") \/ Failed(u, "unstore"))
    BY <1>2 DEF UpdateDns, At, dbs
  <2>2. CASE Goto(u, "dp")
    BY <1>t, <1>u, <2>1, <2>2, GotoMoves DEF Places
  <2>3. CASE Failed(u, "unstore")
    <3>1. Moved(u, "unstore", "wrong")
      BY <1>t, <1>u, <2>3, ResultMoves DEF Places, Ways, Failed
    <3> QED
      BY <1>u, <2>1, <3>1 DEF Places, Ways
  <2> QED
    BY <2>1, <2>2, <2>3
<1>3. CASE UpdateDataPlane(u)
  <2>1. PICK p \in Places \ {"store"} : p = IF upd[u].rule \in DnsRules THEN "undo" ELSE "unstore"
    BY DEF Places
  <2>2. upd[u].pc = "dp" /\ config' = config /\ (Done(u) \/ Failed(u, p))
    BY <1>3, <2>1 DEF UpdateDataPlane, At, dbs
  <2>3. CASE Done(u)
    BY <1>t, <1>u, <2>2, <2>3, DoneLeaves
  <2>4. CASE Failed(u, p)
    <3>1. Moved(u, p, "wrong")
      BY <1>t, <1>u, <2>4, ResultMoves DEF Ways, Failed
    <3> QED
      BY <1>u, <2>2, <3>1 DEF Ways
  <2> QED
    BY <2>2, <2>3, <2>4
<1>4. CASE UndoDns(u)
  <2>1. PICK p \in Places \ {"store"} : p = IF upd[u].pc = "undo" THEN "again" ELSE "unstore"
    BY DEF Places
  <2>2. PICK ok \in BOOLEAN : upd' = [upd EXCEPT ![u].pc = p, ![u].went = IF ok THEN "back" ELSE @]
    BY <1>4, <2>1 DEF UndoDns
  <2>3. PICK w \in Ways : w = IF ok THEN "back" ELSE upd[u].went
    BY <1>t DEF Ways
  <2>4. upd' = [upd EXCEPT ![u].pc = p, ![u].went = w]
    <3>1. CASE ok
      BY <2>2, <2>3, <3>1
    <3>2. CASE ~ok
      BY <2>2, <2>3, <3>2
    <3> QED
      BY <3>1, <3>2
  <2>5. Moved(u, p, w)
    BY <1>t, <1>u, <2>4, ResultMoves
  <2>6. config' = config /\ upd[u].pc # "store"
    BY <1>4 DEF UndoDns, At, dbs
  <2> QED
    BY <1>u, <2>5, <2>6
<1>5. CASE UnstoreUpdate(u)
  <2>1. Left(u)
    BY <1>5, <1>t, DoneLeaves DEF UnstoreUpdate
  <2>2. upd[u].pc = "unstore" /\ (config' = upd[u].base \/ broken')
    BY <1>5 DEF UnstoreUpdate, At
  <2> QED
    BY <1>u, <2>1, <2>2
<1> QED
  BY <1>1, <1>2, <1>3, <1>4, <1>5 DEF UpdateStep

LEMMA UpdateHeld ==
  ASSUME Mp1TypeInv, HeldInv, NEW u \in Clients, UpdateStep(u)
  PROVE  HeldInv'
<1> SUFFICES ASSUME ~raced'
             PROVE  /\ \A v, w \in Busy' : v = w
                    /\ Busy' # {} => ~TaskWrites'
                    /\ \A v \in Busy' : config' = IF upd'[v].pc = "store" THEN upd'[v].base
                                                  ELSE NewConfig(v)'
  BY DEF HeldInv
<1>1. upd[u] # NoUpdate /\ ~raced /\ pc' = pc /\ u \in Busy /\ UpdTyped
  BY StepShape DEF Busy, Mp1TypeInv, UpdTyped
<1>2. Busy = {u} /\ ~TaskWrites
  BY <1>1 DEF HeldInv
<1>3. ~TaskWrites'
  BY <1>1, <1>2 DEF TaskWrites
<1>4. CASE Left(u)
  <2>1. Busy' = {}
    BY <1>1, <1>2, <1>4, BusyAfter
  <2> QED
    BY <2>1
<1>5. CASE /\ \E p \in Places \ {"store"}, w \in Ways : Moved(u, p, w)
           /\ config' = IF upd[u].pc = "store" THEN NewConfig(u) ELSE config
  <2>1. PICK p \in Places \ {"store"}, w \in Ways : Moved(u, p, w)
    BY <1>5
  <2>2. Busy' = {u}
    BY <1>1, <1>2, <2>1, BusyAfter
  <2>3. NewConfig(u)' = NewConfig(u) /\ upd'[u].pc # "store"
    BY <2>1 DEF Moved, NewConfig
  <2>4. upd[u].pc # "store" => config = NewConfig(u)
    BY <1>1 DEF HeldInv
  <2>5. config' = NewConfig(u)
    BY <1>5, <2>4
  <2> QED
    BY <1>3, <2>2, <2>3, <2>5
<1> QED
  BY <1>4, <1>5, StepShape

\* The beginning of an update.
LEMMA BeginShape ==
  ASSUME Mp1TypeInv, NEW u \in Clients, NEW i \in Rules, NEW new \in Bodies(i),
         BeginUpdate(u, i, new)
  PROVE  /\ UpdTyped' /\ upd[u] = NoUpdate /\ upd'[u] # NoUpdate /\ Busy' = Busy \cup {u}
         /\ \A v \in Clients \ {u} : upd'[v] = upd[v]
         /\ upd'[u] = [pc |-> "store", rule |-> i, new |-> new, base |-> config, went |-> "well"]
         /\ raced' = (raced \/ TaskWrites \/ Busy # {}) /\ broken' = broken
         /\ UNCHANGED vars
         /\ config \in Configs /\ new \in RuleOf(i) /\ (i \in DnsRules => new.state # "")
         /\ config[i] # NoRule /\ Acceptable(i, config[i], new)
<1>1. /\ upd' = [upd EXCEPT ![u] = [pc |-> "store", rule |-> i, new |-> new,
                                    base |-> config, went |-> "well"]]
      /\ raced' = (raced \/ TaskWrites \/ Busy # {}) /\ broken' = broken
      /\ UNCHANGED vars /\ upd[u] = NoUpdate
  BY DEF BeginUpdate
<1>2. config \in Configs /\ config[i] # NoRule /\ Acceptable(i, config[i], new)
  BY DEF BeginUpdate, Fits, RuleIn, Mp1TypeInv, TypeInv, TypeOK
<1>3. new \in RuleOf(i) /\ (i \in DnsRules => new.state # "")
  BY DEF Bodies
<1>4. PICK g : g = [pc |-> "store", rule |-> i, new |-> new, base |-> config, went |-> "well"]
  OBVIOUS
<1>5. g \in Updates
  BY <1>2, <1>3, <1>4 DEF Updates
<1>6. UpdTyped' /\ upd'[u] = g /\ \A v \in Clients \ {u} : upd'[v] = upd[v]
  BY <1>1, <1>4, <1>5 DEF UpdTyped, Mp1TypeInv
<1>7. upd'[u] # NoUpdate /\ Busy' = Busy \cup {u}
  BY <1>5, <1>6, UpdateAssumption DEF Busy
<1> QED
  BY <1>1, <1>2, <1>3, <1>4, <1>6, <1>7

LEMMA BeginTypes ==
  ASSUME Mp1TypeInv, NEW u \in Clients, NEW i \in Rules, NEW new \in Bodies(i),
         BeginUpdate(u, i, new)
  PROVE  Mp1TypeInv'
<1>1. UpdTyped' /\ UNCHANGED vars /\ broken' = broken /\ raced' \in BOOLEAN
  BY BeginShape DEF Mp1TypeInv
<1>2. TypeInv'
  BY <1>1, TypeNext DEF Mp1TypeInv
<1>3. ASSUME NEW v \in Clients \ {u} PROVE UpdateInv(v)'
  <2>1. upd'[v] = upd[v]
    BY BeginShape
  <2> QED
    BY <2>1 DEF Mp1TypeInv, UpdateInv, OldRule
<1>4. UpdateInv(u)'
  <2>1. PICK c : c = config
    OBVIOUS
  <2>2. upd'[u] = [pc |-> "store", rule |-> i, new |-> new, base |-> c, went |-> "well"]
    BY <2>1, BeginShape
  <2>3. /\ new \in RuleOf(i) /\ (i \in DnsRules => new.state # "")
        /\ c[i] # NoRule /\ Acceptable(i, c[i], new)
    BY <2>1, BeginShape
  <2>4. /\ upd'[u].pc = "store" /\ upd'[u].rule = i /\ upd'[u].new = new
        /\ upd'[u].base = c /\ upd'[u].went = "well"
    BY <2>2
  <2>5. OldRule(u)' # NoRule /\ Acceptable(i, OldRule(u)', new)
    BY <2>3, <2>4 DEF OldRule
  <2> QED
    BY <2>3, <2>4, <2>5 DEF UpdateInv
<1> QED
  BY <1>1, <1>2, <1>3, <1>4 DEF Mp1TypeInv, UpdTyped

LEMMA BeginHeld ==
  ASSUME Mp1TypeInv, NEW u \in Clients, NEW i \in Rules, NEW new \in Bodies(i),
         BeginUpdate(u, i, new)
  PROVE  HeldInv'
<1>0. /\ raced' = (raced \/ TaskWrites \/ Busy # {}) /\ Busy' = Busy \cup {u} /\ UNCHANGED vars
      /\ upd'[u] = [pc |-> "store", rule |-> i, new |-> new, base |-> config, went |-> "well"]
  BY BeginShape
<1>1. /\ ~raced' => ~TaskWrites /\ Busy' = {u}
      /\ config' = config /\ pc' = pc
      /\ upd'[u].pc = "store" /\ upd'[u].base = config
  <2>1. ~raced' => ~TaskWrites /\ Busy' = {u}
    BY <1>0
  <2>2. config' = config /\ pc' = pc
    BY <1>0 DEF vars
  <2>3. upd'[u].pc = "store" /\ upd'[u].base = config
    BY <1>0
  <2> QED
    BY <2>1, <2>2, <2>3
<1> QED
  BY <1>1 DEF HeldInv, TaskWrites

\* A step of the task or of its requests.
LEMMA AppDShape ==
  ASSUME Mp1TypeInv, AppDStep
  PROVE  /\ Next /\ upd' = upd /\ Busy' = Busy /\ broken' = broken
         /\ raced' = (raced \/ (TaskWrites' /\ Busy # {}))
         /\ ~TaskWrites => UNCHANGED <<config, dp, dns>>
         /\ ~TaskWrites => \/ pc = "idle"
                           \/ pc = "fail" /\ pc' \in {"clean", "stuck"}
                           \/ pc = "clean" /\ pc' \in {"idle", "stuck"}
<1>1. Next /\ upd' = upd /\ broken' = broken /\ raced' = (raced \/ (TaskWrites' /\ Busy # {}))
  BY DEF AppDStep, Next
<1>2. Busy' = Busy
  BY <1>1 DEF Busy
<1>3. CASE Request
  <2>1. UNCHANGED <<config, dp, dns>> /\ pc = "idle"
    BY <1>3 DEF Request, StageNewTask, ext, Mp1TypeInv, TypeInv, LockInv
  <2> QED
    BY <1>1, <1>2, <2>1
<1>4. CASE Task /\ ~TaskWrites
  <2>1. UNCHANGED <<config, dp, dns>>
    BY <1>4 DEF Task, TaskWrites, StartTask, StartFails, SkipUnlisted, ApplyCall, ApplyNothing,
       ApplyPanic, ApplyRecord, ApplyRecordFails, ApplyDone, WriteConfig, Clean, SkipRevert,
       RevertCall, RevertNothing, RevertRecord, RevertRecordFails, RevertDone, Fail, AtApply,
       AtRevert, ext, dbs
  <2>2. \/ pc = "idle"
        \/ pc = "fail" /\ pc' \in {"clean", "stuck"}
        \/ pc = "clean" /\ pc' \in {"idle", "stuck"}
    BY <1>4 DEF Task, TaskWrites, StartTask, StartFails, SkipUnlisted, ApplyCall, ApplyNothing,
       ApplyPanic, ApplyRecord, ApplyRecordFails, ApplyDone, WriteConfig, Clean, SkipRevert,
       RevertCall, RevertNothing, RevertRecord, RevertRecordFails, RevertDone, Fail, AtApply,
       AtRevert
  <2> QED
    BY <1>1, <1>2, <2>1, <2>2
<1> QED
  BY <1>1, <1>2, <1>3, <1>4 DEF AppDStep

LEMMA AppDTypes ==
  ASSUME Mp1TypeInv, AppDStep
  PROVE  Mp1TypeInv'
<1>1. Next /\ upd' = upd /\ broken' = broken /\ raced' \in BOOLEAN
  BY AppDShape DEF Mp1TypeInv
<1>2. TypeInv'
  BY <1>1, TypeNext DEF Mp1TypeInv
<1>3. \A v \in Clients : UpdateInv(v)'
  BY <1>1 DEF Mp1TypeInv, UpdateInv, OldRule
<1> QED
  BY <1>1, <1>2, <1>3 DEF Mp1TypeInv

LEMMA AppDHeld ==
  ASSUME Mp1TypeInv, HeldInv, AppDStep
  PROVE  HeldInv'
<1>1. CASE Busy = {}
  <2>1. Busy' = {}
    BY <1>1, AppDShape
  <2> QED
    BY <2>1 DEF HeldInv
<1>2. CASE Busy # {} /\ ~raced'
  <2>1. ~raced /\ ~TaskWrites' /\ upd' = upd /\ Busy' = Busy
    BY <1>2, AppDShape DEF Mp1TypeInv
  <2>2. ~TaskWrites
    BY <1>2, <2>1 DEF HeldInv
  <2>3. config' = config
    BY <2>2, AppDShape
  <2>4. \A v \in Busy : NewConfig(v)' = NewConfig(v)
    BY <2>1 DEF NewConfig
  <2> QED
    BY <2>1, <2>3, <2>4 DEF HeldInv
<1>3. CASE raced'
  BY <1>3 DEF HeldInv
<1> QED
  BY <1>1, <1>2, <1>3

LEMMA Mp1Stutter ==
  ASSUME Mp1TypeInv, HeldInv, UNCHANGED mp1Vars
  PROVE  Mp1TypeInv' /\ HeldInv'
<1>1. UNCHANGED <<upd, raced, broken>> /\ UNCHANGED vars
  BY DEF mp1Vars, mp1
<1>2. UNCHANGED <<config, pc>>
  BY <1>1 DEF vars
<1>3. TypeInv'
  BY <1>1, TypeNext DEF Mp1TypeInv
<1>4. \A v \in Clients : UpdateInv(v)' /\ NewConfig(v)' = NewConfig(v)
  BY <1>1 DEF Mp1TypeInv, UpdateInv, OldRule, NewConfig
<1>5. Busy' = Busy /\ TaskWrites' = TaskWrites
  BY <1>1, <1>2 DEF Busy, TaskWrites
<1>6. HeldInv'
  BY <1>1, <1>2, <1>4, <1>5 DEF HeldInv, Busy
<1> QED
  BY <1>1, <1>3, <1>4, <1>6 DEF Mp1TypeInv

LEMMA Mp1TypeInit == Mp1Init => Mp1TypeInv /\ HeldInv
<1> SUFFICES ASSUME Mp1Init PROVE Mp1TypeInv /\ HeldInv
  OBVIOUS
<1>1. TypeInv
  BY TypeInit DEF Mp1Init
<1>2. upd \in [Clients -> Updates \cup {NoUpdate}] /\ \A u \in Clients : upd[u] = NoUpdate
  BY DEF Mp1Init
<1>3. Busy = {} /\ \A u \in Clients : UpdateInv(u)
  BY <1>2 DEF Busy, UpdateInv
<1> QED
  BY <1>1, <1>2, <1>3 DEF Mp1Init, Mp1TypeInv, HeldInv

LEMMA Mp1TypeNext == Mp1TypeInv /\ HeldInv /\ [Mp1Next]_mp1Vars => Mp1TypeInv' /\ HeldInv'
<1> SUFFICES ASSUME Mp1TypeInv, HeldInv, [Mp1Next]_mp1Vars PROVE Mp1TypeInv' /\ HeldInv'
  OBVIOUS
<1>1. CASE AppDStep
  BY <1>1, AppDTypes, AppDHeld
<1>2. ASSUME NEW u \in Clients, UpdateStep(u) PROVE Mp1TypeInv' /\ HeldInv'
  BY <1>2, UpdateTypes, UpdateHeld
<1>3. ASSUME NEW u \in Clients, NEW i \in Rules, NEW new \in Bodies(i), BeginUpdate(u, i, new)
      PROVE  Mp1TypeInv' /\ HeldInv'
  BY <1>3, BeginTypes, BeginHeld
<1>4. CASE UNCHANGED mp1Vars
  BY <1>4, Mp1Stutter
<1> QED
  BY <1>1, <1>2, <1>3, <1>4 DEF Mp1Next

\* The updates, whatever fails and whatever overlaps with them, and the tasks
\* beside them keep the types (DNSRuleUpdate, TrafficRuleUpdate).
THEOREM Mp1TypeCorrect == Mp1Spec => []Mp1TypeOK
<1>1. Mp1TypeInv => Mp1TypeOK
  BY DEF Mp1TypeInv, TypeInv, Mp1TypeOK
<1> QED
  BY Mp1TypeInit, Mp1TypeNext, <1>1, PTL DEF Mp1Spec

\* An update that ends, and nobody overlapped with, has written the rule it was
\* asked to write and no other, or has put the configuration back that it read,
\* which it always does once a call has failed.
THEOREM UpdatesAreAtomic == Mp1Spec => UpdateIsAtomic
<1> DEFINE Ends(u) == upd[u] # NoUpdate /\ upd'[u] = NoUpdate /\ ~raced /\ ~broken'
           A == \A u \in Clients : Ends(u) =>
                  config' \in {upd[u].base, [upd[u].base EXCEPT ![upd[u].rule] = upd[u].new]}
                  /\ (upd[u].went # "well" => config' = upd[u].base)
<1>1. Mp1TypeInv /\ HeldInv /\ [Mp1Next]_mp1Vars => [A]_mp1Vars
  <2> SUFFICES ASSUME Mp1TypeInv, HeldInv, Mp1Next, NEW u \in Clients, Ends(u)
               PROVE  /\ config' \in {upd[u].base, NewConfig(u)}
                      /\ upd[u].went # "well" => config' = upd[u].base
    BY DEF NewConfig
  <2>1. CASE AppDStep
    BY <2>1, AppDShape
  <2>2. ASSUME NEW v \in Clients, UpdateStep(v)
        PROVE  /\ config' \in {upd[u].base, NewConfig(u)}
               /\ upd[u].went # "well" => config' = upd[u].base
    <3>0. upd'[u] # upd[u]
      OBVIOUS
    <3>1. v = u
      BY <2>2, <3>0, StepShape DEF Moved, Left
    <3>2. ~(\E p \in Places \ {"store"}, w \in Ways : Moved(u, p, w))
      BY UpdateAssumption DEF Moved
    <3>3. u \in Busy /\ UpdateInv(u)
      BY DEF Busy, Mp1TypeInv
    <3>4. config = IF upd[u].pc = "store" THEN upd[u].base ELSE NewConfig(u)
      BY <3>3 DEF HeldInv
    <3>5. CASE upd[u].pc \in {"store", "dp"} /\ config' = config
      BY <3>3, <3>4, <3>5 DEF UpdateInv
    <3>6. CASE config' = upd[u].base
      BY <3>6
    <3> QED
      BY <2>2, <3>1, <3>2, <3>5, <3>6, StepShape
  <2>3. ASSUME NEW v \in Clients, NEW i \in Rules, NEW new \in Bodies(i), BeginUpdate(v, i, new)
        PROVE  FALSE
    BY <2>3, BeginShape
  <2> QED
    BY <2>1, <2>2, <2>3 DEF Mp1Next
<1> QED
  BY Mp1TypeInit, Mp1TypeNext, <1>1, PTL DEF Mp1Spec, UpdateIsAtomic

----------------------------------------------------------------------------
(* What is installed when no task writes.                                  *)

LEMMA TaskInvNext == Benign /\ TaskInv /\ [Next]_vars => TaskInv'
BY IInvButNext DEF TaskInv

\* Where the task is at no rule, the loose rules are the stored ones without a
\* state.
LEMMA LooseUnstated ==
  ASSUME \A i \in Rules : Level(i) = 0
  PROVE  Loose(Rules) = Unstated(config)
BY Operations DEF Loose, Unstated, Old

LEMMA TaskInvSettled == TaskInv /\ ~TaskWrites => SettledNow
<1> SUFFICES ASSUME TaskInv, ~TaskWrites PROVE SettledNow
  OBVIOUS
<1>0. IInvBut(Rules)
  BY DEF TaskInv
<1>1. pc \in {"idle", "fail", "clean"} /\ Alive
  BY DEF TaskWrites, Alive
<1>2. \A i \in Rules : Level(i) = 0
  BY <1>1 DEF Level
<1>3. \A i \in Rules : Cur(0, i) = RuleIn(config, i) /\ Cur(1, i) = RuleIn(config, i)
  BY <1>2 DEF Cur, Old
<1>4. [i \in Rules |-> Cur(0, i)] = Held(config) /\ [i \in Rules |-> Cur(1, i)] = Held(config)
  BY <1>3 DEF Held
<1>5. DpFits(config)
  BY <1>0, <1>1, <1>2, <1>4, LooseUnstated DEF IInvBut, DpInv, DpFits
<1>6. DnsFits(config)
  BY <1>0, <1>1, <1>4, Mp1Assumption DEF IInvBut, DnsInv, DnsFits
<1>7. NamesOwn(config) /\ ForeignRecords
  BY <1>0 DEF IInvBut, PlanInv, Old, NamesOwn, ForeignInv
<1> QED
  BY <1>5, <1>6, <1>7 DEF SettledNow, Settled

\* The task has come to its end, or has died.
NoTask == pc \in {"idle", "stuck"}

LEMMA SettledTaskInv == TypeInv /\ SettledNow /\ NoTask => TaskInv
<1> SUFFICES ASSUME TypeInv, SettledNow, pc \in {"idle", "stuck"} PROVE TaskInv
  BY DEF NoTask
<1>1. \A i \in Rules : Level(i) = 0
  BY DEF Level
<1>2. \A i \in Rules : Cur(0, i) = RuleIn(config, i) /\ Cur(1, i) = RuleIn(config, i)
  BY <1>1 DEF Cur, Old
<1>3. [i \in Rules |-> Cur(0, i)] = Held(config) /\ [i \in Rules |-> Cur(1, i)] = Held(config)
  BY <1>2 DEF Held
<1>4. DpInv(Rules) /\ DnsInv
  BY <1>1, <1>3, LooseUnstated DEF SettledNow, Settled, DpInv, DnsInv, DpFits, DnsFits
<1>5. PlanInv
  BY DEF SettledNow, Settled, NamesOwn, PlanInv, Old, Working, Running
<1>6. StateInv /\ LoadInv
  BY DEF StateInv, LoadInv, Working, Running
<1>7. ForeignInv
  BY Mp1Assumption DEF SettledNow, Settled, ForeignInv
<1> QED
  BY <1>4, <1>5, <1>6, <1>7 DEF TaskInv, IInvBut

LEMMA SettledMatches ==
  ASSUME TypeInv, SettledNow, job = NoJob
  PROVE  /\ DnsRecords = DnsOf(config)
         /\ \A i \in Rules \ Unstated(config) : dp[i] = DpOf(config)[i]
<1>1. pc = "idle" /\ Alive
  BY DEF TypeInv, LockInv, Alive
<1>2. \A i \in Rules : Level(i) = 0
  BY <1>1 DEF Level
<1>3. IInvBut(Rules) /\ Rules \in SUBSET Rules
  BY <1>1, SettledTaskInv DEF NoTask, TaskInv
<1>4. DnsRecords = DnsOf(config) /\ \A i \in Rules \ Loose(Rules) : dp[i] = DpOf(config)[i]
  BY <1>1, <1>2, <1>3, MatchesBut
<1> QED
  BY <1>2, <1>4, LooseUnstated

LEMMA SettledKept ==
  ASSUME SettledNow, UNCHANGED <<config, dp, dns>>
  PROVE  SettledNow'
<1>1. PICK c : c = config
  OBVIOUS
<1>2. Settled(c)
  BY <1>1 DEF SettledNow
<1>3. Settled(c)'
  BY <1>2 DEF Settled, DpFits, DnsFits, NamesOwn, ForeignRecords
<1> QED
  BY <1>1, <1>3 DEF SettledNow, Settled, DpFits, DnsFits, NamesOwn, Held, Unstated

LEMMA AppDAgrees ==
  ASSUME Benign, Mp1TypeInv, Mp1TypeInv', HeldInv, AgreeInv, AppDStep
  PROVE  AgreeInv'
<1> SUFFICES ASSUME ~raced', ~broken'
             PROVE  /\ Busy' = {} => IF TaskWrites' THEN TaskInv' ELSE SettledNow'
                    /\ \A u \in Busy' : FitsInv(u)'
  BY DEF AgreeInv
<1>1. /\ Next /\ upd' = upd /\ Busy' = Busy /\ ~broken /\ ~raced
      /\ Busy # {} => ~TaskWrites'
  BY AppDShape DEF Mp1TypeInv
<1>t. TypeInv /\ TypeInv'
  BY DEF Mp1TypeInv
<1>s. TaskInv' /\ ~TaskWrites' => SettledNow'
  BY TaskInvSettled, PTL
<1>2. CASE Busy = {}
  <2>1. ASSUME TaskInv PROVE IF TaskWrites' THEN TaskInv' ELSE SettledNow'
    <3>1. TaskInv'
      BY <1>1, <2>1, TaskInvNext
    <3> QED
      BY <1>s, <3>1
  <2>2. CASE TaskWrites
    BY <1>1, <1>2, <2>1, <2>2 DEF AgreeInv
  <2>3. CASE ~TaskWrites
    <3>1. SettledNow
      BY <1>1, <1>2, <2>3 DEF AgreeInv
    <3>2. CASE pc = "idle"
      BY <1>1, <1>2, <1>t, <2>1, <3>1, <3>2, SettledTaskInv DEF NoTask
    <3>3. SettledNow'
      BY <2>3, <3>1, AppDShape, SettledKept
    <3>4. CASE pc' = "stuck"
      <4>1. TypeInv' /\ SettledNow' /\ NoTask' => TaskInv'
        BY SettledTaskInv, PTL
      <4> QED
        BY <1>1, <1>2, <1>t, <3>3, <3>4, <4>1 DEF NoTask, TaskWrites
    <3>5. CASE pc' \in {"clean", "idle"}
      BY <1>1, <1>2, <3>3, <3>5 DEF TaskWrites
    <3> QED
      BY <2>3, <3>2, <3>4, <3>5, AppDShape
  <2> QED
    BY <2>2, <2>3
<1>3. CASE Busy # {}
  <2>1. UNCHANGED <<config, dp, dns>>
    BY <1>1, <1>3, AppDShape DEF HeldInv
  <2>2. ASSUME NEW u \in Busy PROVE FitsInv(u)'
    <3>1. FitsInv(u)
      BY <1>1 DEF AgreeInv
    <3> QED
      BY <1>1, <2>1, <3>1 DEF FitsInv, PlaceFits, NamesOwn, ForeignRecords, DpFits, DnsFits
  <2> QED
    BY <1>1, <1>3, <2>2
<1> QED
  BY <1>2, <1>3

LEMMA BeginAgrees ==
  ASSUME Mp1TypeInv, AgreeInv, NEW u \in Clients, NEW i \in Rules, NEW new \in Bodies(i),
         BeginUpdate(u, i, new)
  PROVE  AgreeInv'
<1> SUFFICES ASSUME ~raced', ~broken'
             PROVE  /\ Busy' = {} => IF TaskWrites' THEN TaskInv' ELSE SettledNow'
                    /\ \A v \in Busy' : FitsInv(v)'
  BY DEF AgreeInv
<1>1. /\ raced' = (raced \/ TaskWrites \/ Busy # {}) /\ broken' = broken
      /\ Busy' = Busy \cup {u} /\ UNCHANGED vars
      /\ upd'[u] = [pc |-> "store", rule |-> i, new |-> new, base |-> config, went |-> "well"]
  BY BeginShape
<1>2. Busy' = {u} /\ SettledNow
  BY <1>1 DEF AgreeInv
<1>3. UNCHANGED <<config, dp, dns>>
  BY <1>1 DEF vars
<1>4. PICK b : b = config
  OBVIOUS
<1>5. /\ upd'[u].pc = "store" /\ upd'[u].rule = i /\ upd'[u].new = new
      /\ upd'[u].base = b /\ upd'[u].went = "well"
  BY <1>1, <1>4
<1>6. DnsTarget(b, i, new, "store", "well") = b
  BY DEF DnsTarget, HasNew
<1>7. PlaceFits(b, i, new, "store", "well")
  BY <1>2, <1>4, <1>6 DEF PlaceFits, SettledNow, Settled
<1>8. PlaceFits(b, i, new, "store", "well")'
  BY <1>3, <1>7 DEF PlaceFits, NamesOwn, ForeignRecords, DpFits, DnsFits
<1>9. FitsInv(u)'
  BY <1>5, <1>8 DEF FitsInv
<1> QED
  BY <1>2, <1>9

----------------------------------------------------------------------------
(* The calls of an update.                                                 *)

\* What the update of one rule starts from: configuration b has rule i, and n
\* is to be its new form.
Case(b, i, n) ==
  /\ i \in DnsRules => n.state # ""
  /\ b[i] # NoRule /\ Acceptable(i, b[i], n)

LEMMA CaseSays ==
  ASSUME NEW b \in Configs, NEW i \in Rules, NEW n \in RuleOf(i), Case(b, i, n)
  PROVE  /\ b[i] # NoRule /\ n # NoRule
         /\ n.state = "" \/ n.state = "ACTIVE" \/ n.state = "INACTIVE"
         /\ i \in DnsRules => n.state = "ACTIVE" \/ n.state = "INACTIVE"
<1>1. n # NoRule /\ n.state \in {"", "ACTIVE", "INACTIVE"}
  BY RuleFields
<1> QED
  BY <1>1 DEF Case

LEMMA RuleEqual ==
  ASSUME NEW i, NEW r \in RuleOf(i), NEW s \in RuleOf(i),
         r.name = s.name, r.val = s.val, r.state = s.state
  PROVE  r = s
<1>1. PICK N : N = IF i \in DnsRules THEN Names ELSE {NoName}
  OBVIOUS
<1>2. /\ r \in [name : N, val : Vals, state : {"", "ACTIVE", "INACTIVE"}]
      /\ s \in [name : N, val : Vals, state : {"", "ACTIVE", "INACTIVE"}]
  BY <1>1 DEF RuleOf
<1>3. /\ r = [name |-> r.name, val |-> r.val, state |-> r.state]
      /\ s = [name |-> s.name, val |-> s.val, state |-> s.state]
  BY <1>2
<1> QED
  BY <1>3

LEMMA CaseFacts ==
  ASSUME NEW b \in Configs, NEW i \in Rules, NEW n \in RuleOf(i), Case(b, i, n)
  PROVE  /\ b[i] \in RuleOf(i) /\ With(b, i, n) \in Configs
         /\ \A j \in Rules : Held(b)[j] = b[j] /\ Held(With(b, i, n))[j] = IF j = i THEN n ELSE b[j]
         /\ \A j \in Rules : b[j] \in {NoRule} \cup RuleOf(j)
         /\ Active(n) <=> n.state # "INACTIVE"
         /\ i \in DnsRules => /\ b[i].name = n.name /\ b[i].val = n.val /\ n.name \in Names
                              /\ n.state = "INACTIVE" => Active(b[i])
<1>1. b \in Configs /\ i \in Rules /\ b[i] \in RuleOf(i)
  BY CfgTyped DEF Case
<1>2. With(b, i, n) \in Configs /\ \A j \in Rules : With(b, i, n)[j] = IF j = i THEN n ELSE b[j]
  BY <1>1 DEF With, Configs
<1>3. b # NoConfig /\ With(b, i, n) # NoConfig
  BY <1>1, <1>2, SentinelAssumption
<1>4. \A j \in Rules : Held(b)[j] = b[j] /\ Held(With(b, i, n))[j] = IF j = i THEN n ELSE b[j]
  BY <1>2, <1>3 DEF Held, RuleIn
<1>5. Active(n) <=> n.state # "INACTIVE"
  BY <1>1, RuleFields DEF Active
<1>6. ASSUME i \in DnsRules
      PROVE  /\ b[i].name = n.name /\ b[i].val = n.val /\ n.name \in Names
             /\ n.state = "INACTIVE" => Active(b[i])
  <2>1. n # b[i] /\ n = [b[i] EXCEPT !.state = n.state]
    BY <1>6 DEF Case, Acceptable
  <2>2. b[i].name = n.name /\ b[i].val = n.val
    BY <1>1, <2>1 DEF RuleOf
  <2>3. b[i].state # n.state
    BY <1>1, <2>1, <2>2, RuleEqual
  <2>4. n.name \in Names /\ b[i].state \in {"", "ACTIVE", "INACTIVE"} /\ b[i] # NoRule
    BY <1>1, <1>6, RuleFields DEF Case
  <2> QED
    BY <2>2, <2>3, <2>4 DEF Active
<1>7. \A j \in Rules : b[j] \in {NoRule} \cup RuleOf(j)
  BY <1>1, CfgTyped
<1> QED
  BY <1>1, <1>2, <1>4, <1>5, <1>6, <1>7

\* The names of the rules stay the application's own.
LEMMA CaseNames ==
  ASSUME NEW b \in Configs, NEW i \in Rules, NEW n \in RuleOf(i), Case(b, i, n), NamesOwn(b)
  PROVE  /\ \A j \in DnsRules : Active(Held(b)[j]) =>
              Held(b)[j].name \in Names \ Foreign /\ Held(b)[j].val \in Vals
         /\ \A j \in DnsRules : Active(Held(With(b, i, n))[j]) =>
              Held(With(b, i, n))[j].name \in Names \ Foreign /\ Held(With(b, i, n))[j].val \in Vals
         /\ i \in DnsRules => n.name \in Names \ Foreign /\ n.val \in Vals
         /\ NamesOwn(With(b, i, n))
<1> USE ConstFacts
<1>1. /\ With(b, i, n) \in Configs /\ b[i] # NoRule
      /\ b # NoConfig /\ With(b, i, n) # NoConfig
  <2>1. With(b, i, n) \in Configs
    BY CaseFacts
  <2>2. b[i] # NoRule
    BY CaseSays
  <2> QED
    BY <2>1, <2>2, SentinelAssumption
<1>2. \A j \in Rules : Held(b)[j] = b[j] /\ Held(With(b, i, n))[j] = IF j = i THEN n ELSE b[j]
  BY CaseFacts
<1>3. \A j \in DnsRules : b[j] # NoRule => b[j].name \in Names \ Foreign /\ b[j].val \in Vals
  <2> SUFFICES ASSUME NEW j \in DnsRules, b[j] # NoRule
               PROVE  b[j].name \in Names \ Foreign /\ b[j].val \in Vals
    OBVIOUS
  <2>1. b[j] \in RuleOf(j)
    BY <1>1, CfgTyped
  <2>2. b[j].name \in Names /\ b[j].val \in Vals
    BY <2>1, RuleFields
  <2>3. b[j].name \notin Foreign
    BY <1>1 DEF NamesOwn, RuleIn
  <2> QED
    BY <2>2, <2>3
<1>4. i \in DnsRules => n.name \in Names \ Foreign /\ n.val \in Vals
  <2>1. i \in DnsRules => b[i].name = n.name /\ b[i].val = n.val
    BY CaseFacts
  <2> QED
    BY <1>1, <1>3, <2>1
<1>5. \A j \in DnsRules : RuleIn(With(b, i, n), j) = Held(With(b, i, n))[j]
  BY DEF Held
<1>6. NamesOwn(With(b, i, n))
  BY <1>2, <1>3, <1>4, <1>5 DEF NamesOwn
<1> QED
  BY <1>2, <1>3, <1>4, <1>6 DEF Active

\* The DNS server accepts the call only if the rule changes its state, and no
\* other active rule has the name.
LEMMA DnsForward ==
  ASSUME NEW b \in Configs, NEW i \in DnsRules, NEW n \in RuleOf(i), Case(b, i, n),
         DnsTyped, NamesOwn(b), DnsFits(b), ForeignRecords,
         DnsAccepts(DnsCall(n), n.name), DnsServer(DnsCall(n), n)
  PROVE  Flipped(b, i, n) /\ DnsFits(With(b, i, n))' /\ ForeignRecords'
<1> USE ConstFacts
<1>0. /\ b[i].name = n.name /\ b[i].val = n.val /\ n.state \in {"ACTIVE", "INACTIVE"}
      /\ n.state = "INACTIVE" => Active(b[i])
      /\ Active(n) <=> n.state = "ACTIVE"
  <2>1. i \in Rules /\ (n.state = "ACTIVE" \/ n.state = "INACTIVE")
    BY CaseSays
  <2> QED
    BY <2>1, CaseFacts
<1>h. \A j \in Rules : Held(b)[j] = b[j] /\ Held(With(b, i, n))[j] = IF j = i THEN n ELSE b[j]
  BY CaseFacts
<1>n. /\ \A j \in DnsRules : Active(Held(b)[j]) =>
           Held(b)[j].name \in Names \ Foreign /\ Held(b)[j].val \in Vals
      /\ n.name \in Names \ Foreign /\ n.val \in Vals
  BY CaseNames
<1>d. DnsAgrees(dns, Held(b))
  BY DEF DnsFits
<1>1. Flipped(b, i, n)
  <2>1. CASE n.state = "ACTIVE"
    <3>1. dns[n.name] = NoAddr
      BY <2>1 DEF DnsAccepts, DnsCall
    <3>2. \A j \in DnsRules : Active(b[j]) => b[j].name # n.name
      BY <1>d, <1>h, <1>n, <3>1, SentinelAssumption DEF DnsAgrees
    <3> QED
      BY <1>0, <2>1, <3>2 DEF Flipped
  <2>2. CASE n.state = "INACTIVE"
    BY <1>0, <1>d, <1>h, <2>2 DEF Flipped, DnsAgrees
  <2> QED
    BY <1>0, <2>1, <2>2
<1>2. PICK call : call = DnsCall(n)
  OBVIOUS
<1>3. Moves(call, Held(b)[i], Held(With(b, i, n))[i], n)
  BY <1>0, <1>1, <1>2, <1>h DEF Moves, DnsCall, Flipped, Calls
<1>4. \A j \in DnsRules \ {i} : Same(Held(b)[j], Held(With(b, i, n))[j])
  BY <1>h DEF Same
<1>5. PICK x, y : x = Held(b) /\ y = Held(With(b, i, n))
  OBVIOUS
<1>6. DnsAgrees(dns', y) /\ \A m \in Foreign : dns'[m] = dns[m]
  BY <1>2, <1>3, <1>4, <1>5, <1>d, <1>n, DnsStep
<1>7. Held(With(b, i, n))' = y
  BY <1>5 DEF Held, RuleIn
<1> QED
  BY <1>1, <1>6, <1>7 DEF DnsFits, ForeignRecords

\* Taking the call back.
LEMMA DnsBack ==
  ASSUME NEW b \in Configs, NEW i \in DnsRules, NEW n \in RuleOf(i), Case(b, i, n),
         DnsTyped, NamesOwn(b), DnsFits(With(b, i, n)), ForeignRecords, Flipped(b, i, n),
         DnsAccepts(UndoCall(n), n.name), DnsServer(UndoCall(n), n)
  PROVE  DnsFits(b)' /\ ForeignRecords'
<1> USE ConstFacts
<1>0. /\ b[i].name = n.name /\ b[i].val = n.val /\ n.state \in {"ACTIVE", "INACTIVE"}
      /\ Active(n) <=> n.state = "ACTIVE"
  <2>1. i \in Rules /\ (n.state = "ACTIVE" \/ n.state = "INACTIVE")
    BY CaseSays
  <2> QED
    BY <2>1, CaseFacts
<1>h. \A j \in Rules : Held(b)[j] = b[j] /\ Held(With(b, i, n))[j] = IF j = i THEN n ELSE b[j]
  BY CaseFacts
<1>n. /\ \A j \in DnsRules : Active(Held(With(b, i, n))[j]) =>
           Held(With(b, i, n))[j].name \in Names \ Foreign /\ Held(With(b, i, n))[j].val \in Vals
      /\ n.name \in Names \ Foreign /\ n.val \in Vals
  BY CaseNames
<1>d. DnsAgrees(dns, Held(With(b, i, n)))
  BY DEF DnsFits
<1>2. PICK call : call = UndoCall(n)
  OBVIOUS
<1>3. Moves(call, Held(With(b, i, n))[i], Held(b)[i], n)
  BY <1>0, <1>2, <1>h DEF Moves, UndoCall, Flipped, Calls
<1>4. \A j \in DnsRules \ {i} : Same(Held(With(b, i, n))[j], Held(b)[j])
  BY <1>h DEF Same
<1>5. PICK x, y : x = Held(With(b, i, n)) /\ y = Held(b)
  OBVIOUS
<1>6. DnsAgrees(dns', y) /\ \A m \in Foreign : dns'[m] = dns[m]
  BY <1>2, <1>3, <1>4, <1>5, <1>d, <1>n, DnsStep
<1>7. Held(b)' = y
  BY <1>5 DEF Held, RuleIn
<1> QED
  BY <1>6, <1>7 DEF DnsFits, ForeignRecords

\* Once it is taken back, the DNS server refuses to do so again.
LEMMA DnsRefuses ==
  ASSUME NEW b \in Configs, NEW i \in DnsRules, NEW n \in RuleOf(i), Case(b, i, n),
         NamesOwn(b), DnsFits(b), Flipped(b, i, n)
  PROVE  ~DnsAccepts(UndoCall(n), n.name)
<1> USE ConstFacts
<1>0. /\ b[i].name = n.name /\ b[i].val = n.val /\ n.state \in {"ACTIVE", "INACTIVE"}
      /\ Active(n) <=> n.state = "ACTIVE"
  <2>1. i \in Rules /\ (n.state = "ACTIVE" \/ n.state = "INACTIVE")
    BY CaseSays
  <2> QED
    BY <2>1, CaseFacts
<1>h. \A j \in Rules : Held(b)[j] = b[j]
  BY CaseFacts
<1>n. n.name \in Names \ Foreign /\ n.val \in Vals
  BY CaseNames
<1>d. DnsAgrees(dns, Held(b))
  BY DEF DnsFits
<1>1. CASE n.state = "ACTIVE"
  <2>1. \A j \in DnsRules : Active(b[j]) => b[j].name # n.name
    BY <1>0, <1>1 DEF Flipped
  <2>2. dns[n.name] = NoAddr
    BY <1>d, <1>h, <1>n, <2>1 DEF DnsAgrees
  <2> QED
    BY <1>1, <2>2 DEF DnsAccepts, UndoCall
<1>2. CASE n.state = "INACTIVE"
  <2>1. Active(Held(b)[i])
    BY <1>0, <1>2, <1>h DEF Flipped
  <2>2. dns[n.name] = n.val
    BY <1>0, <1>d, <1>h, <2>1 DEF DnsAgrees
  <2> QED
    BY <1>2, <1>n, <2>2, SentinelAssumption DEF DnsAccepts, UndoCall
<1> QED
  BY <1>0, <1>1, <1>2

\* A traffic rule is nothing to the DNS server.
LEMMA DnsIndifferent ==
  ASSUME NEW b \in Configs, NEW i \in Rules \ DnsRules, NEW n \in RuleOf(i), Case(b, i, n)
  PROVE  DnsFits(b) <=> DnsFits(With(b, i, n))
<1> USE ConstFacts
<1>1. \A j \in Rules : Held(b)[j] = b[j] /\ Held(With(b, i, n))[j] = IF j = i THEN n ELSE b[j]
  BY CaseFacts
<1>2. \A j \in DnsRules : /\ Same(Held(b)[j], Held(With(b, i, n))[j])
                          /\ Same(Held(With(b, i, n))[j], Held(b)[j])
  BY <1>1 DEF Same
<1>3. PICK x, y : x = Held(b) /\ y = Held(With(b, i, n))
  OBVIOUS
<1>4. DnsAgrees(dns, x) <=> DnsAgrees(dns, y)
  BY <1>2, <1>3, DnsSame
<1> QED
  BY <1>3, <1>4 DEF DnsFits

\* The data plane follows, whatever it had.  A rule that is to have no state is
\* taken away, or left as it is: nothing is said of it.
LEMMA DpForward ==
  ASSUME NEW b \in Configs, NEW i \in Rules, NEW n \in RuleOf(i), Case(b, i, n),
         DpTyped, DpFits(b), DataPlane(i, DataPlaneCall(i, b[i], n), n)
  PROVE  DpFits(With(b, i, n))'
<1> USE ConstFacts
<1>0. /\ n.state = "" \/ n.state = "ACTIVE" \/ n.state = "INACTIVE"
      /\ Active(n) <=> n.state # "INACTIVE"
      /\ i \in DnsRules => n.state # ""
      /\ b[i] # NoRule /\ n # NoRule
  <2>1. Active(n) <=> n.state # "INACTIVE"
    BY CaseFacts
  <2> QED
    BY <2>1, CaseSays
<1>h. \A j \in Rules : Held(b)[j] = b[j] /\ Held(With(b, i, n))[j] = IF j = i THEN n ELSE b[j]
  BY CaseFacts
<1>u. /\ \A j \in Rules \ {i} : j \in Unstated(With(b, i, n)) <=> j \in Unstated(b)
      /\ i \in Unstated(b) <=> b[i].state = ""
      /\ i \in Unstated(With(b, i, n)) <=> n.state = ""
  BY <1>0, <1>h DEF Unstated, Held
<1>d. \A j \in Rules \ Unstated(b) : dp[j] = IF Active(b[j]) THEN Body(b[j]) ELSE NoRule
  BY <1>h, Operations DEF DpFits, DpAgrees
<1>1. PICK call : call = DataPlaneCall(i, b[i], n)
  OBVIOUS
<1>2. /\ call \in Calls
      /\ n.state # "" => /\ call \in {"Add", "Set"} => Active(n)
                         /\ call = "Delete" => ~Active(n)
                         /\ call = "None" => /\ ~Active(n) /\ ~Active(b[i])
                                             /\ i \notin Unstated(b)
  BY <1>0, <1>1, <1>u DEF DataPlaneCall, DnsCall, Calls, Active
<1>3. \A j \in Rules \ {i} : dp'[j] = dp[j]
  BY <1>1, <1>2 DEF DataPlane, DpTyped, Calls
<1>4. n.state # "" => dp'[i] = IF Active(n) THEN Body(n) ELSE NoRule
  BY <1>1, <1>2, <1>d DEF DataPlane, DpTyped, Calls
<1>5. PICK y, l : y = Held(With(b, i, n)) /\ l = Unstated(With(b, i, n))
  OBVIOUS
<1>6. DpAgrees(dp', y, l)
  <2> SUFFICES ASSUME NEW j \in Rules, j \notin l
               PROVE  dp'[j] = IF HasOperation(j, WaitMp2) /\ Active(y[j]) THEN Body(y[j])
                               ELSE NoRule
    BY DEF DpAgrees
  <2>1. HasOperation(j, WaitMp2)
    BY Operations
  <2>2. CASE j = i
    BY <1>4, <1>5, <1>h, <1>u, <2>1, <2>2
  <2>3. CASE j # i
    BY <1>3, <1>5, <1>d, <1>h, <1>u, <2>1, <2>3
  <2> QED
    BY <2>2, <2>3
<1>7. Held(With(b, i, n))' = y /\ Unstated(With(b, i, n))' = l
  BY <1>5 DEF Held, RuleIn, Unstated
<1> QED
  BY <1>6, <1>7 DEF DpFits

----------------------------------------------------------------------------
(* The steps of an update.                                                 *)

\* No answer is lost: a call that failed has done nothing.
LEMMA OutcomeKnown ==
  ASSUME Benign, NEW i, NEW l, NEW call, NEW r, NEW ok \in BOOLEAN, NEW fault,
         Outcome(i, l, call, r, ok, fault)
  PROVE  /\ ok => Accepts(l, call, r) /\ Send(i, l, call, r)
         /\ ~ok => dp' = dp /\ dns' = dns
BY DEF Outcome, Benign, ext

LEMMA FitsKept ==
  ASSUME NEW b, NEW i, NEW n, NEW p, NEW w, PlaceFits(b, i, n, p, w), dp' = dp, dns' = dns
  PROVE  PlaceFits(b, i, n, p, w)'
BY DEF PlaceFits, NamesOwn, ForeignRecords, DpFits, DnsFits

\* Where nothing is called, only the place changes.
LEMMA FitsMoved ==
  ASSUME NEW b, NEW i, NEW n, NEW p, NEW w, NEW p2, NEW w2, PlaceFits(b, i, n, p, w),
         HasNew(p, w) <=> HasNew(p2, w2),
         p2 \in {"dp", "undo", "again"} /\ i \in DnsRules => p \in {"dp", "undo", "again"},
         dp' = dp, dns' = dns
  PROVE  PlaceFits(b, i, n, p2, w2)'
<1>1. PlaceFits(b, i, n, p2, w2)
  BY DEF PlaceFits, DnsTarget
<1> QED
  BY <1>1, FitsKept

LEMMA SettledAs ==
  ASSUME NEW c, config' = c, DpFits(c)', DnsFits(c)', NamesOwn(c), ForeignRecords'
  PROVE  SettledNow'
BY DEF SettledNow, Settled, DpFits, DnsFits, NamesOwn

LEMMA SettledBack ==
  ASSUME NEW b, NEW i, NEW n, NEW p, NEW w, PlaceFits(b, i, n, p, w), ~HasNew(p, w),
         config' = b, dp' = dp, dns' = dns
  PROVE  SettledNow'
<1>1. PlaceFits(b, i, n, p, w)'
  BY FitsKept
<1>2. DnsTarget(b, i, n, p, w) = b
  BY DEF DnsTarget
<1>3. DpFits(b)' /\ DnsFits(b)' /\ NamesOwn(b) /\ ForeignRecords'
  BY <1>1, <1>2 DEF PlaceFits, NamesOwn, DnsFits
<1> QED
  BY <1>3, SettledAs

LEMMA UpdateAgrees ==
  ASSUME Benign, Mp1TypeInv, HeldInv, AgreeInv, NEW u \in Clients, UpdateStep(u)
  PROVE  AgreeInv'
<1> USE ConstFacts
<1> DEFINE Agree2 == /\ Busy' = {} => IF TaskWrites' THEN TaskInv' ELSE SettledNow'
                     /\ \A v \in Busy' : FitsInv(v)'
<1> SUFFICES ASSUME ~raced', ~broken' PROVE Agree2
  BY DEF AgreeInv
<1>u. /\ upd[u] # NoUpdate /\ ~raced /\ pc' = pc /\ u \in Busy
      /\ UpdTyped /\ DpTyped /\ DnsTyped
  BY StepShape DEF Busy, Mp1TypeInv, UpdTyped, TypeInv, TypeOK, DpTyped, DnsTyped
<1>v. ~broken
  BY DEF UpdateStep, StoreUpdate, UpdateDns, UpdateDataPlane, UndoDns, UnstoreUpdate
<1>w. Busy = {u} /\ ~TaskWrites /\ ~TaskWrites'
  BY <1>u DEF HeldInv, TaskWrites
<1>p. PICK b, i, n, p, w : /\ b = upd[u].base /\ i = upd[u].rule /\ n = upd[u].new
                           /\ p = upd[u].pc /\ w = upd[u].went
  OBVIOUS
<1>f. PlaceFits(b, i, n, p, w)
  BY <1>p, <1>u, <1>v DEF AgreeInv, FitsInv
<1>t. b \in Configs /\ i \in Rules /\ n \in RuleOf(i) /\ p \in Places /\ w \in Ways
  BY <1>p, <1>u, InHand
<1>c. /\ Case(b, i, n)
      /\ p \in {"dns", "undo", "again"} => i \in DnsRules
      /\ p \in {"store", "dns", "dp"} <=> w = "well"
      /\ p = "undo" => w = "wrong"
  BY <1>p, <1>u DEF Mp1TypeInv, UpdateInv, Case, OldRule
<1>g. config = IF p = "store" THEN b ELSE With(b, i, n)
  BY <1>p, <1>u DEF HeldInv, NewConfig, With
<1>a. ASSUME NEW p2, NEW w2, Moved(u, p2, w2), PlaceFits(b, i, n, p2, w2)' PROVE Agree2
  <2>1. Busy' = {u}
    BY <1>a, <1>u, <1>w, BusyAfter
  <2>2. FitsInv(u)'
    BY <1>a, <1>p DEF Moved, FitsInv
  <2> QED
    BY <2>1, <2>2
<1>b. ASSUME Left(u), SettledNow' PROVE Agree2
  <2>1. Busy' = {}
    BY <1>b, <1>u, <1>w, BusyAfter
  <2> QED
    BY <1>b, <1>w, <2>1
<1> HIDE DEF Agree2
<1>1. CASE StoreUpdate(u)
  <2>1. p = "store" /\ w = "well" /\ dp' = dp /\ dns' = dns
    BY <1>1, <1>p, <1>c DEF StoreUpdate, At, ext
  <2>2. CASE Goto(u, IF upd[u].rule \in DnsRules THEN "dns" ELSE "dp")
    <3>1. PICK p2 \in Places : p2 = IF i \in DnsRules THEN "dns" ELSE "dp"
      BY DEF Places
    <3>2. Moved(u, p2, w)
      BY <1>p, <1>t, <1>u, <2>2, <3>1, GotoMoves
    <3>3. CASE i \in DnsRules
      <4>1. PlaceFits(b, i, n, p2, w)'
        BY <1>f, <2>1, <3>1, <3>3, FitsMoved DEF HasNew
      <4> QED
        BY <1>a, <3>2, <4>1
    <3>4. CASE i \notin DnsRules
      <4>1. DnsTarget(b, i, n, p, w) = b /\ DnsTarget(b, i, n, p2, w) = With(b, i, n)
        BY <2>1, <3>1, <3>4 DEF DnsTarget, HasNew
      <4>2. DnsFits(With(b, i, n))
        BY <1>c, <1>f, <1>t, <3>4, <4>1, DnsIndifferent DEF PlaceFits
      <4>3. PlaceFits(b, i, n, p2, w)
        BY <1>f, <3>4, <4>1, <4>2 DEF PlaceFits
      <4>4. PlaceFits(b, i, n, p2, w)'
        BY <2>1, <4>3, FitsKept
      <4> QED
        BY <1>a, <3>2, <4>4
    <3> QED
      BY <3>3, <3>4
  <2>3. CASE Done(u) /\ UNCHANGED config
    <3>1. Left(u)
      BY <1>u, <2>3, DoneLeaves
    <3>2. config' = b /\ ~HasNew(p, w)
      BY <1>g, <2>1, <2>3 DEF HasNew
    <3>3. SettledNow'
      BY <1>f, <2>1, <3>2, SettledBack
    <3> QED
      BY <1>b, <3>1, <3>3
  <2> QED
    BY <1>1, <2>2, <2>3 DEF StoreUpdate
<1>2. CASE UpdateDns(u)
  <2>1. p = "dns" /\ w = "well" /\ i \in DnsRules
    BY <1>2, <1>p, <1>c DEF UpdateDns, At
  <2>2. PICK ok \in BOOLEAN :
          /\ Outcome(i, WaitLocal, DnsCall(n), n, ok, "call")
          /\ IF ok THEN Goto(u, "dp") ELSE Failed(u, "unstore")
    BY <1>2, <1>p DEF UpdateDns
  <2>3. /\ ok => Accepts(WaitLocal, DnsCall(n), n) /\ Send(i, WaitLocal, DnsCall(n), n)
        /\ ~ok => dp' = dp /\ dns' = dns
    BY <2>2, OutcomeKnown
  <2>4. CASE ok
    <3>1. Moved(u, "dp", w)
      BY <1>p, <1>u, <2>2, <2>4, GotoMoves DEF Places
    <3>2. DnsAccepts(DnsCall(n), n.name) /\ DnsServer(DnsCall(n), n) /\ dp' = dp
      BY <2>3, <2>4 DEF Accepts, Send
    <3>3. DnsTarget(b, i, n, p, w) = b /\ DnsTarget(b, i, n, "dp", w) = With(b, i, n)
      BY <2>1 DEF DnsTarget, HasNew
    <3>4. NamesOwn(b) /\ ForeignRecords /\ DpFits(b) /\ DnsFits(b)
      BY <1>f, <3>3 DEF PlaceFits
    <3>5. Flipped(b, i, n) /\ DnsFits(With(b, i, n))' /\ ForeignRecords'
      BY <1>c, <1>t, <1>u, <2>1, <3>2, <3>4, DnsForward
    <3>6. DpFits(b)'
      BY <3>2, <3>4 DEF DpFits
    <3>7. PlaceFits(b, i, n, "dp", w)'
      BY <3>3, <3>4, <3>5, <3>6 DEF PlaceFits, NamesOwn, DnsFits
    <3> QED
      BY <1>a, <3>1, <3>7
  <2>5. CASE ~ok
    <3>1. Moved(u, "unstore", "wrong")
      BY <1>u, <2>2, <2>5, ResultMoves DEF Places, Ways, Failed
    <3>2. PlaceFits(b, i, n, "unstore", "wrong")'
      BY <1>f, <2>1, <2>3, <2>5, FitsMoved DEF HasNew
    <3> QED
      BY <1>a, <3>1, <3>2
  <2> QED
    BY <2>4, <2>5
<1>3. CASE UpdateDataPlane(u)
  <2>1. p = "dp" /\ w = "well" /\ config' = config
    BY <1>3, <1>p, <1>c DEF UpdateDataPlane, At, dbs
  <2>2. PICK ok \in BOOLEAN :
          /\ Outcome(i, WaitMp2, DataPlaneCall(i, b[i], n), n, ok, "call")
          /\ IF ok THEN Done(u) ELSE Failed(u, IF i \in DnsRules THEN "undo" ELSE "unstore")
    BY <1>3, <1>p DEF UpdateDataPlane, OldRule
  <2>3. /\ ok => Send(i, WaitMp2, DataPlaneCall(i, b[i], n), n)
        /\ ~ok => dp' = dp /\ dns' = dns
    BY <2>2, OutcomeKnown
  <2>d. DnsTarget(b, i, n, p, w) = With(b, i, n)
    BY <2>1 DEF DnsTarget, HasNew
  <2>n. NamesOwn(b) /\ ForeignRecords /\ DpFits(b) /\ DnsFits(With(b, i, n))
    BY <1>f, <2>d DEF PlaceFits
  <2>4. CASE ok
    <3>1. Left(u)
      BY <1>u, <2>2, <2>4, DoneLeaves
    <3>2. DataPlane(i, DataPlaneCall(i, b[i], n), n) /\ dns' = dns
      BY <2>3, <2>4 DEF Send
    <3>3. DpFits(With(b, i, n))'
      BY <1>c, <1>t, <1>u, <2>n, <3>2, DpForward
    <3>4. DnsFits(With(b, i, n))' /\ ForeignRecords'
      BY <2>n, <3>2 DEF DnsFits, ForeignRecords
    <3>5. NamesOwn(With(b, i, n))
      BY <1>c, <1>t, <2>n, CaseNames
    <3>6. config' = With(b, i, n)
      BY <1>g, <2>1
    <3>7. SettledNow'
      BY <3>3, <3>4, <3>5, <3>6, SettledAs
    <3> QED
      BY <1>b, <3>1, <3>7
  <2>5. CASE ~ok
    <3>1. PICK p2 \in Places : p2 = IF i \in DnsRules THEN "undo" ELSE "unstore"
      BY DEF Places
    <3>2. Moved(u, p2, "wrong")
      BY <1>u, <2>2, <2>5, <3>1, ResultMoves DEF Ways, Failed
    <3>3. CASE i \in DnsRules
      <4>1. PlaceFits(b, i, n, p2, "wrong")'
        BY <1>f, <2>1, <2>3, <2>5, <3>1, <3>3, FitsMoved DEF HasNew
      <4> QED
        BY <1>a, <3>2, <4>1
    <3>4. CASE i \notin DnsRules
      <4>1. DnsTarget(b, i, n, p2, "wrong") = b
        BY <3>1, <3>4 DEF DnsTarget, HasNew
      <4>2. DnsFits(b)
        BY <1>c, <1>t, <2>n, <3>4, DnsIndifferent
      <4>3. PlaceFits(b, i, n, p2, "wrong")
        BY <2>n, <3>4, <4>1, <4>2 DEF PlaceFits
      <4>4. PlaceFits(b, i, n, p2, "wrong")'
        BY <2>3, <2>5, <4>3, FitsKept
      <4> QED
        BY <1>a, <3>2, <4>4
    <3> QED
      BY <3>3, <3>4
  <2> QED
    BY <2>4, <2>5
<1>4. CASE UndoDns(u)
  <2>1. p \in {"undo", "again"} /\ i \in DnsRules
    BY <1>4, <1>p, <1>c DEF UndoDns, At
  <2>2. PICK p2 \in Places : p2 = IF p = "undo" THEN "again" ELSE "unstore"
    BY DEF Places
  <2>3. PICK ok \in BOOLEAN :
          /\ Outcome(i, WaitLocal, UndoCall(n), n, ok, "undo")
          /\ upd' = [upd EXCEPT ![u].pc = p2, ![u].went = IF ok THEN "back" ELSE @]
          /\ broken' = (broken \/ (p = "again" /\ ~ok /\ w # "back"))
    BY <1>4, <1>p, <2>2 DEF UndoDns
  <2>4. /\ ok => Accepts(WaitLocal, UndoCall(n), n) /\ Send(i, WaitLocal, UndoCall(n), n)
        /\ ~ok => dp' = dp /\ dns' = dns
    BY <2>3, OutcomeKnown
  <2>5. PICK w2 \in Ways : w2 = IF ok THEN "back" ELSE w
    BY <1>t DEF Ways
  <2>6. upd' = [upd EXCEPT ![u].pc = p2, ![u].went = w2]
    <3>1. CASE ok
      BY <2>3, <2>5, <3>1
    <3>2. CASE ~ok
      BY <1>p, <2>3, <2>5, <3>2
    <3> QED
      BY <3>1, <3>2
  <2>7. Moved(u, p2, w2)
    BY <1>u, <2>6, ResultMoves
  <2>f. Flipped(b, i, n) /\ NamesOwn(b) /\ ForeignRecords /\ DpFits(b)
    BY <1>f, <2>1 DEF PlaceFits
  <2>8. CASE w = "wrong" /\ ok
    <3>1. DnsAccepts(UndoCall(n), n.name) /\ DnsServer(UndoCall(n), n) /\ dp' = dp
      BY <2>4, <2>8 DEF Accepts, Send
    <3>2. DnsTarget(b, i, n, p, w) = With(b, i, n) /\ DnsTarget(b, i, n, p2, w2) = b
      BY <2>1, <2>2, <2>5, <2>8 DEF DnsTarget, HasNew
    <3>3. DnsFits(With(b, i, n))
      BY <1>f, <3>2 DEF PlaceFits
    <3>4. DnsFits(b)' /\ ForeignRecords'
      BY <1>c, <1>t, <1>u, <2>1, <2>f, <3>1, <3>3, DnsBack
    <3>5. DpFits(b)'
      BY <2>f, <3>1 DEF DpFits
    <3>6. PlaceFits(b, i, n, p2, w2)'
      BY <2>f, <3>2, <3>4, <3>5 DEF PlaceFits, NamesOwn, DnsFits
    <3> QED
      BY <1>a, <2>7, <3>6
  <2>9. CASE w = "wrong" /\ ~ok
    <3>1. p = "undo" /\ w2 = "wrong" /\ p2 = "again"
      BY <2>1, <2>2, <2>3, <2>5, <2>9
    <3>2. PlaceFits(b, i, n, p2, w2)'
      BY <1>f, <2>4, <2>9, <3>1, FitsMoved DEF HasNew
    <3> QED
      BY <1>a, <2>7, <3>2
  <2>10. CASE w = "back"
    <3>1. p = "again" /\ p2 = "unstore" /\ ~HasNew(p, w)
      BY <1>c, <2>1, <2>2, <2>10 DEF HasNew
    <3>2. DnsFits(b)
      BY <1>f, <3>1 DEF PlaceFits, DnsTarget
    <3>3. ~DnsAccepts(UndoCall(n), n.name)
      BY <1>c, <1>t, <2>1, <2>f, <3>2, DnsRefuses
    <3>4. ~ok
      BY <2>4, <3>3 DEF Accepts
    <3>5. PlaceFits(b, i, n, p2, w2)'
      BY <1>f, <2>4, <3>1, <3>4, FitsMoved DEF HasNew
    <3> QED
      BY <1>a, <2>7, <3>5
  <2> QED
    BY <1>c, <1>t, <2>1, <2>8, <2>9, <2>10 DEF Ways
<1>5. CASE UnstoreUpdate(u)
  <2>1. p = "unstore" /\ dp' = dp /\ dns' = dns /\ Done(u) /\ config' = b
    BY <1>5, <1>p DEF UnstoreUpdate, At, ext
  <2>2. Left(u)
    BY <1>u, <2>1, DoneLeaves
  <2>3. SettledNow'
    BY <1>f, <2>1, SettledBack DEF HasNew
  <2> QED
    BY <1>b, <2>2, <2>3
<1> QED
  BY <1>1, <1>2, <1>3, <1>4, <1>5 DEF UpdateStep

LEMMA AgreeStutter ==
  ASSUME Benign, Mp1TypeInv, AgreeInv, UNCHANGED mp1Vars
  PROVE  AgreeInv'
<1>1. UNCHANGED <<upd, raced, broken>> /\ UNCHANGED vars
  BY DEF mp1Vars, mp1
<1>2. UNCHANGED <<config, pc, dp, dns>>
  BY <1>1 DEF vars
<1>3. Busy' = Busy /\ TaskWrites' = TaskWrites
  BY <1>1, <1>2 DEF Busy, TaskWrites
<1>4. TaskInv => TaskInv'
  BY <1>1, TaskInvNext
<1>5. SettledNow => SettledNow'
  BY <1>2, SettledKept
<1>6. \A u \in Busy : FitsInv(u) => FitsInv(u)'
  BY <1>1, <1>2 DEF FitsInv, PlaceFits, NamesOwn, ForeignRecords, DpFits, DnsFits
<1> QED
  BY <1>1, <1>3, <1>4, <1>5, <1>6 DEF AgreeInv

LEMMA Mp1InvNext == Benign /\ Mp1Inv /\ [Mp1Next]_mp1Vars => Mp1Inv'
<1> SUFFICES ASSUME Benign, Mp1Inv, [Mp1Next]_mp1Vars PROVE Mp1Inv'
  OBVIOUS
<1>0. Mp1TypeInv /\ HeldInv /\ AgreeInv
  BY DEF Mp1Inv
<1>t. Mp1TypeInv' /\ HeldInv'
  BY <1>0, Mp1TypeNext
<1>1. CASE AppDStep
  BY <1>0, <1>1, <1>t, AppDAgrees DEF Mp1Inv
<1>2. ASSUME NEW u \in Clients, UpdateStep(u) PROVE Mp1Inv'
  BY <1>0, <1>2, <1>t, UpdateAgrees DEF Mp1Inv
<1>3. ASSUME NEW u \in Clients, NEW i \in Rules, NEW new \in Bodies(i), BeginUpdate(u, i, new)
      PROVE  Mp1Inv'
  BY <1>0, <1>3, <1>t, BeginAgrees DEF Mp1Inv
<1>4. CASE UNCHANGED mp1Vars
  BY <1>0, <1>4, <1>t, AgreeStutter DEF Mp1Inv
<1> QED
  BY <1>1, <1>2, <1>3, <1>4 DEF Mp1Next

LEMMA Mp1InvInit == Mp1Init => Mp1Inv
<1> SUFFICES ASSUME Mp1Init PROVE Mp1Inv
  OBVIOUS
<1>1. Mp1TypeInv /\ HeldInv
  BY Mp1TypeInit
<1>2. TaskInv /\ ~TaskWrites
  <2>1. IInvBut({}) /\ Loose({}) = {}
    BY IInvInit DEF Mp1Init, IInv, Loose
  <2>2. DpInv(Rules)
    BY <2>1 DEF IInvBut, DpInv, DpAgrees
  <2> QED
    BY <2>1, <2>2 DEF Mp1Init, Init, TaskWrites, TaskInv, IInvBut
<1>3. Busy = {}
  BY DEF Mp1Init, Busy
<1> QED
  BY <1>1, <1>2, <1>3, TaskInvSettled DEF Mp1Inv, AgreeInv

LEMMA AgreeMatches == Mp1Inv => ConsistentWhenQuiet
<1> SUFFICES ASSUME Mp1Inv, job = NoJob, Busy = {}, ~raced, ~broken
             PROVE  /\ DnsRecords = DnsOf(config)
                    /\ \A i \in Rules \ Unstated(config) : dp[i] = DpOf(config)[i]
  BY DEF ConsistentWhenQuiet
<1>1. pc = "idle" /\ TypeInv
  BY DEF Mp1Inv, Mp1TypeInv, TypeInv, LockInv
<1>2. SettledNow
  BY <1>1 DEF Mp1Inv, AgreeInv, TaskWrites
<1> QED
  BY <1>1, <1>2, SettledMatches

\* Tasks and updates may follow each other in any order and fail at any call:
\* as long as an update overlaps with nobody and can undo what it did, the data
\* plane and the DNS server hold what is stored whenever nothing is under way,
\* but for the traffic rules that are stored without a state, of which only the
\* next change makes sure (DNSRuleUpdate, TrafficRuleUpdate beside
\* ProcessDataPlaneSync).
THEOREM UpdatesConsistent == Benign /\ Mp1Spec => []ConsistentWhenQuiet
<1> SUFFICES ASSUME Benign PROVE Mp1Spec => []ConsistentWhenQuiet
  OBVIOUS
<1>1. Mp1Inv /\ [Mp1Next]_mp1Vars => Mp1Inv'
  BY Mp1InvNext
<1> QED
  BY Mp1InvInit, <1>1, AgreeMatches, PTL DEF Mp1Spec

----------------------------------------------------------------------------
(* What the tasks bring into the store.                                    *)

NormHeld == StateInv /\ (~raced => NormInv)

LEMMA UpdateBeside ==
  ASSUME NEW u \in Clients, UpdateStep(u)
  PROVE  Beside
BY DEF UpdateStep, StoreUpdate, UpdateDns, UpdateDataPlane, UndoDns, UnstoreUpdate, Beside, dbs,
       mem, loop

\* An update that overlaps with nobody meets no task in its loops.
LEMMA UpdateNorm ==
  ASSUME Mp1TypeInv, HeldInv, NormHeld, NEW u \in Clients, UpdateStep(u)
  PROVE  NormHeld' /\ (~raced => pc # "write")
<1>1. Beside /\ upd[u] # NoUpdate /\ raced' = raced /\ pc' = pc
  BY UpdateBeside, StepShape
<1>2. ~raced => pc \in {"idle", "fail", "clean"}
  BY <1>1 DEF HeldInv, Busy, TaskWrites
<1>3. StateInv'
  BY <1>1, RankKept DEF NormHeld, StateInv, Beside, Listed, Here
<1>4. ~raced => NormInv'
  BY <1>1, <1>2 DEF NormInv
<1> QED
  BY <1>1, <1>2, <1>3, <1>4 DEF NormHeld

LEMMA NormKept ==
  ASSUME TypeInv, TypeInv', NormHeld, [Next]_vars, raced => raced'
  PROVE  /\ NormHeld'
         /\ ~raced => \A i \in Unstated(config') : RuleIn(config, i) = config'[i]
<1>1. StateInv'
  <2>1. CASE Next
    BY <2>1, StateNext DEF NormHeld
  <2>2. CASE UNCHANGED vars
    <3>1. UNCHANGED <<status, wStatus, wJob, pc, pos, lvl, snap>>
      BY <2>2 DEF vars
    <3> QED
      BY <3>1, RankKept DEF NormHeld, StateInv, Listed, Here
  <2> QED
    BY <2>1, <2>2
<1>2. ~raced => NormInv'
  BY NormNext DEF NormHeld
<1>3. ASSUME ~raced, NEW i \in Unstated(config') PROVE RuleIn(config, i) = config'[i]
  <2>1. i \in Rules /\ ~Normal(RuleIn(config', i))
    BY DEF Unstated, Normal
  <2> QED
    BY <1>3, <2>1, WriteNormalises DEF NormHeld
<1> QED
  BY <1>1, <1>2, <1>3 DEF NormHeld

LEMMA NormHeldNext ==
  ASSUME Mp1TypeInv, HeldInv, Mp1TypeInv', NormHeld, [Mp1Next]_mp1Vars
  PROVE  /\ NormHeld'
         /\ pc = "write" /\ ~raced =>
              \A i \in Unstated(config') : RuleIn(config, i) = config'[i]
<1>t. TypeInv /\ TypeInv' /\ raced \in BOOLEAN
  BY DEF Mp1TypeInv
<1>1. CASE AppDStep
  <2>1. Next /\ (raced => raced')
    BY <1>1, <1>t, AppDShape
  <2> QED
    BY <1>t, <2>1, NormKept
<1>2. ASSUME NEW u \in Clients, UpdateStep(u)
      PROVE  NormHeld' /\ (~raced => pc # "write")
  BY <1>2, UpdateNorm
<1>3. ASSUME NEW u \in Clients, NEW i \in Rules, NEW new \in Bodies(i), BeginUpdate(u, i, new)
      PROVE  /\ NormHeld'
             /\ ~raced => \A j \in Unstated(config') : RuleIn(config, j) = config'[j]
  <2>1. UNCHANGED vars /\ (raced => raced')
    BY <1>3, BeginShape
  <2> QED
    BY <1>t, <2>1, NormKept
<1>4. CASE UNCHANGED mp1Vars
  <2>1. UNCHANGED vars /\ (raced => raced')
    BY <1>4 DEF mp1Vars, mp1
  <2> QED
    BY <1>t, <2>1, NormKept
<1> QED
  BY <1>1, <1>2, <1>3, <1>4 DEF Mp1Next

\* Whatever fails in whatever order, and whatever the updates before it have
\* stored, a task that overlaps with no update stores no rule without a state,
\* but those its request leaves as they were (addDnsRule, setDnsRule and their
\* traffic counterparts, handleConfigDBWriteOnSuccess).
THEOREM TasksNormal == Mp1Spec => TasksNormalise
<1> DEFINE A == pc = "write" /\ ~raced =>
                  \A i \in Unstated(config') : RuleIn(config, i) = config'[i]
<1>1. Mp1Init => NormHeld
  BY StateInit, NormInit DEF Mp1Init, NormHeld
<1>2. Mp1TypeInv /\ HeldInv /\ Mp1TypeInv' /\ NormHeld /\ [Mp1Next]_mp1Vars => NormHeld' /\ A
  BY NormHeldNext
<1>3. Mp1TypeInv /\ HeldInv /\ Mp1TypeInv' /\ NormHeld /\ [Mp1Next]_mp1Vars => [A]_mp1Vars
  BY <1>2
<1> QED
  BY Mp1TypeInit, Mp1TypeNext, <1>1, <1>2, <1>3, PTL DEF Mp1Spec, TasksNormalise
=============================================================================
