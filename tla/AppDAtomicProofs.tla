-------------------------- MODULE AppDAtomicProofs --------------------------
(***************************************************************************)
(* Proofs about AppDSync as its clients see it: what the task status says, *)
(* what is stored, and that the synchronisation implements AppDAtomic.     *)
(***************************************************************************)
EXTENDS AppDSyncProofs, FiniteSetTheorems

ListedIn(st) == {i \in Rules : st.method[i] # "none"}
DoneIn(st) == {i \in Rules : st.state[i] = 2}

\* The progress counts the rules that are done, until the task turns back;
\* from then on it stays short of the number that would mean success.
ProgressInv ==
  /\ pc \in Running => status = wStatus
  /\ pc = "staged" => status.progress = 0 /\ ListedIn(status) # {}
  /\ pc \in {"apply", "record", "write"} => wStatus.progress = Cardinality(DoneIn(wStatus))
  /\ pc \in {"revert", "unrecord", "fail"} =>
       /\ wStatus.progress \in Nat
       /\ wStatus.progress < Cardinality(ListedIn(wStatus))

\* A task that failed has been reverted, and nothing has changed since.
FailureInv ==
  status # NoStatus /\ status.progress < 0 =>
    pc \in {"idle", "clean", "stuck", "crashed"} /\ Matches(config)

Normal(r) == r # NoRule => r.state # ""

\* The rules a job leaves alone are taken over as they are stored.
Kept(c, i) == Normal(c[i]) \/ c[i] = RuleIn(config, i)

\* A rule has been normalised when its first operation has been carried out.
NormInv ==
  /\ pc = "staged" => \A i \in Rules : status.state[i] = 0
  /\ pc = "staged" /\ job.op # "DELETE" =>
       \A i \in Rules : status.method[i] = "none" => Kept(job.cfg, i)
  /\ pc \in {"apply", "record", "write"} =>
       \A i \in Rules :
         /\ ~Listed(i) /\ wJob.op # "DELETE" => Kept(wJob.cfg, i)
         /\ \A l \in 0 .. 1 : HasOperation(i, l) /\ wStatus.state[i] > l => Normal(wJob.cfg[i])
  /\ pc \in {"apply", "record"} /\ lvl = 1 =>
       pos \in Rules /\ Listed(Here) /\ (HasOperation(Here, 0) => Normal(wJob.cfg[Here]))
  /\ pc = "record" /\ HasOperation(Here, lvl) => Normal(wJob.cfg[Here])

\* As long as only the tasks write the configuration (an Mp1 update is another
\* writer), every stored rule has a state.
StoredIsNormal == \A i \in Rules : Normal(RuleIn(config, i))

----------------------------------------------------------------------------
(* Counting rules.                                                         *)

LEMMA CountTyped ==
  ASSUME NEW st
  PROVE  /\ IsFiniteSet(ListedIn(st)) /\ Cardinality(ListedIn(st)) \in Nat
         /\ IsFiniteSet(DoneIn(st)) /\ Cardinality(DoneIn(st)) \in Nat
<1>1. IsFiniteSet(Rules)
  BY ConstFacts, FS_Interval
<1>2. ListedIn(st) \in SUBSET Rules /\ DoneIn(st) \in SUBSET Rules
  BY DEF ListedIn, DoneIn
<1>3. IsFiniteSet(ListedIn(st)) /\ IsFiniteSet(DoneIn(st))
  BY <1>1, <1>2, FS_Subset
<1> QED
  BY <1>3, FS_CardinalityType

\* As long as a listed rule is not done, fewer are done than listed.
LEMMA DoneIsShort ==
  ASSUME NEW st, NEW i \in ListedIn(st), i \notin DoneIn(st), DoneIn(st) \subseteq ListedIn(st)
  PROVE  Cardinality(DoneIn(st)) < Cardinality(ListedIn(st))
<1>1. /\ Cardinality(DoneIn(st)) <= Cardinality(ListedIn(st))
      /\ Cardinality(ListedIn(st)) = Cardinality(DoneIn(st)) => ListedIn(st) = DoneIn(st)
  BY CountTyped, FS_Subset
<1> QED
  BY <1>1, CountTyped

\* Recording a state of a rule that is not done.
LEMMA DoneStep ==
  ASSUME wStatus \in Statuses, NEW i \in Rules, NEW s \in 0 .. 2, wStatus.state[i] # 2
  PROVE  Cardinality(DoneIn(Recorded(i, s)))
           = Cardinality(DoneIn(wStatus)) + (IF s = 2 THEN 1 ELSE 0)
<1>1. i \notin DoneIn(wStatus)
  BY DEF DoneIn
<1>2. CASE s = 2
  <2>1. DoneIn(Recorded(i, s)) = DoneIn(wStatus) \cup {i}
    BY <1>2, RecordedTyped DEF DoneIn
  <2> QED
    BY <1>1, <1>2, <2>1, CountTyped, FS_AddElement
<1>3. CASE s # 2
  <2>1. DoneIn(Recorded(i, s)) = DoneIn(wStatus)
    BY <1>1, <1>3, RecordedTyped DEF DoneIn
  <2> QED
    BY <1>3, <2>1, CountTyped
<1> QED
  BY <1>2, <1>3

\* What the status says while a task is on its way.
VerdictFacts ==
  /\ pc \in {"staged", "record", "revert", "unrecord", "fail"} => TaskState = "PROCESSING"
  /\ pc = "apply" => TaskState \in {"PROCESSING", "SUCCESS"}
  /\ pc = "write" => TaskState = "SUCCESS"

\* A rule that is not listed is not done; the one that is being recorded is
\* listed and not done.
LEMMA DoneListed ==
  ASSUME TypeInv, StateInv
  PROVE  /\ pc \in Working => wStatus \in Statuses /\ DoneIn(wStatus) \subseteq ListedIn(wStatus)
         /\ pc \in {"apply", "record"} /\ pos \in Rules /\ Listed(Here) =>
              /\ Here \in Rules /\ Here \in ListedIn(wStatus) /\ Here \notin DoneIn(wStatus)
              /\ wStatus.state[Here] = lvl
         /\ pc = "write" => DoneIn(wStatus) = ListedIn(wStatus)
<1> USE ConstFacts
<1>1. pc \in Working => wStatus \in Statuses /\ DoneIn(wStatus) \subseteq ListedIn(wStatus)
  BY DEF TypeInv, LockInv, StateInv, DoneIn, ListedIn, Listed, Working, Running
<1>2. ASSUME pc \in {"apply", "record"}, pos \in Rules, Listed(Here)
      PROVE  /\ Here \in Rules /\ Here \in ListedIn(wStatus) /\ Here \notin DoneIn(wStatus)
             /\ wStatus.state[Here] = lvl
  <2>1. Here \in Rules /\ Rank(Here) = pos /\ lvl \in 0 .. 1
    BY <1>2, HereFacts DEF Running, TypeInv, TypeOK
  <2>2. wStatus.state[Here] = lvl
    BY <1>2, <2>1 DEF StateInv
  <2> QED
    BY <1>2, <2>1, <2>2 DEF ListedIn, DoneIn, Listed
<1>3. pc = "write" => DoneIn(wStatus) = ListedIn(wStatus)
  BY <1>1 DEF StateInv, DoneIn, ListedIn, Listed, Working, Running
<1> QED
  BY <1>1, <1>2, <1>3

LEMMA Verdicts ==
  ASSUME TypeInv, StateInv, ProgressInv
  PROVE  VerdictFacts
<1> USE ConstFacts
<1>1. /\ pc \in Running \cup {"staged"} => status \in Statuses /\ status # NoStatus
      /\ pc \in Running => status = wStatus
  BY SentinelAssumption DEF TypeInv, LockInv, ProgressInv
<1>2. TaskState = IF status = NoStatus THEN "NONE"
                  ELSE IF status.progress = Cardinality(ListedIn(status)) THEN "SUCCESS"
                  ELSE IF status.progress >= 0 THEN "PROCESSING" ELSE "FAILURE"
  BY DEF TaskState, ListedIn
<1>3. Cardinality(ListedIn(status)) \in Nat /\ Cardinality(DoneIn(status)) \in Nat
      /\ IsFiniteSet(ListedIn(status))
  BY CountTyped
<1>4. CASE pc = "staged"
  <2>1. Cardinality(ListedIn(status)) # 0 /\ status.progress = 0
    BY <1>3, <1>4, FS_EmptySet DEF ProgressInv
  <2> QED
    BY <1>1, <1>2, <1>3, <1>4, <2>1 DEF VerdictFacts
<1>5. CASE pc \in {"revert", "unrecord", "fail"}
  BY <1>1, <1>2, <1>3, <1>5 DEF VerdictFacts, ProgressInv, Running
<1>6. CASE pc \in {"apply", "record", "write"}
  <2>1. status.progress = Cardinality(DoneIn(status)) /\ status # NoStatus
    BY <1>1, <1>6 DEF ProgressInv, Running
  <2>2. pc = "record" => status.progress # Cardinality(ListedIn(status))
    <3> SUFFICES ASSUME pc = "record" PROVE status.progress # Cardinality(ListedIn(status))
      OBVIOUS
    <3>1. pos \in Rules /\ Listed(Here) /\ status = wStatus
      BY <1>1 DEF TypeInv, LockInv, StateInv, Running
    <3>2. Cardinality(DoneIn(status)) < Cardinality(ListedIn(status))
      BY <3>1, DoneListed, DoneIsShort DEF Working, Running
    <3> QED
      BY <2>1, <3>2, <1>3
  <2>3. pc = "write" => status.progress = Cardinality(ListedIn(status))
    BY <1>1, <2>1, DoneListed DEF Running
  <2> QED
    BY <1>2, <1>3, <1>6, <2>1, <2>2, <2>3 DEF VerdictFacts
<1> QED
  BY <1>4, <1>5, <1>6 DEF VerdictFacts

----------------------------------------------------------------------------
(* The progress of a task, whatever fails and whatever is asked for.       *)

Unfinished == wStatus.progress \in Nat /\ wStatus.progress < Cardinality(ListedIn(wStatus))

\* A task that turns back while applying has a listed rule that is not done.
LEMMA TurnsBackShort ==
  ASSUME TypeInv, StateInv, ProgressInv, pc \in {"apply", "record"}, pos \in Rules, Listed(Here)
  PROVE  Unfinished
<1>1. Cardinality(DoneIn(wStatus)) < Cardinality(ListedIn(wStatus))
  BY DoneListed, DoneIsShort DEF Working, Running
<1> QED
  BY <1>1, CountTyped DEF ProgressInv, Unfinished

\* A step that keeps the two copies of the status keeps the progress, unless
\* it makes the task turn back or enter another phase.
LEMMA ProgressKept ==
  ASSUME ProgressInv, UNCHANGED <<status, wStatus>>,
         \/ pc' = pc
         \/ pc \in {"apply", "record"} /\ pc' \in {"apply", "record", "write"}
         \/ pc \in Working /\ pc' \in {"revert", "unrecord", "fail"} /\ Unfinished
         \/ pc \in Running /\ pc' = "clean"
         \/ pc' \in {"idle", "stuck", "crashed"}
  PROVE  ProgressInv'
BY DEF ProgressInv, Unfinished, Working, Running, DoneIn, ListedIn

LEMMA ProgressNext ==
  ASSUME TypeInv, StateInv, ProgressInv, [Next]_vars
  PROVE  ProgressInv'
<1> USE ConstFacts
<1>1. CASE Request
  <2>1. PICK op \in {"POST", "PUT", "DELETE"} : \E in : \E f \in Orders : StageNewTask(op, in, f)
    BY <1>1, RequestStages
  <2>2. PICK in : \E f \in Orders : StageNewTask(op, in, f)
    BY <2>1
  <2>4. PICK f \in Orders : StageNewTask(op, in, f)
    BY <2>2
  <2>5. /\ pc' = "staged" /\ status' = NewStatus(op, in, config, f)
        /\ \E i \in Rules : status'.method[i] # "none"
    BY <2>4 DEF StageNewTask
  <2>6. status'.progress = 0 /\ ListedIn(status') # {}
    BY <2>5 DEF NewStatus, ListedIn
  <2> QED
    BY <2>5, <2>6 DEF ProgressInv, Running
<1>2. CASE StartTask
  <2>1. /\ pc = "staged" /\ pc' = "apply" /\ status' = status /\ wStatus' = status
        /\ \A i \in Rules : status.state[i] = 0 /\ status.progress = 0
    BY <1>2 DEF StartTask, dbs, StateInv, ProgressInv
  <2>2. DoneIn(wStatus') = {}
    BY <2>1 DEF DoneIn
  <2> QED
    BY <2>1, <2>2, FS_EmptySet DEF ProgressInv, Running
<1>3. CASE StartFails
  BY <1>3 DEF StartFails, ProgressInv, Running
<1>4. CASE SkipUnlisted \/ ApplyNothing \/ ApplyDone
  BY <1>4, ProgressKept DEF SkipUnlisted, ApplyNothing, AtApply, ApplyDone, dbs, mem
<1>5. CASE ApplyCall
  <2>1. /\ pc = "apply" /\ pos \in Rules /\ Listed(Here) /\ pc' \in {"record", "revert"}
        /\ UNCHANGED <<status, wStatus>>
    BY <1>5 DEF ApplyCall, AtApply, dbs, BeginRevert
  <2>2. Unfinished
    BY <2>1, TurnsBackShort
  <2> QED
    BY <2>1, <2>2, ProgressKept DEF Working, Running
<1>6. CASE ApplyPanic \/ RevertRecordFails \/ Crash
  BY <1>6 DEF ApplyPanic, RevertRecordFails, Crash, dbs, ProgressInv, Running
<1>7. CASE ApplyRecord
  <2>1. /\ pc = "record" /\ pc' = "apply" /\ pos \in Rules /\ Listed(Here)
        /\ wStatus' = Recorded(Here, lvl + 1) /\ status' = wStatus' /\ lvl \in 0 .. 1
        /\ wStatus \in Statuses
    BY <1>7 DEF ApplyRecord, TypeInv, TypeOK, LockInv, StateInv, Running
  <2>2. Here \in Rules /\ wStatus.state[Here] # 2 /\ lvl + 1 \in 0 .. 2
    BY <2>1, DoneListed DEF DoneIn
  <2>3. Cardinality(DoneIn(wStatus'))
          = Cardinality(DoneIn(wStatus)) + (IF lvl + 1 = 2 THEN 1 ELSE 0)
    BY <2>1, <2>2, DoneStep
  <2>4. wStatus'.progress = wStatus.progress + (IF lvl + 1 = 2 THEN 1 ELSE 0)
    BY <2>1 DEF Recorded
  <2> QED
    BY <2>1, <2>3, <2>4 DEF ProgressInv, Running
<1>8. CASE ApplyRecordFails
  <2>1. /\ pc = "record" /\ pos \in Rules /\ Listed(Here) /\ pc' = "revert"
        /\ UNCHANGED <<status, wStatus>>
    BY <1>8 DEF ApplyRecordFails, BeginRevert, dbs, mem, TypeInv, LockInv, StateInv
  <2>2. Unfinished
    BY <2>1, TurnsBackShort
  <2> QED
    BY <2>1, <2>2, ProgressKept DEF Working, Running
<1>9. CASE WriteConfig
  <2>1. pc = "write" /\ pc' = "clean" /\ UNCHANGED <<status, wStatus>>
    BY <1>9 DEF WriteConfig, StateInv, mem
  <2> QED
    BY <2>1, ProgressKept DEF Running
<1>10. CASE Clean
  BY <1>10 DEF Clean, ProgressInv, Running
<1>11. CASE SkipRevert \/ RevertNothing \/ RevertDone
  BY <1>11, ProgressKept DEF SkipRevert, RevertNothing, AtRevert, NextRevert, AfterRevertCall,
     RevertDone, dbs, mem, ProgressInv, Unfinished, Working, Running
<1>12. CASE RevertCall
  <2>1. /\ pc = "revert" /\ status' = status
        /\ pc' = "stuck" \/ (pc' \in {"revert", "unrecord"} /\ wStatus' = wStatus)
    BY <1>12 DEF RevertCall, AtRevert, NextRevert, AfterRevertCall, dbs, mem
  <2> QED
    BY <2>1 DEF ProgressInv, DoneIn, ListedIn, Running
<1>13. CASE RevertRecord
  <2>1. /\ pc = "unrecord" /\ pc' = "revert" /\ status' = wStatus'
        /\ wStatus'.method = wStatus.method /\ wStatus'.progress = wStatus.progress + 0
    BY <1>13 DEF RevertRecord, Recorded
  <2> QED
    BY <2>1 DEF ProgressInv, ListedIn, Running
<1>14. CASE Fail
  BY <1>14 DEF Fail, ProgressInv, Running
<1>15. CASE UNCHANGED vars
  BY <1>15, ProgressKept DEF vars
<1> QED
  BY <1>1, <1>2, <1>3, <1>4, <1>5, <1>6, <1>7, <1>8, <1>9, <1>10, <1>11, <1>12, <1>13, <1>14, <1>15
     DEF Next, Task

LEMMA StateInit == Init => StateInv /\ ProgressInv
BY DEF Init, StateInv, ProgressInv, Working, Running

\* The invariant of the task and its status, under every failure.
StatusInv == TypeInv /\ StateInv /\ ProgressInv

LEMMA StatusInit == Init => StatusInv
BY TypeInit, StateInit DEF StatusInv

LEMMA StatusNext == StatusInv /\ [Next]_vars => StatusInv'
<1> SUFFICES ASSUME StatusInv, [Next]_vars PROVE StatusInv'
  OBVIOUS
<1>1. TypeInv'
  BY TypeNext DEF StatusInv
<1>2. StateInv'
  <2>1. CASE Next
    BY <1>1, <2>1, StateNext DEF StatusInv
  <2>2. CASE UNCHANGED vars
    BY <2>2, RankKept DEF StatusInv, vars, StateInv, Listed
  <2> QED
    BY <2>1, <2>2
<1>3. ProgressInv'
  BY ProgressNext DEF StatusInv
<1> QED
  BY <1>1, <1>2, <1>3 DEF StatusInv

\* What a step does to the answer that clients get.
LEMMA VerdictStep ==
  ASSUME StatusInv, VerdictFacts, VerdictFacts', [Next]_vars
  PROVE  /\ Request => TaskState' = "PROCESSING"
         /\ ~Request => \/ TaskState' = TaskState
                        \/ TaskState = "PROCESSING"
<1>1. CASE Request
  <2>1. pc' = "staged"
    BY <1>1 DEF Request, StageNewTask
  <2> QED
    BY <1>1, <2>1 DEF VerdictFacts
<1>2. CASE StartFails \/ ApplyRecord \/ RevertRecord \/ Fail
  <2>1. pc \in {"staged", "record", "unrecord", "fail"}
    BY <1>2 DEF StartFails, ApplyRecord, RevertRecord, Fail
  <2>2. ~Request
    BY <2>1 DEF Request, StageNewTask, StatusInv, TypeInv, LockInv
  <2> QED
    BY <2>1, <2>2 DEF VerdictFacts
<1>3. CASE status' = status
  <2>1. TaskState' = TaskState
    BY <1>3 DEF TaskState
  <2> QED
    BY <1>1, <2>1
<1>4. status' = status \/ Request \/ StartFails \/ ApplyRecord \/ RevertRecord \/ Fail
  BY DEF Next, Task, Crash, vars, dbs, StartTask, SkipUnlisted, ApplyCall, ApplyNothing,
     ApplyPanic, ApplyRecordFails, ApplyDone, WriteConfig, Clean, SkipRevert, RevertCall,
     RevertNothing, RevertRecordFails, RevertDone
<1> QED
  BY <1>1, <1>2, <1>3, <1>4

\* Whatever fails, a client that was told SUCCESS or FAILURE is told the same
\* until another task is staged (setStateAndProgress, handleErrorOnProcessing,
\* TaskStatusGet).
THEOREM VerdictStands == Spec => VerdictIsFinal
<1>1. StatusInv /\ VerdictFacts /\ VerdictFacts' /\ [Next]_vars =>
        [pc' # "staged" /\ TaskState \in {"SUCCESS", "FAILURE"} => TaskState' = TaskState]_vars
  <2> SUFFICES ASSUME StatusInv, VerdictFacts, VerdictFacts', [Next]_vars, pc' # "staged",
                      TaskState \in {"SUCCESS", "FAILURE"}
               PROVE  TaskState' = TaskState
    OBVIOUS
  <2>1. ~Request
    BY DEF Request, StageNewTask
  <2> QED
    BY <2>1, VerdictStep
<1>2. StatusInv /\ [Next]_vars => StatusInv'
  BY StatusNext
<1>3. StatusInv => VerdictFacts
  BY Verdicts DEF StatusInv
<1> QED
  BY StatusInit, <1>1, <1>2, <1>3, PTL DEF Spec, VerdictIsFinal

----------------------------------------------------------------------------
(* What a task stores has no empty rule state, unless it left one alone.   *)

LEMMA NormIsNormal ==
  ASSUME NEW i \in Rules, NEW r \in {NoRule} \cup RuleOf(i)
  PROVE  Normal(Norm(r))
BY DEF Norm, Normal, RuleOf

\* What normalising the rule at hand does to the job.
LEMMA JobNormal ==
  ASSUME wJob \in Jobs, NEW i \in Rules, wJob' = [wJob EXCEPT !.cfg[i] = Norm(wJob.cfg[i])]
  PROVE  /\ wJob'.op = wJob.op /\ Normal(wJob'.cfg[i])
         /\ \A m \in Rules : Normal(wJob.cfg[m]) => Normal(wJob'.cfg[m])
<1>1. /\ wJob'.op = wJob.op
      /\ \A m \in Rules : wJob'.cfg[m] = IF m = i THEN Norm(wJob.cfg[m]) ELSE wJob.cfg[m]
  BY JobNorm
<1>2. \A m \in Rules : wJob.cfg[m] \in {NoRule} \cup RuleOf(m)
  BY CfgTyped DEF Jobs
<1> QED
  BY <1>1, <1>2, NormIsNormal

\* A rule that is done has had an operation, whatever the DNS type.
LEMMA SomeOperation == \A i \in Rules : HasOperation(i, 0) \/ HasOperation(i, 1)
BY ConstFacts DEF HasOperation

LEMMA NormNext ==
  ASSUME TypeInv, StateInv, NormInv, [Next]_vars
  PROVE  NormInv'
<1> USE ConstFacts
<1>k. pc \in Running => wStatus \in Statuses /\ (pos \in Rules => Here \in Rules)
  BY HereFacts DEF TypeInv, LockInv
<1>1. CASE Request
  <2>1. PICK op \in {"POST", "PUT", "DELETE"} : \E in : \E f \in Orders : StageNewTask(op, in, f)
    BY <1>1, RequestStages
  <2>2. PICK in : \E f \in Orders : StageNewTask(op, in, f)
    BY <2>1
  <2>4. PICK f \in Orders : StageNewTask(op, in, f)
    BY <2>2
  <2>5. /\ pc' = "staged" /\ status' = NewStatus(op, in, config, f) /\ config' = config
        /\ job' = [op |-> op, cfg |-> IF op = "DELETE" THEN config ELSE in]
        /\ op = "POST" <=> config = NoConfig
    BY <2>4 DEF StageNewTask
  <2>6. \A i \in Rules : /\ status'.method[i] = MethodOf(op, in, config, i)
                         /\ status'.state[i] = 0
    BY <2>5, NewStatusTyped
  <2>7. job'.op = op /\ (op # "DELETE" => job'.cfg = in)
    BY <2>5
  <2>8. ASSUME NEW i \in Rules, op # "DELETE", status'.method[i] = "none"
        PROVE  in[i] = RuleIn(config, i)
    BY <2>5, <2>6, <2>8 DEF MethodOf, RuleIn
  <2> QED
    BY <2>5, <2>6, <2>7, <2>8 DEF NormInv, Kept, RuleIn
<1>2. CASE StartTask
  <2>1. /\ pc = "staged" /\ pc' = "apply" /\ lvl' = 0 /\ config' = config
        /\ wJob' = job /\ wStatus' = status
    BY <1>2 DEF StartTask, dbs
  <2>2. \A i \in Rules : ~Listed(i)' /\ wJob'.op # "DELETE" => Kept(wJob.cfg, i)'
    BY <2>1 DEF NormInv, Listed, Kept, RuleIn
  <2>3. \A i \in Rules, l \in 0 .. 1 : ~(wStatus'.state[i] > l)
    BY <2>1 DEF NormInv
  <2> QED
    BY <2>1, <2>2, <2>3 DEF NormInv
<1>3. CASE StartFails \/ Clean \/ ApplyPanic \/ RevertRecordFails \/ Crash
  BY <1>3 DEF StartFails, Clean, ApplyPanic, RevertRecordFails, Crash, dbs, NormInv, Kept, RuleIn
<1>4. CASE ApplyRecordFails \/ SkipRevert \/ RevertNothing \/ RevertDone
  BY <1>4 DEF ApplyRecordFails, BeginRevert, SkipRevert, RevertNothing, NextRevert,
     AfterRevertCall, RevertDone, dbs, mem, NormInv, Kept, RuleIn
<1>5. CASE RevertCall \/ RevertRecord \/ Fail
  <2>1. config' = config /\ pc' \in {"revert", "unrecord", "stuck", "clean"}
    BY <1>5 DEF RevertCall, NextRevert, AfterRevertCall, RevertRecord, Fail, dbs
  <2> QED
    BY <2>1 DEF NormInv, Kept, RuleIn
<1>6. CASE SkipUnlisted
  BY <1>6 DEF SkipUnlisted, AtApply, dbs, mem, NormInv, Kept, RuleIn, Listed
<1>7. CASE ApplyNothing
  BY <1>7, <1>k, RankKept DEF ApplyNothing, AtApply, dbs, mem, loop, NormInv, Kept, RuleIn,
     Listed, Here, HasOperation
<1>8. CASE ApplyDone
  <2>1. pc = "apply" /\ pc' = "write" /\ UNCHANGED <<config, wJob, wStatus>>
    BY <1>8 DEF ApplyDone, dbs, mem
  <2> QED
    BY <2>1 DEF NormInv, Kept, RuleIn, Listed
<1>9. CASE ApplyCall
  <2>1. /\ pc = "apply" /\ pos \in Rules /\ Listed(Here) /\ HasOperation(Here, lvl)
        /\ wJob' = [wJob EXCEPT !.cfg[Here] = Norm(wJob.cfg[Here])]
        /\ UNCHANGED <<config, wStatus>>
        /\ \/ pc' = "record" /\ UNCHANGED <<pos, lvl>>
           \/ pc' = "revert"
    BY <1>9 DEF ApplyCall, AtApply, dbs, BeginRevert, loop
  <2>2. wJob \in Jobs /\ Here \in Rules
    BY <1>k, <2>1 DEF TypeInv, LockInv, Running
  <2>3. /\ wJob'.op = wJob.op /\ Normal(wJob'.cfg[Here])
        /\ \A m \in Rules : Normal(wJob.cfg[m]) => Normal(wJob'.cfg[m])
    BY <2>1, <2>2, JobNormal
  <2>4. pc' = "record" => Here' = Here
    BY <2>1, RankKept
  <2> QED
    BY <2>1, <2>2, <2>3, <2>4 DEF NormInv, Kept, RuleIn, Listed
<1>10. CASE ApplyRecord
  <2>1. /\ pc = "record" /\ pc' = "apply" /\ pos \in Rules /\ Listed(Here)
        /\ wStatus' = Recorded(Here, lvl + 1) /\ lvl \in 0 .. 1
        /\ UNCHANGED <<config, wJob>>
        /\ lvl = 0 => lvl' = 1 /\ pos' = pos
        /\ lvl = 1 => lvl' = 0
    BY <1>10 DEF ApplyRecord, TypeInv, TypeOK, LockInv, StateInv, Running
  <2>2. Here \in Rules /\ wStatus \in Statuses /\ lvl + 1 \in 0 .. 2
    BY <1>k, <2>1 DEF Running
  <2>3. /\ wStatus'.method = wStatus.method /\ wStatus'.order = wStatus.order
        /\ \A m \in Rules : wStatus'.state[m] = IF m = Here THEN lvl + 1 ELSE wStatus.state[m]
    BY <2>1, <2>2, RecordedTyped
  <2>4. lvl' = 1 => Here' = Here /\ lvl = 0
    BY <2>1, <2>3, RankKept
  <2>5. \A i \in Rules, l \in 0 .. 1 : HasOperation(i, l) /\ wStatus'.state[i] > l
                                         => Normal(wJob.cfg[i])
    <3> SUFFICES ASSUME NEW i \in Rules, NEW l \in 0 .. 1, HasOperation(i, l),
                        wStatus'.state[i] > l
                 PROVE  Normal(wJob.cfg[i])
      OBVIOUS
    <3>1. CASE i # Here
      BY <2>1, <2>3, <3>1 DEF NormInv
    <3>2. CASE i = Here /\ l = lvl
      BY <2>1, <3>2 DEF NormInv
    <3>3. CASE i = Here /\ l # lvl
      <4>1. l = 0 /\ lvl = 1
        BY <2>1, <2>2, <2>3, <3>3
      <4> QED
        BY <2>1, <3>3, <4>1 DEF NormInv
    <3> QED
      BY <3>1, <3>2, <3>3
  <2>6. lvl' = 1 => pos' \in Rules /\ Listed(Here)' /\ (HasOperation(Here, 0)' => Normal(wJob.cfg[Here])')
    BY <2>1, <2>3, <2>4 DEF NormInv, Listed, HasOperation
  <2>7. \A i \in Rules : ~Listed(i)' /\ wJob'.op # "DELETE" => Kept(wJob.cfg, i)'
    BY <2>1, <2>3 DEF NormInv, Listed, Kept, RuleIn
  <2> QED
    BY <2>1, <2>5, <2>6, <2>7 DEF NormInv, Kept, RuleIn
<1>11. CASE WriteConfig
  <2>1. pc = "write" /\ pc' = "clean"
    BY <1>11 DEF WriteConfig, StateInv
  <2> QED
    BY <2>1 DEF NormInv
<1>12. CASE UNCHANGED vars
  <2>1. UNCHANGED <<config, job, status, wJob, wStatus, pc, pos, lvl>>
    BY <1>12 DEF vars
  <2>2. Here' = Here
    BY <2>1, RankKept
  <2> QED
    BY <2>1, <2>2 DEF NormInv, Kept, RuleIn, Listed, HasOperation
<1> QED
  BY <1>1, <1>2, <1>3, <1>4, <1>5, <1>6, <1>7, <1>8, <1>9, <1>10, <1>11, <1>12 DEF Next, Task

\* What a task writes has no rule without a state, but where it left one alone.
LEMMA WritesKept ==
  ASSUME TypeInv, StateInv, NormInv, pc = "write", wJob.op # "DELETE", NEW i \in Rules
  PROVE  Kept(wJob.cfg, i)
<1>1. CASE ~Listed(i)
  BY <1>1 DEF NormInv
<1>2. CASE Listed(i)
  <2>1. wStatus.state[i] = 2
    BY <1>2 DEF StateInv
  <2>2. PICK l \in 0 .. 1 : HasOperation(i, l)
    BY SomeOperation
  <2>3. wStatus.state[i] > l
    BY <2>1
  <2> QED
    BY <2>2, <2>3 DEF NormInv, Kept
<1> QED
  BY <1>1, <1>2

LEMMA ConfigChanges ==
  ASSUME TypeInv, [Next]_vars, config' # config
  PROVE  pc = "write" /\ (config' = NoConfig \/ (wJob.op # "DELETE" /\ config' = wJob.cfg))
<1>1. CASE Request
  BY <1>1, RequestStages DEF StageNewTask
<1>2. CASE WriteConfig
  BY <1>2 DEF WriteConfig
<1>3. CASE Task \/ Crash
  BY <1>2, <1>3 DEF Task, Crash, dbs, StartTask, StartFails, SkipUnlisted, ApplyCall, ApplyNothing,
     ApplyPanic, ApplyRecord, ApplyRecordFails, ApplyDone, Clean, SkipRevert, RevertCall,
     RevertNothing, RevertRecord, RevertRecordFails, RevertDone, Fail
<1>4. CASE UNCHANGED vars
  BY <1>4 DEF vars
<1> QED
  BY <1>1, <1>3, <1>4 DEF Next

LEMMA WriteNormalises ==
  ASSUME TypeInv, StateInv, NormInv, [Next]_vars, NEW i \in Rules,
         ~Normal(RuleIn(config', i))
  PROVE  config'[i] = RuleIn(config, i)
<1>1. CASE config' = config
  BY <1>1 DEF RuleIn, Normal
<1>2. CASE config' # config
  <2>1. pc = "write" /\ (config' = NoConfig \/ (wJob.op # "DELETE" /\ config' = wJob.cfg))
    BY <1>2, ConfigChanges
  <2>2. config' # NoConfig
    BY DEF RuleIn, Normal
  <2>3. Kept(wJob.cfg, i)
    BY <2>1, <2>2, WritesKept
  <2> QED
    BY <2>1, <2>2, <2>3 DEF Kept, RuleIn
<1> QED
  BY <1>1, <1>2

LEMMA StoredNext ==
  ASSUME TypeInv, StateInv, NormInv, StoredIsNormal, [Next]_vars
  PROVE  StoredIsNormal'
<1> SUFFICES ASSUME NEW i \in Rules, ~Normal(RuleIn(config', i)) PROVE FALSE
  BY DEF StoredIsNormal
<1>1. config'[i] = RuleIn(config, i)
  BY WriteNormalises
<1> QED
  BY <1>1 DEF StoredIsNormal, Normal, RuleIn

----------------------------------------------------------------------------
(* What a failed task leaves behind.                                       *)

\* Where no operation of a task is in force, everything matches.
MatchInv == pc \in {"idle", "staged", "fail", "clean"} => Matches(config)

LEMMA MatchFromIInv == IInv => MatchInv
<1> SUFFICES ASSUME IInv, pc \in {"idle", "staged", "fail", "clean"} PROVE Matches(config)
  BY DEF MatchInv
<1>1. Alive /\ \A i \in Rules : Level(i) = 0
  BY DEF Alive, Level
<1> QED
  BY <1>1, MatchesFromIInv

LEMMA FailureNext ==
  ASSUME StatusInv, FailureInv, MatchInv', [Next]_vars
  PROVE  FailureInv'
<1> USE ConstFacts
<1>1. pc \in Working \cup {"staged"} => status.progress \in Nat
  <2>1. CASE pc = "staged"
    BY <2>1 DEF StatusInv, ProgressInv
  <2>2. CASE pc \in {"apply", "record", "write"}
    <3>1. Cardinality(DoneIn(wStatus)) \in Nat
      BY CountTyped
    <3>2. status = wStatus /\ wStatus.progress = Cardinality(DoneIn(wStatus))
      BY <2>2 DEF StatusInv, ProgressInv, Running
    <3> QED
      BY <3>1, <3>2
  <2>3. CASE pc \in {"revert", "unrecord", "fail"}
    BY <2>3 DEF StatusInv, ProgressInv, Running
  <2> QED
    BY <2>1, <2>2, <2>3 DEF Working, Running
<1>2. CASE Request
  <2>1. \E op, in, f : status' = NewStatus(op, in, config, f)
    BY <1>2, RequestStages DEF StageNewTask
  <2>2. status'.progress = 0
    BY <2>1 DEF NewStatus
  <2> QED
    BY <2>2 DEF FailureInv
<1>3. CASE StartFails \/ Fail
  <2>1. pc' \in {"idle", "clean"}
    BY <1>3 DEF StartFails, Fail
  <2> QED
    BY <2>1 DEF FailureInv, MatchInv
<1>4. CASE ApplyRecord \/ RevertRecord
  <2>1. /\ pc \in {"record", "unrecord"} /\ status = wStatus
        /\ wStatus.progress \in Int
        /\ \/ status'.progress = wStatus.progress + 1
           \/ status'.progress = wStatus.progress + 0
    BY <1>4 DEF ApplyRecord, RevertRecord, Recorded, StatusInv, ProgressInv, TypeInv, LockInv,
       Running, Statuses
  <2> QED
    BY <1>1, <2>1 DEF FailureInv, Working, Running
<1>5. CASE Clean \/ UNCHANGED vars \/ (pc = "clean" /\ Crash)
  <2>1. UNCHANGED <<status, config, dp, dns>> /\ pc' \in {pc, "idle", "stuck", "crashed"}
    BY <1>5 DEF Clean, vars, Crash, dbs, ext
  <2>2. Matches(config) => Matches(config)'
    <3>1. DpOf(config)' = DpOf(config) /\ DnsOf(config)' = DnsOf(config)
      BY <2>1 DEF DpOf, DnsOf
    <3>2. DnsRecords' = DnsRecords
      BY <2>1 DEF DnsRecords
    <3> QED
      BY <2>1, <3>1, <3>2 DEF Matches
  <2> QED
    BY <2>1, <2>2 DEF FailureInv
<1>6. CASE pc \in Working \cup {"staged"} /\ status' = status
  BY <1>1, <1>6 DEF FailureInv
<1>7. ASSUME Task PROVE \/ StartFails \/ Fail \/ ApplyRecord \/ RevertRecord \/ Clean
                        \/ pc \in Working \cup {"staged"} /\ status' = status
  BY <1>7 DEF Task, dbs, StartTask, SkipUnlisted, ApplyCall, ApplyNothing, AtApply, ApplyPanic,
     ApplyRecordFails, ApplyDone, WriteConfig, SkipRevert, AtRevert, RevertCall, RevertNothing,
     RevertRecordFails, RevertDone, Working, Running
<1>8. ASSUME Crash PROVE \/ pc = "clean"
                         \/ pc \in Working \cup {"staged"} /\ status' = status
  BY <1>8 DEF Crash, dbs, StatusInv, TypeInv, TypeOK, Working, Running
<1> QED
  BY <1>2, <1>3, <1>4, <1>5, <1>6, <1>7, <1>8 DEF Next

\* The invariant behind what the status promises when failures are benign.
FullInv ==
  IInv /\ StatusInv /\ VerdictFacts /\ MatchInv /\ NormInv /\ StoredIsNormal

LEMMA NormInit == Init => NormInv /\ StoredIsNormal
BY DEF Init, NormInv, StoredIsNormal, RuleIn, Normal

LEMMA FullInit == Init => FullInv
<1>1. Init => NormInv /\ StoredIsNormal
  BY NormInit
<1>2. Init => MatchInv
  BY IInvInit, MatchFromIInv
<1>3. Init => VerdictFacts
  BY StatusInit, Verdicts DEF StatusInv
<1> QED
  BY IInvInit, StatusInit, <1>1, <1>2, <1>3 DEF FullInv

\* A client that is told FAILURE finds nothing of its request on the data
\* plane and the DNS server (handleErrorOnProcessing): the failure is recorded
\* after everything has been reverted, and nothing happens before the next
\* request is staged.
THEOREM FailureReverted == Benign /\ Spec => []FailureLeavesNothing
<1> SUFFICES ASSUME Benign PROVE Spec => []FailureLeavesNothing
  OBVIOUS
<1>1. IInv /\ [Next]_vars => IInv'
  BY IInvNext
<1>2. Init => FailureInv
  BY DEF Init, FailureInv
<1>3. StatusInv /\ FailureInv /\ MatchInv' /\ [Next]_vars => FailureInv'
  BY FailureNext
<1>4. StatusInv /\ FailureInv => FailureLeavesNothing
  <2> SUFFICES ASSUME StatusInv, FailureInv, TaskState = "FAILURE" PROVE Matches(config)
    BY DEF FailureLeavesNothing
  <2>1. status # NoStatus /\ ~(status.progress >= 0)
    BY DEF TaskState
  <2>2. status.progress \in Int
    BY <2>1 DEF StatusInv, TypeInv, TypeOK, Statuses
  <2> QED
    BY <2>1, <2>2 DEF FailureInv
<1> QED
  BY IInvInit, StatusInit, StatusNext, MatchFromIInv, <1>1, <1>2, <1>3, <1>4, PTL DEF Spec

----------------------------------------------------------------------------
(* The synchronisation implements the atomic change of AppDAtomic.         *)

\* What the task writes in the end is what the job asks for.
LEMMA WritesResult ==
  ASSUME TypeInv, StateInv, NormInv, StoredIsNormal, pc = "write", wJob.op # "DELETE"
  PROVE  wJob.cfg = NormJob(job).cfg
<1>1. /\ wJob \in Jobs /\ job \in Jobs
      /\ \A i \in Rules : wJob.cfg[i] \in {job.cfg[i], Norm(job.cfg[i])}
  BY DEF TypeInv, TypeOK, LockInv, Running
<1>2. \A i \in Rules : Normal(wJob.cfg[i])
  BY WritesKept DEF Kept, StoredIsNormal
<1>3. \A i \in Rules : wJob.cfg[i] = Norm(job.cfg[i])
  BY <1>1, <1>2 DEF Norm, Normal
<1>4. wJob.cfg = [i \in Rules |-> wJob.cfg[i]]
  BY <1>1 DEF Jobs, Configs
<1>5. NormJob(job).cfg = [i \in Rules |-> Norm(job.cfg[i])]
  BY <1>1 DEF NormJob, Jobs
<1> QED
  BY <1>3, <1>4, <1>5

\* A step that changes nothing of what the abstract specification sees.
LEMMA AtomicStutter ==
  ASSUME UNCHANGED <<config, job, status>>, job = NoJob => UNCHANGED <<dp, dns>>
  PROVE  UNCHANGED Atomic!vars
<1>1. TaskState' = TaskState
  BY DEF TaskState
<1>2. job = NoJob => UNCHANGED <<dp, DnsRecords>>
  BY DEF DnsRecords
<1> QED
  BY <1>1, <1>2 DEF Atomic!vars

LEMMA AtomicInit == Init => Atomic!Init
<1> SUFFICES ASSUME Init PROVE Atomic!Init
  OBVIOUS
<1>1. config = NoConfig /\ job = NoJob /\ TaskState = "NONE"
  BY DEF Init, TaskState
<1>2. Matches(config)
  BY IInvInit, MatchFromIInv DEF MatchInv, Init
<1> QED
  BY <1>1, <1>2 DEF Matches, Atomic!Init

LEMMA AtomicNext ==
  ASSUME FullInv, FullInv', [Next]_vars
  PROVE  [Atomic!Next]_(Atomic!vars)
<1> USE ConstFacts
<1>t. /\ pc # "idle" => job # NoJob
      /\ pc' # "idle" => job' # NoJob
      /\ pc = "idle" => job = NoJob
      /\ VerdictFacts /\ VerdictFacts'
  BY DEF FullInv, IInv, IInvBut, TypeInv, LockInv
<1>1. CASE Request
  <2>1. pc' = "staged" /\ job = NoJob /\ config' = config
    BY <1>1, RequestStages DEF StageNewTask
  <2>2. job' \in Jobs /\ job' # NoJob
    BY <1>t, <2>1 DEF FullInv, IInv, IInvBut, TypeInv, TypeOK
  <2>3. TaskState' = "PROCESSING"
    BY <1>t, <2>1 DEF VerdictFacts
  <2> QED
    BY <2>1, <2>2, <2>3 DEF Atomic!Begin, Atomic!Next
<1>2. CASE StartFails \/ (Clean /\ pc' = "idle")
  <2>1. job # NoJob /\ job' = NoJob /\ config' = config /\ pc' = "idle"
    BY <1>2, <1>t DEF StartFails, Clean
  <2>2. Matches(config)'
    BY <2>1 DEF FullInv, MatchInv
  <2>3. <<dp, DnsRecords>>' = <<DpOf(config), DnsOf(config)>>
    <3>1. DpOf(config)' = DpOf(config) /\ DnsOf(config)' = DnsOf(config)
      BY <2>1 DEF DpOf, DnsOf
    <3> QED
      BY <2>2, <3>1 DEF Matches
  <2>4. TaskState' = TaskState \/ (TaskState = "PROCESSING" /\ TaskState' = "FAILURE")
    <3>1. CASE status' = status
      BY <3>1 DEF TaskState
    <3>2. CASE status' # status
      <4>1. pc = "staged" /\ status' = [status EXCEPT !.progress = -1] /\ status \in Statuses
        BY <1>2, <3>2 DEF StartFails, Clean, FullInv, IInv, IInvBut, TypeInv, LockInv
      <4>2. status' # NoStatus /\ status'.progress = -1
        BY <4>1, SentinelAssumption DEF Statuses
      <4>3. Cardinality(ListedIn(status')) \in Nat
        BY CountTyped
      <4> QED
        BY <1>t, <4>1, <4>2, <4>3 DEF VerdictFacts, TaskState, ListedIn
    <3> QED
      BY <3>1, <3>2
  <2> QED
    BY <2>1, <2>3, <2>4 DEF Atomic!End, Atomic!Next
<1>3. CASE ApplyRecord \/ RevertRecord
  <2>1. /\ pc \in {"record", "unrecord"} /\ pc' \in {"apply", "revert"}
        /\ UNCHANGED <<config, job>>
    BY <1>3 DEF ApplyRecord, RevertRecord
  <2>2. TaskState = "PROCESSING" /\ TaskState' \in {"PROCESSING", "SUCCESS"}
        /\ job # NoJob
    BY <1>t, <2>1 DEF VerdictFacts
  <2> QED
    BY <2>1, <2>2 DEF Atomic!Decide, Atomic!Next, Atomic!vars
<1>4. CASE Fail
  <2>1. /\ pc = "fail" /\ UNCHANGED <<config, job>> /\ wStatus \in Statuses
        /\ status' = [wStatus EXCEPT !.progress = -1]
    BY <1>4 DEF Fail, FullInv, IInv, IInvBut, TypeInv, LockInv, Running
  <2>2. status' # NoStatus /\ status'.progress = -1
    BY <2>1, SentinelAssumption DEF Statuses
  <2>3. Cardinality(ListedIn(status')) \in Nat
    BY CountTyped
  <2>4. TaskState = "PROCESSING" /\ TaskState' = "FAILURE" /\ job # NoJob
    BY <1>t, <2>1, <2>2, <2>3 DEF VerdictFacts, TaskState, ListedIn
  <2> QED
    BY <2>1, <2>4 DEF Atomic!Decide, Atomic!Next
<1>5. CASE WriteConfig
  <2>1. /\ pc = "write" /\ UNCHANGED <<job, status, dp, dns>> /\ job # NoJob
        /\ \/ config' = config
           \/ config' = IF wJob.op = "DELETE" THEN NoConfig ELSE wJob.cfg
    BY <1>t, <1>5 DEF WriteConfig, ext
  <2>2. CASE config' = config
    BY <2>1, <2>2, AtomicStutter
  <2>3. CASE config' = IF wJob.op = "DELETE" THEN NoConfig ELSE wJob.cfg
    <3>1. wJob.op = job.op
      BY <2>1 DEF FullInv, IInv, IInvBut, TypeInv, LockInv, Running
    <3>2. config' = IF job.op = "DELETE" THEN NoConfig ELSE NormJob(job).cfg
      BY <2>1, <2>3, <3>1, WritesResult DEF FullInv, IInv, IInvBut
    <3>3. TaskState = "SUCCESS" /\ TaskState' = TaskState
      BY <1>t, <2>1 DEF VerdictFacts, TaskState
    <3> QED
      BY <2>1, <3>2, <3>3 DEF Atomic!Commit, Atomic!Next
  <2> QED
    BY <2>1, <2>2, <2>3
<1>6. CASE UNCHANGED vars
  BY <1>6, AtomicStutter DEF vars
<1>7. CASE pc # "idle" /\ UNCHANGED <<config, job, status>>
  BY <1>t, <1>7, AtomicStutter
<1>8. ASSUME Task \/ Crash
      PROVE  \/ StartFails \/ (Clean /\ pc' = "idle") \/ ApplyRecord \/ RevertRecord \/ Fail
             \/ WriteConfig \/ (pc # "idle" /\ UNCHANGED <<config, job, status>>)
  BY <1>8 DEF Task, Crash, dbs, StartTask, SkipUnlisted, ApplyCall, ApplyNothing, AtApply,
     ApplyPanic, ApplyRecordFails, ApplyDone, Clean, SkipRevert, AtRevert, RevertCall,
     RevertNothing, RevertRecordFails, RevertDone
<1> QED
  BY <1>1, <1>2, <1>3, <1>4, <1>5, <1>6, <1>7, <1>8 DEF Next

\* When failures are benign, staging, applying, reverting and writing look like
\* one atomic change with a verdict (ProcessDataPlaneSync): every step is a step
\* of AppDAtomic or changes nothing it speaks of.
THEOREM SyncIsAtomic == Benign /\ Spec => ImplementsAtomic
<1> SUFFICES ASSUME Benign PROVE Spec => ImplementsAtomic
  OBVIOUS
<1>1. IInv /\ [Next]_vars => IInv'
  BY IInvNext
<1>2. StatusInv => VerdictFacts
  BY Verdicts DEF StatusInv
<1>3. StatusInv /\ NormInv /\ StoredIsNormal /\ [Next]_vars => NormInv' /\ StoredIsNormal'
  BY NormNext, StoredNext DEF StatusInv
<1>4. Init => NormInv /\ StoredIsNormal
  BY NormInit
<1>5. FullInv <=> IInv /\ StatusInv /\ VerdictFacts /\ MatchInv /\ NormInv /\ StoredIsNormal
  BY DEF FullInv
<1>6. FullInv /\ FullInv' /\ [Next]_vars => [Atomic!Next]_(Atomic!vars)
  BY AtomicNext
<1> QED
  BY IInvInit, StatusInit, StatusNext, MatchFromIInv, AtomicInit, <1>1, <1>2, <1>3, <1>4, <1>5, <1>6,
     PTL DEF Spec, ImplementsAtomic, Atomic!Spec
=============================================================================
