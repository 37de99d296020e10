----------------------------- MODULE AppDAtomic -----------------------------
(***************************************************************************)
(* What the AppD configuration of an application promises: an operation is *)
(* taken in only when no other one is pending, the stored configuration is *)
(* replaced in one step and only by a task that a client sees as           *)
(* succeeded, and when the operation is over the outside world shows       *)
(* exactly the stored configuration, be it the old one or the new one.     *)
(***************************************************************************)
CONSTANTS
  Jobs,         \* the operations that can be asked for
  Result(_),    \* the configuration an operation asks for
  View(_),      \* what the outside world shows for a configuration
  None,         \* the configuration of an application that has none
  NoJob, Unsettled

VARIABLES stored, pending, installed, verdict

vars == <<stored, pending, installed, verdict>>

Init == /\ stored = None /\ pending = NoJob
        /\ installed = View(None) /\ verdict = "NONE"

Begin == /\ pending = NoJob
         /\ pending' \in Jobs
         /\ installed' = Unsettled
         /\ verdict' = "PROCESSING"
         /\ UNCHANGED stored

Decide == /\ pending # NoJob
          /\ verdict = "PROCESSING" /\ verdict' \in {"SUCCESS", "FAILURE"}
          /\ UNCHANGED <<stored, pending, installed>>

Commit == /\ pending # NoJob /\ verdict = "SUCCESS"
          /\ stored' = Result(pending)
          /\ UNCHANGED <<pending, installed, verdict>>

\* A task that could not even start may end without a verdict.
End == /\ pending # NoJob
       /\ pending' = NoJob
       /\ installed' = View(stored)
       /\ verdict' = verdict \/ (verdict = "PROCESSING" /\ verdict' = "FAILURE")
       /\ UNCHANGED stored

Next == Begin \/ Decide \/ Commit \/ End

Spec == Init /\ [][Next]_vars
=============================================================================
