--------------------------- MODULE MCTermination ---------------------------
(* Bounds of the termination run: a subscription to the end of the         *)
(* application, and one to a service while it is active.                   *)
EXTENDS Termination
MCBodies ==
  {[type |-> "end", typed |-> TRUE],
   [type |-> "avail", filter |-> [lists |-> "match", states |-> {"ACTIVE"}, isLocal |-> FALSE]]}
=============================================================================
