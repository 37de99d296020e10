----------------------------- MODULE MCServices -----------------------------
(* Bounds of the services run: a body with an endpoint and heartbeats, an   *)
(* inactive one with no endpoint, and one with an alternative endpoint and  *)
(* no heartbeats.                                                           *)
EXTENDS Services
MCNames == 1 .. 4
Body(e, s, l) == [endpoint |-> e, state |-> s, live |-> l]
MCBodies == {Body(Uris, "ACTIVE", TRUE), Body({}, "INACTIVE", TRUE),
             Body({Alternative}, "ACTIVE", FALSE)}
=============================================================================
