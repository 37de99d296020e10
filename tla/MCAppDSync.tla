---------------------------- MODULE MCAppDSync ----------------------------
(* Model-checking instances of AppDSync: the constants are model values    *)
(* and small sets given in the configurations.                             *)
EXTENDS AppDSync
=============================================================================
