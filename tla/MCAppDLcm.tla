----------------------------- MODULE MCAppDLcm -----------------------------
(* Model-checking instances of AppDLcm.  Nothing in it tells applications, *)
(* goroutines, domains or application names apart, so safety runs may use  *)
(* the permutations of all of them.                                        *)
EXTENDS AppDLcm, TLC

Perms == Permutations(Procs) \cup Permutations(Apps)
           \cup Permutations(Domains) \cup Permutations(AppNames)
=============================================================================
