----------------------------- MODULE MCMp1Rules -----------------------------
(* Model-checking instance of Mp1Rules.  The values of rules are only      *)
(* compared, so they may be exchanged.                                     *)
EXTENDS Mp1Rules, TLC

ValSymmetry == Permutations(Vals)
=============================================================================
