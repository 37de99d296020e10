----------------------------- MODULE MCMepauth -----------------------------
(* Bounds of the mepauth run.                                              *)
EXTENDS MepauthTokens
MCIds == 1 .. 7
=============================================================================
