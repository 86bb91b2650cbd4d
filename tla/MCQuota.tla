------------------------------- MODULE MCQuota -------------------------------
(* Small instances of Quota for TLC.                                       *)
EXTENDS Quota, TLC

RequestSymmetry == Permutations(Request)
=============================================================================
