------------------------------ MODULE MCRecords ------------------------------
(***************************************************************************)
(* Instances of Records for TLC: two threads, one tenant, two ids of runs, *)
(* and four requests.                                                      *)
(***************************************************************************)
EXTENDS Records, TLC

CONSTANTS t1, t2, i1, r1, r2

MCThreads == {t1, t2}
MCIds == {i1}
MCRunIds == {r1, r2}

MCSymmetry == Permutations(MCThreads) \cup Permutations(MCRunIds)
=============================================================================
