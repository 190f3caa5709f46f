----------------------------- MODULE MCSessions -----------------------------
(* Three threads, two sessions and four messages: two messages to the same *)
(* session overlap, a third comes before, between or after them, and each  *)
(* step of them may meet an erasure or a restart.                          *)
EXTENDS Sessions, TLC

CONSTANTS t1, t2, t3, s1, s2

MCThreads == {t1, t2, t3}
MCIds == {s1, s2}

MCSymmetry == Permutations(MCThreads) \cup Permutations(MCIds)
=============================================================================
