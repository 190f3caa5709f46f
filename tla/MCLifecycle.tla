----------------------------- MODULE MCLifecycle -----------------------------
(***************************************************************************)
(* Instances of Lifecycle for TLC: three connections, and an in-flight     *)
(* counter of two bits instead of 64.                                      *)
(***************************************************************************)
EXTENDS Lifecycle

CONSTANTS c1, c2, c3

MCConns == {c1, c2, c3}

MCWrap == 4
=============================================================================
