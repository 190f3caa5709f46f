------------------------------- MODULE MCLocks -------------------------------
(***************************************************************************)
(* Two connection threads, each with any request at all: every pair of     *)
(* handlers, in every interleaving of their lock operations.               *)
(***************************************************************************)
EXTENDS Locks

CONSTANTS t1, t2

MCThreads == {t1, t2}
=============================================================================
