----------------------------- MODULE Conversation -----------------------------
(***************************************************************************)
(* What a session promises whoever talks to it, without the records, their *)
(* numbers and the threads: its history is a sequence of exchanges.  Each  *)
(* message is answered from one snapshot of the history, and its exchange  *)
(* is then added at the end of it, whole and once, or is lost.  Messages   *)
(* that overlap are kept in the order in which their answers come; what is *)
(* forgotten stays forgotten.                                              *)
(***************************************************************************)
EXTENDS Sequences

CONSTANTS
    Ids,    \* the sessions
    Turns   \* the messages to them

VARIABLES
    history,    \* history[s]: the exchanges of session s, oldest first
    asked,      \* asked[s]: the messages to session s that are being answered
    used,       \* the messages that have come so far
    basis       \* basis[n]: the exchanges that message n is answered from

vars == <<history, asked, used, basis>>

Kept(s) == {history[s][k] : k \in DOMAIN history[s]}

Init ==
    /\ history = [s \in Ids |-> <<>>]
    /\ asked = [s \in Ids |-> {}]
    /\ used = {}
    /\ basis = [n \in Turns |-> {}]

\* A message comes; when its history cannot be read, it is answered from none.
Ask(s, n) ==
    /\ used' = used \cup {n}
    /\ asked' = [asked EXCEPT ![s] = @ \cup {n}]
    /\ \E known \in {Kept(s), {}} : basis' = [basis EXCEPT ![n] = known]
    /\ UNCHANGED history

Done(s, n) ==
    /\ asked' = [asked EXCEPT ![s] = @ \ {n}]
    /\ UNCHANGED <<used, basis>>

Keep(s, n) == Done(s, n) /\ history' = [history EXCEPT ![s] = Append(@, n)]

Lose(s, n) == Done(s, n) /\ UNCHANGED history

Forget(S) ==
    /\ UNCHANGED <<asked, used, basis>>
    /\ history' = [s \in Ids |-> IF s \in S THEN <<>> ELSE history[s]]

\* The process ends, with every message that is being answered.
Crash ==
    /\ UNCHANGED <<used, basis, history>>
    /\ asked' = [s \in Ids |-> {}]

Next ==
    \/ \E s \in Ids :
          \/ \E n \in Turns \ used : Ask(s, n)
          \/ \E n \in asked[s] : Keep(s, n) \/ Lose(s, n)
    \/ \E S \in SUBSET Ids : Forget(S)
    \/ Crash

Spec == Init /\ [][Next]_vars
=============================================================================
