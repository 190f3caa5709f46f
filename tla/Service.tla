-------------------------------- MODULE Service --------------------------------
(***************************************************************************)
(* What the gateway promises of its requests and of its shutdown, without  *)
(* the counter, the gates and the two dozen ways out that keep it: a       *)
(* request is let in while the door is open, served once and over; who     *)
(* waits for the gateway to become quiet is told so when nobody is being   *)
(* served and nobody was left behind, and gives up only when somebody is.  *)
(***************************************************************************)
CONSTANT Conns      \* the connections, one request each

VARIABLES
    request,    \* waiting, let in, served, over, or left behind unended
    door,       \* requests are let in: open, or closed for good
    quiet       \* the answer to whoever waits for the gateway to be quiet

vars == <<request, door, quiet>>

Busy == \E c \in Conns : request[c] \in {"served", "left behind"}

Init ==
    /\ request = [c \in Conns |-> "waiting"]
    /\ door = "open"
    /\ quiet = "unknown"

Move(c, from, to) ==
    /\ request[c] = from
    /\ request' = [request EXCEPT ![c] = to]
    /\ UNCHANGED <<door, quiet>>

LetIn(c) == door = "open" /\ Move(c, "waiting", "let in")
Refuse(c) == Move(c, "waiting", "over")
Begin(c) == Move(c, "let in", "served")
End(c) == Move(c, "served", "over")
LeaveBehind(c) == Move(c, "served", "left behind")

Close ==
    /\ door = "open"
    /\ door' = "closed"
    /\ UNCHANGED <<request, quiet>>

\* The gateway is quiet at the instant of the answer.
Quiet ==
    /\ door = "closed" /\ quiet = "unknown"
    /\ ~Busy
    /\ quiet' = "yes"
    /\ UNCHANGED <<request, door>>

GiveUp ==
    /\ door = "closed" /\ quiet = "unknown"
    /\ Busy
    /\ quiet' = "no"
    /\ UNCHANGED <<request, door>>

\* The process ends, with every request and every promise.
Crash ==
    /\ request' = [c \in Conns |-> "over"]
    /\ door' = "closed"
    /\ quiet' = "unknown"

Next ==
    \/ \E c \in Conns :
          LetIn(c) \/ Refuse(c) \/ Begin(c) \/ End(c) \/ LeaveBehind(c)
    \/ Close \/ Quiet \/ GiveUp \/ Crash

Spec == Init /\ [][Next]_vars
=============================================================================
