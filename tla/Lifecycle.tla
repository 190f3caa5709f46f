------------------------------ MODULE Lifecycle ------------------------------
(***************************************************************************)
(* The life of a connection in server.rs and the shutdown coordinator of   *)
(* probes.rs.                                                              *)
(*                                                                         *)
(* server::run accepts connections and gives each one a thread, which runs *)
(* handle_connection for a single request: it reads the head, passes the   *)
(* rate limiter, the probe endpoints, the emergency gate and the drain     *)
(* gate, is counted by ShutdownController::request_start, authenticates,   *)
(* reads the body and dispatches.  A request that reaches the bottom of    *)
(* the function is uncounted by request_end before its response is         *)
(* written; every return in between leaves it counted.                     *)
(*                                                                         *)
(* The waiter is the thread that shuts the server down: it calls           *)
(* initiate_shutdown and then wait_for_drain.                              *)
(***************************************************************************)
EXTENDS Integers, FiniteSets

CONSTANTS
    Conns,  \* the connections of a run, one thread and one request each
    Wrap    \* active_requests is counted modulo Wrap (2^64 in the code)

ASSUME ConnsAssumption == IsFiniteSet(Conns)

ASSUME WrapAssumption == Wrap \in Nat /\ Cardinality(Conns) < Wrap

VARIABLES
    up,             \* the process runs: the accept loop has not failed
    pc,             \* pc[c]: where the thread of connection c stands
    class,          \* class[c]: what kind of request c turned out to carry
    active,         \* ShutdownController.active_requests
    heartbeat,      \* ProbeState.heartbeat
    shuttingDown,   \* ShutdownController.shutting_down
    drainStarted,   \* ShutdownController.drain_started
    waiter,         \* where the thread that shuts down stands
    passedAtClose   \* history: the threads past the drain gate as it closed

connVars == <<pc, class>>
shutdownVars == <<shuttingDown, drainStarted, waiter, passedAtClose>>
vars == <<up, connVars, active, heartbeat, shutdownVars>>

-----------------------------------------------------------------------------
(* What handle_connection tells apart in a method and a path.              *)

\* probe:  GET /healthz, /readyz, /startupz
\* health: /v1/health, let through in emergency mode and without credentials
\* open:   /health, / and OPTIONS, let through without credentials
\* direct: a path server.rs answers itself (streams, runs/:id, sessions/:id,
\*         run/:name, tenants/:id)
\* routed: every other path, answered by router::route_with_tenant
Class == {"probe", "health", "open", "direct", "routed"}

SkipsAuth == {"health", "open"}

\* Steps of a thread before request_start and between request_start and
\* request_end.
BeforeCount == {"reading", "limiting", "gating", "draining"}
Counted == {"authenticating", "refused", "body", "dispatch", "recording", "ending"}

\* How a thread ends: never counted, counted and never uncounted, served, or
\* gone with the process.
Ended == {"uncounted", "leaked", "done", "gone"}

PC == {"unborn"} \cup BeforeCount \cup {"admitted"} \cup Counted
        \cup {"writing"} \cup Ended

Waiter == {"idle", "initiated", "waiting", "drained", "timedout"}

At(S) == {c \in Conns : pc[c] \in S}

\* The threads that passed the drain gate, finished or not.
Passed == {"admitted", "writing", "leaked", "done"} \cup Counted
PassedGate == At(Passed)

Go(c, from, to) ==
    /\ up
    /\ pc[c] = from
    /\ pc' = [pc EXCEPT ![c] = to]

\* The same for a step that may be the last to ask for the class of c: it
\* is forgotten as the request is answered and as the thread ends.
Step(c, from, to) ==
    /\ Go(c, from, to)
    /\ class' = IF to \in Ended \cup {"refused", "recording"}
                THEN [class EXCEPT ![c] = "routed"] ELSE class

-----------------------------------------------------------------------------

Init ==
    /\ up = TRUE
    /\ pc = [c \in Conns |-> "unborn"]
    /\ class = [c \in Conns |-> "routed"]
    /\ active = 0
    /\ heartbeat = 0
    /\ shuttingDown = FALSE
    /\ drainStarted = FALSE
    /\ waiter = "idle"
    /\ passedAtClose = {}

(* server::run.  An error of accept() leaves the loop with `?` and main's  *)
(* expect ends the process, with its threads and its memory.               *)
Accept(c) ==
    /\ Go(c, "unborn", "reading")
    /\ UNCHANGED <<up, class, active, heartbeat, shutdownVars>>

AcceptError ==
    /\ up
    /\ up' = FALSE
    /\ pc' = [c \in Conns |-> "gone"]
    /\ class' = [c \in Conns |-> "routed"]
    /\ active' = 0 /\ heartbeat' = 0
    /\ shuttingDown' = FALSE /\ drainStarted' = FALSE
    /\ waiter' = "idle"
    /\ passedAtClose' = {}

(* The request line and the headers.  The read has no timeout.             *)
ReadHead(c) ==
    /\ Go(c, "reading", "limiting")
    /\ \E k \in Class : class' = [class EXCEPT ![c] = k]
    /\ UNCHANGED <<up, active, heartbeat, shutdownVars>>

ReadHeadFails(c) ==
    /\ Step(c, "reading", "uncounted")
    /\ UNCHANGED <<up, active, heartbeat, shutdownVars>>

RateLimit(c) ==
    /\ \E to \in {"gating", "uncounted"} : Step(c, "limiting", to)
    /\ UNCHANGED <<up, active, heartbeat, shutdownVars>>

(* Probes are answered before either gate and are never counted.           *)
AnswerProbe(c) ==
    /\ class[c] = "probe"
    /\ Step(c, "gating", "uncounted")
    /\ UNCHANGED <<up, active, heartbeat, shutdownVars>>

(* The emergency gate.  The degradation mode belongs to another component  *)
(* (module Feedback): here either answer is possible, except for health.   *)
EmergencyGate(c) ==
    /\ class[c] # "probe"
    /\ \/ Step(c, "gating", "draining")
       \/ class[c] # "health" /\ Step(c, "gating", "uncounted")
    /\ UNCHANGED <<up, active, heartbeat, shutdownVars>>

\* Mutant of DrainGate: health is exempt, as it is from the emergency gate.
DrainGateSparesHealth(c) ==
    /\ Step(c, "draining", IF drainStarted /\ class[c] # "health"
                           THEN "uncounted" ELSE "admitted")
    /\ UNCHANGED <<up, active, heartbeat, shutdownVars>>

(* The drain gate reads drain_started; counting is a separate step.        *)
DrainGate(c) ==
    /\ Step(c, "draining", IF drainStarted THEN "uncounted" ELSE "admitted")
    /\ UNCHANGED <<up, active, heartbeat, shutdownVars>>

RequestStart(c) ==
    /\ Go(c, "admitted", "authenticating")
    /\ active' = (active + 1) % Wrap
    /\ heartbeat' = heartbeat + 1
    /\ UNCHANGED <<up, class, shutdownVars>>

(* Credentials and the tenant's quota: else the answer is a 401 or a 429.  *)
Authenticate(c) ==
    /\ \/ Step(c, "authenticating", "body")
       \/ class[c] \notin SkipsAuth /\ Step(c, "authenticating", "refused")
    /\ UNCHANGED <<up, active, heartbeat, shutdownVars>>

(* The refusal is written to the client while the request is counted, and  *)
(* written or not it returns from here.                                    *)
WriteRefusal(c) ==
    /\ Step(c, "refused", "leaked")
    /\ UNCHANGED <<up, active, heartbeat, shutdownVars>>

(* read_exact of content_length bytes: an error returns.                   *)
ReadBody(c) ==
    /\ \E to \in {"dispatch", "leaked"} : Step(c, "body", to)
    /\ UNCHANGED <<up, active, heartbeat, shutdownVars>>

(* A path answered by server.rs itself: its handler and the write of its   *)
(* response, which waits for the client, return, fail or panic, and no     *)
(* request_end follows.                                                    *)
Direct(c) ==
    /\ class[c] = "direct"
    /\ Step(c, "dispatch", "leaked")
    /\ UNCHANGED <<up, active, heartbeat, shutdownVars>>

(* A routed path: the handler returns, or panics and ends the thread.      *)
Route(c) ==
    /\ class[c] # "direct"
    /\ \E to \in {"recording", "leaked"} : Step(c, "dispatch", to)
    /\ UNCHANGED <<up, active, heartbeat, shutdownVars>>

(* The SLO record, the shadow record and the degradation update (their     *)
(* state is in module Feedback).  The slice of the response that is        *)
(* shadowed panics when byte 4096 is inside a character.                   *)
Record(c) ==
    /\ \E to \in {"ending", "leaked"} : Step(c, "recording", to)
    /\ UNCHANGED <<up, active, heartbeat, shutdownVars>>

\* Mutants of RequestEnd: a guard dropped at the end of the scope ends the
\* request a second time, on the u64 and on a signed counter, and an end
\* that is forgotten.
RequestEndTwice(c) ==
    /\ Go(c, "ending", "writing")
    /\ active' = (active + Wrap - 2) % Wrap
    /\ UNCHANGED <<up, class, heartbeat, shutdownVars>>

RequestEndSigned(c) ==
    /\ Go(c, "ending", "writing")
    /\ active' = active - 2
    /\ UNCHANGED <<up, class, heartbeat, shutdownVars>>

RequestEndForgotten(c) ==
    /\ Go(c, "ending", "writing")
    /\ UNCHANGED <<up, class, active, heartbeat, shutdownVars>>

RequestEnd(c) ==
    /\ Go(c, "ending", "writing")
    /\ active' = (active + Wrap - 1) % Wrap
    /\ UNCHANGED <<up, class, heartbeat, shutdownVars>>

WriteResponse(c) ==
    /\ Step(c, "writing", "done")
    /\ UNCHANGED <<up, active, heartbeat, shutdownVars>>

-----------------------------------------------------------------------------
(* The shutting-down thread: initiate_shutdown's two stores, then          *)
(* wait_for_drain, which polls is_drained until it holds or time is up.    *)

InitiateShutdown ==
    /\ up /\ waiter = "idle"
    /\ waiter' = "initiated"
    /\ shuttingDown' = TRUE
    /\ UNCHANGED <<up, connVars, active, heartbeat, drainStarted, passedAtClose>>

CloseGate ==
    /\ up /\ waiter = "initiated"
    /\ waiter' = "waiting"
    /\ drainStarted' = TRUE
    /\ passedAtClose' = PassedGate
    /\ UNCHANGED <<up, connVars, active, heartbeat, shuttingDown>>

\* Mutant of IsDrained: the flag alone.
IsDrainedByFlag == shuttingDown

IsDrained == shuttingDown /\ active = 0

PollDrain ==
    /\ up /\ waiter = "waiting"
    /\ IsDrained
    /\ waiter' = "drained"
    /\ UNCHANGED <<up, connVars, active, heartbeat, shuttingDown, drainStarted,
                   passedAtClose>>

\* Mutant of DrainTimeout: the time is looked at before the count.
DrainTimeoutFirst ==
    /\ up /\ waiter = "waiting"
    /\ waiter' = "timedout"
    /\ UNCHANGED <<up, connVars, active, heartbeat, shuttingDown, drainStarted,
                   passedAtClose>>

DrainTimeout ==
    /\ up /\ waiter = "waiting"
    /\ ~IsDrained
    /\ waiter' = "timedout"
    /\ UNCHANGED <<up, connVars, active, heartbeat, shuttingDown, drainStarted,
                   passedAtClose>>

-----------------------------------------------------------------------------

\* The steps of a counted thread that wait for nobody: the locks they take
\* are let go of (module Locks).
Owed(c) == RequestStart(c) \/ Authenticate(c) \/ Record(c) \/ RequestEnd(c)

\* The steps that wait for the client's bytes, for the client to take its
\* response, or for the model and the engine behind a handler.
Waits(c) ==
    \/ Accept(c) \/ ReadHead(c) \/ ReadHeadFails(c) \/ RateLimit(c)
    \/ AnswerProbe(c) \/ EmergencyGate(c) \/ DrainGate(c)
    \/ WriteRefusal(c) \/ ReadBody(c) \/ Direct(c) \/ Route(c)
    \/ WriteResponse(c)

Shutdown == InitiateShutdown \/ CloseGate \/ PollDrain \/ DrainTimeout

Next ==
    \/ \E c \in Conns : Owed(c) \/ Waits(c)
    \/ Shutdown
    \/ AcceptError

\* A counted thread that waits for nobody is scheduled, and the waiter keeps
\* polling.  Clients and the model owe nothing: no socket and no call to the
\* model is owed an end.  No timeout of the drain is owed either.
Fairness ==
    /\ \A c \in Conns : WF_vars(Owed(c))
    /\ WF_vars(PollDrain)

Spec == Init /\ [][Next]_vars /\ Fairness

-----------------------------------------------------------------------------
(* Properties.                                                             *)

TypeOK ==
    /\ up \in BOOLEAN
    /\ pc \in [Conns -> PC]
    /\ class \in [Conns -> Class]
    /\ active \in 0 .. (Wrap - 1)
    /\ heartbeat \in Nat
    /\ shuttingDown \in BOOLEAN
    /\ drainStarted \in BOOLEAN
    /\ waiter \in Waiter
    /\ passedAtClose \in SUBSET Conns

\* active_requests is the number of requests between request_start and
\* request_end plus, for ever, one for every request that returned in
\* between; the decrement of a u64 never wraps.
CountExact ==
    active = Cardinality(At(Counted)) + Cardinality(At({"leaked"}))

\* When wait_for_drain returns true, at that step no request is between its
\* request_start and its request_end, and none has ever leaked.
DrainedMeansQuiet ==
    [][waiter = "waiting" /\ waiter' = "drained"
         => At(Counted \cup {"leaked"}) = {}]_vars

\* Once the drain gate is closed, whoever runs past it had passed it before:
\* a request that arrives later is never counted and never handled.
LateArrivalsNeverRun ==
    drainStarted => PassedGate \subseteq passedAtClose

\* A drain waits for ever only for one and the same request: one that leaked,
\* or one that for ever waits for its client or in its handler.  Requests that
\* are over, or that wait for nobody, hold up no drain.
OnlyHeldUpHoldDrain ==
    <>[](waiter = "waiting")
      => \E c \in Conns : <>[](pc[c] \in {"refused", "body", "dispatch", "leaked"})

\* Seen from outside, a request is let in while the door is open, served once
\* and over, and the answer of a drain is about who is being served at that
\* instant; a counter, two flags and every way out of handle_connection keep
\* that promise: see module Service.
Seen(p) ==
    CASE p \in BeforeCount \cup {"unborn"} -> "waiting"
      [] p = "admitted" -> "let in"
      [] p \in Counted -> "served"
      [] p = "leaked" -> "left behind"
      [] p \in {"uncounted", "writing", "done", "gone"} -> "over"

Said(w) ==
    CASE w = "drained" -> "yes"
      [] w = "timedout" -> "no"
      [] w \in {"idle", "initiated", "waiting"} -> "unknown"

Promise == INSTANCE Service WITH
    request <- [c \in Conns |-> Seen(pc[c])],
    door <- IF up /\ ~drainStarted THEN "open" ELSE "closed",
    quiet <- Said(waiter)

ImplementsService == Promise!Spec

\* probes.rs:186 of active_requests: "Number of in-flight requests."
ActiveIsInFlight ==
    active = Cardinality(At(Counted))

\* probes.rs:157-159 of initiate_shutdown: stop accepting, then "Wait for
\* in-flight requests to complete": after the wait no handler runs.
DrainedStaysQuiet ==
    waiter = "drained" => At(Counted) = {}
=============================================================================
