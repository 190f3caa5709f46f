------------------------------ MODULE Feedback ------------------------------
(***************************************************************************)
(* Feedback: the loop from the requests that are served to the requests    *)
(* that are let in.  A request to /v1/run is observed in the SLO window of *)
(* "api/run" (slo.rs); after that, every routed request makes a report of  *)
(* that window and has the degradation controller evaluate it (server.rs,  *)
(* degradation.rs); the mode the controller is in then decides what is let *)
(* in: in emergency mode /v1/health and nothing else.  An operator sets    *)
(* the mode with POST /v1/degradation, which is let in like the others.    *)
(*                                                                         *)
(* The window is behind a mutex, which is released between the record and  *)
(* the report; the controller's mode, override and shed priority are       *)
(* atomics of their own, read and written one after the other.             *)
(*                                                                         *)
(* Abstracted: each load and store of an atomic is a step, in the order of *)
(* the program; time is the age of each observation; rates are exact       *)
(* fractions where the code divides floating-point numbers; the requests   *)
(* that end before they are routed, and everything else they do, are in    *)
(* Lifecycle.  The process keeps nothing of this when it restarts.         *)
(***************************************************************************)
EXTENDS Integers, Sequences, FiniteSets

CONSTANTS
    Threads,        \* connection threads that may run at the same time
    None,           \* no override (255), no request, no observation, no mode
    Latencies,      \* latencies of a run, in ms
    WindowSecs,     \* SloTarget.window_secs
    RateDegraded, RateReadOnly, RateEmergency,  \* thresholds, in percent
    LatencyDegraded, LatencyReadOnly,           \* thresholds of the p99, in ms
    OperatorModes,  \* bound: the modes an operator sets
    MaxObs          \* bound: runs under way and observations not yet too old

ASSUME ThreadsAssumption == IsFiniteSet(Threads)

ASSUME NumbersAssumption ==
    /\ Latencies \subseteq Nat
    /\ {WindowSecs, MaxObs, RateDegraded, RateReadOnly, RateEmergency,
        LatencyDegraded, LatencyReadOnly} \subseteq Nat

\* The thresholds of the error rate are the defaults, 5, 15 and 30 percent.
ASSUME RatesAssumption == 0 \notin {RateDegraded, RateReadOnly, RateEmergency}

ASSUME NoneAssumption ==
    /\ None \notin {"normal", "degraded", "read_only", "emergency"}
    /\ None \notin {"run", "set_degradation", "health", "other"}
    /\ None \notin [age : Nat, err : BOOLEAN, lat : Nat]

ASSUME OperatorAssumption ==
    OperatorModes \subseteq {"normal", "degraded", "read_only", "emergency"}

VARIABLES
    window,     \* SloTracker.window of "api/run", oldest record first
    mode,       \* DegradationController.mode
    shed,       \* DegradationController.shed_priority
    override,   \* DegradationController.manual_override
    pc,         \* where each thread stands
    route,      \* the route of the request each thread serves, until it is served
    obs,        \* the observation each thread is about to record
    target,     \* new_mode of the evaluation each thread is in
    orderly     \* history: the last evaluation ran by itself, and to its end

controller == <<mode, shed, override>>
vars == <<window, controller, pc, route, obs, target, orderly>>

-----------------------------------------------------------------------------

Modes == {"normal", "degraded", "read_only", "emergency"}
\* The priorities evaluate() stores: those of tenants, and the one below.
Priorities == {"background", "starter", "pro", "enterprise"}
Routes == {"run", "set_degradation", "health", "other"}
PC == {"idle", "gate", "handling", "record", "report", "store_mode", "store_shed"}

\* An observation is too old when its age is beyond the window; how much
\* beyond makes no difference.
Ages == 0 .. WindowSecs + 1
Obs == [age : Ages, err : BOOLEAN, lat : Latencies]
InWindow(o) == o.age <= WindowSecs

\* A thread is inside DegradationController::evaluate.
Evaluating(t) == pc[t] \in {"store_mode", "store_shed"}

\* What DegradationController::mode returns when nothing is stored between
\* its two loads.
EffectiveMode == IF override # None THEN override ELSE mode

-----------------------------------------------------------------------------
(* slo.rs                                                                  *)

ErrorsOf(w) == Cardinality({j \in DOMAIN w : w[j].err})

\* The code's percentile(): the latency at index pct * len / 100 of the
\* sorted latencies, the one with that many before it.
PercentileAtLeast(w, pct, ms) ==
    Cardinality({j \in DOMAIN w : w[j].lat < ms}) <= (pct * Len(w)) \div 100

\* SloTracker::record drops from the front what is too old, up to the first
\* observation that is not.
Evicted(w) ==
    {SubSeq(w, n + 1, Len(w)) : n \in
        {m \in 0 .. Len(w) : /\ \A j \in 1 .. m : ~InWindow(w[j])
                             /\ m < Len(w) => InWindow(w[m + 1])}}

-----------------------------------------------------------------------------
(* degradation.rs                                                          *)

\* How much is turned off in a mode: DegradationMode as u8.
Severity(m) ==
    CASE m = "normal" -> 0
      [] m = "degraded" -> 1
      [] m = "read_only" -> 2
      [] m = "emergency" -> 3

\* The mode evaluate() chooses for a report on window w.
ModeFor(w) ==
    LET RateAtLeast(pct) == w # <<>> /\ 100 * ErrorsOf(w) >= pct * Len(w)
        P99AtLeast(ms) == w # <<>> /\ PercentileAtLeast(w, 99, ms)
    IN  IF RateAtLeast(RateEmergency) THEN "emergency"
        ELSE IF RateAtLeast(RateReadOnly) \/ P99AtLeast(LatencyReadOnly) THEN "read_only"
        ELSE IF RateAtLeast(RateDegraded) \/ P99AtLeast(LatencyDegraded) THEN "degraded"
        ELSE "normal"

\* Mutant of ShedFor: emergency sheds all tenants, up to the admin's calls.
ShedForAdmin(m) ==
    CASE m = "normal" -> "background"
      [] m = "degraded" -> "starter"
      [] m = "read_only" -> "pro"
      [] m = "emergency" -> "admin"

ShedFor(m) ==
    CASE m = "normal" -> "background"
      [] m = "degraded" -> "starter"
      [] m = "read_only" -> "pro"
      [] m = "emergency" -> "enterprise"

-----------------------------------------------------------------------------

Init ==
    /\ window = <<>>
    /\ mode = "normal" /\ shed = "background" /\ override = None
    /\ pc = [t \in Threads |-> "idle"]
    /\ route = [t \in Threads |-> None]
    /\ obs = [t \in Threads |-> None]
    /\ target = [t \in Threads |-> None]
    /\ orderly = TRUE

Move(t, from, to) == pc[t] = from /\ pc' = [pc EXCEPT ![t] = to]

\* Mutant of LetIn: the probe route and the runs are let in.
LetInRuns(m, r) == m # "emergency" \/ r \in {"health", "run"}

\* allows_reads, and the one path that does without it.
LetIn(m, r) == m # "emergency" \/ r = "health"

\* Bound: the runs that are under way and the observations in the window
\* that are not too old are at most MaxObs.
Room ==
    Cardinality({j \in DOMAIN window : InWindow(window[j])})
      + Cardinality({t \in Threads : route[t] = "run"}) < MaxObs

\* The emergency gate of handle_connection asks for the mode, which takes two
\* loads: an override decides by itself, and only if there was none the mode
\* of evaluate() is loaded, which may be another one by then.  A request that
\* an override turns away changes nothing.
LoadOverride(t, r) ==
    /\ \/ override = None /\ Move(t, "idle", "gate")
       \/ override # None /\ LetIn(override, r) /\ Move(t, "idle", "handling")
    /\ r = "run" => Room
    /\ route' = [route EXCEPT ![t] = r]
    /\ UNCHANGED <<window, controller, obs, target, orderly>>

LoadMode(t) ==
    /\ \/ /\ LetIn(mode, route[t])
          /\ Move(t, "gate", "handling")
          /\ UNCHANGED route
       \/ /\ ~LetIn(mode, route[t])
          /\ Move(t, "gate", "idle")
          /\ route' = [route EXCEPT ![t] = None]
    /\ UNCHANGED <<window, controller, obs, target, orderly>>

\* The handler of a run ends, and the observation gets its timestamp before
\* the window's mutex is taken.
ServeRun(t) ==
    /\ Move(t, "handling", "record")
    /\ route[t] = "run"
    /\ \E err \in BOOLEAN, lat \in Latencies :
          obs' = [obs EXCEPT ![t] = [age |-> 0, err |-> err, lat |-> lat]]
    /\ UNCHANGED <<window, controller, route, target, orderly>>

\* Mutant of SetDegradation: the mode is stored where evaluate() keeps its own.
SetDegradationInMode(t, m) ==
    /\ Move(t, "handling", "report")
    /\ route[t] = "set_degradation"
    /\ mode' = IF m = None THEN mode ELSE m
    /\ route' = [route EXCEPT ![t] = None]
    /\ UNCHANGED <<window, shed, override, obs, target, orderly>>

\* handle_set_degradation; None stands for "auto", clear_override.
SetDegradation(t, m) ==
    /\ Move(t, "handling", "report")
    /\ route[t] = "set_degradation"
    /\ override' = m
    /\ route' = [route EXCEPT ![t] = None]
    /\ UNCHANGED <<window, mode, shed, obs, target, orderly>>

ServeOther(t) ==
    /\ Move(t, "handling", "report")
    /\ route[t] \notin {"run", "set_degradation"}
    /\ route' = [route EXCEPT ![t] = None]
    /\ UNCHANGED <<window, controller, obs, target, orderly>>

Record(t) ==
    /\ Move(t, "record", "report")
    /\ window' \in Evicted(Append(window, obs[t]))
    /\ obs' = [obs EXCEPT ![t] = None]
    /\ route' = [route EXCEPT ![t] = None]
    /\ orderly' = (orderly /\ \A u \in Threads : ~Evaluating(u))
    /\ UNCHANGED <<controller, target>>

\* The response is cut at its byte 4096 for the shadow traffic, between the
\* record and the report, which panics inside a character; a handler may
\* panic as well.  The thread ends.
Panic(t) ==
    /\ pc[t] \in {"handling", "report"}
    /\ pc' = [pc EXCEPT ![t] = "idle"]
    /\ route' = [route EXCEPT ![t] = None]
    /\ orderly' = (orderly /\ pc[t] = "handling")
    /\ UNCHANGED <<window, controller, obs, target>>

\* SloRegistry::report, and evaluate() up to its first store.
Report(t) ==
    /\ Move(t, "report", "store_mode")
    /\ target' = [target EXCEPT ![t] = ModeFor(window)]
    /\ orderly' = (\A u \in Threads : ~Evaluating(u))
    /\ UNCHANGED <<window, controller, route, obs>>

\* Mutant of StoreMode: an evaluation only ever makes the mode worse.
StoreModeOnlyWorse(t) ==
    /\ Move(t, "store_mode", "store_shed")
    /\ mode' = IF target[t] = "normal" THEN mode ELSE target[t]
    /\ UNCHANGED <<window, shed, override, route, obs, target, orderly>>

StoreMode(t) ==
    /\ Move(t, "store_mode", "store_shed")
    /\ mode' = target[t]
    /\ UNCHANGED <<window, shed, override, route, obs, target, orderly>>

\* Mutant of StoreShed: the priority is left at what it was.
StoreShedForgotten(t) ==
    /\ Move(t, "store_shed", "idle")
    /\ shed' = shed
    /\ target' = [target EXCEPT ![t] = None]
    /\ UNCHANGED <<window, mode, override, route, obs, orderly>>

StoreShed(t) ==
    /\ Move(t, "store_shed", "idle")
    /\ shed' = ShedFor(target[t])
    /\ target' = [target EXCEPT ![t] = None]
    /\ UNCHANGED <<window, mode, override, route, obs, orderly>>

Older(o) == [o EXCEPT !.age = IF InWindow(o) THEN o.age + 1 ELSE o.age]

\* Time passes, for what is in the window and for what will be.
Tick ==
    /\ window' = [j \in DOMAIN window |-> Older(window[j])]
    /\ obs' = [t \in Threads |-> IF obs[t] = None THEN None ELSE Older(obs[t])]
    /\ UNCHANGED <<controller, pc, route, target, orderly>>

-----------------------------------------------------------------------------

Step(t) ==
    \/ \E r \in Routes : LoadOverride(t, r)
    \/ LoadMode(t)
    \/ ServeRun(t) \/ ServeOther(t)
    \/ \E m \in OperatorModes \cup {None} : SetDegradation(t, m)
    \/ Record(t) \/ Panic(t) \/ Report(t) \/ StoreMode(t) \/ StoreShed(t)

Next == Tick \/ \E t \in Threads : Step(t)

Spec == Init /\ [][Next]_vars

-----------------------------------------------------------------------------
(* Fairness.  Threads are scheduled by the operating system, so one that   *)
(* can go on does (weak fairness); a panic needs a particular response, so *)
(* a thread that is again and again about to serve a run or to report does *)
(* so in the end (strong fairness); time passes; and clients keep asking   *)
(* for runs, an assumption about the traffic.                              *)

\* What a thread does next, except where it may panic instead.
GoOn(t) ==
    \/ LoadMode(t) \/ ServeOther(t) \/ \E m \in OperatorModes \cup {None} : SetDegradation(t, m)
    \/ Record(t) \/ StoreMode(t) \/ StoreShed(t)

Fairness ==
    /\ WF_vars(Tick)
    /\ SF_vars(\E t \in Threads : LoadOverride(t, "run"))
    /\ \A t \in Threads : WF_vars(GoOn(t)) /\ SF_vars(ServeRun(t)) /\ SF_vars(Report(t))

FairSpec == Spec /\ Fairness

\* The operator keeps asking for normal mode, too.
OperatorFairness ==
    /\ SF_vars(\E t \in Threads : LoadOverride(t, "set_degradation"))
    /\ \A t \in Threads : SF_vars(SetDegradation(t, "normal"))

OperatorSpec == FairSpec /\ OperatorFairness

-----------------------------------------------------------------------------
(* Properties.                                                             *)

\* What a thread holds fits where it stands: an observation while it is
\* about to record one, the mode of its evaluation while it is in one.
TypeOK ==
    /\ window \in Seq(Obs)
    /\ mode \in Modes /\ shed \in Priorities /\ override \in Modes \cup {None}
    /\ pc \in [Threads -> PC]
    /\ route \in [Threads -> Routes \cup {None}]
    /\ obs \in [Threads -> Obs \cup {None}]
    /\ target \in [Threads -> Modes \cup {None}]
    /\ orderly \in BOOLEAN
    /\ \A t \in Threads :
          /\ route[t] # None <=> pc[t] \in {"gate", "handling", "record"}
          /\ obs[t] # None <=> pc[t] = "record"
          /\ target[t] # None <=> Evaluating(t)

\* When the last evaluation ran by itself and no report is due, the mode is
\* the one the window calls for and the shed priority the one of the mode:
\* what an evaluation of another thread left half done or out of date is
\* put right by the next one.
OrderlyModeFollowsWindow ==
    orderly /\ (\A t \in Threads : pc[t] # "report" /\ ~Evaluating(t)) =>
        mode = ModeFor(window) /\ shed = ShedFor(mode)

\* The system is in emergency mode, and no request is left that was let in
\* before, or found no override before there was one, and can still record a
\* run, set the mode or store another one.
Latched ==
    /\ EffectiveMode = "emergency"
    /\ \A t \in Threads :
          /\ pc[t] # "record"
          /\ pc[t] = "handling" \/ (pc[t] = "gate" /\ override # None) =>
                route[t] \notin {"run", "set_degradation"}
    /\ override = None =>
          /\ ModeFor(window) = "emergency"
          /\ \A t \in Threads : pc[t] = "store_mode" => target[t] = "emergency"

\* From then on it stays so for as long as the process runs, however long
\* ago the errors were and whatever the operator asks for.
LatchedForGood == [][Latched => Latched']_vars

\* A run without an error and below both thresholds of the latency.
Good(o) == ~o.err /\ o.lat < LatencyDegraded /\ o.lat < LatencyReadOnly

\* No error, no slow run and no override from here on.
AllWell ==
    /\ override = None
    /\ \A t \in Threads : obs[t] # None => Good(obs[t])

\* The system is in normal mode, sheds nobody's requests, and neither its
\* window nor an evaluation under way has anything against that.
Recovered ==
    /\ AllWell
    /\ mode = "normal" /\ shed = "background"
    /\ \A j \in DOMAIN window : Good(window[j])
    /\ \A t \in Threads : Evaluating(t) => target[t] = "normal"

\* It stays there for as long as all runs go well, however many of them are
\* recorded, reported on and evaluated at the same time.
RecoveredStays == [][Recovered /\ AllWell' => Recovered']_vars

\* Once all runs go well again, the old errors leave the window and the mode
\* returns to normal by itself, from every mode but emergency.
RecoversBelowEmergency ==
    <>[]AllWell => <>[](EffectiveMode = "normal") \/ <>[](EffectiveMode = "emergency")

\* Window v is nowhere better than window w of the same length.
NowhereBetter(v, w) ==
    /\ Len(v) = Len(w)
    /\ \A j \in DOMAIN w : (w[j].err => v[j].err) /\ w[j].lat <= v[j].lat

\* More errors or slower runs never call for a milder mode.
WorseIsStricter(v, w) ==
    NowhereBetter(v, w) => Severity(ModeFor(w)) <= Severity(ModeFor(v))

\* A run that goes well never makes the window call for a stricter mode; only
\* the eviction of older ones that did can.
GoodRunHelps(w, o) ==
    Good(o) => Severity(ModeFor(Append(w, o))) <= Severity(ModeFor(w))

\* degradation.rs:15 "Manual operator override", handlers.rs:3241 "set
\* degradation mode (admin override)": with clients asking for runs and the
\* operator asking for normal mode over and over, emergency mode ends.
EmergencyEnds == (EffectiveMode = "emergency") ~> (EffectiveMode # "emergency")
=============================================================================
