--------------------------- MODULE FeedbackProofs ---------------------------
(***************************************************************************)
(* What holds of Feedback for every set of threads, every latency, window  *)
(* and threshold.  Of how the mode is chosen it needs that it depends on   *)
(* the errors and latencies of the window and not on their age, that more  *)
(* of them never make it milder, and that a window without any is normal.  *)
(***************************************************************************)
EXTENDS Feedback, SequenceTheorems, FiniteSetTheorems, TLAPS

-----------------------------------------------------------------------------
(* The window.                                                             *)

LEMMA ModeForType == \A w : ModeFor(w) \in Modes
  BY DEF ModeFor, Modes

LEMMA OlderObs ==
  ASSUME NEW o \in Obs
  PROVE  Older(o) \in Obs /\ Older(o).err = o.err /\ Older(o).lat = o.lat
<1>1. o.age \in Nat /\ o.age <= WindowSecs + 1 /\ WindowSecs \in Nat
  BY NumbersAssumption DEF Obs, Ages
<1>2. (IF InWindow(o) THEN o.age + 1 ELSE o.age) \in Ages
  BY <1>1 DEF Ages, InWindow
<1> QED
  BY <1>2 DEF Older, Obs

LEMMA EvictedType ==
  ASSUME NEW w \in Seq(Obs), NEW v \in Evicted(w)
  PROVE  v \in Seq(Obs)
<1>1. PICK n \in 0 .. Len(w) : v = SubSeq(w, n + 1, Len(w))
  BY DEF Evicted
<1>2. n + 1 \in 1 .. Len(w) + 1 /\ Len(w) \in (n + 1) - 1 .. Len(w)
  BY <1>1, LenProperties
<1> QED
  BY <1>1, <1>2, SubSeqProperties

\* Time changes no report: the mode depends on what was observed, not when.
LEMMA TickKeepsMode ==
  ASSUME NEW w \in Seq(Obs)
  PROVE  /\ [j \in DOMAIN w |-> Older(w[j])] \in Seq(Obs)
         /\ ModeFor([j \in DOMAIN w |-> Older(w[j])]) = ModeFor(w)
<1> DEFINE v == [j \in DOMAIN w |-> Older(w[j])]
<1>1. /\ DOMAIN w = 1 .. Len(w) /\ Len(w) \in Nat
      /\ \A j \in DOMAIN w : w[j] \in Obs
  BY LenProperties, ElementOfSeq
<1>2. v \in Seq(Obs) /\ Len(v) = Len(w) /\ DOMAIN v = DOMAIN w
  BY <1>1, OlderObs
<1>3. \A j \in DOMAIN w : v[j].err = w[j].err /\ v[j].lat = w[j].lat
  BY <1>1, OlderObs
<1> HIDE DEF v
<1>4. ErrorsOf(v) = ErrorsOf(w)
  <2>1. {j \in DOMAIN v : v[j].err} = {j \in DOMAIN w : w[j].err}
    BY <1>2, <1>3
  <2> QED
    BY <2>1 DEF ErrorsOf
<1>5. \A pct, ms : PercentileAtLeast(v, pct, ms) <=> PercentileAtLeast(w, pct, ms)
  <2>1. \A ms : {j \in DOMAIN v : v[j].lat < ms} = {j \in DOMAIN w : w[j].lat < ms}
    BY <1>2, <1>3
  <2> QED
    BY <1>2, <2>1 DEF PercentileAtLeast
<1>6. v = <<>> <=> w = <<>>
  BY <1>2, EmptySeq
<1>7. ModeFor(v) = ModeFor(w)
  BY <1>2, <1>4, <1>5, <1>6 DEF ModeFor
<1> QED
  BY <1>2, <1>7 DEF v

-----------------------------------------------------------------------------
(* The choice of the mode.                                                 *)

LEMMA SomeOf ==
  ASSUME NEW w \in Seq(Obs), NEW S \in SUBSET DOMAIN w
  PROVE  /\ IsFiniteSet(S) /\ Cardinality(S) \in Nat /\ Cardinality(S) <= Len(w)
         /\ \A T \in SUBSET S : IsFiniteSet(T) /\ Cardinality(T) <= Cardinality(S)
<1>1. DOMAIN w = 1 .. Len(w) /\ Len(w) \in Nat
  BY LenProperties
<1>2. IsFiniteSet(1 .. Len(w)) /\ Cardinality(1 .. Len(w)) = Len(w)
  <2>1. 1 \in Int /\ Len(w) \in Int
    BY <1>1
  <2>2. /\ IsFiniteSet(1 .. Len(w))
        /\ Cardinality(1 .. Len(w)) = IF 1 > Len(w) THEN 0 ELSE Len(w) - 1 + 1
    BY <2>1, FS_Interval, Zenon
  <2>3. (IF 1 > Len(w) THEN 0 ELSE Len(w) - 1 + 1) = Len(w)
    BY <1>1
  <2> QED
    BY <2>2, <2>3
<1>3. IsFiniteSet(S) /\ Cardinality(S) <= Len(w)
  BY <1>1, <1>2, FS_Subset
<1> QED
  BY <1>3, FS_Subset, FS_CardinalityType

ErrorsIn(w) == {j \in DOMAIN w : w[j].err}
FasterIn(w, ms) == {j \in DOMAIN w : w[j].lat < ms}

LEMMA ObsTypes ==
  ASSUME NEW w \in Seq(Obs), NEW j \in DOMAIN w
  PROVE  w[j] \in Obs /\ w[j].err \in BOOLEAN /\ w[j].lat \in Nat
<1>1. w[j] \in Obs
  BY LenProperties, ElementOfSeq
<1> QED
  BY <1>1, NumbersAssumption DEF Obs

\* The thresholds that a worse window meets include those of a better one.
LEMMA WorseMeetsMore ==
  ASSUME NEW v \in Seq(Obs), NEW w \in Seq(Obs), NowhereBetter(v, w)
  PROVE  /\ v = <<>> <=> w = <<>>
         /\ \A pct \in Nat :
              100 * ErrorsOf(w) >= pct * Len(w) => 100 * ErrorsOf(v) >= pct * Len(v)
         /\ \A ms \in Nat : PercentileAtLeast(w, 99, ms) => PercentileAtLeast(v, 99, ms)
<1>1. /\ Len(v) = Len(w) /\ Len(w) \in Nat /\ DOMAIN v = DOMAIN w
      /\ v = <<>> <=> w = <<>>
  BY LenProperties, EmptySeq DEF NowhereBetter
<1>2. ErrorsOf(w) <= ErrorsOf(v) /\ ErrorsOf(w) \in Nat /\ ErrorsOf(v) \in Nat
  <2>1. ErrorsIn(w) \in SUBSET ErrorsIn(v)
    BY <1>1 DEF ErrorsIn, NowhereBetter
  <2>2. ErrorsIn(w) \in SUBSET DOMAIN w /\ ErrorsIn(v) \in SUBSET DOMAIN v
    BY DEF ErrorsIn
  <2> QED
    BY <2>1, <2>2, SomeOf DEF ErrorsOf, ErrorsIn
<1>3. ASSUME NEW pct \in Nat, 100 * ErrorsOf(w) >= pct * Len(w)
      PROVE  100 * ErrorsOf(v) >= pct * Len(v)
  <2>1. pct * Len(w) \in Nat
    BY <1>1
  <2> QED
    BY <1>1, <1>2, <1>3, <2>1
<1>4. ASSUME NEW ms \in Nat, PercentileAtLeast(w, 99, ms)
      PROVE  PercentileAtLeast(v, 99, ms)
  <2>1. FasterIn(v, ms) \in SUBSET FasterIn(w, ms)
    <3> SUFFICES ASSUME NEW j \in DOMAIN v, v[j].lat < ms PROVE w[j].lat < ms
      BY <1>1 DEF FasterIn
    <3>1. v[j].lat \in Nat /\ w[j].lat \in Nat /\ w[j].lat <= v[j].lat
      BY <1>1, ObsTypes DEF NowhereBetter
    <3> QED
      BY <3>1
  <2>2. FasterIn(w, ms) \in SUBSET DOMAIN w /\ FasterIn(v, ms) \in SUBSET DOMAIN v
    BY DEF FasterIn
  <2>3. /\ Cardinality(FasterIn(v, ms)) <= Cardinality(FasterIn(w, ms))
        /\ Cardinality(FasterIn(v, ms)) \in Nat /\ Cardinality(FasterIn(w, ms)) \in Nat
    BY <2>1, <2>2, SomeOf
  <2>4. Cardinality(FasterIn(w, ms)) <= (99 * Len(w)) \div 100
    BY <1>4 DEF PercentileAtLeast, FasterIn
  <2>5. Cardinality(FasterIn(v, ms)) <= (99 * Len(v)) \div 100
    BY <1>1, <2>3, <2>4
  <2> QED
    BY <2>5 DEF PercentileAtLeast, FasterIn
<1> QED
  BY <1>1, <1>3, <1>4

\* The severity of a mode follows the thresholds that its window meets.
LEMMA MoreIsStricter ==
  ASSUME NEW v, NEW w,
         w # <<>> => v # <<>>,
         \A pct \in {RateDegraded, RateReadOnly, RateEmergency} :
            w # <<>> /\ 100 * ErrorsOf(w) >= pct * Len(w) => 100 * ErrorsOf(v) >= pct * Len(v),
         \A ms \in {LatencyDegraded, LatencyReadOnly} :
            w # <<>> /\ PercentileAtLeast(w, 99, ms) => PercentileAtLeast(v, 99, ms)
  PROVE  Severity(ModeFor(w)) <= Severity(ModeFor(v))
<1> DEFINE Rate(u, pct) == u # <<>> /\ 100 * ErrorsOf(u) >= pct * Len(u)
           P99(u, ms) == u # <<>> /\ PercentileAtLeast(u, 99, ms)
<1>1. /\ Severity("normal") = 0 /\ Severity("degraded") = 1
      /\ Severity("read_only") = 2 /\ Severity("emergency") = 3
  BY DEF Severity
<1>2. \A u : ModeFor(u) =
        IF Rate(u, RateEmergency) THEN "emergency"
        ELSE IF Rate(u, RateReadOnly) \/ P99(u, LatencyReadOnly) THEN "read_only"
        ELSE IF Rate(u, RateDegraded) \/ P99(u, LatencyDegraded) THEN "degraded"
        ELSE "normal"
  BY DEF ModeFor
<1>3. /\ \A pct \in {RateDegraded, RateReadOnly, RateEmergency} : Rate(w, pct) => Rate(v, pct)
      /\ \A ms \in {LatencyDegraded, LatencyReadOnly} : P99(w, ms) => P99(v, ms)
  OBVIOUS
<1> HIDE DEF Rate, P99
<1> QED
  BY <1>1, <1>2, <1>3

\* More errors or slower runs never call for a milder mode: the choice of
\* evaluate() and the percentile of report() are monotone, for any window
\* and any thresholds.
THEOREM ModeIsMonotone ==
  ASSUME NEW v \in Seq(Obs), NEW w \in Seq(Obs)
  PROVE  WorseIsStricter(v, w)
<1> SUFFICES ASSUME NowhereBetter(v, w)
             PROVE  Severity(ModeFor(w)) <= Severity(ModeFor(v))
  BY DEF WorseIsStricter
<1>1. v = <<>> <=> w = <<>>
  BY WorseMeetsMore
<1>2. \A pct \in {RateDegraded, RateReadOnly, RateEmergency} :
         100 * ErrorsOf(w) >= pct * Len(w) => 100 * ErrorsOf(v) >= pct * Len(v)
  BY WorseMeetsMore, NumbersAssumption
<1>3. \A ms \in {LatencyDegraded, LatencyReadOnly} :
         PercentileAtLeast(w, 99, ms) => PercentileAtLeast(v, 99, ms)
  BY WorseMeetsMore, NumbersAssumption
<1> QED
  BY <1>1, <1>2, <1>3, MoreIsStricter

\* A window in which all went well meets no threshold.
LEMMA GoodWindow ==
  ASSUME NEW w \in Seq(Obs), \A j \in DOMAIN w : Good(w[j])
  PROVE  ModeFor(w) = "normal"
<1>1. CASE w = <<>>
  BY <1>1 DEF ModeFor
<1>2. CASE w # <<>>
  <2>1. Len(w) \in Nat /\ Len(w) > 0 /\ DOMAIN w = 1 .. Len(w)
    BY <1>2, LenProperties, EmptySeq
  <2>2. ErrorsOf(w) = 0
    <3>1. ErrorsIn(w) = {}
      BY DEF ErrorsIn, Good
    <3> QED
      BY <3>1, FS_EmptySet DEF ErrorsOf, ErrorsIn
  <2>3. ASSUME NEW pct \in {RateDegraded, RateReadOnly, RateEmergency}
        PROVE  ~(100 * ErrorsOf(w) >= pct * Len(w))
    <3>1. pct \in Nat /\ pct # 0
      BY NumbersAssumption, RatesAssumption
    <3>2. pct * Len(w) > 0
      BY <2>1, <3>1
    <3>3. 100 * ErrorsOf(w) = 0
      BY <2>2
    <3> QED
      BY <2>1, <3>1, <3>2, <3>3
  <2>4. ASSUME NEW ms \in {LatencyDegraded, LatencyReadOnly}
        PROVE  ~PercentileAtLeast(w, 99, ms)
    <3>1. {j \in DOMAIN w : w[j].lat < ms} = 1 .. Len(w)
      BY <2>1 DEF Good
    <3>2. Cardinality(1 .. Len(w)) = Len(w)
      BY <2>1, FS_Interval
    <3>3. ~(Len(w) <= (99 * Len(w)) \div 100)
      BY <2>1
    <3> QED
      BY <3>1, <3>2, <3>3 DEF PercentileAtLeast
  <2> QED
    BY <2>3, <2>4 DEF ModeFor
<1> QED
  BY <1>1, <1>2

\* A run that goes well never makes the next report call for a stricter mode,
\* for any window and any thresholds: it dilutes the errors, and moves the
\* percentile by no more than itself (slo.rs:266-270).
THEOREM GoodRunsHelp ==
  ASSUME NEW w \in Seq(Obs), NEW o \in Obs
  PROVE  GoodRunHelps(w, o)
<1> DEFINE v == Append(w, o)
<1> SUFFICES ASSUME Good(o)
             PROVE  Severity(ModeFor(v)) <= Severity(ModeFor(w))
  BY DEF GoodRunHelps
<1>1. /\ v \in Seq(Obs) /\ Len(w) \in Nat /\ Len(v) = Len(w) + 1
      /\ DOMAIN w = 1 .. Len(w) /\ DOMAIN v = 1 .. Len(w) + 1
      /\ \A j \in DOMAIN w : v[j] = w[j]
      /\ v[Len(w) + 1] = o
  BY AppendProperties, LenProperties
<1>2. DOMAIN v = DOMAIN w \cup {Len(w) + 1} /\ Len(w) + 1 \notin DOMAIN w
  BY <1>1
<1> HIDE DEF v
<1>3. CASE w = <<>>
  <2>1. \A j \in DOMAIN v : Good(v[j])
    BY <1>1, <1>2, <1>3
  <2>2. ModeFor(v) = "normal" /\ ModeFor(w) = "normal"
    BY <1>1, <1>3, <2>1, GoodWindow DEF ModeFor
  <2> QED
    BY <2>2 DEF Severity
<1>4. CASE w # <<>>
  <2>1. ErrorsOf(v) = ErrorsOf(w) /\ ErrorsOf(w) \in Nat
    <3>1. ErrorsIn(v) = ErrorsIn(w)
      BY <1>1, <1>2 DEF ErrorsIn, Good
    <3>2. ErrorsIn(w) \in SUBSET DOMAIN w
      BY DEF ErrorsIn
    <3> QED
      BY <3>1, <3>2, SomeOf DEF ErrorsOf, ErrorsIn
  <2>2. ASSUME NEW pct \in {RateDegraded, RateReadOnly, RateEmergency},
               100 * ErrorsOf(v) >= pct * Len(v)
        PROVE  100 * ErrorsOf(w) >= pct * Len(w)
    <3>1. pct \in Nat
      BY NumbersAssumption
    <3>2. pct * (Len(w) + 1) = pct * Len(w) + pct /\ pct * Len(w) \in Nat
      BY <1>1, <3>1
    <3> QED
      BY <1>1, <2>1, <2>2, <3>1, <3>2
  <2>3. ASSUME NEW ms \in {LatencyDegraded, LatencyReadOnly},
               PercentileAtLeast(v, 99, ms)
        PROVE  PercentileAtLeast(w, 99, ms)
    <3>1. FasterIn(v, ms) = FasterIn(w, ms) \cup {Len(w) + 1}
      BY <1>1, <1>2 DEF FasterIn, Good
    <3>2. FasterIn(w, ms) \in SUBSET DOMAIN w
      BY DEF FasterIn
    <3>3. IsFiniteSet(FasterIn(w, ms)) /\ Cardinality(FasterIn(w, ms)) \in Nat
      BY <3>2, SomeOf
    <3>4. Cardinality(FasterIn(v, ms)) = Cardinality(FasterIn(w, ms)) + 1
      <4>1. Len(w) + 1 \notin FasterIn(w, ms)
        BY <1>2, <3>2
      <4>2. Cardinality(FasterIn(w, ms) \cup {Len(w) + 1}) =
              IF Len(w) + 1 \in FasterIn(w, ms) THEN Cardinality(FasterIn(w, ms))
                                                ELSE Cardinality(FasterIn(w, ms)) + 1
        BY <3>3, FS_AddElement, Zenon
      <4> QED
        BY <3>1, <4>1, <4>2
    <3>5. Cardinality(FasterIn(w, ms)) + 1 <= (99 * (Len(w) + 1)) \div 100
      BY <1>1, <2>3, <3>4 DEF PercentileAtLeast, FasterIn
    <3>6. Cardinality(FasterIn(w, ms)) <= (99 * Len(w)) \div 100
      BY <1>1, <3>3, <3>5
    <3> QED
      BY <3>6 DEF PercentileAtLeast, FasterIn
  <2> QED
    BY <1>4, <2>2, <2>3, MoreIsStricter
<1> QED
  BY <1>3, <1>4

-----------------------------------------------------------------------------
(* Types.                                                                  *)

LEMMA InitTypeOK == Init => TypeOK
  BY DEF Init, TypeOK, Modes, Priorities, PC, Routes, Evaluating

LEMMA TickTypeOK == TypeOK /\ Tick => TypeOK'
<1> SUFFICES ASSUME TypeOK, Tick PROVE TypeOK'
  OBVIOUS
<1>1. window' \in Seq(Obs)
  BY TickKeepsMode DEF TypeOK, Tick
<1>2. \A t \in Threads : obs[t] # None => Older(obs[t]) \in Obs /\ Older(obs[t]) # None
  <2>1. \A o \in Obs : o # None
    <3>1. Obs \subseteq [age : Nat, err : BOOLEAN, lat : Nat]
      <4>1. Ages \subseteq Nat /\ Latencies \subseteq Nat
        BY NumbersAssumption DEF Ages
      <4> QED
        BY <4>1 DEF Obs
    <3> QED
      BY <3>1, NoneAssumption
  <2> QED
    BY <2>1, OlderObs DEF TypeOK
<1> QED
  BY <1>1, <1>2 DEF TypeOK, Tick, controller, Evaluating

LEMMA StepTypeOK ==
  ASSUME TypeOK, NEW t \in Threads, Step(t)
  PROVE  TypeOK'
<1> USE NoneAssumption DEF TypeOK, PC, Move, Evaluating, controller
<1>1. ASSUME NEW r \in Routes, LoadOverride(t, r) PROVE TypeOK'
  BY <1>1 DEF LoadOverride, Routes
<1>10. CASE LoadMode(t)
  BY <1>10 DEF LoadMode
<1>2. CASE ServeRun(t)
  <2>1. PICK err \in BOOLEAN, lat \in Latencies :
          obs' = [obs EXCEPT ![t] = [age |-> 0, err |-> err, lat |-> lat]]
    BY <1>2 DEF ServeRun
  <2>2. /\ [age |-> 0, err |-> err, lat |-> lat] \in Obs
        /\ [age |-> 0, err |-> err, lat |-> lat] # None
    BY NumbersAssumption DEF Obs, Ages
  <2> HIDE NoneAssumption
  <2> QED
    BY <1>2, <2>1, <2>2 DEF ServeRun
<1>3. CASE ServeOther(t)
  BY <1>3 DEF ServeOther
<1>4. ASSUME NEW m \in OperatorModes \cup {None}, SetDegradation(t, m) PROVE TypeOK'
  BY <1>4, OperatorAssumption DEF SetDegradation, Modes
<1>5. CASE Record(t)
  <2>1. Append(window, obs[t]) \in Seq(Obs)
    BY <1>5, AppendProperties DEF Record
  <2>2. window' \in Seq(Obs)
    BY <1>5, <2>1, EvictedType DEF Record
  <2> QED
    BY <1>5, <2>2 DEF Record
<1>6. CASE Panic(t)
  BY <1>6 DEF Panic
<1>7. CASE Report(t)
  <2>1. ModeFor(window) \in Modes /\ ModeFor(window) # None
    BY ModeForType DEF Modes
  <2> QED
    BY <1>7, <2>1 DEF Report
<1>8. CASE StoreMode(t)
  BY <1>8 DEF StoreMode
<1>9. CASE StoreShed(t)
  <2>1. ShedFor(target[t]) \in Priorities
    BY <1>9 DEF StoreShed, ShedFor, Modes, Priorities
  <2> QED
    BY <1>9, <2>1 DEF StoreShed
<1> QED
  BY <1>1, <1>2, <1>3, <1>4, <1>5, <1>6, <1>7, <1>8, <1>9, <1>10 DEF Step

LEMMA NextTypeOK == TypeOK /\ [Next]_vars => TypeOK'
<1>1. TypeOK /\ UNCHANGED vars => TypeOK'
  BY DEF vars, controller, TypeOK, Evaluating
<1> QED
  BY <1>1, TickTypeOK, StepTypeOK DEF Next

\* Every variable keeps its type, and a thread holds what fits where it
\* stands.
THEOREM TypeCorrect == Spec => []TypeOK
  BY InitTypeOK, NextTypeOK, PTL DEF Spec

-----------------------------------------------------------------------------
(* The mode and the window.  An orderly evaluation is the only one, its    *)
(* report is still up to date, and it stores the mode before the priority. *)

EvaluationOrderly ==
  orderly =>
    /\ \A t, u \in Threads : Evaluating(t) /\ Evaluating(u) => t = u
    /\ \A t \in Threads : Evaluating(t) => target[t] = ModeFor(window)
    /\ \A t \in Threads : pc[t] = "store_shed" => mode = target[t]
    /\ (\A t \in Threads : pc[t] # "report" /\ ~Evaluating(t)) =>
          mode = ModeFor(window) /\ shed = ShedFor(mode)

LEMMA InitEvaluationOrderly == Init => EvaluationOrderly
<1>1. ModeFor(<<>>) = "normal" /\ ShedFor("normal") = "background"
  BY DEF ModeFor, ShedFor
<1> QED
  BY <1>1 DEF Init, EvaluationOrderly, Evaluating

LEMMA TickEvaluationOrderly ==
  TypeOK /\ EvaluationOrderly /\ Tick => EvaluationOrderly'
<1> SUFFICES ASSUME TypeOK, EvaluationOrderly, Tick PROVE EvaluationOrderly'
  OBVIOUS
<1>1. ModeFor(window') = ModeFor(window)
  BY TickKeepsMode DEF TypeOK, Tick
<1> QED
  BY <1>1 DEF Tick, controller, EvaluationOrderly, Evaluating

LEMMA StepEvaluationOrderly ==
  ASSUME TypeOK, EvaluationOrderly, NEW t \in Threads, Step(t)
  PROVE  EvaluationOrderly'
<1> USE DEF EvaluationOrderly, Evaluating, Move, controller
<1>0. pc \in [Threads -> PC] /\ target \in [Threads -> Modes \cup {None}]
  BY DEF TypeOK
<1>1. ASSUME NEW r \in Routes, LoadOverride(t, r) PROVE EvaluationOrderly'
  BY <1>0, <1>1 DEF LoadOverride
<1>10. CASE LoadMode(t)
  BY <1>0, <1>10 DEF LoadMode
<1>2. CASE ServeRun(t)
  BY <1>0, <1>2 DEF ServeRun
<1>3. CASE ServeOther(t)
  BY <1>0, <1>3 DEF ServeOther
<1>4. ASSUME NEW m \in OperatorModes \cup {None}, SetDegradation(t, m)
      PROVE  EvaluationOrderly'
  BY <1>0, <1>4 DEF SetDegradation
<1>5. CASE Record(t)
  BY <1>0, <1>5 DEF Record
<1>6. CASE Panic(t)
  BY <1>0, <1>6 DEF Panic
<1>7. CASE Report(t)
  BY <1>0, <1>7 DEF Report
<1>8. CASE StoreMode(t)
  BY <1>0, <1>8 DEF StoreMode
<1>9. CASE StoreShed(t)
  BY <1>0, <1>9 DEF StoreShed
<1> QED
  BY <1>1, <1>2, <1>3, <1>4, <1>5, <1>6, <1>7, <1>8, <1>9, <1>10 DEF Step

LEMMA NextEvaluationOrderly ==
  TypeOK /\ EvaluationOrderly /\ [Next]_vars => EvaluationOrderly'
<1>1. EvaluationOrderly /\ UNCHANGED vars => EvaluationOrderly'
  BY DEF vars, controller, EvaluationOrderly, Evaluating
<1> QED
  BY <1>1, TickEvaluationOrderly, StepEvaluationOrderly DEF Next

\* After an evaluation that ran by itself, the mode and the shed priority
\* are the ones the window calls for.
THEOREM ModeFollowsWindow == Spec => []OrderlyModeFollowsWindow
<1>1. EvaluationOrderly => OrderlyModeFollowsWindow
  BY DEF EvaluationOrderly, OrderlyModeFollowsWindow
<1> QED
  BY <1>1, InitTypeOK, NextTypeOK, InitEvaluationOrderly, NextEvaluationOrderly, PTL
     DEF Spec

-----------------------------------------------------------------------------
(* The latch of emergency mode: what keeps it closed is kept by every step,*)
(* whatever the constants are.                                             *)

LEMMA TickLatched == TypeOK /\ Latched /\ Tick => Latched'
<1> SUFFICES ASSUME TypeOK, Latched, Tick PROVE Latched'
  OBVIOUS
<1>1. ModeFor(window') = ModeFor(window)
  BY TickKeepsMode DEF TypeOK, Tick
<1> QED
  BY <1>1 DEF Tick, controller, Latched, EffectiveMode

LEMMA StepLatched ==
  ASSUME TypeOK, Latched, NEW t \in Threads, Step(t)
  PROVE  Latched'
<1> USE DEF Latched, EffectiveMode, Move, controller
<1>0. /\ pc \in [Threads -> PC] /\ target \in [Threads -> Modes \cup {None}]
      /\ route \in [Threads -> Routes \cup {None}]
  BY DEF TypeOK
<1>1. ASSUME NEW r \in Routes, LoadOverride(t, r) PROVE Latched'
  <2>1. CASE override = None
    BY <1>0, <1>1, <2>1 DEF LoadOverride
  <2>2. CASE override # None
    <3>1. r = "health"
      BY <1>1, <2>2 DEF LoadOverride, LetIn
    <3> QED
      BY <1>0, <1>1, <2>2, <3>1 DEF LoadOverride
  <2> QED
    BY <2>1, <2>2
<1>10. CASE LoadMode(t)
  <2>1. CASE override = None
    BY <1>0, <1>10, <2>1 DEF LoadMode, LetIn
  <2>2. CASE override # None
    BY <1>0, <1>10, <2>2 DEF LoadMode
  <2> QED
    BY <2>1, <2>2
<1>2. CASE ServeRun(t)
  BY <1>0, <1>2 DEF ServeRun
<1>3. CASE ServeOther(t)
  BY <1>0, <1>3 DEF ServeOther
<1>4. ASSUME NEW m \in OperatorModes \cup {None}, SetDegradation(t, m) PROVE Latched'
  BY <1>0, <1>4 DEF SetDegradation
<1>5. CASE Record(t)
  BY <1>0, <1>5 DEF Record
<1>6. CASE Panic(t)
  BY <1>0, <1>6 DEF Panic
<1>7. CASE Report(t)
  BY <1>0, <1>7 DEF Report
<1>8. CASE StoreMode(t)
  BY <1>0, <1>8 DEF StoreMode
<1>9. CASE StoreShed(t)
  BY <1>0, <1>9 DEF StoreShed
<1> QED
  BY <1>1, <1>2, <1>3, <1>4, <1>5, <1>6, <1>7, <1>8, <1>9, <1>10 DEF Step

\* Emergency mode, once nothing is left that was let in before, is for good.
THEOREM EmergencyIsForGood == Spec => LatchedForGood
<1>1. TypeOK /\ [Next]_vars => [Latched => Latched']_vars
  BY TickLatched, StepLatched DEF Next
<1> QED
  BY <1>1, TypeCorrect, PTL DEF Spec, LatchedForGood

-----------------------------------------------------------------------------
(* Normal mode, when all goes well.                                        *)

LEMMA EvictedGood ==
  ASSUME NEW w \in Seq(Obs), \A j \in DOMAIN w : Good(w[j]), NEW v \in Evicted(w)
  PROVE  \A j \in DOMAIN v : Good(v[j])
<1>1. PICK n \in 0 .. Len(w) : v = SubSeq(w, n + 1, Len(w))
  BY DEF Evicted
<1> DEFINE l == Len(w)
<1>2. l \in Nat /\ n \in Nat /\ n <= l /\ DOMAIN w = 1 .. l
  BY <1>1, LenProperties
<1>3. DOMAIN v = 1 .. l - n /\ \A j \in 1 .. l - n : v[j] = w[n + j]
  <2>1. v = SubSeq(w, n + 1, l)
    BY <1>1
  <2>2. v \in Seq(Obs)
    BY EvictedType
  <2> HIDE DEF l
  <2>3. n + 1 \in Int /\ l \in Int /\ \A j \in n + 1 .. l : w[j] \in Obs
    BY <1>2, ElementOfSeq DEF l
  <2>4. /\ Len(SubSeq(w, n + 1, l)) = IF n + 1 <= l THEN l - (n + 1) + 1 ELSE 0
        /\ \A j \in 1 .. l - (n + 1) + 1 : SubSeq(w, n + 1, l)[j] = w[(n + 1) + j - 1]
    BY <2>3, SubSeqProperties
  <2>5. Len(v) = l - n
    BY <1>2, <2>1, <2>4
  <2>6. ASSUME NEW j \in 1 .. l - n PROVE v[j] = w[n + j]
    <3>1. j \in 1 .. l - (n + 1) + 1 /\ (n + 1) + j - 1 = n + j
      BY <1>2, <2>6
    <3> QED
      BY <2>1, <2>4, <3>1
  <2> QED
    BY <2>2, <2>5, <2>6, LenProperties
<1>4. ASSUME NEW j \in DOMAIN v PROVE Good(v[j])
  <2>1. n + j \in DOMAIN w /\ v[j] = w[n + j]
    BY <1>2, <1>3, <1>4
  <2> QED
    BY <2>1
<1> QED
  BY <1>4

LEMMA TickRecovered == TypeOK /\ Recovered /\ AllWell' /\ Tick => Recovered'
<1> SUFFICES ASSUME TypeOK, Recovered, AllWell', Tick PROVE Recovered'
  OBVIOUS
<1>1. ASSUME NEW j \in DOMAIN window' PROVE Good(window'[j])
  <2>1. j \in DOMAIN window /\ window'[j] = Older(window[j]) /\ Good(window[j])
    BY <1>1 DEF Tick, Recovered
  <2>2. window[j] \in Obs
    BY <2>1, ObsTypes DEF TypeOK
  <2> QED
    BY <2>1, <2>2, OlderObs DEF Good
<1> QED
  BY <1>1 DEF Tick, controller, Recovered, Evaluating

LEMMA StepRecovered ==
  ASSUME TypeOK, Recovered, AllWell', NEW t \in Threads, Step(t)
  PROVE  Recovered'
<1> USE DEF Recovered, Evaluating, Move, controller
<1>0. /\ pc \in [Threads -> PC] /\ target \in [Threads -> Modes \cup {None}]
      /\ ModeFor(window) = "normal" /\ ShedFor("normal") = "background"
  BY GoodWindow DEF TypeOK, ShedFor
<1>1. ASSUME NEW r \in Routes, LoadOverride(t, r) PROVE Recovered'
  BY <1>0, <1>1 DEF LoadOverride
<1>10. CASE LoadMode(t)
  BY <1>0, <1>10 DEF LoadMode
<1>2. CASE ServeRun(t)
  BY <1>0, <1>2 DEF ServeRun
<1>3. CASE ServeOther(t)
  BY <1>0, <1>3 DEF ServeOther
<1>4. ASSUME NEW m \in OperatorModes \cup {None}, SetDegradation(t, m) PROVE Recovered'
  BY <1>0, <1>4 DEF SetDegradation
<1>5. CASE Record(t)
  <2>1. obs[t] \in Obs /\ obs[t] # None /\ window \in Seq(Obs)
    BY <1>5 DEF Record, TypeOK
  <2>2. Good(obs[t])
    BY <2>1 DEF AllWell
  <2>3. Append(window, obs[t]) \in Seq(Obs)
    BY <2>1, AppendProperties
  <2>4. \A j \in DOMAIN Append(window, obs[t]) : Good(Append(window, obs[t])[j])
    BY <2>1, <2>2, AppendProperties, LenProperties
  <2>5. \A j \in DOMAIN window' : Good(window'[j])
    BY <1>5, <2>3, <2>4, EvictedGood DEF Record
  <2> QED
    BY <1>0, <1>5, <2>5 DEF Record
<1>6. CASE Panic(t)
  BY <1>0, <1>6 DEF Panic
<1>7. CASE Report(t)
  BY <1>0, <1>7 DEF Report
<1>8. CASE StoreMode(t)
  BY <1>0, <1>8 DEF StoreMode
<1>9. CASE StoreShed(t)
  BY <1>0, <1>9 DEF StoreShed
<1> QED
  BY <1>1, <1>2, <1>3, <1>4, <1>5, <1>6, <1>7, <1>8, <1>9, <1>10 DEF Step

\* A system that is normal, with nothing against it, is kept there by runs
\* that go well, however their records, reports and evaluations interleave:
\* the end of the recovery, for any thresholds, window and latencies.
THEOREM NormalIsKept == Spec => RecoveredStays
<1>1. TypeOK /\ [Next]_vars => [Recovered /\ AllWell' => Recovered']_vars
  BY TickRecovered, StepRecovered DEF Next
<1> QED
  BY <1>1, TypeCorrect, PTL DEF Spec, RecoveredStays
=============================================================================
