--------------------------- MODULE LifecycleProofs ---------------------------
(***************************************************************************)
(* What holds of Lifecycle for every number of connections and every width *)
(* of the counter that can hold them.                                      *)
(*                                                                         *)
(* The inductive invariant relates the counter to one set: the threads     *)
(* between request_start and request_end together with the leaked ones.    *)
(* A step either leaves that set alone, adds its own thread to it          *)
(* (RequestStart) or takes its own thread out of it (RequestEnd).          *)
(***************************************************************************)
EXTENDS Lifecycle, FiniteSetTheorems, TLAPS

\* The threads active_requests accounts for.
Weighed == Counted \cup {"leaked"}

WeighedExact == active = Cardinality(At(Weighed))

\* A gate that is closed has recorded who had passed it, and a waiter that
\* is past a store has made it.
GateHistory ==
    /\ waiter # "idle" => shuttingDown
    /\ waiter \in {"waiting", "drained", "timedout"} => drainStarted
    /\ drainStarted => PassedGate \subseteq passedAtClose

IInv == TypeOK /\ WeighedExact /\ GateHistory

-----------------------------------------------------------------------------

\* A set of threads is finite and smaller than the counter's modulus.
LEMMA AtBounded ==
  ASSUME NEW S
  PROVE  /\ IsFiniteSet(At(S))
         /\ Cardinality(At(S)) \in Nat
         /\ Cardinality(At(S)) < Wrap
<1>1. At(S) \in SUBSET Conns
  BY DEF At
<1>2. IsFiniteSet(At(S)) /\ Cardinality(At(S)) <= Cardinality(Conns)
  BY <1>1, ConnsAssumption, FS_Subset
<1>3. Cardinality(At(S)) \in Nat /\ Cardinality(Conns) \in Nat
  BY <1>2, ConnsAssumption, FS_CardinalityType
<1> QED
  BY <1>2, <1>3, WrapAssumption

\* What one thread's step does to a set of threads.
LEMMA MoveAt ==
  ASSUME TypeOK, NEW c \in Conns, NEW from, NEW to, Go(c, from, to), NEW S
  PROVE  /\ (from \in S <=> to \in S) => At(S)' = At(S)
         /\ from \notin S /\ to \in S =>
               c \notin At(S) /\ At(S)' = At(S) \cup {c}
         /\ from \in S /\ to \notin S =>
               c \in At(S) /\ At(S)' = At(S) \ {c}
BY DEF TypeOK, At, Go

\* A step that may forget the class of the request moves the thread.
LEMMA StepMoves ==
  ASSUME TypeOK, NEW c \in Conns, NEW from, NEW to, Step(c, from, to)
  PROVE  Go(c, from, to) /\ class' \in [Conns -> Class]
BY DEF TypeOK, Class, Step

\* The initial state satisfies the invariant.
LEMMA InitIInv == Init => IInv
<1> SUFFICES ASSUME Init PROVE IInv
  OBVIOUS
<1>1. TypeOK
  <2>1. 0 \in 0 .. (Wrap - 1)
    BY AtBounded, WrapAssumption
  <2> QED
    BY <2>1 DEF Init, TypeOK, PC, Class, Waiter
<1>2. WeighedExact
  <2>1. At(Weighed) = {}
    BY DEF Init, At, Weighed, Counted
  <2> QED
    BY <2>1, FS_EmptySet DEF Init, WeighedExact
<1>3. GateHistory
  BY DEF Init, GateHistory
<1> QED
  BY <1>1, <1>2, <1>3 DEF IInv

-----------------------------------------------------------------------------

\* The steps of a thread that touch neither the counter nor the flags.
QuietStep(c) ==
    /\ c \in Conns
    /\ \E from, to \in PC :
          /\ Go(c, from, to)
          /\ from \in Weighed <=> to \in Weighed
          /\ to \in Passed => from \in Passed \/ ~drainStarted
    /\ class' \in [Conns -> Class]
    /\ UNCHANGED <<up, active, heartbeat, shutdownVars>>

LEMMA QuietSteps ==
  ASSUME TypeOK, NEW c \in Conns,
         Authenticate(c) \/ Record(c) \/ Waits(c)
  PROVE  QuietStep(c)
<1>0. \A from, to : Step(c, from, to) => Go(c, from, to) /\ class' \in [Conns -> Class]
  BY StepMoves
<1> USE <1>0 DEF QuietStep, PC, BeforeCount, Counted, Ended, Weighed, Passed
<1>1. CASE Authenticate(c)
  BY <1>1 DEF Authenticate
<1>2. CASE Direct(c)
  BY <1>2 DEF Direct
<1>3. CASE Route(c)
  BY <1>3 DEF Route
<1>4. CASE Record(c)
  BY <1>4 DEF Record
<1>5. CASE Accept(c)
  BY <1>5 DEF Accept, TypeOK
<1>6. CASE ReadHead(c)
  <2>1. class' \in [Conns -> Class]
    BY <1>6 DEF ReadHead, TypeOK
  <2> QED
    BY <1>6, <2>1 DEF ReadHead
<1>7. CASE ReadHeadFails(c)
  BY <1>7 DEF ReadHeadFails
<1>8. CASE RateLimit(c)
  BY <1>8 DEF RateLimit
<1>9. CASE AnswerProbe(c)
  BY <1>9 DEF AnswerProbe
<1>10. CASE EmergencyGate(c)
  BY <1>10 DEF EmergencyGate
<1>11. CASE DrainGate(c)
  <2>1. CASE drainStarted
    BY <1>11, <2>1 DEF DrainGate
  <2>2. CASE ~drainStarted
    BY <1>11, <2>2 DEF DrainGate
  <2> QED
    BY <2>1, <2>2
<1>12. CASE ReadBody(c)
  BY <1>12 DEF ReadBody
<1>13. CASE WriteResponse(c)
  BY <1>13 DEF WriteResponse
<1>14. CASE WriteRefusal(c)
  BY <1>14 DEF WriteRefusal
<1> QED
  BY <1>1, <1>2, <1>3, <1>4, <1>5, <1>6, <1>7, <1>8, <1>9, <1>10, <1>11,
     <1>12, <1>13, <1>14 DEF Waits

LEMMA QuietStepIInv ==
  ASSUME IInv, NEW c \in Conns, QuietStep(c)
  PROVE  IInv'
<1>1. PICK from \in PC, to \in PC :
        /\ Go(c, from, to)
        /\ from \in Weighed <=> to \in Weighed
        /\ to \in Passed => from \in Passed \/ ~drainStarted
  BY DEF QuietStep
<1>2. TypeOK'
  BY <1>1 DEF IInv, TypeOK, QuietStep, Go, shutdownVars
<1>3. WeighedExact'
  <2>1. At(Weighed)' = At(Weighed)
    BY <1>1, MoveAt DEF IInv
  <2> QED
    BY <2>1 DEF IInv, WeighedExact, QuietStep
<1>4. GateHistory'
  BY <1>1 DEF IInv, TypeOK, GateHistory, QuietStep, shutdownVars, PassedGate, At, Go
<1> QED
  BY <1>2, <1>3, <1>4 DEF IInv

LEMMA RequestStartIInv ==
  ASSUME IInv, NEW c \in Conns, RequestStart(c)
  PROVE  IInv'
<1> USE DEF IInv, RequestStart
<1>1. /\ At(Weighed)' = At(Weighed) \cup {c}
      /\ c \notin At(Weighed)
  BY MoveAt DEF Weighed, Counted
<1>2. Cardinality(At(Weighed)') = active + 1
  BY <1>1, AtBounded, FS_AddElement DEF WeighedExact
<1>3. active + 1 < Wrap
  <2>1. At(Weighed)' \in SUBSET Conns
    BY <1>1 DEF At
  <2> QED
    BY <1>2, <2>1, ConnsAssumption, WrapAssumption, FS_Subset,
       FS_CardinalityType DEF TypeOK
<1>4. active' = active + 1
  BY <1>3, WrapAssumption DEF TypeOK
<1>5. TypeOK'
  <2>1. active' \in 0 .. (Wrap - 1)
    BY <1>3, <1>4, WrapAssumption DEF TypeOK
  <2> QED
    BY <2>1 DEF TypeOK, Go, PC, Counted, shutdownVars
<1>6. WeighedExact'
  BY <1>2, <1>4 DEF WeighedExact
<1>7. GateHistory'
  <2>1. PassedGate' = PassedGate
    BY MoveAt DEF PassedGate, Passed, Counted
  <2> QED
    BY <2>1 DEF GateHistory, shutdownVars
<1> QED
  BY <1>5, <1>6, <1>7

LEMMA RequestEndIInv ==
  ASSUME IInv, NEW c \in Conns, RequestEnd(c)
  PROVE  IInv'
<1> USE DEF IInv, RequestEnd
<1>1. /\ At(Weighed)' = At(Weighed) \ {c}
      /\ c \in At(Weighed)
  BY MoveAt DEF Weighed, Counted
<1>2. Cardinality(At(Weighed)') = active - 1
  BY <1>1, AtBounded, FS_RemoveElement DEF WeighedExact
<1>3. active > 0
  BY <1>1, AtBounded, FS_EmptySet DEF WeighedExact
<1>4. active' = active - 1
  BY <1>3, WrapAssumption DEF TypeOK
<1>5. TypeOK'
  <2>1. active' \in 0 .. (Wrap - 1)
    BY <1>3, <1>4, WrapAssumption DEF TypeOK
  <2> QED
    BY <2>1 DEF TypeOK, Go, PC, shutdownVars
<1>6. WeighedExact'
  BY <1>2, <1>4 DEF WeighedExact
<1>7. GateHistory'
  <2>1. PassedGate' = PassedGate
    BY MoveAt DEF PassedGate, Passed, Counted
  <2> QED
    BY <2>1 DEF GateHistory, shutdownVars
<1> QED
  BY <1>5, <1>6, <1>7

LEMMA ShutdownIInv ==
  ASSUME IInv, Shutdown
  PROVE  IInv'
<1> USE DEF IInv, connVars
<1>1. At(Weighed)' = At(Weighed) /\ PassedGate' = PassedGate
  BY DEF Shutdown, InitiateShutdown, CloseGate, PollDrain, DrainTimeout, At,
         PassedGate
<1>2. TypeOK'
  BY DEF TypeOK, Shutdown, InitiateShutdown, CloseGate, PollDrain,
         DrainTimeout, Waiter, PassedGate, At
<1>3. WeighedExact'
  BY <1>1 DEF WeighedExact, Shutdown, InitiateShutdown, CloseGate, PollDrain,
              DrainTimeout
<1>4. GateHistory'
  BY <1>1 DEF GateHistory, Shutdown, InitiateShutdown, CloseGate, PollDrain,
              DrainTimeout
<1> QED
  BY <1>2, <1>3, <1>4

LEMMA AcceptErrorIInv ==
  ASSUME IInv, AcceptError
  PROVE  IInv'
<1> USE DEF IInv, AcceptError
<1>1. TypeOK'
  <2>1. 0 \in 0 .. (Wrap - 1)
    BY AtBounded, WrapAssumption
  <2> QED
    BY <2>1 DEF TypeOK, PC, Ended, Class, Waiter
<1>2. WeighedExact'
  <2>1. At(Weighed)' = {}
    BY DEF At, Weighed, Counted
  <2> QED
    BY <2>1, FS_EmptySet DEF WeighedExact
<1>3. GateHistory'
  BY DEF GateHistory
<1> QED
  BY <1>1, <1>2, <1>3

\* Every step keeps the invariant.
LEMMA NextIInv == IInv /\ [Next]_vars => IInv'
<1> SUFFICES ASSUME IInv, [Next]_vars PROVE IInv'
  OBVIOUS
<1>1. ASSUME NEW c \in Conns, Owed(c) \/ Waits(c) PROVE IInv'
  <2>1. CASE RequestStart(c)
    BY <2>1, RequestStartIInv
  <2>2. CASE RequestEnd(c)
    BY <2>2, RequestEndIInv
  <2>3. CASE Authenticate(c) \/ Record(c) \/ Waits(c)
    BY <2>3, QuietSteps, QuietStepIInv DEF IInv
  <2> QED
    BY <1>1, <2>1, <2>2, <2>3 DEF Owed
<1>2. CASE Shutdown
  BY <1>2, ShutdownIInv
<1>3. CASE AcceptError
  BY <1>3, AcceptErrorIInv
<1>4. CASE UNCHANGED vars
  BY <1>4 DEF vars, connVars, shutdownVars, IInv, TypeOK, WeighedExact,
              GateHistory, At, PassedGate
<1> QED
  BY <1>1, <1>2, <1>3, <1>4 DEF Next

LEMMA SpecIInv == Spec => []IInv
  BY InitIInv, NextIInv, PTL DEF Spec

-----------------------------------------------------------------------------

\* The weighed threads are the counted and the leaked ones, and no thread is
\* both.
LEMMA WeighedSplits ==
  Cardinality(At(Weighed)) =
     Cardinality(At(Counted)) + Cardinality(At({"leaked"}))
<1>1. At(Weighed) = At(Counted) \cup At({"leaked"})
  BY DEF At, Weighed
<1>2. At(Counted) \cap At({"leaked"}) = {}
  BY DEF At, Counted
<1>3. Cardinality(At(Counted) \cap At({"leaked"})) = 0
  BY <1>2, FS_EmptySet
<1>4. /\ IsFiniteSet(At(Counted)) /\ Cardinality(At(Counted)) \in Nat
      /\ IsFiniteSet(At({"leaked"})) /\ Cardinality(At({"leaked"})) \in Nat
  BY AtBounded
<1>5. Cardinality(At(Counted) \cup At({"leaked"})) =
        Cardinality(At(Counted)) + Cardinality(At({"leaked"})) - 0
  BY <1>3, <1>4, FS_Union
<1> QED
  BY <1>1, <1>4, <1>5

\* Every variable keeps its type; active_requests stays below the modulus.
THEOREM TypeCorrect == Spec => []TypeOK
<1>1. IInv => TypeOK
  BY DEF IInv
<1> QED
  BY <1>1, SpecIInv, PTL

\* active_requests counts the requests in flight plus the leaked ones, for
\* any number of connections: it never wraps and never undercounts.
THEOREM CountIsExact == Spec => []CountExact
<1>1. IInv => CountExact
  BY WeighedSplits DEF IInv, WeighedExact, CountExact
<1> QED
  BY <1>1, SpecIInv, PTL

\* A request that arrives after the drain gate closed is never handled.
THEOREM LateArrivals == Spec => []LateArrivalsNeverRun
<1>1. IInv => LateArrivalsNeverRun
  BY DEF IInv, GateHistory, LateArrivalsNeverRun
<1> QED
  BY <1>1, SpecIInv, PTL

\* wait_for_drain answers true only at a step where no counted request
\* runs and none has leaked.
THEOREM DrainAnswer == Spec => DrainedMeansQuiet
<1>1. IInv /\ [Next]_vars =>
        [waiter = "waiting" /\ waiter' = "drained"
           => At(Counted \cup {"leaked"}) = {}]_vars
  <2> SUFFICES ASSUME IInv, Next, waiter = "waiting", waiter' = "drained"
               PROVE  At(Weighed) = {}
    BY DEF Weighed
  <2>1. active = 0
    <3>1. ~ \E c \in Conns : Owed(c) \/ Waits(c)
      BY DEF Owed, Waits, Accept, ReadHead, ReadHeadFails, RateLimit,
             AnswerProbe, EmergencyGate, DrainGate, RequestStart, Authenticate,
             WriteRefusal, ReadBody, Direct, Route, Record, RequestEnd,
             WriteResponse, shutdownVars
    <3> QED
      BY <3>1 DEF Next, AcceptError, Shutdown, InitiateShutdown, CloseGate,
                  PollDrain, DrainTimeout, IsDrained
  <2> QED
    BY <2>1, AtBounded, FS_EmptySet DEF IInv, WeighedExact
<1> QED
  BY <1>1, SpecIInv, PTL DEF Spec, DrainedMeansQuiet

-----------------------------------------------------------------------------
(* The refinement.  The counter is zero exactly when nobody is served and  *)
(* nobody was left behind, by the invariant; everything else is a matter   *)
(* of which places of handle_connection look alike from outside.           *)

Requests == [c \in Conns |-> Seen(pc[c])]
Door == IF up /\ ~drainStarted THEN "open" ELSE "closed"

\* How a step of a thread may look from outside.
Visible == {<<"waiting", "let in">>, <<"waiting", "over">>, <<"let in", "served">>,
            <<"served", "over">>, <<"served", "left behind">>}

ShownAs(from, to) ==
  \/ Seen(from) = Seen(to)
  \/ /\ <<Seen(from), Seen(to)>> \in Visible
     /\ Seen(to) = "let in" => ~drainStarted

LEMMA SeenOf ==
  /\ \A p \in BeforeCount \cup {"unborn"} : Seen(p) = "waiting"
  /\ Seen("admitted") = "let in"
  /\ \A p \in Counted : Seen(p) = "served"
  /\ Seen("leaked") = "left behind"
  /\ \A p \in {"uncounted", "writing", "done", "gone"} : Seen(p) = "over"
  BY DEF Seen, BeforeCount, Counted

\* The groups of places that look alike, and the steps between them.
LEMMA MoveShows ==
  ASSUME NEW from \in PC, NEW to \in PC,
         \/ {from, to} \subseteq BeforeCount \cup {"unborn"}
         \/ from \in BeforeCount /\ to = "uncounted"
         \/ from \in BeforeCount /\ to = "admitted" /\ ~drainStarted
         \/ from = "admitted" /\ to \in Counted
         \/ {from, to} \subseteq Counted
         \/ from \in Counted /\ to \in {"leaked", "writing"}
         \/ from = "writing" /\ to = "done"
  PROVE  ShownAs(from, to)
  BY SeenOf DEF ShownAs, Visible

LEMMA ThreadShows ==
  ASSUME TypeOK, NEW c \in Conns, Owed(c) \/ Waits(c)
  PROVE  \E from, to \in PC :
            /\ Go(c, from, to)
            /\ UNCHANGED <<up, drainStarted, waiter>>
            /\ ShownAs(from, to)
<1> DEFINE Shows(from, to) == /\ Go(c, from, to)
                              /\ UNCHANGED <<up, drainStarted, waiter>>
                              /\ ShownAs(from, to)
<1>1. \A from, to \in PC : Shows(from, to) => \E f, g \in PC : Shows(f, g)
  OBVIOUS
<1> HIDE DEF Shows
<1> SUFFICES \E from, to \in PC : Shows(from, to)
  BY DEF Shows
<1>2. ASSUME NEW from \in PC, NEW to \in PC,
             Go(c, from, to), UNCHANGED <<up, drainStarted, waiter>>,
             \/ {from, to} \subseteq BeforeCount \cup {"unborn"}
             \/ from \in BeforeCount /\ to = "uncounted"
             \/ from \in BeforeCount /\ to = "admitted" /\ ~drainStarted
             \/ from = "admitted" /\ to \in Counted
             \/ {from, to} \subseteq Counted
             \/ from \in Counted /\ to \in {"leaked", "writing"}
             \/ from = "writing" /\ to = "done"
      PROVE  \E f, g \in PC : Shows(f, g)
  BY <1>1, <1>2, MoveShows DEF Shows
<1>3. /\ {"unborn", "reading", "limiting", "gating", "draining", "uncounted", "admitted",
          "authenticating", "refused", "body", "dispatch", "recording", "ending", "leaked",
          "writing", "done"} \subseteq PC
      /\ BeforeCount = {"reading", "limiting", "gating", "draining"}
      /\ Counted = {"authenticating", "refused", "body", "dispatch", "recording", "ending"}
  BY DEF PC, BeforeCount, Counted, Ended
<1>a. \A from, to : Step(c, from, to) => Go(c, from, to)
  BY StepMoves
<1> USE <1>2, <1>3, <1>a DEF shutdownVars
<1>4. CASE Accept(c) \/ ReadHead(c) \/ ReadHeadFails(c)
  BY <1>4 DEF Accept, ReadHead, ReadHeadFails
<1>5. CASE RateLimit(c)
  BY <1>5 DEF RateLimit
<1>6. CASE AnswerProbe(c) \/ EmergencyGate(c)
  BY <1>6 DEF AnswerProbe, EmergencyGate
<1>7. CASE DrainGate(c)
  <2>1. CASE drainStarted
    BY <1>7, <2>1 DEF DrainGate
  <2>2. CASE ~drainStarted
    BY <1>7, <2>2 DEF DrainGate
  <2> QED
    BY <2>1, <2>2
<1>8. CASE RequestStart(c) \/ Authenticate(c)
  BY <1>8 DEF RequestStart, Authenticate
<1>9. CASE WriteRefusal(c) \/ ReadBody(c)
  BY <1>9 DEF WriteRefusal, ReadBody
<1>10. CASE Direct(c) \/ Route(c)
  BY <1>10 DEF Direct, Route
<1>11. CASE Record(c)
  BY <1>11 DEF Record
<1>12. CASE RequestEnd(c) \/ WriteResponse(c)
  BY <1>12 DEF RequestEnd, WriteResponse
<1> QED
  BY <1>4, <1>5, <1>6, <1>7, <1>8, <1>9, <1>10, <1>11, <1>12 DEF Owed, Waits

LEMMA ThreadRefines ==
  ASSUME TypeOK, NEW c \in Conns, Owed(c) \/ Waits(c)
  PROVE  Promise!Next \/ UNCHANGED Promise!vars
<1>1. PICK from \in PC, to \in PC :
        Go(c, from, to) /\ UNCHANGED <<up, drainStarted, waiter>> /\ ShownAs(from, to)
  BY ThreadShows
<1>2. Requests[c] = Seen(from) /\ Requests' = [Requests EXCEPT ![c] = Seen(to)]
  BY <1>1 DEF Requests, Go, TypeOK
<1>3. up /\ UNCHANGED <<Door, Said(waiter)>>
  BY <1>1 DEF Go, Door
<1>4. CASE Seen(from) = Seen(to)
  BY <1>2, <1>3, <1>4 DEF Promise!vars, Requests, Door
<1>5. CASE Seen(from) # Seen(to)
  <2>1. <<Seen(from), Seen(to)>> \in Visible /\ (Seen(to) = "let in" => Door = "open")
    BY <1>1, <1>3, <1>5 DEF ShownAs, Door
  <2>2. Promise!Move(c, Seen(from), Seen(to))
    BY <1>2, <1>3 DEF Promise!Move, Requests, Door
  <2>3. \/ Promise!LetIn(c) \/ Promise!Refuse(c) \/ Promise!Begin(c)
        \/ Promise!End(c) \/ Promise!LeaveBehind(c)
    BY <2>1, <2>2 DEF Visible, Door, Promise!LetIn, Promise!Refuse, Promise!Begin,
                      Promise!End, Promise!LeaveBehind
  <2> QED
    BY <2>3 DEF Promise!Next
<1> QED
  BY <1>4, <1>5

\* The counter tells whether anybody is served or was left behind.
LEMMA CounterTellsBusy == IInv => (Promise!Busy <=> active # 0)
<1> SUFFICES ASSUME IInv PROVE Promise!Busy <=> active # 0
  OBVIOUS
<1>1. \A c \in Conns : Seen(pc[c]) \in {"served", "left behind"} <=> pc[c] \in Weighed
  <2> SUFFICES ASSUME NEW p \in PC
               PROVE  Seen(p) \in {"served", "left behind"} <=> p \in Weighed
    BY DEF IInv, TypeOK
  <2> QED
    BY SeenOf DEF PC, Ended, BeforeCount, Counted, Weighed
<1>2. Promise!Busy <=> At(Weighed) # {}
  BY <1>1 DEF Promise!Busy, At
<1>3. At(Weighed) # {} <=> Cardinality(At(Weighed)) # 0
  BY AtBounded, FS_EmptySet
<1> QED
  BY <1>2, <1>3 DEF IInv, WeighedExact

LEMMA ShutdownRefines ==
  ASSUME IInv, Shutdown
  PROVE  Promise!Next \/ UNCHANGED Promise!vars
<1>1. Requests' = Requests /\ up' = up /\ up
  BY DEF Shutdown, InitiateShutdown, CloseGate, PollDrain, DrainTimeout, connVars, Requests
<1> USE DEF Said, Door, Requests
<1>2. CASE InitiateShutdown
  BY <1>1, <1>2 DEF InitiateShutdown, Promise!vars
<1>3. CASE CloseGate
  BY <1>1, <1>3 DEF CloseGate, Promise!vars, Promise!Close, Promise!Next
<1>4. CASE PollDrain \/ DrainTimeout
  <2>1. waiter = "waiting" /\ shuttingDown /\ drainStarted /\ drainStarted' = drainStarted
    BY <1>4 DEF PollDrain, DrainTimeout, IInv, GateHistory
  <2>2. CASE PollDrain
    <3>1. ~Promise!Busy
      BY <2>2, CounterTellsBusy DEF PollDrain, IsDrained
    <3> QED
      BY <1>1, <2>1, <2>2, <3>1 DEF PollDrain, Promise!Quiet, Promise!Next
  <2>3. CASE DrainTimeout
    <3>1. Promise!Busy
      BY <2>1, <2>3, CounterTellsBusy DEF DrainTimeout, IsDrained
    <3> QED
      BY <1>1, <2>1, <2>3, <3>1 DEF DrainTimeout, Promise!GiveUp, Promise!Next
  <2> QED
    BY <1>4, <2>1, <2>2, <2>3
<1> QED
  BY <1>2, <1>3, <1>4 DEF Shutdown

\* From outside, handle_connection, its counter and its flags are a door that
\* lets requests in until it closes, serves each once, and answers truly
\* whether it is quiet: Lifecycle implements Service, for any connections.
THEOREM ServiceImplemented == Spec => ImplementsService
<1>1. Init => Promise!Init
  BY SeenOf DEF Init, Promise!Init, Said
<1>2. IInv /\ [Next]_vars => [Promise!Next]_Promise!vars
  <2> SUFFICES ASSUME IInv, [Next]_vars
               PROVE  Promise!Next \/ UNCHANGED Promise!vars
    OBVIOUS
  <2>1. CASE UNCHANGED vars
    BY <2>1 DEF vars, connVars, shutdownVars, Promise!vars
  <2>2. CASE \E c \in Conns : Owed(c) \/ Waits(c)
    BY <2>2, ThreadRefines DEF IInv
  <2>3. CASE Shutdown
    BY <2>3, ShutdownRefines
  <2>4. CASE AcceptError
    <3>1. Requests' = [c \in Conns |-> "over"]
      BY <2>4, SeenOf DEF AcceptError, Requests
    <3> QED
      BY <2>4, <3>1 DEF AcceptError, Promise!Crash, Promise!Next, Requests, Said
  <2> QED
    BY <2>1, <2>2, <2>3, <2>4 DEF Next
<1> QED
  BY <1>1, <1>2, SpecIInv, PTL DEF Spec, ImplementsService, Promise!Spec
=============================================================================
