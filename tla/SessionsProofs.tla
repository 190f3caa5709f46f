--------------------------- MODULE SessionsProofs ---------------------------
(***************************************************************************)
(* Proofs about Sessions, for any threads, sessions and number of turns.   *)
(*                                                                         *)
(* The inductive invariant adds to the type invariant where a turn can be: *)
(* a turn under way is in no history and not erased, a turn that is stored *)
(* is in one history only, and what the language model saw of a turn was   *)
(* in that history or is erased by now.  A thread whose session was not    *)
(* erased since it read it has read no more than is there.                 *)
(***************************************************************************)
EXTENDS Sessions, SequenceTheorems, TLAPS

USE MaxTurnsAssumption, NoneAssumption

-----------------------------------------------------------------------------

\* Two records appended to a sequence of records.
LEMMA AppendTwo ==
    ASSUME NEW S, NEW p \in Seq(S), NEW u \in S, NEW a \in S
    PROVE  /\ p \o <<u, a>> \in Seq(S)
           /\ Len(p \o <<u, a>>) = Len(p) + 2
           /\ \A j \in 1 .. Len(p) : (p \o <<u, a>>)[j] = p[j]
           /\ (p \o <<u, a>>)[Len(p) + 1] = u
           /\ (p \o <<u, a>>)[Len(p) + 2] = a
  <1>1. <<u, a>> \in Seq(S) /\ Len(<<u, a>>) = 2
    OBVIOUS
  <1>2. <<u, a>>[1] = u /\ <<u, a>>[2] = a
    OBVIOUS
  <1> QED
    BY <1>1, <1>2, ConcatProperties

LEMMA TurnsInType ==
  ASSUME NEW p \in Seq(MsgRecord)
  PROVE  TurnsIn(p) \subseteq Turns
<1>1. \A j \in DOMAIN p : p[j] \in MsgRecord
  BY LenProperties, ElementOfSeq
<1>2. \A m \in MsgRecord : m.turn \in Turns
  BY DEF MsgRecord
<1> QED
  BY <1>1, <1>2 DEF TurnsIn

LEMMA NoTurnsInEmpty == TurnsIn(<<>>) = {}
  BY EmptySeq DEF TurnsIn

\* History q is history p with the question and the answer of turn n.
HasAppended(p, q, n, step) ==
    /\ n \in Turns
    /\ p \in Seq(MsgRecord) /\ q \in Seq(MsgRecord)
    /\ Len(q) = Len(p) + 2
    /\ \A j \in 1 .. Len(p) : q[j] = p[j]
    /\ q[Len(p) + 1] = [turn |-> n, role |-> "user", step |-> step + 1]
    /\ q[Len(p) + 2] = [turn |-> n, role |-> "assistant", step |-> step + 2]
    /\ TurnsIn(q) = TurnsIn(p) \cup {n}

LEMMA AppendedHistory ==
  ASSUME TypeOK, NEW t \in Threads, pc[t] = "asking"
  PROVE  /\ session[t] \in Ids
         /\ HasAppended(payload[session[t]], Appended(t), turn[t], Len(seen[t]))
<1>s. PICK s : s = session[t]
  OBVIOUS
<1>p. PICK p : p = payload[s]
  OBVIOUS
<1>q. PICK q : q = Appended(t)
  OBVIOUS
<1> DEFINE u == [turn |-> turn[t], role |-> "user", step |-> Len(seen[t]) + 1]
           a == [turn |-> turn[t], role |-> "assistant", step |-> Len(seen[t]) + 2]
<1>1. s \in Ids /\ turn[t] \in Turns /\ p \in Seq(MsgRecord) /\ Len(seen[t]) \in Nat
  BY <1>s, <1>p, LenProperties DEF TypeOK, Turns
<1>2. u \in MsgRecord /\ a \in MsgRecord
  BY <1>1 DEF MsgRecord
<1>3. Len(seen[t]) + 1 + 1 = Len(seen[t]) + 2
  BY <1>1
<1>4. q = p \o <<u, a>>
  BY <1>3, <1>s, <1>p, <1>q DEF Appended, Exchange
<1>5. /\ q \in Seq(MsgRecord)
      /\ Len(q) = Len(p) + 2
      /\ \A j \in 1 .. Len(p) : q[j] = p[j]
      /\ q[Len(p) + 1] = u /\ q[Len(p) + 2] = a
  BY <1>1, <1>2, <1>4, AppendTwo
<1>6. u.turn = turn[t] /\ a.turn = turn[t]
  OBVIOUS
<1>7. TurnsIn(q) = TurnsIn(p) \cup {turn[t]}
  <2>1. DOMAIN q = 1 .. Len(p) + 2 /\ DOMAIN p = 1 .. Len(p) /\ Len(p) \in Nat
    BY <1>1, <1>5, LenProperties
  <2> HIDE DEF u, a
  <2>2. \A j \in DOMAIN q : q[j].turn \in TurnsIn(p) \cup {turn[t]}
    <3> SUFFICES ASSUME NEW j \in DOMAIN q
                 PROVE  q[j].turn \in TurnsIn(p) \cup {turn[t]}
      OBVIOUS
    <3>1. j \in 1 .. Len(p) \/ j = Len(p) + 1 \/ j = Len(p) + 2
      BY <2>1
    <3> QED
      BY <3>1, <2>1, <1>5, <1>6 DEF TurnsIn
  <2>3. \A j \in DOMAIN p : j \in DOMAIN q /\ q[j].turn = p[j].turn
    BY <2>1, <1>5
  <2>4. Len(p) + 1 \in DOMAIN q /\ q[Len(p) + 1].turn = turn[t]
    BY <2>1, <1>5, <1>6
  <2> QED
    BY <2>2, <2>3, <2>4 DEF TurnsIn
<1> QED
  BY <1>s, <1>p, <1>q, <1>1, <1>5, <1>7 DEF HasAppended

-----------------------------------------------------------------------------
(* The inductive invariant.                                                *)

\* A history of whole exchanges has an even number of records.
WholeHistory(p) ==
    /\ Len(p) % 2 = 0
    /\ \A j \in DOMAIN p :
          IF j % 2 = 1
          THEN /\ p[j].role = "user"
               /\ j + 1 \in DOMAIN p /\ p[j + 1].turn = p[j].turn
          ELSE p[j].role = "assistant"

Whole == \A s \in Ids : WholeHistory(payload[s])

Asking(t) == t \in Threads /\ pc[t] = "asking"

\* Where turns are.
Placed ==
    /\ erased \subseteq 1 .. turns
    /\ \A s \in Ids : TurnsIn(payload[s]) \subseteq 1 .. turns
    /\ \A s, r \in Ids : s # r => TurnsIn(payload[s]) \cap TurnsIn(payload[r]) = {}
    /\ \A t : Asking(t) =>
          turn[t] \notin erased /\ \A s \in Ids : turn[t] \notin TurnsIn(payload[s])
    /\ ErasedStaysErased

\* What turn n of session s was made from.
Known(n, s) ==
    /\ basis[n] \subseteq TurnsIn(payload[s]) \cup erased
    /\ basis[n] \cap erased # {} => n \in carriers

BasisKnown ==
    /\ \A t : Asking(t) => Known(turn[t], session[t])
    /\ \A s \in Ids : \A n \in TurnsIn(payload[s]) : Known(n, s)

SeenThere ==
    \A t : Asking(t) /\ turn[t] \notin carriers =>
        Len(seen[t]) <= Len(payload[session[t]])

-----------------------------------------------------------------------------

LEMMA InitType == Init => TypeOK
  BY EmptySeq DEF Init, TypeOK, PC

LEMMA NextType == TypeOK /\ [Next]_vars => TypeOK'
<1> SUFFICES ASSUME TypeOK, [Next]_vars PROVE TypeOK'
  OBVIOUS
<1>1. ASSUME NEW t \in Threads, NEW s \in Ids, Begin(t, s) PROVE TypeOK'
  <2>1. PICK records \in Loaded(s) :
           /\ seen' = [seen EXCEPT ![t] = records]
           /\ basis' = [basis EXCEPT ![turns + 1] = TurnsIn(records)]
    BY <1>1 DEF Begin, Load
  <2>2. records \in Seq(MsgRecord)
    <3>1. payload[s] \in Seq(MsgRecord) /\ <<>> \in Seq(MsgRecord)
      BY EmptySeq DEF TypeOK
    <3> QED
      BY <2>1, <3>1 DEF Loaded
  <2>3. TurnsIn(records) \subseteq Turns
    BY <2>2, TurnsInType
  <2>4. turns \in Nat /\ turns + 1 \in Turns
    BY <1>1 DEF Begin, TypeOK, Turns
  <2>5. seen' \in [Threads -> Seq(MsgRecord)] /\ basis' \in [Turns -> SUBSET Turns]
    BY <2>1, <2>2, <2>3, <2>4 DEF TypeOK
  <2>6. /\ pc' \in [Threads -> PC] /\ session' \in [Threads -> Ids \cup {None}]
        /\ turn' \in [Threads -> {0} \cup Turns] /\ turns' \in {0} \cup Turns
        /\ payload' = payload /\ erased' = erased /\ carriers' = carriers
    BY <1>1, <2>4 DEF Begin, TypeOK, PC
  <2>7. \A v \in Threads : pc'[v] = "asking" =>
           session'[v] \in Ids /\ turn'[v] \in 1 .. turns'
    BY <1>1, <2>4 DEF Begin, TypeOK, Turns
  <2>8. \A v, w \in Threads : v # w /\ pc'[v] = "asking" /\ pc'[w] = "asking" =>
           turn'[v] # turn'[w]
    <3> SUFFICES ASSUME NEW v \in Threads, NEW w \in Threads, v # w,
                        pc'[v] = "asking", pc'[w] = "asking"
                 PROVE  turn'[v] # turn'[w]
      OBVIOUS
    <3>1. CASE v = t
      <4>1. turn'[v] = turns + 1
        BY <1>1, <3>1 DEF Begin, TypeOK
      <4>2. pc[w] = "asking" /\ turn'[w] = turn[w] /\ turn[w] \in 1 .. turns
        BY <1>1, <3>1 DEF Begin, TypeOK
      <4> QED
        BY <4>1, <4>2, <2>4
    <3>2. CASE v # t
      <4>1. pc[v] = "asking" /\ turn'[v] = turn[v] /\ turn[v] \in 1 .. turns
        BY <1>1, <3>2 DEF Begin, TypeOK
      <4>2. turn'[w] = IF w = t THEN turns + 1 ELSE turn[w]
        BY <1>1 DEF Begin, TypeOK
      <4>3. w # t => turn[v] # turn[w]
        <5>1. w # t => pc[w] = "asking"
          BY <1>1 DEF Begin, TypeOK
        <5> QED
          BY <4>1, <5>1 DEF TypeOK
      <4> QED
        BY <4>1, <4>2, <4>3, <2>4
    <3> QED
      BY <3>1, <3>2
  <2> QED
    BY <2>5, <2>6, <2>7, <2>8 DEF TypeOK
<1>2. ASSUME NEW t \in Threads, Fail(t) PROVE TypeOK'
  BY <1>2, EmptySeq DEF Fail, Leave, historyVars, TypeOK, PC
<1>3. ASSUME NEW t \in Threads, Answer(t) PROVE TypeOK'
  <2>1. Appended(t) \in Seq(MsgRecord)
    BY <1>3, AppendedHistory DEF Answer, HasAppended
  <2>2. payload' \in [Ids -> Seq(MsgRecord)]
    BY <1>3, <2>1 DEF Answer, TypeOK
  <2> QED
    BY <1>3, <2>2, EmptySeq DEF Answer, Leave, historyVars, TypeOK, PC
<1>4. ASSUME NEW S \in SUBSET Ids, Erase(S) PROVE TypeOK'
  <2>1. payload' \in [Ids -> Seq(MsgRecord)]
    BY <1>4, EmptySeq DEF Erase, TypeOK
  <2>2. erased' \in SUBSET Turns
    BY <1>4, TurnsInType DEF Erase, TypeOK
  <2>3. carriers' \in SUBSET Turns
    <3>1. UnderWay(S) \subseteq 1 .. turns
      BY DEF TypeOK, UnderWay
    <3>2. 1 .. turns \subseteq Turns
      BY DEF TypeOK, Turns
    <3> QED
      BY <1>4, <3>1, <3>2 DEF Erase, TypeOK
  <2> QED
    BY <1>4, <2>1, <2>2, <2>3 DEF Erase, threadVars, TypeOK
<1>5. CASE Restart
  BY <1>5, EmptySeq DEF Restart, historyVars, TypeOK, PC
<1>6. CASE UNCHANGED vars
  BY <1>6 DEF vars, threadVars, historyVars, TypeOK
<1> QED
  BY <1>1, <1>2, <1>3, <1>4, <1>5, <1>6 DEF Next

\* Type correctness; in particular no two messages are the same turn.
THEOREM TypeCorrect == Spec => []TypeOK
  BY InitType, NextType, PTL DEF Spec

-----------------------------------------------------------------------------
(* Whole exchanges: an answered message appends two records to a history   *)
(* of even length, and every other step leaves each history or empties it. *)

LEMMA EmptyWhole == WholeHistory(<<>>)
  BY DEF WholeHistory

LEMMA InitWhole == Init => Whole
<1> SUFFICES ASSUME Init PROVE Whole
  OBVIOUS
<1>1. \A s \in Ids : payload[s] = <<>>
  BY DEF Init
<1> QED
  BY <1>1, EmptyWhole DEF Whole

LEMMA NextWhole == TypeOK /\ Whole /\ [Next]_vars => Whole'
<1> SUFFICES ASSUME TypeOK, Whole, [Next]_vars PROVE Whole'
  OBVIOUS
<1>1. ASSUME NEW t \in Threads, Answer(t) PROVE Whole'
  <2>1. CASE payload' = payload
    BY <2>1 DEF Whole
  <2>2. CASE payload' = [payload EXCEPT ![session[t]] = Appended(t)]
    <3>1. PICK s : s = session[t]
      OBVIOUS
    <3>2. PICK p : p = payload[s]
      OBVIOUS
    <3>3. PICK q : q = Appended(t)
      OBVIOUS
    <3>4. /\ s \in Ids
          /\ p \in Seq(MsgRecord) /\ q \in Seq(MsgRecord)
          /\ Len(q) = Len(p) + 2
          /\ \A j \in 1 .. Len(p) : q[j] = p[j]
          /\ q[Len(p) + 1] = [turn |-> turn[t], role |-> "user",
                             step |-> Len(seen[t]) + 1]
          /\ q[Len(p) + 2] = [turn |-> turn[t], role |-> "assistant",
                             step |-> Len(seen[t]) + 2]
      <4>1. s \in Ids /\ HasAppended(p, q, turn[t], Len(seen[t]))
        BY <1>1, <3>1, <3>2, <3>3, AppendedHistory DEF Answer
      <4> QED
        BY <4>1 DEF HasAppended
    <3>5. /\ payload'[s] = q
          /\ \A r \in Ids : r # s => payload'[r] = payload[r]
      BY <2>2, <3>1, <3>3, <3>4 DEF TypeOK
    <3>6. Len(p) % 2 = 0 /\ Len(p) \in Nat /\ DOMAIN p = 1 .. Len(p)
      BY <3>2, <3>4, LenProperties DEF Whole, WholeHistory
    <3>7. Len(q) % 2 = 0 /\ DOMAIN q = 1 .. Len(p) + 2
      BY <3>4, <3>6, LenProperties
    <3>8. \A j \in DOMAIN p :
             IF j % 2 = 1
             THEN /\ p[j].role = "user"
                  /\ j + 1 \in DOMAIN p /\ p[j + 1].turn = p[j].turn
             ELSE p[j].role = "assistant"
      BY <3>2, <3>4 DEF Whole, WholeHistory
    <3>9. \A j \in DOMAIN q :
             IF j % 2 = 1
             THEN /\ q[j].role = "user"
                  /\ j + 1 \in DOMAIN q /\ q[j + 1].turn = q[j].turn
             ELSE q[j].role = "assistant"
      <4> SUFFICES ASSUME NEW j \in DOMAIN q
                   PROVE  IF j % 2 = 1
                          THEN /\ q[j].role = "user"
                               /\ j + 1 \in DOMAIN q /\ q[j + 1].turn = q[j].turn
                          ELSE q[j].role = "assistant"
        OBVIOUS
      <4>1. CASE j \in 1 .. Len(p)
        <5>1. q[j] = p[j] /\ (j + 1 \in 1 .. Len(p) => q[j + 1] = p[j + 1])
          BY <4>1, <3>4
        <5> QED
          BY <4>1, <5>1, <3>6, <3>7, <3>8
      <4>2. CASE j = Len(p) + 1
        <5>1. j % 2 = 1 /\ j + 1 \in DOMAIN q /\ j + 1 = Len(p) + 2
          BY <4>2, <3>6, <3>7
        <5>2. q[j].role = "user" /\ q[j].turn = turn[t]
          BY <4>2, <3>4
        <5>3. q[j + 1].turn = turn[t]
          BY <5>1, <3>4
        <5> QED
          BY <5>1, <5>2, <5>3
      <4>3. CASE j = Len(p) + 2
        <5>1. j % 2 # 1
          BY <4>3, <3>6
        <5>2. q[j].role = "assistant"
          BY <4>3, <3>4
        <5> QED
          BY <5>1, <5>2
      <4> QED
        BY <4>1, <4>2, <4>3, <3>6, <3>7
    <3>10. WholeHistory(q)
      BY <3>7, <3>9 DEF WholeHistory
    <3> QED
      BY <3>5, <3>10 DEF Whole
  <2> QED
    BY <1>1, <2>1, <2>2 DEF Answer
<1>2. ASSUME NEW S \in SUBSET Ids, Erase(S) PROVE Whole'
  <2>1. \A s \in Ids : payload'[s] = <<>> \/ payload'[s] = payload[s]
    BY <1>2 DEF Erase
  <2> QED
    BY <2>1, EmptyWhole DEF Whole
<1>3. CASE payload' = payload
  BY <1>3 DEF Whole
<1> QED
  BY <1>1, <1>2, <1>3 DEF Next, Begin, Fail, Restart, vars

\* However messages overlap, a question is followed by its own answer.
THEOREM ExchangesAreWhole == Spec => []WholeExchanges
<1>1. Init => TypeOK /\ Whole
  BY InitType, InitWhole
<1>2. TypeOK /\ Whole /\ [Next]_vars => (TypeOK /\ Whole)'
  BY NextType, NextWhole
<1>3. Whole => WholeExchanges
  BY DEF Whole, WholeHistory, WholeExchanges
<1> QED
  BY <1>1, <1>2, <1>3, PTL DEF Spec

-----------------------------------------------------------------------------
(* Where turns are.                                                        *)

\* What an answer does to the histories: nothing, or one turn more in one.
LEMMA AnswerEffect ==
  ASSUME TypeOK, NEW t \in Threads, Answer(t)
  PROVE  /\ Asking(t) /\ session[t] \in Ids /\ turn[t] \in 1 .. turns
         /\ \A s \in Ids : s # session[t] => payload'[s] = payload[s]
         /\ \/ payload'[session[t]] = payload[session[t]]
            \/ /\ payload'[session[t]] = Appended(t)
               /\ TurnsIn(payload'[session[t]])
                    = TurnsIn(payload[session[t]]) \cup {turn[t]}
         /\ \A u : Asking(u)' =>
               /\ Asking(u) /\ u # t
               /\ turn'[u] = turn[u] /\ turn[u] # turn[t]
               /\ session'[u] = session[u] /\ session[u] \in Ids
               /\ seen'[u] = seen[u]
         /\ UNCHANGED historyVars
<1>1. pc[t] = "asking" /\ session[t] \in Ids /\ turn[t] \in 1 .. turns
  BY DEF Answer, TypeOK
<1>2. TurnsIn(Appended(t)) = TurnsIn(payload[session[t]]) \cup {turn[t]}
  BY <1>1, AppendedHistory DEF HasAppended
<1>3. \/ payload' = payload
      \/ payload' = [payload EXCEPT ![session[t]] = Appended(t)]
  BY DEF Answer
<1>4. \/ payload'[session[t]] = payload[session[t]]
      \/ payload'[session[t]] = Appended(t)
  BY <1>1, <1>3 DEF TypeOK
<1>5. \A s \in Ids : s # session[t] => payload'[s] = payload[s]
  BY <1>1, <1>3 DEF TypeOK
<1>6. ASSUME NEW u, Asking(u)'
      PROVE  /\ Asking(u) /\ u # t
             /\ turn'[u] = turn[u] /\ turn[u] # turn[t]
             /\ session'[u] = session[u] /\ session[u] \in Ids
             /\ seen'[u] = seen[u]
  <2>1. u \in Threads /\ pc'[u] = "asking"
    BY <1>6 DEF Asking
  <2>2. u # t /\ pc[u] = "asking"
    BY <2>1 DEF Answer, Leave, TypeOK, PC
  <2> QED
    BY <1>1, <2>1, <2>2 DEF Answer, Leave, TypeOK, Asking
<1> QED
  BY <1>1, <1>2, <1>4, <1>5, <1>6 DEF Answer, Asking

\* What a message that arrives does.
LEMMA BeginEffect ==
  ASSUME TypeOK, NEW t \in Threads, NEW s \in Ids, Begin(t, s)
  PROVE  /\ turns \in Nat /\ turns' = turns + 1 /\ turns + 1 \in Turns
         /\ UNCHANGED <<payload, erased, carriers>>
         /\ seen'[t] \in Loaded(s)
         /\ turn'[t] = turns + 1 /\ session'[t] = s
         /\ basis'[turns + 1] = TurnsIn(seen'[t])
         /\ \A n \in 1 .. turns : basis'[n] = basis[n]
         /\ \A u : Asking(u)' /\ u # t =>
               /\ Asking(u) /\ turn[u] \in 1 .. turns
               /\ turn'[u] = turn[u] /\ seen'[u] = seen[u]
               /\ session'[u] = session[u] /\ session[u] \in Ids
<1>1. PICK records \in Loaded(s) :
         /\ seen' = [seen EXCEPT ![t] = records]
         /\ basis' = [basis EXCEPT ![turns + 1] = TurnsIn(records)]
  BY DEF Begin, Load
<1>2. /\ turns \in Nat /\ turns' = turns + 1 /\ turns + 1 \in Turns
      /\ 1 .. turns \subseteq Turns
  BY DEF Begin, TypeOK, Turns
<1>3. seen'[t] = records /\ basis'[turns + 1] = TurnsIn(records)
  BY <1>1, <1>2 DEF TypeOK
<1>4. \A n \in 1 .. turns : basis'[n] = basis[n]
  BY <1>1, <1>2 DEF TypeOK
<1>5. turn'[t] = turns + 1 /\ session'[t] = s
  BY DEF Begin, TypeOK
<1>6. ASSUME NEW u, Asking(u)', u # t
      PROVE  /\ Asking(u) /\ turn[u] \in 1 .. turns
             /\ turn'[u] = turn[u] /\ seen'[u] = seen[u]
             /\ session'[u] = session[u] /\ session[u] \in Ids
  <2>1. u \in Threads /\ pc'[u] = "asking"
    BY <1>6 DEF Asking
  <2>2. pc[u] = "asking"
    BY <1>6, <2>1 DEF Begin, TypeOK
  <2> QED
    BY <1>1, <1>6, <2>1, <2>2 DEF Begin, TypeOK, Asking
<1> QED
  BY <1>1, <1>2, <1>3, <1>4, <1>5, <1>6 DEF Begin

\* What an erasure does.
LEMMA EraseEffect ==
  ASSUME TypeOK, NEW S \in SUBSET Ids, Erase(S)
  PROVE  /\ \A s \in Ids \ S : payload'[s] = payload[s]
         /\ \A s \in S : payload'[s] = <<>> /\ TurnsIn(payload'[s]) = {}
         /\ \A n : n \in erased' <=>
               n \in erased \/ \E s \in S : n \in TurnsIn(payload[s])
         /\ carriers \subseteq carriers'
         /\ \A t : Asking(t) /\ session[t] \in S => turn[t] \in carriers'
         /\ UNCHANGED <<threadVars, turns, basis>>
  BY NoTurnsInEmpty DEF Erase, UnderWay, Asking, threadVars

\* The other steps: no history changes, and no message begins.
Quiet ==
    /\ UNCHANGED <<payload, historyVars>>
    /\ \A t : Asking(t)' =>
          /\ Asking(t) /\ turn'[t] = turn[t]
          /\ session'[t] = session[t] /\ seen'[t] = seen[t]

LEMMA NextCases ==
  ASSUME TypeOK, [Next]_vars
  PROVE  \/ \E t \in Threads, s \in Ids : Begin(t, s)
         \/ \E t \in Threads : Answer(t)
         \/ \E S \in SUBSET Ids : Erase(S)
         \/ Quiet
<1>1. ASSUME NEW t \in Threads, Fail(t) PROVE Quiet
  BY <1>1 DEF Fail, Leave, Quiet, Asking, TypeOK, PC
<1>2. CASE Restart
  BY <1>2 DEF Restart, Quiet, Asking
<1>3. CASE UNCHANGED vars
  BY <1>3 DEF vars, threadVars, Quiet, Asking
<1> QED
  BY <1>1, <1>2, <1>3 DEF Next

LEMMA InitPlaced == Init => Placed
  BY NoTurnsInEmpty DEF Init, Placed, Asking, ErasedStaysErased

LEMMA NextPlaced == TypeOK /\ Placed /\ [Next]_vars => Placed'
<1> SUFFICES ASSUME TypeOK, Placed, [Next]_vars PROVE Placed'
  OBVIOUS
<1>1. ASSUME NEW t \in Threads, NEW s \in Ids, Begin(t, s) PROVE Placed'
  <2>1. /\ turns \in Nat /\ turns' = turns + 1
        /\ payload' = payload /\ erased' = erased /\ turn'[t] = turns + 1
        /\ \A u : Asking(u)' /\ u # t => Asking(u) /\ turn'[u] = turn[u]
    BY <1>1, BeginEffect
  <2>2. 1 .. turns \subseteq 1 .. turns' /\ turns + 1 \notin 1 .. turns
    BY <2>1
  <2>3. /\ erased' \subseteq 1 .. turns'
        /\ \A r \in Ids : TurnsIn(payload'[r]) \subseteq 1 .. turns'
    BY <2>1, <2>2 DEF Placed
  <2>4. \A u : Asking(u)' => /\ turn'[u] \notin erased'
                            /\ \A r \in Ids : turn'[u] \notin TurnsIn(payload'[r])
    BY <2>1, <2>2 DEF Placed
  <2> QED
    BY <2>1, <2>3, <2>4 DEF Placed, ErasedStaysErased
<1>2. ASSUME NEW t \in Threads, Answer(t) PROVE Placed'
  <2>1. PICK s : s = session[t]
    OBVIOUS
  <2>2. PICK n : n = turn[t]
    OBVIOUS
  <2>3. /\ Asking(t) /\ s \in Ids /\ n \in 1 .. turns
        /\ \A r \in Ids : r # s => payload'[r] = payload[r]
        /\ \/ payload'[s] = payload[s]
           \/ TurnsIn(payload'[s]) = TurnsIn(payload[s]) \cup {n}
        /\ \A u : Asking(u)' => Asking(u) /\ turn'[u] = turn[u] /\ turn[u] # n
        /\ turns' = turns /\ erased' = erased
    BY <1>2, <2>1, <2>2, AnswerEffect DEF historyVars
  <2>4. n \notin erased /\ \A r \in Ids : n \notin TurnsIn(payload[r])
    BY <2>2, <2>3 DEF Placed
  <2>5. TurnsIn(payload'[s]) \subseteq TurnsIn(payload[s]) \cup {n}
    BY <2>3
  <2>6. \A r \in Ids : TurnsIn(payload'[r]) \subseteq 1 .. turns'
    BY <2>3, <2>5 DEF Placed
  <2>7. \A r, v \in Ids : r # v =>
           TurnsIn(payload'[r]) \cap TurnsIn(payload'[v]) = {}
    BY <2>3, <2>4, <2>5 DEF Placed
  <2>8. \A u : Asking(u)' => /\ turn'[u] \notin erased'
                            /\ \A r \in Ids : turn'[u] \notin TurnsIn(payload'[r])
    BY <2>3, <2>5 DEF Placed
  <2>9. \A r \in Ids : TurnsIn(payload'[r]) \cap erased' = {}
    BY <2>3, <2>4, <2>5 DEF Placed, ErasedStaysErased
  <2> QED
    BY <2>3, <2>6, <2>7, <2>8, <2>9 DEF Placed, ErasedStaysErased
<1>3. ASSUME NEW S \in SUBSET Ids, Erase(S) PROVE Placed'
  <2>1. /\ \A s \in Ids \ S : payload'[s] = payload[s]
        /\ \A s \in S : TurnsIn(payload'[s]) = {}
        /\ \A n : n \in erased' <=>
              n \in erased \/ \E s \in S : n \in TurnsIn(payload[s])
        /\ turns' = turns /\ turn' = turn /\ pc' = pc
    BY <1>3, EraseEffect DEF threadVars
  <2>2. \A s \in Ids : TurnsIn(payload'[s]) \subseteq TurnsIn(payload[s])
    BY <2>1
  <2>3. erased' \subseteq 1 .. turns'
    BY <2>1 DEF Placed
  <2>4. \A t : Asking(t)' => /\ turn'[t] \notin erased'
                            /\ \A s \in Ids : turn'[t] \notin TurnsIn(payload'[s])
    BY <2>1, <2>2 DEF Placed, Asking
  <2>5. \A s \in Ids : TurnsIn(payload'[s]) \cap erased' = {}
    <3> SUFFICES ASSUME NEW s \in Ids, NEW n \in TurnsIn(payload'[s])
                 PROVE  n \notin erased'
      OBVIOUS
    <3>1. s \notin S /\ n \in TurnsIn(payload[s])
      BY <2>1
    <3>2. n \notin erased /\ \A r \in S : n \notin TurnsIn(payload[r])
      BY <3>1 DEF Placed, ErasedStaysErased
    <3> QED
      BY <2>1, <3>2
  <2>6. /\ \A s \in Ids : TurnsIn(payload'[s]) \subseteq 1 .. turns'
        /\ \A s, r \in Ids : s # r =>
              TurnsIn(payload'[s]) \cap TurnsIn(payload'[r]) = {}
    BY <2>1, <2>2 DEF Placed
  <2> QED
    BY <2>3, <2>4, <2>5, <2>6 DEF Placed, ErasedStaysErased
<1>4. CASE Quiet
  BY <1>4 DEF Quiet, historyVars, Placed, ErasedStaysErased
<1> QED
  BY <1>1, <1>2, <1>3, <1>4, NextCases

\* No record of a turn comes back once it was erased.
THEOREM ErasedForGood == Spec => []ErasedStaysErased
<1>1. Init => TypeOK /\ Placed
  BY InitType, InitPlaced
<1>2. TypeOK /\ Placed /\ [Next]_vars => (TypeOK /\ Placed)'
  BY NextType, NextPlaced
<1>3. Placed => ErasedStaysErased
  BY DEF Placed
<1> QED
  BY <1>1, <1>2, <1>3, PTL DEF Spec

-----------------------------------------------------------------------------
(* What answers were made from.                                            *)

LEMMA InitBasis == Init => BasisKnown
  BY NoTurnsInEmpty DEF Init, BasisKnown, Asking

LEMMA NextBasis == TypeOK /\ Placed /\ BasisKnown /\ [Next]_vars => BasisKnown'
<1> SUFFICES ASSUME TypeOK, Placed, BasisKnown, [Next]_vars PROVE BasisKnown'
  OBVIOUS
<1>1. ASSUME NEW t \in Threads, NEW s \in Ids, Begin(t, s) PROVE BasisKnown'
  <2>1. /\ UNCHANGED <<payload, erased, carriers>>
        /\ seen'[t] \in Loaded(s) /\ turn'[t] = turns + 1 /\ session'[t] = s
        /\ basis'[turns + 1] = TurnsIn(seen'[t])
        /\ \A n \in 1 .. turns : basis'[n] = basis[n]
        /\ \A u : Asking(u)' /\ u # t =>
              /\ Asking(u) /\ turn[u] \in 1 .. turns
              /\ turn'[u] = turn[u] /\ session'[u] = session[u]
    BY <1>1, BeginEffect
  <2>2. TurnsIn(seen'[t]) \subseteq TurnsIn(payload[s])
    BY <2>1, NoTurnsInEmpty DEF Loaded
  <2>3. TurnsIn(payload[s]) \cap erased = {}
    BY DEF Placed, ErasedStaysErased
  <2>4. Known(turn[t], session[t])'
    BY <2>1, <2>2, <2>3 DEF Known
  <2>5. ASSUME NEW u, Asking(u)', u # t PROVE Known(turn[u], session[u])'
    BY <2>1, <2>5 DEF BasisKnown, Known
  <2>6. ASSUME NEW r \in Ids, NEW n \in TurnsIn(payload[r]) PROVE Known(n, r)'
    <3>1. n \in 1 .. turns
      BY DEF Placed
    <3> QED
      BY <2>1, <3>1 DEF BasisKnown, Known
  <2> QED
    BY <2>1, <2>4, <2>5, <2>6 DEF BasisKnown
<1>2. ASSUME NEW t \in Threads, Answer(t) PROVE BasisKnown'
  <2>1. PICK s : s = session[t]
    OBVIOUS
  <2>2. PICK n : n = turn[t]
    OBVIOUS
  <2>3. /\ Asking(t) /\ s \in Ids
        /\ \A r \in Ids : r # s => payload'[r] = payload[r]
        /\ \/ payload'[s] = payload[s]
           \/ TurnsIn(payload'[s]) = TurnsIn(payload[s]) \cup {n}
        /\ \A u : Asking(u)' => /\ Asking(u) /\ turn'[u] = turn[u]
                               /\ session'[u] = session[u] /\ session[u] \in Ids
        /\ basis' = basis /\ erased' = erased /\ carriers' = carriers
    BY <1>2, <2>1, <2>2, AnswerEffect DEF historyVars
  <2>4. \A r \in Ids : /\ TurnsIn(payload[r]) \subseteq TurnsIn(payload'[r])
                       /\ \A m \in TurnsIn(payload'[r]) :
                             m \in TurnsIn(payload[r]) \/ (r = s /\ m = n)
    BY <2>3
  <2>5. Known(n, s)
    BY <2>1, <2>2, <2>3 DEF BasisKnown
  <2>6. \A r \in Ids : \A m : Known(m, r) => Known(m, r)'
    BY <2>3, <2>4 DEF Known
  <2>7. \A u : Asking(u)' => Known(turn[u], session[u])'
    BY <2>3, <2>6 DEF BasisKnown
  <2>8. \A r \in Ids : \A m \in TurnsIn(payload'[r]) : Known(m, r)'
    BY <2>4, <2>5, <2>6 DEF BasisKnown
  <2> QED
    BY <2>7, <2>8 DEF BasisKnown
<1>3. ASSUME NEW S \in SUBSET Ids, Erase(S) PROVE BasisKnown'
  <2>1. /\ \A s \in Ids \ S : payload'[s] = payload[s]
        /\ \A s \in S : TurnsIn(payload'[s]) = {}
        /\ \A n : n \in erased' <=>
              n \in erased \/ \E s \in S : n \in TurnsIn(payload[s])
        /\ carriers \subseteq carriers'
        /\ \A t : Asking(t) /\ session[t] \in S => turn[t] \in carriers'
        /\ turn' = turn /\ pc' = pc /\ session' = session /\ basis' = basis
    BY <1>3, EraseEffect DEF threadVars
  <2>2. ASSUME NEW s \in Ids \ S, NEW n, Known(n, s) PROVE Known(n, s)'
    <3>1. basis'[n] \subseteq TurnsIn(payload'[s]) \cup erased'
      BY <2>1, <2>2 DEF Known
    <3>2. ASSUME NEW m \in basis[n], m \in erased' PROVE m \in erased
      <4>1. m \in TurnsIn(payload[s]) \/ m \in erased
        BY <2>2 DEF Known
      <4>2. m \in TurnsIn(payload[s]) => \A r \in S : m \notin TurnsIn(payload[r])
        BY DEF Placed
      <4> QED
        BY <2>1, <3>2, <4>1, <4>2
    <3> QED
      BY <2>1, <2>2, <3>1, <3>2 DEF Known
  <2>3. ASSUME NEW t, Asking(t)' PROVE Known(turn[t], session[t])'
    <3>1. Asking(t) /\ session[t] \in Ids /\ Known(turn[t], session[t])
      BY <2>1, <2>3 DEF Asking, TypeOK, BasisKnown
    <3>2. CASE session[t] \in S
      <4>1. turn[t] \in carriers'
        BY <2>1, <3>1, <3>2
      <4>2. basis[turn[t]] \subseteq erased'
        BY <2>1, <3>1, <3>2 DEF Known
      <4> QED
        BY <2>1, <4>1, <4>2 DEF Known
    <3>3. CASE session[t] \notin S
      BY <2>1, <2>2, <3>1, <3>3 DEF Known
    <3> QED
      BY <3>2, <3>3
  <2>4. ASSUME NEW s \in Ids, NEW n \in TurnsIn(payload'[s]) PROVE Known(n, s)'
    <3>1. s \notin S /\ n \in TurnsIn(payload[s])
      BY <2>1
    <3> QED
      BY <2>2, <3>1 DEF BasisKnown
  <2> QED
    BY <2>3, <2>4 DEF BasisKnown
<1>4. CASE Quiet
  BY <1>4 DEF Quiet, historyVars, BasisKnown, Known
<1> QED
  BY <1>1, <1>2, <1>3, <1>4, NextCases

\* Only a message that was under way when records were erased stores an
\* answer that was made from them.
THEOREM OnlyCarriersStoreErased == Spec => []OnlyCarriersKnow
<1>1. Init => TypeOK /\ Placed /\ BasisKnown
  BY InitType, InitPlaced, InitBasis
<1>2. TypeOK /\ Placed /\ BasisKnown /\ [Next]_vars
        => (TypeOK /\ Placed /\ BasisKnown)'
  BY NextType, NextPlaced, NextBasis
<1>3. BasisKnown => OnlyCarriersKnow
  BY DEF BasisKnown, Known, OnlyCarriersKnow
<1> QED
  BY <1>1, <1>2, <1>3, PTL DEF Spec

-----------------------------------------------------------------------------
(* Histories grow at the end.                                              *)

\* A step never undoes what another message has added.
THEOREM HistoriesGrow == Spec => HistoryGrows
<1> DEFINE Grows == \A s \in Ids : payload'[s] # <<>> =>
                      /\ Len(payload[s]) <= Len(payload'[s])
                      /\ \A j \in DOMAIN payload[s] : payload'[s][j] = payload[s][j]
<1>1. ASSUME TypeOK, [Next]_vars PROVE Grows
  <2>1. ASSUME NEW s \in Ids, payload'[s] = payload[s]
        PROVE  /\ Len(payload[s]) <= Len(payload'[s])
               /\ \A j \in DOMAIN payload[s] : payload'[s][j] = payload[s][j]
    BY <1>1, <2>1, LenProperties DEF TypeOK
  <2>2. ASSUME NEW t \in Threads, Answer(t) PROVE Grows
    <3>1. PICK s : s = session[t]
      OBVIOUS
    <3>1a. PICK p : p = payload[s]
      OBVIOUS
    <3>1b. PICK q : q = Appended(t)
      OBVIOUS
    <3>2. /\ pc[t] = "asking" /\ s \in Ids
          /\ \A r \in Ids : r # s => payload'[r] = payload[r]
          /\ payload'[s] = p \/ payload'[s] = q
      BY <1>1, <2>2, <3>1, <3>1a, <3>1b, AnswerEffect DEF Asking
    <3>3. /\ p \in Seq(MsgRecord) /\ Len(q) = Len(p) + 2
          /\ \A j \in 1 .. Len(p) : q[j] = p[j]
      <4>1. HasAppended(p, q, turn[t], Len(seen[t]))
        BY <1>1, <2>2, <3>1, <3>1a, <3>1b, AppendedHistory DEF Answer
      <4> QED
        BY <4>1 DEF HasAppended
    <3>4. DOMAIN p = 1 .. Len(p) /\ Len(p) <= Len(q)
      BY <3>3, LenProperties
    <3> QED
      BY <2>1, <3>1, <3>1a, <3>2, <3>3, <3>4
  <2>3. ASSUME NEW S \in SUBSET Ids, Erase(S) PROVE Grows
    BY <1>1, <2>1, <2>3, EraseEffect
  <2>4. CASE UNCHANGED payload
    BY <2>1, <2>4
  <2> QED
    BY <1>1, <2>2, <2>3, <2>4, NextCases, BeginEffect DEF Quiet
<1> QED
  BY <1>1, TypeCorrect, PTL DEF Spec, HistoryGrows

-----------------------------------------------------------------------------
(* The numbers of records.                                                 *)

\* The numbers of history p are at most the places, but for the carriers.
NumberedIn(p) ==
    \A j \in DOMAIN p : p[j].turn \notin carriers => p[j].step <= j

Numbered ==
    /\ SeenThere
    /\ \A s \in Ids : NumberedIn(payload[s])

LEMMA InitNumbered == Init => Numbered
<1> SUFFICES ASSUME Init PROVE Numbered
  OBVIOUS
<1>1. \A t : ~Asking(t)
  BY DEF Init, Asking
<1>2. \A s \in Ids : DOMAIN payload[s] = {}
  BY DEF Init
<1> QED
  BY <1>1, <1>2 DEF Numbered, NumberedIn, SeenThere

LEMMA NextNumbered == TypeOK /\ Numbered /\ [Next]_vars => Numbered'
<1> SUFFICES ASSUME TypeOK, Numbered, [Next]_vars PROVE Numbered'
  OBVIOUS
<1>1. ASSUME NEW t \in Threads, NEW s \in Ids, Begin(t, s) PROVE Numbered'
  <2>1. /\ UNCHANGED <<payload, carriers>>
        /\ seen'[t] \in Loaded(s) /\ session'[t] = s
        /\ \A u : Asking(u)' /\ u # t =>
              /\ Asking(u) /\ turn'[u] = turn[u] /\ seen'[u] = seen[u]
              /\ session'[u] = session[u]
    BY <1>1, BeginEffect
  <2>2. Len(seen'[t]) <= Len(payload[s])
    <3>1. Len(payload[s]) \in Nat /\ Len(<<>>) = 0
      BY LenProperties, EmptySeq DEF TypeOK
    <3> QED
      BY <2>1, <3>1 DEF Loaded
  <2>3. SeenThere'
    BY <2>1, <2>2 DEF Numbered, SeenThere
  <2>4. \A r \in Ids : NumberedIn(payload[r])'
    BY <2>1 DEF Numbered, NumberedIn
  <2> QED
    BY <2>3, <2>4 DEF Numbered
<1>2. ASSUME NEW t \in Threads, Answer(t) PROVE Numbered'
  <2>s. PICK s : s = session[t]
    OBVIOUS
  <2>p. PICK p : p = payload[s]
    OBVIOUS
  <2>q. PICK q : q = Appended(t)
    OBVIOUS
  <2>n. PICK n : n = turn[t]
    OBVIOUS
  <2>k. PICK k : k = Len(seen[t])
    OBVIOUS
  <2>1. s \in Ids /\ HasAppended(p, q, n, k)
    BY <1>2, <2>s, <2>p, <2>q, <2>n, <2>k, AppendedHistory DEF Answer
  <2>2. /\ Asking(t) /\ carriers' = carriers
        /\ \A r \in Ids : r # s => payload'[r] = payload[r]
        /\ payload'[s] = p \/ payload'[s] = q
        /\ \A u : Asking(u)' =>
              /\ Asking(u) /\ turn'[u] = turn[u] /\ seen'[u] = seen[u]
              /\ session'[u] = session[u] /\ session[u] \in Ids
    BY <1>2, <2>s, <2>p, <2>q, AnswerEffect DEF historyVars
  <2>3. Len(p) \in Nat /\ Len(p) <= Len(q) /\ DOMAIN q = 1 .. Len(p) + 2
        /\ DOMAIN p = 1 .. Len(p) /\ k \in Nat
    BY <2>1, <2>k, LenProperties DEF HasAppended, TypeOK
  <2>4. n \notin carriers => k <= Len(p)
    BY <2>2, <2>s, <2>p, <2>n, <2>k DEF Numbered, SeenThere
  <2>5. NumberedIn(p)
    BY <2>1, <2>p DEF Numbered
  <2>6. NumberedIn(q)
    <3> SUFFICES ASSUME NEW j \in DOMAIN q, q[j].turn \notin carriers
                 PROVE  q[j].step <= j
      BY DEF NumberedIn
    <3>1. CASE j \in 1 .. Len(p)
      <4>1. q[j] = p[j]
        BY <2>1, <3>1 DEF HasAppended
      <4> QED
        BY <2>3, <2>5, <3>1, <4>1 DEF NumberedIn
    <3>2. CASE j = Len(p) + 1
      <4>1. q[j].turn = n /\ q[j].step = k + 1
        BY <2>1, <3>2 DEF HasAppended
      <4> QED
        BY <2>3, <2>4, <3>2, <4>1
    <3>3. CASE j = Len(p) + 2
      <4>1. q[j].turn = n /\ q[j].step = k + 2
        BY <2>1, <3>3 DEF HasAppended
      <4> QED
        BY <2>3, <2>4, <3>3, <4>1
    <3> QED
      BY <2>3, <3>1, <3>2, <3>3
  <2>7. \A r \in Ids : NumberedIn(payload[r])'
    <3>1. \A r \in Ids : NumberedIn(payload'[r])
      BY <2>2, <2>5, <2>6 DEF Numbered
    <3> QED
      BY <2>2, <3>1 DEF NumberedIn
  <2>8. SeenThere'
    <3> SUFFICES ASSUME NEW u, Asking(u)', turn'[u] \notin carriers'
                 PROVE  Len(seen'[u]) <= Len(payload'[session'[u]])
      BY DEF SeenThere
    <3>1. /\ Asking(u) /\ turn[u] \notin carriers /\ seen'[u] = seen[u]
          /\ session'[u] = session[u] /\ session[u] \in Ids
      BY <2>2
    <3>2. Len(seen[u]) <= Len(payload[session[u]]) /\ Len(seen[u]) \in Nat
      BY <3>1, LenProperties DEF Numbered, SeenThere, TypeOK, Asking
    <3>3. CASE session[u] = s
      BY <2>2, <2>3, <2>p, <3>1, <3>2, <3>3
    <3>4. CASE session[u] # s
      BY <2>2, <3>1, <3>2, <3>4
    <3> QED
      BY <3>3, <3>4
  <2> QED
    BY <2>7, <2>8 DEF Numbered
<1>3. ASSUME NEW S \in SUBSET Ids, Erase(S) PROVE Numbered'
  <2>1. /\ \A s \in Ids \ S : payload'[s] = payload[s]
        /\ \A s \in S : payload'[s] = <<>>
        /\ carriers \subseteq carriers'
        /\ \A t : Asking(t) /\ session[t] \in S => turn[t] \in carriers'
        /\ turn' = turn /\ pc' = pc /\ session' = session /\ seen' = seen
    BY <1>3, EraseEffect DEF threadVars
  <2>2. SeenThere'
    BY <2>1 DEF Numbered, SeenThere, Asking, TypeOK
  <2>3. \A s \in Ids \ S : NumberedIn(payload[s])'
    BY <2>1 DEF Numbered, NumberedIn
  <2>4. \A s \in S : NumberedIn(payload[s])'
    BY <2>1 DEF NumberedIn
  <2> QED
    BY <2>2, <2>3, <2>4 DEF Numbered
<1>4. CASE Quiet
  BY <1>4 DEF Quiet, historyVars, Numbered, NumberedIn, SeenThere
<1> QED
  BY <1>1, <1>2, <1>3, <1>4, NextCases

\* Only a message that was under way when its session was erased is numbered
\* beyond its place.
THEOREM StepsAtMostPlaces == Spec => []StepAtMostPlace
<1>1. Init => TypeOK /\ Numbered
  BY InitType, InitNumbered
<1>2. TypeOK /\ Numbered /\ [Next]_vars => (TypeOK /\ Numbered)'
  BY NextType, NextNumbered
<1>3. Numbered => StepAtMostPlace
  BY DEF Numbered, NumberedIn, StepAtMostPlace
<1> QED
  BY <1>1, <1>2, <1>3, PTL DEF Spec

-----------------------------------------------------------------------------
(* The refinement: a history of whole exchanges is the sequence of its     *)
(* turns, and an answer that is stored adds its turn at the end.           *)

Histories == [s \in Ids |-> ExchangesOf(payload[s])]
Open == [s \in Ids |-> UnderWay({s})]

LEMMA ExchangesFacts ==
  ASSUME NEW p \in Seq(MsgRecord), WholeHistory(p)
  PROVE  /\ Len(ExchangesOf(p)) = Len(p) \div 2 /\ ExchangesOf(p) \in Seq(Turns)
         /\ {ExchangesOf(p)[k] : k \in DOMAIN ExchangesOf(p)} = TurnsIn(p)
<1>1. /\ Len(p) \in Nat /\ Len(p) % 2 = 0 /\ DOMAIN p = 1 .. Len(p)
      /\ \A j \in DOMAIN p : p[j] \in MsgRecord
  BY LenProperties, ElementOfSeq DEF WholeHistory
<1> DEFINE h == Len(p) \div 2
           e == ExchangesOf(p)
<1>2. h \in Nat /\ Len(p) = 2 * h
  <2>1. \A m \in Nat : m % 2 = 0 => (m \div 2) \in Nat /\ m = 2 * (m \div 2)
    OBVIOUS
  <2> QED
    BY <1>1, <2>1
<1>3. \A k \in 1 .. h : 2 * k - 1 \in DOMAIN p /\ 2 * k \in DOMAIN p /\ (2 * k - 1) % 2 = 1
  BY <1>1, <1>2
<1>4. \A j \in DOMAIN p : p[j].turn \in Turns
  BY <1>1 DEF MsgRecord
<1>5. DOMAIN e = 1 .. h /\ \A k \in 1 .. h : e[k] = p[2 * k - 1].turn
  BY DEF ExchangesOf
<1>6. e \in Seq(Turns) /\ Len(e) = h
  <2>1. e = [k \in 1 .. h |-> p[2 * k - 1].turn]
    BY DEF ExchangesOf
  <2>2. \A k \in 1 .. h : p[2 * k - 1].turn \in Turns
    BY <1>3, <1>4
  <2> HIDE DEF h, e
  <2> QED
    BY <1>2, <2>1, <2>2
<1>7. ASSUME NEW j \in DOMAIN p PROVE \E k \in 1 .. h : e[k] = p[j].turn
  <2>1. CASE j % 2 = 1
    <3>1. PICK k \in 1 .. h : j = 2 * k - 1
      <4>1. (j + 1) \div 2 \in 1 .. h /\ j = 2 * ((j + 1) \div 2) - 1
        BY <1>1, <1>2, <1>7, <2>1
      <4> QED
        BY <4>1
    <3> QED
      BY <1>5, <3>1
  <2>2. CASE j % 2 # 1
    <3>1. PICK k \in 1 .. h : j = 2 * k
      <4>1. j \div 2 \in 1 .. h /\ j = 2 * (j \div 2)
        BY <1>1, <1>2, <1>7, <2>2
      <4> QED
        BY <4>1
    <3>2. p[2 * k - 1].turn = p[2 * k].turn
      <4>1. 2 * k - 1 \in DOMAIN p /\ (2 * k - 1) % 2 = 1 /\ (2 * k - 1) + 1 = 2 * k
        BY <1>3
      <4> QED
        BY <4>1 DEF WholeHistory
    <3> QED
      BY <1>5, <3>1, <3>2
  <2> QED
    BY <2>1, <2>2
<1>8. \A k \in 1 .. h : e[k] \in TurnsIn(p)
  BY <1>3, <1>5 DEF TurnsIn
<1>9. \A n \in TurnsIn(p) : \E k \in 1 .. h : e[k] = n
  BY <1>7 DEF TurnsIn
<1> QED
  BY <1>5, <1>6, <1>8, <1>9

LEMMA ExchangeAdded ==
  ASSUME NEW p, NEW q, NEW n, NEW k \in Nat, HasAppended(p, q, n, k), WholeHistory(p)
  PROVE  ExchangesOf(q) = Append(ExchangesOf(p), n)
<1> DEFINE h == Len(p) \div 2
<1>1. /\ p \in Seq(MsgRecord) /\ q \in Seq(MsgRecord) /\ n \in Turns
      /\ Len(p) \in Nat /\ Len(p) % 2 = 0 /\ Len(q) = Len(p) + 2
      /\ \A j \in 1 .. Len(p) : q[j] = p[j]
      /\ q[Len(p) + 1].turn = n
  BY LenProperties DEF HasAppended, WholeHistory
<1>2. h \in Nat /\ Len(p) = 2 * h /\ Len(q) \div 2 = h + 1
  <2>1. \A m \in Nat : m % 2 = 0 => /\ (m \div 2) \in Nat /\ m = 2 * (m \div 2)
                                    /\ (m + 2) \div 2 = (m \div 2) + 1
    OBVIOUS
  <2> QED
    BY <1>1, <2>1
<1>3. ExchangesOf(p) \in Seq(Turns) /\ Len(ExchangesOf(p)) = h
  BY <1>1, ExchangesFacts
<1>4. \A j \in 1 .. h : ExchangesOf(q)[j] = ExchangesOf(p)[j]
  <2> SUFFICES ASSUME NEW j \in 1 .. h PROVE ExchangesOf(q)[j] = ExchangesOf(p)[j]
    OBVIOUS
  <2>1. 2 * j - 1 \in 1 .. Len(p) /\ j \in 1 .. h + 1
    BY <1>2
  <2>2. q[2 * j - 1] = p[2 * j - 1]
    BY <1>1, <2>1
  <2>3. ExchangesOf(q)[j] = q[2 * j - 1].turn
    BY <1>2, <2>1 DEF ExchangesOf
  <2>4. ExchangesOf(p)[j] = p[2 * j - 1].turn
    BY DEF ExchangesOf
  <2> QED
    BY <2>2, <2>3, <2>4
<1>5. ExchangesOf(q)[h + 1] = n
  <2>1. 2 * (h + 1) - 1 = Len(p) + 1 /\ h + 1 \in 1 .. Len(q) \div 2
    BY <1>2
  <2>2. ExchangesOf(q)[h + 1] = q[2 * (h + 1) - 1].turn
    BY <2>1 DEF ExchangesOf
  <2> QED
    BY <1>1, <2>1, <2>2
<1>6. ExchangesOf(q) = [j \in 1 .. h + 1 |-> ExchangesOf(q)[j]]
  BY <1>2 DEF ExchangesOf
<1> DEFINE a == ExchangesOf(p)
           b == ExchangesOf(q)
<1> HIDE DEF h, a, b
<1>7. /\ Len(Append(a, n)) = h + 1 /\ Append(a, n) \in Seq(Turns)
      /\ \A j \in 1 .. h : Append(a, n)[j] = a[j]
      /\ Append(a, n)[h + 1] = n
  BY <1>1, <1>3, AppendProperties DEF a
<1>8. Append(a, n) = [j \in 1 .. h + 1 |-> Append(a, n)[j]]
  <2>1. Append(a, n) \in [1 .. h + 1 -> Turns]
    BY <1>7, LenProperties
  <2>2. \A f \in [1 .. h + 1 -> Turns] : f = [j \in 1 .. h + 1 |-> f[j]]
    OBVIOUS
  <2> QED
    BY <2>1, <2>2
<1>9. \A j \in 1 .. h + 1 : b[j] = Append(a, n)[j]
  BY <1>2, <1>4, <1>5, <1>7 DEF a, b
<1>10. b = [j \in 1 .. h + 1 |-> b[j]]
  BY <1>6 DEF b
<1> QED
  BY <1>8, <1>9, <1>10 DEF a, b

LEMMA OpenTurns ==
  ASSUME NEW s \in Ids
  PROVE  Open[s] = {turn[t] : t \in {u \in Threads : pc[u] = "asking" /\ session[u] = s}}
  BY DEF Open, UnderWay

\* A thread that is done with its message leaves the others theirs.
LEMMA LeaveOpen ==
  ASSUME TypeOK, NEW t \in Threads, pc[t] = "asking", Leave(t)
  PROVE  /\ session[t] \in Ids /\ turn[t] \in Turns /\ turn[t] \in Open[session[t]]
         /\ Open' = [Open EXCEPT ![session[t]] = @ \ {turn[t]}]
<1>1. session[t] \in Ids /\ turn[t] \in 1 .. turns /\ 1 .. turns \subseteq Turns
  BY DEF TypeOK, Turns
<1>2. turn[t] \in Open[session[t]]
  BY <1>1, OpenTurns
<1>3. \A u \in Threads : /\ pc'[u] = "asking" <=> pc[u] = "asking" /\ u # t
                         /\ u # t => session'[u] = session[u] /\ turn'[u] = turn[u]
  BY DEF Leave, TypeOK, PC
<1>4. \A u \in Threads : u # t /\ pc[u] = "asking" => turn[u] # turn[t]
  BY DEF TypeOK
<1>5. ASSUME NEW s \in Ids
      PROVE  Open'[s] = IF s = session[t] THEN Open[s] \ {turn[t]} ELSE Open[s]
  <2>1. Open'[s] = {turn'[v] : v \in {u \in Threads : pc'[u] = "asking" /\ session'[u] = s}}
    BY DEF Open, UnderWay
  <2>2. Open'[s] = {turn[v] : v \in {u \in Threads : u # t /\ pc[u] = "asking" /\ session[u] = s}}
    BY <1>3, <2>1
  <2> QED
    BY <1>4, <2>2, OpenTurns
<1>6. Open = [s \in Ids |-> Open[s]] /\ Open' = [s \in Ids |-> Open'[s]]
  BY DEF Open
<1>7. Open' = [s \in Ids |-> IF s = session[t] THEN Open[s] \ {turn[t]} ELSE Open[s]]
  BY <1>5, <1>6
<1>8. [Open EXCEPT ![session[t]] = @ \ {turn[t]}]
        = [s \in Ids |-> IF s = session[t] THEN Open[s] \ {turn[t]} ELSE Open[s]]
  BY <1>1, <1>6
<1> QED
  BY <1>1, <1>2, <1>7, <1>8

LEMMA BeginRefines ==
  ASSUME TypeOK, Whole, NEW t \in Threads, NEW s \in Ids, Begin(t, s)
  PROVE  Promise!Next
<1> DEFINE n == turns + 1
<1>1. PICK records \in Loaded(s) : basis' = [basis EXCEPT ![n] = TurnsIn(records)]
  BY DEF Begin, Load
<1>2. /\ turns \in Nat /\ turns' = n /\ n \in Turns /\ payload' = payload
      /\ n \notin 1 .. turns /\ 1 .. turns' = 1 .. turns \cup {n}
  <2>1. turns \in Nat /\ turns' = n /\ n \in Turns /\ payload' = payload
    BY BeginEffect
  <2> QED
    BY <2>1
<1>3. TurnsIn(records) \in {Promise!Kept(s), {}}
  <2>1. Promise!Kept(s) = TurnsIn(payload[s])
    <3>1. Promise!Kept(s)
            = {ExchangesOf(payload[s])[k] : k \in DOMAIN ExchangesOf(payload[s])}
      BY DEF Promise!Kept
    <3>2. payload[s] \in Seq(MsgRecord) /\ WholeHistory(payload[s])
      BY DEF TypeOK, Whole
    <3> QED
      BY <3>1, <3>2, ExchangesFacts
  <2> QED
    BY <1>1, <2>1, NoTurnsInEmpty DEF Loaded
<1>4. Open' = [Open EXCEPT ![s] = @ \cup {n}]
  <2>1. \A u \in Threads :
           /\ pc'[u] = "asking" <=> pc[u] = "asking" \/ u = t
           /\ session'[u] = IF u = t THEN s ELSE session[u]
           /\ turn'[u] = IF u = t THEN n ELSE turn[u]
    BY DEF Begin, TypeOK, PC
  <2>2. pc[t] # "asking"
    BY DEF Begin
  <2>3. ASSUME NEW r \in Ids
        PROVE  Open'[r] = IF r = s THEN Open[r] \cup {n} ELSE Open[r]
    <3>1. Open'[r] = {turn'[v] : v \in {u \in Threads : pc'[u] = "asking" /\ session'[u] = r}}
      BY DEF Open, UnderWay
    <3>2. \A m : m \in Open'[r] <=>
             \E u \in Threads : pc'[u] = "asking" /\ session'[u] = r /\ m = turn'[u]
      BY <3>1
    <3>3. \A m : m \in Open[r] <=>
             \E u \in Threads : pc[u] = "asking" /\ session[u] = r /\ m = turn[u]
      BY OpenTurns
    <3>4. \A m : m \in Open'[r] <=> m \in Open[r] \/ (r = s /\ m = n)
      BY <2>1, <2>2, <3>2, <3>3
    <3> QED
      BY <3>4
  <2>4. Open = [r \in Ids |-> Open[r]] /\ Open' = [r \in Ids |-> Open'[r]]
    BY DEF Open
  <2> HIDE DEF n
  <2> QED
    BY <2>3, <2>4
<1>5. Promise!Ask(s, n)
  <2>1. UNCHANGED Histories
    BY <1>2 DEF Histories
  <2> QED
    BY <1>1, <1>2, <1>3, <1>4, <2>1 DEF Promise!Ask, Histories, Open
<1> QED
  BY <1>2, <1>5 DEF Promise!Next

LEMMA AnswerRefines ==
  ASSUME TypeOK, Whole, NEW t \in Threads, Answer(t) \/ Fail(t)
  PROVE  Promise!Next
<1> DEFINE s == session[t]
           n == turn[t]
<1>1. pc[t] = "asking" /\ Leave(t) /\ UNCHANGED historyVars
  BY DEF Answer, Fail
<1>2. /\ s \in Ids /\ n \in Turns /\ n \in Open[s]
      /\ Open' = [Open EXCEPT ![s] = @ \ {n}]
  BY <1>1, LeaveOpen
<1> HIDE DEF s, n
<1>3. Promise!Done(s, n)
  BY <1>1, <1>2 DEF Promise!Done, historyVars, Open
<1>4. CASE payload' = payload
  <2>1. Promise!Lose(s, n)
    BY <1>3, <1>4 DEF Promise!Lose
  <2> QED
    BY <1>2, <2>1 DEF Promise!Next, Open
<1>5. CASE payload' = [payload EXCEPT ![s] = Appended(t)]
  <2>1. /\ HasAppended(payload[s], Appended(t), n, Len(seen[t]))
        /\ WholeHistory(payload[s]) /\ Len(seen[t]) \in Nat
    BY <1>1, <1>2, AppendedHistory, LenProperties DEF Whole, TypeOK, s, n
  <2>2. ExchangesOf(Appended(t)) = Append(ExchangesOf(payload[s]), n)
    BY <2>1, ExchangeAdded
  <2>3. Histories' = [Histories EXCEPT ![s] = Append(@, n)]
    <3>1. \A r \in Ids : payload'[r] = IF r = s THEN Appended(t) ELSE payload[r]
      BY <1>2, <1>5 DEF TypeOK
    <3>2. \A r \in Ids : Histories'[r] =
             IF r = s THEN Append(Histories[r], n) ELSE Histories[r]
      BY <2>2, <3>1 DEF Histories
    <3>3. /\ Histories = [r \in Ids |-> Histories[r]]
          /\ Histories' = [r \in Ids |-> Histories'[r]]
      BY DEF Histories
    <3> QED
      BY <3>2, <3>3
  <2>4. Promise!Keep(s, n)
    BY <1>3, <2>3 DEF Promise!Keep, Histories
  <2> QED
    BY <1>2, <2>4 DEF Promise!Next, Open
<1> QED
  BY <1>1, <1>4, <1>5 DEF Answer, Fail, s

LEMMA EraseRefines ==
  ASSUME TypeOK, NEW S \in SUBSET Ids, Erase(S)
  PROVE  Promise!Next
<1>1. Histories' = [s \in Ids |-> IF s \in S THEN <<>> ELSE Histories[s]]
  <2>1. ExchangesOf(<<>>) = <<>>
    <3>1. Len(<<>>) \div 2 = 0 /\ 1 .. 0 = {}
      BY EmptySeq
    <3> QED
      BY <3>1 DEF ExchangesOf
  <2>2. \A s \in Ids : payload'[s] = IF s \in S THEN <<>> ELSE payload[s]
    BY DEF Erase
  <2> QED
    BY <2>1, <2>2 DEF Histories
<1>2. UNCHANGED <<Open, turns, basis>>
  BY DEF Erase, threadVars, Open, UnderWay
<1>3. Promise!Forget(S)
  BY <1>1, <1>2 DEF Promise!Forget, Histories, Open
<1> QED
  BY <1>3 DEF Promise!Next

\* Whatever comes between the read of a history and the append to it, the
\* sessions behave as if messages were answered from a snapshot and their
\* exchanges added one by one.
THEOREM ConversationImplemented == Spec => ImplementsConversation
<1>1. Init => Promise!Init
  <2> SUFFICES ASSUME Init PROVE Promise!Init
    OBVIOUS
  <2>1. \A s \in Ids : ExchangesOf(payload[s]) = <<>>
    <3>1. Len(<<>>) \div 2 = 0 /\ 1 .. 0 = {}
      BY EmptySeq
    <3> QED
      BY <3>1 DEF Init, ExchangesOf
  <2>2. \A s \in Ids : UnderWay({s}) = {}
    BY DEF Init, UnderWay
  <2>3. 1 .. turns = {}
    BY DEF Init
  <2> QED
    BY <2>1, <2>2, <2>3 DEF Init, Promise!Init
<1>2. TypeOK /\ Whole /\ [Next]_vars => [Promise!Next]_Promise!vars
  <2> SUFFICES ASSUME TypeOK, Whole, [Next]_vars
               PROVE  Promise!Next \/ UNCHANGED Promise!vars
    OBVIOUS
  <2>1. CASE UNCHANGED vars
    BY <2>1 DEF vars, threadVars, historyVars, Promise!vars, UnderWay
  <2>2. CASE Restart
    <3>1. \A s \in Ids : UnderWay({s})' = {}
      BY <2>2 DEF Restart, UnderWay
    <3>2. Promise!Crash
      BY <2>2, <3>1 DEF Restart, historyVars, Promise!Crash
    <3> QED
      BY <3>2 DEF Promise!Next
  <2> QED
    BY <2>1, <2>2, BeginRefines, AnswerRefines, EraseRefines DEF Next
<1>3. Init => TypeOK /\ Whole
  BY InitType, InitWhole
<1>4. TypeOK /\ Whole /\ [Next]_vars => (TypeOK /\ Whole)'
  BY NextType, NextWhole
<1> QED
  BY <1>1, <1>2, <1>3, <1>4, PTL DEF Spec, ImplementsConversation, Promise!Spec
=============================================================================
