------------------------------ MODULE Sessions ------------------------------
(***************************************************************************)
(* Sessions: the chat histories of handlers.rs.  A message to a session    *)
(* reads the history under the engine's read lock, gives the lock up, asks *)
(* the language model with a copy of that history, and then appends the    *)
(* question and the answer under the engine's write lock.  Other messages  *)
(* to the same session, and erasures (POST /v1/gdpr/delete), come in       *)
(* between.                                                                *)
(*                                                                         *)
(* handle_session_message and handle_session_message_for_tenant differ in  *)
(* the key of the session, which is a member of Ids here.  Reading a       *)
(* session changes nothing.  The payloads are in the database and survive  *)
(* a restart; the requests do not.  append_records and execute_deletion    *)
(* are uldb's.  A turn is a question and its answer; their text is         *)
(* abstracted to the turns the language model was shown to answer it.      *)
(*                                                                         *)
(* Left out: documents written under the key of a session (POST            *)
(* /v1/db/put, the tool file_write), which may be any text; what is said   *)
(* here of histories is said of sessions that nobody writes to that way.   *)
(***************************************************************************)
EXTENDS Integers, Sequences, FiniteSets

CONSTANTS
    Threads,    \* connection threads that may run at the same time
    Ids,        \* the session keys
    None,       \* no session
    MaxTurns    \* bound: the messages of a behaviour

ASSUME NoneAssumption == None \notin Ids

ASSUME MaxTurnsAssumption == MaxTurns \in Nat

VARIABLES
    payload,    \* payload[s]: the records of session s, <<>> when there is none
    pc,         \* where each thread stands
    session,    \* the session of the message each thread serves
    seen,       \* `existing`: the records each thread has read
    turn,       \* the turn each thread serves
    turns,      \* history: how many turns have begun
    basis,      \* history: the turns the language model saw, for each turn
    erased,     \* history: the turns whose records were erased
    carriers    \* history: the turns under way when their session was erased

threadVars == <<pc, session, seen, turn>>
historyVars == <<turns, basis, erased, carriers>>
vars == <<payload, threadVars, historyVars>>

-----------------------------------------------------------------------------

Turns == 1 .. MaxTurns

\* bridge::msg_record
MsgRecord == [turn : Turns, role : {"user", "assistant"}, step : Nat]

PC == {"idle", "asking"}

TurnsIn(records) == {records[j].turn : j \in DOMAIN records}

\* The turns that are asked on a session of S at the moment.
UnderWay(S) == {turn[t] : t \in {u \in Threads : pc[u] = "asking" /\ session[u] \in S}}

\* Mutant of Leave: the thread is not done with its message.
LeaveUndone(t) ==
    /\ session' = [session EXCEPT ![t] = None]
    /\ seen' = [seen EXCEPT ![t] = <<>>]
    /\ turn' = [turn EXCEPT ![t] = 0]
    /\ UNCHANGED pc

Leave(t) ==
    /\ pc' = [pc EXCEPT ![t] = "idle"]
    /\ session' = [session EXCEPT ![t] = None]
    /\ seen' = [seen EXCEPT ![t] = <<>>]
    /\ turn' = [turn EXCEPT ![t] = 0]

Init ==
    /\ payload = [s \in Ids |-> <<>>]
    /\ pc = [t \in Threads |-> "idle"]
    /\ session = [t \in Threads |-> None]
    /\ seen = [t \in Threads |-> <<>>]
    /\ turn = [t \in Threads |-> 0]
    /\ turns = 0
    /\ basis = [n \in Turns |-> {}]
    /\ erased = {}
    /\ carriers = {}

\* What load_payload(..).ok() can give: an error is no history.
Loaded(s) == {payload[s], <<>>}

\* Mutant of Load: the history comes from a cache that no erasure clears.
LoadRemembered(t, s) ==
    /\ seen' = [seen EXCEPT ![t] = payload[s]]
    /\ basis' = [basis EXCEPT ![turns + 1] =
                    TurnsIn(payload[s]) \cup (IF turns = 0 THEN {} ELSE basis[turns])]

Load(t, s) ==
    \E records \in Loaded(s) :
        /\ seen' = [seen EXCEPT ![t] = records]
        /\ basis' = [basis EXCEPT ![turns + 1] = TurnsIn(records)]

\* A message arrives: the history is read, and the language model asked.
Begin(t, s) ==
    /\ pc[t] = "idle"
    /\ turns < MaxTurns
    /\ Load(t, s)
    /\ pc' = [pc EXCEPT ![t] = "asking"]
    /\ session' = [session EXCEPT ![t] = s]
    /\ turn' = [turn EXCEPT ![t] = turns + 1]
    /\ turns' = turns + 1
    /\ UNCHANGED <<payload, erased, carriers>>

\* The language model fails (500).
Fail(t) ==
    /\ pc[t] = "asking"
    /\ Leave(t)
    /\ UNCHANGED <<payload, historyVars>>

\* Mutant of Exchange: numbered from the history_length of the response.
ExchangeFromLength(t) ==
    LET step == Len(seen[t]) + 2 IN
    <<[turn |-> turn[t], role |-> "user", step |-> step],
      [turn |-> turn[t], role |-> "assistant", step |-> step + 1]>>

\* The question has the number after the history's, the answer the next.
Exchange(t) ==
    LET step == Len(seen[t]) + 1 IN
    <<[turn |-> turn[t], role |-> "user", step |-> step],
      [turn |-> turn[t], role |-> "assistant", step |-> step + 1]>>

\* Mutants of Appended: the history that was read is written back with the
\* exchange; the answer is stored without its question; the append is tried
\* again when its first try did not fail.
AppendedToSeen(t) == seen[t] \o Exchange(t)

AppendedAnswer(t) == payload[session[t]] \o Tail(Exchange(t))

AppendedTwice(t) == payload[session[t]] \o Exchange(t) \o Exchange(t)

\* agent_store::append_records
Appended(t) == payload[session[t]] \o Exchange(t)

\* Its error is dropped: the message is answered 200 all the same.
Answer(t) ==
    /\ pc[t] = "asking"
    /\ \/ payload' = [payload EXCEPT ![session[t]] = Appended(t)]
       \/ UNCHANGED payload
    /\ Leave(t)
    /\ UNCHANGED historyVars

\* handle_gdpr_delete: the sessions of a tenant, of a prefix, or some keys.
\* An error in the middle leaves the rest of them as they are.
Erase(S) ==
    /\ payload' = [s \in Ids |-> IF s \in S THEN <<>> ELSE payload[s]]
    /\ erased' = erased \cup UNION {TurnsIn(payload[s]) : s \in S}
    /\ carriers' = carriers \cup UnderWay(S)
    /\ UNCHANGED <<threadVars, turns, basis>>

Restart ==
    /\ pc' = [t \in Threads |-> "idle"]
    /\ session' = [t \in Threads |-> None]
    /\ seen' = [t \in Threads |-> <<>>]
    /\ turn' = [t \in Threads |-> 0]
    /\ UNCHANGED <<payload, historyVars>>

Next ==
    \/ \E t \in Threads : Fail(t) \/ Answer(t) \/ \E s \in Ids : Begin(t, s)
    \/ \E S \in (SUBSET Ids) \ {{}} : Erase(S)
    \/ Restart

Spec == Init /\ [][Next]_vars

-----------------------------------------------------------------------------
(* Properties.                                                             *)

\* The threads serve turns of their own.
TypeOK ==
    /\ payload \in [Ids -> Seq(MsgRecord)]
    /\ pc \in [Threads -> PC]
    /\ session \in [Threads -> Ids \cup {None}]
    /\ seen \in [Threads -> Seq(MsgRecord)]
    /\ turn \in [Threads -> {0} \cup Turns]
    /\ turns \in {0} \cup Turns
    /\ basis \in [Turns -> SUBSET Turns]
    /\ erased \in SUBSET Turns
    /\ carriers \in SUBSET Turns
    /\ \A t \in Threads : pc[t] = "asking" =>
          session[t] \in Ids /\ turn[t] \in 1 .. turns
    /\ \A t, u \in Threads :
          t # u /\ pc[t] = "asking" /\ pc[u] = "asking" => turn[t] # turn[u]

\* However messages overlap, a history consists of whole exchanges: each
\* question is followed by its own answer, each answer follows its question.
WholeExchanges ==
    \A s \in Ids : \A j \in DOMAIN payload[s] :
        IF j % 2 = 1
        THEN /\ payload[s][j].role = "user"
             /\ j + 1 \in DOMAIN payload[s]
             /\ payload[s][j + 1].turn = payload[s][j].turn
        ELSE payload[s][j].role = "assistant"

\* A message only adds to the history, and to the end of it: no message
\* undoes what another one has added since the history was read.
HistoryGrows ==
    [][\A s \in Ids : payload'[s] # <<>> =>
          /\ Len(payload[s]) <= Len(payload'[s])
          /\ \A j \in DOMAIN payload[s] : payload'[s][j] = payload[s][j]]_vars

\* The exchanges of a history, each by the turn of its question.
ExchangesOf(records) == [k \in 1 .. Len(records) \div 2 |-> records[2 * k - 1].turn]

Promise == INSTANCE Conversation WITH
    history <- [s \in Ids |-> ExchangesOf(payload[s])],
    asked <- [s \in Ids |-> UnderWay({s})],
    used <- 1 .. turns

\* Whoever talks to a session sees a sequence of exchanges: each answered
\* from one snapshot, added whole, once and at the end, whatever the messages
\* to it, erasures and restarts that come in between.
ImplementsConversation == Promise!Spec

\* No record of a turn comes back once it was erased, though threads may
\* still hold copies of it.
ErasedStaysErased ==
    \A s \in Ids : TurnsIn(payload[s]) \cap erased = {}

\* An answer that was made from erased records is stored only if its message
\* was under way when they were erased.
OnlyCarriersKnow ==
    \A s \in Ids : \A n \in TurnsIn(payload[s]) :
        basis[n] \cap erased # {} => n \in carriers

\* A record's number is at most its place in the history, and is below it
\* when another message was faster; only a message that was under way when
\* the history was erased may be numbered beyond.
StepAtMostPlace ==
    \A s \in Ids : \A j \in DOMAIN payload[s] :
        payload[s][j].turn \notin carriers => payload[s][j].step <= j
=============================================================================
