---------------------------- MODULE RecordsProofs ----------------------------
(***************************************************************************)
(* What holds of Records for every set of threads, tenants and run ids and *)
(* any number of requests.                                                 *)
(*                                                                         *)
(* The inductive invariant adds to the types that no turn is numbered      *)
(* above the counter; to the order of the log, that one thread at a time   *)
(* writes the entry of an engine change, with a turn above all entries; to *)
(* the agreement of registry, database and log, what the one change of a   *)
(* clean tenant still has to do; and to the charges, that a turn which is  *)
(* being answered is charged already.                                      *)
(***************************************************************************)
EXTENDS Records, TLAPS

-----------------------------------------------------------------------------
(* Types.                                                                  *)

Whats == Work \cup TenantChange \cup EngineChange \cup {"failed_put", "report", "none"}
Jobs == [turn : 0 .. MaxTurns, id : Ids \cup {None}, what : Whats]

LEMMA InitTypeOK == Init => TypeOK
<1> SUFFICES ASSUME Init PROVE TypeOK
  OBVIOUS
<1>1. turns \in 0 .. MaxTurns /\ NoJob \in Jobs
  BY TurnsAssumption DEF Init, NoJob, Jobs, Whats
<1>2. runs \in [Ids -> [RunIds -> Turns \cup {None}]]
  BY DEF Init, Nothing
<1> QED
  BY <1>1, <1>2 DEF Init, TypeOK, PC, Nobody, NoJob, JobOK, Jobs, Whats, Work, TenantChange,
                    EngineChange

\* A thread that begins a request, goes on with it, or is done with it.
LEMMA BeginType ==
  ASSUME TypeOK, NEW t \in Threads, NEW p \in PC, NEW what \in Whats,
         NEW i \in Ids \cup {None}, Begin(t, p, what, i),
         p \in {"asking", "saving", "logging", "counting"},
         p = "asking" => what \in Work /\ i \in Ids,
         p = "saving" => what \in TenantChange /\ i \in Ids,
         p = "logging" => what \in EngineChange \cup {"failed_put"},
         p = "counting" => what = "report"
  PROVE  /\ turns' \in 0 .. MaxTurns /\ pc' \in [Threads -> PC] /\ job' \in [Threads -> Jobs]
         /\ turns + 1 \in Turns
         /\ \A u \in Threads : JobOK(u)'
<1>1. turns + 1 \in 1 .. MaxTurns /\ turns' = turns + 1
  BY TurnsAssumption DEF TypeOK, Begin
<1>2. [turn |-> turns + 1, what |-> what, id |-> i] \in Jobs
  BY <1>1 DEF Jobs
<1>3. pc' \in [Threads -> PC] /\ job' \in [Threads -> Jobs]
  BY <1>2 DEF Begin, TypeOK, Jobs, Whats
<1>4. ASSUME NEW u \in Threads PROVE JobOK(u)'
  <2>1. CASE u = t
    <3>1. pc'[t] = p /\ job'[t] = [turn |-> turns + 1, what |-> what, id |-> i]
      BY DEF Begin, TypeOK
    <3>2. i \in Ids \/ what \notin Work \cup TenantChange
      BY DEF Work, TenantChange, EngineChange
    <3> QED
      BY <1>1, <2>1, <3>1, <3>2 DEF JobOK
  <2>2. CASE u # t
    <3>1. pc'[u] = pc[u] /\ job'[u] = job[u] /\ JobOK(u)
      BY <2>2 DEF Begin, TypeOK
    <3>2. job[u].turn \in 1 .. turns => job[u].turn \in 1 .. turns'
      BY <1>1 DEF TypeOK
    <3> QED
      BY <3>1, <3>2 DEF JobOK
  <2> QED
    BY <2>1, <2>2
<1> QED
  BY <1>1, <1>3, <1>4 DEF Turns

LEMMA DoneType ==
  ASSUME TypeOK, NEW t \in Threads, Done(t)
  PROVE  /\ turns' \in 0 .. MaxTurns /\ pc' \in [Threads -> PC] /\ job' \in [Threads -> Jobs]
         /\ \A u \in Threads : JobOK(u)'
<1>1. NoJob \in Jobs
  BY TurnsAssumption DEF NoJob, Jobs, Whats
<1>2. turns' \in 0 .. MaxTurns /\ pc' \in [Threads -> PC] /\ job' \in [Threads -> Jobs]
  BY <1>1 DEF TypeOK, Done, Jobs, Whats, PC
<1>3. ASSUME NEW u \in Threads PROVE JobOK(u)'
  <2>1. CASE u = t
    <3>1. pc'[t] = "idle" /\ job'[t] = NoJob
      BY DEF Done, TypeOK
    <3> QED
      BY <2>1, <3>1 DEF JobOK, NoJob, Work, TenantChange
  <2>2. CASE u # t
    BY <2>2 DEF Done, TypeOK, JobOK
  <2> QED
    BY <2>1, <2>2
<1> QED
  BY <1>2, <1>3

LEMMA GotoType ==
  ASSUME TypeOK, NEW t \in Threads, NEW p \in PC, Goto(t, p),
         p \in {"emitting", "persisting", "charging", "answering", "noting",
                "counting", "hashing", "reported"},
         p \in {"charging", "answering"} => job[t].what \in Work,
         p = "emitting" => job[t].what \in {"run_stream", "chat_stream"},
         p = "persisting" => job[t].what \in {"run", "run_stream"},
         p = "noting" => job[t].what \in TenantChange,
         p \in {"counting", "hashing", "reported"} => job[t].what = "report",
         pc[t] # "idle"
  PROVE  /\ turns' \in 0 .. MaxTurns /\ pc' \in [Threads -> PC] /\ job' \in [Threads -> Jobs]
         /\ \A u \in Threads : JobOK(u)'
<1>1. turns' = turns /\ job' = job /\ pc' \in [Threads -> PC]
  BY DEF Goto, TypeOK
<1>2. ASSUME NEW u \in Threads PROVE JobOK(u)'
  <2>1. CASE u = t
    <3>1. pc'[t] = p
      BY DEF Goto, TypeOK
    <3>2. JobOK(t)
      BY DEF TypeOK
    <3> QED
      BY <1>1, <2>1, <3>1, <3>2 DEF JobOK
  <2>2. CASE u # t
    BY <1>1, <2>2 DEF Goto, TypeOK, JobOK
  <2> QED
    BY <2>1, <2>2
<1> QED
  BY <1>1, <1>2 DEF TypeOK, Jobs, Whats

\* What is not of the threads.
DataOK ==
  /\ runs \in [Ids -> [RunIds -> Turns \cup {None}]]
  /\ usage \in [Ids -> SUBSET Turns]
  /\ registered \in [Ids -> BOOLEAN] /\ saved \in [Ids -> BOOLEAN]
  /\ log \in Seq(Entry)
  /\ report \in [Threads -> Seq(Nat)]
  /\ made \in SUBSET Turns /\ lost \in SUBSET Turns
  /\ clean \in [Ids -> BOOLEAN]
  /\ answered \in SUBSET Turns /\ wiped \in SUBSET Turns
  /\ before \in [Ids -> SUBSET Turns]

ThreadsOK ==
  /\ turns \in 0 .. MaxTurns /\ pc \in [Threads -> PC] /\ job \in [Threads -> Jobs]
  /\ \A t \in Threads : JobOK(t)

LEMMA Parts == TypeOK <=> DataOK /\ ThreadsOK
  BY DEF TypeOK, DataOK, ThreadsOK, Jobs, Whats

LEMMA JobFacts ==
  ASSUME TypeOK, NEW t \in Threads, pc[t] \notin {"idle", "counting", "hashing", "reported"}
  PROVE  /\ job[t].turn \in Turns /\ job[t].turn \in 1 .. turns
         /\ pc[t] \in {"asking", "emitting", "persisting", "charging", "answering", "saving",
                       "noting"} => job[t].id \in Ids
<1>1. JobOK(t) /\ turns \in 0 .. MaxTurns
  BY DEF TypeOK
<1>2. job[t].turn \in 1 .. turns
  BY <1>1 DEF JobOK
<1>3. job[t].turn \in Turns
  BY <1>1, <1>2, TurnsAssumption DEF Turns
<1> QED
  BY <1>1, <1>2, <1>3 DEF JobOK, Work

LEMMA EntryType ==
  ASSUME TypeOK, NEW t \in Threads, pc[t] \in {"noting", "logging"}
  PROVE  job[t] \in Entry
<1>1. job[t].turn \in Turns /\ JobOK(t) /\ job[t] \in Jobs
  BY JobFacts DEF TypeOK, Jobs, Whats
<1>2. job[t].what \in TenantChange \cup EngineChange \cup {"failed_put", "auth"}
  BY <1>1 DEF JobOK
<1> QED
  BY <1>1, <1>2 DEF Entry, Jobs

LEMMA RestartTypeOK == TypeOK /\ Restart => TypeOK'
<1> SUFFICES ASSUME TypeOK, Restart PROVE TypeOK'
  OBVIOUS
<1>1. 1 .. turns \subseteq Turns /\ turns' = turns
  BY TurnsAssumption DEF TypeOK, Turns, Restart
<1>2. NoJob \in Jobs
  BY TurnsAssumption DEF NoJob, Jobs, Whats
<1>3. ThreadsOK'
  BY <1>2 DEF Restart, TypeOK, ThreadsOK, JobOK, PC, NoJob, Work, TenantChange
<1>4. {job[t].turn : t \in {u \in Threads : pc[u] = "logging" /\ job[u].what \in EngineChange}}
        \subseteq Turns
  BY JobFacts
<1>5. report' \in [Threads -> Seq(Nat)]
  BY DEF Restart
<1>6. DataOK'
  BY <1>1, <1>4, <1>5 DEF Restart, TypeOK, DataOK
<1> QED
  BY <1>3, <1>6 DEF TypeOK, DataOK, ThreadsOK, Jobs, Whats

LEMMA AppendType ==
  ASSUME NEW S, NEW s \in Seq(S), NEW e \in S
  PROVE  Append(s, e) \in Seq(S)
  OBVIOUS

\* One disjunct of Step after the other: the threads, then the data.
LEMMA WorkTypeOK ==
  ASSUME TypeOK, NEW t \in Threads,
         \/ \E i \in Ids, what \in Work : Ask(t, what, i)
         \/ Reply(t) \/ Emit(t) \/ GiveUp(t) \/ Persist(t) \/ Charge(t) \/ Answer(t)
  PROVE  TypeOK'
<1> SUFFICES ThreadsOK' /\ DataOK'
  BY DEF TypeOK, DataOK, ThreadsOK, Jobs, Whats
<1> USE DEF dataVars, auditVars, historyVars
<1>0. JobOK(t) /\ DataOK
  BY Parts DEF TypeOK
<1>1. CASE \E i \in Ids, what \in Work : Ask(t, what, i)
  <2>1. PICK i \in Ids, what \in Work : Ask(t, what, i)
    BY <1>1
  <2>2. ThreadsOK'
    <3>1. "asking" \in PC /\ what \in Whats /\ Begin(t, "asking", what, i)
      BY <2>1 DEF Ask, PC, Whats
    <3> QED
      BY <3>1, BeginType DEF ThreadsOK
  <2> QED
    BY <1>0, <2>1, <2>2 DEF Ask, DataOK
<1>2. CASE Reply(t)
  <2>1. CASE job[t].what \in {"run_stream", "chat_stream"}
    <3>1. Goto(t, "emitting") /\ "emitting" \in PC
      BY <1>2, <2>1 DEF Reply, PC
    <3> QED
      BY <1>0, <1>2, <2>1, <3>1, GotoType DEF Reply, ThreadsOK, DataOK
  <2>2. CASE job[t].what = "run"
    <3>1. Goto(t, "persisting") /\ "persisting" \in PC
      BY <1>2, <2>2 DEF Reply, PC
    <3> QED
      BY <1>0, <1>2, <2>2, <3>1, GotoType DEF Reply, ThreadsOK, DataOK
  <2>3. CASE job[t].what = "chat"
    <3>1. Goto(t, "charging") /\ "charging" \in PC /\ job[t].what \in Work
      BY <1>2, <2>3 DEF Reply, PC, Work
    <3> QED
      BY <1>0, <1>2, <3>1, GotoType DEF Reply, ThreadsOK, DataOK
  <2> QED
    BY <1>0, <1>2, <2>1, <2>2, <2>3 DEF Reply, JobOK, Work
<1>3. CASE Emit(t)
  <2>1. job[t].what \in {"run_stream", "chat_stream"} /\ job[t].what \in Work
    BY <1>0, <1>3 DEF Emit, JobOK, Work
  <2>2. CASE job[t].what = "run_stream"
    <3>1. Goto(t, "persisting") /\ "persisting" \in PC
      BY <1>3, <2>2 DEF Emit, PC
    <3> QED
      BY <1>0, <1>3, <2>2, <3>1, GotoType DEF Emit, ThreadsOK, DataOK
  <2>3. CASE job[t].what # "run_stream"
    <3>1. Goto(t, "charging") /\ "charging" \in PC
      BY <1>3, <2>3 DEF Emit, PC
    <3> QED
      BY <1>0, <1>3, <2>1, <3>1, GotoType DEF Emit, ThreadsOK, DataOK
  <2> QED
    BY <2>2, <2>3
<1>4. CASE GiveUp(t)
  BY <1>0, <1>4, DoneType DEF GiveUp, ThreadsOK, DataOK
<1>5. CASE Persist(t)
  <2>1. Goto(t, "charging") /\ "charging" \in PC /\ job[t].what \in Work
    BY <1>0, <1>5 DEF Persist, PC, JobOK, Work
  <2>2. ThreadsOK'
    BY <1>5, <2>1, GotoType DEF Persist, ThreadsOK
  <2>3. job[t].turn \in Turns
    BY <1>5, JobFacts DEF Persist
  <2>4. runs' \in [Ids -> [RunIds -> Turns \cup {None}]]
    <3>1. CASE UNCHANGED runs
      BY <1>0, <3>1 DEF DataOK
    <3>2. ASSUME NEW r \in RunIds, runs' = [runs EXCEPT ![job[t].id][r] = job[t].turn]
          PROVE  runs' \in [Ids -> [RunIds -> Turns \cup {None}]]
      BY <1>0, <2>3, <3>2 DEF DataOK
    <3> QED
      BY <1>5, <3>1, <3>2 DEF Persist
  <2> QED
    BY <1>0, <1>5, <2>2, <2>4 DEF Persist, DataOK
<1>6. CASE Charge(t)
  <2>1. Goto(t, "answering") /\ "answering" \in PC /\ job[t].what \in Work
    BY <1>0, <1>6 DEF Charge, PC, JobOK
  <2>2. ThreadsOK'
    BY <1>6, <2>1, GotoType DEF Charge, ThreadsOK
  <2>3. job[t].turn \in Turns
    BY <1>6, JobFacts DEF Charge
  <2>4. usage' \in [Ids -> SUBSET Turns]
    BY <1>0, <1>6, <2>3 DEF Charge, DataOK
  <2> QED
    BY <1>0, <1>6, <2>2, <2>4 DEF Charge, DataOK
<1>7. CASE Answer(t)
  <2>1. job[t].turn \in Turns
    BY <1>7, JobFacts DEF Answer
  <2> QED
    BY <1>0, <1>7, <2>1, DoneType DEF Answer, ThreadsOK, DataOK
<1> QED
  BY <1>1, <1>2, <1>3, <1>4, <1>5, <1>6, <1>7

LEMMA ChangeTypeOK ==
  ASSUME TypeOK, NEW t \in Threads,
         (\E i \in Ids : Create(t, i) \/ Delete(t, i)) \/ Save(t) \/ Note(t)
  PROVE  TypeOK'
<1> SUFFICES ThreadsOK' /\ DataOK'
  BY DEF TypeOK, DataOK, ThreadsOK, Jobs, Whats
<1> USE DEF dataVars, auditVars, historyVars
<1>0. JobOK(t) /\ DataOK /\ turns \in 0 .. MaxTurns /\ job \in [Threads -> Jobs]
  BY Parts DEF TypeOK, ThreadsOK
<1>t. (1 .. turns) \ Running \in SUBSET Turns
  BY <1>0, TurnsAssumption DEF Turns
<1>1. ASSUME NEW i \in Ids, Create(t, i) PROVE ThreadsOK' /\ DataOK'
  <2>1. Begin(t, "saving", "create", i) /\ "saving" \in PC /\ "create" \in Whats
    BY <1>1 DEF Create, PC, Whats, TenantChange
  <2>2. ThreadsOK'
    BY <2>1, BeginType DEF ThreadsOK, TenantChange
  <2>3. before' \in [Ids -> SUBSET Turns] /\ wiped' \in SUBSET Turns
    BY <1>0, <1>1, <1>t DEF Create, Register, DataOK
  <2>4. clean' \in [Ids -> BOOLEAN] /\ usage' \in [Ids -> SUBSET Turns]
    BY <1>0, <1>1 DEF Create, Register, NoteOverlap, DataOK
  <2>5. registered' \in [Ids -> BOOLEAN]
    BY <1>0, <1>1 DEF Create, Register, DataOK
  <2> QED
    <3>1. UNCHANGED <<runs, saved, log, report, made, lost, answered>>
      BY <1>1 DEF Create
    <3> QED
      BY <1>0, <2>2, <2>3, <2>4, <2>5, <3>1 DEF DataOK
<1>2. ASSUME NEW i \in Ids, Delete(t, i) PROVE ThreadsOK' /\ DataOK'
  <2>1. Begin(t, "saving", "delete", i) /\ "saving" \in PC /\ "delete" \in Whats
    BY <1>2 DEF Delete, PC, Whats, TenantChange
  <2>2. ThreadsOK'
    BY <2>1, BeginType DEF ThreadsOK, TenantChange
  <2> QED
    BY <1>0, <1>2, <2>2 DEF Delete, NoteOverlap, DataOK
<1>3. CASE Save(t)
  <2>1. CASE Goto(t, "noting")
    <3>1. ThreadsOK'
      <4>1. "noting" \in PC /\ job[t].what \in TenantChange
        BY <1>0, <1>3 DEF Save, PC, JobOK
      <4> QED
        BY <1>3, <2>1, <4>1, GotoType DEF Save, ThreadsOK
    <3> QED
      BY <1>0, <1>3, <3>1 DEF Save, DataOK
  <2>2. CASE Done(t)
    BY <1>0, <1>3, <2>2, DoneType DEF Save, ThreadsOK, DataOK
  <2> QED
    BY <1>3, <2>1, <2>2 DEF Save
<1>4. CASE Note(t)
  <2>1. job[t] \in Entry
    BY <1>4, EntryType DEF Note
  <2>2. log' \in Seq(Entry)
    <3>1. log \in Seq(Entry)
      BY <1>0 DEF DataOK
    <3>2. log' = log \/ log' = Append(log, job[t])
      BY <1>4 DEF Note
    <3>3. Append(log, job[t]) \in Seq(Entry)
      BY <2>1, <3>1, AppendType
    <3> QED
      BY <3>1, <3>2, <3>3
  <2>3. clean' \in [Ids -> BOOLEAN]
    BY <1>0, <1>4 DEF Note, DataOK
  <2> QED
    BY <1>0, <1>4, <2>2, <2>3, DoneType DEF Note, ThreadsOK, DataOK
<1> QED
  BY <1>1, <1>2, <1>3, <1>4

\* What others do to results and definitions under keys of their own choice.
LEMMA KeysTouched ==
  ASSUME TypeOK, WriteUnderKey \/ EraseUnderKeys
  PROVE  /\ runs' \in [Ids -> [RunIds -> Turns \cup {None}]]
         /\ saved' \in [Ids -> BOOLEAN] /\ clean' \in [Ids -> BOOLEAN]
         /\ \A i \in Ids, r \in RunIds : runs'[i][r] \in {runs[i][r], None}
         /\ \A i \in Ids : clean'[i] => clean[i] /\ saved'[i] = saved[i]
<1>1. UNCHANGED runs \/ \E gone : LoseResults(gone)
  BY DEF WriteUnderKey, EraseUnderKeys
<1>2. /\ runs' \in [Ids -> [RunIds -> Turns \cup {None}]]
      /\ \A i \in Ids, r \in RunIds : runs'[i][r] \in {runs[i][r], None}
  <2>1. CASE UNCHANGED runs
    BY <2>1 DEF TypeOK
  <2>2. ASSUME NEW gone, LoseResults(gone)
        PROVE  /\ runs' \in [Ids -> [RunIds -> Turns \cup {None}]]
               /\ \A i \in Ids, r \in RunIds : runs'[i][r] \in {runs[i][r], None}
    BY <2>2 DEF LoseResults, TypeOK
  <2> QED
    BY <1>1, <2>1, <2>2
<1>3. /\ saved' \in [Ids -> BOOLEAN] /\ clean' \in [Ids -> BOOLEAN]
      /\ \A i \in Ids : clean'[i] => clean[i] /\ saved'[i] = saved[i]
  <2>1. CASE UNCHANGED <<saved, clean>>
    BY <2>1 DEF TypeOK
  <2>2. ASSUME NEW j \in Ids, saved' = [saved EXCEPT ![j] = ~@],
               clean' = [clean EXCEPT ![j] = FALSE]
        PROVE  /\ saved' \in [Ids -> BOOLEAN] /\ clean' \in [Ids -> BOOLEAN]
               /\ \A i \in Ids : clean'[i] => clean[i] /\ saved'[i] = saved[i]
    BY <2>2 DEF TypeOK
  <2>3. ASSUME NEW dropped, saved' = [i \in Ids |-> saved[i] /\ i \notin dropped],
               clean' = [i \in Ids |-> clean[i] /\ i \notin dropped]
        PROVE  /\ saved' \in [Ids -> BOOLEAN] /\ clean' \in [Ids -> BOOLEAN]
               /\ \A i \in Ids : clean'[i] => clean[i] /\ saved'[i] = saved[i]
    BY <2>3 DEF TypeOK
  <2> QED
    BY <2>1, <2>2, <2>3 DEF WriteUnderKey, EraseUnderKeys
<1> QED
  BY <1>2, <1>3

\* A request that is over in one step.
LEMMA PassType ==
  ASSUME TypeOK, NEW t \in Threads, Pass(t)
  PROVE  ThreadsOK' /\ turns + 1 \in Turns /\ turns + 1 \in 1 .. turns'
<1>1. turns + 1 \in Turns /\ turns' = turns + 1 /\ turns' \in 0 .. MaxTurns /\ turns \in Nat
  BY TurnsAssumption DEF Pass, TypeOK, Turns
<1>2. ASSUME NEW u \in Threads PROVE JobOK(u)'
  <2>1. JobOK(u) /\ pc' = pc /\ job' = job
    BY DEF Pass, TypeOK
  <2>2. job[u].turn \in 1 .. turns => job[u].turn \in 1 .. turns'
    BY <1>1
  <2> QED
    BY <2>1, <2>2 DEF JobOK
<1> QED
  BY <1>1, <1>2, Parts DEF Pass, ThreadsOK

LEMMA AuditTypeOK ==
  ASSUME TypeOK, NEW t \in Threads,
         \/ \E i \in Ids : Erase(t, i)
         \/ Put(t) \/ FileWrite(t) \/ Log(t) \/ RefuseKey(t)
         \/ ReadLog(t) \/ CountEntries(t) \/ HashOf(t) \/ SendReport(t)
  PROVE  TypeOK'
<1> SUFFICES ThreadsOK' /\ DataOK'
  BY DEF TypeOK, DataOK, ThreadsOK, Jobs, Whats
<1> USE DEF dataVars, auditVars, historyVars
<1>0. JobOK(t) /\ DataOK /\ ThreadsOK
  BY Parts DEF TypeOK
<1>1. CASE \E i \in Ids : Erase(t, i)
  <2>1. PICK i \in Ids : Erase(t, i)
    BY <1>1
  <2>2. /\ runs' \in [Ids -> [RunIds -> Turns \cup {None}]]
        /\ saved' \in [Ids -> BOOLEAN] /\ clean' \in [Ids -> BOOLEAN]
    BY <2>1, KeysTouched DEF Erase
  <2>3. CASE Begin(t, "logging", "erase", i) /\ made' = made \cup {turns + 1}
    <3>1. "logging" \in PC /\ "erase" \in Whats
      BY DEF PC, Whats, EngineChange
    <3>2. ThreadsOK' /\ turns + 1 \in Turns
      BY <2>3, <3>1, BeginType DEF ThreadsOK, EngineChange
    <3>3. made' \in SUBSET Turns
      BY <1>0, <2>3, <3>2 DEF DataOK
    <3> QED
      BY <1>0, <2>1, <2>2, <3>2, <3>3 DEF Erase, DataOK
  <2>4. CASE Pass(t) /\ UNCHANGED made
    <3>1. ThreadsOK'
      BY <2>4, PassType
    <3> QED
      BY <1>0, <2>1, <2>2, <2>4, <3>1 DEF Erase, DataOK
  <2> QED
    BY <2>1, <2>3, <2>4 DEF Erase
<1>2. CASE Put(t)
  <2>1. PICK what \in {"put", "failed_put"} : Begin(t, "logging", what, None)
    BY <1>2 DEF Put
  <2>2. "logging" \in PC /\ what \in Whats /\ what \in EngineChange \cup {"failed_put"}
    BY DEF PC, Whats, EngineChange
  <2>3. ThreadsOK' /\ turns + 1 \in Turns
    BY <2>1, <2>2, BeginType DEF ThreadsOK
  <2>4. /\ runs' \in [Ids -> [RunIds -> Turns \cup {None}]]
        /\ saved' \in [Ids -> BOOLEAN] /\ clean' \in [Ids -> BOOLEAN]
    BY <1>2, KeysTouched DEF Put
  <2> QED
    BY <1>0, <1>2, <2>3, <2>4 DEF Put, DataOK
<1>9. CASE FileWrite(t)
  <2>1. /\ runs' \in [Ids -> [RunIds -> Turns \cup {None}]]
        /\ saved' \in [Ids -> BOOLEAN] /\ clean' \in [Ids -> BOOLEAN]
    BY <1>9, KeysTouched DEF FileWrite
  <2>2. ThreadsOK'
    BY <1>9, PassType DEF FileWrite
  <2> QED
    BY <1>0, <1>9, <2>1, <2>2 DEF FileWrite, DataOK
<1>3. CASE Log(t)
  <2>1. job[t] \in Entry /\ job[t].turn \in Turns
    BY <1>3, EntryType, JobFacts DEF Log
  <2>2. log' \in Seq(Entry)
    <3>1. log \in Seq(Entry)
      BY <1>0 DEF DataOK
    <3>2. log' = log \/ log' = Append(log, job[t])
      BY <1>3 DEF Log
    <3>3. Append(log, job[t]) \in Seq(Entry)
      BY <2>1, <3>1, AppendType
    <3> QED
      BY <3>1, <3>2, <3>3
  <2>3. lost' \in SUBSET Turns
    BY <1>0, <1>3, <2>1 DEF Log, DataOK
  <2> QED
    BY <1>0, <1>3, <2>2, <2>3, DoneType DEF Log, ThreadsOK, DataOK
<1>4. CASE RefuseKey(t)
  <2>1. turns + 1 \in Turns /\ ThreadsOK'
    BY <1>4, PassType DEF RefuseKey
  <2>2. [turn |-> turns + 1, what |-> "auth", id |-> None] \in Entry
    BY <2>1 DEF Entry
  <2>5. log' \in Seq(Entry)
    <3>1. Append(log, [turn |-> turns + 1, what |-> "auth", id |-> None]) \in Seq(Entry)
      BY <1>0, <2>2, AppendType DEF DataOK
    <3> QED
      BY <1>0, <1>4, <3>1 DEF RefuseKey, DataOK
  <2> QED
    BY <1>0, <1>4, <2>1, <2>5 DEF RefuseKey, DataOK
<1>5. CASE ReadLog(t)
  <2>1. Begin(t, "counting", "report", None) /\ "counting" \in PC /\ "report" \in Whats
    BY <1>5 DEF ReadLog, PC, Whats
  <2>2. ThreadsOK'
    BY <2>1, BeginType DEF ThreadsOK
  <2>3. <<Len(log)>> \in Seq(Nat)
    BY <1>0 DEF DataOK
  <2> QED
    BY <1>0, <1>5, <2>2, <2>3 DEF ReadLog, DataOK
<1>6. CASE CountEntries(t)
  <2>1. Goto(t, "hashing") /\ "hashing" \in PC
    BY <1>6 DEF CountEntries, PC
  <2>2. ThreadsOK'
    BY <1>0, <1>6, <2>1, GotoType DEF CountEntries, ThreadsOK, JobOK
  <2>3. Append(report[t], Len(log)) \in Seq(Nat)
    BY <1>0 DEF DataOK
  <2> QED
    BY <1>0, <1>6, <2>2, <2>3 DEF CountEntries, DataOK
<1>7. CASE HashOf(t)
  <2>1. Goto(t, "reported") /\ "reported" \in PC
    BY <1>7 DEF HashOf, PC
  <2>2. ThreadsOK'
    BY <1>0, <1>7, <2>1, GotoType DEF HashOf, ThreadsOK, JobOK
  <2>3. Append(report[t], Len(log)) \in Seq(Nat)
    BY <1>0 DEF DataOK
  <2> QED
    BY <1>0, <1>7, <2>2, <2>3 DEF HashOf, DataOK
<1>8. CASE SendReport(t)
  BY <1>0, <1>8, DoneType DEF SendReport, ThreadsOK, DataOK
<1> QED
  BY <1>1, <1>2, <1>3, <1>4, <1>5, <1>6, <1>7, <1>8, <1>9

LEMMA StutterTypeOK == TypeOK /\ UNCHANGED vars => TypeOK'
  BY DEF TypeOK, JobOK, vars, threadVars, dataVars, auditVars, historyVars

\* The types, and that each thread at work has the job that its place needs.
THEOREM TypeCorrect == Spec => []TypeOK
<1>1. TypeOK /\ [Next]_vars => TypeOK'
  BY RestartTypeOK, WorkTypeOK, ChangeTypeOK, AuditTypeOK, StutterTypeOK DEF Next, Step
<1> QED
  BY InitTypeOK, <1>1, PTL DEF Spec

-----------------------------------------------------------------------------
(* How a step of a thread changes threads and log.                         *)

LEMMA StepThreads ==
  ASSUME TypeOK, NEW t \in Threads, Step(t)
  PROVE  /\ turns \in Nat /\ turns' \in {turns, turns + 1}
         /\ \A u \in Threads \ {t} : pc'[u] = pc[u] /\ job'[u] = job[u]
         /\ \/ job'[t].turn \in {job[t].turn, 0}
            \/ job'[t].turn = turns + 1 /\ turns' = turns + 1
<1> USE DEF TypeOK
<1>0. turns \in Nat
  BY TurnsAssumption
<1>1. ASSUME NEW p, NEW what, NEW i, Begin(t, p, what, i)
      PROVE  /\ turns' = turns + 1 /\ job'[t].turn = turns + 1
             /\ \A u \in Threads \ {t} : pc'[u] = pc[u] /\ job'[u] = job[u]
  BY <1>1 DEF Begin
<1>2. ASSUME NEW p, Goto(t, p)
      PROVE  turns' = turns /\ job' = job /\ \A u \in Threads \ {t} : pc'[u] = pc[u]
  BY <1>2 DEF Goto
<1>3. ASSUME Done(t)
      PROVE  /\ turns' = turns /\ job'[t].turn = 0
             /\ \A u \in Threads \ {t} : pc'[u] = pc[u] /\ job'[u] = job[u]
  BY <1>3 DEF Done, NoJob
<1>4. \/ \E p, what, i : Begin(t, p, what, i)
      \/ \E p : Goto(t, p)
      \/ Done(t)
      \/ turns' \in {turns, turns + 1} /\ UNCHANGED <<pc, job>>
  <2> HIDE DEF TypeOK
  <2>1. CASE \E i \in Ids : (\E what \in Work : Ask(t, what, i)) \/ Create(t, i) \/ Delete(t, i)
    BY <2>1 DEF Ask, Create, Delete
  <2>5. CASE \E i \in Ids : Erase(t, i)
    BY <2>5 DEF Erase, Pass
  <2>2. CASE Reply(t) \/ Emit(t) \/ GiveUp(t) \/ Persist(t) \/ Charge(t) \/ Answer(t)
    BY <2>2 DEF Reply, Emit, GiveUp, Persist, Charge, Answer
  <2>3. CASE Save(t) \/ Note(t) \/ Put(t) \/ FileWrite(t) \/ Log(t) \/ RefuseKey(t)
    BY <2>3 DEF Save, Note, Put, FileWrite, Log, RefuseKey, Pass
  <2>4. CASE ReadLog(t) \/ CountEntries(t) \/ HashOf(t) \/ SendReport(t)
    BY <2>4 DEF ReadLog, CountEntries, HashOf, SendReport
  <2> QED
    BY <2>1, <2>2, <2>3, <2>4, <2>5 DEF Step
<1>5. ASSUME UNCHANGED <<pc, job>>
      PROVE  job'[t].turn = job[t].turn /\ \A u \in Threads \ {t} : pc'[u] = pc[u] /\ job'[u] = job[u]
  BY <1>5
<1> HIDE DEF TypeOK
<1> QED
  BY <1>0, <1>1, <1>2, <1>3, <1>4, <1>5

\* A step leaves the log alone or appends what a thread was to write.
LEMMA StepLog ==
  ASSUME NEW t \in Threads, Step(t)
  PROVE  \/ log' = log
         \/ /\ Note(t) \/ Log(t)
            /\ log' = Append(log, job[t])
         \/ /\ RefuseKey(t)
            /\ log' = Append(log, [turn |-> turns + 1, what |-> "auth", id |-> None])
<1> USE DEF auditVars, historyVars, dataVars
<1>1. CASE \E i \in Ids : (\E what \in Work : Ask(t, what, i)) \/ Create(t, i) \/ Delete(t, i)
                            \/ Erase(t, i)
  BY <1>1 DEF Ask, Create, Delete, Erase
<1>2. CASE Reply(t) \/ Emit(t) \/ GiveUp(t) \/ Persist(t) \/ Charge(t) \/ Answer(t)
  BY <1>2 DEF Reply, Emit, GiveUp, Persist, Charge, Answer
<1>3. CASE Save(t) \/ Note(t) \/ Put(t) \/ FileWrite(t) \/ Log(t) \/ RefuseKey(t)
  BY <1>3 DEF Save, Note, Put, FileWrite, Log, RefuseKey
<1>4. CASE ReadLog(t) \/ CountEntries(t) \/ HashOf(t) \/ SendReport(t)
  BY <1>4 DEF ReadLog, CountEntries, HashOf, SendReport
<1> QED
  BY <1>1, <1>2, <1>3, <1>4 DEF Step

LEMMA LogTyped ==
  ASSUME TypeOK, NEW t \in Threads, Step(t)
  PROVE  log' = log \/ \E e \in Entry : log' = Append(log, e)
<1>1. ASSUME Note(t) \/ Log(t) PROVE job[t] \in Entry
  BY <1>1, EntryType DEF Note, Log
<1>2. ASSUME RefuseKey(t) PROVE [turn |-> turns + 1, what |-> "auth", id |-> None] \in Entry
  <2>1. turns + 1 \in Turns
    BY <1>2, TurnsAssumption DEF RefuseKey, Pass, TypeOK, Turns
  <2> QED
    BY <2>1 DEF Entry
<1> QED
  BY <1>1, <1>2, StepLog

-----------------------------------------------------------------------------
(* The report of the audit log.                                            *)

LEMMA ReportStep ==
  ASSUME TypeOK, ReportNeverAhead, NEW t \in Threads, Step(t)
  PROVE  ReportNeverAhead'
<1>1. log \in Seq(Entry) /\ Len(log) \in Nat /\ Len(log') \in Nat /\ Len(log) <= Len(log')
  <2>1. log \in Seq(Entry)
    BY DEF TypeOK
  <2>2. CASE log' = log
    BY <2>1, <2>2
  <2>3. CASE \E e \in Entry : log' = Append(log, e)
    BY <2>1, <2>3
  <2> QED
    BY <2>2, <2>3, LogTyped
<1>2. /\ \A u \in Threads \ {t} : report'[u] = report[u]
      /\ \/ report'[t] = report[t]
         \/ report'[t] \in {<<>>, <<Len(log)>>, Append(report[t], Len(log))}
  <2>1. CASE ReadLog(t) \/ CountEntries(t) \/ HashOf(t) \/ SendReport(t)
    BY <2>1 DEF ReadLog, CountEntries, HashOf, SendReport, TypeOK
  <2>2. CASE ~(ReadLog(t) \/ CountEntries(t) \/ HashOf(t) \/ SendReport(t))
    <3> USE DEF auditVars, historyVars, dataVars
    <3>1. CASE \E i \in Ids : (\E what \in Work : Ask(t, what, i)) \/ Create(t, i) \/ Delete(t, i)
                                \/ Erase(t, i)
      BY <3>1 DEF Ask, Create, Delete, Erase
    <3>2. CASE Reply(t) \/ Emit(t) \/ GiveUp(t) \/ Persist(t) \/ Charge(t) \/ Answer(t)
      BY <3>2 DEF Reply, Emit, GiveUp, Persist, Charge, Answer
    <3>3. CASE Save(t) \/ Note(t) \/ Put(t) \/ FileWrite(t) \/ Log(t) \/ RefuseKey(t)
      BY <3>3 DEF Save, Note, Put, FileWrite, Log, RefuseKey
    <3> QED
      BY <2>2, <3>1, <3>2, <3>3 DEF Step
  <2> QED
    BY <2>1, <2>2
<1>3. ASSUME NEW u \in Threads, NEW a \in DOMAIN report'[u], NEW b \in DOMAIN report'[u], a <= b
      PROVE  report'[u][a] <= report'[u][b] /\ report'[u][b] <= Len(log')
  <2>0. report[u] \in Seq(Nat) /\ Len(report[u]) \in Nat
    BY DEF TypeOK
  <2>1. CASE report'[u] = report[u]
    BY <1>1, <1>3, <2>0, <2>1 DEF ReportNeverAhead
  <2>2. CASE report'[u] = <<>> \/ report'[u] = <<Len(log)>>
    BY <1>1, <2>2
  <2>3. CASE report'[u] = Append(report[u], Len(log))
    <3>1. DOMAIN report'[u] = 1 .. Len(report[u]) + 1 /\ DOMAIN report[u] = 1 .. Len(report[u])
      BY <2>0, <2>3, <1>1
    <3>2. \A c \in DOMAIN report[u] : report[u][c] \in Nat /\ report[u][c] <= Len(log)
                                       /\ report'[u][c] = report[u][c]
      <4>1. ASSUME NEW c \in DOMAIN report[u]
            PROVE  report[u][c] \in Nat /\ report'[u][c] = report[u][c]
        BY <1>1, <2>0, <2>3, <3>1
      <4>2. ASSUME NEW c \in DOMAIN report[u] PROVE report[u][c] <= Len(log)
        <5>1. c <= c
          BY <2>0, <3>1
        <5> QED
          BY <5>1 DEF ReportNeverAhead
      <4> QED
        BY <4>1, <4>2
    <3>3. report'[u][Len(report[u]) + 1] = Len(log)
      BY <1>1, <2>0, <2>3
    <3>4. CASE b = Len(report[u]) + 1
      BY <1>1, <3>1, <3>2, <3>3, <3>4
    <3>5. CASE b # Len(report[u]) + 1
      <4>1. a \in DOMAIN report[u] /\ b \in DOMAIN report[u]
        BY <1>3, <2>0, <3>1, <3>5
      <4> QED
        BY <1>1, <1>3, <3>2, <4>1 DEF ReportNeverAhead
    <3> QED
      BY <3>4, <3>5
  <2> QED
    BY <1>2, <2>1, <2>2, <2>3
<1> QED
  BY <1>3 DEF ReportNeverAhead

\* An audit report shows no entry it does not count and counts none that its
\* hash does not cover, although the three are read one after the other.
THEOREM ReportsAhead == Spec => []ReportNeverAhead
<1>1. Init => ReportNeverAhead
  BY DEF Init, ReportNeverAhead
<1>2. TypeOK /\ ReportNeverAhead /\ [Next]_vars => ReportNeverAhead'
  <2>1. ASSUME Restart PROVE ReportNeverAhead'
    BY <2>1 DEF Restart, ReportNeverAhead
  <2>2. ASSUME ReportNeverAhead, UNCHANGED vars PROVE ReportNeverAhead'
    BY <2>2 DEF ReportNeverAhead, vars, auditVars
  <2> QED
    BY <2>1, <2>2, ReportStep DEF Next
<1> QED
  BY <1>1, <1>2, TypeCorrect, PTL DEF Spec

-----------------------------------------------------------------------------
(* The usage of a tenant that was created again.                           *)

FreshInv ==
  /\ \A i \in Ids : before[i] \subseteq 1 .. turns
  /\ \A i \in Ids, t \in Threads : job[t].turn \notin before[i]
  /\ FreshStart

LEMMA FreshStep ==
  ASSUME TypeOK, FreshInv, NEW t \in Threads, Step(t)
  PROVE  FreshInv'
<1>0. turns \in Nat /\ turns' \in {turns, turns + 1}
  BY StepThreads
<1>1. ASSUME NEW i \in Ids
      PROVE  \/ before'[i] = before[i]
             \/ before'[i] = (1 .. turns) \ Running /\ job'[t].turn = turns + 1
  <2> USE DEF auditVars, historyVars, dataVars
  <2>1. ASSUME NEW j \in Ids, Create(t, j)
        PROVE  \/ before'[i] = before[i]
               \/ before'[i] = (1 .. turns) \ Running /\ job'[t].turn = turns + 1
    BY <2>1 DEF Create, Register, Begin, TypeOK
  <2>2. ASSUME NEW j \in Ids, Delete(t, j) \/ Erase(t, j) \/ \E what \in Work : Ask(t, what, j)
        PROVE  before' = before
    BY <2>2 DEF Delete, Erase, Ask
  <2>3. CASE Reply(t) \/ Emit(t) \/ GiveUp(t) \/ Persist(t) \/ Charge(t) \/ Answer(t)
    BY <2>3 DEF Reply, Emit, GiveUp, Persist, Charge, Answer
  <2>4. CASE Save(t) \/ Note(t) \/ Put(t) \/ FileWrite(t) \/ Log(t) \/ RefuseKey(t)
    BY <2>4 DEF Save, Note, Put, FileWrite, Log, RefuseKey
  <2>5. CASE ReadLog(t) \/ CountEntries(t) \/ HashOf(t) \/ SendReport(t)
    BY <2>5 DEF ReadLog, CountEntries, HashOf, SendReport
  <2> QED
    BY <2>1, <2>2, <2>3, <2>4, <2>5 DEF Step
<1>2. ASSUME NEW i \in Ids
      PROVE  \/ usage'[i] \in {usage[i], {}} /\ before'[i] = before[i]
             \/ usage'[i] = {}
             \/ usage'[i] = usage[i] \cup {job[t].turn} /\ before'[i] = before[i]
  <2> USE DEF auditVars, historyVars, dataVars
  <2>1. ASSUME NEW j \in Ids, Create(t, j)
        PROVE  usage'[i] = {} \/ (usage'[i] = usage[i] /\ before'[i] = before[i])
    BY <2>1 DEF Create, Register, TypeOK
  <2>2. ASSUME NEW j \in Ids, Delete(t, j) \/ Erase(t, j) \/ \E what \in Work : Ask(t, what, j)
        PROVE  usage'[i] \in {usage[i], {}} /\ before' = before
    BY <2>2 DEF Delete, Erase, Ask, TypeOK
  <2>3. CASE Reply(t) \/ Emit(t) \/ GiveUp(t) \/ Persist(t) \/ Answer(t)
    BY <2>3 DEF Reply, Emit, GiveUp, Persist, Answer
  <2>4. CASE Charge(t)
    BY <2>4 DEF Charge, TypeOK
  <2>5. CASE Save(t) \/ Note(t) \/ Put(t) \/ FileWrite(t) \/ Log(t) \/ RefuseKey(t)
    BY <2>5 DEF Save, Note, Put, FileWrite, Log, RefuseKey
  <2>6. CASE ReadLog(t) \/ CountEntries(t) \/ HashOf(t) \/ SendReport(t)
    BY <2>6 DEF ReadLog, CountEntries, HashOf, SendReport
  <2> QED
    BY <2>1, <2>2, <2>3, <2>4, <2>5, <2>6 DEF Step
<1>3. ASSUME NEW i \in Ids PROVE before'[i] \subseteq 1 .. turns'
  BY <1>0, <1>1 DEF FreshInv
<1>4. ASSUME NEW i \in Ids, NEW u \in Threads PROVE job'[u].turn \notin before'[i]
  <2>1. 0 \notin before[i] /\ turns + 1 \notin before[i] /\ job[u].turn \notin before[i]
    BY <1>0 DEF FreshInv
  <2>2. job[u].turn \in Running
    BY DEF Running
  <2>3. CASE before'[i] = before[i]
    BY <2>1, <2>3, StepThreads
  <2>4. CASE before'[i] = (1 .. turns) \ Running /\ job'[t].turn = turns + 1
    BY <1>0, <2>2, <2>4, StepThreads
  <2> QED
    BY <1>1, <2>3, <2>4
<1>5. ASSUME NEW i \in Ids PROVE usage'[i] \cap before'[i] = {}
  BY <1>2 DEF FreshInv, FreshStart
<1> QED
  BY <1>3, <1>4, <1>5 DEF FreshInv, FreshStart

\* A tenant created again starts with no charge of a request that was over,
\* also when one was charged after the delete.
THEOREM StartsAfresh == Spec => []FreshStart
<1>1. Init => FreshInv
  BY DEF Init, FreshInv, FreshStart, NoJob
<1>2. TypeOK /\ FreshInv /\ [Next]_vars => FreshInv'
  <2>1. ASSUME TypeOK, Restart PROVE FreshInv'
    BY <2>1 DEF Restart, FreshInv, FreshStart, NoJob, TypeOK
  <2>2. ASSUME FreshInv, UNCHANGED vars PROVE FreshInv'
    BY <2>2 DEF FreshInv, FreshStart, vars, threadVars, dataVars, historyVars
  <2> QED
    BY <2>1, <2>2, FreshStep DEF Next
<1>3. FreshInv => FreshStart
  BY DEF FreshInv
<1> QED
  BY <1>1, <1>2, <1>3, TypeCorrect, PTL DEF Spec

-----------------------------------------------------------------------------
(* The charges.                                                            *)

Charging == {job[t].turn : t \in {u \in Threads : pc[u] = "charging"}}

ChargeInv ==
  /\ Stored \cup answered \subseteq 1 .. turns
  /\ WorkIsCharged
  /\ \A t \in Threads : pc[t] = "answering" => job[t].turn \in Charged \cup wiped

\* Steps that store, charge and answer nothing and keep all charges.
LEMMA ChargeKept ==
  ASSUME TypeOK, ChargeInv, NEW t \in Threads, Step(t),
         answered' = answered, Stored' \subseteq Stored,
         Charged \cup wiped \subseteq Charged' \cup wiped',
         pc[t] # "charging", pc'[t] # "answering"
  PROVE  ChargeInv'
<1>1. \A u \in Threads \ {t} : pc'[u] = pc[u] /\ job'[u] = job[u]
  BY StepThreads
<1>2. Charging \subseteq Charging'
  BY <1>1 DEF Charging
<1>3. 1 .. turns \subseteq 1 .. turns'
  BY StepThreads
<1>4. WorkIsCharged'
  BY <1>2 DEF ChargeInv, WorkIsCharged, Charging
<1>5. (Stored \cup answered)' \subseteq 1 .. turns'
  BY <1>3 DEF ChargeInv
<1>6. ASSUME NEW u \in Threads, pc'[u] = "answering" PROVE job'[u].turn \in (Charged \cup wiped)'
  BY <1>1, <1>6 DEF ChargeInv
<1> QED
  BY <1>4, <1>5, <1>6 DEF ChargeInv

\* Dropping the usage record of one tenant.
LEMMA WipeKeeps ==
  ASSUME TypeOK, NEW i \in Ids, usage' = [usage EXCEPT ![i] = {}], wiped' = wiped \cup usage[i]
  PROVE  Charged \cup wiped \subseteq Charged' \cup wiped'
<1>1. ASSUME NEW j \in Ids PROVE usage[j] \subseteq Charged' \cup wiped'
  <2>1. CASE j = i
    BY <2>1
  <2>2. CASE j # i
    <3>1. usage'[j] = usage[j]
      BY <2>2 DEF TypeOK
    <3> QED
      BY <3>1 DEF Charged
  <2> QED
    BY <2>1, <2>2
<1> QED
  BY <1>1 DEF Charged

LEMMA ChargeStep ==
  ASSUME TypeOK, ChargeInv, NEW t \in Threads, Step(t)
  PROVE  ChargeInv'
<1> USE DEF auditVars, historyVars, dataVars
<1>a. ASSUME UNCHANGED runs PROVE Stored' = Stored
  BY <1>a DEF Stored
<1>b. ASSUME UNCHANGED usage PROVE Charged' = Charged
  BY <1>b DEF Charged
<1>c. ASSUME NEW p, NEW what, NEW i, Begin(t, p, what, i)
      PROVE  pc[t] # "charging" /\ pc'[t] = p
  BY <1>c DEF Begin, TypeOK
<1>d. ASSUME Done(t) PROVE pc'[t] = "idle"
  BY <1>d DEF Done, TypeOK
<1>e. ASSUME NEW p, Goto(t, p) PROVE pc'[t] = p /\ job' = job
  BY <1>e DEF Goto, TypeOK
<1>f. turns \in Nat /\ turns' \in {turns, turns + 1}
      /\ \A u \in Threads \ {t} : pc'[u] = pc[u] /\ job'[u] = job[u]
  BY StepThreads
<1>1. ASSUME NEW i \in Ids, NEW what \in Work, Ask(t, what, i) PROVE ChargeInv'
  BY <1>1, <1>a, <1>b, <1>c, ChargeKept DEF Ask
<1>2. ASSUME NEW i \in Ids, Create(t, i) \/ Delete(t, i) PROVE ChargeInv'
  <2>1. UNCHANGED <<runs, answered>> /\ usage' = [usage EXCEPT ![i] = {}] /\ wiped' = wiped \cup usage[i]
    BY <1>2 DEF Create, Delete, Register
  <2>2. pc[t] # "charging" /\ pc'[t] = "saving"
    BY <1>2, <1>c DEF Create, Delete
  <2> QED
    BY <2>1, <2>2, <1>a, WipeKeeps, ChargeKept
<1>g. ASSUME WriteUnderKey \/ EraseUnderKeys PROVE Stored' \subseteq Stored
  <2>1. \A j \in Ids, r \in RunIds : runs'[j][r] \in {runs[j][r], None}
    BY <1>g, KeysTouched
  <2> QED
    BY <2>1 DEF Stored
<1>3. ASSUME NEW i \in Ids, Erase(t, i) PROVE ChargeInv'
  <2>1. pc[t] # "charging" /\ pc'[t] \in {"logging", "idle"}
    BY <1>3, <1>c DEF Erase, Pass
  <2> QED
    BY <1>3, <1>b, <1>g, <2>1, ChargeKept DEF Erase
<1>4. CASE Reply(t)
  <2>1. pc'[t] \in {"emitting", "persisting", "charging"}
    <3>1. JobOK(t) /\ pc[t] = "asking"
      BY <1>4 DEF TypeOK, Reply
    <3>2. job[t].what \in Work
      BY <3>1 DEF JobOK
    <3>3. CASE job[t].what \in {"run_stream", "chat_stream"}
      <4>1. Goto(t, "emitting")
        BY <1>4, <3>3 DEF Reply
      <4> QED
        BY <4>1, <1>e
    <3>4. CASE job[t].what = "run"
      <4>1. Goto(t, "persisting")
        BY <1>4, <3>4 DEF Reply
      <4> QED
        BY <4>1, <1>e
    <3>5. CASE job[t].what = "chat"
      <4>1. Goto(t, "charging")
        BY <1>4, <3>5 DEF Reply
      <4> QED
        BY <4>1, <1>e
    <3> QED
      BY <3>2, <3>3, <3>4, <3>5 DEF Work
  <2> QED
    BY <1>4, <1>a, <1>b, <2>1, ChargeKept DEF Reply
<1>5. CASE Emit(t)
  BY <1>5, <1>a, <1>b, <1>e, ChargeKept DEF Emit
<1>6. CASE GiveUp(t)
  BY <1>6, <1>a, <1>b, <1>d, ChargeKept DEF GiveUp
<1>7. CASE Persist(t)
  <2>1. Goto(t, "charging") /\ pc[t] = "persisting" /\ UNCHANGED <<usage, answered, wiped>>
    BY <1>7 DEF Persist
  <2>2. pc'[t] = "charging" /\ job' = job
    BY <2>1, <1>e
  <2>3. Stored' \subseteq Stored \cup {job[t].turn}
    <3>1. ASSUME NEW j \in Ids, NEW r \in RunIds PROVE runs'[j][r] \in {runs[j][r], job[t].turn}
      <4>1. job[t].id \in Ids /\ runs \in [Ids -> [RunIds -> Turns \cup {None}]]
        BY <2>1, JobFacts DEF TypeOK
      <4>2. ASSUME NEW q \in RunIds, runs' = [runs EXCEPT ![job[t].id][q] = job[t].turn]
            PROVE  runs'[j][r] \in {runs[j][r], job[t].turn}
        BY <4>1, <4>2
      <4> QED
        BY <1>7, <4>2 DEF Persist
    <3> QED
      BY <3>1 DEF Stored
  <2>4. Charging' = Charging \cup {job[t].turn}
    BY <2>1, <2>2, <1>f DEF Charging
  <2>5. job[t].turn \in 1 .. turns /\ turns' = turns
    BY <2>1, JobFacts DEF Goto
  <2>6. WorkIsCharged'
    BY <1>b, <2>1, <2>3, <2>4 DEF ChargeInv, WorkIsCharged, Charging
  <2>7. ASSUME NEW u \in Threads, pc'[u] = "answering" PROVE job'[u].turn \in (Charged \cup wiped)'
    BY <1>b, <1>f, <2>1, <2>2, <2>7 DEF ChargeInv
  <2> QED
    BY <2>1, <2>3, <2>5, <2>6, <2>7 DEF ChargeInv
<1>8. CASE Charge(t)
  <2>1. Goto(t, "answering") /\ pc[t] = "charging" /\ UNCHANGED <<runs, answered, wiped>>
    BY <1>8 DEF Charge
  <2>2. pc'[t] = "answering" /\ job' = job
    BY <2>1, <1>e
  <2>3. Charged \cup {job[t].turn} \subseteq Charged'
    <3>1. job[t].id \in Ids
      BY <2>1, JobFacts
    <3>2. \A j \in Ids : usage[j] \subseteq usage'[j]
      BY <1>8 DEF Charge, TypeOK
    <3>3. job[t].turn \in usage'[job[t].id]
      BY <1>8, <3>1 DEF Charge, TypeOK
    <3> QED
      BY <3>1, <3>2, <3>3 DEF Charged
  <2>4. Charging \subseteq Charging' \cup {job[t].turn}
    BY <2>2, <1>f DEF Charging
  <2>5. WorkIsCharged'
    BY <1>a, <2>1, <2>3, <2>4 DEF ChargeInv, WorkIsCharged, Charging
  <2>6. ASSUME NEW u \in Threads, pc'[u] = "answering" PROVE job'[u].turn \in (Charged \cup wiped)'
    BY <1>f, <2>1, <2>2, <2>3, <2>6 DEF ChargeInv
  <2>7. (Stored \cup answered)' \subseteq 1 .. turns'
    BY <1>a, <2>1 DEF ChargeInv, Goto
  <2> QED
    BY <2>5, <2>6, <2>7 DEF ChargeInv
<1>9. CASE Answer(t)
  <2>1. Done(t) /\ pc[t] = "answering" /\ UNCHANGED <<runs, usage, wiped>>
    BY <1>9 DEF Answer
  <2>2. answered' \subseteq answered \cup {job[t].turn}
    BY <1>9 DEF Answer
  <2>3. job[t].turn \in (Charged \cup wiped) /\ job[t].turn \in 1 .. turns /\ turns' = turns
    BY <2>1, JobFacts DEF ChargeInv, Done
  <2>4. Charging \subseteq Charging'
    BY <2>1, <1>f DEF Charging
  <2>5. WorkIsCharged'
    BY <1>a, <1>b, <2>1, <2>2, <2>3, <2>4 DEF ChargeInv, WorkIsCharged, Charging
  <2>6. ASSUME NEW u \in Threads, pc'[u] = "answering" PROVE job'[u].turn \in (Charged \cup wiped)'
    BY <1>b, <1>d, <1>f, <2>1, <2>6 DEF ChargeInv
  <2>7. (Stored \cup answered)' \subseteq 1 .. turns'
    BY <1>a, <2>1, <2>2, <2>3 DEF ChargeInv
  <2> QED
    BY <2>5, <2>6, <2>7 DEF ChargeInv
<1>10. CASE Save(t) \/ Note(t) \/ Log(t)
  <2>1. pc'[t] \in {"noting", "idle"} /\ pc[t] # "charging"
    BY <1>10, <1>d, <1>e DEF Save, Note, Log
  <2>2. UNCHANGED <<runs, usage, answered, wiped>>
    BY <1>10 DEF Save, Note, Log
  <2> QED
    BY <1>a, <1>b, <2>1, <2>2, ChargeKept
<1>11. CASE Put(t)
  <2>1. pc[t] # "charging" /\ pc'[t] = "logging"
    BY <1>11, <1>c DEF Put
  <2> QED
    BY <1>11, <1>b, <1>g, <2>1, ChargeKept DEF Put
<1>14. CASE FileWrite(t)
  BY <1>14, <1>b, <1>g, ChargeKept DEF FileWrite, Pass
<1>12. CASE RefuseKey(t)
  BY <1>12, <1>a, <1>b, ChargeKept DEF RefuseKey, Pass
<1>13. CASE ReadLog(t) \/ CountEntries(t) \/ HashOf(t) \/ SendReport(t)
  <2>1. pc'[t] \in {"counting", "hashing", "reported", "idle"} /\ pc[t] # "charging"
    <3>1. ASSUME ReadLog(t) PROVE pc'[t] = "counting" /\ pc[t] # "charging"
      BY <1>c, <3>1 DEF ReadLog
    <3> QED
      BY <1>13, <1>d, <1>e, <3>1 DEF CountEntries, HashOf, SendReport
  <2>2. UNCHANGED <<runs, usage, answered, wiped>>
    BY <1>13 DEF ReadLog, CountEntries, HashOf, SendReport
  <2> QED
    BY <1>a, <1>b, <2>1, <2>2, ChargeKept
<1> QED
  BY <1>1, <1>2, <1>3, <1>4, <1>5, <1>6, <1>7, <1>8, <1>9, <1>10, <1>11, <1>12, <1>13, <1>14
  DEF Step

\* No run is stored and no answer complete that its tenant was not charged
\* for, unless the usage record was dropped or the charge is the next step.
THEOREM NothingForFree == Spec => []WorkIsCharged
<1>1. Init => ChargeInv
  <2> SUFFICES ASSUME Init PROVE ChargeInv
    OBVIOUS
  <2>1. Stored = {} /\ answered = {}
    BY DEF Init, Stored, Nothing
  <2> QED
    BY <2>1 DEF Init, ChargeInv, WorkIsCharged
<1>2. TypeOK /\ ChargeInv /\ [Next]_vars => ChargeInv'
  <2>1. ASSUME TypeOK, ChargeInv, Restart PROVE ChargeInv'
    <3>1. Stored' = Stored /\ answered' = answered /\ turns' = turns /\ wiped' = 1 .. turns
      BY <2>1 DEF Restart, Stored
    <3>2. \A u \in Threads : pc'[u] = "idle"
      BY <2>1 DEF Restart
    <3> QED
      BY <2>1, <3>1, <3>2 DEF ChargeInv, WorkIsCharged
  <2>2. ASSUME ChargeInv, UNCHANGED vars PROVE ChargeInv'
    BY <2>2 DEF ChargeInv, WorkIsCharged, Stored, Charged, vars, threadVars, dataVars, historyVars
  <2> QED
    BY <2>1, <2>2, ChargeStep DEF Next
<1>3. ChargeInv => WorkIsCharged
  BY DEF ChargeInv
<1> QED
  BY <1>1, <1>2, <1>3, TypeCorrect, PTL DEF Spec

-----------------------------------------------------------------------------
(* The order of the log.                                                   *)

Logging == {job[t].turn : t \in {u \in Threads : pc[u] = "logging"}}
Logged == {log[a].turn : a \in EngineEntries}

EngineInv ==
  /\ \A t, u \in Threads : pc[t] = "logging" /\ pc[u] = "logging" => t = u
  /\ made \subseteq 1 .. turns /\ lost \subseteq 1 .. turns
  /\ \A a \in DOMAIN log : log[a].turn \in 1 .. turns
  /\ \A t \in Threads : pc[t] = "logging" =>
        /\ \A a \in EngineEntries : log[a].turn < job[t].turn
        /\ job[t].turn \notin lost
        /\ job[t].turn \in made <=> job[t].what \in EngineChange
  /\ LogFollowsEngine

\* What an entry adds to the log.
LEMMA LogAppended ==
  ASSUME log \in Seq(Entry), NEW e \in Entry, log' = Append(log, e)
  PROVE  /\ Len(log) \in Nat /\ DOMAIN log = 1 .. Len(log) /\ DOMAIN log' = 1 .. Len(log) + 1
         /\ \A a \in DOMAIN log : log'[a] = log[a]
         /\ log'[Len(log) + 1] = e
         /\ e.what \in EngineChange => EngineEntries' = EngineEntries \cup {Len(log) + 1}
         /\ e.what \notin EngineChange => EngineEntries' = EngineEntries
<1>1. /\ Len(log) \in Nat /\ DOMAIN log = 1 .. Len(log) /\ DOMAIN log' = 1 .. Len(log) + 1
      /\ \A a \in DOMAIN log : log'[a] = log[a]
      /\ log'[Len(log) + 1] = e
  OBVIOUS
<1>2. DOMAIN log' = DOMAIN log \cup {Len(log) + 1}
  BY <1>1
<1> QED
  BY <1>1, <1>2 DEF EngineEntries

\* Steps that begin, write and lose no entry of the engine's.
LEMMA EngineKept ==
  ASSUME TypeOK, EngineInv, NEW t \in Threads, Step(t),
         made' = made, lost' = lost,
         log' = log \/ \E e \in Entry : log' = Append(log, e) /\ e.what \notin EngineChange
                                        /\ e.turn \in 1 .. turns',
         pc[t] # "logging", pc'[t] # "logging"
  PROVE  EngineInv'
<1>0. turns \in Nat /\ turns' \in {turns, turns + 1}
  BY StepThreads
<1>1. \A u \in Threads : (pc'[u] = "logging" <=> pc[u] = "logging")
                         /\ (pc[u] = "logging" => job'[u] = job[u])
  BY StepThreads
<1>2. EngineEntries' = EngineEntries /\ \A a \in EngineEntries : log'[a] = log[a]
  <2>1. CASE log' = log
    BY <2>1 DEF EngineEntries
  <2>2. ASSUME NEW e \in Entry, log' = Append(log, e), e.what \notin EngineChange
        PROVE  EngineEntries' = EngineEntries /\ \A a \in EngineEntries : log'[a] = log[a]
    BY <2>2, LogAppended DEF TypeOK, EngineEntries
  <2> QED
    BY <2>1, <2>2
<1>3. \A a \in DOMAIN log' : log'[a].turn \in 1 .. turns'
  <2>1. \A a \in DOMAIN log : log[a].turn \in 1 .. turns'
    BY <1>0 DEF EngineInv
  <2>2. CASE log' = log
    BY <2>1, <2>2
  <2>3. ASSUME NEW e \in Entry, log' = Append(log, e), e.turn \in 1 .. turns'
        PROVE  \A a \in DOMAIN log' : log'[a].turn \in 1 .. turns'
    <3>1. \A a \in DOMAIN log' : a \in DOMAIN log \/ a = Len(log) + 1
      BY <2>3, LogAppended DEF TypeOK
    <3> QED
      BY <2>1, <2>3, <3>1, LogAppended DEF TypeOK
  <2> QED
    BY <2>2, <2>3
<1>4. {job'[u].turn : u \in {v \in Threads : pc'[v] = "logging"}} = Logging
  BY <1>1 DEF Logging
<1>5. LogFollowsEngine'
  BY <1>2, <1>4 DEF EngineInv, LogFollowsEngine, Logging
<1>6. made' \subseteq 1 .. turns' /\ lost' \subseteq 1 .. turns'
  BY <1>0 DEF EngineInv
<1> QED
  BY <1>1, <1>2, <1>3, <1>5, <1>6 DEF EngineInv

\* A put or an erasure takes the engine's lock.
LEMMA EngineTaken ==
  ASSUME TypeOK, EngineInv, NEW t \in Threads, Step(t), EngineFree, NEW what, NEW i,
         Begin(t, "logging", what, i), log' = log, lost' = lost,
         IF what \in EngineChange THEN made' = made \cup {turns + 1} ELSE made' = made
  PROVE  EngineInv'
<1>0. turns \in Nat /\ turns' = turns + 1
  BY StepThreads DEF Begin
<1>1. /\ \A u \in Threads \ {t} : pc'[u] # "logging"
      /\ pc'[t] = "logging" /\ job'[t].turn = turns + 1 /\ job'[t].what = what
  <2>1. pc'[t] = "logging" /\ job'[t] = [turn |-> turns + 1, what |-> what, id |-> i]
    BY DEF Begin, TypeOK
  <2> QED
    BY <2>1, StepThreads DEF EngineFree
<1>2. EngineEntries' = EngineEntries
  BY DEF EngineEntries
<1>3. \A a \in DOMAIN log : log[a].turn \in 1 .. turns /\ log[a].turn \in 1 .. turns'
                            /\ log[a].turn < turns + 1
  BY <1>0 DEF EngineInv
<1>4. turns + 1 \notin made /\ turns + 1 \notin lost
      /\ made' \subseteq 1 .. turns' /\ lost' \subseteq 1 .. turns'
  <2>1. turns + 1 \notin 1 .. turns /\ turns + 1 \in 1 .. turns' /\ 1 .. turns \subseteq 1 .. turns'
    BY <1>0
  <2> QED
    BY <2>1 DEF EngineInv
<1>5. {job'[u].turn : u \in {v \in Threads : pc'[v] = "logging"}} = {turns + 1}
  BY <1>1
<1>6. {job[u].turn : u \in {v \in Threads : pc[v] = "logging"}} = {}
  BY DEF EngineFree
<1>7. LogFollowsEngine'
  <2>1. made' \ (lost' \cup {turns + 1}) = made \ (lost \cup {})
    BY <1>4
  <2> QED
    BY <1>2, <1>5, <1>6, <2>1 DEF EngineInv, LogFollowsEngine
<1>8. \A a \in EngineEntries : log[a].turn < turns + 1
  BY <1>3 DEF EngineEntries
<1>9. turns + 1 \in made' <=> what \in EngineChange
  BY <1>4
<1> QED
  BY <1>1, <1>2, <1>3, <1>4, <1>7, <1>8, <1>9 DEF EngineInv

\* The entry is written or lost, and the lock given up.
LEMMA EngineReleased ==
  ASSUME TypeOK, EngineInv, NEW t \in Threads, Step(t), Log(t)
  PROVE  EngineInv'
<1>0. turns \in Nat /\ turns' = turns /\ made' = made
  BY StepThreads DEF Log, Done
<1>1. pc[t] = "logging" /\ \A u \in Threads : pc'[u] # "logging"
  BY StepThreads DEF Log, Done, EngineInv, TypeOK
<1>2. Logging = {job[t].turn}
  BY <1>1 DEF EngineInv, Logging
<1>3. {job'[u].turn : u \in {v \in Threads : pc'[v] = "logging"}} = {}
  BY <1>1
<1>4. job[t] \in Entry /\ job[t].turn \in 1 .. turns /\ job[t].turn \in Nat
  BY <1>0, <1>1, EntryType, JobFacts
<1>5. /\ \A a \in EngineEntries : log[a].turn < job[t].turn
      /\ job[t].turn \notin lost
      /\ job[t].turn \in made <=> job[t].what \in EngineChange
  BY <1>1 DEF EngineInv
<1>6. Logged = made \ (lost \cup {job[t].turn})
  BY <1>2 DEF EngineInv, LogFollowsEngine, Logging, Logged
<1>7. CASE log' = Append(log, job[t]) /\ lost' = lost
  <2>1. /\ Len(log) \in Nat /\ DOMAIN log = 1 .. Len(log) /\ DOMAIN log' = 1 .. Len(log) + 1
        /\ \A a \in DOMAIN log : log'[a] = log[a]
        /\ log'[Len(log) + 1] = job[t]
        /\ job[t].what \in EngineChange => EngineEntries' = EngineEntries \cup {Len(log) + 1}
        /\ job[t].what \notin EngineChange => EngineEntries' = EngineEntries
    BY <1>4, <1>7, LogAppended DEF TypeOK
  <2>2. \A a \in DOMAIN log' : a \in DOMAIN log \/ a = Len(log) + 1
    BY <2>1
  <2>3. \A a \in DOMAIN log' : log'[a].turn \in 1 .. turns'
    BY <1>0, <1>4, <2>1, <2>2 DEF EngineInv
  <2>4. \A a, b \in EngineEntries' : a < b => log'[a].turn < log'[b].turn
    <3>1. \A a \in EngineEntries : a \in 1 .. Len(log) /\ log'[a] = log[a]
      BY <2>1 DEF EngineEntries
    <3>2. \A a, b \in EngineEntries : a < b => log[a].turn < log[b].turn
      BY DEF EngineInv, LogFollowsEngine
    <3> QED
      BY <1>5, <2>1, <3>1, <3>2
  <2>5. {log'[a].turn : a \in EngineEntries'} = made \ lost
    <3>1. \A a \in EngineEntries : log'[a] = log[a]
      BY <2>1 DEF EngineEntries
    <3>2. CASE job[t].what \in EngineChange
      <4>1. {log'[a].turn : a \in EngineEntries'} = Logged \cup {job[t].turn}
        BY <2>1, <3>1, <3>2 DEF Logged
      <4> QED
        BY <1>5, <1>6, <3>2, <4>1
    <3>3. CASE job[t].what \notin EngineChange
      <4>1. {log'[a].turn : a \in EngineEntries'} = Logged
        BY <2>1, <3>1, <3>3 DEF Logged
      <4> QED
        BY <1>5, <1>6, <3>3, <4>1
    <3> QED
      BY <3>2, <3>3
  <2>6. LogFollowsEngine'
    BY <1>0, <1>3, <1>7, <2>4, <2>5 DEF LogFollowsEngine
  <2> QED
    BY <1>0, <1>1, <1>7, <2>3, <2>6 DEF EngineInv
<1>8. CASE /\ log' = log
           /\ lost' = lost \cup (IF job[t].what \in EngineChange THEN {job[t].turn} ELSE {})
  <2>1. EngineEntries' = EngineEntries
    BY <1>8 DEF EngineEntries
  <2>2. made' \ lost' = Logged
    <3>1. CASE job[t].what \in EngineChange
      BY <1>0, <1>6, <1>8, <3>1
    <3>2. CASE job[t].what \notin EngineChange
      <4>1. made \ (lost \cup {job[t].turn}) = made \ lost
        BY <1>5, <3>2
      <4>2. lost' = lost
        BY <1>8, <3>2
      <4> QED
        BY <1>0, <1>6, <4>1, <4>2
    <3> QED
      BY <3>1, <3>2
  <2>3. LogFollowsEngine'
    <3>1. \A a, b \in EngineEntries' : a < b => log'[a].turn < log'[b].turn
      BY <1>8, <2>1 DEF EngineInv, LogFollowsEngine
    <3>2. {log'[a].turn : a \in EngineEntries'} = made' \ (lost' \cup {})
      BY <1>8, <2>1, <2>2 DEF Logged
    <3> QED
      BY <1>3, <3>1, <3>2 DEF LogFollowsEngine
  <2> QED
    BY <1>0, <1>1, <1>4, <1>8, <2>1, <2>3 DEF EngineInv
<1> QED
  BY <1>7, <1>8 DEF Log

LEMMA EngineStep ==
  ASSUME TypeOK, EngineInv, NEW t \in Threads, Step(t)
  PROVE  EngineInv'
<1> USE DEF auditVars, historyVars, dataVars
<1>a. ASSUME NEW p, NEW what, NEW i, Begin(t, p, what, i)
      PROVE  pc[t] # "logging" /\ pc'[t] = p
  BY <1>a DEF Begin, TypeOK
<1>b. ASSUME Done(t) PROVE pc'[t] = "idle"
  BY <1>b DEF Done, TypeOK
<1>c. ASSUME NEW p, Goto(t, p) PROVE pc'[t] = p
  BY <1>c DEF Goto, TypeOK
<1>d. EngineChange = {"put", "erase"}
  BY DEF EngineChange
<1>1. ASSUME NEW i \in Ids, \/ \E what \in Work : Ask(t, what, i)
                            \/ Create(t, i) \/ Delete(t, i)
      PROVE  EngineInv'
  <2>1. pc[t] # "logging" /\ pc'[t] \in {"asking", "saving"}
    BY <1>1, <1>a DEF Ask, Create, Delete
  <2>2. UNCHANGED <<made, lost, log>>
    BY <1>1 DEF Ask, Create, Delete
  <2> QED
    BY <2>1, <2>2, EngineKept
<1>2. ASSUME NEW i \in Ids, Erase(t, i) PROVE EngineInv'
  <2>1. EngineFree /\ log' = log /\ lost' = lost
    BY <1>2 DEF Erase
  <2>2. CASE Begin(t, "logging", "erase", i) /\ made' = made \cup {turns + 1}
    BY <1>d, <2>1, <2>2, EngineTaken
  <2>3. CASE Pass(t) /\ UNCHANGED made
    BY <2>1, <2>3, EngineKept DEF Pass
  <2> QED
    BY <1>2, <2>2, <2>3 DEF Erase
<1>3. CASE Put(t)
  BY <1>3, <1>d, EngineTaken DEF Put
<1>10. CASE FileWrite(t)
  BY <1>10, EngineKept DEF FileWrite, Pass
<1>4. CASE Reply(t)
  <2>1. pc[t] # "logging" /\ pc'[t] # "logging"
    <3>1. JobOK(t) /\ pc[t] = "asking"
      BY <1>4 DEF TypeOK, Reply
    <3>2. job[t].what \in Work
      BY <3>1 DEF JobOK
    <3>3. CASE job[t].what \in {"run_stream", "chat_stream"}
      <4>1. Goto(t, "emitting")
        BY <1>4, <3>3 DEF Reply
      <4> QED
        BY <3>1, <4>1, <1>c
    <3>4. CASE job[t].what = "run"
      <4>1. Goto(t, "persisting")
        BY <1>4, <3>4 DEF Reply
      <4> QED
        BY <3>1, <4>1, <1>c
    <3>5. CASE job[t].what = "chat"
      <4>1. Goto(t, "charging")
        BY <1>4, <3>5 DEF Reply
      <4> QED
        BY <3>1, <4>1, <1>c
    <3> QED
      BY <3>2, <3>3, <3>4, <3>5 DEF Work
  <2> QED
    BY <1>4, <2>1, EngineKept DEF Reply
<1>5. CASE Emit(t) \/ GiveUp(t) \/ Persist(t) \/ Charge(t) \/ Answer(t) \/ Save(t)
  <2>1. pc[t] # "logging" /\ pc'[t] \in {"idle", "persisting", "charging", "answering", "noting"}
    BY <1>5, <1>b, <1>c DEF Emit, GiveUp, Persist, Charge, Answer, Save
  <2>2. UNCHANGED <<made, lost, log>>
    BY <1>5 DEF Emit, GiveUp, Persist, Charge, Answer, Save
  <2> QED
    BY <2>1, <2>2, EngineKept
<1>6. CASE Note(t)
  <2>1. pc[t] = "noting" /\ pc'[t] = "idle" /\ UNCHANGED <<made, lost, turns>>
    BY <1>6, <1>b DEF Note, Done
  <2>2. job[t] \in Entry /\ job[t].turn \in 1 .. turns /\ JobOK(t)
    BY <2>1, EntryType, JobFacts DEF TypeOK
  <2>3. job[t].what \notin EngineChange
    BY <1>d, <2>1, <2>2 DEF JobOK, TenantChange
  <2> QED
    BY <1>6, <2>1, <2>2, <2>3, EngineKept DEF Note
<1>7. CASE Log(t)
  BY <1>7, EngineReleased
<1>8. CASE RefuseKey(t)
  <2>1. pc[t] = "idle" /\ pc'[t] = "idle" /\ UNCHANGED <<made, lost>>
    BY <1>8 DEF RefuseKey, Pass
  <2>2. turns + 1 \in 1 .. turns' /\ turns + 1 \in Turns
    BY <1>8, PassType DEF RefuseKey
  <2> DEFINE e == [turn |-> turns + 1, what |-> "auth", id |-> None]
  <2>3. e \in Entry /\ e.what \notin EngineChange /\ e.turn \in 1 .. turns'
    BY <1>d, <2>2 DEF Entry
  <2>4. log' = log \/ log' = Append(log, e)
    BY <1>8 DEF RefuseKey
  <2> HIDE DEF e
  <2> QED
    BY <2>1, <2>3, <2>4, EngineKept
<1>9. CASE ReadLog(t) \/ CountEntries(t) \/ HashOf(t) \/ SendReport(t)
  <2>1. pc[t] # "logging" /\ pc'[t] \in {"idle", "counting", "hashing", "reported"}
    <3>1. ASSUME ReadLog(t) PROVE pc'[t] = "counting" /\ pc[t] # "logging"
      BY <1>a, <3>1 DEF ReadLog
    <3> QED
      BY <1>9, <1>b, <1>c, <3>1 DEF CountEntries, HashOf, SendReport
  <2>2. UNCHANGED <<made, lost, log>>
    BY <1>9 DEF ReadLog, CountEntries, HashOf, SendReport
  <2> QED
    BY <2>1, <2>2, EngineKept
<1> QED
  BY <1>1, <1>2, <1>3, <1>4, <1>5, <1>6, <1>7, <1>8, <1>9, <1>10 DEF Step

\* A restart loses the entry of a change that was being logged.
LEMMA EngineRestart == TypeOK /\ EngineInv /\ Restart => EngineInv'
<1> SUFFICES ASSUME TypeOK, EngineInv, Restart PROVE EngineInv'
  OBVIOUS
<1>1. UNCHANGED <<turns, made, log>> /\ \A u \in Threads : pc'[u] = "idle"
  BY DEF Restart
<1>2. EngineEntries' = EngineEntries
  BY <1>1 DEF EngineEntries
<1>3. {job'[u].turn : u \in {v \in Threads : pc'[v] = "logging"}} = {}
  BY <1>1
<1>4. made \ (lost \cup Logging) = made \ lost'
  <2>1. \A u \in Threads : pc[u] = "logging" => (job[u].turn \in made <=> job[u].what \in EngineChange)
    BY DEF EngineInv
  <2>2. \A x \in made : x \in Logging <=> x \in {job[t].turn : t \in {u \in Threads :
                              pc[u] = "logging" /\ job[u].what \in EngineChange}}
    BY <2>1 DEF Logging
  <2> QED
    BY <2>2 DEF Restart
<1>5. LogFollowsEngine'
  BY <1>1, <1>2, <1>3, <1>4 DEF EngineInv, LogFollowsEngine, Logging
<1>6. lost' \subseteq 1 .. turns
  <2>1. \A u \in Threads : pc[u] = "logging" => job[u].turn \in 1 .. turns
    BY JobFacts
  <2> QED
    BY <2>1 DEF Restart, EngineInv
<1> QED
  BY <1>1, <1>2, <1>5, <1>6 DEF EngineInv

\* The audit log has each put and each erasure once and in their order, but
\* for those whose entry could not be written.
THEOREM LogOrdered == Spec => []LogFollowsEngine
<1>1. Init => EngineInv
  BY DEF Init, EngineInv, LogFollowsEngine, EngineEntries
<1>2. TypeOK /\ EngineInv /\ [Next]_vars => EngineInv'
  <2>1. ASSUME EngineInv, UNCHANGED vars PROVE EngineInv'
    BY <2>1 DEF EngineInv, LogFollowsEngine, EngineEntries, vars, threadVars, auditVars, historyVars
  <2> QED
    BY <2>1, EngineStep, EngineRestart DEF Next
<1>3. EngineInv => LogFollowsEngine
  BY DEF EngineInv
<1> QED
  BY <1>1, <1>2, <1>3, TypeCorrect, PTL DEF Spec

-----------------------------------------------------------------------------
(* What registry, database and log say of a tenant.                        *)

Told(i) ==
  /\ \A t, u \in Changing(i) : t = u
  /\ Changing(i) = {} => registered[i] = saved[i] /\ (registered[i] <=> LogSays(i))
  /\ \A t \in Changing(i) : registered[i] <=> (job[t].what = "create")
  /\ \A t \in Changing(i) : pc[t] = "noting" => saved[i] = registered[i]

TellInv == \A i \in Ids : clean[i] => Told(i)

\* An entry of tenant i decides what the log says of it, any other does not.
LEMMA LogSaysAppended ==
  ASSUME log \in Seq(Entry), NEW e \in Entry, log' = Append(log, e), NEW i
  PROVE  IF e.what \in TenantChange /\ e.id = i
         THEN LogSays(i)' <=> e.what = "create"
         ELSE LogSays(i)' <=> LogSays(i)
<1>1. /\ Len(log) \in Nat /\ DOMAIN log = 1 .. Len(log) /\ DOMAIN log' = 1 .. Len(log) + 1
      /\ \A a \in DOMAIN log : log'[a] = log[a]
      /\ log'[Len(log) + 1] = e
  BY LogAppended
<1> DEFINE last == Len(log) + 1
<1>2. /\ DOMAIN log' = DOMAIN log \cup {last} /\ last \notin DOMAIN log
      /\ \A a \in DOMAIN log : a < last
      /\ \A a \in DOMAIN log : ~(last < a) /\ ~(last > last)
  BY <1>1
<1>3. CASE e.what = "create" /\ e.id = i
  <2>1. LogSays(i)'
    BY <1>1, <1>2, <1>3 DEF LogSays
  <2> QED
    BY <1>3, <2>1 DEF TenantChange
<1>4. CASE e.what = "delete" /\ e.id = i
  <2>1. ASSUME NEW a \in DOMAIN log', log'[a].what = "create" PROVE last > a /\ last \in DOMAIN log'
    BY <1>1, <1>2, <1>4, <2>1
  <2>2. ~LogSays(i)'
    BY <1>1, <1>4, <2>1 DEF LogSays
  <2> QED
    BY <1>4, <2>2 DEF TenantChange
<1>5. CASE ~(e.what \in TenantChange /\ e.id = i)
  <2>1. LogSays(i) => LogSays(i)'
    <3> SUFFICES ASSUME LogSays(i) PROVE LogSays(i)'
      OBVIOUS
    <3>1. PICK a \in DOMAIN log : /\ log[a].what = "create" /\ log[a].id = i
              /\ \A b \in DOMAIN log : b > a => ~(log[b].what = "delete" /\ log[b].id = i)
      BY DEF LogSays
    <3>2. a \in DOMAIN log' /\ log'[a] = log[a]
      BY <1>1, <1>2
    <3>3. ASSUME NEW b \in DOMAIN log', b > a PROVE ~(log'[b].what = "delete" /\ log'[b].id = i)
      BY <1>1, <1>2, <1>5, <3>1, <3>3 DEF TenantChange
    <3> QED
      BY <3>1, <3>2, <3>3 DEF LogSays
  <2>2. LogSays(i)' => LogSays(i)
    <3> SUFFICES ASSUME LogSays(i)' PROVE LogSays(i)
      OBVIOUS
    <3>1. PICK a \in DOMAIN log' : /\ log'[a].what = "create" /\ log'[a].id = i
              /\ \A b \in DOMAIN log' : b > a => ~(log'[b].what = "delete" /\ log'[b].id = i)
      BY DEF LogSays
    <3>2. a \in DOMAIN log /\ log'[a] = log[a]
      BY <1>1, <1>2, <1>5, <3>1 DEF TenantChange
    <3>3. ASSUME NEW b \in DOMAIN log, b > a PROVE ~(log[b].what = "delete" /\ log[b].id = i)
      BY <1>1, <1>2, <3>1, <3>3
    <3> QED
      BY <3>1, <3>2, <3>3 DEF LogSays
  <2> QED
    BY <1>5, <2>1, <2>2
<1> QED
  BY <1>3, <1>4, <1>5 DEF TenantChange

\* Steps that change no tenant and write nothing about one, or unmake the
\* clean history of those whose definition they change.
LEMMA TellKept ==
  ASSUME TypeOK, TellInv, NEW t \in Threads, Step(t),
         registered' = registered,
         \A i \in Ids : clean'[i] => clean[i] /\ saved'[i] = saved[i],
         log' = log \/ \E e \in Entry : log' = Append(log, e) /\ e.what \notin TenantChange,
         pc[t] \notin {"saving", "noting"}, pc'[t] \notin {"saving", "noting"}
  PROVE  TellInv'
<1>1. \A u \in Threads : /\ pc'[u] \in {"saving", "noting"} <=> pc[u] \in {"saving", "noting"}
                         /\ pc[u] \in {"saving", "noting"} => pc'[u] = pc[u] /\ job'[u] = job[u]
  BY StepThreads
<1>2. ASSUME NEW i \in Ids PROVE LogSays(i)' <=> LogSays(i)
  <2>1. CASE log' = log
    BY <2>1 DEF LogSays
  <2>2. ASSUME NEW e \in Entry, log' = Append(log, e), e.what \notin TenantChange
        PROVE  LogSays(i)' <=> LogSays(i)
    BY <2>2, LogSaysAppended DEF TypeOK
  <2> QED
    BY <2>1, <2>2
<1>3. ASSUME NEW i \in Ids PROVE Changing(i)' = Changing(i)
  BY <1>1 DEF Changing
<1>4. ASSUME NEW i \in Ids, NEW u \in Changing(i)
      PROVE pc'[u] = pc[u] /\ job'[u] = job[u]
  BY <1>1 DEF Changing
<1>5. ASSUME NEW i \in Ids, clean'[i] PROVE Told(i)'
  <2>1. Told(i) /\ saved'[i] = saved[i]
    BY <1>5 DEF TellInv
  <2> QED
    BY <1>2, <1>3, <1>4, <2>1 DEF Told
<1> QED
  BY <1>5 DEF TellInv

\* What a step of a change of tenant i means for the other tenants.
LEMMA TellOthers ==
  ASSUME TypeOK, TellInv, NEW t \in Threads, Step(t), NEW i \in Ids, NEW j \in Ids, j # i,
         pc[t] \in {"saving", "noting"} => job[t].id = i,
         pc'[t] \in {"saving", "noting"} => job'[t].id = i,
         registered'[j] = registered[j], saved'[j] = saved[j], clean'[j] = clean[j],
         LogSays(j)' <=> LogSays(j), clean'[j]
  PROVE  Told(j)'
<1>1. Changing(j)' = Changing(j)
  BY StepThreads DEF Changing
<1>2. \A u \in Changing(j) : pc'[u] = pc[u] /\ job'[u] = job[u]
  BY StepThreads DEF Changing
<1>3. Told(j)
  BY DEF TellInv
<1>4. (\A x, y \in Changing(j) : x = y)'
  BY <1>1, <1>3 DEF Told
<1>5. (Changing(j) = {} => registered[j] = saved[j] /\ (registered[j] <=> LogSays(j)))'
  BY <1>1, <1>3 DEF Told
<1>6. (\A u \in Changing(j) : registered[j] <=> (job[u].what = "create"))'
  BY <1>1, <1>2, <1>3 DEF Told
<1>7. (\A u \in Changing(j) : pc[u] = "noting" => saved[j] = registered[j])'
  BY <1>1, <1>2, <1>3 DEF Told
<1> QED
  BY <1>4, <1>5, <1>6, <1>7 DEF Told

\* A change begins: alone, or it unmakes the clean history.
LEMMA TellBegun ==
  ASSUME TypeOK, TellInv, NEW t \in Threads, Step(t), NEW i \in Ids, NEW what \in TenantChange,
         Begin(t, "saving", what, i), NoteOverlap(i),
         registered' = [registered EXCEPT ![i] = what = "create"], saved' = saved, log' = log
  PROVE  TellInv'
<1>0. pc[t] = "idle" /\ pc'[t] = "saving" /\ job'[t].id = i /\ job'[t].what = what
  <2>1. job'[t] = [turn |-> turns + 1, what |-> what, id |-> i]
    BY DEF Begin, TypeOK
  <2> QED
    BY <2>1 DEF Begin, TypeOK
<1>1. \A j \in Ids : LogSays(j)' <=> LogSays(j)
  BY DEF LogSays
<1>2. /\ \A j \in Ids \ {i} : registered'[j] = registered[j] /\ clean'[j] = clean[j]
      /\ registered'[i] = (what = "create") /\ clean'[i] = (Changing(i) = {})
  BY DEF NoteOverlap, TypeOK
<1>3. Changing(i) = {} => Changing(i)' = {t}
  BY <1>0, StepThreads DEF Changing
<1> SUFFICES ASSUME NEW j \in Ids, clean'[j] PROVE Told(j)'
  BY DEF TellInv
<1>4. CASE j = i
  <2>1. Changing(i)' = {t} /\ (registered'[i] <=> (job'[t].what = "create")) /\ pc'[t] # "noting"
    BY <1>0, <1>2, <1>3, <1>4
  <2> QED
    BY <1>4, <2>1 DEF Told
<1>5. CASE j # i
  BY <1>0, <1>1, <1>2, <1>5, TellOthers
<1> QED
  BY <1>4, <1>5

\* The database and the log are the change's own turn.
LEMMA TellSaved ==
  ASSUME TypeOK, TellInv, NEW t \in Threads, Step(t), Save(t)
  PROVE  TellInv'
<1>i. PICK i \in Ids : i = job[t].id
  BY JobFacts DEF Save
<1>0. pc[t] = "saving" /\ registered' = registered /\ log' = log
  BY DEF Save, auditVars
<1>1. \A j \in Ids : LogSays(j)' <=> LogSays(j)
  BY <1>0 DEF LogSays
<1>2. \A j \in Ids \ {i} : saved'[j] = saved[j] /\ clean'[j] = clean[j]
  BY <1>i DEF Save, TypeOK
<1>3. \/ job'[t] = job[t] /\ pc'[t] = "noting"
      \/ job'[t] = NoJob /\ pc'[t] = "idle"
  <2>1. CASE Goto(t, "noting")
    BY <2>1 DEF Goto, TypeOK
  <2>2. CASE Done(t)
    BY <2>2 DEF Done, TypeOK
  <2> QED
    BY <2>1, <2>2 DEF Save
<1>4. t \in Changing(i)
  BY <1>0, <1>i DEF Changing
<1>5. clean'[i] => /\ saved'[i] = (job[t].what = "create") /\ pc'[t] = "noting" /\ job'[t] = job[t]
                   /\ clean[i]
  <2>1. CASE saved' = [saved EXCEPT ![i] = job[t].what = "create"] /\ Goto(t, "noting") /\ UNCHANGED clean
    BY <1>i, <2>1 DEF Goto, TypeOK
  <2>2. CASE clean' = [clean EXCEPT ![i] = FALSE]
    BY <1>i, <2>2 DEF TypeOK
  <2> QED
    BY <1>i, <2>1, <2>2 DEF Save
<1> SUFFICES ASSUME NEW j \in Ids, clean'[j] PROVE Told(j)'
  BY DEF TellInv
<1>6. CASE j = i
  <2>1. Changing(i) = {t}
    BY <1>4, <1>5, <1>6 DEF TellInv, Told
  <2>2. Changing(i)' = {t}
    <3>1. \A u \in Threads : u \in Changing(i)' <=> u \in Changing(i)
      BY <1>4, <1>5, <1>6, StepThreads DEF Changing
    <3> QED
      BY <2>1, <3>1 DEF Changing
  <2>3. (registered[i] <=> job[t].what = "create") /\ registered[i] \in BOOLEAN
    BY <1>0, <1>4, <1>5, <1>6 DEF TellInv, Told, TypeOK
  <2> QED
    BY <1>0, <1>5, <1>6, <2>2, <2>3 DEF Told
<1>7. CASE j # i
  <2>1. job[t].id = i /\ (pc'[t] \in {"saving", "noting"} => job'[t].id = i)
    BY <1>3, <1>i DEF NoJob
  <2> QED
    BY <1>0, <1>1, <1>2, <1>7, <2>1, TellOthers
<1> QED
  BY <1>6, <1>7

LEMMA TellNoted ==
  ASSUME TypeOK, TellInv, NEW t \in Threads, Step(t), Note(t)
  PROVE  TellInv'
<1>i. PICK i \in Ids : i = job[t].id
  BY JobFacts DEF Note
<1>0. /\ pc[t] = "noting" /\ pc'[t] = "idle"
      /\ registered' = registered /\ saved' = saved
      /\ job[t] \in Entry /\ job[t].what \in TenantChange
  <2>1. pc[t] = "noting" /\ JobOK(t)
    BY DEF Note, TypeOK
  <2>2. pc'[t] = "idle" /\ registered' = registered /\ saved' = saved
    BY DEF Note, Done, TypeOK, dataVars
  <2> QED
    BY <2>1, <2>2, JobFacts, EntryType DEF JobOK
<1>1. \A j \in Ids \ {i} : (LogSays(j)' <=> LogSays(j)) /\ clean'[j] = clean[j]
  <2>1. CASE log' = Append(log, job[t]) /\ UNCHANGED clean
    BY <1>0, <1>i, <2>1, LogSaysAppended DEF TypeOK
  <2>2. CASE clean' = [clean EXCEPT ![i] = FALSE] /\ UNCHANGED log
    <3>1. \A j \in Ids \ {i} : clean'[j] = clean[j]
      BY <2>2 DEF TypeOK
    <3>2. \A j \in Ids : LogSays(j)' <=> LogSays(j)
      BY <2>2 DEF LogSays
    <3> QED
      BY <3>1, <3>2
  <2> QED
    BY <1>i, <2>1, <2>2 DEF Note
<1>2. clean'[i] => clean[i] /\ (LogSays(i)' <=> job[t].what = "create")
  <2>1. CASE log' = Append(log, job[t]) /\ UNCHANGED clean
    BY <1>0, <1>i, <2>1, LogSaysAppended DEF TypeOK
  <2>2. CASE clean' = [clean EXCEPT ![i] = FALSE] /\ UNCHANGED log
    BY <1>0, <2>2 DEF TypeOK
  <2> QED
    BY <1>i, <2>1, <2>2 DEF Note
<1>3. t \in Changing(i)
  BY <1>0, <1>i DEF Changing
<1> SUFFICES ASSUME NEW j \in Ids, clean'[j] PROVE Told(j)'
  BY DEF TellInv
<1>4. CASE j = i
  <2>1. Changing(i) = {t} /\ saved[i] = registered[i] /\ (registered[i] <=> job[t].what = "create")
    BY <1>0, <1>2, <1>3, <1>4 DEF TellInv, Told
  <2>2. Changing(i)' = {}
    <3>1. \A u \in Threads : u \in Changing(i)' => u \in Changing(i) /\ u # t
      BY <1>0, StepThreads DEF Changing
    <3> QED
      BY <2>1, <3>1 DEF Changing
  <2> QED
    BY <1>0, <1>2, <1>4, <2>1, <2>2 DEF Told
<1>5. CASE j # i
  BY <1>0, <1>1, <1>5, <1>i, TellOthers
<1> QED
  BY <1>4, <1>5

LEMMA TellStep ==
  ASSUME TypeOK, TellInv, NEW t \in Threads, Step(t)
  PROVE  TellInv'
<1> USE DEF auditVars, historyVars, dataVars
<1>a. ASSUME NEW p, NEW what, NEW i, Begin(t, p, what, i)
      PROVE  pc[t] = "idle" /\ pc'[t] = p
  BY <1>a DEF Begin, TypeOK
<1>b. ASSUME Done(t) PROVE pc'[t] = "idle"
  BY <1>b DEF Done, TypeOK
<1>c. ASSUME NEW p, Goto(t, p) PROVE pc'[t] = p
  BY <1>c DEF Goto, TypeOK
<1>1. ASSUME NEW i \in Ids, NEW what \in Work, Ask(t, what, i)
      PROVE  TellInv'
  <2>1. pc[t] = "idle" /\ pc'[t] = "asking"
    BY <1>1, <1>a DEF Ask
  <2> QED
    BY <1>1, <2>1, TellKept DEF Ask
<1>10. ASSUME Put(t) \/ FileWrite(t) \/ \E i \in Ids : Erase(t, i)
       PROVE  TellInv'
  <2>1. pc[t] = "idle" /\ pc'[t] \in {"logging", "idle"}
    BY <1>10, <1>a DEF Put, FileWrite, Erase, Pass
  <2>2. UNCHANGED <<registered, log>> /\ (WriteUnderKey \/ EraseUnderKeys)
    BY <1>10 DEF Put, FileWrite, Erase
  <2> QED
    BY <2>1, <2>2, KeysTouched, TellKept
<1>2. ASSUME NEW i \in Ids, Create(t, i) PROVE TellInv'
  <2>1. registered' = [registered EXCEPT ![i] = "create" = "create"]
    BY <1>2 DEF Create, Register
  <2> QED
    BY <1>2, <2>1, TellBegun DEF Create, TenantChange
<1>3. ASSUME NEW i \in Ids, Delete(t, i) PROVE TellInv'
  <2>1. registered' = [registered EXCEPT ![i] = "delete" = "create"]
    BY <1>3 DEF Delete
  <2> QED
    BY <1>3, <2>1, TellBegun DEF Delete, TenantChange
<1>4. CASE Reply(t)
  <2>1. pc[t] = "asking" /\ pc'[t] \notin {"saving", "noting"}
    <3>1. JobOK(t) /\ pc[t] = "asking"
      BY <1>4 DEF TypeOK, Reply
    <3>2. job[t].what \in Work
      BY <3>1 DEF JobOK
    <3>3. CASE job[t].what \in {"run_stream", "chat_stream"}
      <4>1. Goto(t, "emitting")
        BY <1>4, <3>3 DEF Reply
      <4> QED
        BY <3>1, <4>1, <1>c
    <3>4. CASE job[t].what = "run"
      <4>1. Goto(t, "persisting")
        BY <1>4, <3>4 DEF Reply
      <4> QED
        BY <3>1, <4>1, <1>c
    <3>5. CASE job[t].what = "chat"
      <4>1. Goto(t, "charging")
        BY <1>4, <3>5 DEF Reply
      <4> QED
        BY <3>1, <4>1, <1>c
    <3> QED
      BY <3>2, <3>3, <3>4, <3>5 DEF Work
  <2> QED
    BY <1>4, <2>1, TellKept DEF Reply
<1>5. CASE Emit(t) \/ GiveUp(t) \/ Persist(t) \/ Charge(t) \/ Answer(t)
  <2>1. pc[t] \notin {"saving", "noting"} /\ pc'[t] \in {"idle", "persisting", "charging", "answering"}
    BY <1>5, <1>b, <1>c DEF Emit, GiveUp, Persist, Charge, Answer
  <2>2. UNCHANGED <<registered, saved, clean, log>>
    BY <1>5 DEF Emit, GiveUp, Persist, Charge, Answer
  <2> QED
    BY <2>1, <2>2, TellKept
<1>7. CASE Log(t)
  <2>1. pc[t] = "logging" /\ pc'[t] = "idle" /\ UNCHANGED <<registered, saved, clean>>
    BY <1>7, <1>b DEF Log
  <2>2. job[t] \in Entry /\ JobOK(t)
    BY <2>1, EntryType DEF TypeOK
  <2>3. job[t].what \notin TenantChange
    BY <2>1, <2>2 DEF JobOK, TenantChange, EngineChange
  <2> QED
    BY <1>7, <2>1, <2>2, <2>3, TellKept DEF Log
<1>8. CASE RefuseKey(t)
  <2>1. pc[t] = "idle" /\ pc'[t] = "idle" /\ UNCHANGED <<registered, saved, clean>>
    BY <1>8 DEF RefuseKey, Pass
  <2>2. turns + 1 \in Turns
    BY <1>8, PassType DEF RefuseKey
  <2> DEFINE e == [turn |-> turns + 1, what |-> "auth", id |-> None]
  <2>3. e \in Entry /\ e.what \notin TenantChange
    BY <2>2 DEF Entry, TenantChange
  <2>4. log' = log \/ log' = Append(log, e)
    BY <1>8 DEF RefuseKey
  <2> HIDE DEF e
  <2> QED
    BY <2>1, <2>3, <2>4, TellKept
<1>9. CASE ReadLog(t) \/ CountEntries(t) \/ HashOf(t) \/ SendReport(t)
  <2>1. pc[t] \notin {"saving", "noting"} /\ pc'[t] \in {"idle", "counting", "hashing", "reported"}
    <3>1. ASSUME ReadLog(t) PROVE pc'[t] = "counting" /\ pc[t] \notin {"saving", "noting"}
      BY <1>a, <3>1 DEF ReadLog
    <3> QED
      BY <1>9, <1>b, <1>c, <3>1 DEF CountEntries, HashOf, SendReport
  <2>2. UNCHANGED <<registered, saved, clean, log>>
    BY <1>9 DEF ReadLog, CountEntries, HashOf, SendReport
  <2> QED
    BY <2>1, <2>2, TellKept
<1> QED
  BY <1>1, <1>2, <1>3, <1>4, <1>5, <1>7, <1>8, <1>9, <1>10, TellSaved, TellNoted DEF Step

\* A restart reads the registry from the database.
LEMMA TellRestart == TypeOK /\ TellInv /\ Restart => TellInv'
<1> SUFFICES ASSUME TypeOK, TellInv, Restart, NEW i \in Ids, clean'[i]
             PROVE  /\ Changing(i)' = {}
                    /\ registered'[i] = saved'[i] /\ (registered'[i] <=> LogSays(i)')
  BY DEF TellInv, Told
<1>1. clean[i] /\ Changing(i) = {} /\ registered' = saved /\ UNCHANGED <<saved, log>>
  BY DEF Restart
<1>2. LogSays(i)' <=> LogSays(i)
  BY <1>1 DEF LogSays
<1>3. Changing(i)' = {}
  BY DEF Restart, Changing
<1> QED
  BY <1>1, <1>2, <1>3 DEF TellInv, Told

\* Registry, database and audit log agree on every tenant whose last changes
\* overlapped no other and met no failure and no crash, and under whose key no
\* other request has written or erased since.
THEOREM AllAgree == Spec => []LogTellsTenants
<1>1. Init => TellInv
  <2> SUFFICES ASSUME Init PROVE TellInv
    OBVIOUS
  <2>1. \A i \in Ids : Changing(i) = {} /\ ~LogSays(i)
    BY DEF Init, Changing, LogSays
  <2> QED
    BY <2>1 DEF Init, TellInv, Told, Nobody
<1>2. TypeOK /\ TellInv /\ [Next]_vars => TellInv'
  <2>1. ASSUME TellInv, UNCHANGED vars PROVE TellInv'
    BY <2>1 DEF TellInv, Told, Changing, LogSays, vars, threadVars, dataVars, auditVars, historyVars
  <2> QED
    BY <2>1, TellStep, TellRestart DEF Next
<1>3. TypeOK /\ TellInv => LogTellsTenants
  <2> SUFFICES ASSUME TypeOK, TellInv, NEW i \in Ids, clean[i], Changing(i) = {}
               PROVE  registered[i] = saved[i] /\ registered[i] = LogSays(i)
    BY DEF LogTellsTenants
  <2>1. LogSays(i) \in BOOLEAN /\ registered[i] \in BOOLEAN
    BY DEF LogSays, TypeOK
  <2> QED
    BY <2>1 DEF TellInv, Told
<1> QED
  BY <1>1, <1>2, <1>3, TypeCorrect, PTL DEF Spec

-----------------------------------------------------------------------------
(* The refinement.  What Registry sees of a thread is the change it has    *)
(* made and not yet saved, so every step but the restart, Create, Delete   *)
(* and Save, and those that write or erase under keys of their own choice, *)
(* is a step elsewhere.                                                    *)

NoChange == [id |-> None, key |-> None]

Unsaved == [t \in Threads |->
    IF pc[t] = "saving"
    THEN [id |-> job[t].id, key |-> KeyOf(job[t].id, job[t].what = "create")]
    ELSE NoChange]

Keyed(f) == [i \in Ids |-> KeyOf(i, f[i])]

\* It changes with the thread's own steps only.
LEMMA SeenOfOthers ==
  ASSUME TypeOK, NEW t \in Threads, NEW p, NEW j,
         pc' = [pc EXCEPT ![t] = p], job' = [job EXCEPT ![t] = j]
  PROVE  Unsaved' = [Unsaved EXCEPT ![t] =
            IF p = "saving" THEN [id |-> j.id, key |-> KeyOf(j.id, j.what = "create")]
            ELSE NoChange]
BY DEF TypeOK, Unsaved

\* A step that leaves the map and its copy alone, and at whose beginning and
\* end the thread is not between a change and its copy.
LEMMA UnseenSteps ==
  ASSUME TypeOK, NEW t \in Threads, NEW p, NEW j,
         pc' = [pc EXCEPT ![t] = p], job' = [job EXCEPT ![t] = j],
         pc[t] # "saving", p # "saving",
         UNCHANGED <<registered, saved>>
  PROVE  UNCHANGED Promise!vars
<1>1. Unsaved' = [Unsaved EXCEPT ![t] = NoChange] /\ Unsaved[t] = NoChange
  BY SeenOfOthers DEF Unsaved
<1>2. Unsaved' = Unsaved
  BY <1>1 DEF Unsaved
<1> QED
  BY <1>2 DEF Promise!vars, Unsaved, NoChange

LEMMA RequestsRefine ==
  ASSUME TypeOK, NEW t \in Threads,
         \/ \E i \in Ids, what \in Work : Ask(t, what, i)
         \/ Reply(t) \/ Emit(t) \/ GiveUp(t) \/ Persist(t) \/ Charge(t) \/ Answer(t)
         \/ Note(t) \/ Log(t) \/ RefuseKey(t)
         \/ ReadLog(t) \/ CountEntries(t) \/ HashOf(t) \/ SendReport(t)
  PROVE  UNCHANGED Promise!vars
<1> DEFINE Unseen == /\ pc[t] # "saving" /\ UNCHANGED <<registered, saved>>
                     /\ \E p, j : /\ p # "saving"
                                 /\ pc' = [pc EXCEPT ![t] = p]
                                 /\ job' = [job EXCEPT ![t] = j]
<1> SUFFICES Unseen
  BY UnseenSteps
<1>1. ASSUME NEW p, NEW what, NEW i, Begin(t, p, what, i), p # "saving",
             UNCHANGED <<registered, saved>>
      PROVE  Unseen
  BY <1>1 DEF Begin
<1>2. ASSUME NEW p, Goto(t, p), p # "saving", pc[t] # "saving",
             UNCHANGED <<registered, saved>>
      PROVE  Unseen
  <2>1. job' = [job EXCEPT ![t] = job[t]]
    BY <1>2 DEF Goto, TypeOK
  <2> QED
    BY <1>2, <2>1 DEF Goto
<1>3. ASSUME Done(t), pc[t] # "saving", UNCHANGED <<registered, saved>>
      PROVE  Unseen
  BY <1>3 DEF Done
<1>4. ASSUME UNCHANGED <<pc, job, registered, saved>>, pc[t] = "idle"
      PROVE  Unseen
  BY <1>4 DEF TypeOK
<1> HIDE DEF Unseen
<1> USE DEF auditVars, historyVars, dataVars, threadVars
<1>5. CASE \E i \in Ids, what \in Work : Ask(t, what, i)
  BY <1>1, <1>5 DEF Ask
<1>6. CASE Reply(t)
  <2>1. JobOK(t) /\ pc[t] = "asking" /\ UNCHANGED <<registered, saved>>
    BY <1>6 DEF TypeOK, Reply
  <2>2. PICK p \in {"emitting", "persisting", "charging"} : Goto(t, p)
    BY <1>6, <2>1 DEF Reply, JobOK, Work
  <2> QED
    BY <1>2, <2>1, <2>2
<1>7. CASE Emit(t) \/ GiveUp(t) \/ Persist(t) \/ Charge(t) \/ Answer(t)
  BY <1>2, <1>3, <1>7 DEF Emit, GiveUp, Persist, Charge, Answer
<1>8. CASE Note(t) \/ Log(t)
  BY <1>3, <1>8 DEF Note, Log
<1>9. CASE RefuseKey(t)
  BY <1>4, <1>9 DEF RefuseKey, Pass
<1>10. CASE ReadLog(t) \/ CountEntries(t) \/ HashOf(t) \/ SendReport(t)
  BY <1>1, <1>2, <1>3, <1>10 DEF ReadLog, CountEntries, HashOf, SendReport
<1> QED
  BY <1>5, <1>6, <1>7, <1>8, <1>9, <1>10

\* A step that writes or erases under keys of its own choice.
LEMMA WritesRefine ==
  ASSUME TypeOK, NEW t \in Threads,
         Put(t) \/ FileWrite(t) \/ \E i \in Ids : Erase(t, i)
  PROVE  Promise!Next
<1>1. UNCHANGED registered /\ (WriteUnderKey \/ EraseUnderKeys)
  BY DEF Put, FileWrite, Erase
<1>2. Unsaved' = Unsaved
  <2>1. CASE Pass(t)
    BY <2>1 DEF Pass, Unsaved
  <2>2. ASSUME NEW what, NEW i, Begin(t, "logging", what, i)
        PROVE  Unsaved' = Unsaved
    <3>1. Unsaved' = [Unsaved EXCEPT ![t] = NoChange] /\ Unsaved[t] = NoChange
      BY <2>2, SeenOfOthers DEF Begin, Unsaved
    <3> QED
      BY <3>1 DEF Unsaved
  <2> QED
    BY <2>1, <2>2 DEF Put, FileWrite, Erase
<1>3. ASSUME NEW i \in Ids, Keyed(saved)' = [Keyed(saved) EXCEPT ![i] = i]
      PROVE  Promise!Overwrite(i)
  BY <1>1, <1>2, <1>3 DEF Promise!Overwrite, Unsaved, NoChange, Keyed
<1>4. ASSUME NEW gone \in SUBSET Ids,
             Keyed(saved)' = [i \in Ids |-> IF i \in gone THEN None ELSE Keyed(saved)[i]]
      PROVE  Promise!Wipe
  BY <1>1, <1>2, <1>4 DEF Promise!Wipe, Unsaved, NoChange, Keyed
<1>5. CASE UNCHANGED saved
  <2>1. Promise!Elsewhere
    BY <1>1, <1>2, <1>5 DEF Promise!Elsewhere, Promise!vars, Unsaved, NoChange
  <2> QED
    BY <2>1 DEF Promise!Next
<1>6. ASSUME NEW i \in Ids, saved' = [saved EXCEPT ![i] = ~@]
      PROVE  Promise!Next
  <2>1. CASE saved[i]
    <3>1. Keyed(saved)' = [j \in Ids |-> IF j \in {i} THEN None ELSE Keyed(saved)[j]]
      BY <1>6, <2>1 DEF TypeOK, Keyed, KeyOf
    <3>2. {i} \in SUBSET Ids
      OBVIOUS
    <3> QED
      BY <1>4, <3>1, <3>2 DEF Promise!Next
  <2>2. CASE ~saved[i]
    <3>1. Keyed(saved)' = [Keyed(saved) EXCEPT ![i] = i]
      BY <1>6, <2>2 DEF TypeOK, Keyed, KeyOf
    <3> QED
      BY <1>3, <3>1 DEF Promise!Next
  <2> QED
    BY <2>1, <2>2
<1>7. ASSUME NEW dropped \in SUBSET Ids,
             saved' = [i \in Ids |-> saved[i] /\ i \notin dropped]
      PROVE  Promise!Next
  <2>1. Keyed(saved)' = [i \in Ids |-> IF i \in dropped THEN None ELSE Keyed(saved)[i]]
    BY <1>7 DEF TypeOK, Keyed, KeyOf
  <2> QED
    BY <1>4, <2>1 DEF Promise!Next
<1>8. {i \in Ids : saved[i]} \in SUBSET Ids
  OBVIOUS
<1> QED
  BY <1>1, <1>5, <1>6, <1>7, <1>8 DEF WriteUnderKey, EraseUnderKeys

\* The first step of a create or a delete.
LEMMA ChangeRefines ==
  ASSUME TypeOK, NEW t \in Threads, NEW i \in Ids, NEW what \in TenantChange,
         Begin(t, "saving", what, i),
         registered' = [registered EXCEPT ![i] = what = "create"], UNCHANGED saved
  PROVE  Promise!Change(t, i, KeyOf(i, what = "create"))
<1> DEFINE k == KeyOf(i, what = "create")
<1>1. Unsaved' = [Unsaved EXCEPT ![t] = [id |-> i, key |-> k]]
  BY SeenOfOthers DEF Begin
<1>2. Unsaved[t] = NoChange
  BY DEF Begin, Unsaved
<1>3. Keyed(registered)' = [Keyed(registered) EXCEPT ![i] = k]
  BY DEF TypeOK, Keyed
<1> QED
  BY <1>1, <1>2, <1>3
  DEF Promise!Change, Promise!Free, Promise!Nothing, Unsaved, NoChange, Keyed

\* The database has this change, or what it had.
LEMMA SaveRefines ==
  ASSUME TypeOK, NEW t \in Threads, Save(t)
  PROVE  Promise!Save(t)
<1> DEFINE i == job[t].id
           create == job[t].what = "create"
<1>1. pc[t] = "saving" /\ i \in Ids /\ i # None
  BY JobFacts, NoneAssumption DEF Save
<1>2. Unsaved' = [Unsaved EXCEPT ![t] = NoChange]
  <2>1. PICK p \in {"noting", "idle"} :
            \E j : pc' = [pc EXCEPT ![t] = p] /\ job' = [job EXCEPT ![t] = j]
    <3>1. CASE Goto(t, "noting")
      <4>1. job' = [job EXCEPT ![t] = job[t]]
        BY <3>1 DEF Goto, TypeOK
      <4> QED
        BY <3>1, <4>1 DEF Goto
    <3>2. CASE Done(t)
      BY <3>2 DEF Done
    <3> QED
      BY <3>1, <3>2 DEF Save
  <2> QED
    BY <2>1, SeenOfOthers
<1>3. Unsaved[t] = [id |-> i, key |-> KeyOf(i, create)]
  BY <1>1 DEF Unsaved
<1>4. saved' \in {saved, [saved EXCEPT ![i] = create]}
  BY DEF Save
<1>5. Keyed(saved)' \in {Keyed(saved), [Keyed(saved) EXCEPT ![i] = KeyOf(i, create)]}
  <2>1. CASE saved' = saved
    BY <2>1 DEF Keyed
  <2>2. CASE saved' = [saved EXCEPT ![i] = create]
    BY <1>1, <2>2 DEF Keyed, TypeOK
  <2> QED
    BY <1>4, <2>1, <2>2
<1>6. Unsaved[t] # NoChange
  BY <1>1, <1>3 DEF NoChange
<1>7. UNCHANGED registered
  BY DEF Save
<1> QED
  BY <1>2, <1>3, <1>5, <1>6, <1>7
  DEF Promise!Save, Promise!Nothing, Unsaved, NoChange, Keyed

\* Beside everything else that a request leaves behind, tenants are created,
\* deleted and saved as module Registry says, and the copy is touched by others
\* only as it allows: Records implements Registry, for any threads, tenants and
\* number of requests (handlers.rs:2683-2700 and 2776-2791 against main.rs:80).
THEOREM RegistryImplemented == Spec => ImplementsRegistry
<1>1. Init => Promise!Init
  <2> SUFFICES ASSUME Init PROVE Promise!Init
    OBVIOUS
  <2>1. Unsaved = [t \in Threads |-> NoChange]
    BY DEF Init, Unsaved
  <2>2. Keyed(registered) = [i \in Ids |-> None] /\ Keyed(saved) = [i \in Ids |-> None]
    BY DEF Init, Nobody, Keyed, KeyOf
  <2> QED
    BY <2>1, <2>2 DEF Promise!Init, Promise!Nothing, Unsaved, NoChange, Keyed
<1>2. TypeOK /\ [Next]_vars => [Promise!Next]_Promise!vars
  <2> SUFFICES ASSUME TypeOK, [Next]_vars
               PROVE  Promise!Next \/ UNCHANGED Promise!vars
    OBVIOUS
  <2>1. CASE UNCHANGED vars
    BY <2>1 DEF vars, threadVars, dataVars, Promise!vars
  <2>2. CASE Restart
    <3>1. Unsaved' = [t \in Threads |-> NoChange]
      BY <2>2 DEF Restart, Unsaved
    <3>2. Keyed(registered)' = Keyed(saved) /\ Keyed(saved)' = Keyed(saved)
      BY <2>2 DEF Restart, Keyed
    <3>3. Promise!Restart
      BY <3>1, <3>2 DEF Promise!Restart, Promise!Nothing, Unsaved, NoChange, Keyed
    <3> QED
      BY <3>3 DEF Promise!Next
  <2>3. ASSUME NEW t \in Threads, NEW i \in Ids, Create(t, i)
        PROVE  Promise!Create(t, i)
    <3>1. Promise!Change(t, i, KeyOf(i, "create" = "create"))
      BY <2>3, ChangeRefines DEF Create, Register, TenantChange
    <3> QED
      BY <2>3, <3>1 DEF Create, Promise!Create, KeyOf
  <2>4. ASSUME NEW t \in Threads, NEW i \in Ids, Delete(t, i)
        PROVE  Promise!Delete(t, i)
    <3>1. Promise!Change(t, i, KeyOf(i, "delete" = "create"))
      BY <2>4, ChangeRefines DEF Delete, TenantChange
    <3> QED
      BY <2>4, <3>1, NoneAssumption DEF Delete, Promise!Delete, KeyOf
  <2>5. ASSUME NEW t \in Threads, Step(t)
        PROVE  Promise!Next \/ UNCHANGED Promise!vars
    <3>1. CASE Save(t)
      BY <3>1, SaveRefines DEF Promise!Next
    <3>2. CASE \E i \in Ids : Create(t, i) \/ Delete(t, i)
      BY <2>3, <2>4, <3>2 DEF Promise!Next
    <3>3. CASE Put(t) \/ FileWrite(t) \/ \E i \in Ids : Erase(t, i)
      BY <3>3, WritesRefine
    <3> QED
      BY <2>5, <3>1, <3>2, <3>3, RequestsRefine DEF Step
  <2> QED
    BY <2>1, <2>2, <2>5 DEF Next
<1> QED
  BY <1>1, <1>2, TypeCorrect, PTL DEF Spec, ImplementsRegistry, Promise!Spec
=============================================================================
