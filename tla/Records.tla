------------------------------- MODULE Records -------------------------------
(***************************************************************************)
(* What requests leave behind: the results of runs in the database, the    *)
(* charge in the tenant's usage, and the entry in the audit log; and what  *)
(* is left of each when the client hangs up, a thread panics, a write      *)
(* fails or the process ends in between.                                   *)
(*                                                                         *)
(* The work of a tenant is done by the model or a workflow, outside every  *)
(* lock.  When it is done, a stream is written to the client, the result   *)
(* of a run is stored, the tenant is charged, and the request answered, in *)
(* this order and in separate steps.  A document is put, or data erased,   *)
(* under the engine's lock, which is held until the audit log has its      *)
(* entry, and under keys that may be those of results and tenants.  A      *)
(* tenant is created or deleted in the registry, then in the database,     *)
(* then in the audit log, each under a lock of its own.                    *)
(*                                                                         *)
(* Abstracted: the requests of a behaviour are numbered as they begin (for *)
(* a change, as it is made), and a result, a charge or an entry is the     *)
(* number of its request.  Whether a key and a quota let a request in is   *)
(* the matter of Tenants: here, any registered tenant's request may begin. *)
(***************************************************************************)
EXTENDS Integers, Sequences

CONSTANTS
    Threads,    \* connection threads
    Ids,        \* tenant ids
    RunIds,     \* ids of runs: ulflow chooses them, and may repeat itself
    None,       \* no tenant, no result
    MaxTurns    \* bound of the model: the requests of a behaviour

ASSUME TurnsAssumption == MaxTurns \in Nat

ASSUME NoneAssumption == None \notin Ids \cup Nat

VARIABLES
    turns,      \* how many requests have begun
    pc,         \* where each thread stands
    job,        \* the request each thread serves
    runs,       \* the stored results, by tenant and id of the run
    usage,      \* TenantRegistry.usage: the requests each tenant is charged
    registered, \* TenantRegistry.tenants
    saved,      \* the tenants in the database
    log,        \* the audit log
    report,     \* what an audit report has gathered
    made,       \* history: the puts and erasures that were made
    lost,       \* history: those whose entry could not be written
    clean,      \* history: no failure, crash or overlap of a tenant's change,
                \* and no write or erasure by others under its key
    answered,   \* history: the requests of tenants whose answer was written
    wiped,      \* history: the requests whose usage record was dropped
    before      \* history: the requests that were over when a tenant began

threadVars == <<turns, pc, job>>
dataVars == <<runs, usage, registered, saved>>
auditVars == <<log, report>>
historyVars == <<made, lost, clean, answered, wiped, before>>
vars == <<threadVars, dataVars, auditVars, historyVars>>

-----------------------------------------------------------------------------

Turns == 1 .. MaxTurns

Work == {"run", "run_stream", "chat", "chat_stream"}
TenantChange == {"create", "delete"}
EngineChange == {"put", "erase"}

\* The entries of the audit log: the changes, puts that failed, and keys
\* that were refused.
Entry == [turn : Turns, what : TenantChange \cup EngineChange \cup {"failed_put", "auth"},
          id : Ids \cup {None}]

NoJob == [turn |-> 0, what |-> "none", id |-> None]

\* Where a request of a tenant, a change and an audit report may stand.
PC == {"idle"}
   \cup {"asking", "emitting", "persisting", "charging", "answering"}
   \cup {"saving", "noting"} \cup {"logging"}
   \cup {"counting", "hashing", "reported"}

\* The threads between the first step of a change of tenant i and its entry.
Changing(i) == {t \in Threads : pc[t] \in {"saving", "noting"} /\ job[t].id = i}

\* The requests that are under way.
Running == {job[t].turn : t \in Threads}

\* Mutant of EngineFree: a put gives the lock up before it is logged.
EngineFreeAfterPut ==
    \A t \in Threads : ~(pc[t] = "logging" /\ job[t].what = "erase")

\* Nobody holds the engine's lock: it is held over the entry of a put or an
\* erasure, and otherwise within single steps.
EngineFree == \A t \in Threads : pc[t] # "logging"

Goto(t, p) ==
    /\ pc' = [pc EXCEPT ![t] = p]
    /\ UNCHANGED <<turns, job>>

Begin(t, p, what, i) ==
    /\ pc[t] = "idle" /\ turns < MaxTurns
    /\ turns' = turns + 1
    /\ pc' = [pc EXCEPT ![t] = p]
    /\ job' = [job EXCEPT ![t] = [turn |-> turns + 1, what |-> what, id |-> i]]

\* A request that is over in one step.
Pass(t) ==
    /\ pc[t] = "idle" /\ turns < MaxTurns
    /\ turns' = turns + 1
    /\ UNCHANGED <<pc, job>>

Done(t) ==
    /\ pc' = [pc EXCEPT ![t] = "idle"]
    /\ job' = [job EXCEPT ![t] = NoJob]
    /\ UNCHANGED turns

-----------------------------------------------------------------------------

Nothing == [i \in Ids |-> [r \in RunIds |-> None]]
Nobody == [i \in Ids |-> FALSE]

Init ==
    /\ turns = 0
    /\ pc = [t \in Threads |-> "idle"]
    /\ job = [t \in Threads |-> NoJob]
    /\ runs = Nothing
    /\ usage = [i \in Ids |-> {}]
    /\ registered = Nobody
    /\ saved = Nobody
    /\ log = <<>>
    /\ report = [t \in Threads |-> <<>>]
    /\ made = {} /\ lost = {} /\ answered = {} /\ wiped = {}
    /\ clean = [i \in Ids |-> TRUE]
    /\ before = [i \in Ids |-> {}]

\* The process ends at any point and is started again: the threads, the
\* registry and its usage are gone, the database and the audit log stay.
Restart ==
    /\ pc' = [t \in Threads |-> "idle"]
    /\ job' = [t \in Threads |-> NoJob]
    /\ report' = [t \in Threads |-> <<>>]
    /\ registered' = saved
    /\ usage' = [i \in Ids |-> {}]
    /\ lost' = lost \cup {job[t].turn : t \in {u \in Threads :
                              pc[u] = "logging" /\ job[u].what \in EngineChange}}
    /\ clean' = [i \in Ids |-> clean[i] /\ Changing(i) = {}]
    /\ wiped' = 1 .. turns
    /\ before' = [i \in Ids |-> 1 .. turns]
    /\ UNCHANGED <<turns, runs, saved, log, made, answered>>

-----------------------------------------------------------------------------
(* The work of tenants: handle_run_for_tenant, handle_run_named_for_tenant *)
(* and handle_run_stream_for_tenant, which store what they did, and        *)
(* handle_chat_for_tenant and handle_chat_stream_for_tenant.               *)

Ask(t, what, i) ==
    /\ registered[i]
    /\ Begin(t, "asking", what, i)
    /\ UNCHANGED <<dataVars, auditVars, historyVars>>

\* The model has answered, or the workflow is done.
Reply(t) ==
    /\ pc[t] = "asking"
    /\ Goto(t, CASE job[t].what \in {"run_stream", "chat_stream"} -> "emitting"
                 [] job[t].what = "run" -> "persisting"
                 [] job[t].what = "chat" -> "charging")
    /\ UNCHANGED <<dataVars, auditVars, historyVars>>

\* Mutant of Emit: every stream is stored as a run.
EmitPersists(t) ==
    /\ pc[t] = "emitting"
    /\ Goto(t, "persisting")
    /\ UNCHANGED <<dataVars, auditVars, historyVars>>

\* The chunks or outputs go to the client.
Emit(t) ==
    /\ pc[t] = "emitting"
    /\ Goto(t, IF job[t].what = "run_stream" THEN "persisting" ELSE "charging")
    /\ UNCHANGED <<dataVars, auditVars, historyVars>>

\* The work failed; the client of a stream went away, and `?` returns; or a
\* slice of an output panics inside a character, before any lock is taken.
GiveUp(t) ==
    /\ pc[t] \in {"asking", "emitting", "persisting"}
    /\ Done(t)
    /\ UNCHANGED <<dataVars, auditVars, historyVars>>

\* Mutant of Persist: the run is answered before it is charged, and a client
\* that went away ends the handler.
PersistThenAnswer(t) ==
    /\ pc[t] = "persisting" /\ EngineFree
    /\ \/ \E r \in RunIds : runs' = [runs EXCEPT ![job[t].id][r] = job[t].turn]
       \/ UNCHANGED runs
    /\ Goto(t, "charging") \/ Done(t)
    /\ UNCHANGED <<usage, registered, saved, auditVars, historyVars>>

\* persist_run_result_for_tenant: an earlier result with the id is replaced,
\* and an error is dropped.
Persist(t) ==
    /\ pc[t] = "persisting" /\ EngineFree
    /\ \/ \E r \in RunIds : runs' = [runs EXCEPT ![job[t].id][r] = job[t].turn]
       \/ UNCHANGED runs
    /\ Goto(t, "charging")
    /\ UNCHANGED <<usage, registered, saved, auditVars, historyVars>>

\* record_tenant_usage.
Charge(t) ==
    /\ pc[t] = "charging"
    /\ usage' = [usage EXCEPT ![job[t].id] = @ \cup {job[t].turn}]
    /\ Goto(t, "answering")
    /\ UNCHANGED <<runs, registered, saved, auditVars, historyVars>>

\* The answer, or the last event of a stream, is written to the client, which
\* it may not reach.
Answer(t) ==
    /\ pc[t] = "answering"
    /\ answered' = answered \cup {job[t].turn}
    /\ Done(t)
    /\ UNCHANGED <<dataVars, auditVars, made, lost, clean, wiped, before>>

-----------------------------------------------------------------------------
(* handle_create_tenant and handle_delete_tenant: the registry, then the   *)
(* database, then the audit log.  An error of the database returns before  *)
(* the entry.                                                              *)

\* Two changes of a tenant overlap, or this one is alone.
NoteOverlap(i) ==
    clean' = [clean EXCEPT ![i] = Changing(i) = {}]

\* Mutant of Register: the usage record is kept if there is one.
RegisterKeepsUsage(i) ==
    /\ registered' = [registered EXCEPT ![i] = TRUE]
    /\ before' = [before EXCEPT ![i] = (1 .. turns) \ Running]
    /\ UNCHANGED <<usage, wiped>>

\* A new usage record takes the place of what is there under the id.
Register(i) ==
    /\ registered' = [registered EXCEPT ![i] = TRUE]
    /\ usage' = [usage EXCEPT ![i] = {}]
    /\ wiped' = wiped \cup usage[i]
    /\ before' = [before EXCEPT ![i] = (1 .. turns) \ Running]

Create(t, i) ==
    /\ ~registered[i]                   \* else 400
    /\ Begin(t, "saving", "create", i)
    /\ Register(i)
    /\ NoteOverlap(i)
    /\ UNCHANGED <<runs, saved, auditVars, made, lost, answered>>

Delete(t, i) ==
    /\ registered[i]                    \* else 404
    /\ Begin(t, "saving", "delete", i)
    /\ registered' = [registered EXCEPT ![i] = FALSE]
    /\ usage' = [usage EXCEPT ![i] = {}]
    /\ wiped' = wiped \cup usage[i]
    /\ NoteOverlap(i)
    /\ UNCHANGED <<runs, saved, auditVars, made, lost, answered, before>>

\* Mutant of Save: an error of the database is dropped, as it is for runs.
SaveDropsError(t) ==
    LET after == [saved EXCEPT ![job[t].id] = job[t].what = "create"]
    IN  /\ pc[t] = "saving" /\ EngineFree
        /\ saved' \in {saved, after}
        /\ Goto(t, "noting")
        /\ UNCHANGED <<runs, usage, registered, auditVars, historyVars>>

\* Mutant of Save: the registry is saved as it is by then.
SaveRegistered(t) ==
    /\ pc[t] = "saving" /\ EngineFree
    /\ saved' = [saved EXCEPT ![job[t].id] = registered[job[t].id]]
    /\ Goto(t, "noting")
    /\ UNCHANGED <<runs, usage, registered, auditVars, historyVars>>

\* save_tenant or delete_tenant; on an error the write may have been made.
Save(t) ==
    LET i == job[t].id
        after == [saved EXCEPT ![i] = job[t].what = "create"]
    IN  /\ pc[t] = "saving" /\ EngineFree
        /\ \/ /\ saved' = after
              /\ Goto(t, "noting")
              /\ UNCHANGED clean
           \/ /\ saved' \in {saved, after}
              /\ Done(t)
              /\ clean' = [clean EXCEPT ![i] = FALSE]
        /\ UNCHANGED <<runs, usage, registered, auditVars, made, lost, answered,
                       wiped, before>>

\* `let _ = audit.record..`: an entry that cannot be written is forgotten.
Note(t) ==
    /\ pc[t] = "noting"
    /\ \/ log' = Append(log, job[t]) /\ UNCHANGED clean
       \/ clean' = [clean EXCEPT ![job[t].id] = FALSE] /\ UNCHANGED log
    /\ Done(t)
    /\ UNCHANGED <<dataVars, report, made, lost, answered, wiped, before>>

-----------------------------------------------------------------------------
(* Documents, results and the definitions of tenants are in one database,  *)
(* and requests write and erase under keys of their own choice.            *)

\* The results `gone` are there no longer.
LoseResults(gone) ==
    runs' = [i \in Ids |-> [r \in RunIds |->
                IF <<i, r>> \in gone THEN None ELSE runs[i][r]]]

\* A document is written: under a key of its own, over a result, over the
\* definition of a tenant, or as one where none was.
WriteUnderKey ==
    \/ UNCHANGED <<runs, saved, clean>>
    \/ \E i \in Ids, r \in RunIds : LoseResults({<<i, r>>}) /\ UNCHANGED <<saved, clean>>
    \/ \E i \in Ids :
          /\ saved' = [saved EXCEPT ![i] = ~@]
          /\ clean' = [clean EXCEPT ![i] = FALSE]
          /\ UNCHANGED runs

\* Results and definitions are erased by a prefix or a list of their keys.
EraseUnderKeys ==
    \E gone \in SUBSET (Ids \X RunIds), dropped \in SUBSET {i \in Ids : saved[i]} :
        /\ LoseResults(gone)
        /\ saved' = [i \in Ids |-> saved[i] /\ i \notin dropped]
        /\ clean' = [i \in Ids |-> clean[i] /\ i \notin dropped]

\* handle_put and handle_gdpr_delete hold the engine's lock over the entry.
\* A put that fails may have written.
Put(t) ==
    /\ EngineFree
    /\ \/ Begin(t, "logging", "put", None) /\ made' = made \cup {turns + 1}
       \/ Begin(t, "logging", "failed_put", None) /\ UNCHANGED made
    /\ WriteUnderKey
    /\ UNCHANGED <<usage, registered, auditVars, lost, answered, wiped, before>>

\* A deletion request removes what is in its scope; when it fails it may have
\* removed some of it, and returns without an entry.
Erase(t, i) ==
    /\ EngineFree
    /\ \/ Begin(t, "logging", "erase", i) /\ made' = made \cup {turns + 1}
       \/ Pass(t) /\ UNCHANGED made
    /\ EraseUnderKeys
    /\ UNCHANGED <<usage, registered, auditVars, lost, answered, wiped, before>>

\* The tool file_write, in a call of its own or a run of no tenant: no entry.
FileWrite(t) ==
    /\ Pass(t) /\ EngineFree
    /\ WriteUnderKey
    /\ UNCHANGED <<usage, registered, auditVars, made, lost, answered, wiped, before>>

\* The entry of an erasure is of the kind of a tenant's deletion, and told
\* from one by its resource, the id of the request.
Log(t) ==
    /\ pc[t] = "logging"
    /\ \/ log' = Append(log, job[t]) /\ UNCHANGED lost
       \/ /\ lost' = lost \cup (IF job[t].what \in EngineChange THEN {job[t].turn} ELSE {})
          /\ UNCHANGED log
    /\ Done(t)
    /\ UNCHANGED <<dataVars, report, made, clean, answered, wiped, before>>

\* server.rs: a refused key leaves an entry.
RefuseKey(t) ==
    /\ Pass(t)
    /\ log' \in {log, Append(log, [turn |-> turns + 1, what |-> "auth", id |-> None])}
    /\ UNCHANGED <<dataVars, report, historyVars>>

-----------------------------------------------------------------------------
(* handle_audit: the file is read without the lock, and the number of      *)
(* entries and the hash of the last are asked for one after the other.     *)

ReadLog(t) ==
    /\ Begin(t, "counting", "report", None)
    /\ report' = [report EXCEPT ![t] = <<Len(log)>>]
    /\ UNCHANGED <<dataVars, log, historyVars>>

\* Mutant of CountEntries: the number of the last entry, which counts from 0.
CountEntriesFromZero(t) ==
    /\ pc[t] = "counting"
    /\ report' = [report EXCEPT ![t] = Append(@, Len(log) - 1)]
    /\ Goto(t, "hashing")
    /\ UNCHANGED <<dataVars, log, historyVars>>

CountEntries(t) ==
    /\ pc[t] = "counting"
    /\ report' = [report EXCEPT ![t] = Append(@, Len(log))]
    /\ Goto(t, "hashing")
    /\ UNCHANGED <<dataVars, log, historyVars>>

HashOf(t) ==
    /\ pc[t] = "hashing"
    /\ report' = [report EXCEPT ![t] = Append(@, Len(log))]
    /\ Goto(t, "reported")
    /\ UNCHANGED <<dataVars, log, historyVars>>

SendReport(t) ==
    /\ pc[t] = "reported"
    /\ report' = [report EXCEPT ![t] = <<>>]
    /\ Done(t)
    /\ UNCHANGED <<dataVars, log, historyVars>>

-----------------------------------------------------------------------------

Step(t) ==
    \/ \E i \in Ids :
          \/ \E what \in Work : Ask(t, what, i)
          \/ Create(t, i) \/ Delete(t, i) \/ Erase(t, i)
    \/ Reply(t) \/ Emit(t) \/ GiveUp(t) \/ Persist(t) \/ Charge(t) \/ Answer(t)
    \/ Save(t) \/ Note(t)
    \/ Put(t) \/ FileWrite(t) \/ Log(t) \/ RefuseKey(t)
    \/ ReadLog(t) \/ CountEntries(t) \/ HashOf(t) \/ SendReport(t)

Next == Restart \/ \E t \in Threads : Step(t)

Spec == Init /\ [][Next]_vars

-----------------------------------------------------------------------------
(* Properties.                                                             *)

\* A thread at work serves a request of the kind that its place is for.
JobOK(t) ==
    /\ pc[t] \in {"asking", "charging", "answering"} => job[t].what \in Work
    /\ pc[t] = "emitting" => job[t].what \in {"run_stream", "chat_stream"}
    /\ pc[t] = "persisting" => job[t].what \in {"run", "run_stream"}
    /\ pc[t] \in {"saving", "noting"} => job[t].what \in TenantChange
    /\ pc[t] = "logging" => job[t].what \in EngineChange \cup {"failed_put"}
    /\ pc[t] \in {"counting", "hashing", "reported"} => job[t].what = "report"
    /\ IF pc[t] = "idle" THEN job[t] = NoJob ELSE job[t].turn \in 1 .. turns
    /\ job[t].what \in Work \cup TenantChange => job[t].id \in Ids

TypeOK ==
    /\ turns \in 0 .. MaxTurns
    /\ pc \in [Threads -> PC]
    /\ job \in [Threads -> [turn : 0 .. MaxTurns, id : Ids \cup {None},
          what : Work \cup TenantChange \cup EngineChange
                \cup {"failed_put", "report", "none"}]]
    /\ runs \in [Ids -> [RunIds -> Turns \cup {None}]]
    /\ usage \in [Ids -> SUBSET Turns]
    /\ registered \in [Ids -> BOOLEAN]
    /\ saved \in [Ids -> BOOLEAN]
    /\ log \in Seq(Entry)
    /\ report \in [Threads -> Seq(Nat)]
    /\ made \in SUBSET Turns /\ lost \in SUBSET Turns
    /\ clean \in [Ids -> BOOLEAN]
    /\ answered \in SUBSET Turns /\ wiped \in SUBSET Turns
    /\ before \in [Ids -> SUBSET Turns]
    /\ \A t \in Threads : JobOK(t)

\* The audit log has the puts and the erasures in the order they were made:
\* each one that was made once, none that was not, all but the one whose
\* entry is being written and those whose entry could not be.
EngineEntries == {a \in DOMAIN log : log[a].what \in EngineChange}

LogFollowsEngine ==
    /\ \A a, b \in EngineEntries : a < b => log[a].turn < log[b].turn
    /\ {log[a].turn : a \in EngineEntries} =
          made \ (lost \cup {job[t].turn : t \in {u \in Threads : pc[u] = "logging"}})

\* What the audit log says last of a tenant.
LogSays(i) ==
    \E a \in DOMAIN log :
        /\ log[a].what = "create" /\ log[a].id = i
        /\ \A b \in DOMAIN log : b > a => ~(log[b].what = "delete" /\ log[b].id = i)

\* A create or delete that overlapped no other one of its tenant, and met no
\* failure and no crash, leaves registry, database and audit log agreeing on
\* the tenant, whatever they were before, until another request writes or
\* erases under its key.
LogTellsTenants ==
    \A i \in Ids : clean[i] /\ Changing(i) = {} =>
        registered[i] = saved[i] /\ registered[i] = LogSays(i)

\* The result of a run is in the database, and an answer is written to its
\* end, only if its tenant was charged, is being charged, or has lost its
\* usage record since, however clients hang up, threads panic and changes
\* interleave.
Charged == UNION {usage[i] : i \in Ids}
Stored == {runs[i][r] : i \in Ids, r \in RunIds} \ {None}

WorkIsCharged ==
    Stored \cup answered \subseteq
        Charged \cup wiped \cup {job[t].turn : t \in {u \in Threads : pc[u] = "charging"}}

\* The usage of a tenant that was deleted and created again shows no request
\* that was over by then, even when one was charged in between, which makes
\* a record for a tenant that is not there.
FreshStart ==
    \A i \in Ids : usage[i] \cap before[i] = {}

\* The report of the audit log shows no entry that it does not count, and
\* counts none that its hash does not cover.
ReportNeverAhead ==
    \A t \in Threads : \A a, b \in DOMAIN report[t] :
        a <= b => report[t][a] <= report[t][b] /\ report[t][b] <= Len(log)

\* With the usage, the audit log and the requests that are about something
\* else taken away, the tenants are what module Registry promises: a map
\* that is changed in single steps, and a copy which each change reaches as
\* it was made, later or never, and which others may write to.  Here a tenant
\* is its own key.
KeyOf(i, exists) == IF exists THEN i ELSE None

Promise == INSTANCE Registry WITH
    Keys <- Ids,
    registered <- [i \in Ids |-> KeyOf(i, registered[i])],
    saved <- [i \in Ids |-> KeyOf(i, saved[i])],
    found <- [t \in Threads |-> [id |-> None, key |-> None]],
    unsaved <- [t \in Threads |->
        IF pc[t] = "saving"
        THEN [id |-> job[t].id, key |-> KeyOf(job[t].id, job[t].what = "create")]
        ELSE [id |-> None, key |-> None]]

ImplementsRegistry == Promise!Spec
=============================================================================
