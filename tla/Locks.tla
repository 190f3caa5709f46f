-------------------------------- MODULE Locks --------------------------------
(***************************************************************************)
(* Locks: which locks the threads of the gateway hold, wait for and lose.  *)
(* The state that requests share (handlers::AppState) is behind a dozen    *)
(* std locks; a connection's thread takes them one inside the other while  *)
(* it checks, serves and records its request.  This module has the lock    *)
(* operations of every handler and leaves out what is done under them.     *)
(*                                                                         *)
(* A request is a plan: sections one after the other, each a sequence of   *)
(* locks taken one inside the other and given up together at the end of    *)
(* the block.  A lock is wanted for reading or for writing (a Mutex: for   *)
(* writing), by unwrap() or by `if let Ok`.  A thread that panics while it *)
(* holds a lock for writing poisons it; an unwrap() of a poisoned lock     *)
(* panics in turn, an `if let Ok` leaves its block out.                    *)
(*                                                                         *)
(* Abstracted: the two SLO windows are one lock; the guards of a section   *)
(* are dropped in one step; uldb, ulflow and ulmcp do not panic, and the   *)
(* build is the release build, whose arithmetic does not, so a panic under *)
(* a lock comes from the code here, which cuts strings at a byte that may  *)
(* be inside a character.                                                  *)
(***************************************************************************)
EXTENDS Integers, Sequences, FiniteSets

CONSTANT Threads    \* connection threads, one request each

VARIABLES
    stage,      \* how far the request of each thread is
    who,        \* what its request turned out to be
    todo,       \* the sections it has still to go through, this one first
    depth,      \* how many locks of this section it holds
    queued,     \* it waits for a lock, to write
    poisoned    \* the locks that are poisoned

threadVars == <<stage, who, todo, depth, queued>>
vars == <<threadVars, poisoned>>

-----------------------------------------------------------------------------
(* Locks and how they are wanted.                                          *)

LockNames == {"engine", "tenants", "usage", "audit", "gdpr", "connectors",
              "buckets", "slo", "shadow"}

\* "outside" is no lock: the thread waits for the language model or the client.
Wants == [lock : LockNames \cup {"outside"}, writes : BOOLEAN,
          unwraps : BOOLEAN, slices : BOOLEAN]

Read(l) == [lock |-> l, writes |-> FALSE, unwraps |-> TRUE, slices |-> FALSE]
Write(l) == [Read(l) EXCEPT !.writes = TRUE]

\* Under this lock a string is cut at a byte, which may panic.
Slicing(want) == [want EXCEPT !.slices = TRUE]

IfLetOk(want) == [want EXCEPT !.unwraps = FALSE]

Outside == <<Read("outside")>>

-----------------------------------------------------------------------------
(* handle_connection before and after the handler.                         *)

RateLimiter == <<Write("buckets")>>
CountTenants == <<Read("tenants")>>
Authenticate == <<Read("tenants")>>
CheckQuota == <<Read("tenants"), Write("usage")>>
AuditRefusal == <<IfLetOk(Write("audit"))>>

Entries ==
    [probe   |-> {<<RateLimiter, <<IfLetOk(Read("engine"))>>>>},
     refused |-> {<<RateLimiter, CountTenants, Authenticate, AuditRefusal>>,
                  <<RateLimiter, CountTenants, Authenticate, CheckQuota>>},
     open    |-> {<<RateLimiter, CountTenants, Authenticate, Outside>>},
     tenant  |-> {<<RateLimiter, CountTenants, Authenticate, CheckQuota, Outside>>}]

Slo == <<Write("slo")>>
Shadow == <<Write("shadow")>>

\* The SLO record of a run or a chat, the shadow record, the SLO report.
Epilogues == {<<Slo, Shadow, Slo>>, <<Shadow, Slo>>}

-----------------------------------------------------------------------------
(* The handlers of a request without a tenant.                             *)

ReadEngine == <<Read("engine")>>
WriteEngine == <<Write("engine")>>

\* record_tenant_usage
Charge == <<IfLetOk(Read("tenants")), Write("usage")>>

\* persist_run_result and persist_run_result_for_tenant
PersistRun == <<IfLetOk(Write("engine"))>>

\* The tools code_search, file_read and file_write.
SearchTool == <<Slicing(Write("engine"))>>
Tools == {SearchTool, ReadEngine, WriteEngine}

\* handle_search, handle_put, handle_get
KvPlans ==
    {<<<<Slicing(Write("engine"))>>>>,
     <<<<Write("engine"), IfLetOk(Write("audit"))>>>>,
     <<ReadEngine>>}

\* handle_register_workflow, handle_list_workflows
WorkflowPlans == {<<WriteEngine>>, <<ReadEngine>>}

\* handle_run_named: the guard is dropped before the flow runs.  Bound: the
\* flow calls one tool; each call is a section of its own.
RunNamedPlans == {<<ReadEngine, tool, Outside>> : tool \in Tools}

\* handle_run
RunPlans == {<<SearchTool, Outside, PersistRun>>}

\* Mutant of MessagePlans: the block around the first guard is left out.
MessagePlansHoldGuard == {<<<<Read("engine"), Read("outside")>>, WriteEngine>>}

\* handle_session_message
MessagePlans == {<<ReadEngine, Outside, WriteEngine>>}

\* handle_get_session, handle_list_sessions
SessionReadPlans == {<<ReadEngine>>}

\* handle_list_runs, handle_get_run, handle_metrics, handle_dashboard, handle_logs
ObservabilityPlans == {<<ReadEngine>>}

\* handle_chat_stream, handle_run_stream: the model, then the client.
StreamPlans == {<<Outside, Outside>>, <<SearchTool, Outside, Outside>>}

\* handle_tool_call
ToolCallPlans == {<<tool>> : tool \in Tools}

\* handle_chat
ChatPlans == {<<Outside>>}

\* Mutant of CreateTenantPlans: the registry is kept until the tenant is saved.
CreateTenantPlansNested ==
    {<<<<Write("tenants"), Write("engine")>>, <<IfLetOk(Write("audit"))>>>>}

\* handle_create_tenant: register, save, audit.
CreateTenantPlans ==
    {<<<<Write("tenants"), Write("usage")>>, WriteEngine, <<IfLetOk(Write("audit"))>>>>}

\* handle_list_tenants, handle_get_tenant
TenantReadPlans == {<<<<Read("tenants")>>>>, <<<<Read("tenants"), Read("usage")>>>>}

\* handle_delete_tenant: remove, erase, audit.
DeleteTenantPlans ==
    {<<<<Write("tenants"), Write("usage")>>, WriteEngine, <<IfLetOk(Write("audit"))>>>>}

\* handle_audit, handle_audit_verify
AuditPlans ==
    LET AuditLog == <<Write("audit")>>
    IN  {<<AuditLog, AuditLog, AuditLog>>, <<AuditLog>>}

\* handle_encryption, handle_connectors
StatusPlans == {<<<<IfLetOk(Read("engine"))>>>>, <<<<Write("connectors")>>>>}

\* handle_gdpr_delete, handle_gdpr_certificates
GdprPlans ==
    {<<<<Write("engine"), Write("gdpr"), IfLetOk(Write("audit"))>>>>, <<<<Write("gdpr")>>>>}

\* handle_slo, handle_shadow, handle_probes, handle_system
SystemPlans ==
    {<<Slo>>, <<Shadow>>, <<<<IfLetOk(Read("engine"))>>>>, <<Slo, <<IfLetOk(Read("tenants"))>>>>}

-----------------------------------------------------------------------------
(* The handlers of a tenant: most of them charge it, under their lock or   *)
(* after it.                                                               *)

\* What Charge takes, inside the guard of another lock.
AndCharge(want) == <<want, IfLetOk(Read("tenants")), Write("usage")>>

ReadAndCharge == AndCharge(Read("engine"))
WriteAndCharge == AndCharge(Write("engine"))

\* The _for_tenant variants of tool_call, search, put, get.
TenantKvPlans ==
    {<<tool, Charge>> : tool \in Tools}
        \cup {<<AndCharge(Slicing(Write("engine")))>>, <<WriteAndCharge>>, <<ReadAndCharge>>}

\* chat, register_workflow, list_workflows
TenantWorkPlans == {<<Outside, Charge>>, <<WriteAndCharge>>, <<ReadAndCharge>>}

\* run
TenantRunPlans == {<<SearchTool, Outside, PersistRun, Charge>>}

\* run_named
TenantRunNamedPlans ==
    {<<ReadEngine, tool, Outside, PersistRun, Charge>> : tool \in Tools}

\* session_message
TenantMessagePlans == {<<ReadEngine, Outside, WriteEngine, Charge>>}

\* get_session, list_sessions, get_run, metrics, dashboard, logs; list_runs
TenantReadOnlyPlans == {<<ReadAndCharge>>, <<AndCharge(Slicing(Read("engine")))>>}

\* chat_stream, run_stream
TenantStreamPlans ==
    {<<Outside, Outside, Charge, Outside>>,
     <<SearchTool, Outside, Outside, PersistRun, Charge, Outside>>}

-----------------------------------------------------------------------------

\* Answered by route_with_tenant, and by server.rs itself.
Routed ==
    [open   |-> KvPlans \cup WorkflowPlans \cup RunPlans \cup SessionReadPlans
                \cup ObservabilityPlans \cup ToolCallPlans \cup ChatPlans
                \cup CreateTenantPlans \cup TenantReadPlans \cup AuditPlans
                \cup StatusPlans \cup GdprPlans \cup SystemPlans,
     tenant |-> TenantKvPlans \cup TenantWorkPlans \cup TenantRunPlans
                \cup TenantReadOnlyPlans \cup AuditPlans \cup StatusPlans
                \cup GdprPlans \cup SystemPlans]

Direct ==
    [open   |-> StreamPlans \cup ObservabilityPlans \cup MessagePlans
                \cup SessionReadPlans \cup RunNamedPlans
                \cup TenantReadPlans \cup DeleteTenantPlans,
     tenant |-> TenantStreamPlans \cup TenantReadOnlyPlans
                \cup TenantMessagePlans \cup TenantRunNamedPlans]

Kinds == {"probe", "refused", "open", "tenant"}

\* Before its connection; up to the handler; in the handler of a routed or of
\* a direct path; after it; over, in one of two ways.
Stages == {"unborn", "entering", "routed", "direct", "leaving", "ended", "panicked"}
Over == {"ended", "panicked"}

-----------------------------------------------------------------------------

\* The locks of its section that a thread holds, as it wanted them.
Held(t) == {Head(todo[t])[j] : j \in 1 .. depth[t]}

Holds(t, l) == \E h \in Held(t) : h.lock = l
HoldsToWrite(t, l) == \E h \in Held(t) : h.lock = l /\ h.writes

\* The thread is about to take the next lock of its section.
Wanting(t) == todo[t] # <<>> /\ depth[t] < Len(Head(todo[t]))
Wanted(t) == Head(todo[t])[depth[t] + 1]

Awaiting(t) == Wanting(t) /\ Wanted(t).lock = "outside"
Locking(t) == Wanting(t) /\ Wanted(t).lock # "outside"

\* Whom a thread has to wait for, itself included.  A writer waits for all
\* who hold the lock, a reader for the writer who holds it and for the
\* writers who queue (std's RwLock does not let readers overtake them).
Blockers(t) ==
    IF ~Locking(t) THEN {}
    ELSE LET l == Wanted(t).lock
         IN  IF Wanted(t).writes THEN {u \in Threads : Holds(u, l)}
             ELSE {u \in Threads : \/ HoldsToWrite(u, l)
                                   \/ Locking(u) /\ queued[u] /\ Wanted(u).lock = l}

Init ==
    /\ stage = [t \in Threads |-> "unborn"]
    /\ who = [t \in Threads |-> "open"]
    /\ todo = [t \in Threads |-> <<>>]
    /\ depth = [t \in Threads |-> 0]
    /\ queued = [t \in Threads |-> FALSE]
    /\ poisoned = {}

Goto(t, s, plan) ==
    /\ stage' = [stage EXCEPT ![t] = s]
    /\ todo' = [todo EXCEPT ![t] = plan]
    /\ depth' = [depth EXCEPT ![t] = 0]
    /\ queued' = [queued EXCEPT ![t] = FALSE]

\* A connection comes, with a request of some kind.
Arrive(t) ==
    /\ stage[t] = "unborn"
    /\ \E kind \in Kinds : \E plan \in Entries[kind] :
          /\ who' = [who EXCEPT ![t] = kind]
          /\ Goto(t, "entering", plan)
    /\ UNCHANGED poisoned

\* The thread panics: its guards are dropped, and those to write poison.
Panic(t) ==
    /\ poisoned' = poisoned \cup {l \in LockNames : HoldsToWrite(t, l)}
    /\ Goto(t, "panicked", <<>>)
    /\ UNCHANGED who

Queue(t) ==
    /\ Locking(t) /\ Wanted(t).writes
    /\ Blockers(t) # {} /\ ~queued[t]
    /\ queued' = [queued EXCEPT ![t] = TRUE]
    /\ UNCHANGED <<stage, who, todo, depth, poisoned>>

Take(t) ==
    /\ Locking(t)
    /\ Blockers(t) = {}
    /\ Wanted(t).lock \notin poisoned
    /\ depth' = [depth EXCEPT ![t] = depth[t] + 1]
    /\ queued' = [queued EXCEPT ![t] = FALSE]
    /\ UNCHANGED <<stage, who, todo, poisoned>>

\* The lock is poisoned: unwrap() panics, `if let Ok` leaves the block out.
TakePoisoned(t) ==
    /\ Locking(t)
    /\ Blockers(t) = {}
    /\ Wanted(t).lock \in poisoned
    /\ IF Wanted(t).unwraps THEN Panic(t)
       ELSE Goto(t, stage[t], Tail(todo[t])) /\ UNCHANGED <<who, poisoned>>

\* A string is cut inside a character: in the section, or where a response
\* is made and recorded without a lock.
SlicePanics(t) ==
    /\ \/ depth[t] > 0 /\ Head(todo[t])[depth[t]].slices
       \/ depth[t] = 0 /\ stage[t] \in {"routed", "direct", "leaving"} /\ ~queued[t]
    /\ Panic(t)

\* The model or the client answers, or a write to the client goes through.
Respond(t) ==
    /\ Awaiting(t)
    /\ depth' = [depth EXCEPT ![t] = depth[t] + 1]
    /\ UNCHANGED <<stage, who, todo, queued, poisoned>>

\* Mutant of Release: the guards live on to the end of the function.
ReleaseLate(t) ==
    /\ todo[t] # <<>> /\ ~Wanting(t)
    /\ todo' = [todo EXCEPT ![t] = Tail(todo[t])]
    /\ UNCHANGED <<stage, who, depth, queued, poisoned>>

\* The end of a section.
Release(t) ==
    /\ todo[t] # <<>> /\ ~Wanting(t)
    /\ Goto(t, stage[t], Tail(todo[t]))
    /\ UNCHANGED <<who, poisoned>>

\* A request that is not refused, and no probe, goes to its handler.
Dispatch(t) ==
    /\ stage[t] = "entering" /\ todo[t] = <<>>
    /\ IF who[t] \in {"open", "tenant"}
       THEN \/ \E plan \in Routed[who[t]] : Goto(t, "routed", plan)
            \/ \E plan \in Direct[who[t]] : Goto(t, "direct", plan)
       ELSE Goto(t, "ended", <<>>)
    /\ UNCHANGED <<who, poisoned>>

\* A handler returns early: a bad request, something not found, an error of
\* the database, the model or the client.  It may do so wherever it stands,
\* which is more often than the code does.
ReturnEarly(t) ==
    /\ stage[t] \in {"routed", "direct"}
    /\ todo[t] # <<>> /\ ~queued[t]
    /\ Goto(t, stage[t], <<>>)
    /\ UNCHANGED <<who, poisoned>>

Leave(t) ==
    /\ todo[t] = <<>>
    /\ \/ stage[t] = "routed" /\ \E plan \in Epilogues : Goto(t, "leaving", plan)
       \/ stage[t] \in {"direct", "leaving"} /\ Goto(t, "ended", <<>>)
    /\ UNCHANGED <<who, poisoned>>

-----------------------------------------------------------------------------

\* What a thread does that nobody but other threads can keep it from.
GoOn(t) == Queue(t) \/ Take(t) \/ TakePoisoned(t) \/ Release(t) \/ Dispatch(t) \/ Leave(t)

Next ==
    \E t \in Threads :
        Arrive(t) \/ GoOn(t) \/ SlicePanics(t) \/ Respond(t) \/ ReturnEarly(t)

\* Threads are scheduled.  Neither the model nor a client has to answer.
Spec == Init /\ [][Next]_vars /\ \A t \in Threads : WF_vars(GoOn(t))

-----------------------------------------------------------------------------
(* Properties.                                                             *)

Plans == Seq(Seq(Wants))

\* A thread holds no more than its section asks for, nothing before and
\* after its request; only who wants a lock to write is queued.
TypeOK ==
    /\ stage \in [Threads -> Stages]
    /\ who \in [Threads -> Kinds]
    /\ todo \in [Threads -> Plans]
    /\ depth \in [Threads -> Nat]
    /\ queued \in [Threads -> BOOLEAN]
    /\ poisoned \in SUBSET LockNames
    /\ \A t \in Threads :
          /\ todo[t] # <<>> => depth[t] <= Len(Head(todo[t]))
          /\ todo[t] = <<>> => depth[t] = 0
          /\ stage[t] \in {"unborn"} \cup Over => todo[t] = <<>>
          /\ queued[t] => Locking(t) /\ Wanted(t).writes

\* No group of threads is stuck: in every one there is a thread that waits
\* for nobody of the group.
NoStandstill ==
    \A S \in (SUBSET Threads) \ {{}} : \E t \in S : Blockers(t) \cap S = {}

\* Between its connection and its end, and not waiting for its own client or
\* language model.
AtWork(t) == stage[t] \notin {"unborn"} \cup Over /\ ~Awaiting(t)

\* However many threads wait for a client or a model that never answers, of
\* the others there is one that waits for nobody.
SomebodyGoesOn ==
    (\E t \in Threads : AtWork(t)) =>
        \E t \in Threads : AtWork(t) /\ Blockers(t) = {}

\* A panic costs the engine at most: the locks every request needs, of the
\* registry, of the usage and of the audit log, are never poisoned, whatever
\* the threads held that panicked because the engine was.
OnlyEngineIsLost == poisoned \subseteq {"engine"}

\* A request ends unless its own client or language model keeps it waiting:
\* nobody waits for someone else's.
SlowCallersAlone ==
    \A t \in Threads :
        stage[t] # "unborn" ~> stage[t] \in Over \/ Awaiting(t)
=============================================================================
