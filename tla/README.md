# A TLA+ model of ulgate

ulgate (`src/`) is an HTTP gateway in Rust: one process that serves runs of
workflows, chats, sessions, documents and tenants over an embedded database
(uldb) and a language model.  It uses threads, locks and atomics and no async
runtime: every connection gets a thread, which serves one request.  What is
hard about it is what those threads do to the state they share, and what
shutting down, restarting, erasing and overload do in between.  This directory
models that, checks it with TLC on small instances and proves it with TLAPS for
all instances.

Six parts of it are specified as state machines.  Each has a specification
`X.tla`, an instance `MCX.tla` with one or more `.cfg` files, and its theorems
in `XProofs.tla`.  Four of them are shown to implement an abstract
specification of what they promise, and one module is about pure functions.

| module | what it is about | code |
|---|---|---|
| `Lifecycle` | a connection from accept to response, and a shutdown that drains | `server.rs`, `probes.rs` |
| `Tenants` | registry, keys, quotas, the copy in the database, restarts | `tenant.rs`, `server.rs`, `handlers.rs`, `main.rs` |
| `Feedback` | from the runs observed to the requests let in | `slo.rs`, `degradation.rs`, `server.rs` |
| `Sessions` | chat histories under overlapping messages and erasures | `handlers.rs`, `bridge.rs` |
| `Locks` | the locks of every handler, panics and poisoning | `handlers.rs`, `server.rs` and others |
| `Records` | what requests leave behind: results, charges, the audit log | `handlers.rs`, `tenant.rs`, `server.rs` |
| `Service` | what `Lifecycle` promises of requests and of a shutdown | `server.rs`, `probes.rs` |
| `Registry` | what `Tenants` and `Records` promise of the map from ids to keys | `tenant.rs`, `handlers.rs` |
| `Conversation` | what `Sessions` promises of a chat history | `handlers.rs` |
| `Codec` | base64url | `oauth.rs` |

## 1. Inventory

The repository has no documentation beside its comments and tests, so "doc"
below means those.

| component | state it keeps | operations | what is hard about it |
|---|---|---|---|
| connection server (`server.rs`) | per thread: how far the request is | `run`, `handle_connection` | some twenty ways out between counting a request and uncounting it; checks and their use in separate steps |
| shutdown and probes (`probes.rs`) | `active_requests`, two shutdown flags, readiness flags, heartbeat | `request_start/end`, `initiate_shutdown`, `wait_for_drain`, probe responses | the drain must end, and must mean something when it ends |
| tenant registry (`tenant.rs`) | tenants by id, ids by key, usage by id; a copy of the definitions in the database | register, remove, authenticate, check_quota, record_usage, save, delete, load | three maps that must agree, two copies changed in two steps, one of them under keys that others may write; checks before use |
| SLO tracker (`slo.rs`) | a window of observations for each endpoint | record (evicts), report | eviction by record only, time taken before the lock |
| degradation controller (`degradation.rs`) | mode, shed priority, override (three atomics) | evaluate, set_mode, clear_override, mode | loads and stores in steps, evaluations that interleave, a loop that feeds itself |
| sessions (`handlers.rs`, `bridge.rs`) | a list of records for each session, in the database | message, read, list; GDPR deletion | a read, a long call of the model, then a write |
| shared state (`handlers.rs` `AppState`) | a dozen locks | every handler | nested locks, poisoning, long waits under a guard |
| runs, streams, tools, documents (`handlers.rs`) | records and documents in the database | run, run_named, streams, put, get, search | work, stream, stored result, charge and answer in separate steps, each of which may fail; slices that panic |
| audit log endpoints (`handlers.rs`) | a hash-chained file (uldb) | append by others, read, verify | read without the lock, then in two lock sections; an entry follows its change under the engine's lock, or after every lock is released |
| rate limiter (`ratelimit.rs`) | a token bucket for each address | allow, evict_stale (no caller) | unbounded map, floating-point time |
| traffic shadow (`shadow.rs`) | a ring buffer | record, filters, export | a slice before it may panic |
| OAuth (`oauth.rs`) | the providers, fixed | validate, base64url | pure; no provider is registered in `main.rs` |
| API keys (`auth.rs`) | hashes of the admin keys, fixed | verify | pure |
| router, responses, records, configuration | none | formatting and tables | - |
| Python client (`src/python`) | none | one request at a time | - |

How they interact: `server.rs` calls, in this order, the rate limiter, the
probes, the degradation controller, the shutdown coordinator, the registry
(three separate lock sections: count, authenticate, quota), the handler, the SLO
tracker, the shadow buffer, the degradation controller again and the shutdown
coordinator again.  The handlers call uldb, the model and the registry.  There
are no messages and no callbacks between the components: all interaction is
through locks and atomics.  The database survives a restart, everything else is
lost with the process.

The database is one space of keys.  Documents, results (`t:<id>:run:<run>`),
sessions and the definitions of tenants (`__tenant__:<id>`) are in it, and
`POST /v1/db/put`, the tool `file_write` and the scopes `prefix` and `keys` of
`POST /v1/gdpr/delete` work on any key.  The registry in memory does not follow
what they do to a definition until the next start.

What makes each one correct is what its module's properties say (section 3);
`PROJECT.json` lists the hazards with the line where each one bites.

## 2. The modules and the code

**`Lifecycle`.**  `pc[c]` is the place in `handle_connection` where the thread
of connection `c` stands, and there is one action for each stretch of code
between two places where another thread, a client or a panic can matter.  What
a request carries (`class`) is forgotten once nothing asks for it.  The order of the actions is the order of the function: `ReadHead`, `RateLimit`,
`AnswerProbe`, `EmergencyGate`, `DrainGate`, `RequestStart`, `Authenticate`,
`WriteRefusal` (a 401 or 429, written while the request is counted),
`ReadBody`, then `Direct` (a path that `server.rs` answers itself) or `Route`,
`Record`, `RequestEnd`, `WriteResponse`.  A thread ends as `uncounted` (returned
before `request_start`), `leaked` (returned, failed or panicked after it and
before `request_end`), `done` or `gone` (with the process).  The waiter is the
thread that shuts down: `initiate_shutdown` is two stores, hence two actions,
and `wait_for_drain` polls.  Nothing outside the tests calls it yet; the module
states what it would find.  The degradation mode is a free choice here, as is
the outcome of authentication: `Feedback` and `Tenants` say which choices occur,
and whatever holds for all of them holds for those.

**`Tenants`.**  `tenants`, `keyIndex` and `usage` are the three maps of
`TenantRegistry`, `store` is the copy in the database.  A request is
`CountTenants`, `Authenticate`, `CheckQuota`, then `RecordUsage` or `Uncharged`:
one action for each lock section.  A create is `CreateTenant` (registry) then
`SaveTenant` (database), a delete `DeleteTenant` then `EraseTenant`; a write of
the database may fail and then may or may not have been made.  `Restart` loads
the registry as `load_registry_from_engine` does, in key order.  `taint` is
history: it remembers that two changes of a tenant overlapped, or that a write
failed, or somebody wrote under the key of its definition.  A handler at work,
of a tenant or of nobody, may do that any number of times: `RawAccess` overwrites
a definition (`Overwrite`) or erases some (`EraseKeys`), in the database only.
Requests that skip authentication reach nothing of this and are left out.

**`Feedback`.**  `window` is the SLO window of `api/run`, with the age of each
observation (capped one beyond the window) instead of its timestamp; `mode`,
`shed` and `override` are the atomics of the controller.  The emergency gate is
`LoadOverride` and, when there is no override, `LoadMode`, the two loads of
`mode()`; in between anything may be stored.  `ServeRun`, `SetDegradation` and `ServeOther` the handlers,
`Record` the observation with its eviction, `Report` the report and the choice
of a mode, `StoreMode` and `StoreShed` the two stores.  An evaluation that meets
another one is not `orderly` (history).

**`Sessions`.**  `payload[s]` is the list of records of session `s`.  A message
is `Begin` (read the history, then ask the model with a copy of it) and `Answer`
(append to what is there by then) or `Fail`; `Erase` is `handle_gdpr_delete`,
`Restart` loses the threads and keeps the payloads.  A text is abstracted to
the turns that the model was shown when it wrote it (`basis`): that is what an
erasure is about.  Reading loads `payload[s]` or, after an error, nothing.
Documents that are written under the key of a session are left out: they may be
any text, and the properties are claimed for sessions that nobody writes to
that way.

**`Locks`.**  A request is a *plan*: sections one after the other, each a
sequence of locks taken one inside the other and dropped together.  The
operators `KvPlans` .. `TenantStreamPlans` transcribe the lock operations of the
handlers, `Entries` and `Epilogues` those of `handle_connection`, and
`Routed`/`Direct` which of them a request can meet.  The actions are those of
`std::sync`: queue, take, take a poisoned lock (`unwrap()` panics, `if let Ok`
skips the block), release, panic, which poisons what is held for writing.
Writers are preferred, which is what std's RwLock does on Linux and the harder
case for deadlocks.  `"outside"` is no lock: the thread waits for the model or
the client.

**`Records`.**  Follows requests to what they leave in four places: `runs` (the
stored results, by tenant and run id), `usage` (which requests a tenant was
charged), `registered` and `saved` (the tenant in the registry and in the
database) and `log` (the audit log).  A request is a number, given as it begins
or, for a change, as the change is made; a result, a charge or an entry is the
number of its request, so that the
properties can compare the places.  The work of a tenant is `Ask`, `Reply`,
`Emit` (streams), `Persist` (runs), `Charge`, `Answer`, in the order of the
handlers, with `GiveUp` for errors, clients that hang up and slices that panic.
A create or delete of a tenant is `Create` or `Delete` (registry), `Save`
(database), `Note` (audit log), each under a lock of its own; `handle_put` and
`handle_gdpr_delete` (`Put`, `Erase`) hold the engine's lock until `Log` is
done, which `EngineFree` says.  Both work on any key (`WriteUnderKey`,
`EraseUnderKeys`): a put may replace a result or make or unmake the definition
of a tenant, an erasure removes any results and definitions, and a failed one
may have removed some and leaves no entry.  `FileWrite` is the tool, which
writes as a put does and leaves no entry at all; like a refused key
(`RefuseKey`) it is over in one step (`Pass`) and has a number like any
request.  `ReadLog`, `CountEntries`, `HashOf` and `SendReport` are the
sections of `handle_audit`; the state of the log stands for its hash.  Whoever
reads the file sees whole entries.  `clean`, `made`, `lost`, `answered`,
`wiped` and `before` are history; `answered` has the requests whose answer was
written, whether or not it reached the client.

**`Service`**, **`Registry`** and **`Conversation`.**  The abstract
specifications.  In `Service` a
request is waiting, let in, served, over or left behind, the door is open or
closed, and whoever waits for quiet is told the truth of that instant; there is
no counter and there are no gates.  `Lifecycle!Seen` and `Said` are the
refinement mapping: seventeen places of a thread become five.  In
`Registry` there is one map, in which each create, delete and look-up happens
at one instant, and a copy which each change reaches later or never and which
others may write to and erase.  `Tenants`
keeps three maps under two locks, loses them in a restart, and reads them in
separate sections.  `Tenants!Promise` maps its state; a request that fails its
quota, or finds its tenant gone, is a look-up that was not used.  `Records`
keeps the registry and the database as Booleans, with what every other request
leaves behind in between; its `Promise` gives each id a key of its own, maps the
change that a thread still has to save, and takes everything else for a
stutter.  So the two modules, which look at the handlers from two sides, agree
on what those do to the registry.  In `Conversation` a history is a sequence of
exchanges and a message has three steps, asked, then kept or lost;
`Sessions!ExchangesOf` makes exchanges of the pairs of records.  It says at once
what the invariants say in parts, and that an exchange is added once.

**`Codec`.**  `Encode` and `Decode` are `base64url_encode` and
`base64url_decode` over the bytes of texts, group by group as the loops have
it; `SextetByBits` is the definition of RFC 4648, bit by bit, which they are held
against.

The definitions whose name begins with that of another one and whose comment
begins with "Mutant" are variants of the code with a plausible bug.  No
specification uses them; each property is known to fail when its mutant takes
the place of the original.

## 3. What the runs check

| run | checks | states |
|---|---|---|
| `lifecycle` | `CountExact`: the in-flight count is the counted requests plus, for ever, the leaked ones, and never wraps. `LateArrivalsNeverRun`: who runs after the gate closed had passed it before. `DrainedMeansQuiet`: a drain that answers true found nothing under way. `OnlyHeldUpHoldDrain`: what keeps a drain waiting for ever is one and the same request, which leaked, or waits for ever for its client or in its handler. `ImplementsService`: all of this is `Service` | 3 connections, counter of 2 bits |
| `tenants` | `KeyIndexSound`: nobody is authenticated as someone else. `QuotaBounded`: how far concurrent requests exceed a quota. `RestartFindsRegistry`: registry and database agree where nothing overlapped or failed and nobody else wrote. `OpenModeLocksOut`: without an admin key, the first tenant ends open mode, and only a restart that finds no tenant in the database, where requests may have erased them, brings it back. `ImplementsRegistry`: all of this is `Registry`. Evaluated beside it, `MCCodec`: base64url is that of RFC 4648 and is read back | 2 ids, 2 keys, 2 threads, a quota of 1 request for one tenant and of 1 token for the other; texts of 0 to 4 bytes |
| `feedback` | `OrderlyModeFollowsWindow`: an undisturbed evaluation puts right whatever interleaved ones left. `LatchedForGood`: emergency mode with nobody let in, or past the first load of the mode, who could change it is never left. `RecoveredStays`: normal mode with nothing against it is kept by runs that go well, whatever overlaps. Evaluated beside it, `MCModeFor`: the choice of the mode is monotone | 2 threads, 2 observations, 2 latencies, operator modes normal and emergency; windows of 0 to 4 observations |
| `feedback_recovery` | `RecoversBelowEmergency`: when runs go well again, the mode returns to normal by itself, unless it is emergency | 2 threads, 2 observations |
| `sessions` | `WholeExchanges`, `HistoryGrows`: overlapping messages neither tear nor lose exchanges. `ErasedStaysErased`, `OnlyCarriersKnow`: what an erasure leaves. `StepAtMostPlace`: how far the numbers of records may be wrong. `ImplementsConversation`: all of this is `Conversation` | 3 threads, 2 sessions, 4 messages |
| `locks` | `NoStandstill`: no circle of waiting threads. `OnlyEngineIsLost`: only the engine's lock can be poisoned. `SomebodyGoesOn`: while a thread waits for a lock, some thread can go on that waits neither for a lock nor for a client or a model. `SlowCallersAlone`: nobody waits for someone else's client or model | 2 threads, every pair of requests |
| `records` | `WorkIsCharged`: nothing is stored, and no answer written in full, that is never charged. `FreshStart`: a tenant created again is not charged for requests that were over. `LogFollowsEngine`: the audit log has puts and erasures once, in their order. `LogTellsTenants`: registry, database and audit log agree on a tenant after an undisturbed change, until somebody writes or erases under its key. `ReportNeverAhead`: a report of the log counts what it shows, and its hash covers what it counts. `ImplementsRegistry`: what happens to registry and database is `Registry` | 2 threads, 1 tenant, 2 run ids, 4 requests |

Five runs are expected to find a violation.  Each one checks a sentence of a
comment of the code against what the code does; the findings in `PROJECT.json`
quote it.

| run | the comment | what happens |
|---|---|---|
| `lifecycle_active_is_in_flight` | `probes.rs:186` "Number of in-flight requests." | returns between count and uncount leak; a drain can then only time out |
| `lifecycle_drained_stays_quiet` | `probes.rs:157-159` "Wait for in-flight requests to complete" | a thread between the gate and the count runs after the wait |
| `tenants_unique_api_keys` | `tenant.rs:4` "Each tenant has a unique ID and API key" | a second tenant takes the key of the first |
| `tenants_restart_keeps_registry` | `tenant.rs:366` "Load all persisted tenants from uldb", `handlers.rs:2796` "deleted" | overlapping create and delete reach the database in the other order; a restart undoes the delete |
| `feedback_emergency_ends` | `degradation.rs:15` "Manual operator override", `handlers.rs:3241` | the emergency gate turns the operator away as well; with the default thresholds one failed first run suffices |

### Bounds, and why they are enough

* *Lifecycle*: the hazards need a thread on each side of the gate and one that
  leaks.  `Wrap` stands for 2^64 and only has to exceed the number of
  connections, which `WrapAssumption` says; CountExact is proved for every
  such value.
* *Tenants*: the environment has one admin key or none, as in `main.rs`.  Two
  ids and two keys give shared keys and re-created ids; two
  threads give every overlap of two halves.  `MaxCharge` bounds the tokens of a
  request.  One tenant has a limit of requests and none of tokens, the other
  the reverse: a counter without a limit is compared with nothing and is not
  counted (`CountUnder`), which keeps the space of usages finite.  A definition
  written as a document has the id that its key has, and one of the two API
  keys; a quota is fixed with the id.  Threads and keys are symmetric; ids are not, since keys are loaded
  in their order.
* *Feedback*: `MaxObs` bounds the runs under way plus the observations that
  are not too old, so that the window is finite.  Thresholds are chosen so
  that windows of two or three observations reach all four modes, by rate and
  by latency.  The window is 0 seconds, that is, an observation is young for
  one tick; older observations behave alike.  An operator sets the two modes
  that the emergency gate tells apart.  The recovery run uses one latency to
  keep the liveness check small.
* *Sessions*: `MaxTurns` bounds the messages of a behaviour.  Three threads let
  two messages overlap while a third one comes before, between or after; four
  messages leave one to be kept before those, which is what they have read and
  an erasure takes away.  All seven properties are proved for every bound.
* *Locks*: every pair of handlers meets.  A run by name calls one tool
  (`RunNamedPlans`, `TenantRunNamedPlans`): each further call is one more section
  of a kind that is there, with nothing held in between.  A circle of three threads is out of
  the reach of this run, and excluded for every number of threads by the
  theorem `DeadlockFree`.
* *Records*: `MaxTurns` bounds the requests of a behaviour.  One tenant is the
  hard case, since results, records of usage and changes then meet, and two
  run ids let an erasure remove one result of two; four requests are enough
  for a create, a delete, a create again and work that outlives the first of
  them, and for two pairs of changes and entries in either order.  An audit
  report is one of the four, and so is a put, a call of `file_write` or an
  erasure, each of which changes any one result or definition, or any set of
  them.  Properties that need two tenants are not claimed
  by this run; the theorems hold for any number.

Runs without a deadlock check (`CHECK_DEADLOCK FALSE`) are those in which the
system may stop: all connections are served, all messages are used up, or the
process has ended.

### Fairness, and why the code justifies it

* *Lifecycle*: weak fairness of each thread's steps that wait for nobody (`Owed`:
  to be counted, to authenticate, to record, to be uncounted; the operating system
  schedules threads, and `Locks` shows that the locks on the way are let go of),
  and of the poll of `wait_for_drain`, which is a loop.  A step that writes to
  the client while the request is counted (`WriteRefusal`, `Direct`), reads from
  it (`ReadBody`) or waits for the model (`Direct`, `Route`) is owed no end, so
  the property names those places.  No timeout and no accept error is owed.
* *Feedback* (`FairSpec`): weak fairness of each thread and of time; strong
  fairness of serving a run and of reporting, because a thread may panic there
  instead but does so only for particular responses; and strong fairness of
  `LoadOverride(t, "run")` for some thread, which is an assumption about the *traffic*:
  clients keep asking for runs.  Without it nothing records, nothing evicts and
  no mode changes.  `OperatorSpec` adds that the operator keeps asking for
  normal mode.
* *Locks*: weak fairness of each thread.  Neither the model nor a client has to
  answer, and no fairness of the locks is assumed beyond that of the scheduler;
  with one request for each thread nobody can be overtaken for ever.

## 4. What is proved

The theorems hold for every value of the constants that satisfies the named
assumptions in the module; TLC evaluates those on every run.

* **Lifecycle** (`TypeCorrect`, `CountIsExact`, `LateArrivals`, `DrainAnswer`).
  Types and exactness of the count are proved together: the counter stays in
  range because it equals a cardinality, and the cardinality changes by at most
  one with each action.  `LateArrivals` needs that whoever is past the gate
  after it closed was recorded when it closed.  `DrainAnswer` follows from
  exactness: a sum of two cardinalities is zero only if both sets are empty.
* **Tenants** (`TypeCorrect`, `KeysLeadHome`, `LockOutIsForGood`,
  `RestartsAgree`, `QuotasHold`).  `KeysLeadHome` is inductive with the types:
  `register` redirects a key, `remove` drops it.  `RestartsAgree` needs a
  strengthening: while one thread persists a clean tenant it is the only one,
  and what it will write is what the registry has; a write or an erasure by
  others ends the claim for the tenants it meets (`taint`), and those only.
  `LockOutIsForGood` needs the types only: without an admin key and with a
  tenant registered no step lets a thread manage tenants, and what is left to the
  others, `RawAccess` included, takes no tenant out of the registry; a restart
  registers what is in the database.  `QuotasHold` strengthens the
  bound to count the requests that were checked and not yet charged: usage plus
  what is in flight stays below the limit plus the number of threads.
* **Feedback** (`TypeCorrect`, `ModeFollowsWindow`, `EmergencyIsForGood`,
  `NormalIsKept`, `ModeIsMonotone`, `GoodRunsHelp`).  The second one needs
  that an orderly evaluation is the only one, and that its target is what the
  window still calls for; the third that, in a latched state, no thread is
  anywhere from which it could move the window, the mode or the override, the
  gate between its two loads included: a thread there found no override and
  goes by the mode alone.
  `NormalIsKept` needs that a window in which all went well meets no threshold
  (`GoodWindow`), for which the rates must not be 0 (`RatesAssumption`), and
  that appending, ageing and evicting keep it so.  `ModeIsMonotone` and
  `GoodRunsHelp` are about the choice of the mode alone, on windows of any
  length: errors are counted and the percentile is a rank, so each threshold
  that a better window meets a worse one meets, and a rank of `99 * len \div
  100` moves by at most one when the window grows by one.
* **Sessions** (all seven properties).  Whole exchanges need the length to be
  even; erased records stay erased because a turn is stored by its own thread
  only, once; `StepAtMostPlace` relates what a thread has seen to what is stored
  unless there was an erasure since.
* **Locks** (`TypeCorrect`, `EngineAlonePoisoned`, `DeadlockFree`,
  `NobodyWaitsForSlowCallers`).  The locks
  have ranks (engine 0, registry and GDPR log 1, usage and audit log 2, others 0)
  and every section of every plan is rising in them (one lemma for each group of
  handlers).  From any thread of a group that waits in a circle one reaches, in
  one or two steps, another that wants a lock of a higher rank (the holder, or
  the holder of the lock that a queued writer wants); there are three ranks,
  so three such climbs contradict each other.  No induction over the group is
  needed, so the number of threads is arbitrary.  Only sections whose *first*
  lock is the engine's slice strings or meet a poisoned lock, so a panic
  happens with nothing else held.  `NobodyWaitsForSlowCallers` adds that a thread
  waits for a client or a model with no lock held (`OutsideAlone`), so none of
  those blocks anybody; `DeadlockFree`, for the group of the threads at work,
  gives the one that goes on.
* **Service, Registry and Conversation** (`ServiceImplemented`,
  `RegistryImplemented` twice, `ConversationImplemented`).  The
  initial state maps to the initial state, and each action, by cases, to a step
  of the abstract specification or to a stutter.  For `Lifecycle` this needs
  that the count is exact (else a drain could answer yes with somebody served)
  and that the history of the gate is complete: `drainStarted` implies
  that an admitted thread had passed before, and the waiter moves only after
  both flags are set.  For `Tenants` it needs that keys lead to tenants that
  have them (else a look-up would find another key than the map's) and that an
  erasing thread carries no key.  For `Records` the types suffice: a thread
  carries a change only while it saves one, a document written or erased is a
  step of the others (`Overwrite`, `Wipe`), and most of its actions touch neither
  registry nor database.  For `Sessions` it needs that histories are
  whole: then their turns are those of their questions, and two records more
  are one exchange more.
* **Records** (all six properties).  `ReportNeverAhead` and `FreshStart`
  strengthen to what a thread in the midst of it knows: every item of a report
  is bounded by the length of the log, and whoever may still charge was not
  over when its tenant began (`FreshInv`).  `WorkIsCharged` needs that a
  thread which may answer has been charged, or has lost the charge
  (`ChargeInv`).  `LogFollowsEngine` needs that at most one thread holds the
  engine's lock, and that its request is younger than each one in the log
  (`EngineInv`).  `LogTellsTenants` needs, while a clean tenant is being
  changed, that only one thread changes it and how far it is (`TellInv`); a put, a
  `FileWrite` or an erasure that meets a tenant makes it unclean.
* **Codec** (`ReadsBack`, `WritesBase64url`, `TextsTellApart`).  A length is
  three times a number of groups plus a rest; the three rests are three cases,
  and within a group the bytes are cut where the sextets are, which is linear
  arithmetic.  For `WritesBase64url` the bytes are cut further, into their
  bits.  No induction is needed, since each byte depends on its own group
  only.

Model-checked only: the three liveness properties (`OnlyHeldUpHoldDrain`,
`RecoversBelowEmergency`, `SlowCallersAlone`), since liveness under fairness is
out of the prover's reach.  Two of them have a safe half which is proved for
every instance: what has recovered stays so (`NormalIsKept`), and somebody can
always go on (`NobodyWaitsForSlowCallers`); what the runs add is that fair
scheduling takes those steps.  That `ENABLED` is out of reach as well is why the
second one says that a thread is blocked by nobody, and not that it has a step.

Assumptions that are not in a module's ASSUME: uldb's operations are atomic
under the engine's lock and do not panic; the build is the release build, whose
arithmetic wraps silently; a request that the accept loop has taken gets its
thread.

## 5. What is not modelled, and why

* *OAuth, beyond its codec*: no provider is registered, so no request reaches
  it; what is left is stateless (splitting JSON at its commas, comparing
  claims, HMAC).
* *The rate limiter's bucket*: floating-point time.  Whether a request is let
  in is a free choice in `Lifecycle`; its lock is in `Locks`.
* *The shadow buffer's content*: a bounded queue behind one mutex that nothing
  but its export reads.  Its lock and the slice before it, which may panic, are in
  `Locks`, `Lifecycle` and `Feedback`.
* *Documents and searches*: single puts and gets of uldb, under one lock.  The
  order of puts in the audit log is in `Records`; a tenant's own put leaves no
  entry.
* *Charges of other kinds* (tools, documents, sessions of tenants): `Tenants`
  has them as charges of an unknown amount after the handler's work.
* *Responses and JSON* (formatting), *the Python client* (stateless), *the
  environment* (pure I/O), *uldb and the other external crates* (not in the
  repository), *names, plans and capabilities* of tenants (they do not meet the
  properties), *the SLO report's status and budget* (shown, never acted upon),
  *time* in quotas (a check may find an hour or a day over at any moment).

## 6. Plan

Done in this order, the most important behaviour first: `Lifecycle`, `Tenants`,
`Feedback`, `Sessions`, `Locks`, each with its proofs; then the abstract
specifications `Registry` and `Service` with their refinements, `Records`,
`Codec`, and `Conversation`; then the safe halves of two liveness properties and
the refinement of `Registry` by `Records`.  What would be next:

1. `Gate`, a composition of `Lifecycle` with the mode of `Feedback` in place of
   its free choice.  Whatever holds for every choice holds for those, so what it
   could add is liveness: which requests are still served in each mode.
2. `Records` with two tenants, for a property that relates them: an erasure of
   one leaves the other's results alone.  That depends on how uldb reads the
   prefixes of keys.
3. `RateLimit`: the token bucket with integer time, against the rate it
   promises.
