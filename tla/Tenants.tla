------------------------------- MODULE Tenants -------------------------------
(***************************************************************************)
(* Tenants: the registry of tenant.rs, its copy in the database, the       *)
(* handlers that create and delete tenants, and what every request does    *)
(* with the registry before its handler runs (server.rs).                  *)
(*                                                                         *)
(* The registry is three maps behind one RwLock (the usage map has a lock  *)
(* of its own inside): tenants by id, ids by API key, usage by id.  The    *)
(* database keeps the definitions only, and is read once, at startup.  A   *)
(* create or a delete changes the registry under the registry's lock,      *)
(* releases it, and then changes the database under the engine's lock, so  *)
(* other requests run in between.  A request checks its quota before its   *)
(* handler runs and is charged when the handler is done.                   *)
(*                                                                         *)
(* The definitions are stored among the documents, which requests write    *)
(* and erase under keys of their own choice: POST /v1/db/put, the tool     *)
(* file_write, POST /v1/gdpr/delete with a prefix or a list of keys.       *)
(*                                                                         *)
(* Abstracted: a tenant's definition is its API key (its name and its      *)
(* capabilities play no part here, and its quota is fixed with its id);    *)
(* an API key stands for its SHA-256 hash; a definition that is written as *)
(* a document has the id that its key has; OAuth has no providers, as in   *)
(* main.rs.  Time is not a variable: whenever a quota is checked, the hour *)
(* or the day of the usage record may or may not be over.                  *)
(***************************************************************************)
EXTENDS Integers, FiniteSets

CONSTANTS
    Threads,    \* connection threads that may run at the same time
    Ids,        \* tenant ids, numbered in the order of their storage keys
    Keys,       \* API keys
    None,       \* no tenant, no key, no usage record
    MaxReqs,    \* MaxReqs[i]: quota.max_requests_per_hour, 0 for unlimited
    MaxToks,    \* MaxToks[i]: quota.max_tokens_per_day, 0 for unlimited
    MaxCharge   \* the most tokens one request is charged

ASSUME ThreadsAssumption == IsFiniteSet(Threads)

ASSUME IdsAssumption == Ids \subseteq Nat

ASSUME NoneAssumption == None \notin Ids \cup Keys \cup [reqs : Nat, toks : Nat]

ASSUME QuotaAssumption ==
    MaxReqs \in [Ids -> Nat] /\ MaxToks \in [Ids -> Nat] /\ MaxCharge \in Nat

VARIABLES
    admins,     \* ApiKeyStore: the key of the environment, if any, fixed at startup
    tenants,    \* TenantRegistry.tenants: the API key of each tenant
    keyIndex,   \* TenantRegistry.key_to_tenant
    usage,      \* TenantRegistry.usage
    store,      \* the tenant definitions in the database
    pc,         \* where each thread stands
    job,        \* the tenant each thread works for, and its key
    taint       \* history: how a tenant's two copies may have come apart

registryVars == <<tenants, keyIndex, usage>>
threadVars == <<pc, job>>
vars == <<admins, registryVars, store, threadVars, taint>>

-----------------------------------------------------------------------------

Usage == [reqs : Nat, toks : Nat]
FreshUsage == [reqs |-> 0, toks |-> 0]

NoJob == [id |-> None, key |-> None]

\* A thread is between the two halves of a create or a delete.
Persisting == {"saving", "erasing"}

\* A thread may manage tenants: it got past authentication with no tenant.
Managing == {"open"} \cup Persisting

PC == {"idle", "authenticating", "quota", "working"} \cup Managing

\* Two of the tenant's creates and deletes overlapped; a write of its
\* definition failed, or another request wrote or erased under its key.
Taint == {"clean", "overlapped", "spoiled"}

TenantsOf(map) == {i \in Ids : map[i] # None}

\* The threads at work on tenant i: charged later, or in the middle of a
\* create or a delete of it.
InFlight(i) == {t \in Threads : pc[t] = "working" /\ job[t].id = i}
PersistingOn(i) == {t \in Threads : pc[t] \in Persisting /\ job[t].id = i}

Done(t) ==
    /\ pc' = [pc EXCEPT ![t] = "idle"]
    /\ job' = [job EXCEPT ![t] = NoJob]

\* usage_map.entry(id).or_default()
UsageOrDefault(i) == IF usage[i] = None THEN FreshUsage ELSE usage[i]

-----------------------------------------------------------------------------
(* Startup: load_registry_from_engine scans the definitions in key order   *)
(* and registers each, so the last tenant with a key owns the key.         *)

Owners(map, k) == {i \in Ids : map[i] = k}

LoadedIndexes(map) ==
    {index \in [Keys -> Ids \cup {None}] : \A k \in Keys :
        IF Owners(map, k) = {} THEN index[k] = None
        ELSE index[k] \in Owners(map, k) /\ \A i \in Owners(map, k) : i <= index[k]}

LoadedUsage(map) ==
    [i \in Ids |-> IF map[i] = None THEN None ELSE FreshUsage]

Init ==
    /\ admins \in {{}} \cup {{k} : k \in Keys}
    /\ store = [i \in Ids |-> None]
    /\ tenants = store
    /\ keyIndex \in LoadedIndexes(store)
    /\ usage = LoadedUsage(store)
    /\ pc = [t \in Threads |-> "idle"]
    /\ job = [t \in Threads |-> NoJob]
    /\ taint = [i \in Ids |-> "clean"]

\* The process ends at any point and is started again.
Restart ==
    /\ tenants' = store
    /\ keyIndex' \in LoadedIndexes(store)
    /\ usage' = LoadedUsage(store)
    /\ pc' = [t \in Threads |-> "idle"]
    /\ job' = [t \in Threads |-> NoJob]
    /\ taint' = [i \in Ids |-> "clean"]
    /\ UNCHANGED <<admins, store>>

-----------------------------------------------------------------------------
(* handle_connection: is authentication required, who is it, may it run?   *)

\* Mutant of AuthRequired: the tenants are not counted.
AuthRequiredByAdminKey == admins # {}

AuthRequired == admins # {} \/ TenantsOf(tenants) # {}

CountTenants(t) ==
    /\ pc[t] = "idle"
    /\ pc' = [pc EXCEPT ![t] = IF AuthRequired THEN "authenticating" ELSE "open"]
    /\ UNCHANGED <<admins, registryVars, store, job, taint>>

\* TenantRegistry::authenticate
Authenticated(k) ==
    IF keyIndex[k] # None /\ tenants[keyIndex[k]] # None
    THEN keyIndex[k] ELSE None

\* Mutant of Authenticate: an unknown token is taken for a tenant's.
AuthenticateUnknown(t, token) ==
    /\ pc[t] = "authenticating"
    /\ token # None
    /\ pc' = [pc EXCEPT ![t] = "quota"]
    /\ job' = [job EXCEPT ![t] = [id |-> Authenticated(token), key |-> token]]
    /\ UNCHANGED <<admins, registryVars, store, taint>>

\* A tenant's key wins over an admin's; no token or an unknown one: 401.
Authenticate(t, token) ==
    LET match == IF token = None THEN None ELSE Authenticated(token) IN
    /\ pc[t] = "authenticating"
    /\ \/ /\ match # None
          /\ pc' = [pc EXCEPT ![t] = "quota"]
          /\ job' = [job EXCEPT ![t] = [id |-> match, key |-> token]]
       \/ /\ match = None /\ token \in admins
          /\ pc' = [pc EXCEPT ![t] = "open"]
          /\ UNCHANGED job
       \/ /\ match = None /\ token \notin admins
          /\ Done(t)
    /\ UNCHANGED <<admins, registryVars, store, taint>>

\* The handler gets the tenant, not the token.
LetIn(t) ==
    /\ pc' = [pc EXCEPT ![t] = "working"]
    /\ job' = [job EXCEPT ![t].key = None]

\* Mutant of CheckQuota: the request that reaches the quota is refused only
\* after it.
CheckQuotaTooLate(t) ==
    LET i == job[t].id IN
    /\ pc[t] = "quota"
    /\ usage' = [usage EXCEPT ![i] = UsageOrDefault(i)]
    /\ IF \/ tenants[i] = None
          \/ MaxReqs[i] > 0 /\ UsageOrDefault(i).reqs > MaxReqs[i]
          \/ MaxToks[i] > 0 /\ UsageOrDefault(i).toks > MaxToks[i]
       THEN Done(t)
       ELSE LetIn(t)
    /\ UNCHANGED <<admins, tenants, keyIndex, store, taint>>

\* TenantRegistry::check_quota resets what is over, then compares; a tenant
\* deleted since authentication is refused, its usage record made anew.
CheckQuota(t) ==
    LET i == job[t].id IN
    /\ pc[t] = "quota"
    /\ \E hourOver, dayOver \in BOOLEAN :
          LET u == [reqs |-> IF hourOver THEN 0 ELSE UsageOrDefault(i).reqs,
                    toks |-> IF dayOver THEN 0 ELSE UsageOrDefault(i).toks]
          IN  /\ usage' = [usage EXCEPT ![i] = u]
              /\ IF \/ tenants[i] = None
                    \/ MaxReqs[i] > 0 /\ u.reqs >= MaxReqs[i]
                    \/ MaxToks[i] > 0 /\ u.toks >= MaxToks[i]
                 THEN Done(t)
                 ELSE LetIn(t)
    /\ UNCHANGED <<admins, tenants, keyIndex, store, taint>>

-----------------------------------------------------------------------------
(* The handlers of a tenant, which work on a copy of the definition, so    *)
(* that they run on when the tenant is deleted meanwhile, and those of a   *)
(* request that serves no tenant and does not manage them.                 *)

OtherOpen(t) ==
    /\ pc[t] = "open"
    /\ pc' = [pc EXCEPT ![t] = "working"]
    /\ UNCHANGED <<admins, registryVars, store, job, taint>>

\* What a counter of usage is worth under a limit.  Bound: one without a
\* limit, which nothing is compared with, is not counted.
CountUnder(limit, count) == IF limit = 0 THEN 0 ELSE count

\* record_usage charges the request when its work is done.
RecordUsage(t) ==
    LET i == job[t].id IN
    /\ pc[t] = "working" /\ i # None
    /\ \E tokens \in 0 .. MaxCharge :
          usage' = [usage EXCEPT ![i] =
                      [reqs |-> CountUnder(MaxReqs[i], UsageOrDefault(i).reqs + 1),
                       toks |-> CountUnder(MaxToks[i], UsageOrDefault(i).toks + tokens)]]
    /\ Done(t)
    /\ UNCHANGED <<admins, tenants, keyIndex, store, taint>>

\* A handler that fails, that charges nothing, that serves no tenant, or that
\* tenants may not use (403 for the management of tenants).
Uncharged(t) ==
    /\ pc[t] = "working"
    /\ Done(t)
    /\ UNCHANGED <<admins, registryVars, store, taint>>

-----------------------------------------------------------------------------
(* handle_create_tenant and handle_delete_tenant.                          *)

\* The first half of a create or delete of i: the two copies may come apart
\* for good when another one is between its halves.
NoteOverlap(i) ==
    taint' = IF PersistingOn(i) # {} /\ taint[i] = "clean"
             THEN [taint EXCEPT ![i] = "overlapped"] ELSE taint

\* TenantRegistry::register
Register(i, k) ==
    /\ keyIndex' = [keyIndex EXCEPT ![k] = i]
    /\ usage' = [usage EXCEPT ![i] = FreshUsage]
    /\ tenants' = [tenants EXCEPT ![i] = k]

\* Mutant of Remove: the key of a deleted tenant is left in the index.
RemoveKeepsKey(i) ==
    /\ tenants' = [tenants EXCEPT ![i] = None]
    /\ usage' = [usage EXCEPT ![i] = None]
    /\ UNCHANGED keyIndex

\* TenantRegistry::remove
Remove(i) ==
    /\ tenants' = [tenants EXCEPT ![i] = None]
    /\ keyIndex' = [keyIndex EXCEPT ![tenants[i]] = None]
    /\ usage' = [usage EXCEPT ![i] = None]

\* Mutant of CreateTenant: a create replaces the tenant that has the id.
CreateTenantReplaces(t, i, k) ==
    /\ pc[t] = "open"
    /\ Register(i, k)
    /\ NoteOverlap(i)
    /\ pc' = [pc EXCEPT ![t] = "saving"]
    /\ job' = [job EXCEPT ![t] = [id |-> i, key |-> k]]
    /\ UNCHANGED <<admins, store>>

CreateTenant(t, i, k) ==
    /\ pc[t] = "open"
    /\ \/ /\ tenants[i] # None         \* 400: tenant already exists
          /\ Done(t)
          /\ UNCHANGED <<registryVars, taint>>
       \/ /\ tenants[i] = None
          /\ Register(i, k)
          /\ NoteOverlap(i)
          /\ pc' = [pc EXCEPT ![t] = "saving"]
          /\ job' = [job EXCEPT ![t] = [id |-> i, key |-> k]]
    /\ UNCHANGED <<admins, store>>

DeleteTenant(t, i) ==
    /\ pc[t] = "open"
    /\ \/ /\ tenants[i] = None         \* 404: tenant not found
          /\ Done(t)
          /\ UNCHANGED <<registryVars, taint>>
       \/ /\ tenants[i] # None
          /\ Remove(i)
          /\ NoteOverlap(i)
          /\ pc' = [pc EXCEPT ![t] = "erasing"]
          /\ job' = [job EXCEPT ![t] = [id |-> i, key |-> None]]
    /\ UNCHANGED <<admins, store>>

\* A write of the database that reports an error (500) may have been made.
Write(t, i, k) ==
    \/ /\ store' = [store EXCEPT ![i] = k]
       /\ UNCHANGED taint
    \/ /\ store' \in {store, [store EXCEPT ![i] = k]}
       /\ taint' = [taint EXCEPT ![i] = "spoiled"]

SaveTenant(t) ==
    /\ pc[t] = "saving"
    /\ Write(t, job[t].id, job[t].key)
    /\ Done(t)
    /\ UNCHANGED <<admins, registryVars>>

\* Mutant of EraseTenant: the definition is left in the database.
EraseTenantKeeps(t) ==
    /\ pc[t] = "erasing"
    /\ Done(t)
    /\ UNCHANGED <<admins, registryVars, store, taint>>

EraseTenant(t) ==
    /\ pc[t] = "erasing"
    /\ Write(t, job[t].id, None)
    /\ Done(t)
    /\ UNCHANGED <<admins, registryVars>>

-----------------------------------------------------------------------------
(* What the handler of any request at work may do to the definitions that  *)
(* are stored, as to every document.                                       *)

AtWork == {t \in Threads : pc[t] = "working"}

\* A definition is written under the key of the definition of i.
Overwrite(i, k) ==
    /\ AtWork # {}
    /\ store' = [store EXCEPT ![i] = k]
    /\ taint' = [taint EXCEPT ![i] = "spoiled"]
    /\ UNCHANGED <<admins, registryVars, threadVars>>

\* Definitions are erased by their keys or by a prefix of them, or one is
\* overwritten by a document that startup cannot read and skips.
EraseKeys(gone) ==
    /\ AtWork # {}
    /\ store' = [i \in Ids |-> IF i \in gone THEN None ELSE store[i]]
    /\ taint' = [i \in Ids |-> IF i \in gone THEN "spoiled" ELSE taint[i]]
    /\ UNCHANGED <<admins, registryVars, threadVars>>

RawAccess ==
    \/ \E i \in Ids, k \in Keys : Overwrite(i, k)
    \/ \E gone \in SUBSET TenantsOf(store) \ {{}} : EraseKeys(gone)

-----------------------------------------------------------------------------

Step(t) ==
    \/ CountTenants(t)
    \/ \E token \in Keys \cup {None} : Authenticate(t, token)
    \/ CheckQuota(t) \/ OtherOpen(t) \/ RecordUsage(t) \/ Uncharged(t)
    \/ \E i \in Ids, k \in Keys : CreateTenant(t, i, k)
    \/ \E i \in Ids : DeleteTenant(t, i)
    \/ SaveTenant(t) \/ EraseTenant(t)

Next == Restart \/ RawAccess \/ \E t \in Threads : Step(t)

Spec == Init /\ [][Next]_vars

-----------------------------------------------------------------------------
(* Properties.                                                             *)

\* A thread that runs for a tenant, or changes one, knows which one, and no
\* other thread has a tenant.
TypeOK ==
    /\ admins \in SUBSET Keys
    /\ tenants \in [Ids -> Keys \cup {None}]
    /\ keyIndex \in [Keys -> Ids \cup {None}]
    /\ usage \in [Ids -> Usage \cup {None}]
    /\ store \in [Ids -> Keys \cup {None}]
    /\ pc \in [Threads -> PC]
    /\ job \in [Threads -> [id : Ids \cup {None}, key : Keys \cup {None}]]
    /\ taint \in [Ids -> Taint]
    /\ \A t \in Threads :
          /\ pc[t] \in {"quota"} \cup Persisting => job[t].id # None
          /\ pc[t] = "saving" => job[t].key # None
          /\ pc[t] \in {"idle", "authenticating", "open"} => job[t] = NoJob

\* An API key leads to no tenant or to a registered tenant that has this
\* key, whatever creates, deletes and restarts came before, also when
\* tenants share a key: nobody is authenticated as someone else.
KeyIndexSound ==
    \A k \in Keys : keyIndex[k] # None => tenants[keyIndex[k]] = k

\* A tenant's requests of an hour exceed its quota by less than the number
\* of requests that run at the same time, each of which was checked before
\* any of the others was charged; its tokens of a day by what they may use.
QuotaBounded ==
    \A i \in Ids : usage[i] # None =>
        /\ MaxReqs[i] > 0 =>
              usage[i].reqs <= MaxReqs[i] - 1 + Cardinality(Threads)
        /\ MaxToks[i] > 0 =>
              usage[i].toks <= MaxToks[i] - 1 + MaxCharge * Cardinality(Threads)

\* A restart finds each tenant as it was registered, unless a create or a
\* delete of it is between its halves, two of them overlapped, a write of it
\* failed, or another request wrote or erased under its key.
RestartFindsRegistry ==
    \A i \in Ids :
        taint[i] = "clean" /\ PersistingOn(i) = {} => store[i] = tenants[i]

\* Without an admin key, once a tenant is registered and the requests let in
\* before it was are finished, nobody can manage tenants, ...
LockedOut ==
    /\ admins = {}
    /\ TenantsOf(tenants) # {}
    /\ \A t \in Threads : pc[t] \notin Managing

\* ... until a restart that finds no tenant in the database, and nothing else
\* that anybody does ends it.
OpenModeLocksOut ==
    [][LockedOut => LockedOut' \/ (Restart /\ TenantsOf(store) = {})]_vars

\* The three maps, the locks between them and the database behave, to anyone
\* who asks, like one map that is changed and read in single steps, with a
\* copy that each change reaches later or never and that others may write to:
\* see module Registry.
Promise == INSTANCE Registry WITH
    registered <- tenants,
    saved <- store,
    found <- [t \in Threads |-> IF pc[t] = "quota" THEN job[t] ELSE NoJob],
    unsaved <- [t \in Threads |->
        IF pc[t] \in Persisting THEN job[t] ELSE NoJob]

ImplementsRegistry == Promise!Spec

\* tenant.rs:4: "Each tenant has a unique ID and API key".
UniqueApiKeys ==
    \A i, j \in TenantsOf(tenants) : i # j => tenants[i] # tenants[j]

\* tenant.rs:366 "Load all persisted tenants from uldb into a fresh
\* registry", handlers.rs:2796 "status": "deleted": when every write
\* succeeded, nobody else wrote under the keys and no create or delete is
\* under way, a restart brings back the registry as it is.
RestartKeepsRegistry ==
    \A i \in Ids :
        taint[i] # "spoiled" /\ PersistingOn(i) = {} => store[i] = tenants[i]
=============================================================================
