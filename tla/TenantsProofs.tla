---------------------------- MODULE TenantsProofs ----------------------------
(***************************************************************************)
(* What holds of Tenants for every set of tenants, keys and threads and    *)
(* every quota.                                                            *)
(*                                                                         *)
(* Each invariant is made inductive by what it leaves out: the key index   *)
(* points to registered tenants only; the quota bound counts the requests  *)
(* that were let through and are not charged yet; the agreement of the two *)
(* copies of a tenant includes what the one create or delete under way     *)
(* still has to write.                                                     *)
(***************************************************************************)
EXTENDS Tenants, FiniteSetTheorems, TLAPS

-----------------------------------------------------------------------------
(* Types.                                                                  *)

LEMMA FreshUsageType == FreshUsage \in Usage
  BY DEF FreshUsage, Usage

LEMMA UsageOrDefaultType ==
  ASSUME TypeOK, NEW i \in Ids
  PROVE  UsageOrDefault(i) \in Usage
  BY FreshUsageType DEF TypeOK, UsageOrDefault

\* What record_usage makes of the record of tenant i.
Charged(i, tokens) ==
  [reqs |-> CountUnder(MaxReqs[i], UsageOrDefault(i).reqs + 1),
   toks |-> CountUnder(MaxToks[i], UsageOrDefault(i).toks + tokens)]

LEMMA ChargedType ==
  ASSUME NEW i \in Ids, UsageOrDefault(i) \in Usage, NEW tokens \in 0 .. MaxCharge
  PROVE  Charged(i, tokens) \in Usage
<1>1. PICK r \in Nat, k \in Nat : UsageOrDefault(i) = [reqs |-> r, toks |-> k]
  BY DEF Usage
<1>2. r + 1 \in Nat /\ k + tokens \in Nat
  BY QuotaAssumption
<1> QED
  BY <1>1, <1>2 DEF Charged, CountUnder, Usage

LEMMA LoadedType ==
  ASSUME NEW map \in [Ids -> Keys \cup {None}],
         NEW index \in LoadedIndexes(map)
  PROVE  /\ index \in [Keys -> Ids \cup {None}]
         /\ LoadedUsage(map) \in [Ids -> Usage \cup {None}]
  BY FreshUsageType DEF LoadedIndexes, LoadedUsage

LEMMA InitTypeOK == Init => TypeOK
<1> SUFFICES ASSUME Init PROVE TypeOK
  OBVIOUS
<1>1. store \in [Ids -> Keys \cup {None}]
  BY DEF Init
<1>2. keyIndex \in [Keys -> Ids \cup {None}] /\ usage \in [Ids -> Usage \cup {None}]
  BY <1>1, LoadedType DEF Init
<1> QED
  BY <1>1, <1>2 DEF Init, TypeOK, PC, Managing, Persisting, NoJob, Taint

LEMMA RestartTypeOK == TypeOK /\ Restart => TypeOK'
<1> SUFFICES ASSUME TypeOK, Restart PROVE TypeOK'
  OBVIOUS
<1>1. keyIndex' \in [Keys -> Ids \cup {None}] /\ usage' \in [Ids -> Usage \cup {None}]
  BY LoadedType DEF Restart, TypeOK
<1> QED
  BY <1>1 DEF Restart, TypeOK, PC, Managing, Persisting, NoJob, Taint

\* What TypeOK says of the threads.
ThreadsOK ==
  /\ pc \in [Threads -> PC]
  /\ job \in [Threads -> [id : Ids \cup {None}, key : Keys \cup {None}]]
  /\ \A t \in Threads :
        /\ pc[t] \in {"quota"} \cup Persisting => job[t].id # None
        /\ pc[t] = "saving" => job[t].key # None
        /\ pc[t] \in {"idle", "authenticating", "open"} => job[t] = NoJob

LEMMA DoneKeepsThreadsOK ==
  ASSUME TypeOK, NEW t \in Threads, Done(t)
  PROVE  ThreadsOK'
  BY DEF TypeOK, ThreadsOK, Done, NoJob, PC, Managing, Persisting

LEMMA StepTypeOK ==
  ASSUME TypeOK, NEW t \in Threads, Step(t)
  PROVE  TypeOK'
<1> USE DEF TypeOK, PC, Managing, Persisting, Done, NoJob, registryVars
<1>1. CASE CountTenants(t)
  BY <1>1 DEF CountTenants
<1>2. ASSUME NEW token \in Keys \cup {None}, Authenticate(t, token) PROVE TypeOK'
  <2> DEFINE match == IF token = None THEN None ELSE Authenticated(token)
  <2>1. match \in Ids \cup {None}
    BY DEF Authenticated
  <2>2. \/ /\ match # None
           /\ pc' = [pc EXCEPT ![t] = "quota"]
           /\ job' = [job EXCEPT ![t] = [id |-> match, key |-> token]]
        \/ pc' = [pc EXCEPT ![t] = "open"] /\ UNCHANGED job
        \/ Done(t)
    BY <1>2 DEF Authenticate
  <2> HIDE DEF match
  <2>3. CASE match # None /\ job' = [job EXCEPT ![t] = [id |-> match, key |-> token]]
                          /\ pc' = [pc EXCEPT ![t] = "quota"]
    <3>1. match \in Ids
      BY <2>1, <2>3
    <3> QED
      BY <1>2, <2>3, <3>1, NoneAssumption DEF Authenticate
  <2>4. CASE \/ pc' = [pc EXCEPT ![t] = "open"] /\ UNCHANGED job
             \/ Done(t)
    <3>1. UNCHANGED <<admins, registryVars, store, taint>> /\ job[t] = NoJob
      BY <1>2 DEF Authenticate
    <3>2. CASE pc' = [pc EXCEPT ![t] = "open"] /\ UNCHANGED job
      BY <3>1, <3>2
    <3>3. CASE Done(t)
      BY <3>1, <3>3, DoneKeepsThreadsOK DEF ThreadsOK
    <3> QED
      BY <2>4, <3>2, <3>3
  <2> QED
    BY <2>2, <2>3, <2>4
<1>3. CASE CheckQuota(t)
  <2>1. job[t].id \in Ids
    BY <1>3 DEF CheckQuota
  <2>2. UsageOrDefault(job[t].id) \in Usage
    BY <2>1, UsageOrDefaultType
  <2>3. usage' \in [Ids -> Usage \cup {None}]
    BY <1>3, <2>1, <2>2 DEF CheckQuota, Usage
  <2>4. \/ /\ pc' = [pc EXCEPT ![t] = "working"]
           /\ job' = [job EXCEPT ![t].key = None]
        \/ Done(t)
    BY <1>3 DEF CheckQuota, LetIn
  <2>5. UNCHANGED <<admins, tenants, keyIndex, store, taint>>
    BY <1>3 DEF CheckQuota
  <2>6. ThreadsOK'
    <3>1. CASE Done(t)
      BY <3>1, DoneKeepsThreadsOK
    <3>2. CASE pc' = [pc EXCEPT ![t] = "working"] /\ job' = [job EXCEPT ![t].key = None]
      BY <2>1, <3>2, NoneAssumption DEF ThreadsOK
    <3> QED
      BY <2>4, <3>1, <3>2
  <2> QED
    BY <2>3, <2>5, <2>6 DEF ThreadsOK
<1>4. CASE RecordUsage(t)
  <2>1. job[t].id \in Ids
    BY <1>4 DEF RecordUsage
  <2>2. UsageOrDefault(job[t].id) \in Usage
    BY <2>1, UsageOrDefaultType
  <2>3. usage' \in [Ids -> Usage \cup {None}]
    <3>1. PICK tokens \in 0 .. MaxCharge :
            usage' = [usage EXCEPT ![job[t].id] = Charged(job[t].id, tokens)]
      BY <1>4 DEF RecordUsage, Charged
    <3>2. Charged(job[t].id, tokens) \in Usage
      BY <2>1, <2>2, ChargedType
    <3> QED
      BY <3>1, <3>2
  <2> QED
    BY <1>4, <2>3 DEF RecordUsage
<1>5. CASE Uncharged(t)
  BY <1>5 DEF Uncharged
<1>6. ASSUME NEW i \in Ids, NEW k \in Keys, CreateTenant(t, i, k) PROVE TypeOK'
  <2>1. CASE tenants[i] # None
    BY <1>6, <2>1, DoneKeepsThreadsOK DEF CreateTenant, ThreadsOK
  <2>2. CASE tenants[i] = None
    <3>1. taint' \in [Ids -> Taint]
      BY <1>6, <2>2 DEF CreateTenant, NoteOverlap, Taint
    <3>2. /\ tenants' \in [Ids -> Keys \cup {None}]
          /\ keyIndex' \in [Keys -> Ids \cup {None}]
          /\ usage' \in [Ids -> Usage \cup {None}]
      <4>1. Register(i, k)
        BY <1>6, <2>2 DEF CreateTenant
      <4> QED
        BY <4>1, FreshUsageType DEF Register
    <3>3. /\ pc' = [pc EXCEPT ![t] = "saving"]
          /\ job' = [job EXCEPT ![t] = [id |-> i, key |-> k]]
          /\ UNCHANGED <<admins, store>>
      BY <1>6, <2>2 DEF CreateTenant
    <3> QED
      BY <3>1, <3>2, <3>3, NoneAssumption
  <2> QED
    BY <2>1, <2>2
<1>7. ASSUME NEW i \in Ids, DeleteTenant(t, i) PROVE TypeOK'
  <2>1. CASE tenants[i] = None
    BY <1>7, <2>1, DoneKeepsThreadsOK DEF DeleteTenant, ThreadsOK
  <2>2. CASE tenants[i] # None
    <3>1. taint' \in [Ids -> Taint]
      BY <1>7, <2>2 DEF DeleteTenant, NoteOverlap, Taint
    <3>2. /\ tenants' \in [Ids -> Keys \cup {None}]
          /\ keyIndex' \in [Keys -> Ids \cup {None}]
          /\ usage' \in [Ids -> Usage \cup {None}]
      BY <1>7, <2>2 DEF DeleteTenant, Remove
    <3>3. /\ pc' = [pc EXCEPT ![t] = "erasing"]
          /\ job' = [job EXCEPT ![t] = [id |-> i, key |-> None]]
          /\ UNCHANGED <<admins, store>>
      BY <1>7, <2>2 DEF DeleteTenant
    <3> QED
      BY <3>1, <3>2, <3>3, NoneAssumption
  <2> QED
    BY <2>1, <2>2
<1>8. CASE OtherOpen(t)
  BY <1>8 DEF OtherOpen
<1>9. CASE SaveTenant(t)
  <2>1. job[t].id \in Ids /\ job[t].key \in Keys \cup {None}
    BY <1>9 DEF SaveTenant
  <2>2. store' \in [Ids -> Keys \cup {None}] /\ taint' \in [Ids -> Taint]
    BY <1>9, <2>1 DEF SaveTenant, Write, Taint
  <2> QED
    BY <1>9, <2>2 DEF SaveTenant
<1>10. CASE EraseTenant(t)
  <2>1. job[t].id \in Ids
    BY <1>10 DEF EraseTenant
  <2>2. store' \in [Ids -> Keys \cup {None}] /\ taint' \in [Ids -> Taint]
    BY <1>10, <2>1 DEF EraseTenant, Write, Taint
  <2> QED
    BY <1>10, <2>2 DEF EraseTenant
<1> QED
  BY <1>1, <1>2, <1>3, <1>4, <1>5, <1>6, <1>7, <1>8, <1>9, <1>10 DEF Step

LEMMA RawAccessTypeOK ==
  ASSUME TypeOK, RawAccess
  PROVE  TypeOK'
<1>1. store' \in [Ids -> Keys \cup {None}] /\ taint' \in [Ids -> Taint]
  BY DEF TypeOK, RawAccess, Overwrite, EraseKeys, Taint
<1>2. UNCHANGED <<admins, tenants, keyIndex, usage, pc, job>>
  BY DEF RawAccess, Overwrite, EraseKeys, registryVars, threadVars
<1> QED
  BY <1>1, <1>2 DEF TypeOK

LEMMA NextTypeOK == TypeOK /\ [Next]_vars => TypeOK'
<1>1. TypeOK /\ UNCHANGED vars => TypeOK'
  BY DEF vars, registryVars, threadVars, TypeOK
<1> QED
  BY <1>1, RestartTypeOK, RawAccessTypeOK, StepTypeOK DEF Next

\* Every variable keeps its type, and a thread that runs for a tenant knows
\* which one.
THEOREM TypeCorrect == Spec => []TypeOK
  BY InitTypeOK, NextTypeOK, PTL DEF Spec

-----------------------------------------------------------------------------
(* The key index.  It is inductive once the values have their types: a key *)
(* is given to a tenant together with the tenant, and both are taken away  *)
(* together.                                                               *)

LEMMA LoadedSound ==
  ASSUME NEW map \in [Ids -> Keys \cup {None}],
         NEW index \in LoadedIndexes(map),
         NEW k \in Keys, index[k] # None
  PROVE  map[index[k]] = k
  BY DEF LoadedIndexes, Owners

LEMMA InitKeyIndexSound == Init => KeyIndexSound
<1> SUFFICES ASSUME Init, NEW k \in Keys, keyIndex[k] # None
             PROVE  tenants[keyIndex[k]] = k
  BY DEF KeyIndexSound
<1>1. store \in [Ids -> Keys \cup {None}]
  BY DEF Init
<1> QED
  BY <1>1, LoadedSound DEF Init

LEMMA NextKeyIndexSound ==
  TypeOK /\ KeyIndexSound /\ [Next]_vars => KeyIndexSound'
<1> SUFFICES ASSUME TypeOK, KeyIndexSound, [Next]_vars, NEW k \in Keys, keyIndex'[k] # None
             PROVE  tenants'[keyIndex'[k]] = k
  BY DEF KeyIndexSound
<1>1. CASE Restart
  BY <1>1, LoadedSound DEF Restart, TypeOK
<1>2. CASE UNCHANGED <<tenants, keyIndex>>
  BY <1>2 DEF KeyIndexSound
<1>3. ASSUME NEW i \in Ids, NEW x \in Keys, tenants[i] = None, Register(i, x)
      PROVE  tenants'[keyIndex'[k]] = k
  <2>1. CASE k = x
    BY <1>3, <2>1 DEF Register, TypeOK
  <2>2. CASE k # x
    <3>1. keyIndex'[k] = keyIndex[k] /\ tenants[keyIndex[k]] = k
      BY <1>3, <2>2 DEF Register, TypeOK, KeyIndexSound
    <3>2. keyIndex[k] # i
      BY <1>3, <3>1, NoneAssumption
    <3> QED
      BY <1>3, <3>1, <3>2 DEF Register, TypeOK
  <2> QED
    BY <2>1, <2>2
<1>4. ASSUME NEW i \in Ids, tenants[i] # None, Remove(i)
      PROVE  tenants'[keyIndex'[k]] = k
  <2>1. k # tenants[i] /\ keyIndex'[k] = keyIndex[k]
    BY <1>4 DEF Remove, TypeOK
  <2>2. tenants[keyIndex[k]] = k /\ keyIndex[k] # i
    BY <2>1 DEF KeyIndexSound
  <2> QED
    BY <1>4, <2>1, <2>2 DEF Remove, TypeOK
<1>5. ASSUME NEW t \in Threads, Step(t)
      PROVE  \/ UNCHANGED <<tenants, keyIndex>>
             \/ \E i \in Ids, x \in Keys : tenants[i] = None /\ Register(i, x)
             \/ \E i \in Ids : tenants[i] # None /\ Remove(i)
  BY <1>5 DEF Step, CountTenants, Authenticate, CheckQuota, RecordUsage, Uncharged,
              CreateTenant, DeleteTenant, SaveTenant, EraseTenant, OtherOpen, registryVars
<1>6. RawAccess => UNCHANGED <<tenants, keyIndex>>
  BY DEF RawAccess, Overwrite, EraseKeys, registryVars
<1> QED
  BY <1>1, <1>2, <1>3, <1>4, <1>5, <1>6 DEF Next, vars, registryVars

\* Whoever is authenticated by a key is a registered tenant with this key.
THEOREM KeysLeadHome == Spec => []KeyIndexSound
  BY InitTypeOK, NextTypeOK, InitKeyIndexSound, NextKeyIndexSound, PTL DEF Spec

-----------------------------------------------------------------------------
(* The lock-out of open mode, a property of single steps: with no thread   *)
(* managing tenants the registry stays as it is, whatever becomes of its   *)
(* copy, and with a tenant registered no thread gets to manage them.  Only *)
(* a restart makes the copy the registry.                                  *)

LEMMA LockedOutStep ==
  ASSUME TypeOK, LockedOut, NEW t \in Threads, Step(t)
  PROVE  LockedOut'
<1>1. pc[t] \notin Managing /\ AuthRequired
  BY DEF LockedOut, AuthRequired
<1>2. UNCHANGED <<admins, tenants>>
  BY <1>1 DEF Step, CountTenants, Authenticate, CheckQuota, RecordUsage, Uncharged,
              CreateTenant, DeleteTenant, SaveTenant, EraseTenant, OtherOpen,
              registryVars, Managing, Persisting
<1>3. \E p \in PC \ Managing : pc' = [pc EXCEPT ![t] = p]
  <2>1. \A p \in {"idle", "authenticating", "quota", "working"} : p \in PC \ Managing
    BY DEF PC, Managing, Persisting
  <2> QED
    BY <1>1, <2>1 DEF LockedOut, Step, CountTenants, Authenticate, CheckQuota, RecordUsage,
          Uncharged, CreateTenant, DeleteTenant, SaveTenant, EraseTenant, OtherOpen,
          Managing, Persisting, Done, LetIn
<1>4. \A u \in Threads : pc'[u] \notin Managing
  BY <1>3 DEF LockedOut, TypeOK
<1> QED
  BY <1>2, <1>4 DEF LockedOut, TenantsOf

LEMMA LockedOutRawAccess == LockedOut /\ RawAccess => LockedOut'
  BY DEF LockedOut, RawAccess, Overwrite, EraseKeys, registryVars, threadVars, TenantsOf

LEMMA LockedOutRestart == LockedOut /\ Restart => LockedOut' \/ TenantsOf(store) = {}
  BY DEF LockedOut, Restart, TenantsOf, Managing, Persisting

\* Once nobody can manage tenants, nobody can again before a restart that
\* finds no tenant in the database.
THEOREM LockOutIsForGood == Spec => OpenModeLocksOut
<1>1. TypeOK /\ [Next]_vars =>
        [LockedOut => LockedOut' \/ (Restart /\ TenantsOf(store) = {})]_vars
  BY LockedOutStep, LockedOutRawAccess, LockedOutRestart DEF Next
<1> QED
  BY <1>1, TypeCorrect, PTL DEF Spec, OpenModeLocksOut

-----------------------------------------------------------------------------
(* The two copies of a tenant.  While no two creates or deletes of it have *)
(* overlapped, no write of it failed and nobody else wrote or erased under *)
(* its key, at most one is under way, and the registry already holds what  *)
(* that one will write.                                                    *)

CopiesAgree ==
  \A i \in Ids : taint[i] = "clean" =>
    /\ PersistingOn(i) = {} => store[i] = tenants[i]
    /\ \A t, u \in PersistingOn(i) : t = u
    /\ \A t \in PersistingOn(i) :
          tenants[i] = IF pc[t] = "saving" THEN job[t].key ELSE None

LEMMA InitCopiesAgree == Init => CopiesAgree
  BY DEF Init, CopiesAgree, PersistingOn, Persisting

LEMMA RestartCopiesAgree == Restart => CopiesAgree'
  BY DEF Restart, CopiesAgree, PersistingOn, Persisting

\* A step that neither creates nor deletes.
LEMMA OtherStepCopiesAgree ==
  ASSUME TypeOK, CopiesAgree, NEW t \in Threads,
         UNCHANGED <<tenants, store, taint>>,
         pc[t] \notin Persisting, pc'[t] \notin Persisting,
         \A u \in Threads \ {t} : pc'[u] = pc[u] /\ job'[u] = job[u]
  PROVE  CopiesAgree'
<1>1. \A i \in Ids : PersistingOn(i)' = PersistingOn(i)
  BY DEF PersistingOn
<1>2. \A i \in Ids : \A u \in PersistingOn(i) : pc'[u] = pc[u] /\ job'[u] = job[u]
  BY DEF PersistingOn
<1> QED
  BY <1>1, <1>2 DEF CopiesAgree

\* The first half of a create or a delete of i.
LEMMA FirstHalfCopiesAgree ==
  ASSUME TypeOK, CopiesAgree, NEW t \in Threads, NEW i \in Ids,
         pc[t] = "open", pc'[t] \in Persisting, job'[t].id = i,
         \A u \in Threads \ {t} : pc'[u] = pc[u] /\ job'[u] = job[u],
         NoteOverlap(i), UNCHANGED store,
         \A j \in Ids \ {i} : tenants'[j] = tenants[j],
         tenants'[i] = IF pc'[t] = "saving" THEN job'[t].key ELSE None
  PROVE  CopiesAgree'
<1> SUFFICES ASSUME NEW j \in Ids, taint'[j] = "clean"
             PROVE  /\ PersistingOn(j)' = {} => store'[j] = tenants'[j]
                    /\ \A v, u \in PersistingOn(j)' : v = u
                    /\ \A v \in PersistingOn(j)' :
                         tenants'[j] = IF pc'[v] = "saving" THEN job'[v].key ELSE None
  BY DEF CopiesAgree
<1>1. taint[j] = "clean"
  BY DEF NoteOverlap, TypeOK
<1>2. CASE j = i
  <2>1. PersistingOn(i) = {}
    BY <1>1, <1>2 DEF NoteOverlap, TypeOK
  <2>2. PersistingOn(i)' = {t}
    BY <2>1 DEF PersistingOn
  <2> QED
    BY <1>2, <2>2
<1>3. CASE j # i
  <2>1. PersistingOn(j)' = PersistingOn(j)
    BY <1>3 DEF PersistingOn, Persisting
  <2>2. \A u \in PersistingOn(j) : pc'[u] = pc[u] /\ job'[u] = job[u]
    BY DEF PersistingOn, Persisting
  <2> QED
    BY <1>1, <1>3, <2>1, <2>2 DEF CopiesAgree
<1> QED
  BY <1>2, <1>3

\* The second half: the write.
LEMMA SecondHalfCopiesAgree ==
  ASSUME TypeOK, CopiesAgree, NEW t \in Threads, pc[t] \in Persisting, Done(t),
         Write(t, job[t].id, IF pc[t] = "saving" THEN job[t].key ELSE None),
         UNCHANGED tenants
  PROVE  CopiesAgree'
<1> SUFFICES ASSUME NEW j \in Ids, taint'[j] = "clean"
             PROVE  /\ PersistingOn(j)' = {} => store'[j] = tenants'[j]
                    /\ \A v, u \in PersistingOn(j)' : v = u
                    /\ \A v \in PersistingOn(j)' :
                         tenants'[j] = IF pc'[v] = "saving" THEN job'[v].key ELSE None
  BY DEF CopiesAgree
<1>1. job[t].id \in Ids /\ taint[j] = "clean"
  BY DEF TypeOK, Write
<1>2. pc'[t] \notin Persisting /\ \A u \in Threads \ {t} : pc'[u] = pc[u] /\ job'[u] = job[u]
  BY DEF Done, TypeOK, Persisting
<1>3. CASE j = job[t].id
  <2>1. PersistingOn(j) = {t}
    BY <1>1, <1>3 DEF CopiesAgree, PersistingOn
  <2>2. PersistingOn(j)' = {}
    BY <1>2, <2>1 DEF PersistingOn
  <2>3. store'[j] = IF pc[t] = "saving" THEN job[t].key ELSE None
    BY <1>1, <1>3 DEF Write, TypeOK
  <2> QED
    BY <1>1, <2>1, <2>2, <2>3 DEF CopiesAgree
<1>4. CASE j # job[t].id
  <2>1. PersistingOn(j)' = PersistingOn(j)
    BY <1>2, <1>4 DEF PersistingOn
  <2>2. \A u \in PersistingOn(j) : pc'[u] = pc[u] /\ job'[u] = job[u]
    BY <1>2, <1>4 DEF PersistingOn
  <2>3. store'[j] = store[j]
    BY <1>1, <1>4 DEF Write, TypeOK
  <2> QED
    BY <1>1, <2>1, <2>2, <2>3 DEF CopiesAgree
<1> QED
  BY <1>3, <1>4

LEMMA StepCopiesAgree ==
  ASSUME TypeOK, CopiesAgree, NEW t \in Threads, Step(t)
  PROVE  CopiesAgree'
<1>1. \A u \in Threads \ {t} : pc'[u] = pc[u] /\ job'[u] = job[u]
  BY DEF TypeOK, Step, CountTenants, Authenticate, CheckQuota, RecordUsage, Uncharged,
         CreateTenant, DeleteTenant, SaveTenant, EraseTenant, OtherOpen, Done, LetIn
<1>2. CASE \/ CountTenants(t) \/ CheckQuota(t) \/ RecordUsage(t)
           \/ Uncharged(t) \/ OtherOpen(t)
           \/ \E token \in Keys \cup {None} : Authenticate(t, token)
  <2>1. UNCHANGED <<tenants, store, taint>> /\ pc[t] \notin Persisting
    BY <1>2 DEF CountTenants, Authenticate, CheckQuota, RecordUsage, Uncharged,
                OtherOpen, registryVars, Persisting
  <2>2. pc'[t] \notin Persisting
    BY <1>2 DEF TypeOK, CountTenants, Authenticate, CheckQuota, RecordUsage, Uncharged,
                OtherOpen, Done, LetIn, Persisting
  <2> QED
    BY <1>1, <2>1, <2>2, OtherStepCopiesAgree
<1>3. ASSUME NEW i \in Ids, NEW k \in Keys, CreateTenant(t, i, k) PROVE CopiesAgree'
  <2>1. CASE tenants[i] # None
    <3>1. /\ UNCHANGED <<tenants, store, taint>>
          /\ pc[t] \notin Persisting /\ pc'[t] \notin Persisting
      BY <1>3, <2>1 DEF TypeOK, CreateTenant, registryVars, Done, Persisting
    <3> QED
      BY <1>1, <3>1, OtherStepCopiesAgree
  <2>2. CASE tenants[i] = None
    <3>1. /\ pc[t] = "open" /\ pc'[t] = "saving"
          /\ job'[t] = [id |-> i, key |-> k]
          /\ NoteOverlap(i) /\ UNCHANGED store
      BY <1>3, <2>2 DEF TypeOK, CreateTenant
    <3>2. tenants'[i] = k /\ \A j \in Ids \ {i} : tenants'[j] = tenants[j]
      BY <1>3, <2>2 DEF TypeOK, CreateTenant, Register
    <3> QED
      BY <1>1, <3>1, <3>2, FirstHalfCopiesAgree DEF Persisting
  <2> QED
    BY <2>1, <2>2
<1>4. ASSUME NEW i \in Ids, DeleteTenant(t, i) PROVE CopiesAgree'
  <2>1. CASE tenants[i] = None
    <3>1. /\ UNCHANGED <<tenants, store, taint>>
          /\ pc[t] \notin Persisting /\ pc'[t] \notin Persisting
      BY <1>4, <2>1 DEF TypeOK, DeleteTenant, registryVars, Done, Persisting
    <3> QED
      BY <1>1, <3>1, OtherStepCopiesAgree
  <2>2. CASE tenants[i] # None
    <3>1. /\ pc[t] = "open" /\ pc'[t] = "erasing" /\ job'[t].id = i
          /\ NoteOverlap(i) /\ UNCHANGED store
      BY <1>4, <2>2 DEF TypeOK, DeleteTenant
    <3>2. tenants'[i] = None /\ \A j \in Ids \ {i} : tenants'[j] = tenants[j]
      BY <1>4, <2>2 DEF TypeOK, DeleteTenant, Remove
    <3> QED
      BY <1>1, <3>1, <3>2, FirstHalfCopiesAgree DEF Persisting
  <2> QED
    BY <2>1, <2>2
<1>5. CASE SaveTenant(t)
  BY <1>5, SecondHalfCopiesAgree DEF SaveTenant, registryVars, Persisting
<1>6. CASE EraseTenant(t)
  BY <1>6, SecondHalfCopiesAgree DEF EraseTenant, registryVars, Persisting
<1> QED
  BY <1>2, <1>3, <1>4, <1>5, <1>6 DEF Step

\* Another request writes or erases: of the tenants it touches nothing is
\* claimed any more.
LEMMA RawAccessCopiesAgree ==
  ASSUME TypeOK, CopiesAgree, RawAccess
  PROVE  CopiesAgree'
<1>1. UNCHANGED <<tenants, pc, job>>
  BY DEF RawAccess, Overwrite, EraseKeys, registryVars, threadVars
<1>2. \A i \in Ids : taint'[i] = "clean" => taint[i] = "clean" /\ store'[i] = store[i]
  BY DEF TypeOK, RawAccess, Overwrite, EraseKeys
<1> QED
  BY <1>1, <1>2 DEF CopiesAgree, PersistingOn

LEMMA NextCopiesAgree == TypeOK /\ CopiesAgree /\ [Next]_vars => CopiesAgree'
<1>1. CopiesAgree /\ UNCHANGED vars => CopiesAgree'
  BY DEF vars, registryVars, threadVars, CopiesAgree, PersistingOn
<1> QED
  BY <1>1, RestartCopiesAgree, RawAccessCopiesAgree, StepCopiesAgree DEF Next

\* What a restart finds of a tenant that nothing went wrong with.
THEOREM RestartsAgree == Spec => []RestartFindsRegistry
<1>1. CopiesAgree => RestartFindsRegistry
  BY DEF CopiesAgree, RestartFindsRegistry
<1> QED
  BY <1>1, InitTypeOK, NextTypeOK, InitCopiesAgree, NextCopiesAgree, PTL DEF Spec

-----------------------------------------------------------------------------
(* The quotas.  What counts against a quota is what is charged and what    *)
(* the requests that were let through may still be charged.  A request is  *)
(* let through below the quota, and then at most all threads are.          *)

\* A usage record u of tenant i, and n requests of its let through and not
\* charged yet.
Fits(i, u, n) ==
  /\ MaxReqs[i] > 0 => u.reqs + n <= MaxReqs[i] - 1 + Cardinality(Threads)
  /\ MaxToks[i] > 0 =>
        u.toks + MaxCharge * n <= MaxToks[i] - 1 + MaxCharge * Cardinality(Threads)

UsageFits == \A i \in Ids : Fits(i, UsageOrDefault(i), Cardinality(InFlight(i)))

LEMMA LimitsType ==
  ASSUME NEW i \in Ids
  PROVE  MaxReqs[i] \in Nat /\ MaxToks[i] \in Nat /\ MaxCharge \in Nat
  BY QuotaAssumption

LEMMA ThreadsCardinality == Cardinality(Threads) \in Nat
  BY ThreadsAssumption, FS_CardinalityType

LEMMA InFlightCardinality ==
  ASSUME NEW i \in Ids
  PROVE  /\ IsFiniteSet(InFlight(i))
         /\ Cardinality(InFlight(i)) \in 0 .. Cardinality(Threads)
<1>1. InFlight(i) \subseteq Threads
  BY DEF InFlight
<1>2. IsFiniteSet(InFlight(i)) /\ Cardinality(InFlight(i)) <= Cardinality(Threads)
  BY <1>1, ThreadsAssumption, FS_Subset
<1> QED
  BY <1>2, FS_CardinalityType, ThreadsCardinality

LEMMA ProductMonotone ==
  ASSUME NEW c \in Nat, NEW m \in Nat, NEW n \in Nat, m <= n
  PROVE  c * m \in Nat /\ c * n \in Nat /\ c * m <= c * n
<1>1. c * n - c * m = c * (n - m) /\ n - m \in Nat
  OBVIOUS
<1>2. c * m \in Nat /\ c * n \in Nat /\ c * (n - m) \in Nat
  BY <1>1
<1> QED
  BY <1>1, <1>2

\* Below the quota, all threads fit.
LEMMA BelowFits ==
  ASSUME NEW i \in Ids, NEW u \in Usage, NEW n \in 0 .. Cardinality(Threads),
         MaxReqs[i] > 0 => u.reqs < MaxReqs[i], MaxToks[i] > 0 => u.toks < MaxToks[i]
  PROVE  Fits(i, u, n)
<1>1. u.reqs \in Nat /\ u.toks \in Nat /\ n \in Nat
  BY ThreadsCardinality DEF Usage
<1>2. /\ MaxCharge * n \in Nat
      /\ MaxCharge * Cardinality(Threads) \in Nat
      /\ MaxCharge * n <= MaxCharge * Cardinality(Threads)
  BY <1>1, ThreadsCardinality, ProductMonotone, QuotaAssumption
<1> QED
  BY <1>1, <1>2, LimitsType, ThreadsCardinality DEF Fits

\* What fits still does when less is charged or fewer are to be charged.
LEMMA LessFits ==
  ASSUME NEW i \in Ids, NEW u \in Usage, NEW v \in Usage, NEW m \in Nat, NEW n \in Nat,
         Fits(i, u, n), v.reqs <= u.reqs, v.toks <= u.toks, m <= n
  PROVE  Fits(i, v, m)
<1>1. u.reqs \in Nat /\ u.toks \in Nat /\ v.reqs \in Nat /\ v.toks \in Nat
  BY DEF Usage
<1>2. MaxCharge * m \in Nat /\ MaxCharge * n \in Nat /\ MaxCharge * m <= MaxCharge * n
  BY ProductMonotone, QuotaAssumption
<1>3. MaxCharge * Cardinality(Threads) \in Nat
  BY ThreadsCardinality, ProductMonotone, QuotaAssumption
<1> QED
  BY <1>1, <1>2, <1>3, LimitsType, ThreadsCardinality DEF Fits

\* Charging one of the requests let through.
LEMMA ChargedFits ==
  ASSUME NEW i \in Ids, NEW u \in Usage, NEW v \in Usage, NEW n \in Nat,
         Fits(i, u, n + 1), NEW tokens \in 0 .. MaxCharge,
         MaxReqs[i] > 0 => v.reqs = u.reqs + 1,
         MaxToks[i] > 0 => v.toks = u.toks + tokens
  PROVE  Fits(i, v, n)
<1>1. /\ u.reqs \in Nat /\ u.toks \in Nat /\ v.reqs \in Nat /\ v.toks \in Nat
      /\ tokens \in Nat /\ tokens <= MaxCharge
  BY QuotaAssumption DEF Usage
<1>2. MaxCharge * (n + 1) = MaxCharge * n + MaxCharge
  BY QuotaAssumption
<1>3. MaxCharge * n \in Nat /\ MaxCharge * Cardinality(Threads) \in Nat
  BY ThreadsCardinality, ProductMonotone, QuotaAssumption
<1> QED
  BY <1>1, <1>2, <1>3, LimitsType, ThreadsCardinality DEF Fits

LEMMA NobodyFits ==
  ASSUME NEW i \in Ids, NEW n \in 0 .. Cardinality(Threads)
  PROVE  Fits(i, FreshUsage, n)
  BY FreshUsageType, BelowFits, LimitsType DEF FreshUsage

LEMMA AllFreshFits ==
  ASSUME \A i \in Ids : usage[i] \in {FreshUsage, None}
  PROVE  UsageFits
  BY InFlightCardinality, NobodyFits DEF UsageOrDefault, UsageFits

LEMMA InitUsageFits == Init => UsageFits
  BY AllFreshFits DEF Init, LoadedUsage

LEMMA RestartUsageFits == Restart => UsageFits'
<1> SUFFICES ASSUME Restart, NEW i \in Ids
             PROVE  Fits(i, UsageOrDefault(i), Cardinality(InFlight(i)))'
  BY DEF UsageFits
<1>1. UsageOrDefault(i)' = FreshUsage
  BY DEF Restart, LoadedUsage, UsageOrDefault
<1>2. InFlight(i)' = {}
  BY DEF Restart, InFlight
<1>3. Cardinality({}) \in 0 .. Cardinality(Threads)
  BY FS_EmptySet, ThreadsCardinality
<1>4. Fits(i, FreshUsage, Cardinality({}))
  BY <1>3, NobodyFits
<1> QED
  BY <1>1, <1>2, <1>4 DEF Fits

\* A step lets a tenant's requests through only from CheckQuota, and keeps
\* or renews the usage record of every tenant except the one it is about.
LEMMA QuietUsageFits ==
  ASSUME TypeOK, UsageFits, NEW i \in Ids,
         usage'[i] = usage[i] \/ usage'[i] \in {FreshUsage, None},
         InFlight(i)' \subseteq InFlight(i)
  PROVE  Fits(i, UsageOrDefault(i), Cardinality(InFlight(i)))'
<1>1. /\ Cardinality(InFlight(i)') \in 0 .. Cardinality(Threads)
      /\ Cardinality(InFlight(i)') <= Cardinality(InFlight(i))
      /\ Cardinality(InFlight(i)) \in Nat
  <2>1. IsFiniteSet(InFlight(i)) /\ Cardinality(InFlight(i)) \in 0 .. Cardinality(Threads)
    BY InFlightCardinality
  <2>2. IsFiniteSet(InFlight(i)') /\ Cardinality(InFlight(i)') <= Cardinality(InFlight(i))
    BY <2>1, FS_Subset
  <2>3. Cardinality(InFlight(i)') \in Nat
    BY <2>2, FS_CardinalityType
  <2> QED
    BY <2>1, <2>2, <2>3, ThreadsCardinality
<1>2. CASE usage'[i] = usage[i]
  <2>1. UsageOrDefault(i)' = UsageOrDefault(i)
    BY <1>2 DEF UsageOrDefault
  <2>2. UsageOrDefault(i) \in Usage
    BY UsageOrDefaultType
  <2>3. UsageOrDefault(i).reqs \in Nat /\ UsageOrDefault(i).toks \in Nat
    BY <2>2 DEF Usage
  <2>4. Fits(i, UsageOrDefault(i), Cardinality(InFlight(i)))
    BY DEF UsageFits
  <2>5. Fits(i, UsageOrDefault(i), Cardinality(InFlight(i)'))
    <3> DEFINE m == Cardinality(InFlight(i)')
               n == Cardinality(InFlight(i))
               u == UsageOrDefault(i)
    <3>1. m \in Nat /\ n \in Nat /\ m <= n
      BY <1>1, ThreadsCardinality
    <3>2. u \in Usage /\ u.reqs <= u.reqs /\ u.toks <= u.toks /\ Fits(i, u, n)
      BY <2>2, <2>3, <2>4
    <3> HIDE DEF m, n, u
    <3>3. Fits(i, u, m)
      BY <3>1, <3>2, LessFits
    <3> QED
      BY <3>3 DEF m, u
  <2> QED
    BY <2>1, <2>5 DEF Fits
<1>3. CASE usage'[i] \in {FreshUsage, None}
  <2>1. UsageOrDefault(i)' = FreshUsage
    BY <1>3 DEF UsageOrDefault
  <2>2. Fits(i, FreshUsage, Cardinality(InFlight(i)'))
    BY <1>1, NobodyFits
  <2> QED
    BY <2>1, <2>2 DEF Fits
<1> QED
  BY <1>2, <1>3

LEMMA CheckQuotaUsageFits ==
  ASSUME TypeOK, UsageFits, NEW t \in Threads, CheckQuota(t), NEW j \in Ids
  PROVE  Fits(j, UsageOrDefault(j), Cardinality(InFlight(j)))'
<1>1. PICK i \in Ids : i = job[t].id /\ pc[t] = "quota"
  BY DEF TypeOK, CheckQuota
<1>2. PICK hourOver \in BOOLEAN, dayOver \in BOOLEAN :
        LET u == [reqs |-> IF hourOver THEN 0 ELSE UsageOrDefault(i).reqs,
                  toks |-> IF dayOver THEN 0 ELSE UsageOrDefault(i).toks]
        IN  /\ usage' = [usage EXCEPT ![i] = u]
            /\ \/ Done(t)
               \/ /\ MaxReqs[i] > 0 => ~(u.reqs >= MaxReqs[i])
                  /\ MaxToks[i] > 0 => ~(u.toks >= MaxToks[i])
                  /\ LetIn(t)
  BY <1>1 DEF CheckQuota
<1> DEFINE u == [reqs |-> IF hourOver THEN 0 ELSE UsageOrDefault(i).reqs,
                 toks |-> IF dayOver THEN 0 ELSE UsageOrDefault(i).toks]
<1>3. UsageOrDefault(i) \in Usage
  BY <1>1, UsageOrDefaultType
<1>4. /\ u \in Usage /\ u.reqs \in Nat /\ u.toks \in Nat
      /\ u.reqs <= UsageOrDefault(i).reqs /\ u.toks <= UsageOrDefault(i).toks
  BY <1>3 DEF Usage
<1>5. \A x \in Ids \ {i} : InFlight(x)' \subseteq InFlight(x) /\ usage'[x] = usage[x]
  BY <1>1, <1>2 DEF InFlight, Done, NoJob, LetIn, TypeOK
<1>6. CASE j # i
  BY <1>5, <1>6, QuietUsageFits
<1>7. CASE j = i
  <2>1. usage'[i] = u
    BY <1>1, <1>2 DEF TypeOK
  <2>2. UsageOrDefault(i)' = u
    <3>1. u # None
      BY <1>4, NoneAssumption DEF Usage
    <3> HIDE DEF u
    <3> QED
      BY <2>1, <3>1 DEF UsageOrDefault
  <2>3. IsFiniteSet(InFlight(i)') /\ Cardinality(InFlight(i)') \in 0 .. Cardinality(Threads)
    <3>1. InFlight(i)' \subseteq Threads
      BY DEF InFlight
    <3> QED
      BY <3>1, ThreadsAssumption, FS_Subset, FS_CardinalityType, ThreadsCardinality
  <2>4. CASE Done(t)
    <3>1. InFlight(i)' \subseteq InFlight(i)
      BY <1>1, <2>4 DEF InFlight, Done, NoJob, TypeOK
    <3>2. /\ Cardinality(InFlight(i)') <= Cardinality(InFlight(i))
          /\ Cardinality(InFlight(i)) \in Nat /\ Cardinality(InFlight(i)') \in Nat
      BY <1>1, <2>3, <3>1, InFlightCardinality, FS_Subset, ThreadsCardinality
    <3>3. Fits(i, UsageOrDefault(i), Cardinality(InFlight(i)))
      BY <1>1 DEF UsageFits
    <3>4. Fits(i, u, Cardinality(InFlight(i)'))
      <4> DEFINE v == UsageOrDefault(i)
                 w == u
                 m == Cardinality(InFlight(i)')
                 n == Cardinality(InFlight(i))
      <4>1. /\ w \in Usage /\ v \in Usage /\ m \in Nat /\ n \in Nat /\ Fits(i, v, n)
            /\ w.reqs <= v.reqs /\ w.toks <= v.toks /\ m <= n
        BY <1>3, <1>4, <3>2, <3>3
      <4> HIDE DEF v, w, m, n
      <4>2. Fits(i, w, m)
        BY <4>1, LessFits
      <4> QED
        BY <4>2 DEF w, m
    <3> QED
      BY <1>7, <2>2, <3>4 DEF Fits
  <2>5. CASE /\ MaxReqs[i] > 0 => ~(u.reqs >= MaxReqs[i])
             /\ MaxToks[i] > 0 => ~(u.toks >= MaxToks[i])
    <3>1. Fits(i, u, Cardinality(InFlight(i)'))
      <4> DEFINE w == u
                 m == Cardinality(InFlight(i)')
      <4>1. /\ w \in Usage /\ m \in 0 .. Cardinality(Threads)
            /\ w.reqs \in Nat /\ w.toks \in Nat
            /\ MaxReqs[i] > 0 => ~(w.reqs >= MaxReqs[i])
            /\ MaxToks[i] > 0 => ~(w.toks >= MaxToks[i])
        BY <1>4, <2>3, <2>5
      <4> HIDE DEF w, m
      <4>2. /\ MaxReqs[i] > 0 => w.reqs < MaxReqs[i]
            /\ MaxToks[i] > 0 => w.toks < MaxToks[i]
        BY <4>1, QuotaAssumption
      <4>3. Fits(i, w, m)
        BY <4>1, <4>2, BelowFits
      <4> QED
        BY <4>3 DEF w, m
    <3> QED
      BY <1>7, <2>2, <3>1 DEF Fits
  <2> QED
    BY <1>2, <2>4, <2>5
<1> QED
  BY <1>6, <1>7

LEMMA RecordUsageFits ==
  ASSUME TypeOK, UsageFits, NEW t \in Threads, RecordUsage(t), NEW j \in Ids
  PROVE  Fits(j, UsageOrDefault(j), Cardinality(InFlight(j)))'
<1>1. PICK i \in Ids : i = job[t].id /\ pc[t] = "working"
  BY DEF TypeOK, RecordUsage
<1>2. PICK tokens \in 0 .. MaxCharge : usage' = [usage EXCEPT ![i] = Charged(i, tokens)]
  BY <1>1 DEF RecordUsage, Charged
<1>3. \A x \in Ids : InFlight(x)' = InFlight(x) \ {t}
  BY <1>1 DEF RecordUsage, InFlight, Done, NoJob, TypeOK
<1>4. CASE j # i
  <2>1. usage'[j] = usage[j] /\ InFlight(j)' \subseteq InFlight(j)
    BY <1>2, <1>3, <1>4 DEF TypeOK
  <2> QED
    BY <2>1, QuietUsageFits
<1>5. CASE j = i
  <2> DEFINE u == UsageOrDefault(i)
             n == Cardinality(InFlight(i)')
             v == Charged(i, tokens)
  <2>1. u \in Usage /\ v \in Usage
    BY <1>1, UsageOrDefaultType, ChargedType
  <2>6. /\ MaxReqs[i] > 0 => v.reqs = u.reqs + 1
        /\ MaxToks[i] > 0 => v.toks = u.toks + tokens
    BY LimitsType DEF Charged, CountUnder
  <2>2. n \in Nat /\ Cardinality(InFlight(i)) = n + 1
    <3>1. t \in InFlight(i)
      BY <1>1 DEF InFlight
    <3>2. IsFiniteSet(InFlight(i)) /\ Cardinality(InFlight(i)) \in Nat
      BY <1>1, InFlightCardinality, ThreadsCardinality
    <3>3. /\ IsFiniteSet(InFlight(i) \ {t})
          /\ Cardinality(InFlight(i) \ {t}) = Cardinality(InFlight(i)) - 1
      BY <3>1, <3>2, FS_RemoveElement
    <3>4. Cardinality(InFlight(i) \ {t}) \in Nat
      BY <3>3, FS_CardinalityType
    <3>5. InFlight(i)' = InFlight(i) \ {t}
      BY <1>1, <1>3
    <3> QED
      BY <3>2, <3>3, <3>4, <3>5
  <2>3. Fits(i, u, n + 1)
    BY <1>1, <2>2 DEF UsageFits
  <2>4. Fits(i, v, n)
    <3> HIDE DEF u, n, v
    <3> QED
      BY <2>1, <2>2, <2>3, <2>6, ChargedFits
  <2>5. UsageOrDefault(i)' = v
    <3>1. v # None
      BY <2>1, NoneAssumption DEF Usage
    <3>2. usage'[i] = v
      BY <1>1, <1>2 DEF TypeOK
    <3> HIDE DEF v
    <3> QED
      BY <3>1, <3>2 DEF UsageOrDefault
  <2> HIDE DEF v, n
  <2> QED
    BY <1>5, <2>4, <2>5 DEF Fits, n
<1> QED
  BY <1>4, <1>5

LEMMA StepUsageFits ==
  ASSUME TypeOK, UsageFits, NEW t \in Threads, Step(t)
  PROVE  UsageFits'
<1> SUFFICES ASSUME NEW j \in Ids
             PROVE  Fits(j, UsageOrDefault(j), Cardinality(InFlight(j)))'
  BY DEF UsageFits
<1>1. CASE CheckQuota(t)
  BY <1>1, CheckQuotaUsageFits
<1>2. CASE RecordUsage(t)
  BY <1>2, RecordUsageFits
<1>3. CASE ~CheckQuota(t) /\ ~RecordUsage(t)
  <2>1. InFlight(j)' \subseteq InFlight(j)
    <3>1. CASE OtherOpen(t)
      <4>1. job[t].id # j
        BY <3>1, NoneAssumption DEF OtherOpen, TypeOK, NoJob
      <4> QED
        BY <3>1, <4>1 DEF OtherOpen, TypeOK, InFlight
    <3>2. CASE ~OtherOpen(t)
      BY <1>3, <3>2 DEF TypeOK, InFlight, Step, CountTenants, Authenticate, Uncharged,
            CreateTenant, DeleteTenant, SaveTenant, EraseTenant, Done, NoJob
    <3> QED
      BY <3>1, <3>2
  <2>2. usage'[j] = usage[j] \/ usage'[j] \in {FreshUsage, None}
    BY <1>3 DEF TypeOK, Step, CountTenants, Authenticate, Uncharged, CreateTenant,
                DeleteTenant, SaveTenant, EraseTenant, OtherOpen, Register, Remove, registryVars
  <2> QED
    BY <2>1, <2>2, QuietUsageFits
<1> QED
  BY <1>1, <1>2, <1>3

LEMMA NextUsageFits == TypeOK /\ UsageFits /\ [Next]_vars => UsageFits'
<1>1. UsageFits /\ UNCHANGED vars => UsageFits'
  BY DEF vars, registryVars, threadVars, UsageFits, Fits, UsageOrDefault, InFlight
<1>2. UsageFits /\ RawAccess => UsageFits'
  BY DEF RawAccess, Overwrite, EraseKeys, registryVars, threadVars, UsageFits, Fits,
         UsageOrDefault, InFlight
<1> QED
  BY <1>1, <1>2, RestartUsageFits, StepUsageFits DEF Next

LEMMA FitsBounded == TypeOK /\ UsageFits => QuotaBounded
<1> SUFFICES ASSUME TypeOK, UsageFits, NEW i \in Ids, usage[i] # None
             PROVE  /\ MaxReqs[i] > 0 =>
                          usage[i].reqs <= MaxReqs[i] - 1 + Cardinality(Threads)
                    /\ MaxToks[i] > 0 =>
                          usage[i].toks <= MaxToks[i] - 1 + MaxCharge * Cardinality(Threads)
  BY DEF QuotaBounded
<1> DEFINE n == Cardinality(InFlight(i))
<1>1. usage[i] \in Usage /\ Fits(i, usage[i], n)
  BY DEF TypeOK, UsageFits, UsageOrDefault
<1>2. usage[i].reqs \in Nat /\ usage[i].toks \in Nat
  BY <1>1 DEF Usage
<1>3. n \in Nat /\ MaxCharge * n \in Nat /\ MaxCharge * Cardinality(Threads) \in Nat
  <2>1. n \in Nat
    BY InFlightCardinality, ThreadsCardinality
  <2> HIDE DEF n
  <2> QED
    BY <2>1, ThreadsCardinality, ProductMonotone, QuotaAssumption
<1> HIDE DEF n
<1> QED
  BY <1>1, <1>2, <1>3, LimitsType, ThreadsCardinality DEF Fits

\* A quota is exceeded by less than what the requests that run at the same
\* time may use.
THEOREM QuotasHold == Spec => []QuotaBounded
  BY InitTypeOK, NextTypeOK, InitUsageFits, NextUsageFits, FitsBounded, PTL DEF Spec
-----------------------------------------------------------------------------
(* The refinement.  Every step of Tenants is a step of Registry or changes *)
(* nothing that Registry has.  The invariant it needs: the tenant that     *)
(* authenticate returns has the key that was shown (KeyIndexSound), and    *)
(* whoever erases a tenant carries no key.                                 *)

ErasingJobs == \A t \in Threads : pc[t] = "erasing" => job[t].key = None

RInv == TypeOK /\ KeyIndexSound /\ ErasingJobs

LEMMA InitErasingJobs == Init => ErasingJobs
  BY DEF Init, ErasingJobs

LEMMA NextErasingJobs == TypeOK /\ ErasingJobs /\ [Next]_vars => ErasingJobs'
<1> SUFFICES ASSUME TypeOK, ErasingJobs, [Next]_vars PROVE ErasingJobs'
  OBVIOUS
<1>1. CASE UNCHANGED vars
  BY <1>1 DEF vars, threadVars, ErasingJobs
<1>2. CASE Restart
  BY <1>2 DEF Restart, ErasingJobs
<1>3. ASSUME NEW t \in Threads, Step(t) PROVE ErasingJobs'
  <2>1. \A u \in Threads \ {t} : pc'[u] = pc[u] /\ job'[u] = job[u]
    BY <1>3 DEF TypeOK, Step, CountTenants, Authenticate, CheckQuota, RecordUsage, Uncharged,
         CreateTenant, DeleteTenant, SaveTenant, EraseTenant, OtherOpen, Done, LetIn
  <2>2. CASE \E i \in Ids : DeleteTenant(t, i)
    <3>1. pc'[t] = "erasing" => job'[t].key = None
      BY <2>2 DEF TypeOK, DeleteTenant, Done
    <3> QED
      BY <3>1, <2>1 DEF ErasingJobs
  <2>3. CASE ~ \E i \in Ids : DeleteTenant(t, i)
    <3>1. pc'[t] # "erasing"
      BY <1>3, <2>3 DEF TypeOK, Step, CountTenants, Authenticate, CheckQuota, RecordUsage,
           Uncharged, CreateTenant, SaveTenant, EraseTenant, OtherOpen, Done, LetIn
    <3> QED
      BY <3>1, <2>1 DEF ErasingJobs
  <2> QED
    BY <2>2, <2>3
<1>4. CASE RawAccess
  BY <1>4 DEF RawAccess, Overwrite, EraseKeys, threadVars, ErasingJobs
<1> QED
  BY <1>1, <1>2, <1>3, <1>4 DEF Next

LEMMA SpecRInv == Spec => []RInv
<1>1. Init => RInv
  BY InitTypeOK, InitKeyIndexSound, InitErasingJobs DEF RInv
<1>2. RInv /\ [Next]_vars => RInv'
  BY NextTypeOK, NextKeyIndexSound, NextErasingJobs DEF RInv
<1> QED
  BY <1>1, <1>2, PTL DEF Spec

\* What Registry sees of a thread.
Found == [t \in Threads |-> IF pc[t] = "quota" THEN job[t] ELSE NoJob]
Unsaved == [t \in Threads |-> IF pc[t] \in Persisting THEN job[t] ELSE NoJob]

\* It changes with the thread's own steps only.
LEMMA SeenOfOthers ==
  ASSUME TypeOK, NEW t \in Threads, NEW p, NEW j,
         pc' = [pc EXCEPT ![t] = p], job' = [job EXCEPT ![t] = j]
  PROVE  /\ Found' = [Found EXCEPT ![t] = IF p = "quota" THEN j ELSE NoJob]
         /\ Unsaved' = [Unsaved EXCEPT ![t] = IF p \in Persisting THEN j ELSE NoJob]
BY DEF TypeOK, Found, Unsaved

LEMMA InitRefines == Init => Promise!Init
  BY DEF Init, Promise!Init, Promise!Nothing, Persisting, NoJob

LEMMA RestartRefines == Restart => Promise!Restart
  BY DEF Restart, Promise!Restart, Promise!Nothing, Persisting, NoJob

\* Another request writes or erases under the keys of the copy.
LEMMA RawAccessRefines ==
  ASSUME RawAccess
  PROVE  Promise!Wipe \/ \E i \in Ids : Promise!Overwrite(i)
<1>1. UNCHANGED <<tenants, pc, job>>
  BY DEF RawAccess, Overwrite, EraseKeys, registryVars, threadVars
<1>2. ASSUME NEW i \in Ids, NEW k \in Keys, Overwrite(i, k)
      PROVE  Promise!Overwrite(i)
  BY <1>1, <1>2 DEF Overwrite, Promise!Overwrite
<1>3. ASSUME NEW gone \in SUBSET TenantsOf(store), EraseKeys(gone)
      PROVE  Promise!Wipe
  <2>1. gone \in SUBSET Ids
    BY DEF TenantsOf
  <2> QED
    BY <1>1, <1>3, <2>1 DEF EraseKeys, Promise!Wipe
<1> QED
  BY <1>2, <1>3 DEF RawAccess

\* A step that leaves the map and its copy alone and at whose beginning and
\* end the thread has neither looked up a key nor changed a tenant.
LEMMA UnseenSteps ==
  ASSUME TypeOK, NEW t \in Threads, NEW p, NEW j,
         pc' = [pc EXCEPT ![t] = p], job' = [job EXCEPT ![t] = j],
         {pc[t], p} \cap ({"quota"} \cup Persisting) = {},
         UNCHANGED <<tenants, store>>
  PROVE  UNCHANGED Promise!vars
<1>1. Found' = [Found EXCEPT ![t] = NoJob] /\ Unsaved' = [Unsaved EXCEPT ![t] = NoJob]
  BY SeenOfOthers DEF Persisting
<1>2. Found[t] = NoJob /\ Unsaved[t] = NoJob
  BY DEF Found, Unsaved, Persisting
<1>3. UNCHANGED <<Found, Unsaved>>
  BY <1>1, <1>2 DEF Found, Unsaved
<1> QED
  BY <1>3 DEF Promise!vars, Found, Unsaved

\* authenticate: the index leads to a tenant that has the key.
LEMMA AuthenticateRefines ==
  ASSUME RInv, NEW t \in Threads, NEW token \in Keys \cup {None}, Authenticate(t, token)
  PROVE  (\E i \in Ids : Promise!LookUp(t, i)) \/ UNCHANGED Promise!vars
<1> DEFINE match == IF token = None THEN None ELSE Authenticated(token)
<1>1. match \in Ids \cup {None} /\ (match # None => token \in Keys /\ tenants[match] = token)
  BY DEF Authenticated, RInv, TypeOK, KeyIndexSound
<1>2. pc[t] = "authenticating" /\ UNCHANGED <<tenants, store>> /\ TypeOK
  BY DEF Authenticate, registryVars, RInv
<1>3. \/ /\ match # None
         /\ pc' = [pc EXCEPT ![t] = "quota"]
         /\ job' = [job EXCEPT ![t] = [id |-> match, key |-> token]]
      \/ pc' = [pc EXCEPT ![t] = "open"] /\ UNCHANGED job
      \/ Done(t)
  BY DEF Authenticate
<1> HIDE DEF match
<1>4. CASE /\ match # None
           /\ pc' = [pc EXCEPT ![t] = "quota"]
           /\ job' = [job EXCEPT ![t] = [id |-> match, key |-> token]]
  <2>1. PICK i \in Ids : i = match /\ tenants[i] = token /\ token \in Keys
    BY <1>1, <1>4
  <2>2. /\ Found' = [Found EXCEPT ![t] = [id |-> i, key |-> tenants[i]]]
        /\ Unsaved' = [Unsaved EXCEPT ![t] = NoJob]
    BY <1>2, <1>4, <2>1, SeenOfOthers DEF Persisting
  <2>3. Found[t] = NoJob /\ Unsaved[t] = NoJob
    BY <1>2 DEF Found, Unsaved, Persisting
  <2>4. Unsaved' = Unsaved
    BY <2>2, <2>3 DEF Unsaved
  <2>5. tenants[i] # None
    BY <2>1, NoneAssumption
  <2>6. Promise!LookUp(t, i)
    BY <1>2, <2>2, <2>3, <2>4, <2>5
    DEF Promise!LookUp, Promise!Free, Promise!Nothing, Found, Unsaved, NoJob
  <2> QED
    BY <2>6
<1>5. CASE pc' = [pc EXCEPT ![t] = "open"] /\ UNCHANGED job
  <2>1. job' = [job EXCEPT ![t] = job[t]]
    BY <1>2, <1>5 DEF TypeOK
  <2> QED
    BY <1>2, <1>5, <2>1, UnseenSteps DEF Persisting
<1>6. CASE Done(t)
  BY <1>2, <1>6, UnseenSteps DEF Done, Persisting
<1> QED
  BY <1>3, <1>4, <1>5, <1>6

\* check_quota uses what was found, whether it lets the request in or not.
LEMMA CheckQuotaRefines ==
  ASSUME RInv, NEW t \in Threads, CheckQuota(t)
  PROVE  Promise!Use(t)
<1>1. pc[t] = "quota" /\ UNCHANGED <<tenants, store>> /\ TypeOK /\ (Done(t) \/ LetIn(t))
  BY DEF CheckQuota, RInv
<1>2. PICK p \in {"idle", "working"} :
        \E j : pc' = [pc EXCEPT ![t] = p] /\ job' = [job EXCEPT ![t] = j]
  BY <1>1 DEF Done, LetIn
<1> PICK j : pc' = [pc EXCEPT ![t] = p] /\ job' = [job EXCEPT ![t] = j]
  BY <1>2
<1>3. Found' = [Found EXCEPT ![t] = NoJob] /\ Unsaved' = [Unsaved EXCEPT ![t] = NoJob]
  BY <1>1, SeenOfOthers DEF Persisting
<1>4. Unsaved' = Unsaved
  BY <1>1, <1>3 DEF Unsaved, Persisting
<1>5. Found[t] # NoJob
  BY <1>1, NoneAssumption DEF Found, TypeOK, NoJob
<1> QED
  BY <1>1, <1>3, <1>4, <1>5 DEF Promise!Use, Promise!Nothing, Found, Unsaved, NoJob

\* The first half of a create or a delete.
LEMMA ChangeRefines ==
  ASSUME TypeOK, NEW t \in Threads, NEW i \in Ids, NEW k \in Keys \cup {None},
         NEW p \in Persisting, pc[t] = "open", pc' = [pc EXCEPT ![t] = p],
         job' = [job EXCEPT ![t] = [id |-> i, key |-> k]],
         tenants' = [tenants EXCEPT ![i] = k], UNCHANGED store
  PROVE  Promise!Change(t, i, k)
<1>1. /\ Found' = [Found EXCEPT ![t] = NoJob]
      /\ Unsaved' = [Unsaved EXCEPT ![t] = [id |-> i, key |-> k]]
  BY SeenOfOthers DEF Persisting
<1>2. Found[t] = NoJob /\ Unsaved[t] = NoJob
  BY DEF Found, Unsaved, Persisting
<1>3. Found' = Found
  BY <1>1, <1>2 DEF Found
<1> QED
  BY <1>1, <1>2, <1>3 DEF Promise!Change, Promise!Free, Promise!Nothing, Found, Unsaved, NoJob

\* The second half.
LEMMA SaveRefines ==
  ASSUME TypeOK, NEW t \in Threads, pc[t] \in Persisting, Done(t),
         Write(t, job[t].id, job[t].key), UNCHANGED tenants
  PROVE  Promise!Save(t)
<1>1. Found' = [Found EXCEPT ![t] = NoJob] /\ Unsaved' = [Unsaved EXCEPT ![t] = NoJob]
  BY SeenOfOthers DEF Done, Persisting
<1>2. Found[t] = NoJob /\ Unsaved[t] = job[t]
  BY DEF Found, Unsaved, Persisting
<1>3. Found' = Found
  BY <1>1, <1>2 DEF Found
<1>4. Unsaved[t] # NoJob
  BY <1>2, NoneAssumption DEF TypeOK, NoJob
<1>5. store' \in {store, [store EXCEPT ![Unsaved[t].id] = Unsaved[t].key]}
  BY <1>2 DEF Write
<1> QED
  BY <1>1, <1>3, <1>4, <1>5 DEF Promise!Save, Promise!Nothing, Found, Unsaved, NoJob

LEMMA StepRefines ==
  ASSUME RInv, NEW t \in Threads, Step(t)
  PROVE  Promise!Next \/ UNCHANGED Promise!vars
<1> USE DEF RInv
<1>1. CASE CountTenants(t)
  <2>1. PICK p \in {"authenticating", "open"} : pc' = [pc EXCEPT ![t] = p]
    BY <1>1 DEF CountTenants
  <2>2. job' = [job EXCEPT ![t] = job[t]] /\ UNCHANGED <<tenants, store>> /\ pc[t] = "idle"
    BY <1>1 DEF CountTenants, registryVars, TypeOK
  <2> QED
    BY <2>1, <2>2, UnseenSteps DEF Persisting
<1>2. CASE \E token \in Keys \cup {None} : Authenticate(t, token)
  BY <1>2, AuthenticateRefines DEF Promise!Next
<1>3. CASE CheckQuota(t)
  BY <1>3, CheckQuotaRefines DEF Promise!Next
<1>4. CASE RecordUsage(t) \/ Uncharged(t)
  <2>1. Done(t) /\ UNCHANGED <<tenants, store>> /\ pc[t] = "working"
    BY <1>4 DEF RecordUsage, Uncharged, registryVars
  <2> QED
    BY <2>1, UnseenSteps DEF Done, Persisting
<1>9. CASE OtherOpen(t)
  <2>1. /\ pc' = [pc EXCEPT ![t] = "working"] /\ job' = [job EXCEPT ![t] = job[t]]
        /\ UNCHANGED <<tenants, store>> /\ pc[t] = "open"
    BY <1>9 DEF OtherOpen, registryVars, TypeOK
  <2> QED
    BY <2>1, UnseenSteps DEF Persisting
<1>5. ASSUME NEW i \in Ids, NEW k \in Keys, CreateTenant(t, i, k)
      PROVE  Promise!Create(t, i) \/ UNCHANGED Promise!vars
  <2>1. CASE tenants[i] # None
    BY <1>5, <2>1, UnseenSteps DEF CreateTenant, registryVars, Done, Persisting
  <2>2. CASE tenants[i] = None
    <3>1. Promise!Change(t, i, k)
      BY <1>5, <2>2, ChangeRefines DEF CreateTenant, Register, Persisting
    <3> QED
      BY <2>2, <3>1 DEF Promise!Create
  <2> QED
    BY <2>1, <2>2
<1>6. ASSUME NEW i \in Ids, DeleteTenant(t, i)
      PROVE  Promise!Delete(t, i) \/ UNCHANGED Promise!vars
  <2>1. CASE tenants[i] = None
    BY <1>6, <2>1, UnseenSteps DEF DeleteTenant, registryVars, Done, Persisting
  <2>2. CASE tenants[i] # None
    <3>1. Promise!Change(t, i, None)
      BY <1>6, <2>2, ChangeRefines DEF DeleteTenant, Remove, Persisting
    <3> QED
      BY <2>2, <3>1 DEF Promise!Delete
  <2> QED
    BY <2>1, <2>2
<1>7. CASE SaveTenant(t)
  BY <1>7, SaveRefines DEF SaveTenant, registryVars, Persisting, Promise!Next
<1>8. CASE EraseTenant(t)
  <2>1. job[t].key = None
    BY <1>8 DEF EraseTenant, ErasingJobs
  <2> QED
    BY <1>8, <2>1, SaveRefines DEF EraseTenant, registryVars, Persisting, Promise!Next
<1> QED
  BY <1>1, <1>2, <1>3, <1>4, <1>5, <1>6, <1>7, <1>8, <1>9 DEF Step, Promise!Next

\* Whoever uses the registry sees one map that is changed and read in single
\* steps, and a database that each change reaches later or never and that
\* others write to as well: Tenants implements Registry, for any threads, ids,
\* keys and quotas.
THEOREM RegistryImplemented == Spec => ImplementsRegistry
<1>1. RInv /\ [Next]_vars => [Promise!Next]_Promise!vars
  <2> SUFFICES ASSUME RInv, [Next]_vars
               PROVE  Promise!Next \/ UNCHANGED Promise!vars
    OBVIOUS
  <2>1. CASE UNCHANGED vars
    BY <2>1 DEF vars, registryVars, threadVars, Promise!vars
  <2>2. CASE Restart
    BY <2>2, RestartRefines DEF Promise!Next
  <2>3. CASE RawAccess
    BY <2>3, RawAccessRefines DEF Promise!Next
  <2> QED
    BY <2>1, <2>2, <2>3, StepRefines DEF Next
<1> QED
  BY InitRefines, SpecRInv, <1>1, PTL DEF Spec, ImplementsRegistry, Promise!Spec
=============================================================================
