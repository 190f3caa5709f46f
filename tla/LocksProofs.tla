----------------------------- MODULE LocksProofs -----------------------------
(***************************************************************************)
(* Proofs about Locks, for any number of threads.                          *)
(*                                                                         *)
(* The locks have ranks, and every section of every plan takes them in     *)
(* rising ranks and cuts strings under the engine's lock only.  So a chain *)
(* of threads that wait for one another rises through the ranks and ends,  *)
(* and a panic happens under no other lock than the engine's.              *)
(***************************************************************************)
EXTENDS Locks, TLAPS

Rank(l) ==
    IF l \in {"usage", "audit"} THEN 2
    ELSE IF l \in {"tenants", "gdpr"} THEN 1
    ELSE 0

Rising(s) == \A i, j \in DOMAIN s : i < j => Rank(s[i].lock) < Rank(s[j].lock)

SlicesEngine(s) == \A i \in DOMAIN s : s[i].slices => s[i].lock = "engine"

\* Who waits for the model or the client does so in a section of its own.
OutsideAlone(s) == \A i \in DOMAIN s : s[i].lock = "outside" => Len(s) = 1

Sections == {s \in Seq(Wants) : Rising(s) /\ SlicesEngine(s) /\ OutsideAlone(s)}

\* The inductive invariant.
IInv ==
    /\ TypeOK
    /\ todo \in [Threads -> Seq(Sections)]
    /\ OnlyEngineIsLost

-----------------------------------------------------------------------------
(* Every section of a plan is sound.                                       *)

\* Sections of one, two and three locks.
LEMMA One ==
    ASSUME NEW a \in Wants, a.slices => a.lock = "engine"
    PROVE  <<a>> \in Sections
BY DEF Sections, Rising, SlicesEngine, OutsideAlone

LEMMA Two ==
    ASSUME NEW a \in Wants, NEW b \in Wants,
           Rank(a.lock) < Rank(b.lock),
           a.lock # "outside", b.lock # "outside",
           a.slices => a.lock = "engine", b.slices => b.lock = "engine"
    PROVE  <<a, b>> \in Sections
<1> DEFINE s == <<a, b>>
<1>1. s \in Seq(Wants) /\ DOMAIN s = {1, 2} /\ s[1] = a /\ s[2] = b
  OBVIOUS
<1>2. Rising(s)
  BY <1>1 DEF Rising, Rank
<1>3. SlicesEngine(s)
  BY <1>1 DEF SlicesEngine
<1>4. OutsideAlone(s)
  BY <1>1 DEF OutsideAlone
<1> QED
  BY <1>1, <1>2, <1>3, <1>4 DEF Sections

LEMMA Three ==
    ASSUME NEW a \in Wants, NEW b \in Wants, NEW c \in Wants,
           Rank(a.lock) < Rank(b.lock), Rank(b.lock) < Rank(c.lock),
           a.slices => a.lock = "engine", b.slices => b.lock = "engine",
           c.slices => c.lock = "engine",
           a.lock # "outside", b.lock # "outside", c.lock # "outside"
    PROVE  <<a, b, c>> \in Sections
<1> DEFINE s == <<a, b, c>>
<1>1. s \in Seq(Wants) /\ DOMAIN s = {1, 2, 3} /\ s[1] = a /\ s[2] = b /\ s[3] = c
  OBVIOUS
<1>2. Rising(s)
  BY <1>1 DEF Rising, Rank
<1>3. SlicesEngine(s)
  BY <1>1 DEF SlicesEngine
<1>4. OutsideAlone(s)
  BY <1>1 DEF OutsideAlone
<1> QED
  BY <1>1, <1>2, <1>3, <1>4 DEF Sections

\* What is wanted of a lock.
LEMMA WantsOfLocks ==
    ASSUME NEW l \in LockNames \cup {"outside"}
    PROVE  /\ Read(l) \in Wants /\ Write(l) \in Wants
           /\ IfLetOk(Read(l)) \in Wants /\ IfLetOk(Write(l)) \in Wants
           /\ Read(l).lock = l /\ Write(l).lock = l
           /\ IfLetOk(Read(l)).lock = l /\ IfLetOk(Write(l)).lock = l
           /\ ~Read(l).slices /\ ~Write(l).slices
           /\ ~IfLetOk(Read(l)).slices /\ ~IfLetOk(Write(l)).slices
BY DEF Read, Write, IfLetOk, Wants

LEMMA WantsOfSlicing ==
    /\ Slicing(Write("engine")) \in Wants /\ Slicing(Read("engine")) \in Wants
    /\ Slicing(Write("engine")).lock = "engine"
    /\ Slicing(Read("engine")).lock = "engine"
BY DEF Slicing, Read, Write, Wants, LockNames

\* A lock alone.
LEMMA Alone ==
    ASSUME NEW l \in LockNames \cup {"outside"}
    PROVE  /\ <<Read(l)>> \in Sections /\ <<Write(l)>> \in Sections
           /\ <<IfLetOk(Read(l))>> \in Sections /\ <<IfLetOk(Write(l))>> \in Sections
BY WantsOfLocks, One

\* The sections of the plans.
LEMMA SectionsOfEntries ==
    /\ RateLimiter \in Sections /\ CountTenants \in Sections
    /\ Authenticate \in Sections /\ AuditRefusal \in Sections
    /\ CheckQuota \in Sections
    /\ <<IfLetOk(Read("engine"))>> \in Sections
    /\ Outside \in Sections /\ Slo \in Sections /\ Shadow \in Sections
<1>1. CheckQuota \in Sections
  BY WantsOfLocks, Two DEF CheckQuota, Rank, LockNames
<1> QED
  BY <1>1, Alone DEF RateLimiter, CountTenants, Authenticate, AuditRefusal, Outside,
                     Slo, Shadow, LockNames

\* Plans of up to six sections.
LEMMA ShortPlans ==
    ASSUME NEW a \in Sections, NEW b \in Sections, NEW c \in Sections,
           NEW d \in Sections, NEW e \in Sections, NEW f \in Sections
    PROVE  /\ <<a>> \in Seq(Sections) /\ <<a, b>> \in Seq(Sections)
           /\ <<a, b, c>> \in Seq(Sections) /\ <<a, b, c, d>> \in Seq(Sections)
           /\ <<a, b, c, d, e>> \in Seq(Sections)
           /\ <<a, b, c, d, e, f>> \in Seq(Sections)
OBVIOUS

LEMMA EntriesAreSound ==
    ASSUME NEW kind \in Kinds
    PROVE  Entries[kind] \subseteq Seq(Sections)
<1>1. Entries.probe \subseteq Seq(Sections)
  BY SectionsOfEntries, ShortPlans DEF Entries
<1>2. Entries.refused \subseteq Seq(Sections)
  BY SectionsOfEntries, ShortPlans DEF Entries
<1>3. Entries.open \subseteq Seq(Sections)
  BY SectionsOfEntries, ShortPlans DEF Entries
<1>4. Entries.tenant \subseteq Seq(Sections)
  BY SectionsOfEntries, ShortPlans DEF Entries
<1> QED
  BY <1>1, <1>2, <1>3, <1>4 DEF Kinds

LEMMA EpiloguesAreSound == Epilogues \subseteq Seq(Sections)
BY SectionsOfEntries, ShortPlans DEF Epilogues

LEMMA SectionsOfOpenHandlers ==
    /\ ReadEngine \in Sections /\ WriteEngine \in Sections
    /\ SearchTool \in Sections /\ PersistRun \in Sections
    /\ <<Slicing(Write("engine"))>> \in Sections
    /\ <<Write("engine"), IfLetOk(Write("audit"))>> \in Sections
    /\ <<Write("tenants"), Write("usage")>> \in Sections
    /\ <<Read("tenants"), Read("usage")>> \in Sections
    /\ <<Write("engine"), Write("gdpr"), IfLetOk(Write("audit"))>> \in Sections
<1>1. SearchTool \in Sections
  BY WantsOfSlicing, One DEF SearchTool
<1>2. <<Write("engine"), IfLetOk(Write("audit"))>> \in Sections
  BY WantsOfLocks, Two DEF Rank, LockNames
<1>3. <<Write("tenants"), Write("usage")>> \in Sections
  BY WantsOfLocks, Two DEF Rank, LockNames
<1>4. <<Read("tenants"), Read("usage")>> \in Sections
  BY WantsOfLocks, Two DEF Rank, LockNames
<1>5. <<Write("engine"), Write("gdpr"), IfLetOk(Write("audit"))>> \in Sections
  <2>1. {"engine", "gdpr", "audit"} \subseteq LockNames
    BY DEF LockNames
  <2>2. Rank("engine") = 0 /\ Rank("gdpr") = 1 /\ Rank("audit") = 2
    BY DEF Rank
  <2> QED
    BY <2>1, <2>2, WantsOfLocks, Three
<1> QED
  BY <1>1, <1>2, <1>3, <1>4, <1>5, Alone
  DEF ReadEngine, WriteEngine, PersistRun, SearchTool, LockNames

LEMMA SectionsOfTenantHandlers ==
    /\ Charge \in Sections
    /\ ReadAndCharge \in Sections /\ WriteAndCharge \in Sections
    /\ AndCharge(Slicing(Write("engine"))) \in Sections
    /\ AndCharge(Slicing(Read("engine"))) \in Sections
<1>1. {"engine", "tenants", "usage"} \subseteq LockNames
  BY DEF LockNames
<1>2. Rank("engine") = 0 /\ Rank("tenants") = 1 /\ Rank("usage") = 2
  BY DEF Rank
<1>3. Charge \in Sections
  BY <1>1, <1>2, WantsOfLocks, Two DEF Charge
<1>4. ASSUME NEW want \in Wants, want.lock = "engine"
      PROVE  AndCharge(want) \in Sections
  BY <1>1, <1>2, <1>4, WantsOfLocks, Three DEF AndCharge
<1> QED
  BY <1>1, <1>3, <1>4, WantsOfLocks, WantsOfSlicing DEF ReadAndCharge, WriteAndCharge

LEMMA ToolsAreSound == Tools \subseteq Sections
BY SectionsOfOpenHandlers DEF Tools

LEMMA SharedPlansAreSound ==
    AuditPlans \cup StatusPlans \cup GdprPlans \cup SystemPlans \subseteq Seq(Sections)
<1> USE ShortPlans
<1>1. {"engine", "tenants", "audit", "gdpr", "connectors"} \subseteq LockNames
  BY DEF LockNames
<1>2. AuditPlans \subseteq Seq(Sections)
  <2>1. <<Write("audit")>> \in Sections
    BY <1>1, Alone
  <2> QED
    BY <2>1 DEF AuditPlans
<1>3. StatusPlans \subseteq Seq(Sections)
  <2>1. <<IfLetOk(Read("engine"))>> \in Sections /\ <<Write("connectors")>> \in Sections
    BY <1>1, Alone
  <2> QED
    BY <2>1 DEF StatusPlans
<1>4. GdprPlans \subseteq Seq(Sections)
  <2>1. <<Write("gdpr")>> \in Sections
    BY <1>1, Alone
  <2> QED
    BY <2>1, SectionsOfOpenHandlers DEF GdprPlans
<1>5. SystemPlans \subseteq Seq(Sections)
  <2>1. /\ <<IfLetOk(Read("engine"))>> \in Sections
        /\ <<IfLetOk(Read("tenants"))>> \in Sections
    BY <1>1, Alone
  <2> QED
    BY <2>1, SectionsOfEntries DEF SystemPlans
<1> QED
  BY <1>2, <1>3, <1>4, <1>5

LEMMA OpenPlansAreSound ==
    /\ Routed.open \subseteq Seq(Sections)
    /\ Direct.open \subseteq Seq(Sections)
<1> USE SectionsOfOpenHandlers, SectionsOfEntries, ShortPlans
<1>1. KvPlans \cup WorkflowPlans \cup RunPlans \subseteq Seq(Sections)
  BY DEF KvPlans, WorkflowPlans, RunPlans
<1>2. RunNamedPlans \cup ToolCallPlans \subseteq Seq(Sections)
  <2>1. ASSUME NEW tool \in Tools
        PROVE  <<ReadEngine, tool, Outside>> \in Seq(Sections) /\ <<tool>> \in Seq(Sections)
    BY <2>1, ToolsAreSound
  <2>2. ASSUME NEW p \in RunNamedPlans
        PROVE  p \in Seq(Sections)
    <3>1. PICK tool \in Tools : p = <<ReadEngine, tool, Outside>>
      BY <2>2, Zenon DEF RunNamedPlans
    <3> QED
      BY <2>1, <3>1, Zenon
  <2>3. ASSUME NEW p \in ToolCallPlans
        PROVE  p \in Seq(Sections)
    <3>1. PICK tool \in Tools : p = <<tool>>
      BY <2>3, Zenon DEF ToolCallPlans
    <3> QED
      BY <2>1, <3>1, Zenon
  <2> QED
    BY <2>2, <2>3, Zenon
<1>3. MessagePlans \cup SessionReadPlans \cup ObservabilityPlans \subseteq Seq(Sections)
  BY DEF MessagePlans, SessionReadPlans, ObservabilityPlans
<1>4. StreamPlans \cup ChatPlans \subseteq Seq(Sections)
  BY DEF StreamPlans, ChatPlans
<1>5. <<IfLetOk(Write("audit"))>> \in Sections
  BY Alone DEF LockNames
<1>6. CreateTenantPlans \cup DeleteTenantPlans \subseteq Seq(Sections)
  BY <1>5 DEF CreateTenantPlans, DeleteTenantPlans
<1>7. TenantReadPlans \subseteq Seq(Sections)
  <2>1. <<Read("tenants")>> \in Sections
    BY Alone DEF LockNames
  <2> QED
    BY <2>1 DEF TenantReadPlans
<1> QED
  BY <1>1, <1>2, <1>3, <1>4, <1>6, <1>7, SharedPlansAreSound DEF Routed, Direct

LEMMA TenantPlansAreSound ==
    /\ Routed.tenant \subseteq Seq(Sections)
    /\ Direct.tenant \subseteq Seq(Sections)
<1> USE SectionsOfTenantHandlers, SectionsOfOpenHandlers, SectionsOfEntries, ShortPlans
<1>1. ASSUME NEW tool \in Tools
      PROVE  /\ <<tool, Charge>> \in Seq(Sections)
             /\ <<ReadEngine, tool, Outside, PersistRun, Charge>> \in Seq(Sections)
  BY <1>1, ToolsAreSound
<1>2. TenantKvPlans \subseteq Seq(Sections)
  <2>1. /\ <<AndCharge(Slicing(Write("engine")))>> \in Seq(Sections)
        /\ <<WriteAndCharge>> \in Seq(Sections) /\ <<ReadAndCharge>> \in Seq(Sections)
    OBVIOUS
  <2>2. ASSUME NEW p \in TenantKvPlans
        PROVE  p \in Seq(Sections)
    <3>1. CASE \E tool \in Tools : p = <<tool, Charge>>
      BY <1>1, <3>1
    <3>2. CASE p \in {<<AndCharge(Slicing(Write("engine")))>>, <<WriteAndCharge>>,
                      <<ReadAndCharge>>}
      BY <2>1, <3>2
    <3> QED
      BY <2>2, <3>1, <3>2 DEF TenantKvPlans
  <2> QED
    BY <2>2
<1>3. TenantWorkPlans \cup TenantRunPlans \subseteq Seq(Sections)
  BY DEF TenantWorkPlans, TenantRunPlans
<1>4. TenantRunNamedPlans \subseteq Seq(Sections)
  <2>1. ASSUME NEW p \in TenantRunNamedPlans
        PROVE  p \in Seq(Sections)
    <3>1. PICK tool \in Tools : p = <<ReadEngine, tool, Outside, PersistRun, Charge>>
      BY <2>1 DEF TenantRunNamedPlans
    <3> QED
      BY <1>1, <3>1
  <2> QED
    BY <2>1
<1>5. TenantMessagePlans \cup TenantReadOnlyPlans \subseteq Seq(Sections)
  BY DEF TenantMessagePlans, TenantReadOnlyPlans
<1>6. TenantStreamPlans \subseteq Seq(Sections)
  BY DEF TenantStreamPlans
<1> QED
  BY <1>2, <1>3, <1>4, <1>5, <1>6, SharedPlansAreSound DEF Routed, Direct

\* Every plan a thread is ever given is sound.
LEMMA PlansAreSound ==
    /\ \A kind \in Kinds : Entries[kind] \subseteq Seq(Sections)
    /\ \A kind \in {"open", "tenant"} :
          Routed[kind] \cup Direct[kind] \subseteq Seq(Sections)
    /\ Epilogues \subseteq Seq(Sections)
BY EntriesAreSound, EpiloguesAreSound, OpenPlansAreSound, TenantPlansAreSound

-----------------------------------------------------------------------------
(* The invariant is inductive.                                             *)

LEMMA SectionsAreWants == Sections \subseteq Seq(Wants) /\ Seq(Sections) \subseteq Plans
<1>1. Sections \subseteq Seq(Wants)
  BY DEF Sections
<1>2. ASSUME NEW p \in Seq(Sections) PROVE p \in Seq(Seq(Wants))
  <2>1. p \in [1 .. Len(p) -> Sections] /\ Len(p) \in Nat
    OBVIOUS
  <2>2. p \in [1 .. Len(p) -> Seq(Wants)]
    BY <1>1, <2>1
  <2> QED
    BY <2>1, <2>2
<1> QED
  BY <1>1, <1>2 DEF Plans

\* A thread that changes its plan for a sound one, or the rest of its own,
\* and holds nothing, keeps the invariant of types.
LEMMA GotoKeepsTypes ==
    ASSUME IInv, NEW t \in Threads, NEW s \in Stages, NEW plan \in Seq(Sections),
           s \in {"unborn"} \cup Over => plan = <<>>,
           Goto(t, s, plan),
           who' \in [Threads -> Kinds], poisoned' \in SUBSET LockNames
    PROVE  TypeOK' /\ (todo \in [Threads -> Seq(Sections)])'
<1>1. /\ stage' \in [Threads -> Stages]
      /\ todo' \in [Threads -> Seq(Sections)]
      /\ depth' \in [Threads -> Nat]
      /\ queued' \in [Threads -> BOOLEAN]
  BY DEF IInv, TypeOK, Goto
<1>2. todo' \in [Threads -> Plans]
  BY <1>1, SectionsAreWants
<1>3. ASSUME NEW u \in Threads
      PROVE  /\ todo'[u] # <<>> => depth'[u] <= Len(Head(todo'[u]))
             /\ todo'[u] = <<>> => depth'[u] = 0
             /\ stage'[u] \in {"unborn"} \cup Over => todo'[u] = <<>>
             /\ queued'[u] => Locking(u)' /\ Wanted(u)'.writes
  <2>1. CASE u = t
    <3>1. /\ stage'[u] = s /\ todo'[u] = plan /\ depth'[u] = 0 /\ ~queued'[u]
      BY <2>1 DEF IInv, TypeOK, Goto
    <3>2. plan # <<>> => Len(Head(plan)) \in Nat
      <4>1. plan # <<>> => Head(plan) \in Seq(Wants)
        BY SectionsAreWants
      <4> QED
        BY <4>1
    <3> QED
      BY <3>1, <3>2
  <2>2. CASE u # t
    <3>1. /\ stage'[u] = stage[u] /\ todo'[u] = todo[u]
          /\ depth'[u] = depth[u] /\ queued'[u] = queued[u]
      BY <2>2 DEF IInv, TypeOK, Goto
    <3>2. Locking(u)' = Locking(u) /\ Wanted(u)' = Wanted(u)
      BY <3>1 DEF Locking, Wanting, Wanted
    <3> QED
      BY <3>1, <3>2 DEF IInv, TypeOK
  <2> QED
    BY <2>1, <2>2
<1> QED
  BY <1>1, <1>2, <1>3 DEF TypeOK

\* A lock for cutting strings is taken while nothing else is held.
LEMMA EngineComesFirst ==
    ASSUME IInv, NEW t \in Threads, todo[t] # <<>>,
           NEW j \in DOMAIN Head(todo[t]), Head(todo[t])[j].lock = "engine",
           NEW i \in 1 .. j
    PROVE  i = j
<1>1. Head(todo[t]) \in Sections
  BY DEF IInv
<1>2. DOMAIN Head(todo[t]) = 1 .. Len(Head(todo[t])) /\ Len(Head(todo[t])) \in Nat
  BY <1>1, SectionsAreWants
<1>3. i \in DOMAIN Head(todo[t]) /\ i <= j /\ i \in Int /\ j \in Int
  BY <1>2
<1>4. i < j => Rank(Head(todo[t])[i].lock) < Rank("engine")
  BY <1>1, <1>3 DEF Sections, Rising
<1> QED
  BY <1>3, <1>4 DEF Rank

LEMMA PanicKeepsIInv ==
    ASSUME IInv, NEW t \in Threads, Panic(t),
           \A l \in LockNames : HoldsToWrite(t, l) => l = "engine"
    PROVE  IInv'
<1>1. poisoned' \subseteq {"engine"} /\ poisoned' \in SUBSET LockNames
  BY DEF IInv, OnlyEngineIsLost, Panic, LockNames
<1>2. <<>> \in Seq(Sections)
  OBVIOUS
<1>3. TypeOK' /\ (todo \in [Threads -> Seq(Sections)])'
  BY <1>1, <1>2, GotoKeepsTypes DEF Panic, Stages, IInv, TypeOK
<1> QED
  BY <1>1, <1>3 DEF IInv, OnlyEngineIsLost

LEMMA SlicePanicsKeepsIInv ==
    ASSUME IInv, NEW t \in Threads, SlicePanics(t)
    PROVE  IInv'
<1>1. depth[t] \in Nat /\ (depth[t] > 0 => todo[t] # <<>>)
  BY DEF IInv, TypeOK
<1>2. CASE depth[t] > 0 /\ Head(todo[t])[depth[t]].slices
  <2>1. Head(todo[t]) \in Sections /\ depth[t] <= Len(Head(todo[t]))
    BY <1>1, <1>2 DEF IInv, TypeOK
  <2>2. depth[t] \in DOMAIN Head(todo[t])
    BY <1>1, <1>2, <2>1, SectionsAreWants
  <2>3. Head(todo[t])[depth[t]].lock = "engine"
    BY <1>2, <2>1, <2>2 DEF Sections, SlicesEngine
  <2>4. ASSUME NEW i \in 1 .. depth[t] PROVE Head(todo[t])[i].lock = "engine"
    BY <1>1, <1>2, <2>2, <2>3, EngineComesFirst
  <2> QED
    BY <2>4, PanicKeepsIInv DEF HoldsToWrite, Held, SlicePanics
<1>3. CASE depth[t] = 0
  BY <1>3, PanicKeepsIInv DEF HoldsToWrite, Held, SlicePanics
<1> QED
  BY <1>1, <1>2, <1>3 DEF SlicePanics

\* A thread that finds the engine poisoned holds nothing.
LEMMA TakePoisonedKeepsIInv ==
    ASSUME IInv, NEW t \in Threads, TakePoisoned(t)
    PROVE  IInv'
<1>1. /\ todo[t] \in Seq(Sections) /\ todo[t] # <<>>
      /\ depth[t] \in Nat /\ depth[t] < Len(Head(todo[t]))
      /\ Wanted(t).lock = "engine"
  BY DEF IInv, TypeOK, TakePoisoned, Locking, Wanting, OnlyEngineIsLost
<1>2. Head(todo[t]) \in Seq(Wants)
  BY <1>1, SectionsAreWants
<1>3. depth[t] + 1 \in DOMAIN Head(todo[t])
  BY <1>1, <1>2
<1>4. Head(todo[t])[depth[t] + 1].lock = "engine"
  BY <1>1 DEF Wanted
<1>5. ASSUME NEW i \in 1 .. depth[t] PROVE FALSE
  BY <1>1, <1>3, <1>4, EngineComesFirst
<1>6. CASE Wanted(t).unwraps
  BY <1>5, <1>6, PanicKeepsIInv DEF HoldsToWrite, Held, TakePoisoned
<1>7. CASE ~Wanted(t).unwraps
  <2>1. Goto(t, stage[t], Tail(todo[t])) /\ UNCHANGED <<who, poisoned>>
    BY <1>7 DEF TakePoisoned
  <2>2. Tail(todo[t]) \in Seq(Sections) /\ stage[t] \in Stages
    BY <1>1 DEF IInv, TypeOK
  <2>3. stage[t] \notin {"unborn"} \cup Over
    BY <1>1 DEF IInv, TypeOK
  <2>4. TypeOK' /\ (todo \in [Threads -> Seq(Sections)])'
    BY <2>1, <2>2, <2>3, GotoKeepsTypes DEF IInv, TypeOK
  <2> QED
    BY <2>1, <2>4 DEF IInv, OnlyEngineIsLost
<1> QED
  BY <1>6, <1>7

\* A thread takes what it wants.
LEMMA DeeperKeepsIInv ==
    ASSUME IInv, NEW t \in Threads, Wanting(t),
           depth' = [depth EXCEPT ![t] = depth[t] + 1],
           \/ queued' = [queued EXCEPT ![t] = FALSE]
           \/ UNCHANGED queued /\ ~queued[t],
           UNCHANGED <<stage, who, todo, poisoned>>
    PROVE  IInv'
<1>1. todo[t] # <<>> /\ depth[t] \in Nat /\ depth[t] < Len(Head(todo[t]))
  BY DEF IInv, TypeOK, Wanting
<1>2. Len(Head(todo[t])) \in Nat
  BY <1>1, SectionsAreWants DEF IInv
<1>3. depth' \in [Threads -> Nat] /\ queued' \in [Threads -> BOOLEAN]
  <2>1. depth[t] + 1 \in Nat
    BY <1>1
  <2>2. depth' \in [Threads -> Nat]
    BY <2>1 DEF IInv, TypeOK
  <2>3. queued' \in [Threads -> BOOLEAN]
    BY DEF IInv, TypeOK
  <2> QED
    BY <2>2, <2>3
<1>4. ASSUME NEW u \in Threads
      PROVE  /\ todo'[u] # <<>> => depth'[u] <= Len(Head(todo'[u]))
             /\ todo'[u] = <<>> => depth'[u] = 0
             /\ stage'[u] \in {"unborn"} \cup Over => todo'[u] = <<>>
             /\ queued'[u] => Locking(u)' /\ Wanted(u)'.writes
  <2>1. CASE u = t
    <3>1. depth'[u] = depth[t] + 1 /\ ~queued'[u]
      BY <2>1 DEF IInv, TypeOK
    <3> QED
      BY <1>1, <1>2, <2>1, <3>1 DEF IInv, TypeOK
  <2>2. CASE u # t
    <3>1. depth'[u] = depth[u] /\ queued'[u] = queued[u]
      BY <2>2 DEF IInv, TypeOK
    <3>2. Locking(u)' = Locking(u) /\ Wanted(u)' = Wanted(u)
      BY <3>1 DEF Locking, Wanting, Wanted
    <3> QED
      BY <3>1, <3>2 DEF IInv, TypeOK
  <2> QED
    BY <2>1, <2>2
<1>5. TypeOK'
  BY <1>3, <1>4 DEF IInv, TypeOK
<1> QED
  BY <1>5 DEF IInv, OnlyEngineIsLost

LEMMA QueueKeepsIInv ==
    ASSUME IInv, NEW t \in Threads, Queue(t)
    PROVE  IInv'
<1>1. queued' \in [Threads -> BOOLEAN]
  BY DEF IInv, TypeOK, Queue
<1>2. \A u \in Threads : Locking(u)' = Locking(u) /\ Wanted(u)' = Wanted(u)
  BY DEF Queue, Locking, Wanting, Wanted
<1>3. \A u \in Threads : queued'[u] => Locking(u) /\ Wanted(u).writes
  BY DEF IInv, TypeOK, Queue
<1>4. TypeOK'
  BY <1>1, <1>2, <1>3 DEF IInv, TypeOK, Queue
<1> QED
  BY <1>4 DEF IInv, Queue, OnlyEngineIsLost

\* The steps that only follow the plan, or give up the rest of it.
LEMMA GotoKeepsIInv ==
    ASSUME IInv, NEW t \in Threads, NEW s \in Stages, NEW plan \in Seq(Sections),
           s \in {"unborn"} \cup Over => plan = <<>>,
           Goto(t, s, plan),
           who' \in [Threads -> Kinds], UNCHANGED poisoned
    PROVE  IInv'
<1>1. TypeOK' /\ (todo \in [Threads -> Seq(Sections)])'
  BY GotoKeepsTypes DEF IInv, TypeOK
<1> QED
  BY <1>1 DEF IInv, OnlyEngineIsLost

LEMMA PlanStepsKeepIInv ==
    ASSUME IInv, NEW t \in Threads,
           Arrive(t) \/ Release(t) \/ Dispatch(t) \/ ReturnEarly(t) \/ Leave(t)
    PROVE  IInv'
<1>1. <<>> \in Seq(Sections)
  OBVIOUS
<1>2. /\ stage[t] \in Stages /\ todo[t] \in Seq(Sections) /\ who[t] \in Kinds
      /\ who \in [Threads -> Kinds]
      /\ todo[t] # <<>> => stage[t] \notin {"unborn"} \cup Over
  BY DEF IInv, TypeOK
<1>3. {"entering", "routed", "direct", "leaving", "ended"} \subseteq Stages
      /\ {"entering", "routed", "direct", "leaving"} \cap ({"unborn"} \cup Over) = {}
  BY DEF Stages, Over
<1>4. CASE Arrive(t)
  <2>1. PICK kind \in Kinds : \E plan \in Entries[kind] :
            /\ who' = [who EXCEPT ![t] = kind]
            /\ Goto(t, "entering", plan)
    BY <1>4 DEF Arrive
  <2>2. PICK plan \in Entries[kind] :
            /\ who' = [who EXCEPT ![t] = kind]
            /\ Goto(t, "entering", plan)
    BY <2>1
  <2>3. plan \in Seq(Sections)
    BY <2>2, PlansAreSound
  <2>4. who' \in [Threads -> Kinds]
    BY <1>2, <2>2
  <2> QED
    BY <1>3, <1>4, <2>2, <2>3, <2>4, GotoKeepsIInv DEF Arrive
<1>5. CASE Release(t)
  <2>1. Tail(todo[t]) \in Seq(Sections)
    BY <1>2, <1>5 DEF Release
  <2> QED
    BY <1>2, <1>5, <2>1, GotoKeepsIInv DEF Release
<1>6. CASE Dispatch(t)
  <2>1. PICK s \in {"routed", "direct", "ended"}, plan \in Seq(Sections) :
            /\ s = "ended" => plan = <<>>
            /\ Goto(t, s, plan)
    <3>1. CASE who[t] \in {"open", "tenant"}
      BY <1>6, <3>1, PlansAreSound DEF Dispatch
    <3>2. CASE who[t] \notin {"open", "tenant"}
      BY <1>1, <1>6, <3>2 DEF Dispatch
    <3> QED
      BY <3>1, <3>2
  <2> QED
    BY <1>2, <1>3, <1>6, <2>1, GotoKeepsIInv DEF Dispatch
<1>7. CASE ReturnEarly(t)
  BY <1>1, <1>2, <1>7, GotoKeepsIInv DEF ReturnEarly
<1>8. CASE Leave(t)
  <2>1. PICK s \in {"leaving", "ended"}, plan \in Seq(Sections) :
            /\ s = "ended" => plan = <<>>
            /\ Goto(t, s, plan)
    BY <1>1, <1>8, PlansAreSound DEF Leave
  <2> QED
    BY <1>2, <1>3, <1>8, <2>1, GotoKeepsIInv DEF Leave
<1> QED
  BY <1>4, <1>5, <1>6, <1>7, <1>8

LEMMA InitIInv == Init => IInv
<1> SUFFICES ASSUME Init PROVE IInv
  OBVIOUS
<1>1. <<>> \in Seq(Sections) /\ <<>> \in Plans
  BY DEF Plans
<1>2. TypeOK
  BY <1>1 DEF Init, TypeOK, Stages, Kinds, Over
<1> QED
  BY <1>1, <1>2 DEF Init, IInv, OnlyEngineIsLost

LEMMA NextKeepsIInv == IInv /\ [Next]_vars => IInv'
<1> SUFFICES ASSUME IInv, [Next]_vars PROVE IInv'
  OBVIOUS
<1>1. ASSUME NEW t \in Threads, Take(t)
      PROVE  IInv'
  BY <1>1, DeeperKeepsIInv DEF Take, Locking
<1>2. ASSUME NEW t \in Threads, Respond(t)
      PROVE  IInv'
  <2>1. ~queued[t]
    BY <1>2 DEF IInv, TypeOK, Respond, Awaiting, Locking
  <2> QED
    BY <1>2, <2>1, DeeperKeepsIInv DEF Respond, Awaiting
<1>3. CASE UNCHANGED vars
  <2>1. \A u \in Threads : Locking(u)' = Locking(u) /\ Wanted(u)' = Wanted(u)
    BY <1>3 DEF vars, threadVars, Locking, Wanting, Wanted
  <2> QED
    BY <1>3, <2>1 DEF vars, threadVars, IInv, TypeOK, OnlyEngineIsLost
<1> QED
  BY <1>1, <1>2, <1>3, QueueKeepsIInv, TakePoisonedKeepsIInv, SlicePanicsKeepsIInv,
     PlanStepsKeepIInv DEF Next, GoOn

LEMMA InvariantHolds == Spec => []IInv
BY InitIInv, NextKeepsIInv, PTL DEF Spec

-----------------------------------------------------------------------------

\* The types of the threads and the locks: what a thread holds is part of
\* the section it is in, and only who waits for a lock is queued for it
\* (RwLock, Mutex and their guards in handlers.rs).
THEOREM TypeCorrect == Spec => []TypeOK
BY InvariantHolds, PTL DEF IInv

\* No lock but the engine's is ever poisoned: strings are cut at a byte
\* under that lock only (handlers.rs:239, 1110, 1449, 1630, 2210), and whoever
\* panics because it is poisoned holds nothing yet.
THEOREM EngineAlonePoisoned == Spec => []OnlyEngineIsLost
BY InvariantHolds, PTL DEF IInv

-----------------------------------------------------------------------------
(* Nobody waits in a circle.                                               *)

\* A thread wants a lock of a higher rank than every one it holds.
LEMMA WantsHigher ==
    ASSUME IInv, NEW u \in Threads, Locking(u),
           NEW l \in LockNames, Holds(u, l)
    PROVE  Rank(l) < Rank(Wanted(u).lock)
<1>1. /\ Head(todo[u]) \in Sections
      /\ depth[u] \in Nat /\ depth[u] < Len(Head(todo[u]))
  BY DEF IInv, TypeOK, Locking, Wanting
<1>2. Head(todo[u]) \in Seq(Wants)
  BY <1>1, SectionsAreWants
<1>3. PICK i \in 1 .. depth[u] : Head(todo[u])[i].lock = l
  BY DEF Holds, Held
<1>4. /\ i \in DOMAIN Head(todo[u]) /\ depth[u] + 1 \in DOMAIN Head(todo[u])
      /\ i < depth[u] + 1
  BY <1>1, <1>2, <1>3
<1>5. Rank(Head(todo[u])[i].lock) < Rank(Head(todo[u])[depth[u] + 1].lock)
  BY <1>1, <1>4 DEF Sections, Rising
<1> QED
  BY <1>3, <1>5 DEF Wanted

\* Of a group in which each waits for another, one wants a lock of a higher
\* rank than any given one does: the holder of the lock that one wants, or
\* the holder of the lock that the writer queued before it wants.
LEMMA Climb ==
    ASSUME IInv, NEW S \in SUBSET Threads,
           \A t \in S : Blockers(t) \cap S # {},
           NEW t \in S
    PROVE  \E u \in S : Rank(Wanted(t).lock) < Rank(Wanted(u).lock)
<1>1. \A u \in S : Locking(u) /\ u \in Threads
  BY DEF Blockers
<1>2. \A u \in S : Wanted(u).lock \in LockNames
  <2>1. ASSUME NEW u \in S PROVE Wanted(u) \in Wants
    <3>1. u \in Threads /\ Wanting(u)
      BY <1>1 DEF Locking
    <3>2. /\ Head(todo[u]) \in Sections
          /\ depth[u] \in Nat /\ depth[u] < Len(Head(todo[u]))
      <4>1. todo[u] \in Seq(Sections) /\ depth[u] \in Nat
        BY <3>1 DEF IInv, TypeOK
      <4> QED
        BY <3>1, <4>1 DEF Wanting
    <3>3. Head(todo[u]) \in Seq(Wants)
      BY <3>2, SectionsAreWants
    <3> QED
      BY <3>2, <3>3 DEF Wanted
  <2> QED
    BY <1>1, <2>1 DEF Locking, Wants
<1>3. ASSUME NEW v \in S, NEW u \in S, Holds(u, Wanted(v).lock)
      PROVE  Rank(Wanted(v).lock) < Rank(Wanted(u).lock)
  BY <1>1, <1>2, <1>3, WantsHigher
<1>4. PICK u \in S : u \in Blockers(t)
  OBVIOUS
<1>5. CASE Holds(u, Wanted(t).lock)
  BY <1>3, <1>5
<1>6. CASE ~Holds(u, Wanted(t).lock)
  <2>1. Wanted(u).lock = Wanted(t).lock /\ queued[u]
    BY <1>4, <1>6 DEF Blockers, Holds, HoldsToWrite
  <2>2. Wanted(u).writes
    BY <1>1, <2>1 DEF IInv, TypeOK
  <2>3. PICK v \in S : v \in Blockers(u)
    OBVIOUS
  <2>4. Holds(v, Wanted(u).lock)
    BY <2>2, <2>3 DEF Blockers
  <2> QED
    BY <1>3, <2>1, <2>4
<1> QED
  BY <1>5, <1>6

LEMMA NobodyWaitsInACircle == IInv => NoStandstill
<1> SUFFICES ASSUME IInv, NEW S \in (SUBSET Threads) \ {{}},
                    ~\E t \in S : Blockers(t) \cap S = {}
             PROVE  FALSE
  BY DEF NoStandstill
<1> \A t \in S : Blockers(t) \cap S # {}
  OBVIOUS
<1>1. PICK t : t \in S
  OBVIOUS
<1>2. PICK u \in S : Rank(Wanted(t).lock) < Rank(Wanted(u).lock)
  BY <1>1, Climb
<1>3. PICK v \in S : Rank(Wanted(u).lock) < Rank(Wanted(v).lock)
  BY <1>2, Climb
<1>4. PICK w \in S : Rank(Wanted(v).lock) < Rank(Wanted(w).lock)
  BY <1>3, Climb
<1> QED
  BY <1>2, <1>3, <1>4 DEF Rank

\* Whatever handlers run at the same time, no group of threads waits for one
\* another for ever: a thread that holds the engine, the registry or the GDPR
\* log may want the usage or the audit log, and never the other way round
\* (the nested locks of server.rs:204-211 and of the handlers).
THEOREM DeadlockFree == Spec => []NoStandstill
BY InvariantHolds, NobodyWaitsInACircle, PTL

-----------------------------------------------------------------------------
(* Who waits for its client or its model holds nothing.                    *)

LEMMA AwaitsEmptyHanded ==
    ASSUME IInv, NEW t \in Threads, Awaiting(t) \/ depth[t] = 0
    PROVE  Held(t) = {}
<1>1. depth[t] \in Nat
  BY DEF IInv, TypeOK
<1>2. CASE Awaiting(t)
  <2>1. Head(todo[t]) \in Sections /\ depth[t] < Len(Head(todo[t]))
    BY <1>2 DEF IInv, TypeOK, Awaiting, Wanting
  <2>2. depth[t] + 1 \in DOMAIN Head(todo[t]) /\ Len(Head(todo[t])) \in Nat
    BY <1>1, <2>1, SectionsAreWants
  <2>3. Len(Head(todo[t])) = 1
    BY <1>2, <2>1, <2>2 DEF Sections, OutsideAlone, Awaiting, Wanted
  <2>4. depth[t] < 1
    BY <2>1, <2>3, Zenon
  <2>5. depth[t] = 0
    BY <1>1, <2>4
  <2> QED
    BY <2>5 DEF Held
<1>3. CASE depth[t] = 0
  BY <1>3 DEF Held
<1> QED
  BY <1>2, <1>3

\* Every blocker of a thread is itself at work.
LEMMA BlockersAreAtWork ==
    ASSUME IInv, NEW t \in Threads, NEW u \in Blockers(t)
    PROVE  u \in Threads /\ AtWork(u)
<1>1. u \in Threads
  BY DEF Blockers
<1>2. Held(u) # {} \/ Locking(u)
  BY DEF Blockers, Holds, HoldsToWrite
<1>3. ~Awaiting(u)
  BY <1>1, <1>2, AwaitsEmptyHanded DEF Locking, Awaiting
<1>4. stage[u] \notin {"unborn"} \cup Over
  <2>1. SUFFICES ASSUME todo[u] = <<>> PROVE FALSE
    BY <1>1 DEF IInv, TypeOK
  <2>2. depth[u] = 0
    BY <1>1, <2>1 DEF IInv, TypeOK
  <2>3. Held(u) = {}
    BY <1>1, <2>2, AwaitsEmptyHanded
  <2> QED
    BY <1>2, <2>1, <2>3 DEF Locking, Wanting
<1> QED
  BY <1>1, <1>3, <1>4 DEF AtWork

LEMMA OneCanGoOn == IInv => SomebodyGoesOn
<1> SUFFICES ASSUME IInv, NEW s \in Threads, AtWork(s)
             PROVE  \E t \in Threads : AtWork(t) /\ Blockers(t) = {}
  BY DEF SomebodyGoesOn
<1> DEFINE Workers == {t \in Threads : AtWork(t)}
<1>1. Workers \in (SUBSET Threads) \ {{}}
  OBVIOUS
<1>2. PICK t \in Workers : Blockers(t) \cap Workers = {}
  BY <1>1, NobodyWaitsInACircle DEF NoStandstill
<1>3. Blockers(t) \subseteq Workers
  BY <1>2, BlockersAreAtWork
<1> QED
  BY <1>2, <1>3

\* A client that does not read and a language model that does not answer keep
\* their own request waiting and nobody else's: no handler calls one under a
\* lock (the blocks around the guards in handlers.rs:467-470 and 2035-2038),
\* so a thread that is at work can always go on.
THEOREM NobodyWaitsForSlowCallers == Spec => []SomebodyGoesOn
BY InvariantHolds, OneCanGoOn, PTL
=============================================================================
