------------------------------- MODULE Registry -------------------------------
(***************************************************************************)
(* What the registry of tenants promises the rest of the gateway: one map  *)
(* from ids to keys, which creates and deletes change one at a time, and   *)
(* in which a request looks up its key at one instant; and a copy of the   *)
(* map in the database, which each change reaches some time later, or not  *)
(* at all when the process ends or the database fails before.  The copy is *)
(* not the registry's own: others write and erase under its keys as well.  *)
(*                                                                         *)
(* Tenants implements this with three maps, a lock around each step, and   *)
(* requests that go through authentication and quotas.                     *)
(***************************************************************************)
CONSTANTS
    Threads,    \* whoever uses the registry
    Ids,        \* tenant ids
    Keys,       \* API keys
    None        \* no tenant, no key

VARIABLES
    registered, \* the key of each tenant
    saved,      \* the key of each tenant in the database
    found,      \* the tenant each thread's key has led to, and the key
    unsaved     \* the change each thread has made and not yet saved

vars == <<registered, saved, found, unsaved>>

\* No look-up, no change.
Nothing == [id |-> None, key |-> None]

Free(t) == found[t] = Nothing /\ unsaved[t] = Nothing

Init ==
    /\ saved = [i \in Ids |-> None]
    /\ registered = saved
    /\ found = [t \in Threads |-> Nothing]
    /\ unsaved = [t \in Threads |-> Nothing]

\* A key leads to the tenant that has it at that instant.
LookUp(t, i) ==
    /\ registered[i] # None
    /\ Free(t)
    /\ found' = [found EXCEPT ![t] = [id |-> i, key |-> registered[i]]]
    /\ UNCHANGED <<registered, saved, unsaved>>

\* The thread goes on to work for the tenant, or is turned away.
Use(t) ==
    /\ found[t] # Nothing
    /\ found' = [found EXCEPT ![t] = Nothing]
    /\ UNCHANGED <<registered, saved, unsaved>>

Change(t, i, k) ==
    /\ Free(t)
    /\ registered' = [registered EXCEPT ![i] = k]
    /\ unsaved' = [unsaved EXCEPT ![t] = [id |-> i, key |-> k]]
    /\ UNCHANGED <<saved, found>>

Create(t, i) == registered[i] = None /\ \E k \in Keys : Change(t, i, k)
Delete(t, i) == registered[i] # None /\ Change(t, i, None)

\* The database gets this thread's change, or keeps what it has.
Save(t) ==
    /\ unsaved[t] # Nothing
    /\ saved' \in {saved, [saved EXCEPT ![unsaved[t].id] = unsaved[t].key]}
    /\ unsaved' = [unsaved EXCEPT ![t] = Nothing]
    /\ UNCHANGED <<registered, found>>

\* Somebody writes another definition under the key of one, or erases some
\* (and writes something else there).
Overwrite(i) ==
    /\ UNCHANGED <<registered, found, unsaved>>
    /\ \E k \in Keys : saved' = [saved EXCEPT ![i] = k]

Wipe ==
    /\ UNCHANGED <<registered, found, unsaved>>
    /\ \E gone \in SUBSET Ids :
          saved' = [i \in Ids |-> IF i \in gone THEN None ELSE saved[i]]

Restart ==
    /\ registered' = saved
    /\ found' = [t \in Threads |-> Nothing]
    /\ unsaved' = [t \in Threads |-> Nothing]
    /\ UNCHANGED saved

\* A step of the gateway that is about something else, as most are.
Elsewhere == UNCHANGED vars

Next ==
    \/ Elsewhere
    \/ \E t \in Threads : Use(t) \/ Save(t)
    \/ Restart \/ Wipe \/ \E i \in Ids : Overwrite(i)
    \/ \E t \in Threads, i \in Ids : LookUp(t, i) \/ Create(t, i) \/ Delete(t, i)

Spec == Init /\ [][Next]_vars
=============================================================================
