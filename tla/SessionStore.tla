---------------------------- MODULE SessionStore ----------------------------
(***************************************************************************)
(* The in-memory session storage of one httpd child process: an APR hash   *)
(* behind one APR thread mutex, called by every request thread of the      *)
(* child.  Each of in_memory_set, in_memory_get and in_memory_remove locks *)
(* the mutex, performs one hash operation and unlocks.                     *)
(*                                                                         *)
(* The hash operation itself is not atomic: apr_hash finds the entry first *)
(* and then writes the bucket it found, so two unserialised writers lose   *)
(* one of their updates.  It is two steps here, Find and Apply.            *)
(***************************************************************************)
CONSTANTS Thread, Sid, Session, SidOf, NoSession, Free

ASSUME SidOfAssumption == SidOf \in [Session -> Sid]
ASSUME NoSessionAssumption == NoSession \notin Session
ASSUME FreeAssumption == Free \notin Thread

VARIABLES
    hash,    \* the hash table: the session stored under each sid, or NoSession
    mutex,   \* the thread that holds impl->mutex, or Free
    pc,      \* where each thread is
    call,    \* the arguments of its call
    seen,    \* the table as it was when the thread looked its entry up
    ret      \* the value get is about to return

vars == <<hash, mutex, pc, call, seen, ret>>

Atomic == INSTANCE SessionMap WITH
    map <- hash,
    stage <- [t \in Thread |-> IF pc[t] = "idle" THEN "idle"
                               ELSE IF pc[t] = "applied" THEN "done" ELSE "called"]

Empty == [k \in Sid |-> NoSession]

Init ==
    /\ hash = Empty
    /\ mutex = Free
    /\ pc = [t \in Thread |-> "idle"]
    /\ call = [t \in Thread |-> Atomic!NoCall]
    /\ seen = [t \in Thread |-> Empty]
    /\ ret = [t \in Thread |-> NoSession]

Enter(t, calls) ==
    /\ pc[t] = "idle"
    /\ pc' = [pc EXCEPT ![t] = "waiting"]
    /\ \E c \in calls : call' = [call EXCEPT ![t] = c]
    /\ UNCHANGED <<hash, mutex, seen, ret>>

in_memory_set(t) == Enter(t, Atomic!SetCall)
in_memory_get(t) == Enter(t, Atomic!GetCall)
in_memory_remove(t) == Enter(t, Atomic!RemoveCall)

\* Fault: the hash is used without the mutex.
CanLockAlways(t) == TRUE

CanLock(t) == mutex = Free

\* apr_thread_mutex_lock
Lock(t) ==
    /\ pc[t] = "waiting"
    /\ CanLock(t)
    /\ mutex' = t
    /\ pc' = [pc EXCEPT ![t] = "locked"]
    /\ UNCHANGED <<hash, call, seen, ret>>

\* apr_hash_set and apr_hash_get walk the bucket's chain ...
Find(t) ==
    /\ pc[t] = "locked"
    /\ seen' = [seen EXCEPT ![t] = hash]
    /\ pc' = [pc EXCEPT ![t] = "found"]
    /\ UNCHANGED <<hash, mutex, call, ret>>

\* Fault: remove leaves the entry in place.
StoredUnlessNull(t) ==
    IF call[t].op = "remove" THEN seen[t][call[t].sid] ELSE call[t].val

\* Fault: the key is stored instead of the session.
StoredKey(t) == call[t].sid

\* What a write leaves under the key: the session, or NULL for remove.
Stored(t) == call[t].val

\* ... and then read or write the entry they stopped at.
Apply(t) ==
    /\ pc[t] = "found"
    /\ pc' = [pc EXCEPT ![t] = "applied"]
    /\ IF call[t].op = "get"
       THEN ret' = [ret EXCEPT ![t] = seen[t][call[t].sid]] /\ UNCHANGED hash
       ELSE hash' = [seen[t] EXCEPT ![call[t].sid] = Stored(t)] /\ UNCHANGED ret
    /\ UNCHANGED <<mutex, call, seen>>

\* Fault: get returns with the mutex still held.
AfterUnlockKept(t) == IF call[t].op = "get" THEN mutex ELSE Free

AfterUnlock(t) == Free

\* apr_thread_mutex_unlock and return to the handler.
Unlock(t) ==
    /\ pc[t] = "applied"
    /\ mutex' = AfterUnlock(t)
    /\ pc' = [pc EXCEPT ![t] = "idle"]
    /\ call' = [call EXCEPT ![t] = Atomic!NoCall]
    /\ seen' = [seen EXCEPT ![t] = Empty]
    /\ ret' = [ret EXCEPT ![t] = NoSession]
    /\ UNCHANGED hash

Step(t) == Lock(t) \/ Find(t) \/ Apply(t) \/ Unlock(t)

Next ==
    \E t \in Thread :
        in_memory_set(t) \/ in_memory_get(t) \/ in_memory_remove(t) \/ Step(t)

Spec == Init /\ [][Next]_vars

\* The kernel keeps running a thread that can run.  Nothing promises that a
\* particular waiter is ever handed the mutex.
FairSpec == Spec /\ \A t \in Thread : WF_vars(Find(t) \/ Apply(t) \/ Unlock(t))
-----------------------------------------------------------------------------
InCriticalSection(t) == pc[t] \in {"locked", "found", "applied"}

\* Types of the variables.
TypeOK ==
    /\ hash \in [Sid -> Atomic!NullableSession]
    /\ mutex \in Thread \union {Free}
    /\ pc \in [Thread -> {"idle", "waiting", "locked", "found", "applied"}]
    /\ call \in [Thread -> Atomic!SetCall \union Atomic!GetCall \union Atomic!RemoveCall
                               \union {Atomic!NoCall}]
    /\ seen \in [Thread -> [Sid -> Atomic!NullableSession]]
    /\ ret \in [Thread -> Atomic!NullableSession]
    /\ \A t \in Thread : pc[t] # "idle" => call[t] # Atomic!NoCall

\* What a thread looked up in the hash is still what the hash holds when it
\* reads or writes the entry: no other thread's set or remove slips between.
LookupIsFresh == \A t \in Thread : pc[t] = "found" => seen[t] = hash

\* The three functions implement the atomic map the handlers rely on.
ImplementsAtomicMap == Atomic!Spec

\* The mutex is released again after every operation, so no request thread of
\* the child can block the others for ever.
MutexReleased == []<>(mutex = Free)
=============================================================================
