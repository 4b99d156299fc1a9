------------------------- MODULE SessionStoreProofs -------------------------
(***************************************************************************)
(* SessionStore for any number of threads, identifiers and sessions: its   *)
(* types, that what a thread looked up stays true until it acts on it, and *)
(* that the storage implements SessionMap.                                 *)
(***************************************************************************)
EXTENDS SessionStore, TLAPS

\* A thread between lock and unlock holds the mutex.
HolderInside == \A t \in Thread : InCriticalSection(t) => mutex = t

IInv == TypeOK /\ HolderInside /\ LookupIsFresh

USE DEF CanLock, AfterUnlock, Stored, InCriticalSection, Atomic!NullableSession

\* The storage starts empty, unlocked and unused.
LEMMA InitIInv == Init => IInv
  BY FreeAssumption, NoSessionAssumption DEF Init, IInv, TypeOK, HolderInside, LookupIsFresh, Empty

\* The arguments of a call are well formed.
LEMMA CallTypes ==
  ASSUME NEW c \in Atomic!SetCall \union Atomic!GetCall \union Atomic!RemoveCall
  PROVE  /\ c # Atomic!NoCall
         /\ c.sid \in Sid
         /\ c.val \in Session \union {NoSession}
  BY SidOfAssumption DEF Atomic!SetCall, Atomic!GetCall, Atomic!RemoveCall, Atomic!NoCall

\* Each of the six steps keeps the inductive invariant.
LEMMA NextIInv == IInv /\ [Next]_vars => IInv'
  <1> SUFFICES ASSUME IInv, [Next]_vars PROVE IInv'
    OBVIOUS
  <1> USE FreeAssumption DEF IInv, TypeOK, HolderInside, LookupIsFresh
  <1>1. CASE UNCHANGED vars
    BY <1>1 DEF vars
  <1>2. ASSUME NEW t \in Thread,
               NEW calls \in SUBSET (Atomic!SetCall \union Atomic!GetCall \union Atomic!RemoveCall),
               Enter(t, calls)
        PROVE  IInv'
    <2>1. PICK c \in calls : call' = [call EXCEPT ![t] = c]
      BY <1>2 DEF Enter
    <2>2. c # Atomic!NoCall
      BY CallTypes
    <2>3. TypeOK'
      BY <1>2, <2>1, <2>2 DEF Enter
    <2>4. HolderInside' /\ LookupIsFresh'
      BY <1>2 DEF Enter
    <2> QED BY <2>3, <2>4
  <1>3. ASSUME NEW t \in Thread, Lock(t) PROVE IInv'
    BY <1>3 DEF Lock
  <1>4. ASSUME NEW t \in Thread, Find(t) PROVE IInv'
    BY <1>4 DEF Find
  <1>5. ASSUME NEW t \in Thread, Apply(t) PROVE IInv'
    <2>1. call[t].sid \in Sid /\ call[t].val \in Session \union {NoSession}
      BY <1>5, CallTypes DEF Apply
    <2>2. TypeOK'
      <3>1. CASE call[t].op = "get"
        BY <1>5, <2>1, <3>1 DEF Apply
      <3>2. CASE call[t].op # "get"
        BY <1>5, <2>1, <3>2 DEF Apply
      <3> QED BY <3>1, <3>2
    <2>3. HolderInside'
      BY <1>5 DEF Apply
    <2>4. LookupIsFresh'
      BY <1>5 DEF Apply
    <2> QED BY <2>2, <2>3, <2>4
  <1>6. ASSUME NEW t \in Thread, Unlock(t) PROVE IInv'
    <2>1. Empty \in [Sid -> Atomic!NullableSession]
      BY DEF Empty
    <2> QED BY <1>6, <2>1 DEF Unlock
  <1> QED
    BY <1>1, <1>2, <1>3, <1>4, <1>5, <1>6
    DEF Next, Step, in_memory_set, in_memory_get, in_memory_remove

\* The inductive invariant holds in every reachable state.
LEMMA IInvHolds == Spec => []IInv
  BY InitIInv, NextIInv, PTL DEF Spec

\* The variables keep their types.
THEOREM TypesHold == Spec => []TypeOK
  BY IInvHolds, PTL DEF IInv

\* A lookup is never overtaken by another thread's set or remove before the
\* thread acts on it, whatever the number of threads.
THEOREM LookupsFresh == Spec => []LookupIsFresh
  BY IInvHolds, PTL DEF IInv

\* Every step of the locked hash is a step of the atomic map or changes
\* nothing the map shows.
LEMMA StepSimulation == IInv /\ [Next]_vars => [Atomic!Next]_(Atomic!mapVars)
  <1> SUFFICES ASSUME IInv, [Next]_vars PROVE [Atomic!Next]_(Atomic!mapVars)
    OBVIOUS
  <1> USE DEF IInv, TypeOK, Atomic!mapVars
  <1>1. CASE UNCHANGED vars
    BY <1>1 DEF vars
  <1>2. ASSUME NEW t \in Thread,
               NEW calls \in SUBSET (Atomic!SetCall \union Atomic!GetCall \union Atomic!RemoveCall),
               Enter(t, calls)
        PROVE  Atomic!Invoke(t)
    BY <1>2 DEF Enter, Atomic!Invoke
  <1>3. ASSUME NEW t \in Thread, Lock(t) \/ Find(t) PROVE UNCHANGED Atomic!mapVars
    BY <1>3 DEF Lock, Find
  <1>4. ASSUME NEW t \in Thread, Apply(t) PROVE Atomic!TakeEffect(t)
    BY <1>4 DEF Apply, Atomic!TakeEffect, LookupIsFresh
  <1>5. ASSUME NEW t \in Thread, Unlock(t) PROVE Atomic!Return(t)
    BY <1>5 DEF Unlock, Atomic!Return
  <1> QED
    BY <1>1, <1>2, <1>3, <1>4, <1>5
    DEF Next, Step, in_memory_set, in_memory_get, in_memory_remove, Atomic!Next

\* in_memory_set, in_memory_get and in_memory_remove implement the atomic map:
\* their calls are linearizable.
THEOREM Linearizable == Spec => ImplementsAtomicMap
  <1>1. Init => Atomic!Init
    BY DEF Init, Atomic!Init, Empty
  <1> QED
    BY <1>1, StepSimulation, IInvHolds, PTL DEF Spec, ImplementsAtomicMap, Atomic!Spec
=============================================================================
