-------------------------- MODULE SpinMutexProofs --------------------------
(***************************************************************************)
(* Proofs about SpinMutex, for any set of cores.                           *)
(***************************************************************************)
EXTENDS SpinMutex, Integers, TLAPS

(* Every step keeps the mutex word in agreement with its owner. *)
LEMMA StepIInv == IInv /\ [Next]_vars => IInv'
<1> SUFFICES ASSUME IInv, [Next]_vars PROVE IInv'
  OBVIOUS
<1> USE DEF IInv, TypeOK, LockedIffHeld, MutualExclusion
<1>1. ASSUME NEW c \in Cores, Lock(c) PROVE IInv'
  BY <1>1 DEF Lock
<1>2. ASSUME NEW c \in Cores, Exchange(c) PROVE IInv'
  <2>1. CASE lock = 0
    BY <1>2, <2>1 DEF Exchange
  <2>2. CASE lock = 1
    BY <1>2, <2>2 DEF Exchange
  <2> QED
    BY <2>1, <2>2
<1>3. ASSUME NEW c \in Cores, TryLock(c) PROVE IInv'
  <2>1. CASE lock = 0
    BY <1>3, <2>1 DEF TryLock
  <2>2. CASE lock = 1
    BY <1>3, <2>2 DEF TryLock
  <2> QED
    BY <2>1, <2>2
<1>4. ASSUME NEW c \in Cores, Unlock(c) PROVE IInv'
  BY <1>4 DEF Unlock
<1>5. CASE UNCHANGED vars
  BY <1>5 DEF vars
<1> QED
  BY <1>1, <1>2, <1>3, <1>4, <1>5 DEF Next

(* The mutex word is 1 exactly while one core, and only one, owns it. *)
THEOREM SpinInvariant == Spec => []IInv
<1>1. Init => IInv
  BY DEF Init, IInv, TypeOK, LockedIffHeld, MutualExclusion
<1> QED
  BY <1>1, StepIInv, PTL DEF Spec

LEMMA StepImplements == IInv /\ [Next]_vars => [M!Next]_(M!vars)
<1> SUFFICES ASSUME IInv, [Next]_vars PROVE M!Next \/ UNCHANGED M!vars
  OBVIOUS
<1> DEFINE W == {c \in Cores : pc[c] = "spin"}
           H == {c \in Cores : pc[c] = "cs"}
<1>0. /\ pc \in [Cores -> {"out", "spin", "cs"}]
      /\ lock \in {0, 1}
      /\ lock = 0 => H = {}
      /\ \A c \in H : H = {c}
  BY DEF IInv, TypeOK, LockedIffHeld, MutualExclusion
<1>1. ASSUME NEW c \in Cores, Lock(c) PROVE M!Request(c)
  BY <1>0, <1>1 DEF Lock, M!Request, M!Idle
<1>2. ASSUME NEW c \in Cores, Exchange(c)
      PROVE  M!Acquire(c) \/ UNCHANGED M!vars
  <2>1. CASE lock = 0
    <3>1. c \in W /\ H = {}
      BY <1>0, <1>2, <2>1 DEF Exchange
    <3>2. W' = W \ {c} /\ H' = {c}
      BY <1>0, <1>2, <2>1, <3>1 DEF Exchange
    <3> QED
      BY <3>1, <3>2 DEF M!Acquire
  <2>2. CASE lock = 1
    <3>1. pc' = pc
      BY <1>0, <1>2, <2>2 DEF Exchange
    <3> QED
      BY <3>1 DEF M!vars
  <2> QED
    BY <1>0, <2>1, <2>2
<1>3. ASSUME NEW c \in Cores, TryLock(c)
      PROVE  M!TryAcquire(c) \/ UNCHANGED M!vars
  <2>1. CASE lock = 0
    <3>1. c \notin W /\ c \notin H /\ H = {}
      BY <1>0, <1>3, <2>1 DEF TryLock
    <3>2. W' = W /\ H' = {c}
      BY <1>0, <1>3, <2>1, <3>1 DEF TryLock
    <3> QED
      BY <3>1, <3>2 DEF M!TryAcquire, M!Idle
  <2>2. CASE lock = 1
    <3>1. pc' = pc
      BY <1>0, <1>3, <2>2 DEF TryLock
    <3> QED
      BY <3>1 DEF M!vars
  <2> QED
    BY <1>0, <2>1, <2>2
<1>4. ASSUME NEW c \in Cores, Unlock(c) PROVE M!Release(c)
  BY <1>0, <1>4 DEF Unlock, M!Release
<1>5. CASE UNCHANGED vars
  BY <1>5 DEF vars, M!vars
<1> QED
  BY <1>1, <1>2, <1>3, <1>4, <1>5 DEF Next, M!Next

(* The spin lock implements the abstract mutex: a failed exchange is a
   stutter, a successful one grants the lock to its core. *)
THEOREM SpinImplementsMutex == Spec => ImplementsMutex
<1>1. Init => M!Init
  BY DEF Init, M!Init
<1> QED
  BY <1>1, SpinInvariant, StepImplements, PTL DEF Spec, ImplementsMutex, M!Spec
=============================================================================
