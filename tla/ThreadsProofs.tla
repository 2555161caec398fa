--------------------------- MODULE ThreadsProofs ---------------------------
(***************************************************************************)
(* Type correctness of Threads for any set of directors, and then its      *)
(* inductive invariant, and what follows from it, when there is a single   *)
(* director.  Each of the two has one lemma per action.  A lemma of the    *)
(* latter first states what the action changes, what it leaves alone, and  *)
(* the types it relies on; then it takes the conjuncts of the invariant    *)
(* that the action can disturb one by one.                                 *)
(***************************************************************************)
EXTENDS Threads, TLAPS

USE DEF cpu_get_state, cpu_get_ipi_kind, cpu_get_entry_func, cpu_get_args

(* The cores: core 0 is one of them, and no secondary one. *)
LEMMA CpuFacts == /\ 0 \in Cpus /\ NULL \notin Cpus /\ NULL \notin Threads
                  /\ Secondary \subseteq Cpus
                  /\ 0 \notin Secondary
                  /\ \A c \in Cpus : c # 0 => c \in Secondary
                  /\ Directors \subseteq Cpus
BY ThreadsAssumption DEF Cpus, Secondary

(* The next core of a search is a core. *)
LEMMA NextCpu == ASSUME NEW i \in Cpus, i + 1 < NCPUS PROVE i + 1 \in Cpus
BY ThreadsAssumption DEF Cpus

LEMMA ThreadsKnownFrame ==
    ASSUME ThreadsKnown, UNCHANGED <<desc, dpc, thr, live>>
    PROVE  ThreadsKnown'
BY DEF ThreadsKnown

-----------------------------------------------------------------------------
(* The actions of a director *)

LEMMA CreateOnType ==
    ASSUME TypeOK, ThreadsKnown, NEW d \in Directors, NEW t \in Threads, CreateOn(d, t)
    PROVE  TypeOK' /\ ThreadsKnown'
<1>1. TypeOK'
  BY CpuFacts DEF TypeOK, ThreadsKnown, CreateOn, Call, Goto, CallPlaces,
    cpuVars, coreVars, threadVars, callVars, appVars, directorVars
<1>2. ThreadsKnown'
  BY CpuFacts DEF TypeOK, ThreadsKnown, CreateOn, Call, Goto, cpuVars,
    coreVars, threadVars, callVars, appVars, directorVars
<1> QED
  BY <1>1, <1>2

LEMMA CreateAnywhereType ==
    ASSUME TypeOK, ThreadsKnown, NEW d \in Directors, NEW t \in Threads, CreateAnywhere(d, t)
    PROVE  TypeOK' /\ ThreadsKnown'
<1>1. TypeOK'
  BY CpuFacts DEF TypeOK, ThreadsKnown, CreateAnywhere, Call, Goto,
    CallPlaces, cpuVars, coreVars, threadVars, callVars, appVars,
    directorVars
<1>2. ThreadsKnown'
  BY CpuFacts DEF TypeOK, ThreadsKnown, CreateAnywhere, Call, Goto, cpuVars,
    coreVars, threadVars, callVars, appVars, directorVars
<1> QED
  BY <1>1, <1>2

LEMMA DestroyType ==
    ASSUME TypeOK, ThreadsKnown, NEW d \in Directors, NEW t \in Threads, Destroy(d, t)
    PROVE  TypeOK' /\ ThreadsKnown'
<1>1. TypeOK'
  BY CpuFacts DEF TypeOK, ThreadsKnown, Destroy, Call, Goto, CallPlaces,
    cpuVars, coreVars, threadVars, callVars, appVars, directorVars
<1>2. ThreadsKnown'
  BY CpuFacts DEF TypeOK, ThreadsKnown, Destroy, Call, Goto, cpuVars,
    coreVars, threadVars, callVars, appVars, directorVars
<1> QED
  BY <1>1, <1>2

LEMMA JoinType ==
    ASSUME TypeOK, ThreadsKnown, NEW d \in Directors, NEW t \in Threads, Join(d, t)
    PROVE  TypeOK' /\ ThreadsKnown'
<1>1. TypeOK'
  BY CpuFacts DEF TypeOK, ThreadsKnown, Join, Call, Goto, CallPlaces,
    cpuVars, coreVars, threadVars, callVars, appVars, directorVars
<1>2. ThreadsKnown'
  BY CpuFacts DEF TypeOK, ThreadsKnown, Join, Call, Goto, cpuVars, coreVars,
    threadVars, callVars, appVars, directorVars
<1> QED
  BY <1>1, <1>2

LEMMA ScanType ==
    ASSUME TypeOK, ThreadsKnown, NEW d \in Directors, Scan(d)
    PROVE  TypeOK' /\ ThreadsKnown'
<1>1. /\ UNCHANGED <<state, ipi_kind, entry_func, args, thread, msip, pc>>
      /\ UNCHANGED <<run_func, run_args, cpu_id, desc, op, thr, pending>>
      /\ UNCHANGED <<live, outcome>>
  BY DEF Scan, cpuVars, coreVars, threadVars, appVars
<1>2. /\ tgt' \in [Directors -> Cpus]
      /\ ret' \in [Directors -> {NULL, 0, -1, -2}]
      /\ dpc' \in [Directors -> CallPlaces]
  <2>1. /\ tgt \in [Directors -> Cpus]
        /\ ret \in [Directors -> {NULL, 0, -1, -2}]
        /\ dpc \in [Directors -> CallPlaces]
    BY DEF TypeOK
  <2>2. tgt[d] + 1 < NCPUS => tgt[d] + 1 \in Cpus
    BY <2>1, NextCpu
  <2> QED
    BY <2>1, <2>2 DEF Scan, Goto, Return, CallPlaces
<1>3. TypeOK'
  BY <1>1, <1>2 DEF TypeOK
<1>4. ThreadsKnown'
  BY <1>1 DEF TypeOK, ThreadsKnown, Scan, Goto, Return
<1> QED
  BY <1>3, <1>4

LEMMA CheckType ==
    ASSUME TypeOK, ThreadsKnown, NEW d \in Directors, Check(d)
    PROVE  TypeOK' /\ ThreadsKnown'
<1>1. TypeOK'
  BY CpuFacts DEF TypeOK, ThreadsKnown, Check, Goto, Return, CallPlaces,
    cpuVars, coreVars, threadVars, callVars, appVars, directorVars
<1>2. ThreadsKnown'
  BY CpuFacts DEF TypeOK, ThreadsKnown, Check, Goto, Return, cpuVars,
    coreVars, threadVars, callVars, appVars, directorVars
<1> QED
  BY <1>1, <1>2

LEMMA WriteType ==
    ASSUME TypeOK, ThreadsKnown, NEW d \in Directors, Write(d)
    PROVE  TypeOK' /\ ThreadsKnown'
<1>1. TypeOK'
  BY CpuFacts DEF TypeOK, ThreadsKnown, Write, Goto, Fields, CallPlaces,
    cpuVars, coreVars, threadVars, callVars, appVars, directorVars
<1>2. ThreadsKnown'
  BY CpuFacts DEF TypeOK, ThreadsKnown, Write, Goto, Fields, cpuVars,
    coreVars, threadVars, callVars, appVars, directorVars
<1> QED
  BY <1>1, <1>2

LEMMA CommitType ==
    ASSUME TypeOK, ThreadsKnown, NEW d \in Directors, NEW f \in Fields, Commit(d, f)
    PROVE  TypeOK' /\ ThreadsKnown'
<1>1. TypeOK'
  BY CpuFacts DEF TypeOK, ThreadsKnown, Commit, cpuVars, coreVars,
    threadVars, callVars, appVars, directorVars
<1>2. ThreadsKnown'
  BY CpuFacts DEF TypeOK, ThreadsKnown, Commit, cpuVars, coreVars,
    threadVars, callVars, appVars, directorVars
<1> QED
  BY <1>1, <1>2

LEMMA SendIpiType ==
    ASSUME TypeOK, ThreadsKnown, NEW d \in Directors, SendIpi(d)
    PROVE  TypeOK' /\ ThreadsKnown'
<1>1. TypeOK'
  BY CpuFacts DEF TypeOK, ThreadsKnown, SendIpi, Goto, CallPlaces, cpuVars,
    coreVars, threadVars, callVars, appVars, directorVars
<1>2. ThreadsKnown'
  BY CpuFacts DEF TypeOK, ThreadsKnown, SendIpi, Goto, cpuVars, coreVars,
    threadVars, callVars, appVars, directorVars
<1> QED
  BY <1>1, <1>2

LEMMA PollType ==
    ASSUME TypeOK, ThreadsKnown, NEW d \in Directors, Poll(d)
    PROVE  TypeOK' /\ ThreadsKnown'
<1>1. TypeOK'
  BY CpuFacts DEF TypeOK, ThreadsKnown, Poll, Goto, Return, CallPlaces,
    cpuVars, coreVars, threadVars, callVars, appVars, directorVars
<1>2. ThreadsKnown'
  BY CpuFacts DEF TypeOK, ThreadsKnown, Poll, Goto, Return, cpuVars,
    coreVars, threadVars, callVars, appVars, directorVars
<1> QED
  BY <1>1, <1>2

LEMMA FillType ==
    ASSUME TypeOK, ThreadsKnown, NEW d \in Directors, Fill(d)
    PROVE  TypeOK' /\ ThreadsKnown'
<1>1. TypeOK'
  BY CpuFacts DEF TypeOK, ThreadsKnown, Fill, Goto, CallPlaces, cpuVars,
    coreVars, threadVars, callVars, appVars, directorVars
<1>2. ThreadsKnown'
  BY CpuFacts DEF TypeOK, ThreadsKnown, Fill, Goto, cpuVars, coreVars,
    threadVars, callVars, appVars, directorVars
<1> QED
  BY <1>1, <1>2

LEMMA DeclareType ==
    ASSUME TypeOK, ThreadsKnown, NEW d \in Directors, Declare(d)
    PROVE  TypeOK' /\ ThreadsKnown'
<1>1. TypeOK'
  BY CpuFacts DEF TypeOK, ThreadsKnown, Declare, Goto, Return, CallPlaces,
    CpuStates, Outcomes, cpuVars, coreVars, threadVars, callVars, appVars,
    directorVars
<1>2. ThreadsKnown'
  BY CpuFacts DEF TypeOK, ThreadsKnown, Declare, Goto, Return, cpuVars,
    coreVars, threadVars, callVars, appVars, directorVars
<1> QED
  BY <1>1, <1>2

LEMMA DestroyIdleType ==
    ASSUME TypeOK, ThreadsKnown, NEW d \in Directors, DestroyIdle(d)
    PROVE  TypeOK' /\ ThreadsKnown'
<1>1. TypeOK'
  BY CpuFacts DEF TypeOK, ThreadsKnown, DestroyIdle, Goto, Return,
    ReturnEnded, CallPlaces, cpuVars, coreVars, threadVars, callVars,
    appVars, directorVars
<1>2. ThreadsKnown'
  BY CpuFacts DEF TypeOK, ThreadsKnown, DestroyIdle, Goto, Return,
    ReturnEnded, cpuVars, coreVars, threadVars, callVars, appVars,
    directorVars
<1> QED
  BY <1>1, <1>2

LEMMA DestroyErrorType ==
    ASSUME TypeOK, ThreadsKnown, NEW d \in Directors, DestroyError(d)
    PROVE  TypeOK' /\ ThreadsKnown'
<1>1. TypeOK'
  BY CpuFacts DEF TypeOK, ThreadsKnown, DestroyError, Goto, Return,
    ReturnEnded, CallPlaces, cpuVars, coreVars, threadVars, callVars,
    appVars, directorVars
<1>2. ThreadsKnown'
  BY CpuFacts DEF TypeOK, ThreadsKnown, DestroyError, Goto, Return,
    ReturnEnded, cpuVars, coreVars, threadVars, callVars, appVars,
    directorVars
<1> QED
  BY <1>1, <1>2

LEMMA KillType ==
    ASSUME TypeOK, ThreadsKnown, NEW d \in Directors, Kill(d)
    PROVE  TypeOK' /\ ThreadsKnown'
<1>1. TypeOK'
  BY CpuFacts DEF TypeOK, ThreadsKnown, Kill, Goto, Fields, CallPlaces,
    cpuVars, coreVars, threadVars, callVars, appVars, directorVars
<1>2. ThreadsKnown'
  BY CpuFacts DEF TypeOK, ThreadsKnown, Kill, Goto, Fields, cpuVars,
    coreVars, threadVars, callVars, appVars, directorVars
<1> QED
  BY <1>1, <1>2

LEMMA JoinPollType ==
    ASSUME TypeOK, ThreadsKnown, NEW d \in Directors, JoinPoll(d)
    PROVE  TypeOK' /\ ThreadsKnown'
<1>1. TypeOK'
  BY CpuFacts DEF TypeOK, ThreadsKnown, JoinPoll, Goto, Return, ReturnEnded,
    CallPlaces, cpuVars, coreVars, threadVars, callVars, appVars,
    directorVars
<1>2. ThreadsKnown'
  BY CpuFacts DEF TypeOK, ThreadsKnown, JoinPoll, Goto, Return, ReturnEnded,
    cpuVars, coreVars, threadVars, callVars, appVars, directorVars
<1> QED
  BY <1>1, <1>2

-----------------------------------------------------------------------------
(* The actions of a secondary core *)

LEMMA WakeType ==
    ASSUME TypeOK, ThreadsKnown, NEW c \in Secondary, Wake(c)
    PROVE  TypeOK' /\ ThreadsKnown'
<1>1. TypeOK'
  BY CpuFacts DEF TypeOK, ThreadsKnown, Wake, Step, CorePlaces, cpuVars,
    coreVars, threadVars, callVars, appVars, directorVars
<1>2. ThreadsKnown'
  BY CpuFacts DEF TypeOK, ThreadsKnown, Wake, Step, cpuVars, coreVars,
    threadVars, callVars, appVars, directorVars
<1> QED
  BY <1>1, <1>2

LEMMA RecvIpiType ==
    ASSUME TypeOK, ThreadsKnown, NEW c \in Secondary, RecvIpi(c)
    PROVE  TypeOK' /\ ThreadsKnown'
<1>1. TypeOK'
  BY CpuFacts DEF TypeOK, ThreadsKnown, RecvIpi, Step, SetState, CorePlaces,
    CpuStates, cpuVars, coreVars, threadVars, callVars, appVars,
    directorVars
<1>2. ThreadsKnown'
  BY CpuFacts DEF TypeOK, ThreadsKnown, RecvIpi, Step, SetState, cpuVars,
    coreVars, threadVars, callVars, appVars, directorVars
<1> QED
  BY <1>1, <1>2

LEMMA AckIpiType ==
    ASSUME TypeOK, ThreadsKnown, NEW c \in Secondary, AckIpi(c)
    PROVE  TypeOK' /\ ThreadsKnown'
<1>1. TypeOK'
  BY CpuFacts DEF TypeOK, ThreadsKnown, AckIpi, Step, CorePlaces, cpuVars,
    coreVars, threadVars, callVars, appVars, directorVars
<1>2. ThreadsKnown'
  BY CpuFacts DEF TypeOK, ThreadsKnown, AckIpi, Step, cpuVars, coreVars,
    threadVars, callVars, appVars, directorVars
<1> QED
  BY <1>1, <1>2

LEMMA ReadKindType ==
    ASSUME TypeOK, ThreadsKnown, NEW c \in Secondary, ReadKind(c)
    PROVE  TypeOK' /\ ThreadsKnown'
<1>1. TypeOK'
  BY CpuFacts DEF TypeOK, ThreadsKnown, ReadKind, Step, SetState,
    CorePlaces, CpuStates, cpuVars, coreVars, threadVars, callVars, appVars,
    directorVars
<1>2. ThreadsKnown'
  BY CpuFacts DEF TypeOK, ThreadsKnown, ReadKind, Step, SetState, cpuVars,
    coreVars, threadVars, callVars, appVars, directorVars
<1> QED
  BY <1>1, <1>2

LEMMA SetAwakeType ==
    ASSUME TypeOK, ThreadsKnown, NEW c \in Secondary, SetAwake(c)
    PROVE  TypeOK' /\ ThreadsKnown'
<1>1. TypeOK'
  BY CpuFacts DEF TypeOK, ThreadsKnown, SetAwake, Step, SetState,
    CorePlaces, CpuStates, cpuVars, coreVars, threadVars, callVars, appVars,
    directorVars
<1>2. ThreadsKnown'
  BY CpuFacts DEF TypeOK, ThreadsKnown, SetAwake, Step, SetState, cpuVars,
    coreVars, threadVars, callVars, appVars, directorVars
<1> QED
  BY <1>1, <1>2

LEMMA SeeRunningType ==
    ASSUME TypeOK, ThreadsKnown, NEW c \in Secondary, SeeRunning(c)
    PROVE  TypeOK' /\ ThreadsKnown'
<1>1. TypeOK'
  BY CpuFacts DEF TypeOK, ThreadsKnown, SeeRunning, Step, CorePlaces,
    cpuVars, coreVars, threadVars, callVars, appVars, directorVars
<1>2. ThreadsKnown'
  BY CpuFacts DEF TypeOK, ThreadsKnown, SeeRunning, Step, cpuVars, coreVars,
    threadVars, callVars, appVars, directorVars
<1> QED
  BY <1>1, <1>2

LEMMA LoadFuncType ==
    ASSUME TypeOK, ThreadsKnown, NEW c \in Secondary, LoadFunc(c)
    PROVE  TypeOK' /\ ThreadsKnown'
<1>1. TypeOK'
  BY CpuFacts DEF TypeOK, ThreadsKnown, LoadFunc, Step, CorePlaces, cpuVars,
    coreVars, threadVars, callVars, appVars, directorVars
<1>2. ThreadsKnown'
  BY CpuFacts DEF TypeOK, ThreadsKnown, LoadFunc, Step, cpuVars, coreVars,
    threadVars, callVars, appVars, directorVars
<1> QED
  BY <1>1, <1>2

LEMMA LoadArgsType ==
    ASSUME TypeOK, ThreadsKnown, NEW c \in Secondary, LoadArgs(c)
    PROVE  TypeOK' /\ ThreadsKnown'
<1>1. TypeOK'
  BY CpuFacts DEF TypeOK, ThreadsKnown, LoadArgs, Step, CorePlaces, cpuVars,
    coreVars, threadVars, callVars, appVars, directorVars
<1>2. ThreadsKnown'
  BY CpuFacts DEF TypeOK, ThreadsKnown, LoadArgs, Step, cpuVars, coreVars,
    threadVars, callVars, appVars, directorVars
<1> QED
  BY <1>1, <1>2

LEMMA SucceedType ==
    ASSUME TypeOK, ThreadsKnown, NEW c \in Secondary, Succeed(c)
    PROVE  TypeOK' /\ ThreadsKnown'
<1>1. TypeOK'
  BY CpuFacts DEF TypeOK, ThreadsKnown, Succeed, Ended, Step, SetState,
    CorePlaces, CpuStates, Outcomes, cpuVars, coreVars, threadVars,
    callVars, appVars, directorVars
<1>2. ThreadsKnown'
  BY CpuFacts DEF TypeOK, ThreadsKnown, Succeed, Ended, Step, SetState,
    cpuVars, coreVars, threadVars, callVars, appVars, directorVars
<1> QED
  BY <1>1, <1>2

LEMMA FailType ==
    ASSUME TypeOK, ThreadsKnown, NEW c \in Secondary, Fail(c)
    PROVE  TypeOK' /\ ThreadsKnown'
<1>1. TypeOK'
  BY CpuFacts DEF TypeOK, ThreadsKnown, Fail, Ended, Step, SetState,
    CorePlaces, CpuStates, Outcomes, cpuVars, coreVars, threadVars,
    callVars, appVars, directorVars
<1>2. ThreadsKnown'
  BY CpuFacts DEF TypeOK, ThreadsKnown, Fail, Ended, Step, SetState,
    cpuVars, coreVars, threadVars, callVars, appVars, directorVars
<1> QED
  BY <1>1, <1>2

-----------------------------------------------------------------------------
LEMMA TypeUnchanged ==
    ASSUME TypeOK, ThreadsKnown, UNCHANGED vars
    PROVE  TypeOK' /\ ThreadsKnown'
<1>1. UNCHANGED <<state, ipi_kind, entry_func, args, thread, msip, pc, run_func,
                  run_args, cpu_id, desc, dpc, op, thr, tgt, pending, ret, live,
                  outcome>>
  BY DEF vars, cpuVars, coreVars, threadVars, directorVars, callVars, appVars
<1>2. TypeOK'
  BY <1>1 DEF TypeOK
<1>3. ThreadsKnown'
  BY <1>1, ThreadsKnownFrame
<1> QED
  BY <1>2, <1>3

LEMMA TypeInit == Init => TypeOK /\ ThreadsKnown
<1> SUFFICES ASSUME Init PROVE TypeOK /\ ThreadsKnown
  OBVIOUS
<1>1. TypeOK
  <2>1. /\ state \in [Cpus -> CpuStates] /\ pc \in [Cpus -> CorePlaces]
        /\ ipi_kind \in [Cpus -> {"NULL", "CREATE", "KILL"}]
        /\ entry_func \in [Cpus -> Threads \cup {NULL}]
        /\ args \in [Cpus -> Threads \cup {NULL}]
        /\ thread \in [Cpus -> Threads \cup {NULL}]
    BY DEF Init, CpuStates, CorePlaces
  <2>2. /\ msip \in [Cpus -> {0, 1}]
        /\ run_func \in [Cpus -> Threads \cup {NULL}]
        /\ run_args \in [Cpus -> Threads \cup {NULL}]
    BY DEF Init
  <2>3. /\ cpu_id \in [Threads -> Cpus \cup {NULL}]
        /\ desc \in [Threads -> Cpus \cup {NULL}]
        /\ live \in SUBSET Threads /\ outcome \in [Threads -> Outcomes]
    BY CpuFacts DEF Init, Outcomes
  <2>4. /\ dpc \in [Directors -> CallPlaces]
        /\ op \in [Directors -> Ops \cup {NULL}]
        /\ thr \in [Directors -> Threads \cup {NULL}]
        /\ tgt \in [Directors -> Cpus] /\ pending \in [Directors -> SUBSET Fields]
        /\ ret \in [Directors -> {NULL, 0, -1, -2}]
    BY CpuFacts DEF Init, CallPlaces
  <2> QED
    BY <2>1, <2>2, <2>3, <2>4 DEF TypeOK
<1>2. ThreadsKnown
  BY DEF Init, ThreadsKnown
<1> QED
  BY <1>1, <1>2

LEMMA TypeNext ==
    ASSUME TypeOK, ThreadsKnown, [Next]_vars
    PROVE  TypeOK' /\ ThreadsKnown'
<1>1. ASSUME NEW d \in Directors, Application(d)
      PROVE  TypeOK' /\ ThreadsKnown'
  BY <1>1, CreateOnType, CreateAnywhereType, DestroyType, JoinType
     DEF Application
<1>2. ASSUME NEW d \in Directors, Director(d)
      PROVE  TypeOK' /\ ThreadsKnown'
  BY <1>2, ScanType, CheckType, WriteType, CommitType, SendIpiType, PollType,
     FillType, DeclareType, DestroyIdleType, DestroyErrorType, KillType,
     JoinPollType DEF Director
<1>3. ASSUME NEW c \in Secondary, Startup(c)
      PROVE  TypeOK' /\ ThreadsKnown'
  BY <1>3, WakeType, RecvIpiType, AckIpiType, ReadKindType, SetAwakeType,
     SeeRunningType, LoadFuncType, LoadArgsType DEF Startup
<1>4. ASSUME NEW c \in Secondary, Worker(c)
      PROVE  TypeOK' /\ ThreadsKnown'
  BY <1>4, SucceedType, FailType DEF Worker
<1>5. CASE UNCHANGED vars
  BY <1>5, TypeUnchanged
<1> QED
  BY <1>1, <1>2, <1>3, <1>4, <1>5 DEF Next

(* Every variable keeps its type, whatever cores are directors and however
   their calls interleave: a call always works on a thread_t, its target is
   always a core (mp_get_free_cpu() ends at the last one), and a thread that
   was created has a core. *)
THEOREM ThreadsType == Spec => [](TypeOK /\ ThreadsKnown)
  BY TypeInit, TypeNext, PTL DEF Spec

-----------------------------------------------------------------------------

(* A conjunct holds after a step that changes none of its variables. *)
LEMMA CoreZeroRunsFrame ==
    ASSUME CoreZeroRuns, UNCHANGED <<state, pc, cpu_id, desc, dpc, tgt>>
    PROVE  CoreZeroRuns'
BY DEF CoreZeroRuns

LEMMA CoreStateAgreesFrame ==
    ASSUME CoreStateAgrees, UNCHANGED <<state, pc>>
    PROVE  CoreStateAgrees'
BY DEF CoreStateAgrees

LEMMA CallAgreesFrame ==
    ASSUME CallAgrees, UNCHANGED <<desc, dpc, op, thr, tgt, pending, live>>
    PROVE  CallAgrees'
BY DEF CallAgrees

LEMMA TargetReservedFrame ==
    ASSUME TargetReserved, UNCHANGED <<state, dpc, op, tgt>>
    PROVE  TargetReserved'
BY DEF TargetReserved

LEMMA ArgumentsWrittenFrame ==
    ASSUME ArgumentsWritten, UNCHANGED <<entry_func, args, thread, dpc, op, thr, tgt, pending>>
    PROVE  ArgumentsWritten'
BY DEF ArgumentsWritten

LEMMA RunningConsistentFrame ==
    ASSUME RunningConsistent, UNCHANGED <<state, entry_func, args, thread, pc, run_func, run_args, desc, live, outcome>>
    PROVE  RunningConsistent'
BY DEF RunningConsistent

LEMMA OutcomeKnownFrame ==
    ASSUME OutcomeKnown, UNCHANGED <<state, thread, desc, live, outcome>>
    PROVE  OutcomeKnown'
BY DEF OutcomeKnown

-----------------------------------------------------------------------------
(* The actions of a director *)

LEMMA CreateOnInv ==
    ASSUME IInv, NEW d \in Directors, NEW t \in Threads, CreateOn(d, t), \A e \in Directors : e = d
    PROVE  IInv'
<1>1. /\ t \notin live
      /\ cpu_id[t] # NULL
      /\ dpc[d] = "app"
      /\ op' = [op EXCEPT ![d] = "create"]
      /\ thr' = [thr EXCEPT ![d] = t]
      /\ tgt' = [tgt EXCEPT ![d] = cpu_id[t]]
      /\ ret' = [ret EXCEPT ![d] = NULL]
      /\ dpc' = [dpc EXCEPT ![d] = "check"]
  BY DEF CreateOn, Call, Goto
<1>2. UNCHANGED <<state, ipi_kind, entry_func, args, thread, msip,
               pc, run_func, run_args, cpu_id, desc, pending, live,
               outcome>>
  BY DEF CreateOn, Call, Goto, cpuVars, coreVars, threadVars, callVars,
    appVars, directorVars
<1>3. /\ ThreadsKnown /\ CoreZeroRuns /\ CoreStateAgrees /\ CallAgrees
      /\ TargetReserved /\ ArgumentsWritten /\ RunningConsistent /\ OutcomeKnown
  BY DEF IInv
<1>4. /\ state \in [Cpus -> CpuStates]
      /\ thread \in [Cpus -> Threads \cup {NULL}]
      /\ desc \in [Threads -> Cpus \cup {NULL}]
      /\ dpc \in [Directors -> CallPlaces]
      /\ op \in [Directors -> Ops \cup {NULL}]
      /\ thr \in [Directors -> Threads \cup {NULL}]
      /\ tgt \in [Directors -> Cpus]
  BY DEF IInv, TypeOK
<1>5. TypeOK' /\ ThreadsKnown'
  BY CreateOnType DEF IInv
<1>6. CoreZeroRuns'
  BY <1>1, <1>2, <1>3, <1>4, CpuFacts DEF CoreZeroRuns
<1>7. CallAgrees'
  BY <1>1, <1>2, <1>3, <1>4, CpuFacts DEF CallAgrees
<1>8. TargetReserved'
  BY <1>1, <1>2, <1>3, <1>4, CpuFacts DEF TargetReserved
<1>9. ArgumentsWritten'
  BY <1>1, <1>2, <1>3, <1>4, CpuFacts DEF ArgumentsWritten
<1>10. CoreStateAgrees' /\ RunningConsistent' /\ OutcomeKnown'
  BY <1>2, <1>3, CoreStateAgreesFrame, RunningConsistentFrame,
    OutcomeKnownFrame
<1> QED
  BY <1>5, <1>6, <1>7, <1>8, <1>9, <1>10 DEF IInv

LEMMA CreateAnywhereInv ==
    ASSUME IInv, NEW d \in Directors, NEW t \in Threads, CreateAnywhere(d, t), \A e \in Directors : e = d
    PROVE  IInv'
<1>1. /\ t \notin live
      /\ dpc[d] = "app"
      /\ op' = [op EXCEPT ![d] = "create"]
      /\ thr' = [thr EXCEPT ![d] = t]
      /\ tgt' = [tgt EXCEPT ![d] = 0]
      /\ ret' = [ret EXCEPT ![d] = NULL]
      /\ dpc' = [dpc EXCEPT ![d] = "scan"]
  BY DEF CreateAnywhere, Call, Goto
<1>2. UNCHANGED <<state, ipi_kind, entry_func, args, thread, msip,
               pc, run_func, run_args, cpu_id, desc, pending, live,
               outcome>>
  BY DEF CreateAnywhere, Call, Goto, cpuVars, coreVars, threadVars,
    callVars, appVars, directorVars
<1>3. /\ ThreadsKnown /\ CoreZeroRuns /\ CoreStateAgrees /\ CallAgrees
      /\ TargetReserved /\ ArgumentsWritten /\ RunningConsistent /\ OutcomeKnown
  BY DEF IInv
<1>4. /\ state \in [Cpus -> CpuStates]
      /\ thread \in [Cpus -> Threads \cup {NULL}]
      /\ desc \in [Threads -> Cpus \cup {NULL}]
      /\ dpc \in [Directors -> CallPlaces]
      /\ op \in [Directors -> Ops \cup {NULL}]
      /\ thr \in [Directors -> Threads \cup {NULL}]
      /\ tgt \in [Directors -> Cpus]
  BY DEF IInv, TypeOK
<1>5. TypeOK' /\ ThreadsKnown'
  BY CreateAnywhereType DEF IInv
<1>6. CoreZeroRuns'
  BY <1>1, <1>2, <1>3, <1>4, CpuFacts DEF CoreZeroRuns
<1>7. CallAgrees'
  BY <1>1, <1>2, <1>3, <1>4, CpuFacts DEF CallAgrees
<1>8. TargetReserved'
  BY <1>1, <1>2, <1>3, <1>4, CpuFacts DEF TargetReserved
<1>9. ArgumentsWritten'
  BY <1>1, <1>2, <1>3, <1>4, CpuFacts DEF ArgumentsWritten
<1>10. CoreStateAgrees' /\ RunningConsistent' /\ OutcomeKnown'
  BY <1>2, <1>3, CoreStateAgreesFrame, RunningConsistentFrame,
    OutcomeKnownFrame
<1> QED
  BY <1>5, <1>6, <1>7, <1>8, <1>9, <1>10 DEF IInv

LEMMA DestroyInv ==
    ASSUME IInv, NEW d \in Directors, NEW t \in Threads, Destroy(d, t), \A e \in Directors : e = d
    PROVE  IInv'
<1>1. /\ t \in live
      /\ dpc[d] = "app"
      /\ op' = [op EXCEPT ![d] = "destroy"]
      /\ thr' = [thr EXCEPT ![d] = t]
      /\ tgt' = [tgt EXCEPT ![d] = desc[t]]
      /\ ret' = [ret EXCEPT ![d] = NULL]
      /\ dpc' = [dpc EXCEPT ![d] = "idle?"]
  BY DEF Destroy, Call, Goto
<1>2. UNCHANGED <<state, ipi_kind, entry_func, args, thread, msip,
               pc, run_func, run_args, cpu_id, desc, pending, live,
               outcome>>
  BY DEF Destroy, Call, Goto, cpuVars, coreVars, threadVars, callVars,
    appVars, directorVars
<1>3. /\ ThreadsKnown /\ CoreZeroRuns /\ CoreStateAgrees /\ CallAgrees
      /\ TargetReserved /\ ArgumentsWritten /\ RunningConsistent /\ OutcomeKnown
  BY DEF IInv
<1>4. /\ state \in [Cpus -> CpuStates]
      /\ thread \in [Cpus -> Threads \cup {NULL}]
      /\ desc \in [Threads -> Cpus \cup {NULL}]
      /\ dpc \in [Directors -> CallPlaces]
      /\ op \in [Directors -> Ops \cup {NULL}]
      /\ thr \in [Directors -> Threads \cup {NULL}]
      /\ tgt \in [Directors -> Cpus]
  BY DEF IInv, TypeOK
<1>5. TypeOK' /\ ThreadsKnown'
  BY DestroyType DEF IInv
<1>6. CoreZeroRuns'
  BY <1>1, <1>2, <1>3, <1>4, CpuFacts DEF CoreZeroRuns
<1>7. CallAgrees'
  BY <1>1, <1>2, <1>3, <1>4, CpuFacts DEF CallAgrees
<1>8. TargetReserved'
  BY <1>1, <1>2, <1>3, <1>4, CpuFacts DEF TargetReserved
<1>9. ArgumentsWritten'
  BY <1>1, <1>2, <1>3, <1>4, CpuFacts DEF ArgumentsWritten
<1>10. CoreStateAgrees' /\ RunningConsistent' /\ OutcomeKnown'
  BY <1>2, <1>3, CoreStateAgreesFrame, RunningConsistentFrame,
    OutcomeKnownFrame
<1> QED
  BY <1>5, <1>6, <1>7, <1>8, <1>9, <1>10 DEF IInv

LEMMA JoinInv ==
    ASSUME IInv, NEW d \in Directors, NEW t \in Threads, Join(d, t), \A e \in Directors : e = d
    PROVE  IInv'
<1>1. /\ t \in live
      /\ dpc[d] = "app"
      /\ op' = [op EXCEPT ![d] = "join"]
      /\ thr' = [thr EXCEPT ![d] = t]
      /\ tgt' = [tgt EXCEPT ![d] = desc[t]]
      /\ ret' = [ret EXCEPT ![d] = NULL]
      /\ dpc' = [dpc EXCEPT ![d] = "join"]
  BY DEF Join, Call, Goto
<1>2. UNCHANGED <<state, ipi_kind, entry_func, args, thread, msip,
               pc, run_func, run_args, cpu_id, desc, pending, live,
               outcome>>
  BY DEF Join, Call, Goto, cpuVars, coreVars, threadVars, callVars, appVars,
    directorVars
<1>3. /\ ThreadsKnown /\ CoreZeroRuns /\ CoreStateAgrees /\ CallAgrees
      /\ TargetReserved /\ ArgumentsWritten /\ RunningConsistent /\ OutcomeKnown
  BY DEF IInv
<1>4. /\ state \in [Cpus -> CpuStates]
      /\ thread \in [Cpus -> Threads \cup {NULL}]
      /\ desc \in [Threads -> Cpus \cup {NULL}]
      /\ dpc \in [Directors -> CallPlaces]
      /\ op \in [Directors -> Ops \cup {NULL}]
      /\ thr \in [Directors -> Threads \cup {NULL}]
      /\ tgt \in [Directors -> Cpus]
  BY DEF IInv, TypeOK
<1>5. TypeOK' /\ ThreadsKnown'
  BY JoinType DEF IInv
<1>6. CoreZeroRuns'
  BY <1>1, <1>2, <1>3, <1>4, CpuFacts DEF CoreZeroRuns
<1>7. CallAgrees'
  BY <1>1, <1>2, <1>3, <1>4, CpuFacts DEF CallAgrees
<1>8. TargetReserved'
  BY <1>1, <1>2, <1>3, <1>4, CpuFacts DEF TargetReserved
<1>9. ArgumentsWritten'
  BY <1>1, <1>2, <1>3, <1>4, CpuFacts DEF ArgumentsWritten
<1>10. CoreStateAgrees' /\ RunningConsistent' /\ OutcomeKnown'
  BY <1>2, <1>3, CoreStateAgreesFrame, RunningConsistentFrame,
    OutcomeKnownFrame
<1> QED
  BY <1>5, <1>6, <1>7, <1>8, <1>9, <1>10 DEF IInv

LEMMA ScanInv ==
    ASSUME IInv, NEW d \in Directors, Scan(d), \A e \in Directors : e = d
    PROVE  IInv'
<1>1. /\ dpc[d] = "scan"
      /\ \/ dpc' = [dpc EXCEPT ![d] = "check"] /\ state[tgt[d]] = "IDLE" /\ UNCHANGED <<tgt, ret>>
         \/ tgt' = [tgt EXCEPT ![d] = @ + 1] /\ tgt[d] + 1 < NCPUS /\ UNCHANGED <<dpc, ret>>
         \/ dpc' = [dpc EXCEPT ![d] = "app"] /\ ret' = [ret EXCEPT ![d] = -1] /\ UNCHANGED tgt
  BY DEF Scan, Goto, Return
<1>2. UNCHANGED <<state, ipi_kind, entry_func, args, thread, msip,
               pc, run_func, run_args, cpu_id, desc, op, thr, pending, live,
               outcome>>
  BY DEF Scan, Goto, Return, cpuVars, coreVars, threadVars, callVars,
    appVars, directorVars
<1>3. /\ ThreadsKnown /\ CoreZeroRuns /\ CoreStateAgrees /\ CallAgrees
      /\ TargetReserved /\ ArgumentsWritten /\ RunningConsistent /\ OutcomeKnown
  BY DEF IInv
<1>4. /\ state \in [Cpus -> CpuStates]
      /\ thread \in [Cpus -> Threads \cup {NULL}]
      /\ desc \in [Threads -> Cpus \cup {NULL}]
      /\ dpc \in [Directors -> CallPlaces]
      /\ thr \in [Directors -> Threads \cup {NULL}]
      /\ tgt \in [Directors -> Cpus]
  BY DEF IInv, TypeOK
<1>5. TypeOK' /\ ThreadsKnown'
  BY ScanType DEF IInv
<1>6. CoreZeroRuns'
  BY <1>1, <1>2, <1>3, <1>4, CpuFacts DEF CoreZeroRuns
<1>7. CallAgrees'
  BY <1>1, <1>2, <1>3, <1>4, CpuFacts DEF CallAgrees
<1>8. TargetReserved'
  BY <1>1, <1>2, <1>3, <1>4, CpuFacts DEF TargetReserved
<1>9. ArgumentsWritten'
  BY <1>1, <1>2, <1>3, <1>4, CpuFacts DEF ArgumentsWritten
<1>10. CoreStateAgrees' /\ RunningConsistent' /\ OutcomeKnown'
  BY <1>2, <1>3, CoreStateAgreesFrame, RunningConsistentFrame,
    OutcomeKnownFrame
<1> QED
  BY <1>5, <1>6, <1>7, <1>8, <1>9, <1>10 DEF IInv

LEMMA CheckInv ==
    ASSUME IInv, NEW d \in Directors, Check(d), \A e \in Directors : e = d
    PROVE  IInv'
<1>1. /\ dpc[d] = "check"
      /\ \/ dpc' = [dpc EXCEPT ![d] = "write"] /\ state[tgt[d]] = "IDLE" /\ UNCHANGED ret
         \/ dpc' = [dpc EXCEPT ![d] = "app"] /\ ret' = [ret EXCEPT ![d] = -1]
  BY DEF Check, Goto, Return
<1>2. UNCHANGED <<state, ipi_kind, entry_func, args, thread, msip,
               pc, run_func, run_args, cpu_id, desc, op, thr, tgt, pending,
               live, outcome>>
  BY DEF Check, Goto, Return, cpuVars, coreVars, threadVars, callVars,
    appVars, directorVars
<1>3. /\ ThreadsKnown /\ CoreZeroRuns /\ CoreStateAgrees /\ CallAgrees
      /\ TargetReserved /\ ArgumentsWritten /\ RunningConsistent /\ OutcomeKnown
  BY DEF IInv
<1>4. /\ state \in [Cpus -> CpuStates]
      /\ thread \in [Cpus -> Threads \cup {NULL}]
      /\ desc \in [Threads -> Cpus \cup {NULL}]
      /\ dpc \in [Directors -> CallPlaces]
      /\ thr \in [Directors -> Threads \cup {NULL}]
      /\ tgt \in [Directors -> Cpus]
  BY DEF IInv, TypeOK
<1>5. TypeOK' /\ ThreadsKnown'
  BY CheckType DEF IInv
<1>6. CoreZeroRuns'
  BY <1>1, <1>2, <1>3, <1>4, CpuFacts DEF CoreZeroRuns
<1>7. CallAgrees'
  BY <1>1, <1>2, <1>3, <1>4, CpuFacts DEF CallAgrees
<1>8. TargetReserved'
  BY <1>1, <1>2, <1>3, <1>4, CpuFacts DEF TargetReserved
<1>9. ArgumentsWritten'
  BY <1>1, <1>2, <1>3, <1>4, CpuFacts DEF ArgumentsWritten
<1>10. CoreStateAgrees' /\ RunningConsistent' /\ OutcomeKnown'
  BY <1>2, <1>3, CoreStateAgreesFrame, RunningConsistentFrame,
    OutcomeKnownFrame
<1> QED
  BY <1>5, <1>6, <1>7, <1>8, <1>9, <1>10 DEF IInv

LEMMA WriteInv ==
    ASSUME IInv, NEW d \in Directors, Write(d), \A e \in Directors : e = d
    PROVE  IInv'
<1>1. /\ dpc[d] = "write"
      /\ pending' = [pending EXCEPT ![d] = Fields]
      /\ dpc' = [dpc EXCEPT ![d] = "ipi"]
  BY DEF Write, Goto
<1>2. UNCHANGED <<state, ipi_kind, entry_func, args, thread, msip,
               pc, run_func, run_args, cpu_id, desc, op, thr, tgt, ret,
               live, outcome>>
  BY DEF Write, Goto, cpuVars, coreVars, threadVars, callVars, appVars,
    directorVars
<1>3. /\ ThreadsKnown /\ CoreZeroRuns /\ CoreStateAgrees /\ CallAgrees
      /\ TargetReserved /\ ArgumentsWritten /\ RunningConsistent /\ OutcomeKnown
  BY DEF IInv
<1>4. /\ state \in [Cpus -> CpuStates]
      /\ thread \in [Cpus -> Threads \cup {NULL}]
      /\ desc \in [Threads -> Cpus \cup {NULL}]
      /\ dpc \in [Directors -> CallPlaces]
      /\ thr \in [Directors -> Threads \cup {NULL}]
      /\ tgt \in [Directors -> Cpus]
      /\ pending \in [Directors -> SUBSET Fields]
  BY DEF IInv, TypeOK
<1>5. TypeOK' /\ ThreadsKnown'
  BY WriteType DEF IInv
<1>6. CoreZeroRuns'
  BY <1>1, <1>2, <1>3, <1>4, CpuFacts DEF CoreZeroRuns
<1>7. CallAgrees'
  BY <1>1, <1>2, <1>3, <1>4, CpuFacts DEF CallAgrees
<1>8. TargetReserved'
  BY <1>1, <1>2, <1>3, <1>4, CpuFacts DEF TargetReserved
<1>9. ArgumentsWritten'
  BY <1>1, <1>2, <1>3, <1>4, CpuFacts DEF ArgumentsWritten, Fields
<1>10. CoreStateAgrees' /\ RunningConsistent' /\ OutcomeKnown'
  BY <1>2, <1>3, CoreStateAgreesFrame, RunningConsistentFrame,
    OutcomeKnownFrame
<1> QED
  BY <1>5, <1>6, <1>7, <1>8, <1>9, <1>10 DEF IInv

LEMMA CommitInv ==
    ASSUME IInv, NEW d \in Directors, NEW f \in Fields, Commit(d, f), \A e \in Directors : e = d
    PROVE  IInv'
<1>1. /\ f \in pending[d]
      /\ f \in Fields
      /\ pending' = [pending EXCEPT ![d] = @ \ {f}]
      /\ entry_func' = IF f = "entry_func" THEN [entry_func EXCEPT ![tgt[d]] = thr[d]] ELSE entry_func
      /\ args' = IF f = "args" THEN [args EXCEPT ![tgt[d]] = thr[d]] ELSE args
      /\ thread' = IF f = "thread" THEN [thread EXCEPT ![tgt[d]] = thr[d]] ELSE thread
      /\ ipi_kind' = IF f = "ipi_kind"
                      THEN [ipi_kind EXCEPT ![tgt[d]] =
                              IF op[d] = "create" THEN "CREATE" ELSE "KILL"]
                      ELSE ipi_kind
  BY DEF Commit
<1>2. UNCHANGED <<state, msip, pc, run_func, run_args, cpu_id, desc,
               dpc, op, thr, tgt, ret, live, outcome>>
  BY DEF Commit, cpuVars, coreVars, threadVars, callVars, appVars,
    directorVars
<1>3. /\ ThreadsKnown /\ CoreZeroRuns /\ CoreStateAgrees /\ CallAgrees
      /\ TargetReserved /\ ArgumentsWritten /\ RunningConsistent /\ OutcomeKnown
  BY DEF IInv
<1>4. /\ state \in [Cpus -> CpuStates]
      /\ entry_func \in [Cpus -> Threads \cup {NULL}]
      /\ args \in [Cpus -> Threads \cup {NULL}]
      /\ thread \in [Cpus -> Threads \cup {NULL}]
      /\ desc \in [Threads -> Cpus \cup {NULL}]
      /\ thr \in [Directors -> Threads \cup {NULL}]
      /\ tgt \in [Directors -> Cpus]
      /\ pending \in [Directors -> SUBSET Fields]
  BY DEF IInv, TypeOK
<1>5. TypeOK' /\ ThreadsKnown'
  BY CommitType DEF IInv
<1>6. /\ dpc[d] = "ipi"
      /\ op[d] = "create" => state[tgt[d]] # "RUNNING"
      /\ op[d] # "create" => f = "ipi_kind"
  BY <1>1, <1>2, <1>3, <1>4, CpuFacts DEF CallAgrees, TargetReserved
<1>7. CallAgrees'
  BY <1>1, <1>2, <1>3, <1>4, <1>6, CpuFacts DEF CallAgrees
<1>8. ArgumentsWritten'
  BY <1>1, <1>2, <1>3, <1>4, <1>6, CpuFacts DEF ArgumentsWritten
<1>9. RunningConsistent'
  BY <1>1, <1>2, <1>3, <1>4, <1>6, CpuFacts DEF RunningConsistent
<1>10. OutcomeKnown'
  BY <1>1, <1>2, <1>3, <1>4, <1>6, CpuFacts DEF OutcomeKnown
<1>11. CoreZeroRuns' /\ CoreStateAgrees' /\ TargetReserved'
  BY <1>2, <1>3, CoreZeroRunsFrame, CoreStateAgreesFrame,
    TargetReservedFrame
<1> QED
  BY <1>5, <1>7, <1>8, <1>9, <1>10, <1>11 DEF IInv

LEMMA SendIpiInv ==
    ASSUME IInv, NEW d \in Directors, SendIpi(d), \A e \in Directors : e = d
    PROVE  IInv'
<1>1. /\ dpc[d] = "ipi"
      /\ pending[d] = {}
      /\ msip' = [msip EXCEPT ![tgt[d]] = 1]
      /\ dpc' = [dpc EXCEPT ![d] = IF op[d] = "create" THEN "poll" ELSE "join"]
  BY DEF SendIpi, Goto
<1>2. UNCHANGED <<state, ipi_kind, entry_func, args, thread, pc,
               run_func, run_args, cpu_id, desc, op, thr, tgt, pending, ret,
               live, outcome>>
  BY DEF SendIpi, Goto, cpuVars, coreVars, threadVars, callVars, appVars,
    directorVars
<1>3. /\ ThreadsKnown /\ CoreZeroRuns /\ CoreStateAgrees /\ CallAgrees
      /\ TargetReserved /\ ArgumentsWritten /\ RunningConsistent /\ OutcomeKnown
  BY DEF IInv
<1>4. /\ state \in [Cpus -> CpuStates]
      /\ thread \in [Cpus -> Threads \cup {NULL}]
      /\ desc \in [Threads -> Cpus \cup {NULL}]
      /\ dpc \in [Directors -> CallPlaces]
      /\ thr \in [Directors -> Threads \cup {NULL}]
      /\ tgt \in [Directors -> Cpus]
  BY DEF IInv, TypeOK
<1>5. TypeOK' /\ ThreadsKnown'
  BY SendIpiType DEF IInv
<1>6. CoreZeroRuns'
  BY <1>1, <1>2, <1>3, <1>4, CpuFacts DEF CoreZeroRuns
<1>7. CallAgrees'
  BY <1>1, <1>2, <1>3, <1>4, CpuFacts DEF CallAgrees
<1>8. TargetReserved'
  BY <1>1, <1>2, <1>3, <1>4, CpuFacts DEF TargetReserved
<1>9. ArgumentsWritten'
  BY <1>1, <1>2, <1>3, <1>4, CpuFacts DEF ArgumentsWritten
<1>10. CoreStateAgrees' /\ RunningConsistent' /\ OutcomeKnown'
  BY <1>2, <1>3, CoreStateAgreesFrame, RunningConsistentFrame,
    OutcomeKnownFrame
<1> QED
  BY <1>5, <1>6, <1>7, <1>8, <1>9, <1>10 DEF IInv

LEMMA PollInv ==
    ASSUME IInv, NEW d \in Directors, Poll(d), \A e \in Directors : e = d
    PROVE  IInv'
<1>1. /\ dpc[d] = "poll"
      /\ \/ dpc' = [dpc EXCEPT ![d] = "fill"] /\ state[tgt[d]] = "AWAKE" /\ UNCHANGED ret
         \/ dpc' = [dpc EXCEPT ![d] = "app"] /\ \E r \in {-1, -2} : ret' = [ret EXCEPT ![d] = r]
  BY DEF Poll, Goto, Return
<1>2. UNCHANGED <<state, ipi_kind, entry_func, args, thread, msip,
               pc, run_func, run_args, cpu_id, desc, op, thr, tgt, pending,
               live, outcome>>
  BY DEF Poll, Goto, Return, cpuVars, coreVars, threadVars, callVars,
    appVars, directorVars
<1>3. /\ ThreadsKnown /\ CoreZeroRuns /\ CoreStateAgrees /\ CallAgrees
      /\ TargetReserved /\ ArgumentsWritten /\ RunningConsistent /\ OutcomeKnown
  BY DEF IInv
<1>4. /\ state \in [Cpus -> CpuStates]
      /\ thread \in [Cpus -> Threads \cup {NULL}]
      /\ desc \in [Threads -> Cpus \cup {NULL}]
      /\ dpc \in [Directors -> CallPlaces]
      /\ thr \in [Directors -> Threads \cup {NULL}]
      /\ tgt \in [Directors -> Cpus]
  BY DEF IInv, TypeOK
<1>5. TypeOK' /\ ThreadsKnown'
  BY PollType DEF IInv
<1>6. CoreZeroRuns'
  BY <1>1, <1>2, <1>3, <1>4, CpuFacts DEF CoreZeroRuns
<1>7. CallAgrees'
  BY <1>1, <1>2, <1>3, <1>4, CpuFacts DEF CallAgrees
<1>8. TargetReserved'
  BY <1>1, <1>2, <1>3, <1>4, CpuFacts DEF TargetReserved
<1>9. ArgumentsWritten'
  BY <1>1, <1>2, <1>3, <1>4, CpuFacts DEF ArgumentsWritten
<1>10. CoreStateAgrees' /\ RunningConsistent' /\ OutcomeKnown'
  BY <1>2, <1>3, CoreStateAgreesFrame, RunningConsistentFrame,
    OutcomeKnownFrame
<1> QED
  BY <1>5, <1>6, <1>7, <1>8, <1>9, <1>10 DEF IInv

LEMMA FillInv ==
    ASSUME IInv, NEW d \in Directors, Fill(d), \A e \in Directors : e = d
    PROVE  IInv'
<1>1. /\ dpc[d] = "fill"
      /\ cpu_id' = [cpu_id EXCEPT ![thr[d]] = tgt[d]]
      /\ desc' = [desc EXCEPT ![thr[d]] = tgt[d]]
      /\ dpc' = [dpc EXCEPT ![d] = "declare"]
  BY DEF Fill, Goto
<1>2. UNCHANGED <<state, ipi_kind, entry_func, args, thread, msip,
               pc, run_func, run_args, op, thr, tgt, pending, ret, live,
               outcome>>
  BY DEF Fill, Goto, cpuVars, coreVars, threadVars, callVars, appVars,
    directorVars
<1>3. /\ ThreadsKnown /\ CoreZeroRuns /\ CoreStateAgrees /\ CallAgrees
      /\ TargetReserved /\ ArgumentsWritten /\ RunningConsistent /\ OutcomeKnown
  BY DEF IInv
<1>4. /\ state \in [Cpus -> CpuStates]
      /\ thread \in [Cpus -> Threads \cup {NULL}]
      /\ cpu_id \in [Threads -> Cpus \cup {NULL}]
      /\ desc \in [Threads -> Cpus \cup {NULL}]
      /\ dpc \in [Directors -> CallPlaces]
      /\ thr \in [Directors -> Threads \cup {NULL}]
      /\ tgt \in [Directors -> Cpus]
  BY DEF IInv, TypeOK
<1>5. TypeOK' /\ ThreadsKnown'
  BY FillType DEF IInv
<1>6. /\ thr[d] \in Threads /\ thr[d] \notin live /\ outcome[thr[d]] # "running"
      /\ op[d] = "create" /\ tgt[d] # 0
  BY <1>1, <1>2, <1>3, <1>4, CpuFacts DEF CallAgrees, ThreadsKnown,
    CoreZeroRuns, OutcomeKnown
<1>7. CoreZeroRuns'
  BY <1>1, <1>2, <1>3, <1>4, <1>6, CpuFacts DEF CoreZeroRuns
<1>8. CallAgrees'
  BY <1>1, <1>2, <1>3, <1>4, <1>6, CpuFacts DEF CallAgrees
<1>9. TargetReserved'
  BY <1>1, <1>2, <1>3, <1>4, <1>6, CpuFacts DEF TargetReserved
<1>10. ArgumentsWritten'
  BY <1>1, <1>2, <1>3, <1>4, <1>6, CpuFacts DEF ArgumentsWritten
<1>11. RunningConsistent'
  BY <1>1, <1>2, <1>3, <1>4, <1>6, CpuFacts DEF RunningConsistent
<1>12. OutcomeKnown'
  BY <1>1, <1>2, <1>3, <1>4, <1>6, CpuFacts DEF OutcomeKnown
<1>13. CoreStateAgrees'
  BY <1>2, <1>3, CoreStateAgreesFrame
<1> QED
  BY <1>5, <1>7, <1>8, <1>9, <1>10, <1>11, <1>12, <1>13 DEF IInv

LEMMA DeclareInv ==
    ASSUME IInv, NEW d \in Directors, Declare(d), \A e \in Directors : e = d
    PROVE  IInv'
<1>1. /\ dpc[d] = "declare"
      /\ state' = [state EXCEPT ![tgt[d]] = "RUNNING"]
      /\ live' = live \cup {thr[d]}
      /\ outcome' = [outcome EXCEPT ![thr[d]] = "running"]
      /\ dpc' = [dpc EXCEPT ![d] = "app"]
      /\ ret' = [ret EXCEPT ![d] = 0]
  BY DEF Declare, Goto, Return
<1>2. UNCHANGED <<ipi_kind, entry_func, args, thread, msip, pc,
               run_func, run_args, cpu_id, desc, op, thr, tgt, pending>>
  BY DEF Declare, Goto, Return, cpuVars, coreVars, threadVars, callVars,
    appVars, directorVars
<1>3. /\ ThreadsKnown /\ CoreZeroRuns /\ CoreStateAgrees /\ CallAgrees
      /\ TargetReserved /\ ArgumentsWritten /\ RunningConsistent /\ OutcomeKnown
  BY DEF IInv
<1>4. /\ state \in [Cpus -> CpuStates]
      /\ thread \in [Cpus -> Threads \cup {NULL}]
      /\ desc \in [Threads -> Cpus \cup {NULL}]
      /\ dpc \in [Directors -> CallPlaces]
      /\ thr \in [Directors -> Threads \cup {NULL}]
      /\ tgt \in [Directors -> Cpus]
      /\ live \in SUBSET Threads
      /\ outcome \in [Threads -> Outcomes]
  BY DEF IInv, TypeOK
<1>5. TypeOK' /\ ThreadsKnown'
  BY DeclareType DEF IInv
<1>6. /\ tgt[d] \in Secondary /\ pc[tgt[d]] = "wait" /\ thr[d] \in Threads
      /\ thread[tgt[d]] = thr[d] /\ entry_func[tgt[d]] = thr[d]
      /\ args[tgt[d]] = thr[d] /\ desc[thr[d]] = tgt[d] /\ thr[d] \notin live
  <2>1. /\ op[d] = "create" /\ pending[d] = {}
        /\ desc[thr[d]] = tgt[d] /\ thr[d] \notin live
    BY <1>1, <1>3 DEF CallAgrees
  <2>2. thr[d] \in Threads
    BY <1>1, <1>3 DEF ThreadsKnown
  <2>3. tgt[d] \in Secondary
    BY <1>1, <1>3, <1>4, CpuFacts DEF CoreZeroRuns
  <2>4. state[tgt[d]] = "AWAKE"
    BY <1>1, <1>3 DEF TargetReserved
  <2>5. pc[tgt[d]] = "wait"
    <3>1. pc[tgt[d]] \in CorePlaces
      BY <2>3, CpuFacts DEF IInv, TypeOK
    <3> QED
      BY <1>3, <2>3, <2>4, <3>1 DEF CoreStateAgrees, CorePlaces
  <2>6. /\ thread[tgt[d]] = thr[d] /\ entry_func[tgt[d]] = thr[d]
        /\ args[tgt[d]] = thr[d]
    BY <1>1, <1>3, <2>1 DEF ArgumentsWritten
  <2> QED
    BY <2>1, <2>2, <2>3, <2>5, <2>6
<1>7. CoreZeroRuns'
  BY <1>1, <1>2, <1>3, <1>4, <1>6, CpuFacts DEF CoreZeroRuns
<1>8. CoreStateAgrees'
  BY <1>1, <1>2, <1>3, <1>4, <1>6, CpuFacts DEF CoreStateAgrees
<1>9. CallAgrees'
  BY <1>1, <1>2, <1>3, <1>4, <1>6, CpuFacts DEF CallAgrees
<1>10. TargetReserved'
  BY <1>1, <1>2, <1>3, <1>4, <1>6, CpuFacts DEF TargetReserved
<1>11. ArgumentsWritten'
  BY <1>1, <1>2, <1>3, <1>4, <1>6, CpuFacts DEF ArgumentsWritten
<1>12. RunningConsistent'
  BY <1>1, <1>2, <1>3, <1>4, <1>6, CpuFacts DEF RunningConsistent
<1>13. OutcomeKnown'
  <2> SUFFICES ASSUME NEW t \in Threads
               PROVE  /\ t \in live' => outcome'[t] # "none"
                      /\ outcome'[t] = "running" =>
                           /\ t \in live' /\ state'[desc'[t]] = "RUNNING"
                           /\ thread'[desc'[t]] = t
                      /\ t \in live' /\ outcome'[t] = "failure"
                           => state'[desc'[t]] = "ERROR"
    BY DEF OutcomeKnown
  <2>1. CASE t = thr[d]
    <3>1. outcome'[t] = "running" /\ t \in live'
      BY <1>1, <1>4, <2>1
    <3>2. state'[desc[t]] = "RUNNING"
      BY <1>1, <1>4, <1>6, <2>1
    <3> QED
      BY <1>2, <1>6, <2>1, <3>1, <3>2
  <2>2. CASE t # thr[d]
    <3>1. outcome'[t] = outcome[t] /\ (t \in live' <=> t \in live)
      BY <1>1, <1>4, <2>2
    <3>2. /\ t \in live => outcome[t] # "none"
          /\ outcome[t] = "running" => /\ t \in live /\ thread[desc[t]] = t
                                       /\ state[desc[t]] = "RUNNING"
          /\ t \in live /\ outcome[t] = "failure" => state[desc[t]] = "ERROR"
      BY <1>3 DEF OutcomeKnown
    <3>3. state[tgt[d]] = "AWAKE" /\ (t \in live => desc[t] \in Cpus)
      <4>1. state[tgt[d]] = "AWAKE"
        BY <1>1, <1>3 DEF TargetReserved
      <4>2. t \in live => desc[t] # NULL
        BY <1>3 DEF ThreadsKnown
      <4> QED
        BY <1>4, <4>1, <4>2
    <3>4. t \in live /\ state[desc[t]] \in {"RUNNING", "ERROR"}
            => state'[desc[t]] = state[desc[t]]
      BY <1>1, <1>4, <3>3
    <3> QED
      BY <1>2, <3>1, <3>2, <3>4
  <2> QED
    BY <2>1, <2>2
<1> QED
  BY <1>5, <1>7, <1>8, <1>9, <1>10, <1>11, <1>12, <1>13 DEF IInv

LEMMA DestroyIdleInv ==
    ASSUME IInv, NEW d \in Directors, DestroyIdle(d), \A e \in Directors : e = d
    PROVE  IInv'
<1>1. /\ dpc[d] = "idle?"
      /\ \/ /\ state[tgt[d]] = "IDLE" /\ live' = live \ {thr[d]}
            /\ dpc' = [dpc EXCEPT ![d] = "app"] /\ ret' = [ret EXCEPT ![d] = 0]
         \/ dpc' = [dpc EXCEPT ![d] = "error?"] /\ UNCHANGED <<ret, live>>
  BY DEF DestroyIdle, Goto, Return, ReturnEnded
<1>2. UNCHANGED <<state, ipi_kind, entry_func, args, thread, msip,
               pc, run_func, run_args, cpu_id, desc, op, thr, tgt, pending,
               outcome>>
  BY DEF DestroyIdle, Goto, Return, ReturnEnded, cpuVars, coreVars,
    threadVars, callVars, appVars, directorVars
<1>3. /\ ThreadsKnown /\ CoreZeroRuns /\ CoreStateAgrees /\ CallAgrees
      /\ TargetReserved /\ ArgumentsWritten /\ RunningConsistent /\ OutcomeKnown
  BY DEF IInv
<1>4. /\ state \in [Cpus -> CpuStates]
      /\ thread \in [Cpus -> Threads \cup {NULL}]
      /\ desc \in [Threads -> Cpus \cup {NULL}]
      /\ dpc \in [Directors -> CallPlaces]
      /\ thr \in [Directors -> Threads \cup {NULL}]
      /\ tgt \in [Directors -> Cpus]
      /\ live \in SUBSET Threads
  BY DEF IInv, TypeOK
<1>5. TypeOK' /\ ThreadsKnown'
  BY DestroyIdleType DEF IInv
<1>6. \/ live' = live
      \/ /\ live' = live \ {thr[d]}
         /\ state[tgt[d]] # "RUNNING" /\ desc[thr[d]] = tgt[d]
  BY <1>1, <1>2, <1>3, <1>4, CpuFacts DEF CallAgrees
<1>7. CoreZeroRuns'
  BY <1>1, <1>2, <1>3, <1>4, <1>6, CpuFacts DEF CoreZeroRuns
<1>8. CallAgrees'
  BY <1>1, <1>2, <1>3, <1>4, <1>6, CpuFacts DEF CallAgrees
<1>9. TargetReserved'
  BY <1>1, <1>2, <1>3, <1>4, <1>6, CpuFacts DEF TargetReserved
<1>10. ArgumentsWritten'
  BY <1>1, <1>2, <1>3, <1>4, <1>6, CpuFacts DEF ArgumentsWritten
<1>11. RunningConsistent'
  <2> SUFFICES ASSUME NEW b \in Secondary, state'[b] = "RUNNING"
               PROVE  /\ thread'[b] \in Threads
                      /\ entry_func'[b] = thread'[b] /\ args'[b] = thread'[b]
                      /\ desc'[thread'[b]] = b /\ thread'[b] \in live'
                      /\ outcome'[thread'[b]] = "running"
                      /\ pc'[b] \in {"load args", "run"}
                            => run_func'[b] = thread'[b]
                      /\ pc'[b] = "run" => run_args'[b] = thread'[b]
    BY DEF RunningConsistent
  <2>1. state[b] = "RUNNING"
    BY <1>2
  <2>2. /\ thread[b] \in Threads
        /\ entry_func[b] = thread[b] /\ args[b] = thread[b]
        /\ desc[thread[b]] = b /\ thread[b] \in live
        /\ outcome[thread[b]] = "running"
        /\ pc[b] \in {"load args", "run"} => run_func[b] = thread[b]
        /\ pc[b] = "run" => run_args[b] = thread[b]
    BY <1>3, <2>1 DEF RunningConsistent
  <2>3. thread[b] \in live'
    BY <1>6, <2>1, <2>2
  <2> QED
    BY <1>2, <2>2, <2>3
<1>12. OutcomeKnown'
  BY <1>1, <1>2, <1>3, <1>4, <1>6, CpuFacts DEF OutcomeKnown
<1>13. CoreStateAgrees'
  BY <1>2, <1>3, CoreStateAgreesFrame
<1> QED
  BY <1>5, <1>7, <1>8, <1>9, <1>10, <1>11, <1>12, <1>13 DEF IInv

LEMMA DestroyErrorInv ==
    ASSUME IInv, NEW d \in Directors, DestroyError(d), \A e \in Directors : e = d
    PROVE  IInv'
<1>1. /\ dpc[d] = "error?"
      /\ \/ /\ state[tgt[d]] = "ERROR" /\ live' = live \ {thr[d]}
            /\ dpc' = [dpc EXCEPT ![d] = "app"] /\ ret' = [ret EXCEPT ![d] = -1]
         \/ dpc' = [dpc EXCEPT ![d] = "kill"] /\ UNCHANGED <<ret, live>>
  BY DEF DestroyError, Goto, Return, ReturnEnded
<1>2. UNCHANGED <<state, ipi_kind, entry_func, args, thread, msip,
               pc, run_func, run_args, cpu_id, desc, op, thr, tgt, pending,
               outcome>>
  BY DEF DestroyError, Goto, Return, ReturnEnded, cpuVars, coreVars,
    threadVars, callVars, appVars, directorVars
<1>3. /\ ThreadsKnown /\ CoreZeroRuns /\ CoreStateAgrees /\ CallAgrees
      /\ TargetReserved /\ ArgumentsWritten /\ RunningConsistent /\ OutcomeKnown
  BY DEF IInv
<1>4. /\ state \in [Cpus -> CpuStates]
      /\ thread \in [Cpus -> Threads \cup {NULL}]
      /\ desc \in [Threads -> Cpus \cup {NULL}]
      /\ dpc \in [Directors -> CallPlaces]
      /\ thr \in [Directors -> Threads \cup {NULL}]
      /\ tgt \in [Directors -> Cpus]
      /\ live \in SUBSET Threads
  BY DEF IInv, TypeOK
<1>5. TypeOK' /\ ThreadsKnown'
  BY DestroyErrorType DEF IInv
<1>6. \/ live' = live
      \/ /\ live' = live \ {thr[d]}
         /\ state[tgt[d]] # "RUNNING" /\ desc[thr[d]] = tgt[d]
  BY <1>1, <1>2, <1>3, <1>4, CpuFacts DEF CallAgrees
<1>7. CoreZeroRuns'
  BY <1>1, <1>2, <1>3, <1>4, <1>6, CpuFacts DEF CoreZeroRuns
<1>8. CallAgrees'
  BY <1>1, <1>2, <1>3, <1>4, <1>6, CpuFacts DEF CallAgrees
<1>9. TargetReserved'
  BY <1>1, <1>2, <1>3, <1>4, <1>6, CpuFacts DEF TargetReserved
<1>10. ArgumentsWritten'
  BY <1>1, <1>2, <1>3, <1>4, <1>6, CpuFacts DEF ArgumentsWritten
<1>11. RunningConsistent'
  <2> SUFFICES ASSUME NEW b \in Secondary, state'[b] = "RUNNING"
               PROVE  /\ thread'[b] \in Threads
                      /\ entry_func'[b] = thread'[b] /\ args'[b] = thread'[b]
                      /\ desc'[thread'[b]] = b /\ thread'[b] \in live'
                      /\ outcome'[thread'[b]] = "running"
                      /\ pc'[b] \in {"load args", "run"}
                            => run_func'[b] = thread'[b]
                      /\ pc'[b] = "run" => run_args'[b] = thread'[b]
    BY DEF RunningConsistent
  <2>1. state[b] = "RUNNING"
    BY <1>2
  <2>2. /\ thread[b] \in Threads
        /\ entry_func[b] = thread[b] /\ args[b] = thread[b]
        /\ desc[thread[b]] = b /\ thread[b] \in live
        /\ outcome[thread[b]] = "running"
        /\ pc[b] \in {"load args", "run"} => run_func[b] = thread[b]
        /\ pc[b] = "run" => run_args[b] = thread[b]
    BY <1>3, <2>1 DEF RunningConsistent
  <2>3. thread[b] \in live'
    BY <1>6, <2>1, <2>2
  <2> QED
    BY <1>2, <2>2, <2>3
<1>12. OutcomeKnown'
  BY <1>1, <1>2, <1>3, <1>4, <1>6, CpuFacts DEF OutcomeKnown
<1>13. CoreStateAgrees'
  BY <1>2, <1>3, CoreStateAgreesFrame
<1> QED
  BY <1>5, <1>7, <1>8, <1>9, <1>10, <1>11, <1>12, <1>13 DEF IInv

LEMMA KillInv ==
    ASSUME IInv, NEW d \in Directors, Kill(d), \A e \in Directors : e = d
    PROVE  IInv'
<1>1. /\ dpc[d] = "kill"
      /\ pending' = [pending EXCEPT ![d] = {"ipi_kind"}]
      /\ dpc' = [dpc EXCEPT ![d] = "ipi"]
  BY DEF Kill, Goto
<1>2. UNCHANGED <<state, ipi_kind, entry_func, args, thread, msip,
               pc, run_func, run_args, cpu_id, desc, op, thr, tgt, ret,
               live, outcome>>
  BY DEF Kill, Goto, cpuVars, coreVars, threadVars, callVars, appVars,
    directorVars
<1>3. /\ ThreadsKnown /\ CoreZeroRuns /\ CoreStateAgrees /\ CallAgrees
      /\ TargetReserved /\ ArgumentsWritten /\ RunningConsistent /\ OutcomeKnown
  BY DEF IInv
<1>4. /\ state \in [Cpus -> CpuStates]
      /\ thread \in [Cpus -> Threads \cup {NULL}]
      /\ desc \in [Threads -> Cpus \cup {NULL}]
      /\ dpc \in [Directors -> CallPlaces]
      /\ thr \in [Directors -> Threads \cup {NULL}]
      /\ tgt \in [Directors -> Cpus]
      /\ pending \in [Directors -> SUBSET Fields]
  BY DEF IInv, TypeOK
<1>5. TypeOK' /\ ThreadsKnown'
  BY KillType DEF IInv
<1>6. op[d] = "destroy"
  BY <1>1, <1>2, <1>3, <1>4, CpuFacts DEF CallAgrees
<1>7. CoreZeroRuns'
  BY <1>1, <1>2, <1>3, <1>4, <1>6, CpuFacts DEF CoreZeroRuns
<1>8. CallAgrees'
  BY <1>1, <1>2, <1>3, <1>4, <1>6, CpuFacts DEF CallAgrees
<1>9. TargetReserved'
  BY <1>1, <1>2, <1>3, <1>4, <1>6, CpuFacts DEF TargetReserved
<1>10. ArgumentsWritten'
  BY <1>1, <1>2, <1>3, <1>4, <1>6, CpuFacts DEF ArgumentsWritten
<1>11. CoreStateAgrees' /\ RunningConsistent' /\ OutcomeKnown'
  BY <1>2, <1>3, CoreStateAgreesFrame, RunningConsistentFrame,
    OutcomeKnownFrame
<1> QED
  BY <1>5, <1>7, <1>8, <1>9, <1>10, <1>11 DEF IInv

LEMMA JoinPollInv ==
    ASSUME IInv, NEW d \in Directors, JoinPoll(d), \A e \in Directors : e = d
    PROVE  IInv'
<1>1. /\ dpc[d] = "join"
      /\ \/ /\ state[tgt[d]] \in {"IDLE", "ERROR"} /\ live' = live \ {thr[d]}
            /\ dpc' = [dpc EXCEPT ![d] = "app"] /\ \E r \in {0, -1} : ret' = [ret EXCEPT ![d] = r]
         \/ dpc' = [dpc EXCEPT ![d] = "app"] /\ ret' = [ret EXCEPT ![d] = -2] /\ UNCHANGED live
  BY DEF JoinPoll, Goto, Return, ReturnEnded
<1>2. UNCHANGED <<state, ipi_kind, entry_func, args, thread, msip,
               pc, run_func, run_args, cpu_id, desc, op, thr, tgt, pending,
               outcome>>
  BY DEF JoinPoll, Goto, Return, ReturnEnded, cpuVars, coreVars, threadVars,
    callVars, appVars, directorVars
<1>3. /\ ThreadsKnown /\ CoreZeroRuns /\ CoreStateAgrees /\ CallAgrees
      /\ TargetReserved /\ ArgumentsWritten /\ RunningConsistent /\ OutcomeKnown
  BY DEF IInv
<1>4. /\ state \in [Cpus -> CpuStates]
      /\ thread \in [Cpus -> Threads \cup {NULL}]
      /\ desc \in [Threads -> Cpus \cup {NULL}]
      /\ dpc \in [Directors -> CallPlaces]
      /\ thr \in [Directors -> Threads \cup {NULL}]
      /\ tgt \in [Directors -> Cpus]
      /\ live \in SUBSET Threads
  BY DEF IInv, TypeOK
<1>5. TypeOK' /\ ThreadsKnown'
  BY JoinPollType DEF IInv
<1>6. \/ live' = live
      \/ /\ live' = live \ {thr[d]}
         /\ state[tgt[d]] # "RUNNING" /\ desc[thr[d]] = tgt[d]
  BY <1>1, <1>2, <1>3, <1>4, CpuFacts DEF CallAgrees
<1>7. CoreZeroRuns'
  BY <1>1, <1>2, <1>3, <1>4, <1>6, CpuFacts DEF CoreZeroRuns
<1>8. CallAgrees'
  BY <1>1, <1>2, <1>3, <1>4, <1>6, CpuFacts DEF CallAgrees
<1>9. TargetReserved'
  BY <1>1, <1>2, <1>3, <1>4, <1>6, CpuFacts DEF TargetReserved
<1>10. ArgumentsWritten'
  BY <1>1, <1>2, <1>3, <1>4, <1>6, CpuFacts DEF ArgumentsWritten
<1>11. RunningConsistent'
  <2> SUFFICES ASSUME NEW b \in Secondary, state'[b] = "RUNNING"
               PROVE  /\ thread'[b] \in Threads
                      /\ entry_func'[b] = thread'[b] /\ args'[b] = thread'[b]
                      /\ desc'[thread'[b]] = b /\ thread'[b] \in live'
                      /\ outcome'[thread'[b]] = "running"
                      /\ pc'[b] \in {"load args", "run"}
                            => run_func'[b] = thread'[b]
                      /\ pc'[b] = "run" => run_args'[b] = thread'[b]
    BY DEF RunningConsistent
  <2>1. state[b] = "RUNNING"
    BY <1>2
  <2>2. /\ thread[b] \in Threads
        /\ entry_func[b] = thread[b] /\ args[b] = thread[b]
        /\ desc[thread[b]] = b /\ thread[b] \in live
        /\ outcome[thread[b]] = "running"
        /\ pc[b] \in {"load args", "run"} => run_func[b] = thread[b]
        /\ pc[b] = "run" => run_args[b] = thread[b]
    BY <1>3, <2>1 DEF RunningConsistent
  <2>3. thread[b] \in live'
    BY <1>6, <2>1, <2>2
  <2> QED
    BY <1>2, <2>2, <2>3
<1>12. OutcomeKnown'
  BY <1>1, <1>2, <1>3, <1>4, <1>6, CpuFacts DEF OutcomeKnown
<1>13. CoreStateAgrees'
  BY <1>2, <1>3, CoreStateAgreesFrame
<1> QED
  BY <1>5, <1>7, <1>8, <1>9, <1>10, <1>11, <1>12, <1>13 DEF IInv

-----------------------------------------------------------------------------
(* The actions of a secondary core *)

LEMMA WakeInv ==
    ASSUME IInv, NEW c \in Secondary, Wake(c)
    PROVE  IInv'
<1>1. /\ pc[c] = "wfi"
      /\ pc' = [pc EXCEPT ![c] = "recv"]
  BY DEF Wake, Step
<1>2. UNCHANGED <<state, ipi_kind, entry_func, args, thread, msip,
               run_func, run_args, cpu_id, desc, dpc, op, thr, tgt, pending,
               ret, live, outcome>>
  BY DEF Wake, Step, cpuVars, coreVars, threadVars, callVars, appVars,
    directorVars
<1>3. /\ ThreadsKnown /\ CoreZeroRuns /\ CoreStateAgrees /\ CallAgrees
      /\ TargetReserved /\ ArgumentsWritten /\ RunningConsistent /\ OutcomeKnown
  BY DEF IInv
<1>4. /\ state \in [Cpus -> CpuStates]
      /\ thread \in [Cpus -> Threads \cup {NULL}]
      /\ pc \in [Cpus -> CorePlaces]
      /\ desc \in [Threads -> Cpus \cup {NULL}]
      /\ tgt \in [Directors -> Cpus]
  BY DEF IInv, TypeOK
<1>5. TypeOK' /\ ThreadsKnown'
  BY WakeType DEF IInv
<1>6. CoreZeroRuns'
  BY <1>1, <1>2, <1>3, <1>4, CpuFacts DEF CoreZeroRuns
<1>7. CoreStateAgrees'
  BY <1>1, <1>2, <1>3, <1>4, CpuFacts DEF CoreStateAgrees
<1>8. RunningConsistent'
  BY <1>1, <1>2, <1>3, <1>4, CpuFacts DEF RunningConsistent
<1>9. CallAgrees' /\ TargetReserved' /\ ArgumentsWritten' /\ OutcomeKnown'
  BY <1>2, <1>3, CallAgreesFrame, TargetReservedFrame,
    ArgumentsWrittenFrame, OutcomeKnownFrame
<1> QED
  BY <1>5, <1>6, <1>7, <1>8, <1>9 DEF IInv

LEMMA RecvIpiInv ==
    ASSUME IInv, NEW c \in Secondary, RecvIpi(c)
    PROVE  IInv'
<1>1. /\ pc[c] = "recv"
      /\ \/ pc' = [pc EXCEPT ![c] = "ack"] /\ UNCHANGED state
         \/ /\ pc' = [pc EXCEPT ![c] = "halt"]
            /\ state' = [state EXCEPT ![c] = "ERROR"]
  BY DEF RecvIpi, Step, SetState
<1>2. UNCHANGED <<ipi_kind, entry_func, args, thread, msip, run_func,
               run_args, cpu_id, desc, dpc, op, thr, tgt, pending, ret,
               live, outcome>>
  BY DEF RecvIpi, Step, SetState, cpuVars, coreVars, threadVars, callVars,
    appVars, directorVars
<1>3. /\ ThreadsKnown /\ CoreZeroRuns /\ CoreStateAgrees /\ CallAgrees
      /\ TargetReserved /\ ArgumentsWritten /\ RunningConsistent /\ OutcomeKnown
  BY DEF IInv
<1>4. /\ state \in [Cpus -> CpuStates]
      /\ thread \in [Cpus -> Threads \cup {NULL}]
      /\ pc \in [Cpus -> CorePlaces]
      /\ desc \in [Threads -> Cpus \cup {NULL}]
      /\ tgt \in [Directors -> Cpus]
  BY DEF IInv, TypeOK
<1>5. TypeOK' /\ ThreadsKnown'
  BY RecvIpiType DEF IInv
<1>6. state[c] = "IDLE" /\ \A t \in live : desc[t] \in Cpus
  <2>1. state[c] = "IDLE"
    BY <1>1, <1>3, CpuFacts DEF CoreStateAgrees
  <2>2. live \in SUBSET Threads /\ desc \in [Threads -> Cpus \cup {NULL}]
    BY DEF IInv, TypeOK
  <2>3. \A t \in live : desc[t] \in Cpus
    BY <1>3, <2>2 DEF ThreadsKnown
  <2> QED
    BY <2>1, <2>3
<1>7. CoreZeroRuns'
  BY <1>1, <1>2, <1>3, <1>4, <1>6, CpuFacts DEF CoreZeroRuns
<1>8. CoreStateAgrees'
  BY <1>1, <1>2, <1>3, <1>4, <1>6, CpuFacts DEF CoreStateAgrees
<1>9. TargetReserved'
  BY <1>1, <1>2, <1>3, <1>4, <1>6, CpuFacts DEF TargetReserved
<1>10. RunningConsistent'
  <2> SUFFICES ASSUME NEW b \in Secondary, state'[b] = "RUNNING"
               PROVE  /\ thread'[b] \in Threads
                      /\ entry_func'[b] = thread'[b] /\ args'[b] = thread'[b]
                      /\ desc'[thread'[b]] = b /\ thread'[b] \in live'
                      /\ outcome'[thread'[b]] = "running"
                      /\ pc'[b] \in {"load args", "run"}
                            => run_func'[b] = thread'[b]
                      /\ pc'[b] = "run" => run_args'[b] = thread'[b]
    BY DEF RunningConsistent
  <2>1. b # c /\ state[b] = "RUNNING" /\ pc'[b] = pc[b]
    BY <1>1, <1>4, <1>6, CpuFacts
  <2> QED
    BY <1>2, <1>3, <2>1 DEF RunningConsistent
<1>11. OutcomeKnown'
  BY <1>1, <1>2, <1>3, <1>4, <1>6, CpuFacts DEF OutcomeKnown
<1>12. CallAgrees' /\ ArgumentsWritten'
  BY <1>2, <1>3, CallAgreesFrame, ArgumentsWrittenFrame
<1> QED
  BY <1>5, <1>7, <1>8, <1>9, <1>10, <1>11, <1>12 DEF IInv

LEMMA AckIpiInv ==
    ASSUME IInv, NEW c \in Secondary, AckIpi(c)
    PROVE  IInv'
<1>1. /\ pc[c] = "ack"
      /\ msip' = [msip EXCEPT ![c] = 0]
      /\ pc' = [pc EXCEPT ![c] = "kind"]
  BY DEF AckIpi, Step
<1>2. UNCHANGED <<state, ipi_kind, entry_func, args, thread,
               run_func, run_args, cpu_id, desc, dpc, op, thr, tgt, pending,
               ret, live, outcome>>
  BY DEF AckIpi, Step, cpuVars, coreVars, threadVars, callVars, appVars,
    directorVars
<1>3. /\ ThreadsKnown /\ CoreZeroRuns /\ CoreStateAgrees /\ CallAgrees
      /\ TargetReserved /\ ArgumentsWritten /\ RunningConsistent /\ OutcomeKnown
  BY DEF IInv
<1>4. /\ state \in [Cpus -> CpuStates]
      /\ thread \in [Cpus -> Threads \cup {NULL}]
      /\ pc \in [Cpus -> CorePlaces]
      /\ desc \in [Threads -> Cpus \cup {NULL}]
      /\ tgt \in [Directors -> Cpus]
  BY DEF IInv, TypeOK
<1>5. TypeOK' /\ ThreadsKnown'
  BY AckIpiType DEF IInv
<1>6. CoreZeroRuns'
  BY <1>1, <1>2, <1>3, <1>4, CpuFacts DEF CoreZeroRuns
<1>7. CoreStateAgrees'
  BY <1>1, <1>2, <1>3, <1>4, CpuFacts DEF CoreStateAgrees
<1>8. RunningConsistent'
  BY <1>1, <1>2, <1>3, <1>4, CpuFacts DEF RunningConsistent
<1>9. CallAgrees' /\ TargetReserved' /\ ArgumentsWritten' /\ OutcomeKnown'
  BY <1>2, <1>3, CallAgreesFrame, TargetReservedFrame,
    ArgumentsWrittenFrame, OutcomeKnownFrame
<1> QED
  BY <1>5, <1>6, <1>7, <1>8, <1>9 DEF IInv

LEMMA ReadKindInv ==
    ASSUME IInv, NEW c \in Secondary, ReadKind(c)
    PROVE  IInv'
<1>1. /\ pc[c] = "kind"
      /\ \/ pc' = [pc EXCEPT ![c] = "awake"] /\ UNCHANGED state
         \/ /\ pc' = [pc EXCEPT ![c] = "halt"]
            /\ state' = [state EXCEPT ![c] = "ERROR"]
  BY DEF ReadKind, Step, SetState
<1>2. UNCHANGED <<ipi_kind, entry_func, args, thread, msip, run_func,
               run_args, cpu_id, desc, dpc, op, thr, tgt, pending, ret,
               live, outcome>>
  BY DEF ReadKind, Step, SetState, cpuVars, coreVars, threadVars, callVars,
    appVars, directorVars
<1>3. /\ ThreadsKnown /\ CoreZeroRuns /\ CoreStateAgrees /\ CallAgrees
      /\ TargetReserved /\ ArgumentsWritten /\ RunningConsistent /\ OutcomeKnown
  BY DEF IInv
<1>4. /\ state \in [Cpus -> CpuStates]
      /\ thread \in [Cpus -> Threads \cup {NULL}]
      /\ pc \in [Cpus -> CorePlaces]
      /\ desc \in [Threads -> Cpus \cup {NULL}]
      /\ tgt \in [Directors -> Cpus]
  BY DEF IInv, TypeOK
<1>5. TypeOK' /\ ThreadsKnown'
  BY ReadKindType DEF IInv
<1>6. state[c] = "IDLE" /\ \A t \in live : desc[t] \in Cpus
  <2>1. state[c] = "IDLE"
    BY <1>1, <1>3, CpuFacts DEF CoreStateAgrees
  <2>2. live \in SUBSET Threads /\ desc \in [Threads -> Cpus \cup {NULL}]
    BY DEF IInv, TypeOK
  <2>3. \A t \in live : desc[t] \in Cpus
    BY <1>3, <2>2 DEF ThreadsKnown
  <2> QED
    BY <2>1, <2>3
<1>7. CoreZeroRuns'
  BY <1>1, <1>2, <1>3, <1>4, <1>6, CpuFacts DEF CoreZeroRuns
<1>8. CoreStateAgrees'
  BY <1>1, <1>2, <1>3, <1>4, <1>6, CpuFacts DEF CoreStateAgrees
<1>9. TargetReserved'
  BY <1>1, <1>2, <1>3, <1>4, <1>6, CpuFacts DEF TargetReserved
<1>10. RunningConsistent'
  <2> SUFFICES ASSUME NEW b \in Secondary, state'[b] = "RUNNING"
               PROVE  /\ thread'[b] \in Threads
                      /\ entry_func'[b] = thread'[b] /\ args'[b] = thread'[b]
                      /\ desc'[thread'[b]] = b /\ thread'[b] \in live'
                      /\ outcome'[thread'[b]] = "running"
                      /\ pc'[b] \in {"load args", "run"}
                            => run_func'[b] = thread'[b]
                      /\ pc'[b] = "run" => run_args'[b] = thread'[b]
    BY DEF RunningConsistent
  <2>1. b # c /\ state[b] = "RUNNING" /\ pc'[b] = pc[b]
    BY <1>1, <1>4, <1>6, CpuFacts
  <2> QED
    BY <1>2, <1>3, <2>1 DEF RunningConsistent
<1>11. OutcomeKnown'
  BY <1>1, <1>2, <1>3, <1>4, <1>6, CpuFacts DEF OutcomeKnown
<1>12. CallAgrees' /\ ArgumentsWritten'
  BY <1>2, <1>3, CallAgreesFrame, ArgumentsWrittenFrame
<1> QED
  BY <1>5, <1>7, <1>8, <1>9, <1>10, <1>11, <1>12 DEF IInv

LEMMA SetAwakeInv ==
    ASSUME IInv, NEW c \in Secondary, SetAwake(c)
    PROVE  IInv'
<1>1. /\ pc[c] = "awake"
      /\ state' = [state EXCEPT ![c] = "AWAKE"]
      /\ pc' = [pc EXCEPT ![c] = "wait"]
  BY DEF SetAwake, Step, SetState
<1>2. UNCHANGED <<ipi_kind, entry_func, args, thread, msip, run_func,
               run_args, cpu_id, desc, dpc, op, thr, tgt, pending, ret,
               live, outcome>>
  BY DEF SetAwake, Step, SetState, cpuVars, coreVars, threadVars, callVars,
    appVars, directorVars
<1>3. /\ ThreadsKnown /\ CoreZeroRuns /\ CoreStateAgrees /\ CallAgrees
      /\ TargetReserved /\ ArgumentsWritten /\ RunningConsistent /\ OutcomeKnown
  BY DEF IInv
<1>4. /\ state \in [Cpus -> CpuStates]
      /\ thread \in [Cpus -> Threads \cup {NULL}]
      /\ pc \in [Cpus -> CorePlaces]
      /\ desc \in [Threads -> Cpus \cup {NULL}]
      /\ tgt \in [Directors -> Cpus]
  BY DEF IInv, TypeOK
<1>5. TypeOK' /\ ThreadsKnown'
  BY SetAwakeType DEF IInv
<1>6. state[c] = "IDLE" /\ \A t \in live : desc[t] \in Cpus
  <2>1. state[c] = "IDLE"
    BY <1>1, <1>3, CpuFacts DEF CoreStateAgrees
  <2>2. live \in SUBSET Threads /\ desc \in [Threads -> Cpus \cup {NULL}]
    BY DEF IInv, TypeOK
  <2>3. \A t \in live : desc[t] \in Cpus
    BY <1>3, <2>2 DEF ThreadsKnown
  <2> QED
    BY <2>1, <2>3
<1>7. CoreZeroRuns'
  BY <1>1, <1>2, <1>3, <1>4, <1>6, CpuFacts DEF CoreZeroRuns
<1>8. CoreStateAgrees'
  BY <1>1, <1>2, <1>3, <1>4, <1>6, CpuFacts DEF CoreStateAgrees
<1>9. TargetReserved'
  BY <1>1, <1>2, <1>3, <1>4, <1>6, CpuFacts DEF TargetReserved
<1>10. RunningConsistent'
  <2> SUFFICES ASSUME NEW b \in Secondary, state'[b] = "RUNNING"
               PROVE  /\ thread'[b] \in Threads
                      /\ entry_func'[b] = thread'[b] /\ args'[b] = thread'[b]
                      /\ desc'[thread'[b]] = b /\ thread'[b] \in live'
                      /\ outcome'[thread'[b]] = "running"
                      /\ pc'[b] \in {"load args", "run"}
                            => run_func'[b] = thread'[b]
                      /\ pc'[b] = "run" => run_args'[b] = thread'[b]
    BY DEF RunningConsistent
  <2>1. b # c /\ state[b] = "RUNNING" /\ pc'[b] = pc[b]
    BY <1>1, <1>4, <1>6, CpuFacts
  <2> QED
    BY <1>2, <1>3, <2>1 DEF RunningConsistent
<1>11. OutcomeKnown'
  BY <1>1, <1>2, <1>3, <1>4, <1>6, CpuFacts DEF OutcomeKnown
<1>12. CallAgrees' /\ ArgumentsWritten'
  BY <1>2, <1>3, CallAgreesFrame, ArgumentsWrittenFrame
<1> QED
  BY <1>5, <1>7, <1>8, <1>9, <1>10, <1>11, <1>12 DEF IInv

LEMMA SeeRunningInv ==
    ASSUME IInv, NEW c \in Secondary, SeeRunning(c)
    PROVE  IInv'
<1>1. /\ pc[c] = "wait"
      /\ state[c] = "RUNNING"
      /\ pc' = [pc EXCEPT ![c] = "load func"]
  BY DEF SeeRunning, Step
<1>2. UNCHANGED <<state, ipi_kind, entry_func, args, thread, msip,
               run_func, run_args, cpu_id, desc, dpc, op, thr, tgt, pending,
               ret, live, outcome>>
  BY DEF SeeRunning, Step, cpuVars, coreVars, threadVars, callVars, appVars,
    directorVars
<1>3. /\ ThreadsKnown /\ CoreZeroRuns /\ CoreStateAgrees /\ CallAgrees
      /\ TargetReserved /\ ArgumentsWritten /\ RunningConsistent /\ OutcomeKnown
  BY DEF IInv
<1>4. /\ state \in [Cpus -> CpuStates]
      /\ thread \in [Cpus -> Threads \cup {NULL}]
      /\ pc \in [Cpus -> CorePlaces]
      /\ desc \in [Threads -> Cpus \cup {NULL}]
      /\ tgt \in [Directors -> Cpus]
  BY DEF IInv, TypeOK
<1>5. TypeOK' /\ ThreadsKnown'
  BY SeeRunningType DEF IInv
<1>6. CoreZeroRuns'
  BY <1>1, <1>2, <1>3, <1>4, CpuFacts DEF CoreZeroRuns
<1>7. CoreStateAgrees'
  BY <1>1, <1>2, <1>3, <1>4, CpuFacts DEF CoreStateAgrees
<1>8. RunningConsistent'
  BY <1>1, <1>2, <1>3, <1>4, CpuFacts DEF RunningConsistent
<1>9. CallAgrees' /\ TargetReserved' /\ ArgumentsWritten' /\ OutcomeKnown'
  BY <1>2, <1>3, CallAgreesFrame, TargetReservedFrame,
    ArgumentsWrittenFrame, OutcomeKnownFrame
<1> QED
  BY <1>5, <1>6, <1>7, <1>8, <1>9 DEF IInv

LEMMA LoadFuncInv ==
    ASSUME IInv, NEW c \in Secondary, LoadFunc(c)
    PROVE  IInv'
<1>1. /\ pc[c] = "load func"
      /\ run_func' = [run_func EXCEPT ![c] = entry_func[c]]
      /\ pc' = [pc EXCEPT ![c] = "load args"]
  BY DEF LoadFunc, Step
<1>2. UNCHANGED <<state, ipi_kind, entry_func, args, thread, msip,
               run_args, cpu_id, desc, dpc, op, thr, tgt, pending, ret,
               live, outcome>>
  BY DEF LoadFunc, Step, cpuVars, coreVars, threadVars, callVars, appVars,
    directorVars
<1>3. /\ ThreadsKnown /\ CoreZeroRuns /\ CoreStateAgrees /\ CallAgrees
      /\ TargetReserved /\ ArgumentsWritten /\ RunningConsistent /\ OutcomeKnown
  BY DEF IInv
<1>4. /\ state \in [Cpus -> CpuStates]
      /\ thread \in [Cpus -> Threads \cup {NULL}]
      /\ pc \in [Cpus -> CorePlaces]
      /\ run_func \in [Cpus -> Threads \cup {NULL}]
      /\ desc \in [Threads -> Cpus \cup {NULL}]
      /\ tgt \in [Directors -> Cpus]
  BY DEF IInv, TypeOK
<1>5. TypeOK' /\ ThreadsKnown'
  BY LoadFuncType DEF IInv
<1>6. state[c] = "RUNNING"
  BY <1>1, <1>2, <1>3, <1>4, CpuFacts DEF CoreStateAgrees
<1>7. CoreZeroRuns'
  BY <1>1, <1>2, <1>3, <1>4, <1>6, CpuFacts DEF CoreZeroRuns
<1>8. CoreStateAgrees'
  BY <1>1, <1>2, <1>3, <1>4, <1>6, CpuFacts DEF CoreStateAgrees
<1>9. RunningConsistent'
  BY <1>1, <1>2, <1>3, <1>4, <1>6, CpuFacts DEF RunningConsistent
<1>10. CallAgrees' /\ TargetReserved' /\ ArgumentsWritten' /\ OutcomeKnown'
  BY <1>2, <1>3, CallAgreesFrame, TargetReservedFrame,
    ArgumentsWrittenFrame, OutcomeKnownFrame
<1> QED
  BY <1>5, <1>7, <1>8, <1>9, <1>10 DEF IInv

LEMMA LoadArgsInv ==
    ASSUME IInv, NEW c \in Secondary, LoadArgs(c)
    PROVE  IInv'
<1>1. /\ pc[c] = "load args"
      /\ run_args' = [run_args EXCEPT ![c] = args[c]]
      /\ pc' = [pc EXCEPT ![c] = "run"]
  BY DEF LoadArgs, Step
<1>2. UNCHANGED <<state, ipi_kind, entry_func, args, thread, msip,
               run_func, cpu_id, desc, dpc, op, thr, tgt, pending, ret,
               live, outcome>>
  BY DEF LoadArgs, Step, cpuVars, coreVars, threadVars, callVars, appVars,
    directorVars
<1>3. /\ ThreadsKnown /\ CoreZeroRuns /\ CoreStateAgrees /\ CallAgrees
      /\ TargetReserved /\ ArgumentsWritten /\ RunningConsistent /\ OutcomeKnown
  BY DEF IInv
<1>4. /\ state \in [Cpus -> CpuStates]
      /\ thread \in [Cpus -> Threads \cup {NULL}]
      /\ pc \in [Cpus -> CorePlaces]
      /\ run_args \in [Cpus -> Threads \cup {NULL}]
      /\ desc \in [Threads -> Cpus \cup {NULL}]
      /\ tgt \in [Directors -> Cpus]
  BY DEF IInv, TypeOK
<1>5. TypeOK' /\ ThreadsKnown'
  BY LoadArgsType DEF IInv
<1>6. state[c] = "RUNNING"
  BY <1>1, <1>2, <1>3, <1>4, CpuFacts DEF CoreStateAgrees
<1>7. CoreZeroRuns'
  BY <1>1, <1>2, <1>3, <1>4, <1>6, CpuFacts DEF CoreZeroRuns
<1>8. CoreStateAgrees'
  BY <1>1, <1>2, <1>3, <1>4, <1>6, CpuFacts DEF CoreStateAgrees
<1>9. RunningConsistent'
  <2> SUFFICES ASSUME NEW b \in Secondary, state'[b] = "RUNNING"
               PROVE  /\ thread'[b] \in Threads
                      /\ entry_func'[b] = thread'[b] /\ args'[b] = thread'[b]
                      /\ desc'[thread'[b]] = b /\ thread'[b] \in live'
                      /\ outcome'[thread'[b]] = "running"
                      /\ pc'[b] \in {"load args", "run"}
                            => run_func'[b] = thread'[b]
                      /\ pc'[b] = "run" => run_args'[b] = thread'[b]
    BY DEF RunningConsistent
  <2>1. /\ thread[b] \in Threads
        /\ entry_func[b] = thread[b] /\ args[b] = thread[b]
        /\ desc[thread[b]] = b /\ thread[b] \in live
        /\ outcome[thread[b]] = "running"
        /\ pc[b] \in {"load args", "run"} => run_func[b] = thread[b]
        /\ pc[b] = "run" => run_args[b] = thread[b]
    BY <1>2, <1>3 DEF RunningConsistent
  <2>2. CASE b = c
    BY <1>1, <1>2, <1>4, <2>1, <2>2, CpuFacts
  <2>3. CASE b # c
    <3>1. pc'[b] = pc[b] /\ run_args'[b] = run_args[b]
      BY <1>1, <1>4, <2>3, CpuFacts
    <3> QED
      BY <1>2, <2>1, <3>1
  <2> QED
    BY <2>2, <2>3
<1>10. CallAgrees' /\ TargetReserved' /\ ArgumentsWritten' /\ OutcomeKnown'
  BY <1>2, <1>3, CallAgreesFrame, TargetReservedFrame,
    ArgumentsWrittenFrame, OutcomeKnownFrame
<1> QED
  BY <1>5, <1>7, <1>8, <1>9, <1>10 DEF IInv

LEMMA SucceedInv ==
    ASSUME IInv, NEW c \in Secondary, Succeed(c)
    PROVE  IInv'
<1>1. /\ pc[c] = "run"
      /\ state' = [state EXCEPT ![c] = "IDLE"]
      /\ pc' = [pc EXCEPT ![c] = "wfi"]
      /\ outcome' = [outcome EXCEPT ![run_func[c]] = "success"]
  BY DEF Succeed, Ended, Step, SetState
<1>2. UNCHANGED <<ipi_kind, entry_func, args, thread, msip, run_func,
               run_args, cpu_id, desc, dpc, op, thr, tgt, pending, ret,
               live>>
  BY DEF Succeed, Ended, Step, SetState, cpuVars, coreVars, threadVars,
    callVars, appVars, directorVars
<1>3. /\ ThreadsKnown /\ CoreZeroRuns /\ CoreStateAgrees /\ CallAgrees
      /\ TargetReserved /\ ArgumentsWritten /\ RunningConsistent /\ OutcomeKnown
  BY DEF IInv
<1>4. /\ state \in [Cpus -> CpuStates]
      /\ thread \in [Cpus -> Threads \cup {NULL}]
      /\ pc \in [Cpus -> CorePlaces]
      /\ desc \in [Threads -> Cpus \cup {NULL}]
      /\ tgt \in [Directors -> Cpus]
      /\ outcome \in [Threads -> Outcomes]
  BY DEF IInv, TypeOK
<1>5. TypeOK' /\ ThreadsKnown'
  BY SucceedType DEF IInv
<1>6. /\ state[c] = "RUNNING" /\ run_func[c] = thread[c]
      /\ thread[c] \in live /\ desc[thread[c]] = c /\ thread[c] \in Threads
  BY <1>1, <1>2, <1>3, <1>4, CpuFacts DEF CoreStateAgrees, RunningConsistent
<1>7. CoreZeroRuns'
  BY <1>1, <1>2, <1>3, <1>4, <1>6, CpuFacts DEF CoreZeroRuns
<1>8. CoreStateAgrees'
  BY <1>1, <1>2, <1>3, <1>4, <1>6, CpuFacts DEF CoreStateAgrees
<1>9. TargetReserved'
  BY <1>1, <1>2, <1>3, <1>4, <1>6, CpuFacts DEF TargetReserved
<1>10. RunningConsistent'
  <2> SUFFICES ASSUME NEW b \in Secondary, state'[b] = "RUNNING"
               PROVE  /\ thread'[b] \in Threads
                      /\ entry_func'[b] = thread'[b] /\ args'[b] = thread'[b]
                      /\ desc'[thread'[b]] = b /\ thread'[b] \in live'
                      /\ outcome'[thread'[b]] = "running"
                      /\ pc'[b] \in {"load args", "run"}
                            => run_func'[b] = thread'[b]
                      /\ pc'[b] = "run" => run_args'[b] = thread'[b]
    BY DEF RunningConsistent
  <2>1. b # c /\ state[b] = "RUNNING" /\ pc'[b] = pc[b]
    BY <1>1, <1>4, CpuFacts
  <2>2. /\ thread[b] \in Threads
        /\ entry_func[b] = thread[b] /\ args[b] = thread[b]
        /\ desc[thread[b]] = b /\ thread[b] \in live
        /\ outcome[thread[b]] = "running"
        /\ pc[b] \in {"load args", "run"} => run_func[b] = thread[b]
        /\ pc[b] = "run" => run_args[b] = thread[b]
    BY <1>3, <2>1 DEF RunningConsistent
  <2>3. outcome'[thread[b]] = outcome[thread[b]]
    BY <1>1, <1>4, <1>6, <2>1, <2>2
  <2> QED
    BY <1>2, <1>6, <2>1, <2>2, <2>3
<1>11. OutcomeKnown'
  <2> SUFFICES ASSUME NEW t \in Threads
               PROVE  /\ t \in live' => outcome'[t] # "none"
                      /\ outcome'[t] = "running" =>
                           /\ t \in live' /\ state'[desc'[t]] = "RUNNING"
                           /\ thread'[desc'[t]] = t
                      /\ t \in live' /\ outcome'[t] = "failure"
                           => state'[desc'[t]] = "ERROR"
    BY DEF OutcomeKnown
  <2>1. CASE t = thread[c]
    BY <1>1, <1>2, <1>4, <1>6, <2>1, CpuFacts
  <2>2. CASE t # thread[c]
    <3>1. outcome'[t] = outcome[t]
      BY <1>1, <1>4, <1>6, <2>2
    <3>2. t \in live => desc[t] \in Cpus
      BY <1>3, <1>4 DEF ThreadsKnown
    <3>3. t \in live /\ outcome[t] \in {"running", "failure"} => desc[t] # c
      BY <1>3, <1>4, <1>6, <2>2 DEF OutcomeKnown
    <3> QED
      BY <1>1, <1>2, <1>3, <1>4, <3>1, <3>2, <3>3, CpuFacts DEF OutcomeKnown
  <2> QED
    BY <2>1, <2>2
<1>12. CallAgrees' /\ ArgumentsWritten'
  BY <1>2, <1>3, CallAgreesFrame, ArgumentsWrittenFrame
<1> QED
  BY <1>5, <1>7, <1>8, <1>9, <1>10, <1>11, <1>12 DEF IInv

LEMMA FailInv ==
    ASSUME IInv, NEW c \in Secondary, Fail(c)
    PROVE  IInv'
<1>1. /\ pc[c] = "run"
      /\ state' = [state EXCEPT ![c] = "ERROR"]
      /\ pc' = [pc EXCEPT ![c] = "halt"]
      /\ outcome' = [outcome EXCEPT ![run_func[c]] = "failure"]
  BY DEF Fail, Ended, Step, SetState
<1>2. UNCHANGED <<ipi_kind, entry_func, args, thread, msip, run_func,
               run_args, cpu_id, desc, dpc, op, thr, tgt, pending, ret,
               live>>
  BY DEF Fail, Ended, Step, SetState, cpuVars, coreVars, threadVars,
    callVars, appVars, directorVars
<1>3. /\ ThreadsKnown /\ CoreZeroRuns /\ CoreStateAgrees /\ CallAgrees
      /\ TargetReserved /\ ArgumentsWritten /\ RunningConsistent /\ OutcomeKnown
  BY DEF IInv
<1>4. /\ state \in [Cpus -> CpuStates]
      /\ thread \in [Cpus -> Threads \cup {NULL}]
      /\ pc \in [Cpus -> CorePlaces]
      /\ desc \in [Threads -> Cpus \cup {NULL}]
      /\ tgt \in [Directors -> Cpus]
      /\ outcome \in [Threads -> Outcomes]
  BY DEF IInv, TypeOK
<1>5. TypeOK' /\ ThreadsKnown'
  BY FailType DEF IInv
<1>6. /\ state[c] = "RUNNING" /\ run_func[c] = thread[c]
      /\ thread[c] \in live /\ desc[thread[c]] = c /\ thread[c] \in Threads
  BY <1>1, <1>2, <1>3, <1>4, CpuFacts DEF CoreStateAgrees, RunningConsistent
<1>7. CoreZeroRuns'
  BY <1>1, <1>2, <1>3, <1>4, <1>6, CpuFacts DEF CoreZeroRuns
<1>8. CoreStateAgrees'
  BY <1>1, <1>2, <1>3, <1>4, <1>6, CpuFacts DEF CoreStateAgrees
<1>9. TargetReserved'
  BY <1>1, <1>2, <1>3, <1>4, <1>6, CpuFacts DEF TargetReserved
<1>10. RunningConsistent'
  <2> SUFFICES ASSUME NEW b \in Secondary, state'[b] = "RUNNING"
               PROVE  /\ thread'[b] \in Threads
                      /\ entry_func'[b] = thread'[b] /\ args'[b] = thread'[b]
                      /\ desc'[thread'[b]] = b /\ thread'[b] \in live'
                      /\ outcome'[thread'[b]] = "running"
                      /\ pc'[b] \in {"load args", "run"}
                            => run_func'[b] = thread'[b]
                      /\ pc'[b] = "run" => run_args'[b] = thread'[b]
    BY DEF RunningConsistent
  <2>1. b # c /\ state[b] = "RUNNING" /\ pc'[b] = pc[b]
    BY <1>1, <1>4, CpuFacts
  <2>2. /\ thread[b] \in Threads
        /\ entry_func[b] = thread[b] /\ args[b] = thread[b]
        /\ desc[thread[b]] = b /\ thread[b] \in live
        /\ outcome[thread[b]] = "running"
        /\ pc[b] \in {"load args", "run"} => run_func[b] = thread[b]
        /\ pc[b] = "run" => run_args[b] = thread[b]
    BY <1>3, <2>1 DEF RunningConsistent
  <2>3. outcome'[thread[b]] = outcome[thread[b]]
    BY <1>1, <1>4, <1>6, <2>1, <2>2
  <2> QED
    BY <1>2, <1>6, <2>1, <2>2, <2>3
<1>11. OutcomeKnown'
  <2> SUFFICES ASSUME NEW t \in Threads
               PROVE  /\ t \in live' => outcome'[t] # "none"
                      /\ outcome'[t] = "running" =>
                           /\ t \in live' /\ state'[desc'[t]] = "RUNNING"
                           /\ thread'[desc'[t]] = t
                      /\ t \in live' /\ outcome'[t] = "failure"
                           => state'[desc'[t]] = "ERROR"
    BY DEF OutcomeKnown
  <2>1. CASE t = thread[c]
    BY <1>1, <1>2, <1>4, <1>6, <2>1, CpuFacts
  <2>2. CASE t # thread[c]
    <3>1. outcome'[t] = outcome[t]
      BY <1>1, <1>4, <1>6, <2>2
    <3>2. t \in live => desc[t] \in Cpus
      BY <1>3, <1>4 DEF ThreadsKnown
    <3>3. t \in live /\ outcome[t] \in {"running", "failure"} => desc[t] # c
      BY <1>3, <1>4, <1>6, <2>2 DEF OutcomeKnown
    <3> QED
      BY <1>1, <1>2, <1>3, <1>4, <3>1, <3>2, <3>3, CpuFacts DEF OutcomeKnown
  <2> QED
    BY <2>1, <2>2
<1>12. CallAgrees' /\ ArgumentsWritten'
  BY <1>2, <1>3, CallAgreesFrame, ArgumentsWrittenFrame
<1> QED
  BY <1>5, <1>7, <1>8, <1>9, <1>10, <1>11, <1>12 DEF IInv

-----------------------------------------------------------------------------
LEMMA InvUnchanged ==
    ASSUME IInv, UNCHANGED vars
    PROVE  IInv'
<1>1. UNCHANGED <<state, ipi_kind, entry_func, args, thread, msip, pc, run_func,
                  run_args, cpu_id, desc, dpc, op, thr, tgt, pending, ret, live,
                  outcome>>
  BY DEF vars, cpuVars, coreVars, threadVars, directorVars, callVars, appVars
<1>2. TypeOK' /\ ThreadsKnown'
  BY TypeUnchanged DEF IInv
<1>3. /\ CoreZeroRuns' /\ CoreStateAgrees' /\ CallAgrees' /\ TargetReserved'
      /\ ArgumentsWritten' /\ RunningConsistent' /\ OutcomeKnown'
  BY <1>1, CoreZeroRunsFrame, CoreStateAgreesFrame, CallAgreesFrame,
     TargetReservedFrame, ArgumentsWrittenFrame, RunningConsistentFrame,
     OutcomeKnownFrame DEF IInv
<1> QED
  BY <1>2, <1>3 DEF IInv

LEMMA InvInit == Init => IInv
<1> SUFFICES ASSUME Init PROVE IInv
  OBVIOUS
<1>1. TypeOK /\ ThreadsKnown
  BY TypeInit
<1>2. CoreZeroRuns
  BY CpuFacts DEF Init, CoreZeroRuns
<1>3. CoreStateAgrees
  BY CpuFacts DEF Init, CoreStateAgrees
<1>4. CallAgrees /\ TargetReserved /\ ArgumentsWritten
  BY DEF Init, CallAgrees, TargetReserved, ArgumentsWritten
<1>5. RunningConsistent
  BY CpuFacts DEF Init, RunningConsistent
<1>6. OutcomeKnown
  BY DEF Init, OutcomeKnown
<1> QED
  BY <1>1, <1>2, <1>3, <1>4, <1>5, <1>6 DEF IInv

LEMMA InvNext ==
    ASSUME \A d, e \in Directors : e = d, IInv, [Next]_vars
    PROVE  IInv'
<1>1. ASSUME NEW d \in Directors, Application(d)
      PROVE  IInv'
  BY <1>1, CreateOnInv, CreateAnywhereInv, DestroyInv, JoinInv DEF Application
<1>2. ASSUME NEW d \in Directors, Director(d)
      PROVE  IInv'
  BY <1>2, ScanInv, CheckInv, WriteInv, CommitInv, SendIpiInv, PollInv, FillInv,
     DeclareInv, DestroyIdleInv, DestroyErrorInv, KillInv, JoinPollInv
     DEF Director
<1>3. ASSUME NEW c \in Secondary, Startup(c)
      PROVE  IInv'
  BY <1>3, WakeInv, RecvIpiInv, AckIpiInv, ReadKindInv, SetAwakeInv,
     SeeRunningInv, LoadFuncInv, LoadArgsInv DEF Startup
<1>4. ASSUME NEW c \in Secondary, Worker(c)
      PROVE  IInv'
  BY <1>4, SucceedInv, FailInv DEF Worker
<1>5. CASE UNCHANGED vars
  BY <1>5, InvUnchanged
<1> QED
  BY <1>1, <1>2, <1>3, <1>4, <1>5 DEF Next

(* With a single director the inductive invariant holds, for any number of
   cores and threads, whether or not waits expire and threads are destroyed:
   from the check of thread_create() on, no other agent can make its target
   run, and what the director wrote for the target stays there. *)
THEOREM ThreadsInvariant ==
    ASSUME \A d, e \in Directors : e = d
    PROVE  Spec => []IInv
  BY InvInit, InvNext, PTL DEF Spec

(* The state word of a core agrees with what the core does. *)
THEOREM CoreStateCorrect ==
    ASSUME \A d, e \in Directors : e = d
    PROVE  Spec => []CoreStateAgrees
<1>1. IInv => CoreStateAgrees
  BY DEF IInv
<1> QED
  BY <1>1, ThreadsInvariant, PTL

(* A worker runs with the function and the argument of one call, on the core
   of its thread_t, and cpu->thread is the thread that runs. *)
THEOREM DispatchCorrect ==
    ASSUME \A d, e \in Directors : e = d
    PROVE  Spec => []DispatchConsistent
<1>1. IInv => DispatchConsistent
  BY DEF IInv, CoreStateAgrees, RunningConsistent, DispatchConsistent
<1> QED
  BY <1>1, ThreadsInvariant, PTL

-----------------------------------------------------------------------------
(* A director that found the core of a live thread IDLE or in ERROR knows
   that the worker function returned, and how. *)
LEMMA EndKnown ==
    ASSUME IInv, NEW d \in Directors, dpc[d] \in {"idle?", "error?", "join"}
    PROVE  /\ thr[d] \in live
           /\ state[tgt[d]] = "IDLE" => outcome[thr[d]] = "success"
           /\ state[tgt[d]] = "ERROR" => outcome[thr[d]] \in {"success", "failure"}
<1>1. op[d] \in {"join", "destroy"} /\ thr[d] \in live /\ desc[thr[d]] = tgt[d]
  BY DEF IInv, CallAgrees
<1>2. thr[d] \in Threads /\ outcome[thr[d]] \in Outcomes
  BY <1>1 DEF IInv, TypeOK
<1>3. /\ outcome[thr[d]] # "none"
      /\ outcome[thr[d]] = "running" => state[tgt[d]] = "RUNNING"
      /\ outcome[thr[d]] = "failure" => state[tgt[d]] = "ERROR"
  BY <1>1, <1>2 DEF IInv, OutcomeKnown
<1> QED
  BY <1>1, <1>2, <1>3 DEF Outcomes

LEMMA EndStep ==
    ASSUME IInv, [Next]_vars, NEW d \in Directors,
           \A e, b \in Directors : b = e,
           op[d] \in {"join", "destroy"}, dpc[d] # "app", dpc'[d] = "app"
    PROVE  /\ ret'[d] = 0 => outcome[thr[d]] = "success"
           /\ ret'[d] = -1 => outcome[thr[d]] \in {"success", "failure"}
<1>1. /\ dpc \in [Directors -> CallPlaces] /\ ret \in [Directors -> {NULL, 0, -1, -2}]
  BY DEF IInv, TypeOK
<1>2. dpc[d] \notin {"scan", "check", "write", "poll", "fill", "declare"}
  BY DEF IInv, CallAgrees
<1>3. ASSUME NEW e \in Directors, Application(e)
      PROVE  FALSE
  BY <1>3 DEF Application, CreateOn, CreateAnywhere, Destroy, Join, Call
<1>4. ASSUME NEW e \in Directors,
             Scan(e) \/ Check(e) \/ Write(e) \/ Poll(e) \/ Fill(e) \/ Declare(e)
      PROVE  FALSE
  BY <1>2, <1>4 DEF Scan, Check, Write, Poll, Fill, Declare
<1>5. ASSUME NEW e \in Directors,
             (\E f \in Fields : Commit(e, f)) \/ SendIpi(e) \/ Kill(e)
      PROVE  FALSE
  BY <1>1, <1>5 DEF Commit, SendIpi, Kill, Goto
<1>6. CASE DestroyIdle(d)
  <2>1. state[tgt[d]] = "IDLE" /\ ret'[d] = 0
    BY <1>1, <1>6 DEF DestroyIdle, Goto, Return, ReturnEnded
  <2> QED
    BY <1>6, <2>1, EndKnown DEF DestroyIdle
<1>7. CASE DestroyError(d)
  <2>1. state[tgt[d]] = "ERROR" /\ ret'[d] = -1
    BY <1>1, <1>7 DEF DestroyError, Goto, Return, ReturnEnded
  <2> QED
    BY <1>7, <2>1, EndKnown DEF DestroyError
<1>8. CASE JoinPoll(d)
  <2>1. \/ state[tgt[d]] = "IDLE" /\ ret'[d] = 0
        \/ state[tgt[d]] = "ERROR" /\ ret'[d] = -1
        \/ ret'[d] = -2
    BY <1>1, <1>8 DEF JoinPoll, Return, ReturnEnded
  <2> QED
    BY <1>8, <2>1, EndKnown DEF JoinPoll
<1>9. ASSUME NEW c \in Secondary, Startup(c) \/ Worker(c)
      PROVE  FALSE
  <2>1. UNCHANGED dpc
    BY <1>9 DEF Startup, Worker, Wake, RecvIpi, AckIpi, ReadKind, SetAwake,
                SeeRunning, LoadFunc, LoadArgs, Succeed, Fail, Ended, directorVars
  <2> QED
    BY <2>1
<1>10. CASE UNCHANGED vars
  BY <1>10 DEF vars, directorVars
<1> QED
  BY <1>3, <1>4, <1>5, <1>6, <1>7, <1>8, <1>9, <1>10 DEF Next, Director

(* thread_join() and thread_destroy() return 0 or -1 only when the worker
   function of the thread returned, and 0 only when it returned success. *)
THEOREM EndCorrect ==
    ASSUME \A d, e \in Directors : e = d
    PROVE  Spec => EndIsReal
<1> DEFINE End(d) == (op[d] \in {"join", "destroy"} /\ dpc[d] # "app" /\ dpc'[d] = "app") =>
                       /\ ret'[d] = 0 => outcome[thr[d]] = "success"
                       /\ ret'[d] = -1 => outcome[thr[d]] \in {"success", "failure"}
<1>1. IInv /\ [Next]_vars => \A d \in Directors : End(d)
  BY EndStep
<1> QED
  BY <1>1, ThreadsInvariant, PTL DEF Spec, EndIsReal

-----------------------------------------------------------------------------
(* The refinement of ThreadPool *)

job == [c \in Secondary |-> IF state[c] = "RUNNING" THEN thread[c] ELSE NULL]
broken == {c \in Secondary : state[c] = "ERROR"}

LEMMA PoolStutter ==
    ASSUME UNCHANGED <<state, thread, outcome, live>>
    PROVE  UNCHANGED Pool!vars
BY DEF Pool!vars

LEMMA CommitPool ==
    ASSUME IInv, NEW d \in Directors, NEW f \in Fields, Commit(d, f)
    PROVE  UNCHANGED Pool!vars
<1>1. UNCHANGED <<state, outcome, live>>
  BY DEF Commit, appVars
<1>2. /\ f = "thread" => thread' = [thread EXCEPT ![tgt[d]] = thr[d]]
      /\ f # "thread" => UNCHANGED thread
  BY DEF Commit
<1>3. f = "thread" => state[tgt[d]] # "RUNNING"
  <2>1. dpc[d] = "ipi" /\ op[d] \in {"create", "destroy"}
    BY DEF Commit, IInv, CallAgrees
  <2>2. f = "thread" => op[d] = "create"
    BY <2>1 DEF Commit, IInv, CallAgrees
  <2> QED
    BY <2>1, <2>2 DEF IInv, TargetReserved
<1>4. thread \in [Cpus -> Threads \cup {NULL}]
  BY DEF IInv, TypeOK
<1>5. \A c \in Secondary : state[c] = "RUNNING" => thread'[c] = thread[c]
  BY <1>2, <1>3, <1>4, CpuFacts
<1> QED
  BY <1>1, <1>5 DEF Pool!vars

LEMMA DeclarePool ==
    ASSUME IInv, NEW d \in Directors, Declare(d),
           NEW t \in Threads, t = thr[d], NEW c \in Secondary, c = tgt[d]
    PROVE  Pool!Dispatch(t, c)
<1>1. /\ dpc[d] = "declare" /\ state' = [state EXCEPT ![tgt[d]] = "RUNNING"]
      /\ live' = live \cup {thr[d]} /\ UNCHANGED thread
      /\ outcome' = [outcome EXCEPT ![thr[d]] = "running"]
  BY DEF Declare, cpuVars
<1>2. /\ op[d] = "create" /\ thr[d] \notin live /\ pending[d] = {}
  BY <1>1 DEF IInv, CallAgrees
<1>3. state[c] = "AWAKE" /\ thread[c] = t
  BY <1>1, <1>2 DEF IInv, TargetReserved, ArgumentsWritten
<1>4. state \in [Cpus -> CpuStates]
  BY DEF IInv, TypeOK
<1>5. \A b \in Secondary : state[b] = "RUNNING" => thread[b] \in live
  BY DEF IInv, RunningConsistent
<1>6. \A b \in Secondary : job[b] # t
  BY <1>2, <1>5, CpuFacts DEF job
<1>7. c \notin broken /\ job[c] = NULL
  BY <1>3 DEF job, broken
<1>8. job' = [job EXCEPT ![c] = t]
  BY <1>1, <1>3, <1>4, CpuFacts DEF job
<1>9. broken' = broken
  BY <1>1, <1>3, <1>4, CpuFacts DEF broken
<1> QED
  BY <1>1, <1>2, <1>6, <1>7, <1>8, <1>9 DEF Pool!Dispatch, job, broken

(* What the end of a worker changes. *)
LEMMA EndedFacts ==
    ASSUME IInv, NEW c \in Secondary, NEW how, NEW s, NEW l, Ended(c, how, s, l)
    PROVE  /\ state[c] = "RUNNING" /\ job[c] = thread[c] /\ job[c] # NULL
           /\ state \in [Cpus -> CpuStates]
           /\ state' = [state EXCEPT ![c] = s] /\ UNCHANGED <<thread, live>>
           /\ outcome' = [outcome EXCEPT ![job[c]] = how]
<1>1. /\ pc[c] = "run" /\ state' = [state EXCEPT ![c] = s]
      /\ outcome' = [outcome EXCEPT ![run_func[c]] = how]
      /\ UNCHANGED <<thread, live>>
  BY DEF Ended, SetState, cpuVars
<1>2. state[c] = "RUNNING"
  BY <1>1 DEF IInv, CoreStateAgrees
<1>3. thread[c] \in Threads /\ run_func[c] = thread[c]
  BY <1>1, <1>2 DEF IInv, RunningConsistent
<1>4. state \in [Cpus -> CpuStates]
  BY DEF IInv, TypeOK
<1> QED
  BY <1>1, <1>2, <1>3, <1>4, CpuFacts DEF job

LEMMA SucceedPool ==
    ASSUME IInv, NEW c \in Secondary, Succeed(c)
    PROVE  Pool!Succeed(c)
<1>1. /\ state[c] = "RUNNING" /\ job[c] = thread[c] /\ job[c] # NULL
      /\ state \in [Cpus -> CpuStates]
      /\ state' = [state EXCEPT ![c] = "IDLE"] /\ UNCHANGED <<thread, live>>
      /\ outcome' = [outcome EXCEPT ![job[c]] = "success"]
  BY EndedFacts DEF Succeed
<1>2. job' = [job EXCEPT ![c] = NULL]
  BY <1>1, CpuFacts DEF job
<1>3. broken' = broken
  BY <1>1, CpuFacts DEF broken
<1> QED
  BY <1>1, <1>2, <1>3 DEF Pool!Succeed, job, broken

LEMMA FailPool ==
    ASSUME IInv, NEW c \in Secondary, Fail(c)
    PROVE  Pool!Fail(c)
<1>1. /\ state[c] = "RUNNING" /\ job[c] = thread[c] /\ job[c] # NULL
      /\ state \in [Cpus -> CpuStates]
      /\ state' = [state EXCEPT ![c] = "ERROR"] /\ UNCHANGED <<thread, live>>
      /\ outcome' = [outcome EXCEPT ![job[c]] = "failure"]
  BY EndedFacts DEF Fail
<1>2. job' = [job EXCEPT ![c] = NULL]
  BY <1>1, CpuFacts DEF job
<1>3. broken' = broken \cup {c}
  BY <1>1, CpuFacts DEF broken
<1> QED
  BY <1>1, <1>2, <1>3 DEF Pool!Fail, job, broken

(* A core that stops before it woke up breaks; otherwise its way from the
   interrupt to AWAKE is a stutter. *)
LEMMA StopPool ==
    ASSUME IInv, NEW c \in Secondary, RecvIpi(c) \/ ReadKind(c) \/ SetAwake(c)
    PROVE  Pool!Break(c) \/ UNCHANGED Pool!vars
<1>1. /\ pc[c] \in {"recv", "kind", "awake"} /\ UNCHANGED <<thread, outcome, live>>
      /\ \/ UNCHANGED state
         \/ state' = [state EXCEPT ![c] = "ERROR"]
         \/ state' = [state EXCEPT ![c] = "AWAKE"]
  BY DEF RecvIpi, ReadKind, SetAwake, SetState, cpuVars, appVars
<1>2. state[c] = "IDLE" /\ state \in [Cpus -> CpuStates]
  BY <1>1 DEF IInv, TypeOK, CoreStateAgrees
<1>3. job[c] = NULL /\ job' = job
  BY <1>1, <1>2, CpuFacts DEF job
<1>4. CASE UNCHANGED state
  BY <1>1, <1>4, PoolStutter
<1>5. CASE state' = [state EXCEPT ![c] = "ERROR"]
  <2>1. broken' = broken \cup {c}
    BY <1>2, <1>5, CpuFacts DEF broken
  <2> QED
    BY <1>1, <1>3, <2>1 DEF Pool!Break, job, broken
<1>6. CASE state' = [state EXCEPT ![c] = "AWAKE"]
  <2>1. broken' = broken
    BY <1>2, <1>6, CpuFacts DEF broken
  <2> QED
    BY <1>1, <1>3, <2>1 DEF Pool!vars, job, broken
<1> QED
  BY <1>1, <1>4, <1>5, <1>6

(* A call that learns that a thread ended collects it. *)
LEMMA CollectPool ==
    ASSUME IInv, NEW d \in Directors,
           DestroyIdle(d) \/ DestroyError(d) \/ JoinPoll(d)
    PROVE  Pool!Collect(thr[d]) \/ UNCHANGED Pool!vars
<1>1. /\ dpc[d] \in {"idle?", "error?", "join"}
      /\ UNCHANGED <<state, thread, outcome>>
      /\ \/ UNCHANGED live
         \/ live' = live \ {thr[d]} /\ state[tgt[d]] \in {"IDLE", "ERROR"}
  BY DEF DestroyIdle, DestroyError, JoinPoll, ReturnEnded, cpuVars
<1>2. CASE UNCHANGED live
  BY <1>1, <1>2, PoolStutter
<1>3. CASE live' = live \ {thr[d]} /\ state[tgt[d]] \in {"IDLE", "ERROR"}
  <2>1. thr[d] \in live /\ outcome[thr[d]] \in {"success", "failure"}
    BY <1>1, <1>3, EndKnown
  <2> QED
    BY <1>1, <1>3, <2>1 DEF Pool!Collect
<1> QED
  BY <1>1, <1>2, <1>3

LEMMA PoolNext ==
    ASSUME IInv, [Next]_vars
    PROVE  [Pool!Next]_(Pool!vars)
<1>1. ASSUME NEW d \in Directors, Application(d)
      PROVE  UNCHANGED Pool!vars
  BY <1>1, PoolStutter DEF Application, CreateOn, CreateAnywhere, Destroy, Join,
                           Call, cpuVars, appVars
<1>2. ASSUME NEW d \in Directors,
             \/ Scan(d) \/ Check(d) \/ Write(d) \/ SendIpi(d) \/ Poll(d)
             \/ Fill(d) \/ Kill(d)
      PROVE  UNCHANGED Pool!vars
  BY <1>2, PoolStutter DEF Scan, Check, Write, SendIpi, Poll, Fill, Kill,
                           cpuVars, appVars
<1>3. ASSUME NEW d \in Directors, Declare(d)
      PROVE  Pool!Next
  <2>1. thr[d] \in Threads /\ tgt[d] \in Secondary
    BY <1>3, CpuFacts DEF Declare, IInv, TypeOK, ThreadsKnown, CoreZeroRuns
  <2>2. PICK t \in Threads, c \in Secondary : t = thr[d] /\ c = tgt[d]
    BY <2>1
  <2>3. Pool!Dispatch(t, c)
    BY <1>3, <2>2, DeclarePool
  <2> QED
    BY <2>3 DEF Pool!Next
<1>4. ASSUME NEW d \in Directors, DestroyIdle(d) \/ DestroyError(d) \/ JoinPoll(d)
      PROVE  Pool!Next \/ UNCHANGED Pool!vars
  <2>1. thr[d] \in Threads
    BY <1>4 DEF DestroyIdle, DestroyError, JoinPoll, IInv, ThreadsKnown
  <2> QED
    BY <1>4, <2>1, CollectPool DEF Pool!Next
<1>5. ASSUME NEW c \in Secondary, Startup(c)
      PROVE  Pool!Next \/ UNCHANGED Pool!vars
  <2>1. CASE RecvIpi(c) \/ ReadKind(c) \/ SetAwake(c)
    BY <2>1, StopPool DEF Pool!Next
  <2>2. CASE Wake(c) \/ AckIpi(c) \/ SeeRunning(c) \/ LoadFunc(c) \/ LoadArgs(c)
    BY <2>2, PoolStutter DEF Wake, AckIpi, SeeRunning, LoadFunc, LoadArgs,
                             cpuVars, appVars
  <2> QED
    BY <1>5, <2>1, <2>2 DEF Startup
<1>6. ASSUME NEW c \in Secondary, Worker(c)
      PROVE  Pool!Next
  BY <1>6, SucceedPool, FailPool DEF Worker, Pool!Next
<1>7. CASE UNCHANGED vars
  BY <1>7, PoolStutter DEF vars, cpuVars, appVars
<1>8. ASSUME NEW d \in Directors, Director(d)
      PROVE  Pool!Next \/ UNCHANGED Pool!vars
  BY <1>2, <1>3, <1>4, <1>8, CommitPool DEF Director
<1> QED
  BY <1>1, <1>5, <1>6, <1>7, <1>8 DEF Next

(* With a single director the library implements the pool of cores. *)
THEOREM ThreadsImplementPool ==
    ASSUME \A d, e \in Directors : e = d
    PROVE  Spec => ImplementsThreadPool
<1>1. Init => Pool!Init
  BY CpuFacts DEF Init, Pool!Init
<1> QED
  BY <1>1, ThreadsInvariant, PoolNext, PTL
     DEF Spec, ImplementsThreadPool, Pool!Spec

-----------------------------------------------------------------------------
(* The handshake of thread_create(), when no wait expires and no thread is
   destroyed *)
Prompt == ~TIMEOUTS /\ "destroy" \notin Ops /\ \A d, e \in Directors : e = d

Awaits(d) == op[d] = "create" /\ dpc[d] \in {"poll", "fill", "declare"}
Quiet(c) == /\ msip[c] = 0 /\ state[c] # "AWAKE"
            /\ pc[c] \notin {"recv", "ack", "kind", "awake"}

(* From its interrupt on a core is on its way to AWAKE, and stays there until
   the director has declared its thread. *)
Answers(d, c) ==
    \/ dpc[d] = "poll" /\ pc[c] \in {"wfi", "recv", "ack"} /\ msip[c] = 1 /\ ipi_kind[c] = "CREATE"
    \/ dpc[d] = "poll" /\ pc[c] \in {"kind", "awake"} /\ msip[c] = 0 /\ ipi_kind[c] = "CREATE"
    \/ pc[c] = "wait" /\ msip[c] = 0 /\ state[c] = "AWAKE"

PromptInv ==
    /\ \A c \in Secondary : Quiet(c) \/ \E d \in Directors : tgt[d] = c /\ Awaits(d)
    /\ \A d \in Directors :
         /\ Awaits(d) => Answers(d, tgt[d])
         /\ dpc[d] \in {"write", "ipi"} => state[tgt[d]] = "IDLE"
         /\ dpc[d] = "ipi" /\ "ipi_kind" \notin pending[d] => ipi_kind[tgt[d]] = "CREATE"

(* A step after which the cores, the interrupts and the call are as before. *)
LEMMA PromptFrame ==
    ASSUME PromptInv, UNCHANGED <<state, pc, msip, ipi_kind, dpc, op, tgt, pending>>
    PROVE  PromptInv'
BY DEF PromptInv, Quiet, Awaits, Answers

(* A core stays as it is. *)
LEMMA CoreFrame ==
    ASSUME NEW c, state'[c] = state[c], pc'[c] = pc[c], msip'[c] = msip[c]
    PROVE  Quiet(c)' <=> Quiet(c)
BY DEF Quiet

(* Nobody awaits an answer while the director is in another place. *)
LEMMA AllQuiet ==
    ASSUME Prompt, PromptInv, NEW d \in Directors, ~Awaits(d)
    PROVE  \A c \in Secondary : Quiet(c)
BY DEF Prompt, PromptInv

LEMMA AloneQuiet ==
    ASSUME Prompt, PromptInv, NEW d \in Directors
    PROVE  \A c \in Secondary : c # tgt[d] => Quiet(c)
BY DEF Prompt, PromptInv

(* The director begins a call, or searches, or ends a call that found nothing. *)
LEMMA ApplicationPrompt ==
    ASSUME Prompt, IInv, PromptInv, NEW d \in Directors, Application(d)
    PROVE  PromptInv'
<1>1. /\ ~Awaits(d) /\ UNCHANGED <<state, pc, msip, ipi_kind>>
      /\ dpc' \in [Directors -> CallPlaces]
      /\ dpc'[d] \in {"check", "scan", "idle?", "join"}
  BY DEF Application, CreateOn, CreateAnywhere, Destroy, Join, Call, Goto, Awaits, cpuVars,
         coreVars, IInv, TypeOK, CallPlaces
<1>2. \A c \in Secondary : Quiet(c)'
  BY <1>1, AllQuiet, CoreFrame
<1>3. \A e \in Directors : e = d
  BY DEF Prompt
<1> QED
  BY <1>1, <1>2, <1>3 DEF PromptInv, Awaits

LEMMA SearchPrompt ==
    ASSUME Prompt, IInv, PromptInv, NEW d \in Directors, Scan(d) \/ Check(d) \/ JoinPoll(d)
    PROVE  PromptInv'
<1>1. ~Awaits(d) /\ UNCHANGED <<state, pc, msip, ipi_kind, pending>>
  BY DEF Scan, Check, JoinPoll, Awaits, cpuVars, coreVars
<1>2. dpc'[d] \in {"scan", "check", "app"} \/ (dpc'[d] = "write" /\ state[tgt[d]] = "IDLE" /\ tgt' = tgt)
  BY DEF Scan, Check, JoinPoll, ReturnEnded, Return, Goto, callVars, IInv, TypeOK
<1>3. \A c \in Secondary : Quiet(c)'
  BY <1>1, AllQuiet, CoreFrame
<1>4. \A e \in Directors : e = d
  BY DEF Prompt
<1> QED
  BY <1>1, <1>2, <1>3, <1>4 DEF PromptInv, Awaits

(* No thread is destroyed. *)
LEMMA NoDestroy ==
    ASSUME Prompt, IInv, NEW d \in Directors
    PROVE  ~DestroyIdle(d) /\ ~DestroyError(d) /\ ~Kill(d) /\ (dpc[d] \in {"write", "ipi"} => op[d] = "create")
<1>1. op[d] # "destroy"
  BY ThreadsAssumption DEF Prompt, IInv, TypeOK
<1> QED
  BY <1>1 DEF IInv, CallAgrees, DestroyIdle, DestroyError, Kill

LEMMA WritePrompt ==
    ASSUME Prompt, IInv, PromptInv, NEW d \in Directors, Write(d)
    PROVE  PromptInv'
<1>1. /\ ~Awaits(d) /\ dpc[d] = "write" /\ UNCHANGED <<state, pc, msip, ipi_kind, op, tgt>>
      /\ dpc'[d] = "ipi" /\ pending'[d] = Fields
  BY DEF Write, Goto, Awaits, cpuVars, coreVars, callVars, IInv, TypeOK
<1>2. \A c \in Secondary : Quiet(c)'
  BY <1>1, AllQuiet, CoreFrame
<1>3. \A e \in Directors : e = d
  BY DEF Prompt
<1> QED
  BY <1>1, <1>2, <1>3 DEF PromptInv, Awaits, Fields

LEMMA CommitPrompt ==
    ASSUME Prompt, IInv, PromptInv, NEW d \in Directors, NEW f \in Fields, Commit(d, f)
    PROVE  PromptInv'
<1>1. /\ UNCHANGED <<state, pc, msip, op, tgt, dpc>> /\ f \in pending[d]
      /\ pending'[d] = pending[d] \ {f}
      /\ f = "ipi_kind" => ipi_kind'[tgt[d]] = IF op[d] = "create" THEN "CREATE" ELSE "KILL"
      /\ f # "ipi_kind" => ipi_kind' = ipi_kind
  BY DEF Commit, coreVars, callVars, IInv, TypeOK
<1>2. dpc[d] = "ipi" /\ op[d] = "create"
  BY <1>1, NoDestroy DEF IInv, CallAgrees
<1>3. ~Awaits(d)
  BY <1>2 DEF Awaits
<1>4. \A c \in Secondary : Quiet(c)'
  BY <1>1, <1>3, AllQuiet, CoreFrame
<1>5. \A e \in Directors : e = d
  BY DEF Prompt
<1> QED
  BY <1>1, <1>2, <1>4, <1>5 DEF PromptInv, Awaits

(* The interrupt finds a core that is idle and waits for it. *)
LEMMA SendIpiPrompt ==
    ASSUME Prompt, IInv, PromptInv, NEW d \in Directors, SendIpi(d)
    PROVE  PromptInv'
<1> DEFINE c == tgt[d]
<1>1. dpc[d] = "ipi" /\ op[d] = "create"
  BY NoDestroy DEF SendIpi
<1>2. /\ UNCHANGED <<state, pc, op, tgt, ipi_kind>> /\ pending[d] = {}
      /\ msip' = [msip EXCEPT ![c] = 1] /\ dpc'[d] = "poll"
  BY <1>1 DEF SendIpi, Goto, coreVars, cpuVars, callVars, IInv, TypeOK
<1>3. c \in Secondary /\ state[c] = "IDLE" /\ ipi_kind[c] = "CREATE"
  BY <1>1, <1>2, CpuFacts DEF PromptInv, IInv, TypeOK, CoreZeroRuns
<1>4. ~Awaits(d)
  BY <1>1 DEF Awaits
<1>5. pc[c] = "wfi"
  <2>1. Quiet(c)
    BY <1>3, <1>4, AllQuiet
  <2>2. pc[c] \in CorePlaces
    BY <1>3, CpuFacts DEF IInv, TypeOK
  <2> QED
    BY <1>3, <2>1, <2>2 DEF Quiet, IInv, CoreStateAgrees, CorePlaces
<1>6. Answers(d, c)'
  BY <1>2, <1>3, <1>5, CpuFacts DEF Answers, IInv, TypeOK
<1>7. \A b \in Secondary : b # c => Quiet(b)'
  BY <1>2, <1>4, AllQuiet, CoreFrame, CpuFacts DEF IInv, TypeOK
<1>8. \A e \in Directors : e = d
  BY DEF Prompt
<1> QED
  BY <1>1, <1>2, <1>6, <1>7, <1>8 DEF PromptInv, Awaits, Answers

(* The wait ends only by the answer. *)
LEMMA PollPrompt ==
    ASSUME Prompt, IInv, PromptInv, NEW d \in Directors, Poll(d) \/ Fill(d)
    PROVE  PromptInv'
<1>1. dpc[d] \in {"poll", "fill"} /\ UNCHANGED <<state, pc, msip, op, tgt, ipi_kind>>
  BY DEF Poll, Fill, coreVars, cpuVars, callVars
<1>2. op[d] = "create" /\ Answers(d, tgt[d]) /\ tgt[d] \in Secondary
  BY <1>1, CpuFacts DEF PromptInv, Awaits, IInv, TypeOK, CallAgrees, CoreZeroRuns
<1>3. state[tgt[d]] = "AWAKE" /\ pc[tgt[d]] = "wait" /\ msip[tgt[d]] = 0
  <2>1. CASE Poll(d)
    <3>1. state[tgt[d]] \in {"AWAKE", "ERROR"}
      BY <2>1 DEF Poll, Prompt
    <3> QED
      BY <1>2, <3>1 DEF Answers, IInv, CoreStateAgrees
  <2>2. CASE Fill(d)
    BY <1>2, <2>2 DEF Fill, Answers
  <2> QED
    BY <2>1, <2>2
<1>4. dpc'[d] \in {"fill", "declare"}
  BY <1>3 DEF Poll, Fill, Return, Goto, Prompt, IInv, TypeOK
<1>5. \A b \in Secondary : b # tgt[d] => Quiet(b)'
  BY <1>1, AloneQuiet, CoreFrame
<1>6. \A e \in Directors : e = d
  BY DEF Prompt
<1> QED
  BY <1>1, <1>2, <1>3, <1>4, <1>5, <1>6 DEF PromptInv, Awaits, Answers

LEMMA DeclarePrompt ==
    ASSUME Prompt, IInv, PromptInv, NEW d \in Directors, Declare(d)
    PROVE  PromptInv'
<1>1. /\ dpc[d] = "declare" /\ UNCHANGED <<pc, msip, ipi_kind, op, tgt>> /\ dpc'[d] = "app"
      /\ state' = [state EXCEPT ![tgt[d]] = "RUNNING"]
  BY DEF Declare, Return, Goto, coreVars, cpuVars, callVars, IInv, TypeOK
<1>2. op[d] = "create" /\ Answers(d, tgt[d]) /\ tgt[d] \in Secondary
  BY <1>1, CpuFacts DEF PromptInv, Awaits, IInv, TypeOK, CallAgrees, CoreZeroRuns
<1>3. Quiet(tgt[d])'
  BY <1>1, <1>2, CpuFacts DEF Answers, Quiet, IInv, TypeOK
<1>4. \A b \in Secondary : b # tgt[d] => Quiet(b)'
  BY <1>1, AloneQuiet, CoreFrame, CpuFacts DEF IInv, TypeOK
<1>5. \A b \in Secondary : Quiet(b)'
  BY <1>1, <1>3, <1>4
<1>6. \A e \in Directors : e = d
  BY DEF Prompt
<1> QED
  BY <1>1, <1>5, <1>6 DEF PromptInv, Awaits

(* A core that is on its way to AWAKE is the target of the call. *)
LEMMA AnswersAlone ==
    ASSUME Prompt, PromptInv, NEW c \in Secondary, ~Quiet(c)
    PROVE  \E d \in Directors : /\ tgt[d] = c /\ Awaits(d) /\ Answers(d, c)
                                /\ \A e \in Directors : e = d
BY DEF Prompt, PromptInv

LEMMA StartupPrompt ==
    ASSUME Prompt, IInv, PromptInv, NEW c \in Secondary,
           Wake(c) \/ RecvIpi(c) \/ AckIpi(c) \/ ReadKind(c) \/ SetAwake(c)
    PROVE  PromptInv'
<1>1. ~Quiet(c) /\ UNCHANGED <<ipi_kind, dpc, op, tgt, pending>>
  BY DEF Wake, RecvIpi, AckIpi, ReadKind, SetAwake, Quiet, cpuVars, directorVars, callVars
<1>2. PICK d \in Directors : /\ tgt[d] = c /\ Awaits(d) /\ Answers(d, c)
                             /\ \A e \in Directors : e = d
  BY <1>1, AnswersAlone
<1>3. \A b \in Secondary : b # c => state'[b] = state[b] /\ pc'[b] = pc[b] /\ msip'[b] = msip[b]
  BY CpuFacts DEF Wake, RecvIpi, AckIpi, ReadKind, SetAwake, SetState, Step, IInv, TypeOK
<1>4. Answers(d, c)'
  <2>1. dpc[d] = "poll"
    BY <1>2 DEF Wake, RecvIpi, AckIpi, ReadKind, SetAwake, Answers, Awaits
  <2> QED
    BY <1>1, <1>2, <2>1, CpuFacts DEF Wake, RecvIpi, AckIpi, ReadKind, SetAwake, SetState, Step,
       Answers, IInv, TypeOK
<1>5. \A b \in Secondary : b # c => Quiet(b)'
  BY <1>2, <1>3, AloneQuiet, CoreFrame
<1> QED
  BY <1>1, <1>2, <1>4, <1>5 DEF PromptInv, Awaits, Answers

(* A core that runs, or is about to, is nobody's target. *)
LEMMA RunsPrompt ==
    ASSUME Prompt, IInv, PromptInv, NEW c \in Secondary,
           SeeRunning(c) \/ LoadFunc(c) \/ LoadArgs(c) \/ Worker(c)
    PROVE  PromptInv'
<1>1. /\ state[c] = "RUNNING" /\ pc[c] \in {"wait", "load func", "load args", "run"}
      /\ state \in [Cpus -> CpuStates] /\ pc \in [Cpus -> CorePlaces] /\ c \in Cpus
  BY CpuFacts DEF SeeRunning, LoadFunc, LoadArgs, Worker, Succeed, Fail, Ended, IInv, TypeOK, CoreStateAgrees
<1>2. /\ UNCHANGED <<ipi_kind, dpc, op, tgt, pending, msip>>
      /\ \A b \in Secondary : b # c => state'[b] = state[b] /\ pc'[b] = pc[b]
      /\ pc'[c] \in {"load func", "load args", "run", "wfi", "halt"}
      /\ state'[c] \in {"RUNNING", "IDLE", "ERROR"}
  <2>1. CASE SeeRunning(c) \/ LoadFunc(c) \/ LoadArgs(c)
    BY <1>1, <2>1, CpuFacts DEF SeeRunning, LoadFunc, LoadArgs, Step, cpuVars, directorVars, callVars
  <2>2. CASE Worker(c)
    BY <1>1, <2>2, CpuFacts DEF Worker, Succeed, Fail, Ended, SetState, Step, cpuVars, directorVars, callVars
  <2> QED
    BY <2>1, <2>2
<1>3. Quiet(c)
  <2>1. SUFFICES ASSUME ~Quiet(c) PROVE FALSE
    OBVIOUS
  <2>2. PICK d \in Directors : Answers(d, c)
    BY <2>1, AnswersAlone
  <2> QED
    BY <1>1, <2>2 DEF Answers
<1>4. Quiet(c)'
  BY <1>2, <1>3 DEF Quiet
<1>5. \A b \in Secondary : b # c => (Quiet(b)' <=> Quiet(b))
  BY <1>2, CoreFrame
<1>6. ASSUME NEW d \in Directors, Awaits(d) PROVE tgt[d] # c /\ tgt[d] \in Secondary
  <2>1. Answers(d, tgt[d]) /\ dpc[d] \notin {"app", "scan"}
    BY <1>6 DEF PromptInv, Awaits
  <2>2. tgt[d] \in Secondary
    BY <2>1, CpuFacts DEF IInv, TypeOK, CoreZeroRuns
  <2>3. ~Answers(d, c)
    BY <1>1 DEF Answers
  <2> QED
    BY <2>1, <2>2, <2>3
<1>7. ASSUME NEW d \in Directors, dpc[d] \in {"write", "ipi"} PROVE tgt[d] # c /\ tgt[d] \in Secondary
  BY <1>1, <1>7, CpuFacts DEF PromptInv, IInv, TypeOK, CoreZeroRuns
<1>8. ASSUME NEW d \in Directors, Awaits(d)' PROVE Answers(d, tgt[d])'
  <2>1. Awaits(d) /\ Answers(d, tgt[d])
    BY <1>2, <1>8 DEF PromptInv, Awaits
  <2>2. state'[tgt[d]] = state[tgt[d]] /\ pc'[tgt[d]] = pc[tgt[d]]
    BY <1>2, <1>6, <2>1
  <2> QED
    BY <1>2, <2>1, <2>2 DEF Answers
<1>9. ASSUME NEW b \in Secondary PROVE Quiet(b)' \/ \E d \in Directors : (tgt[d] = b /\ Awaits(d))'
  <2>1. CASE Quiet(b)
    BY <1>4, <1>5, <2>1
  <2>2. CASE ~Quiet(b)
    BY <1>2, <2>2 DEF PromptInv, Awaits
  <2> QED
    BY <2>1, <2>2
<1>10. ASSUME NEW d \in Directors, dpc'[d] \in {"write", "ipi"}
       PROVE  /\ state'[tgt'[d]] = "IDLE"
              /\ dpc'[d] = "ipi" /\ "ipi_kind" \notin pending'[d] => ipi_kind'[tgt'[d]] = "CREATE"
  <2>1. dpc[d] \in {"write", "ipi"} /\ tgt'[d] = tgt[d] /\ state'[tgt[d]] = state[tgt[d]]
    BY <1>2, <1>7, <1>10
  <2> QED
    BY <1>2, <2>1 DEF PromptInv
<1> QED
  BY <1>8, <1>9, <1>10 DEF PromptInv

LEMMA PromptInit == ASSUME Init PROVE PromptInv
<1>1. \A c \in Secondary : Quiet(c)
  BY CpuFacts DEF Init, Quiet
<1> QED
  BY <1>1 DEF Init, PromptInv, Awaits

LEMMA PromptNext == ASSUME Prompt, IInv, PromptInv, [Next]_vars PROVE PromptInv'
<1>1. ASSUME NEW d \in Directors, Director(d) PROVE PromptInv'
  BY <1>1, SearchPrompt, NoDestroy, WritePrompt, CommitPrompt, SendIpiPrompt, PollPrompt,
     DeclarePrompt DEF Director
<1>2. ASSUME NEW c \in Secondary, Startup(c) \/ Worker(c) PROVE PromptInv'
  BY <1>2, StartupPrompt, RunsPrompt DEF Startup, Worker
<1>3. CASE UNCHANGED vars
  BY <1>3, PromptFrame DEF vars, cpuVars, coreVars, directorVars, callVars
<1> QED
  BY <1>1, <1>2, <1>3, ApplicationPrompt DEF Next

(* As long as no wait expires and no thread is destroyed, an interrupt, and a
   core that wakes up or is AWAKE, belong to the thread_create() under way:
   for any number of cores and threads, and one director. *)
THEOREM HandshakeCorrect ==
    ASSUME ~TIMEOUTS, "destroy" \notin Ops, \A d, e \in Directors : e = d
    PROVE  Spec => []HandshakeHasDirector
<1>1. Prompt
  BY DEF Prompt
<1>2. PromptInv => HandshakeHasDirector
  BY DEF PromptInv, Quiet, Awaits, HandshakeHasDirector
<1>3. Init => PromptInv
  BY PromptInit
<1>4. IInv /\ PromptInv /\ [Next]_vars => PromptInv'
  BY <1>1, PromptNext
<1>5. Spec => []IInv
  BY ThreadsInvariant
<1> QED
  BY <1>2, <1>3, <1>4, <1>5, PTL DEF Spec
=============================================================================
