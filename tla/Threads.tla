------------------------------ MODULE Threads ------------------------------
(***************************************************************************)
(* common/threads.c, common/mp.c and the secondary start routine of        *)
(* bsp/shared/bsp_start.c: a core dispatches a worker function to another  *)
(* core through the per-cpu description cpu_list[] and a software          *)
(* interrupt of the clint.                                                 *)
(*                                                                         *)
(* Cores are named by their logical identifier (sid).  The core that       *)
(* calls thread_create(), thread_join() or thread_destroy() is called the  *)
(* director, as in the comments of the code.  One step is one access to    *)
(* the state that the cores share.  The state word is accessed by          *)
(* sequentially consistent AMOs; the other fields of a description are     *)
(* written by plain stores, which become visible one by one and in any     *)
(* order until the fence before the interrupt.                             *)
(*                                                                         *)
(* A function and its argument are named by the thread_t they were given   *)
(* with, so that a mix-up of two calls is visible.                         *)
(***************************************************************************)
EXTENDS Integers, FiniteSets

CONSTANTS NCPUS,     \* BSP_CONFIG_NCPUS
          Directors, \* the cores that call the thread functions
          Threads,   \* the thread_t structures of the application
          Ops,       \* the thread functions it calls
          TIMEOUTS,  \* may a wait of 10000 polls end without an answer?
          NULL

Cpus == 0 .. NCPUS - 1
Secondary == Cpus \ {0}

ASSUME ThreadsAssumption == /\ NCPUS \in Nat \ {0}
                            /\ Directors \subseteq Cpus
                            /\ Ops \subseteq {"create", "join", "destroy"}
                            /\ TIMEOUTS \in BOOLEAN
                            /\ NULL \notin Threads \cup Int \cup {"create", "join", "destroy"}

VARIABLES
  (* cpu_list[c] *)
  state, ipi_kind, entry_func, args, thread,
  (* the msip register of core c in the clint *)
  msip,
  (* what core c does, and what it loaded to run *)
  pc, run_func, run_args,
  (* thread_t t: cpu_id, and desc, which is written together with id *)
  cpu_id, desc,
  (* director d: its place in the call, its locals, its stores in flight *)
  dpc, op, thr, tgt, pending, ret,
  (* the application's book-keeping: threads created and not yet joined or
     destroyed; and how the last run of a thread ended (no code) *)
  live, outcome

cpuVars == <<ipi_kind, entry_func, args, thread>>
coreVars == <<pc, run_func, run_args>>
threadVars == <<cpu_id, desc>>
callVars == <<op, thr, tgt>>
appVars == <<live, outcome>>
directorVars == <<dpc, callVars, pending, ret>>
vars == <<state, cpuVars, msip, coreVars, threadVars, directorVars, appVars>>

Fields == {"entry_func", "args", "ipi_kind", "thread"}

(* bsp_primary_start() has filled cpu_list[], every secondary core waits for
   an interrupt and core 0 is in main(). *)
Init == /\ state = [c \in Cpus |-> IF c = 0 THEN "RUNNING" ELSE "IDLE"]
        /\ ipi_kind = [c \in Cpus |-> "NULL"]
        /\ entry_func = [c \in Cpus |-> NULL]
        /\ args = [c \in Cpus |-> NULL]
        /\ thread = [c \in Cpus |-> NULL]
        /\ msip = [c \in Cpus |-> 0]
        /\ pc = [c \in Cpus |-> IF c = 0 THEN "run" ELSE "wfi"]
        /\ run_func = [c \in Cpus |-> NULL]
        /\ run_args = [c \in Cpus |-> NULL]
        /\ cpu_id \in [Threads -> Secondary \cup {NULL}]
        /\ desc = [t \in Threads |-> NULL]
        /\ dpc = [d \in Directors |-> "app"]
        /\ op = [d \in Directors |-> NULL]
        /\ thr = [d \in Directors |-> NULL]
        /\ tgt = [d \in Directors |-> 0]
        /\ pending = [d \in Directors |-> {}]
        /\ ret = [d \in Directors |-> NULL]
        /\ live = {}
        /\ outcome = [t \in Threads |-> "none"]

(* The AMOs that read a word of a description.  (Those that set one: SetState.
   The director writes the other words with plain stores.) *)
cpu_get_state(c) == state[c]
cpu_get_ipi_kind(c) == ipi_kind[c]
cpu_get_entry_func(c) == entry_func[c]
cpu_get_args(c) == args[c]
-----------------------------------------------------------------------------
(* The director *)

Goto(d, l) == dpc' = [dpc EXCEPT ![d] = l]

Return(d, r) == /\ Goto(d, "app")
                /\ ret' = [ret EXCEPT ![d] = r]

(* A core makes calls while it runs application code.  Two cores never use
   the same thread_t at the same time: it is no more protected than any
   other structure of the application. *)
Call(d, o, t, c, l) ==
    /\ o \in Ops
    /\ dpc[d] = "app" /\ pc[d] = "run"
    /\ \A e \in Directors : dpc[e] # "app" => thr[e] # t
    /\ op' = [op EXCEPT ![d] = o]
    /\ thr' = [thr EXCEPT ![d] = t]
    /\ tgt' = [tgt EXCEPT ![d] = c]
    /\ ret' = [ret EXCEPT ![d] = NULL]
    /\ Goto(d, l)
    /\ UNCHANGED <<state, cpuVars, msip, coreVars, threadVars, pending, appVars>>

(* thread_create(): a target named by the caller, or a search. *)
CreateOn(d, t) == /\ t \notin live /\ cpu_id[t] # NULL
                  /\ Call(d, "create", t, cpu_id[t], "check")
CreateAnywhere(d, t) == /\ t \notin live /\ cpu_id[t] = NULL
                        /\ Call(d, "create", t, 0, "scan")

(* mp_get_free_cpu(): read one state word after the other.  When every core
   is busy, thread_create() returns -1. *)
ScanPastTheEnd(d) ==
    /\ dpc[d] = "scan"
    /\ IF cpu_get_state(tgt[d]) = "IDLE"
       THEN Goto(d, "check") /\ UNCHANGED tgt
       ELSE tgt' = [tgt EXCEPT ![d] = @ + 1] /\ UNCHANGED dpc
    /\ UNCHANGED <<state, cpuVars, msip, coreVars, threadVars, op, thr,
                   pending, ret, appVars>>
Scan(d) ==
    /\ dpc[d] = "scan"
    /\ \/ /\ cpu_get_state(tgt[d]) = "IDLE"
          /\ Goto(d, "check")
          /\ UNCHANGED <<tgt, ret>>
       \/ /\ cpu_get_state(tgt[d]) # "IDLE" /\ tgt[d] + 1 < NCPUS
          /\ tgt' = [tgt EXCEPT ![d] = @ + 1]
          /\ UNCHANGED <<dpc, ret>>
       \/ /\ cpu_get_state(tgt[d]) # "IDLE" /\ tgt[d] + 1 = NCPUS
          /\ Return(d, -1)
          /\ UNCHANGED tgt
    /\ UNCHANGED <<state, cpuVars, msip, coreVars, threadVars, op, thr,
                   pending, appVars>>

(* thread_create(): is the target core actually IDLE? *)
CheckNothing(d) ==
    /\ dpc[d] = "check"
    /\ Goto(d, "write")
    /\ UNCHANGED <<state, cpuVars, msip, coreVars, threadVars, callVars,
                   pending, ret, appVars>>
Check(d) ==
    /\ dpc[d] = "check"
    /\ IF cpu_get_state(tgt[d]) = "IDLE" THEN Goto(d, "write") /\ UNCHANGED ret
                                 ELSE Return(d, -1)
    /\ UNCHANGED <<state, cpuVars, msip, coreVars, threadVars, callVars,
                   pending, appVars>>

(* thread_create(): issue the stores of the four arguments. *)
WriteNoKind(d) ==
    /\ dpc[d] = "write"
    /\ pending' = [pending EXCEPT ![d] = Fields \ {"ipi_kind"}]
    /\ Goto(d, "ipi")
    /\ UNCHANGED <<state, cpuVars, msip, coreVars, threadVars, callVars, ret,
                   appVars>>
Write(d) ==
    /\ dpc[d] = "write"
    /\ pending' = [pending EXCEPT ![d] = Fields]
    /\ Goto(d, "ipi")
    /\ UNCHANGED <<state, cpuVars, msip, coreVars, threadVars, callVars, ret,
                   appVars>>

(* A store of the director becomes visible to the other cores. *)
Commit(d, f) ==
    LET written(g, mem, v) == IF f = g THEN [mem EXCEPT ![tgt[d]] = v] ELSE mem
        kind == IF op[d] = "create" THEN "CREATE" ELSE "KILL"
    IN  /\ f \in pending[d]
        /\ pending' = [pending EXCEPT ![d] = @ \ {f}]
        /\ entry_func' = written("entry_func", entry_func, thr[d])
        /\ args' = written("args", args, thr[d])
        /\ thread' = written("thread", thread, thr[d])
        /\ ipi_kind' = written("ipi_kind", ipi_kind, kind)
        /\ UNCHANGED <<state, msip, coreVars, threadVars, dpc, callVars, ret,
                       appVars>>

(* cpu_dfence() and clint_send_ipi() to the target, for both callers; then
   thread_create() polls and thread_destroy() joins. *)
SendIpiUnfenced(d) ==
    /\ dpc[d] = "ipi"
    /\ msip' = [msip EXCEPT ![tgt[d]] = 1]
    /\ Goto(d, IF op[d] = "create" THEN "poll" ELSE "join")
    /\ UNCHANGED <<state, cpuVars, coreVars, threadVars, callVars, pending,
                   ret, appVars>>
SendIpi(d) ==
    /\ dpc[d] = "ipi"
    /\ pending[d] = {}
    /\ msip' = [msip EXCEPT ![tgt[d]] = 1]
    /\ Goto(d, IF op[d] = "create" THEN "poll" ELSE "join")
    /\ UNCHANGED <<state, cpuVars, coreVars, threadVars, callVars, pending,
                   ret, appVars>>

(* thread_create(): a poll that ends the wait.  The last of the 10000 polls
   ends it with -2; how many polls fit between two steps of another core is
   not fixed, so any poll may be the last one. *)
PollTooEager(d) ==
    /\ dpc[d] = "poll"
    /\ \/ cpu_get_state(tgt[d]) # "ERROR" /\ Goto(d, "fill") /\ UNCHANGED ret
       \/ cpu_get_state(tgt[d]) = "ERROR" /\ Return(d, -1)
    /\ UNCHANGED <<state, cpuVars, msip, coreVars, threadVars, callVars,
                   pending, appVars>>
Poll(d) ==
    /\ dpc[d] = "poll"
    /\ \/ cpu_get_state(tgt[d]) = "AWAKE" /\ Goto(d, "fill") /\ UNCHANGED ret
       \/ cpu_get_state(tgt[d]) = "ERROR" /\ Return(d, -1)
       \/ TIMEOUTS /\ cpu_get_state(tgt[d]) \notin {"AWAKE", "ERROR"} /\ Return(d, -2)
    /\ UNCHANGED <<state, cpuVars, msip, coreVars, threadVars, callVars,
                   pending, appVars>>

(* thread_create(): fill the thread_t. *)
Fill(d) ==
    /\ dpc[d] = "fill"
    /\ cpu_id' = [cpu_id EXCEPT ![thr[d]] = tgt[d]]
    /\ desc' = [desc EXCEPT ![thr[d]] = tgt[d]]
    /\ Goto(d, "declare")
    /\ UNCHANGED <<state, cpuVars, msip, coreVars, callVars, pending, ret,
                   appVars>>

(* thread_create(): declare the thread as running, and return 0. *)
DeclareNothing(d) ==
    /\ dpc[d] = "declare"
    /\ live' = live \cup {thr[d]}
    /\ outcome' = [outcome EXCEPT ![thr[d]] = "running"]
    /\ Return(d, 0)
    /\ UNCHANGED <<state, cpuVars, msip, coreVars, threadVars, callVars, pending>>
Declare(d) ==
    /\ dpc[d] = "declare"
    /\ state' = [state EXCEPT ![tgt[d]] = "RUNNING"]
    /\ live' = live \cup {thr[d]}
    /\ outcome' = [outcome EXCEPT ![thr[d]] = "running"]
    /\ Return(d, 0)
    /\ UNCHANGED <<cpuVars, msip, coreVars, threadVars, callVars, pending>>

(* thread_destroy() and thread_join() of a thread that was created. *)
Destroy(d, t) == t \in live /\ Call(d, "destroy", t, desc[t], "idle?")
Join(d, t) == t \in live /\ Call(d, "join", t, desc[t], "join")

(* The application may use the thread_t again once a call told it that the
   core of the thread is IDLE or in ERROR. *)
ReturnEnded(d, r) == /\ Return(d, r)
                     /\ live' = live \ {thr[d]}

(* thread_destroy(): nothing to do when the target core is already IDLE; *)
DestroyIdle(d) ==
    /\ dpc[d] = "idle?"
    /\ IF cpu_get_state(tgt[d]) = "IDLE" THEN ReturnEnded(d, 0)
                                 ELSE Goto(d, "error?") /\ UNCHANGED <<ret, live>>
    /\ UNCHANGED <<state, cpuVars, msip, coreVars, threadVars, callVars,
                   pending, outcome>>

(* thread_destroy(): a failure when the second read finds it in ERROR; *)
DestroyError(d) ==
    /\ dpc[d] = "error?"
    /\ IF cpu_get_state(tgt[d]) = "ERROR" THEN ReturnEnded(d, -1)
                                  ELSE Goto(d, "kill") /\ UNCHANGED <<ret, live>>
    /\ UNCHANGED <<state, cpuVars, msip, coreVars, threadVars, callVars,
                   pending, outcome>>

(* thread_destroy(): else issue the store of the KILL signal. *)
Kill(d) ==
    /\ dpc[d] = "kill"
    /\ pending' = [pending EXCEPT ![d] = {"ipi_kind"}]
    /\ Goto(d, "ipi")
    /\ UNCHANGED <<state, cpuVars, msip, coreVars, threadVars, callVars, ret,
                   appVars>>

(* thread_join(): a poll that ends the wait, the last one with -2. *)
JoinPollAwake(d) ==
    /\ dpc[d] = "join"
    /\ \/ cpu_get_state(tgt[d]) \in {"IDLE", "AWAKE", "RUNNING"} /\ ReturnEnded(d, 0)
       \/ cpu_get_state(tgt[d]) = "ERROR" /\ ReturnEnded(d, -1)
    /\ UNCHANGED <<state, cpuVars, msip, coreVars, threadVars, callVars,
                   pending, outcome>>
JoinPoll(d) ==
    /\ dpc[d] = "join"
    /\ \/ cpu_get_state(tgt[d]) = "IDLE" /\ ReturnEnded(d, 0)
       \/ cpu_get_state(tgt[d]) = "ERROR" /\ ReturnEnded(d, -1)
       \/ /\ TIMEOUTS /\ cpu_get_state(tgt[d]) \notin {"IDLE", "ERROR"}
          /\ Return(d, -2) /\ UNCHANGED live
    /\ UNCHANGED <<state, cpuVars, msip, coreVars, threadVars, callVars,
                   pending, outcome>>
-----------------------------------------------------------------------------
(* A secondary core *)

Step(c, l) == pc' = [pc EXCEPT ![c] = l]

SetState(c, s) == state' = [state EXCEPT ![c] = s]

(* bsp_start_wait_for_ipi() sees the pending bit. *)
Wake(c) ==
    /\ pc[c] = "wfi" /\ msip[c] = 1
    /\ Step(c, "recv")
    /\ UNCHANGED <<state, cpuVars, msip, run_func, run_args, threadVars,
                   directorVars, appVars>>

(* clint_recv_ipi() reads the msip register ... *)
RecvIpi(c) ==
    /\ pc[c] = "recv"
    /\ IF msip[c] = 1 THEN Step(c, "ack") /\ UNCHANGED state
                      ELSE Step(c, "halt") /\ SetState(c, "ERROR")
    /\ UNCHANGED <<cpuVars, msip, run_func, run_args, threadVars, directorVars,
                   appVars>>

(* ... and clears it in a second access. *)
AckNever(c) ==
    /\ pc[c] = "ack"
    /\ Step(c, "kind")
    /\ UNCHANGED <<state, cpuVars, msip, run_func, run_args, threadVars,
                   directorVars, appVars>>
AckIpi(c) ==
    /\ pc[c] = "ack"
    /\ msip' = [msip EXCEPT ![c] = 0]
    /\ Step(c, "kind")
    /\ UNCHANGED <<state, cpuVars, run_func, run_args, threadVars, directorVars,
                   appVars>>

(* Any other kind of interrupt than CREATE stops the core for good. *)
ReadKind(c) ==
    /\ pc[c] = "kind"
    /\ IF cpu_get_ipi_kind(c) = "CREATE" THEN Step(c, "awake") /\ UNCHANGED state
                                 ELSE Step(c, "halt") /\ SetState(c, "ERROR")
    /\ UNCHANGED <<cpuVars, msip, run_func, run_args, threadVars, directorVars,
                   appVars>>

(* Signal the director that this core is awake. *)
SetAwake(c) ==
    /\ pc[c] = "awake"
    /\ SetState(c, "AWAKE")
    /\ Step(c, "wait")
    /\ UNCHANGED <<cpuVars, msip, run_func, run_args, threadVars, directorVars,
                   appVars>>

(* The poll that sees that the director declared the thread as running. *)
SeeRunning(c) ==
    /\ pc[c] = "wait" /\ cpu_get_state(c) = "RUNNING"
    /\ Step(c, "load func")
    /\ UNCHANGED <<state, cpuVars, msip, run_func, run_args, threadVars,
                   directorVars, appVars>>

(* Load the entry function, then its argument, and call it. *)
LoadFunc(c) ==
    /\ pc[c] = "load func"
    /\ run_func' = [run_func EXCEPT ![c] = cpu_get_entry_func(c)]
    /\ Step(c, "load args")
    /\ UNCHANGED <<state, cpuVars, msip, run_args, threadVars, directorVars,
                   appVars>>
LoadArgs(c) ==
    /\ pc[c] = "load args"
    /\ run_args' = [run_args EXCEPT ![c] = cpu_get_args(c)]
    /\ Step(c, "run")
    /\ UNCHANGED <<state, cpuVars, msip, run_func, threadVars, directorVars,
                   appVars>>

(* The worker function returns: the core goes back to wait for an interrupt,
   or stops for good when the worker returned THREAD_FAILURE. *)
Ended(c, how, s, l) ==
    /\ pc[c] = "run" /\ (c \in Directors => dpc[c] = "app")
    /\ SetState(c, s)
    /\ Step(c, l)
    /\ outcome' = [outcome EXCEPT ![run_func[c]] = how]
    /\ UNCHANGED <<cpuVars, msip, run_func, run_args, threadVars, directorVars,
                   live>>
SucceedStaysRunning(c) == Ended(c, "success", "RUNNING", "wfi")
Succeed(c) == Ended(c, "success", "IDLE", "wfi")
Fail(c) == Ended(c, "failure", "ERROR", "halt")
-----------------------------------------------------------------------------
Director(d) ==
    \/ Scan(d) \/ Check(d) \/ Write(d) \/ (\E f \in Fields : Commit(d, f))
    \/ SendIpi(d) \/ Poll(d) \/ Fill(d) \/ Declare(d)
    \/ DestroyIdle(d) \/ DestroyError(d) \/ Kill(d) \/ JoinPoll(d)

Application(d) == \E t \in Threads : \/ CreateOn(d, t) \/ CreateAnywhere(d, t)
                                     \/ Destroy(d, t) \/ Join(d, t)

Startup(c) == \/ Wake(c) \/ RecvIpi(c) \/ AckIpi(c) \/ ReadKind(c) \/ SetAwake(c)
              \/ SeeRunning(c) \/ LoadFunc(c) \/ LoadArgs(c)

Worker(c) == Succeed(c) \/ Fail(c)

Next == \/ \E d \in Directors : Application(d) \/ Director(d)
        \/ \E c \in Secondary : Startup(c) \/ Worker(c)

Spec == Init /\ [][Next]_vars

(* A core that has a step to take in the library takes it, and a worker
   function that runs returns.  The application need not call anything. *)
Fairness == /\ \A d \in Directors : WF_vars(Director(d))
            /\ \A c \in Secondary : WF_vars(Startup(c)) /\ WF_vars(Worker(c))
FairSpec == Spec /\ Fairness
-----------------------------------------------------------------------------
CpuStates == {"IDLE", "AWAKE", "RUNNING", "ERROR"}
CorePlaces == {"wfi", "recv", "ack", "kind", "awake", "wait", "load func",
               "load args", "run", "halt"}
CallPlaces == {"app", "scan", "check", "write", "ipi", "poll", "fill", "declare",
               "idle?", "error?", "kill", "join"}
Outcomes == {"none", "running", "success", "failure"}

(* Type invariant. *)
TypeOK ==
    /\ state \in [Cpus -> CpuStates]
    /\ ipi_kind \in [Cpus -> {"NULL", "CREATE", "KILL"}]
    /\ entry_func \in [Cpus -> Threads \cup {NULL}]
    /\ args \in [Cpus -> Threads \cup {NULL}]
    /\ thread \in [Cpus -> Threads \cup {NULL}]
    /\ msip \in [Cpus -> {0, 1}]
    /\ pc \in [Cpus -> CorePlaces]
    /\ run_func \in [Cpus -> Threads \cup {NULL}]
    /\ run_args \in [Cpus -> Threads \cup {NULL}]
    /\ cpu_id \in [Threads -> Cpus \cup {NULL}]
    /\ desc \in [Threads -> Cpus \cup {NULL}]
    /\ dpc \in [Directors -> CallPlaces]
    /\ op \in [Directors -> Ops \cup {NULL}]
    /\ thr \in [Directors -> Threads \cup {NULL}]
    /\ tgt \in [Directors -> Cpus]
    /\ pending \in [Directors -> SUBSET Fields]
    /\ ret \in [Directors -> {NULL, 0, -1, -2}]
    /\ live \in SUBSET Threads
    /\ outcome \in [Threads -> Outcomes]

(* The state word that the directors read agrees with what the core does: a
   late AWAKE never overwrites RUNNING, the end of a worker never overwrites
   a later state, and a core that stopped for good stays in ERROR. *)
CoreStateAgrees == \A c \in Secondary :
    /\ pc[c] \in {"wfi", "recv", "ack", "kind", "awake"} => state[c] = "IDLE"
    /\ pc[c] = "wait" => state[c] \in {"AWAKE", "RUNNING"}
    /\ pc[c] \in {"load func", "load args", "run"} => state[c] = "RUNNING"
    /\ pc[c] = "halt" => state[c] = "ERROR"

(* A worker runs with the function and the argument of one and the same
   thread_create(), on the core that the thread_t of that call names, and
   cpu->thread is the thread it executes.  Late interrupts of calls that gave
   up do not change that. *)
DispatchConsistent == \A c \in Secondary : pc[c] = "run" =>
    /\ run_func[c] = thread[c] /\ run_args[c] = thread[c]
    /\ thread[c] \in Threads
    /\ desc[thread[c]] = c
    /\ outcome[thread[c]] = "running"

(* thread_join() and thread_destroy() tell that a thread ended only when its
   worker function returned; they return 0 only when it returned success. *)
EndIsReal == [][\A d \in Directors :
    (op[d] \in {"join", "destroy"} /\ dpc[d] # "app" /\ dpc'[d] = "app") =>
        /\ ret'[d] = 0 => outcome[thr[d]] = "success"
        /\ ret'[d] = -1 => outcome[thr[d]] \in {"success", "failure"}]_vars

(* The library implements the pool of cores. *)
Pool == INSTANCE ThreadPool
        WITH Cores  <- Secondary, NONE <- NULL,
             job    <- [c \in Secondary |-> IF state[c] = "RUNNING"
                                            THEN thread[c] ELSE NULL],
             broken <- {c \in Secondary : state[c] = "ERROR"}
ImplementsThreadPool == Pool!Spec

(* When no wait expires and no thread is destroyed, an interrupt or a core
   that wakes up always belongs to the thread_create() under way: no core is
   left AWAKE without a director, and no interrupt is left for later. *)
HandshakeHasDirector == \A c \in Secondary :
    (msip[c] = 1 \/ state[c] = "AWAKE"
                 \/ pc[c] \in {"recv", "ack", "kind", "awake"}) =>
        \E d \in Directors : /\ op[d] = "create" /\ tgt[d] = c
                             /\ dpc[d] \in {"poll", "fill", "declare"}

(* Under the same conditions a thread_create() that found an idle core
   succeeds. *)
CreateSucceeds == \A d \in Directors : dpc[d] = "write" ~> ret[d] = 0

(* Every call of a director returns. *)
CallsReturn == \A d \in Directors : dpc[d] # "app" ~> dpc[d] = "app"

(* A thread that thread_create() declared as running gets to run, and ends. *)
CreatedThreadsEnd == \A t \in Threads :
    outcome[t] = "running" ~> outcome[t] \in {"success", "failure"}
-----------------------------------------------------------------------------
(* The inductive invariant behind CoreStateAgrees, DispatchConsistent,
   EndIsReal and ImplementsThreadPool, for one director: core 0. *)

(* A director knows the thread_t it works on, and a thread that was created
   has a core. *)
ThreadsKnown ==
    /\ \A d \in Directors : dpc[d] # "app" => thr[d] \in Threads
    /\ \A d \in Directors : dpc[d] = "declare" => desc[thr[d]] # NULL
    /\ \A t \in live : desc[t] # NULL

(* Core 0 is never the target of a call. *)
CoreZeroRuns ==
    /\ state[0] = "RUNNING" /\ pc[0] = "run"
    /\ \A t \in Threads : cpu_id[t] # 0 /\ desc[t] # 0
    /\ \A d \in Directors : dpc[d] \notin {"app", "scan"} => tgt[d] # 0

(* Each place of a call belongs to one function; the stores in flight are
   those of that function; a thread_create() works on a thread that is not
   live, the other calls on the core of a live one. *)
CallAgrees == \A d \in Directors :
    /\ dpc[d] \in {"scan", "check", "write", "poll", "fill", "declare"}
          => op[d] = "create"
    /\ dpc[d] \in {"idle?", "error?", "kill"} => op[d] = "destroy"
    /\ dpc[d] = "join" => op[d] \in {"join", "destroy"}
    /\ dpc[d] = "ipi" => op[d] \in {"create", "destroy"}
    /\ dpc[d] # "app" /\ op[d] = "create" => thr[d] \notin live
    /\ dpc[d] # "app" /\ op[d] # "create" => thr[d] \in live /\ desc[thr[d]] = tgt[d]
    /\ dpc[d] = "declare" => desc[thr[d]] = tgt[d]
    /\ dpc[d] # "ipi" => pending[d] = {}
    /\ dpc[d] = "ipi" /\ op[d] = "destroy" => pending[d] \subseteq {"ipi_kind"}

(* From the check on, the target of thread_create() runs nothing until the
   director declares it as running. *)
TargetReserved == \A d \in Directors :
    /\ dpc[d] \in {"write", "ipi", "poll"} /\ op[d] = "create"
          => state[tgt[d]] # "RUNNING"
    /\ dpc[d] \in {"fill", "declare"} => state[tgt[d]] = "AWAKE"

(* What the director wrote for its target stays there. *)
ArgumentsWritten == \A d \in Directors :
    dpc[d] \in {"ipi", "poll", "fill", "declare"} /\ op[d] = "create" =>
        /\ "entry_func" \notin pending[d] => entry_func[tgt[d]] = thr[d]
        /\ "args" \notin pending[d] => args[tgt[d]] = thr[d]
        /\ "thread" \notin pending[d] => thread[tgt[d]] = thr[d]

(* A core that was declared as running has the arguments of one thread, and
   that thread is the core's. *)
RunningConsistent == \A c \in Secondary : state[c] = "RUNNING" =>
    /\ thread[c] \in Threads
    /\ entry_func[c] = thread[c] /\ args[c] = thread[c]
    /\ desc[thread[c]] = c /\ thread[c] \in live /\ outcome[thread[c]] = "running"
    /\ pc[c] \in {"load args", "run"} => run_func[c] = thread[c]
    /\ pc[c] = "run" => run_args[c] = thread[c]

(* The director can tell from the state of a thread's core how it ended. *)
OutcomeKnown == \A t \in Threads :
    /\ t \in live => outcome[t] # "none"
    /\ outcome[t] = "running" =>
         t \in live /\ state[desc[t]] = "RUNNING" /\ thread[desc[t]] = t
    /\ t \in live /\ outcome[t] = "failure" => state[desc[t]] = "ERROR"

IInv == /\ TypeOK /\ ThreadsKnown /\ CoreZeroRuns /\ CoreStateAgrees /\ CallAgrees
        /\ TargetReserved /\ ArgumentsWritten /\ RunningConsistent /\ OutcomeKnown
-----------------------------------------------------------------------------
(* What the comments say, and the code does not do.                        *)

(* threads.c:105: after the KILL signal thread_destroy() waits for the
   target core to be IDLE.  So when it returned 0, and until the next call,
   the core is IDLE and can be used again. *)
DestroyedCoreIsIdle == \A d \in Directors :
    (dpc[d] = "app" /\ op[d] = "destroy" /\ ret[d] = 0) => state[tgt[d]] = "IDLE"

(* bsp_start.c:183: a core that is AWAKE waits for the director to declare
   its thread as running, and the director does. *)
AwakeIsDeclared == \A c \in Secondary : state[c] = "AWAKE" ~> state[c] = "RUNNING"

(* mp.h:62: cpu->thread points to the thread that the core executes. *)
ThreadIsExecuted == \A c \in Secondary : pc[c] = "run" => thread[c] = run_func[c]
=============================================================================
