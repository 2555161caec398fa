-------------------------------- MODULE Boot --------------------------------
(***************************************************************************)
(* bsp/shared/crt0.S, bsp/shared/bsp_start.c and bsp_init.c, from the      *)
(* reset of all the harts to main(), a software interrupt sent by main(),  *)
(* and the report of its status.  The harts start together: each draws a   *)
(* stack, the boot hart clears and fills the memory they share, the others *)
(* wait for an interrupt and then read it.                                 *)
(*                                                                         *)
(* Plain stores of the boot hart, that of the interrupt included, reach    *)
(* memory one by one in any order unless a fence, or an AMO of the setters *)
(* of the state, stands in between.  On this platform hart and logical     *)
(* identifiers are the same.  What happens after the wake-up is Threads.   *)
(***************************************************************************)
EXTENDS Integers, FiniteSets

CONSTANTS NCPUS,      \* BSP_CONFIG_NCPUS
          STACK_SIZE, \* of one core
          BootHarts,  \* the possible values of BSP_CONFIG_HARTID_BOOT
          Statuses,   \* what main() may return
          JUNK,       \* the content of memory and registers at reset
          NONE        \* nothing: no store in flight, nothing read, no report

Harts == 0 .. NCPUS - 1
ASSUME BootAssumption == /\ NCPUS \in Nat \ {0} /\ STACK_SIZE \in Nat \ {0}
                         /\ BootHarts \subseteq Harts
                         /\ JUNK # NONE /\ {JUNK, NONE} \cap Int = {}
                         /\ JUNK # <<"desc", 0>>
                         /\ NONE \notin [sid : Harts, hid : Harts, state : {"IDLE", "RUNNING"}]

EXIT_FAILURE == 1
NOID == 65535 \* what memset(0xff) leaves in the tables

VARIABLES boot,          \* the boot hart
          pc, sp,        \* of each hart
          stack_pointer, \* the word that crt0.S draws stacks from
          memory,        \* the shared words, of which the boot hart
          pending,       \* ... has stores in flight
          i, tp,         \* its loop counter and its thread pointer
          thread,        \* its thread_t in cpu_list[0], NONE: a null pointer
          seen,          \* what a woken hart has read
          status,        \* what the boot hart passed to exit()
          tohost         \* the status reported to the environment

harts == <<boot, pc>>
stacks == <<sp, stack_pointer>>
store == <<memory, pending>>
vars == <<harts, stacks, store, i, tp, thread, seen, status, tohost>>

Words == {"hid2sid", "sid2hid", "desc", "msip"} \X Harts
Bss == {w \in Words : w[1] # "msip"} \* cpu_hid2sid, cpu_sid2hid, cpu_list
Zero(w) == IF w[1] = "desc" THEN [sid |-> 0, hid |-> 0, state |-> "IDLE"] ELSE 0

(* A core's own stores are visible to it before they are to others. *)
Read(w) == IF pending[w] # NONE THEN pending[w] ELSE memory[w]
Drained == \A w \in Words : pending[w] = NONE

Goto(h, l) == pc' = [pc EXCEPT ![h] = l]
BootAt(l) == pc[boot] = l
BootGoto(l) == Goto(boot, l)

Init == /\ boot \in BootHarts
        /\ pc = [h \in Harts |-> "reset"]
        /\ sp = [h \in Harts |-> JUNK]
        /\ stack_pointer = STACK_SIZE \* counted from _sstack
        /\ memory = [w \in Words |-> IF w \in Bss THEN JUNK ELSE 0]
        /\ pending = [w \in Words |-> NONE]
        /\ i = 0 /\ tp = JUNK /\ thread = JUNK
        /\ seen = [h \in Harts |-> NONE]
        /\ status = NONE /\ tohost = NONE

-----------------------------------------------------------------------------
(* _start, and the dispatch of bsp_start() *)
Started(h) == Goto(h, IF h = boot THEN "bss" ELSE "wfi")
(* The load of a build for one core *)
LoadStack(h) ==
    /\ pc[h] = "reset"
    /\ sp' = [sp EXCEPT ![h] = stack_pointer]
    /\ Started(h)
    /\ UNCHANGED <<boot, stack_pointer, store, i, tp, thread, seen, status, tohost>>
DrawStack(h) ==
    /\ pc[h] = "reset"
    /\ sp' = [sp EXCEPT ![h] = stack_pointer]
    /\ stack_pointer' = stack_pointer + IF NCPUS > 1 THEN STACK_SIZE ELSE 0
    /\ Started(h)
    /\ UNCHANGED <<boot, store, i, tp, thread, seen, status, tohost>>

(* A store in flight becomes visible. *)
Drain(w) == /\ pending[w] # NONE
            /\ memory' = [memory EXCEPT ![w] = pending[w]]
            /\ pending' = [pending EXCEPT ![w] = NONE]
            /\ UNCHANGED <<harts, stacks, i, tp, thread, seen, status, tohost>>

-----------------------------------------------------------------------------
(* bsp_primary_start() *)
ClearBss == /\ BootAt("bss") /\ BootGoto("ids")
            /\ pending' = [w \in Words |-> IF w \in Bss THEN Zero(w) ELSE pending[w]]
            /\ thread' = NONE
            /\ UNCHANGED <<boot, stacks, memory, i, tp, seen, status, tohost>>

(* bsp_mp_init(): both tables to 0xff, ... *)
ClearIds == /\ BootAt("ids") /\ BootGoto("fill") /\ i' = 0
            /\ pending' = [w \in Words |-> IF w[1] \in {"hid2sid", "sid2hid"}
                                           THEN NOID ELSE pending[w]]
            /\ UNCHANGED <<boot, stacks, memory, tp, thread, seen, status, tohost>>
(* ... then one entry, ... *)
FillIds == /\ BootAt("fill") /\ BootGoto("state")
           /\ pending' = [pending EXCEPT ![<<"hid2sid", i>>] = i, ![<<"sid2hid", i>>] = i]
           /\ UNCHANGED <<boot, stacks, memory, i, tp, thread, seen, status, tohost>>
(* ... and cpu_set_state(), an AMO that orders the stores around it. *)
SetIdle == /\ BootAt("state") /\ Drained
           /\ memory' = [memory EXCEPT ![<<"desc", i>>].state = "IDLE"]
           /\ i' = IF i + 1 < NCPUS THEN i + 1 ELSE 0
           /\ BootGoto(IF i + 1 < NCPUS THEN "fill" ELSE "check")
           /\ UNCHANGED <<boot, stacks, pending, tp, thread, seen, status, tohost>>

(* The boot hart must be logical core 0, ... *)
CheckBootHart ==
    /\ BootAt("check")
    /\ IF Read(<<"hid2sid", boot>>) = 0
       THEN BootGoto("describe") /\ UNCHANGED status
       ELSE BootGoto("exit") /\ status' = EXIT_FAILURE
    /\ UNCHANGED <<boot, stacks, store, i, tp, thread, seen, tohost>>
(* ... and describes all the cores, itself first. *)
Describe ==
    /\ BootAt("describe")
    /\ pending' = [pending EXCEPT ![<<"desc", i>>] =
                     [sid |-> i,
                      hid |-> IF i = 0 THEN boot ELSE Read(<<"sid2hid", i>>),
                      state |-> IF i = 0 THEN "RUNNING" ELSE "IDLE"]]
    /\ i' = i + 1
    /\ BootGoto(IF i + 1 < NCPUS THEN "describe" ELSE "fence")
    /\ UNCHANGED <<boot, stacks, memory, tp, thread, seen, status, tohost>>
(* cpu_dfence(), the thread pointer, and the thread_t of main(), ... *)
cpu_set_thread_pointer(p) == tp' = p
EnterMainUnfenced ==
    /\ BootAt("fence") /\ BootGoto("main")
    /\ cpu_set_thread_pointer(<<"desc", 0>>) /\ thread' = 0
    /\ UNCHANGED <<boot, stacks, store, i, seen, status, tohost>>
EnterMain ==
    /\ BootAt("fence") /\ Drained /\ BootGoto("main")
    /\ cpu_set_thread_pointer(<<"desc", 0>>) /\ thread' = 0
    /\ UNCHANGED <<boot, stacks, store, i, seen, status, tohost>>
(* ... for which malloc() may find no memory. *)
AllocationFails ==
    /\ BootAt("fence") /\ Drained /\ BootGoto("exit")
    /\ cpu_set_thread_pointer(<<"desc", 0>>) /\ thread' = NONE
    /\ status' = EXIT_FAILURE
    /\ UNCHANGED <<boot, stacks, store, i, seen, tohost>>

-----------------------------------------------------------------------------
(* main() calls clint_send_ipi(): a store and a fence. *)
SendIpi(h) == /\ BootAt("main") /\ BootGoto("ipi")
              /\ pending' = [pending EXCEPT ![<<"msip", h>>] = 1]
              /\ UNCHANGED <<boot, stacks, memory, i, tp, thread, seen, status, tohost>>
IpiSent == /\ BootAt("ipi") /\ Drained /\ BootGoto("main")
           /\ UNCHANGED <<boot, stacks, store, i, tp, thread, seen, status, tohost>>

MainReturns(s) == /\ BootAt("main") /\ BootGoto("exit") /\ status' = s
                  /\ UNCHANGED <<boot, stacks, store, i, tp, thread, seen, tohost>>

(* thread_id() reads anything when its pointer is junk, or leads to a
   description without thread_t. *)
cpu_get_thread_pointer == tp
thread_id == IF cpu_get_thread_pointer = <<"desc", 0>> /\ thread = 0 THEN {0} ELSE {0, -1}

(* _exit() reports the status on the thread with the identifier 0. *)
ExitNoReport == /\ BootAt("exit") /\ BootGoto("loop")
                /\ tohost' \in {IF id = 0 THEN NONE ELSE status : id \in thread_id}
                /\ UNCHANGED <<boot, stacks, store, i, tp, thread, seen, status>>
Exit == /\ BootAt("exit") /\ BootGoto("loop")
        /\ tohost' \in {IF id = 0 THEN status ELSE NONE : id \in thread_id}
        /\ UNCHANGED <<boot, stacks, store, i, tp, thread, seen, status>>

-----------------------------------------------------------------------------
(* bsp_start_wait_for_ipi(), then bsp_secondary_start() up to the test of
   the kind of interrupt: the wfi loop ends when msip is pending. *)
WakeUp(h) == /\ pc[h] = "wfi" /\ memory[<<"msip", h>>] = 1
             /\ Goto(h, "woken")
             /\ UNCHANGED <<boot, stacks, store, i, tp, thread, seen, status, tohost>>
RecvIpi(h) ==
    /\ pc[h] = "woken"
    /\ LET sid == memory[<<"hid2sid", h>>] IN
         seen' = [seen EXCEPT ![h] =
                    [sid |-> sid, desc |-> IF sid \in Harts THEN memory[<<"desc", sid>>] ELSE JUNK]]
    /\ memory' = [memory EXCEPT ![<<"msip", h>>] = 0]
    /\ Goto(h, "thread")
    /\ UNCHANGED <<boot, stacks, pending, i, tp, thread, status, tohost>>

Primary == \/ ClearBss \/ ClearIds \/ FillIds \/ SetIdle
           \/ CheckBootHart \/ Describe \/ EnterMain \/ AllocationFails
           \/ IpiSent \/ Exit
Secondary(h) == WakeUp(h) \/ RecvIpi(h)

(* A system whose main() has returned stays in loops. *)
Done == BootAt("loop") /\ UNCHANGED vars

Next == \/ \E h \in Harts : DrawStack(h) \/ Secondary(h)
        \/ \E w \in Words : Drain(w)
        \/ Primary
        \/ \E h \in Harts \ {boot} : SendIpi(h)
        \/ \E s \in Statuses : MainReturns(s)
        \/ Done

Spec == Init /\ [][Next]_vars

(* Harts run, stores drain, and main() may run for ever. *)
FairSpec == /\ Spec /\ WF_vars(Primary)
            /\ \A h \in Harts : WF_vars(DrawStack(h)) /\ WF_vars(Secondary(h))
            /\ \A w \in Words : WF_vars(Drain(w))
-----------------------------------------------------------------------------
(* No two harts share a part of their stacks, however their starts
   interleave, and all stacks lie between _sstack and _estack. *)
Stack(h) == sp[h] - STACK_SIZE .. sp[h] - 1
StacksDisjoint ==
    \A h \in Harts : sp[h] # JUNK =>
      /\ Stack(h) \subseteq 0 .. NCPUS * STACK_SIZE - 1
      /\ \A g \in Harts \ {h} : sp[g] # JUNK => Stack(g) \cap Stack(h) = {}

(* A hart woken by main() reads its own logical identifier and its complete
   description, although nothing orders its start with the boot hart's. *)
WokenSeesItsDescription ==
    \A h \in Harts : seen[h] # NONE =>
      seen[h] = [sid |-> h, desc |-> [sid |-> h, hid |-> h, state |-> "IDLE"]]

(* The status that main() returns is reported: its thread_t has the
   identifier 0.  When the boot hart is not logical core 0, or there is no
   memory for its thread_t, exit() runs before thread_id() is defined. *)
MainIsReported == \A s \in Statuses : boot = 0 /\ thread = 0 /\ status = s ~> tohost = s

=============================================================================
