-------------------------------- MODULE Trap --------------------------------
(***************************************************************************)
(* common/trap_entry.S, common/trap_handler.c and the exit path of         *)
(* common/syscall.c, on one hart.  A trap saves the context in a frame on  *)
(* the stack, trap_handler() calls the handler registered for the cause or *)
(* panics, and the context is restored register by register.  A handler    *)
(* may enable interrupts again, so traps nest, also inside the restoring   *)
(* code.  The tables are per hart: other harts only appear as the callers  *)
(* of the setters.                                                         *)
(*                                                                         *)
(* An address is a piece of code and an offset in half words.  gpr stands  *)
(* for the content of all the registers of a trap frame, mcause for mcause *)
(* and mtval.  Offsets and nesting are bounded by MaxOff and MaxDepth.     *)
(***************************************************************************)
EXTENDS Integers, Sequences

CONSTANTS Harts,      \* the harts of the platform, 0 is the boot hart
          Interrupts, \* the interrupt causes that occur
          Exceptions, \* the exception causes that occur
          MaxOff,     \* the last offset in a piece of code
          MaxDepth,   \* how many frames the stack has room for
          NONE        \* nothing reported

(* What the dispatch knows of a cause: its slot in the handler tables, "none"
   for a cause without one (U and S mode interrupts, page faults, calls). *)
IrqSlot == [software |-> "ipi", timer |-> "tim", external |-> "ext", other_irq |-> "none"]
ExcSlot == [instr_misaligned |-> "flt", instr_fault |-> "flt", illegal |-> "flt",
            load_misaligned |-> "ld_flt", load_fault |-> "ld_flt",
            store_misaligned |-> "st_flt", store_fault |-> "st_flt", page_fault |-> "none"]
SlotOf(cause) == IF cause \in Interrupts THEN IrqSlot[cause] ELSE ExcSlot[cause]
Slots == {SlotOf(c) : c \in Interrupts \cup Exceptions} \ {"none"}

ASSUME TrapAssumption == /\ Interrupts \subseteq DOMAIN IrqSlot
                         /\ Exceptions \subseteq DOMAIN ExcSlot
                         /\ MaxOff \in Nat /\ MaxDepth \in Nat
                         /\ NONE \notin {0, 1}

VARIABLES
  hart,       \* the hart this is about
  pc, gpr,    \* its program counter and registers
  mstatus,    \* MIE and MPIE
  mie,        \* the interrupts enabled one by one
  mcause, mepc,
  frames,     \* the trap frames on its stack, innermost last
  registered, \* the slots of this hart that hold a handler
  tohost,     \* the word read by the verification environment
  trapped,    \* what each trap under way interrupted (no code)
  asked,      \* the status the application passed to exit() (no code)
  panicked    \* whether a trap found no handler (no code)

csrs == <<mstatus, mie, mcause, mepc>>
ghosts == <<trapped, asked, panicked>>
vars == <<hart, pc, gpr, csrs, frames, registered, tohost, ghosts>>

Causes == Interrupts \cup Exceptions
Values == {0, 1} \* EXIT_SUCCESS and EXIT_FAILURE are two of the values
User == {"app", "callback"} \cup Slots  \* code of the application
Exiting == {"exit", "callback", "tohost", "loop"}
Restoring == {"cause", "status", "epc", "gprs", "mret"}
Code == User \cup Exiting \cup Restoring \cup {"entry", "dispatch", "skip"}

At(l) == [at |-> l, off |-> 0]
Plus(p, n) == [p EXCEPT !.off = @ + n]
Top == frames[Len(frames)]
Front(s) == SubSeq(s, 1, Len(s) - 1)

(* crt0.S clears MIE; mcause and mepc are not read before the first trap. *)
Init == /\ hart \in Harts
        /\ pc = At("app") /\ gpr \in Values
        /\ mstatus = [mie |-> FALSE, mpie |-> FALSE] /\ mie = {}
        /\ mcause \in Causes /\ mepc = At("app")
        /\ frames = <<>> /\ registered = {}
        /\ tohost = NONE
        /\ trapped = <<>> /\ asked = NONE /\ panicked = FALSE

-----------------------------------------------------------------------------
(* The application, its handlers and its callback. *)

(* An instruction of 2 or 4 bytes; cb_on_exit() leaves the status alone. *)
Step == /\ pc.at \in User
        /\ \E n \in {1, 2} : pc.off + n <= MaxOff /\ pc' = Plus(pc, n)
        /\ gpr' \in IF pc.at = "callback" THEN {gpr} ELSE Values
        /\ UNCHANGED <<hart, csrs, frames, registered, tohost, ghosts>>

(* cpu_enable_interrupts(), cpu_disable_interrupts() *)
SetInterrupts(on) == /\ pc.at \in User
                     /\ mstatus' = [mstatus EXCEPT !.mie = on]
                     /\ UNCHANGED <<hart, pc, gpr, mie, mcause, mepc, frames, registered, tohost, ghosts>>

(* cpu_enable_machine_*_irq(), cpu_disable_machine_*_irq() *)
SetIrq(i, on) == /\ pc.at \in User
                 /\ mie' = IF on THEN mie \cup {i} ELSE mie \ {i}
                 /\ UNCHANGED <<hart, pc, gpr, mstatus, mcause, mepc, frames, registered, tohost, ghosts>>

(* set_irq_*_handler(), set_exc_*_handler() for this hart, by any hart *)
SetHandler(s, on) == /\ registered' = IF on THEN registered \cup {s} ELSE registered \ {s}
                     /\ UNCHANGED <<hart, pc, gpr, csrs, frames, tohost, ghosts>>

(* exit(), also at the end of main() *)
Exit(status) == /\ pc.at = "app"
                /\ gpr' = status /\ asked' = status
                /\ pc' = At("exit")
                /\ UNCHANGED <<hart, csrs, frames, registered, tohost, trapped, panicked>>

-----------------------------------------------------------------------------
(* The hardware takes a trap and resumes at next afterwards. *)
TakeTrap(cause, next) ==
    /\ Len(frames) < MaxDepth
    /\ mcause' = cause /\ mepc' = pc
    /\ mstatus' = [mie |-> FALSE, mpie |-> mstatus.mie]
    /\ trapped' = Append(trapped, [pc |-> next, gpr |-> gpr, mie |-> mstatus.mie])
    /\ pc' = At("entry")
    /\ UNCHANGED <<hart, gpr, mie, frames, registered, tohost, asked, panicked>>
TakeInterrupt(cause) == /\ mstatus.mie /\ cause \in mie
                        /\ TakeTrap(cause, pc)
TakeException(cause) == /\ pc.at \in User /\ pc.off + 2 <= MaxOff
                        /\ TakeTrap(cause, Plus(pc, 2))

(* CPU_CONTEXT_SAVE *)
SaveNoStatus ==
        /\ pc.at = "entry"
        /\ frames' = Append(frames, [gpr |-> gpr, cause |-> mcause, epc |-> mepc,
                                     status |-> [mie |-> FALSE, mpie |-> FALSE]])
        /\ pc' = At("dispatch")
        /\ UNCHANGED <<hart, gpr, csrs, registered, tohost, ghosts>>
Save == /\ pc.at = "entry"
        /\ frames' = Append(frames, [gpr |-> gpr, cause |-> mcause,
                                     epc |-> mepc, status |-> mstatus])
        /\ pc' = At("dispatch")
        /\ UNCHANGED <<hart, gpr, csrs, registered, tohost, ghosts>>

(* trap_handler(), __irq_handler(), __exc_handler(): call the handler, *)
CallHandler == /\ pc.at = "dispatch" /\ SlotOf(Top.cause) \in registered
               /\ pc' = At(SlotOf(Top.cause)) /\ gpr' \in Values
               /\ UNCHANGED <<hart, csrs, frames, registered, tohost, ghosts>>
(* or, without one, exit(EXIT_FAILURE). *)
PanicKeepsStatus ==
         /\ pc.at = "dispatch" /\ SlotOf(Top.cause) \notin registered
         /\ pc' = At("exit") /\ panicked' = TRUE
         /\ UNCHANGED <<hart, gpr, csrs, frames, registered, tohost, trapped, asked>>
Panic == /\ pc.at = "dispatch" /\ SlotOf(Top.cause) \notin registered
         /\ pc' = At("exit") /\ gpr' = 1 /\ panicked' = TRUE
         /\ UNCHANGED <<hart, csrs, frames, registered, tohost, trapped, asked>>

(* The handler returns: trap_handler() steps over the instruction after an
   exception, and only then. *)
Return == /\ pc.at \in Slots
          /\ pc' = At(IF Top.cause \in Interrupts THEN "cause" ELSE "skip")
          /\ UNCHANGED <<hart, gpr, csrs, frames, registered, tohost, ghosts>>
Skip == /\ pc.at = "skip"
        /\ frames' = [frames EXCEPT ![Len(frames)].epc = Plus(@, 2)]
        /\ pc' = At("cause")
        /\ UNCHANGED <<hart, gpr, csrs, registered, tohost, ghosts>>

(* CPU_CONTEXT_RESTORE, in its order: mcause, mstatus, mepc, registers *)
RestoreCause == /\ pc.at = "cause"
                /\ mcause' = Top.cause /\ pc' = At("status")
                /\ UNCHANGED <<hart, gpr, mstatus, mie, mepc, frames, registered, tohost, ghosts>>
RestoreStatus == /\ pc.at = "status"
                 /\ mstatus' = Top.status /\ pc' = At("epc")
                 /\ UNCHANGED <<hart, gpr, mie, mcause, mepc, frames, registered, tohost, ghosts>>
RestoreNoEpc == /\ pc.at = "epc"
                /\ pc' = At("gprs")
                /\ UNCHANGED <<hart, gpr, csrs, frames, registered, tohost, ghosts>>
RestoreEpc == /\ pc.at = "epc"
              /\ mepc' = Top.epc /\ pc' = At("gprs")
              /\ UNCHANGED <<hart, gpr, mstatus, mie, mcause, frames, registered, tohost, ghosts>>
RestoreGprs == /\ pc.at = "gprs"
               /\ gpr' = Top.gpr /\ frames' = Front(frames) /\ pc' = At("mret")
               /\ UNCHANGED <<hart, csrs, registered, tohost, ghosts>>

(* mret *)
Mret == /\ pc.at = "mret"
        /\ pc' = mepc
        /\ mstatus' = [mie |-> mstatus.mpie, mpie |-> TRUE]
        /\ trapped' = Front(trapped)
        /\ UNCHANGED <<hart, gpr, mie, mcause, mepc, frames, registered, tohost, asked, panicked>>

-----------------------------------------------------------------------------
(* _exit(): the main thread, on hart 0, calls back and reports the status;
   any other hart only loops. *)
TestThreadInverted ==
              /\ pc.at = "exit"
              /\ pc' = At(IF hart # 0 THEN "callback" ELSE "loop")
              /\ UNCHANGED <<hart, gpr, csrs, frames, registered, tohost, ghosts>>
TestThread == /\ pc.at = "exit"
              /\ pc' = At(IF hart = 0 THEN "callback" ELSE "loop")
              /\ UNCHANGED <<hart, gpr, csrs, frames, registered, tohost, ghosts>>
CallbackReturns == /\ pc.at = "callback"
                   /\ pc' = At("tohost")
                   /\ UNCHANGED <<hart, gpr, csrs, frames, registered, tohost, ghosts>>
(* bsp_tohost_exit() *)
Report == /\ pc.at = "tohost"
          /\ tohost' = gpr /\ pc' = At("loop")
          /\ UNCHANGED <<hart, gpr, csrs, frames, registered, ghosts>>

Enter == Save \/ CallHandler \/ Panic
Leave == Return \/ Skip \/ RestoreCause \/ RestoreStatus \/ RestoreEpc \/ RestoreGprs \/ Mret
Leaving == TestThread \/ CallbackReturns \/ Report
Library == Enter \/ Leave \/ Leaving

Next == \/ Step \/ Library
        \/ \E on \in BOOLEAN : \/ SetInterrupts(on)
                               \/ \E i \in Interrupts : SetIrq(i, on)
                               \/ \E s \in Slots : SetHandler(s, on)
        \/ \E status \in Values : Exit(status)
        \/ \E cause \in Interrupts : TakeInterrupt(cause)
        \/ \E cause \in Exceptions : TakeException(cause)

Spec == Init /\ [][Next]_vars

(* The hart executes the library's code, handlers and callback return, and
   interrupts, which a handler may enable again, do not starve the exit. *)
FairSpec == Spec /\ WF_vars(Library) /\ SF_vars(Leaving)
-----------------------------------------------------------------------------
Addresses == [at : Code, off : 0 .. MaxOff]
Statuses == [mie : BOOLEAN, mpie : BOOLEAN]
Frames == [gpr : Values, cause : Causes, epc : Addresses, status : Statuses]
Contexts == [pc : Addresses, gpr : Values, mie : BOOLEAN]

(* Type invariant: an address stays inside its piece of code. *)
TypeOK == /\ hart \in Harts /\ pc \in Addresses /\ gpr \in Values
          /\ mstatus \in Statuses /\ mie \subseteq Interrupts
          /\ mcause \in Causes /\ mepc \in Addresses
          /\ frames \in Seq(Frames) /\ registered \subseteq Slots
          /\ tohost \in Values \cup {NONE}
          /\ trapped \in Seq(Contexts)
          /\ asked \in Values \cup {NONE} /\ panicked \in BOOLEAN

(* Where the code at nesting level i is, which the next trap interrupted. *)
Place(i) == IF i = Len(trapped) THEN pc.at ELSE trapped[i + 1].pc.at
Masked == {"entry", "dispatch", "epc", "gprs", "mret"}

(* Interrupts are off wherever a trap would lose the context: from the trap
   to the handler, and from mstatus being restored to mret. *)
MaskedWhenFragile == /\ pc.at \in Masked => ~mstatus.mie
                     /\ \A i \in 1 .. Len(trapped) : trapped[i].pc.at \notin Masked

(* The context is in the CSRs before it is saved and after it is restored. *)
ContextInHart ==
    LET t == trapped[Len(trapped)] IN
    pc.at \in {"entry", "mret"} =>
      /\ Len(trapped) = Len(frames) + 1
      /\ gpr = t.gpr /\ mstatus.mpie = t.mie
      /\ pc.at = "mret" => mepc = t.pc
      /\ pc.at = "entry" =>
           t.pc = IF mcause \in Interrupts THEN mepc ELSE Plus(mepc, 2)

(* In between it is in the frame, and epc has been advanced once, after an
   exception whose handler returned. *)
ContextInFrame ==
    /\ pc.at \notin {"entry", "mret"} => Len(trapped) = Len(frames)
    /\ \A i \in 1 .. Len(frames) :
         LET f == frames[i]  t == trapped[i] IN
         /\ f.gpr = t.gpr /\ f.status = [mie |-> FALSE, mpie |-> t.mie]
         /\ t.pc = IF f.cause \in Interrupts \/ Place(i) \in Restoring THEN f.epc
                                                                      ELSE Plus(f.epc, 2)
    /\ pc.at \in {"epc", "gprs"} => mstatus = Top.status
    /\ pc.at = "gprs" => mepc = Top.epc

(* A handler runs for a cause of its slot, and each level of nesting is in
   trap code, its handler or a panic. *)
HandlerIsForCause ==
    /\ Place(0) \in {"app"} \cup Exiting
    /\ \A i \in 1 .. Len(frames) :
         /\ Place(i) # "app"
         /\ Place(i) \in Slots => Place(i) = SlotOf(frames[i].cause)
         /\ Place(i) = "skip" => frames[i].cause \in Exceptions
         /\ Place(i) \in Exiting => panicked

(* The inductive invariant: the context of every trap under way is complete,
   in the hart or in its frame, whatever traps are nested inside. *)
IInv == TypeOK /\ MaskedWhenFragile /\ ContextInHart /\ ContextInFrame /\ HandlerIsForCause

(* A trap whose handler returns is transparent: the interrupted code goes on
   with its registers and its interrupt enable, at its pc (after an exception,
   4 bytes further). *)
Resumes == [][Len(trapped') < Len(trapped) =>
                LET t == trapped[Len(trapped)] IN
                /\ trapped' = Front(trapped)
                /\ pc' = t.pc /\ gpr' = t.gpr /\ mstatus'.mie = t.mie]_vars

(* What is reported is EXIT_FAILURE after a panic, else what the application
   passed to exit(), also when traps are taken during the exit. *)
ReportIsHonest == [][tohost' # tohost => tohost' = IF panicked THEN 1 ELSE asked]_vars

(* A panic on the boot hart is reported: nothing masks a failing run. *)
PanicIsReported == panicked /\ hart = 0 ~> tohost = 1
=============================================================================
