------------------------------ MODULE Counter ------------------------------
(***************************************************************************)
(* The 64-bit counters (include/common/cpu.h, bsp_perf.h).  On a 32-bit    *)
(* core their halves are written and read by two instructions, and the     *)
(* counter goes on in between.  mcycle and minstret advance by one between *)
(* the two instructions, by more when a trap is taken there; the event     *)
(* counters (instruction and data cache misses) advance by any amount.     *)
(***************************************************************************)
EXTENDS Integers

CONSTANTS HALF,  \* the values of a half, 2^32 in the code
          GAPS   \* how far a counter advances between two instructions

ASSUME CounterAssumption == HALF \in Nat \ {0, 1} /\ GAPS \subseteq 0 .. HALF - 1

VARIABLES count,   \* the counter
          cop,     \* the instruction that comes next
          low,     \* the half that has been read
          arg,     \* the value that is being written
          begun,   \* the counter at the first instruction (no code)
          gap,     \* the advance between the instructions (no code)
          result

counterVars == <<count, cop, low, arg, begun, gap, result>>

Values64 == 0 .. HALF * HALF - 1
Lo(v) == v % HALF
Hi(v) == v \div HALF
Ticks(k) == (count + k) % (HALF * HALF)

CounterInit == /\ count = 0 /\ cop = "idle" /\ low = 0 /\ arg = 0
               /\ begun = 0 /\ gap = 0 /\ result = 0

(* Time passes; the counter may also have been left at any value. *)
Pass == /\ cop = "idle" /\ count' \in Values64
        /\ UNCHANGED <<cop, low, arg, begun, gap, result>>

(* A read of a 32-bit core: the low half, with one of the gaps to the next
   instruction, ... *)
ReadLo(gaps) ==
          /\ cop = "idle" /\ cop' = "hi"
          /\ low' = Lo(count) /\ begun' = count
          /\ gap' \in gaps /\ count' = Ticks(gap')
          /\ UNCHANGED <<arg, result>>
(* ... and the high half, which is decremented if lo was about to wrap. *)
ReadHiRaw ==
          /\ cop = "hi" /\ cop' = "read"
          /\ result' = Hi(count) * HALF + low
          /\ UNCHANGED <<count, low, arg, begun, gap>>
ReadHi == /\ cop = "hi" /\ cop' = "read"
          /\ LET hi == IF low = HALF - 1 THEN (Hi(count) - 1) % HALF ELSE Hi(count)
             IN  result' = hi * HALF + low
          /\ UNCHANGED <<count, low, arg, begun, gap>>

(* A write of a 32-bit core: a write of a half leaves the other one. *)
WriteLo(gaps) ==
           /\ cop = "idle" /\ cop' = "sethi"
           /\ arg' \in Values64 /\ begun' = arg'
           /\ gap' \in gaps
           /\ count' = (Hi(count) * HALF + Lo(arg') + gap') % (HALF * HALF)
           /\ UNCHANGED <<low, result>>
WriteHi == /\ cop = "sethi" /\ cop' = "set"
           /\ count' = Hi(arg) * HALF + Lo(count)
           /\ UNCHANGED <<low, arg, begun, gap, result>>

(* One instruction, after which the counter goes on *)
ReadWhole == /\ cop = "idle" /\ cop' = "read"
             /\ result' = count /\ begun' = count
             /\ gap' = 1 /\ count' = Ticks(1)
             /\ UNCHANGED <<low, arg>>
WriteWhole == /\ cop = "idle" /\ cop' = "set"
              /\ arg' \in Values64 /\ begun' = arg' /\ count' = arg'
              /\ UNCHANGED <<low, gap, result>>

(* The functions: on a 32-bit core, and on a 64-bit one.  Cycles and retired
   instructions always advance. *)
AlwaysOn == GAPS \ {0}
cpu_cycles == ReadLo(AlwaysOn) \/ ReadWhole
cpu_instructions == ReadLo(AlwaysOn) \/ ReadWhole
cpu_imiss == ReadLo(GAPS) \/ ReadWhole
cpu_dmiss == ReadLo(GAPS) \/ ReadWhole
cpu_set_cycles == WriteLo(AlwaysOn) \/ WriteWhole
cpu_set_instructions == WriteLo(AlwaysOn) \/ WriteWhole
cpu_set_imiss == WriteLo(GAPS) \/ WriteWhole
cpu_set_dmiss == WriteLo(GAPS) \/ WriteWhole
(* The BSP has its own, for 64-bit cores. *)
bsp_loads == ReadWhole
bsp_stores == ReadWhole
bsp_set_loads == WriteWhole
bsp_set_stores == WriteWhole

(* What the call computed is forgotten. *)
Finish == /\ cop \in {"read", "set"} /\ cop' = "idle"
          /\ low' = 0 /\ arg' = 0 /\ begun' = 0 /\ gap' = 0 /\ result' = 0
          /\ UNCHANGED count

CounterNext == \/ Pass \/ Finish \/ ReadHi \/ WriteHi
               \/ cpu_cycles \/ cpu_instructions \/ cpu_imiss \/ cpu_dmiss
               \/ cpu_set_cycles \/ cpu_set_instructions \/ cpu_set_imiss \/ cpu_set_dmiss
               \/ bsp_loads \/ bsp_stores \/ bsp_set_loads \/ bsp_set_stores

CounterSpec == CounterInit /\ [][CounterNext]_counterVars
-----------------------------------------------------------------------------
(* Does a low half of v wrap in g ticks? *)
Wraps(v, g) == Lo(v) + g >= HALF

(* What is read is what the counter was at the first instruction, if it
   advanced by one.  With another advance it is so unless the low half wraps
   after another value than its last, or not after that one: then the result
   is off by one unit of the high half.  A counter that is set goes on from
   its new value, whatever it was before, unless the low half wraps. *)
CounterReads ==
    cop = "read" =>
      /\ gap = 1 => result = begun
      /\ result = begun <=> (Wraps(begun, gap) <=> Lo(begun) = HALF - 1)
      /\ Lo(result) = Lo(begun)
CounterSets == cop = "set" /\ ~Wraps(begun, gap) => count = (begun + gap) % (HALF * HALF)
CounterIsExact == CounterReads /\ CounterSets
=============================================================================
