------------------------------ MODULE Services ------------------------------
(***************************************************************************)
(* The services of the library that share no state with each other nor     *)
(* with the rest, side by side.  A behaviour exercises one of them, its    *)
(* subject: nothing could be seen in their product that is not seen in     *)
(* each of them.                                                           *)
(***************************************************************************)
EXTENDS BitSet, Mem, Counter, Plic, Console, Cache, Hwpf, Timer, Pmu

VARIABLE subject

servicesVars == <<subject, bitsetVars, memVars, counterVars, plicVars,
                  consoleVars, cacheVars, hwpfVars, timerVars, pmuVars>>
Subjects == {"bitset", "mem", "counter", "plic", "console", "cache", "hwpf", "timer", "pmu"}

ServicesInit == /\ subject \in Subjects
                /\ BitSetInit /\ MemInit /\ CounterInit /\ PlicInit
                /\ ConsoleInit /\ CacheInit /\ HwpfInit
                /\ TimerInit /\ PmuInit
                /\ subject # "timer" => wide         \* their inputs are
                /\ subject # "cache" => kind = "data" \* those of one service

(* Leaves alone the variables of all the services but one. *)
Only(s) == /\ subject = s /\ UNCHANGED subject
           /\ s # "bitset" => UNCHANGED bitsetVars
           /\ s # "mem" => UNCHANGED memVars
           /\ s # "counter" => UNCHANGED counterVars
           /\ s # "plic" => UNCHANGED plicVars
           /\ s # "console" => UNCHANGED consoleVars
           /\ s # "cache" => UNCHANGED cacheVars
           /\ s # "hwpf" => UNCHANGED hwpfVars
           /\ s # "timer" => UNCHANGED timerVars
           /\ s # "pmu" => UNCHANGED pmuVars

ServicesNext == \/ Only("bitset") /\ BitSetNext
                \/ Only("mem") /\ MemNext
                \/ Only("counter") /\ CounterNext
                \/ Only("plic") /\ PlicNext
                \/ Only("console") /\ ConsoleNext
                \/ Only("cache") /\ CacheNext
                \/ Only("hwpf") /\ HwpfNext
                \/ Only("timer") /\ TimerNext
                \/ Only("pmu") /\ PmuNext

ServicesSpec == ServicesInit /\ [][ServicesNext]_servicesVars /\ ConsoleFairness
=============================================================================
