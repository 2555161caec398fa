------------------------------- MODULE Timer -------------------------------
(***************************************************************************)
(* drivers/clint: the timer of each hart.  Its interrupt is pending while  *)
(* the time has reached the hart's compare register.  Registers have 64    *)
(* bits, in two words; the driver accesses both at once in a 64-bit build  *)
(* and only the low ones in a 32-bit build.                                *)
(*                                                                         *)
(* The time stops at MaxTime, too early for a due time to exceed 64 bits,  *)
(* and a hart sets one of the Periods.                                     *)
(***************************************************************************)
EXTENDS Integers

CONSTANTS NHARTS,   \* ncores
          WORD,     \* the values of a word, 2^32 in the code
          Periods, MaxTime

ASSUME TimerAssumption == /\ NHARTS \in Nat \ {0} /\ WORD \in Nat \ {0, 1}
                          /\ Periods \subseteq 0 .. WORD - 1
                          /\ MaxTime \in Nat /\ MaxTime + WORD < WORD * WORD

VARIABLES wide,         \* whether this is a 64-bit build
          mtime,        \* the time
          cmp,          \* the words of the compare registers
          timer_period, \* clint_drv_t
          now,          \* the time that a hart has read, -1 outside of its call
          alarm         \* when its timer should fire (no code)

timerVars == <<wide, mtime, cmp, timer_period, now, alarm>>

TimerHarts == 0 .. NHARTS - 1
WordsOf64 == 0 .. WORD - 1
LowWord == [h \in TimerHarts |-> 2 * h] \* its index from CLINT_MTIMECMP_OFFSET on
NEVER == (WORD * WORD) - 1

(* What CLINT_GET and CLINT_SET transfer: two words, or the low one *)
Uintptr(v) == IF wide THEN v ELSE v % WORD
CLINT_SET(index, v) ==
    [cmp EXCEPT ![index] = v % WORD, ![index + 1] = IF wide THEN v \div WORD ELSE @]
mtimecmp(h) == cmp[2 * h] + WORD * cmp[(2 * h) + 1]
TimerPending(h) == mtime >= mtimecmp(h)

(* clint_init() from reset, when the registers hold anything: the time
   restarts, and the timers are virtually disabled.  The 32-bit build sets the
   low words only: it goes on with any high word of the time. *)
TimerInit == /\ wide \in BOOLEAN
             /\ mtime \in {t \in 0 .. MaxTime : t = 0 \/ (~wide /\ t % WORD = 0)}
             /\ \E high \in [TimerHarts -> WordsOf64] :
                  cmp = [k \in 0 .. (2 * NHARTS) - 1 |->
                           IF k % 2 = 0 \/ wide THEN WORD - 1 ELSE high[k \div 2]]
             /\ timer_period = [h \in TimerHarts |-> 0]
             /\ now = [h \in TimerHarts |-> -1]
             /\ alarm = [h \in TimerHarts |-> NEVER]

Tick == /\ mtime < MaxTime /\ mtime' = mtime + 1
        /\ UNCHANGED <<wide, cmp, timer_period, now, alarm>>

(* clint_set_timer_period(): the period, a read of the time, ... *)
SetPeriod(h, period) ==
    /\ now[h] = -1
    /\ timer_period' = [timer_period EXCEPT ![h] = period]
    /\ now' = [now EXCEPT ![h] = Uintptr(mtime)]
    /\ alarm' = [alarm EXCEPT ![h] = mtime + period]
    /\ UNCHANGED <<wide, mtime, cmp>>
(* ... and clint_set_mtimecmp(). *)
SetCompareAtPeriod(h) ==
    /\ now[h] # -1
    /\ cmp' = CLINT_SET(LowWord[h], Uintptr(timer_period[h]))
    /\ now' = [now EXCEPT ![h] = -1]
    /\ UNCHANGED <<wide, mtime, timer_period, alarm>>
SetCompare(h) ==
    /\ now[h] # -1
    /\ cmp' = CLINT_SET(LowWord[h], Uintptr(now[h] + timer_period[h]))
    /\ now' = [now EXCEPT ![h] = -1]
    /\ UNCHANGED <<wide, mtime, timer_period, alarm>>

TimerNext == \/ Tick
             \/ \E h \in TimerHarts : SetCompare(h) \/ \E p \in Periods : SetPeriod(h, p)

TimerSpec == TimerInit /\ [][TimerNext]_timerVars
-----------------------------------------------------------------------------
(* The timer of a hart fires once its period has passed since the call began
   to set it, not before and also if time goes on during the call, whatever
   the other harts set.  The 32-bit build never writes the high words: there
   it is so as long as that of the compare register is the one of the due time,
   and a timer that was not set yet may fire when the low word of the time is
   at its maximum, or at once if the high word of the time was left at reset. *)
TimerIsExact ==
    \A h \in TimerHarts : now[h] = -1 =>
      /\ wide \/ cmp[(2 * h) + 1] = alarm[h] \div WORD => (TimerPending(h) <=> mtime >= alarm[h])
      /\ alarm[h] = NEVER /\ mtime < WORD - 1 => ~TimerPending(h)
=============================================================================
