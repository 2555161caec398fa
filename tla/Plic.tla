-------------------------------- MODULE Plic --------------------------------
(***************************************************************************)
(* drivers/plic: the registers of the interrupt controller and the         *)
(* functions that set them.  A register is named by its offset; those of   *)
(* the enable bits are shared by 32 sources and are updated by a read and  *)
(* a write, without a lock, by any core and by its interrupt handlers.     *)
(***************************************************************************)
EXTENDS Integers

CONSTANTS Callers,  \* the cores and their handlers
          PlicHarts, Sources,
          Levels    \* the priorities and thresholds in use

ASSUME PlicAssumption == /\ \A h \in PlicHarts : h \in 0 .. 15871
                         /\ \A s \in Sources : s \in 1 .. 1023

PLIC_PRIO_OFFSET == 0
PLIC_PENDING_OFFSET == 4096
PLIC_ENABLE_OFFSET == 8192
PLIC_ENABLE_SPAN == 128
PLIC_THRESHOLD_OFFSET == 2097152
PLIC_CLAIM_OFFSET == 2097156
PLIC_THRESHOLD_CLAIM_SPAN == 4096

Prio(source) == PLIC_PRIO_OFFSET + 4 * source
Enable(hart, source) == PLIC_ENABLE_OFFSET + hart * PLIC_ENABLE_SPAN + (source \div 32) * 4
Threshold(hart) == PLIC_THRESHOLD_OFFSET + hart * PLIC_THRESHOLD_CLAIM_SPAN
Claim(hart) == PLIC_CLAIM_OFFSET + hart * PLIC_THRESHOLD_CLAIM_SPAN
Pending(source) == PLIC_PENDING_OFFSET + (source \div 32) * 4

EnableOffsets == {Enable(h, s) : h \in PlicHarts, s \in Sources}
LevelOffsets == {Prio(s) : s \in Sources} \cup {Threshold(h) : h \in PlicHarts}
Offsets32 == EnableOffsets \cup LevelOffsets \cup {Claim(h) : h \in PlicHarts}

VARIABLES enable,  \* the ones of each register of enable bits
          level,   \* each priority and threshold register
          call,    \* each caller's update under way
          overlap  \* whether its register was written since it read it (no code)

plicVars == <<enable, level, call, overlap>>

Idle == [offset |-> -1]
PlicInit == /\ enable = [o \in EnableOffsets |-> {}]
            /\ level = [o \in LevelOffsets |-> 0]
            /\ call = [c \in Callers |-> Idle]
            /\ overlap = [c \in Callers |-> FALSE]

(* plic_set_enable(): the read, ... *)
plic_set_enable(c, hart, source, value) ==
    /\ call[c] = Idle
    /\ LET o == Enable(hart, source) IN
         call' = [call EXCEPT ![c] = [offset |-> o, hart |-> hart, source |-> source,
                                      value |-> value, read |-> enable[o]]]
    /\ overlap' = [overlap EXCEPT ![c] = FALSE]
    /\ UNCHANGED <<enable, level>>
(* ... and the write of the new bits. *)
Mask(c) == {call[c].source % 32}
OnlyMask(c) == IF call[c].value THEN Mask(c) ELSE {}
NewBits(c) == IF call[c].value THEN call[c].read \cup Mask(c) ELSE call[c].read \ Mask(c)
WriteEnable(c) ==
    /\ call[c] # Idle
    /\ enable' = [enable EXCEPT ![call[c].offset] = NewBits(c)]
    /\ overlap' = [d \in Callers |-> overlap[d] \/ call[d].offset = call[c].offset]
    /\ call' = [call EXCEPT ![c] = Idle]
    /\ UNCHANGED level

plic_get_enable(hart, source) == source % 32 \in enable[Enable(hart, source)]

(* plic_set_prio(), plic_set_threshold() *)
plic_set_level(o, value) ==
    /\ level' = [level EXCEPT ![o] = value]
    /\ enable' = IF o \in EnableOffsets THEN [enable EXCEPT ![o] = {}] ELSE enable
    /\ UNCHANGED <<call, overlap>>

PlicNext == \/ \E c \in Callers :
                 \/ \E h \in PlicHarts, s \in Sources, v \in BOOLEAN : plic_set_enable(c, h, s, v)
                 \/ WriteEnable(c)
            \/ \E o \in LevelOffsets, v \in Levels : plic_set_level(o, v)

PlicSpec == PlicInit /\ [][PlicNext]_plicVars
-----------------------------------------------------------------------------
(* An enable bit changes only by a call that names it, or by one that another
   write of the same register overtook between its read and its write: only
   then is an update of another source of the same hart undone.  A call that
   was not overtaken takes effect. *)
EnableIsLocal ==
    [][/\ \A h \in PlicHarts, s \in Sources :
            plic_get_enable(h, s)' # plic_get_enable(h, s) =>
              \E c \in Callers : /\ call[c] # Idle /\ call'[c] = Idle
                                 /\ call[c].hart = h
                                 /\ (call[c].source = s \/ overlap[c])
       /\ \A c \in Callers, h \in PlicHarts, s \in Sources :
            call[c] # Idle /\ call'[c] = Idle /\ call[c].hart = h /\ call[c].source = s =>
              plic_get_enable(h, s)' = call[c].value]_plicVars
=============================================================================
