--------------------------- MODULE ServicesProofs ---------------------------
(***************************************************************************)
(* Proofs about the services that share no state: the PLIC driver, the     *)
(* performance monitor, the prefetcher, the timer, the counters, the       *)
(* caches, the bit sets, memset() and memcpy(), and the console, each for  *)
(* any values of its constants.  Each has an inductive invariant, and at   *)
(* the end come the theorems: of each service, and of their composition.   *)
(***************************************************************************)
EXTENDS Services, FiniteSetTheorems, FunctionTheorems, SequenceTheorems, TLAPS

-----------------------------------------------------------------------------
(* Division and remainder, by any divisor. *)
LEMMA DivMod ==
    ASSUME NEW v \in Int, NEW w \in Nat \ {0}
    PROVE  v \div w \in Int /\ v % w \in 0 .. w - 1 /\ v = w * (v \div w) + (v % w)
BY SMTT(30)

LEMMA DivNat == ASSUME NEW v \in Nat, NEW w \in Nat \ {0} PROVE v \div w \in Nat
BY SMTT(30)

LEMMA DivUnique ==
    ASSUME NEW w \in Nat \ {0}, NEW q \in Int, NEW r \in 0 .. w - 1
    PROVE  (w * q + r) \div w = q /\ (w * q + r) % w = r
BY SMTT(30)

LEMMA ModOfOneLess ==
    ASSUME NEW w \in Nat \ {0}, NEW k \in 0 .. w
    PROVE  (k - 1) % w = IF k = 0 THEN w - 1 ELSE k - 1
BY SMTT(30)

LEMMA ModSmall == ASSUME NEW w \in Nat \ {0}, NEW r \in 0 .. w - 1
                  PROVE  r % w = r /\ r \div w = 0
BY SMTT(30)

LEMMA DivMonotone ==
    ASSUME NEW w \in Nat \ {0}, NEW u \in Nat, NEW v \in Nat, u <= v
    PROVE  u \div w <= v \div w
BY SMTT(30)

LEMMA ProductMonotone ==
    ASSUME NEW w \in Nat, NEW u \in Int, NEW v \in Int, u <= v
    PROVE  w * u \in Int /\ w * v \in Int /\ w * u <= w * v
BY SMTT(30)

(* A remainder may be taken before an addition. *)
LEMMA ModAdd ==
    ASSUME NEW w \in Nat \ {0}, NEW u \in Nat, NEW v \in Nat
    PROVE  ((u % w) + v) % w = (u + v) % w
<1>1. /\ u \div w \in Int /\ u % w \in 0 .. w - 1 /\ u = w * (u \div w) + (u % w)
  BY DivMod
<1> DEFINE r == (u % w) + v
           k == r \div w
<1>2. r \in Nat /\ k \in Int /\ r % w \in 0 .. w - 1 /\ r = w * k + (r % w)
  BY <1>1, DivMod
<1>3. u + v = w * ((u \div w) + k) + (r % w)
  <2>1. u + v = w * (u \div w) + (w * k + (r % w))
    BY <1>1, <1>2
  <2> HIDE DEF r, k
  <2>2. w * ((u \div w) + k) = w * (u \div w) + w * k
    BY <1>1, <1>2, SMTT(30)
  <2>3. w * (u \div w) \in Int /\ w * k \in Int
    BY <1>1, <1>2
  <2> QED
    BY <2>1, <2>2, <2>3, <1>2
<1>4. (w * ((u \div w) + k) + (r % w)) % w = r % w
  <2>1. (u \div w) + k \in Int
    BY <1>1, <1>2
  <2> HIDE DEF r, k
  <2> QED
    BY <2>1, <1>2, DivUnique
<1> QED
  BY <1>3, <1>4

-----------------------------------------------------------------------------
(* The PLIC driver, for any set of harts and sources the controller may
   have, and any number of callers: the registers are distinct, and an
   update of an enable bit is lost only as EnableIsLocal says. *)

(* What the controller may have: PlicAssumption. *)
HartNumbers == 0 .. 15871
SourceNumbers == 1 .. 1023
LEMMA PlicNumbers == /\ \A h \in PlicHarts : h \in HartNumbers
                     /\ \A s \in Sources : s \in SourceNumbers
<1>1. ASSUME NEW h \in PlicHarts PROVE h \in HartNumbers
  BY PlicAssumption, SMTT(60) DEF HartNumbers
<1>2. ASSUME NEW s \in Sources PROVE s \in SourceNumbers
  <2>1. s \in 1 .. 1023
    BY PlicAssumption, SMTT(60)
  <2> QED
    BY <2>1, SMTT(60) DEF SourceNumbers
<1> QED
  BY <1>1, <1>2

(* The arithmetic of the offsets. *)
LEMMA WordNumber == ASSUME NEW s \in SourceNumbers PROVE s \div 32 \in 0 .. 31
  BY SMTT(60) DEF SourceNumbers

(* The offsets of two enable registers are equal only for the same hart and
   the same group of 32 sources. *)
LEMMA EnableInjective ==
    ASSUME NEW g \in HartNumbers, NEW h \in HartNumbers,
           NEW r \in SourceNumbers, NEW s \in SourceNumbers, Enable(g, r) = Enable(h, s)
    PROVE  g = h /\ r \div 32 = s \div 32
<1> DEFINE q == r \div 32  t == s \div 32
<1>1. q \in 0 .. 31
  BY WordNumber
<1>2. t \in 0 .. 31
  BY WordNumber
<1>3. 8192 + g * 128 + q * 4 = 8192 + h * 128 + t * 4
  BY SMTT(60) DEF Enable, PLIC_ENABLE_OFFSET, PLIC_ENABLE_SPAN
<1> HIDE DEF q, t
<1>4. g = h /\ q = t
  BY <1>1, <1>2, <1>3, SMTT(60) DEF HartNumbers
<1> QED
  BY <1>4 DEF q, t

(* An enable register is no priority, threshold or claim register. *)
LEMMA EnableApart ==
    ASSUME NEW h \in HartNumbers, NEW s \in SourceNumbers,
           NEW g \in HartNumbers, NEW r \in SourceNumbers
    PROVE  Enable(h, s) \notin {Prio(r), Threshold(g), Claim(g)}
<1>1. s \div 32 \in 0 .. 31
  BY WordNumber
<1> QED
  BY <1>1, SMTT(60) DEF Enable, Prio, Threshold, Claim, PLIC_ENABLE_OFFSET, PLIC_ENABLE_SPAN,
              PLIC_PRIO_OFFSET, PLIC_THRESHOLD_OFFSET, PLIC_CLAIM_OFFSET, PLIC_THRESHOLD_CLAIM_SPAN,
              HartNumbers, SourceNumbers

LEMMA BitInjective ==
    ASSUME NEW r \in SourceNumbers, NEW s \in SourceNumbers,
           r \div 32 = s \div 32, r % 32 = s % 32
    PROVE  r = s
<1>1. r \in Nat /\ s \in Nat
  BY SMTT(60) DEF SourceNumbers
<1>2. \A m, k \in Nat : m \div 32 = k \div 32 /\ m % 32 = k % 32 => m = k
  BY SMTT(60)
<1> QED
  BY <1>1, <1>2

(* No enable register is a priority or threshold register. *)
LEMMA EnableIsNoLevel == EnableOffsets \cap LevelOffsets = {}
<1> SUFFICES ASSUME NEW h \in PlicHarts, NEW s \in Sources, Enable(h, s) \in LevelOffsets
             PROVE  FALSE
  BY DEF EnableOffsets
<1>1. h \in HartNumbers /\ s \in SourceNumbers
  BY PlicNumbers
<1>2. ASSUME NEW r \in Sources, Enable(h, s) = Prio(r)
      PROVE  FALSE
  BY <1>1, <1>2, EnableApart, PlicNumbers
<1>3. ASSUME NEW g \in PlicHarts, Enable(h, s) = Threshold(g)
      PROVE  FALSE
  BY <1>1, <1>3, EnableApart, PlicNumbers
<1> QED
  BY <1>2, <1>3 DEF LevelOffsets

(* Within a kind, and between two kinds, which offsets are equal *)
SameKind(g, h, r, s) ==
    /\ Prio(r) = Prio(s) => r = s
    /\ Pending(r) = Pending(s) => r \div 32 = s \div 32
    /\ Enable(g, r) = Enable(h, s) => g = h /\ r \div 32 = s \div 32
    /\ Threshold(g) = Threshold(h) => g = h
    /\ Claim(g) = Claim(h) => g = h
OtherKind(g, h, r, s) ==
    /\ Prio(r) \notin {Pending(s), Enable(h, s), Threshold(h), Claim(h)}
    /\ Pending(r) \notin {Enable(h, s), Threshold(h), Claim(h)}
    /\ Enable(g, r) \notin {Threshold(h), Claim(h)}
    /\ Threshold(g) # Claim(h)

(* The register file of the driver, of all the harts and sources a PLIC can
   have: registers of two kinds (priority, pending, enable, threshold, claim)
   never have the same offset, nor do the priorities of two sources or the
   thresholds or claims of two harts; an enable or pending register is shared
   only by the sources of one group of 32, of one hart, and there every source
   has a bit of its own. *)
THEOREM RegistersDisjoint ==
    \A g, h \in HartNumbers, r, s \in SourceNumbers :
      /\ SameKind(g, h, r, s) /\ OtherKind(g, h, r, s)
      /\ Enable(g, r) = Enable(h, s) /\ r % 32 = s % 32 => g = h /\ r = s
      /\ Pending(r) = Pending(s) /\ r % 32 = s % 32 => r = s
<1> SUFFICES ASSUME NEW g \in HartNumbers, NEW h \in HartNumbers,
                    NEW r \in SourceNumbers, NEW s \in SourceNumbers
             PROVE  /\ SameKind(g, h, r, s) /\ OtherKind(g, h, r, s)
                    /\ Enable(g, r) = Enable(h, s) /\ r % 32 = s % 32 => g = h /\ r = s
                    /\ Pending(r) = Pending(s) /\ r % 32 = s % 32 => r = s
  OBVIOUS
<1> USE DEF PLIC_PRIO_OFFSET, PLIC_PENDING_OFFSET, PLIC_ENABLE_OFFSET, PLIC_ENABLE_SPAN,
            PLIC_THRESHOLD_OFFSET, PLIC_CLAIM_OFFSET, PLIC_THRESHOLD_CLAIM_SPAN
<1>1. PICK q \in 0 .. 31 : q = r \div 32
  BY WordNumber
<1>2. PICK t \in 0 .. 31 : t = s \div 32
  BY WordNumber
<1>3. g \in 0 .. 15871 /\ h \in 0 .. 15871 /\ r \in 1 .. 1023 /\ s \in 1 .. 1023
  BY SMTT(60) DEF HartNumbers, SourceNumbers
<1>4. /\ Prio(r) = 4 * r /\ Prio(s) = 4 * s
      /\ Pending(r) = 4096 + q * 4 /\ Pending(s) = 4096 + t * 4
      /\ Enable(g, r) = 8192 + g * 128 + q * 4 /\ Enable(h, s) = 8192 + h * 128 + t * 4
      /\ Threshold(g) = 2097152 + g * 4096 /\ Threshold(h) = 2097152 + h * 4096
      /\ Claim(g) = 2097156 + g * 4096 /\ Claim(h) = 2097156 + h * 4096
  BY <1>1, <1>2, <1>3, SMTT(60) DEF Prio, Pending, Enable, Threshold, Claim
<1>5. Pending(r) = Pending(s) => r \div 32 = s \div 32
  BY <1>1, <1>2, <1>4
<1>6. SameKind(g, h, r, s)
  BY <1>3, <1>4, <1>5, EnableInjective, SMTT(60) DEF SameKind
<1>7. OtherKind(g, h, r, s)
  BY <1>3, <1>4, SMTT(60) DEF OtherKind
<1> QED
  BY <1>5, <1>6, <1>7, BitInjective DEF SameKind

-----------------------------------------------------------------------------
Updates == [offset : EnableOffsets, hart : PlicHarts, source : Sources,
            value : BOOLEAN, read : SUBSET (0 .. 31)]

(* What the update under way of a caller has read is still in its register,
   unless another write overlapped. *)
UpdateHolds(c) ==
    call[c] # Idle =>
      /\ call[c] \in Updates
      /\ call[c].offset = Enable(call[c].hart, call[c].source)
      /\ overlap[c] \/ call[c].read = enable[call[c].offset]
PlicTypeOK == /\ enable \in [EnableOffsets -> SUBSET (0 .. 31)]
              /\ overlap \in [Callers -> BOOLEAN]
              /\ DOMAIN call = Callers
PlicInv == PlicTypeOK /\ \A c \in Callers : UpdateHolds(c)

LEMMA PlicInitInv == PlicInit => PlicInv
  BY DEF PlicInit, PlicInv, PlicTypeOK, UpdateHolds

LEMMA BitInRange == ASSUME NEW s \in Sources PROVE s % 32 \in 0 .. 31
  BY PlicNumbers, SMTT(60) DEF SourceNumbers

LEMMA SetEnableInv ==
    ASSUME PlicInv, NEW c \in Callers, NEW h \in PlicHarts, NEW s \in Sources, NEW v \in BOOLEAN,
           plic_set_enable(c, h, s, v)
    PROVE  PlicInv'
<1> DEFINE o == Enable(h, s)
           u == [offset |-> o, hart |-> h, source |-> s, value |-> v, read |-> enable[o]]
<1>1. o \in EnableOffsets
  BY DEF EnableOffsets
<1>2. u \in Updates
  BY <1>1 DEF Updates, PlicInv, PlicTypeOK
<1>3. /\ call' = [call EXCEPT ![c] = u]
      /\ overlap' = [overlap EXCEPT ![c] = FALSE]
      /\ enable' = enable
  BY DEF plic_set_enable
<1>4. PlicTypeOK'
  BY <1>3 DEF PlicInv, PlicTypeOK
<1>5. ASSUME NEW d \in Callers
      PROVE  UpdateHolds(d)'
  <2>1. CASE d = c
    <3>1. call'[d] = u
      BY <1>3, <2>1 DEF PlicInv, PlicTypeOK
    <3>2. u.offset = Enable(u.hart, u.source) /\ u.read = enable'[u.offset]
      BY <1>3
    <3> QED
      BY <3>1, <3>2, <1>2 DEF UpdateHolds
  <2>2. CASE d # c
    <3>1. call'[d] = call[d] /\ overlap'[d] = overlap[d]
      BY <1>3, <2>2 DEF PlicInv, PlicTypeOK
    <3> QED
      BY <3>1, <1>3 DEF UpdateHolds, PlicInv
  <2> QED
    BY <2>1, <2>2
<1> QED
  BY <1>4, <1>5 DEF PlicInv

(* What a write does: the register of the update gets its new bits, and the
   updates of that register under way are overlapped. *)
LEMMA WriteFacts ==
    ASSUME PlicInv, NEW c \in Callers, WriteEnable(c)
    PROVE  /\ call[c] \in Updates
           /\ call[c].offset = Enable(call[c].hart, call[c].source)
           /\ overlap[c] \/ call[c].read = enable[call[c].offset]
           /\ NewBits(c) \in SUBSET (0 .. 31)
           /\ \A x : x # call[c].source % 32 => (x \in NewBits(c) <=> x \in call[c].read)
           /\ call[c].source % 32 \in NewBits(c) <=> call[c].value
           /\ enable' = [enable EXCEPT ![call[c].offset] = NewBits(c)]
<1>1. /\ call[c] \in Updates /\ call[c].offset = Enable(call[c].hart, call[c].source)
      /\ overlap[c] \/ call[c].read = enable[call[c].offset]
  BY DEF PlicInv, UpdateHolds, WriteEnable
<1>2. call[c].source % 32 \in 0 .. 31 /\ call[c].read \subseteq 0 .. 31 /\ call[c].value \in BOOLEAN
  BY <1>1, BitInRange DEF Updates
<1> QED
  BY <1>1, <1>2 DEF NewBits, Mask, WriteEnable

LEMMA WriteEnableInv ==
    ASSUME PlicInv, NEW c \in Callers, WriteEnable(c)
    PROVE  PlicInv'
<1>1. /\ call' = [call EXCEPT ![c] = Idle]
      /\ overlap' = [d \in Callers |-> overlap[d] \/ call[d].offset = call[c].offset]
  BY DEF WriteEnable
<1>2. PlicTypeOK'
  BY WriteFacts, <1>1 DEF PlicInv, PlicTypeOK, Updates
<1>3. ASSUME NEW d \in Callers
      PROVE  UpdateHolds(d)'
  <2>1. CASE d = c
    BY <1>1, <2>1 DEF UpdateHolds, PlicInv, PlicTypeOK
  <2>2. CASE d # c
    <3>1. call'[d] = call[d] /\ overlap'[d] = (overlap[d] \/ call[d].offset = call[c].offset)
      BY <1>1, <2>2 DEF PlicInv, PlicTypeOK
    <3>2. CASE call[d] = Idle
      BY <3>1, <3>2 DEF UpdateHolds
    <3>3. CASE call[d] # Idle
      <4>1. /\ call[d] \in Updates
            /\ call[d].offset = Enable(call[d].hart, call[d].source)
            /\ overlap[d] \/ call[d].read = enable[call[d].offset]
        BY <3>3 DEF PlicInv, UpdateHolds
      <4>2. CASE call[d].offset = call[c].offset
        BY <4>1, <4>2, <3>1 DEF UpdateHolds
      <4>3. CASE call[d].offset # call[c].offset
        <5>1. enable'[call[d].offset] = enable[call[d].offset]
          BY <4>1, <4>3, WriteFacts DEF Updates, PlicInv, PlicTypeOK
        <5> QED
          BY <4>1, <5>1, <3>1 DEF UpdateHolds
      <4> QED
        BY <4>2, <4>3
    <3> QED
      BY <3>2, <3>3
  <2> QED
    BY <2>1, <2>2
<1> QED
  BY <1>2, <1>3 DEF PlicInv

LEMMA SetLevelInv ==
    ASSUME PlicInv, NEW o \in LevelOffsets, NEW v \in Levels, plic_set_level(o, v)
    PROVE  PlicInv'
<1>1. enable' = enable /\ call' = call /\ overlap' = overlap
  BY EnableIsNoLevel DEF plic_set_level
<1> QED
  BY <1>1 DEF PlicInv, PlicTypeOK, UpdateHolds

LEMMA PlicNextInv == PlicInv /\ [PlicNext]_plicVars => PlicInv'
<1> SUFFICES ASSUME PlicInv, [PlicNext]_plicVars
             PROVE  PlicInv'
  OBVIOUS
<1>1. CASE UNCHANGED plicVars
  BY <1>1 DEF plicVars, PlicInv, PlicTypeOK, UpdateHolds
<1>2. CASE PlicNext
  BY <1>2, SetEnableInv, WriteEnableInv, SetLevelInv DEF PlicNext
<1> QED
  BY <1>1, <1>2

-----------------------------------------------------------------------------
(* The two halves of EnableIsLocal, of a state and its successor. *)
Changes == \A h \in PlicHarts, s \in Sources :
             plic_get_enable(h, s)' # plic_get_enable(h, s) =>
               \E c \in Callers : /\ call[c] # Idle /\ call'[c] = Idle
                                  /\ call[c].hart = h
                                  /\ (call[c].source = s \/ overlap[c])
TakesEffect == \A c \in Callers, h \in PlicHarts, s \in Sources :
                 call[c] # Idle /\ call'[c] = Idle /\ call[c].hart = h /\ call[c].source = s =>
                   plic_get_enable(h, s)' = call[c].value

LEMMA WriteIsLocal ==
    ASSUME PlicInv, NEW c \in Callers, WriteEnable(c)
    PROVE  Changes /\ TakesEffect
<1> DEFINE o == call[c].offset  r == call[c].source  g == call[c].hart
<1>1. /\ o \in EnableOffsets /\ g \in PlicHarts /\ r \in Sources /\ o = Enable(g, r)
      /\ call[c].value \in BOOLEAN
  BY WriteFacts DEF Updates
<1>2. enable'[o] = NewBits(c)
  BY WriteFacts, <1>1 DEF PlicInv, PlicTypeOK
<1>3. call[c] # Idle /\ call'[c] = Idle /\ \A d \in Callers \ {c} : call'[d] = call[d]
  BY DEF WriteEnable, PlicInv, PlicTypeOK
<1>4. ASSUME NEW h \in PlicHarts, NEW s \in Sources,
             plic_get_enable(h, s)' # plic_get_enable(h, s)
      PROVE  g = h /\ (r = s \/ overlap[c])
  <2>1. Enable(h, s) \in EnableOffsets
    BY DEF EnableOffsets
  <2>2. Enable(h, s) = o
    BY <2>1, <1>4, WriteFacts DEF PlicInv, PlicTypeOK, plic_get_enable
  <2>3. g = h /\ r \div 32 = s \div 32
    <3>1. g \in HartNumbers /\ h \in HartNumbers /\ r \in SourceNumbers /\ s \in SourceNumbers
      BY <1>1, PlicNumbers
    <3>2. Enable(g, r) = Enable(h, s)
      BY <2>2, <1>1
    <3> HIDE DEF g, r
    <3> QED
      BY <3>1, <3>2, EnableInjective
  <2>4. CASE s % 32 = r % 32
    <3>1. r \in SourceNumbers /\ s \in SourceNumbers
      BY <1>1, PlicNumbers
    <3> HIDE DEF r
    <3>2. r = s
      BY <2>3, <2>4, <3>1, BitInjective
    <3> QED
      BY <3>2, <2>3
  <2>5. CASE s % 32 # r % 32
    <3>1. s % 32 \in NewBits(c) <=> s % 32 \in call[c].read
      BY <2>5, WriteFacts
    <3>2. ~(s % 32 \in NewBits(c) <=> s % 32 \in enable[o])
      BY <1>4, <1>2, <2>2 DEF plic_get_enable
    <3> QED
      BY <3>1, <3>2, <2>3, WriteFacts
  <2> QED
    BY <2>4, <2>5
<1>5. Changes
  BY <1>3, <1>4 DEF Changes
<1>6. TakesEffect
  <2>1. (r % 32 \in enable'[Enable(g, r)]) = call[c].value
    BY <1>1, <1>2, WriteFacts
  <2>2. ASSUME NEW d \in Callers, NEW h \in PlicHarts, NEW s \in Sources,
               call[d] # Idle, call'[d] = Idle, call[d].hart = h, call[d].source = s
        PROVE  (s % 32 \in enable'[Enable(h, s)]) = call[d].value
    <3>1. d = c
      BY <1>3, <2>2
    <3> QED
      BY <3>1, <2>1, <2>2
  <2> QED
    BY <2>2 DEF TakesEffect, plic_get_enable
<1> QED
  BY <1>5, <1>6

LEMMA StepIsLocal == PlicInv /\ [PlicNext]_plicVars => Changes /\ TakesEffect
<1> SUFFICES ASSUME PlicInv, [PlicNext]_plicVars
             PROVE  Changes /\ TakesEffect
  OBVIOUS
<1>1. ASSUME enable' = enable, \A c \in Callers : call[c] # Idle => call'[c] # Idle
      PROVE  Changes /\ TakesEffect
  BY <1>1 DEF Changes, TakesEffect, plic_get_enable
<1>2. CASE UNCHANGED plicVars
  BY <1>1, <1>2 DEF plicVars
<1>3. ASSUME NEW c \in Callers, NEW h \in PlicHarts, NEW s \in Sources, NEW v \in BOOLEAN,
             plic_set_enable(c, h, s, v)
      PROVE  Changes /\ TakesEffect
  <2>1. \A d \in Callers : call[d] # Idle => call'[d] = call[d]
    BY <1>3 DEF plic_set_enable, PlicInv, PlicTypeOK
  <2> QED
    BY <2>1, <1>1, <1>3 DEF plic_set_enable
<1>4. ASSUME NEW o \in LevelOffsets, NEW v \in Levels, plic_set_level(o, v)
      PROVE  Changes /\ TakesEffect
  <2>1. enable' = enable /\ call' = call
    BY <1>4, EnableIsNoLevel DEF plic_set_level
  <2> QED
    BY <2>1, <1>1
<1> QED
  BY <1>2, <1>3, <1>4, WriteIsLocal DEF PlicNext

(* PlicInv holds for any callers, harts and sources: what an update has read
   is current unless another write of that register overlapped. *)
THEOREM PlicInvariant == PlicSpec => []PlicInv
  BY PlicInitInv, PlicNextInv, PTL DEF PlicSpec

(* An enable bit changes only by a call that names it or by one that was
   overlapped, and every call takes effect at its write: for any number of
   callers and every hart and source of the controller. *)
THEOREM PlicIsLocal == PlicSpec => EnableIsLocal
<1>1. PlicInv /\ [PlicNext]_plicVars => [Changes /\ TakesEffect]_plicVars
  BY StepIsLocal
<1> QED
  BY <1>1, PlicInvariant, PTL DEF PlicSpec, EnableIsLocal, Changes, TakesEffect

-----------------------------------------------------------------------------
(* The performance monitor.  An object is typed, and its operations are those
   of the BSP exactly if the BSP has initialized it. *)
PmuInv == /\ PmuIsWhole
          /\ api \in [Operations -> {UNSET, "disabled", "bsp"}]
          /\ \A o \in Operations : api[o] = "bsp" <=> usable

LEMMA PmuInitInv == PmuInit => PmuInv
BY PmuAssumption DEF PmuInit, PmuInv, PmuIsWhole, NoCall

LEMMA PmuNextInv == PmuInv /\ [PmuNext]_pmuVars => PmuInv'
<1> SUFFICES ASSUME PmuInv, [PmuNext]_pmuVars PROVE PmuInv'
  OBVIOUS
<1>1. CASE pmu_init_disabled
  BY <1>1, PmuAssumption DEF pmu_init_disabled, __pmu_disabled, PmuInv, PmuIsWhole
<1>2. ASSUME NEW err \in {-1, 0}, NEW some \in SUBSET Operations, pmu_init(err, some)
      PROVE  PmuInv'
  <2>1. CASE err = 0
    <3>1. err >= 0 /\ ~(err < 0)
      BY <2>1
    <3>2. some = Operations /\ usable' /\ called' = called
      BY <1>2, <3>1, Zenon DEF pmu_init, bsp_pmu_init
    <3>3. api' = [o \in Operations |-> "bsp"]
      BY <1>2, <3>1, <3>2 DEF pmu_init, Set
    <3> QED
      BY <3>2, <3>3 DEF PmuInv, PmuIsWhole
  <2>2. CASE err = -1
    <3>1. ~(err >= 0) /\ err < 0
      BY <2>2
    <3>2. ~usable' /\ called' = called
      BY <1>2, <3>1, Zenon DEF pmu_init, bsp_pmu_init
    <3>3. api' = [o \in Operations |-> "disabled"]
      BY <1>2, <3>1 DEF pmu_init, __pmu_disabled
    <3> QED
      BY <3>2, <3>3 DEF PmuInv, PmuIsWhole
  <2> QED
    BY <2>1, <2>2
<1>3. ASSUME NEW o \in Operations, pmu_call(o)
      PROVE  PmuInv'
  <2>1. api[o] # UNSET
    BY <1>3 DEF pmu_call, PmuInv, PmuIsWhole
  <2> QED
    BY <2>1, <1>3 DEF pmu_call, PmuInv, PmuIsWhole
<1>4. CASE UNCHANGED pmuVars
  BY <1>4 DEF pmuVars, PmuInv, PmuIsWhole
<1> QED
  BY <1>1, <1>2, <1>3, <1>4 DEF PmuNext

-----------------------------------------------------------------------------
(* The prefetcher.  The registers of the engines are distinct. *)
LEMMA CsrsDistinct ==
    ASSUME NEW e \in 0 .. 3, NEW f \in 0 .. 3
    PROVE  /\ HWPF_ENGINE_CSR_BASE(e) \in Csrs /\ HWPF_ENGINE_CSR_PARAM(e) \in Csrs
           /\ HWPF_ENGINE_CSR_THROTTLE(e) \in Csrs
           /\ HWPF_ENGINE_CSR_BASE(e) = HWPF_ENGINE_CSR_BASE(f) => e = f
           /\ HWPF_ENGINE_CSR_PARAM(e) = HWPF_ENGINE_CSR_PARAM(f) => e = f
           /\ HWPF_ENGINE_CSR_THROTTLE(e) = HWPF_ENGINE_CSR_THROTTLE(f) => e = f
           /\ HWPF_ENGINE_CSR_BASE(e) # HWPF_ENGINE_CSR_PARAM(f)
           /\ HWPF_ENGINE_CSR_BASE(e) # HWPF_ENGINE_CSR_THROTTLE(f)
           /\ HWPF_ENGINE_CSR_PARAM(e) # HWPF_ENGINE_CSR_THROTTLE(f)
BY SMTT(60) DEF HWPF_ENGINE_CSR_BASE, HWPF_ENGINE_CSR_PARAM, HWPF_ENGINE_CSR_THROTTLE,
   CSR_BASE0, CSR_PARAM0, CSR_THROTTLE0, Csrs

(* A field of w values that holds the argument minus 1 gives the argument
   back, or w if it was 0; one that holds the argument gives 0 for w. *)
LEMMA FieldReads ==
    ASSUME NEW w \in Nat \ {0, 1}, NEW v \in 0 .. w
    PROVE  /\ (v - 1) % w \in Int /\ v % w \in Int
           /\ ((v - 1) % w) + 1 = IF v = 0 THEN w ELSE v
           /\ v % w = IF v = w THEN 0 ELSE v
BY SMTT(30)

Ranges == [addr : Int, flags : 0 .. 7,
           param : (0 .. Stride) \X (0 .. Count) \X (0 .. Count),
           throttle : (0 .. Count) \X (0 .. Count)]
HwpfInv == /\ csr \in [Csrs -> Int \X Int \X Int]
           /\ wanted \in [Existing -> Ranges]
           /\ HwpfReadsBack

(* An engine reads back as was wanted if its registers hold what was wanted. *)
Holding(base, param, throttle, want) ==
    /\ base[1] * Line64 = want.addr
    /\ base[2] % 2 = 1 <=> want.flags % 2 = 1
    /\ param[1] + 1 = IF want.param[1] = 0 THEN Stride ELSE want.param[1]
    /\ param[2] + 1 = IF want.param[2] = 0 THEN Count ELSE want.param[2]
    /\ param[3] + 1 = IF want.param[3] = 0 THEN Count ELSE want.param[3]
    /\ throttle[1] = IF want.throttle[1] = Count THEN 0 ELSE want.throttle[1]
    /\ throttle[2] = IF want.throttle[2] = Count THEN 0 ELSE want.throttle[2]
EngineHolds(e) == Holding(csr[HWPF_ENGINE_CSR_BASE(e)], csr[HWPF_ENGINE_CSR_PARAM(e)],
                          csr[HWPF_ENGINE_CSR_THROTTLE(e)], wanted[e])

LEMMA HoldsIsReadsBack == HwpfReadsBack <=> \A e \in Existing : EngineHolds(e)
<1>1. ASSUME NEW e \in Existing PROVE is_enabled(e) <=> csr[HWPF_ENGINE_CSR_BASE(e)][2] % 2 = 1
  BY DEF is_enabled, EnableField, Existing
<1> QED
  BY <1>1 DEF HwpfReadsBack, EngineHolds, Holding, get_addr, get_params, get_throttle

LEMMA HoldsIsReadsBackNext == HwpfReadsBack' <=> (\A e \in Existing : EngineHolds(e))'
BY HoldsIsReadsBack, PTL

LEMMA HwpfInitInv == HwpfInit => HwpfInv
<1> SUFFICES ASSUME HwpfInit PROVE HwpfInv
  OBVIOUS
<1>1. Stride \in Nat \ {0, 1} /\ Count \in Nat \ {0, 1} /\ Line64 \in Nat
  BY HwpfAssumption
<1>2. NoEngine \in Ranges
  BY <1>1 DEF NoEngine, Ranges
<1>3. csr \in [Csrs -> Int \X Int \X Int] /\ wanted \in [Existing -> Ranges]
  BY <1>2 DEF HwpfInit
<1>4. ASSUME NEW e \in Existing PROVE EngineHolds(e)
  <2>1. wanted[e] = NoEngine
    BY DEF HwpfInit
  <2>2. /\ csr[HWPF_ENGINE_CSR_BASE(e)] = <<0, 0, 0>>
        /\ csr[HWPF_ENGINE_CSR_PARAM(e)] = <<0, 0, 0>>
        /\ csr[HWPF_ENGINE_CSR_THROTTLE(e)] = <<0, 0, 0>>
    BY CsrsDistinct DEF HwpfInit, Existing
  <2> QED
    BY <2>1, <2>2, <1>1 DEF EngineHolds, Holding, NoEngine
<1> QED
  BY <1>3, <1>4, HoldsIsReadsBack DEF HwpfInv

(* A call for an engine changes one of its registers and what is wanted of it;
   one for another number changes nothing. *)
LEMMA CallKeepsReads ==
    ASSUME HwpfInv, NEW e \in Engines, NEW r, NEW fields \in Int \X Int \X Int, NEW new,
           Put(e, r, fields), Want(e, new),
           e \in 0 .. 3 =>
             /\ new \in Ranges
             /\ \/ /\ r = HWPF_ENGINE_CSR_BASE(e)
                   /\ Holding(fields, csr[HWPF_ENGINE_CSR_PARAM(e)],
                              csr[HWPF_ENGINE_CSR_THROTTLE(e)], new)
                \/ /\ r = HWPF_ENGINE_CSR_PARAM(e)
                   /\ Holding(csr[HWPF_ENGINE_CSR_BASE(e)], fields,
                              csr[HWPF_ENGINE_CSR_THROTTLE(e)], new)
                \/ /\ r = HWPF_ENGINE_CSR_THROTTLE(e)
                   /\ Holding(csr[HWPF_ENGINE_CSR_BASE(e)], csr[HWPF_ENGINE_CSR_PARAM(e)],
                              fields, new)
    PROVE  HwpfInv'
<1>1. \A f \in Existing : EngineHolds(f)
  BY HoldsIsReadsBack DEF HwpfInv
<1>2. CASE e \notin 0 .. 3
  <2>1. csr' = csr /\ wanted' = wanted
    BY <1>2 DEF Put, Want
  <2> QED
    BY <2>1 DEF HwpfInv, HwpfReadsBack, get_addr, get_params, get_throttle, is_enabled, EnableField
<1>3. CASE e \in 0 .. 3
  <2>1. csr' = [csr EXCEPT ![r] = fields] /\ wanted' = [wanted EXCEPT ![e] = new]
    BY <1>3 DEF Put, Want
  <2>2. r \in Csrs /\ e \in Existing
    BY <1>3, CsrsDistinct DEF Existing
  <2>3. csr' \in [Csrs -> Int \X Int \X Int]
    BY <2>1 DEF HwpfInv
  <2>4. wanted' \in [Existing -> Ranges]
    BY <2>1, <1>3 DEF HwpfInv
  <2>5. \A k \in Csrs : csr'[k] = IF k = r THEN fields ELSE csr[k]
    BY <2>1 DEF HwpfInv
  <2>6. \A f \in Existing : wanted'[f] = IF f = e THEN new ELSE wanted[f]
    BY <2>1 DEF HwpfInv
  <2>7. ASSUME NEW f \in Existing, f # e PROVE EngineHolds(f)'
    <3>1. /\ csr'[HWPF_ENGINE_CSR_BASE(f)] = csr[HWPF_ENGINE_CSR_BASE(f)]
          /\ csr'[HWPF_ENGINE_CSR_PARAM(f)] = csr[HWPF_ENGINE_CSR_PARAM(f)]
          /\ csr'[HWPF_ENGINE_CSR_THROTTLE(f)] = csr[HWPF_ENGINE_CSR_THROTTLE(f)]
      BY <2>5, <2>7, <1>3, CsrsDistinct DEF Existing
    <3>2. wanted'[f] = wanted[f]
      BY <2>6, <2>7
    <3> QED
      BY <3>1, <3>2, <1>1 DEF EngineHolds
  <2>8. EngineHolds(e)'
    <3>1. /\ HWPF_ENGINE_CSR_BASE(e) \in Csrs /\ HWPF_ENGINE_CSR_PARAM(e) \in Csrs
          /\ HWPF_ENGINE_CSR_THROTTLE(e) \in Csrs
          /\ HWPF_ENGINE_CSR_BASE(e) # HWPF_ENGINE_CSR_PARAM(e)
          /\ HWPF_ENGINE_CSR_BASE(e) # HWPF_ENGINE_CSR_THROTTLE(e)
          /\ HWPF_ENGINE_CSR_PARAM(e) # HWPF_ENGINE_CSR_THROTTLE(e)
      BY <1>3, CsrsDistinct
    <3>2. wanted'[e] = new
      BY <2>2, <2>6
    <3> QED
      BY <3>1, <3>2, <2>5, <1>3 DEF EngineHolds
  <2> QED
    BY <2>3, <2>4, <2>7, <2>8, HoldsIsReadsBackNext DEF HwpfInv
<1> QED
  BY <1>2, <1>3

LEMMA HwpfNextInv == HwpfInv /\ [HwpfNext]_hwpfVars => HwpfInv'
<1> SUFFICES ASSUME HwpfInv, [HwpfNext]_hwpfVars PROVE HwpfInv'
  OBVIOUS
<1>1. /\ Stride \in Nat \ {0, 1} /\ Count \in Nat \ {0, 1} /\ Line64 \in Nat \ {0, 1}
      /\ \A k \in Strides : k \in 0 .. Stride
      /\ \A k \in Counts : k \in 0 .. Count
      /\ \A k \in Starts : k \in Nat
      /\ \A k \in Flags : k \in 0 .. 7
  BY HwpfAssumption
<1>2. ASSUME NEW e \in Engines, e \in 0 .. 3
      PROVE  /\ wanted[e] \in Ranges /\ EngineHolds(e)
             /\ csr[HWPF_ENGINE_CSR_BASE(e)] \in Int \X Int \X Int
  BY <1>2, CsrsDistinct, HoldsIsReadsBack DEF HwpfInv, Existing
<1>3. ASSUME NEW e \in Engines, NEW addr \in Starts, NEW flags \in Flags, set_addr(e, addr, flags)
      PROVE  HwpfInv'
  <2> DEFINE line == addr \div Line64
             fields == <<line, flags, 0>>
             new == [wanted[e] EXCEPT !.addr = line * Line64, !.flags = flags]
  <2>1. line \in Nat /\ flags \in 0 .. 7
    BY <1>1, DivNat
  <2>2. Put(e, HWPF_ENGINE_CSR_BASE(e), fields) /\ Want(e, new)
    BY <1>3 DEF set_addr
  <2> HIDE DEF line
  <2>3. fields \in Int \X Int \X Int
    BY <2>1
  <2>4. ASSUME e \in 0 .. 3
        PROVE  new \in Ranges /\ Holding(fields, csr[HWPF_ENGINE_CSR_PARAM(e)],
                                         csr[HWPF_ENGINE_CSR_THROTTLE(e)], new)
    <3>1. wanted[e] \in Ranges /\ EngineHolds(e)
      BY <2>4, <1>2
    <3>2. line * Line64 \in Int
      BY <2>1, <1>1
    <3>3. new \in Ranges /\ new.addr = line * Line64 /\ new.flags = flags
          /\ new.param = wanted[e].param /\ new.throttle = wanted[e].throttle
      BY <3>1, <3>2, <2>1 DEF Ranges
    <3> QED
      BY <3>1, <3>3 DEF EngineHolds, Holding
  <2> HIDE DEF fields, new
  <2> QED
    BY <2>2, <2>3, <2>4, CallKeepsReads
<1>4. ASSUME NEW e \in Engines, abort(e)
      PROVE  HwpfInv'
  <2> DEFINE none == 0
             new == [wanted[e] EXCEPT !.addr = none, !.flags = none]
  <2>1. Put(e, HWPF_ENGINE_CSR_BASE(e), <<0, 0, 0>>) /\ Want(e, new)
    BY <1>4 DEF abort
  <2>2. none \in Int /\ none \in 0 .. 7 /\ none = 0
    OBVIOUS
  <2> HIDE DEF none
  <2>3. ASSUME e \in 0 .. 3
        PROVE  new \in Ranges /\ Holding(<<0, 0, 0>>, csr[HWPF_ENGINE_CSR_PARAM(e)],
                                         csr[HWPF_ENGINE_CSR_THROTTLE(e)], new)
    <3>1. wanted[e] \in Ranges /\ EngineHolds(e)
      BY <2>3, <1>2
    <3>2. new \in Ranges /\ new.addr = none /\ new.flags = none
          /\ new.param = wanted[e].param /\ new.throttle = wanted[e].throttle
      BY <2>2, <3>1 DEF Ranges
    <3>3. /\ <<0, 0, 0>>[1] * Line64 = new.addr
          /\ <<0, 0, 0>>[2] % 2 = 1 <=> new.flags % 2 = 1
      BY <2>2, <3>2, <1>1
    <3> HIDE DEF new
    <3> QED
      BY <3>1, <3>2, <3>3 DEF EngineHolds, Holding
  <2>4. <<0, 0, 0>> \in Int \X Int \X Int
    OBVIOUS
  <2> HIDE DEF new
  <2> QED
    BY <2>1, <2>3, <2>4, CallKeepsReads
<1>5. ASSUME NEW e \in Engines, NEW s \in Strides, NEW n1 \in Counts, NEW n2 \in Counts,
             set_params(e, s, n1, n2)
      PROVE  HwpfInv'
  <2> DEFINE fields == <<(s - 1) % Stride, (n1 - 1) % Count, (n2 - 1) % Count>>
             new == [wanted[e] EXCEPT !.param = <<s, n1, n2>>]
  <2>1. s \in 0 .. Stride /\ n1 \in 0 .. Count /\ n2 \in 0 .. Count
    BY <1>1
  <2>2. Put(e, HWPF_ENGINE_CSR_PARAM(e), fields) /\ Want(e, new)
    BY <1>5 DEF set_params
  <2>3. /\ (s - 1) % Stride \in Int /\ ((s - 1) % Stride) + 1 = IF s = 0 THEN Stride ELSE s
        /\ (n1 - 1) % Count \in Int /\ ((n1 - 1) % Count) + 1 = IF n1 = 0 THEN Count ELSE n1
        /\ (n2 - 1) % Count \in Int /\ ((n2 - 1) % Count) + 1 = IF n2 = 0 THEN Count ELSE n2
    BY <2>1, <1>1, FieldReads
  <2>4. fields \in Int \X Int \X Int
    BY <2>3
  <2>5. ASSUME e \in 0 .. 3
        PROVE  new \in Ranges /\ Holding(csr[HWPF_ENGINE_CSR_BASE(e)], fields,
                                         csr[HWPF_ENGINE_CSR_THROTTLE(e)], new)
    <3>1. wanted[e] \in Ranges /\ EngineHolds(e)
      BY <2>5, <1>2
    <3>2. new \in Ranges /\ new.param = <<s, n1, n2>> /\ new.flags = wanted[e].flags
          /\ new.addr = wanted[e].addr /\ new.throttle = wanted[e].throttle
      BY <3>1, <2>1 DEF Ranges
    <3>3. /\ fields[1] + 1 = IF s = 0 THEN Stride ELSE s
          /\ fields[2] + 1 = IF n1 = 0 THEN Count ELSE n1
          /\ fields[3] + 1 = IF n2 = 0 THEN Count ELSE n2
      BY <2>3
    <3> HIDE DEF fields, new
    <3> QED
      BY <3>1, <3>2, <3>3 DEF EngineHolds, Holding
  <2> HIDE DEF fields, new
  <2> QED
    BY <2>2, <2>4, <2>5, CallKeepsReads
<1>6. ASSUME NEW e \in Engines, NEW w \in Counts, NEW i \in Counts, set_throttle(e, w, i)
      PROVE  HwpfInv'
  <2> DEFINE fields == <<w % Count, i % Count, 0>>
             new == [wanted[e] EXCEPT !.throttle = <<w, i>>]
  <2>1. w \in 0 .. Count /\ i \in 0 .. Count
    BY <1>1
  <2>2. Put(e, HWPF_ENGINE_CSR_THROTTLE(e), fields) /\ Want(e, new)
    BY <1>6 DEF set_throttle
  <2>3. /\ w % Count \in Int /\ w % Count = IF w = Count THEN 0 ELSE w
        /\ i % Count \in Int /\ i % Count = IF i = Count THEN 0 ELSE i
    BY <2>1, <1>1, FieldReads
  <2>4. fields \in Int \X Int \X Int
    BY <2>3
  <2>5. ASSUME e \in 0 .. 3
        PROVE  new \in Ranges /\ Holding(csr[HWPF_ENGINE_CSR_BASE(e)],
                                         csr[HWPF_ENGINE_CSR_PARAM(e)], fields, new)
    <3>1. wanted[e] \in Ranges /\ EngineHolds(e)
      BY <2>5, <1>2
    <3>2. new \in Ranges /\ new.throttle = <<w, i>> /\ new.flags = wanted[e].flags
          /\ new.addr = wanted[e].addr /\ new.param = wanted[e].param
      BY <3>1, <2>1 DEF Ranges
    <3>3. /\ fields[1] = IF w = Count THEN 0 ELSE w
          /\ fields[2] = IF i = Count THEN 0 ELSE i
      BY <2>3
    <3> HIDE DEF fields, new
    <3> QED
      BY <3>1, <3>2, <3>3 DEF EngineHolds, Holding
  <2> HIDE DEF fields, new
  <2> QED
    BY <2>2, <2>4, <2>5, CallKeepsReads
<1>7. CASE UNCHANGED hwpfVars
  BY <1>7 DEF hwpfVars, HwpfInv, HwpfReadsBack, get_addr, get_params, get_throttle, is_enabled,
     EnableField
<1> QED
  BY <1>3, <1>4, <1>5, <1>6, <1>7 DEF HwpfNext

-----------------------------------------------------------------------------
(* The timer.  A hart that is not in a call has a compare register that was
   never set, or one that holds its due time as far as the build writes it. *)
Unset(h) == alarm[h] = NEVER /\ cmp[2 * h] = WORD - 1 /\ (wide => cmp[(2 * h) + 1] = WORD - 1)
SetTo(h, time) ==
    /\ time < NEVER
    /\ cmp[2 * h] = time % WORD /\ (wide => cmp[(2 * h) + 1] = time \div WORD)
Setting(h) == \E t \in Nat : /\ alarm[h] = t + timer_period[h] /\ alarm[h] < NEVER
                             /\ now[h] = Uintptr(t)
TimerInv ==
    /\ wide \in BOOLEAN /\ mtime \in 0 .. MaxTime
    /\ cmp \in [0 .. (2 * NHARTS) - 1 -> Nat]
    /\ timer_period \in [TimerHarts -> 0 .. WORD - 1]
    /\ now \in [TimerHarts -> Nat \cup {-1}]
    /\ alarm \in [TimerHarts -> Nat]
    /\ \A h \in TimerHarts : IF now[h] = -1 THEN Unset(h) \/ SetTo(h, alarm[h]) ELSE Setting(h)

LEMMA Never == /\ NEVER \in Nat /\ WORD \in Nat \ {0, 1} /\ NHARTS \in Nat \ {0}
               /\ NEVER \div WORD = WORD - 1 /\ NEVER % WORD = WORD - 1
               /\ \A t \in 0 .. MaxTime, p \in 0 .. WORD - 1 : t + p < NEVER
               /\ \A h \in TimerHarts : /\ h \in Nat /\ 2 * h \in 0 .. (2 * NHARTS) - 1
                                        /\ (2 * h) + 1 \in 0 .. (2 * NHARTS) - 1
<1>1. WORD \in Nat \ {0, 1} /\ NHARTS \in Nat \ {0}
  BY TimerAssumption
<1>2. NEVER = WORD * (WORD - 1) + (WORD - 1) /\ NEVER \in Nat
  BY <1>1, SMTT(30) DEF NEVER
<1>3. NEVER \div WORD = WORD - 1 /\ NEVER % WORD = WORD - 1
  <2>1. WORD - 1 \in Int /\ WORD - 1 \in 0 .. WORD - 1 /\ WORD \in Nat \ {0}
    BY <1>1
  <2> QED
    BY <2>1, <1>2, DivUnique
<1>4. \A t \in 0 .. MaxTime, p \in 0 .. WORD - 1 : t + p < NEVER
  <2>1. MaxTime \in Nat /\ MaxTime + WORD < WORD * WORD /\ WORD * WORD \in Nat
    BY TimerAssumption
  <2> QED
    BY <2>1, <1>1 DEF NEVER
<1>5. \A h \in TimerHarts : /\ h \in Nat /\ 2 * h \in 0 .. (2 * NHARTS) - 1
                            /\ (2 * h) + 1 \in 0 .. (2 * NHARTS) - 1
  BY <1>1 DEF TimerHarts
<1> QED
  BY <1>1, <1>2, <1>3, <1>4, <1>5

LEMMA TimerInitInv == TimerInit => TimerInv
<1> SUFFICES ASSUME TimerInit PROVE TimerInv
  OBVIOUS
<1>1. PICK high \in [TimerHarts -> WordsOf64] :
        cmp = [k \in 0 .. (2 * NHARTS) - 1 |->
                 IF k % 2 = 0 \/ wide THEN WORD - 1 ELSE high[k \div 2]]
  BY DEF TimerInit
<1>2. /\ wide \in BOOLEAN /\ mtime \in 0 .. MaxTime
      /\ timer_period \in [TimerHarts -> 0 .. WORD - 1]
      /\ now \in [TimerHarts -> Nat \cup {-1}] /\ alarm \in [TimerHarts -> Nat]
  <2>1. 0 \in 0 .. MaxTime
    BY TimerAssumption
  <2>2. mtime \in 0 .. MaxTime
    BY <2>1 DEF TimerInit
  <2> QED
    BY <2>2, Never DEF TimerInit
<1>3. cmp \in [0 .. (2 * NHARTS) - 1 -> Nat]
  <2>1. ASSUME NEW k \in 0 .. (2 * NHARTS) - 1, k % 2 # 0 PROVE high[k \div 2] \in Nat
    <3>1. k \div 2 \in TimerHarts
      BY Never, SMTT(30) DEF TimerHarts
    <3> QED
      BY <3>1 DEF WordsOf64
  <2> QED
    BY <1>1, <2>1, Never
<1>4. ASSUME NEW h \in TimerHarts PROVE now[h] = -1 /\ Unset(h)
  <2>1. (2 * h) % 2 = 0
    BY Never
  <2> QED
    BY <1>1, <2>1, Never DEF TimerInit, Unset
<1> QED
  BY <1>2, <1>3, <1>4 DEF TimerInv

LEMMA TimerNextInv == TimerInv /\ [TimerNext]_timerVars => TimerInv'
<1> SUFFICES ASSUME TimerInv, [TimerNext]_timerVars PROVE TimerInv'
  OBVIOUS
<1>1. CASE Tick
  <2>1. /\ UNCHANGED <<wide, cmp, timer_period, now, alarm>>
        /\ mtime' \in 0 .. MaxTime
    BY <1>1, TimerAssumption DEF Tick, TimerInv
  <2> QED
    BY <2>1 DEF TimerInv, Unset, SetTo, Setting, Uintptr
<1>2. ASSUME NEW h \in TimerHarts, NEW p \in Periods, SetPeriod(h, p) PROVE TimerInv'
  <2>1. /\ p \in 0 .. WORD - 1 /\ mtime \in Nat /\ Uintptr(mtime) \in Nat
        /\ mtime + p \in Nat /\ mtime + p < NEVER
    <3>1. p \in 0 .. WORD - 1 /\ mtime \in Nat /\ mtime \in 0 .. MaxTime
      BY TimerAssumption DEF TimerInv
    <3>2. mtime % WORD \in Nat
      BY <3>1, Never
    <3> QED
      BY <3>1, <3>2, Never DEF Uintptr
  <2>2. /\ timer_period' = [timer_period EXCEPT ![h] = p]
        /\ now' = [now EXCEPT ![h] = Uintptr(mtime)]
        /\ alarm' = [alarm EXCEPT ![h] = mtime + p]
        /\ UNCHANGED <<wide, mtime, cmp>>
    BY <1>2 DEF SetPeriod
  <2>3. /\ wide' \in BOOLEAN /\ mtime' \in 0 .. MaxTime
        /\ cmp' \in [0 .. (2 * NHARTS) - 1 -> Nat]
        /\ timer_period' \in [TimerHarts -> 0 .. WORD - 1]
        /\ now' \in [TimerHarts -> Nat \cup {-1}]
        /\ alarm' \in [TimerHarts -> Nat]
    BY <2>1, <2>2 DEF TimerInv
  <2>4. now'[h] # -1 /\ Setting(h)'
    <3>1. alarm'[h] = mtime + timer_period'[h] /\ alarm'[h] < NEVER
          /\ now'[h] = Uintptr(mtime)
      BY <2>1, <2>2 DEF TimerInv
    <3>2. now'[h] # -1
      BY <3>1, <2>1
    <3>3. now'[h] = Uintptr(mtime)'
      BY <3>1, <2>2 DEF Uintptr
    <3> QED
      BY <3>1, <3>2, <3>3, <2>1, <2>2 DEF Setting, Uintptr
  <2>5. ASSUME NEW i \in TimerHarts, i # h
        PROVE  IF now'[i] = -1 THEN Unset(i)' \/ SetTo(i, alarm[i])' ELSE Setting(i)'
    <3>1. /\ timer_period'[i] = timer_period[i] /\ now'[i] = now[i] /\ alarm'[i] = alarm[i]
          /\ wide' = wide /\ cmp' = cmp
      BY <2>2, <2>5 DEF TimerInv
    <3> QED
      BY <3>1 DEF TimerInv, Unset, SetTo, Setting, Uintptr
  <2>6. ASSUME NEW i \in TimerHarts
        PROVE  IF now'[i] = -1 THEN Unset(i)' \/ SetTo(i, alarm[i])' ELSE Setting(i)'
    BY <2>4, <2>5
  <2> QED
    BY <2>3, <2>6 DEF TimerInv
<1>3. ASSUME NEW h \in TimerHarts, SetCompare(h) PROVE TimerInv'
  <2> DEFINE written == Uintptr(now[h] + timer_period[h])
             index == 2 * h
  <2>1. /\ now[h] # -1 /\ cmp' = CLINT_SET(2 * h, written)
        /\ now' = [now EXCEPT ![h] = -1] /\ UNCHANGED <<wide, mtime, timer_period, alarm>>
    BY <1>3 DEF SetCompare, LowWord
  <2>2. /\ index \in 0 .. (2 * NHARTS) - 1 /\ index + 1 \in 0 .. (2 * NHARTS) - 1
        /\ index # index + 1 /\ index \in Nat
    BY Never
  <2>3. PICK t \in Nat : alarm[h] = t + timer_period[h] /\ alarm[h] < NEVER /\ now[h] = Uintptr(t)
    BY <2>1 DEF TimerInv, Setting
  <2>4. timer_period[h] \in Nat /\ alarm[h] \in Nat /\ WORD \in Nat \ {0}
    BY Never DEF TimerInv
  <2>5. written % WORD = alarm[h] % WORD /\ (wide => written = alarm[h]) /\ written \in Nat
    <3>1. CASE wide
      BY <3>1, <2>3, <2>4 DEF Uintptr
    <3>2. CASE ~wide
      <4>1. written = ((t % WORD) + timer_period[h]) % WORD
        BY <3>2, <2>3 DEF Uintptr
      <4>2. ((t % WORD) + timer_period[h]) % WORD = (t + timer_period[h]) % WORD
        BY <2>3, <2>4, ModAdd
      <4>3. ASSUME NEW v \in Nat PROVE (v % WORD) % WORD = v % WORD /\ v % WORD \in Nat
        BY <2>4, SMTT(30)
      <4> HIDE DEF written
      <4> QED
        BY <4>1, <4>2, <4>3, <3>2, <2>3, <2>4
    <3> QED
      BY <3>1, <3>2
  <2> HIDE DEF written, index
  <2>6. cmp' = [cmp EXCEPT ![index] = written % WORD,
                           ![index + 1] = IF wide THEN written \div WORD ELSE @]
    BY <2>1 DEF CLINT_SET, index
  <2>7. written % WORD \in Nat /\ written \div WORD \in Nat
    BY <2>4, <2>5, DivNat
  <2>8. /\ cmp' \in [0 .. (2 * NHARTS) - 1 -> Nat]
        /\ cmp'[index] = alarm[h] % WORD
        /\ wide => cmp'[index + 1] = alarm[h] \div WORD
        /\ \A k \in 0 .. (2 * NHARTS) - 1 : k # index /\ k # index + 1 => cmp'[k] = cmp[k]
    BY <2>2, <2>5, <2>6, <2>7 DEF TimerInv
  <2>9. SetTo(h, alarm[h])'
    BY <2>1, <2>3, <2>8 DEF SetTo, index
  <2>10. ASSUME NEW i \in TimerHarts, i # h
         PROVE  IF now'[i] = -1 THEN Unset(i)' \/ SetTo(i, alarm[i])' ELSE Setting(i)'
    <3>1. 2 * i # index /\ 2 * i # index + 1 /\ (2 * i) + 1 # index /\ (2 * i) + 1 # index + 1
      BY <2>10, Never DEF index
    <3>2. /\ cmp'[2 * i] = cmp[2 * i] /\ cmp'[(2 * i) + 1] = cmp[(2 * i) + 1]
          /\ now'[i] = now[i] /\ UNCHANGED <<wide, timer_period, alarm>>
      BY <3>1, <2>1, <2>8, <2>10, Never DEF TimerInv
    <3> QED
      BY <3>2 DEF TimerInv, Unset, SetTo, Setting, Uintptr
  <2>11. now'[h] = -1 /\ now' \in [TimerHarts -> Nat \cup {-1}]
    BY <2>1 DEF TimerInv
  <2>12. ASSUME NEW i \in TimerHarts
         PROVE  IF now'[i] = -1 THEN Unset(i)' \/ SetTo(i, alarm[i])' ELSE Setting(i)'
    BY <2>9, <2>10, <2>11
  <2> QED
    BY <2>1, <2>8, <2>11, <2>12 DEF TimerInv
<1>4. CASE UNCHANGED timerVars
  BY <1>4 DEF timerVars, TimerInv, Unset, SetTo, Setting, Uintptr
<1> QED
  BY <1>1, <1>2, <1>3, <1>4 DEF TimerNext

(* What a compare register holds, from its two words. *)
LEMMA Words == ASSUME NEW w \in Nat \ {0}, NEW v \in Nat
               PROVE  (v % w) + w * (v \div w) = v
BY SMTT(30)

LEMMA TimerInvExact == TimerInv => TimerIsExact
<1> SUFFICES ASSUME TimerInv, NEW h \in TimerHarts, now[h] = -1
             PROVE  /\ wide \/ cmp[(2 * h) + 1] = alarm[h] \div WORD =>
                         (TimerPending(h) <=> mtime >= alarm[h])
                    /\ alarm[h] = NEVER /\ mtime < WORD - 1 => ~TimerPending(h)
  BY DEF TimerIsExact
<1>1. /\ alarm[h] \in Nat /\ mtime \in Nat /\ WORD \in Nat \ {0} /\ NEVER \in Nat
      /\ cmp[2 * h] \in Nat /\ cmp[(2 * h) + 1] \in Nat
      /\ NEVER \div WORD = WORD - 1 /\ NEVER % WORD = WORD - 1
  BY Never, TimerAssumption DEF TimerInv
<1>2. Unset(h) \/ SetTo(h, alarm[h])
  BY DEF TimerInv
<1>3. cmp[2 * h] = alarm[h] % WORD /\ (wide => cmp[(2 * h) + 1] = alarm[h] \div WORD)
  BY <1>1, <1>2 DEF Unset, SetTo
<1>4. ASSUME cmp[(2 * h) + 1] = alarm[h] \div WORD PROVE mtimecmp(h) = alarm[h]
  BY <1>1, <1>3, <1>4, Words DEF mtimecmp
<1>5. ASSUME alarm[h] = NEVER PROVE mtimecmp(h) >= WORD - 1
  <2>1. cmp[2 * h] = WORD - 1
    BY <1>1, <1>3, <1>5
  <2>2. WORD * cmp[(2 * h) + 1] >= 0 /\ WORD * cmp[(2 * h) + 1] \in Int
    BY <1>1
  <2> QED
    BY <2>1, <2>2, <1>1 DEF mtimecmp
<1>6. mtimecmp(h) \in Int
  BY <1>1 DEF mtimecmp
<1> QED
  BY <1>1, <1>3, <1>4, <1>5, <1>6 DEF TimerPending

-----------------------------------------------------------------------------
(* The counters.  Between two instructions the counter has gone on from the
   first, and a set one from what its low half holds. *)
CounterInv ==
    /\ count \in Values64 /\ low \in Values64 /\ arg \in Values64
    /\ begun \in Values64 /\ gap \in 0 .. HALF - 1
    /\ cop = "idle" => gap = 0
    /\ cop = "hi" => low = Lo(begun) /\ count = (begun + gap) % (HALF * HALF)
    /\ cop = "sethi" => /\ begun = arg
                        /\ ~Wraps(begun, gap) => Lo(count) = Lo(arg) + gap
    /\ CounterIsExact

LEMMA Half == /\ HALF \in Nat \ {0, 1} /\ HALF * HALF \in Nat \ {0} /\ HALF <= HALF * HALF
              /\ 0 .. HALF - 1 \subseteq Values64 /\ GAPS \subseteq 0 .. HALF - 1
<1>1. HALF \in Nat \ {0, 1} /\ GAPS \subseteq 0 .. HALF - 1
  BY CounterAssumption
<1>2. HALF * HALF \in Nat /\ HALF <= HALF * HALF
  BY <1>1, SMTT(30)
<1> QED
  BY <1>1, <1>2 DEF Values64

(* The halves of a value, and the value of two halves *)
LEMMA Joined == ASSUME NEW q \in 0 .. HALF - 1, NEW l \in 0 .. HALF - 1
                PROVE  /\ HALF * q + l \in Values64 /\ HALF * q + l = q * HALF + l
                       /\ Hi(HALF * q + l) = q /\ Lo(HALF * q + l) = l
<1>1. HALF * q <= HALF * (HALF - 1) /\ HALF * q \in Int /\ HALF * 0 <= HALF * q
  BY Half, ProductMonotone
<1>2. HALF * (HALF - 1) = HALF * HALF - HALF
  BY Half
<1>3. HALF * q + l \in Values64 /\ HALF * q = q * HALF
  BY <1>1, <1>2, Half DEF Values64
<1>4. (HALF * q + l) \div HALF = q /\ (HALF * q + l) % HALF = l
  BY Half, DivUnique
<1> QED
  BY <1>3, <1>4 DEF Hi, Lo

LEMMA Halves == ASSUME NEW v \in Values64
                PROVE  /\ Hi(v) \in 0 .. HALF - 1 /\ Lo(v) \in 0 .. HALF - 1
                       /\ v = HALF * Hi(v) + Lo(v)
<1>1. v \in Nat /\ v < HALF * HALF
  BY Half DEF Values64
<1>2. Hi(v) \in Nat /\ Lo(v) \in 0 .. HALF - 1 /\ v = HALF * Hi(v) + Lo(v)
  <2>1. v \in Int /\ HALF \in Nat \ {0}
    BY <1>1, Half
  <2>2. v % HALF \in 0 .. HALF - 1 /\ v = HALF * (v \div HALF) + (v % HALF)
    BY <2>1, DivMod
  <2>3. v \div HALF \in Nat
    BY <2>1, <1>1, DivNat
  <2> QED
    BY <2>2, <2>3 DEF Hi, Lo
<1>3. ASSUME Hi(v) >= HALF PROVE FALSE
  <2>1. HALF * HALF <= HALF * Hi(v)
    BY <1>2, <1>3, Half, ProductMonotone
  <2> QED
    BY <2>1, <1>1, <1>2, Half
<1> QED
  BY <1>2, <1>3, Half

(* A counter after an advance of less than a half: the carry goes into the
   high half, and out of it. *)
LEMMA Advanced ==
    ASSUME NEW q \in 0 .. HALF - 1, NEW l \in 0 .. HALF - 1, NEW g \in 0 .. HALF - 1
    PROVE  LET v == (HALF * q + l + g) % (HALF * HALF)
           IN  /\ v \in Values64
               /\ l + g < HALF => v = HALF * q + l + g /\ Hi(v) = q /\ Lo(v) = l + g
               /\ l + g >= HALF => Hi(v) = (IF q = HALF - 1 THEN 0 ELSE q + 1)
<1> DEFINE sum == HALF * q + l + g
<1>1. HALF * q \in Int /\ HALF * q = q * HALF
  BY Half, ProductMonotone
<1>2. CASE l + g < HALF
  <2>1. l + g \in 0 .. HALF - 1 /\ sum = HALF * q + (l + g)
    BY <1>1, <1>2, Half
  <2>2. sum \in Values64 /\ Hi(sum) = q /\ Lo(sum) = l + g
    BY <2>1, Joined
  <2>3. sum % (HALF * HALF) = sum
    BY <2>2, Half, ModSmall DEF Values64
  <2> QED
    BY <2>2, <2>3, <1>2, Half
<1>3. CASE l + g >= HALF /\ q # HALF - 1
  <2>1. l + g - HALF \in 0 .. HALF - 1 /\ q + 1 \in 0 .. HALF - 1
    BY <1>3, Half
  <2>2. HALF * (q + 1) = HALF * q + HALF
    BY Half
  <2>3. sum = HALF * (q + 1) + (l + g - HALF)
    BY <2>1, <2>2, <1>1, Half
  <2>4. sum \in Values64 /\ Hi(sum) = q + 1
    BY <2>1, <2>3, Joined
  <2>5. sum % (HALF * HALF) = sum
    BY <2>4, Half, ModSmall DEF Values64
  <2> QED
    BY <2>4, <2>5, <1>3, Half
<1>4. CASE l + g >= HALF /\ q = HALF - 1
  <2>1. l + g - HALF \in 0 .. HALF - 1 /\ l + g - HALF \in 0 .. HALF * HALF - 1
    BY <1>4, Half
  <2>2. HALF * (HALF - 1) = HALF * HALF - HALF
    BY Half
  <2>3. sum = (HALF * HALF) * 1 + (l + g - HALF)
    BY <2>1, <2>2, <1>1, <1>4, Half
  <2>4. sum % (HALF * HALF) = l + g - HALF
    BY <2>1, <2>3, Half, DivUnique
  <2>5. (l + g - HALF) \div HALF = 0
    BY <2>1, Half, ModSmall
  <2> QED
    BY <2>1, <2>4, <2>5, <1>4, Half DEF Hi
<1>5. l + g < HALF \/ l + g >= HALF
  BY Half
<1> QED
  BY <1>2, <1>3, <1>4, <1>5

LEMMA Whole == \A v \in Values64 : (v + 0) % (HALF * HALF) = v
<1> SUFFICES ASSUME NEW v \in Values64 PROVE (v + 0) % (HALF * HALF) = v
  OBVIOUS
<1>1. v % (HALF * HALF) = v
  BY Half, ModSmall DEF Values64
<1>2. v + 0 = v
  BY Half DEF Values64
<1> QED
  BY <1>1, <1>2

LEMMA CounterInitInv == CounterInit => CounterInv
BY Half DEF CounterInit, CounterInv, CounterIsExact, CounterReads, CounterSets

LEMMA CounterNextInv == CounterInv /\ [CounterNext]_counterVars => CounterInv'
<1> SUFFICES ASSUME CounterInv, [CounterNext]_counterVars PROVE CounterInv'
  OBVIOUS
<1> USE DEF CounterIsExact, CounterReads, CounterSets
<1>1. /\ HALF \in Nat \ {0, 1} /\ HALF * HALF \in Nat \ {0}
      /\ 0 .. HALF - 1 \subseteq Values64 /\ GAPS \subseteq 0 .. HALF - 1
      /\ Values64 \subseteq Nat
  BY Half DEF Values64
<1>2. CASE Pass
  BY <1>2 DEF Pass, CounterInv
<1>3. ASSUME NEW gaps \in SUBSET GAPS, ReadLo(gaps) PROVE CounterInv'
  <2>1. Hi(count) \in 0 .. HALF - 1 /\ Lo(count) \in 0 .. HALF - 1 /\ gap' \in 0 .. HALF - 1
        /\ count = HALF * Hi(count) + Lo(count)
    BY <1>1, <1>3, Halves DEF ReadLo, CounterInv
  <2>2. Ticks(gap') \in Values64
    BY <2>1, Advanced DEF Ticks
  <2> QED
    BY <2>1, <2>2, <1>1, <1>3 DEF ReadLo, CounterInv, Ticks
<1>4. CASE ReadHi
  <2> DEFINE q == Hi(begun)
             l == Lo(begun)
             high == Hi(count)
             hi == IF l = HALF - 1 THEN (high - 1) % HALF ELSE high
  <2>1. /\ q \in 0 .. HALF - 1 /\ l \in 0 .. HALF - 1 /\ gap \in 0 .. HALF - 1
        /\ begun = HALF * q + l /\ begun \in Values64
    BY Halves DEF CounterInv
  <2>2. low = l /\ count = (begun + gap) % (HALF * HALF) /\ result' = hi * HALF + l
    BY <1>4 DEF ReadHi, CounterInv
  <2>3. high = IF l + gap < HALF THEN q ELSE IF q = HALF - 1 THEN 0 ELSE q + 1
    <3>1. count = (HALF * q + l + gap) % (HALF * HALF)
      BY <2>1, <2>2
    <3> HIDE DEF q, l
    <3>2. /\ l + gap < HALF => Hi(count) = q
          /\ l + gap >= HALF => Hi(count) = IF q = HALF - 1 THEN 0 ELSE q + 1
      BY <3>1, <2>1, Advanced
    <3>3. l + gap < HALF \/ l + gap >= HALF
      BY <2>1, <1>1
    <3> QED
      BY <3>2, <3>3, <2>1, <1>1
  <2> HIDE DEF q, l, high
  <2>4. high \in 0 .. HALF - 1 /\ (high - 1) % HALF = IF high = 0 THEN HALF - 1 ELSE high - 1
    <3>1. high \in 0 .. HALF - 1
      BY <2>1, <2>3, <1>1
    <3>2. high \in 0 .. HALF /\ HALF \in Nat \ {0}
      BY <3>1, <1>1
    <3> QED
      BY <3>1, <3>2, ModOfOneLess
  <2>5. hi \in 0 .. HALF - 1
    BY <2>4, <1>1
  <2>6. hi = q <=> (l + gap >= HALF <=> l = HALF - 1)
    BY <2>1, <2>3, <2>4, <1>1
  <2>7. gap = 1 => hi = q
    BY <2>1, <2>6, <1>1
  <2> HIDE DEF hi
  <2>8. result' = HALF * hi + l /\ Hi(HALF * hi + l) = hi /\ Lo(HALF * hi + l) = l
    BY <2>1, <2>2, <2>5, Joined
  <2>9. result' = begun <=> hi = q
    BY <2>1, <2>8, Joined
  <2>10. UNCHANGED <<count, low, arg, begun, gap>> /\ cop' = "read"
    BY <1>4 DEF ReadHi
  <2>11. CounterReads'
    BY <2>6, <2>7, <2>8, <2>9, <2>10 DEF Wraps, l
  <2> QED
    BY <2>10, <2>11 DEF CounterInv
<1>5. ASSUME NEW gaps \in SUBSET GAPS, WriteLo(gaps) PROVE CounterInv'
  <2>1. /\ Hi(count) \in 0 .. HALF - 1 /\ Lo(arg') \in 0 .. HALF - 1 /\ gap' \in 0 .. HALF - 1
        /\ Hi(count) * HALF = HALF * Hi(count)
    BY <1>1, <1>5, Halves DEF WriteLo, CounterInv
  <2>2. count' = (HALF * Hi(count) + Lo(arg') + gap') % (HALF * HALF)
    BY <2>1, <1>5 DEF WriteLo
  <2>3. count' \in Values64 /\ (Lo(arg') + gap' < HALF => Lo(count') = Lo(arg') + gap')
    BY <2>1, <2>2, Advanced
  <2> QED
    <3>1. begun' = arg' /\ cop' = "sethi" /\ UNCHANGED <<low, result>> /\ arg' \in Values64
      BY <1>5 DEF WriteLo
    <3>2. Lo(arg') + gap' >= HALF \/ Lo(count') = Lo(arg') + gap'
      BY <2>1, <2>3, <1>1
    <3>3. Wraps(begun, gap)' <=> Lo(arg') + gap' >= HALF
      BY <3>1 DEF Wraps, Lo
    <3>4. ~Wraps(begun, gap)' => Lo(count)' = Lo(arg)' + gap'
      BY <3>2, <3>3
    <3> QED
      BY <2>1, <2>3, <3>1, <3>4 DEF CounterInv
<1>6. CASE WriteHi
  <2>1. /\ Hi(arg) \in 0 .. HALF - 1 /\ Lo(arg) \in 0 .. HALF - 1 /\ gap \in 0 .. HALF - 1
        /\ arg = HALF * Hi(arg) + Lo(arg) /\ Lo(count) \in 0 .. HALF - 1
    BY Halves DEF CounterInv
  <2>2. /\ begun = arg /\ (~Wraps(begun, gap) => Lo(count) = Lo(arg) + gap)
        /\ count' = Hi(arg) * HALF + Lo(count) /\ cop' = "set"
        /\ UNCHANGED <<low, arg, begun, gap, result>>
    BY <1>6 DEF WriteHi, CounterInv
  <2>3. count' = HALF * Hi(arg) + Lo(count) /\ count' \in Values64
    BY <2>1, <2>2, Joined
  <2>4. ASSUME ~Wraps(begun, gap) PROVE count' = (begun + gap) % (HALF * HALF)
    <3>1. Lo(arg) + gap < HALF /\ Lo(count) = Lo(arg) + gap
      BY <2>1, <2>2, <2>4, <1>1 DEF Wraps
    <3>2. HALF * Hi(arg) \in Int
      BY <2>1, <1>1, ProductMonotone
    <3>3. count' = HALF * Hi(arg) + Lo(arg) + gap
      BY <3>1, <3>2, <2>1, <2>3
    <3>4. (HALF * Hi(arg) + Lo(arg) + gap) % (HALF * HALF) = HALF * Hi(arg) + Lo(arg) + gap
      BY <3>1, <2>1, Advanced
    <3> QED
      BY <3>3, <3>4, <2>1, <2>2
  <2> QED
    BY <2>2, <2>3, <2>4 DEF CounterInv, Wraps, Lo
<1>7. CASE ReadWhole
  <2>1. Hi(count) \in 0 .. HALF - 1 /\ Lo(count) \in 0 .. HALF - 1 /\ 1 \in 0 .. HALF - 1
        /\ count = HALF * Hi(count) + Lo(count)
    BY <1>1, Halves DEF CounterInv
  <2>2. count' \in Values64
    BY <2>1, <1>7, Advanced DEF ReadWhole, Ticks
  <2>3. Wraps(count, 1) <=> Lo(count) = HALF - 1
    BY <2>1, <1>1 DEF Wraps
  <2> QED
    BY <2>1, <2>2, <2>3, <1>1, <1>7 DEF ReadWhole, CounterInv
<1>8. CASE WriteWhole
  <2>1. arg' \in Values64
    BY <1>8 DEF WriteWhole
  <2>2. (arg' + 0) % (HALF * HALF) = arg'
    BY <2>1, Whole
  <2> QED
    BY <2>1, <2>2, <1>1, <1>8 DEF WriteWhole, CounterInv
<1>9. CASE Finish
  BY <1>1, <1>9 DEF Finish, CounterInv
<1>10. CASE UNCHANGED counterVars
  BY <1>10 DEF counterVars, CounterInv, Wraps, Lo
<1>11. AlwaysOn \in SUBSET GAPS /\ GAPS \in SUBSET GAPS
  BY DEF AlwaysOn
<1>12. CASE cpu_cycles \/ cpu_instructions \/ cpu_imiss \/ cpu_dmiss \/ bsp_loads \/ bsp_stores
  BY <1>3, <1>7, <1>11, <1>12
     DEF cpu_cycles, cpu_instructions, cpu_imiss, cpu_dmiss, bsp_loads, bsp_stores
<1>13. CASE \/ cpu_set_cycles \/ cpu_set_instructions \/ cpu_set_imiss \/ cpu_set_dmiss
            \/ bsp_set_loads \/ bsp_set_stores
  BY <1>5, <1>8, <1>11, <1>13
     DEF cpu_set_cycles, cpu_set_instructions, cpu_set_imiss, cpu_set_dmiss,
         bsp_set_loads, bsp_set_stores
<1> QED
  BY <1>2, <1>4, <1>6, <1>9, <1>10, <1>12, <1>13 DEF CounterNext

-----------------------------------------------------------------------------
(* The caches.  Of a range that is being invalidated, the bytes outside of the
   lines that its loop has still to drop are fresh. *)
ToBeDropped(a) == range.line <= Line(a) /\ Line(a) <= range.end
InRange(a) == a >= range.addr /\ a < range.addr + range.bytes
CacheInv ==
    /\ ram \in [Addrs -> Nat] /\ asked \in [Addrs -> Nat]
    /\ range \in [addr : Int, bytes : Int, line : Int, end : Int]
    /\ \A a \in Addrs : View(a) \in Nat /\ asked[a] <= ram[a]
    /\ \A a \in Addrs : InRange(a) /\ ~ToBeDropped(a) => View(a) >= asked[a]

LEMMA LineFacts == /\ LINE_BYTES \in Nat \ {0} /\ LastAddr \in Nat
                   /\ \A a \in Addrs : /\ a \in Nat /\ Line(a) \in Nat
                                       /\ Line(a) \in LineNumbers /\ a \in InLine(Line(a))
                   /\ LineNumbers \subseteq Nat
<1>1. LINE_BYTES \in Nat \ {0} /\ LastAddr \in Nat
  BY CacheAssumption
<1>2. ASSUME NEW a \in Addrs PROVE a \in Nat /\ Line(a) \in Nat
  <2>1. a \in Nat
    BY <1>1 DEF Addrs
  <2> QED
    BY <2>1, <1>1, DivNat DEF Line
<1> QED
  BY <1>1, <1>2 DEF LineNumbers, InLine

LEMMA LineMonotone == ASSUME NEW a \in Addrs, NEW b \in Addrs, a <= b PROVE Line(a) <= Line(b)
BY LineFacts, DivMonotone DEF Line

(* What a load returns after lines were dropped, loaded, or stored to *)
LEMMA DroppedView ==
    ASSUME NEW ls, lines' = Dropped(ls), ram' = ram, NEW a \in Addrs
    PROVE  View(a)' = IF Line(a) \in ls THEN ram[a] ELSE View(a)
<1>1. lines'[Line(a)] = IF Line(a) \in ls THEN ABSENT ELSE lines[Line(a)]
  BY LineFacts DEF Dropped
<1> QED
  BY <1>1 DEF View

LEMMA EmptyIsDropped == EMPTY = Dropped(LineNumbers)
BY DEF EMPTY, Dropped

LEMMA LoadedView ==
    ASSUME NEW ls, lines' = Loaded(ls), ram' = ram, NEW a \in Addrs
    PROVE  View(a)' = View(a)
<1> DEFINE held == [b \in InLine(Line(a)) |-> ram[b]]
<1>1. lines'[Line(a)] = IF Line(a) \in ls /\ lines[Line(a)] = ABSENT THEN held ELSE lines[Line(a)]
  BY LineFacts DEF Loaded
<1>2. held[a] = ram[a]
  BY LineFacts
<1> HIDE DEF held
<1> QED
  BY <1>1, <1>2 DEF View

LEMMA StoredView ==
    ASSUME NEW bytes, StoreAndUpdate(bytes), NEW a \in Addrs
    PROVE  View(a)' = View(a) \/ View(a)' = ram'[a]
<1> DEFINE held == [b \in InLine(Line(a)) |-> IF b \in bytes THEN ram'[b] ELSE lines[Line(a)][b]]
<1>1. lines'[Line(a)] = IF kind = "code" \/ lines[Line(a)] = ABSENT THEN lines[Line(a)] ELSE held
  BY LineFacts DEF StoreAndUpdate
<1>2. held[a] = IF a \in bytes THEN ram'[a] ELSE lines[Line(a)][a]
  BY LineFacts
<1>3. ram'[a] = ram[a] \/ a \in bytes
  BY DEF StoreAndUpdate, Store
<1> HIDE DEF held
<1> QED
  BY <1>1, <1>2, <1>3 DEF View

(* A step during which the copy of a byte stays, is dropped or is renewed
   leaves the range fresh. *)
LEMMA CopiesStayFresh ==
    ASSUME CacheInv, UNCHANGED <<range, asked>>, ram' \in [Addrs -> Nat],
           \A a \in Addrs : ram[a] <= ram'[a],
           \A a \in Addrs : View(a)' = View(a) \/ View(a)' = ram'[a] \/ View(a)' = ram[a]
    PROVE  CacheInv'
<1>1. ASSUME NEW a \in Addrs
      PROVE  View(a)' \in Nat /\ asked[a] <= ram'[a]
             /\ (View(a) >= asked[a] => View(a)' >= asked[a])
  <2>1. ram[a] \in Nat /\ ram'[a] \in Nat /\ asked[a] \in Nat /\ View(a) \in Nat
        /\ asked[a] <= ram[a] /\ ram[a] <= ram'[a]
    BY DEF CacheInv
  <2>2. View(a)' = View(a) \/ View(a)' = ram'[a] \/ View(a)' = ram[a]
    OBVIOUS
  <2> QED
    BY <2>1, <2>2
<1>2. ASSUME NEW a \in Addrs
      PROVE  (InRange(a)' <=> InRange(a)) /\ (ToBeDropped(a)' <=> ToBeDropped(a))
  BY DEF InRange, ToBeDropped
<1>3. ASSUME NEW a \in Addrs, InRange(a)', ~ToBeDropped(a)' PROVE View(a)' >= asked'[a]
  BY <1>1, <1>2, <1>3 DEF CacheInv
<1> QED
  BY <1>1, <1>3 DEF CacheInv

LEMMA StoreGrows ==
    ASSUME CacheInv, NEW bytes, Store(bytes)
    PROVE  ram' \in [Addrs -> Nat] /\ (\A a \in Addrs : ram[a] <= ram'[a])
           /\ UNCHANGED <<range, asked>>
BY DEF CacheInv, Store

(* An invalidation that has begun, with every line of its range dropped or
   still to be *)
LEMMA BeginsFresh ==
    ASSUME CacheInv, NEW addr \in Int, NEW bytes \in Int, NEW end \in Int, Line(addr) \in Int,
           Begin(addr, bytes, end),
           \A a \in Addrs : View(a)' = View(a) \/ View(a)' = ram[a],
           \A a \in Addrs : a >= addr /\ a < addr + bytes =>
               View(a)' = ram[a] \/ (Line(addr) <= Line(a) /\ Line(a) <= end)
    PROVE  CacheInv'
<1>1. /\ range' = [addr |-> addr, bytes |-> bytes, line |-> Line(addr), end |-> end]
      /\ asked' = ram /\ ram' = ram
  BY DEF Begin
<1>2. ram \in [Addrs -> Nat] /\ \A a \in Addrs : ram[a] \in Nat /\ View(a)' \in Nat
  BY DEF CacheInv
<1>3. ASSUME NEW a \in Addrs
      PROVE  /\ InRange(a)' <=> a >= addr /\ a < addr + bytes
             /\ ToBeDropped(a)' <=> Line(addr) <= Line(a) /\ Line(a) <= end
  <2>1. range'.addr = addr /\ range'.bytes = bytes /\ range'.line = Line(addr) /\ range'.end = end
    BY <1>1
  <2>2. /\ InRange(a)' <=> a >= range'.addr /\ a < range'.addr + range'.bytes
        /\ ToBeDropped(a)' <=> range'.line <= Line(a) /\ Line(a) <= range'.end
    BY DEF InRange, ToBeDropped, Line
  <2> QED
    BY <2>1, <2>2
<1>4. ASSUME NEW a \in Addrs, InRange(a)', ~ToBeDropped(a)' PROVE View(a)' >= asked'[a]
  <2>1. View(a)' = ram[a]
    BY <1>3, <1>4
  <2> QED
    BY <2>1, <1>1, <1>2
<1>5. range' \in [addr : Int, bytes : Int, line : Int, end : Int]
  BY <1>1
<1>6. ASSUME NEW a \in Addrs PROVE View(a)' \in Nat /\ asked'[a] <= ram'[a]
  BY <1>1, <1>2
<1> QED
  BY <1>1, <1>2, <1>4, <1>5, <1>6 DEF CacheInv

LEMMA CacheInitInv == CacheInit => CacheInv
<1> SUFFICES ASSUME CacheInit PROVE CacheInv
  OBVIOUS
<1>1. ASSUME NEW a \in Addrs PROVE View(a) = 0 /\ ~InRange(a)
  <2>1. lines[Line(a)] = ABSENT
    BY LineFacts DEF CacheInit, EMPTY
  <2>2. a \in Nat
    BY LineFacts
  <2> QED
    BY <2>1, <2>2 DEF View, CacheInit, InRange
<1> QED
  BY <1>1 DEF CacheInit, CacheInv

LEMMA CacheNextInv == CacheInv /\ [CacheNext]_cacheVars => CacheInv'
<1> SUFFICES ASSUME CacheInv, [CacheNext]_cacheVars PROVE CacheInv'
  OBVIOUS
<1>1. ASSUME NEW a \in Addrs, StoreElsewhere(a) PROVE CacheInv'
  <2>1. Store({a}) /\ lines' = lines
    BY <1>1 DEF StoreElsewhere
  <2>2. ASSUME NEW x \in Addrs PROVE View(x)' = View(x) \/ View(x)' = ram'[x]
    BY <2>1 DEF View
  <2> QED
    BY <2>1, <2>2, StoreGrows, CopiesStayFresh
<1>2. ASSUME NEW bytes, StoreAndUpdate(bytes) PROVE CacheInv'
  <2>1. Store(bytes)
    BY <1>2 DEF StoreAndUpdate
  <2>2. \A x \in Addrs : View(x)' = View(x) \/ View(x)' = ram'[x]
    BY <1>2, StoredView
  <2> QED
    BY <2>1, <2>2, StoreGrows, CopiesStayFresh
<1>3. ASSUME NEW ls, lines' = Loaded(ls) \/ lines' = Dropped(ls), UNCHANGED <<kind, ram, range, asked>>
      PROVE  CacheInv'
  <2>1. ram' \in [Addrs -> Nat] /\ \A x \in Addrs : ram[x] <= ram'[x]
    BY <1>3 DEF CacheInv
  <2>2. \A x \in Addrs : View(x)' = View(x) \/ View(x)' = ram[x]
    BY <1>3, LoadedView, DroppedView
  <2> QED
    BY <1>3, <2>1, <2>2, CopiesStayFresh
<1>4. ASSUME NEW a \in Addrs, NEW b \in 0 .. LastAddr + 1 - a, InvalidateRange(a, b)
      PROVE  CacheInv'
  <2> DEFINE end == IF b = 0 THEN -1 ELSE Line(a + b - 1)
  <2>1. Begin(a, b, end) /\ lines' = lines /\ ram' = ram
    BY <1>4 DEF InvalidateRange, Begin
  <2>2. a \in Nat /\ b \in Nat /\ a + b <= LastAddr + 1 /\ (b # 0 => a + b - 1 \in Addrs)
    BY LineFacts DEF Addrs
  <2>3. end \in Int /\ Line(a) \in Int
    BY <2>2, LineFacts
  <2>4. ASSUME NEW x \in Addrs PROVE View(x)' = View(x)
    BY <2>1 DEF View
  <2>5. ASSUME NEW x \in Addrs, x >= a, x < a + b PROVE Line(a) <= Line(x) /\ Line(x) <= end
    <3>1. x \in Nat /\ b # 0 /\ x <= a + b - 1 /\ a + b - 1 \in Addrs
      BY <2>2, <2>5, LineFacts
    <3> QED
      BY <3>1, <2>5, LineMonotone
  <2> HIDE DEF end
  <2> QED
    BY <2>1, <2>2, <2>3, <2>4, <2>5, BeginsFresh
<1>5. ASSUME NEW a \in Addrs, NEW b \in 0 .. LastAddr + 1 - a, InvalidateCode(a, b)
      PROVE  CacheInv'
  <2>1. Begin(a, b, -1) /\ ram' = ram /\ (b # 0 => lines' = Dropped(LineNumbers))
        /\ (b = 0 => lines' = lines)
    BY <1>5, EmptyIsDropped DEF InvalidateCode, Begin
  <2>2. a \in Nat /\ b \in Int /\ Line(a) \in Int
    BY LineFacts
  <2>3. ASSUME NEW x \in Addrs
        PROVE  /\ View(x)' = View(x) \/ View(x)' = ram[x]
               /\ x >= a /\ x < a + b => View(x)' = ram[x]
    <3>1. CASE b = 0
      <4>1. View(x)' = View(x)
        BY <2>1, <3>1 DEF View
      <4>2. x \in Nat
        BY LineFacts
      <4> QED
        BY <4>1, <4>2, <3>1, <2>2
    <3>2. CASE b # 0
      BY <2>1, <3>2, DroppedView, LineFacts
    <3> QED
      BY <3>1, <3>2
  <2> QED
    BY <2>1, <2>2, <2>3, BeginsFresh
<1>6. ASSUME NEW a \in Addrs, InvalidateAddress(a) PROVE CacheInv'
  <2>1. Begin(a, 1, -1) /\ ram' = ram
        /\ (lines' = Dropped({Line(a)}) \/ lines' = Dropped(LineNumbers))
    BY <1>6, EmptyIsDropped DEF InvalidateAddress, Begin
  <2>2. a \in Nat /\ Line(a) \in Int
    BY LineFacts
  <2>3. ASSUME NEW x \in Addrs
        PROVE  /\ View(x)' = View(x) \/ View(x)' = ram[x]
               /\ x >= a /\ x < a + 1 => View(x)' = ram[x]
    <3>1. x >= a /\ x < a + 1 => x = a
      BY <2>2, LineFacts
    <3>2. Line(x) \in LineNumbers
      BY LineFacts
    <3> QED
      BY <2>1, <3>1, <3>2, DroppedView
  <2> QED
    BY <2>1, <2>2, <2>3, BeginsFresh
<1>7. CASE InvalidateLine
  <2>1. /\ lines' = Dropped({range.line}) /\ UNCHANGED <<kind, ram, asked>>
        /\ range' = [range EXCEPT !.line = range.line + 1]
    BY <1>7 DEF InvalidateLine
  <2>2. /\ range' \in [addr : Int, bytes : Int, line : Int, end : Int]
        /\ range'.addr = range.addr /\ range'.bytes = range.bytes
        /\ range'.line = range.line + 1 /\ range'.end = range.end
        /\ range.line \in Int /\ range.end \in Int
    BY <2>1 DEF CacheInv
  <2>3. ASSUME NEW x \in Addrs
        PROVE  View(x)' = IF Line(x) = range.line THEN ram[x] ELSE View(x)
    BY <2>1, DroppedView
  <2>4. ASSUME NEW x \in Addrs
        PROVE  /\ InRange(x)' <=> InRange(x)
               /\ ToBeDropped(x) /\ ~ToBeDropped(x)' => Line(x) = range.line
    <3>1. InRange(x)' <=> InRange(x)
      BY <2>2 DEF InRange
    <3>2. ToBeDropped(x)' <=> range.line + 1 <= Line(x) /\ Line(x) <= range.end
      BY <2>2 DEF ToBeDropped, Line
    <3>3. Line(x) \in Nat
      BY LineFacts
    <3> QED
      BY <3>1, <3>2, <3>3, <2>2 DEF ToBeDropped
  <2>5. ASSUME NEW x \in Addrs
        PROVE  /\ View(x)' \in Nat /\ asked'[x] <= ram'[x]
               /\ InRange(x)' /\ ~ToBeDropped(x)' => View(x)' >= asked'[x]
    <3>1. ram[x] \in Nat /\ asked[x] \in Nat /\ asked[x] <= ram[x] /\ View(x) \in Nat
          /\ (InRange(x) /\ ~ToBeDropped(x) => View(x) >= asked[x])
      BY DEF CacheInv
    <3> QED
      BY <3>1, <2>1, <2>3, <2>4
  <2> QED
    BY <2>1, <2>2, <2>5 DEF CacheInv
<1>8. CASE InvalidateAll
  <2>1. Begin(0, LastAddr + 1, -1) /\ ram' = ram /\ lines' = Dropped(LineNumbers)
    BY <1>8, EmptyIsDropped DEF InvalidateAll, Begin
  <2>2. 0 \in Addrs /\ LastAddr + 1 \in Int
    BY LineFacts DEF Addrs
  <2>3. Line(0) \in Int
    BY <2>2, LineFacts
  <2>4. \A x \in Addrs : View(x)' = ram[x]
    BY <2>1, DroppedView, LineFacts
  <2> QED
    BY <2>1, <2>2, <2>3, <2>4, BeginsFresh
<1>9. CASE UNCHANGED cacheVars
  BY <1>9 DEF cacheVars, CacheInv, View, ToBeDropped, InRange
<1>10. ASSUME NEW a \in Addrs, StoreHere(a) PROVE CacheInv'
  BY <1>2, <1>10 DEF StoreHere
<1>11. ASSUME NEW l \in LineNumbers, Fill(l) \/ cmo_zero(l) \/ cmo_flush({l}) PROVE CacheInv'
  BY <1>2, <1>3, <1>11 DEF Fill, cmo_zero, cmo_flush
<1>12. ASSUME NEW a, NEW b, PrefetchRange(a, b) \/ PrefetchAddress(a) PROVE CacheInv'
  BY <1>3, <1>12 DEF PrefetchAddress, PrefetchRange
<1>13. CASE cmo_flush(LineNumbers)
  BY <1>3, <1>13 DEF cmo_flush
<1> QED
  BY <1>1, <1>4, <1>5, <1>6, <1>7, <1>8, <1>9, <1>10, <1>11, <1>12, <1>13 DEF CacheNext

LEMMA CacheInvFresh == CacheInv => RangeIsFresh
<1> SUFFICES ASSUME CacheInv, ~Invalidating, NEW a \in Addrs,
                    a >= range.addr /\ a < range.addr + range.bytes
             PROVE  View(a) >= asked[a]
  BY DEF RangeIsFresh
<1>1. range.line \in Int /\ range.end \in Int /\ Line(a) \in Nat
  BY LineFacts DEF CacheInv
<1>2. ~ToBeDropped(a)
  BY <1>1 DEF ToBeDropped, Invalidating
<1> QED
  BY <1>2 DEF CacheInv, InRange

-----------------------------------------------------------------------------
(* The bit sets.  A one at position b of word k stands for one element, except
   in the first word once an element below 0 was named. *)
ElementAt(k, b) == (k - 1) * W + (W - 1 - b)
Table == 1 .. n \div W + 1
BitSetInv ==
    /\ n \in Nat /\ tab \in [Table -> SUBSET Bits] /\ members \in SUBSET (0 .. n - 1)
    /\ stray \in BOOLEAN
    /\ \A k \in Table, b \in Bits :
         (stray => k # 1) => (b \in tab[k] <=> ElementAt(k, b) \in members)

LEMMA NaturalElement ==
    ASSUME NEW e \in Nat PROVE Word(e) = e \div W /\ Masks(e) = {{Bit(e)}} /\ ~(e < 0)
BY DEF Word, Masks

LEMMA ElementFacts ==
    /\ W \in Nat \ {0} /\ MaxN \in Nat
    /\ \A e \in Nat : /\ Word(e) \in Nat /\ Bit(e) \in Bits
                      /\ ElementAt(Word(e) + 1, Bit(e)) = e
    /\ \A k \in Nat \ {0}, b \in Bits : /\ ElementAt(k, b) \in Nat
                                        /\ Word(ElementAt(k, b)) = k - 1
                                        /\ Bit(ElementAt(k, b)) = b
<1>1. W \in Nat \ {0} /\ MaxN \in Nat
  BY BitSetAssumption
<1>2. ASSUME NEW e \in Nat
      PROVE  /\ Word(e) \in Nat /\ Bit(e) \in Bits /\ ElementAt(Word(e) + 1, Bit(e)) = e
  <2>1. e \div W \in Nat
    BY <1>1, DivNat
  <2>2. e % W \in 0 .. W - 1 /\ e = W * (e \div W) + (e % W)
    BY <1>1, DivMod
  <2>3. W - 1 - (W - 1 - (e % W)) = e % W /\ (e \div W) + 1 - 1 = e \div W
    BY <1>1, <2>1, <2>2
  <2>4. W * (e \div W) = (e \div W) * W
    BY <1>1, <2>1
  <2>5. Word(e) = e \div W
    BY NaturalElement
  <2> HIDE DEF Word
  <2> QED
    BY <1>1, <2>1, <2>2, <2>3, <2>4, <2>5 DEF Bit, Bits, ElementAt
<1>3. ASSUME NEW k \in Nat \ {0}, NEW b \in Bits
      PROVE  /\ ElementAt(k, b) \in Nat
             /\ Word(ElementAt(k, b)) = k - 1 /\ Bit(ElementAt(k, b)) = b
  <2> DEFINE q == k - 1
             r == W - 1 - b
  <2>1. q \in Nat /\ r \in 0 .. W - 1 /\ W - 1 - r = b
    BY <1>1 DEF Bits
  <2>2. ElementAt(k, b) = q * W + r
    BY DEF ElementAt
  <2> HIDE DEF q, r
  <2>3. q * W = W * q /\ W * 0 <= W * q /\ W * q \in Int
    BY <1>1, <2>1, ProductMonotone
  <2>4. ElementAt(k, b) = W * q + r /\ ElementAt(k, b) \in Nat
    BY <1>1, <2>1, <2>2, <2>3
  <2>5. (W * q + r) \div W = q /\ (W * q + r) % W = r
    BY <1>1, <2>1, DivUnique
  <2>6. q = k - 1
    BY DEF q
  <2> QED
    BY <2>1, <2>4, <2>5, <2>6, NaturalElement DEF Bit
<1> QED
  BY <1>1, <1>2, <1>3

LEMMA WordInTable ==
    ASSUME n \in Nat, NEW e \in Nat, e <= n
    PROVE  Word(e) + 1 \in Table
<1>1. Word(e) \in Nat /\ n \div W \in Nat /\ e \div W <= n \div W /\ Word(e) = e \div W
  BY ElementFacts, DivNat, DivMonotone, NaturalElement
<1> QED
  BY <1>1 DEF Table

LEMMA BitSetInitInv == BitSetInit => BitSetInv
<1> SUFFICES ASSUME BitSetInit PROVE BitSetInv
  OBVIOUS
<1>1. n = 0 /\ tab = <<{}>> /\ members = {} /\ stray = FALSE
  BY DEF BitSetInit
<1>2. n \div W = 0
  BY <1>1, ElementFacts, ModSmall
<1>3. Table = {1}
  BY <1>2 DEF Table
<1>4. tab \in [Table -> SUBSET Bits] /\ \A k \in Table, b \in Bits : b \notin tab[k]
  BY <1>1, <1>3
<1> QED
  BY <1>1, <1>4 DEF BitSetInv

(* An update of one element, which its word and the set agree on *)
LEMMA UpdateKeeps ==
    ASSUME BitSetInv, NEW e \in Nat, NEW new, Update(e, new),
           members' \in SUBSET (0 .. n - 1),
           \A x \in Nat : x # e => (x \in members' <=> x \in members),
           e < n => new \in SUBSET Bits,
           e < n /\ (stray => Word(e) + 1 # 1) =>
             \A b \in Bits :
               b \in new <=> IF b = Bit(e) THEN e \in members' ELSE b \in tab[Word(e) + 1]
    PROVE  BitSetInv'
<1>1. n \in Nat /\ tab \in [Table -> SUBSET Bits] /\ members \in SUBSET (0 .. n - 1)
      /\ Table \subseteq Nat \ {0} /\ stray \in BOOLEAN
  BY DEF BitSetInv, Table
<1>5. n' = n /\ stray' = stray /\ Table' = Table
      /\ tab' = IF e >= n THEN tab ELSE [tab EXCEPT ![Word(e) + 1] = new]
  BY <1>1, NaturalElement, ElementFacts DEF Update, Table
<1>2. CASE e >= n
  <2>1. tab' = tab
    BY <1>2, <1>5
  <2>2. e \notin members /\ e \notin members'
    BY <1>1, <1>2
  <2>3. \A x \in Nat : x \in members' <=> x \in members
    BY <2>2
  <2>4. \A k \in Table, b \in Bits :
          (stray => k # 1) => (b \in tab'[k] <=> ElementAt(k, b) \in members')
    BY <1>1, <2>1, <2>3, ElementFacts DEF BitSetInv
  <2> QED
    BY <1>1, <1>5, <2>1, <2>4 DEF BitSetInv, ElementAt
<1>3. CASE e < n
  <2>1. Word(e) + 1 \in Table /\ Word(e) \in Nat
    BY <1>1, <1>3, WordInTable, ElementFacts
  <2>2. tab' = [tab EXCEPT ![Word(e) + 1] = new] /\ new \in SUBSET Bits
    BY <1>1, <1>3, <1>5
  <2>3. ASSUME NEW k \in Table, NEW b \in Bits, stray => k # 1
        PROVE  b \in tab'[k] <=> ElementAt(k, b) \in members'
    <3>1. k \in Nat \ {0} /\ ElementAt(k, b) \in Nat
          /\ Word(ElementAt(k, b)) = k - 1 /\ Bit(ElementAt(k, b)) = b
      BY <1>1, ElementFacts
    <3>2. CASE ElementAt(k, b) = e
      <4>1. k = Word(e) + 1 /\ b = Bit(e)
        BY <3>1, <3>2
      <4>2. b \in new <=> e \in members'
        BY <4>1, <2>3, <1>3
      <4> QED
        BY <4>1, <4>2, <3>2, <2>1, <2>2, <1>1
    <3>3. CASE ElementAt(k, b) # e
      <4>1. ~(k = Word(e) + 1 /\ b = Bit(e))
        BY <3>3, ElementFacts
      <4>2. tab'[k] = IF k = Word(e) + 1 THEN new ELSE tab[k]
        BY <2>2, <1>1
      <4>3. b \in tab'[k] <=> b \in tab[k]
        BY <4>1, <4>2, <2>3, <1>3
      <4> QED
        BY <4>3, <3>1, <3>3, <2>3 DEF BitSetInv
    <3> QED
      BY <3>2, <3>3
  <2>4. tab' \in [Table -> SUBSET Bits]
    BY <1>1, <2>2
  <2> QED
    BY <1>1, <1>5, <2>3, <2>4 DEF BitSetInv, ElementAt
<1>4. e >= n \/ e < n
  BY <1>1
<1> QED
  BY <1>2, <1>3, <1>4

(* An update of an element below 0 reaches the first word at most. *)
LEMMA StrayWord == ASSUME NEW e \in Int, e < 0 PROVE Word(e) \in Int /\ Word(e) <= 0
<1>1. Word(e) = -((-e) \div W)
  BY DEF Word
<1>2. -e \in Nat /\ W \in Nat \ {0}
  BY ElementFacts
<1>3. (-e) \div W \in Nat
  BY <1>2, DivNat
<1> QED
  BY <1>1, <1>3
LEMMA UpdateStray ==
    ASSUME BitSetInv, NEW e \in Int, e < 0, NEW new, Update(e, new), members' = members,
           tab[1] \in SUBSET Bits /\ Word(e) = 0 => new \in SUBSET Bits
    PROVE  BitSetInv'
<1>1. n \in Nat /\ tab \in [Table -> SUBSET Bits] /\ members \in SUBSET (0 .. n - 1)
  BY DEF BitSetInv
<1>2. 1 \in Table
  <2>1. n \div W \in Nat
    BY <1>1, ElementFacts, DivNat
  <2> QED
    BY <2>1 DEF Table
<1>6. ~(e >= n) /\ n' = n /\ Table' = Table
  BY <1>1 DEF Update, Table
<1>7. stray' = (stray \/ e < 0)
  BY DEF Update
<1>3. stray' = TRUE /\ Word(e) \in Int /\ Word(e) <= 0
      /\ tab' = IF Word(e) < 0 THEN tab ELSE [tab EXCEPT ![Word(e) + 1] = new]
  BY <1>6, <1>7, StrayWord DEF Update
<1>4. tab' \in [Table -> SUBSET Bits] /\ \A k \in Table \ {1} : tab'[k] = tab[k]
  <2>1. CASE Word(e) < 0
    BY <2>1, <1>1, <1>3
  <2>2. CASE Word(e) = 0
    <3>1. tab' = [tab EXCEPT ![1] = new] /\ new \in SUBSET Bits
      BY <2>2, <1>1, <1>2, <1>3
    <3> QED
      BY <3>1, <1>1, <1>2
  <2> QED
    BY <2>1, <2>2, <1>3
<1>5. \A k \in Table, b \in Bits :
        (stray' => k # 1) => (b \in tab'[k] <=> ElementAt(k, b) \in members')
  BY <1>3, <1>4 DEF BitSetInv
<1> QED
  BY <1>1, <1>3, <1>4, <1>5, <1>6 DEF BitSetInv, ElementAt

LEMMA BitSetNextInv == BitSetInv /\ [BitSetNext]_bitsetVars => BitSetInv'
<1> SUFFICES ASSUME BitSetInv, [BitSetNext]_bitsetVars PROVE BitSetInv'
  OBVIOUS
<1> DEFINE Named == -W .. MaxN + 1
           w(e) == tab[Word(e) + 1]
<1>1. n \in Nat /\ tab \in [Table -> SUBSET Bits] /\ members \in SUBSET (0 .. n - 1)
  BY DEF BitSetInv
<1>2. ASSUME NEW size \in 0 .. MaxN, bitset_init(size) PROVE BitSetInv'
  <2>1. size \in Nat
    BY ElementFacts
  <2>2. n' = size /\ members' = {} /\ tab' = [k \in Table' |-> {}] /\ stray' = FALSE
    BY <1>2 DEF bitset_init, Table
  <2> QED
    BY <2>1, <2>2 DEF BitSetInv
<1>3. \A e \in Named : e \in Nat \/ (e \in Int /\ e < 0)
  BY ElementFacts
<1>4. ASSUME NEW e \in Nat, e < n
      PROVE  /\ w(e) \in SUBSET Bits /\ Bit(e) \in Bits
             /\ (stray => Word(e) + 1 # 1) => (Bit(e) \in w(e) <=> e \in members)
  BY <1>1, <1>4, WordInTable, ElementFacts DEF BitSetInv
<1>9. ASSUME NEW e \in Int, e < 0, NEW m \in Masks(e)
      PROVE  m \in SUBSET Bits /\ e \notin members /\ {e} \cap 0 .. n - 1 = {}
             /\ (Word(e) = 0 => w(e) = tab[1])
  <2>1. m \in SUBSET Bits
    BY <1>9 DEF Masks
  <2>2. e \notin 0 .. n - 1
    BY <1>9
  <2> QED
    BY <2>1, <2>2, <1>1
<1> HIDE DEF w
<1>5. ASSUME NEW e \in Named, bitset_set(e) PROVE BitSetInv'
  <2>1. PICK m \in Masks(e) : Update(e, w(e) \cup m)
    BY <1>5 DEF bitset_set, w
  <2>2. members' = members \cup ({e} \cap 0 .. n - 1)
    BY <1>5 DEF bitset_set
  <2>3. CASE e \in Nat
    <3>1. m = {Bit(e)}
      BY <2>1, <2>3, NaturalElement
    <3>2. e < n => e \in members'
      BY <2>2, <2>3, <1>1
    <3>3. members' \in SUBSET (0 .. n - 1) /\ \A x \in Nat : x # e => (x \in members' <=> x \in members)
      BY <2>2, <1>1
    <3>4. e < n => w(e) \cup {Bit(e)} \in SUBSET Bits
      BY <2>3, <1>4
    <3> QED
      BY <2>1, <2>3, <3>1, <3>2, <3>3, <3>4, UpdateKeeps DEF w
  <2>4. CASE e \in Int /\ e < 0
    BY <2>1, <2>2, <2>4, <1>9, UpdateStray
  <2> QED
    BY <2>3, <2>4, <1>3
<1>6. ASSUME NEW e \in Named, bitset_reset(e) PROVE BitSetInv'
  <2>1. PICK m \in Masks(e) : Update(e, w(e) \ m)
    BY <1>6 DEF bitset_reset, w
  <2>2. members' = members \ {e}
    BY <1>6 DEF bitset_reset
  <2>3. CASE e \in Nat
    <3>1. m = {Bit(e)}
      BY <2>1, <2>3, NaturalElement
    <3>2. e \notin members' /\ members' \in SUBSET (0 .. n - 1)
          /\ \A x \in Nat : x # e => (x \in members' <=> x \in members)
      BY <2>2, <1>1
    <3>3. e < n => w(e) \ {Bit(e)} \in SUBSET Bits
      BY <2>3, <1>4
    <3> QED
      BY <2>1, <2>3, <3>1, <3>2, <3>3, UpdateKeeps DEF w
  <2>4. CASE e \in Int /\ e < 0
    BY <2>1, <2>2, <2>4, <1>9, UpdateStray
  <2> QED
    BY <2>3, <2>4, <1>3
<1>7. ASSUME NEW e \in Named, bitset_flip(e) PROVE BitSetInv'
  <2>1. PICK m \in Masks(e) : Update(e, (w(e) \ m) \cup (m \ w(e)))
    BY <1>7 DEF bitset_flip, w
  <2>2. members' = IF e \in members THEN members \ {e} ELSE members \cup ({e} \cap 0 .. n - 1)
    BY <1>7 DEF bitset_flip, Flipped
  <2> DEFINE new == (w(e) \ m) \cup (m \ w(e))
  <2>3. CASE e \in Nat
    <3>1. m = {Bit(e)}
      BY <2>1, <2>3, NaturalElement
    <3>2. /\ members' \in SUBSET (0 .. n - 1)
          /\ \A x \in Nat : x # e => (x \in members' <=> x \in members)
      BY <2>2, <1>1
    <3>3. e < n => (e \in members' <=> e \notin members)
      BY <2>2, <2>3, <1>1
    <3>4. e < n => new \in SUBSET Bits
      BY <2>3, <3>1, <1>4
    <3>5. e < n /\ (stray => Word(e) + 1 # 1) =>
            \A b \in Bits : b \in new <=> IF b = Bit(e) THEN e \in members' ELSE b \in w(e)
      BY <2>3, <3>1, <3>3, <1>4
    <3> HIDE DEF new
    <3>6. Update(e, new)
      BY <2>1 DEF new
    <3> QED
      BY <3>6, <2>3, <3>2, <3>4, <3>5, UpdateKeeps DEF w
  <2>4. CASE e \in Int /\ e < 0
    BY <2>1, <2>2, <2>4, <1>9, UpdateStray
  <2> QED
    BY <2>3, <2>4, <1>3
<1>8. CASE UNCHANGED bitsetVars
  BY <1>8 DEF bitsetVars, BitSetInv, Table, ElementAt
<1> QED
  BY <1>2, <1>5, <1>6, <1>7, <1>8 DEF BitSetNext

(* There are as many ones as elements. *)
LEMMA CountsMembers == ASSUME BitSetInv, ~stray PROVE bitset_count = Cardinality(members)
<1> DEFINE ones == {x \in (DOMAIN tab) \X Bits : x[2] \in tab[x[1]]}
           f == [e \in members |-> <<Word(e) + 1, Bit(e)>>]
<1>1. n \in Nat /\ DOMAIN tab = Table /\ members \in SUBSET (0 .. n - 1) /\ Table \subseteq Nat \ {0}
  BY DEF BitSetInv, Table
<1>2. IsFiniteSet(members)
  <2>1. IsFiniteSet(0 .. n - 1)
    BY <1>1, FS_Interval
  <2> QED
    BY <1>1, <2>1, FS_Subset
<1>3. ASSUME NEW e \in members
      PROVE  /\ f[e] = <<Word(e) + 1, Bit(e)>> /\ f[e] \in ones /\ e \in Nat
             /\ ElementAt(f[e][1], f[e][2]) = e
  <2>1. e \in Nat /\ e <= n
    BY <1>1
  <2>2. Word(e) + 1 \in Table /\ Bit(e) \in Bits /\ ElementAt(Word(e) + 1, Bit(e)) = e
    BY <1>1, <2>1, WordInTable, ElementFacts
  <2>3. Bit(e) \in tab[Word(e) + 1]
    BY <2>2 DEF BitSetInv
  <2> QED
    BY <1>1, <2>1, <2>2, <2>3
<1>4. f \in [members -> ones]
  BY <1>3
<1>5. \A d, e \in members : f[d] = f[e] => d = e
  <2> HIDE DEF f, ones
  <2> QED
    BY <1>3
<1>6. ASSUME NEW x \in ones PROVE \E e \in members : f[e] = x
  <2>1. x[1] \in Table /\ x[2] \in Bits /\ x[2] \in tab[x[1]] /\ x = <<x[1], x[2]>>
    BY <1>1
  <2>2. ElementAt(x[1], x[2]) \in members
    BY <2>1 DEF BitSetInv
  <2>3. Word(ElementAt(x[1], x[2])) = x[1] - 1 /\ Bit(ElementAt(x[1], x[2])) = x[2]
        /\ x[1] \in Nat
    BY <1>1, <2>1, ElementFacts
  <2>4. f[ElementAt(x[1], x[2])] = <<x[1] - 1 + 1, x[2]>>
    BY <2>2, <2>3, <1>3
  <2> QED
    BY <2>1, <2>2, <2>3, <2>4
<1> HIDE DEF f, ones
<1>7. f \in Bijection(members, ones)
  BY <1>4, <1>5, <1>6, Fun_IsBij
<1>8. ExistsBijection(members, ones)
  BY <1>7 DEF ExistsBijection
<1>9. Cardinality(ones) = Cardinality(members)
  BY <1>2, <1>8, FS_Bijection
<1> QED
  BY <1>9 DEF bitset_count, ones

LEMMA BitSetInvIsSet == BitSetInv => BitSetIsSet
<1> SUFFICES ASSUME BitSetInv PROVE BitSetIsSet
  OBVIOUS
<1>1. n \in Nat /\ DOMAIN tab = Table /\ tab \in [Table -> SUBSET Bits]
      /\ members \in SUBSET (0 .. n - 1) /\ Table \subseteq Nat \ {0}
  BY DEF BitSetInv, Table
<1>2. ASSUME NEW e \in Nat, e <= n, stray => e >= W
      PROVE  /\ Word(e) + 1 \in Table /\ Bit(e) \in Bits
             /\ Bit(e) \in tab[Word(e) + 1] <=> e \in members
  <2>1. /\ Word(e) + 1 \in Table /\ Bit(e) \in Bits /\ Word(e) \in Nat
        /\ ElementAt(Word(e) + 1, Bit(e)) = e
    BY <1>1, <1>2, WordInTable, ElementFacts
  <2>2. stray => Word(e) + 1 # 1
    <3>1. ASSUME e >= W PROVE e \div W >= 1
      <4>1. W \in Nat \ {0} /\ W \div W = 1
        <5>1. W \in Nat \ {0} /\ W = W * 1 + 0 /\ 0 \in 0 .. W - 1
          BY ElementFacts
        <5> QED
          BY <5>1, DivUnique
      <4> QED
        BY <3>1, <4>1, DivMonotone
    <3> QED
      BY <3>1, <1>2, <2>1, NaturalElement
  <2> QED
    BY <2>1, <2>2 DEF BitSetInv
<1>3. ASSUME NEW e \in 0 .. MaxN + 1, stray => e >= W, NEW answer \in bitset_test(e)
      PROVE  answer <=> e \in members
  <2>1. e \in Nat
    BY ElementFacts
  <2>2. Word(e) \in Nat /\ Masks(e) = {{Bit(e)}}
    BY <2>1, ElementFacts, NaturalElement
  <2>3. answer \in {e < n /\ m \cap tab[Word(e) + 1] # {} : m \in {{Bit(e)}}}
    BY <1>3, <2>2 DEF bitset_test
  <2>4. answer = (e < n /\ {Bit(e)} \cap tab[Word(e) + 1] # {})
    BY <2>3
  <2>5. answer <=> e < n /\ Bit(e) \in tab[Word(e) + 1]
    BY <2>4
  <2>6. e < n \/ (~(e < n) /\ e \notin members)
    BY <1>1, <2>1
  <2>7. e < n => (Bit(e) \in tab[Word(e) + 1] <=> e \in members)
    BY <1>1, <1>2, <1>3, <2>1
  <2> QED
    BY <2>5, <2>6, <2>7
<1> SUFFICES ASSUME ~stray
             PROVE  /\ bitset_any <=> members # {}
                    /\ bitset_none <=> members = {}
                    /\ bitset_count = Cardinality(members)
                    /\ TRUE \in bitset_all => members = 0 .. n - 1
                    /\ members = 0 .. n - 1 => (bitset_all = {TRUE} <=> n % W # 0)
  BY <1>3 DEF BitSetIsSet, bitset_size
<1>4. (\E k \in Table : tab[k] # {}) <=> members # {}
  <2>1. ASSUME NEW k \in Table, tab[k] # {} PROVE members # {}
    BY <1>1, <2>1 DEF BitSetInv
  <2>2. ASSUME NEW e \in members PROVE \E k \in Table : tab[k] # {}
    <3>1. e \in Nat /\ e <= n
      BY <1>1
    <3> QED
      BY <1>2, <3>1
  <2> QED
    BY <2>1, <2>2
<1>5. (bitset_any <=> members # {}) /\ (bitset_none <=> members = {})
  BY <1>1, <1>4 DEF bitset_any, bitset_none
<1>14. bitset_count = Cardinality(members)
  BY CountsMembers
<1> DEFINE l == n \div W + 1
           ok == \A k \in DOMAIN tab \ {l} : tab[k] = Bits
<1>6. l \in Table /\ n \div W \in Nat /\ n % W \in 0 .. W - 1 /\ n = W * (n \div W) + (n % W)
      /\ W \in Nat \ {0}
  <2>1. W \in Nat \ {0} /\ n \in Int
    BY <1>1, ElementFacts
  <2>2. n \div W \in Nat
    BY <1>1, <2>1, DivNat
  <2>3. n % W \in 0 .. W - 1 /\ n = W * (n \div W) + (n % W)
    BY <2>1, DivMod
  <2> QED
    BY <2>1, <2>2, <2>3 DEF Table
<1>7. bitset_all = {ok /\ tab[l] = last : last \in Shifted}
  BY DEF bitset_all
(* The element of a bit of the last word is n less what follows it. *)
<1>8. ASSUME NEW b \in Bits
      PROVE  ElementAt(l, b) = n - (n % W) + (W - 1 - b) /\ b \in 0 .. W - 1
  <2> DEFINE q == n \div W
             r == n % W
  <2>1. q \in Nat /\ r \in Int /\ n = W * q + r /\ W \in Nat /\ n \in Nat /\ b \in 0 .. W - 1
    BY <1>1, <1>6 DEF Bits
  <2>2. ElementAt(l, b) = q * W + (W - 1 - b)
    <3>1. l - 1 = q
      BY <2>1
    <3> QED
      BY <3>1 DEF ElementAt
  <2>3. q * W = W * q /\ W * q \in Int
    <3> HIDE DEF q, r
    <3> QED
      BY <2>1
  <2> HIDE DEF l, q, r
  <2>4. ElementAt(l, b) = n - r + (W - 1 - b) /\ b \in 0 .. W - 1
    BY <2>1, <2>2, <2>3
  <2> USE DEF r
  <2> QED
    BY <2>4
<1>9. ASSUME NEW b \in Bits PROVE b \in tab[l] => b >= W - (n % W)
  <2>1. b \in tab[l] => ElementAt(l, b) \in members
    BY <1>6 DEF BitSetInv
  <2> HIDE DEF l
  <2>2. \A x \in members : x < n /\ x \in Int
    BY <1>1
  <2> QED
    BY <2>1, <2>2, <1>1, <1>6, <1>8
<1>10. members = 0 .. n - 1 => ok /\ tab[l] = {b \in Bits : b >= W - (n % W)}
  <2> SUFFICES ASSUME members = 0 .. n - 1
               PROVE  ok /\ tab[l] = {b \in Bits : b >= W - (n % W)}
    OBVIOUS
  <2>1. ASSUME NEW k \in Table, k # l, NEW b \in Bits PROVE b \in tab[k]
    <3>1. k \in Nat \ {0} /\ k - 1 < n \div W
      BY <2>1, <1>1, <1>6 DEF Table
    <3>2. ElementAt(k, b) \in Nat /\ Word(ElementAt(k, b)) = k - 1
      BY <3>1, ElementFacts
    <3>3. ElementAt(k, b) < n
      <4>1. CASE n <= ElementAt(k, b)
        <5>1. n \div W <= ElementAt(k, b) \div W
          BY <4>1, <3>2, <1>1, <1>6, DivMonotone
        <5>2. Word(ElementAt(k, b)) = ElementAt(k, b) \div W
          BY <3>2, NaturalElement
        <5> QED
          BY <5>1, <5>2, <3>1, <3>2, <1>6
      <4> QED
        BY <4>1, <3>2, <1>1
    <3> QED
      BY <3>2, <3>3, <1>1 DEF BitSetInv
  <2>2. ok
    BY <2>1, <1>1
  <2>3. ASSUME NEW b \in Bits, b >= W - (n % W) PROVE b \in tab[l]
    <3>1. l \in Nat \ {0} /\ ElementAt(l, b) \in Nat
      BY <1>1, <1>6, ElementFacts
    <3>2. ElementAt(l, b) < n
      BY <1>1, <1>6, <1>8, <2>3
    <3>3. ElementAt(l, b) \in members
      BY <3>1, <3>2, <1>1
    <3> QED
      BY <3>3, <1>6 DEF BitSetInv
  <2>4. tab[l] \in SUBSET Bits
    BY <1>1, <1>6
  <2> HIDE DEF ok, l
  <2> QED
    BY <2>2, <2>3, <2>4, <1>9
<1>11. ASSUME NEW last \in Shifted, ok, tab[l] = last PROVE members = 0 .. n - 1
  <2> SUFFICES ASSUME NEW e \in 0 .. n - 1 PROVE e \in members
    BY <1>1
  <2>1. e \in Nat /\ e <= n /\ e < n /\ Word(e) + 1 \in Table /\ Bit(e) \in Bits
        /\ (Bit(e) \in tab[Word(e) + 1] <=> e \in members)
    BY <1>1, <1>2
  <2>2. CASE Word(e) + 1 # l
    BY <2>1, <2>2, <1>1, <1>11
  <2>3. CASE Word(e) + 1 = l
    <3>1. ElementAt(l, Bit(e)) = e
      BY <2>1, <2>3, ElementFacts
    <3>2. Bit(e) >= W - (n % W) /\ n % W # 0
      BY <3>1, <2>1, <1>8, <1>1, <1>6
    <3>3. Shifted = {{b \in Bits : b >= W - (n % W)}}
      BY <3>2 DEF Shifted
    <3> QED
      BY <3>2, <3>3, <2>1, <2>3, <1>11
  <2> QED
    BY <2>2, <2>3
<1>12. TRUE \in bitset_all => members = 0 .. n - 1
  <2> HIDE DEF ok, l
  <2> QED
    BY <1>7, <1>11
<1>13. ASSUME members = 0 .. n - 1, n % W # 0 PROVE bitset_all = {TRUE}
  <2>1. Shifted = {{b \in Bits : b >= W - (n % W)}}
    BY <1>13 DEF Shifted
  <2> HIDE DEF ok, l
  <2> QED
    BY <2>1, <1>7, <1>10, <1>13
<1>15. ASSUME members = 0 .. n - 1, n % W = 0 PROVE FALSE \in bitset_all
  <2>1. Bits \in Shifted /\ 0 \in Bits
    BY <1>15, <1>6 DEF Shifted, Bits
  <2>2. 0 \notin tab[l]
    <3>1. 0 \in tab[l] => 0 >= W - (n % W)
      BY <1>9, <2>1
    <3> QED
      BY <3>1, <1>15, <1>6
  <2>3. tab[l] # Bits
    BY <2>1, <2>2
  <2> HIDE DEF ok, l
  <2>4. (ok /\ tab[l] = Bits) = FALSE
    BY <2>3
  <2> QED
    BY <2>1, <2>4, <1>7
<1>16. members = 0 .. n - 1 => (bitset_all = {TRUE} <=> n % W # 0)
  BY <1>13, <1>15
<1> QED
  BY <1>5, <1>12, <1>14, <1>16

-----------------------------------------------------------------------------
(* memset() and memcpy().  What is written so far ends at the pointer, and the
   pointer and the count are those of the bytes that are left. *)
Ragged(b) == fill[b] \in {OLD, req.c} \/ (fill[b] = 255 /\ req.c >= 128 /\ b % WSIZE >= 4)
Filling ==
    /\ \A b \in Bytes : (fill[b] # OLD <=> req.s <= b /\ b < at) /\ Ragged(b)
    /\ req.s <= at
    /\ mpc = "head" => /\ at <= req.s + HeadSize(req.s, req.n)
                       /\ left = req.n - HeadSize(req.s, req.n)
    /\ mpc # "head" => /\ at + left = req.s + req.n
                       /\ left >= WSIZE => at % WSIZE = 0
    /\ mpc = "done" => left = 0
InBlocks == /\ at * WSIZE + left = req.n /\ left % Block = req.n % Block
            /\ (at = 0 /\ ahead = -1) \/ ahead = at + 3
InTail == left < req.n % Block /\ at = 4 * (req.n \div Block) + (req.n % Block) - left
Copying ==
    /\ \A k \in Bytes : (copy[k] # OLD <=> k < at) /\ copy[k] \in {OLD, k}
    /\ InBlocks \/ InTail
    /\ mpc = "done" => left = 0
MemInv ==
    /\ req.s \in Nat /\ req.c \in 0 .. 255 /\ req.n \in Nat
    /\ at \in Nat /\ left \in Nat /\ ahead \in Int
    /\ DOMAIN fill = Bytes /\ DOMAIN copy = Bytes
    /\ mpc \in {"head", "words"} => req.op = "memset"
    /\ mpc = "blocks" => req.op = "memcpy"
    /\ req.op = "memset" => Filling
    /\ req.op = "memcpy" => Copying

LEMMA WordSize == /\ WSIZE = 4 \/ WSIZE = 8
                  /\ Block = 4 * WSIZE
                  /\ OLD \notin Int /\ Offsets \subseteq Nat
                  /\ Values \subseteq 0 .. 255 /\ Sizes \subseteq Nat
                  /\ \A b \in Bytes : b \in Nat
BY MemAssumption DEF Block, Bytes

(* The bytes before the first boundary *)
LEMMA HeadFacts ==
    ASSUME NEW s \in Nat, NEW n1 \in Nat
    PROVE  /\ HeadSize(s, n1) \in Nat /\ HeadSize(s, n1) <= n1
           /\ n1 - HeadSize(s, n1) >= WSIZE => (s + HeadSize(s, n1)) % WSIZE = 0
<1>1. WSIZE = 4 \/ WSIZE = 8
  BY WordSize
<1> QED
  BY <1>1, SMTT(30) DEF HeadSize

LEMMA MemInitInv == MemInit => MemInv
BY DEF MemInit, MemInv

LEMMA MemNextInv == MemInv /\ [MemNext]_memVars => MemInv'
<1> SUFFICES ASSUME MemInv, [MemNext]_memVars PROVE MemInv'
  OBVIOUS
<1>1. /\ WSIZE = 4 \/ WSIZE = 8
      /\ Block = 4 * WSIZE /\ OLD \notin Int /\ \A b \in Bytes : b \in Nat
  BY WordSize
<1>2. /\ req.s \in Nat /\ req.c \in 0 .. 255 /\ req.n \in Nat
      /\ at \in Nat /\ left \in Nat /\ ahead \in Int
      /\ DOMAIN fill = Bytes /\ DOMAIN copy = Bytes
  BY DEF MemInv
<1>3. ASSUME NEW s \in Offsets, NEW c \in Values, NEW k \in Sizes, memset(s, c, k) PROVE MemInv'
  <2>1. /\ mpc' = "head" /\ req' = [op |-> "memset", s |-> s, c |-> c, n |-> k]
        /\ at' = s /\ left' = k - HeadSize(s, k) /\ ahead' = -1
        /\ fill' = [b \in Bytes |-> OLD] /\ copy' = [b \in Bytes |-> OLD]
    BY <1>3 DEF memset, Call
  <2>2. /\ req'.op = "memset" /\ req'.s = s /\ req'.c = c /\ req'.n = k
        /\ s \in Nat /\ c \in 0 .. 255 /\ k \in Nat
    BY <2>1, WordSize
  <2>3. HeadSize(s, k) \in Nat /\ HeadSize(s, k) <= k
    BY <2>2, HeadFacts
  <2>4. HeadSize(req.s, req.n)' = HeadSize(s, k)
    BY <2>2 DEF HeadSize
  <2>5. Filling'
    BY <2>1, <2>2, <2>3, <2>4, <1>1 DEF Filling, Ragged
  <2> QED
    BY <2>1, <2>2, <2>3, <2>5 DEF MemInv
<1>4. ASSUME NEW k \in Sizes, memcpy(k) PROVE MemInv'
  <2>1. /\ mpc' = "blocks" /\ req' = [op |-> "memcpy", s |-> 0, c |-> 0, n |-> k]
        /\ at' = 0 /\ left' = k /\ ahead' = -1
        /\ fill' = [b \in Bytes |-> OLD] /\ copy' = [b \in Bytes |-> OLD]
    BY <1>4 DEF memcpy, Call
  <2>2. req'.op = "memcpy" /\ req'.s = 0 /\ req'.c = 0 /\ req'.n = k /\ k \in Nat
    BY <2>1, WordSize
  <2>3. InBlocks'
    BY <2>1, <2>2, <1>1 DEF InBlocks
  <2>4. Copying'
    BY <2>1, <2>2, <2>3, <1>1 DEF Copying
  <2> QED
    BY <2>1, <2>2, <2>4 DEF MemInv
<1>5. CASE HeadByte
  <2>1. /\ mpc = "head" /\ at < req.s + HeadSize(req.s, req.n)
        /\ fill' = [fill EXCEPT ![at] = req.c] /\ at' = at + 1
        /\ UNCHANGED <<mpc, req, left, copy, ahead>>
    BY <1>5 DEF HeadByte
  <2>2. Filling /\ req.op = "memset"
    BY <2>1 DEF MemInv
  <2>3. HeadSize(req.s, req.n) \in Nat
    BY <1>2, HeadFacts
  <2>4. ASSUME NEW b \in Bytes
        PROVE  (fill'[b] # OLD <=> req.s <= b /\ b < at + 1) /\ Ragged(b)'
    <3>1. fill'[b] = IF b = at THEN req.c ELSE fill[b]
      BY <2>1, <1>2
    <3>2. b \in Nat /\ req.c # OLD /\ req.s <= at
      BY <1>1, <1>2, <2>1, <2>2 DEF Filling
    <3>3. (fill[b] # OLD <=> req.s <= b /\ b < at) /\ Ragged(b)
      BY <2>2 DEF Filling
    <3> QED
      BY <3>1, <3>2, <3>3, <2>1, <1>2 DEF Ragged
  <2>5. HeadSize(req.s, req.n)' = HeadSize(req.s, req.n)
    BY <2>1
  <2>6. Filling'
    BY <2>1, <2>2, <2>3, <2>4, <2>5, <1>2 DEF Filling
  <2> QED
    BY <2>1, <2>2, <2>6, <1>2 DEF MemInv
<1>6. CASE HeadDone
  <2>1. /\ mpc = "head" /\ at = req.s + HeadSize(req.s, req.n) /\ mpc' = "words"
        /\ UNCHANGED <<req, at, left, fill, copy, ahead>>
    BY <1>6 DEF HeadDone
  <2>2. Filling /\ req.op = "memset"
    BY <2>1 DEF MemInv
  <2>3. /\ HeadSize(req.s, req.n) \in Nat
        /\ req.n - HeadSize(req.s, req.n) >= WSIZE => at % WSIZE = 0
    BY <1>2, <2>1, HeadFacts
  <2>4. at + left = req.s + req.n /\ (left >= WSIZE => at % WSIZE = 0)
    BY <2>1, <2>2, <2>3, <1>2 DEF Filling
  <2>5. Filling'
    BY <2>1, <2>2, <2>4 DEF Filling, Ragged
  <2> QED
    BY <2>1, <2>2, <2>5, <1>2 DEF MemInv
<1>7. CASE FillWord
  <2>1. /\ mpc = "words" /\ left >= WSIZE
        /\ fill' = [b \in Bytes |-> IF b - at \in 0 .. WSIZE - 1 THEN Lane(req.c, b - at) ELSE fill[b]]
        /\ at' = at + WSIZE /\ left' = left - WSIZE
        /\ UNCHANGED <<mpc, req, copy, ahead>>
    BY <1>7 DEF FillWord
  <2>2. Filling /\ req.op = "memset"
    BY <2>1 DEF MemInv
  <2>3. at % WSIZE = 0 /\ at + left = req.s + req.n
    BY <2>1, <2>2 DEF Filling
  <2>4. (at + WSIZE) % WSIZE = 0
    BY <2>3, <1>1, <1>2
  <2>5. ASSUME NEW b \in Bytes
        PROVE  (fill'[b] # OLD <=> req.s <= b /\ b < at + WSIZE) /\ Ragged(b)'
    <3>1. b \in Nat /\ req.c # OLD /\ 255 # OLD
      BY <1>1, <1>2
    <3>2. (fill[b] # OLD <=> req.s <= b /\ b < at) /\ Ragged(b)
      BY <2>2 DEF Filling
    <3>3. CASE b - at \in 0 .. WSIZE - 1
      <4>1. fill'[b] = Lane(req.c, b - at)
        BY <2>1, <3>3
      <4>2. b - at >= 4 => b % WSIZE >= 4
        BY <2>3, <3>1, <3>3, <1>1, <1>2
      <4>3. fill'[b] # OLD /\ (fill'[b] = req.c \/ (fill'[b] = 255 /\ req.c >= 128 /\ b % WSIZE >= 4))
        BY <3>1, <4>1, <4>2 DEF Lane
      <4>4. req.s <= b /\ b < at + WSIZE
        <5>1. req.s <= at
          BY <2>2 DEF Filling
        <5> QED
          BY <5>1, <3>1, <3>3, <1>1, <1>2
      <4> QED
        BY <4>3, <4>4, <2>1 DEF Ragged
    <3>4. CASE b - at \notin 0 .. WSIZE - 1
      <4>1. fill'[b] = fill[b]
        BY <2>1, <3>4
      <4>2. b < at + WSIZE <=> b < at
        BY <3>1, <3>4, <1>1, <1>2
      <4> QED
        BY <4>1, <4>2, <3>2, <2>1 DEF Ragged
    <3> QED
      BY <3>3, <3>4
  <2>6. at' + left' = req.s + req.n /\ left' \in Nat /\ at' \in Nat /\ req.s <= at'
    BY <2>1, <2>2, <2>3, <1>1, <1>2 DEF Filling
  <2>7. Filling'
    BY <2>1, <2>4, <2>5, <2>6 DEF Filling
  <2> QED
    BY <2>1, <2>2, <2>6, <2>7, <1>2 DEF MemInv
<1>8. CASE TailByte
  <2>1. /\ mpc = "words" /\ left \in 1 .. WSIZE - 1
        /\ fill' = [fill EXCEPT ![at] = req.c] /\ at' = at + 1 /\ left' = left - 1
        /\ UNCHANGED <<mpc, req, copy, ahead>>
    BY <1>8 DEF TailByte
  <2>2. Filling /\ req.op = "memset"
    BY <2>1 DEF MemInv
  <2>3. ASSUME NEW b \in Bytes
        PROVE  (fill'[b] # OLD <=> req.s <= b /\ b < at + 1) /\ Ragged(b)'
    <3>1. fill'[b] = IF b = at THEN req.c ELSE fill[b]
      BY <2>1, <1>2
    <3>2. b \in Nat /\ req.c # OLD /\ req.s <= at
      BY <1>1, <1>2, <2>1, <2>2 DEF Filling
    <3>3. (fill[b] # OLD <=> req.s <= b /\ b < at) /\ Ragged(b)
      BY <2>2 DEF Filling
    <3> QED
      BY <3>1, <3>2, <3>3, <2>1, <1>2 DEF Ragged
  <2>4. at' + left' = req.s + req.n /\ left' \in Nat /\ at' \in Nat /\ left' < WSIZE
       /\ req.s <= at'
    BY <2>1, <2>2, <1>1, <1>2 DEF Filling
  <2>5. Filling'
    BY <2>1, <2>3, <2>4, <1>1 DEF Filling
  <2> QED
    BY <2>1, <2>2, <2>4, <2>5, <1>2 DEF MemInv
<1>9. CASE CopyBlock
  <2>1. /\ mpc = "blocks" /\ left >= Block
        /\ copy' = [k \in Bytes |-> IF k - at \in 0 .. 3 THEN k ELSE copy[k]]
        /\ ahead' = at + 7 /\ at' = at + 4 /\ left' = left - Block
        /\ UNCHANGED <<mpc, req, fill>>
    BY <1>9 DEF CopyBlock
  <2>2. Copying /\ req.op = "memcpy"
    BY <2>1 DEF MemInv
  <2>3. InBlocks
    BY <2>1, <2>2, <1>1, <1>2 DEF Copying, InTail
  <2>4. InBlocks' /\ at' \in Nat /\ left' \in Nat /\ ahead' \in Int
    BY <2>1, <2>3, <1>1, <1>2 DEF InBlocks
  <2>5. ASSUME NEW k \in Bytes PROVE (copy'[k] # OLD <=> k < at + 4) /\ copy'[k] \in {OLD, k}
    <3>1. k \in Nat /\ k # OLD /\ (copy[k] # OLD <=> k < at) /\ copy[k] \in {OLD, k}
      BY <2>2, <1>1 DEF Copying
    <3>2. copy'[k] = IF k - at \in 0 .. 3 THEN k ELSE copy[k]
      BY <2>1
    <3> QED
      BY <3>1, <3>2, <1>2
  <2>6. Copying'
    BY <2>1, <2>4, <2>5 DEF Copying
  <2> QED
    BY <2>1, <2>2, <2>4, <2>6, <1>2 DEF MemInv
<1>10. CASE CopyTail
  <2>1. /\ mpc = "blocks" /\ left \in 1 .. Block - 1
        /\ copy' = [copy EXCEPT ![at] = at]
        /\ ahead' = IF at > ahead THEN at ELSE ahead
        /\ at' = at + 1 /\ left' = left - 1
        /\ UNCHANGED <<mpc, req, fill>>
    BY <1>10 DEF CopyTail
  <2>2. Copying /\ req.op = "memcpy"
    BY <2>1 DEF MemInv
  <2>3. InTail' /\ at' \in Nat /\ left' \in Nat /\ ahead' \in Int
    <3>1. at' \in Nat /\ left' \in Nat /\ ahead' \in Int
      BY <2>1, <1>1, <1>2
    <3> DEFINE q == req.n \div Block
               rest == req.n % Block
    <3>2. q \in Nat /\ rest \in 0 .. Block - 1 /\ req.n = Block * q + rest
      BY <1>1, <1>2
    <3>3. InTail' <=> left' < rest /\ at' = 4 * q + rest - left'
      BY <2>1 DEF InTail, Block
    <3>4. InTail => left < rest /\ at = 4 * q + rest - left
      BY DEF InTail
    <3>5. InBlocks => left % Block = rest /\ at * WSIZE + left = req.n
      BY DEF InBlocks
    <3> HIDE DEF q, rest
    <3>6. CASE InTail
      BY <2>1, <3>1, <3>2, <3>3, <3>4, <3>6, <1>2
    <3>7. CASE InBlocks
      <4>1. left = rest /\ at * WSIZE + left = req.n
        BY <2>1, <3>5, <3>7, <1>1, <1>2
      <4>2. at = 4 * q
        BY <4>1, <3>2, <1>1, <1>2
      <4> QED
        BY <2>1, <4>1, <4>2, <3>1, <3>2, <3>3, <1>2
    <3> QED
      BY <2>2, <3>1, <3>6, <3>7 DEF Copying
  <2>4. ASSUME NEW k \in Bytes PROVE (copy'[k] # OLD <=> k < at + 1) /\ copy'[k] \in {OLD, k}
    <3>1. k \in Nat /\ k # OLD /\ (copy[k] # OLD <=> k < at) /\ copy[k] \in {OLD, k}
      BY <2>2, <1>1 DEF Copying
    <3>2. copy'[k] = IF k = at THEN at ELSE copy[k]
      BY <2>1, <1>2
    <3> QED
      BY <3>1, <3>2, <1>2
  <2>5. Copying'
    BY <2>1, <2>3, <2>4 DEF Copying
  <2> QED
    BY <2>1, <2>2, <2>3, <2>5, <1>2 DEF MemInv
<1>11. CASE Return
  <2>1. /\ mpc \in {"words", "blocks"} /\ left = 0 /\ mpc' = "done"
        /\ UNCHANGED <<req, at, left, fill, copy, ahead>>
    BY <1>11 DEF Return
  <2>2. ASSUME req.op = "memset" PROVE Filling'
    <3>1. Filling /\ mpc # "head"
      BY <2>1, <2>2 DEF MemInv
    <3> QED
      BY <2>1, <3>1 DEF Filling, Ragged
  <2>3. ASSUME req.op = "memcpy" PROVE Copying'
    <3>1. Copying
      BY <2>3 DEF MemInv
    <3> QED
      BY <2>1, <3>1 DEF Copying, InBlocks, InTail
  <2> QED
    BY <2>1, <2>2, <2>3, <1>2 DEF MemInv
<1>12. CASE UNCHANGED memVars
  BY <1>12 DEF memVars, MemInv, Filling, Ragged, Copying, InBlocks, InTail
<1> QED
  BY <1>3, <1>4, <1>5, <1>6, <1>7, <1>8, <1>9, <1>10, <1>11, <1>12 DEF MemNext

LEMMA MemInvExtents == MemInv => MemExtents
<1> SUFFICES ASSUME MemInv, mpc = "done"
             PROVE  (req.op = "memset" => Filled) /\ (req.op = "memcpy" => Copied)
  BY DEF MemExtents
<1>1. /\ WSIZE = 4 \/ WSIZE = 8
      /\ Block = 4 * WSIZE /\ OLD \notin Int /\ \A b \in Bytes : b \in Nat
  BY WordSize
<1>2. /\ req.s \in Nat /\ req.c \in 0 .. 255 /\ req.n \in Nat
      /\ at \in Nat /\ left \in Nat /\ ahead \in Int
  BY DEF MemInv
<1>3. ASSUME req.op = "memset" PROVE Filled
  <2>1. Filling
    BY <1>3 DEF MemInv
  <2>2. at = req.s + req.n
    BY <2>1, <1>2 DEF Filling
  <2>3. ASSUME NEW b \in Bytes
        PROVE  (fill[b] # OLD <=> b \in req.s .. req.s + req.n - 1) /\ Ragged(b)
    BY <2>1, <2>2, <1>1, <1>2 DEF Filling
  <2> QED
    BY <2>3 DEF Filled, Ragged
<1>4. ASSUME req.op = "memcpy" PROVE Copied
  <2> DEFINE written == {k \in Bytes : copy[k] # OLD}
  <2>1. Copying /\ left = 0
    BY <1>4 DEF MemInv, Copying
  <2>2. \A k \in Bytes : k \in written <=> k < at
    BY <2>1 DEF Copying
  <2>3. \A k \in written : copy[k] = k
    BY <2>1 DEF Copying
  <2> HIDE DEF written
  <2>4. ASSUME NEW k \in Nat, k * WSIZE < req.n PROVE k < at
    <3>1. CASE InBlocks
      BY <2>1, <2>4, <3>1, <1>1, <1>2 DEF InBlocks
    <3>2. CASE InTail
      BY <2>1, <2>4, <3>2, <1>1, <1>2 DEF InTail
    <3> QED
      BY <2>1, <3>1, <3>2 DEF Copying
  <2>5. ASSUME NEW k \in Nat, k < at
        PROVE  IF req.n % Block = 0
               THEN (k + 1) * WSIZE <= req.n
               ELSE k * WSIZE < req.n + ((req.n % Block) * (WSIZE - 1))
    <3>1. CASE InBlocks
      BY <2>1, <2>5, <3>1, <1>1, <1>2 DEF InBlocks
    <3>2. CASE InTail
      BY <2>1, <2>5, <3>2, <1>1, <1>2 DEF InTail
    <3> QED
      BY <2>1, <3>1, <3>2 DEF Copying
  <2>6. req.n % Block = 0 => ahead * WSIZE < req.n + Block
    <3>1. CASE InBlocks
      BY <2>1, <3>1, <1>1, <1>2 DEF InBlocks
    <3>2. CASE InTail
      BY <2>1, <3>2, <1>1, <1>2 DEF InTail
    <3> QED
      BY <2>1, <3>1, <3>2 DEF Copying
  <2>7. written \subseteq Bytes
    BY DEF written
  <2>8. /\ \A k \in Bytes : k * WSIZE < req.n => k \in written
        /\ \A k \in written : IF req.n % Block = 0
                              THEN (k + 1) * WSIZE <= req.n
                              ELSE k * WSIZE < req.n + ((req.n % Block) * (WSIZE - 1))
    BY <2>2, <2>4, <2>5, <2>7, <1>1
  <2> QED
    BY <2>3, <2>6, <2>8 DEF Copied, written
<1> QED
  BY <1>3, <1>4

-----------------------------------------------------------------------------
(* The console.  Each core has at most one character in the FIFO, and what is
   due of its line is what it has still to print, and that character. *)
Chars == {"x", "\n"}
Settled(c) ==
    /\ place[c] \in {"idle", "next", "wait"} => due[c] = Due(text[c], FALSE)
    /\ place[c] = "idle" => text[c] = <<>>
    /\ place[c] \in {"newline", "wait_cr"} =>
         due[c] = Due(text[c], TRUE) /\ text[c] # <<>> /\ Head(text[c]) = "\n"
Underway(c, char) ==
    \/ /\ place[c] = "wait_cr" /\ char = "\r" /\ due[c] = Due(text[c], FALSE)
       /\ text[c] # <<>> /\ Head(text[c]) = "\n"
    \/ /\ place[c] = "wait" /\ char \in Chars
       /\ due[c] = Due(<<char>> \o text[c], char = "\n")
InFifo(c) == \E k \in 1 .. Len(fifo) : fifo[k][1] = c
ConsoleInv ==
    /\ text \in [Printers -> Seq(Chars)]
    /\ place \in [Printers -> {"idle", "next", "newline", "wait", "wait_cr"}]
    /\ due \in [Printers -> [line : Seq(Chars), cr : BOOLEAN]]
    /\ fifo \in Seq(Printers \X {"x", "\n", "\r"})
    /\ \A k, m \in 1 .. Len(fifo) : fifo[k][1] = fifo[m][1] => k = m
    /\ \A k \in 1 .. Len(fifo) : Underway(fifo[k][1], fifo[k][2])
    /\ \A c \in Printers : ~InFifo(c) => Settled(c)

LEMMA ConsoleInitInv == ConsoleInit => ConsoleInv
<1> SUFFICES ASSUME ConsoleInit PROVE ConsoleInv
  OBVIOUS
<1>1. Len(fifo) = 0 /\ fifo \in Seq(Printers \X {"x", "\n", "\r"})
  BY DEF ConsoleInit
<1>2. <<>> \in Seq(Chars) /\ Due(<<>>, FALSE) \in [line : Seq(Chars), cr : BOOLEAN]
  BY DEF Due
<1>3. \A c \in Printers : Settled(c)
  BY DEF ConsoleInit, Settled
<1>4. /\ text \in [Printers -> Seq(Chars)]
      /\ place \in [Printers -> {"idle", "next", "newline", "wait", "wait_cr"}]
      /\ due \in [Printers -> [line : Seq(Chars), cr : BOOLEAN]]
  BY <1>2 DEF ConsoleInit
<1>5. 1 .. Len(fifo) = {}
  BY <1>1
<1> QED
  BY <1>1, <1>3, <1>4, <1>5 DEF ConsoleInv

(* As many cores as there are characters in the FIFO *)
LEMMA FifoFits ==
    ASSUME ConsoleInv, IsFiniteSet(Printers)
    PROVE  /\ Len(fifo) <= Cardinality(Printers)
           /\ \A c \in Printers : ~InFifo(c) => Len(fifo) < Cardinality(Printers)
<1>1. Len(fifo) \in Nat /\ \A k \in 1 .. Len(fifo) : fifo[k] \in Printers \X {"x", "\n", "\r"}
  BY DEF ConsoleInv
<1> DEFINE who == {fifo[k][1] : k \in 1 .. Len(fifo)}
           f == [k \in 1 .. Len(fifo) |-> fifo[k][1]]
<1>2. who \subseteq Printers
  BY <1>1
<1>3. f \in Bijection(1 .. Len(fifo), who)
  <2>1. f \in [1 .. Len(fifo) -> who]
    OBVIOUS
  <2>2. \A k, m \in 1 .. Len(fifo) : f[k] = f[m] => k = m
    BY DEF ConsoleInv
  <2>3. \A x \in who : \E k \in 1 .. Len(fifo) : f[k] = x
    OBVIOUS
  <2> HIDE DEF f, who
  <2> QED
    BY <2>1, <2>2, <2>3, Fun_IsBij
<1>4. IsFiniteSet(1 .. Len(fifo)) /\ Cardinality(1 .. Len(fifo)) = Len(fifo)
  <2>1. IsFiniteSet(1 .. Len(fifo))
        /\ Cardinality(1 .. Len(fifo)) = IF 1 > Len(fifo) THEN 0 ELSE Len(fifo) - 1 + 1
    BY <1>1, FS_Interval
  <2> QED
    BY <2>1, <1>1
<1> HIDE DEF f
<1>5. ExistsBijection(1 .. Len(fifo), who)
  BY <1>3, Fun_ExistsBij
<1>6. IsFiniteSet(who) /\ Cardinality(who) = Len(fifo)
  BY <1>4, <1>5, FS_Bijection
<1>7. Len(fifo) <= Cardinality(Printers)
  BY <1>2, <1>6, FS_Subset
<1>8. ASSUME NEW c \in Printers, ~InFifo(c) PROVE Len(fifo) < Cardinality(Printers)
  <2>1. c \notin who
    BY <1>8 DEF InFifo
  <2> HIDE DEF who
  <2>2. IsFiniteSet(who \cup {c}) /\ Cardinality(who \cup {c}) = Len(fifo) + 1
    BY <2>1, <1>6, FS_AddElement
  <2>3. Cardinality(who \cup {c}) <= Cardinality(Printers) /\ Cardinality(Printers) \in Nat
    BY <1>2, FS_Subset, FS_CardinalityType
  <2> QED
    BY <2>2, <2>3, <1>1
<1> QED
  BY <1>7, <1>8

LEMMA UnderwayStays ==
    ASSUME NEW c, NEW char, Underway(c, char), place'[c] = place[c], text'[c] = text[c], due'[c] = due[c]
    PROVE  Underway(c, char)'
BY DEF Underway, Due

LEMMA SettledStays ==
    ASSUME NEW c, Settled(c), place'[c] = place[c], text'[c] = text[c], due'[c] = due[c]
    PROVE  Settled(c)'
BY DEF Settled, Due

LEMMA HeadAndRest ==
    ASSUME NEW S, NEW s \in Seq(S), s # <<>>
    PROVE  /\ Head(s) \in S /\ Tail(s) \in Seq(S) /\ s = <<Head(s)>> \o Tail(s)
<1>1. Head(s) \in S /\ Tail(s) \in Seq(S)
      /\ Len(Tail(s)) = Len(s) - 1 /\ Len(s) \in Nat
      /\ \A k \in 1 .. Len(Tail(s)) : Tail(s)[k] = s[k + 1]
  BY HeadTailProperties
<1> DEFINE t == <<Head(s)>> \o Tail(s)
<1>2. t \in Seq(S) /\ Len(t) = Len(s)
  BY <1>1
<1>3. ASSUME NEW k \in 1 .. Len(s) PROVE t[k] = s[k]
  <2>1. CASE k = 1
    BY <2>1, <1>1
  <2>2. CASE k # 1
    <3>1. k - 1 \in 1 .. Len(Tail(s)) /\ (k - 1) + 1 = k
      BY <2>2, <1>1
    <3>2. t[k] = Tail(s)[k - 1]
      BY <3>1, <1>1
    <3> QED
      BY <3>1, <3>2, <1>1
  <2> QED
    BY <2>1, <2>2
<1> HIDE DEF t
<1>4. t = s
  BY <1>2, <1>3, SeqEqual
<1> QED
  BY <1>1, <1>4 DEF t

(* A step of one core that puts nothing into the FIFO *)
LEMMA QuietStep ==
    ASSUME ConsoleInv, NEW c \in Printers, fifo' = fifo, ~InFifo(c), Settled(c)',
           text' \in [Printers -> Seq(Chars)],
           place' \in [Printers -> {"idle", "next", "newline", "wait", "wait_cr"}],
           due' \in [Printers -> [line : Seq(Chars), cr : BOOLEAN]],
           \A d \in Printers : d # c => place'[d] = place[d] /\ text'[d] = text[d] /\ due'[d] = due[d]
    PROVE  ConsoleInv'
<1>1. ASSUME NEW k \in 1 .. Len(fifo)
      PROVE  fifo[k][1] \in Printers /\ fifo[k][1] # c /\ Underway(fifo[k][1], fifo[k][2])
  BY DEF ConsoleInv, InFifo
<1>2. ASSUME NEW d \in Printers, NEW k \in 1 .. Len(fifo), NEW char, fifo[k][1] = d, fifo[k][2] = char
      PROVE  Underway(d, char)'
  BY <1>1, <1>2, UnderwayStays
<1>3. ASSUME NEW d \in Printers, ~InFifo(d) PROVE Settled(d)'
  BY <1>3, SettledStays DEF ConsoleInv
<1>4. \A k \in 1 .. Len(fifo') : Underway(fifo[k][1], fifo[k][2])'
  BY <1>1, <1>2
<1>5. \A d \in Printers : ~InFifo(d)' => Settled(d)'
  BY <1>3 DEF InFifo
<1> QED
  BY <1>4, <1>5 DEF ConsoleInv

LEMMA ConsoleNextInv ==
    ASSUME IsFiniteSet(Printers), Cardinality(Printers) <= DEPTH
    PROVE  ConsoleInv /\ [ConsoleNext]_consoleVars => ConsoleInv'
<1> SUFFICES ASSUME ConsoleInv, [ConsoleNext]_consoleVars PROVE ConsoleInv'
  OBVIOUS
<1> DEFINE Places == {"idle", "next", "newline", "wait", "wait_cr"}
           Dues == [line : Seq(Chars), cr : BOOLEAN]
<1>1. /\ text \in [Printers -> Seq(Chars)] /\ place \in [Printers -> Places]
      /\ due \in [Printers -> Dues] /\ fifo \in Seq(Printers \X {"x", "\n", "\r"})
      /\ Len(fifo) \in Nat
  BY DEF ConsoleInv
<1>8. ASSUME NEW k \in 1 .. Len(fifo) PROVE fifo[k] \in Printers \X {"x", "\n", "\r"}
  BY <1>1
<1>2. ASSUME NEW c \in Printers, InFifo(c) PROVE place[c] \in {"wait", "wait_cr"}
  BY <1>2 DEF ConsoleInv, InFifo, Underway
<1>3. ASSUME NEW c \in Printers, NEW file \in Files, NEW line \in Lines, Write(c, file, line)
      PROVE  ConsoleInv'
  <2>1. place[c] = "idle" /\ fifo' = fifo /\ ~InFifo(c)
    BY <1>2, <1>3 DEF Write
  <2>2. CASE file \notin {1, 2}
    <3>1. UNCHANGED <<text, place, due>>
      BY <1>3, <2>2 DEF Write
    <3>2. Settled(c)'
      BY <3>1, <2>1, SettledStays DEF ConsoleInv
    <3> QED
      BY <3>1, <3>2, <2>1, <1>1, QuietStep
  <2>3. CASE file \in {1, 2}
    <3>1. /\ place' = [place EXCEPT ![c] = "next"] /\ text' = [text EXCEPT ![c] = line]
          /\ due' = [due EXCEPT ![c] = Due(line, FALSE)]
      BY <1>3, <2>3 DEF Write
    <3>2. line \in Seq(Chars)
      <4>1. PICK k \in 0 .. MaxLine : line \in [1 .. k -> Chars]
        BY DEF Lines, BoundedSeq, SeqOf, Chars
      <4> QED
        BY <4>1
    <3>3. Due(line, FALSE) \in Dues
      BY <3>2 DEF Due
    <3>4. text' \in [Printers -> Seq(Chars)] /\ place' \in [Printers -> Places] /\ due' \in [Printers -> Dues]
      BY <3>1, <3>2, <3>3, <1>1
    <3>5. place'[c] = "next" /\ text'[c] = line /\ due'[c] = Due(line, FALSE)
      BY <3>1, <1>1
    <3>6. Settled(c)'
      BY <3>5 DEF Settled, Due
    <3>7. \A d \in Printers : d # c => place'[d] = place[d] /\ text'[d] = text[d] /\ due'[d] = due[d]
      BY <3>1, <1>1
    <3> QED
      BY <3>4, <3>6, <3>7, <2>1, QuietStep
  <2> QED
    BY <2>2, <2>3
<1>4. ASSUME NEW c \in Printers, WaitEmpty(c) \/ WriteReturns(c) PROVE ConsoleInv'
  <2>1. ~InFifo(c) /\ Settled(c) /\ UNCHANGED <<text, fifo, due>>
    <3>1. CASE WaitEmpty(c)
      <4>1. fifo = <<>> /\ UNCHANGED <<text, fifo, due>>
        BY <3>1 DEF WaitEmpty
      <4>2. 1 .. Len(fifo) = {}
        BY <4>1
      <4>3. ~InFifo(c)
        BY <4>2 DEF InFifo
      <4> QED
        BY <4>1, <4>3 DEF ConsoleInv
    <3>2. CASE WriteReturns(c)
      <4>1. place[c] = "next" /\ UNCHANGED <<text, fifo, due>>
        BY <3>2 DEF WriteReturns
      <4> QED
        BY <4>1, <1>2 DEF ConsoleInv
    <3> QED
      BY <1>4, <3>1, <3>2
  <2>2. /\ \/ place[c] = "wait" /\ place'[c] = "next"
           \/ place[c] = "wait_cr" /\ place'[c] = "newline"
           \/ place[c] = "next" /\ text[c] = <<>> /\ place'[c] = "idle"
        /\ place' \in [Printers -> Places]
        /\ \A d \in Printers : d # c => place'[d] = place[d]
    BY <1>1, <1>4 DEF WaitEmpty, WriteReturns
  <2>3. Settled(c)'
    BY <2>1, <2>2 DEF Settled, Due
  <2> QED
    BY <2>1, <2>2, <2>3, <1>1, QuietStep
<1>5. ASSUME NEW c \in Printers, PutChar(c) PROVE ConsoleInv'
  <2>1. place[c] \in {"next", "newline"} /\ text[c] # <<>> /\ due' = due /\ text[c] \in Seq(Chars)
    BY <1>1, <1>5 DEF PutChar
  <2>2. ~InFifo(c) /\ Settled(c)
    BY <1>2, <2>1 DEF ConsoleInv
  <2>3. PICK head \in Chars, rest \in Seq(Chars) :
          head = Head(text[c]) /\ rest = Tail(text[c]) /\ text[c] = <<head>> \o rest
    BY <2>1, HeadAndRest
  <2>4. PICK char \in {"x", "\n", "\r"} :
          /\ Push(c, char) /\ text' \in [Printers -> Seq(Chars)] /\ place' \in [Printers -> Places]
          /\ Underway(c, char)'
          /\ \A d \in Printers : d # c => place'[d] = place[d] /\ text'[d] = text[d]
    <3>1. CASE head = "\n" /\ place[c] = "next"
      <4>1. Push(c, "\r") /\ place' = [place EXCEPT ![c] = "wait_cr"] /\ text' = text
        BY <1>5, <2>3, <3>1 DEF PutChar
      <4>2. place'[c] = "wait_cr" /\ due'[c] = Due(text'[c], FALSE) /\ text'[c] # <<>>
            /\ Head(text'[c]) = "\n"
        BY <4>1, <2>1, <2>2, <2>3, <3>1, <1>1 DEF Settled
      <4>3. Underway(c, "\r")'
        BY <4>2 DEF Underway, Due
      <4> QED
        BY <4>1, <4>3, <1>1
    <3>2. CASE ~(head = "\n" /\ place[c] = "next")
      <4>1. Push(c, head) /\ place' = [place EXCEPT ![c] = "wait"] /\ text' = [text EXCEPT ![c] = rest]
        BY <1>5, <2>3, <3>2 DEF PutChar
      <4>2. place'[c] = "wait" /\ text'[c] = rest
        BY <4>1, <1>1
      <4>3. due[c] = Due(text[c], head = "\n")
        <5>1. CASE place[c] = "next"
          BY <5>1, <3>2, <2>2 DEF Settled
        <5>2. CASE place[c] = "newline"
          BY <5>2, <2>2, <2>3 DEF Settled
        <5> QED
          BY <5>1, <5>2, <2>1
      <4>4. due'[c] = Due(<<head>> \o text'[c], head = "\n")
        BY <4>2, <4>3, <2>1, <2>3
      <4>5. Underway(c, head)'
        BY <4>2, <4>4, <2>3 DEF Underway, Due
      <4>6. text' \in [Printers -> Seq(Chars)] /\ place' \in [Printers -> Places]
        BY <4>1, <2>3, <1>1
      <4>7. head \in {"x", "\n", "\r"}
        BY <2>3 DEF Chars
      <4> QED
        BY <4>1, <4>5, <4>6, <4>7, <1>1
    <3> QED
      BY <3>1, <3>2
  <2>5. Len(fifo) < DEPTH
    <3>1. Len(fifo) < Cardinality(Printers) /\ Cardinality(Printers) \in Nat
      BY <2>2, FifoFits, FS_CardinalityType
    <3> QED
      BY <3>1, <1>1, ConsoleAssumption
  <2>6. fifo' = Append(fifo, <<c, char>>)
    BY <2>4, <2>5 DEF Push
  <2>7. /\ fifo' \in Seq(Printers \X {"x", "\n", "\r"}) /\ Len(fifo') = Len(fifo) + 1
        /\ fifo'[Len(fifo) + 1] = <<c, char>>
        /\ \A k \in 1 .. Len(fifo) : fifo'[k] = fifo[k]
    BY <2>6, <1>1
  <2>8. ASSUME NEW k \in 1 .. Len(fifo)
        PROVE  fifo'[k] = fifo[k] /\ fifo[k][1] \in Printers /\ fifo[k][1] # c
               /\ Underway(fifo[k][1], fifo[k][2])
    <3>1. fifo'[k] = fifo[k] /\ fifo[k][1] # c
      BY <2>2, <2>7 DEF InFifo
    <3>2. fifo[k][1] \in Printers
      BY <1>8
    <3> QED
      BY <3>1, <3>2 DEF ConsoleInv
  <2>9. \A k, m \in 1 .. Len(fifo') : fifo'[k][1] = fifo'[m][1] => k = m
    <3>1. ASSUME NEW k \in 1 .. Len(fifo'), NEW m \in 1 .. Len(fifo'), fifo'[k][1] = fifo'[m][1]
          PROVE  k = m
      <4>1. CASE k \in 1 .. Len(fifo) /\ m \in 1 .. Len(fifo)
        BY <3>1, <4>1, <2>8 DEF ConsoleInv
      <4>2. CASE k = Len(fifo) + 1 /\ m = Len(fifo) + 1
        BY <4>2
      <4>3. CASE k = Len(fifo) + 1 /\ m \in 1 .. Len(fifo)
        <5>1. fifo'[k][1] = c
          BY <4>3, <2>7
        <5>2. fifo'[m] = fifo[m] /\ fifo[m][1] # c
          BY <4>3, <2>8
        <5> QED
          BY <3>1, <5>1, <5>2
      <4>4. CASE k \in 1 .. Len(fifo) /\ m = Len(fifo) + 1
        <5>1. fifo'[m][1] = c
          BY <4>4, <2>7
        <5>2. fifo'[k] = fifo[k] /\ fifo[k][1] # c
          BY <4>4, <2>8
        <5> QED
          BY <3>1, <5>1, <5>2
      <4>5. /\ k \in 1 .. Len(fifo) \/ k = Len(fifo) + 1
            /\ m \in 1 .. Len(fifo) \/ m = Len(fifo) + 1
        BY <2>7, <1>1
      <4> QED
        BY <4>1, <4>2, <4>3, <4>4, <4>5
    <3> QED
      BY <3>1
  <2>10. ASSUME NEW d, NEW ch, NEW k \in 1 .. Len(fifo'), fifo'[k][1] = d, fifo'[k][2] = ch
         PROVE  Underway(d, ch)'
    <3>1. CASE k = Len(fifo) + 1
      <4>1. d = c /\ ch = char
        BY <3>1, <2>7, <2>10
      <4> QED
        BY <4>1, <2>4
    <3>2. CASE k \in 1 .. Len(fifo)
      <4>1. d \in Printers /\ d # c /\ Underway(d, ch)
        BY <3>2, <2>8, <2>10
      <4> QED
        BY <4>1, <2>1, <2>4, UnderwayStays
    <3> QED
      BY <3>1, <3>2, <2>7, <1>1
  <2>11. ASSUME NEW d \in Printers, ~InFifo(d)' PROVE Settled(d)'
    <3>1. d # c /\ ~InFifo(d)
      <4>1. \A k \in 1 .. Len(fifo') : fifo'[k][1] # d
        BY <2>11 DEF InFifo
      <4>2. Len(fifo) + 1 \in 1 .. Len(fifo') /\ \A k \in 1 .. Len(fifo) : k \in 1 .. Len(fifo')
        BY <2>7, <1>1
      <4>3. d # c
        BY <4>1, <4>2, <2>7
      <4>4. \A k \in 1 .. Len(fifo) : fifo[k][1] # d
        BY <4>1, <4>2, <2>7
      <4> QED
        BY <4>3, <4>4 DEF InFifo
    <3>2. Settled(d)
      BY <3>1 DEF ConsoleInv
    <3> QED
      BY <3>1, <3>2, <2>1, <2>4, SettledStays
  <2>12. \A k \in 1 .. Len(fifo') : Underway(fifo[k][1], fifo[k][2])'
    BY <2>10
  <2> QED
    BY <2>1, <2>4, <2>7, <2>9, <2>11, <2>12, <1>1 DEF ConsoleInv
<1>6. CASE Send
  <2>0. fifo # <<>> /\ Head(fifo) \in Printers \X {"x", "\n", "\r"}
    BY <1>1, <1>6 DEF Send
  <2>13. PICK c \in Printers, char \in {"x", "\n", "\r"} : Head(fifo) = <<c, char>>
    BY <2>0
  <2>1. /\ fifo # <<>> /\ fifo' = Tail(fifo) /\ due' = [due EXCEPT ![c] = Sent(due[c], char)]
        /\ UNCHANGED <<text, place>>
    <3>1. Head(fifo)[1] = c /\ Head(fifo)[2] = char
      BY <2>13
    <3> QED
      BY <1>6, <3>1 DEF Send
  <2>2. /\ Len(fifo) >= 1 /\ Head(fifo) = fifo[1] /\ Len(fifo') = Len(fifo) - 1
        /\ fifo' \in Seq(Printers \X {"x", "\n", "\r"})
        /\ \A k \in 1 .. Len(fifo') : k + 1 \in 1 .. Len(fifo) /\ fifo'[k] = fifo[k + 1]
    BY <2>1, <1>1
  <2>3. Underway(c, char) /\ 1 \in 1 .. Len(fifo) /\ c = fifo[1][1]
    <3>1. 1 \in 1 .. Len(fifo) /\ fifo[1][1] = c /\ fifo[1][2] = char
      BY <2>2, <2>13, <1>1
    <3> QED
      BY <3>1 DEF ConsoleInv
  <2>4. Sent(due[c], char) \in Dues /\ Settled(c)'
    <3>1. text[c] \in Seq(Chars) /\ due'[c] = Sent(due[c], char) /\ text'[c] = text[c] /\ place'[c] = place[c]
      BY <2>1, <2>3, <1>1
    <3>2. CASE place[c] = "wait_cr"
      <4>1. char = "\r" /\ due[c] = Due(text[c], FALSE) /\ text[c] # <<>> /\ Head(text[c]) = "\n"
        BY <3>2, <2>3 DEF Underway
      <4>2. Sent(due[c], char) = Due(text[c], TRUE)
        BY <4>1 DEF Sent, Due
      <4>3. Due(text[c], TRUE) \in Dues
        BY <3>1 DEF Due
      <4>4. place'[c] = "wait_cr" /\ due'[c] = Due(text'[c], TRUE)
            /\ text'[c] # <<>> /\ Head(text'[c]) = "\n"
        BY <3>1, <3>2, <4>1, <4>2
      <4> QED
        BY <4>2, <4>3, <4>4 DEF Settled, Due
    <3>3. CASE place[c] = "wait"
      <4>1. char \in Chars /\ due[c] = Due(<<char>> \o text[c], char = "\n")
        BY <3>3, <2>3 DEF Underway
      <4> DEFINE line == <<char>> \o text[c]
      <4>2. line # <<>> /\ Head(line) = char /\ Tail(line) = text[c]
        BY <3>1, <4>1
      <4> HIDE DEF line
      <4>3. due[c].line = line /\ due[c].cr = (char = "\n")
        BY <4>1 DEF Due, line
      <4>4. Sent(due[c], char) = Due(text[c], FALSE)
        BY <4>2, <4>3 DEF Sent
      <4>5. Due(text[c], FALSE) \in Dues
        BY <3>1 DEF Due
      <4>6. place'[c] = "wait" /\ due'[c] = Due(text'[c], FALSE)
        BY <3>1, <3>3, <4>4
      <4> QED
        BY <4>4, <4>5, <4>6 DEF Settled, Due
    <3> QED
      BY <2>3, <3>2, <3>3 DEF Underway
  <2>5. \A d \in Printers : d # c => due'[d] = due[d]
    BY <2>1, <1>1
  <2>6. ASSUME NEW k \in 1 .. Len(fifo') PROVE fifo'[k][1] \in Printers /\ fifo'[k][1] # c
    <3>1. k + 1 \in 1 .. Len(fifo) /\ fifo'[k] = fifo[k + 1] /\ k + 1 # 1
      BY <2>2
    <3>2. fifo[k + 1][1] # c
      BY <3>1, <2>3 DEF ConsoleInv
    <3> QED
      BY <3>1, <3>2, <1>8
  <2>7. \A k, m \in 1 .. Len(fifo') : fifo'[k][1] = fifo'[m][1] => k = m
    <3>1. ASSUME NEW k \in 1 .. Len(fifo'), NEW m \in 1 .. Len(fifo'), fifo'[k][1] = fifo'[m][1]
          PROVE  k = m
      <4>1. k + 1 \in 1 .. Len(fifo) /\ m + 1 \in 1 .. Len(fifo)
            /\ fifo[k + 1][1] = fifo[m + 1][1]
        BY <2>2, <3>1
      <4>2. k + 1 = m + 1
        BY <4>1 DEF ConsoleInv
      <4> QED
        BY <4>2
    <3> QED
      BY <3>1
  <2>8. ASSUME NEW d, NEW ch, NEW k \in 1 .. Len(fifo'), fifo'[k][1] = d, fifo'[k][2] = ch
        PROVE  Underway(d, ch)'
    <3>1. d \in Printers /\ d # c
      BY <2>6, <2>8
    <3>2. Underway(d, ch)
      BY <2>2, <2>8 DEF ConsoleInv
    <3> QED
      BY <3>1, <3>2, <2>1, <2>5, UnderwayStays
  <2>9. ASSUME NEW d \in Printers, d # c, ~InFifo(d)' PROVE Settled(d)'
    <3>1. ~InFifo(d)
      <4>1. SUFFICES ASSUME NEW k \in 1 .. Len(fifo), fifo[k][1] = d PROVE FALSE
        BY DEF InFifo
      <4>2. k # 1
        BY <2>3, <2>9, <4>1
      <4>3. k - 1 \in 1 .. Len(fifo') /\ (k - 1) + 1 = k
        <5>1. Len(fifo') = Len(fifo) - 1
          BY <2>2
        <5> QED
          BY <5>1, <4>2, <1>1
      <4>4. fifo'[k - 1] = fifo[k]
        BY <4>3, <2>2
      <4> QED
        BY <4>1, <4>3, <4>4, <2>9 DEF InFifo
    <3>2. Settled(d)
      BY <3>1 DEF ConsoleInv
    <3> QED
      BY <3>2, <2>1, <2>5, <2>9, SettledStays
  <2>10. \A k \in 1 .. Len(fifo') : Underway(fifo[k][1], fifo[k][2])'
    BY <2>8
  <2>11. \A d \in Printers : ~InFifo(d)' => Settled(d)'
    BY <2>4, <2>9
  <2>12. due' \in [Printers -> Dues]
    BY <2>1, <2>4, <1>1
  <2> QED
    BY <2>1, <2>2, <2>7, <2>10, <2>11, <2>12, <1>1 DEF ConsoleInv
<1>7. CASE UNCHANGED consoleVars
  BY <1>7 DEF consoleVars, ConsoleInv, Underway, Settled, InFifo, Due
<1> QED
  BY <1>3, <1>4, <1>5, <1>6, <1>7 DEF ConsoleNext, PutcharSteps

LEMMA ConsoleInvWhole ==
    ASSUME IsFiniteSet(Printers) PROVE ConsoleInv => LinesAreWhole
<1> SUFFICES ASSUME ConsoleInv PROVE LinesAreWhole
  OBVIOUS
<1>1. Len(fifo) <= Cardinality(Printers)
  BY FifoFits
<1>2. ASSUME NEW c \in Printers PROVE due[c] # WRONG
  <2>1. due[c].line \in Seq(Chars)
    BY DEF ConsoleInv
  <2>2. WRONG.line = <<"wrong">>
    BY DEF WRONG, Due
  <2>3. <<"wrong">> \notin Seq(Chars)
    <3>1. SUFFICES ASSUME <<"wrong">> \in Seq(Chars) PROVE FALSE
      OBVIOUS
    <3>2. Head(<<"wrong">>) \in Chars
      BY <3>1
    <3> QED
      BY <3>2 DEF Chars
  <2> QED
    BY <2>1, <2>2, <2>3
<1>3. ASSUME NEW c \in Printers, place[c] = "idle" PROVE due[c] = Due(<<>>, FALSE)
  <2>1. ~InFifo(c)
    BY <1>3 DEF ConsoleInv, InFifo, Underway
  <2> QED
    BY <2>1, <1>3 DEF ConsoleInv, Settled
<1> QED
  BY <1>1, <1>2, <1>3 DEF LinesAreWhole

-----------------------------------------------------------------------------
(* What follows for each service from its inductive invariant. *)

(* An object of the performance monitor is wholly disabled or wholly the
   BSP's, and no call follows a pointer that was never set, however far an
   initialization came. *)
THEOREM PmuCorrect == PmuSpec => []PmuIsWhole
<1>1. PmuInv => PmuIsWhole
  BY DEF PmuInv
<1> QED
  BY <1>1, PmuInitInv, PmuNextInv, PTL DEF PmuSpec

(* The registers of the prefetcher do not overlap and its fields hold their
   whole range: what is read back of any engine is what was last given for
   it, for any engines, strides, counts and lines. *)
THEOREM HwpfCorrect == HwpfSpec => []HwpfReadsBack
<1>1. HwpfInv => HwpfReadsBack
  BY DEF HwpfInv
<1> QED
  BY <1>1, HwpfInitInv, HwpfNextInv, PTL DEF HwpfSpec

(* The timer of a hart fires once its period has passed and not before, for
   any number of harts, any periods and any width of a word, except where
   the 32-bit build leaves the high word wrong. *)
THEOREM TimerCorrect == TimerSpec => []TimerIsExact
  BY TimerInitInv, TimerNextInv, TimerInvExact, PTL DEF TimerSpec

(* A 64-bit counter read in halves is what it was at the first instruction if
   it advances by one, and is off exactly where CounterReads says; one that
   is set in halves goes on from its new value: for any width of a half. *)
THEOREM CounterCorrect == CounterSpec => []CounterIsExact
<1>1. CounterInv => CounterIsExact
  BY DEF CounterInv
<1> QED
  BY <1>1, CounterInitInv, CounterNextInv, PTL DEF CounterSpec

(* After an invalidation no byte of its range is older than at its call, for
   any memory, line size, range and alignment. *)
THEOREM CacheCorrect == CacheSpec => []RangeIsFresh
  BY CacheInitInv, CacheNextInv, CacheInvFresh, PTL DEF CacheSpec

(* Every question to a bit set is answered as of the set of the elements, for
   any width of a word and any size of the set. *)
THEOREM BitSetCorrect == BitSetSpec => []BitSetIsSet
  BY BitSetInitInv, BitSetNextInv, BitSetInvIsSet, PTL DEF BitSetSpec

(* memset() writes its bytes and no other, and memcpy() exactly as far as
   Copied says, for any count and any alignment, with words of 4 or 8 bytes. *)
THEOREM MemCorrect == MemSpec => []MemExtents
  BY MemInitInv, MemNextInv, MemInvExtents, PTL DEF MemSpec

(* No character of a core's line is lost, and they come out in order, for any
   cores that are no more than the FIFO has places: each waits for the FIFO
   to be empty before it writes, but all of them may see it empty at once. *)
THEOREM ConsoleCorrect ==
    ASSUME IsFiniteSet(Printers), Cardinality(Printers) <= DEPTH
    PROVE  ConsoleSpec => []LinesAreWhole
  BY ConsoleInitInv, ConsoleNextInv, ConsoleInvWhole, PTL DEF ConsoleSpec

-----------------------------------------------------------------------------
(* A step of the composition is a step of its subject, and leaves every other
   service as it is. *)
LEMMA ServicesStep ==
    [ServicesNext]_servicesVars =>
      /\ [BitSetNext]_bitsetVars /\ [MemNext]_memVars /\ [CounterNext]_counterVars
      /\ [PlicNext]_plicVars /\ [ConsoleNext]_consoleVars /\ [CacheNext]_cacheVars
      /\ [HwpfNext]_hwpfVars /\ [TimerNext]_timerVars /\ [PmuNext]_pmuVars
<1> SUFFICES ASSUME [ServicesNext]_servicesVars
    PROVE  /\ [BitSetNext]_bitsetVars /\ [MemNext]_memVars /\ [CounterNext]_counterVars
           /\ [PlicNext]_plicVars /\ [ConsoleNext]_consoleVars /\ [CacheNext]_cacheVars
           /\ [HwpfNext]_hwpfVars /\ [TimerNext]_timerVars /\ [PmuNext]_pmuVars
  OBVIOUS
<1>1. CASE Only("bitset") /\ BitSetNext
  BY <1>1 DEF Only
<1>2. CASE Only("mem") /\ MemNext
  BY <1>2 DEF Only
<1>3. CASE Only("counter") /\ CounterNext
  BY <1>3 DEF Only
<1>4. CASE Only("plic") /\ PlicNext
  BY <1>4 DEF Only
<1>5. CASE Only("console") /\ ConsoleNext
  BY <1>5 DEF Only
<1>6. CASE Only("cache") /\ CacheNext
  BY <1>6 DEF Only
<1>7. CASE Only("hwpf") /\ HwpfNext
  BY <1>7 DEF Only
<1>8. CASE Only("timer") /\ TimerNext
  BY <1>8 DEF Only
<1>9. CASE Only("pmu") /\ PmuNext
  BY <1>9 DEF Only
<1>10. CASE UNCHANGED servicesVars
  BY <1>10 DEF servicesVars
<1> QED
  BY <1>1, <1>2, <1>3, <1>4, <1>5, <1>6, <1>7, <1>8, <1>9, <1>10 DEF ServicesNext

(* The composition that the run explores implements each of the services: the
   steps of one never disturb the state of another. *)
THEOREM ServicesCompose ==
    ServicesSpec => /\ BitSetSpec /\ MemSpec /\ CounterSpec /\ PlicSpec /\ ConsoleSpec
                    /\ CacheSpec /\ HwpfSpec /\ TimerSpec /\ PmuSpec
<1>1. ServicesInit => /\ BitSetInit /\ MemInit /\ CounterInit /\ PlicInit /\ ConsoleInit
                      /\ CacheInit /\ HwpfInit /\ TimerInit /\ PmuInit
  BY DEF ServicesInit
<1> QED
  BY <1>1, ServicesStep, PTL
     DEF ServicesSpec, BitSetSpec, MemSpec, CounterSpec, PlicSpec, ConsoleSpec,
         CacheSpec, HwpfSpec, TimerSpec, PmuSpec
=============================================================================
