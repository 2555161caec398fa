----------------------------- MODULE BootProofs -----------------------------
(***************************************************************************)
(* The stacks drawn by crt0.S are disjoint and stay inside the memory      *)
(* reserved for them, and a hart that is woken finds its description, for  *)
(* any number of harts, any size of a stack, any order in which the harts  *)
(* start and any order in which stores reach memory.                       *)
(***************************************************************************)
EXTENDS Boot, FiniteSetTheorems, TLAPS

Places == {"reset", "bss", "ids", "fill", "state", "check", "describe", "fence", "main",
           "ipi", "exit", "loop", "wfi", "woken", "thread"}
Drawn == {h \in Harts : sp[h] # JUNK}

(* Each stack drawn lies one size or more away from the others and below the
   word that the next one will be drawn from, which counts them. *)
StackInv ==
    /\ pc \in [Harts -> Places] /\ boot \in Harts
    /\ sp \in [Harts -> Int \cup {JUNK}] /\ stack_pointer \in Int
    /\ \A h \in Harts : pc[h] = "reset" <=> sp[h] = JUNK
    /\ stack_pointer = STACK_SIZE + IF NCPUS > 1 THEN STACK_SIZE * Cardinality(Drawn) ELSE 0
    /\ \A h \in Drawn :
         /\ STACK_SIZE <= sp[h]
         /\ sp[h] <= stack_pointer - (IF NCPUS > 1 THEN STACK_SIZE ELSE 0)
         /\ \A g \in Drawn \ {h} : sp[g] + STACK_SIZE <= sp[h] \/ sp[h] + STACK_SIZE <= sp[g]

LEMMA DrawnFinite == IsFiniteSet(Harts) /\ Cardinality(Harts) = NCPUS
                     /\ IsFiniteSet(Drawn) /\ Cardinality(Drawn) \in Nat /\ Cardinality(Drawn) <= NCPUS
<1>1. 0 \in Int /\ NCPUS - 1 \in Int /\ NCPUS \in Nat \ {0}
  BY BootAssumption
<1>2. IsFiniteSet(Harts) /\ Cardinality(Harts) = NCPUS
  <2>1. IsFiniteSet(0 .. NCPUS - 1)
        /\ Cardinality(0 .. NCPUS - 1) = IF 0 > NCPUS - 1 THEN 0 ELSE (NCPUS - 1) - 0 + 1
    BY <1>1, FS_Interval
  <2> QED
    BY <2>1, <1>1 DEF Harts
<1>3. Drawn \subseteq Harts
  BY DEF Drawn
<1> QED
  BY <1>2, <1>3, FS_Subset, FS_CardinalityType

(* The harts hold what they had, but for one that leaves its place. *)
LEMMA OthersInv ==
    ASSUME StackInv, NEW h \in Harts, NEW l \in Places, l # "reset", pc[h] # "reset",
           pc' = [pc EXCEPT ![h] = l] \/ pc' = pc, UNCHANGED <<boot, stacks>>
    PROVE  StackInv'
<1>1. Drawn' = Drawn /\ sp' = sp /\ stack_pointer' = stack_pointer /\ boot' = boot
  BY DEF stacks, Drawn
<1>2. pc' \in [Harts -> Places] /\ \A g \in Harts : pc'[g] = "reset" <=> pc[g] = "reset"
  BY DEF StackInv
<1> QED
  BY <1>1, <1>2 DEF StackInv

LEMMA DrawStackInv == ASSUME StackInv, NEW h \in Harts, DrawStack(h) PROVE StackInv'
<1> DEFINE n == Cardinality(Drawn)
           next == stack_pointer + IF NCPUS > 1 THEN STACK_SIZE ELSE 0
<1>1. NCPUS \in Nat \ {0} /\ STACK_SIZE \in Nat \ {0} /\ JUNK \notin Int
  BY BootAssumption
<1>2. /\ pc[h] = "reset" /\ sp[h] = JUNK /\ h \notin Drawn
      /\ sp' = [sp EXCEPT ![h] = stack_pointer] /\ stack_pointer' = next /\ boot' = boot
  BY DEF DrawStack, StackInv, Drawn
<1>3. pc' = [pc EXCEPT ![h] = IF h = boot THEN "bss" ELSE "wfi"]
  BY DEF DrawStack, Started, Goto
<1>4. Drawn' = Drawn \cup {h}
  <2>1. \A g \in Harts : sp'[g] = IF g = h THEN stack_pointer ELSE sp[g]
    BY <1>2 DEF StackInv
  <2>2. stack_pointer # JUNK
    BY <1>1 DEF StackInv
  <2> QED
    BY <2>1, <2>2 DEF Drawn
<1>5. Cardinality(Drawn') = n + 1 /\ n \in Nat
  BY <1>2, <1>4, DrawnFinite, FS_AddElement
<1>6. stack_pointer' = STACK_SIZE + IF NCPUS > 1 THEN STACK_SIZE * (n + 1) ELSE 0
  <2>1. CASE NCPUS > 1
    <3>1. stack_pointer = STACK_SIZE + STACK_SIZE * n
      BY <2>1 DEF StackInv
    <3>2. STACK_SIZE * (n + 1) = STACK_SIZE * n + STACK_SIZE
      BY <1>1, <1>5
    <3>3. STACK_SIZE * n \in Int
      BY <1>1, <1>5
    <3> QED
      BY <2>1, <3>1, <3>2, <3>3, <1>1, <1>2
  <2>2. CASE ~(NCPUS > 1)
    BY <2>2, <1>2 DEF StackInv
  <2> QED
    BY <2>1, <2>2
<1>7. STACK_SIZE <= stack_pointer /\ stack_pointer \in Int
  <2>1. STACK_SIZE * n \in Int /\ STACK_SIZE * n >= 0
    BY <1>1, <1>5
  <2> QED
    BY <2>1, <1>1 DEF StackInv
<1>8. NCPUS = 1 => Drawn = {}
  BY <1>2 DEF Drawn, Harts
<1>9. ASSUME NEW g \in Drawn
      PROVE  /\ g # h /\ sp'[g] = sp[g] /\ sp[g] \in Int
             /\ STACK_SIZE <= sp[g] /\ sp[g] + STACK_SIZE <= stack_pointer
  <2>1. g # h /\ g \in Harts /\ sp[g] # JUNK
    BY <1>2 DEF Drawn
  <2>2. NCPUS > 1
    BY <1>1, <1>8
  <2>3. sp[g] \in Int /\ STACK_SIZE <= sp[g] /\ sp[g] <= stack_pointer - STACK_SIZE
    BY <2>1, <2>2 DEF StackInv
  <2> QED
    BY <2>1, <2>3, <1>1, <1>2, <1>7 DEF StackInv
<1>10. sp'[h] = stack_pointer
  BY <1>2 DEF StackInv
<1>11. ASSUME NEW g \in Drawn'
       PROVE  /\ STACK_SIZE <= sp'[g]
              /\ sp'[g] <= stack_pointer' - (IF NCPUS > 1 THEN STACK_SIZE ELSE 0)
              /\ \A k \in Drawn' \ {g} : sp'[k] + STACK_SIZE <= sp'[g] \/ sp'[g] + STACK_SIZE <= sp'[k]
  <2>1. CASE g = h
    <3>1. \A k \in Drawn' \ {g} : sp'[k] + STACK_SIZE <= sp'[g]
      BY <2>1, <1>4, <1>9, <1>10
    <3> QED
      BY <2>1, <3>1, <1>1, <1>2, <1>7, <1>10
  <2>2. CASE g \in Drawn
    <3>1. ASSUME NEW k \in Drawn' \ {g}
          PROVE  sp'[k] + STACK_SIZE <= sp'[g] \/ sp'[g] + STACK_SIZE <= sp'[k]
      <4>1. CASE k = h
        BY <2>2, <4>1, <1>9, <1>10
      <4>2. CASE k \in Drawn
        BY <2>2, <3>1, <4>2, <1>9 DEF StackInv
      <4> QED
        BY <3>1, <4>1, <4>2, <1>4
    <3>2. STACK_SIZE <= sp'[g] /\ sp'[g] <= stack_pointer' - (IF NCPUS > 1 THEN STACK_SIZE ELSE 0)
      BY <2>2, <1>1, <1>2, <1>7, <1>9
    <3> QED
      BY <3>1, <3>2
  <2> QED
    BY <2>1, <2>2, <1>4
<1>12. /\ pc' \in [Harts -> Places] /\ sp' \in [Harts -> Int \cup {JUNK}] /\ stack_pointer' \in Int
       /\ \A g \in Harts : pc'[g] = "reset" <=> sp'[g] = JUNK
  <2>1. stack_pointer' \in Int
    BY <1>1, <1>2, <1>7
  <2>2. \A g \in Harts : pc'[g] = "reset" <=> sp'[g] = JUNK
    BY <1>1, <1>2, <1>3, <1>7 DEF StackInv
  <2> QED
    <3>1. pc' \in [Harts -> Places]
      BY <1>3 DEF StackInv, Places
    <3>2. sp' \in [Harts -> Int \cup {JUNK}]
      BY <1>2, <1>7 DEF StackInv
    <3> QED
      BY <2>1, <2>2, <3>1, <3>2
<1> QED
  BY <1>2, <1>5, <1>6, <1>11, <1>12 DEF StackInv

LEMMA StackInvHolds == Spec => []StackInv
<1>1. Init => StackInv
  <2> SUFFICES ASSUME Init
               PROVE  StackInv
    OBVIOUS
  <2>1. Drawn = {}
    BY DEF Init, Drawn
  <2>2. Cardinality(Drawn) = 0 /\ STACK_SIZE \in Nat
    BY <2>1, FS_EmptySet, BootAssumption
  <2>3. STACK_SIZE + (IF NCPUS > 1 THEN STACK_SIZE * Cardinality(Drawn) ELSE 0) = STACK_SIZE
    BY <2>2
  <2>4. pc \in [Harts -> Places] /\ boot \in Harts /\ sp \in [Harts -> Int \cup {JUNK}]
    BY BootAssumption DEF Init, Places
  <2>5. \A h \in Harts : pc[h] = "reset" <=> sp[h] = JUNK
    BY DEF Init
  <2>6. stack_pointer = STACK_SIZE /\ STACK_SIZE \in Int
    BY <2>2 DEF Init
  <2> QED
    BY <2>1, <2>3, <2>4, <2>5, <2>6 DEF StackInv
<1>2. ASSUME StackInv, Next
      PROVE  StackInv'
  <2>1. CASE \E h \in Harts : DrawStack(h)
    BY <1>2, <2>1, DrawStackInv
  <2>2. CASE \E h \in Harts : Secondary(h)
    <3>1. PICK h \in Harts : Secondary(h)
      BY <2>2
    <3>2. pc[h] # "reset" /\ UNCHANGED <<boot, stacks>>
      BY <3>1 DEF Secondary, WakeUp, RecvIpi
    <3>3. PICK l \in {"woken", "thread"} : pc' = [pc EXCEPT ![h] = l]
      BY <3>1 DEF Secondary, WakeUp, RecvIpi, Goto
    <3>4. l \in Places /\ l # "reset"
      BY <3>3 DEF Places
    <3> QED
      BY <1>2, <3>2, <3>3, <3>4, OthersInv
  <2>3. CASE Primary
    <3>1. pc[boot] # "reset" /\ UNCHANGED <<boot, stacks>>
      BY <2>3 DEF Primary, ClearBss, ClearIds, FillIds, SetIdle, CheckBootHart, Describe,
                  EnterMain, AllocationFails, IpiSent, Exit, BootAt
    <3>2. PICK l \in {"ids", "fill", "state", "check", "exit", "describe", "fence", "main", "loop"} :
            pc' = [pc EXCEPT ![boot] = l]
      BY <2>3 DEF Primary, ClearBss, ClearIds, FillIds, SetIdle, CheckBootHart, Describe,
                  EnterMain, AllocationFails, IpiSent, Exit, BootGoto, Goto
    <3>3. l \in Places /\ l # "reset" /\ boot \in Harts
      BY <1>2, <3>2 DEF StackInv, Places
    <3> QED
      BY <1>2, <3>1, <3>2, <3>3, OthersInv
  <2>4. CASE (\E h \in Harts \ {boot} : SendIpi(h)) \/ (\E s \in Statuses : MainReturns(s))
    <3>1. pc[boot] # "reset" /\ UNCHANGED <<boot, stacks>>
      BY <2>4 DEF SendIpi, MainReturns, BootAt
    <3>2. PICK l \in {"ipi", "exit"} : pc' = [pc EXCEPT ![boot] = l]
      BY <2>4 DEF SendIpi, MainReturns, BootGoto, Goto
    <3>3. l \in Places /\ l # "reset" /\ boot \in Harts
      BY <1>2, <3>2 DEF StackInv, Places
    <3> QED
      BY <1>2, <3>1, <3>2, <3>3, OthersInv
  <2>5. ASSUME UNCHANGED <<pc, boot, sp, stack_pointer>>
        PROVE  StackInv'
    BY <1>2, <2>5 DEF StackInv, Drawn
  <2>6. CASE (\E w \in Words : Drain(w)) \/ Done
    BY <2>5, <2>6 DEF Drain, Done, vars, harts, stacks
  <2> QED
    BY <1>2, <2>1, <2>2, <2>3, <2>4, <2>6 DEF Next
<1>3. StackInv /\ UNCHANGED vars => StackInv'
  BY DEF StackInv, Drawn, vars, harts, stacks
<1> QED
  BY <1>1, <1>2, <1>3, PTL DEF Spec

LEMMA TimesMonotone ==
    ASSUME NEW a \in Nat, NEW b \in Nat, NEW s \in Nat, a <= b
    PROVE  s * a <= b * s
<1>1. PICK d \in Nat : b = a + d
  <2>1. b - a \in Nat /\ b = a + (b - a)
    OBVIOUS
  <2> QED
    BY <2>1
<1>2. b * s = s * a + s * d
  BY <1>1
<1>3. s * a \in Nat /\ s * d \in Nat
  OBVIOUS
<1> QED
  BY <1>2, <1>3

(* However many harts start, in whatever order they draw, and whatever the
   size of a stack: no two stacks share a word, and all lie in the memory
   that the linker script reserves for NCPUS of them. *)
THEOREM BootStacksDisjoint == Spec => []StacksDisjoint
<1>1. ASSUME StackInv
      PROVE  StacksDisjoint
  <2>1. NCPUS \in Nat \ {0} /\ STACK_SIZE \in Nat \ {0} /\ JUNK \notin Int
    BY BootAssumption
  <2>2. ASSUME NEW h \in Harts, sp[h] # JUNK
        PROVE  h \in Drawn /\ sp[h] \in Int /\ STACK_SIZE <= sp[h]
    BY <1>1, <2>2 DEF Drawn, StackInv
  <2>3. stack_pointer - (IF NCPUS > 1 THEN STACK_SIZE ELSE 0) <= NCPUS * STACK_SIZE
    <3>1. CASE NCPUS > 1
      <4>1. Cardinality(Drawn) \in Nat /\ Cardinality(Drawn) <= NCPUS
        BY DrawnFinite
      <4>2. STACK_SIZE * Cardinality(Drawn) <= NCPUS * STACK_SIZE
        BY <4>1, <2>1, TimesMonotone
      <4>3. STACK_SIZE * Cardinality(Drawn) \in Int /\ NCPUS * STACK_SIZE \in Int
        BY <4>1, <2>1
      <4>4. stack_pointer = STACK_SIZE + STACK_SIZE * Cardinality(Drawn)
        BY <1>1, <3>1 DEF StackInv
      <4> QED
        BY <3>1, <4>2, <4>3, <4>4, <2>1
    <3>2. CASE ~(NCPUS > 1)
      <4>1. NCPUS = 1
        BY <3>2, <2>1
      <4> QED
        BY <1>1, <4>1, <2>1 DEF StackInv
    <3> QED
      BY <3>1, <3>2
  <2>4. ASSUME NEW h \in Harts, sp[h] # JUNK
        PROVE  /\ Stack(h) \subseteq 0 .. NCPUS * STACK_SIZE - 1
               /\ \A g \in Harts \ {h} : sp[g] # JUNK => Stack(g) \cap Stack(h) = {}
    <3>1. NCPUS * STACK_SIZE \in Int
      BY <2>1
    <3>2. sp[h] <= NCPUS * STACK_SIZE
      <4>1. sp[h] <= stack_pointer - (IF NCPUS > 1 THEN STACK_SIZE ELSE 0) /\ stack_pointer \in Int
        BY <1>1, <2>2, <2>4 DEF StackInv
      <4> QED
        BY <4>1, <2>1, <2>2, <2>3, <2>4, <3>1
    <3>3. ASSUME NEW a \in Stack(h)
          PROVE  a \in 0 .. NCPUS * STACK_SIZE - 1
      BY <3>1, <3>2, <3>3, <2>1, <2>2, <2>4 DEF Stack
    <3>4. ASSUME NEW g \in Harts \ {h}, sp[g] # JUNK
          PROVE  Stack(g) \cap Stack(h) = {}
      <4>1. sp[g] + STACK_SIZE <= sp[h] \/ sp[h] + STACK_SIZE <= sp[g]
        BY <1>1, <2>2, <2>4, <3>4 DEF StackInv
      <4> QED
        BY <4>1, <2>1, <2>2, <2>4, <3>4 DEF Stack
    <3> QED
      BY <3>3, <3>4
  <2> QED
    BY <2>4 DEF StacksDisjoint
<1> QED
  BY <1>1, StackInvHolds, PTL

-----------------------------------------------------------------------------
(* main() has been entered: until then no hart is sent an interrupt. *)
Entered == tp = <<"desc", 0>>

(* What the boot hart has to say of a core, when it is core 0 itself. *)
Description(k) == [sid |-> k, hid |-> k, state |-> IF k = 0 THEN "RUNNING" ELSE "IDLE"]
Known(k) == Read(<<"hid2sid", k>>) = k /\ Read(<<"sid2hid", k>>) = k
Described(k) == Read(<<"desc", k>>) = Description(k)
Published(k) == /\ memory[<<"hid2sid", k>>] = k /\ pending[<<"hid2sid", k>>] = NONE
                /\ memory[<<"desc", k>>] = Description(k) /\ pending[<<"desc", k>>] = NONE
NoIpi(h) == /\ memory[<<"msip", h>>] = 0 /\ pending[<<"msip", h>>] = NONE
            /\ pc[h] \notin {"woken", "thread"}

(* The boot hart fills the tables, and then the descriptions, in the order of
   the cores; a store counts from when it is made until the next fence, and
   from when it is in memory after that. *)
StartTypes ==
    /\ boot \in Harts /\ i \in 0 .. NCPUS
    /\ DOMAIN pc = Harts /\ DOMAIN memory = Words /\ DOMAIN pending = Words /\ DOMAIN seen = Harts
    /\ pc[boot] \in Places \ {"wfi", "woken", "thread"}
    /\ \A h \in Harts \ {boot} : pc[h] \in {"reset", "wfi", "woken", "thread"}
    /\ pc[boot] \in {"fill", "state", "describe"} => i \in Harts
    /\ pc[boot] = "check" => i = 0
StartIds ==
    /\ pc[boot] = "fill" => \A k \in 0 .. i - 1 : Known(k)
    /\ pc[boot] = "state" => \A k \in 0 .. i : Known(k)
    /\ pc[boot] \in {"check", "describe", "fence"} => \A k \in Harts : Known(k)
StartDescriptions ==
    /\ pc[boot] \in {"describe", "fence"} => boot = 0
    /\ pc[boot] = "describe" => \A k \in 0 .. i - 1 : Described(k)
    /\ pc[boot] = "fence" => \A k \in Harts : Described(k)
StartEnters ==
    /\ pc[boot] \in {"main", "ipi"} => Entered
    /\ pc[boot] \in {"reset", "bss", "ids", "fill", "state", "check", "describe", "fence"} => ~Entered
    /\ Entered => boot = 0 /\ \A k \in Harts : Published(k)
    /\ ~Entered => \A h \in Harts : NoIpi(h)
StartInv == StartTypes /\ StartIds /\ StartDescriptions /\ StartEnters /\ WokenSeesItsDescription

LEMMA StartFacts ==
    /\ NCPUS \in Nat \ {0} /\ Harts \subseteq Int /\ 0 \in Harts /\ NONE \notin Int
    /\ \A k \in Harts : /\ Description(k) # NONE
                        /\ <<"hid2sid", k>> \in Words /\ <<"sid2hid", k>> \in Words
                        /\ <<"desc", k>> \in Words /\ <<"msip", k>> \in Words
<1>1. NCPUS \in Nat \ {0} /\ NONE \notin Int
  BY BootAssumption
<1>2. 0 \in Harts /\ Harts \subseteq Int
  BY <1>1 DEF Harts
<1>3. \A k \in Harts : Description(k) # NONE
  BY BootAssumption DEF Description
<1> QED
  BY <1>1, <1>2, <1>3 DEF Words

(* What is read does not change while no store is made, nor when one in
   flight reaches memory. *)
LEMMA SameStores ==
    ASSUME UNCHANGED store
    PROVE  \A k \in Harts : /\ Known(k)' <=> Known(k)
                            /\ Described(k)' <=> Described(k)
                            /\ Published(k)' <=> Published(k)
BY DEF store, Known, Described, Published, Read, Description

LEMMA DrainReads ==
    ASSUME StartTypes, NEW w \in Words, Drain(w)
    PROVE  \A v \in Words : Read(v)' = Read(v) /\ (pending[v] = NONE => memory'[v] = memory[v] /\ pending'[v] = NONE)
BY DEF StartTypes, Drain, Read

LEMMA DrainStart == ASSUME StartInv, NEW w \in Words, Drain(w) PROVE StartInv'
<1>1. \A v \in Words : Read(v)' = Read(v) /\ (pending[v] = NONE => memory'[v] = memory[v] /\ pending'[v] = NONE)
  BY DrainReads DEF StartInv
<1>2. /\ boot' = boot /\ pc' = pc /\ i' = i /\ tp' = tp /\ seen' = seen
      /\ DOMAIN memory' = DOMAIN memory /\ DOMAIN pending' = DOMAIN pending
  BY DEF Drain, harts, stacks
<1>3. \A k \in Harts : (Known(k) => Known(k)') /\ (Described(k) => Described(k)')
  BY <1>1, StartFacts DEF Known, Described, Description
<1>4. \A k \in Harts : (Published(k) => Published(k)') /\ (NoIpi(k) => NoIpi(k)')
  BY <1>1, <1>2, StartFacts DEF Published, Description, NoIpi
<1>5. StartTypes'
  BY <1>2 DEF StartInv, StartTypes
<1>6. \A k : k \in 0 .. i => (i \in Harts => k \in Harts) /\ (k \in 0 .. i - 1 => k \in Harts)
  BY StartFacts DEF StartInv, StartTypes, Harts
<1>7. StartIds'
  BY <1>2, <1>3, <1>6, StartFacts DEF StartInv, StartTypes, StartIds, Harts
<1>8. StartDescriptions'
  BY <1>2, <1>3, <1>6, StartFacts DEF StartInv, StartTypes, StartDescriptions, Harts
<1>9. StartEnters'
  BY <1>2, <1>4 DEF StartInv, StartEnters, Entered
<1>10. WokenSeesItsDescription'
  BY <1>2 DEF StartInv, WokenSeesItsDescription
<1> QED
  BY <1>5, <1>7, <1>8, <1>9, <1>10 DEF StartInv

-----------------------------------------------------------------------------
(* The harts that wait *)
LEMMA DrawStackStart == ASSUME StartInv, NEW h \in Harts, DrawStack(h) PROVE StartInv'
<1>1. /\ boot' = boot /\ UNCHANGED store /\ i' = i /\ tp' = tp /\ seen' = seen /\ pc[h] = "reset"
      /\ pc' = [pc EXCEPT ![h] = IF h = boot THEN "bss" ELSE "wfi"]
  BY DEF DrawStack, Started, Goto
<1>2. \A g \in Harts : pc'[g] = IF g = h THEN (IF h = boot THEN "bss" ELSE "wfi") ELSE pc[g]
  BY <1>1 DEF StartInv, StartTypes
<1>3. StartTypes'
  BY <1>1, <1>2 DEF StartInv, StartTypes, store, Places
<1>4. h # boot \/ pc[boot] = "reset"
  BY <1>1
<1>5. pc'[boot] = pc[boot] \/ (pc'[boot] = "bss" /\ pc[boot] = "reset")
  BY <1>1, <1>2 DEF StartInv, StartTypes
<1>6. StartIds' /\ StartDescriptions'
  <2>1. \A k : k \in 0 .. i => (i \in Harts => k \in Harts) /\ (k \in 0 .. i - 1 => k \in Harts)
    BY StartFacts DEF StartInv, StartTypes, Harts
  <2> QED
    BY <1>1, <1>5, <2>1, SameStores DEF StartInv, StartTypes, StartIds, StartDescriptions
<1>7. StartEnters'
  <2>1. \A g \in Harts : NoIpi(g) => NoIpi(g)'
    BY <1>1, <1>2 DEF NoIpi, store
  <2> QED
    BY <1>1, <1>5, <2>1, SameStores DEF StartInv, StartEnters, Entered
<1> QED
  BY <1>1, <1>3, <1>6, <1>7 DEF StartInv, WokenSeesItsDescription

LEMMA WakeUpStart == ASSUME StartInv, NEW h \in Harts, WakeUp(h) PROVE StartInv'
<1>1. /\ boot' = boot /\ UNCHANGED store /\ i' = i /\ tp' = tp /\ seen' = seen
      /\ pc[h] = "wfi" /\ memory[<<"msip", h>>] = 1 /\ pc' = [pc EXCEPT ![h] = "woken"]
  BY DEF WakeUp, Goto
<1>2. h # boot /\ pc'[boot] = pc[boot]
  BY <1>1 DEF StartInv, StartTypes
<1>3. Entered
  BY <1>1 DEF StartInv, StartEnters, NoIpi
<1>4. StartTypes'
  BY <1>1, <1>2 DEF StartInv, StartTypes, store
<1>5. StartIds' /\ StartDescriptions'
  BY <1>1, <1>2, <1>3 DEF StartInv, StartIds, StartDescriptions, StartEnters, StartTypes, Places
<1>6. StartEnters'
  BY <1>1, <1>2, <1>3, SameStores DEF StartInv, StartEnters, Entered
<1> QED
  BY <1>1, <1>4, <1>5, <1>6 DEF StartInv, WokenSeesItsDescription

(* The hart is not core 0, and what it reads has been published. *)
LEMMA RecvIpiStart == ASSUME StartInv, NEW h \in Harts, RecvIpi(h) PROVE StartInv'
<1> DEFINE id == memory[<<"hid2sid", h>>]
           what == [sid |-> id, desc |-> IF id \in Harts THEN memory[<<"desc", id>>] ELSE JUNK]
<1>1. /\ boot' = boot /\ pending' = pending /\ i' = i /\ tp' = tp
      /\ pc[h] = "woken" /\ pc' = [pc EXCEPT ![h] = "thread"]
      /\ memory' = [memory EXCEPT ![<<"msip", h>>] = 0]
      /\ seen' = [seen EXCEPT ![h] = what]
  BY DEF RecvIpi, Goto
<1>2. h # boot /\ pc'[boot] = pc[boot]
  BY <1>1 DEF StartInv, StartTypes
<1>3. Entered /\ boot = 0 /\ Published(h)
  BY <1>1 DEF StartInv, StartEnters, NoIpi
<1>4. id = h /\ memory[<<"desc", h>>] = [sid |-> h, hid |-> h, state |-> "IDLE"]
  BY <1>2, <1>3 DEF Published, Description
<1>5. what = [sid |-> h, desc |-> [sid |-> h, hid |-> h, state |-> "IDLE"]]
  BY <1>4
<1>6. WokenSeesItsDescription'
  BY <1>1, <1>5 DEF StartInv, StartTypes, WokenSeesItsDescription
<1>7. \A k \in Harts : Published(k) => Published(k)'
  BY <1>1 DEF Published, Description
<1>8. StartTypes'
  BY <1>1, <1>2 DEF StartInv, StartTypes
<1>9. StartIds' /\ StartDescriptions'
  BY <1>1, <1>2, <1>3 DEF StartInv, StartIds, StartDescriptions, StartEnters, StartTypes, Places
<1>10. StartEnters'
  BY <1>1, <1>2, <1>3, <1>7 DEF StartInv, StartEnters, Entered
<1> QED
  BY <1>6, <1>8, <1>9, <1>10 DEF StartInv

-----------------------------------------------------------------------------
(* The boot hart *)

(* A hart that waits stays where it is while the boot hart takes a step. *)
LEMMA BootStep ==
    ASSUME StartTypes, NEW l, BootGoto(l)
    PROVE  /\ pc'[boot] = l /\ DOMAIN pc' = Harts
           /\ \A h \in Harts \ {boot} : pc'[h] = pc[h]
BY DEF StartTypes, BootGoto, Goto

(* Before main() the stores of the boot hart are no interrupts. *)
LEMMA NotEntered ==
    ASSUME StartInv, ~Entered, NEW l, BootGoto(l), l \notin {"woken", "thread"},
           tp' = tp, seen' = seen, boot' = boot,
           \A h \in Harts : /\ memory'[<<"msip", h>>] = memory[<<"msip", h>>]
                            /\ pending'[<<"msip", h>>] = pending[<<"msip", h>>],
           l \notin {"main", "ipi"}
    PROVE  StartEnters'
<1>1. pc'[boot] = l /\ \A h \in Harts \ {boot} : pc'[h] = pc[h]
  BY BootStep DEF StartInv
<1>2. \A h \in Harts : NoIpi(h)'
  BY <1>1 DEF StartInv, StartEnters, NoIpi
<1> QED
  BY <1>1, <1>2 DEF StartEnters, Entered

LEMMA ClearBssStart == ASSUME StartInv, ClearBss PROVE StartInv'
<1>1. /\ pc[boot] = "bss" /\ BootGoto("ids") /\ UNCHANGED <<boot, memory, i, tp, seen>>
      /\ pending' = [w \in Words |-> IF w \in Bss THEN Zero(w) ELSE pending[w]]
  BY DEF ClearBss, BootAt
<1>2. pc'[boot] = "ids" /\ DOMAIN pc' = Harts /\ \A h \in Harts \ {boot} : pc'[h] = pc[h]
  BY <1>1, BootStep DEF StartInv
<1>3. StartTypes'
  BY <1>1, <1>2 DEF StartInv, StartTypes, Places
<1>4. StartEnters'
  <2>1. \A h \in Harts : pending'[<<"msip", h>>] = pending[<<"msip", h>>]
    BY <1>1, StartFacts DEF Bss
  <2>2. ~Entered
    BY <1>1 DEF StartInv, StartEnters
  <2> QED
    BY <1>1, <2>1, <2>2, NotEntered
<1> QED
  BY <1>1, <1>2, <1>3, <1>4 DEF StartInv, StartIds, StartDescriptions, WokenSeesItsDescription

LEMMA ClearIdsStart == ASSUME StartInv, ClearIds PROVE StartInv'
<1>1. /\ pc[boot] = "ids" /\ BootGoto("fill") /\ i' = 0 /\ UNCHANGED <<boot, memory, tp, seen>>
      /\ pending' = [w \in Words |-> IF w[1] \in {"hid2sid", "sid2hid"} THEN NOID ELSE pending[w]]
  BY DEF ClearIds, BootAt
<1>2. pc'[boot] = "fill" /\ DOMAIN pc' = Harts /\ \A h \in Harts \ {boot} : pc'[h] = pc[h]
  BY <1>1, BootStep DEF StartInv
<1>3. StartTypes'
  BY <1>1, <1>2, StartFacts DEF StartInv, StartTypes, Places
<1>4. StartEnters'
  <2>1. \A h \in Harts : pending'[<<"msip", h>>] = pending[<<"msip", h>>]
    BY <1>1, StartFacts
  <2>2. ~Entered
    BY <1>1 DEF StartInv, StartEnters
  <2> QED
    BY <1>1, <2>1, <2>2, NotEntered
<1> QED
  BY <1>1, <1>2, <1>3, <1>4 DEF StartInv, StartIds, StartDescriptions, WokenSeesItsDescription

LEMMA FillIdsStart == ASSUME StartInv, FillIds PROVE StartInv'
<1>1. /\ pc[boot] = "fill" /\ BootGoto("state") /\ UNCHANGED <<boot, memory, i, tp, seen>>
      /\ pending' = [pending EXCEPT ![<<"hid2sid", i>>] = i, ![<<"sid2hid", i>>] = i]
  BY DEF FillIds, BootAt
<1>2. pc'[boot] = "state" /\ DOMAIN pc' = Harts /\ \A h \in Harts \ {boot} : pc'[h] = pc[h]
  BY <1>1, BootStep DEF StartInv
<1>3. StartTypes' /\ i \in Harts
  BY <1>1, <1>2 DEF StartInv, StartTypes, Places
<1>4. StartEnters'
  <2>1. \A h \in Harts : pending'[<<"msip", h>>] = pending[<<"msip", h>>]
    BY <1>1, StartFacts DEF StartInv, StartTypes
  <2>2. ~Entered
    BY <1>1 DEF StartInv, StartEnters
  <2> QED
    BY <1>1, <2>1, <2>2, NotEntered
<1>5. Known(i)'
  BY <1>1, <1>3, StartFacts DEF StartInv, StartTypes, Known, Read
<1>6. ASSUME NEW k \in 0 .. i - 1 PROVE Known(k)'
  <2>1. Known(k) /\ k \in Harts /\ k # i
    BY <1>1, <1>3, StartFacts DEF StartInv, StartIds, Harts
  <2> QED
    BY <2>1, <1>1, StartFacts DEF StartInv, StartTypes, Known, Read
<1>7. \A k \in 0 .. i : k = i \/ k \in 0 .. i - 1
  BY <1>3, StartFacts
<1>8. StartIds'
  BY <1>1, <1>2, <1>5, <1>6, <1>7 DEF StartIds
<1> QED
  BY <1>1, <1>2, <1>3, <1>4, <1>8 DEF StartInv, StartDescriptions, WokenSeesItsDescription

LEMMA SetIdleStart == ASSUME StartInv, SetIdle PROVE StartInv'
<1> DEFINE l == IF i + 1 < NCPUS THEN "fill" ELSE "check"
<1>1. /\ pc[boot] = "state" /\ BootGoto(l) /\ UNCHANGED <<boot, pending, tp, seen>>
      /\ i' = IF i + 1 < NCPUS THEN i + 1 ELSE 0
      /\ memory' = [memory EXCEPT ![<<"desc", i>>] = memory'[<<"desc", i>>]]
  BY DEF SetIdle, BootAt, StartInv, StartTypes
<1>2. pc'[boot] = l /\ DOMAIN pc' = Harts /\ \A h \in Harts \ {boot} : pc'[h] = pc[h]
  BY <1>1, BootStep DEF StartInv
<1>3. i \in Harts
  BY <1>1 DEF StartInv, StartTypes
<1>4. StartTypes'
  BY <1>1, <1>2, <1>3, StartFacts DEF StartInv, StartTypes, Places, Harts
<1>5. StartEnters'
  <2>1. \A h \in Harts : memory'[<<"msip", h>>] = memory[<<"msip", h>>]
    BY <1>1, StartFacts DEF StartInv, StartTypes
  <2>2. ~Entered
    BY <1>1 DEF StartInv, StartEnters
  <2> QED
    BY <1>1, <2>1, <2>2, NotEntered
<1>6. ASSUME NEW k \in 0 .. i PROVE Known(k)'
  <2>1. Known(k) /\ k \in Harts
    BY <1>1, <1>3, StartFacts DEF StartInv, StartIds, Harts
  <2> QED
    BY <2>1, <1>1, StartFacts DEF StartInv, StartTypes, Known, Read
<1>7. StartIds'
  BY <1>1, <1>2, <1>3, <1>6, StartFacts DEF StartIds, Harts
<1> QED
  BY <1>1, <1>2, <1>4, <1>5, <1>7 DEF StartInv, StartDescriptions, WokenSeesItsDescription

(* The boot hart finds its own number: it goes on only as core 0. *)
LEMMA CheckBootHartStart == ASSUME StartInv, CheckBootHart PROVE StartInv'
<1> DEFINE l == IF boot = 0 THEN "describe" ELSE "exit"
<1>1. pc[boot] = "check" /\ UNCHANGED <<boot, store, i, tp, seen>>
  BY DEF CheckBootHart, BootAt
<1>2. Known(boot) /\ i = 0 /\ boot \in Harts
  BY <1>1 DEF StartInv, StartTypes, StartIds
<1>3. BootGoto(l)
  BY <1>2 DEF CheckBootHart, Known
<1>4. pc'[boot] = l /\ DOMAIN pc' = Harts /\ \A h \in Harts \ {boot} : pc'[h] = pc[h]
  BY <1>3, BootStep DEF StartInv
<1>5. StartTypes'
  BY <1>1, <1>2, <1>4, StartFacts DEF StartInv, StartTypes, Places, store
<1>6. StartEnters'
  <2>1. ~Entered
    BY <1>1 DEF StartInv, StartEnters
  <2> QED
    BY <1>1, <1>3, <2>1, NotEntered DEF store
<1>7. StartIds'
  BY <1>1, <1>4, SameStores DEF StartInv, StartIds
<1>8. StartDescriptions'
  BY <1>1, <1>2, <1>4, StartFacts DEF StartDescriptions
<1> QED
  BY <1>1, <1>4, <1>5, <1>6, <1>7, <1>8 DEF StartInv, WokenSeesItsDescription

LEMMA DescribeStart == ASSUME StartInv, Describe PROVE StartInv'
<1> DEFINE l == IF i + 1 < NCPUS THEN "describe" ELSE "fence"
           d == [sid |-> i, hid |-> IF i = 0 THEN boot ELSE Read(<<"sid2hid", i>>),
                 state |-> IF i = 0 THEN "RUNNING" ELSE "IDLE"]
<1>1. /\ pc[boot] = "describe" /\ BootGoto(l) /\ UNCHANGED <<boot, memory, tp, seen>> /\ i' = i + 1
      /\ pending' = [pending EXCEPT ![<<"desc", i>>] = d]
  BY DEF Describe, BootAt
<1>2. pc'[boot] = l /\ DOMAIN pc' = Harts /\ \A h \in Harts \ {boot} : pc'[h] = pc[h]
  BY <1>1, BootStep DEF StartInv
<1>3. i \in Harts /\ boot = 0 /\ \A k \in Harts : Known(k)
  BY <1>1 DEF StartInv, StartTypes, StartDescriptions, StartIds
<1>4. StartTypes'
  BY <1>1, <1>2, <1>3, StartFacts DEF StartInv, StartTypes, Places, Harts
<1>5. StartEnters'
  <2>1. \A h \in Harts : pending'[<<"msip", h>>] = pending[<<"msip", h>>]
    BY <1>1, StartFacts DEF StartInv, StartTypes
  <2>2. ~Entered
    BY <1>1 DEF StartInv, StartEnters
  <2> QED
    BY <1>1, <2>1, <2>2, NotEntered
<1>6. \A k \in Harts : Known(k)'
  BY <1>1, <1>3, StartFacts DEF StartInv, StartTypes, Known, Read
<1>7. d = Description(i)
  BY <1>3 DEF Known, Description
<1>8. ASSUME NEW k \in 0 .. i PROVE Described(k)'
  <2>1. CASE k = i
    <3>1. pending'[<<"desc", k>>] = Description(k) /\ Description(k) # NONE
      BY <2>1, <1>1, <1>3, <1>7, StartFacts DEF StartInv, StartTypes
    <3> QED
      BY <3>1 DEF Described, Read, Description
  <2>2. CASE k # i
    <3>1. Described(k) /\ k \in Harts
      BY <1>1, <1>3, <2>2, StartFacts DEF StartInv, StartDescriptions, Harts
    <3>2. pending'[<<"desc", k>>] = pending[<<"desc", k>>]
      BY <1>1, <2>2 DEF StartInv, StartTypes
    <3> QED
      BY <1>1, <3>1, <3>2 DEF Described, Read, Description
  <2> QED
    BY <2>1, <2>2
<1>9. StartIds'
  BY <1>1, <1>2, <1>6 DEF StartIds
<1>10. StartDescriptions'
  <2>1. i + 1 < NCPUS \/ \A k \in Harts : k \in 0 .. i
    BY <1>3, StartFacts DEF Harts
  <2>2. (i + 1) - 1 = i
    BY <1>3, StartFacts
  <2> QED
    BY <1>1, <1>2, <1>3, <1>8, <2>1, <2>2 DEF StartDescriptions
<1> QED
  BY <1>1, <1>2, <1>4, <1>5, <1>9, <1>10 DEF StartInv, WokenSeesItsDescription

(* The fence makes the descriptions visible before main() can use them,
   and before the boot hart gives up for lack of memory. *)
LEMMA EnterMainStart == ASSUME StartInv, EnterMain \/ AllocationFails PROVE StartInv'
<1> PICK l \in {"main", "exit"} : BootGoto(l)
  BY DEF EnterMain, AllocationFails
<1>1. /\ pc[boot] = "fence" /\ UNCHANGED <<boot, store, i, seen>>
      /\ tp' = <<"desc", 0>> /\ Drained
  BY DEF EnterMain, AllocationFails, BootAt, cpu_set_thread_pointer
<1>2. pc'[boot] = l /\ DOMAIN pc' = Harts /\ \A h \in Harts \ {boot} : pc'[h] = pc[h]
  BY <1>1, BootStep DEF StartInv
<1>3. StartTypes'
  BY <1>1, <1>2 DEF StartInv, StartTypes, Places, store
<1>4. boot = 0 /\ \A k \in Harts : Known(k) /\ Described(k)
  BY <1>1 DEF StartInv, StartIds, StartDescriptions
<1>5. ASSUME NEW k \in Harts PROVE Published(k)'
  <2>1. Published(k)
    BY <1>1, <1>4, StartFacts DEF Known, Described, Published, Drained, Read
  <2> QED
    BY <2>1, <1>1, SameStores
<1>6. StartEnters'
  BY <1>1, <1>2, <1>4, <1>5 DEF StartEnters, Entered
<1> QED
  BY <1>1, <1>2, <1>3, <1>6 DEF StartInv, StartIds, StartDescriptions, WokenSeesItsDescription

LEMMA SendIpiStart == ASSUME StartInv, NEW h \in Harts \ {boot}, SendIpi(h) PROVE StartInv'
<1>1. /\ pc[boot] = "main" /\ BootGoto("ipi") /\ UNCHANGED <<boot, memory, i, tp, seen>>
      /\ pending' = [pending EXCEPT ![<<"msip", h>>] = 1]
  BY DEF SendIpi, BootAt
<1>2. pc'[boot] = "ipi" /\ DOMAIN pc' = Harts /\ \A g \in Harts \ {boot} : pc'[g] = pc[g]
  BY <1>1, BootStep DEF StartInv
<1>3. StartTypes'
  BY <1>1, <1>2 DEF StartInv, StartTypes, Places
<1>4. \A k \in Harts : Published(k) => Published(k)'
  BY <1>1 DEF Published, Description
<1>5. StartEnters'
  BY <1>1, <1>2, <1>4 DEF StartInv, StartEnters, Entered
<1> QED
  BY <1>1, <1>2, <1>3, <1>5 DEF StartInv, StartIds, StartDescriptions, WokenSeesItsDescription

(* The other steps of the boot hart from main() on store nothing. *)
LEMMA MainStart ==
    ASSUME StartInv, IpiSent \/ Exit \/ \E s \in Statuses : MainReturns(s)
    PROVE  StartInv'
<1>1. PICK l \in {"main", "exit", "loop"} : BootGoto(l) /\ (l = "main" => pc[boot] = "ipi")
  BY DEF IpiSent, Exit, MainReturns, BootAt
<1>2. pc[boot] \in {"main", "ipi", "exit"} /\ UNCHANGED <<boot, store, i, tp, seen>>
  BY DEF IpiSent, Exit, MainReturns, BootAt
<1>3. pc'[boot] = l /\ DOMAIN pc' = Harts /\ \A h \in Harts \ {boot} : pc'[h] = pc[h]
  BY <1>1, BootStep DEF StartInv
<1>4. StartTypes'
  BY <1>1, <1>2, <1>3 DEF StartInv, StartTypes, Places, store
<1>5. \A h \in Harts : NoIpi(h) => NoIpi(h)'
  BY <1>1, <1>2, <1>3 DEF NoIpi, store
<1>6. StartEnters'
  BY <1>1, <1>2, <1>3, <1>5, SameStores DEF StartInv, StartEnters, Entered
<1> QED
  BY <1>1, <1>2, <1>3, <1>4, <1>6 DEF StartInv, StartIds, StartDescriptions, WokenSeesItsDescription

-----------------------------------------------------------------------------
LEMMA StartInit == Init => StartInv
<1> SUFFICES ASSUME Init PROVE StartInv
  OBVIOUS
<1>1. StartTypes
  BY StartFacts, BootAssumption DEF Init, StartTypes, Places
<1>2. ~Entered
  BY BootAssumption DEF Init, Entered
<1>3. \A h \in Harts : NoIpi(h)
  BY StartFacts DEF Init, NoIpi, Bss
<1>4. pc[boot] = "reset" /\ \A h \in Harts : seen[h] = NONE
  BY <1>1 DEF Init, StartTypes
<1> QED
  BY <1>1, <1>2, <1>3, <1>4 DEF StartInv, StartIds, StartDescriptions, StartEnters, WokenSeesItsDescription

LEMMA StartNext == StartInv /\ [Next]_vars => StartInv'
<1> SUFFICES ASSUME StartInv, [Next]_vars PROVE StartInv'
  OBVIOUS
<1>1. CASE UNCHANGED vars
  <2>1. UNCHANGED <<boot, pc, store, memory, pending, i, tp, seen>>
    BY <1>1 DEF vars, harts, store
  <2>2. StartTypes' /\ WokenSeesItsDescription'
    BY <2>1 DEF StartInv, StartTypes, WokenSeesItsDescription
  <2>3. StartIds' /\ StartDescriptions'
    BY <2>1 DEF StartInv, StartIds, StartDescriptions, Known, Described, Read, Description
  <2>4. StartEnters'
    BY <2>1 DEF StartInv, StartEnters, Entered, Published, NoIpi, Description
  <2> QED
    BY <2>2, <2>3, <2>4 DEF StartInv
<1>2. CASE \E h \in Harts : DrawStack(h) \/ Secondary(h)
  BY <1>2, DrawStackStart, WakeUpStart, RecvIpiStart DEF Secondary
<1>3. CASE \E w \in Words : Drain(w)
  BY <1>3, DrainStart
<1>4. CASE Primary
  BY <1>4, ClearBssStart, ClearIdsStart, FillIdsStart, SetIdleStart, CheckBootHartStart,
     DescribeStart, EnterMainStart, MainStart DEF Primary
<1>5. CASE \E h \in Harts \ {boot} : SendIpi(h)
  BY <1>5, SendIpiStart
<1>6. CASE \E s \in Statuses : MainReturns(s)
  BY <1>6, MainStart
<1> QED
  BY <1>1, <1>2, <1>3, <1>4, <1>5, <1>6 DEF Next, Done

(* A hart that main() wakes has its logical identifier and its complete
   description in memory, for any number of harts, any boot hart and any order
   in which stores reach memory: the fence before main() is what publishes
   them, and no interrupt is sent before. *)
THEOREM BootPublishes == Spec => []WokenSeesItsDescription
<1>1. StartInv => WokenSeesItsDescription
  BY DEF StartInv
<1> QED
  BY <1>1, StartInit, StartNext, PTL DEF Spec
=============================================================================
