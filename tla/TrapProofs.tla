----------------------------- MODULE TrapProofs -----------------------------
(***************************************************************************)
(* Nested traps to any depth, for any causes and handlers: the context of  *)
(* every trap under way is complete, so that a trap whose handler returns  *)
(* is transparent.                                                         *)
(***************************************************************************)
EXTENDS Trap, TLAPS

(* The names of the slots are those of no other piece of code, and a cause is
   an interrupt or an exception. *)
SlotNames == {"ipi", "tim", "ext", "flt", "ld_flt", "st_flt"}
LEMMA SlotNamed == \A c \in Causes : SlotOf(c) \in SlotNames \cup {"none"}
  BY TrapAssumption DEF Causes, SlotOf, IrqSlot, ExcSlot, SlotNames
LEMMA SlotsNamed == Slots \subseteq SlotNames
  BY SlotNamed DEF Slots, Causes
LEMMA CausesApart == Interrupts \cap Exceptions = {}
  BY TrapAssumption DEF IrqSlot, ExcSlot
LEMMA SlotsApart ==
    ASSUME NEW s \in Slots
    PROVE  /\ s \notin Exiting /\ s \notin Restoring /\ s \notin Masked
           /\ s \notin {"app", "skip", "entry", "dispatch", "mret"}
  BY SlotsNamed DEF SlotNames, Exiting, Restoring, Masked

LEMMA AtFacts == ASSUME NEW l PROVE At(l).at = l /\ (l \in Code => At(l) \in Addresses)
  BY TrapAssumption DEF At, Addresses
LEMMA PlusFacts ==
    ASSUME NEW p \in Addresses, NEW k \in {1, 2}
    PROVE  Plus(p, k).at = p.at /\ (p.off + k <= MaxOff => Plus(p, k) \in Addresses)
  BY TrapAssumption DEF Plus, Addresses

LEMMA FrontFacts ==
    ASSUME NEW S, NEW s \in Seq(S), Len(s) > 0
    PROVE  /\ Front(s) \in Seq(S) /\ Len(Front(s)) = Len(s) - 1
           /\ \A i \in 1 .. Len(s) - 1 : Front(s)[i] = s[i]
<1> DEFINE n == Len(s) - 1
<1>1. n \in Nat /\ n <= Len(s)
  OBVIOUS
<1>2. \A i \in 1 .. n : s[i] \in S
  BY <1>1
<1>3. Front(s) = [i \in 1 .. n |-> s[i]]
  BY <1>1 DEF Front
<1> HIDE DEF n
<1>4. Front(s) \in Seq(S) /\ Len(Front(s)) = n /\ \A i \in 1 .. n : Front(s)[i] = s[i]
  BY <1>1, <1>2, <1>3
<1> QED
  BY <1>4 DEF n
LEMMA AppendFacts ==
    ASSUME NEW S, NEW s \in Seq(S), NEW e \in S
    PROVE  /\ Append(s, e) \in Seq(S) /\ Len(Append(s, e)) = Len(s) + 1
           /\ Append(s, e)[Len(s) + 1] = e
           /\ \A i \in 1 .. Len(s) : Append(s, e)[i] = s[i]
  OBVIOUS

-----------------------------------------------------------------------------
(* The parts of the invariant that speak of one level of nesting, f the frame
   and t the interrupted context of a trap, place where its code is. *)
FrameAgrees(f, t, place) ==
    /\ f.gpr = t.gpr /\ f.status = [mie |-> FALSE, mpie |-> t.mie]
    /\ t.pc = IF f.cause \in Interrupts \/ place \in Restoring THEN f.epc ELSE Plus(f.epc, 2)
PlaceAgrees(f, place, p) ==
    /\ place # "app"
    /\ place \in Slots => place = SlotOf(f.cause)
    /\ place = "skip" => f.cause \in Exceptions
    /\ place \in Exiting => p

LEMMA InvParts ==
    IInv <=>
      /\ TypeOK /\ MaskedWhenFragile /\ ContextInHart
      /\ pc.at \notin {"entry", "mret"} => Len(trapped) = Len(frames)
      /\ \A i \in 1 .. Len(frames) : FrameAgrees(frames[i], trapped[i], Place(i))
      /\ pc.at \in {"epc", "gprs"} => mstatus = Top.status
      /\ pc.at = "gprs" => mepc = Top.epc
      /\ Place(0) \in {"app"} \cup Exiting
      /\ \A i \in 1 .. Len(frames) : PlaceAgrees(frames[i], Place(i), panicked)
  BY DEF IInv, ContextInFrame, HandlerIsForCause, FrameAgrees, PlaceAgrees

(* Outside of the entry and the mret, what the invariant says of the
   innermost trap. *)
LEMMA TopFacts ==
    ASSUME IInv, pc.at \notin {"entry", "mret"}
    PROVE  /\ Len(frames) \in Nat /\ Len(trapped) = Len(frames)
           /\ Len(frames) = 0 => pc.at \in {"app"} \cup Exiting
           /\ Len(frames) # 0 =>
                /\ Top \in Frames /\ trapped[Len(frames)] \in Contexts
                /\ FrameAgrees(Top, trapped[Len(frames)], pc.at)
                /\ PlaceAgrees(Top, pc.at, panicked)
<1>1. TypeOK /\ Len(trapped) = Len(frames)
  BY InvParts
<1>2. Len(frames) \in Nat
  BY <1>1 DEF TypeOK
<1>3. Place(Len(frames)) = pc.at
  BY <1>1 DEF Place
<1>4. CASE Len(frames) = 0
  BY <1>1, <1>3, <1>4, InvParts
<1>5. CASE Len(frames) # 0
  <2>1. Len(frames) \in 1 .. Len(frames)
    BY <1>2, <1>5
  <2>2. Top \in Frames /\ trapped[Len(frames)] \in Contexts
    BY <2>1, <1>1 DEF TypeOK, Top
  <2>3. FrameAgrees(Top, trapped[Len(frames)], pc.at) /\ PlaceAgrees(Top, pc.at, panicked)
    BY <2>1, <1>3, InvParts DEF Top
  <2> QED
    BY <1>1, <1>2, <1>5, <2>2, <2>3
<1> QED
  BY <1>4, <1>5

(* A step within the code of one level: the frames stay, and so do the
   contexts. *)
LEMMA MoveInv ==
    ASSUME IInv, TypeOK', frames' = frames, trapped' = trapped,
           pc.at \notin {"entry", "mret"}, pc'.at \notin {"entry", "mret"},
           pc'.at \in Masked => ~mstatus'.mie,
           pc'.at \in {"epc", "gprs"} => mstatus' = Top.status,
           pc'.at = "gprs" => mepc' = Top.epc,
           panicked => panicked',
           Len(frames) = 0 => pc'.at \in {"app"} \cup Exiting,
           Len(frames) # 0 =>
             /\ (pc'.at \in Restoring <=> pc.at \in Restoring) \/ Top.cause \in Interrupts
             /\ PlaceAgrees(Top, pc'.at, panicked')
    PROVE  IInv'
<1> DEFINE m == Len(frames)
<1>1. m \in Nat /\ Len(trapped) = m
  BY TopFacts
<1>2. \A i \in 0 .. m : /\ i = m => Place(i)' = pc'.at
                        /\ i # m => Place(i)' = Place(i)
  BY <1>1 DEF Place
<1>3. Place(m) = pc.at
  BY <1>1 DEF Place
<1>4. MaskedWhenFragile'
  BY InvParts DEF MaskedWhenFragile
<1>5. ContextInHart'
  BY DEF ContextInHart
<1>6. ASSUME NEW i \in 1 .. m
      PROVE  FrameAgrees(frames[i], trapped[i], Place(i)') /\ PlaceAgrees(frames[i], Place(i)', panicked')
  <2>1. FrameAgrees(frames[i], trapped[i], Place(i)) /\ PlaceAgrees(frames[i], Place(i), panicked)
    BY InvParts
  <2>2. CASE i = m
    <3>1. Place(i)' = pc'.at /\ Place(i) = pc.at /\ frames[i] = Top /\ m # 0
      BY <1>1, <1>2, <1>3, <2>2 DEF Top
    <3> QED
      BY <2>1, <3>1 DEF FrameAgrees
  <2>3. CASE i # m
    BY <2>1, <2>3, <1>1, <1>2 DEF PlaceAgrees
  <2> QED
    BY <2>2, <2>3
<1>7. Place(0)' \in {"app"} \cup Exiting
  <2>1. CASE m = 0
    BY <2>1, <1>1, <1>2
  <2>2. CASE m # 0
    <3>1. Place(0)' = Place(0)
      BY <2>2, <1>1, <1>2
    <3> QED
      BY <3>1, InvParts
  <2> QED
    BY <2>1, <2>2
<1>8. Top' = Top
  BY DEF Top
<1> QED
  BY <1>1, <1>4, <1>5, <1>6, <1>7, <1>8 DEF IInv, ContextInFrame, HandlerIsForCause, FrameAgrees, PlaceAgrees

-----------------------------------------------------------------------------
LEMMA InitInv == Init => IInv
<1> SUFFICES ASSUME Init
             PROVE  IInv
  OBVIOUS
<1>1. At("app") \in Addresses /\ pc.at = "app"
  BY AtFacts DEF Init, Code, User
<1>2. TypeOK
  <2>1. pc \in Addresses /\ mepc \in Addresses
    BY <1>1 DEF Init
  <2>2. mstatus \in Statuses /\ mie \subseteq Interrupts /\ registered \subseteq Slots
    BY DEF Init, Statuses
  <2>3. frames \in Seq(Frames) /\ trapped \in Seq(Contexts)
    BY DEF Init
  <2> QED
    BY <2>1, <2>2, <2>3 DEF Init, TypeOK
<1>3. Len(frames) = 0 /\ Len(trapped) = 0
  BY DEF Init
<1>4. Place(0) = "app"
  BY <1>1, <1>3 DEF Place
<1> QED
  BY <1>1, <1>2, <1>3, <1>4 DEF IInv, MaskedWhenFragile, ContextInHart, ContextInFrame, HandlerIsForCause, Masked

(* The code of the application, at pc.at, goes on. *)
LEMMA UserInv ==
    ASSUME IInv, TypeOK', pc.at \in User, pc'.at = pc.at, frames' = frames, trapped' = trapped,
           panicked' = panicked
    PROVE  IInv'
<1>1. pc.at \notin {"entry", "mret"} \cup Masked \cup {"epc", "gprs"}
  BY SlotsApart DEF User, Masked
<1>2. /\ Len(frames) = 0 => pc.at \in {"app"} \cup Exiting
      /\ Len(frames) # 0 => PlaceAgrees(Top, pc.at, panicked)
  BY <1>1, TopFacts
<1> QED
  BY <1>1, <1>2, MoveInv

LEMMA StepInv == ASSUME IInv, Step PROVE IInv'
<1>1. pc.at \in User /\ pc \in Addresses
  BY DEF Step, IInv, TypeOK
<1>2. pc' \in Addresses /\ pc'.at = pc.at
  BY <1>1, PlusFacts DEF Step
<1>3. gpr' \in Values
  BY DEF Step, IInv, TypeOK
<1>4. TypeOK'
  BY <1>2, <1>3 DEF Step, IInv, TypeOK, csrs, ghosts
<1> QED
  BY <1>1, <1>2, <1>4, UserInv DEF Step, ghosts

LEMMA SetInterruptsInv == ASSUME IInv, NEW on \in BOOLEAN, SetInterrupts(on) PROVE IInv'
<1>1. mstatus' \in Statuses
  BY DEF SetInterrupts, IInv, TypeOK, Statuses
<1>2. TypeOK'
  BY <1>1 DEF SetInterrupts, IInv, TypeOK, ghosts
<1> QED
  BY <1>2, UserInv DEF SetInterrupts, ghosts

LEMMA SetIrqInv == ASSUME IInv, NEW i \in Interrupts, NEW on \in BOOLEAN, SetIrq(i, on) PROVE IInv'
<1>1. TypeOK'
  BY DEF SetIrq, IInv, TypeOK, ghosts
<1> QED
  BY <1>1, UserInv DEF SetIrq, ghosts

LEMMA SetHandlerInv == ASSUME IInv, NEW s \in Slots, NEW on \in BOOLEAN, SetHandler(s, on) PROVE IInv'
<1>1. TypeOK'
  BY DEF SetHandler, IInv, TypeOK, csrs, ghosts
<1> QED
  BY <1>1 DEF SetHandler, IInv, csrs, ghosts, MaskedWhenFragile, ContextInHart, ContextInFrame,
              HandlerIsForCause, Place, Top

LEMMA StutterInv == ASSUME IInv, UNCHANGED vars PROVE IInv'
  BY DEF vars, IInv, TypeOK, csrs, ghosts, MaskedWhenFragile, ContextInHart, ContextInFrame,
         HandlerIsForCause, Place, Top

LEMMA ExitInv == ASSUME IInv, NEW s \in Values, Exit(s) PROVE IInv'
<1>1. pc.at = "app" /\ pc'.at = "exit" /\ pc' \in Addresses
  BY AtFacts DEF Exit, Code, Exiting
<1>2. TypeOK'
  BY <1>1 DEF Exit, IInv, TypeOK, csrs
<1>3. Len(frames) = 0
  BY <1>1, TopFacts DEF PlaceAgrees
<1> QED
  BY <1>1, <1>2, <1>3, MoveInv DEF Exit, Exiting, Masked

-----------------------------------------------------------------------------
(* The steps of the library that stay in their level. *)
LEMMA CallHandlerInv == ASSUME IInv, CallHandler PROVE IInv'
<1> DEFINE s == SlotOf(Top.cause)
<1>1. pc.at = "dispatch" /\ s \in Slots /\ pc' = At(s)
  BY DEF CallHandler, IInv, TypeOK
<1>2. pc'.at = s /\ pc' \in Addresses
  BY <1>1, AtFacts DEF Code, User
<1>3. TypeOK'
  BY <1>2 DEF CallHandler, IInv, TypeOK, csrs, ghosts
<1>4. Len(frames) # 0
  BY <1>1, TopFacts DEF Exiting
<1>5. s \notin Exiting /\ s \notin Restoring /\ s \notin Masked /\ s \notin {"app", "skip", "entry", "mret", "epc", "gprs"}
  BY <1>1, SlotsApart DEF Restoring
<1>6. PlaceAgrees(Top, s, panicked)
  BY <1>5 DEF PlaceAgrees
<1> QED
  BY <1>1, <1>2, <1>3, <1>4, <1>5, <1>6, MoveInv DEF CallHandler, ghosts, Restoring

LEMMA PanicInv == ASSUME IInv, Panic PROVE IInv'
<1>1. pc.at = "dispatch" /\ pc'.at = "exit" /\ pc' \in Addresses
  BY AtFacts DEF Panic, Code, Exiting
<1>2. TypeOK'
  BY <1>1 DEF Panic, IInv, TypeOK, csrs, Values
<1>3. Len(frames) # 0
  BY <1>1, TopFacts DEF Exiting
<1>4. PlaceAgrees(Top, "exit", TRUE)
  BY SlotsApart DEF PlaceAgrees, Exiting
<1> QED
  BY <1>1, <1>2, <1>3, <1>4, MoveInv DEF Panic, Restoring, Masked

LEMMA ReturnInv == ASSUME IInv, Return PROVE IInv'
<1>1. /\ pc.at \in Slots /\ pc.at \notin {"entry", "mret"}
      /\ pc.at \notin Restoring /\ pc.at \notin {"app"} \cup Exiting
  BY SlotsApart DEF Return, Restoring
<1>2. Len(frames) # 0 /\ Top \in Frames
  BY <1>1, TopFacts
<1>3. \/ Top.cause \in Interrupts /\ pc'.at = "cause"
      \/ Top.cause \in Exceptions /\ pc'.at = "skip"
  BY <1>2, AtFacts DEF Return, Frames, Causes
<1>4. pc' \in Addresses
  BY AtFacts DEF Return, Code, Restoring
<1>5. TypeOK'
  BY <1>4 DEF Return, IInv, TypeOK, csrs, ghosts
<1>6. PlaceAgrees(Top, pc'.at, panicked)
  BY <1>3, SlotsApart DEF PlaceAgrees, Exiting, Restoring
<1> QED
  BY <1>1, <1>2, <1>3, <1>5, <1>6, MoveInv DEF Return, csrs, ghosts, Restoring, Masked

(* From one step of the restoring code to the next, neither being the last. *)
LEMMA RestoreInv ==
    ASSUME IInv, TypeOK', pc.at \in {"cause", "status", "epc"}, pc'.at \in {"status", "epc", "gprs"},
           frames' = frames, trapped' = trapped, panicked' = panicked,
           pc'.at \in {"epc", "gprs"} => mstatus' = Top.status,
           pc'.at = "gprs" => mepc' = Top.epc
    PROVE  IInv'
<1>1. Len(frames) # 0
  BY TopFacts DEF Exiting
<1>2. Top.status.mie = FALSE
  BY <1>1, TopFacts DEF FrameAgrees
<1>3. PlaceAgrees(Top, pc'.at, panicked)
  BY SlotsApart DEF PlaceAgrees, Exiting, Restoring
<1> QED
  BY <1>1, <1>2, <1>3, MoveInv DEF Restoring, Masked

LEMMA RestoreCauseInv == ASSUME IInv, RestoreCause PROVE IInv'
<1>1. pc.at = "cause" /\ pc'.at = "status" /\ pc' \in Addresses
  BY AtFacts DEF RestoreCause, Code, Restoring
<1>2. Top.cause \in Causes
  BY <1>1, TopFacts DEF Exiting, Frames
<1>3. TypeOK'
  BY <1>1, <1>2 DEF RestoreCause, IInv, TypeOK, ghosts
<1> QED
  BY <1>1, <1>3, RestoreInv DEF RestoreCause, ghosts

LEMMA RestoreStatusInv == ASSUME IInv, RestoreStatus PROVE IInv'
<1>1. pc.at = "status" /\ pc'.at = "epc" /\ pc' \in Addresses
  BY AtFacts DEF RestoreStatus, Code, Restoring
<1>2. Top.status \in Statuses
  BY <1>1, TopFacts DEF Exiting, Frames
<1>3. TypeOK'
  BY <1>1, <1>2 DEF RestoreStatus, IInv, TypeOK, ghosts
<1> QED
  BY <1>1, <1>3, RestoreInv DEF RestoreStatus, ghosts

LEMMA RestoreEpcInv == ASSUME IInv, RestoreEpc PROVE IInv'
<1>1. pc.at = "epc" /\ pc'.at = "gprs" /\ pc' \in Addresses
  BY AtFacts DEF RestoreEpc, Code, Restoring
<1>2. Top.epc \in Addresses
  BY <1>1, TopFacts DEF Exiting, Frames
<1>3. TypeOK'
  BY <1>1, <1>2 DEF RestoreEpc, IInv, TypeOK, ghosts
<1>4. mstatus' = Top.status
  BY <1>1, InvParts DEF RestoreEpc
<1> QED
  BY <1>1, <1>3, <1>4, RestoreInv DEF RestoreEpc, ghosts

(* The exit, on a hart that has panicked if it is inside a trap. *)
LEMMA LeavingInv ==
    ASSUME IInv, pc.at \in Exiting, pc'.at \in Exiting, pc' \in Addresses, TypeOK',
           frames' = frames, trapped' = trapped, panicked' = panicked
    PROVE  IInv'
<1>1. Len(frames) # 0 => PlaceAgrees(Top, pc'.at, panicked)
  BY TopFacts, SlotsApart DEF PlaceAgrees, Exiting
<1> QED
  BY <1>1, MoveInv DEF Exiting, Restoring, Masked

LEMMA TestThreadInv == ASSUME IInv, TestThread PROVE IInv'
<1>1. pc.at = "exit" /\ pc'.at \in {"callback", "loop"} /\ pc' \in Addresses
  BY AtFacts DEF TestThread, Code, Exiting
<1>2. TypeOK'
  BY <1>1 DEF TestThread, IInv, TypeOK, csrs, ghosts
<1> QED
  BY <1>1, <1>2, LeavingInv DEF TestThread, ghosts, Exiting
LEMMA CallbackReturnsInv == ASSUME IInv, CallbackReturns PROVE IInv'
<1>1. pc.at = "callback" /\ pc'.at = "tohost" /\ pc' \in Addresses
  BY AtFacts DEF CallbackReturns, Code, Exiting
<1>2. TypeOK'
  BY <1>1 DEF CallbackReturns, IInv, TypeOK, csrs, ghosts
<1> QED
  BY <1>1, <1>2, LeavingInv DEF CallbackReturns, ghosts, Exiting
LEMMA ReportInv == ASSUME IInv, Report PROVE IInv'
<1>1. pc.at = "tohost" /\ pc'.at = "loop" /\ pc' \in Addresses
  BY AtFacts DEF Report, Code, Exiting
<1>2. TypeOK'
  BY <1>1 DEF Report, IInv, TypeOK, csrs, ghosts
<1> QED
  BY <1>1, <1>2, LeavingInv DEF Report, ghosts, Exiting
-----------------------------------------------------------------------------
(* The steps that enter and leave a level. *)
LEMMA TakeTrapInv ==
    ASSUME IInv, NEW cause \in Causes, NEW next \in Addresses, TakeTrap(cause, next),
           pc.at \notin Masked, next.at = pc.at,
           next = IF cause \in Interrupts THEN pc ELSE Plus(pc, 2)
    PROVE  IInv'
<1> DEFINE n == Len(trapped)
           c == [pc |-> next, gpr |-> gpr, mie |-> mstatus.mie]
<1>1. pc.at \notin {"entry", "mret", "epc", "gprs"}
  BY DEF Masked
<1>2. n \in Nat /\ Len(frames) = n
  BY <1>1, TopFacts
<1>3. c \in Contexts
  BY DEF Contexts, IInv, TypeOK, Statuses
<1>4. /\ pc' = At("entry") /\ pc'.at = "entry" /\ pc' \in Addresses
      /\ trapped' = Append(trapped, c) /\ frames' = frames /\ gpr' = gpr
      /\ mepc' = pc /\ mcause' = cause /\ mstatus' = [mie |-> FALSE, mpie |-> mstatus.mie]
      /\ panicked' = panicked
  BY AtFacts DEF TakeTrap, Code
<1>5. /\ trapped' \in Seq(Contexts) /\ Len(trapped') = n + 1 /\ trapped'[n + 1] = c
      /\ \A i \in 1 .. n : trapped'[i] = trapped[i]
  BY <1>3, <1>4, AppendFacts DEF IInv, TypeOK
<1>6. \A i \in 0 .. n : Place(i)' = Place(i)
  <2>1. ASSUME NEW i \in 0 .. n, i = n
        PROVE  Place(i)' = Place(i)
    <3>1. Place(i) = pc.at
      BY <2>1 DEF Place
    <3>2. i # Len(trapped') /\ trapped'[i + 1].pc = next
      BY <2>1, <1>2, <1>5
    <3>3. Place(i)' = trapped'[i + 1].pc.at
      BY <3>2 DEF Place
    <3> QED
      BY <3>1, <3>2, <3>3
  <2>2. ASSUME NEW i \in 0 .. n, i # n
        PROVE  Place(i)' = Place(i)
    <3>1. i + 1 \in 1 .. n /\ i # n + 1
      BY <2>2, <1>2
    <3>2. trapped'[i + 1] = trapped[i + 1]
      BY <3>1, <1>5
    <3> QED
      BY <2>2, <3>1, <3>2, <1>2, <1>5 DEF Place
  <2> QED
    BY <2>1, <2>2
<1>7. TypeOK'
  <2>1. mstatus' \in Statuses
    BY <1>4 DEF Statuses, IInv, TypeOK
  <2>2. mepc' \in Addresses /\ mcause' \in Causes
    BY <1>4 DEF IInv, TypeOK
  <2> QED
    BY <2>1, <2>2, <1>4, <1>5 DEF TakeTrap, IInv, TypeOK
<1>8. MaskedWhenFragile'
  <2>1. ASSUME NEW i \in 1 .. n + 1
        PROVE  trapped'[i].pc.at \notin Masked
    <3>1. CASE i = n + 1
      BY <3>1, <1>5
    <3>2. CASE i # n + 1
      BY <3>2, <1>2, <1>5 DEF IInv, MaskedWhenFragile
    <3> QED
      BY <3>1, <3>2
  <2>2. ~mstatus'.mie
    BY <1>4
  <2> QED
    BY <2>1, <2>2, <1>5 DEF MaskedWhenFragile
<1>9. ContextInHart'
  <2>1. trapped'[Len(trapped')] = c
    BY <1>5
  <2>2. Len(trapped') = Len(frames') + 1
    BY <1>2, <1>4, <1>5
  <2>3. mstatus'.mpie = c.mie /\ gpr' = c.gpr
    BY <1>4
  <2>4. c.pc = IF mcause' \in Interrupts THEN mepc' ELSE Plus(mepc', 2)
    BY <1>4
  <2> HIDE DEF c
  <2> QED
    BY <2>1, <2>2, <2>3, <2>4, <1>4 DEF ContextInHart
<1>10. ContextInFrame'
  <2>1. ASSUME NEW i \in 1 .. n
        PROVE  FrameAgrees(frames'[i], trapped'[i], Place(i)')
    <3>1. FrameAgrees(frames[i], trapped[i], Place(i))
      BY <1>2, InvParts
    <3> QED
      BY <3>1, <1>2, <1>4, <1>5, <1>6
  <2> QED
    BY <2>1, <1>2, <1>4 DEF ContextInFrame, FrameAgrees
<1>11. HandlerIsForCause'
  <2>1. Place(0)' = Place(0)
    BY <1>2, <1>6
  <2>2. \A i \in 1 .. n : Place(i)' = Place(i)
    BY <1>2, <1>6
  <2> QED
    BY <2>1, <2>2, <1>2, <1>4 DEF IInv, HandlerIsForCause
<1> QED
  BY <1>7, <1>8, <1>9, <1>10, <1>11 DEF IInv

LEMMA TakeInterruptInv == ASSUME IInv, NEW c \in Interrupts, TakeInterrupt(c) PROVE IInv'
<1>1. pc.at \notin Masked /\ pc \in Addresses
  BY DEF TakeInterrupt, IInv, MaskedWhenFragile, TypeOK
<1> QED
  BY <1>1, TakeTrapInv DEF TakeInterrupt, Causes
LEMMA TakeExceptionInv == ASSUME IInv, NEW c \in Exceptions, TakeException(c) PROVE IInv'
<1>1. pc.at \notin Masked /\ pc \in Addresses
  BY SlotsApart DEF TakeException, User, Masked, IInv, TypeOK
<1>2. Plus(pc, 2).at = pc.at /\ Plus(pc, 2) \in Addresses
  BY <1>1, PlusFacts DEF TakeException
<1>3. c \notin Interrupts
  BY CausesApart
<1> QED
  BY <1>1, <1>2, <1>3, TakeTrapInv DEF TakeException, Causes

LEMMA SaveInv == ASSUME IInv, Save PROVE IInv'
<1> DEFINE n == Len(trapped)
           f == [gpr |-> gpr, cause |-> mcause, epc |-> mepc, status |-> mstatus]
<1>1. pc.at = "entry"
  BY DEF Save
<1>2. n \in Nat /\ Len(frames) \in Nat /\ n = Len(frames) + 1
  BY <1>1 DEF IInv, TypeOK, ContextInHart
<1>3. f \in Frames
  BY DEF Frames, IInv, TypeOK
<1>4. /\ pc'.at = "dispatch" /\ pc' \in Addresses
      /\ frames' = Append(frames, f) /\ trapped' = trapped /\ gpr' = gpr
      /\ mstatus' = mstatus /\ panicked' = panicked
  BY AtFacts DEF Save, Code, csrs, ghosts
<1>5. /\ frames' \in Seq(Frames) /\ Len(frames') = n /\ frames'[n] = f
      /\ \A i \in 1 .. n - 1 : frames'[i] = frames[i]
  BY <1>2, <1>3, <1>4, AppendFacts DEF IInv, TypeOK
<1>6. TypeOK'
  BY <1>4, <1>5 DEF Save, IInv, TypeOK, csrs, ghosts
<1>7. \A i \in 0 .. n : /\ i = n => Place(i)' = "dispatch"
                        /\ i # n => Place(i)' = Place(i)
  BY <1>2, <1>4 DEF Place
<1>8. MaskedWhenFragile'
  BY <1>1, <1>4 DEF IInv, MaskedWhenFragile, Masked
<1>9. ContextInHart'
  BY <1>4 DEF ContextInHart
<1>10. ASSUME NEW i \in 1 .. n
       PROVE  FrameAgrees(frames'[i], trapped'[i], Place(i)') /\ PlaceAgrees(frames'[i], Place(i)', panicked')
  <2>1. CASE i = n
    <3>1. frames'[i] = f /\ trapped'[i] = trapped[n] /\ Place(i)' = "dispatch"
      BY <2>1, <1>4, <1>5, <1>7, <1>2
    <3>2. /\ gpr = trapped[n].gpr /\ mstatus.mpie = trapped[n].mie
          /\ trapped[n].pc = IF mcause \in Interrupts THEN mepc ELSE Plus(mepc, 2)
      BY <1>1 DEF IInv, ContextInHart
    <3>3. mstatus = [mie |-> FALSE, mpie |-> trapped[n].mie]
      <4>1. mstatus.mie = FALSE
        BY <1>1 DEF IInv, MaskedWhenFragile, Masked, TypeOK, Statuses
      <4> QED
        BY <4>1, <3>2 DEF IInv, TypeOK, Statuses
    <3>4. FrameAgrees(f, trapped[n], "dispatch")
      BY <3>2, <3>3 DEF FrameAgrees, Restoring
    <3>5. PlaceAgrees(f, "dispatch", panicked')
      BY SlotsApart DEF PlaceAgrees, Exiting
    <3> QED
      BY <3>1, <3>4, <3>5
  <2>2. CASE i # n
    <3>1. i \in 1 .. Len(frames) /\ frames'[i] = frames[i] /\ Place(i)' = Place(i)
      BY <2>2, <1>2, <1>5, <1>7
    <3>2. FrameAgrees(frames[i], trapped[i], Place(i)) /\ PlaceAgrees(frames[i], Place(i), panicked)
      BY <3>1, InvParts
    <3> QED
      BY <3>1, <3>2, <1>4
  <2> QED
    BY <2>1, <2>2
<1>11. Place(0)' \in {"app"} \cup Exiting
  <2>1. Place(0)' = Place(0)
    BY <1>2, <1>7
  <2> QED
    BY <2>1, InvParts
<1>12. ContextInFrame'
  BY <1>4, <1>5, <1>10 DEF ContextInFrame, FrameAgrees
<1>13. HandlerIsForCause'
  BY <1>4, <1>5, <1>10, <1>11 DEF HandlerIsForCause, PlaceAgrees
<1> QED
  BY <1>6, <1>8, <1>9, <1>12, <1>13 DEF IInv

LEMMA SkipInv == ASSUME IInv, Skip PROVE IInv'
<1> DEFINE m == Len(frames)
           f == [frames[m] EXCEPT !.epc = Plus(@, 2)]
<1>1. pc.at = "skip"
  BY DEF Skip
<1>2. m \in Nat /\ m # 0 /\ Len(trapped) = m
  BY <1>1, TopFacts DEF Exiting
<1>3. /\ Top \in Frames /\ trapped[m] \in Contexts
      /\ FrameAgrees(Top, trapped[m], "skip") /\ PlaceAgrees(Top, "skip", panicked)
  BY <1>1, <1>2, TopFacts
<1>4. Top = frames[m] /\ Top.cause \notin Interrupts
  BY <1>3, CausesApart DEF Top, PlaceAgrees
<1>5. Plus(Top.epc, 2) = trapped[m].pc
  BY <1>3, <1>4 DEF FrameAgrees, Restoring
<1>6. f.gpr = Top.gpr /\ f.cause = Top.cause /\ f.status = Top.status /\ f.epc = trapped[m].pc
  BY <1>3, <1>4, <1>5 DEF Frames
<1>7. f \in Frames
  BY <1>3, <1>4, <1>5 DEF Frames, Contexts
<1>8. /\ pc'.at = "cause" /\ pc' \in Addresses
      /\ frames' = [frames EXCEPT ![m] = f] /\ trapped' = trapped /\ panicked' = panicked
  BY AtFacts DEF Skip, Code, Restoring, ghosts
<1>9. /\ frames' \in Seq(Frames) /\ Len(frames') = m /\ frames'[m] = f
      /\ \A i \in 1 .. m - 1 : frames'[i] = frames[i]
  <2> HIDE DEF f
  <2> QED
    BY <1>2, <1>7, <1>8 DEF IInv, TypeOK
<1>10. TypeOK'
  BY <1>8, <1>9 DEF Skip, IInv, TypeOK, csrs, ghosts
<1>11. \A i \in 0 .. m : /\ i = m => Place(i)' = "cause"
                         /\ i # m => Place(i)' = Place(i)
  BY <1>2, <1>8 DEF Place
<1>12. MaskedWhenFragile'
  BY <1>8 DEF IInv, MaskedWhenFragile, Masked
<1>13. ContextInHart'
  BY <1>8 DEF ContextInHart
<1>14. ASSUME NEW i \in 1 .. m
       PROVE  FrameAgrees(frames'[i], trapped'[i], Place(i)') /\ PlaceAgrees(frames'[i], Place(i)', panicked')
  <2>1. CASE i = m
    <3>1. frames'[i] = f /\ trapped'[i] = trapped[m] /\ Place(i)' = "cause"
      BY <2>1, <1>2, <1>8, <1>9, <1>11
    <3>2. FrameAgrees(f, trapped[m], "cause")
      BY <1>3, <1>6 DEF FrameAgrees, Restoring
    <3>3. PlaceAgrees(f, "cause", panicked')
      BY SlotsApart DEF PlaceAgrees, Exiting, Restoring
    <3> QED
      BY <3>1, <3>2, <3>3
  <2>2. CASE i # m
    <3>1. frames'[i] = frames[i] /\ Place(i)' = Place(i)
      BY <2>2, <1>2, <1>9, <1>11
    <3>2. FrameAgrees(frames[i], trapped[i], Place(i)) /\ PlaceAgrees(frames[i], Place(i), panicked)
      BY InvParts
    <3> QED
      BY <3>1, <3>2, <1>8
  <2> QED
    BY <2>1, <2>2
<1>15. Place(0)' \in {"app"} \cup Exiting
  <2>1. Place(0)' = Place(0)
    BY <1>2, <1>11
  <2> QED
    BY <2>1, InvParts
<1>16. ContextInFrame'
  BY <1>2, <1>8, <1>9, <1>14 DEF ContextInFrame, FrameAgrees
<1>17. HandlerIsForCause'
  BY <1>8, <1>9, <1>14, <1>15 DEF HandlerIsForCause, PlaceAgrees
<1> QED
  BY <1>10, <1>12, <1>13, <1>16, <1>17 DEF IInv

LEMMA RestoreGprsInv == ASSUME IInv, RestoreGprs PROVE IInv'
<1> DEFINE m == Len(frames)
<1>1. pc.at = "gprs"
  BY DEF RestoreGprs
<1>2. m \in Nat /\ m # 0 /\ Len(trapped) = m
  BY <1>1, TopFacts DEF Exiting
<1>3. Top \in Frames /\ FrameAgrees(Top, trapped[m], "gprs")
  BY <1>1, <1>2, TopFacts
<1>4. mstatus = Top.status /\ mepc = Top.epc
  BY <1>1, InvParts
<1>5. /\ pc'.at = "mret" /\ pc' \in Addresses
      /\ frames' = Front(frames) /\ trapped' = trapped /\ gpr' = Top.gpr
      /\ mstatus' = mstatus /\ mepc' = mepc /\ panicked' = panicked
  BY AtFacts DEF RestoreGprs, Code, Restoring, csrs, ghosts
<1>6. /\ frames' \in Seq(Frames) /\ Len(frames') = m - 1
      /\ \A i \in 1 .. m - 1 : frames'[i] = frames[i]
  BY <1>2, <1>5, FrontFacts DEF IInv, TypeOK
<1>7. TypeOK'
  <2>1. gpr' \in Values
    BY <1>3, <1>5 DEF Frames
  <2> QED
    BY <2>1, <1>5, <1>6 DEF RestoreGprs, IInv, TypeOK, csrs, ghosts
<1>8. \A i \in 0 .. m - 1 : Place(i)' = Place(i)
  BY <1>2, <1>5 DEF Place
<1>9. mstatus.mie = FALSE /\ mstatus.mpie = trapped[m].mie
  BY <1>3, <1>4 DEF FrameAgrees
<1>10. MaskedWhenFragile'
  BY <1>5, <1>9 DEF IInv, MaskedWhenFragile
<1>11. ContextInHart'
  <2>1. trapped'[Len(trapped')] = trapped[m] /\ Len(trapped') = Len(frames') + 1
    BY <1>2, <1>5, <1>6
  <2>2. gpr' = trapped[m].gpr /\ mepc' = trapped[m].pc
    BY <1>3, <1>4, <1>5 DEF FrameAgrees, Restoring
  <2> QED
    BY <2>1, <2>2, <1>5, <1>9 DEF ContextInHart
<1>12. ASSUME NEW i \in 1 .. m - 1
       PROVE  FrameAgrees(frames'[i], trapped'[i], Place(i)') /\ PlaceAgrees(frames'[i], Place(i)', panicked')
  <2>1. i \in 1 .. m /\ frames'[i] = frames[i] /\ Place(i)' = Place(i)
    BY <1>2, <1>6, <1>8
  <2>2. FrameAgrees(frames[i], trapped[i], Place(i)) /\ PlaceAgrees(frames[i], Place(i), panicked)
    BY <2>1, InvParts
  <2> QED
    BY <2>1, <2>2, <1>5
<1>13. Place(0)' \in {"app"} \cup Exiting
  <2>1. Place(0)' = Place(0)
    BY <1>2, <1>8
  <2> QED
    BY <2>1, InvParts
<1>14. ContextInFrame'
  BY <1>5, <1>6, <1>12 DEF ContextInFrame, FrameAgrees
<1>15. HandlerIsForCause'
  BY <1>5, <1>6, <1>12, <1>13 DEF HandlerIsForCause, PlaceAgrees
<1> QED
  BY <1>7, <1>10, <1>11, <1>14, <1>15 DEF IInv

(* mret gives the interrupted code what it had. *)
LEMMA MretFacts ==
    ASSUME IInv, Mret
    PROVE  LET n == Len(trapped)  t == trapped[n] IN
           /\ n \in Nat /\ n # 0 /\ Len(frames) = n - 1 /\ t \in Contexts
           /\ pc' = t.pc /\ gpr' = t.gpr /\ mstatus' = [mie |-> t.mie, mpie |-> TRUE]
           /\ trapped' = Front(trapped) /\ frames' = frames /\ panicked' = panicked
           /\ pc'.at \notin Masked
<1> DEFINE n == Len(trapped)
<1>1. pc.at = "mret"
  BY DEF Mret
<1>2. n \in Nat /\ n = Len(frames) + 1 /\ Len(frames) \in Nat
  BY <1>1 DEF IInv, TypeOK, ContextInHart
<1>3. gpr = trapped[n].gpr /\ mstatus.mpie = trapped[n].mie /\ mepc = trapped[n].pc
  BY <1>1 DEF IInv, ContextInHart
<1>4. n \in 1 .. n
  BY <1>2
<1>5. trapped[n] \in Contexts /\ trapped[n].pc.at \notin Masked
  BY <1>4 DEF IInv, TypeOK, MaskedWhenFragile
<1> QED
  BY <1>2, <1>3, <1>5 DEF Mret

LEMMA MretInv == ASSUME IInv, Mret PROVE IInv'
<1> DEFINE n == Len(trapped)
           t == trapped[n]
<1>1. /\ n \in Nat /\ n # 0 /\ Len(frames) = n - 1 /\ t \in Contexts
      /\ pc' = t.pc /\ gpr' = t.gpr /\ mstatus' = [mie |-> t.mie, mpie |-> TRUE]
      /\ trapped' = Front(trapped) /\ frames' = frames /\ panicked' = panicked
      /\ pc'.at \notin Masked
  BY MretFacts
<1>2. /\ trapped' \in Seq(Contexts) /\ Len(trapped') = n - 1
      /\ \A i \in 1 .. n - 1 : trapped'[i] = trapped[i]
  BY <1>1, FrontFacts DEF IInv, TypeOK
<1>3. TypeOK'
  <2>1. pc' \in Addresses /\ gpr' \in Values /\ mstatus' \in Statuses
    BY <1>1 DEF Contexts, Statuses
  <2> QED
    BY <2>1, <1>1, <1>2 DEF Mret, IInv, TypeOK
<1>4. \A i \in 0 .. n - 1 : Place(i)' = Place(i)
  <2>1. ASSUME NEW i \in 0 .. n - 1, i = n - 1
        PROVE  Place(i)' = Place(i)
    <3>1. Place(i) = t.pc.at
      BY <2>1, <1>1 DEF Place
    <3>2. Place(i)' = pc'.at
      BY <2>1, <1>2 DEF Place
    <3> QED
      BY <3>1, <3>2, <1>1
  <2>2. ASSUME NEW i \in 0 .. n - 1, i # n - 1
        PROVE  Place(i)' = Place(i)
    <3>1. i + 1 \in 1 .. n - 1 /\ i # n
      BY <2>2, <1>1
    <3> QED
      BY <2>2, <3>1, <1>2 DEF Place
  <2> QED
    BY <2>1, <2>2
<1>5. MaskedWhenFragile'
  <2>1. \A i \in 1 .. n - 1 : trapped'[i].pc.at \notin Masked
    BY <1>1, <1>2 DEF IInv, MaskedWhenFragile
  <2> QED
    BY <2>1, <1>1, <1>2 DEF MaskedWhenFragile
<1>6. ContextInHart'
  BY <1>1 DEF ContextInHart, Masked
<1>7. ContextInFrame'
  <2>1. ASSUME NEW i \in 1 .. n - 1
        PROVE  FrameAgrees(frames'[i], trapped'[i], Place(i)')
    <3>1. FrameAgrees(frames[i], trapped[i], Place(i))
      BY <1>1, InvParts
    <3> QED
      BY <3>1, <1>1, <1>2, <1>4
  <2> QED
    BY <2>1, <1>1, <1>2 DEF ContextInFrame, FrameAgrees, Masked
<1>8. HandlerIsForCause'
  <2>1. Place(0)' = Place(0) /\ \A i \in 1 .. n - 1 : Place(i)' = Place(i)
    BY <1>1, <1>4
  <2> QED
    BY <2>1, <1>1 DEF IInv, HandlerIsForCause
<1> QED
  BY <1>3, <1>5, <1>6, <1>7, <1>8 DEF IInv

LEMMA NextInv == IInv /\ [Next]_vars => IInv'
<1> SUFFICES ASSUME IInv, [Next]_vars
             PROVE  IInv'
  OBVIOUS
<1>1. CASE UNCHANGED vars
  BY <1>1, StutterInv
<1>2. CASE Enter
  BY <1>2, SaveInv, CallHandlerInv, PanicInv DEF Enter
<1>3. CASE Leave
  BY <1>3, ReturnInv, SkipInv, RestoreCauseInv, RestoreStatusInv, RestoreEpcInv,
     RestoreGprsInv, MretInv DEF Leave
<1>4. CASE Leaving
  BY <1>4, TestThreadInv, CallbackReturnsInv, ReportInv DEF Leaving
<1> QED
  BY <1>1, <1>2, <1>3, <1>4, StepInv, SetInterruptsInv, SetIrqInv, SetHandlerInv, ExitInv,
     TakeInterruptInv, TakeExceptionInv DEF Next, Library

(* The context of every trap under way is complete and in one place, in the
   hart or in its frame, interrupts are off wherever a trap would overwrite
   it, and each handler runs for a cause of its slot: for any nesting and any
   code. *)
THEOREM TrapInvariant == Spec => []IInv
  BY InitInv, NextInv, PTL DEF Spec

-----------------------------------------------------------------------------
(* Only mret ends a trap. *)
LEMMA ShrinksAtMret ==
    ASSUME IInv, Next, Len(trapped') < Len(trapped)
    PROVE  Mret
<1>1. Len(trapped) \in Nat
  BY DEF IInv, TypeOK
<1>2. trapped' # trapped
  BY <1>1
<1>3. ASSUME NEW c \in Causes, NEW p, TakeTrap(c, p)
      PROVE  FALSE
  <2>1. Len(trapped') = Len(trapped) + 1
    BY <1>3 DEF TakeTrap, IInv, TypeOK
  <2> QED
    BY <2>1, <1>1
<1>4. ~Enter
  BY <1>2 DEF Enter, Save, CallHandler, Panic, ghosts
<1>5. Leave => Mret
  BY <1>2 DEF Leave, Return, Skip, RestoreCause, RestoreStatus, RestoreEpc, RestoreGprs, ghosts
<1>6. ~Leaving
  BY <1>2 DEF Leaving, TestThread, CallbackReturns, Report, ghosts
<1>7. \A c \in Causes : ~TakeInterrupt(c) /\ ~TakeException(c)
  BY <1>3 DEF TakeInterrupt, TakeException
<1> QED
  BY <1>2, <1>4, <1>5, <1>6, <1>7
     DEF Next, Library, Step, SetInterrupts, SetIrq, SetHandler, Exit, ghosts, Causes

(* A trap whose handler returns is transparent, at any depth of nesting and
   with any code of the application and its handlers: the interrupted code
   goes on with its registers and interrupt enable, at its pc or 4 bytes
   further. *)
THEOREM TrapResumes == Spec => Resumes
<1> DEFINE t == trapped[Len(trapped)]
           R == Len(trapped') < Len(trapped) =>
                  /\ trapped' = Front(trapped)
                  /\ pc' = t.pc /\ gpr' = t.gpr /\ mstatus'.mie = t.mie
<1>1. ASSUME IInv, Next
      PROVE  R
  BY <1>1, ShrinksAtMret, MretFacts
<1>2. IInv /\ [Next]_vars => [R]_vars
  BY <1>1
<1> QED
  BY <1>2, TrapInvariant, PTL DEF Spec, Resumes

-----------------------------------------------------------------------------
(* The exit.  Of each level of nesting that has called exit(), the register
   with the status: the application's at the outermost one, EXIT_FAILURE at
   the others, which got there by a panic and stay there. *)
Telling == {"exit", "callback", "tohost"}
Gpr(i) == IF i = Len(trapped) THEN gpr ELSE trapped[i + 1].gpr
StatusKept == \A i \in 0 .. Len(trapped) :
                Place(i) \in Telling => Gpr(i) = IF i = 0 THEN asked ELSE 1
PanicStays == panicked => \E i \in 1 .. Len(trapped) : Place(i) \in Exiting
StatusInv == IInv /\ StatusKept /\ PanicStays

(* A step within the code of one level *)
LEMMA MoveExit ==
    ASSUME IInv, StatusKept, PanicStays, trapped' = trapped,
           asked' = asked \/ Len(trapped) = 0,
           pc'.at \in Telling => gpr' = IF Len(trapped) = 0 THEN asked' ELSE 1,
           pc.at \in Exiting => pc'.at \in Exiting,
           panicked' => panicked \/ (pc'.at \in Exiting /\ Len(trapped) # 0)
    PROVE  StatusKept' /\ PanicStays'
<1>1. Len(trapped) \in Nat
  BY DEF IInv, TypeOK
<1>2. ASSUME NEW i \in 0 .. Len(trapped)
      PROVE  /\ i = Len(trapped) => /\ Place(i) = pc.at /\ Place(i)' = pc'.at
                                    /\ Gpr(i)' = gpr'
             /\ i # Len(trapped) => Place(i)' = Place(i) /\ Gpr(i)' = Gpr(i)
  BY DEF Place, Gpr
<1>3. StatusKept'
  <2>1. ASSUME NEW i \in 0 .. Len(trapped), Place(i)' \in Telling
        PROVE  Gpr(i)' = IF i = 0 THEN asked' ELSE 1
    <3>1. CASE i = Len(trapped)
      BY <2>1, <3>1, <1>2
    <3>2. CASE i # Len(trapped)
      BY <2>1, <3>2, <1>1, <1>2 DEF StatusKept
    <3> QED
      BY <3>1, <3>2
  <2> QED
    BY <2>1 DEF StatusKept
<1>4. PanicStays'
  <2>1. CASE panicked
    <3>1. PICK i \in 1 .. Len(trapped) : Place(i) \in Exiting
      BY <2>1 DEF PanicStays
    <3>2. i \in 0 .. Len(trapped)
      BY <3>1, <1>1
    <3>3. Place(i)' \in Exiting
      BY <3>1, <3>2, <1>2
    <3> QED
      BY <3>3 DEF PanicStays
  <2>2. CASE panicked' /\ ~panicked
    <3>1. Len(trapped) # 0 /\ pc'.at \in Exiting
      BY <2>2
    <3>2. ASSUME NEW i \in 1 .. Len(trapped), i = Len(trapped)
          PROVE  Place(i)' \in Exiting
      BY <3>1, <3>2, <1>1, <1>2
    <3>3. Len(trapped) \in 1 .. Len(trapped)
      BY <3>1, <1>1
    <3>4. \E i \in 1 .. Len(trapped) : Place(i)' \in Exiting
      BY <3>2, <3>3
    <3> QED
      BY <3>4 DEF PanicStays
  <2> QED
    BY <2>1, <2>2 DEF PanicStays
<1> QED
  BY <1>3, <1>4

(* A level is entered, and left. *)
LEMMA TakeTrapExit ==
    ASSUME IInv, StatusKept, PanicStays, NEW cause \in Causes, NEW next \in Addresses,
           TakeTrap(cause, next), next.at = pc.at
    PROVE  StatusKept' /\ PanicStays'
<1> DEFINE c == [pc |-> next, gpr |-> gpr, mie |-> mstatus.mie]
<1>1. Len(trapped) \in Nat /\ c \in Contexts
  BY DEF IInv, TypeOK, Contexts, Statuses
<1>2. trapped' = Append(trapped, c) /\ pc'.at = "entry" /\ asked' = asked /\ panicked' = panicked
  BY AtFacts DEF TakeTrap
<1>3. /\ Len(trapped') = Len(trapped) + 1 /\ trapped'[Len(trapped) + 1] = c
      /\ \A i \in 1 .. Len(trapped) : trapped'[i] = trapped[i]
  BY <1>1, <1>2, AppendFacts DEF IInv, TypeOK
<1>4. ASSUME NEW i \in 0 .. Len(trapped)
      PROVE  Place(i)' = Place(i) /\ Gpr(i)' = Gpr(i)
  <2>1. i # Len(trapped')
    BY <1>1, <1>3
  <2>2. CASE i = Len(trapped)
    <3>1. trapped'[i + 1].pc = next /\ trapped'[i + 1].gpr = gpr
      BY <2>2, <1>3
    <3> QED
      BY <2>1, <2>2, <3>1 DEF Place, Gpr
  <2>3. CASE i # Len(trapped)
    <3>1. i + 1 \in 1 .. Len(trapped)
      BY <2>3, <1>1
    <3>2. trapped'[i + 1] = trapped[i + 1]
      BY <3>1, <1>3
    <3> QED
      BY <2>1, <2>3, <3>2 DEF Place, Gpr
  <2> QED
    BY <2>2, <2>3
<1>5. ASSUME NEW i, i = Len(trapped')
      PROVE  Place(i)' \notin Telling
  BY <1>2, <1>5 DEF Place, Telling
<1>6. StatusKept'
  <2>1. ASSUME NEW i \in 0 .. Len(trapped'), Place(i)' \in Telling
        PROVE  Gpr(i)' = IF i = 0 THEN asked' ELSE 1
    <3>1. i \in 0 .. Len(trapped)
      BY <2>1, <1>1, <1>3, <1>5
    <3> QED
      BY <2>1, <3>1, <1>2, <1>4 DEF StatusKept
  <2> QED
    BY <2>1 DEF StatusKept
<1>7. PanicStays'
  <2>1. ASSUME panicked
        PROVE  \E i \in 1 .. Len(trapped') : Place(i)' \in Exiting
    <3>1. PICK i \in 1 .. Len(trapped) : Place(i) \in Exiting
      BY <2>1 DEF PanicStays
    <3>2. i \in 0 .. Len(trapped) /\ i \in 1 .. Len(trapped')
      BY <3>1, <1>1, <1>3
    <3> QED
      BY <3>1, <3>2, <1>4
  <2> QED
    BY <2>1, <1>2 DEF PanicStays
<1> QED
  BY <1>6, <1>7

LEMMA MretExit ==
    ASSUME IInv, StatusKept, PanicStays, Mret
    PROVE  StatusKept' /\ PanicStays'
<1> DEFINE t == trapped[Len(trapped)]
<1>1. /\ Len(trapped) \in Nat /\ Len(trapped) # 0
      /\ pc' = t.pc /\ gpr' = t.gpr /\ trapped' = Front(trapped)
      /\ asked' = asked /\ panicked' = panicked /\ pc.at = "mret"
  BY MretFacts DEF Mret
<1>2. /\ Len(trapped') = Len(trapped) - 1
      /\ \A i \in 1 .. Len(trapped) - 1 : trapped'[i] = trapped[i]
  BY <1>1, FrontFacts DEF IInv, TypeOK
<1>3. ASSUME NEW i \in 0 .. Len(trapped) - 1
      PROVE  Place(i)' = Place(i) /\ Gpr(i)' = Gpr(i)
  <2>1. i # Len(trapped)
    BY <1>1
  <2>2. CASE i = Len(trapped) - 1
    <3>1. Place(i) = t.pc.at /\ Gpr(i) = t.gpr
      BY <2>1, <2>2, <1>1 DEF Place, Gpr
    <3>2. Place(i)' = pc'.at /\ Gpr(i)' = gpr'
      BY <2>2, <1>2 DEF Place, Gpr
    <3> QED
      BY <3>1, <3>2, <1>1
  <2>3. CASE i # Len(trapped) - 1
    <3>1. i + 1 \in 1 .. Len(trapped) - 1
      BY <2>3, <1>1
    <3>2. trapped'[i + 1] = trapped[i + 1]
      BY <3>1, <1>2
    <3> QED
      BY <2>1, <2>3, <3>2, <1>2 DEF Place, Gpr
  <2> QED
    BY <2>2, <2>3
<1>4. StatusKept'
  <2>1. ASSUME NEW i \in 0 .. Len(trapped'), Place(i)' \in Telling
        PROVE  Gpr(i)' = IF i = 0 THEN asked' ELSE 1
    <3>1. i \in 0 .. Len(trapped) - 1 /\ i \in 0 .. Len(trapped)
      BY <2>1, <1>1, <1>2
    <3> QED
      BY <2>1, <3>1, <1>1, <1>3 DEF StatusKept
  <2> QED
    BY <2>1 DEF StatusKept
<1>5. PanicStays'
  <2>1. ASSUME panicked
        PROVE  \E i \in 1 .. Len(trapped') : Place(i)' \in Exiting
    <3>1. PICK i \in 1 .. Len(trapped) : Place(i) \in Exiting
      BY <2>1 DEF PanicStays
    <3>2. i # Len(trapped)
      BY <3>1, <1>1 DEF Place, Exiting
    <3>3. i \in 0 .. Len(trapped) - 1 /\ i \in 1 .. Len(trapped')
      BY <3>1, <3>2, <1>1, <1>2
    <3> QED
      BY <3>1, <3>3, <1>3
  <2> QED
    BY <2>1, <1>1 DEF PanicStays
<1> QED
  BY <1>4, <1>5

(* What the innermost level has to say *)
LEMMA InnermostStatus ==
    ASSUME IInv, StatusKept, pc.at \in Telling
    PROVE  gpr = IF Len(trapped) = 0 THEN asked ELSE 1
<1>1. Len(trapped) \in 0 .. Len(trapped)
  BY DEF IInv, TypeOK
<1>2. Place(Len(trapped)) = pc.at /\ Gpr(Len(trapped)) = gpr
  BY DEF Place, Gpr
<1> QED
  BY <1>1, <1>2 DEF StatusKept

LEMMA StatusInvariant == Spec => []StatusInv
<1>1. Init => StatusKept /\ PanicStays
  BY AtFacts DEF Init, StatusKept, PanicStays, Telling, Place
<1>2. ASSUME StatusInv, Next
      PROVE  StatusKept' /\ PanicStays'
  <2> USE <1>2 DEF StatusInv
  <2>1. ASSUME Enter
        PROVE  StatusKept' /\ PanicStays'
    <3>1. CASE Save
      BY <3>1, MoveExit, AtFacts DEF Save, ghosts, Telling, Exiting
    <3>2. CASE CallHandler
      BY <3>2, MoveExit, AtFacts, SlotsApart DEF CallHandler, IInv, TypeOK, ghosts, Telling, Exiting
    <3>3. CASE Panic
      <4>1. pc.at = "dispatch" /\ Len(trapped) # 0
        BY <3>3, TopFacts DEF Panic, Exiting
      <4> QED
        BY <3>3, <4>1, MoveExit, AtFacts DEF Panic, ghosts, Telling, Exiting
    <3> QED
      BY <2>1, <3>1, <3>2, <3>3 DEF Enter
  <2>2. ASSUME Leave
        PROVE  StatusKept' /\ PanicStays'
    <3>1. CASE Return
      BY <3>1, MoveExit, AtFacts, SlotsApart DEF Return, ghosts, Telling, Exiting
    <3>2. CASE Skip
      BY <3>2, MoveExit, AtFacts DEF Skip, ghosts, Telling, Exiting
    <3>3. CASE RestoreCause \/ RestoreStatus
      BY <3>3, MoveExit, AtFacts DEF RestoreCause, RestoreStatus, ghosts, Telling, Exiting
    <3>4. CASE RestoreEpc \/ RestoreGprs
      BY <3>4, MoveExit, AtFacts DEF RestoreEpc, RestoreGprs, ghosts, Telling, Exiting
    <3> QED
      BY <2>2, <3>1, <3>2, <3>3, <3>4, MretExit DEF Leave
  <2>3. ASSUME Leaving
        PROVE  StatusKept' /\ PanicStays'
    <3>1. pc.at \in Telling /\ gpr' = gpr /\ pc'.at \in Exiting
      BY <2>3, AtFacts DEF Leaving, TestThread, CallbackReturns, Report, Telling, Exiting
    <3>2. trapped' = trapped /\ asked' = asked /\ panicked' = panicked
      BY <2>3 DEF Leaving, TestThread, CallbackReturns, Report, ghosts
    <3>3. gpr = IF Len(trapped) = 0 THEN asked ELSE 1
      BY <3>1, InnermostStatus
    <3> QED
      BY <3>1, <3>2, <3>3, MoveExit
  <2>4. CASE Step
    <3>1. pc.at \in User /\ pc'.at = pc.at /\ UNCHANGED ghosts
      BY <2>4 DEF Step, Plus
    <3>2. ASSUME pc'.at \in Telling
          PROVE  gpr' = IF Len(trapped) = 0 THEN asked ELSE 1
      <4>1. pc.at = "callback"
        BY <3>1, <3>2, SlotsApart DEF User, Telling, Exiting
      <4>2. gpr' = gpr
        BY <2>4, <4>1 DEF Step
      <4> QED
        BY <4>1, <4>2, InnermostStatus DEF Telling
    <3> QED
      BY <3>1, <3>2, MoveExit DEF ghosts
  <2>5. ASSUME UNCHANGED <<pc, gpr, ghosts>>
        PROVE  StatusKept' /\ PanicStays'
    BY <2>5, MoveExit, InnermostStatus DEF ghosts
  <2>6. ASSUME NEW status \in Values, Exit(status)
        PROVE  StatusKept' /\ PanicStays'
    <3>1. Len(trapped) = 0
      BY <2>6, TopFacts DEF Exit, PlaceAgrees
    <3> QED
      BY <2>6, <3>1, MoveExit, AtFacts DEF Exit, Exiting
  <2>7. ASSUME NEW c \in Interrupts, TakeInterrupt(c)
        PROVE  StatusKept' /\ PanicStays'
    BY <2>7, TakeTrapExit DEF TakeInterrupt, Causes, IInv, TypeOK
  <2>8. ASSUME NEW c \in Exceptions, TakeException(c)
        PROVE  StatusKept' /\ PanicStays'
    BY <2>8, TakeTrapExit, PlusFacts DEF TakeException, Causes, IInv, TypeOK
  <2> QED
    BY <1>2, <2>1, <2>2, <2>3, <2>4, <2>5, <2>6, <2>7, <2>8
       DEF Next, Library, SetInterrupts, SetIrq, SetHandler
<1>3. StatusInv /\ UNCHANGED vars => StatusKept' /\ PanicStays'
  BY DEF StatusInv, vars, ghosts, StatusKept, PanicStays, Place, Gpr
<1>4. StatusInv /\ [Next]_vars => StatusInv'
  BY <1>2, <1>3, NextInv DEF StatusInv
<1> QED
  BY <1>1, <1>4, InitInv, PTL DEF Spec, StatusInv

(* What is reported is EXIT_FAILURE after a panic, at any depth of nesting,
   and otherwise the status the application passed to exit(), whatever traps
   are taken during the exit. *)
THEOREM TrapReports == Spec => ReportIsHonest
<1> DEFINE R == tohost' # tohost => tohost' = IF panicked THEN 1 ELSE asked
<1>1. ASSUME StatusInv, Next
      PROVE  R
  <2>1. CASE Report
    <3>1. pc.at = "tohost" /\ tohost' = gpr
      BY <2>1 DEF Report
    <3>2. gpr = IF Len(trapped) = 0 THEN asked ELSE 1
      BY <1>1, <3>1, InnermostStatus DEF StatusInv, Telling
    <3>3. Len(trapped) \in Nat
      BY <1>1 DEF StatusInv, IInv, TypeOK
    <3>4. CASE Len(trapped) = 0
      BY <1>1, <3>1, <3>2, <3>4 DEF StatusInv, PanicStays
    <3>5. CASE Len(trapped) # 0
      BY <1>1, <3>1, <3>2, <3>5, TopFacts DEF StatusInv, PlaceAgrees, Exiting
    <3> QED
      BY <3>4, <3>5
  <2>2. CASE ~Report
    <3>1. UNCHANGED tohost
      BY <1>1, <2>2
         DEF Next, Library, Enter, Leave, Leaving, Step, SetInterrupts, SetIrq, SetHandler, Exit,
             TakeInterrupt, TakeException, TakeTrap, Save, CallHandler, Panic, Return, Skip,
             RestoreCause, RestoreStatus, RestoreEpc, RestoreGprs, Mret, TestThread, CallbackReturns
    <3> QED
      BY <3>1
  <2> QED
    BY <2>1, <2>2
<1>2. StatusInv /\ [Next]_vars => [R]_vars
  BY <1>1
<1> QED
  BY <1>2, StatusInvariant, PTL DEF Spec, ReportIsHonest
=============================================================================
