------------------------- MODULE TicketMutexProofs -------------------------
(***************************************************************************)
(* Proofs about TicketMutex, for any finite set of cores and any number of *)
(* ticket values that is not smaller than the number of cores.             *)
(***************************************************************************)
EXTENDS TicketMutex, FiniteSetTheorems, SequenceTheorems, TLAPS

(* Succ adds one and wraps to zero after the last ticket. *)
LEMMA SuccWraps ==
    ASSUME NEW x \in 0 .. TICKETS - 1
    PROVE  /\ Succ(x) = IF x + 1 < TICKETS THEN x + 1 ELSE 0
           /\ Succ(x) \in 0 .. TICKETS - 1
<1>1. TICKETS \in Nat \ {0}
  BY TicketsAssumption
<1>2. CASE x + 1 < TICKETS
  BY <1>1, <1>2, SMTT(30) DEF Succ
<1>3. CASE x + 1 = TICKETS
  BY <1>1, <1>3, SMTT(30) DEF Succ
<1> QED
  BY <1>1, <1>2, <1>3

(* There are never more active cores than ticket values, and strictly fewer
   when some core is not active. *)
LEMMA ActiveBound ==
    /\ IsFiniteSet(Active)
    /\ Cardinality(Active) \in 0 .. TICKETS
    /\ \A c \in Cores \ Active : Cardinality(Active) < TICKETS
<1>1. IsFiniteSet(Cores) /\ Cardinality(Cores) <= TICKETS /\ TICKETS \in Nat
  BY TicketsAssumption
<1>2. Active \in SUBSET Cores
  BY DEF Active
<1>3. IsFiniteSet(Active) /\ Cardinality(Active) <= Cardinality(Cores)
  BY <1>1, <1>2, FS_Subset
<1>4. Cardinality(Active) \in Nat /\ Cardinality(Cores) \in Nat
  BY <1>1, <1>3, FS_CardinalityType
<1>5. ASSUME NEW c \in Cores \ Active
      PROVE  Cardinality(Active) < TICKETS
  <2>1. Cardinality(Active) # Cardinality(Cores)
    BY <1>1, <1>2, FS_Subset
  <2> QED
    BY <2>1, <1>1, <1>3, <1>4
<1> QED
  BY <1>1, <1>3, <1>4, <1>5

LEMMA InitIInv == Init => IInv
<1> SUFFICES ASSUME Init PROVE IInv
  OBVIOUS
<1>1. TICKETS \in Nat \ {0}
  BY TicketsAssumption
<1>2. Active = {}
  BY DEF Init, Active
<1>3. Cardinality(Active) = 0
  BY <1>2, FS_EmptySet
<1> QED
  BY <1>1, <1>2, <1>3 DEF Init, IInv, TypeOK, TicketsInUse, HolderIsServed

(* Drawing a ticket extends the run of tickets in use by one. *)
LEMMA LockIInv == ASSUME IInv, NEW c \in Cores, Lock(c)
                  PROVE  IInv'
<1> DEFINE n == Cardinality(Active)
<1>1. TICKETS \in Nat \ {0}
  BY TicketsAssumption
<1>2. TypeOK'
  BY SuccWraps, <1>1 DEF IInv, TypeOK, Lock
<1>3. c \notin Active /\ Active' = Active \cup {c}
  BY DEF Lock, Active, IInv, TypeOK
<1>4. n \in Nat /\ n < TICKETS /\ n + 1 = Cardinality(Active')
  <2>1. n \in Nat /\ n < TICKETS
    BY <1>3, ActiveBound
  <2>2. Cardinality(Active \cup {c}) = n + 1
    BY <1>3, ActiveBound, FS_AddElement
  <2> QED
    BY <2>1, <2>2, <1>3
<1>5. /\ curr' = curr /\ ticket'[c] = next /\ next' = Succ(next)
      /\ \A d \in Active : ticket'[d] = ticket[d] /\ ticket[d] \in 0 .. TICKETS - 1
      /\ curr \in 0 .. TICKETS - 1 /\ next \in 0 .. TICKETS - 1
  BY <1>3 DEF Lock, IInv, TypeOK, Active
<1>6. next = IF curr + n < TICKETS THEN curr + n ELSE curr + n - TICKETS
  BY DEF IInv, TicketsInUse
<1>7. \A d \in Active : Offset(d)' = Offset(d) /\ Offset(d) < n
  BY <1>5 DEF IInv, TicketsInUse, Offset
<1>8. Offset(c)' = n
  BY <1>1, <1>4, <1>5, <1>6 DEF Offset
<1>9. \A d \in Active : ticket'[d] # ticket'[c]
  BY <1>1, <1>4, <1>5, <1>7, <1>8 DEF Offset
<1>10. TicketsInUse'
  <2>1. \A d \in Active' : Offset(d)' < n + 1
    <3> SUFFICES ASSUME NEW d \in Active' PROVE Offset(d)' < n + 1
      OBVIOUS
    <3>1. CASE d = c
      BY <3>1, <1>8, <1>4
    <3>2. CASE d \in Active
      <4>1. Offset(d) \in Int
        BY <3>2, <1>1, <1>5 DEF Offset
      <4> QED
        BY <4>1, <3>2, <1>7, <1>4
    <3> QED
      BY <3>1, <3>2, <1>3
  <2>2. \A d, e \in Active' : ticket'[d] = ticket'[e] => d = e
    BY <1>3, <1>5, <1>9 DEF IInv, TicketsInUse
  <2>3. next' = IF curr' + (n + 1) < TICKETS
                THEN curr' + (n + 1) ELSE curr' + (n + 1) - TICKETS
    BY <1>1, <1>4, <1>5, <1>6, SuccWraps
  <2> QED
    BY <2>1, <2>2, <2>3, <1>4 DEF TicketsInUse
<1>11. HolderIsServed'
  BY DEF IInv, TypeOK, HolderIsServed, Lock
<1> QED
  BY <1>2, <1>10, <1>11 DEF IInv

(* Entering changes no ticket. *)
LEMMA EnterIInv == ASSUME IInv, NEW c \in Cores, Enter(c)
                   PROVE  IInv'
<1>1. TypeOK'
  BY DEF IInv, TypeOK, Enter
<1>2. Active' = Active
  BY DEF Active, Enter, IInv, TypeOK
<1>3. TicketsInUse'
  BY <1>2 DEF IInv, TicketsInUse, Enter, Offset
<1>4. HolderIsServed'
  BY DEF IInv, TypeOK, HolderIsServed, Enter
<1> QED
  BY <1>1, <1>3, <1>4 DEF IInv

(* Serving the next ticket moves every core in the queue one place up. *)
LEMMA UnlockIInv == ASSUME IInv, NEW c \in Cores, Unlock(c)
                    PROVE  IInv'
<1> DEFINE n == Cardinality(Active)
<1>1. TICKETS \in Nat \ {0}
  BY TicketsAssumption
<1>2. TypeOK'
  BY SuccWraps, <1>1 DEF IInv, TypeOK, Unlock
<1>3. c \in Active /\ Active' = Active \ {c}
  BY DEF Unlock, Active, IInv, TypeOK
<1>4. n \in 1 .. TICKETS /\ Cardinality(Active') = n - 1
  <2>1. n \in 0 .. TICKETS /\ Cardinality(Active \ {c}) = n - 1
    BY <1>3, ActiveBound, FS_RemoveElement
  <2>2. n # 0
    BY <1>3, ActiveBound, FS_EmptySet
  <2> QED
    BY <2>1, <2>2, <1>1, <1>3
<1>5. /\ curr' = Succ(curr) /\ next' = next /\ ticket' = ticket
      /\ ticket[c] = curr
      /\ \A d \in Active : ticket[d] \in 0 .. TICKETS - 1
      /\ curr \in 0 .. TICKETS - 1 /\ next \in 0 .. TICKETS - 1
  BY <1>3 DEF Unlock, IInv, TypeOK, Active, HolderIsServed
<1>6. curr' = IF curr + 1 < TICKETS THEN curr + 1 ELSE 0
  BY <1>5, SuccWraps
<1>7. next = IF curr + n < TICKETS THEN curr + n ELSE curr + n - TICKETS
  BY DEF IInv, TicketsInUse
<1>8. \A d \in Active' : ticket[d] # curr
  BY <1>3, <1>5 DEF IInv, TicketsInUse
<1>9. \A d \in Active' : Offset(d)' < n - 1
  <2> SUFFICES ASSUME NEW d \in Active' PROVE Offset(d)' < n - 1
    OBVIOUS
  <2>1. Offset(d) < n /\ ticket[d] \in 0 .. TICKETS - 1 /\ ticket[d] # curr
    BY <1>3, <1>5, <1>8 DEF IInv, TicketsInUse
  <2>2. Offset(d)' = Offset(d) - 1
    BY <2>1, <1>1, <1>5, <1>6 DEF Offset
  <2>3. Offset(d) \in Int
    BY <2>1, <1>1, <1>5 DEF Offset
  <2> QED
    BY <2>1, <2>2, <2>3, <1>4
<1>10. \A d, e \in Active' : ticket'[d] = ticket'[e] => d = e
  BY <1>3, <1>5 DEF IInv, TicketsInUse
<1>11. next' = IF curr' + (n - 1) < TICKETS
               THEN curr' + (n - 1) ELSE curr' + (n - 1) - TICKETS
  BY <1>1, <1>4, <1>5, <1>6, <1>7
<1>12. TicketsInUse'
  BY <1>4, <1>9, <1>10, <1>11 DEF TicketsInUse
<1>13. HolderIsServed'
  <2> SUFFICES ASSUME NEW d \in Cores, pc'[d] = "cs" PROVE FALSE
    BY DEF HolderIsServed
  <2>1. d # c /\ pc[d] = "cs"
    BY DEF Unlock, IInv, TypeOK
  <2>2. d \in Active /\ ticket[d] = curr
    BY <2>1 DEF Active, IInv, HolderIsServed
  <2> QED
    BY <2>1, <2>2, <1>3, <1>8
<1> QED
  BY <1>2, <1>12, <1>13 DEF IInv

LEMMA NextIInv == IInv /\ [Next]_vars => IInv'
<1> SUFFICES ASSUME IInv, [Next]_vars PROVE IInv'
  OBVIOUS
<1>1. CASE Next
  BY <1>1, LockIInv, EnterIInv, UnlockIInv DEF Next
<1>2. CASE UNCHANGED vars
  BY <1>2 DEF vars, IInv, TypeOK, TicketsInUse, HolderIsServed, Active, Offset
<1> QED
  BY <1>1, <1>2

(* The tickets in use are always consecutive, distinct and start with the
   holder's: the inductive invariant of the ticket lock. *)
THEOREM TicketInvariant == Spec => []IInv
BY InitIInv, NextIInv, PTL DEF Spec

(* Two cores never hold the ticket mutex together, however many times the
   counters wrap. *)
THEOREM TicketMutualExclusion == Spec => []MutualExclusion
<1>1. IInv => MutualExclusion
  BY DEF IInv, TicketsInUse, HolderIsServed, MutualExclusion, Active
<1> QED
  BY <1>1, TicketInvariant, PTL

-----------------------------------------------------------------------------
(* The tickets in use are consecutive: each place of the queue is taken. *)
LEMMA CoverInit == Init => TicketsCover
<1> SUFFICES ASSUME Init PROVE TicketsCover
  OBVIOUS
<1>1. Active = {}
  BY DEF Init, Active
<1>2. Cardinality(Active) = 0
  BY <1>1, FS_EmptySet
<1> QED
  BY <1>2 DEF TicketsCover

(* What a step does to the active cores and to their places. *)
LEMMA LockPlaces ==
    ASSUME IInv, NEW c \in Cores, Lock(c)
    PROVE  /\ c \notin Active /\ Active' = Active \cup {c}
           /\ Cardinality(Active) \in Nat /\ Cardinality(Active') = Cardinality(Active) + 1
           /\ \A d \in Active : Offset(d)' = Offset(d)
           /\ Offset(c)' = Cardinality(Active)
<1> DEFINE n == Cardinality(Active)
<1>1. TICKETS \in Nat \ {0}
  BY TicketsAssumption
<1>2. c \notin Active /\ Active' = Active \cup {c}
  BY DEF Lock, Active, IInv, TypeOK
<1>3. n \in Nat /\ n < TICKETS
  BY <1>2, ActiveBound
<1>4. Cardinality(Active \cup {c}) = n + 1
  BY <1>2, ActiveBound, FS_AddElement
<1>5. /\ curr' = curr /\ ticket'[c] = next
      /\ \A d \in Active : ticket'[d] = ticket[d]
      /\ curr \in 0 .. TICKETS - 1 /\ next \in 0 .. TICKETS - 1
  BY <1>2 DEF Lock, IInv, TypeOK, Active
<1>6. next = IF curr + n < TICKETS THEN curr + n ELSE curr + n - TICKETS
  BY DEF IInv, TicketsInUse
<1>7. \A d \in Active : Offset(d)' = Offset(d)
  BY <1>5 DEF Offset
<1>8. Offset(c)' = n
  BY <1>1, <1>3, <1>5, <1>6 DEF Offset
<1> QED
  BY <1>2, <1>3, <1>4, <1>7, <1>8

LEMMA UnlockPlaces ==
    ASSUME IInv, NEW c \in Cores, Unlock(c)
    PROVE  /\ c \in Active /\ Active' = Active \ {c} /\ Offset(c) = 0
           /\ Cardinality(Active) \in Nat \ {0} /\ Cardinality(Active') = Cardinality(Active) - 1
           /\ \A d \in Active' : Offset(d)' = Offset(d) - 1
<1> DEFINE n == Cardinality(Active)
<1>1. TICKETS \in Nat \ {0}
  BY TicketsAssumption
<1>2. c \in Active /\ Active' = Active \ {c}
  BY DEF Unlock, Active, IInv, TypeOK
<1>3. n \in Nat \ {0} /\ Cardinality(Active') = n - 1
  <2>1. n \in 0 .. TICKETS /\ Cardinality(Active \ {c}) = n - 1
    BY <1>2, ActiveBound, FS_RemoveElement
  <2>2. n # 0
    BY <1>2, ActiveBound, FS_EmptySet
  <2> QED
    BY <2>1, <2>2, <1>1, <1>2
<1>4. /\ curr' = Succ(curr) /\ ticket' = ticket /\ ticket[c] = curr
      /\ \A d \in Active : ticket[d] \in 0 .. TICKETS - 1
      /\ curr \in 0 .. TICKETS - 1
  BY <1>2 DEF Unlock, IInv, TypeOK, Active, HolderIsServed
<1>5. curr' = IF curr + 1 < TICKETS THEN curr + 1 ELSE 0
  BY <1>4, SuccWraps
<1>6. Offset(c) = 0
  BY <1>1, <1>4 DEF Offset
<1>7. \A d \in Active' : ticket[d] # curr /\ ticket[d] \in 0 .. TICKETS - 1
  BY <1>2, <1>4 DEF IInv, TicketsInUse
<1>8. \A d \in Active' : Offset(d)' = Offset(d) - 1
  BY <1>1, <1>4, <1>5, <1>7 DEF Offset
<1> QED
  BY <1>2, <1>3, <1>6, <1>8

LEMMA EnterPlaces ==
    ASSUME IInv, NEW c \in Cores, Enter(c)
    PROVE  /\ c \in Active /\ Active' = Active /\ Offset(c) = 0
           /\ \A d \in Active : Offset(d)' = Offset(d)
<1>1. Active' = Active /\ c \in Active
  BY DEF Active, Enter, IInv, TypeOK
<1>2. Offset(c) = 0
  <2>1. ticket[c] = curr /\ curr \in Int
    BY TicketsAssumption DEF Enter, IInv, TypeOK
  <2> QED
    BY <2>1 DEF Offset
<1> QED
  BY <1>1, <1>2 DEF Enter, Offset

LEMMA CoverNext == IInv /\ TicketsCover /\ [Next]_vars => TicketsCover'
<1> SUFFICES ASSUME IInv, TicketsCover, [Next]_vars PROVE TicketsCover'
  OBVIOUS
<1>1. ASSUME NEW c \in Cores, Lock(c) PROVE TicketsCover'
  <2> DEFINE n == Cardinality(Active)
  <2>1. /\ c \notin Active /\ Active' = Active \cup {c}
        /\ n \in Nat /\ Cardinality(Active') = n + 1
        /\ \A d \in Active : Offset(d)' = Offset(d)
        /\ Offset(c)' = n
    BY <1>1, LockPlaces
  <2>2. \A k \in 0 .. n - 1 : \E d \in Active : Offset(d) = k
    BY DEF TicketsCover
  <2> HIDE DEF n
  <2>3. ASSUME NEW k \in 0 .. n PROVE \E d \in Active' : Offset(d)' = k
    <3>1. CASE k = n
      BY <3>1, <2>1
    <3>2. CASE k \in 0 .. n - 1
      BY <3>2, <2>1, <2>2
    <3> QED
      BY <3>1, <3>2, <2>1
  <2> QED
    BY <2>1, <2>3 DEF TicketsCover
<1>2. ASSUME NEW c \in Cores, Enter(c) PROVE TicketsCover'
  BY <1>2, EnterPlaces DEF TicketsCover
<1>3. ASSUME NEW c \in Cores, Unlock(c) PROVE TicketsCover'
  <2> DEFINE n == Cardinality(Active)
  <2>1. /\ Active' = Active \ {c} /\ Offset(c) = 0
        /\ n \in Nat \ {0} /\ Cardinality(Active') = n - 1
        /\ \A d \in Active' : Offset(d)' = Offset(d) - 1
    BY <1>3, UnlockPlaces
  <2>2. \A k \in 0 .. n - 1 : \E d \in Active : Offset(d) = k
    BY DEF TicketsCover
  <2> HIDE DEF n
  <2>3. ASSUME NEW k \in 0 .. n - 2 PROVE \E d \in Active' : Offset(d)' = k
    <3>1. k \in Int /\ k + 1 \in 0 .. n - 1 /\ k + 1 # 0
      BY <2>1
    <3>2. PICK d \in Active : Offset(d) = k + 1
      BY <3>1, <2>2
    <3>3. d \in Active' /\ Offset(d)' = k + 1 - 1
      BY <3>1, <3>2, <2>1
    <3> QED
      BY <3>1, <3>3
  <2> QED
    BY <2>1, <2>3 DEF TicketsCover
<1>4. CASE UNCHANGED vars
  BY <1>4 DEF vars, TicketsCover, Active, Offset
<1> QED
  BY <1>1, <1>2, <1>3, <1>4 DEF Next

(* The queue holds the active cores, each at the place of its ticket. *)
LEMMA WaitingFacts ==
    IInv /\ TicketsCover =>
      /\ Cardinality(Active) \in Nat
      /\ Waiting \in Seq(Cores) /\ Len(Waiting) = Cardinality(Active)
      /\ \A i \in 1 .. Cardinality(Active) : Waiting[i] \in Active /\ Offset(Waiting[i]) = i - 1
      /\ \A i \in 1 .. Cardinality(Active) : \A c \in Active : Offset(c) = i - 1 => Waiting[i] = c
<1> SUFFICES ASSUME IInv, TicketsCover
             PROVE  /\ Cardinality(Active) \in Nat
                    /\ Waiting \in Seq(Cores) /\ Len(Waiting) = Cardinality(Active)
                    /\ \A i \in 1 .. Cardinality(Active) :
                         /\ Waiting[i] \in Active /\ Offset(Waiting[i]) = i - 1
                         /\ \A c \in Active : Offset(c) = i - 1 => Waiting[i] = c
  OBVIOUS
<1> DEFINE n == Cardinality(Active)
<1>1. n \in Nat /\ TICKETS \in Nat \ {0}
  BY ActiveBound, TicketsAssumption
<1>2. \A c, d \in Active : Offset(c) = Offset(d) => c = d
  <2>1. \A c \in Active : ticket[c] \in 0 .. TICKETS - 1
    BY DEF IInv, TypeOK, Active
  <2>2. \A c, d \in Active : Offset(c) = Offset(d) => ticket[c] = ticket[d]
    BY <2>1, <1>1 DEF Offset, IInv, TypeOK
  <2> QED
    BY <2>2 DEF IInv, TicketsInUse
<1>3. ASSUME NEW i \in 1 .. n
      PROVE  Waiting[i] \in Active /\ Offset(Waiting[i]) = i - 1
  <2>1. \E a \in Active : Offset(a) = i - 1
    <3>1. i - 1 \in 0 .. n - 1
      BY <1>1
    <3> QED
      BY <3>1 DEF TicketsCover
  <2>2. \E c \in Cores : (\E a \in Active : Offset(a) = i - 1) => c \in Active /\ Offset(c) = i - 1
    BY <2>1 DEF Active
  <2>3. Waiting[i] = CHOOSE c \in Cores : (\E a \in Active : Offset(a) = i - 1)
                                          => c \in Active /\ Offset(c) = i - 1
    BY DEF Waiting
  <2> QED
    BY <2>1, <2>2, <2>3
<1>4. Waiting = [i \in 1 .. n |-> Waiting[i]]
  BY DEF Waiting
<1>5. \A i \in 1 .. n : Waiting[i] \in Cores
  BY <1>3 DEF Active
<1>6. Waiting \in [1 .. n -> Cores]
  BY <1>4, <1>5
<1>7. Waiting \in Seq(Cores) /\ Len(Waiting) = n
  BY <1>1, <1>6
<1> QED
  BY <1>1, <1>2, <1>3, <1>7

LEMMA WaitingFactsNext ==
    (IInv /\ TicketsCover)' =>
      (/\ Cardinality(Active) \in Nat
       /\ Waiting \in Seq(Cores) /\ Len(Waiting) = Cardinality(Active)
       /\ \A i \in 1 .. Cardinality(Active) : Waiting[i] \in Active /\ Offset(Waiting[i]) = i - 1
       /\ \A i \in 1 .. Cardinality(Active) : \A c \in Active : Offset(c) = i - 1 => Waiting[i] = c)'
BY WaitingFacts, PTL

(* Each step of the ticket lock is the step of the FIFO lock with its name. *)
LEMMA LockIsRequest ==
    ASSUME IInv, TicketsCover, (IInv /\ TicketsCover)', NEW c \in Cores, Lock(c)
    PROVE  Fifo!Request(c)
<1> DEFINE n == Cardinality(Active)
<1>1. /\ c \notin Active /\ Active' = Active \cup {c}
      /\ n \in Nat /\ Cardinality(Active') = n + 1
      /\ \A d \in Active : Offset(d)' = Offset(d)
      /\ Offset(c)' = n
  BY LockPlaces
<1>2. /\ Waiting \in Seq(Cores) /\ Len(Waiting) = n
      /\ \A i \in 1 .. n : Waiting[i] \in Active /\ Offset(Waiting[i]) = i - 1
  BY WaitingFacts
<1>3. /\ Waiting' \in Seq(Cores) /\ Len(Waiting') = n + 1
      /\ \A i \in 1 .. n + 1 : \A d \in Active' : Offset(d)' = i - 1 => Waiting'[i] = d
  BY <1>1, WaitingFactsNext
<1> HIDE DEF n
<1>4. ~ Fifo!Contains(Waiting, c)
  BY <1>1, <1>2 DEF Fifo!Contains
<1>5. \A i \in 1 .. n + 1 : Waiting'[i] = Append(Waiting, c)[i]
  <2> SUFFICES ASSUME NEW i \in 1 .. n + 1 PROVE Waiting'[i] = Append(Waiting, c)[i]
    OBVIOUS
  <2>1. CASE i = n + 1
    <3>1. Waiting'[i] = c
      BY <2>1, <1>1, <1>3
    <3> QED
      BY <3>1, <2>1, <1>2
  <2>2. CASE i \in 1 .. n
    <3>1. \A d \in Active : Offset(d) = i - 1 => Waiting'[i] = d
      BY <1>1, <1>3
    <3>2. Waiting'[i] = Waiting[i]
      BY <3>1, <2>2, <1>2
    <3> QED
      BY <3>2, <2>2, <1>1, <1>2
  <2>3. i \in 1 .. n \/ i = n + 1
    BY <1>1
  <2> QED
    BY <2>1, <2>2, <2>3
<1>6. Waiting' = Append(Waiting, c)
  <2>1. Append(Waiting, c) \in Seq(Cores) /\ Len(Append(Waiting, c)) = n + 1
    BY <1>2
  <2> QED
    BY <2>1, <1>3, <1>5, SeqEqual
<1>7. Served' = Served
  BY DEF Served, Lock, IInv, TypeOK
<1> QED
  BY <1>4, <1>6, <1>7 DEF Fifo!Request

LEMMA EnterIsGrant ==
    ASSUME IInv, TicketsCover, (IInv /\ TicketsCover)', NEW c \in Cores, Enter(c)
    PROVE  Fifo!Grant
<1> DEFINE n == Cardinality(Active)
<1>1. /\ c \in Active /\ Active' = Active /\ Offset(c) = 0
      /\ \A d \in Active : Offset(d)' = Offset(d)
  BY EnterPlaces
<1>2. n \in Nat /\ n # 0
  <2>1. n # 0
    BY <1>1, ActiveBound, FS_EmptySet
  <2> QED
    BY <2>1, WaitingFacts
<1>3. /\ Waiting \in Seq(Cores) /\ Len(Waiting) = n
      /\ \A i \in 1 .. n : Waiting[i] \in Active /\ Offset(Waiting[i]) = i - 1
  BY WaitingFacts
<1>4. /\ Waiting' \in Seq(Cores) /\ Len(Waiting') = n
      /\ \A i \in 1 .. n : \A d \in Active : Offset(d)' = i - 1 => Waiting'[i] = d
  BY <1>1, WaitingFactsNext
<1> HIDE DEF n
<1>5. Waiting # <<>>
  BY <1>2, <1>3
<1>6. ~Served
  <2> SUFFICES ASSUME NEW d \in Cores, pc[d] = "cs" PROVE FALSE
    BY DEF Served
  <2>1. d \in Active /\ c \in Active /\ ticket[d] = ticket[c]
    BY <1>1 DEF Active, Enter, IInv, HolderIsServed
  <2>2. d = c
    BY <2>1 DEF IInv, TicketsInUse
  <2> QED
    BY <2>2 DEF Enter
<1>7. Served'
  BY DEF Served, Enter, IInv, TypeOK
<1>8. Waiting' = Waiting
  <2>1. \A i \in 1 .. n : Waiting'[i] = Waiting[i]
    BY <1>1, <1>3, <1>4
  <2> QED
    BY <2>1, <1>3, <1>4, SeqEqual
<1> QED
  BY <1>5, <1>6, <1>7, <1>8 DEF Fifo!Grant, Served

LEMMA UnlockIsRelease ==
    ASSUME IInv, TicketsCover, (IInv /\ TicketsCover)', NEW c \in Cores, Unlock(c)
    PROVE  Fifo!Release
<1> DEFINE n == Cardinality(Active)
<1>1. /\ Active' = Active \ {c} /\ Offset(c) = 0
      /\ n \in Nat \ {0} /\ Cardinality(Active') = n - 1
      /\ \A d \in Active' : Offset(d)' = Offset(d) - 1
  BY UnlockPlaces
<1>2. /\ Waiting \in Seq(Cores) /\ Len(Waiting) = n
      /\ \A i \in 1 .. n : Waiting[i] \in Active /\ Offset(Waiting[i]) = i - 1
  BY WaitingFacts
<1>3. /\ Waiting' \in Seq(Cores) /\ Len(Waiting') = n - 1
      /\ \A i \in 1 .. n - 1 : \A d \in Active' : Offset(d)' = i - 1 => Waiting'[i] = d
  BY <1>1, WaitingFactsNext
<1> HIDE DEF n
<1>4. Waiting # <<>>
  BY <1>1, <1>2
<1>5. /\ Tail(Waiting) \in Seq(Cores) /\ Len(Tail(Waiting)) = n - 1
      /\ \A i \in 1 .. n - 1 : Tail(Waiting)[i] = Waiting[i + 1]
  BY <1>1, <1>2, <1>4, HeadTailProperties
<1>6. \A i \in 1 .. n - 1 : Waiting'[i] = Tail(Waiting)[i]
  <2> SUFFICES ASSUME NEW i \in 1 .. n - 1 PROVE Waiting'[i] = Tail(Waiting)[i]
    OBVIOUS
  <2>1. i + 1 \in 1 .. n /\ i \in Int
    BY <1>1
  <2>2. Waiting[i + 1] \in Active /\ Offset(Waiting[i + 1]) = i
    <3>1. Offset(Waiting[i + 1]) = i + 1 - 1
      BY <2>1, <1>2
    <3> QED
      BY <3>1, <2>1, <1>2
  <2>3. Waiting[i + 1] \in Active'
    BY <2>1, <2>2, <1>1
  <2>5. \A d \in Active' : Offset(d) = i => Offset(d)' = i - 1
    BY <1>1
  <2>6. \A d \in Active' : Offset(d) = i => Waiting'[i] = d
    BY <2>5, <1>3
  <2>7. Waiting'[i] = Waiting[i + 1]
    BY <2>2, <2>3, <2>6
  <2> QED
    BY <2>7, <1>5
<1>7. Waiting' = Tail(Waiting)
  BY <1>3, <1>5, <1>6, SeqEqual
<1>8. Served
  BY DEF Served, Unlock
<1>9. ~Served'
  <2> SUFFICES ASSUME NEW d \in Cores, pc'[d] = "cs" PROVE FALSE
    BY DEF Served
  <2>1. d # c /\ pc[d] = "cs" /\ pc[c] = "cs"
    BY DEF Unlock, IInv, TypeOK
  <2>2. d \in Active /\ c \in Active /\ ticket[d] = ticket[c]
    BY <2>1 DEF Active, IInv, HolderIsServed
  <2> QED
    BY <2>1, <2>2 DEF IInv, TicketsInUse
<1> QED
  BY <1>7, <1>8, <1>9 DEF Fifo!Release, Served

LEMMA StepIsFifoStep ==
    IInv /\ TicketsCover /\ (IInv /\ TicketsCover)' /\ [Next]_vars => [Fifo!Next]_Fifo!vars
<1> SUFFICES ASSUME IInv, TicketsCover, (IInv /\ TicketsCover)', [Next]_vars
             PROVE  Fifo!Next \/ (Waiting' = Waiting /\ Served' = Served)
  BY DEF Fifo!vars
<1>1. CASE Next
  BY <1>1, LockIsRequest, EnterIsGrant, UnlockIsRelease DEF Next, Fifo!Next
<1>2. CASE UNCHANGED vars
  BY <1>2 DEF vars, Waiting, Served, Active, Offset
<1> QED
  BY <1>1, <1>2

LEMMA InitIsFifoInit == Init => Fifo!Init
<1> SUFFICES ASSUME Init PROVE Waiting = <<>> /\ Served = FALSE
  BY DEF Fifo!Init
<1>1. Active = {}
  BY DEF Init, Active
<1>2. Cardinality(Active) = 0
  BY <1>1, FS_EmptySet
<1>3. Waiting = <<>>
  BY <1>2 DEF Waiting
<1> QED
  BY <1>3 DEF Init, Served

(* The ticket lock implements the FIFO lock: cores are let in one at a time
   in the order in which they drew their tickets, for any number of cores and
   however often the counters wrap. *)
THEOREM TicketIsFifo == Spec => ImplementsFifoLock
<1>1. IInv /\ [Next]_vars => IInv'
  BY NextIInv
<1>2. Spec => [](IInv /\ TicketsCover)
  BY InitIInv, CoverInit, CoverNext, <1>1, PTL DEF Spec
<1> QED
  BY <1>2, InitIsFifoInit, StepIsFifoStep, PTL DEF Spec, ImplementsFifoLock, Fifo!Spec
=============================================================================
