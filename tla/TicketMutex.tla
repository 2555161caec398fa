---------------------------- MODULE TicketMutex ----------------------------
(***************************************************************************)
(* common/ticket_mutex.c: the ticket lock.  A core draws a ticket with an  *)
(* atomic fetch-and-add on next and polls curr until its ticket comes up;  *)
(* unlock() advances curr.  Every access is a sequentially consistent AMO, *)
(* so one AMO is one step and the fences that precede them add nothing.    *)
(* Both counters are ints that wrap: they are kept modulo TICKETS, 2^32 in *)
(* the code.                                                               *)
(***************************************************************************)
EXTENDS Integers, FiniteSets

CONSTANTS Cores,  \* the cores that share the mutex
          TICKETS \* number of values of the counters

ASSUME TicketsAssumption == /\ IsFiniteSet(Cores)
                            /\ TICKETS \in Nat \ {0}
                            /\ Cardinality(Cores) <= TICKETS

VARIABLES curr,   \* m->curr
          next,   \* m->next
          ticket, \* the local of ticket_mutex_lock(), per core
          pc      \* "out" | "spin": polling curr | "cs": lock() returned

vars == <<curr, next, ticket, pc>>

(* ticket_mutex_init() *)
Init == /\ curr = 0
        /\ next = 0
        /\ ticket = [c \in Cores |-> 0]
        /\ pc = [c \in Cores |-> "out"]

(* atomic_fetch_add(.., 1) on a counter *)
SuccNoWrap(x) == x + 1
Succ(x) == (x + 1) % TICKETS

(* ticket_mutex_lock(), and trylock(), which only calls it: draw a ticket *)
LockReadThenWrite(c) == /\ pc[c] = "out"
                        /\ ticket' = [ticket EXCEPT ![c] = next]
                        /\ next' \in {next, Succ(next)}
                        /\ pc' = [pc EXCEPT ![c] = "spin"]
                        /\ UNCHANGED curr
Lock(c) == /\ pc[c] = "out"
           /\ ticket' = [ticket EXCEPT ![c] = next]
           /\ next' = Succ(next)
           /\ pc' = [pc EXCEPT ![c] = "spin"]
           /\ UNCHANGED curr

(* the poll that ends the loop; a poll that does not changes nothing *)
EnterWhenFree(c) == /\ pc[c] = "spin"
                    /\ \A d \in Cores : pc[d] # "cs"
                    /\ pc' = [pc EXCEPT ![c] = "cs"]
                    /\ UNCHANGED <<curr, next, ticket>>
Enter(c) == /\ pc[c] = "spin"
            /\ ticket[c] = curr
            /\ pc' = [pc EXCEPT ![c] = "cs"]
            /\ UNCHANGED <<curr, next, ticket>>

(* ticket_mutex_unlock() *)
Unlock(c) == /\ pc[c] = "cs"
             /\ curr' = Succ(curr)
             /\ pc' = [pc EXCEPT ![c] = "out"]
             /\ UNCHANGED <<next, ticket>>

Next == \E c \in Cores : Lock(c) \/ Enter(c) \/ Unlock(c)

Spec == Init /\ [][Next]_vars

(* A core that polls keeps polling, and a holder ends its critical section.
   Nothing obliges a core to ask for the lock. *)
Fairness == \A c \in Cores : WF_vars(Enter(c)) /\ WF_vars(Unlock(c))
FairSpec == Spec /\ Fairness
-----------------------------------------------------------------------------
(* Type invariant: the counters stay in the range of their type. *)
TypeOK == /\ curr \in 0 .. TICKETS - 1
          /\ next \in 0 .. TICKETS - 1
          /\ ticket \in [Cores -> 0 .. TICKETS - 1]
          /\ pc \in [Cores -> {"out", "spin", "cs"}]

(* ticket_mutex_lock() returns to one core at a time, also after the
   counters have wrapped any number of times. *)
MutualExclusion == \A c, d \in Cores : pc[c] = "cs" /\ pc[d] = "cs" => c = d

(* The cores that drew a ticket and have not released the lock, and how far
   from being served each of them is. *)
Active == {c \in Cores : pc[c] # "out"}
Offset(c) == IF ticket[c] >= curr THEN ticket[c] - curr
                                  ELSE ticket[c] - curr + TICKETS

(* The tickets in use are the Cardinality(Active) consecutive values that
   start at curr, each held once; next is the value that follows them. *)
TicketsInUse ==
    LET n == Cardinality(Active)
    IN  /\ \A c \in Active : Offset(c) < n
        /\ \A c, d \in Active : ticket[c] = ticket[d] => c = d
        /\ next = IF curr + n < TICKETS THEN curr + n ELSE curr + n - TICKETS

(* A core inside the critical section still owns the ticket being served. *)
HolderIsServed == \A c \in Cores : pc[c] = "cs" => ticket[c] = curr

(* The inductive invariant behind MutualExclusion. *)
IInv == TypeOK /\ TicketsInUse /\ HolderIsServed

(* Nor is any of them skipped: some core is next, some core after it, ... *)
TicketsCover == \A k \in 0 .. Cardinality(Active) - 1 : \E c \in Active : Offset(c) = k

(* The ticket lock is a FIFO lock: nobody overtakes a core that drew its
   ticket earlier.  The queue is read off the tickets. *)
Waiting == [i \in 1 .. Cardinality(Active) |->
              CHOOSE c \in Cores : (\E a \in Active : Offset(a) = i - 1)
                                    => c \in Active /\ Offset(c) = i - 1]
Served == \E c \in Cores : pc[c] = "cs"
Fifo == INSTANCE FifoLock WITH queue <- Waiting, inside <- Served
ImplementsFifoLock == Fifo!Spec

(* Every ticket_mutex_lock() call returns, whatever the other cores do, as
   long as the critical sections end. *)
StarvationFree == \A c \in Cores : pc[c] = "spin" ~> pc[c] = "cs"
=============================================================================
