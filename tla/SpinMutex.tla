----------------------------- MODULE SpinMutex -----------------------------
(***************************************************************************)
(* common/spin_mutex.c: the test-and-set lock.  lock() exchanges 1 into    *)
(* m->lock until it reads back 0, trylock() exchanges once, unlock()       *)
(* exchanges 0.  Each exchange is a sequentially consistent AMO: one step. *)
(***************************************************************************)
CONSTANT Cores

VARIABLES lock, \* m->lock
          pc    \* "out" | "spin": inside lock() | "cs": owns the mutex

vars == <<lock, pc>>

(* spin_mutex_init() *)
Init == lock = 0 /\ pc = [c \in Cores |-> "out"]

(* the call of spin_mutex_lock(), before its first exchange *)
Lock(c) == /\ pc[c] = "out"
           /\ pc' = [pc EXCEPT ![c] = "spin"]
           /\ UNCHANGED lock

(* One exchange of the loop: it writes 1 whatever it reads, and ends the
   loop when it read 0. *)
ExchangeLosesZero(c) == /\ pc[c] = "spin"
                        /\ lock' = lock
                        /\ pc' = [pc EXCEPT ![c] = IF lock = 0 THEN "cs" ELSE "spin"]
ExchangeOnlyOnce(c) == /\ pc[c] = "spin"
                       /\ lock' = 1
                       /\ pc' = [pc EXCEPT ![c] = IF lock = 0 THEN "cs" ELSE "out"]
Exchange(c) == /\ pc[c] = "spin"
               /\ lock' = 1
               /\ pc' = [pc EXCEPT ![c] = IF lock = 0 THEN "cs" ELSE "spin"]

(* spin_mutex_trylock(): a single exchange, successful when it read 0 *)
TryLock(c) == /\ pc[c] = "out"
              /\ lock' = 1
              /\ pc' = [pc EXCEPT ![c] = IF lock = 0 THEN "cs" ELSE "out"]

(* spin_mutex_unlock() *)
UnlockWritesOne(c) == /\ pc[c] = "cs"
                      /\ lock' = 1
                      /\ pc' = [pc EXCEPT ![c] = "out"]
Unlock(c) == /\ pc[c] = "cs"
             /\ lock' = 0
             /\ pc' = [pc EXCEPT ![c] = "out"]

Next == \E c \in Cores : Lock(c) \/ Exchange(c) \/ TryLock(c) \/ Unlock(c)

Spec == Init /\ [][Next]_vars

(* A core inside lock() keeps exchanging, and critical sections end. *)
Fairness == \A c \in Cores : WF_vars(Exchange(c)) /\ WF_vars(Unlock(c))
FairSpec == Spec /\ Fairness
-----------------------------------------------------------------------------
(* Type invariant. *)
TypeOK == lock \in {0, 1} /\ pc \in [Cores -> {"out", "spin", "cs"}]

(* The word is 1 exactly while some core owns the mutex: an exchange that
   fails, of lock() or trylock(), never frees or takes it for anybody. *)
LockedIffHeld == lock = 1 <=> \E c \in Cores : pc[c] = "cs"

(* spin_mutex_lock() and a successful trylock() give the mutex to one core
   at a time. *)
MutualExclusion == \A c, d \in Cores : pc[c] = "cs" /\ pc[d] = "cs" => c = d

(* The inductive invariant behind MutualExclusion. *)
IInv == TypeOK /\ LockedIffHeld /\ MutualExclusion

(* The spin lock is a mutex: lock() is a request that is granted later,
   trylock() is granted at once or not at all. *)
M == INSTANCE Mutex WITH waiting <- {c \in Cores : pc[c] = "spin"},
                         holder  <- {c \in Cores : pc[c] = "cs"}
ImplementsMutex == M!Spec

(* Whenever cores wait in lock() for good, one of those that wait gets the
   mutex again and again, unless trylock() takes it from them for ever: they
   never all spin on a mutex that nobody takes.  A given core may starve, and
   so may all the waiting ones if others keep calling trylock(): polling only
   promises weak fairness, and the word is 1 again and again. *)
WaiterEnters(c) == Exchange(c) /\ lock = 0
Barges(c) == TryLock(c) /\ lock = 0
SomeCoreWaits == \E c \in Cores : pc[c] = "spin"
WaitersEnter ==
    <>[]SomeCoreWaits /\ <>[][\A c \in Cores : ~Barges(c)]_vars
      => []<><<\E c \in Cores : WaiterEnters(c)>>_vars
=============================================================================
