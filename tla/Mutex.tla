------------------------------- MODULE Mutex -------------------------------
(***************************************************************************)
(* What a mutex of the library promises, whatever its algorithm: a core    *)
(* that asked for the lock waits, at most one core holds it, and nothing   *)
(* is said about the order in which waiting cores are served.              *)
(* SpinMutex implements this specification.                                *)
(***************************************************************************)
CONSTANT Cores

VARIABLES waiting, \* the cores inside a blocking lock() call
          holder   \* the cores between lock() and unlock(): at most one

vars == <<waiting, holder>>

Init == waiting = {} /\ holder = {}

Idle(c) == c \notin waiting \cup holder

Request(c) == /\ Idle(c)
              /\ waiting' = waiting \cup {c}
              /\ UNCHANGED holder

Acquire(c) == /\ c \in waiting
              /\ holder = {}
              /\ waiting' = waiting \ {c}
              /\ holder' = {c}

TryAcquire(c) == /\ Idle(c)
                 /\ holder = {}
                 /\ holder' = {c}
                 /\ UNCHANGED waiting

Release(c) == /\ c \in holder
              /\ holder' = holder \ {c}
              /\ UNCHANGED waiting

Next == \E c \in Cores : Request(c) \/ Acquire(c) \/ TryAcquire(c) \/ Release(c)

Spec == Init /\ [][Next]_vars
=============================================================================
