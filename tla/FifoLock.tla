------------------------------ MODULE FifoLock ------------------------------
(***************************************************************************)
(* A mutex that serves its waiters in the order in which they asked: the   *)
(* queue holds the cores from their request to their release, and only its *)
(* head may be inside.  TicketMutex implements this specification.         *)
(***************************************************************************)
EXTENDS Sequences, SequencesExt

CONSTANT Cores

VARIABLES queue, \* cores that asked for the lock and have not released it
          inside \* has the head of the queue been let in?

vars == <<queue, inside>>

Init == queue = <<>> /\ inside = FALSE

Request(c) == /\ ~ Contains(queue, c)
              /\ queue' = Append(queue, c)
              /\ UNCHANGED inside

Grant == /\ queue # <<>>
         /\ ~ inside
         /\ inside' = TRUE
         /\ UNCHANGED queue

Release == /\ inside
           /\ queue' = Tail(queue)
           /\ inside' = FALSE

Next == (\E c \in Cores : Request(c)) \/ Grant \/ Release

Spec == Init /\ [][Next]_vars
=============================================================================
