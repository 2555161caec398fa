----------------------------- MODULE NodeQueue ------------------------------
(***************************************************************************)
(* What the FIFO buffer promises to the cores that share it: a queue of    *)
(* nodes with an atomic push, pop and test.  A call ends in its one step.  *)
(* FifoBuf implements this specification.                                  *)
(***************************************************************************)
EXTENDS Sequences, SequencesExt

CONSTANTS Cores, Nodes, NULL

VARIABLES items, \* the nodes in the queue, oldest first
          ret    \* what the last call of each core returned

vars == <<items, ret>>

Init == items = <<>> /\ ret = [c \in Cores |-> NULL]

Returns(c, r) == ret' = [ret EXCEPT ![c] = r]

Push(c, n) == /\ ~ Contains(items, n)
              /\ items' = Append(items, n)
              /\ Returns(c, NULL)

Pop(c) == \/ items = <<>> /\ UNCHANGED items /\ Returns(c, NULL)
          \/ items # <<>> /\ items' = Tail(items) /\ Returns(c, Head(items))

IsEmpty(c) == UNCHANGED items /\ Returns(c, items = <<>>)

Next == \E c \in Cores : Pop(c) \/ IsEmpty(c) \/ \E n \in Nodes : Push(c, n)

Spec == Init /\ [][Next]_vars
=============================================================================
