------------------------------- MODULE Deque --------------------------------
(***************************************************************************)
(* What the linked list of the library stands for: a sequence of distinct  *)
(* nodes that grows and shrinks at both ends, and from which any node can  *)
(* be removed.  List implements this specification.                        *)
(***************************************************************************)
EXTENDS Sequences, SequencesExt

CONSTANT Nodes

VARIABLE items

Init == items = <<>>

AddFirst(n) == ~ Contains(items, n) /\ items' = <<n>> \o items
AddLast(n) == ~ Contains(items, n) /\ items' = Append(items, n)

DelFirst == items # <<>> /\ items' = Tail(items)
DelLast == items # <<>> /\ items' = Front(items)
Del(n) == \E k \in DOMAIN items : items[k] = n /\ items' = RemoveAt(items, k)

Next == \/ \E n \in Nodes : AddFirst(n) \/ AddLast(n) \/ Del(n)
        \/ DelFirst \/ DelLast

Spec == Init /\ [][Next]_items
=============================================================================
