-------------------------------- MODULE List --------------------------------
(***************************************************************************)
(* include/common/list.h: a circular doubly linked list through its head.  *)
(* Each operation is one step: a list has one user at a time.  (FifoBuf    *)
(* takes the same operations apart, for lists that cores share.)           *)
(*                                                                         *)
(* The operations that remove from an empty list, or remove a node that    *)
(* was removed before, are legal: they relink an element with itself.      *)
(***************************************************************************)
EXTENDS Integers, Sequences, FiniteSets

CONSTANTS Nodes, HEAD, NULL

ASSUME ListAssumption == IsFiniteSet(Nodes) /\ HEAD \notin Nodes /\ NULL \notin Nodes \cup {HEAD}

VARIABLES prev, next, \* the links of each element
          linked,     \* the nodes the user added and has not removed (no code)
          removed     \* the nodes that were removed since they were last added

vars == <<prev, next, linked, removed>>

Lines == Nodes \cup {HEAD}

(* list_head_init(); the links of a node mean nothing before it is added. *)
Init == /\ prev = [x \in Lines |-> IF x = HEAD THEN HEAD ELSE NULL]
        /\ next = [x \in Lines |-> IF x = HEAD THEN HEAD ELSE NULL]
        /\ linked = {}
        /\ removed = {}

Added(n) == linked' = linked \cup {n} /\ removed' = removed \ {n}
Removed(n) == /\ linked' = linked \ {n}
              /\ removed' = removed \cup ({n} \ {HEAD})

(* list_add_first(head, n) *)
AddFirst(n) ==
    LET first == next[HEAD]
    IN  /\ n \notin linked
        /\ prev' = [prev EXCEPT ![n] = HEAD, ![first] = n]
        /\ next' = [next EXCEPT ![n] = first, ![HEAD] = n]
        /\ Added(n)

(* list_add_last(head, n) *)
AddLastOneWay(n) ==
    LET last == prev[HEAD]
    IN  /\ n \notin linked
        /\ prev' = [prev EXCEPT ![n] = HEAD, ![HEAD] = n]
        /\ next' = [next EXCEPT ![n] = HEAD, ![last] = n]
        /\ Added(n)
AddLast(n) ==
    LET last == prev[HEAD]
    IN  /\ n \notin linked
        /\ prev' = [prev EXCEPT ![n] = last, ![HEAD] = n]
        /\ next' = [next EXCEPT ![n] = HEAD, ![last] = n]
        /\ Added(n)

(* list_del_first(head), of the head itself when the list is empty *)
DelFirst ==
    LET h == next[HEAD]
        hnext == next[h]
    IN  /\ prev' = [prev EXCEPT ![hnext] = HEAD, ![h] = h]
        /\ next' = [next EXCEPT ![HEAD] = hnext, ![h] = h]
        /\ Removed(h)

(* list_del_last(head) *)
DelLast ==
    LET t == prev[HEAD]
        tprev == prev[t]
    IN  /\ next' = [next EXCEPT ![tprev] = HEAD, ![t] = t]
        /\ prev' = [prev EXCEPT ![HEAD] = tprev, ![t] = t]
        /\ Removed(t)

(* list_del(entry) of a node that is in the list, or was removed before *)
DelKeepsLinks(n) ==
    /\ n \in linked \cup removed
    /\ next' = [next EXCEPT ![prev[n]] = next[n]]
    /\ prev' = [prev EXCEPT ![next[n]] = prev[n]]
    /\ Removed(n)
Del(n) ==
    /\ n \in linked \cup removed
    /\ next' = [next EXCEPT ![prev[n]] = next[n], ![n] = n]
    /\ prev' = [prev EXCEPT ![next[n]] = prev[n], ![n] = n]
    /\ Removed(n)

Next == \/ \E n \in Nodes : AddFirst(n) \/ AddLast(n) \/ Del(n)
        \/ DelFirst \/ DelLast

Spec == Init /\ [][Next]_vars
-----------------------------------------------------------------------------
list_is_head(n) == n = HEAD

(* The iteration macros: the elements met by following a link from x on until
   the head is met, but never more steps than there are nodes.  Those of the
   entries follow the same links: container_of() is a bijection. *)
From(link, x) ==
    LET at[i \in 0 .. Cardinality(Nodes) + 1] == IF i = 0 THEN x ELSE link[at[i - 1]]
        ends == {i \in 1 .. Cardinality(Nodes) + 1 : list_is_head(at[i])}
        len == CHOOSE i \in 0 .. Cardinality(Nodes) :
                  \/ i + 1 \in ends /\ \A j \in ends : i + 1 <= j
                  \/ ends = {} /\ i = Cardinality(Nodes)
    IN  [i \in 1 .. len |-> at[i]]
list_for_each == From(next, HEAD)
list_for_each_prev == From(prev, HEAD)
list_for_each_continue(n) == From(next, n)

list_is_empty == next[HEAD] = HEAD
list_is_first(n) == next[HEAD] = n
list_is_last(n) == prev[HEAD] = n
list_first_entry_or_null == IF next[HEAD] # HEAD THEN next[HEAD] ELSE NULL
list_last_entry == prev[HEAD]
list_next_entry(n) == next[n]
list_prev_entry(n) == prev[n]

(* Type invariant. *)
TypeOK == /\ prev \in [Lines -> Lines \cup {NULL}]
          /\ next \in [Lines -> Lines \cup {NULL}]
          /\ linked \subseteq Nodes /\ removed \subseteq Nodes

(* Following a link of an element in the list leads to an element in the
   list, and the opposite link leads back: the links never lead to a node
   that was removed, from whichever end, and none is skipped. *)
LinksMatch ==
    /\ \A x \in linked \cup {HEAD} : /\ next[x] \in linked \cup {HEAD}
                                     /\ prev[x] \in linked \cup {HEAD}
                                     /\ prev[next[x]] = x /\ next[prev[x]] = x
    /\ \A x \in removed : next[x] = x /\ prev[x] = x
    /\ linked \cap removed = {}

(* The inductive invariant: the types and the links. *)
IInv == TypeOK /\ LinksMatch

(* The nodes that a walk in one direction meets are those of a walk in the
   other, backwards, and they are the nodes that were added.  The questions
   for the first, the last, the next and the previous node, and a walk that
   continues from the middle, agree with them; a walk that continues from a
   node that was removed meanwhile meets that node for ever. *)
WalksAgree ==
    LET f == list_for_each
        b == list_for_each_prev
        len == Len(f)
    IN  /\ Len(b) = len /\ \A i \in 1 .. len : f[i] = b[len + 1 - i]
        /\ {f[i] : i \in 1 .. len} = linked
        /\ list_is_empty <=> linked = {}
        /\ list_first_entry_or_null = IF len = 0 THEN NULL ELSE f[1]
        /\ len # 0 => list_last_entry = f[len]
        /\ \A i \in 1 .. len : /\ list_is_first(f[i]) <=> i = 1
                               /\ list_is_last(f[i]) <=> i = len
                               /\ i < len => list_next_entry(f[i]) = f[i + 1]
                               /\ i > 1 => list_prev_entry(f[i]) = f[i - 1]
                               /\ list_for_each_continue(f[i]) = SubSeq(f, i + 1, len)
        /\ \A n \in removed :
             list_for_each_continue(n) = [i \in 1 .. Cardinality(Nodes) |-> n]

(* The list is a deque: its nodes in the order in which list_for_each()
   meets them. *)
D == INSTANCE Deque WITH items <- list_for_each
ImplementsDeque == D!Spec
=============================================================================
