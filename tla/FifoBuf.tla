------------------------------ MODULE FifoBuf -------------------------------
(***************************************************************************)
(* common/fifobuf.c: cores share a list of nodes under a ticket mutex, on  *)
(* a platform whose caches are not coherent.  It composes the lock, taken  *)
(* by its specification FifoLock, and the operations of list.h, taken      *)
(* apart into reads of links and stores of links.                          *)
(*                                                                         *)
(* Stores go through to memory one by one, in any order until the fence    *)
(* that ends the list operation.  A core may hold a copy of any element it *)
(* has not invalidated since another core last stored to it: it may read   *)
(* anything from such an element.  Elements do not share cache lines.      *)
(***************************************************************************)
EXTENDS Integers, Sequences, FiniteSets

CONSTANTS Cores, Nodes, HEAD, NULL

ASSUME FifoBufAssumption == IsFiniteSet(Nodes) /\ HEAD \notin Nodes /\ NULL \notin Nodes \cup {HEAD}

VARIABLES
  prev, next,    \* the links of each element, in memory
  stale,         \* the elements of which a core may hold an old copy
  queue, inside, \* q->lock, see FifoLock
  pc, op, node,  \* place in the call, the function, its node n or ret
  pending,       \* the link stores a core has issued and not completed
  ret,           \* what the last call returned: NULL, a node or a Boolean
  items          \* the nodes in the buffer, oldest first (no code)

linkVars == <<prev, next, stale>>
lockVars == <<queue, inside>>
callVars == <<op, node>>
vars == <<linkVars, lockVars, pc, callVars, pending, ret, items>>

Lock == INSTANCE FifoLock

Lines == Nodes \cup {HEAD}

(* fifobuf_init() by some core, and any copies left in the caches. *)
Init == /\ prev = [x \in Lines |-> IF x = HEAD THEN HEAD ELSE NULL]
        /\ next = [x \in Lines |-> IF x = HEAD THEN HEAD ELSE NULL]
        /\ stale = [c \in Cores |-> Lines]
        /\ Lock!Init
        /\ pc = [c \in Cores |-> "out"]
        /\ op = [c \in Cores |-> NULL]
        /\ node = [c \in Cores |-> NULL]
        /\ pending = [c \in Cores |-> {}]
        /\ ret = [c \in Cores |-> NULL]
        /\ items = <<>>

Goto(c, l) == pc' = [pc EXCEPT ![c] = l]

(* The copies that a store by core c to element x makes old. *)
Stored(c, x) == [d \in Cores |-> IF d = c THEN stale[d] ELSE stale[d] \cup {x}]

(* A load by core c of a link of element x, when it invalidated the elements
   of fresh on the way: the value in memory, or anything from an old copy. *)
Load(c, link, x, fresh) == IF x \in stale[c] \ fresh THEN Lines ELSE {link[x]}
Invalidate(c, fresh) == stale' = [stale EXCEPT ![c] = @ \ fresh]

(* A call asks for the lock.  A node is pushed by one core at a time, when
   it is not in the buffer and no core still reads its data; that core has
   stored the data before. *)
Call(c, o, n) == /\ pc[c] = "out"
                 /\ Goto(c, "lock")
                 /\ op' = [op EXCEPT ![c] = o]
                 /\ node' = [node EXCEPT ![c] = n]
                 /\ Lock!Request(c)
                 /\ UNCHANGED <<prev, next, pending, ret, items>>
Push(c, n) == /\ \A i \in 1 .. Len(items) : items[i] # n
              /\ \A d \in Cores : pc[d] # "out" => node[d] # n
              /\ stale' = Stored(c, n)
              /\ Call(c, "push", n)
Pop(c) == Call(c, "pop", NULL) /\ UNCHANGED stale
IsEmpty(c) == Call(c, "is_empty", NULL) /\ UNCHANGED stale

(* ticket_mutex_lock() returns. *)
Enter(c) == /\ pc[c] = "lock" /\ Head(queue) = c
            /\ Lock!Grant
            /\ Goto(c, "head")
            /\ UNCHANGED <<linkVars, callVars, pending, ret, items>>

(* list_add_last(): read the last element, issue the four stores. *)
LinkLastNoInvalidate(c) ==
    /\ pc[c] = "head" /\ op[c] = "push"
    /\ \E last \in Load(c, prev, HEAD, {}) :
         /\ pending' = [pending EXCEPT ![c] =
                          {<<"prev", node[c], last>>, <<"next", node[c], HEAD>>,
                           <<"next", last, node[c]>>, <<"prev", HEAD, node[c]>>}]
         /\ Invalidate(c, {node[c], last})
    /\ Goto(c, "store")
    /\ UNCHANGED <<prev, next, lockVars, callVars, ret, items>>
LinkLast(c) ==
    /\ pc[c] = "head" /\ op[c] = "push"
    /\ \E last \in Load(c, prev, HEAD, {HEAD}) :
         /\ pending' = [pending EXCEPT ![c] =
                          {<<"prev", node[c], last>>, <<"next", node[c], HEAD>>,
                           <<"next", last, node[c]>>, <<"prev", HEAD, node[c]>>}]
         /\ Invalidate(c, {HEAD, node[c], last})
    /\ Goto(c, "store")
    /\ UNCHANGED <<prev, next, lockVars, callVars, ret, items>>

(* fifobuf_pop(): read the first element; none when it is the head. *)
First(c) ==
    /\ pc[c] = "head" /\ op[c] = "pop"
    /\ \E first \in Load(c, next, HEAD, {HEAD}) :
         \/ first = HEAD /\ Goto(c, "store") /\ UNCHANGED node
         \/ /\ first # HEAD /\ Goto(c, "entry")
            /\ node' = [node EXCEPT ![c] = first]
    /\ Invalidate(c, {HEAD})
    /\ UNCHANGED <<prev, next, lockVars, op, pending, ret, items>>

(* list_del(): read both neighbours of the node, issue the four stores. *)
UnlinkNoInvalidate(c) ==
    /\ pc[c] = "entry"
    /\ \E p \in Load(c, prev, node[c], {}), n \in Load(c, next, node[c], {}) :
         /\ pending' = [pending EXCEPT ![c] =
                          {<<"next", p, n>>, <<"prev", n, p>>,
                           <<"prev", node[c], node[c]>>, <<"next", node[c], node[c]>>}]
         /\ Invalidate(c, {p, n})
    /\ Goto(c, "store")
    /\ UNCHANGED <<prev, next, lockVars, callVars, ret, items>>
Unlink(c) ==
    /\ pc[c] = "entry"
    /\ \E p \in Load(c, prev, node[c], {node[c]}),
          n \in Load(c, next, node[c], {node[c]}) :
         /\ pending' = [pending EXCEPT ![c] =
                          {<<"next", p, n>>, <<"prev", n, p>>,
                           <<"prev", node[c], node[c]>>, <<"next", node[c], node[c]>>}]
         /\ Invalidate(c, {node[c], p, n})
    /\ Goto(c, "store")
    /\ UNCHANGED <<prev, next, lockVars, callVars, ret, items>>

(* A link store reaches memory. *)
Commit(c) == \E s \in pending[c] :
    LET link == s[1]
        written(l, mem) == IF link = l THEN [mem EXCEPT ![s[2]] = s[3]] ELSE mem
    IN  /\ pending' = [pending EXCEPT ![c] = @ \ {s}]
        /\ prev' = written("prev", prev)
        /\ next' = written("next", next)
        /\ stale' = Stored(c, s[2])
        /\ UNCHANGED <<lockVars, pc, callVars, ret, items>>

(* cpu_mfence(), ticket_mutex_unlock() and the return of the call.  After a
   pop that found a node, the core reads the data of the node. *)
Leave(c, l, r, q) == /\ Lock!Release
                     /\ Goto(c, l)
                     /\ ret' = [ret EXCEPT ![c] = r]
                     /\ items' = q
                     /\ UNCHANGED <<linkVars, callVars, pending>>
UnlockUnfenced(c) ==
    /\ pc[c] = "store"
    /\ \/ op[c] = "push" /\ Leave(c, "out", NULL, Append(items, node[c]))
       \/ op[c] = "pop" /\ node[c] = NULL /\ Leave(c, "out", NULL, items)
       \/ op[c] = "pop" /\ node[c] # NULL /\ Leave(c, "data", node[c], Tail(items))
UnlockUnlessEmpty(c) ==
    /\ pc[c] = "store" /\ pending[c] = {}
    /\ \/ op[c] = "push" /\ Leave(c, "out", NULL, Append(items, node[c]))
       \/ /\ op[c] = "pop" /\ node[c] = NULL
          /\ Goto(c, "out") /\ ret' = [ret EXCEPT ![c] = NULL]
          /\ UNCHANGED <<linkVars, lockVars, callVars, pending, items>>
       \/ op[c] = "pop" /\ node[c] # NULL /\ Leave(c, "data", node[c], Tail(items))
Unlock(c) ==
    /\ pc[c] = "store" /\ pending[c] = {}
    /\ \/ op[c] = "push" /\ Leave(c, "out", NULL, Append(items, node[c]))
       \/ op[c] = "pop" /\ node[c] = NULL /\ Leave(c, "out", NULL, items)
       \/ op[c] = "pop" /\ node[c] # NULL /\ Leave(c, "data", node[c], Tail(items))

(* fifobuf_is_empty(): read the first element, and unlock.  Nobody else can
   touch the links in between, so this is one step. *)
Test(c) ==
    /\ pc[c] = "head" /\ op[c] = "is_empty"
    /\ \E first \in Load(c, next, HEAD, {HEAD}) : ret' = [ret EXCEPT ![c] = first = HEAD]
    /\ Invalidate(c, {HEAD})
    /\ Goto(c, "out")
    /\ Lock!Release
    /\ UNCHANGED <<prev, next, callVars, pending, items>>

(* The application has read the data of the node it popped. *)
Use(c) == /\ pc[c] = "data"
          /\ Goto(c, "out")
          /\ UNCHANGED <<linkVars, lockVars, callVars, pending, ret, items>>

Application(c) == Pop(c) \/ IsEmpty(c) \/ \E n \in Nodes : Push(c, n)
Step(c) == \/ Enter(c) \/ LinkLast(c) \/ First(c) \/ Unlink(c) \/ Test(c)
           \/ Commit(c) \/ Unlock(c) \/ Use(c)

Next == \E c \in Cores : Application(c) \/ Step(c)

Spec == Init /\ [][Next]_vars

(* A core inside a call goes on, stores reach memory, and the application
   ends with the data.  Nothing obliges a core to make a call. *)
Fairness == \A c \in Cores : WF_vars(Step(c))
FairSpec == Spec /\ Fairness
-----------------------------------------------------------------------------
(* Type invariant. *)
TypeOK ==
    /\ prev \in [Lines -> Lines \cup {NULL}] /\ next \in [Lines -> Lines \cup {NULL}]
    /\ stale \in [Cores -> SUBSET Lines]
    /\ inside \in BOOLEAN
    /\ pc \in [Cores -> {"out", "lock", "head", "entry", "store", "data"}]
    /\ op \in [Cores -> {NULL, "push", "pop", "is_empty"}]
    /\ node \in [Cores -> Nodes \cup {NULL}]
    /\ pending \in [Cores -> SUBSET ({"prev", "next"} \X Lines \X Lines)]

(* The element at place i of the circle that starts and ends at the head. *)
At(i) == IF i \in 1 .. Len(items) THEN items[i] ELSE HEAD
Linked(i) == next[At(i)] = At(i + 1) /\ prev[At(i + 1)] = At(i)

(* The state is typed.  Whenever the lock is free, and nobody is about to read
   the links, they are those of a circular list of the nodes in the buffer,
   in both directions. *)
LinksMatchItems == \A i \in 0 .. Len(items) : Linked(i)
LinksAreItems == TypeOK /\ (~inside => LinksMatchItems)

(* A core that popped a node reads the data that was pushed, and not an old
   copy of it. *)
DataIsFresh == \A c \in Cores : pc[c] = "data" => node[c] \notin stale[c]

(* The inductive invariant behind the three properties of the buffer.
   One core at most is between its lock and its unlock. *)
Holds(c) == pc[c] \in {"head", "entry", "store"}
HolderIsAlone == /\ inside <=> \E c \in Cores : Holds(c)
                 /\ \A c, d \in Cores : Holds(c) /\ Holds(d) => c = d

(* What function a core is in, and with which node, at each place. *)
CallsAreWhole ==
    \A c \in Cores :
      /\ pc[c] \in {"entry", "data"} => op[c] = "pop" /\ node[c] # NULL
      /\ pc[c] = "store" => op[c] \in {"push", "pop"}
      /\ pc[c] # "out" /\ op[c] = "push" => node[c] # NULL
      /\ pc[c] \in {"lock", "head"} /\ op[c] # "push" => node[c] = NULL
      /\ pending[c] # {} => pc[c] = "store"

(* A node is in the buffer once, or in the hands of one core; only the first
   one is both, while a core takes it out. *)
Owns(c) == pc[c] # "out" /\ node[c] # NULL
TakesOut(c) == op[c] = "pop" /\ pc[c] \in {"entry", "store"}
NodesAreApart ==
    /\ items \in Seq(Nodes)
    /\ \A i, j \in 1 .. Len(items) : items[i] = items[j] => i = j
    /\ \A c, d \in Cores : Owns(c) /\ Owns(d) /\ node[c] = node[d] => c = d
    /\ \A c \in Cores : Owns(c) =>
         IF TakesOut(c) THEN items # <<>> /\ node[c] = items[1]
                        ELSE \A i \in 1 .. Len(items) : items[i] # node[c]

(* A link of x is y, or will be once the stores of c are complete. *)
NextDue(c, x, y) == next[x] = y \/ <<"next", x, y>> \in pending[c]
PrevDue(c, x, y) == prev[x] = y \/ <<"prev", x, y>> \in pending[c]

(* The holder's stores change the links around its node to those of the list
   with, or without, the node; all the other links are those of the items. *)
Pushing(c) ==
    LET n == node[c]
        last == At(Len(items))
    IN  /\ pending[c] \subseteq {<<"prev", n, last>>, <<"next", n, HEAD>>,
                                 <<"next", last, n>>, <<"prev", HEAD, n>>}
        /\ PrevDue(c, n, last) /\ NextDue(c, n, HEAD)
        /\ NextDue(c, last, n) /\ PrevDue(c, HEAD, n)
        /\ \A i \in 0 .. Len(items) - 1 : Linked(i)
Popping(c) ==
    LET n == node[c]
    IN  /\ pending[c] \subseteq {<<"next", HEAD, At(2)>>, <<"prev", At(2), HEAD>>,
                                 <<"prev", n, n>>, <<"next", n, n>>}
        /\ NextDue(c, HEAD, At(2)) /\ PrevDue(c, At(2), HEAD)
        /\ \A i \in 2 .. Len(items) : Linked(i)
FindingNone(c) == pending[c] = {} /\ items = <<>> /\ LinksMatchItems
HolderCompletesLinks ==
    \A c \in Cores :
      /\ pc[c] \in {"head", "entry"} => LinksMatchItems
      /\ pc[c] = "store" /\ op[c] = "push" => Pushing(c)
      /\ pc[c] = "store" /\ op[c] = "pop" /\ node[c] # NULL => Popping(c)
      /\ pc[c] = "store" /\ op[c] = "pop" /\ node[c] = NULL => FindingNone(c)

(* list_del() has invalidated the node, and nobody stores to it any more. *)
PoppedIsFresh == \A c \in Cores :
                   op[c] = "pop" /\ pc[c] \in {"store", "data"} => node[c] \notin stale[c]

IInv == /\ LinksAreItems /\ HolderIsAlone /\ CallsAreWhole
        /\ NodesAreApart /\ HolderCompletesLinks /\ PoppedIsFresh

(* The buffer is a queue: each node is popped once, in the order of the
   pushes, and a pop or a test finds it empty only when it is. *)
Q == INSTANCE NodeQueue
ImplementsQueue == Q!Spec

(* Every call returns. *)
CallsReturn == \A c \in Cores : pc[c] # "out" ~> pc[c] = "out"
=============================================================================
