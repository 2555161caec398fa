---------------------------- MODULE FifoBufProofs ----------------------------
(***************************************************************************)
(* Proofs about FifoBuf, for any cores and any finite set of nodes: the    *)
(* links, the data that a core reads of a node it popped, and that the     *)
(* buffer is a queue.                                                      *)
(***************************************************************************)
EXTENDS FifoBuf, TLAPS

(* An element that was invalidated is read from memory. *)
LEMMA LoadsMemory ==
    ASSUME NEW c \in Cores, NEW link, NEW x, NEW fresh, x \in fresh
    PROVE  Load(c, link, x, fresh) = {link[x]}
BY DEF Load

(* The circle passes through each node of the buffer once, and through the
   head at its ends. *)
LEMMA AtFacts ==
    ASSUME NodesAreApart
    PROVE  /\ Len(items) \in Nat
           /\ \A i \in Int : At(i) \in Lines /\ (i \in 1 .. Len(items) <=> At(i) \in Nodes)
           /\ \A i \in Int : i \in 1 .. Len(items) => At(i) = items[i]
           /\ \A i \in Int : i \notin 1 .. Len(items) => At(i) = HEAD
           /\ \A i, j \in 0 .. Len(items) : At(i) = At(j) => i = j
           /\ items = <<>> <=> Len(items) = 0
<1>1. items \in Seq(Nodes) /\ HEAD \notin Nodes
  BY FifoBufAssumption DEF NodesAreApart
<1>2. Len(items) \in Nat /\ \A i \in 1 .. Len(items) : items[i] \in Nodes
  BY <1>1
<1>3. items = <<>> <=> Len(items) = 0
  BY <1>1
<1>4. \A i \in Int : /\ At(i) \in Lines
                     /\ i \in 1 .. Len(items) <=> At(i) \in Nodes
                     /\ i \in 1 .. Len(items) => At(i) = items[i]
                     /\ i \notin 1 .. Len(items) => At(i) = HEAD
  BY <1>1, <1>2 DEF At, Lines
<1>5. \A i, j \in 0 .. Len(items) : At(i) = At(j) => i = j
  BY <1>1, <1>2 DEF At, NodesAreApart
<1> QED
  BY <1>2, <1>3, <1>4, <1>5

(* A node put at the end is the last one of the circle. *)
LEMMA AppendFacts ==
    ASSUME NodesAreApart, NEW n \in Nodes, items' = Append(items, n)
    PROVE  /\ items' \in Seq(Nodes) /\ Len(items') = Len(items) + 1
           /\ \A i \in 1 .. Len(items) : items'[i] = items[i]
           /\ items'[Len(items) + 1] = n
           /\ \A i \in 0 .. Len(items) : At(i)' = At(i)
           /\ \A k \in Int : k = Len(items) + 1 => At(k)' = n
           /\ \A k \in Int : k = Len(items) + 2 => At(k)' = HEAD
<1>1. items \in Seq(Nodes) /\ Len(items) \in Nat
  BY DEF NodesAreApart
<1>2. /\ items' \in Seq(Nodes) /\ Len(items') = Len(items) + 1
      /\ \A i \in 1 .. Len(items) : items'[i] = items[i]
      /\ items'[Len(items) + 1] = n
  BY <1>1
<1>3. \A i \in 0 .. Len(items) : At(i)' = At(i)
  BY <1>1, <1>2 DEF At
<1>4. \A k \in Int : /\ k = Len(items) + 1 => At(k)' = n
                     /\ k = Len(items) + 2 => At(k)' = HEAD
  BY <1>1, <1>2 DEF At
<1> QED
  BY <1>2, <1>3, <1>4

(* Without its first node the circle is one place shorter. *)
LEMMA TailFacts ==
    ASSUME NodesAreApart, items # <<>>, items' = Tail(items)
    PROVE  /\ items' \in Seq(Nodes) /\ Len(items') = Len(items) - 1
           /\ \A i \in 1 .. Len(items) - 1 : items'[i] = items[i + 1]
           /\ \A i \in 1 .. Len(items) : At(i)' = At(i + 1)
           /\ At(0)' = HEAD
<1>1. items \in Seq(Nodes) /\ Len(items) \in Nat /\ Len(items) # 0
  BY DEF NodesAreApart
<1>2. /\ items' \in Seq(Nodes) /\ Len(items') = Len(items) - 1
      /\ \A i \in 1 .. Len(items) - 1 : items'[i] = items[i + 1]
  BY <1>1
<1>3. \A i \in 1 .. Len(items) : At(i)' = At(i + 1)
  BY <1>1, <1>2 DEF At
<1>4. At(0)' = HEAD
  BY <1>1, <1>2 DEF At
<1> QED
  BY <1>2, <1>3, <1>4

-----------------------------------------------------------------------------
LEMMA InitIInv == Init => IInv
<1> SUFFICES ASSUME Init PROVE IInv
  OBVIOUS
<1>1. TypeOK
  BY DEF Init, Lock!Init, TypeOK, Lines
<1>2. Len(items) = 0 /\ items = <<>> /\ items \in Seq(Nodes)
  BY DEF Init
<1>3. LinksMatchItems
  BY <1>2 DEF Init, LinksMatchItems, Linked, At, Lines
<1>4. HolderIsAlone /\ CallsAreWhole
  BY DEF Init, Lock!Init, HolderIsAlone, Holds, CallsAreWhole
<1>5. NodesAreApart
  BY <1>2 DEF Init, NodesAreApart, Owns
<1>6. HolderCompletesLinks /\ PoppedIsFresh
  BY DEF Init, HolderCompletesLinks, PoppedIsFresh
<1> QED
  BY <1>1, <1>3, <1>4, <1>5, <1>6 DEF IInv, LinksAreItems

(* The links, items and stores in progress are left alone by a step that only
   moves a core that is neither before nor after it the holder. *)
LEMMA LinksKept ==
    ASSUME IInv, NEW c \in Cores, ~Holds(c), ~Holds(c)',
           UNCHANGED <<prev, next, pending, items, inside>>,
           \A d \in Cores \ {c} : pc'[d] = pc[d] /\ op'[d] = op[d] /\ node'[d] = node[d]
    PROVE  /\ (~inside => LinksMatchItems)' /\ HolderIsAlone' /\ HolderCompletesLinks'
<1>1. \A i : At(i)' = At(i) /\ (Linked(i)' <=> Linked(i))
  BY DEF At, Linked
<1>2. LinksMatchItems' <=> LinksMatchItems
  BY <1>1 DEF LinksMatchItems
<1>3. (~inside => LinksMatchItems)'
  BY <1>2 DEF IInv, LinksAreItems
<1>4. \A d \in Cores : Holds(d)' <=> Holds(d)
  BY DEF Holds
<1>5. HolderIsAlone'
  BY <1>4 DEF IInv, HolderIsAlone
<1>6. ASSUME NEW d \in Cores, d # c
      PROVE  (Pushing(d)' <=> Pushing(d)) /\ (Popping(d)' <=> Popping(d))
             /\ (FindingNone(d)' <=> FindingNone(d))
  BY <1>1, <1>2, <1>6 DEF Pushing, Popping, FindingNone, PrevDue, NextDue
<1>7. HolderCompletesLinks'
  BY <1>2, <1>6 DEF IInv, HolderCompletesLinks, Holds
<1> QED
  BY <1>3, <1>5, <1>7

LEMMA CallIInv ==
    ASSUME IInv, NEW c \in Cores, NEW o \in {"push", "pop", "is_empty"},
           NEW n \in Nodes \cup {NULL}, Call(c, o, n), o = "push" <=> n # NULL,
           n # NULL => /\ \A i \in 1 .. Len(items) : items[i] # n
                       /\ \A d \in Cores : pc[d] # "out" => node[d] # n,
           stale' = stale \/ (n # NULL /\ stale' = Stored(c, n))
    PROVE  IInv'
<1>1. TypeOK /\ pc[c] = "out"
  BY DEF IInv, LinksAreItems, Call
<1>2. TypeOK'
  BY <1>1 DEF TypeOK, Call, Goto, Stored, Lock!Request, Lines
<1>3. pc'[c] = "lock" /\ op'[c] = o /\ node'[c] = n
  BY <1>1 DEF TypeOK, Call, Goto
<1>4. \A d \in Cores \ {c} : pc'[d] = pc[d] /\ op'[d] = op[d] /\ node'[d] = node[d]
  BY <1>1 DEF TypeOK, Call, Goto
<1>5. UNCHANGED <<prev, next, pending, items, inside>>
  BY DEF Call, Lock!Request
<1>6. ~Holds(c) /\ ~Holds(c)'
  BY <1>1, <1>3 DEF Holds
<1>7. (~inside => LinksMatchItems)' /\ HolderIsAlone' /\ HolderCompletesLinks'
  BY <1>4, <1>5, <1>6, LinksKept
<1>8. CallsAreWhole'
  BY <1>1, <1>3, <1>4, <1>5 DEF IInv, CallsAreWhole
<1>9. NodesAreApart'
  BY <1>1, <1>3, <1>4, <1>5 DEF IInv, NodesAreApart, Owns, TakesOut
<1>10. PoppedIsFresh'
  <2> SUFFICES ASSUME NEW d \in Cores, op'[d] = "pop", pc'[d] \in {"store", "data"},
                      node'[d] \in stale'[d]
               PROVE  FALSE
    BY DEF PoppedIsFresh
  <2>1. d # c /\ op[d] = "pop" /\ pc[d] \in {"store", "data"} /\ node'[d] = node[d]
    BY <1>3, <1>4
  <2>2. node[d] \notin stale[d]
    BY <2>1 DEF IInv, PoppedIsFresh
  <2>3. n # NULL /\ stale' = Stored(c, n) /\ node[d] = n
    BY <1>1, <2>1, <2>2 DEF Stored, TypeOK
  <2> QED
    BY <2>1, <2>3
<1> QED
  BY <1>2, <1>7, <1>8, <1>9, <1>10 DEF IInv, LinksAreItems

LEMMA ApplicationIInv == ASSUME IInv, NEW c \in Cores, Application(c) PROVE IInv'
<1>1. CASE Pop(c)
  BY <1>1, CallIInv DEF Pop
<1>2. CASE IsEmpty(c)
  BY <1>2, CallIInv DEF IsEmpty
<1>3. ASSUME NEW n \in Nodes, Push(c, n) PROVE IInv'
  <2>1. n # NULL
    BY FifoBufAssumption
  <2> QED
    BY <1>3, <2>1, CallIInv DEF Push
<1> QED
  BY <1>1, <1>2, <1>3 DEF Application

LEMMA UseIInv == ASSUME IInv, NEW c \in Cores, Use(c) PROVE IInv'
<1>1. TypeOK /\ pc[c] = "data"
  BY DEF IInv, LinksAreItems, Use
<1>2. TypeOK'
  BY <1>1 DEF TypeOK, Use, Goto, linkVars, lockVars, callVars
<1>3. /\ pc'[c] = "out" /\ \A d \in Cores \ {c} : pc'[d] = pc[d]
      /\ UNCHANGED <<prev, next, stale, inside, op, node, pending, ret, items>>
  BY <1>1 DEF TypeOK, Use, Goto, linkVars, lockVars, callVars
<1>4. (~inside => LinksMatchItems)' /\ HolderIsAlone' /\ HolderCompletesLinks'
  BY <1>1, <1>3, LinksKept DEF Holds
<1>5. CallsAreWhole'
  BY <1>1, <1>3 DEF IInv, CallsAreWhole
<1>6. NodesAreApart'
  BY <1>1, <1>3 DEF IInv, NodesAreApart, Owns, TakesOut
<1>7. PoppedIsFresh'
  BY <1>1, <1>3 DEF IInv, PoppedIsFresh
<1> QED
  BY <1>2, <1>4, <1>5, <1>6, <1>7 DEF IInv, LinksAreItems

LEMMA EnterIInv == ASSUME IInv, NEW c \in Cores, Enter(c) PROVE IInv'
<1>1. TypeOK /\ pc[c] = "lock" /\ ~inside /\ inside' = TRUE
  BY DEF IInv, LinksAreItems, Enter, Lock!Grant
<1>2. TypeOK'
  BY <1>1 DEF TypeOK, Enter, Goto, linkVars, callVars
<1>3. /\ pc'[c] = "head" /\ \A d \in Cores \ {c} : pc'[d] = pc[d]
      /\ UNCHANGED <<prev, next, stale, op, node, pending, ret, items>>
  BY <1>1 DEF TypeOK, Enter, Goto, linkVars, callVars
<1>4. \A d \in Cores : ~Holds(d) /\ (Holds(d)' <=> d = c)
  BY <1>1, <1>3 DEF IInv, HolderIsAlone, Holds
<1>5. HolderIsAlone'
  BY <1>1, <1>4 DEF HolderIsAlone
<1>6. LinksMatchItems'
  BY <1>1, <1>3 DEF IInv, LinksAreItems, LinksMatchItems, Linked, At
<1>7. HolderCompletesLinks'
  BY <1>3, <1>4, <1>6 DEF HolderCompletesLinks, Holds
<1>8. CallsAreWhole'
  BY <1>1, <1>3 DEF IInv, CallsAreWhole
<1>9. NodesAreApart'
  BY <1>1, <1>3 DEF IInv, NodesAreApart, Owns, TakesOut
<1>10. PoppedIsFresh'
  BY <1>1, <1>3 DEF IInv, PoppedIsFresh
<1> QED
  BY <1>1, <1>2, <1>5, <1>6, <1>7, <1>8, <1>9, <1>10 DEF IInv, LinksAreItems

-----------------------------------------------------------------------------
(* What the steps of the holder that change neither items nor the lock have
   in common: the other cores keep their place, and do not hold the lock. *)
LEMMA HolderSteps ==
    ASSUME IInv, NEW c \in Cores, Holds(c), Holds(c)',
           UNCHANGED <<inside, op>>,
           \A d \in Cores \ {c} : pc'[d] = pc[d]
    PROVE  /\ \A d \in Cores \ {c} : ~Holds(d) /\ ~Holds(d)'
           /\ HolderIsAlone' /\ inside
<1>1. \A d \in Cores \ {c} : ~Holds(d) /\ ~Holds(d)'
  BY DEF IInv, HolderIsAlone, Holds
<1>2. inside
  BY DEF IInv, HolderIsAlone
<1> QED
  BY <1>1, <1>2 DEF HolderIsAlone

LEMMA LinkLastIInv == ASSUME IInv, NEW c \in Cores, LinkLast(c) PROVE IInv'
<1> DEFINE last == At(Len(items))
           n == node[c]
           stores == {<<"prev", n, last>>, <<"next", n, HEAD>>,
                      <<"next", last, n>>, <<"prev", HEAD, n>>}
<1>1. TypeOK /\ pc[c] = "head" /\ op[c] = "push" /\ NodesAreApart /\ LinksMatchItems
  BY DEF IInv, LinksAreItems, LinkLast, HolderCompletesLinks
<1>2. n \in Nodes
  BY <1>1 DEF IInv, CallsAreWhole, TypeOK
<1>3. /\ Len(items) \in Nat /\ last \in Lines /\ At(Len(items) + 1) = HEAD
      /\ prev[HEAD] = last
  <2>1. Len(items) \in Nat /\ last \in Lines /\ At(Len(items) + 1) = HEAD
    BY <1>1, AtFacts
  <2> QED
    BY <1>1, <2>1 DEF LinksMatchItems, Linked
<1>4. pending' = [pending EXCEPT ![c] = stores]
  <2>1. PICK l \in Load(c, prev, HEAD, {HEAD}) :
          pending' = [pending EXCEPT ![c] = {<<"prev", node[c], l>>, <<"next", node[c], HEAD>>,
                                             <<"next", l, node[c]>>, <<"prev", HEAD, node[c]>>}]
    BY DEF LinkLast
  <2>2. Load(c, prev, HEAD, {HEAD}) = {prev[HEAD]}
    BY LoadsMemory
  <2>3. l = last
    BY <2>1, <2>2, <1>3
  <2> QED
    BY <2>1, <2>3
<1>5. /\ pc'[c] = "store" /\ \A d \in Cores \ {c} : pc'[d] = pc[d]
      /\ UNCHANGED <<prev, next, inside, op, node, ret, items>>
  BY <1>1 DEF TypeOK, LinkLast, Goto, lockVars, callVars
<1>6. \A d \in Cores : \A x : x \in stale'[d] => x \in stale[d]
  BY <1>1 DEF TypeOK, LinkLast, Invalidate
<1>7. TypeOK'
  <2>1. stale' \in [Cores -> SUBSET Lines]
    BY <1>1 DEF TypeOK, LinkLast, Invalidate
  <2>2. stores \in SUBSET ({"prev", "next"} \X Lines \X Lines)
    BY <1>2, <1>3 DEF Lines
  <2>3. pending' \in [Cores -> SUBSET ({"prev", "next"} \X Lines \X Lines)]
    BY <2>2, <1>1, <1>4 DEF TypeOK
  <2>4. pc' \in [Cores -> {"out", "lock", "head", "entry", "store", "data"}]
    BY <1>1 DEF TypeOK, LinkLast, Goto
  <2> QED
    BY <2>1, <2>3, <2>4, <1>1, <1>5 DEF TypeOK
<1>8. Holds(c) /\ Holds(c)'
  BY <1>1, <1>5 DEF Holds
<1>9. /\ \A d \in Cores \ {c} : ~Holds(d) /\ ~Holds(d)'
      /\ HolderIsAlone' /\ inside
  BY <1>5, <1>8, HolderSteps
<1>10. HolderCompletesLinks'
  <2>1. \A i : At(i)' = At(i) /\ (Linked(i)' <=> Linked(i))
    BY <1>5 DEF At, Linked
  <2>2. pending'[c] = stores /\ node'[c] = n
    BY <1>1, <1>4, <1>5 DEF TypeOK
  <2>3. \A i \in 0 .. Len(items) - 1 : Linked(i)'
    BY <1>1, <1>3, <2>1 DEF LinksMatchItems
  <2>4. Pushing(c)'
    BY <2>1, <2>2, <2>3, <1>5 DEF Pushing, PrevDue, NextDue
  <2> QED
    BY <2>4, <1>1, <1>5, <1>9 DEF HolderCompletesLinks, Holds
<1>11. CallsAreWhole'
  BY <1>1, <1>4, <1>5 DEF IInv, CallsAreWhole, TypeOK
<1>12. NodesAreApart'
  BY <1>1, <1>5 DEF IInv, NodesAreApart, Owns, TakesOut
<1>13. PoppedIsFresh'
  BY <1>1, <1>5, <1>6 DEF IInv, PoppedIsFresh
<1> QED
  BY <1>5, <1>7, <1>9, <1>10, <1>11, <1>12, <1>13 DEF IInv, LinksAreItems

LEMMA FirstIInv == ASSUME IInv, NEW c \in Cores, First(c) PROVE IInv'
<1>1. TypeOK /\ pc[c] = "head" /\ op[c] = "pop" /\ NodesAreApart /\ LinksMatchItems
  BY DEF IInv, LinksAreItems, First, HolderCompletesLinks
<1>2. node[c] = NULL /\ pending[c] = {}
  BY <1>1 DEF IInv, CallsAreWhole
<1>3. Len(items) \in Nat /\ next[HEAD] = At(1)
  <2>1. Len(items) \in Nat /\ At(0) = HEAD
    BY <1>1, AtFacts
  <2> QED
    BY <1>1, <2>1 DEF LinksMatchItems, Linked
<1>4. /\ \A d \in Cores \ {c} : pc'[d] = pc[d] /\ node'[d] = node[d]
      /\ UNCHANGED <<prev, next, inside, op, pending, ret, items>>
  BY <1>1 DEF TypeOK, First, Goto, lockVars
<1>5. \/ /\ items = <<>> /\ pc'[c] = "store" /\ node'[c] = NULL
         /\ pc' = [pc EXCEPT ![c] = "store"] /\ node' = node
      \/ /\ items # <<>> /\ pc'[c] = "entry" /\ node'[c] = items[1] /\ items[1] \in Nodes
         /\ pc' = [pc EXCEPT ![c] = "entry"] /\ node' = [node EXCEPT ![c] = items[1]]
  <2>1. First(c) => \/ At(1) = HEAD /\ Goto(c, "store") /\ UNCHANGED node
                    \/ /\ At(1) # HEAD /\ Goto(c, "entry")
                       /\ node' = [node EXCEPT ![c] = At(1)]
    BY <1>3, LoadsMemory DEF First
  <2>2. /\ At(1) = HEAD => items = <<>>
        /\ At(1) # HEAD => items # <<>> /\ At(1) = items[1] /\ items[1] \in Nodes
    BY <1>1, <1>3, AtFacts, FifoBufAssumption
  <2> QED
    BY <2>1, <2>2, <1>1, <1>2 DEF TypeOK, Goto
<1>6. \A d \in Cores : \A x : x \in stale'[d] => x \in stale[d]
  BY <1>1 DEF TypeOK, First, Invalidate
<1>7. TypeOK'
  <2>1. stale' \in [Cores -> SUBSET Lines]
    BY <1>1 DEF TypeOK, First, Invalidate
  <2>2. pc' \in [Cores -> {"out", "lock", "head", "entry", "store", "data"}]
    BY <1>1, <1>5 DEF TypeOK
  <2>3. node' \in [Cores -> Nodes \cup {NULL}]
    BY <1>1, <1>5 DEF TypeOK
  <2> QED
    BY <2>1, <2>2, <2>3, <1>1, <1>4 DEF TypeOK
<1>8. Holds(c) /\ Holds(c)'
  BY <1>1, <1>5 DEF Holds
<1>9. /\ \A d \in Cores \ {c} : ~Holds(d) /\ ~Holds(d)'
      /\ HolderIsAlone' /\ inside
  BY <1>4, <1>8, HolderSteps
<1>10. HolderCompletesLinks'
  <2>1. LinksMatchItems'
    BY <1>1, <1>4 DEF LinksMatchItems, Linked, At
  <2>2. pc'[c] = "store" => FindingNone(c)'
    BY <2>1, <1>2, <1>4, <1>5 DEF FindingNone
  <2>3. pc'[c] = "store" => node'[c] = NULL /\ op'[c] = "pop"
    BY <1>1, <1>4, <1>5
  <2> QED
    BY <2>1, <2>2, <2>3, <1>9 DEF HolderCompletesLinks, Holds
<1>11. CallsAreWhole'
  <2>1. \A n \in Nodes : n # NULL
    BY FifoBufAssumption
  <2> QED
    BY <2>1, <1>1, <1>2, <1>4, <1>5 DEF IInv, CallsAreWhole
<1>12. NodesAreApart'
  <2>1. \A d \in Cores \ {c} : /\ Owns(d)' <=> Owns(d)
                               /\ TakesOut(d)' <=> TakesOut(d)
    BY <1>4 DEF Owns, TakesOut
  <2>2. \A d \in Cores \ {c} : ~TakesOut(d)
    BY <1>9 DEF TakesOut, Holds
  <2>3. \A d \in Cores \ {c} : Owns(d) => \A i \in 1 .. Len(items) : items[i] # node[d]
    BY <2>2 DEF IInv, NodesAreApart
  <2>4. CASE items = <<>>
    <3>1. ~Owns(c)'
      BY <2>4, <1>5 DEF Owns
    <3> QED
      BY <3>1, <2>1, <2>2, <2>3, <1>4 DEF IInv, NodesAreApart
  <2>5. CASE items # <<>>
    <3>1. node'[c] = items[1] /\ TakesOut(c)' /\ 1 \in 1 .. Len(items)
      BY <2>5, <1>1, <1>3, <1>4, <1>5, AtFacts DEF TakesOut
    <3>2. \A d \in Cores \ {c} : Owns(d) => node'[d] # node'[c]
      BY <3>1, <2>3, <1>4
    <3> QED
      BY <3>1, <3>2, <2>1, <2>2, <2>3, <2>5, <1>4 DEF IInv, NodesAreApart
  <2> QED
    BY <2>4, <2>5
<1>13. PoppedIsFresh'
  <2>1. \A d \in Cores \ {c} : op[d] = "pop" /\ pc[d] \in {"store", "data"} => node[d] \notin stale'[d]
    BY <1>6 DEF IInv, PoppedIsFresh
  <2>2. NULL \notin stale'[c]
    BY <1>7, FifoBufAssumption DEF TypeOK, Lines
  <2> QED
    BY <2>1, <2>2, <1>4, <1>5 DEF PoppedIsFresh
<1> QED
  BY <1>4, <1>7, <1>9, <1>10, <1>11, <1>12, <1>13 DEF IInv, LinksAreItems

LEMMA UnlinkIInv == ASSUME IInv, NEW c \in Cores, Unlink(c) PROVE IInv'
<1> DEFINE n == node[c]
           stores == {<<"next", HEAD, At(2)>>, <<"prev", At(2), HEAD>>,
                      <<"prev", n, n>>, <<"next", n, n>>}
<1>1. /\ TypeOK /\ pc[c] = "entry" /\ op[c] = "pop" /\ n # NULL
      /\ NodesAreApart /\ LinksMatchItems
  BY DEF IInv, LinksAreItems, Unlink, HolderCompletesLinks, CallsAreWhole
<1>2. n \in Nodes /\ items # <<>> /\ n = items[1]
  BY <1>1 DEF TypeOK, NodesAreApart, Owns, TakesOut
<1>3. Len(items) \in Nat /\ Len(items) > 0 /\ At(0) = HEAD /\ At(1) = n /\ At(2) \in Lines
  BY <1>1, <1>2, AtFacts
<1>4. prev[n] = HEAD /\ next[n] = At(2)
  <2>1. Linked(0) /\ Linked(1)
    BY <1>1, <1>3 DEF LinksMatchItems
  <2> QED
    BY <2>1, <1>3 DEF Linked
<1>5. /\ pending' = [pending EXCEPT ![c] = stores]
      /\ Invalidate(c, {n, HEAD, At(2)})
  <2>1. PICK p \in Load(c, prev, n, {n}), q \in Load(c, next, n, {n}) :
          /\ pending' = [pending EXCEPT ![c] = {<<"next", p, q>>, <<"prev", q, p>>,
                                                <<"prev", n, n>>, <<"next", n, n>>}]
          /\ Invalidate(c, {n, p, q})
    BY DEF Unlink
  <2>2. Load(c, prev, n, {n}) = {prev[n]} /\ Load(c, next, n, {n}) = {next[n]}
    BY LoadsMemory
  <2>3. p = HEAD /\ q = At(2)
    BY <2>1, <2>2, <1>4
  <2> QED
    BY <2>1, <2>3
<1>6. /\ pc'[c] = "store" /\ \A d \in Cores \ {c} : pc'[d] = pc[d]
      /\ UNCHANGED <<prev, next, inside, op, node, ret, items>>
  BY <1>1 DEF TypeOK, Unlink, Goto, lockVars, callVars
<1>7. \A d \in Cores : \A x : x \in stale'[d] => x \in stale[d]
  BY <1>1, <1>5 DEF TypeOK, Invalidate
<1>8. TypeOK'
  <2>1. stale' \in [Cores -> SUBSET Lines]
    BY <1>1, <1>5 DEF TypeOK, Invalidate
  <2>2. stores \in SUBSET ({"prev", "next"} \X Lines \X Lines)
    BY <1>2, <1>3 DEF Lines
  <2>3. pending' \in [Cores -> SUBSET ({"prev", "next"} \X Lines \X Lines)]
    BY <2>2, <1>1, <1>5 DEF TypeOK
  <2>4. pc' \in [Cores -> {"out", "lock", "head", "entry", "store", "data"}]
    BY <1>1 DEF TypeOK, Unlink, Goto
  <2> QED
    BY <2>1, <2>3, <2>4, <1>1, <1>6 DEF TypeOK
<1>9. Holds(c) /\ Holds(c)'
  BY <1>1, <1>6 DEF Holds
<1>10. /\ \A d \in Cores \ {c} : ~Holds(d) /\ ~Holds(d)'
       /\ HolderIsAlone' /\ inside
  BY <1>6, <1>9, HolderSteps
<1>11. HolderCompletesLinks'
  <2>1. \A i : At(i)' = At(i) /\ (Linked(i)' <=> Linked(i))
    BY <1>6 DEF At, Linked
  <2>2. pending'[c] = stores /\ node'[c] = n
    BY <1>1, <1>5, <1>6 DEF TypeOK
  <2>3. \A i \in 2 .. Len(items) : Linked(i)'
    BY <1>1, <1>3, <2>1 DEF LinksMatchItems
  <2>4. Popping(c)'
    BY <2>1, <2>2, <2>3, <1>6 DEF Popping, PrevDue, NextDue
  <2> QED
    BY <2>4, <1>1, <1>6, <1>10 DEF HolderCompletesLinks, Holds
<1>12. CallsAreWhole'
  BY <1>1, <1>5, <1>6 DEF IInv, CallsAreWhole, TypeOK
<1>13. NodesAreApart'
  BY <1>1, <1>6 DEF IInv, NodesAreApart, Owns, TakesOut
<1>14. PoppedIsFresh'
  <2>1. n \notin stale'[c]
    BY <1>1, <1>5 DEF TypeOK, Invalidate
  <2> QED
    BY <2>1, <1>1, <1>6, <1>7 DEF IInv, PoppedIsFresh
<1> QED
  BY <1>6, <1>8, <1>10, <1>11, <1>12, <1>13, <1>14 DEF IInv, LinksAreItems

LEMMA TestIInv == ASSUME IInv, NEW c \in Cores, Test(c) PROVE IInv'
<1>1. TypeOK /\ pc[c] = "head" /\ op[c] = "is_empty" /\ LinksMatchItems
  BY DEF IInv, LinksAreItems, Test, HolderCompletesLinks
<1>2. /\ pc'[c] = "out" /\ \A d \in Cores \ {c} : pc'[d] = pc[d]
      /\ inside' = FALSE
      /\ UNCHANGED <<prev, next, op, node, pending, items>>
  BY <1>1 DEF TypeOK, Test, Goto, Lock!Release, callVars
<1>3. \A d \in Cores : \A x : x \in stale'[d] => x \in stale[d]
  BY <1>1 DEF TypeOK, Test, Invalidate
<1>4. TypeOK'
  <2>1. stale' \in [Cores -> SUBSET Lines]
    BY <1>1 DEF TypeOK, Test, Invalidate
  <2>2. pc' \in [Cores -> {"out", "lock", "head", "entry", "store", "data"}]
    BY <1>1 DEF TypeOK, Test, Goto
  <2> QED
    BY <2>1, <2>2, <1>1, <1>2 DEF TypeOK
<1>5. \A d \in Cores : ~Holds(d)'
  BY <1>1, <1>2 DEF IInv, HolderIsAlone, Holds
<1>6. HolderIsAlone' /\ HolderCompletesLinks'
  BY <1>2, <1>5 DEF HolderIsAlone, HolderCompletesLinks, Holds
<1>7. LinksMatchItems'
  BY <1>1, <1>2 DEF LinksMatchItems, Linked, At
<1>8. CallsAreWhole'
  BY <1>1, <1>2 DEF IInv, CallsAreWhole
<1>9. NodesAreApart'
  BY <1>1, <1>2 DEF IInv, NodesAreApart, Owns, TakesOut
<1>10. PoppedIsFresh'
  BY <1>1, <1>2, <1>3 DEF IInv, PoppedIsFresh
<1> QED
  BY <1>4, <1>6, <1>7, <1>8, <1>9, <1>10 DEF IInv, LinksAreItems

-----------------------------------------------------------------------------
(* What a store does that reaches memory. *)
StoreOf(c, link, x, y) ==
    /\ <<link, x, y>> \in pending[c]
    /\ pending' = [pending EXCEPT ![c] = @ \ {<<link, x, y>>}]
    /\ prev' = IF link = "prev" THEN [prev EXCEPT ![x] = y] ELSE prev
    /\ next' = IF link = "next" THEN [next EXCEPT ![x] = y] ELSE next
    /\ stale' = Stored(c, x)
    /\ UNCHANGED <<queue, inside, pc, op, node, ret, items>>

LEMMA CommitIsAStore ==
    ASSUME TypeOK, NEW c \in Cores, Commit(c)
    PROVE  \E link \in {"prev", "next"}, x, y \in Lines : StoreOf(c, link, x, y)
<1>1. PICK s \in pending[c] :
        LET link == s[1]
            written(l, mem) == IF link = l THEN [mem EXCEPT ![s[2]] = s[3]] ELSE mem
        IN  /\ pending' = [pending EXCEPT ![c] = @ \ {s}]
            /\ prev' = written("prev", prev)
            /\ next' = written("next", next)
            /\ stale' = Stored(c, s[2])
            /\ UNCHANGED <<lockVars, pc, callVars, ret, items>>
  BY DEF Commit
<1>2. s \in {"prev", "next"} \X Lines \X Lines
  BY DEF TypeOK
<1>3. PICK link \in {"prev", "next"}, x, y \in Lines : s = <<link, x, y>>
  BY <1>2
<1>4. s[1] = link /\ s[2] = x /\ s[3] = y
  BY <1>3
<1>5. StoreOf(c, link, x, y)
  BY <1>1, <1>3, <1>4 DEF StoreOf, lockVars, callVars
<1> QED
  BY <1>5

(* A link that is due stays due, if no pending store of the core gives it
   another value. *)
LEMMA DueKept ==
    ASSUME TypeOK, NEW c \in Cores, NEW link \in {"prev", "next"}, NEW x \in Lines,
           NEW y \in Lines, StoreOf(c, link, x, y), NEW u \in Lines, NEW v \in Lines
    PROVE  /\ NextDue(c, u, v) /\ (link = "next" /\ x = u => y = v) => NextDue(c, u, v)'
           /\ PrevDue(c, u, v) /\ (link = "prev" /\ x = u => y = v) => PrevDue(c, u, v)'
<1>1. CASE link = "next"
  <2>1. prev' = prev /\ next' = [next EXCEPT ![x] = y]
    BY <1>1 DEF StoreOf
  <2>2. pending'[c] = pending[c] \ {<<"next", x, y>>}
    BY <1>1 DEF StoreOf, TypeOK
  <2>3. CASE x = u
    BY <2>1, <2>2, <2>3, <1>1 DEF NextDue, PrevDue, TypeOK
  <2>4. CASE x # u
    BY <2>1, <2>2, <2>4, <1>1 DEF NextDue, PrevDue, TypeOK
  <2> QED
    BY <2>3, <2>4
<1>2. CASE link = "prev"
  <2>1. next' = next /\ prev' = [prev EXCEPT ![x] = y]
    BY <1>2 DEF StoreOf
  <2>2. pending'[c] = pending[c] \ {<<"prev", x, y>>}
    BY <1>2 DEF StoreOf, TypeOK
  <2>3. CASE x = u
    BY <2>1, <2>2, <2>3, <1>2 DEF NextDue, PrevDue, TypeOK
  <2>4. CASE x # u
    BY <2>1, <2>2, <2>4, <1>2 DEF NextDue, PrevDue, TypeOK
  <2> QED
    BY <2>3, <2>4
<1> QED
  BY <1>1, <1>2

(* A store leaves alone the links of two neighbours that it does not name. *)
LEMMA LinkedKept ==
    ASSUME TypeOK, NodesAreApart, NEW c \in Cores, NEW link \in {"prev", "next"},
           NEW x \in Lines, NEW y \in Lines, StoreOf(c, link, x, y), NEW i \in Int, Linked(i),
           link = "next" => x # At(i), link = "prev" => x # At(i + 1)
    PROVE  Linked(i)'
<1>1. At(i) \in Lines /\ At(i + 1) \in Lines
  BY AtFacts
<1>2. At(i)' = At(i) /\ items' = items
  BY DEF StoreOf, At
<1>3. next'[At(i)] = next[At(i)]
  BY <1>1 DEF StoreOf, TypeOK
<1>4. prev'[At(i + 1)] = prev[At(i + 1)]
  BY <1>1 DEF StoreOf, TypeOK
<1> QED
  BY <1>2, <1>3, <1>4 DEF Linked, At

LEMMA PushStore ==
    ASSUME IInv, NEW c \in Cores, NEW link \in {"prev", "next"}, NEW x \in Lines,
           NEW y \in Lines, StoreOf(c, link, x, y), pc[c] = "store", op[c] = "push"
    PROVE  Pushing(c)' /\ (x = node[c] \/ x = HEAD \/ \E i \in 1 .. Len(items) : x = items[i])
<1> DEFINE n == node[c]
           last == At(Len(items))
<1>1. TypeOK /\ NodesAreApart /\ Pushing(c)
  BY DEF IInv, LinksAreItems, HolderCompletesLinks
<1>2. n \in Nodes /\ n # HEAD /\ \A i \in 1 .. Len(items) : items[i] # n
  BY FifoBufAssumption DEF IInv, CallsAreWhole, NodesAreApart, Owns, TakesOut, LinksAreItems, TypeOK
<1>3. Len(items) \in Nat /\ last \in Lines /\ last # n /\ n \in Lines /\ HEAD \in Lines
  BY <1>1, <1>2, AtFacts DEF Lines
<1>4. /\ link = "prev" => (x = n /\ y = last) \/ (x = HEAD /\ y = n)
      /\ link = "next" => (x = n /\ y = HEAD) \/ (x = last /\ y = n)
  BY <1>1 DEF StoreOf, Pushing
<1>5. /\ \A k : At(k)' = At(k)
      /\ node' = node /\ items' = items
  BY DEF StoreOf, At
<1>6. /\ PrevDue(c, n, last)' /\ NextDue(c, n, HEAD)'
      /\ NextDue(c, last, n)' /\ PrevDue(c, HEAD, n)'
  <2>1. /\ PrevDue(c, n, last) /\ NextDue(c, n, HEAD)
        /\ NextDue(c, last, n) /\ PrevDue(c, HEAD, n)
    BY <1>1 DEF Pushing
  <2> HIDE DEF n, last
  <2>2. \A u, v \in Lines :
          /\ NextDue(c, u, v) /\ (link = "next" /\ x = u => y = v) => NextDue(c, u, v)'
          /\ PrevDue(c, u, v) /\ (link = "prev" /\ x = u => y = v) => PrevDue(c, u, v)'
    BY <1>1, DueKept
  <2>3. n' = n /\ last' = last
    BY <1>5 DEF n, last
  <2>4. PrevDue(c, n, last)'
    BY <2>1, <2>2, <2>3, <1>2, <1>3, <1>4 DEF PrevDue
  <2>5. NextDue(c, n, HEAD)'
    BY <2>1, <2>2, <2>3, <1>2, <1>3, <1>4 DEF NextDue
  <2>6. NextDue(c, last, n)'
    BY <2>1, <2>2, <2>3, <1>2, <1>3, <1>4 DEF NextDue
  <2>7. PrevDue(c, HEAD, n)'
    BY <2>1, <2>2, <2>3, <1>2, <1>3, <1>4 DEF PrevDue
  <2> QED
    BY <2>4, <2>5, <2>6, <2>7
<1>7. ASSUME NEW i \in 0 .. Len(items) - 1
      PROVE  Linked(i)'
  <2>1. Linked(i) /\ i \in Int /\ i + 1 \in 1 .. Len(items) /\ i \in 0 .. Len(items)
    BY <1>1, <1>3 DEF Pushing
  <2>2. At(i) # last /\ At(i) # n /\ At(i + 1) # n /\ At(i + 1) # HEAD
    BY <2>1, <1>1, <1>2, <1>3, AtFacts, FifoBufAssumption
  <2> QED
    BY <2>1, <2>2, <1>1, <1>4, LinkedKept
<1>8. pending'[c] \subseteq pending[c]
  BY <1>1 DEF StoreOf, TypeOK
<1>9. Pushing(c)'
  BY <1>1, <1>5, <1>6, <1>7, <1>8 DEF Pushing
<1>10. last = HEAD \/ \E i \in 1 .. Len(items) : last = items[i]
  BY <1>1, <1>3, AtFacts
<1> QED
  BY <1>4, <1>9, <1>10

LEMMA PopStore ==
    ASSUME IInv, NEW c \in Cores, NEW link \in {"prev", "next"}, NEW x \in Lines,
           NEW y \in Lines, StoreOf(c, link, x, y), pc[c] = "store", op[c] = "pop",
           node[c] # NULL
    PROVE  Popping(c)' /\ (x = node[c] \/ x = HEAD \/ \E i \in 1 .. Len(items) : x = items[i])
<1> DEFINE n == node[c]
           second == At(2)
<1>1. TypeOK /\ NodesAreApart /\ Popping(c)
  BY DEF IInv, LinksAreItems, HolderCompletesLinks
<1>2. n \in Nodes /\ n # HEAD /\ items # <<>> /\ n = items[1]
  BY <1>1, FifoBufAssumption DEF NodesAreApart, Owns, TakesOut, TypeOK
<1>3. /\ Len(items) \in Nat /\ Len(items) > 0 /\ second \in Lines /\ n = At(1)
      /\ second # n /\ n \in Lines /\ HEAD \in Lines /\ At(0) = HEAD
  BY <1>1, <1>2, AtFacts DEF Lines
<1>4. /\ link = "prev" => (x = second /\ y = HEAD) \/ (x = n /\ y = n)
      /\ link = "next" => (x = HEAD /\ y = second) \/ (x = n /\ y = n)
  BY <1>1 DEF StoreOf, Popping
<1>5. /\ \A k : At(k)' = At(k)
      /\ node' = node /\ items' = items
  BY DEF StoreOf, At
<1>6. NextDue(c, HEAD, second)' /\ PrevDue(c, second, HEAD)'
  <2>1. NextDue(c, HEAD, second) /\ PrevDue(c, second, HEAD)
    BY <1>1 DEF Popping
  <2> HIDE DEF n, second
  <2>2. \A u, v \in Lines :
          /\ NextDue(c, u, v) /\ (link = "next" /\ x = u => y = v) => NextDue(c, u, v)'
          /\ PrevDue(c, u, v) /\ (link = "prev" /\ x = u => y = v) => PrevDue(c, u, v)'
    BY <1>1, DueKept
  <2>3. n' = n /\ second' = second
    BY <1>5 DEF n, second
  <2> QED
    BY <2>1, <2>2, <2>3, <1>2, <1>3, <1>4 DEF NextDue, PrevDue
<1>7. ASSUME NEW i \in 2 .. Len(items)
      PROVE  Linked(i)'
  <2>1. Linked(i) /\ i \in Int /\ i + 1 \in 3 .. Len(items) + 1
    BY <1>1, <1>3 DEF Popping
  <2>2. At(i) # HEAD /\ At(i) # n /\ second \in Nodes /\ second # HEAD
    BY <2>1, <1>1, <1>2, <1>3, AtFacts, FifoBufAssumption
  <2>3. At(i + 1) # n /\ At(i + 1) # second
    <3>1. CASE i = Len(items)
      BY <3>1, <2>1, <2>2, <1>1, <1>2, <1>3, AtFacts
    <3>2. CASE i + 1 \in 0 .. Len(items)
      BY <3>2, <2>1, <1>1, <1>3, AtFacts
    <3> QED
      BY <3>1, <3>2, <2>1, <1>3
  <2> QED
    BY <2>1, <2>2, <2>3, <1>1, <1>4, LinkedKept
<1>8. pending'[c] \subseteq pending[c]
  BY <1>1 DEF StoreOf, TypeOK
<1>9. Popping(c)'
  BY <1>1, <1>5, <1>6, <1>7, <1>8 DEF Popping
<1>10. second = HEAD \/ \E i \in 1 .. Len(items) : second = items[i]
  BY <1>1, <1>3, AtFacts
<1> QED
  BY <1>4, <1>9, <1>10

LEMMA CommitIInv == ASSUME IInv, NEW c \in Cores, Commit(c) PROVE IInv'
<1>1. TypeOK /\ NodesAreApart
  BY DEF IInv, LinksAreItems
<1>2. PICK link \in {"prev", "next"}, x, y \in Lines : StoreOf(c, link, x, y)
  BY <1>1, CommitIsAStore
<1>3. pending[c] # {} /\ pc[c] = "store" /\ op[c] \in {"push", "pop"}
  BY <1>2 DEF StoreOf, IInv, CallsAreWhole
<1>4. op[c] = "pop" => node[c] # NULL
  BY <1>3 DEF IInv, HolderCompletesLinks, FindingNone
<1>5. /\ UNCHANGED <<inside, pc, op, node, ret, items>>
      /\ \A d \in Cores \ {c} : pending'[d] = pending[d]
      /\ pending'[c] \subseteq pending[c]
  BY <1>1, <1>2 DEF StoreOf, TypeOK
<1>6. Holds(c)
  BY <1>3 DEF Holds
<1>7. /\ \A d \in Cores \ {c} : ~Holds(d) /\ ~Holds(d)'
      /\ HolderIsAlone' /\ inside
  BY <1>5, <1>6, HolderSteps DEF Holds
<1>8. /\ op[c] = "push" => Pushing(c)'
      /\ op[c] = "pop" => Popping(c)'
      /\ x = node[c] \/ x = HEAD \/ \E i \in 1 .. Len(items) : x = items[i]
  BY <1>2, <1>3, <1>4, PushStore, PopStore
<1>9. TypeOK'
  <2>1. prev' \in [Lines -> Lines \cup {NULL}] /\ next' \in [Lines -> Lines \cup {NULL}]
    BY <1>1, <1>2 DEF TypeOK, StoreOf
  <2>2. stale' \in [Cores -> SUBSET Lines]
    BY <1>1, <1>2 DEF TypeOK, StoreOf, Stored
  <2>3. pending' \in [Cores -> SUBSET ({"prev", "next"} \X Lines \X Lines)]
    BY <1>1, <1>2 DEF TypeOK, StoreOf
  <2> QED
    BY <2>1, <2>2, <2>3, <1>1, <1>5 DEF TypeOK
<1>10. HolderCompletesLinks'
  BY <1>3, <1>4, <1>5, <1>7, <1>8 DEF HolderCompletesLinks, Holds
<1>11. CallsAreWhole'
  BY <1>3, <1>5 DEF IInv, CallsAreWhole
<1>12. NodesAreApart'
  BY <1>5 DEF IInv, NodesAreApart, Owns, TakesOut
<1>13. PoppedIsFresh'
  <2> SUFFICES ASSUME NEW d \in Cores, op[d] = "pop", pc[d] \in {"store", "data"},
                      node[d] \in stale'[d]
               PROVE  FALSE
    BY <1>5 DEF PoppedIsFresh
  <2>1. node[d] \notin stale[d]
    BY DEF IInv, PoppedIsFresh
  <2>2. d # c /\ node[d] = x
    BY <2>1, <1>1, <1>2 DEF StoreOf, Stored, TypeOK
  <2>3. pc[d] = "data"
    BY <2>2, <1>7 DEF Holds
  <2>4. Owns(d) /\ ~TakesOut(d) /\ Owns(c)
    BY <2>3, <1>3, <1>4 DEF Owns, TakesOut, IInv, CallsAreWhole
  <2>5. node[d] # node[c] /\ \A i \in 1 .. Len(items) : items[i] # node[d]
    BY <2>2, <2>4, <1>1 DEF NodesAreApart
  <2>6. node[d] # HEAD
    BY <1>1, FifoBufAssumption DEF TypeOK
  <2> QED
    BY <2>2, <2>5, <2>6, <1>8
<1> QED
  BY <1>5, <1>7, <1>9, <1>10, <1>11, <1>12, <1>13 DEF IInv, LinksAreItems

-----------------------------------------------------------------------------
(* When the stores of the holder are complete, the links are those of the
   items as they are after its unlock. *)
LEMMA LeaveLinks ==
    ASSUME IInv, NEW c \in Cores, pc[c] = "store", pending[c] = {},
           UNCHANGED <<prev, next>>,
           \/ op[c] = "push" /\ items' = Append(items, node[c])
           \/ op[c] = "pop" /\ node[c] = NULL /\ items' = items
           \/ op[c] = "pop" /\ node[c] # NULL /\ items' = Tail(items)
    PROVE  LinksMatchItems'
<1>1. TypeOK /\ NodesAreApart /\ Len(items) \in Nat
  BY AtFacts DEF IInv, LinksAreItems
<1>2. CASE op[c] = "push" /\ items' = Append(items, node[c])
  <2> DEFINE n == node[c]
             len == Len(items)
  <2>1. n \in Nodes /\ Pushing(c)
    BY <1>1, <1>2 DEF IInv, CallsAreWhole, HolderCompletesLinks, TypeOK
  <2>2. /\ prev[n] = At(len) /\ next[n] = HEAD /\ next[At(len)] = n /\ prev[HEAD] = n
        /\ \A i \in 0 .. len - 1 : Linked(i)
    BY <2>1 DEF Pushing, PrevDue, NextDue
  <2>3. /\ Len(items') = len + 1
        /\ \A i \in 0 .. len : At(i)' = At(i)
        /\ \A k \in Int : k = len + 1 => At(k)' = n
        /\ \A k \in Int : k = len + 2 => At(k)' = HEAD
    BY <2>1, <1>1, <1>2, AppendFacts
  <2> HIDE DEF n, len
  <2>4. ASSUME NEW i \in 0 .. Len(items') PROVE Linked(i)'
    <3>1. len \in Nat /\ i \in Int /\ i + 1 \in Int
      BY <1>1, <2>3 DEF len
    <3>2. CASE i < len
      <4>1. At(i)' = At(i) /\ At(i + 1)' = At(i + 1) /\ Linked(i)
        BY <2>2, <2>3, <3>1, <3>2
      <4> QED
        BY <4>1 DEF Linked
    <3>3. CASE i = len
      <4>1. At(i)' = At(len) /\ At(i + 1)' = n
        BY <2>3, <3>1, <3>3
      <4> QED
        BY <4>1, <2>2 DEF Linked
    <3>4. CASE i = len + 1
      <4>1. At(i)' = n /\ At(i + 1)' = HEAD
        BY <2>3, <3>1, <3>4
      <4> QED
        BY <4>1, <2>2 DEF Linked
    <3> QED
      BY <3>1, <3>2, <3>3, <3>4, <2>3
  <2> QED
    BY <2>4 DEF LinksMatchItems
<1>3. CASE op[c] = "pop" /\ node[c] = NULL /\ items' = items
  <2>1. LinksMatchItems
    BY <1>3 DEF IInv, HolderCompletesLinks, FindingNone
  <2> QED
    BY <2>1, <1>3 DEF LinksMatchItems, Linked, At
<1>4. CASE op[c] = "pop" /\ node[c] # NULL /\ items' = Tail(items)
  <2> DEFINE len == Len(items)
  <2>1. Popping(c) /\ items # <<>>
    BY <1>1, <1>4 DEF IInv, HolderCompletesLinks, NodesAreApart, Owns, TakesOut
  <2>2. /\ next[HEAD] = At(2) /\ prev[At(2)] = HEAD
        /\ \A i \in 2 .. len : Linked(i)
    BY <2>1 DEF Popping, PrevDue, NextDue
  <2>3. /\ Len(items') = len - 1 /\ len > 0
        /\ \A i \in 1 .. len : At(i)' = At(i + 1)
        /\ At(0)' = HEAD
    <3>1. len > 0
      BY <2>1, <1>1, AtFacts
    <3>2. /\ Len(items') = Len(items) - 1
          /\ \A i \in 1 .. Len(items) : At(i)' = At(i + 1)
          /\ At(0)' = HEAD
      BY <2>1, <1>1, <1>4, TailFacts
    <3> QED
      BY <3>1, <3>2
  <2> HIDE DEF len
  <2>4. ASSUME NEW i \in 0 .. Len(items') PROVE Linked(i)'
    <3>1. len \in Nat /\ i \in Int /\ i + 1 \in 1 .. len
      BY <1>1, <2>3 DEF len
    <3>2. CASE i = 0
      <4>1. At(i)' = HEAD /\ At(i + 1)' = At(2)
        BY <2>3, <3>1, <3>2
      <4> QED
        BY <4>1, <2>2 DEF Linked
    <3>3. CASE i > 0
      <4>1. At(i)' = At(i + 1) /\ At(i + 1)' = At(i + 1 + 1) /\ Linked(i + 1)
        BY <2>2, <2>3, <3>1, <3>3
      <4> QED
        BY <4>1 DEF Linked
    <3> QED
      BY <3>1, <3>2, <3>3
  <2> QED
    BY <2>4 DEF LinksMatchItems
<1> QED
  BY <1>2, <1>3, <1>4

LEMMA UnlockIInv == ASSUME IInv, NEW c \in Cores, Unlock(c) PROVE IInv'
<1> DEFINE to == IF op[c] = "pop" /\ node[c] # NULL THEN "data" ELSE "out"
<1>1. TypeOK /\ NodesAreApart /\ pc[c] = "store" /\ pending[c] = {} /\ Len(items) \in Nat
  BY AtFacts DEF IInv, LinksAreItems, Unlock
<1>2. \/ op[c] = "push" /\ items' = Append(items, node[c])
      \/ op[c] = "pop" /\ node[c] = NULL /\ items' = items
      \/ op[c] = "pop" /\ node[c] # NULL /\ items' = Tail(items)
  BY DEF Unlock, Leave
<1>3. /\ UNCHANGED <<prev, next, stale, op, node, pending>>
      /\ inside' = FALSE /\ pc' = [pc EXCEPT ![c] = to]
  BY DEF Unlock, Leave, Goto, Lock!Release, linkVars, callVars
<1>4. pc'[c] = to /\ \A d \in Cores \ {c} : pc'[d] = pc[d]
  BY <1>1, <1>3 DEF TypeOK
<1>5. LinksMatchItems'
  BY <1>1, <1>2, <1>3, LeaveLinks
<1>6. TypeOK'
  BY <1>1, <1>3 DEF TypeOK
<1>7. \A d \in Cores : ~Holds(d)' /\ (d # c => ~Holds(d))
  BY <1>1, <1>4 DEF IInv, HolderIsAlone, Holds
<1>8. HolderIsAlone' /\ HolderCompletesLinks'
  BY <1>3, <1>7 DEF HolderIsAlone, HolderCompletesLinks, Holds
<1>9. CallsAreWhole'
  BY <1>1, <1>3, <1>4 DEF IInv, CallsAreWhole
<1>10. PoppedIsFresh'
  BY <1>1, <1>3, <1>4 DEF IInv, PoppedIsFresh
<1>11. NodesAreApart'
  <2>1. \A d \in Cores \ {c} : /\ Owns(d)' <=> Owns(d)
                               /\ ~TakesOut(d) /\ ~TakesOut(d)'
    BY <1>3, <1>4, <1>7 DEF Owns, TakesOut, Holds
  <2>2. \A d \in Cores \ {c} : Owns(d) => \A i \in 1 .. Len(items) : items[i] # node[d]
    BY <2>1, <1>1 DEF NodesAreApart
  <2>3. Owns(c)' => Owns(c)
    BY <1>1, <1>3 DEF Owns
  <2>4. \A d, e \in Cores : Owns(d)' /\ Owns(e)' /\ node'[d] = node'[e] => d = e
    BY <2>1, <2>3, <1>1, <1>3 DEF NodesAreApart
  <2>5. CASE op[c] = "push" /\ items' = Append(items, node[c])
    <3>1. Owns(c) /\ ~TakesOut(c) /\ node[c] \in Nodes
      BY <2>5, <1>1 DEF Owns, TakesOut, IInv, CallsAreWhole, TypeOK
    <3>2. \A i \in 1 .. Len(items) : items[i] # node[c]
      BY <3>1, <1>1 DEF NodesAreApart
    <3>3. /\ items' \in Seq(Nodes) /\ Len(items') = Len(items) + 1
          /\ \A i \in 1 .. Len(items) : items'[i] = items[i]
          /\ items'[Len(items) + 1] = node[c]
      BY <3>1, <2>5, <1>1, AppendFacts
    <3>4. \A i, j \in 1 .. Len(items') : items'[i] = items'[j] => i = j
      BY <3>2, <3>3, <1>1 DEF NodesAreApart
    <3>5. ~Owns(c)'
      BY <2>5, <1>4 DEF Owns
    <3>6. \A d \in Cores \ {c} : Owns(d) => node[d] # node[c]
      BY <3>1, <1>1 DEF NodesAreApart
    <3>7. \A d \in Cores \ {c} : Owns(d) => \A i \in 1 .. Len(items') : items'[i] # node[d]
      BY <3>3, <3>6, <2>2, <1>1
    <3> QED
      BY <2>1, <2>4, <3>3, <3>4, <3>5, <3>7, <1>3 DEF NodesAreApart
  <2>6. CASE op[c] = "pop" /\ node[c] = NULL /\ items' = items
    <3>1. ~Owns(c)'
      BY <2>6, <1>3 DEF Owns
    <3> QED
      BY <2>1, <2>2, <2>4, <2>6, <3>1, <1>1, <1>3 DEF NodesAreApart
  <2>7. CASE op[c] = "pop" /\ node[c] # NULL /\ items' = Tail(items)
    <3>1. Owns(c) /\ TakesOut(c) /\ ~TakesOut(c)'
      BY <2>7, <1>1, <1>3, <1>4 DEF Owns, TakesOut
    <3>2. items # <<>> /\ node[c] = items[1] /\ Len(items) > 0
      BY <3>1, <1>1, AtFacts DEF NodesAreApart
    <3>3. /\ items' \in Seq(Nodes) /\ Len(items') = Len(items) - 1
          /\ \A i \in 1 .. Len(items) - 1 : items'[i] = items[i + 1]
      BY <3>2, <2>7, <1>1, TailFacts
    <3>4. \A i, j \in 1 .. Len(items') : items'[i] = items'[j] => i = j
      BY <3>3, <1>1 DEF NodesAreApart
    <3>5. \A i \in 1 .. Len(items') : items'[i] # node[c]
      BY <3>2, <3>3, <1>1 DEF NodesAreApart
    <3>6. \A d \in Cores \ {c} : Owns(d) => \A i \in 1 .. Len(items') : items'[i] # node[d]
      BY <3>3, <2>2, <1>1
    <3> QED
      BY <2>1, <2>4, <3>1, <3>3, <3>4, <3>5, <3>6, <1>3 DEF NodesAreApart
  <2> QED
    BY <2>5, <2>6, <2>7, <1>2
<1> QED
  BY <1>3, <1>5, <1>6, <1>8, <1>9, <1>10, <1>11 DEF IInv, LinksAreItems

-----------------------------------------------------------------------------
LEMMA NextIInv == IInv /\ [Next]_vars => IInv'
<1> SUFFICES ASSUME IInv, [Next]_vars PROVE IInv'
  OBVIOUS
<1>1. ASSUME NEW c \in Cores, Application(c) \/ Step(c) PROVE IInv'
  BY <1>1, ApplicationIInv, EnterIInv, LinkLastIInv, FirstIInv, UnlinkIInv, TestIInv,
     CommitIInv, UnlockIInv, UseIInv DEF Step
<1>2. CASE UNCHANGED vars
  <2>1. UNCHANGED <<prev, next, stale, inside, pc, op, node, pending, ret, items>>
    BY <1>2 DEF vars, linkVars, lockVars, callVars
  <2>2. TypeOK' /\ HolderIsAlone' /\ CallsAreWhole' /\ PoppedIsFresh'
    BY <2>1 DEF IInv, LinksAreItems, TypeOK, HolderIsAlone, Holds, CallsAreWhole, PoppedIsFresh
  <2>3. NodesAreApart'
    BY <2>1 DEF IInv, NodesAreApart, Owns, TakesOut
  <2>4. LinksMatchItems' <=> LinksMatchItems
    BY <2>1 DEF LinksMatchItems, Linked, At
  <2>5. \A c \in Cores : /\ Pushing(c)' <=> Pushing(c)
                         /\ Popping(c)' <=> Popping(c)
                         /\ FindingNone(c)' <=> FindingNone(c)
    BY <2>1, <2>4 DEF Pushing, Popping, FindingNone, NextDue, PrevDue, Linked, At
  <2>6. HolderCompletesLinks'
    BY <2>1, <2>4, <2>5 DEF IInv, HolderCompletesLinks
  <2> QED
    BY <2>1, <2>2, <2>3, <2>4, <2>6 DEF IInv, LinksAreItems
<1> QED
  BY <1>1, <1>2 DEF Next

(* The inductive invariant of the buffer: one core at a time works on the
   links, and its stores, in whatever order they complete, turn the list of
   the old items into that of the new ones. *)
THEOREM FifoBufInvariant == Spec => []IInv
<1> QED
  BY InitIInv, NextIInv, PTL DEF Spec

(* Whenever the lock is free the links in memory are those of the circular
   list of the nodes in the buffer. *)
THEOREM FifoBufLinks == Spec => []LinksAreItems
<1>1. IInv => LinksAreItems
  BY DEF IInv
<1> QED
  BY <1>1, FifoBufInvariant, PTL

(* A core never reads the data of the node it popped from an old copy. *)
THEOREM FifoBufData == Spec => []DataIsFresh
<1>1. IInv => DataIsFresh
  BY DEF IInv, PoppedIsFresh, CallsAreWhole, DataIsFresh
<1> QED
  BY <1>1, FifoBufInvariant, PTL

-----------------------------------------------------------------------------
(* The unlock of a push or a pop, and the test, are the steps of the queue;
   no other step changes what the queue is. *)
LEMMA UnlockIsQueueStep ==
    ASSUME IInv, NEW c \in Cores, Unlock(c)
    PROVE  Q!Next
<1>1. TypeOK /\ NodesAreApart /\ pc[c] = "store"
  BY DEF IInv, LinksAreItems, Unlock
<1>2. CASE op[c] = "push" /\ Leave(c, "out", NULL, Append(items, node[c]))
  <2>1. node[c] \in Nodes /\ Owns(c) /\ ~TakesOut(c)
    BY <1>1, <1>2 DEF IInv, CallsAreWhole, TypeOK, Owns, TakesOut
  <2>2. \A i \in 1 .. Len(items) : items[i] # node[c]
    BY <2>1, <1>1 DEF NodesAreApart
  <2>3. Q!Push(c, node[c])
    BY <2>2, <1>2 DEF Q!Push, Q!Returns, Q!Contains, Leave
  <2> QED
    BY <2>1, <2>3 DEF Q!Next
<1>3. CASE op[c] = "pop" /\ node[c] = NULL /\ Leave(c, "out", NULL, items)
  <2>1. items = <<>>
    BY <1>1, <1>3 DEF IInv, HolderCompletesLinks, FindingNone
  <2> QED
    BY <2>1, <1>3 DEF Q!Next, Q!Pop, Q!Returns, Leave
<1>4. CASE op[c] = "pop" /\ node[c] # NULL /\ Leave(c, "data", node[c], Tail(items))
  <2>1. items # <<>> /\ node[c] = items[1] /\ items \in Seq(Nodes)
    BY <1>1, <1>4 DEF NodesAreApart, Owns, TakesOut
  <2>2. Head(items) = node[c]
    BY <2>1
  <2> QED
    BY <2>1, <2>2, <1>4 DEF Q!Next, Q!Pop, Q!Returns, Leave
<1> QED
  BY <1>2, <1>3, <1>4 DEF Unlock

LEMMA TestIsQueueStep ==
    ASSUME IInv, NEW c \in Cores, Test(c)
    PROVE  Q!Next
<1>1. TypeOK /\ NodesAreApart /\ LinksMatchItems
  BY DEF IInv, LinksAreItems, HolderCompletesLinks, Test
<1>2. PICK first \in Load(c, next, HEAD, {HEAD}) : ret' = [ret EXCEPT ![c] = (first = HEAD)]
  BY DEF Test
<1>3. first = next[HEAD]
  BY <1>2, LoadsMemory
<1>4. next[HEAD] = At(1) /\ (At(1) = HEAD <=> items = <<>>)
  <2>1. Len(items) \in Nat /\ At(0) = HEAD /\ (At(1) = HEAD <=> items = <<>>)
    BY <1>1, AtFacts, FifoBufAssumption
  <2> QED
    BY <2>1, <1>1 DEF LinksMatchItems, Linked
<1>5. (first = HEAD) = (items = <<>>)
  BY <1>3, <1>4
<1>6. items' = items /\ ret' = [ret EXCEPT ![c] = (items = <<>>)]
  BY <1>2, <1>5 DEF Test
<1>7. Q!IsEmpty(c)
  BY <1>6 DEF Q!IsEmpty, Q!Returns
<1> QED
  BY <1>7 DEF Q!Next

LEMMA StepIsQueueStep == IInv /\ [Next]_vars => [Q!Next]_Q!vars
<1> SUFFICES ASSUME IInv, [Next]_vars PROVE Q!Next \/ UNCHANGED <<items, ret>>
  BY DEF Q!vars
<1>1. ASSUME NEW c \in Cores, Application(c) PROVE UNCHANGED <<items, ret>>
  BY <1>1 DEF Application, Push, Pop, IsEmpty, Call
<1>2. ASSUME NEW c \in Cores, Step(c) PROVE Q!Next \/ UNCHANGED <<items, ret>>
  <2>1. CASE Unlock(c)
    BY <2>1, UnlockIsQueueStep
  <2>2. CASE Test(c)
    BY <2>2, TestIsQueueStep
  <2>3. CASE Enter(c) \/ LinkLast(c) \/ First(c) \/ Unlink(c) \/ Commit(c) \/ Use(c)
    BY <2>3 DEF Enter, LinkLast, First, Unlink, Commit, Use
  <2> QED
    BY <1>2, <2>1, <2>2, <2>3 DEF Step
<1>3. CASE UNCHANGED vars
  BY <1>3 DEF vars
<1> QED
  BY <1>1, <1>2, <1>3 DEF Next

(* The buffer implements a queue with atomic operations: nodes come out in
   the order of the pushes, each once, whatever the caches hold. *)
THEOREM FifoBufIsQueue == Spec => ImplementsQueue
<1>1. Init => Q!Init
  BY DEF Init, Q!Init
<1> QED
  BY <1>1, StepIsQueueStep, FifoBufInvariant, PTL DEF Spec, ImplementsQueue, Q!Spec
=============================================================================
