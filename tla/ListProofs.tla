----------------------------- MODULE ListProofs -----------------------------
(***************************************************************************)
(* Theorems about List, for any number of nodes: the links always match,   *)
(* the walks agree, and the list is the deque it stands for.  (The first   *)
(* part is about the links alone; the second shows what a walk of a ring   *)
(* meets; the third that the nodes always form a ring.)                    *)
(***************************************************************************)
EXTENDS List, FiniteSetTheorems, FunctionTheorems, SequenceTheorems, WellFoundedInduction, TLAPS

LEMMA ListInit == Init => IInv
BY ListAssumption DEF Init, IInv, TypeOK, LinksMatch, Lines

(* Inserting a node n between two neighbours a and b keeps the links. *)
LEMMA InsertKeepsLinks ==
    ASSUME IInv, NEW n \in Nodes \ linked,
           NEW a \in linked \cup {HEAD}, NEW b \in linked \cup {HEAD},
           next[a] = b, prev[b] = a,
           prev' = [prev EXCEPT ![n] = a, ![b] = n],
           next' = [next EXCEPT ![n] = b, ![a] = n], Added(n)
    PROVE  IInv'
<1>1. n # HEAD /\ a # n /\ b # n /\ n \in Lines /\ a \in Lines /\ b \in Lines
  BY ListAssumption DEF IInv, TypeOK, Lines
<1>2. TypeOK'
  BY <1>1 DEF IInv, TypeOK, Lines, Added
<1>3. /\ linked' = linked \cup {n} /\ removed' = removed \ {n}
      /\ HEAD \notin removed
  BY ListAssumption DEF Added, IInv, TypeOK
<1>4. /\ next'[n] = b /\ prev'[n] = a /\ next'[a] = n /\ prev'[b] = n
      /\ \A x \in Lines : /\ x # n /\ x # a => next'[x] = next[x]
                          /\ x # n /\ x # b => prev'[x] = prev[x]
  BY <1>1 DEF IInv, TypeOK
<1>5. ASSUME NEW x \in linked' \cup {HEAD}
      PROVE  /\ next'[x] \in linked' \cup {HEAD} /\ prev'[x] \in linked' \cup {HEAD}
             /\ prev'[next'[x]] = x /\ next'[prev'[x]] = x
  <2>1. CASE x = n
    BY <1>3, <1>4, <2>1
  <2>2. CASE x # n
    <3>1. /\ x \in linked \cup {HEAD} /\ x \in Lines
          /\ next[x] \in linked \cup {HEAD} /\ prev[x] \in linked \cup {HEAD}
          /\ prev[next[x]] = x /\ next[prev[x]] = x
      BY <1>3, <2>2 DEF IInv, TypeOK, LinksMatch, Lines
    <3>2. /\ next[x] \in Lines /\ prev[x] \in Lines
          /\ next[x] # n /\ prev[x] # n
      BY <1>1, <3>1 DEF IInv, TypeOK, Lines
    <3>3. next'[x] \in linked' \cup {HEAD} /\ prev'[next'[x]] = x
      <4>1. CASE x = a
        BY <1>3, <1>4, <4>1
      <4>2. CASE x # a
        <5>1. next'[x] = next[x] /\ next[x] # b
          BY <1>4, <2>2, <3>1, <4>2
        <5>2. prev'[next[x]] = x
          BY <1>4, <3>1, <3>2, <5>1
        <5> QED
          BY <1>3, <3>1, <5>1, <5>2
      <4> QED
        BY <4>1, <4>2
    <3>4. prev'[x] \in linked' \cup {HEAD} /\ next'[prev'[x]] = x
      <4>1. CASE x = b
        BY <1>3, <1>4, <4>1
      <4>2. CASE x # b
        <5>1. prev'[x] = prev[x] /\ prev[x] # a
          BY <1>4, <2>2, <3>1, <4>2
        <5>2. next'[prev[x]] = x
          BY <1>4, <3>1, <3>2, <5>1
        <5> QED
          BY <1>3, <3>1, <5>1, <5>2
      <4> QED
        BY <4>1, <4>2
    <3> QED
      BY <3>3, <3>4
  <2> QED
    BY <2>1, <2>2
<1>6. ASSUME NEW x \in removed'
      PROVE  next'[x] = x /\ prev'[x] = x
  <2>1. x \in removed /\ x # n /\ x # a /\ x # b /\ x \in Lines
    BY <1>3 DEF IInv, TypeOK, LinksMatch, Lines
  <2> QED
    BY <1>4, <2>1 DEF IInv, LinksMatch
<1>7. linked' \cap removed' = {}
  BY <1>3 DEF IInv, LinksMatch
<1> QED
  BY <1>2, <1>5, <1>6, <1>7 DEF IInv, LinksMatch

(* Taking an element e out from between its neighbours keeps the links; an
   element that is linked to itself stays so. *)
LEMMA RemoveKeepsLinks ==
    ASSUME IInv, NEW e \in linked \cup removed \cup {HEAD},
           e = HEAD => next[e] = e /\ prev[e] = e,
           next' = [next EXCEPT ![prev[e]] = next[e], ![e] = e],
           prev' = [prev EXCEPT ![next[e]] = prev[e], ![e] = e], Removed(e)
    PROVE  IInv'
<1>1. /\ e \in Lines /\ HEAD \notin Nodes
      /\ linked \cap removed = {} /\ linked \subseteq Nodes /\ removed \subseteq Nodes
      /\ prev \in [Lines -> Lines \cup {NULL}] /\ next \in [Lines -> Lines \cup {NULL}]
  BY ListAssumption DEF IInv, TypeOK, LinksMatch, Lines
<1>2. /\ linked' = linked \ {e} /\ removed' = removed \cup ({e} \ {HEAD})
  BY DEF Removed
<1>3. /\ next[e] \in Lines /\ prev[e] \in Lines
      /\ next[prev[e]] = e /\ prev[next[e]] = e
  BY <1>1 DEF IInv, LinksMatch, Lines
<1>4. /\ next'[e] = e /\ prev'[e] = e
      /\ \A x \in Lines : x # e =>
           /\ next'[x] = IF x = prev[e] THEN next[e] ELSE next[x]
           /\ prev'[x] = IF x = next[e] THEN prev[e] ELSE prev[x]
  BY <1>1, <1>3
<1>5. TypeOK'
  BY <1>1, <1>2, <1>3 DEF TypeOK, Lines
<1>6. ASSUME NEW x \in linked' \cup {HEAD}
      PROVE  /\ next'[x] \in linked' \cup {HEAD} /\ prev'[x] \in linked' \cup {HEAD}
             /\ prev'[next'[x]] = x /\ next'[prev'[x]] = x
  <2>1. CASE x = e
    BY <1>1, <1>2, <1>4, <2>1
  <2>2. CASE x # e
    <3>1. /\ x \in linked \cup {HEAD} /\ x \in Lines
          /\ next[x] \in linked \cup {HEAD} /\ prev[x] \in linked \cup {HEAD}
          /\ prev[next[x]] = x /\ next[prev[x]] = x
      BY <1>1, <1>2, <2>2 DEF IInv, LinksMatch, Lines
    <3>2. next[x] \in Lines /\ prev[x] \in Lines
      BY <1>1, <3>1 DEF Lines
    <3>3. e \in linked \cup {HEAD} \/ (next[e] = e /\ prev[e] = e)
      BY DEF IInv, LinksMatch
    <3>4. e \in linked \cup {HEAD} => /\ next[e] \in linked \cup {HEAD}
                                      /\ prev[e] \in linked \cup {HEAD}
      BY DEF IInv, LinksMatch
    <3>5. next'[x] \in linked' \cup {HEAD} /\ prev'[next'[x]] = x
      <4>1. CASE x = prev[e]
        <5>1. next'[x] = next[e] /\ next[e] # e
          BY <1>3, <1>4, <2>2, <3>1, <4>1
        <5>2. prev'[next[e]] = prev[e]
          BY <1>3, <1>4, <5>1
        <5> QED
          BY <1>2, <3>3, <3>4, <4>1, <5>1, <5>2
      <4>2. CASE x # prev[e]
        <5>1. next'[x] = next[x] /\ next[x] # e /\ next[x] # next[e]
          BY <1>3, <1>4, <2>2, <3>1, <4>2
        <5>2. prev'[next[x]] = x
          BY <1>4, <3>1, <3>2, <5>1
        <5>3. next[x] \in linked' \cup {HEAD}
          BY <1>2, <3>1, <5>1
        <5> QED
          BY <5>1, <5>2, <5>3
      <4> QED
        BY <4>1, <4>2
    <3>6. prev'[x] \in linked' \cup {HEAD} /\ next'[prev'[x]] = x
      <4>1. CASE x = next[e]
        <5>1. prev'[x] = prev[e] /\ prev[e] # e
          BY <1>3, <1>4, <2>2, <3>1, <4>1
        <5>2. next'[prev[e]] = next[e]
          BY <1>3, <1>4, <5>1
        <5> QED
          BY <1>2, <3>3, <3>4, <4>1, <5>1, <5>2
      <4>2. CASE x # next[e]
        <5>1. prev'[x] = prev[x] /\ prev[x] # e /\ prev[x] # prev[e]
          BY <1>3, <1>4, <2>2, <3>1, <4>2
        <5>2. next'[prev[x]] = x
          BY <1>4, <3>1, <3>2, <5>1
        <5>3. prev[x] \in linked' \cup {HEAD}
          BY <1>2, <3>1, <5>1
        <5> QED
          BY <5>1, <5>2, <5>3
      <4> QED
        BY <4>1, <4>2
    <3> QED
      BY <3>5, <3>6
  <2> QED
    BY <2>1, <2>2
<1>7. ASSUME NEW x \in removed'
      PROVE  next'[x] = x /\ prev'[x] = x
  <2>1. CASE x = e
    BY <1>4, <2>1
  <2>2. CASE x # e
    <3>1. x \in removed /\ x \in Lines /\ next[x] = x /\ prev[x] = x
      BY <1>1, <1>2, <2>2 DEF IInv, LinksMatch, Lines
    <3>2. x # prev[e] /\ x # next[e]
      BY <1>3, <2>2, <3>1
    <3> QED
      BY <1>4, <2>2, <3>1, <3>2
  <2> QED
    BY <2>1, <2>2
<1>8. linked' \cap removed' = {}
  BY <1>1, <1>2
<1> QED
  BY <1>5, <1>6, <1>7, <1>8 DEF IInv, LinksMatch

LEMMA ListNext == ASSUME IInv, [Next]_vars PROVE IInv'
<1>1. /\ next[HEAD] \in linked \cup {HEAD} /\ prev[HEAD] \in linked \cup {HEAD}
      /\ prev[next[HEAD]] = HEAD /\ next[prev[HEAD]] = HEAD
  BY DEF IInv, LinksMatch
<1>2. /\ prev \in [Lines -> Lines \cup {NULL}] /\ next \in [Lines -> Lines \cup {NULL}]
      /\ linked \subseteq Nodes /\ removed \subseteq Nodes /\ HEAD \in Lines
  BY DEF IInv, TypeOK, Lines
<1>3. ASSUME NEW n \in Nodes, AddFirst(n)
      PROVE  IInv'
  BY <1>1, <1>3, InsertKeepsLinks DEF AddFirst
<1>4. ASSUME NEW n \in Nodes, AddLast(n)
      PROVE  IInv'
  <2>1. prev' = [prev EXCEPT ![n] = prev[HEAD], ![HEAD] = n]
    BY <1>4 DEF AddLast
  <2>2. next' = [next EXCEPT ![n] = HEAD, ![prev[HEAD]] = n]
    BY <1>4 DEF AddLast
  <2>3. n \in Nodes \ linked /\ Added(n)
    BY <1>4 DEF AddLast
  <2> QED
    BY <1>1, <2>1, <2>2, <2>3, InsertKeepsLinks
<1>5. CASE DelFirst
  <2> DEFINE h == next[HEAD]
  <2>1. prev[h] = HEAD /\ (h = HEAD => prev[h] = h /\ next[h] = h)
    BY <1>1
  <2>2. /\ next' = [next EXCEPT ![prev[h]] = next[h], ![h] = h]
        /\ prev' = [prev EXCEPT ![next[h]] = prev[h], ![h] = h]
    BY <1>5, <2>1 DEF DelFirst
  <2>3. h \in linked \cup removed \cup {HEAD} /\ Removed(h)
    BY <1>1, <1>5 DEF DelFirst
  <2> QED
    BY <2>1, <2>2, <2>3, RemoveKeepsLinks
<1>6. CASE DelLast
  <2> DEFINE t == prev[HEAD]
  <2>1. next[t] = HEAD /\ (t = HEAD => prev[t] = t /\ next[t] = t)
    BY <1>1
  <2>2. /\ next' = [next EXCEPT ![prev[t]] = next[t], ![t] = t]
        /\ prev' = [prev EXCEPT ![next[t]] = prev[t], ![t] = t]
    BY <1>6, <2>1 DEF DelLast
  <2>3. t \in linked \cup removed \cup {HEAD} /\ Removed(t)
    BY <1>1, <1>6 DEF DelLast
  <2> QED
    BY <2>1, <2>2, <2>3, RemoveKeepsLinks
<1>7. ASSUME NEW n \in Nodes, Del(n)
      PROVE  IInv'
  <2>1. n # HEAD
    BY ListAssumption
  <2> QED
    BY <1>7, <2>1, RemoveKeepsLinks DEF Del
<1>8. CASE UNCHANGED vars
  BY <1>8 DEF vars, IInv, TypeOK, LinksMatch
<1> QED
  BY <1>3, <1>4, <1>5, <1>6, <1>7, <1>8 DEF Next

(* Whatever sequence of legal additions and removals a list goes through,
   the links of its elements match in both directions and stay among them,
   and every removed node is linked to itself. *)
THEOREM ListInvariant == Spec => []IInv
  BY ListInit, ListNext, PTL DEF Spec

-----------------------------------------------------------------------------
(* Walks.  From() is a recursive function: its values are determined one
   after the other, which is shown by a least counterexample. *)

LEMMA Least == ASSUME NEW T \in SUBSET Nat, T # {}
               PROVE  \E x \in T : \A y \in T : x <= y
<1>1. IsWellFoundedOn(OpToRel(<,Nat), Nat)
  BY NatLessThanWellFounded
<1>2. PICK x \in T : \A y \in T : ~ (<<y, x>> \in OpToRel(<,Nat))
  BY <1>1, WFMin
<1>3. \A y \in T : ~ (y < x)
  BY <1>2 DEF OpToRel
<1>4. \A y \in T : y \in Nat
  OBVIOUS
<1> QED
  BY <1>3, <1>4

(* The function g is the walk from x on, M steps long. *)
IsWalk(link, x, M, g) == g[0] = x /\ \A k \in 1 .. M : g[k] = link[g[k - 1]]

SameWalk(M, g, w) == \A k \in 0 .. M : g[k] = w[k]

(* There is one walk: its elements are determined one after the other. *)
LEMMA OneWalk ==
    \A link, x, g, w : \A M \in Nat :
        IsWalk(link, x, M, g) /\ IsWalk(link, x, M, w) => SameWalk(M, g, w)
<1> SUFFICES ASSUME NEW link, NEW x, NEW M \in Nat, NEW g, NEW w,
                    IsWalk(link, x, M, g), IsWalk(link, x, M, w)
             PROVE  \A k \in 0 .. M : g[k] = w[k]
  BY DEF SameWalk
<1> DEFINE T == {k \in 0 .. M : g[k] # w[k]}
<1>1. SUFFICES ASSUME T # {} PROVE FALSE
  BY <1>1
<1>2. T \in SUBSET Nat
  OBVIOUS
<1>3. PICK k \in T : \A j \in T : k <= j
  BY <1>1, <1>2, Least
<1>4. k \in 0 .. M /\ g[k] # w[k] /\ g[0] = x /\ w[0] = x
  BY DEF IsWalk
<1>5. k \in 1 .. M /\ k - 1 \in 0 .. M
  BY <1>4
<1>6. k - 1 \notin T
  <2>1. SUFFICES ASSUME k - 1 \in T PROVE FALSE
    OBVIOUS
  <2>2. k <= k - 1
    BY <1>3, <2>1
  <2> QED
    BY <1>4, <2>2
<1>7. g[k - 1] = w[k - 1]
  BY <1>5, <1>6
<1> QED
  BY <1>4, <1>5, <1>7 DEF IsWalk

(* What a walk meets, if it meets the head next or is cut there. *)
LEMMA WalkCut ==
    ASSUME NEW link, NEW x, NEW w \in [0 .. Cardinality(Nodes) + 1 -> Lines],
           NEW L \in 0 .. Cardinality(Nodes), Cardinality(Nodes) \in Nat,
           IsWalk(link, x, Cardinality(Nodes) + 1, w),
           w[L + 1] = HEAD \/ L = Cardinality(Nodes), \A k \in 1 .. L : w[k] # HEAD
    PROVE  From(link, x) = [k \in 1 .. L |-> w[k]]
<1> DEFINE N == Cardinality(Nodes)
           at[i \in 0 .. Cardinality(Nodes) + 1] == IF i = 0 THEN x ELSE link[at[i - 1]]
           ends == {i \in 1 .. Cardinality(Nodes) + 1 : at[i] = HEAD}
           len == CHOOSE i \in 0 .. Cardinality(Nodes) :
                  \/ i + 1 \in ends /\ \A j \in ends : i + 1 <= j
                  \/ ends = {} /\ i = Cardinality(Nodes)
<1>1. From(link, x) = [i \in 1 .. len |-> at[i]]
  BY DEF From, list_is_head
<1>2. at = [i \in 0 .. N + 1 |-> IF i = 0 THEN x ELSE link[at[i - 1]]]
  <2>1. w = [i \in 0 .. N + 1 |-> IF i = 0 THEN x ELSE link[w[i - 1]]]
    BY DEF IsWalk
  <2> QED
    BY <2>1
<1>3. len = CHOOSE i \in 0 .. N : \/ i + 1 \in ends /\ \A j \in ends : i + 1 <= j
                                  \/ ends = {} /\ i = N
  OBVIOUS
<1>4. ends = {i \in 1 .. N + 1 : at[i] = HEAD}
  OBVIOUS
<1>5. /\ N \in Nat /\ L \in 0 .. N /\ (w[L + 1] = HEAD \/ L = N)
      /\ IsWalk(link, x, N + 1, w)
  OBVIOUS
<1> HIDE DEF N, at, ends, len
<1>6. IsWalk(link, x, N + 1, at)
  BY <1>2, <1>5 DEF IsWalk
<1>7. \A k \in 0 .. N + 1 : at[k] = w[k]
  <2>1. PICK M \in Nat : M = N + 1
    BY <1>5
  <2>2. PICK g : g = at
    OBVIOUS
  <2>3. IsWalk(link, x, M, g) /\ IsWalk(link, x, M, w)
    BY <1>5, <1>6, <2>1, <2>2
  <2>4. SameWalk(M, g, w)
    BY <2>3, OneWalk
  <2> QED
    BY <2>1, <2>2, <2>4 DEF SameWalk
<1>8. /\ (L + 1 \in ends) \/ (ends = {} /\ L = N)
      /\ \A j \in ends : L + 1 <= j /\ j \in 1 .. N + 1
  <2>1. \A j \in ends : L + 1 <= j /\ j \in 1 .. N + 1
    BY <1>4, <1>5, <1>7
  <2>2. CASE w[L + 1] = HEAD
    BY <1>4, <1>5, <1>7, <2>1, <2>2
  <2>3. CASE w[L + 1] # HEAD
    BY <1>4, <1>5, <1>7, <2>1, <2>3
  <2> QED
    BY <2>1, <2>2, <2>3
<1>9. len = L
  <2>1. \A i \in 0 .. N : ((i + 1 \in ends /\ \A j \in ends : i + 1 <= j)
                            \/ (ends = {} /\ i = N)) <=> i = L
    BY <1>5, <1>8
  <2> QED
    BY <1>3, <1>5, <2>1
<1>10. \A k \in 1 .. L : at[k] = w[k]
  BY <1>5, <1>7
<1> QED
  BY <1>1, <1>9, <1>10

LEMMA DivMod ==
    ASSUME NEW v \in Int, NEW w \in Nat \ {0}
    PROVE  v \div w \in Int /\ v % w \in 0 .. w - 1 /\ v = w * (v \div w) + (v % w)
BY SMTT(30)

LEMMA DivUnique ==
    ASSUME NEW w \in Nat \ {0}, NEW q \in Int, NEW r \in 0 .. w - 1
    PROVE  (w * q + r) \div w = q /\ (w * q + r) % w = r
BY SMTT(30)

LEMMA ModSmall ==
    ASSUME NEW w \in Nat \ {0}, NEW r \in 0 .. w - 1
    PROVE  r % w = r /\ w % w = 0
BY SMTT(30)

LEMMA ModStep ==
    ASSUME NEW w \in Nat \ {0}, NEW v \in Int
    PROVE  v % w \in 0 .. w - 1 /\ (v + 1) % w = IF v % w = w - 1 THEN 0 ELSE (v % w) + 1
<1> DEFINE q == v \div w
           r == v % w
<1>1. q \in Int /\ r \in 0 .. w - 1 /\ v = w * q + r
  BY DivMod
<1> HIDE DEF q, r
<1>2. CASE r = w - 1
  <2>1. v + 1 = w * (q + 1) + 0
    BY <1>1, <1>2
  <2>2. (w * (q + 1) + 0) % w = 0
    BY <1>1, DivUnique
  <2> QED
    BY <1>1, <1>2, <2>1, <2>2 DEF r
<1>3. CASE r # w - 1
  <2>1. v + 1 = w * q + (r + 1) /\ r + 1 \in 0 .. w - 1
    BY <1>1, <1>3
  <2>2. (w * q + (r + 1)) % w = r + 1
    BY <1>1, <2>1, DivUnique
  <2> QED
    BY <1>1, <1>3, <2>1, <2>2 DEF r
<1> QED
  BY <1>2, <1>3

-----------------------------------------------------------------------------
(* A list holds the nodes of a sequence s if they and the head form a ring. *)
El(s, k) == IF k = 0 \/ k = Len(s) + 1 THEN HEAD ELSE s[k]
Ring(link, s) == \A k \in 0 .. Len(s) : link[El(s, k)] = El(s, k + 1)
Distinct(s) == \A k, j \in 1 .. Len(s) : s[k] = s[j] => k = j

(* The nodes backwards *)
Back(s) == [k \in 1 .. Len(s) |-> s[Len(s) + 1 - k]]

LEMMA NodesFinite == Cardinality(Nodes) \in Nat /\ HEAD \notin Nodes
BY ListAssumption, FS_CardinalityType

LEMMA DistinctFits ==
    ASSUME NEW s \in Seq(Nodes), Distinct(s)
    PROVE  Len(s) \in 0 .. Cardinality(Nodes)
<1>1. s \in Injection(1 .. Len(s), Nodes)
  BY DEF Distinct, Injection, IsInjective
<1>2. Len(s) \in Nat
  OBVIOUS
<1>3. Cardinality(1 .. Len(s)) = Len(s)
  <2>1. Cardinality(1 .. Len(s)) = IF 1 > Len(s) THEN 0 ELSE Len(s) - 1 + 1
    BY <1>2, FS_Interval
  <2> QED
    BY <1>2, <2>1
<1>4. Cardinality(1 .. Len(s)) <= Cardinality(Nodes)
  BY <1>1, ListAssumption, FS_Injection
<1> QED
  BY <1>2, <1>3, <1>4, NodesFinite

LEMMA ElTypes ==
    ASSUME NEW s \in Seq(Nodes)
    PROVE  /\ Len(s) \in Nat /\ El(s, 0) = HEAD /\ El(s, Len(s) + 1) = HEAD
           /\ \A k \in 1 .. Len(s) : El(s, k) = s[k] /\ s[k] \in Nodes /\ s[k] # HEAD
           /\ \A k \in 0 .. Len(s) + 1 : El(s, k) \in Lines
<1>1. Len(s) \in Nat /\ \A k \in 1 .. Len(s) : s[k] \in Nodes
  OBVIOUS
<1> QED
  BY <1>1, NodesFinite DEF El, Lines

(* A walk from any element of a ring meets the ones that follow it. *)
LEMMA RingWalk ==
    ASSUME NEW link, NEW s \in Seq(Nodes), Len(s) <= Cardinality(Nodes), Ring(link, s),
           NEW k \in 0 .. Len(s)
    PROVE  From(link, El(s, k)) = [j \in 1 .. Len(s) - k |-> s[k + j]]
<1>0. PICK m \in Nat \ {0} : m = Len(s) + 1
  OBVIOUS
<1> DEFINE N == Cardinality(Nodes)
           w == [j \in 0 .. N + 1 |-> El(s, (k + j) % m)]
<1>1. N \in Nat /\ Len(s) \in Nat /\ m \in Nat \ {0} /\ Len(s) <= N /\ k \in Int /\ m = Len(s) + 1
  BY <1>0, NodesFinite
<1>2. \A j \in 0 .. N + 1 : w[j] = El(s, (k + j) % m)
  OBVIOUS
<1>3. \A j \in Int : j % m \in 0 .. Len(s)
  <2>1. ASSUME NEW j \in Int PROVE j % m \in 0 .. m - 1
    BY <1>1, ModStep
  <2>2. 0 .. m - 1 = 0 .. Len(s)
    BY <1>1
  <2> QED
    BY <2>1, <2>2
<1>4. w \in [0 .. N + 1 -> Lines]
  <2>1. \A j \in 0 .. N + 1 : El(s, (k + j) % m) \in Lines
    <3>1. ASSUME NEW j \in 0 .. N + 1 PROVE El(s, (k + j) % m) \in Lines
      <4>1. k + j \in Int
        BY <1>1
      <4>2. (k + j) % m \in 0 .. Len(s)
        BY <1>3, <4>1
      <4> QED
        BY <4>2, <1>1, ElTypes
    <3> QED
      BY <3>1
  <2> QED
    BY <2>1
<1> HIDE DEF w
<1>5. ASSUME NEW j \in 0 .. Len(s) - k PROVE w[j] = El(s, k + j)
  <2>1. k + j \in 0 .. m - 1 /\ j \in 0 .. N + 1
    BY <1>1
  <2>2. (k + j) % m = k + j
    BY <1>1, <2>1, ModSmall
  <2> QED
    BY <1>2, <2>1, <2>2
<1>6. w[0] = El(s, k)
  <2>1. 0 \in 0 .. Len(s) - k /\ k + 0 = k
    BY <1>1
  <2> QED
    BY <1>5, <2>1
<1>7. ASSUME NEW j \in 1 .. N + 1 PROVE w[j] = link[w[j - 1]]
  <2> DEFINE r == (k + (j - 1)) % m
  <2>1. j \in 0 .. N + 1 /\ j - 1 \in 0 .. N + 1 /\ k + (j - 1) \in Int /\ (k + (j - 1)) + 1 = k + j
    BY <1>1
  <2>2. r \in 0 .. m - 1 /\ (k + j) % m = IF r = m - 1 THEN 0 ELSE r + 1
    BY <1>1, <2>1, ModStep
  <2>3. w[j - 1] = El(s, r) /\ w[j] = El(s, (k + j) % m)
    BY <1>2, <2>1
  <2> HIDE DEF r
  <2>4. link[El(s, r)] = El(s, r + 1)
    BY <1>1, <2>2 DEF Ring
  <2>5. El(s, r + 1) = El(s, IF r = m - 1 THEN 0 ELSE r + 1)
    BY <1>1, <2>2, ElTypes
  <2> QED
    BY <2>2, <2>3, <2>4, <2>5
<1>8. IsWalk(link, El(s, k), N + 1, w)
  BY <1>6, <1>7 DEF IsWalk
<1>9. w[Len(s) - k + 1] = HEAD
  <2>1. Len(s) - k + 1 \in 0 .. N + 1 /\ k + (Len(s) - k + 1) = m
    BY <1>1
  <2>2. m % m = 0
    <3>1. 0 \in 0 .. m - 1
      BY <1>1
    <3> QED
      BY <1>1, <3>1, ModSmall
  <2> QED
    BY <1>2, <2>1, <2>2, ElTypes
<1>10. \A j \in 1 .. Len(s) - k : w[j] = s[k + j] /\ w[j] # HEAD
  <2>1. ASSUME NEW j \in 1 .. Len(s) - k PROVE w[j] = s[k + j] /\ w[j] # HEAD
    <3>1. j \in 0 .. Len(s) - k /\ k + j \in 1 .. Len(s)
      BY <1>1
    <3> QED
      BY <1>5, <3>1, ElTypes
  <2> QED
    BY <2>1
<1>11. Len(s) - k \in 0 .. N
  BY <1>1
<1>12. From(link, El(s, k)) = [j \in 1 .. Len(s) - k |-> w[j]]
  <2>1. PICK L \in 0 .. N : L = Len(s) - k
    BY <1>11
  <2>2. w[L + 1] = HEAD /\ \A j \in 1 .. L : w[j] # HEAD
    BY <1>9, <1>10, <2>1
  <2>3. From(link, El(s, k)) = [j \in 1 .. L |-> w[j]]
    <3>1. /\ w \in [0 .. Cardinality(Nodes) + 1 -> Lines] /\ L \in 0 .. Cardinality(Nodes)
          /\ Cardinality(Nodes) \in Nat /\ IsWalk(link, El(s, k), Cardinality(Nodes) + 1, w)
          /\ (w[L + 1] = HEAD \/ L = Cardinality(Nodes)) /\ \A j \in 1 .. L : w[j] # HEAD
      BY <1>1, <1>4, <1>8, <2>2 DEF N
    <3> QED
      BY <3>1, WalkCut
  <2> QED
    BY <2>1, <2>3
<1> QED
  BY <1>10, <1>12

(* A walk from a node that is linked to itself meets it for ever. *)
LEMMA SelfWalk ==
    ASSUME NEW link, NEW x \in Nodes, link[x] = x
    PROVE  From(link, x) = [j \in 1 .. Cardinality(Nodes) |-> x]
<1> DEFINE N == Cardinality(Nodes)
           w == [j \in 0 .. N + 1 |-> x]
<1>1. N \in Nat /\ x # HEAD /\ x \in Lines
  BY NodesFinite DEF Lines
<1>2. w \in [0 .. N + 1 -> Lines] /\ \A j \in 0 .. N + 1 : w[j] = x
  BY <1>1
<1> HIDE DEF w
<1>3. IsWalk(link, x, N + 1, w)
  <2>1. \A j \in 1 .. N + 1 : j \in 0 .. N + 1 /\ j - 1 \in 0 .. N + 1
    BY <1>1
  <2>2. 0 \in 0 .. N + 1
    BY <1>1
  <2> QED
    BY <1>2, <2>1, <2>2 DEF IsWalk
<1>4. N \in 0 .. N /\ \A j \in 1 .. N : w[j] = x /\ w[j] # HEAD
  BY <1>1, <1>2
<1>5. From(link, x) = [j \in 1 .. N |-> w[j]]
  BY <1>1, <1>2, <1>3, <1>4, WalkCut DEF N
<1> QED
  BY <1>4, <1>5

-----------------------------------------------------------------------------
(* The list holds the nodes of s in that order. *)
Holds(s) == /\ s \in Seq(Nodes) /\ Distinct(s)
            /\ linked = {s[k] : k \in 1 .. Len(s)}
            /\ \A k \in 0 .. Len(s) : /\ next[El(s, k)] = El(s, k + 1)
                                      /\ prev[El(s, k + 1)] = El(s, k)

(* The elements of the ring are distinct. *)
LEMMA ElDistinct ==
    ASSUME NEW s \in Seq(Nodes), Distinct(s)
    PROVE  /\ \A i, j \in 0 .. Len(s) : El(s, i) = El(s, j) => i = j
           /\ \A i, j \in 1 .. Len(s) + 1 : El(s, i) = El(s, j) => i = j
<1>1. Len(s) \in Nat
  OBVIOUS
<1>2. ASSUME NEW i \in 1 .. Len(s), NEW j \in 1 .. Len(s), El(s, i) = El(s, j)
      PROVE  i = j
  BY <1>2, ElTypes DEF Distinct
<1>3. ASSUME NEW i \in 1 .. Len(s) PROVE El(s, i) # HEAD
  BY <1>3, ElTypes
<1>4. El(s, 0) = HEAD /\ El(s, Len(s) + 1) = HEAD
  BY ElTypes
<1>5. ASSUME NEW i \in 0 .. Len(s), NEW j \in 0 .. Len(s), El(s, i) = El(s, j)
      PROVE  i = j
  <2>1. i \in 1 .. Len(s) \/ i = 0
    BY <1>1
  <2>2. j \in 1 .. Len(s) \/ j = 0
    BY <1>1
  <2> QED
    BY <1>2, <1>3, <1>4, <1>5, <2>1, <2>2
<1>6. ASSUME NEW i \in 1 .. Len(s) + 1, NEW j \in 1 .. Len(s) + 1, El(s, i) = El(s, j)
      PROVE  i = j
  <2>1. i \in 1 .. Len(s) \/ i = Len(s) + 1
    BY <1>1
  <2>2. j \in 1 .. Len(s) \/ j = Len(s) + 1
    BY <1>1
  <2> QED
    BY <1>2, <1>3, <1>4, <1>6, <2>1, <2>2
<1> QED
  BY <1>5, <1>6

(* Followed backwards, the ring is that of the nodes backwards. *)
LEMMA BackRing ==
    ASSUME NEW s \in Seq(Nodes), Holds(s)
    PROVE  Back(s) \in Seq(Nodes) /\ Len(Back(s)) = Len(s) /\ Ring(prev, Back(s))
<1>1. Len(s) \in Nat /\ \A k \in 1 .. Len(s) : s[k] \in Nodes
  OBVIOUS
<1>2. \A k \in 1 .. Len(s) : Len(s) + 1 - k \in 1 .. Len(s)
  BY <1>1
<1>3. Back(s) \in [1 .. Len(s) -> Nodes] /\ \A k \in 1 .. Len(s) : Back(s)[k] = s[Len(s) + 1 - k]
  BY <1>1, <1>2 DEF Back
<1>4. Back(s) \in Seq(Nodes) /\ Len(Back(s)) = Len(s)
  BY <1>1, <1>3
<1>5. ASSUME NEW k \in 0 .. Len(s) + 1
      PROVE  El(Back(s), k) = El(s, Len(s) + 1 - k)
  <2>1. CASE k \in 1 .. Len(s)
    <3>1. El(Back(s), k) = Back(s)[k]
      BY <1>4, <2>1, ElTypes
    <3>2. El(s, Len(s) + 1 - k) = s[Len(s) + 1 - k]
      BY <1>2, <2>1, ElTypes
    <3> QED
      BY <1>3, <2>1, <3>1, <3>2
  <2>2. CASE k = 0
    <3>1. Len(s) + 1 - k = Len(s) + 1
      BY <1>1, <2>2
    <3> QED
      BY <1>4, <2>2, <3>1, ElTypes
  <2>3. CASE k = Len(s) + 1
    <3>1. Len(s) + 1 - k = 0
      BY <1>1, <2>3
    <3> QED
      BY <1>4, <2>3, <3>1, ElTypes
  <2> QED
    BY <1>1, <2>1, <2>2, <2>3
<1>6. ASSUME NEW k \in 0 .. Len(s)
      PROVE  prev[El(Back(s), k)] = El(Back(s), k + 1)
  <2>1. PICK j \in 0 .. Len(s) : j = Len(s) - k
    BY <1>1
  <2>2. k \in 0 .. Len(s) + 1 /\ k + 1 \in 0 .. Len(s) + 1
        /\ Len(s) + 1 - k = j + 1 /\ Len(s) + 1 - (k + 1) = j
    BY <1>1, <2>1
  <2>3. El(Back(s), k) = El(s, j + 1) /\ El(Back(s), k + 1) = El(s, j)
    BY <1>5, <2>2
  <2>4. prev[El(s, j + 1)] = El(s, j)
    BY DEF Holds
  <2> QED
    BY <2>3, <2>4
<1> QED
  BY <1>4, <1>6 DEF Ring

(* What the walks meet. *)
LEMMA HoldsWalks ==
    ASSUME NEW s \in Seq(Nodes), Holds(s)
    PROVE  /\ list_for_each = s /\ list_for_each_prev = Back(s)
           /\ \A k \in 1 .. Len(s) :
                list_for_each_continue(s[k]) = [j \in 1 .. Len(s) - k |-> s[k + j]]
<1>1. Len(s) \in Nat /\ Len(s) <= Cardinality(Nodes) /\ 0 \in 0 .. Len(s)
  BY DistinctFits, NodesFinite DEF Holds
<1>2. Ring(next, s)
  BY DEF Holds, Ring
<1>3. Back(s) \in Seq(Nodes) /\ Len(Back(s)) = Len(s) /\ Ring(prev, Back(s))
  BY BackRing
<1>4. ASSUME NEW q \in Seq(Nodes), Len(q) \in Nat
      PROVE  [j \in 1 .. Len(q) - 0 |-> q[0 + j]] = q
  <2>1. q = [j \in 1 .. Len(q) |-> q[j]]
    OBVIOUS
  <2>2. 1 .. Len(q) - 0 = 1 .. Len(q) /\ \A j \in 1 .. Len(q) : 0 + j = j
    BY <1>4
  <2> QED
    BY <2>1, <2>2
<1>5. From(next, HEAD) = s
  <2>1. From(next, El(s, 0)) = [j \in 1 .. Len(s) - 0 |-> s[0 + j]]
    BY <1>1, <1>2, RingWalk
  <2> QED
    BY <1>1, <1>4, <2>1, ElTypes
<1>6. From(prev, HEAD) = Back(s)
  <2>1. From(prev, El(Back(s), 0)) = [j \in 1 .. Len(Back(s)) - 0 |-> Back(s)[0 + j]]
    BY <1>1, <1>3, RingWalk
  <2> QED
    BY <1>1, <1>3, <1>4, <2>1, ElTypes
<1>7. ASSUME NEW k \in 1 .. Len(s)
      PROVE  From(next, s[k]) = [j \in 1 .. Len(s) - k |-> s[k + j]]
  <2>1. El(s, k) = s[k]
    BY ElTypes
  <2>2. PICK i \in 0 .. Len(s) : i = k
    BY <1>1
  <2>3. From(next, El(s, i)) = [j \in 1 .. Len(s) - i |-> s[i + j]]
    BY <1>1, <1>2, RingWalk
  <2> QED
    BY <2>1, <2>2, <2>3
<1> QED
  BY <1>5, <1>6, <1>7 DEF list_for_each, list_for_each_prev, list_for_each_continue

(* The questions about an element of the ring agree with its place in it. *)
LEMMA HoldsAgree ==
    ASSUME IInv, NEW s \in Seq(Nodes), Holds(s)
    PROVE  WalksAgree
<1>1. list_for_each = s /\ list_for_each_prev = Back(s)
  BY HoldsWalks
<1>2. Len(s) \in Nat /\ \A k \in 1 .. Len(s) : s[k] \in Nodes /\ s[k] # HEAD /\ El(s, k) = s[k]
  BY ElTypes
<1>3. El(s, 0) = HEAD /\ El(s, Len(s) + 1) = HEAD
  BY ElTypes
<1>4. next[HEAD] = El(s, 1) /\ prev[HEAD] = El(s, Len(s))
  <2>1. 0 \in 0 .. Len(s) /\ Len(s) \in 0 .. Len(s) /\ 0 + 1 = 1
    BY <1>2
  <2> QED
    BY <1>3, <2>1 DEF Holds
<1>5. Len(Back(s)) = Len(s) /\ \A i \in 1 .. Len(s) : s[i] = Back(s)[Len(s) + 1 - i]
  <2>1. Len(Back(s)) = Len(s)
    BY BackRing
  <2>2. ASSUME NEW i \in 1 .. Len(s) PROVE s[i] = Back(s)[Len(s) + 1 - i]
    <3> PICK m \in Nat : m = Len(s)
      BY <1>2
    <3>1. PICK j \in 1 .. Len(s) : j = Len(s) + 1 - i
      <4>1. i \in 1 .. m
        OBVIOUS
      <4>2. m + 1 - i \in 1 .. m
        BY <4>1
      <4>3. Len(s) + 1 - i \in 1 .. Len(s)
        BY <4>2
      <4> QED
        BY <4>3, Zenon
    <3>2. Back(s)[j] = s[Len(s) + 1 - j] /\ Len(s) + 1 - j = i
      BY <1>2, <3>1 DEF Back
    <3> QED
      BY <3>1, <3>2
  <2> QED
    BY <2>1, <2>2
<1>6. linked = {s[i] : i \in 1 .. Len(s)}
  BY DEF Holds
<1>7. list_is_empty <=> linked = {}
  <2>1. CASE Len(s) = 0
    BY <1>2, <1>3, <1>4, <1>6, <2>1 DEF list_is_empty
  <2>2. CASE Len(s) # 0
    <3>1. 1 \in 1 .. Len(s)
      BY <1>2, <2>2
    <3> QED
      BY <1>2, <1>4, <1>6, <3>1 DEF list_is_empty
  <2> QED
    BY <2>1, <2>2
<1>8. list_first_entry_or_null = IF Len(s) = 0 THEN NULL ELSE s[1]
  <2>1. CASE Len(s) = 0
    <3>1. next[HEAD] = HEAD
      BY <1>3, <1>4, <2>1
    <3> QED
      BY <2>1, <3>1 DEF list_first_entry_or_null
  <2>2. CASE Len(s) # 0
    <3>1. 1 \in 1 .. Len(s)
      BY <1>2, <2>2
    <3> QED
      BY <1>2, <1>4, <2>2, <3>1 DEF list_first_entry_or_null
  <2> QED
    BY <2>1, <2>2
<1>9. Len(s) # 0 => list_last_entry = s[Len(s)]
  <2>1. Len(s) # 0 => Len(s) \in 1 .. Len(s)
    BY <1>2
  <2> QED
    BY <1>2, <1>4, <2>1 DEF list_last_entry
<1>10. ASSUME NEW i \in 1 .. Len(s)
       PROVE  /\ list_is_first(s[i]) <=> i = 1
              /\ list_is_last(s[i]) <=> i = Len(s)
              /\ i < Len(s) => list_next_entry(s[i]) = s[i + 1]
              /\ i > 1 => list_prev_entry(s[i]) = s[i - 1]
              /\ list_for_each_continue(s[i]) = SubSeq(s, i + 1, Len(s))
  <2>1. 1 \in 1 .. Len(s) /\ Len(s) \in 1 .. Len(s) /\ i \in 0 .. Len(s) /\ i - 1 \in 0 .. Len(s)
        /\ (i - 1) + 1 = i
    BY <1>2
  <2>2. (s[1] = s[i] <=> i = 1) /\ (s[Len(s)] = s[i] <=> i = Len(s))
    BY <2>1 DEF Holds, Distinct
  <2>3. next[HEAD] = s[1] /\ prev[HEAD] = s[Len(s)]
    BY <1>2, <1>4, <2>1
  <2>4. next[s[i]] = El(s, i + 1) /\ prev[s[i]] = El(s, i - 1)
    BY <1>2, <2>1 DEF Holds
  <2>5. ASSUME i < Len(s) PROVE next[s[i]] = s[i + 1]
    <3>1. i + 1 \in 1 .. Len(s)
      BY <1>2, <2>5
    <3> QED
      BY <1>2, <2>4, <3>1
  <2>6. ASSUME i > 1 PROVE prev[s[i]] = s[i - 1]
    <3>1. i - 1 \in 1 .. Len(s)
      BY <1>2, <2>6
    <3> QED
      BY <1>2, <2>4, <3>1
  <2>7. list_for_each_continue(s[i]) = [j \in 1 .. Len(s) - i |-> s[i + j]]
    BY HoldsWalks
  <2>8. SubSeq(s, i + 1, Len(s)) = [j \in 1 .. Len(s) - i |-> s[i + j]]
    <3>1. SubSeq(s, i + 1, Len(s)) = [j \in 1 .. (1 + Len(s) - (i + 1)) |-> s[(i + 1) + j - 1]]
      BY <1>2
    <3>2. 1 .. (1 + Len(s) - (i + 1)) = 1 .. Len(s) - i
          /\ \A j \in 1 .. Len(s) - i : (i + 1) + j - 1 = i + j
      BY <1>2
    <3> QED
      BY <3>1, <3>2
  <2>9. (list_is_first(s[i]) <=> next[HEAD] = s[i]) /\ (list_is_last(s[i]) <=> prev[HEAD] = s[i])
    BY Zenon DEF list_is_first, list_is_last
  <2>10. list_is_first(s[i]) <=> i = 1
    BY <2>2, <2>3, <2>9
  <2>11. list_is_last(s[i]) <=> i = Len(s)
    BY <2>2, <2>3, <2>9
  <2> QED
    BY <2>5, <2>6, <2>7, <2>8, <2>10, <2>11 DEF list_next_entry, list_prev_entry
<1>11. ASSUME NEW n \in removed
       PROVE  list_for_each_continue(n) = [i \in 1 .. Cardinality(Nodes) |-> n]
  <2>1. n \in Nodes /\ next[n] = n
    BY DEF IInv, TypeOK, LinksMatch
  <2> QED
    BY <2>1, SelfWalk DEF list_for_each_continue
<1> QED
  BY <1>1, <1>5, <1>6, <1>7, <1>8, <1>9, <1>10, <1>11 DEF WalksAgree

-----------------------------------------------------------------------------
(* The node n in s after its first k, and s without its node k. *)
With(s, k, n) == [i \in 1 .. Len(s) + 1 |-> IF i <= k THEN s[i] ELSE IF i = k + 1 THEN n ELSE s[i - 1]]
Without(s, k) == [i \in 1 .. Len(s) - 1 |-> IF i < k THEN s[i] ELSE s[i + 1]]

LEMMA WithEl ==
    ASSUME NEW s \in Seq(Nodes), NEW k \in 0 .. Len(s), NEW n \in Nodes
    PROVE  /\ With(s, k, n) \in Seq(Nodes) /\ Len(With(s, k, n)) = Len(s) + 1
           /\ \A i \in 0 .. Len(s) + 2 :
                El(With(s, k, n), i) = IF i <= k THEN El(s, i)
                                       ELSE IF i = k + 1 THEN n ELSE El(s, i - 1)
<1>1. Len(s) \in Nat /\ \A i \in 1 .. Len(s) : s[i] \in Nodes
  OBVIOUS
<1>2. PICK t : t = With(s, k, n)
  OBVIOUS
<1>3. \A i \in 1 .. Len(s) + 1 :
        t[i] = IF i <= k THEN s[i] ELSE IF i = k + 1 THEN n ELSE s[i - 1]
  BY <1>2 DEF With
<1>4. \A i \in 1 .. Len(s) + 1 : t[i] \in Nodes
  BY <1>1, <1>3
<1>5. t \in [1 .. Len(s) + 1 -> Nodes]
  BY <1>2, <1>4 DEF With
<1>6. t \in Seq(Nodes) /\ Len(t) = Len(s) + 1
  BY <1>1, <1>5
<1>7. ASSUME NEW i \in 0 .. Len(s) + 2
      PROVE  El(t, i) = IF i <= k THEN El(s, i) ELSE IF i = k + 1 THEN n ELSE El(s, i - 1)
  <2>1. CASE i \in 1 .. Len(s) + 1
    <3>1. El(t, i) = t[i]
      BY <1>1, <1>6, <2>1 DEF El
    <3>2. i <= k => El(s, i) = s[i]
      BY <1>1, <2>1 DEF El
    <3>3. i > k + 1 => El(s, i - 1) = s[i - 1]
      BY <1>1, <2>1 DEF El
    <3> QED
      BY <1>1, <1>3, <2>1, <3>1, <3>2, <3>3
  <2>2. CASE i = 0
    BY <1>1, <2>2 DEF El
  <2>3. CASE i = Len(s) + 2
    BY <1>1, <1>6, <2>3 DEF El
  <2> QED
    BY <1>1, <2>1, <2>2, <2>3
<1> QED
  BY <1>2, <1>6, <1>7

LEMMA WithoutEl ==
    ASSUME NEW s \in Seq(Nodes), NEW k \in 1 .. Len(s)
    PROVE  /\ Without(s, k) \in Seq(Nodes) /\ Len(Without(s, k)) = Len(s) - 1
           /\ \A i \in 0 .. Len(s) :
                El(Without(s, k), i) = IF i < k THEN El(s, i) ELSE El(s, i + 1)
<1>1. Len(s) \in Nat /\ \A i \in 1 .. Len(s) : s[i] \in Nodes
  OBVIOUS
<1>2. PICK t : t = Without(s, k)
  OBVIOUS
<1>3. \A i \in 1 .. Len(s) - 1 : t[i] = IF i < k THEN s[i] ELSE s[i + 1]
  BY <1>2 DEF Without
<1>4. \A i \in 1 .. Len(s) - 1 : t[i] \in Nodes
  BY <1>1, <1>3
<1>5. t \in [1 .. Len(s) - 1 -> Nodes]
  BY <1>2, <1>4 DEF Without
<1>6. t \in Seq(Nodes) /\ Len(t) = Len(s) - 1
  BY <1>1, <1>5
<1>7. ASSUME NEW i \in 0 .. Len(s)
      PROVE  El(t, i) = IF i < k THEN El(s, i) ELSE El(s, i + 1)
  <2>1. CASE i \in 1 .. Len(s) - 1
    <3>1. El(t, i) = t[i] /\ El(s, i) = s[i] /\ El(s, i + 1) = s[i + 1]
      BY <1>1, <1>6, <2>1 DEF El
    <3> QED
      BY <1>3, <2>1, <3>1
  <2>2. CASE i = 0
    BY <1>1, <2>2 DEF El
  <2>3. CASE i = Len(s)
    BY <1>1, <1>6, <2>3 DEF El
  <2> QED
    BY <1>1, <2>1, <2>2, <2>3
<1> QED
  BY <1>2, <1>6, <1>7

(* Whether a sequence is distinct, by the places in its ring. *)
LEMMA DistinctEl ==
    ASSUME NEW s \in Seq(Nodes)
    PROVE  /\ Distinct(s) <=> \A i, j \in 1 .. Len(s) : El(s, i) = El(s, j) => i = j
           /\ {s[i] : i \in 1 .. Len(s)} = {El(s, i) : i \in 1 .. Len(s)}
<1>1. \A i \in 1 .. Len(s) : El(s, i) = s[i]
  BY ElTypes
<1> QED
  BY <1>1 DEF Distinct

(* Linking a node n between the places k and k + 1 of the ring *)
LEMMA WithHolds ==
    ASSUME IInv, NEW s \in Seq(Nodes), Holds(s), NEW k \in 0 .. Len(s), NEW n \in Nodes \ linked,
           prev' = [prev EXCEPT ![n] = El(s, k), ![El(s, k + 1)] = n],
           next' = [next EXCEPT ![n] = El(s, k + 1), ![El(s, k)] = n], Added(n)
    PROVE  With(s, k, n) \in Seq(Nodes) /\ Holds(With(s, k, n))'
<1>1. Len(s) \in Nat /\ Len(s) + 1 \in Nat
  OBVIOUS
<1>2. PICK t : t = With(s, k, n)
  OBVIOUS
<1>3. /\ t \in Seq(Nodes) /\ Len(t) = Len(s) + 1
      /\ \A i \in 0 .. Len(s) + 2 :
           El(t, i) = IF i <= k THEN El(s, i) ELSE IF i = k + 1 THEN n ELSE El(s, i - 1)
  <2>1. n \in Nodes
    OBVIOUS
  <2> QED
    <3>1. /\ With(s, k, n) \in Seq(Nodes) /\ Len(With(s, k, n)) = Len(s) + 1
          /\ \A i \in 0 .. Len(s) + 2 :
               El(With(s, k, n), i) = IF i <= k THEN El(s, i)
                                      ELSE IF i = k + 1 THEN n ELSE El(s, i - 1)
      BY <2>1, WithEl
    <3> QED
      BY <1>2, <3>1
<1>4. /\ \A i \in 1 .. Len(s) : El(s, i) = s[i] /\ s[i] \in Nodes
      /\ \A i \in 0 .. Len(s) + 1 : El(s, i) \in Lines
      /\ El(s, 0) = HEAD /\ El(s, Len(s) + 1) = HEAD
  BY ElTypes
<1>5. /\ \A i, j \in 0 .. Len(s) : El(s, i) = El(s, j) => i = j
      /\ \A i, j \in 1 .. Len(s) + 1 : El(s, i) = El(s, j) => i = j
  BY ElDistinct DEF Holds
<1>6. linked = {El(s, i) : i \in 1 .. Len(s)} /\ n \in Nodes /\ n \notin linked /\ n # HEAD /\ n \in Lines
  BY <1>4, ListAssumption DEF Holds, Lines
<1>7. \A i \in 0 .. Len(s) + 1 : El(s, i) # n
  <2>1. ASSUME NEW i \in 0 .. Len(s) + 1 PROVE El(s, i) # n
    <3>1. i = 0 \/ i = Len(s) + 1 \/ i \in 1 .. Len(s)
      BY <1>1
    <3> QED
      BY <1>4, <1>6, <3>1
  <2> QED
    BY <2>1
<1>8. /\ next'[n] = El(s, k + 1) /\ prev'[n] = El(s, k)
      /\ next'[El(s, k)] = n /\ prev'[El(s, k + 1)] = n
      /\ \A x \in Lines : /\ x # n /\ x # El(s, k) => next'[x] = next[x]
                          /\ x # n /\ x # El(s, k + 1) => prev'[x] = prev[x]
  <2>1. k \in 0 .. Len(s) + 1 /\ k + 1 \in 0 .. Len(s) + 1
    BY <1>1
  <2>2. El(s, k) \in Lines /\ El(s, k) # n /\ El(s, k + 1) \in Lines /\ El(s, k + 1) # n
    BY <1>4, <1>7, <2>1
  <2>3. next \in [Lines -> Lines \cup {NULL}] /\ prev \in [Lines -> Lines \cup {NULL}]
    BY DEF IInv, TypeOK
  <2> QED
    BY <1>6, <2>2, <2>3
<1>9. \A i \in 0 .. Len(s) : next[El(s, i)] = El(s, i + 1) /\ prev[El(s, i + 1)] = El(s, i)
  BY DEF Holds
<1>10. ASSUME NEW i \in 0 .. Len(t)
       PROVE  next'[El(t, i)] = El(t, i + 1) /\ prev'[El(t, i + 1)] = El(t, i)
  <2>1. i \in 0 .. Len(s) + 2 /\ i + 1 \in 0 .. Len(s) + 2 /\ i \in 0 .. Len(s) + 1
    BY <1>1, <1>3
  <2>2. CASE i < k
    <3>1. i \in 0 .. Len(s) /\ i # k /\ i + 1 # k + 1 /\ i + 1 \in 1 .. Len(s) + 1 /\ k + 1 \in 1 .. Len(s) + 1
          /\ i + 1 \in 0 .. Len(s) + 1 /\ i \in 0 .. Len(s) + 1 /\ i <= k /\ i + 1 <= k
      BY <1>1, <2>1, <2>2
    <3>2. El(t, i) = El(s, i) /\ El(t, i + 1) = El(s, i + 1)
      BY <1>3, <2>1, <3>1
    <3>3. El(s, i) # El(s, k) /\ El(s, i + 1) # El(s, k + 1)
      BY <1>5, <3>1
    <3> QED
      BY <1>4, <1>7, <1>8, <1>9, <3>1, <3>2, <3>3
  <2>3. CASE i = k
    <3>1. i <= k /\ ~ (i + 1 <= k) /\ i + 1 = k + 1
      BY <2>3
    <3>2. El(t, i) = El(s, k) /\ El(t, i + 1) = n
      BY <1>3, <2>1, <2>3, <3>1
    <3> QED
      BY <1>8, <3>2
  <2>4. CASE i = k + 1
    <3>1. ~ (i <= k) /\ ~ (i + 1 <= k) /\ i + 1 # k + 1 /\ (i + 1) - 1 = k + 1
      BY <2>4
    <3>2. El(t, i) = n /\ El(t, i + 1) = El(s, k + 1)
      BY <1>3, <2>1, <2>4, <3>1
    <3> QED
      BY <1>8, <3>2
  <2>5. CASE i > k + 1
    <3>1. PICK j \in 0 .. Len(s) : j = i - 1
      BY <1>1, <2>1, <2>5
    <3>2. j # k /\ j + 1 # k + 1 /\ j + 1 \in 1 .. Len(s) + 1 /\ k + 1 \in 1 .. Len(s) + 1
          /\ j + 1 \in 0 .. Len(s) + 1 /\ j \in 0 .. Len(s) + 1 /\ j + 1 = i
          /\ ~ (i <= k) /\ i # k + 1 /\ ~ (i + 1 <= k) /\ i + 1 # k + 1 /\ i - 1 = j /\ (i + 1) - 1 = j + 1
      BY <1>1, <2>1, <2>5, <3>1
    <3>3. El(t, i) = El(s, j) /\ El(t, i + 1) = El(s, j + 1)
      BY <1>3, <2>1, <3>2
    <3>4. El(s, j) # El(s, k) /\ El(s, j + 1) # El(s, k + 1)
      BY <1>5, <3>2
    <3> QED
      BY <1>4, <1>7, <1>8, <1>9, <3>2, <3>3, <3>4
  <2> QED
    BY <2>1, <2>2, <2>3, <2>4, <2>5
<1>11. \A i, j \in 1 .. Len(t) : El(t, i) = El(t, j) => i = j
  <2>1. SUFFICES ASSUME NEW i \in 1 .. Len(t), NEW j \in 1 .. Len(t), El(t, i) = El(t, j)
                 PROVE  i = j
    OBVIOUS
  <2>2. i \in 0 .. Len(s) + 2 /\ j \in 0 .. Len(s) + 2 /\ i \in 1 .. Len(s) + 1 /\ j \in 1 .. Len(s) + 1
    BY <1>1, <1>3
  <2>3. /\ El(t, i) = IF i <= k THEN El(s, i) ELSE IF i = k + 1 THEN n ELSE El(s, i - 1)
        /\ El(t, j) = IF j <= k THEN El(s, j) ELSE IF j = k + 1 THEN n ELSE El(s, j - 1)
    BY <1>3, <2>2
  <2>4. /\ i <= k => i \in 0 .. Len(s)
        /\ i > k + 1 => i - 1 \in 0 .. Len(s)
        /\ j <= k => j \in 0 .. Len(s)
        /\ j > k + 1 => j - 1 \in 0 .. Len(s)
        /\ \A l \in 0 .. Len(s) : l \in 0 .. Len(s) + 1
    BY <1>1, <2>2
  <2>5. /\ i <= k => El(t, i) = El(s, i)
        /\ i = k + 1 => El(t, i) = n
        /\ i > k + 1 => El(t, i) = El(s, i - 1)
        /\ j <= k => El(t, j) = El(s, j)
        /\ j = k + 1 => El(t, j) = n
        /\ j > k + 1 => El(t, j) = El(s, j - 1)
    <3>1. /\ i = k + 1 => ~ (i <= k)
          /\ i > k + 1 => ~ (i <= k) /\ i # k + 1
          /\ j = k + 1 => ~ (j <= k)
          /\ j > k + 1 => ~ (j <= k) /\ j # k + 1
      BY <1>1, <2>2
    <3> QED
      BY <2>3, <3>1
  <2>6. /\ i <= k => El(s, i) # n
        /\ i > k + 1 => El(s, i - 1) # n
        /\ j <= k => El(s, j) # n
        /\ j > k + 1 => El(s, j - 1) # n
    BY <1>7, <2>4
  <2>7. (i <= k \/ i = k + 1 \/ i > k + 1) /\ (j <= k \/ j = k + 1 \/ j > k + 1)
    BY <1>1, <2>2
  <2>8. CASE i = k + 1 \/ j = k + 1
    <3>1. i = k + 1 /\ j = k + 1
      BY <2>1, <2>5, <2>6, <2>7, <2>8
    <3> QED
      BY <3>1
  <2>9. CASE i <= k /\ j <= k
    BY <1>5, <2>1, <2>4, <2>5, <2>9
  <2>10. CASE i <= k /\ j > k + 1
    <3>1. i = j - 1
      BY <1>5, <2>1, <2>4, <2>5, <2>10
    <3> QED
      BY <1>1, <2>2, <2>10, <3>1
  <2>11. CASE i > k + 1 /\ j <= k
    <3>1. i - 1 = j
      BY <1>5, <2>1, <2>4, <2>5, <2>11
    <3> QED
      BY <1>1, <2>2, <2>11, <3>1
  <2>12. CASE i > k + 1 /\ j > k + 1
    <3>1. i - 1 = j - 1
      BY <1>5, <2>1, <2>4, <2>5, <2>12
    <3> QED
      BY <2>2, <3>1
  <2> QED
    BY <2>7, <2>8, <2>9, <2>10, <2>11, <2>12
<1>12. linked' = {El(t, i) : i \in 1 .. Len(t)}
  <2>1. linked' = linked \cup {n}
    BY DEF Added
  <2>2. ASSUME NEW i \in 1 .. Len(t) PROVE El(t, i) \in linked \cup {n}
    <3>1. i \in 0 .. Len(s) + 2 /\ (i <= k => i \in 1 .. Len(s)) /\ (i > k + 1 => i - 1 \in 1 .. Len(s))
      BY <1>1, <1>3
    <3> QED
      BY <1>3, <1>6, <3>1
  <2>3. ASSUME NEW i \in 1 .. Len(s) PROVE \E j \in 1 .. Len(t) : El(t, j) = El(s, i)
    <3>1. CASE i <= k
      <4>1. i \in 1 .. Len(t) /\ i \in 0 .. Len(s) + 2
        BY <1>1, <1>3
      <4> QED
        BY <1>3, <3>1, <4>1
    <3>2. CASE i > k
      <4>1. i + 1 \in 1 .. Len(t) /\ i + 1 \in 0 .. Len(s) + 2 /\ ~ (i + 1 <= k) /\ i + 1 # k + 1 /\ (i + 1) - 1 = i
        BY <1>1, <1>3, <3>2
      <4>2. El(t, i + 1) = El(s, i)
        BY <1>3, <4>1
      <4> QED
        BY <4>1, <4>2
    <3> QED
      BY <3>1, <3>2
  <2>4. k + 1 \in 1 .. Len(t) /\ El(t, k + 1) = n
    <3>1. k + 1 \in 1 .. Len(t) /\ k + 1 \in 0 .. Len(s) + 2 /\ ~ (k + 1 <= k)
      BY <1>1, <1>3
    <3> QED
      BY <1>3, <3>1
  <2> QED
    BY <1>6, <2>1, <2>2, <2>3, <2>4
<1>13. Distinct(t) /\ linked' = {t[i] : i \in 1 .. Len(t)}
  BY <1>3, <1>11, <1>12, DistinctEl
<1>14. Holds(t)'
  BY <1>3, <1>10, <1>13 DEF Holds
<1> QED
  BY <1>2, <1>3, <1>14

(* Unlinking the node at place k of the ring *)
LEMMA WithoutHolds ==
    ASSUME IInv, NEW s \in Seq(Nodes), Holds(s), NEW k \in 1 .. Len(s), NEW n, n = s[k],
           next' = [next EXCEPT ![El(s, k - 1)] = El(s, k + 1), ![n] = n],
           prev' = [prev EXCEPT ![El(s, k + 1)] = El(s, k - 1), ![n] = n], Removed(n)
    PROVE  Without(s, k) \in Seq(Nodes) /\ Holds(Without(s, k))'
<1>1. Len(s) \in Nat /\ k - 1 \in 0 .. Len(s) /\ k + 1 \in 1 .. Len(s) + 1 /\ k \in 0 .. Len(s)
  OBVIOUS
<1>2. PICK t : t = Without(s, k)
  OBVIOUS
<1>3. /\ t \in Seq(Nodes) /\ Len(t) = Len(s) - 1
      /\ \A i \in 0 .. Len(s) : El(t, i) = IF i < k THEN El(s, i) ELSE El(s, i + 1)
  BY <1>2, WithoutEl
<1>4. /\ \A i \in 1 .. Len(s) : El(s, i) = s[i] /\ s[i] \in Nodes
      /\ \A i \in 0 .. Len(s) + 1 : El(s, i) \in Lines
      /\ El(s, 0) = HEAD /\ El(s, Len(s) + 1) = HEAD /\ El(s, k) = n /\ n \in Lines
  BY ElTypes DEF Lines
<1>5. /\ \A i, j \in 0 .. Len(s) : El(s, i) = El(s, j) => i = j
      /\ \A i, j \in 1 .. Len(s) + 1 : El(s, i) = El(s, j) => i = j
  BY ElDistinct DEF Holds
<1>6. linked = {El(s, i) : i \in 1 .. Len(s)}
  BY <1>4 DEF Holds
<1>7. \A i \in 0 .. Len(s) + 1 : i # k => El(s, i) # n
  <2>1. ASSUME NEW i \in 0 .. Len(s) + 1, i # k PROVE El(s, i) # n
    <3>1. i \in 0 .. Len(s) \/ i \in 1 .. Len(s) + 1
      BY <1>1
    <3>2. k \in 0 .. Len(s) /\ k \in 1 .. Len(s) + 1
      BY <1>1
    <3> QED
      BY <1>4, <1>5, <2>1, <3>1, <3>2
  <2> QED
    BY <2>1
<1>8. /\ next'[El(s, k - 1)] = El(s, k + 1) /\ prev'[El(s, k + 1)] = El(s, k - 1)
      /\ \A x \in Lines : /\ x # n /\ x # El(s, k - 1) => next'[x] = next[x]
                          /\ x # n /\ x # El(s, k + 1) => prev'[x] = prev[x]
  <2>1. k - 1 \in 0 .. Len(s) + 1 /\ k + 1 \in 0 .. Len(s) + 1 /\ k - 1 # k /\ k + 1 # k
    BY <1>1
  <2>2. El(s, k - 1) \in Lines /\ El(s, k - 1) # n /\ El(s, k + 1) \in Lines /\ El(s, k + 1) # n
    BY <1>4, <1>7, <2>1
  <2>3. next \in [Lines -> Lines \cup {NULL}] /\ prev \in [Lines -> Lines \cup {NULL}]
    BY DEF IInv, TypeOK
  <2> QED
    BY <1>4, <2>2, <2>3
<1>9. \A i \in 0 .. Len(s) : next[El(s, i)] = El(s, i + 1) /\ prev[El(s, i + 1)] = El(s, i)
  BY DEF Holds
<1>10. ASSUME NEW i \in 0 .. Len(t)
       PROVE  next'[El(t, i)] = El(t, i + 1) /\ prev'[El(t, i + 1)] = El(t, i)
  <2>1. i \in 0 .. Len(s) /\ i + 1 \in 0 .. Len(s) /\ i + 1 \in 0 .. Len(s) + 1 /\ i \in 0 .. Len(s) + 1
    BY <1>1, <1>3
  <2>2. CASE i + 1 < k
    <3>1. /\ i < k /\ i # k - 1 /\ i + 1 # k + 1 /\ i + 1 \in 1 .. Len(s) + 1 /\ k + 1 \in 1 .. Len(s) + 1
          /\ i # k /\ i + 1 # k
      BY <1>1, <2>1, <2>2
    <3>2. El(t, i) = El(s, i) /\ El(t, i + 1) = El(s, i + 1)
      BY <1>3, <2>1, <2>2, <3>1
    <3>3. El(s, i) # El(s, k - 1) /\ El(s, i + 1) # El(s, k + 1) /\ El(s, i) # n /\ El(s, i + 1) # n
      BY <1>1, <1>5, <1>7, <2>1, <3>1
    <3> QED
      BY <1>4, <1>8, <1>9, <2>1, <3>2, <3>3
  <2>3. CASE i + 1 = k
    <3>1. i < k /\ ~ (i + 1 < k) /\ i = k - 1 /\ (i + 1) + 1 = k + 1
      BY <2>3
    <3>2. El(t, i) = El(s, k - 1) /\ El(t, i + 1) = El(s, k + 1)
      BY <1>3, <2>1, <2>3, <3>1
    <3> QED
      BY <1>8, <3>2
  <2>4. CASE i + 1 > k
    <3>1. PICK j \in 0 .. Len(s) : j = i + 1
      BY <2>1
    <3>2. /\ ~ (i < k) /\ ~ (i + 1 < k) /\ j # k - 1 /\ j + 1 # k + 1 /\ j + 1 \in 1 .. Len(s) + 1
          /\ k + 1 \in 1 .. Len(s) + 1 /\ j # k /\ j + 1 # k /\ (i + 1) + 1 = j + 1
          /\ j \in 0 .. Len(s) + 1 /\ j + 1 \in 0 .. Len(s) + 1
      BY <1>1, <2>1, <2>4, <3>1
    <3>3. El(t, i) = El(s, j) /\ El(t, i + 1) = El(s, j + 1)
      BY <1>3, <2>1, <3>1, <3>2
    <3>4. El(s, j) # El(s, k - 1) /\ El(s, j + 1) # El(s, k + 1) /\ El(s, j) # n /\ El(s, j + 1) # n
      BY <1>1, <1>5, <1>7, <3>2
    <3> QED
      BY <1>4, <1>8, <1>9, <3>2, <3>3, <3>4
  <2> QED
    BY <2>1, <2>2, <2>3, <2>4
<1>11. \A i, j \in 1 .. Len(t) : El(t, i) = El(t, j) => i = j
  <2>1. SUFFICES ASSUME NEW i \in 1 .. Len(t), NEW j \in 1 .. Len(t), El(t, i) = El(t, j)
                 PROVE  i = j
    OBVIOUS
  <2>2. /\ i \in 0 .. Len(s) /\ j \in 0 .. Len(s) /\ i + 1 \in 0 .. Len(s) /\ j + 1 \in 0 .. Len(s)
    BY <1>1, <1>3
  <2>3. /\ El(t, i) = IF i < k THEN El(s, i) ELSE El(s, i + 1)
        /\ El(t, j) = IF j < k THEN El(s, j) ELSE El(s, j + 1)
    BY <1>3, <2>2
  <2>4. CASE i < k /\ j < k
    BY <1>5, <2>1, <2>2, <2>3, <2>4
  <2>5. CASE i < k /\ ~ (j < k)
    <3>1. El(s, i) = El(s, j + 1)
      BY <2>1, <2>3, <2>5
    <3>2. i = j + 1
      BY <1>5, <2>2, <3>1
    <3> QED
      BY <2>2, <2>5, <3>2
  <2>6. CASE ~ (i < k) /\ j < k
    <3>1. El(s, i + 1) = El(s, j)
      BY <2>1, <2>3, <2>6
    <3>2. i + 1 = j
      BY <1>5, <2>2, <3>1
    <3> QED
      BY <2>2, <2>6, <3>2
  <2>7. CASE ~ (i < k) /\ ~ (j < k)
    <3>1. El(s, i + 1) = El(s, j + 1)
      BY <2>1, <2>3, <2>7
    <3>2. i + 1 = j + 1
      BY <1>5, <2>2, <3>1
    <3> QED
      BY <2>2, <3>2
  <2> QED
    BY <2>4, <2>5, <2>6, <2>7
<1>12. linked' = {El(t, i) : i \in 1 .. Len(t)}
  <2>1. linked' = linked \ {n}
    BY DEF Removed
  <2>2. ASSUME NEW i \in 1 .. Len(t) PROVE El(t, i) \in linked \ {n}
    <3>1. /\ i \in 0 .. Len(s) /\ i \in 1 .. Len(s) /\ i + 1 \in 1 .. Len(s)
          /\ i \in 0 .. Len(s) + 1 /\ i + 1 \in 0 .. Len(s) + 1 /\ (i < k => i # k) /\ (~ (i < k) => i + 1 # k)
      BY <1>1, <1>3
    <3>2. CASE i < k
      BY <1>3, <1>6, <1>7, <3>1, <3>2
    <3>3. CASE ~ (i < k)
      BY <1>3, <1>6, <1>7, <3>1, <3>3
    <3> QED
      BY <3>2, <3>3
  <2>3. ASSUME NEW i \in 1 .. Len(s), El(s, i) # n PROVE \E j \in 1 .. Len(t) : El(t, j) = El(s, i)
    <3>0. i # k
      BY <1>4, <2>3
    <3>1. CASE i < k
      <4>1. i \in 1 .. Len(t) /\ i \in 0 .. Len(s)
        BY <1>1, <1>3, <3>1
      <4> QED
        BY <1>3, <3>1, <4>1
    <3>2. CASE i > k
      <4>1. i - 1 \in 1 .. Len(t) /\ i - 1 \in 0 .. Len(s) /\ ~ (i - 1 < k) /\ (i - 1) + 1 = i
        BY <1>1, <1>3, <3>2
      <4>2. El(t, i - 1) = El(s, i)
        BY <1>3, <4>1
      <4> QED
        BY <4>1, <4>2
    <3> QED
      BY <1>1, <3>0, <3>1, <3>2
  <2> QED
    BY <1>6, <2>1, <2>2, <2>3
<1>13. Distinct(t) /\ linked' = {t[i] : i \in 1 .. Len(t)}
  BY <1>3, <1>11, <1>12, DistinctEl
<1>14. Holds(t)'
  BY <1>3, <1>10, <1>13 DEF Holds
<1> QED
  BY <1>2, <1>3, <1>14

-----------------------------------------------------------------------------
(* What the deque's operations make of its nodes *)
LEMMA WithFirst ==
    ASSUME NEW s \in Seq(Nodes), NEW n \in Nodes
    PROVE  With(s, 0, n) = <<n>> \o s
<1>1. Len(s) \in Nat /\ 0 \in 0 .. Len(s)
  OBVIOUS
<1>2. With(s, 0, n) \in Seq(Nodes) /\ Len(With(s, 0, n)) = Len(s) + 1
  BY <1>1, WithEl
<1>3. <<n>> \o s \in Seq(Nodes) /\ Len(<<n>> \o s) = Len(s) + 1
      /\ \A i \in 1 .. Len(s) + 1 : (<<n>> \o s)[i] = IF i = 1 THEN n ELSE s[i - 1]
  BY <1>1
<1>4. \A i \in 1 .. Len(s) + 1 : With(s, 0, n)[i] = IF i = 1 THEN n ELSE s[i - 1]
  BY <1>1 DEF With
<1> QED
  BY <1>2, <1>3, <1>4, SeqEqual

LEMMA WithLast ==
    ASSUME NEW s \in Seq(Nodes), NEW n \in Nodes
    PROVE  With(s, Len(s), n) = Append(s, n)
<1>1. Len(s) \in Nat /\ Len(s) \in 0 .. Len(s)
  OBVIOUS
<1>2. With(s, Len(s), n) \in Seq(Nodes) /\ Len(With(s, Len(s), n)) = Len(s) + 1
  BY <1>1, WithEl
<1>3. /\ Append(s, n) \in Seq(Nodes) /\ Len(Append(s, n)) = Len(s) + 1
      /\ \A i \in 1 .. Len(s) : Append(s, n)[i] = s[i]
      /\ Append(s, n)[Len(s) + 1] = n
  BY AppendProperties
<1>4. \A i \in 1 .. Len(s) + 1 : With(s, Len(s), n)[i] = IF i <= Len(s) THEN s[i] ELSE n
  BY <1>1 DEF With
<1>5. \A i \in 1 .. Len(s) + 1 : With(s, Len(s), n)[i] = Append(s, n)[i]
  BY <1>1, <1>3, <1>4
<1> QED
  BY <1>2, <1>3, <1>5, SeqEqual

LEMMA WithoutIsRemoveAt ==
    ASSUME NEW s \in Seq(Nodes), NEW k \in 1 .. Len(s)
    PROVE  Without(s, k) = D!RemoveAt(s, k)
<1>1. Len(s) \in Nat /\ k - 1 \in 0 .. Len(s) /\ k + 1 \in 1 .. Len(s) + 1
  OBVIOUS
<1>2. D!RemoveAt(s, k) = SubSeq(s, 1, k - 1) \o SubSeq(s, k + 1, Len(s))
  BY DEF D!RemoveAt
<1>3. PICK a : a = SubSeq(s, 1, k - 1)
  OBVIOUS
<1>4. PICK b : b = SubSeq(s, k + 1, Len(s))
  OBVIOUS
<1>5. a \in Seq(Nodes) /\ Len(a) = k - 1 /\ \A i \in 1 .. k - 1 : a[i] = s[i]
  BY <1>1, <1>3
<1>6. b \in Seq(Nodes) /\ Len(b) = Len(s) - k /\ \A i \in 1 .. Len(s) - k : b[i] = s[k + i]
  BY <1>1, <1>4
<1>7. /\ a \o b \in Seq(Nodes) /\ Len(a \o b) = Len(s) - 1
      /\ \A i \in 1 .. Len(s) - 1 : (a \o b)[i] = IF i <= k - 1 THEN a[i] ELSE b[i - (k - 1)]
  <2>1. /\ a \o b \in Seq(Nodes) /\ Len(a \o b) = Len(a) + Len(b)
        /\ \A i \in 1 .. Len(a) + Len(b) : (a \o b)[i] = IF i <= Len(a) THEN a[i] ELSE b[i - Len(a)]
    BY <1>5, <1>6, ConcatProperties
  <2>2. Len(a) + Len(b) = Len(s) - 1 /\ Len(a) = k - 1
    BY <1>1, <1>5, <1>6
  <2> QED
    BY <2>1, <2>2
<1>8. ASSUME NEW i \in 1 .. Len(s) - 1
      PROVE  (a \o b)[i] = IF i < k THEN s[i] ELSE s[i + 1]
  <2>1. CASE i < k
    <3>1. i \in 1 .. k - 1 /\ i <= k - 1
      BY <1>1, <2>1
    <3> QED
      BY <1>5, <1>7, <2>1, <3>1
  <2>2. CASE ~ (i < k)
    <3>1. i - (k - 1) \in 1 .. Len(s) - k /\ ~ (i <= k - 1) /\ k + (i - (k - 1)) = i + 1
      BY <1>1, <2>2
    <3> QED
      BY <1>6, <1>7, <2>2, <3>1
  <2> QED
    BY <2>1, <2>2
<1>9. Without(s, k) \in Seq(Nodes) /\ Len(Without(s, k)) = Len(s) - 1
  BY WithoutEl
<1>10. \A i \in 1 .. Len(s) - 1 : Without(s, k)[i] = IF i < k THEN s[i] ELSE s[i + 1]
  BY DEF Without
<1>11. Without(s, k) = a \o b
  BY <1>7, <1>8, <1>9, <1>10, SeqEqual
<1> QED
  BY <1>2, <1>3, <1>4, <1>11

LEMMA WithoutFirst ==
    ASSUME NEW s \in Seq(Nodes), s # <<>>
    PROVE  1 \in 1 .. Len(s) /\ Without(s, 1) = Tail(s)
<1>1. Len(s) \in Nat /\ 1 \in 1 .. Len(s)
  OBVIOUS
<1>2. /\ Tail(s) \in Seq(Nodes) /\ Len(Tail(s)) = Len(s) - 1
      /\ \A i \in 1 .. Len(Tail(s)) : Tail(s)[i] = s[i + 1]
  BY HeadTailProperties
<1>3. Without(s, 1) \in Seq(Nodes) /\ Len(Without(s, 1)) = Len(s) - 1
  BY <1>1, WithoutEl
<1>4. \A i \in 1 .. Len(s) - 1 : Without(s, 1)[i] = s[i + 1]
  BY <1>1 DEF Without
<1>5. Without(s, 1) = Tail(s)
  BY <1>2, <1>3, <1>4, SeqEqual
<1> QED
  BY <1>1, <1>5

LEMMA WithoutLast ==
    ASSUME NEW s \in Seq(Nodes), s # <<>>
    PROVE  Len(s) \in 1 .. Len(s) /\ Without(s, Len(s)) = D!Front(s)
<1>1. Len(s) \in Nat /\ Len(s) \in 1 .. Len(s)
  OBVIOUS
<1>2. PICK f : f = SubSeq(s, 1, Len(s) - 1)
  OBVIOUS
<1>3. f \in Seq(Nodes) /\ Len(f) = Len(s) - 1 /\ \A i \in 1 .. Len(s) - 1 : f[i] = s[i]
  <2>0. Len(s) - 1 \in 0 .. Len(s)
    BY <1>1
  <2>1. PICK m \in 0 .. Len(s) : m = Len(s) - 1
    BY <2>0
  <2>2. /\ SubSeq(s, 1, m) \in Seq(Nodes) /\ Len(SubSeq(s, 1, m)) = m
        /\ \A i \in 1 .. m : SubSeq(s, 1, m)[i] = s[i]
    <3>1. 1 \in Int /\ m \in Int /\ \A i \in 1 .. m : i \in 1 .. Len(s) /\ s[i] \in Nodes
      BY <1>1
    <3>2. /\ SubSeq(s, 1, m) \in Seq(Nodes)
          /\ Len(SubSeq(s, 1, m)) = IF 1 <= m THEN m - 1 + 1 ELSE 0
          /\ \A i \in 1 .. m - 1 + 1 : SubSeq(s, 1, m)[i] = s[1 + i - 1]
      BY <3>1, SubSeqProperties
    <3>3. (IF 1 <= m THEN m - 1 + 1 ELSE 0) = m /\ m - 1 + 1 = m /\ \A i \in 1 .. m : 1 + i - 1 = i
      BY <1>1
    <3> QED
      BY <3>2, <3>3
  <2> QED
    BY <1>2, <2>1, <2>2
<1>4. Without(s, Len(s)) \in Seq(Nodes) /\ Len(Without(s, Len(s))) = Len(s) - 1
  BY <1>1, WithoutEl
<1>5. \A i \in 1 .. Len(s) - 1 : Without(s, Len(s))[i] = s[i]
  BY <1>1 DEF Without
<1>6. Without(s, Len(s)) = f
  BY <1>3, <1>4, <1>5, SeqEqual
<1> QED
  BY <1>1, <1>2, <1>6 DEF D!Front

-----------------------------------------------------------------------------
(* One operation of the deque, from the nodes s to the nodes t *)
DequeStep(s, t) ==
    \/ \E n \in Nodes : \/ (\A i \in 1 .. Len(s) : s[i] # n) /\ (t = <<n>> \o s \/ t = Append(s, n))
                        \/ \E k \in 1 .. Len(s) : s[k] = n /\ t = D!RemoveAt(s, k)
    \/ s # <<>> /\ (t = Tail(s) \/ t = D!Front(s))

(* Nothing moves when the list is empty, or the node was removed before. *)
LEMMA SelfLinked ==
    ASSUME IInv, NEW s \in Seq(Nodes), Holds(s), NEW x \in removed \cup {HEAD},
           next' = [next EXCEPT ![x] = x], prev' = [prev EXCEPT ![x] = x],
           next[x] = x, prev[x] = x, Removed(x)
    PROVE  Holds(s)'
<1>1. next' = next /\ prev' = prev
  BY DEF IInv, TypeOK, Lines
<1>2. linked' = linked
  BY ListAssumption DEF IInv, TypeOK, LinksMatch, Removed
<1> QED
  BY <1>1, <1>2 DEF Holds

LEMMA ListOrder ==
    ASSUME IInv, [Next]_vars, NEW s \in Seq(Nodes), Holds(s)
    PROVE  \E t \in Seq(Nodes) : Holds(t)' /\ (DequeStep(s, t) \/ t = s)
<1>1. /\ Len(s) \in Nat /\ El(s, 0) = HEAD /\ El(s, Len(s) + 1) = HEAD
      /\ \A k \in 1 .. Len(s) : El(s, k) = s[k] /\ s[k] \in Nodes /\ s[k] # HEAD
  BY ElTypes
<1>2. /\ linked = {s[k] : k \in 1 .. Len(s)}
      /\ \A k \in 0 .. Len(s) : next[El(s, k)] = El(s, k + 1) /\ prev[El(s, k + 1)] = El(s, k)
  BY DEF Holds
<1>3. next[HEAD] = El(s, 1) /\ prev[HEAD] = El(s, Len(s))
  <2>1. 0 \in 0 .. Len(s) /\ Len(s) \in 0 .. Len(s) /\ 0 + 1 = 1
    BY <1>1
  <2> QED
    BY <1>1, <1>2, <2>1
<1>4. \A k \in 1 .. Len(s) : next[s[k]] = El(s, k + 1) /\ prev[s[k]] = El(s, k - 1)
  <2>1. \A k \in 1 .. Len(s) : k \in 0 .. Len(s) /\ k - 1 \in 0 .. Len(s) /\ (k - 1) + 1 = k
    BY <1>1
  <2> QED
    BY <1>1, <1>2, <2>1
<1>5. ASSUME NEW n \in Nodes, AddFirst(n)
      PROVE  \E t \in Seq(Nodes) : Holds(t)' /\ (DequeStep(s, t) \/ t = s)
  <2>1. n \in Nodes \ linked /\ (\A i \in 1 .. Len(s) : s[i] # n) /\ 0 \in 0 .. Len(s) /\ 0 + 1 = 1
    BY <1>1, <1>2, <1>5 DEF AddFirst
  <2>2. /\ prev' = [prev EXCEPT ![n] = El(s, 0), ![El(s, 0 + 1)] = n]
        /\ next' = [next EXCEPT ![n] = El(s, 0 + 1), ![El(s, 0)] = n] /\ Added(n)
    BY <1>1, <1>3, <1>5, <2>1 DEF AddFirst
  <2>3. With(s, 0, n) \in Seq(Nodes) /\ Holds(With(s, 0, n))'
    BY <2>1, <2>2, WithHolds
  <2>4. DequeStep(s, With(s, 0, n))
    BY <2>1, WithFirst DEF DequeStep
  <2> QED
    BY <2>3, <2>4
<1>6. ASSUME NEW n \in Nodes, AddLast(n)
      PROVE  \E t \in Seq(Nodes) : Holds(t)' /\ (DequeStep(s, t) \/ t = s)
  <2>1. n \in Nodes \ linked /\ (\A i \in 1 .. Len(s) : s[i] # n) /\ Len(s) \in 0 .. Len(s)
    BY <1>1, <1>2, <1>6 DEF AddLast
  <2>2. /\ prev' = [prev EXCEPT ![n] = El(s, Len(s)), ![El(s, Len(s) + 1)] = n]
        /\ next' = [next EXCEPT ![n] = El(s, Len(s) + 1), ![El(s, Len(s))] = n] /\ Added(n)
    BY <1>1, <1>3, <1>6, <2>1 DEF AddLast
  <2>3. With(s, Len(s), n) \in Seq(Nodes) /\ Holds(With(s, Len(s), n))'
    BY <2>1, <2>2, WithHolds
  <2>4. DequeStep(s, With(s, Len(s), n))
    BY <2>1, WithLast DEF DequeStep
  <2> QED
    BY <2>3, <2>4
<1>7. ASSUME NEW k \in 1 .. Len(s), Removed(s[k]),
             next' = [next EXCEPT ![El(s, k - 1)] = El(s, k + 1), ![s[k]] = s[k]],
             prev' = [prev EXCEPT ![El(s, k + 1)] = El(s, k - 1), ![s[k]] = s[k]]
      PROVE  Without(s, k) \in Seq(Nodes) /\ Holds(Without(s, k))'
  <2>1. PICK n : n = s[k]
    OBVIOUS
  <2>2. /\ next' = [next EXCEPT ![El(s, k - 1)] = El(s, k + 1), ![n] = n]
        /\ prev' = [prev EXCEPT ![El(s, k + 1)] = El(s, k - 1), ![n] = n] /\ Removed(n)
    BY <1>7, <2>1
  <2> QED
    BY <2>1, <2>2, WithoutHolds
<1>8. CASE DelFirst
  <2>1. CASE s = <<>>
    <3>1. next[HEAD] = HEAD /\ prev[HEAD] = HEAD
      BY <1>1, <1>3, <2>1
    <3>2. next' = [next EXCEPT ![HEAD] = HEAD] /\ prev' = [prev EXCEPT ![HEAD] = HEAD] /\ Removed(HEAD)
      BY <1>8, <3>1 DEF DelFirst
    <3>3. Holds(s)'
      BY <3>1, <3>2, SelfLinked
    <3> QED
      BY <3>3
  <2>2. CASE s # <<>>
    <3>1. 1 \in 1 .. Len(s) /\ Without(s, 1) = Tail(s)
      BY <2>2, WithoutFirst
    <3>2. 1 - 1 = 0 /\ next[HEAD] = s[1] /\ next[s[1]] = El(s, 1 + 1) /\ El(s, 1 - 1) = HEAD
      BY <1>1, <1>3, <1>4, <3>1
    <3>3. /\ next' = [next EXCEPT ![El(s, 1 - 1)] = El(s, 1 + 1), ![s[1]] = s[1]]
          /\ prev' = [prev EXCEPT ![El(s, 1 + 1)] = El(s, 1 - 1), ![s[1]] = s[1]] /\ Removed(s[1])
      BY <1>8, <3>2 DEF DelFirst
    <3>4. Without(s, 1) \in Seq(Nodes) /\ Holds(Without(s, 1))'
      BY <1>7, <3>1, <3>3
    <3>5. DequeStep(s, Without(s, 1))
      BY <2>2, <3>1 DEF DequeStep
    <3> QED
      BY <3>4, <3>5
  <2> QED
    BY <2>1, <2>2
<1>9. CASE DelLast
  <2>1. CASE s = <<>>
    <3>1. next[HEAD] = HEAD /\ prev[HEAD] = HEAD
      BY <1>1, <1>3, <2>1
    <3>2. next' = [next EXCEPT ![HEAD] = HEAD] /\ prev' = [prev EXCEPT ![HEAD] = HEAD] /\ Removed(HEAD)
      BY <1>9, <3>1 DEF DelLast
    <3>3. Holds(s)'
      BY <3>1, <3>2, SelfLinked
    <3> QED
      BY <3>3
  <2>2. CASE s # <<>>
    <3>1. Len(s) \in 1 .. Len(s) /\ Without(s, Len(s)) = D!Front(s)
      BY <2>2, WithoutLast
    <3>2. /\ prev[HEAD] = s[Len(s)] /\ prev[s[Len(s)]] = El(s, Len(s) - 1) /\ El(s, Len(s) + 1) = HEAD
      BY <1>1, <1>3, <1>4, <3>1
    <3>3. /\ next' = [next EXCEPT ![El(s, Len(s) - 1)] = El(s, Len(s) + 1), ![s[Len(s)]] = s[Len(s)]]
          /\ prev' = [prev EXCEPT ![El(s, Len(s) + 1)] = El(s, Len(s) - 1), ![s[Len(s)]] = s[Len(s)]]
          /\ Removed(s[Len(s)])
      BY <1>9, <3>2 DEF DelLast
    <3>4. Without(s, Len(s)) \in Seq(Nodes) /\ Holds(Without(s, Len(s)))'
      BY <1>7, <3>1, <3>3
    <3>5. DequeStep(s, Without(s, Len(s)))
      BY <2>2, <3>1 DEF DequeStep
    <3> QED
      BY <3>4, <3>5
  <2> QED
    BY <2>1, <2>2
<1>10. ASSUME NEW n \in Nodes, Del(n)
       PROVE  \E t \in Seq(Nodes) : Holds(t)' /\ (DequeStep(s, t) \/ t = s)
  <2>1. CASE n \in linked
    <3>1. PICK k \in 1 .. Len(s) : n = s[k]
      BY <1>2, <2>1
    <3>2. /\ next' = [next EXCEPT ![El(s, k - 1)] = El(s, k + 1), ![s[k]] = s[k]]
          /\ prev' = [prev EXCEPT ![El(s, k + 1)] = El(s, k - 1), ![s[k]] = s[k]] /\ Removed(s[k])
      BY <1>4, <1>10, <3>1 DEF Del
    <3>3. Without(s, k) \in Seq(Nodes) /\ Holds(Without(s, k))'
      BY <1>7, <3>2
    <3>4. DequeStep(s, Without(s, k))
      BY <3>1, WithoutIsRemoveAt DEF DequeStep
    <3> QED
      BY <3>3, <3>4
  <2>2. CASE n \notin linked
    <3>1. n \in removed /\ next[n] = n /\ prev[n] = n
      BY <1>10, <2>2 DEF Del, IInv, LinksMatch
    <3>2. next' = [next EXCEPT ![n] = n] /\ prev' = [prev EXCEPT ![n] = n] /\ Removed(n)
      BY <1>10, <3>1 DEF Del, IInv, TypeOK
    <3>3. Holds(s)'
      BY <3>1, <3>2, SelfLinked
    <3> QED
      BY <3>3
  <2> QED
    BY <2>1, <2>2
<1>11. CASE UNCHANGED vars
  <2>1. Holds(s)'
    BY <1>11 DEF vars, Holds
  <2> QED
    BY <2>1
<1> QED
  BY <1>5, <1>6, <1>8, <1>9, <1>10, <1>11 DEF Next

(* The inductive invariant: the links match, and some sequence is held. *)
Ordered == IInv /\ \E s \in Seq(Nodes) : Holds(s)

LEMMA OrderedInit == Init => Ordered /\ list_for_each = <<>>
<1> SUFFICES ASSUME Init PROVE Ordered /\ list_for_each = <<>>
  OBVIOUS
<1>1. IInv
  BY ListInit
<1>2. <<>> \in Seq(Nodes) /\ Len(<<>>) = 0
  OBVIOUS
<1>3. Distinct(<<>>) /\ linked = {<<>>[k] : k \in 1 .. Len(<<>>)}
  BY <1>2 DEF Distinct, Init
<1>4. El(<<>>, 0) = HEAD /\ El(<<>>, 0 + 1) = HEAD
  BY <1>2 DEF El
<1>5. next[HEAD] = HEAD /\ prev[HEAD] = HEAD
  BY DEF Init, Lines
<1>6. Holds(<<>>)
  BY <1>2, <1>3, <1>4, <1>5 DEF Holds
<1> QED
  BY <1>1, <1>2, <1>6, HoldsWalks DEF Ordered

LEMMA OrderedNext == Ordered /\ [Next]_vars => Ordered'
  BY ListNext, ListOrder DEF Ordered

(* However the nodes were added and removed, a walk in either direction
   meets each node of the list once, in one order, and the questions about
   the first, the last, the next and the previous agree with that order. *)
THEOREM ListWalks == Spec => []WalksAgree
<1>1. Ordered => WalksAgree
  BY HoldsAgree DEF Ordered
<1> QED
  BY <1>1, OrderedInit, OrderedNext, PTL DEF Spec

LEMMA Items == \A s \in Seq(Nodes) : Holds(s) => list_for_each = s
  BY HoldsWalks

LEMMA DequeNext == Ordered /\ [Next]_vars => [D!Next]_list_for_each
<1> SUFFICES ASSUME Ordered, [Next]_vars PROVE [D!Next]_list_for_each
  OBVIOUS
<1>1. (\A s \in Seq(Nodes) : Holds(s) => list_for_each = s)'
  BY Items, PTL
<1>2. PICK s \in Seq(Nodes) : Holds(s)
  BY DEF Ordered
<1>3. PICK t \in Seq(Nodes) : Holds(t)' /\ (DequeStep(s, t) \/ t = s)
  BY <1>2, ListOrder DEF Ordered
<1>4. list_for_each = s /\ list_for_each' = t
  BY <1>1, <1>2, <1>3, Items
<1>5. DequeStep(s, t) => D!Next
  <2>1. DOMAIN s = 1 .. Len(s)
    OBVIOUS
  <2> QED
    BY <1>4, <2>1 DEF DequeStep, D!Next, D!AddFirst, D!AddLast, D!Del, D!DelFirst, D!DelLast, D!Contains
<1> QED
  BY <1>3, <1>4, <1>5

(* The list is the deque it stands for: an addition puts a node at one end, a
   removal takes out one node, and every other node keeps its place; removing
   from an empty list, or a node twice, changes nothing. *)
THEOREM ListIsDeque == Spec => ImplementsDeque
<1>1. Init => D!Init
  BY OrderedInit DEF D!Init
<1> QED
  BY <1>1, OrderedInit, OrderedNext, DequeNext, PTL DEF Spec, ImplementsDeque, D!Spec
=============================================================================
