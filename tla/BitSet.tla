------------------------------- MODULE BitSet -------------------------------
(***************************************************************************)
(* common/bitset.c: a set of small numbers in a table of words.  A word is *)
(* the set of the positions of its ones; the element 0 is the most         *)
(* significant bit of the first word.  The table has n/W + 1 words, so the *)
(* last one is partly, or not at all, used.                                *)
(***************************************************************************)
EXTENDS Integers, FiniteSets

CONSTANTS W,    \* the bits of a word, 64 in the code
          MaxN  \* the largest set

ASSUME BitSetAssumption == W \in Nat \ {0} /\ MaxN \in Nat

VARIABLES n, tab,  \* bitset_t: its size and its words, tab_length of them
          members, \* the set that the calls describe (no code)
          stray    \* was an element below 0 named since bitset_init()? (no code)

bitsetVars == <<n, tab, members, stray>>

Bits == 0 .. W - 1
(* The word of an element and its bit there.  The division of C truncates:
   the elements from 1 - W on are in the first word, too. *)
Word(e) == IF e >= 0 THEN e \div W ELSE -((-e) \div W)
Bit(e) == W - 1 - (e % W)
(* The one that is shifted to the bit of e.  Below 0 the shift is by W or
   more, which is undefined: a one anywhere in the word, or none. *)
Masks(e) == IF e >= 0 THEN {{Bit(e)}} ELSE {m \in SUBSET Bits : Cardinality(m) <= 1}

BitSetInit == n = 0 /\ tab = <<{}>> /\ members = {} /\ stray = FALSE

(* bitset_init(), also after bitset_destroy(); tab is 0-based in the code *)
bitset_init(size) == /\ n' = size /\ members' = {} /\ stray' = FALSE
                     /\ tab' = [k \in 1 .. size \div W + 1 |-> {}]

(* Elements from n on are ignored: MaxN + 1 is one for every n.  Elements below
   0 are not: the word of those up to -W precedes the table, and is no part of
   the set; the word of the others is the first one. *)
Update(e, new) ==
    /\ tab' = IF e >= n \/ Word(e) < 0 THEN tab ELSE [tab EXCEPT ![Word(e) + 1] = new]
    /\ stray' = (stray \/ e < 0)
    /\ UNCHANGED n
Flipped(e) == IF e \in members THEN members \ {e} ELSE members \cup ({e} \cap 0 .. n - 1)
bitset_set(e) == /\ \E m \in Masks(e) : Update(e, tab[Word(e) + 1] \cup m)
                 /\ members' = members \cup ({e} \cap 0 .. n - 1)
bitset_reset(e) == /\ \E m \in Masks(e) : Update(e, tab[Word(e) + 1] \ m)
                   /\ members' = members \ {e}
FlipSets(e) == /\ \E m \in Masks(e) : Update(e, tab[Word(e) + 1] \cup m)
               /\ members' = Flipped(e)
bitset_flip(e) == LET w == tab[Word(e) + 1] IN
    /\ \E m \in Masks(e) : Update(e, (w \ m) \cup (m \ w))
    /\ members' = Flipped(e)

(* What bitset_test() may answer: what precedes the table holds anything. *)
bitset_test(e) ==
    IF Word(e) < 0 THEN BOOLEAN
    ELSE {e < n /\ m \cap tab[Word(e) + 1] # {} : m \in Masks(e)}
bitset_size == n
bitset_any == \E k \in DOMAIN tab : tab[k] # {}
bitset_none == \A k \in DOMAIN tab : tab[k] = {}
bitset_count == Cardinality({x \in (DOMAIN tab) \X Bits : x[2] \in tab[x[1]]})
(* What bitset_all() may answer: it compares the last word with all ones
   shifted left by W - (n % W), which is undefined when that is W. *)
Shifted == IF n % W = 0 THEN {{}, Bits} ELSE {{b \in Bits : b >= W - (n % W)}}
bitset_all == LET l == n \div W + 1 IN
    {(\A k \in DOMAIN tab \ {l} : tab[k] = Bits) /\ tab[l] = last : last \in Shifted}

BitSetNext == \/ \E size \in 0 .. MaxN : bitset_init(size)
              \/ \E e \in -W .. MaxN + 1 :
                   bitset_set(e) \/ bitset_reset(e) \/ bitset_flip(e)

BitSetSpec == BitSetInit /\ [][BitSetNext]_bitsetVars
-----------------------------------------------------------------------------
(* Every question is answered as of the set, for every size, after elements
   beyond it were named too: no such operation leaves a one in the unused part
   of the last word.  A negative element is not refused (each operation only
   compares it with the size): it disturbs the first word at most, and that
   until the next bitset_init().  bitset_all() never claims a full set that is
   not, and recognizes one for sure exactly if its size is no multiple of W,
   where bitset.h promises it for all sizes. *)
BitSetIsSet ==
    /\ \A e \in 0 .. MaxN + 1 : (stray => e >= W) =>
         \A answer \in bitset_test(e) : answer <=> e \in members
    /\ ~stray => /\ bitset_any <=> members # {}
                 /\ bitset_none <=> members = {}
                 /\ bitset_count = Cardinality(members)
                 /\ TRUE \in bitset_all => members = 0 .. bitset_size - 1
                 /\ members = 0 .. bitset_size - 1 => (bitset_all = {TRUE} <=> n % W # 0)
=============================================================================
