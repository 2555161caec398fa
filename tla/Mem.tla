-------------------------------- MODULE Mem --------------------------------
(***************************************************************************)
(* common/mem.c: memset() and memcpy(), one store, or for memcpy() one     *)
(* block of four words, per step.  memset() writes bytes, memcpy() only    *)
(* words, and the model of the memory follows: fill maps a byte, copy a    *)
(* word of the destination to what it holds.  Pointers given to memcpy()   *)
(* are aligned: what a misaligned access does is up to the core.           *)
(***************************************************************************)
EXTENDS Integers

CONSTANTS WSIZE,    \* sizeof(long)
          Offsets,  \* the alignments of the region given to memset()
          Values,   \* the bytes it fills it with
          Sizes,    \* the sizes in bytes
          OLD       \* the previous content

ASSUME MemAssumption == /\ WSIZE \in {4, 8} /\ Offsets \subseteq 0 .. WSIZE - 1
                        /\ Values \subseteq 0 .. 255 /\ Sizes \subseteq Nat
                        /\ OLD \notin Int

VARIABLES mpc,     \* "done", or the loop that runs
          req,     \* the arguments of the call
          at, left, \* the pointer and the count of the loops
          fill, copy,
          ahead    \* the last word of the source that memcpy() has read

memVars == <<mpc, req, at, left, fill, copy, ahead>>

Block == 4 * WSIZE
Bound == CHOOSE m \in Sizes : \A s \in Sizes : s <= m
Bytes == 0 .. 2 * Bound + 2 * WSIZE
MemInit == /\ mpc = "done" /\ req = [op |-> "none", s |-> 0, c |-> 0, n |-> 0]
           /\ at = 0 /\ left = 0 /\ ahead = -1
           /\ fill = [b \in Bytes |-> OLD] /\ copy = [k \in Bytes |-> OLD]

(* Each call is made on fresh memory. *)
Call(op, s, c, n, l) == /\ mpc = "done" /\ mpc' = l
                        /\ req' = [op |-> op, s |-> s, c |-> c, n |-> n]
                        /\ at' = s
                        /\ fill' = [b \in Bytes |-> OLD] /\ copy' = [k \in Bytes |-> OLD]
                        /\ ahead' = -1

-----------------------------------------------------------------------------
(* memset(): the bytes up to the first boundary, words, bytes.  left counts
   the bytes that follow those of the running loop. *)
HeadSize(s, n) == IF s % WSIZE # 0 /\ n >= WSIZE THEN WSIZE - (s % WSIZE) ELSE 0
MemsetKeepsCount(s, c, n) == Call("memset", s, c, n, "head") /\ left' = n
memset(s, c, n) == Call("memset", s, c, n, "head") /\ left' = n - HeadSize(s, n)
HeadByte == /\ mpc = "head" /\ at < req.s + HeadSize(req.s, req.n)
            /\ fill' = [fill EXCEPT ![at] = req.c] /\ at' = at + 1
            /\ UNCHANGED <<mpc, req, left, copy, ahead>>
HeadDone == /\ mpc = "head" /\ at = req.s + HeadSize(req.s, req.n)
            /\ mpc' = "words"
            /\ UNCHANGED <<req, at, left, fill, copy, ahead>>
(* The word is built as an int: its sign fills the upper half of a long. *)
Lane(c, b) == IF b >= 4 /\ c >= 128 THEN 255 ELSE c
FillWord == /\ mpc = "words" /\ left >= WSIZE
            /\ fill' = [b \in Bytes |-> IF b - at \in 0 .. WSIZE - 1 THEN Lane(req.c, b - at) ELSE fill[b]]
            /\ at' = at + WSIZE /\ left' = left - WSIZE
            /\ UNCHANGED <<mpc, req, copy, ahead>>
TailByte == /\ mpc = "words" /\ left \in 1 .. WSIZE - 1
            /\ fill' = [fill EXCEPT ![at] = req.c] /\ at' = at + 1 /\ left' = left - 1
            /\ UNCHANGED <<mpc, req, copy, ahead>>

-----------------------------------------------------------------------------
(* memcpy(): blocks of four words, each block read one ahead of its stores,
   then one word for every byte left.  Word k of the source is called k. *)
memcpy(n) == /\ Call("memcpy", 0, 0, n, "blocks") /\ left' = n
CopyBlock == /\ mpc = "blocks" /\ left >= Block
             /\ copy' = [k \in Bytes |-> IF k - at \in 0 .. 3 THEN k ELSE copy[k]]
             /\ ahead' = at + 7
             /\ at' = at + 4 /\ left' = left - Block
             /\ UNCHANGED <<mpc, req, fill>>
CopyTail == /\ mpc = "blocks" /\ left \in 1 .. Block - 1
            /\ copy' = [copy EXCEPT ![at] = at]
            /\ ahead' = IF at > ahead THEN at ELSE ahead
            /\ at' = at + 1 /\ left' = left - 1
            /\ UNCHANGED <<mpc, req, fill>>

Return == /\ mpc \in {"words", "blocks"} /\ left = 0
          /\ mpc' = "done"
          /\ UNCHANGED <<req, at, left, fill, copy, ahead>>
MemNext == \/ \E s \in Offsets, c \in Values, n \in Sizes : memset(s, c, n)
           \/ \E n \in Sizes : memcpy(n)
           \/ HeadByte \/ HeadDone \/ FillWord \/ TailByte
           \/ CopyBlock \/ CopyTail \/ Return

MemSpec == MemInit /\ [][MemNext]_memVars
-----------------------------------------------------------------------------
(* memset() writes the n bytes from s on and no other, whatever s and n are
   modulo the word size.  The bytes hold c, except that those of a c that is
   negative as a char may hold 0xff in the upper half of a word. *)
Filled == \A b \in Bytes :
            /\ fill[b] # OLD <=> b \in req.s .. req.s + req.n - 1
            /\ fill[b] \in {OLD, req.c} \/ (fill[b] = 255 /\ req.c >= 128 /\ b % WSIZE >= 4)

(* memcpy() copies at least n bytes, in place.  It writes exactly n, and
   reads one block more, if n is a multiple of the block.  Else it writes a
   word for each byte left, which ends less than WSIZE blocks further. *)
Copied == LET written == {k \in Bytes : copy[k] # OLD} IN
          /\ \A k \in written : copy[k] = k
          /\ \A k \in Bytes : k * WSIZE < req.n => k \in written
          /\ \A k \in written : IF req.n % Block = 0
                                THEN (k + 1) * WSIZE <= req.n
                                ELSE k * WSIZE < req.n + ((req.n % Block) * (WSIZE - 1))
          /\ req.n % Block = 0 => ahead * WSIZE < req.n + Block

(* Each call has the extent stated above when it returns. *)
MemExtents == mpc = "done" => /\ req.op = "memset" => Filled
                              /\ req.op = "memcpy" => Copied
=============================================================================
