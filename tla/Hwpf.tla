-------------------------------- MODULE Hwpf --------------------------------
(***************************************************************************)
(* bsp_hwpf_dcache.h: the engines of the data prefetcher.  Each has three  *)
(* control registers, found by arithmetic on their numbers, into which the *)
(* functions pack several fields: the stride and the counts, from 1 on,    *)
(* are stored minus 1, and the low bits of an aligned address hold flags.  *)
(* A register is the sequence of its fields; a field of b bits holds the   *)
(* numbers below 2^b.                                                      *)
(***************************************************************************)
EXTENDS Integers

CONSTANTS Engines,       \* the numbers that the functions are called with
          Stride, Count, \* 2^32 and 2^16, the ranges of the fields
          Line64,        \* the alignment of an address, 2^6
          Strides, Counts, Starts, Flags \* the arguments

ASSUME HwpfAssumption == /\ Engines \subseteq Int
                         /\ {Stride, Count, Line64} \subseteq Nat \ {0, 1}
                         /\ Strides \subseteq 0 .. Stride /\ Counts \subseteq 0 .. Count
                         /\ Starts \subseteq Nat /\ Flags \subseteq 0 .. 7

CSR_BASE0 == 2272 \* 0x8e0
CSR_PARAM0 == 2273
CSR_THROTTLE0 == 2274
HWPF_ENGINE_CSR_BASE(x) == CSR_BASE0 + x * 3
ParamTight(x) == CSR_PARAM0 + x
HWPF_ENGINE_CSR_PARAM(x) == CSR_PARAM0 + x * 3
HWPF_ENGINE_CSR_THROTTLE(x) == CSR_THROTTLE0 + x * 3
Csrs == CSR_BASE0 .. CSR_BASE0 + 11

VARIABLES csr,   \* the control registers
          wanted \* what each engine was last asked for (no code)

hwpfVars == <<csr, wanted>>

Existing == Engines \cap 0 .. 3
NoEngine == [addr |-> 0, flags |-> 0, param |-> <<1, 1, 1>>, throttle |-> <<0, 0>>]
HwpfInit == /\ csr = [r \in Csrs |-> <<0, 0, 0>>]
            /\ wanted = [e \in Existing |-> NoEngine]

(* The switches of __hwpf_set_*() ignore the other engines. *)
Put(e, r, fields) == csr' = IF e \in 0 .. 3 THEN [csr EXCEPT ![r] = fields] ELSE csr
Want(e, new) == wanted' = IF e \in 0 .. 3 THEN [wanted EXCEPT ![e] = new] ELSE wanted

(* bsp_hwpf_set_addr(): the aligned address and the flags, of which 1 enables *)
set_addr(e, addr, flags) ==
    LET line == addr \div Line64 IN
    /\ Put(e, HWPF_ENGINE_CSR_BASE(e), <<line, flags, 0>>)
    /\ Want(e, [wanted[e] EXCEPT !.addr = line * Line64, !.flags = flags])
(* bsp_hwpf_abort() *)
abort(e) == /\ Put(e, HWPF_ENGINE_CSR_BASE(e), <<0, 0, 0>>)
            /\ Want(e, [wanted[e] EXCEPT !.addr = 0, !.flags = 0])
(* bsp_hwpf_set_params(): unsigned fields, minus 1 *)
set_params(e, stride, nlines, nblocks) ==
    /\ Put(e, HWPF_ENGINE_CSR_PARAM(e),
           <<(stride - 1) % Stride, (nlines - 1) % Count, (nblocks - 1) % Count>>)
    /\ Want(e, [wanted[e] EXCEPT !.param = <<stride, nlines, nblocks>>])
(* bsp_hwpf_set_throttle() *)
set_throttle(e, nwait, ninflight) ==
    /\ Put(e, HWPF_ENGINE_CSR_THROTTLE(e), <<nwait % Count, ninflight % Count, 0>>)
    /\ Want(e, [wanted[e] EXCEPT !.throttle = <<nwait, ninflight>>])

get_addr(e) == csr[HWPF_ENGINE_CSR_BASE(e)][1] * Line64
get_params(e) == LET p == csr[HWPF_ENGINE_CSR_PARAM(e)] IN <<p[1] + 1, p[2] + 1, p[3] + 1>>
get_throttle(e) == LET t == csr[HWPF_ENGINE_CSR_THROTTLE(e)] IN <<t[1], t[2]>>
(* bsp_hwpf_is_enabled(): a field of the status register, which gathers the
   enable flags of the engines *)
EnableField == {e \in 0 .. 3 : csr[HWPF_ENGINE_CSR_BASE(e)][2] % 2 = 1}
is_enabled(e) == e \in EnableField

HwpfNext ==
    \E e \in Engines :
      \/ \E a \in Starts, f \in Flags : set_addr(e, a, f)
      \/ abort(e)
      \/ \E s \in Strides, n1, n2 \in Counts : set_params(e, s, n1, n2)
      \/ \E w, i \in Counts : set_throttle(e, w, i)

HwpfSpec == HwpfInit /\ [][HwpfNext]_hwpfVars
-----------------------------------------------------------------------------
(* What is read back of an engine, and whether it is enabled, is what was last
   given for it, whatever was given for the others and for numbers that are no
   engine: the registers do not overlap and the fields hold every count up to
   their whole range.  Only a 0 reads as that range, and a throttle count of
   the range as 0. *)
HwpfReadsBack ==
    LET OrWhole(v, whole) == IF v = 0 THEN whole ELSE v
        OrZero(v) == IF v = Count THEN 0 ELSE v
    IN  \A e \in Existing :
          /\ get_addr(e) = wanted[e].addr
          /\ is_enabled(e) <=> wanted[e].flags % 2 = 1
          /\ LET p == wanted[e].param IN
               get_params(e) = <<OrWhole(p[1], Stride), OrWhole(p[2], Count), OrWhole(p[3], Count)>>
          /\ LET t == wanted[e].throttle IN get_throttle(e) = <<OrZero(t[1]), OrZero(t[2])>>
=============================================================================
