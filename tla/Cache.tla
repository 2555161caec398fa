------------------------------- MODULE Cache -------------------------------
(***************************************************************************)
(* include/common/cache.h, bsp_cache.h and bsp_cmo.h with the cache        *)
(* instructions enabled: what a core may still read from its cache after   *)
(* an invalidation.  The cache under study is its data cache, which writes *)
(* through but misses the stores of other cores, or its instruction cache, *)
(* which misses every store.  Either may load or evict lines at any time,  *)
(* and holds lines of any age when the core enables it.                    *)
(*                                                                         *)
(* A byte of memory is the number of times it was written.                 *)
(***************************************************************************)
EXTENDS Integers

CONSTANTS LINE_BYTES, \* 1 << BSP_CONFIG_*CACHE_LINE_OFFSET
          LastAddr,
          MaxWrites   \* of one byte

ASSUME CacheAssumption == LINE_BYTES \in Nat \ {0} /\ LastAddr \in Nat /\ MaxWrites \in Nat

VARIABLES kind,   \* "data" or "code"
          ram,    \* the memory
          lines,  \* the cached lines, ABSENT for the others
          range,  \* the range of the invalidation, and its loop
          asked   \* the memory when it was called (no code)

cacheVars == <<kind, ram, lines, range, asked>>

Addrs == 0 .. LastAddr
Line(a) == a \div LINE_BYTES
LineNumbers == {Line(a) : a \in Addrs}
InLine(l) == {a \in Addrs : Line(a) = l}
ABSENT == [a \in {} |-> 0]
EMPTY == [l \in LineNumbers |-> ABSENT]

(* BSP_CONFIG_*CACHE_INVALIDATE_LINE_IS_SUPPORTED, ..._PREFETCH_LINE_... *)
LineIsSupported == kind = "data"

CacheInit == /\ kind \in {"data", "code"}
             /\ ram = [a \in Addrs |-> 0]
             /\ lines = EMPTY
             /\ range = [addr |-> 0, bytes |-> 0, line |-> 0, end |-> -1]
             /\ asked = ram

(* What a load or a fetch returns *)
View(a) == LET copy == lines[Line(a)] IN IF copy = ABSENT THEN ram[a] ELSE copy[a]

(* Stores of another core reach memory only, *)
Store(bytes) ==
    /\ \A a \in bytes : ram[a] < MaxWrites
    /\ ram' = [a \in Addrs |-> IF a \in bytes THEN ram[a] + 1 ELSE ram[a]]
    /\ UNCHANGED <<kind, range, asked>>
StoreElsewhere(a) == Store({a}) /\ UNCHANGED lines
(* ... those of this core also the copy in its data cache, if there is one. *)
StoreAndUpdate(bytes) ==
    /\ Store(bytes)
    /\ lines' = [l \in LineNumbers |->
                   IF kind = "code" \/ lines[l] = ABSENT THEN lines[l]
                   ELSE [a \in InLine(l) |-> IF a \in bytes THEN ram'[a] ELSE lines[l][a]]]
StoreHere(a) == StoreAndUpdate({a})
(* A store to all the bytes of a line *)
cmo_zero(l) == StoreAndUpdate(InLine(l))

Loaded(ls) == [l \in LineNumbers |-> IF l \in ls /\ lines[l] = ABSENT
                                    THEN [a \in InLine(l) |-> ram[a]] ELSE lines[l]]
Dropped(ls) == [l \in LineNumbers |-> IF l \in ls THEN ABSENT ELSE lines[l]]
LineRange(addr, bytes) == IF bytes = 0 THEN {} ELSE Line(addr) .. Line(addr + bytes - 1)

(* A load or a fetch that misses, speculation, or cmo_prefetch_*() *)
Fill(l) == /\ lines' = Loaded({l})
           /\ UNCHANGED <<kind, ram, range, asked>>
(* cpu_*cache_prefetch_range() *)
PrefetchRange(addr, bytes) ==
    /\ LineIsSupported
    /\ lines' = Loaded(LineRange(addr, bytes))
    /\ UNCHANGED <<kind, ram, range, asked>>
(* cpu_*cache_prefetch_address() *)
PrefetchAddress(a) == PrefetchRange(a, 1)
(* cmo_flush(), cmo_flush_all(), or the eviction of lines.  There is nothing
   to write back: cmo_clean() changes nothing. *)
cmo_flush(ls) == /\ lines' = Dropped(ls)
                 /\ UNCHANGED <<kind, ram, range, asked>>

(* cpu_dcache_invalidate_range(): the numbers of the first and the last line,
   and then every line between them. *)
Invalidating == range.line <= range.end
Begin(addr, bytes, end) ==
    /\ ~Invalidating
    /\ range' = [addr |-> addr, bytes |-> bytes, line |-> Line(addr), end |-> end]
    /\ asked' = ram
    /\ UNCHANGED <<kind, ram>>
InvalidateByCount(addr, bytes) ==
    /\ LineIsSupported
    /\ Begin(addr, bytes, IF bytes = 0 THEN -1 ELSE Line(addr) + ((bytes - 1) \div LINE_BYTES))
    /\ UNCHANGED lines
InvalidateRange(addr, bytes) ==
    /\ LineIsSupported
    /\ Begin(addr, bytes, IF bytes = 0 THEN -1 ELSE Line(addr + bytes - 1))
    /\ UNCHANGED lines
(* cpu_dcache_invalidate_address() in its loop *)
InvalidateLine ==
    /\ Invalidating
    /\ lines' = Dropped({range.line})
    /\ range' = [range EXCEPT !.line = @ + 1]
    /\ UNCHANGED <<kind, ram, asked>>
(* cpu_icache_invalidate_range(): all the lines, unless the range is empty. *)
InvalidateCode(addr, bytes) ==
    /\ ~LineIsSupported
    /\ Begin(addr, bytes, -1)
    /\ lines' = IF bytes = 0 THEN lines ELSE EMPTY
(* cpu_*cache_invalidate_address() on its own *)
InvalidateAddress(a) ==
    /\ Begin(a, 1, -1)
    /\ lines' = IF LineIsSupported THEN Dropped({Line(a)}) ELSE EMPTY
(* cpu_*cache_invalidate() *)
InvalidateAll == Begin(0, LastAddr + 1, -1) /\ lines' = EMPTY

CacheNext == \/ \E a \in Addrs : \/ StoreHere(a) \/ StoreElsewhere(a)
                                 \/ InvalidateAddress(a) \/ PrefetchAddress(a)
             \/ \E l \in LineNumbers : Fill(l) \/ cmo_zero(l) \/ cmo_flush({l})
             \/ \E a \in Addrs : \E b \in 0 .. LastAddr + 1 - a :
                    InvalidateRange(a, b) \/ InvalidateCode(a, b) \/ PrefetchRange(a, b)
             \/ InvalidateLine \/ InvalidateAll \/ cmo_flush(LineNumbers)

CacheSpec == CacheInit /\ [][CacheNext]_cacheVars
-----------------------------------------------------------------------------
(* After an invalidation no byte of the range is older than at its call, for
   every alignment and length, and whatever the cache loads, keeps or evicts
   meanwhile or later.  (Stores made after the call may not be seen.) *)
RangeIsFresh ==
    ~Invalidating =>
      \A a \in Addrs : a >= range.addr /\ a < range.addr + range.bytes => View(a) >= asked[a]
=============================================================================
