-------------------------------- MODULE Pmu --------------------------------
(***************************************************************************)
(* common/pmu.c and include/common/pmu.h: an object for a performance      *)
(* monitor, whose operations are pointers that pmu_init() sets: to those   *)
(* of the BSP, or to ones that do nothing if the object is disabled or if  *)
(* the BSP fails.  bsp_pmu_init() is modelled from the arguments it is     *)
(* given: one that succeeds has set all the pointers, one that fails any   *)
(* of them.                                                                *)
(***************************************************************************)
EXTENDS Integers

CONSTANT UNSET \* the content of memory before pmu_init()

ASSUME PmuAssumption == UNSET \notin {"disabled", "bsp"}

Operations == {"start", "sample_and_stop", "accumulate", "display", "reset", "destroy"}

VARIABLES api,    \* the pointer of each operation
          usable, \* whether the BSP has initialized its part of the object
          called  \* where the last call went, and for which object (no code)

pmuVars == <<api, usable, called>>

NoCall == [to |-> "disabled", usable |-> FALSE]
PmuInit == /\ api = [o \in Operations |-> UNSET]
           /\ usable = FALSE /\ called = NoCall

__pmu_disabled == [o \in Operations |-> "disabled"]

(* pmu_init() of a disabled object *)
pmu_init_disabled == /\ api' = __pmu_disabled /\ usable' = FALSE
                     /\ UNCHANGED called

(* bsp_pmu_init() returns err, and has set the pointers of some operations. *)
bsp_pmu_init(err, some) == /\ err >= 0 => some = Operations
                           /\ usable' = (err >= 0)
Set(some) == [o \in Operations |-> IF o \in some THEN "bsp" ELSE api[o]]
pmu_init_unchecked(err, some) ==
    /\ bsp_pmu_init(err, some)
    /\ api' = Set(some)
    /\ UNCHANGED called
pmu_init(err, some) ==
    /\ bsp_pmu_init(err, some)
    /\ api' = IF err < 0 THEN __pmu_disabled ELSE Set(some)
    /\ UNCHANGED called

(* pmu_start(), ..., pmu_destroy(), of an object after its pmu_init() *)
pmu_call(o) == /\ \E p \in Operations : api[p] # UNSET
               /\ called' = [to |-> api[o], usable |-> usable]
               /\ UNCHANGED <<api, usable>>

PmuNext == \/ pmu_init_disabled
           \/ \E err \in {-1, 0}, some \in SUBSET Operations : pmu_init(err, some)
           \/ \E o \in Operations : pmu_call(o)

PmuSpec == PmuInit /\ [][PmuNext]_pmuVars
-----------------------------------------------------------------------------
(* However far a failing initialization came, and whatever the object was
   before: no call follows a pointer that was never set, one reaches the BSP
   only for an object that the BSP has initialized, and all the operations of
   an object do the same. *)
PmuIsWhole == /\ called.to # UNSET
              /\ called.to = "bsp" <=> called.usable
              /\ \A o, p \in Operations : api[o] = api[p]
=============================================================================
