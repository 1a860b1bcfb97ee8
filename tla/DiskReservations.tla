--------------------------- MODULE DiskReservations ---------------------------
(***************************************************************************)
(* The free-space ledger of backend/utils/disk_reservations.py, on one      *)
(* filesystem.  A long operation takes a lease on the bytes it is going to  *)
(* write, together with a floor of free space that has to stay; admission   *)
(* subtracts every outstanding lease.  Threads of many operations use the   *)
(* ledger under one lock, but their writes go on without it: `free` moves   *)
(* while an admission looks at it.                                          *)
(*                                                                         *)
(* Abstracted: sizes are small numbers; a file's bytes are visible to       *)
(* disk_usage as soon as they are written, which is what the docstrings of  *)
(* resize and reserve_disk_space ask of callers.                            *)
(***************************************************************************)
EXTENDS Integers, Bags, FiniteSets, FiniteSetsExt, Functions

CONSTANTS Leases,      \* the operations that take a lease
          Sizes,       \* the byte counts they ask for
          Floors,      \* the values of min_free_bytes
          Capacity,    \* free bytes at the start
          MaxOutside   \* bound: bytes other programs take during a run

ASSUME LeasesAssumption == IsFiniteSet(Leases)
ASSUME SizesAssumption == Sizes \subseteq Nat /\ Floors \subseteq Nat
ASSUME CapacityAssumption == Capacity \in Nat /\ MaxOutside \in Nat

VARIABLES free,       \* shutil.disk_usage().free
          lease,      \* each operation's DiskSpaceReservation
          reserved,   \* _reserved_bytes_by_device[device], 0 for no entry
          floors,     \* _reserve_floor_counts_by_device[device], as a bag
          admission,  \* who holds _reservation_lock, and what it has read
          outside,    \* bytes other programs have taken (ghost)
          owed        \* bytes that resizes promised since the last check (ghost)

reservationVars == <<free, lease, reserved, floors, admission, outside, owed>>

FreshLease(n, f) == [state |-> "live", bytes |-> n, floor |-> f, used |-> 0]
NoLease == [state |-> "none", bytes |-> 0, floor |-> 0, used |-> 0]
Nobody == [by |-> "nobody"]

LiveLease(l) == lease[l].state = "live"
LiveLeases == {l \in Leases : LiveLease(l)}

(* What a lease's operation is still allowed to write: it has already       *)
(* consumed `used` of its bytes.                                            *)
Outstanding(l) == lease[l].bytes - lease[l].used

(* The entry of floor f in the table, 0 for no entry. *)
CountIn(f, table) == IF BagIn(f, table) THEN table[f] ELSE 0

(* Over all the live leases: what was claimed, and what is left to write.   *)
ClaimedBytes == SumFunctionOnSet([l \in Leases |-> lease[l].bytes], LiveLeases)
OutstandingBytes == SumFunctionOnSet([l \in Leases |-> Outstanding(l)], LiveLeases)

-----------------------------------------------------------------------------
(* _other_reserve_floor: the largest floor in the ledger, the caller's own  *)
(* count taken out.                                                         *)
OtherFloor(own) == Max({0} \cup BagToSet(floors (-) own))

(* Faulty variant: only the caller's own floor is kept. *)
FitsOwnFloor(measured, other, required, floor, own) ==
    measured - other - required >= floor

(* The comparison both admissions end in. *)
Fits(measured, other, required, floor, own) ==
    measured - other - required >= Max({floor, OtherFloor(own)})

ReservationsInit ==
    /\ free = Capacity
    /\ lease = [l \in Leases |-> NoLease]
    /\ reserved = 0
    /\ floors = EmptyBag
    /\ admission = Nobody
    /\ outside = 0 /\ owed = 0

LockFree == admission = Nobody

(* reserve_disk_space takes the lock and reads disk_usage; so does a resize *)
(* that asks for more bytes or a higher floor.                              *)
Measure(l, n, f) ==
    /\ LockFree
    /\ lease[l].state = "none"
    /\ admission' = [by |-> "reserve", lease |-> l, bytes |-> n, floor |-> f, free |-> free]
    /\ UNCHANGED <<free, lease, reserved, floors, outside, owed>>

Grows(l, n, f) == n > lease[l].bytes \/ f > lease[l].floor

MeasureResize(l, n, f) ==
    /\ LockFree
    /\ LiveLease(l)
    /\ Grows(l, n, f)
    /\ admission' = [by |-> "resize", lease |-> l, bytes |-> n, floor |-> f, free |-> free]
    /\ UNCHANGED <<free, lease, reserved, floors, outside, owed>>

(* The ledger's side of a new lease. *)
Admit ==
    /\ admission.by = "reserve"
    /\ LET a == admission IN
       IF Fits(a.free, reserved, a.bytes, a.floor, EmptyBag)
       THEN /\ reserved' = reserved + a.bytes
            /\ floors' = floors (+) SetToBag({a.floor})
            /\ lease' = [lease EXCEPT ![a.lease] = FreshLease(a.bytes, a.floor)]
            /\ owed' = 0
       ELSE UNCHANGED <<reserved, floors, lease, owed>>  \* DiskSpaceReservationError
    /\ admission' = Nobody
    /\ UNCHANGED <<free, outside>>

(* The claim of lease l becomes n future bytes under floor f. *)
Replace(l, n, f) ==
    /\ reserved' = (reserved - lease[l].bytes) + n
    /\ floors' = (floors (-) SetToBag({lease[l].floor})) (+) SetToBag({f})
    /\ lease' = [lease EXCEPT ![l] = FreshLease(n, f)]

AdmitResize ==
    /\ admission.by = "resize"
    /\ LET a == admission
           own == lease[a.lease] IN
       IF Fits(a.free, reserved - own.bytes, a.bytes, a.floor, SetToBag({own.floor}))
       THEN Replace(a.lease, a.bytes, a.floor) /\ owed' = 0
       ELSE UNCHANGED <<reserved, floors, lease, owed>>  \* the old claim stays
    /\ admission' = Nobody
    /\ UNCHANGED <<free, outside>>

(* A resize that asks for nothing more is not checked against disk_usage,   *)
(* though what the claim was for may be written by now: the extraction of a *)
(* backend archive takes over the claim that its download has used up.      *)
Shrink(l, n, f) ==
    /\ LockFree
    /\ LiveLease(l)
    /\ ~Grows(l, n, f)
    /\ Replace(l, n, f)
    /\ owed' = owed + Max({0, n - Outstanding(l)})
    /\ UNCHANGED <<free, admission, outside>>

(* release, also from the finally blocks that find it already released.     *)
ReleaseLease(l) ==
    /\ LockFree
    /\ LiveLease(l)
    /\ reserved' = Max({0, reserved - lease[l].bytes})
    /\ floors' = floors (-) SetToBag({lease[l].floor})
    /\ lease' = [lease EXCEPT ![l].state = "released"]
    /\ UNCHANGED <<free, admission, outside, owed>>

-----------------------------------------------------------------------------
(* The leaseholders' own writes, which need no lock. *)

(* A leaseholder that is inside resize is not writing. *)
Resizing(l) == admission.by = "resize" /\ admission.lease = l

Write(l) ==
    /\ LiveLease(l) /\ ~Resizing(l)
    /\ Outstanding(l) > 0 /\ free > 0
    /\ free' = free - 1
    /\ lease' = [lease EXCEPT ![l].used = @ + 1]
    /\ UNCHANGED <<reserved, floors, admission, outside, owed>>

(* The bytes written since the last resize are deleted: on an error before  *)
(* the release, or with the finished file after it.  Files from before a    *)
(* resize stay; deleting them could only help.                              *)
Remove(l) ==
    /\ lease[l].used > 0 /\ ~Resizing(l)
    /\ free' = free + lease[l].used
    /\ lease' = [lease EXCEPT ![l].used = 0]
    /\ UNCHANGED <<reserved, floors, admission, outside, owed>>

OtherProgram ==
    /\ outside < MaxOutside /\ free > 0
    /\ free' = free - 1
    /\ outside' = outside + 1
    /\ UNCHANGED <<lease, reserved, floors, admission, owed>>

ReservationsNext ==
    \/ \E l \in Leases, n \in Sizes, f \in Floors :
          \/ Measure(l, n, f)
          \/ MeasureResize(l, n, f)
          \/ Shrink(l, n, f)
    \/ Admit
    \/ AdmitResize
    \/ \E l \in Leases : ReleaseLease(l) \/ Write(l) \/ Remove(l)
    \/ OtherProgram


-----------------------------------------------------------------------------
(* Properties. *)

Records == [state : {"none", "live", "released"}, bytes : Sizes \cup {0},
            floor : Floors \cup {0}, used : Nat]

(* Every variable has its type. *)
ReservationsTypeOK ==
    /\ free \in 0..Capacity
    /\ lease \in [Leases -> Records]
    /\ reserved \in Nat
    /\ IsABag(floors) /\ BagToSet(floors) \subseteq Floors
    /\ admission = Nobody
          \/ admission \in [by : {"reserve", "resize"}, lease : Leases, bytes : Sizes,
                            floor : Floors, free : 0..Capacity]
    /\ outside \in 0..MaxOutside /\ owed \in Nat

(* The two tables say exactly what the live leases say: the bytes are their *)
(* sum, the counts their floors with multiplicity.  A release or a resize   *)
(* that takes out another amount than was put in, once or twice, would let  *)
(* the ledger drift until it admits what does not fit or refuses for ever.  *)
LedgerExact ==
    /\ reserved = ClaimedBytes
    /\ \A f \in Floors :
          CountIn(f, floors) = Cardinality({l \in LiveLeases : lease[l].floor = f})

(* Whatever a lease may still write was checked to fit, below the floors of *)
(* all of them, and still fits: the floor every live lease asked for is     *)
(* left, short by no more than what other programs took and what resizes    *)
(* promised unchecked since the last check.                                 *)
PromiseKept ==
    \A l \in LiveLeases :
        free + outside + owed - OutstandingBytes >= lease[l].floor

(* The ledger is exact, and what it admitted is there to be written.        *)
LedgerKeepsPromises == ReservationsTypeOK /\ LedgerExact /\ PromiseKept

(* "Each long operation reserves its complete future allocation before it   *)
(* writes, and concurrent admission subtracts all outstanding reservations  *)
(* on the same filesystem": everything that was claimed can be written,     *)
(* and leaves every live lease its floor, but for what other programs took. *)
ClaimsFit ==
    \A l \in LiveLeases : free + outside - OutstandingBytes >= lease[l].floor

=============================================================================
